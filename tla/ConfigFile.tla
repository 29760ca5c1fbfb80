----------------------------- MODULE ConfigFile -----------------------------
(***************************************************************************)
(* The configuration file: what Configuration (Configuration.cpp) loads    *)
(* from it at the start of the daemon, what save() writes back after       *)
(* edits, and what the next start finds (config/types.h and group.h give   *)
(* each type of schema.h its get and set). A list of the file is a         *)
(* sequence, an optional entry a set of at most one. Of a profile's        *)
(* settings two are kept: its dpi, one number or a list, and its presets.  *)
(* The file that a user wrote may hold an entry without a name, a name     *)
(* twice, a device without what a device must have, and wrong types.       *)
(***************************************************************************)
EXTENDS Naturals, Sequences, FiniteSetsExt, SequencesExt

CONSTANTS Models,         \* names of devices
          Sections,       \* names of profiles
          FirstSection,   \* "default"
          Handwritten,    \* the files that a user may have written
          MaxFileOps      \* bound: edits, saves and starts

ASSUME SectionAssumption == FirstSection \in Sections /\ "missing" \notin Models \cup Sections
ASSUME FileOpsAssumption == MaxFileOps \in Nat

\* A profile in a file, and a device, or a profile in the place of one.
FileSections ==
    [name : STRING, default : {"missing"}, profiles : {{}}, dpi : STRING, presets : SUBSET Seq(STRING)]
FileEntries ==
    [name : STRING, default : STRING, profiles : SUBSET Seq(FileSections), dpi : STRING,
     presets : SUBSET Seq(STRING)]

ASSUME HandwrittenAssumption ==
    \A f \in Handwritten :
        f.devices \in SUBSET Seq(FileEntries) /\ (\A x, y \in f.devices : x = y)

VARIABLES file,     \* the file's settings
          torn,     \* a save has opened it for writing and not finished
          tree,     \* _config, the settings that libconfig keeps
          memory,   \* *this
          written,  \* history: what the last save took from memory
          added,    \* devices added since the daemon started
          process,  \* "off", "on", "writing" or "refused"
          fileOps   \* edits, saves and starts so far

fileVars == <<file, torn, tree, memory, written, added, process, fileOps>>

NoFile == [devices |-> {}, ignore |-> {}]

-----------------------------------------------------------------------------
\* The dpi of a profile: no setting, an integer, a list, an empty list, or
\* (in a file only) a setting of another type. The list is tried after the
\* integer, and any scalar passes for a list of no elements.
LoadDpi(s) == IF s = "other" THEN "empty" ELSE s

\* Elements of the wrong type are left out: the k-th is the k-th good one.
LoadList(l) ==
    LET good == {i \in DOMAIN l : l[i] # "bad"}
    IN [k \in 1..Cardinality(good) |->
           l[CHOOSE i \in good : Cardinality({j \in good : j <= i}) = k]]

LoadProfile(e) == [dpi |-> LoadDpi(e.dpi), presets |-> {LoadList(l) : l \in e.presets}]

\* The first entry of each name; one without a name is left out.
FirstOf(l, n) == l[Min({i \in DOMAIN l : l[i].name = n})]
NamesIn(l)    == {l[i].name : i \in DOMAIN l} \ {"missing"}

\* A device needs its default_profile and profiles; anything else is taken
\* for a profile alone.
IsDevice(e) == e.default # "missing" /\ e.profiles # {}

LoadEntry(e) ==
    IF IsDevice(e)
    THEN LET l == CHOOSE x \in e.profiles : TRUE
         IN [kind |-> "device", default |-> e.default,
             profiles |-> [n \in NamesIn(l) |-> LoadProfile(FirstOf(l, n))]]
    ELSE [kind |-> "profile", default |-> FirstSection,
          profiles |-> [n \in {FirstSection} |-> LoadProfile(e)]]

\* Without a list of devices the constructor makes an empty one.
Load(f) ==
    LET l == UNION {ToSet(x) : x \in f.devices}
        q == IF f.devices = {} THEN <<>> ELSE CHOOSE x \in f.devices : TRUE
    IN [devices |-> [n \in {e.name : e \in l} \ {"missing"} |-> LoadEntry(FirstOf(q, n))],
        ignore  |-> f.ignore]

\* An optional without a value leaves its setting alone, in a new group: none.
SaveProfile(n, p) ==
    [name |-> n, default |-> "missing", profiles |-> {}, dpi |-> p.dpi, presets |-> p.presets]

SaveMap(entries) == SetToSeq(entries)

SaveEntry(n, d) ==
    IF d.kind = "device"
    THEN [name |-> n, default |-> d.default,
          profiles |-> {SaveMap({SaveProfile(s, d.profiles[s]) : s \in DOMAIN d.profiles})},
          dpi |-> "unset", presets |-> {}]
    ELSE SaveProfile(n, d.profiles[FirstSection])

Entries(m) == SaveMap({SaveEntry(n, m.devices[n]) : n \in DOMAIN m.devices})

\* Mutant: the elements of the old list are not removed.
SaveBehindOld(old, m) ==
    {(IF old.devices = {} THEN <<>> ELSE CHOOSE x \in old.devices : TRUE) \o Entries(m)}
\* A map replaces all elements of its list.
SaveDevices(old, m) == {Entries(m)}

-----------------------------------------------------------------------------
FileInit ==
    /\ file \in Handwritten
    /\ torn = FALSE
    /\ tree = NoFile
    /\ memory = Load(NoFile)
    /\ written = {}
    /\ added = {}
    /\ process = "off"
    /\ fileOps = 0

Begun == fileOps < MaxFileOps /\ fileOps' = fileOps + 1

\* Configuration's constructor. A file that a crash cut short is empty, and
\* is read as such, or does not parse, and the daemon does not start.
ReadFile ==
    /\ process = "off"
    /\ Begun
    /\ \/ ~torn /\ process' = "on" /\ tree' = file
       \/ torn /\ process' = "on" /\ tree' = NoFile
       \/ torn /\ process' = "refused" /\ UNCHANGED tree
    /\ memory' = IF process' = "on" THEN Load(tree') ELSE memory
    /\ UNCHANGED <<file, torn, written, added>>

NewProfile == [dpi |-> "unset", presets |-> {}]
NewDevice  == [kind |-> "device", default |-> FirstSection,
               profiles |-> [n \in {FirstSection} |-> NewProfile]]

Put(n, d) ==
    memory' = [memory EXCEPT !.devices =
        [x \in DOMAIN memory.devices \cup {n} |-> IF x = n THEN d ELSE memory.devices[x]]]

\* An edit on the dispatcher, which is busy while a save writes; a worker
\* (a button's ChangeProfile) is not held up.
EditDevice(n) ==
    /\ process = "on"
    /\ n \in added
    /\ Begun
    /\ UNCHANGED <<file, torn, tree, written, process, added>>

WithProfile(d, s, p) ==
    [d EXCEPT !.profiles = [x \in DOMAIN d.profiles \cup {s} |-> IF x = s THEN p ELSE d.profiles[x]]]

\* A device is added. _getConfig: a profile alone becomes a device, a device
\* without profiles gets one. Device::_init: the default profile exists.
GetConfig(n) ==
    /\ process \in {"on", "writing"}
    /\ n \notin added
    /\ Begun
    /\ added' = added \cup {n}
    /\ LET known == n \in DOMAIN memory.devices /\ DOMAIN memory.devices[n].profiles # {}
           d == IF known THEN [memory.devices[n] EXCEPT !.kind = "device"] ELSE NewDevice
       IN Put(n, IF d.default \in DOMAIN d.profiles THEN d ELSE WithProfile(d, d.default, NewProfile))
    /\ UNCHANGED <<file, torn, tree, written, process>>

\* DPI::IPC::setDPI: a number stays one unless another sensor is set; what
\* is not one becomes a list.
SetDpi(n, s) ==
    /\ EditDevice(n)
    /\ LET d == memory.devices[n]
       IN /\ s \in DOMAIN d.profiles
          /\ Put(n, WithProfile(d, s, [d.profiles[s] EXCEPT !.dpi = "list"]))

\* DPI::IPC::setPresets: no presets clear the setting.
SetPresets(n, s, l) ==
    /\ EditDevice(n)
    /\ LET d == memory.devices[n]
       IN /\ s \in DOMAIN d.profiles
          /\ Put(n, WithProfile(d, s, [d.profiles[s] EXCEPT !.presets = IF l = <<>> THEN {} ELSE {l}]))

\* setProfile inserts a profile that is not there.
InsertProfile(n, s) ==
    /\ process \in {"on", "writing"}
    /\ n \in added
    /\ Begun
    /\ s \notin DOMAIN memory.devices[n].profiles
    /\ Put(n, WithProfile(memory.devices[n], s, NewProfile))
    /\ UNCHANGED <<file, torn, tree, written, process, added>>

ClearProfile(n, s) ==
    /\ EditDevice(n)
    /\ s \in DOMAIN memory.devices[n].profiles
    /\ Put(n, WithProfile(memory.devices[n], s, NewProfile))

\* Refused for the profile that is active on the device that is asked, which
\* is not kept here: another device of the model can be asked to erase it.
EraseProfile(n, s) ==
    /\ EditDevice(n)
    /\ LET d == memory.devices[n]
       IN /\ s # d.default
          /\ Put(n, [d EXCEPT !.profiles = [x \in DOMAIN d.profiles \ {s} |-> d.profiles[x]]])

\* The property DefaultProfile; the profile need not exist.
SetDefault(n, s) == EditDevice(n) /\ Put(n, [memory.devices[n] EXCEPT !.default = s])

\* save(), once authorised: the settings are brought up to date. An element
\* of ignore is added as a group, which takes no number: save() fails.
Save ==
    /\ process = "on"
    /\ Begun
    /\ UNCHANGED <<file, memory, added>>
    /\ IF memory.ignore \in {{}, {{}}}
       THEN /\ tree' = [devices |-> SaveDevices(tree, memory), ignore |-> memory.ignore]
            /\ \/ process' = "writing" /\ torn' = TRUE /\ written' = {memory}
               \/ UNCHANGED <<process, torn, written>>
       ELSE /\ tree' = [devices |-> SaveDevices(tree, memory), ignore |-> {{}}]
            /\ UNCHANGED <<process, torn, written>>

\* writeFile ends.
Written ==
    /\ process = "writing"
    /\ process' = "on"
    /\ torn' = FALSE
    /\ file' = tree
    /\ UNCHANGED <<tree, memory, written, added, fileOps>>

\* The daemon is stopped, or crashes while it writes.
Stop ==
    /\ process \in {"on", "writing"}
    /\ process' = "off"
    /\ tree' = NoFile
    /\ memory' = Load(NoFile)
    /\ added' = {}
    /\ UNCHANGED <<file, torn, written, fileOps>>

FileNext ==
    \/ ReadFile \/ Save \/ Written \/ Stop
    \/ \E n \in Models :
          \/ GetConfig(n)
          \/ \E s \in Sections :
                \/ SetDpi(n, s)
                \/ \E l \in {<<>>, <<"400">>} : SetPresets(n, s, l)
                \/ InsertProfile(n, s) \/ ClearProfile(n, s) \/ EraseProfile(n, s) \/ SetDefault(n, s)

FileSpec == FileInit /\ [][FileNext]_fileVars

-----------------------------------------------------------------------------
(***************************************************************************)
(* What was saved is what the next start loads, whatever was edited in     *)
(* between and whatever the file held before that the schema does not      *)
(* read; unless the daemon was stopped while it wrote (save and the        *)
(* constructor of Configuration.cpp).                                      *)
(***************************************************************************)
SavedIsLoaded ==
    [][process = "off" /\ process' = "on" /\ ~torn => \A m \in written : memory' = m]_fileVars
=============================================================================
