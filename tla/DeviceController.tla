-------------------------- MODULE DeviceController --------------------------
(***************************************************************************)
(* The settings of the selected device in the GUI (logiops-gui/            *)
(* DeviceController.cpp, DeviceControllerFactory.cpp) and what is saved of *)
(* them (ConfigState.cpp). A setter shows its value at once and sends it   *)
(* without waiting; the values read when the device was selected arrive    *)
(* when they arrive. The DPI is read back after it is set; nothing else    *)
(* is. A flag says that something is not on disk yet.                      *)
(*                                                                         *)
(* Three kinds of setting: "dpi" (0 is none), "presets" (the list is       *)
(* pushed as a whole) and "toggle" (2 on, 1 off, 0 not said), which stands *)
(* for the setters of SmartShift, of the wheel and of the thumb wheel.     *)
(* What the daemon keeps is what it was told (features/DPI.cpp,            *)
(* SmartShift.cpp); the sensor has the nearest value there is. Bus and     *)
(* daemon keep the order of calls.                                         *)
(***************************************************************************)
EXTENDS Naturals, Sequences, FiniteSets

CONSTANTS Dpis,       \* values a user may ask for
          MaxDpi,     \* the sensor's largest
          MaxSteps    \* bound: inputs of the user in a behaviour

ASSUME MaxDpiAssumption == MaxDpi \in Nat \ {0}

VARIABLES live,     \* the daemon's settings of the device
          sensor,   \* the DPI that its sensor has
          disk,     \* the settings in the configuration file
          ctlCalls, \* calls on their way to the daemon
          ctlMail,  \* replies on their way to the GUI
          session,  \* number of the selection; 0 when no device is selected
          ready,    \* the introspection of this selection has been applied
          values,   \* the values shown
          dirty,    \* ConfigState: _dirty
          saving,   \* ConfigState: _saving
          steps,    \* inputs so far
          unsure,   \* history: settings whose value may not be the daemon's
          behind,   \* history: the last transfer of a DPI failed
          overlap,  \* history: the last change was made while a save was pending
          emptied   \* history: a ClearProfile failed after it had emptied the
                    \* profile, and no save was made since

controllerVars == <<live, sensor, disk, ctlCalls, ctlMail, session, ready, values,
                    dirty, saving, steps, unsure, behind, overlap, emptied>>
daemonParts == <<live, sensor, disk, behind, emptied>>

Fields   == {"dpi", "toggle", "presets"}
Snap(v)  == IF v > MaxDpi THEN MaxDpi ELSE v     \* getClosestDPI
Defaults == [dpi |-> 0, toggle |-> 0, presets |-> << >>]
Blank    == [dpi |-> 0, toggle |-> FALSE, presets |-> << >>]
FactoryDpi == 1

ControllerTypeOK ==
    /\ live.dpi \in Dpis \cup {0} /\ sensor \in 1 .. MaxDpi
    /\ values.dpi \in Dpis \cup 0 .. MaxDpi
    /\ live.toggle \in 0 .. 2 /\ values.toggle \in BOOLEAN
    /\ session \in 0 .. MaxSteps + 1 /\ steps \in 0 .. MaxSteps
    /\ ready \in BOOLEAN /\ dirty \in BOOLEAN /\ saving \in BOOLEAN
    /\ unsure \subseteq Fields /\ {behind, overlap, emptied} \subseteq BOOLEAN

CtlCall(op, x)   == [op |-> op, x |-> x, by |-> session]

\* A device has been selected: its controller introspects.
ControllerInit ==
    /\ live = [Defaults EXCEPT !.toggle = 2, !.presets = <<MaxDpi>>]
    /\ sensor = FactoryDpi /\ disk = live
    /\ ctlCalls = <<[op |-> "introspect", x |-> 0, by |-> 1]>> /\ ctlMail = << >>
    /\ session = 1 /\ ready = FALSE /\ values = Blank
    /\ dirty = FALSE /\ saving = FALSE /\ steps = 0
    /\ unsure = {} /\ behind = FALSE /\ overlap = FALSE /\ emptied = FALSE

(***************************************************************************)
(* The daemon takes the next call. A write may be lost, a read may time    *)
(* out, and the device may not answer.                                     *)
(***************************************************************************)

Returned(c, ok, v) == ctlMail' = Append(ctlMail, [call |-> c, ok |-> ok, value |-> v])

StoredAs(f, v) == IF f = "toggle" THEN IF v THEN 2 ELSE 1 ELSE v

\* The setting is changed first; the transfer that follows may fail, before or
\* after the device has the value. Nobody looks at the reply.
TellSensor(v) ==
    \/ sensor' = Snap(v) /\ behind' = FALSE
    \/ sensor' \in {sensor, Snap(v)} /\ behind' = TRUE

TakeWrite(c) ==
    /\ c.op = "set"
    /\ \/ /\ live' = [live EXCEPT ![c.x.field] = StoredAs(c.x.field, c.x.value)]
          /\ IF c.x.field = "dpi" THEN TellSensor(c.x.value) ELSE UNCHANGED <<sensor, behind>>
          /\ UNCHANGED unsure
       \/ /\ UNCHANGED <<live, sensor, behind>>
          /\ unsure' = IF c.x.field = "dpi" THEN unsure ELSE unsure \cup {c.x.field}
    /\ UNCHANGED <<disk, ctlMail, emptied>>

\* getDPI returns what was asked for, and asks the sensor where nothing was.
getDPI == IF live.dpi = 0 THEN sensor ELSE live.dpi
Got(f) == IF f = "dpi" THEN getDPI ELSE live[f]

\* The answer for a toggle that is off: SmartShift's is 1.
Answers(f) == IF f = "toggle" /\ live.toggle = 1 THEN {0, 1} ELSE {Got(f)}

TakeRead(c) ==
    /\ c.op \in {"introspect", "get"}
    /\ \/ c.op = "introspect" /\ Returned(c, TRUE, 0) /\ UNCHANGED unsure
       \/ /\ c.op = "get"
          /\ \E v \in Answers(c.x) :
                /\ Returned(c, TRUE, v)
                /\ unsure' = IF c.x = "toggle" /\ v = 1 THEN unsure \cup {c.x} ELSE unsure
       \/ /\ Returned(c, FALSE, 0)
          /\ unsure' = IF c.op = "get" THEN unsure \cup {c.x} ELSE unsure
    /\ UNCHANGED daemonParts

TakeSave(c) ==
    /\ c.op = "save"
    /\ \/ disk' = live /\ emptied' = FALSE /\ Returned(c, TRUE, 0)
       \/ UNCHANGED <<disk, emptied>> /\ Returned(c, FALSE, 0)
    /\ UNCHANGED <<live, sensor, behind, unsure>>

\* ClearProfile and SetProfile replace all settings of the device before they
\* configure it (which may reset it first): an error may come with the change
\* made. Or nothing is done.
TakeProfile(c) ==
    /\ c.op \in {"clear", "profile"}
    /\ \/ /\ live' = Defaults /\ sensor' \in {sensor, FactoryDpi} /\ unsure' = Fields
          /\ \/ Returned(c, TRUE, 0) /\ UNCHANGED emptied
             \/ Returned(c, FALSE, 0) /\ emptied' = (emptied \/ c.op = "clear")
       \/ UNCHANGED <<live, sensor, unsure, emptied>> /\ Returned(c, FALSE, 0)
    /\ UNCHANGED <<disk, behind>>

ControllerCallTaken ==
    /\ ctlCalls # << >> /\ ctlCalls' = Tail(ctlCalls)
    /\ LET c == Head(ctlCalls)
       IN  TakeWrite(c) \/ TakeRead(c) \/ TakeSave(c) \/ TakeProfile(c)
    /\ UNCHANGED <<session, ready, values, dirty, saving, steps, overlap>>

(***************************************************************************)
(* Inputs of the user.                                                     *)
(***************************************************************************)

OneMore == steps < MaxSteps /\ steps' = steps + 1
     /\ UNCHANGED <<daemonParts, ctlMail>>

markDirty == dirty' = TRUE /\ overlap' = saving

\* The initial read of a setting has not been handled.
Unseeded(f) ==
    \/ \E n \in 1 .. Len(ctlCalls) : ctlCalls[n] = CtlCall("get", f)
    \/ \E n \in 1 .. Len(ctlMail) : ctlMail[n].call = CtlCall("get", f)

Write(f, v) == CtlCall("set", [field |-> f, value |-> v])
Edited(f, v, cs) ==
    /\ OneMore /\ ready /\ session # 0
    /\ values' = [values EXCEPT ![f] = v]
    /\ ctlCalls' = ctlCalls \o cs
    /\ unsure' = IF f # "dpi" /\ Unseeded(f) THEN unsure \cup {f} ELSE unsure
    /\ markDirty
    /\ UNCHANGED <<session, ready, saving>>

\* Mutant: the DPI the daemon chose is not read back.
SetDpiUnread(v) == Edited("dpi", v, <<Write("dpi", v)>>)

setDpi(v) == Edited("dpi", v, <<Write("dpi", v), CtlCall("get", "dpi")>>)
setToggle(v) == Edited("toggle", v, <<Write("toggle", v)>>)

\* Every change of the presets funnels into syncPresets.
syncPresets(list) == Edited("presets", list, <<Write("presets", list)>>)
addPreset(v) == Len(values.presets) < 2 /\ syncPresets(Append(values.presets, v))
removePreset == values.presets # << >> /\ syncPresets(Tail(values.presets))

save ==
    /\ OneMore /\ ~saving
    /\ saving' = TRUE /\ ctlCalls' = Append(ctlCalls, CtlCall("save", 0))
    /\ UNCHANGED <<session, ready, values, dirty, unsure, overlap>>

restoreDefaults ==
    /\ OneMore /\ session # 0
    /\ ctlCalls' = Append(ctlCalls, CtlCall("clear", 0))
    /\ UNCHANGED <<session, ready, values, dirty, saving, unsure, overlap>>

\* ProfilesModel switches the profile: nothing tells the controller.
profileSwitched ==
    /\ OneMore /\ session # 0
    /\ ctlCalls' = Append(ctlCalls, CtlCall("profile", 0))
    /\ markDirty
    /\ UNCHANGED <<session, ready, values, saving, unsure>>

\* Another row is selected, or none: the controller is deleted with the
\* watchers of its replies.
selectDevice(selected) ==
    /\ OneMore
    /\ session' = IF selected THEN steps + 2 ELSE 0
    /\ session # session' /\ ready' = FALSE /\ values' = Blank /\ unsure' = {}
    /\ ctlCalls' = IF selected
                   THEN Append(ctlCalls, [op |-> "introspect", x |-> 0, by |-> session'])
                   ELSE ctlCalls
    /\ UNCHANGED <<dirty, saving, overlap>>

(***************************************************************************)
(* Replies.                                                                *)
(***************************************************************************)

applyIntrospection(ok) ==
    /\ ready' = ok
    /\ ctlCalls' = IF ok THEN ctlCalls \o <<CtlCall("get", "dpi"),
                             CtlCall("get", "presets"), CtlCall("get", "toggle")>>
                   ELSE ctlCalls
    /\ UNCHANGED <<values, dirty, saving>>

\* SmartShift: any answer but "not said" is taken for on, also 1.
seed(f, ok, v) ==
    /\ values' = IF ok THEN [values EXCEPT ![f] = IF f = "toggle" THEN v # 0 ELSE v] ELSE values
    /\ UNCHANGED <<ready, ctlCalls, dirty, saving>>

\* Mutant: a save that failed clears the flag too.
SaveAlwaysCleans(ok) == /\ saving' = FALSE /\ dirty' = FALSE
                        /\ UNCHANGED <<ready, ctlCalls, values>>

onSaveReplied(ok) == /\ saving' = FALSE
                     /\ dirty' = IF ok THEN FALSE ELSE dirty
                     /\ UNCHANGED <<ready, ctlCalls, values>>

onClearReplied(ok) == /\ dirty' = (dirty \/ ok)
                      /\ UNCHANGED <<ready, ctlCalls, values, saving>>

Ignored == UNCHANGED <<ready, ctlCalls, values, dirty, saving>>

ControllerReplied ==
    /\ ctlMail # << >> /\ ctlMail' = Tail(ctlMail)
    /\ LET c  == Head(ctlMail).call
           ok == Head(ctlMail).ok
       IN  \/ c.op = "introspect" /\ c.by = session /\ applyIntrospection(ok)
           \/ c.op = "get" /\ c.by = session /\ seed(c.x, ok, Head(ctlMail).value)
           \/ c.op \in {"introspect", "get"} /\ c.by # session /\ Ignored
           \/ c.op = "save" /\ onSaveReplied(ok)
           \/ c.op = "clear" /\ onClearReplied(ok)
           \/ c.op = "profile" /\ Ignored
    /\ UNCHANGED <<daemonParts, session, steps, unsure, overlap>>

ControllerNext ==
    \/ \E v \in Dpis : setDpi(v) \/ addPreset(v)
    \/ \E v \in BOOLEAN : setToggle(v) \/ selectDevice(v)
    \/ removePreset \/ save \/ restoreDefaults \/ profileSwitched
    \/ ControllerCallTaken
    \/ ControllerReplied

ControllerSpec == ControllerInit /\ [][ControllerNext]_controllerVars

ControllerQuiet == ctlCalls = << >> /\ ctlMail = << >>

\* The value that the page should show.
Told(f) == IF f = "toggle" THEN live.toggle = 2 ELSE Got(f)

\* Once every call is answered, each value shown is the daemon's, and the sensor
\* has the nearest to the DPI shown, unless the write was lost or the read
\* unanswered, the profile was switched or cleared, or (save for the DPI, which
\* is read back) it was changed before the value read at the selection had
\* arrived; unless SmartShift was off when it was read, which shows as on; and
\* for the sensor, unless the last transfer of a DPI failed.
ValuesAreDaemons ==
    ControllerQuiet /\ ready =>
        /\ \A f \in Fields \ unsure : values[f] = Told(f)
        /\ "dpi" \notin unsure /\ ~behind => sensor = Snap(values.dpi)

\* Once every call is answered, a device without unsaved changes has its
\* settings on disk, unless the last change was made while a save was pending
\* (the reply to the save clears the flag of the change too) or a ClearProfile
\* failed after it had emptied the profile (its reply leaves the flag alone) and
\* no save was made since.
CleanIsSaved == ControllerQuiet /\ ~dirty /\ ~overlap /\ ~emptied => disk = live
=============================================================================
