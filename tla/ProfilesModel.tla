--------------------------- MODULE ProfilesModel ---------------------------
(***************************************************************************)
(* The profiles of a device in the GUI (logiops-gui/ProfilesModel.cpp).    *)
(* Every edit changes the list at once and calls the daemon; each reply    *)
(* makes the list be read again. The daemon cannot rename: the new profile *)
(* is made, its presence is read back, and only then is the old removed.   *)
(* What the daemon does is that of setProfile and removeProfile of         *)
(* src/logid/Device.cpp.                                                   *)
(***************************************************************************)
EXTENDS Naturals, Sequences, FiniteSets, SequencesExt

CONSTANTS Names,     \* names of profiles
          Standard,  \* default_profile
          MaxActs    \* bound: edits in a behaviour

ASSUME StandardAssumption == Standard \in Names
ASSUME NamesAssumption == IsFiniteSet(Names) /\ "" \notin Names

VARIABLES profiles,  \* the daemon's profiles
          current,   \* its active profile
          proCalls,  \* calls on their way to the daemon
          proMail,   \* replies on their way to the GUI
          names,     \* _names: the rows, in order
          active,    \* _active; "" where it could not be read
          default,   \* _default, likewise
          acts,      \* edits so far
          stale,     \* history: the last read of the three failed in part
          dropped,   \* history: names the user has removed or renamed away
          lost       \* history: a rename removed the old name without a new one

profileVars == <<profiles, current, proCalls, proMail, names, active, default,
                 acts, stale, dropped, lost>>

ProfileTypeOK ==
    /\ profiles \subseteq Names /\ {current, Standard} \subseteq profiles
    /\ ToSet(names) \subseteq Names /\ {active, default} \subseteq Names \cup {""}
    /\ \A m, n \in 1 .. Len(names) : m # n => names[m] # names[n]
    /\ acts \in 0 .. MaxActs /\ stale \in BOOLEAN
    /\ dropped \subseteq Names /\ lost \in BOOLEAN

SetProfile(n, from)     == [op |-> "set", name |-> n, from |-> from]
RemoveProfile(n, newer) == [op |-> "remove", name |-> n, newer |-> newer]
GetProfiles(rename)     == [op |-> "get", rename |-> rename]
NoRename == [old |-> Standard, new |-> Standard, created |-> FALSE]

\* The constructor's refresh() has been answered; the daemon starts with the
\* default profile.
ProfileInit ==
    /\ profiles \in {P \in SUBSET Names : Standard \in P}
    /\ current = Standard
    /\ names = SetToSeq(profiles) /\ active = current /\ default = Standard
    /\ proCalls = << >> /\ proMail = << >> /\ acts = 0
    /\ stale = FALSE /\ dropped = {} /\ lost = FALSE

(***************************************************************************)
(* The daemon takes the next call.                                         *)
(***************************************************************************)

Answer(c, ok, list) == proMail' = Append(proMail, [call |-> c, ok |-> ok, list |-> list])

\* setProfile may fail when it configures the device, the profile being set.
TakeSetProfile(c) ==
    /\ c.op = "set"
    /\ profiles' = profiles \cup {c.name} /\ current' = c.name
    /\ \E ok \in BOOLEAN : Answer(c, ok, {})
    /\ UNCHANGED lost

\* The active and the default profile are not removed.
TakeRemoveProfile(c) ==
    /\ c.op = "remove"
    /\ IF c.name \in {current, Standard}
       THEN Answer(c, FALSE, {}) /\ UNCHANGED <<profiles, lost>>
       ELSE /\ profiles' = profiles \ {c.name} /\ Answer(c, TRUE, {})
            /\ lost' = (lost \/ c.newer \notin profiles \cup dropped \cup {c.name})
    /\ UNCHANGED current

TakeGetProfiles(c) ==
    /\ c.op = "get"
    /\ \E ok \in BOOLEAN : Answer(c, ok, profiles)
    /\ UNCHANGED <<profiles, current, lost>>

\* The daemon is gone or does not answer: nothing is done.
TakeNothing(c) == /\ c.op \in {"set", "remove"} /\ Answer(c, FALSE, {})
                  /\ UNCHANGED <<profiles, current, lost>>

ProfileCallTaken ==
    /\ proCalls # << >> /\ proCalls' = Tail(proCalls)
    /\ LET c == Head(proCalls)
       IN  TakeSetProfile(c) \/ TakeRemoveProfile(c) \/ TakeGetProfiles(c)
           \/ TakeNothing(c)
    /\ UNCHANGED <<names, active, default, acts, stale, dropped>>

(***************************************************************************)
(* Edits.                                                                  *)
(***************************************************************************)

Act == acts < MaxActs /\ acts' = acts + 1
    /\ UNCHANGED <<profiles, current, proMail, default, stale, lost>>

Sends(cs) == proCalls' = proCalls \o cs

createProfile(n) ==
    /\ Act
    /\ names' = IF n \in ToSet(names) THEN names ELSE Append(names, n)
    /\ active' = n /\ Sends(<<SetProfile(n, n)>>)
    /\ UNCHANGED dropped

switchProfile(n) ==
    /\ Act /\ n \in ToSet(names)
    /\ active' = n /\ Sends(<<SetProfile(n, n)>>)
    /\ UNCHANGED <<names, dropped>>

\* Removing the active profile also switches to the first that is left.
removeProfile(n) ==
    /\ Act /\ Len(names) > 1
    /\ \E row \in 1 .. Len(names) : names[row] = n /\ names' = RemoveAt(names, row)
    /\ active' = IF active = n THEN Head(names') ELSE active
    /\ Sends(<<RemoveProfile(n, n)>>
             \o IF active = n THEN <<SetProfile(active', active')>> ELSE << >>)
    /\ dropped' = dropped \cup {n}

renameProfile(old, new) ==
    /\ Act /\ old \in ToSet(names) /\ new \notin ToSet(names)
    /\ names' = [i \in 1 .. Len(names) |-> IF names[i] = old THEN new ELSE names[i]]
    /\ active' = IF active = old THEN new ELSE active
    /\ Sends(<<SetProfile(new, old)>>)
    /\ dropped' = dropped \cup {old}

(***************************************************************************)
(* Replies.                                                                *)
(***************************************************************************)

refresh == Sends(<<GetProfiles(NoRename)>>)

\* performSetProfile and performRemoveProfile refresh whatever the reply; a
\* rename reads back whether its new profile is there.
WriteReplied(c, ok) ==
    /\ \/ c.op = "set" /\ c.from # c.name
          /\ Sends(<<GetProfiles([old |-> c.from, new |-> c.name, created |-> ok])>>)
       \/ c.op = "set" /\ c.from = c.name /\ refresh
       \/ c.op = "remove" /\ refresh
    /\ UNCHANGED <<names, active, default, stale>>

\* The active and the default profile are read with blocking calls while the
\* list is handled: the daemon answers what was sent before them first. A read
\* that fails gives an empty name.
seedProfiles(list) ==
    /\ names' = SetToSeq(list)
    /\ \E a, d \in BOOLEAN :
           /\ a \/ d => proCalls = << >>
           /\ active' = IF a THEN current ELSE ""
           /\ default' = IF d THEN Standard ELSE ""
           /\ stale' = ~(a /\ d)

GetReplied(c, ok, list) ==
    /\ c.op = "get"
    /\ IF ok THEN seedProfiles(list)
       ELSE stale' = TRUE /\ UNCHANGED <<names, active, default>>
    /\ Sends(IF c.rename.created /\ ok /\ c.rename.new \in list
             THEN <<RemoveProfile(c.rename.old, c.rename.new)>> ELSE << >>)

ProfileReplied ==
    /\ proMail # << >> /\ proMail' = Tail(proMail)
    /\ LET m == Head(proMail)
       IN  WriteReplied(m.call, m.ok) \/ GetReplied(m.call, m.ok, m.list)
    /\ UNCHANGED <<profiles, current, acts, dropped, lost>>

ProfileNext ==
    \/ \E n \in Names : createProfile(n) \/ switchProfile(n) \/ removeProfile(n)
    \/ \E old, new \in Names : renameProfile(old, new)
    \/ ProfileCallTaken
    \/ ProfileReplied

ProfileSpec == ProfileInit /\ [][ProfileNext]_profileVars

ProfileQuiet == proCalls = << >> /\ proMail = << >>

\* Once every call is answered and what was read last could be read, the rows,
\* the active mark and that of the default are the daemon's, however edits,
\* refusals and older reads of the list overlap; and no rename has removed a
\* profile before the new one was there, unless the user has ever removed or
\* renamed that one too: its removal may then come between the list that still
\* has it and the removal of the old name, and both are gone. Also where it has
\* been made again: after b is renamed to c and a to b, the list that lets b go
\* may be the one that confirms b for a.
ProfilesAreDaemons ==
    /\ ProfileQuiet /\ ~stale => /\ ToSet(names) = profiles /\ active = current
                                 /\ default = Standard
    /\ ~lost
=============================================================================
