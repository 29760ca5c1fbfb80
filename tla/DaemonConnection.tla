-------------------------- MODULE DaemonConnection --------------------------
(***************************************************************************)
(* The connection of the GUI with the daemon (logiops-gui/                 *)
(* DaemonConnection.cpp) and the list of devices it fills (DeviceModel).   *)
(* Calls are asynchronous; the bus delivers to the GUI, in one order, the  *)
(* daemon's replies and signals and the changes of the name's owner.       *)
(*                                                                         *)
(* The daemon is modelled by what it promises: it changes its list and     *)
(* announces the change under one lock, but the devices of a receiver that *)
(* is unplugged leave the list before they are announced, and the object   *)
(* of a device lives on until its last user is gone. A method answers      *)
(* under the lock of the server, which the signals take; GetAll takes it   *)
(* for each property and answers without it (ipcgull/server_gdbus.cpp).    *)
(***************************************************************************)
EXTENDS Integers, Sequences, FiniteSets, SequencesExt

CONSTANTS DevicePaths, \* nicknames of devices: the numbers their paths end in
          MaxChanges, \* bound: changes of the daemon, its starts not counted
          MaxRetries  \* bound: presses of the button "Retry connection"

ASSUME DevicePathsAssumption == DevicePaths \subseteq Nat /\ IsFiniteSet(DevicePaths)

VARIABLES up,       \* the daemon owns its name
          allowed,  \* the bus lets this user call the daemon
          listed,   \* devices of the manager's and the receivers' lists
          nodes,    \* devices whose object answers
          leaving,  \* devices out of the list that are not announced yet
          power,    \* [awake, known]: state of a device and of its battery
          calls,    \* calls on their way to the daemon
          answer,   \* the properties read so far for a GetAll at their head
          mail,     \* replies and signals on their way to the GUI
          screen,   \* _screenState
          proxies,  \* the keys of _deviceProxies
          rows,     \* _rows of the DeviceModel
          failed,   \* history: an enumeration failed since the last teardown
          unread,   \* history: devices whose row a failed read has written
          overtaken, \* history: properties of devices that have changed since
                    \* the GetAll under way read them, and not since it ended
          changes,  \* changes of the daemon so far
          retries   \* retries so far

daemonVars == <<up, allowed, listed, nodes, leaving, power, changes, overtaken>>
guiVars    == <<screen, proxies, rows, failed, unread, retries>>
connVars   == <<daemonVars, calls, answer, mail, guiVars>>

ScreenState == {"Loading", "Populated", "Empty", "DaemonDown", "AccessDenied"}
Row         == [path : DevicePaths, state : {"Online", "Sleeping", "Offline"},
                known : BOOLEAN]
Connection(awake) == IF awake THEN "Online" ELSE "Sleeping"

Asleep == [awake |-> FALSE, known |-> FALSE]

\* What the GUI makes of a property that is missing.
Nothing == [read |-> 0, awake |-> TRUE, known |-> FALSE]

ConnTypeOK ==
    /\ up \in BOOLEAN /\ allowed \in BOOLEAN /\ failed \in BOOLEAN
    /\ listed \cup leaving \subseteq nodes /\ nodes \subseteq DevicePaths
    /\ power \in [DevicePaths -> [awake : BOOLEAN, known : BOOLEAN]]
    /\ answer \in [read : 0 .. 2, awake : BOOLEAN, known : BOOLEAN]
    /\ overtaken \subseteq DevicePaths \X {"awake", "known"}
    /\ screen \in ScreenState /\ proxies \cup unread \subseteq DevicePaths
    /\ \A n \in 1 .. Len(rows) : rows[n] \in Row
    /\ changes \in 0 .. MaxChanges /\ retries \in 0 .. MaxRetries

Enumeration == [kind |-> "enumerate"]
GetAll(p)   == [kind |-> "getAll", path |-> p]

\* The constructor has called enumerate().
ConnInit ==
    /\ up \in BOOLEAN /\ allowed \in BOOLEAN
    /\ listed \in SUBSET (IF up THEN DevicePaths ELSE {})
    /\ nodes = listed /\ leaving = {} /\ changes = 0
    /\ power = [p \in DevicePaths |-> Asleep]
    /\ calls = <<Enumeration>> /\ mail = << >> /\ answer = Nothing /\ overtaken = {}
    /\ screen = "Loading" /\ proxies = {} /\ rows = << >>
    /\ failed = FALSE /\ unread = {} /\ retries = 0

(***************************************************************************)
(* The daemon and the bus.                                                 *)
(***************************************************************************)

Tell(m) == mail' = Append(mail, m)

Change == up /\ changes < MaxChanges /\ changes' = changes + 1
       /\ UNCHANGED <<up, allowed, calls, answer, guiVars>>

\* The properties of p that the GetAll under way has read.
HasRead(p) ==
    IF calls = << >> \/ Head(calls) # GetAll(p) THEN {}
    ELSE {p} \X ((IF answer.read > 0 THEN {"awake"} ELSE {})
                 \cup (IF answer.read > 1 THEN {"known"} ELSE {}))
Changed(p, ks) == overtaken' = (overtaken \ ({p} \X ks)) \cup (HasRead(p) \cap ({p} \X ks))

DaemonAdds(p) ==
    /\ Change /\ p \notin nodes
    /\ listed' = listed \cup {p} /\ nodes' = nodes \cup {p}
    /\ \E awake \in BOOLEAN :
           power' = [power EXCEPT ![p] = [awake |-> awake, known |-> FALSE]]
    /\ Changed(p, {"awake", "known"})
    /\ Tell([kind |-> "added", path |-> p])
    /\ UNCHANGED leaving

\* removeDevice announces a device; a receiver that is unplugged leaves that
\* to its destructor.
DaemonRemoves(p) ==
    /\ Change /\ p \in listed
    /\ listed' = listed \ {p}
    /\ \/ Tell([kind |-> "removed", path |-> p]) /\ UNCHANGED leaving
       \/ leaving' = leaving \cup {p} /\ UNCHANGED mail
    /\ UNCHANGED <<nodes, power, overtaken>>

DaemonAnnounces(p) ==
    /\ p \in leaving
    /\ leaving' = leaving \ {p}
    /\ Tell([kind |-> "removed", path |-> p])
    /\ UNCHANGED <<up, allowed, listed, nodes, power, calls, answer, guiVars, changes,
                   overtaken>>

DaemonDestroys(p) ==
    /\ p \in nodes \ (listed \cup leaving)
    /\ nodes' = nodes \ {p}
    /\ UNCHANGED <<up, allowed, listed, leaving, power, calls, answer, mail, guiVars,
                   changes, overtaken>>

DevicePowers(p) ==
    /\ Change /\ p \in listed
    /\ \/ /\ power' = [power EXCEPT ![p].awake = ~@]
          /\ Tell([kind |-> "status", path |-> p, awake |-> power'[p].awake])
          /\ Changed(p, {"awake"})
       \/ /\ power' = [power EXCEPT ![p].known = TRUE]
          /\ Tell([kind |-> "battery", path |-> p, known |-> TRUE])
          /\ Changed(p, {"known"})
    /\ UNCHANGED <<listed, nodes, leaving>>

ErrorReply(call, name) ==
    IF call.kind = "enumerate" THEN [kind |-> "listError", name |-> name]
    ELSE [kind |-> "readError", path |-> call.path]

\* The bus announces that the name has no owner any more, and answers the
\* calls the daemon left.
DaemonStops ==
    /\ up /\ changes < MaxChanges /\ changes' = changes + 1
    /\ up' = FALSE /\ listed' = {} /\ nodes' = {} /\ leaving' = {}
    /\ power' = [p \in DevicePaths |-> Asleep] /\ answer' = Nothing /\ overtaken' = {}
    /\ mail' = Append(mail, [kind |-> "down"])
                 \o [n \in 1 .. Len(calls) |-> ErrorReply(calls[n], "NoReply")]
    /\ calls' = << >>
    /\ UNCHANGED <<allowed, guiVars>>

DaemonStarts ==
    /\ ~up /\ up' = TRUE
    /\ Tell([kind |-> "up"])
    /\ UNCHANGED <<allowed, listed, nodes, leaving, power, calls, answer, guiVars,
                   changes, overtaken>>

\* GetAll reads one property after the other, in the order of their names:
\* "Active", then "BatteryKnown". One that cannot be read is left out.
PropertyRead ==
    /\ calls # << >> /\ Head(calls).kind = "getAll" /\ up /\ allowed
    /\ LET p == Head(calls).path
       IN  \/ /\ answer.read = 0 /\ p \in nodes
              /\ answer' = [read |-> 1, awake |-> power[p].awake, known |-> FALSE]
           \/ /\ answer.read = 1
              /\ answer' = [read |-> 2, awake |-> answer.awake,
                            known |-> p \in nodes /\ power[p].known]
    /\ UNCHANGED <<daemonVars, calls, mail, guiVars>>

\* The next call is answered: by the bus when the daemon is absent or the
\* user is not allowed, and with an error when the object is gone or the
\* daemon does not answer in time.
CallAnswered ==
    /\ calls # << >> /\ calls' = Tail(calls) /\ answer' = Nothing
    /\ LET call == Head(calls)
       IN  \/ ~up /\ Tell(ErrorReply(call, "ServiceUnknown"))
           \/ up /\ ~allowed /\ Tell(ErrorReply(call, "AccessDenied"))
           \/ up /\ allowed /\ Tell(ErrorReply(call, "NoReply"))
           \/ /\ up /\ allowed /\ call.kind = "enumerate"
              /\ Tell([kind |-> "list", paths |-> listed])
           \/ /\ up /\ allowed /\ call.kind = "getAll" /\ answer.read = 2
              /\ Tell([kind |-> "read", path |-> call.path,
                       awake |-> answer.awake, known |-> answer.known])
    /\ UNCHANGED <<daemonVars, guiVars>>

(***************************************************************************)
(* DeviceModel: rows sorted by nickname.                                   *)
(***************************************************************************)

rowForPath(rs, p) == {n \in 1 .. Len(rs) : rs[n].path = p}

onDeviceAdded(rs, p, awake) ==
    IF rowForPath(rs, p) # {} THEN rs
    ELSE InsertAt(rs, Min({n \in 1 .. Len(rs) : p < rs[n].path} \cup {Len(rs) + 1}),
                  [path |-> p, state |-> Connection(awake), known |-> FALSE])

onDeviceRemoved(rs, p) ==
    IF rowForPath(rs, p) = {} THEN rs ELSE RemoveAt(rs, Min(rowForPath(rs, p)))

onConnectionStateChanged(rs, p, state) ==
    [n \in 1 .. Len(rs) |->
        IF rs[n].path = p THEN [rs[n] EXCEPT !.state = state] ELSE rs[n]]

onBatteryChanged(rs, p, known) ==
    [n \in 1 .. Len(rs) |->
        IF rs[n].path = p THEN [rs[n] EXCEPT !.known = known] ELSE rs[n]]

(***************************************************************************)
(* DaemonConnection. A handler may add devices, and call the daemon.       *)
(***************************************************************************)

recomputePopulation(s, ps) ==
    IF s \in {"DaemonDown", "AccessDenied"} THEN s
    ELSE IF ps = {} THEN "Empty" ELSE "Populated"

teardownProxies == proxies' = {} /\ rows' = << >> /\ failed' = FALSE

\* addDevice for the paths that have no proxy: each is read.
addDevices(ps) ==
    LET new == SetToSeq(ps \ proxies)
    IN  /\ proxies' = proxies \cup ps
        /\ calls' = calls \o [n \in 1 .. Len(new) |-> GetAll(new[n])]

EnumerateReplied(m) ==
    \/ /\ m.kind = "listError" /\ failed' = TRUE
       /\ screen' = IF m.name = "AccessDenied" THEN m.name ELSE "DaemonDown"
       /\ UNCHANGED <<proxies, rows, calls>>
    \/ /\ m.kind = "list" /\ m.paths = {}
       /\ screen' = "Empty"
       /\ UNCHANGED <<proxies, rows, calls, failed>>
    \/ /\ m.kind = "list" /\ m.paths # {}
       /\ addDevices(m.paths)
       /\ screen' = recomputePopulation(screen, proxies')
       /\ UNCHANGED <<rows, failed>>

ReadReplied(m) ==
    /\ m.kind \in {"read", "readError"}
    /\ IF m.path \notin proxies
       THEN /\ screen' = IF m.kind = "read" THEN screen
                         ELSE recomputePopulation(screen, proxies)
            /\ UNCHANGED rows
       ELSE /\ rows' =
                IF m.kind = "read"
                THEN onBatteryChanged(onDeviceAdded(rows, m.path, m.awake),
                                      m.path, m.known)
                ELSE onBatteryChanged(
                         onConnectionStateChanged(
                             onDeviceAdded(rows, m.path, FALSE),
                             m.path, "Offline"), m.path, FALSE)
            /\ screen' = recomputePopulation(screen, proxies)
    /\ unread' = IF m.kind = "readError" THEN unread \cup {m.path}
                 ELSE IF rowForPath(rows, m.path) = {} THEN unread \ {m.path}
                 ELSE unread
    /\ UNCHANGED <<proxies, calls, failed>>

SignalReceived(m) ==
    \/ /\ m.kind = "added" /\ addDevices({m.path})
       /\ UNCHANGED <<screen, rows, failed>>
    \/ /\ m.kind = "removed"
       /\ proxies' = proxies \ {m.path}
       /\ rows' = onDeviceRemoved(rows, m.path)
       /\ screen' = recomputePopulation(screen, proxies')
       /\ UNCHANGED <<calls, failed>>
    \/ /\ m.kind = "status" /\ m.path \in proxies
       /\ rows' = onConnectionStateChanged(rows, m.path, Connection(m.awake))
       /\ UNCHANGED <<screen, proxies, calls, failed>>
    \/ /\ m.kind = "battery" /\ m.path \in proxies
       /\ rows' = onBatteryChanged(rows, m.path, m.known)
       /\ UNCHANGED <<screen, proxies, calls, failed>>
    \/ /\ m.kind \in {"status", "battery"} /\ m.path \notin proxies
       /\ UNCHANGED <<screen, proxies, rows, calls, failed>>

onDaemonDown == teardownProxies /\ screen' = "DaemonDown" /\ UNCHANGED calls

\* Mutant: the list of the new daemon is not asked for.
UpWithoutEnumerating == teardownProxies /\ screen' = "Loading" /\ UNCHANGED calls

\* serviceOwnerChanged and serviceRegistered both tell of a new owner, and
\* each makes the GUI enumerate.
onDaemonUp == /\ teardownProxies /\ screen' = "Loading"
              /\ calls' = calls \o <<Enumeration, Enumeration>>

MailHandled ==
    /\ mail # << >> /\ mail' = Tail(mail)
    /\ LET m == Head(mail)
       IN  \/ EnumerateReplied(m) /\ UNCHANGED unread
           \/ ReadReplied(m)
           \/ SignalReceived(m) /\ UNCHANGED unread
           \/ m.kind = "down" /\ onDaemonDown /\ UNCHANGED unread
           \/ m.kind = "up" /\ onDaemonUp /\ UNCHANGED unread
    /\ UNCHANGED <<daemonVars, answer, retries>>

retry ==
    /\ retries < MaxRetries /\ retries' = retries + 1
    /\ teardownProxies /\ screen' = "Loading"
    /\ calls' = Append(calls, Enumeration)
    /\ UNCHANGED <<daemonVars, answer, mail, unread>>

ConnNext ==
    \/ \E p \in DevicePaths : \/ DaemonAdds(p) \/ DaemonRemoves(p)
                        \/ DaemonAnnounces(p) \/ DaemonDestroys(p)
                        \/ DevicePowers(p)
    \/ DaemonStops \/ DaemonStarts
    \/ PropertyRead
    \/ CallAnswered
    \/ MailHandled
    \/ retry

ConnSpec == ConnInit /\ [][ConnNext]_connVars

(***************************************************************************)
(* Properties.                                                             *)
(***************************************************************************)

ConnQuiet == calls = << >> /\ mail = << >>
RowPaths == {rows[n].path : n \in 1 .. Len(rows)}

\* Each row has the proxy that keeps it up to date, and the rows stay in the
\* order of the nicknames without a row for two.
RowsSubscribed ==
    /\ RowPaths \subseteq proxies
    /\ \A m, n \in 1 .. Len(rows) : m < n => rows[m].path < rows[n].path

\* Once all mail is handled and no enumeration has failed, the rows are the
\* devices of the daemon, each in the state the daemon has it in or "Offline"
\* when it could not be read; unless the last signal of a change went out
\* between the reading of the property and the reply to GetAll, which is older
\* and comes later.
RowsAreDevices ==
    ConnQuiet /\ up /\ ~failed =>
        /\ listed \subseteq RowPaths /\ RowPaths \subseteq listed \cup leaving
        /\ \A n \in 1 .. Len(rows) :
               LET p == rows[n].path
               IN  /\ \/ rows[n].state = Connection(power[p].awake)
                      \/ rows[n].state = "Offline" /\ p \in unread
                      \/ <<p, "awake">> \in overtaken
                   /\ \/ rows[n].known = power[p].known
                      \/ ~rows[n].known /\ p \in unread
                      \/ <<p, "known">> \in overtaken

\* The list never shows a device that is gone, nor one in a state it has left,
\* after everything the daemon sent is handled: however hotplug, sleep,
\* failing reads, retries and restarts of the daemon interleave.
ListTellsTruth == RowsSubscribed /\ RowsAreDevices

\* "Loading" is shown only while the answer to an enumeration is on its way,
\* and once all mail is handled the screen says what the daemon is like.
ScreenTellsTruth ==
    /\ screen = "Loading" =>
           \/ Enumeration \in ToSet(calls)
           \/ \E m \in ToSet(mail) : m.kind \in {"list", "listError", "up", "down"}
    /\ ConnQuiet =>
           /\ ~up => screen = "DaemonDown"
           /\ screen = "DaemonDown" => ~up \/ failed
           /\ up /\ ~failed =>
                  screen = IF proxies = {} THEN "Empty" ELSE "Populated"

\* Both: neither the list nor the screen around it tells of a daemon that is
\* not, however its answers, signals and restarts overtake one another.
ViewTellsTruth == ListTellsTruth /\ ScreenTellsTruth
=============================================================================
