--------------------------- MODULE ReceiverMonitor ---------------------------
(***************************************************************************)
(* The devices of a receiver (backend/hidpp10/ReceiverMonitor.cpp and      *)
(* src/logid/Receiver.cpp). The receiver reports every device that is      *)
(* paired, unpaired, found or lost; the I/O thread makes a task of each    *)
(* report, the workers start them in order, and _devices_change serialises *)
(* them in the order in which the workers get it. A device that is not     *)
(* ready is tried again after a backoff; one that times out is waited for. *)
(*                                                                         *)
(* The tasks hold the receiver they work for: when it is unplugged, the    *)
(* one that ends last destroys it.                                         *)
(***************************************************************************)
EXTENDS Naturals, Sequences

CONSTANTS Indices,    \* device indices of the receiver
          Supported,  \* those of HID++ 2.0 devices that are not ignored
          Workers,    \* worker threads
          MaxTries,   \* max_tries
          MaxEvents,  \* bound: changes of a link, and inputs, in a behaviour
          None        \* no task, no thread

ASSUME BoundsAssumption    == MaxTries \in Nat /\ MaxEvents \in Nat
ASSUME SupportedAssumption == Supported \subseteq Indices

VARIABLES link,       \* "unpaired", "off" or "on": what the receiver knows
          enumerating,\* devices enumerate() has still to report
          changes,    \* changes of a link, and inputs, so far
          sent,       \* number of reports that became tasks; orders them
          queue,      \* tasks that are due, in order
          later,      \* tasks that wait for their backoff
          job,        \* the task a worker runs
          pc,         \* how far it has come
          changing,   \* the owner of _devices_change
          devices,    \* _devices: the devices of the receiver
          awake,      \* those of them that are awake
          announced,  \* devices announced on the bus: added and not removed
          waiters,    \* _waiters: devices whose next report is waited for
          dropped,    \* the manager has dropped the receiver
          gone,       \* the receiver is destroyed
          latest,     \* history: the last report acted upon for a device
          disturbed,  \* history: devices with a failure or reordered reports
          timedOut    \* history: devices whose last addition timed out

world   == <<link, enumerating, changes>>
tasks   == <<sent, queue, later>>
threads == <<job, pc, changing>>
lists   == <<devices, awake, announced>>
life    == <<dropped, gone>>
history == <<latest, disturbed, timedOut>>
vars    == <<world, tasks, threads, lists, waiters, life, history>>

Links == {"unpaired", "off", "on"}
Tasks == [kind : {"add", "remove"}, index : Indices, established : BOOLEAN,
          tries : 0 .. MaxTries, id : Nat]

ASSUME NoneAssumption == None \notin Workers \cup Tasks

TypeOK ==
    /\ link \in [Indices -> Links]
    /\ changes \in 0 .. MaxEvents /\ sent \in Nat
    /\ queue \in Seq(Tasks) /\ later \subseteq Tasks
    /\ job \in [Workers -> Tasks \cup {None}]
    /\ pc \in [Workers -> {"idle", "start", "locked", "made", "added", "done"}]
    /\ changing \in Workers \cup {None}
    /\ \A w \in Workers : pc[w] \in {"locked", "made"} <=> changing = w
    /\ \A w \in Workers : pc[w] # "idle" => job[w] # None
    /\ awake \subseteq devices /\ devices \cup announced \subseteq Supported
    /\ waiters \cup disturbed \cup timedOut \cup enumerating \subseteq Indices
    /\ dropped \in BOOLEAN /\ gone \in BOOLEAN
    /\ latest \in [Indices -> Nat]

\* The constructor has set the notifications and _ready asks the receiver
\* to report its devices.
Init ==
    /\ link \in [Indices -> Links] /\ enumerating = Indices /\ changes = 0
    /\ sent = 0 /\ queue = << >> /\ later = {}
    /\ job = [w \in Workers |-> None] /\ pc = [w \in Workers |-> "idle"]
    /\ changing = None
    /\ devices = {} /\ awake = {} /\ announced = {}
    /\ waiters = {}
    /\ dropped = FALSE /\ gone = FALSE
    /\ latest = [i \in Indices |-> 0] /\ disturbed = {} /\ timedOut = {}

-----------------------------------------------------------------------------
(* Reports, on the I/O thread                                               *)

RunTask(k, i, e) ==
    /\ sent' = sent + 1
    /\ queue' = Append(queue, [kind |-> k, index |-> i, established |-> e,
                               tries |-> 0, id |-> sent + 1])
    /\ UNCHANGED later

\* Mutant: the bit of the link is not read.
ConnectedAnyway(l) == l \in Links

\* deviceConnectionEvent: is the link established?
Established(l) == l = "on"

\* _connect_ev_handler: a report for every device that is found or lost.
Report(i, l) ==
    IF l = "unpaired" THEN RunTask("remove", i, FALSE) ELSE RunTask("add", i, Established(l))

\* The receiver's answer to enumerate(): its paired devices.
Enumerated(i) ==
    /\ ~dropped /\ i \in enumerating
    /\ enumerating' = enumerating \ {i}
    /\ IF link[i] = "unpaired" THEN UNCHANGED tasks ELSE Report(i, link[i])
    /\ UNCHANGED <<link, changes, threads, lists, waiters, life, history>>

\* A device is paired or unpaired, switched on or off, comes or goes.
LinkChanges(i, l) ==
    /\ ~dropped /\ changes < MaxEvents
    /\ link[i] # l /\ ~(link[i] = "unpaired" /\ l = "off")
    /\ link' = [link EXCEPT ![i] = l]
    /\ changes' = changes + 1
    /\ Report(i, l)
    /\ UNCHANGED <<enumerating, threads, lists, waiters, life, history>>

\* A report of a device that is waited for, be it an input or a late answer.
Input(i) ==
    /\ ~dropped /\ changes < MaxEvents
    /\ link[i] = "on" /\ i \in waiters
    /\ changes' = changes + 1
    /\ RunTask("add", i, TRUE)
    /\ UNCHANGED <<link, enumerating, threads, lists, waiters, life, history>>

-----------------------------------------------------------------------------
(* A task                                                                   *)

Goto(w, l) == pc' = [pc EXCEPT ![w] = l]

\* A due task is the first of the queue, or one whose backoff is over. The
\* tasks of a receiver that is gone do nothing.
StartTask(w) ==
    /\ pc[w] = "idle"
    /\ \E t \in later \cup {queue[n] : n \in {m \in 1 .. Len(queue) : m = 1}} :
          /\ IF t \in later THEN later' = later \ {t} /\ UNCHANGED queue
             ELSE queue' = Tail(queue) /\ UNCHANGED later
          /\ IF gone THEN UNCHANGED <<job, pc>>
             ELSE job' = [job EXCEPT ![w] = t] /\ Goto(w, "start")
    /\ UNCHANGED <<world, sent, changing, lists, waiters, life, history>>

\* Mutant: a removal does not wait for an addition under way.
LockFreeOrRemoving(w) == changing = None \/ job[w].kind = "remove"

\* _devices_change can be had.
LockFree(w) == w \in Workers /\ changing = None

LockDevices(w) ==
    /\ pc[w] = "start" /\ LockFree(w)
    /\ changing' = w
    /\ Goto(w, "locked")
    /\ LET t == job[w]
       IN  /\ latest' = [latest EXCEPT ![t.index] = IF t.id > @ THEN t.id ELSE @]
           /\ disturbed' = IF t.id < latest[t.index] THEN disturbed \cup {t.index} ELSE disturbed
           /\ timedOut' = timedOut \ {t.index}
    /\ UNCHANGED <<world, tasks, job, lists, waiters, life>>

At(w, k) == pc[w] = "locked" /\ job[w].kind = k
Index(w) == job[w].index

\* addDevice or removeDevice ends and gives the lock back.
Leave(w, l) == changing' = None /\ Goto(w, l) /\ UNCHANGED job

Disturb(w) == disturbed' = disturbed \cup {Index(w)} /\ UNCHANGED latest

\* The device is there: it wakes up or goes to sleep.
KnownDevice(w) ==
    /\ At(w, "add") /\ Index(w) \in devices
    /\ awake' = IF job[w].established THEN awake \cup {Index(w)} ELSE awake \ {Index(w)}
    /\ Leave(w, "added")
    /\ UNCHANGED <<world, tasks, devices, announced, waiters, life, history>>

\* It is not there and has no link, or is ignored, or speaks HID++ 1.0.
NothingToAdd(w) ==
    /\ At(w, "add") /\ Index(w) \notin devices
    /\ ~job[w].established \/ Index(w) \notin Supported
    /\ Leave(w, "added")
    /\ UNCHANGED <<world, tasks, lists, waiters, life, history>>

\* A transfer is due: the wakeup of a known device or the probe of a new one.
Transfers(w) == At(w, "add") /\ job[w].established

\* The last transfer of the probe, and of the constructor, is answered.
Probe(w) ==
    /\ Transfers(w) /\ Index(w) \in Supported \ devices
    /\ link[Index(w)] = "on" /\ ~dropped
    /\ Goto(w, "made")
    /\ UNCHANGED <<world, tasks, job, changing, lists, waiters, life, history>>

\* Under the manager's lock: list the new device and announce it.
Emplace(w) ==
    /\ pc[w] = "made"
    /\ devices' = devices \cup {Index(w)}
    /\ awake' = awake \cup {Index(w)}
    /\ announced' = announced \cup {Index(w)}
    /\ Leave(w, "added")
    /\ UNCHANGED <<world, tasks, waiters, life, history>>

\* A HID++ error: addDevice logs it and returns.
AddRefused(w) ==
    /\ Transfers(w) /\ Index(w) \in Supported
    /\ Disturb(w) /\ UNCHANGED timedOut
    /\ Leave(w, "added")
    /\ UNCHANGED <<world, tasks, lists, waiters, life>>

\* TimeoutError: addDevice lets waitForDevice install a handler and returns.
AddTimesOut(w) ==
    /\ Transfers(w) /\ Index(w) \in Supported
    /\ waiters' = waiters \cup {Index(w)}
    /\ timedOut' = timedOut \cup {Index(w)}
    /\ Disturb(w)
    /\ Leave(w, "added")
    /\ UNCHANGED <<world, tasks, lists, life>>

\* After addDevice has returned: nobody waits for the device any longer.
EraseWaiter(w) ==
    /\ pc[w] = "added"
    /\ waiters' = waiters \ {Index(w)}
    /\ Goto(w, "done")
    /\ UNCHANGED <<world, tasks, job, changing, lists, life, history>>

\* Try again after a backoff, until max_tries.
Retry(t) ==
    IF t.tries = MaxTries THEN UNCHANGED later
    ELSE later' = later \cup {[t EXCEPT !.tries = @ + 1]}

\* DeviceNotReady leaves addDevice: the version is unstable.
AddNotReady(w) ==
    /\ Transfers(w) /\ Index(w) \in Supported \ devices
    /\ Retry(job[w])
    /\ IF job[w].tries = MaxTries THEN Disturb(w) ELSE UNCHANGED <<latest, disturbed>>
    /\ Leave(w, "done")
    /\ UNCHANGED <<world, sent, queue, lists, waiters, life, timedOut>>

\* Any other exception leaves addDevice and is logged.
AddFails(w) ==
    /\ Transfers(w) /\ Index(w) \in Supported
    /\ Disturb(w) /\ UNCHANGED timedOut
    /\ Leave(w, "done")
    /\ UNCHANGED <<world, tasks, lists, waiters, life>>

\* removeDevice.
RemoveDevice(w) ==
    /\ At(w, "remove")
    /\ devices' = devices \ {Index(w)}
    /\ awake' = awake \ {Index(w)}
    /\ announced' = announced \ {Index(w)}
    /\ Leave(w, "done")
    /\ UNCHANGED <<world, tasks, waiters, life, history>>

-----------------------------------------------------------------------------
(* The end of the receiver                                                  *)

\* ~Receiver retracts the devices that are listed.
Destroy ==
    /\ gone' = TRUE
    /\ devices' = {} /\ awake' = {} /\ announced' = announced \ devices

\* The task ends and releases the receiver.
EndTask(w) ==
    /\ pc[w] = "done"
    /\ Goto(w, "idle")
    /\ job' = [job EXCEPT ![w] = None]
    /\ IF dropped /\ \A v \in Workers \ {w} : pc[v] = "idle" THEN Destroy
       ELSE UNCHANGED <<gone, lists>>
    /\ UNCHANGED <<world, tasks, changing, waiters, dropped, history>>

\* The receiver is unplugged and DeviceManager::removeDevice drops it.
Drop ==
    /\ ~dropped /\ dropped' = TRUE
    /\ IF \A v \in Workers : pc[v] = "idle" THEN Destroy ELSE UNCHANGED <<gone, lists>>
    /\ UNCHANGED <<world, tasks, threads, waiters, history>>

Work(w) ==
    \/ LockDevices(w)
    \/ KnownDevice(w) \/ NothingToAdd(w) \/ Probe(w) \/ Emplace(w)
    \/ AddRefused(w) \/ AddTimesOut(w) \/ EraseWaiter(w)
    \/ AddNotReady(w) \/ AddFails(w)
    \/ RemoveDevice(w)
    \/ EndTask(w)

Next ==
    \/ \E i \in Indices : Enumerated(i) \/ Input(i) \/ \E l \in Links : LinkChanges(i, l)
    \/ \E w \in Workers : StartTask(w) \/ Work(w)
    \/ Drop

Spec == Init /\ [][Next]_vars

\* The receiver answers enumerate(), the workers run, a transfer ends.
FairSpec ==
    /\ Spec
    /\ \A i \in Indices : WF_vars(Enumerated(i))
    /\ \A w \in Workers : WF_vars(StartTask(w)) /\ WF_vars(Work(w))

-----------------------------------------------------------------------------
\* A removal of i that is queued or runs.
Removing(t, i) == t # None /\ t.kind = "remove" /\ t.index = i
RemovalPending(i) ==
    \/ \E n \in 1 .. Len(queue) : Removing(queue[n], i)
    \/ \E w \in Workers : Removing(job[w], i)

(***************************************************************************)
(* A device that is no longer paired does not stay in the list: a removal  *)
(* waits for an addition under way, and an addition that comes after it    *)
(* gets no answer from the device, in whatever order the tasks run. And a  *)
(* device announced on the bus is retracted when its receiver is gone,     *)
(* also when an addition outlives the receiver in the manager's map.       *)
(***************************************************************************)
NoGhost ==
    /\ \A i \in devices : link[i] = "unpaired" => RemovalPending(i) \/ dropped
    /\ announced = IF gone THEN {} ELSE devices

\* What the link of device i says about its entry.
EntryMatches(i) ==
    /\ link[i] = "on" => i \in awake
    /\ link[i] = "off" => i \notin awake
    /\ link[i] = "unpaired" => i \notin devices

(***************************************************************************)
(* When the reports have been dealt with, a device with a link is listed   *)
(* and awake, one without is asleep or not listed, and an unpaired one is  *)
(* not listed, unless a transfer with that device failed for good or two   *)
(* workers acted on its reports in the wrong order. Retries come to an end *)
(* and exceptions leave no lock behind.                                    *)
(***************************************************************************)
ListFollowsLink ==
    \A i \in Supported : <>[](EntryMatches(i) \/ i \in disturbed \/ dropped)

\* No task is queued or runs.
Settled == queue = << >> /\ later = {} /\ \A w \in Workers : pc[w] = "idle"

(***************************************************************************)
(* A device whose addition has timed out is waited for, as Receiver.cpp    *)
(* says in its log: its next input starts another attempt.                 *)
(***************************************************************************)
TimedOutIsWaitedFor == Settled /\ ~gone => timedOut \subseteq waiters
=============================================================================
