----------------------------- MODULE DaemonLocks -----------------------------
(***************************************************************************)
(* The locks that the daemon's threads share, and the order in which its   *)
(* operations take them.                                                   *)
(*                                                                         *)
(* Every call from the bus is dispatched with ipcgull's server lock held,  *)
(* and every signal, new interface and dropped interface takes that lock   *)
(* from under the locks of the daemon.  The dispatcher therefore takes     *)
(* the locks in the opposite order of the workers.  The tree of ipcgull's  *)
(* nodes has a lock of its own, which a new interface takes after the      *)
(* server's and a node that goes away before it.  Transfers are answered   *)
(* through the I/O thread, which cannot read an answer while it waits for  *)
(* a lock itself.                                                          *)
(*                                                                         *)
(* An operation is the sequence of what it does to locks, transfers and    *)
(* the authorization prompt; its other effects are in the modules of its   *)
(* component.                                                              *)
(***************************************************************************)
EXTENDS Naturals, Sequences

CONSTANTS Bus,      \* the main loop that dispatches calls from the bus
          IO,       \* the I/O thread
          Workers,  \* the worker threads of util/task.cpp
          None,
          MaxOps    \* bound: operations of a behaviour

ASSUME ThreadsAssumption == Bus # IO /\ {Bus, IO} \cap Workers = {} /\ None \notin {Bus, IO} \cup Workers
ASSUME BoundAssumption   == MaxOps \in Nat

Threads == {Bus, IO} \cup Workers

\* server: ipcgull's server_lock; hierarchy: node::_hierarchy_lock of the tree
\* below "devices"; map: DeviceManager::_map_lock; devices:
\* Receiver::_devices_change; pair: ReceiverMonitor::_pair_mutex; profile and state: Device::_profile_mutex and
\* _state_lock; buttons: RemapButton::_button_lock; action:
\* Button::_action_lock; wheel: the _config_mutex of HiresScroll or ThumbWheel.
Locks == {"server", "hierarchy", "map", "devices", "pair", "profile", "state", "buttons",
          "action", "wheel"}

\* The locks their owner may take again.
Recursive == {"server", "hierarchy"}

-----------------------------------------------------------------------------
(* What an operation is made of                                            *)

Step(d, l) == <<[do |-> d, lock |-> l]>>

Under(l, body)       == Step("lock", l) \o body \o Step("unlock", l)
UnderShared(l, body) == Step("share", l) \o body \o Step("unlock", l)

\* A lock that is given back without anything in between that could wait.
Visit(l)       == Step("visit", l)
VisitShared(l) == Step("visitShared", l)

\* A request to the device, sent and answered.
Transfer == Step("transfer", None)

\* A signal of a device, and an interface that goes away: first the path of the
\* node, whose names are read under the lock of the tree, then the server.
Emit          == Visit("hierarchy") \o Visit("server")
DropInterface == Visit("hierarchy") \o Visit("server")

\* A signal of the device manager or of a receiver. Their nodes are in the trees
\* of the root and of "receivers", whose locks nothing else contends for.
Announce == Visit("server")

\* A new interface: the server reads the path of the node.
AddInterface == Under("server", Visit("hierarchy"))

\* ~node: the interfaces that are still on it leave the server.
DropNode == Under("hierarchy", Visit("server"))

\* The dispatcher calls a method with the server lock held.
MethodCall(body) == Under("server", body)

\* A gesture action takes the nodes of its gestures with it.
NewAction == DropNode \o AddInterface

-----------------------------------------------------------------------------
(* The operations of a device                                              *)

\* Mutant: the transfers of the buttons are made under _button_lock.
ConfigureButtonsLocked == Under("buttons", UnderShared("action", Transfer))

ConfigureButtons == UnderShared("action", Transfer)

ConfigureWheel == UnderShared("wheel", Transfer)

\* reset, then the features. The reading of the battery under _state_lock,
\* which wakeup holds already, is in LogidDevice and left out here.
Reconfigure == Transfer \o ConfigureWheel \o ConfigureButtons

\* The wheel's gestures are made anew, and ask for the wheel's multiplier.
WheelSetProfile   == Under("wheel", DropNode \o AddInterface \o Transfer)
ButtonsSetProfile == Under("buttons", Under("action", NewAction))

SetProfile == Under("profile", WheelSetProfile \o ButtonsSetProfile \o Reconfigure)

Wakeup == Under("state", Reconfigure \o Emit)
Sleep  == Under("state", Emit)

\* setBattery, which a broadcast of the battery has put on the task queue.
SetBattery == Under("state", Emit)

-----------------------------------------------------------------------------
(* The operations of receivers and of the device manager                   *)

\* The construction of a device: its transfers and its interfaces.
MakeDevice == Transfer \o AddInterface

AddDevice    == MakeDevice \o Under("map", Announce)

\* The device goes: its own interface first, then its node with those of the
\* features.
DropDevice   == DropInterface \o DropNode
RemoveDevice == Under("map", Announce \o DropDevice)

ReceiverAdds   == Under("devices", MakeDevice \o Under("map", Announce))
ReceiverWakes  == Under("devices", Wakeup)
ReceiverSleeps == Under("devices", Sleep)

\* Mutant: the locks are taken in the other order.
ReceiverRemovesMapFirst == Under("map", Under("devices", Announce \o DropDevice))

ReceiverRemoves == Under("devices", Under("map", Announce \o DropDevice))

-----------------------------------------------------------------------------
(* Who does what                                                           *)

\* DeviceManager::listDevices, Device::getProfiles, Button::IPC::setAction,
\* a setter of the wheel, ReceiverMonitor::_startPair and _stopPair, and
\* Configuration::save.
ListDevices    == Visit("map")
GetProfiles    == VisitShared("profile")
SetAction      == Under("action", NewAction) \o ConfigureButtons
SetHires       == Under("wheel", Transfer)
Pairing        == Visit("pair") \o Transfer
Save           == Step("prompt", None)

BusOps ==
    [enumerate   |-> MethodCall(ListDevices),
     getProfiles |-> MethodCall(GetProfiles),
     setProfile  |-> MethodCall(SetProfile),
     setAction   |-> MethodCall(SetAction),
     setHires    |-> MethodCall(SetHires),
     pairing     |-> MethodCall(Pairing),
     save        |-> MethodCall(Save)]

\* Reports are handled on the I/O thread; what needs the device or the bus
\* is given to the workers, except PairReady.
ButtonEvent  == Under("buttons", VisitShared("action"))
HandleScroll == VisitShared("wheel")
PairReady    == Under("pair", Announce)

IOOps == [buttonEvent |-> ButtonEvent, wheelEvent |-> HandleScroll, pairReady |-> PairReady]

WorkerOps ==
    [addDevice       |-> AddDevice,
     removeDevice    |-> RemoveDevice,
     receiverAdds    |-> ReceiverAdds,
     receiverWakes   |-> ReceiverWakes,
     receiverSleeps  |-> ReceiverSleeps,
     receiverRemoves |-> ReceiverRemoves,
     setBattery      |-> SetBattery,
     changeProfile   |-> SetProfile]

OpsOf(t) == IF t = Bus THEN BusOps ELSE IF t = IO THEN IOOps ELSE WorkerOps

-----------------------------------------------------------------------------
VARIABLES
    owner,    \* [Locks -> Threads \cup {None}]: who holds a lock exclusively
    depth,    \* [Locks -> Nat]: how often its owner has taken it
    readers,  \* [Locks -> SUBSET Threads]: who shares it
    op,       \* [Threads -> the operation it executes, or None]
    pos,      \* [Threads -> Nat]: the next step of that operation
    ops       \* operations started

locks == <<owner, depth, readers>>
vars  == <<locks, op, pos, ops>>

\* The operation of t has a next step, and what it is.
Midway(t) == op[t] # None /\ pos[t] <= Len(OpsOf(t)[op[t]])
Here(t)   == OpsOf(t)[op[t]][pos[t]]
Does(t, d) == Midway(t) /\ Here(t).do = d

Holds(t) == {l \in Locks : owner[l] = t \/ t \in readers[l]}

TypeOK ==
    /\ owner \in [Locks -> Threads \cup {None}]
    /\ depth \in [Locks -> Nat]
    /\ \A l \in Locks : (depth[l] = 0 <=> owner[l] = None) /\ (depth[l] > 1 => l \in Recursive)
    /\ readers \in [Locks -> SUBSET Threads]
    /\ \A l \in Locks : owner[l] # None => readers[l] = {}
    /\ \A t \in Threads : op[t] \in DOMAIN OpsOf(t) \cup {None}
    /\ pos \in [Threads -> Nat \ {0}]
    /\ \A t \in Threads : op[t] = None => pos[t] = 1 /\ Holds(t) = {}
    /\ ops \in 0 .. MaxOps

Init ==
    /\ owner = [l \in Locks |-> None]
    /\ depth = [l \in Locks |-> 0]
    /\ readers = [l \in Locks |-> {}]
    /\ op = [t \in Threads |-> None]
    /\ pos = [t \in Threads |-> 1]
    /\ ops = 0

-----------------------------------------------------------------------------
Start(t, o) ==
    /\ op[t] = None /\ ops < MaxOps
    /\ op' = [op EXCEPT ![t] = o]
    /\ ops' = ops + 1
    /\ UNCHANGED <<locks, pos>>

\* The step is done.
Proceed(t) == pos' = [pos EXCEPT ![t] = @ + 1] /\ UNCHANGED <<op, ops>>

\* A lock that t can have for itself.
Free(l, t) == readers[l] = {} /\ (owner[l] = None \/ (l \in Recursive /\ owner[l] = t))

\* A lock that can be shared: a waiting writer does not keep a reader out.
Sharable(l) == owner[l] = None

Lock(t) ==
    /\ Does(t, "lock") /\ Free(Here(t).lock, t)
    /\ owner' = [owner EXCEPT ![Here(t).lock] = t]
    /\ depth' = [depth EXCEPT ![Here(t).lock] = @ + 1]
    /\ Proceed(t)
    /\ UNCHANGED readers

Share(t) ==
    /\ Does(t, "share") /\ Sharable(Here(t).lock)
    /\ readers' = [readers EXCEPT ![Here(t).lock] = @ \cup {t}]
    /\ Proceed(t)
    /\ UNCHANGED <<owner, depth>>

LockAndUnlock(t) ==
    /\ \/ Does(t, "visit") /\ Free(Here(t).lock, t)
       \/ Does(t, "visitShared") /\ Sharable(Here(t).lock)
    /\ Proceed(t)
    /\ UNCHANGED locks

\* The owner gives l back for the last time, or one of the readers does.
GiveBack(t, l) ==
    /\ depth' = [depth EXCEPT ![l] = IF owner[l] = t THEN @ - 1 ELSE @]
    /\ owner' = [owner EXCEPT ![l] = IF @ = t /\ depth[l] = 1 THEN None ELSE @]

Unlock(t) ==
    /\ Does(t, "unlock")
    /\ GiveBack(t, Here(t).lock)
    /\ readers' = [readers EXCEPT ![Here(t).lock] = @ \ {t}]
    /\ Proceed(t)

\* The I/O thread reads the answer, so it is not busy with another report.
TransferEnds(t) ==
    /\ Does(t, "transfer")
    /\ op[IO] = None
    /\ Proceed(t)
    /\ UNCHANGED locks

\* The user answers, or the prompt times out.
PromptEnds(t) ==
    /\ Does(t, "prompt")
    /\ Proceed(t)
    /\ UNCHANGED locks

\* Mutant: an exception leaves the locks of the operation taken.
UnwindLocked(t) ==
    /\ Does(t, "transfer")
    /\ op' = [op EXCEPT ![t] = None]
    /\ pos' = [pos EXCEPT ![t] = 1]
    /\ UNCHANGED <<locks, ops>>

\* The transfer times out or the device refuses it: the exception leaves the
\* operation, and the guards on its way give the locks back.
Unwind(t) ==
    /\ Does(t, "transfer")
    /\ owner' = [l \in Locks |-> IF owner[l] = t THEN None ELSE owner[l]]
    /\ depth' = [l \in Locks |-> IF owner[l] = t THEN 0 ELSE depth[l]]
    /\ readers' = [l \in Locks |-> readers[l] \ {t}]
    /\ op' = [op EXCEPT ![t] = None]
    /\ pos' = [pos EXCEPT ![t] = 1]
    /\ UNCHANGED ops

Finish(t) ==
    /\ op[t] # None /\ ~Midway(t)
    /\ op' = [op EXCEPT ![t] = None]
    /\ pos' = [pos EXCEPT ![t] = 1]
    /\ UNCHANGED <<locks, ops>>

GoesOn(t) ==
    \/ Lock(t) \/ Share(t) \/ LockAndUnlock(t) \/ Unlock(t)
    \/ TransferEnds(t) \/ Unwind(t) \/ PromptEnds(t)
    \/ Finish(t)

Next == \E t \in Threads : GoesOn(t) \/ \E o \in DOMAIN OpsOf(t) : Start(t, o)

Spec == Init /\ [][Next]_vars

\* As long as a thread can go on, one does: a transfer has a timeout, and so
\* has the prompt. Nobody owes the daemon a call or a report.
FairSpec == Spec /\ WF_vars(\E t \in Threads : GoesOn(t))

-----------------------------------------------------------------------------
(* Who waits for whom                                                      *)

Owners(l) == {u \in Threads : owner[l] = u}

WaitsFor(t) ==
    IF ~Midway(t) THEN {}
    ELSE LET l == Here(t).lock
         IN  CASE Here(t).do \in {"lock", "visit"} /\ ~Free(l, t) -> Owners(l) \cup readers[l]
               [] Here(t).do \in {"share", "visitShared"} -> Owners(l)
               [] OTHER -> {}

\* None of the threads in S goes on before another of them does.
Deadlocked(S) == S # {} /\ \A t \in S : WaitsFor(t) \cap S # {}

\* t takes a node apart and waits for the server.
TakesNodeApart(t) == owner["hierarchy"] = t /\ owner["server"] \in WaitsFor(t)

(***************************************************************************)
(* The workers and the I/O thread wait for each other in a circle only     *)
(* where one of them takes a node apart: but for ~node, the locks of       *)
(* receivers, manager, device, buttons, wheel, server and tree are taken   *)
(* in one order, and any other deadlock of the daemon takes a call from    *)
(* the bus.                                                                *)
(***************************************************************************)
DeadlockNeedsDispatch ==
    \A S \in SUBSET (Threads \ {Bus}) : Deadlocked(S) => \E t \in S : TakesNodeApart(t)

\* The thread t, those it waits for, those they wait for, and so on.
Chain(t) ==
    {u \in Threads :
        \A S \in SUBSET Threads :
            t \in S /\ (\A v \in S : WaitsFor(v) \subseteq S) => u \in S}

(***************************************************************************)
(* A transfer whose answer the I/O thread cannot read, because that thread *)
(* waits for the one that made it, only comes from a profile change or     *)
(* from a call from the bus: the reconfiguration of a device that wakes up *)
(* makes its transfers with shared locks, which no report waits for.       *)
(***************************************************************************)
ListenerStalledOnlyBySwitch ==
    WaitsFor(IO) # {} =>
        LET chain == Chain(IO)
        IN  (\E t \in chain : Does(t, "transfer")) =>
                Bus \in chain \/ \E t \in chain : op[t] = "changeProfile"

Quiet == \A t \in Threads : op[t] = None
Stuck == {t \in Threads : WaitsFor(t) # {}}

(***************************************************************************)
(* Every operation ends, whatever transfers fail and however long the user *)
(* takes to answer, unless threads wait for each other in a circle.        *)
(***************************************************************************)
OperationsEnd == []<>(Quiet \/ \E S \in SUBSET Stuck : Deadlocked(S))

=============================================================================
