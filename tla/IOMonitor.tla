------------------------------ MODULE IOMonitor ------------------------------
(***************************************************************************)
(* The I/O thread of the daemon (backend/raw/IOMonitor.cpp) and the raw    *)
(* devices it reads (backend/raw/RawDevice.cpp).                           *)
(*                                                                         *)
(* The I/O thread holds _run_mutex inside epoll_wait. A thread that adds   *)
(* or removes a descriptor gets the mutex by _yield: it takes _yield_mutex *)
(* and, when _run_mutex is taken, writes an eventfd that ends epoll_wait.  *)
(* A raw device opens a descriptor, adds it, and removes and closes it     *)
(* when its last reference goes: on its owner's thread, or on the I/O      *)
(* thread when a callback holds that reference. Descriptor numbers are     *)
(* used again; a device here is one opening of a descriptor.               *)
(***************************************************************************)
EXTENDS Naturals, FiniteSets

CONSTANTS Callers,     \* threads that own raw devices
          IO,          \* the I/O thread
          Fds,         \* descriptor numbers
          MaxDevices,  \* bound: raw devices opened in a behaviour
          Reporting,   \* bound: the devices that send reports
          None         \* no thread, no descriptor

ASSUME IOAssumption    == IO \notin Callers /\ None \notin Callers \cup {IO} \cup Fds
ASSUME BoundAssumption == MaxDevices \in Nat

Threads == Callers \cup {IO}
Devices == 1 .. MaxDevices

VARIABLES pc,       \* where each thread is
          op,       \* what a thread yields for: "add", "remove", "stop", "none"
          dev,      \* the device a thread works on, 0 for none
          run,      \* owner of _run_mutex
          yield,    \* owner of _yield_mutex
          signal,   \* the eventfd is readable
          fds,      \* _fds: the device registered for a descriptor, or 0
          fdOf,     \* the open descriptor of a device, or None
          opened,   \* number of devices opened so far
          data,     \* devices with a report to read
          hung,     \* devices that are unplugged
          valid,    \* RawDevice::_valid
          batch,    \* events epoll_wait returned that are not handled yet
          wake,     \* the eventfd's event is one of them
          cur,      \* the event whose handler runs
          running   \* _is_running

ioVars == <<pc, op, dev, run, yield, signal, fds, fdOf, opened, data, hung, valid, batch, wake, cur, running>>

\* An event as epoll_wait stores it: a number and the bits EPOLLIN and EPOLLHUP.
Events == [fd : Fds, read : BOOLEAN, hup : BOOLEAN]
NoEvent == [fd |-> None, read |-> FALSE, hup |-> FALSE]

YieldPcs == {"lock", "write", "blocked", "hold", "closing"}

IOTypeOK ==
    /\ pc \in [Threads -> YieldPcs \cup {"idle", "using", "join", "joined"}
                   \cup {"start", "poll", "batch", "wantYield", "drained", "found", "handler", "handled", "ended"}]
    /\ op \in [Threads -> {"none", "add", "remove", "stop"}]
    /\ dev \in [Threads -> 0 .. MaxDevices]
    /\ run \in Threads \cup {None} /\ yield \in Threads \cup {None}
    /\ signal \in BOOLEAN /\ wake \in BOOLEAN /\ running \in BOOLEAN
    /\ fds \in [Fds -> 0 .. MaxDevices] /\ fdOf \in [Devices -> Fds \cup {None}]
    /\ opened \in 0 .. MaxDevices
    /\ data \subseteq Devices /\ hung \subseteq Devices /\ valid \subseteq Devices
    /\ batch \subseteq Events
    /\ cur \in Events \cup {NoEvent}
    \* a registered descriptor is open
    /\ \A f \in Fds : fds[f] # 0 => fdOf[fds[f]] = f

IOInit ==
    /\ pc = [t \in Threads |-> IF t = IO THEN "start" ELSE "idle"]
    /\ op = [t \in Threads |-> "none"]
    /\ dev = [t \in Threads |-> 0]
    /\ run = None /\ yield = None
    /\ signal = FALSE /\ wake = FALSE /\ running = FALSE
    /\ fds = [f \in Fds |-> 0] /\ fdOf = [d \in Devices |-> None]
    /\ opened = 0
    /\ data = {} /\ hung = {} /\ valid = {}
    /\ batch = {} /\ cur = NoEvent

Go(t, l) == pc' = [pc EXCEPT ![t] = l]

-----------------------------------------------------------------------------
(* _yield, on any thread.                                                   *)

\* Lock _yield_mutex and try _run_mutex.
YieldLock(t) ==
    /\ pc[t] = "lock"
    /\ yield = None
    /\ \/ /\ run = None
          /\ run' = t
          /\ Go(t, "hold")
          /\ UNCHANGED yield
       \/ /\ run # None
          /\ yield' = t
          /\ Go(t, "write")
          /\ UNCHANGED run
    /\ UNCHANGED <<op, dev, signal, fds, fdOf, opened, data, hung, valid, batch, wake, cur, running>>

\* Mutant: the eventfd is not written.
YieldSilently(t) ==
    /\ pc[t] = "write"
    /\ Go(t, "blocked")
    /\ UNCHANGED <<op, dev, run, yield, signal, fds, fdOf, opened, data, hung, valid, batch, wake, cur, running>>

YieldWrite(t) ==
    /\ pc[t] = "write"
    /\ signal' = TRUE
    /\ Go(t, "blocked")
    /\ UNCHANGED <<op, dev, run, yield, fds, fdOf, opened, data, hung, valid, batch, wake, cur, running>>

\* Lock _run_mutex; _yield_mutex is released when _yield returns.
YieldTake(t) ==
    /\ pc[t] = "blocked"
    /\ run = None
    /\ run' = t
    /\ yield' = None
    /\ Go(t, "hold")
    /\ UNCHANGED <<op, dev, signal, fds, fdOf, opened, data, hung, valid, batch, wake, cur, running>>

-----------------------------------------------------------------------------
(* Raw devices.                                                             *)

InUse == {fdOf[d] : d \in Devices}

\* The constructor opens a descriptor, then _ready calls add.
Open(c) ==
    /\ pc[c] = "idle"
    /\ \A d \in Callers : op[d] # "stop"
    /\ opened < MaxDevices
    /\ \E f \in Fds \ InUse : fdOf' = [fdOf EXCEPT ![opened + 1] = f]
    /\ opened' = opened + 1
    /\ valid' = valid \cup {opened + 1}
    /\ dev' = [dev EXCEPT ![c] = opened + 1]
    /\ op' = [op EXCEPT ![c] = "add"]
    /\ Go(c, "lock")
    /\ UNCHANGED <<run, yield, signal, fds, data, hung, batch, wake, cur, running>>

\* add, with _run_mutex held. It would throw on a registered descriptor.
Add(t) ==
    /\ pc[t] = "hold"
    /\ op[t] = "add"
    /\ fds[fdOf[dev[t]]] = 0
    /\ fds' = [fds EXCEPT ![fdOf[dev[t]]] = dev[t]]
    /\ run' = None
    /\ Go(t, "using")
    /\ UNCHANGED <<op, dev, yield, signal, fdOf, opened, data, hung, valid, batch, wake, cur, running>>

\* The owner drops its reference: the destructor runs here, unless a callback
\* on the I/O thread has another one.
Drop(c) ==
    /\ pc[c] = "using"
    /\ IF pc[IO] = "handler" /\ dev[IO] = dev[c]
       THEN /\ Go(c, "idle")
            /\ op' = [op EXCEPT ![c] = "none"]
            /\ dev' = [dev EXCEPT ![c] = 0]
       ELSE /\ Go(c, "lock")
            /\ op' = [op EXCEPT ![c] = "remove"]
            /\ UNCHANGED dev
    /\ UNCHANGED <<run, yield, signal, fds, fdOf, opened, data, hung, valid, batch, wake, cur, running>>

\* remove, with _run_mutex held.
Remove(t) ==
    /\ pc[t] = "hold"
    /\ op[t] = "remove"
    /\ fds' = [fds EXCEPT ![fdOf[dev[t]]] = 0]
    /\ run' = None
    /\ Go(t, "closing")
    /\ UNCHANGED <<op, dev, yield, signal, fdOf, opened, data, hung, valid, batch, wake, cur, running>>

\* ... and the destructor closes the descriptor; the device is forgotten.
Close(t) ==
    /\ pc[t] = "closing"
    /\ fdOf' = [fdOf EXCEPT ![dev[t]] = None]
    /\ dev' = [dev EXCEPT ![t] = 0]
    /\ op' = [op EXCEPT ![t] = "none"]
    /\ data' = data \ {dev[t]}
    /\ hung' = hung \ {dev[t]}
    /\ valid' = valid \ {dev[t]}
    /\ Go(t, IF t = IO THEN "handled" ELSE "idle")
    /\ UNCHANGED <<run, yield, signal, fds, opened, batch, wake, cur, running>>

\* The device sends a report, or is unplugged.
Report(d) ==
    /\ d \in Reporting /\ fdOf[d] # None /\ d \notin hung
    /\ data' = data \cup {d}
    /\ UNCHANGED <<pc, op, dev, run, yield, signal, fds, fdOf, opened, hung, valid, batch, wake, cur, running>>

Unplug(d) ==
    /\ fdOf[d] # None
    /\ hung' = hung \cup {d}
    /\ UNCHANGED <<pc, op, dev, run, yield, signal, fds, fdOf, opened, data, valid, batch, wake, cur, running>>

-----------------------------------------------------------------------------
(* The I/O thread, _listen.                                                 *)

Start ==
    /\ pc[IO] = "start"
    /\ run = None
    /\ run' = IO
    /\ running' = TRUE
    /\ Go(IO, "poll")
    /\ UNCHANGED <<op, dev, yield, signal, fds, fdOf, opened, data, hung, valid, batch, wake, cur>>

Ready ==
    {[fd |-> f, read |-> fds[f] \in data, hup |-> fds[f] \in hung] :
        f \in {g \in Fds : fds[g] \in data \cup hung}}

\* epoll_wait returns, with one slot for each descriptor in _fds.
Poll ==
    /\ pc[IO] = "poll"
    /\ signal \/ Ready # {}
    /\ batch' = Ready
    /\ wake' = signal
    /\ Go(IO, "batch")
    /\ UNCHANGED <<op, dev, run, yield, signal, fds, fdOf, opened, data, hung, valid, cur, running>>

\* The batch is done.
NextBatch ==
    /\ pc[IO] = "batch"
    /\ batch = {} /\ ~wake
    /\ IF running
       THEN Go(IO, "poll") /\ UNCHANGED run
       ELSE Go(IO, "ended") /\ run' = None
    /\ UNCHANGED <<op, dev, yield, signal, fds, fdOf, opened, data, hung, valid, batch, wake, cur, running>>

\* The eventfd's event: release _run_mutex and wait until the yielding thread
\* has it.
Yielding ==
    /\ pc[IO] = "batch"
    /\ wake
    /\ wake' = FALSE
    /\ run' = None
    /\ Go(IO, "wantYield")
    /\ UNCHANGED <<op, dev, yield, signal, fds, fdOf, opened, data, hung, valid, batch, cur, running>>

\* Mutant: the eventfd is drained without _yield_mutex.
DrainUnlocked ==
    /\ pc[IO] = "wantYield"
    /\ signal' = FALSE
    /\ Go(IO, "handled")
    /\ UNCHANGED <<op, dev, run, yield, fds, fdOf, opened, data, hung, valid, batch, wake, cur, running>>

Drain ==
    /\ pc[IO] = "wantYield"
    /\ yield = None
    /\ yield' = IO
    /\ signal' = FALSE
    /\ Go(IO, "drained")
    /\ UNCHANGED <<op, dev, run, fds, fdOf, opened, data, hung, valid, batch, wake, cur, running>>

\* Lock _run_mutex again, after the eventfd or after a handler.
Relock ==
    /\ pc[IO] \in {"drained", "handled"}
    /\ run = None
    /\ run' = IO
    /\ yield' = IF pc[IO] = "drained" THEN None ELSE yield
    /\ Go(IO, "batch")
    /\ UNCHANGED <<op, dev, signal, fds, fdOf, opened, data, hung, valid, batch, wake, cur, running>>

\* An event of a descriptor: skip it if the descriptor is not registered, else
\* release _run_mutex and call its handler. The handler is looked up by number.
Lookup(e) ==
    /\ pc[IO] = "batch"
    /\ e \in batch
    /\ batch' = batch \ {e}
    /\ IF fds[e.fd] = 0 THEN UNCHANGED <<pc, run, cur, dev>>
       ELSE /\ cur' = e
            /\ dev' = [dev EXCEPT ![IO] = fds[e.fd]]
            /\ run' = None
            /\ Go(IO, "found")
    /\ UNCHANGED <<op, yield, signal, fds, fdOf, opened, data, hung, valid, wake, running>>

\* A device is referenced by its owner until the owner drops it.
Owned(d) == \E c \in Callers : dev[c] = d /\ op[c] = "add"

\* Mutant: the handler holds a plain pointer.
EnterUnlocked ==
    /\ pc[IO] = "found"
    /\ Go(IO, "handler")
    /\ UNCHANGED <<op, dev, run, yield, signal, fds, fdOf, opened, data, hung, valid, batch, wake, cur, running>>

\* The handler locks its weak pointer.
Enter ==
    /\ pc[IO] = "found"
    /\ IF Owned(dev[IO]) THEN Go(IO, "handler") /\ UNCHANGED dev
       ELSE Go(IO, "handled") /\ dev' = [dev EXCEPT ![IO] = 0]
    /\ cur' = IF Owned(dev[IO]) THEN cur ELSE NoEvent
    /\ UNCHANGED <<op, run, yield, signal, fds, fdOf, opened, data, hung, valid, batch, wake, running>>

\* Read the reports, note a hangup, and drop the reference: if it was the last
\* one the destructor runs here.
Handle ==
    /\ pc[IO] = "handler"
    /\ data' = IF cur.read THEN data \ {dev[IO]} ELSE data
    /\ valid' = IF cur.hup THEN valid \ {dev[IO]} ELSE valid
    /\ IF Owned(dev[IO])
       THEN Go(IO, "handled") /\ dev' = [dev EXCEPT ![IO] = 0] /\ UNCHANGED op
       ELSE Go(IO, "lock") /\ op' = [op EXCEPT ![IO] = "remove"] /\ UNCHANGED dev
    /\ cur' = NoEvent
    /\ UNCHANGED <<run, yield, signal, fds, fdOf, opened, hung, batch, wake, running>>

-----------------------------------------------------------------------------
(* The destructor, when no device holds the monitor any more: _stop.        *)

Stop(c) ==
    /\ \A d \in Callers : pc[d] = "idle"
    /\ \A f \in Fds : fds[f] = 0
    /\ pc[IO] \notin YieldPcs
    /\ running' = FALSE
    /\ op' = [op EXCEPT ![c] = "stop"]
    /\ Go(c, "lock")
    /\ UNCHANGED <<dev, run, yield, signal, fds, fdOf, opened, data, hung, valid, batch, wake, cur>>

\* The lock _yield returned is released at once.
Stopped(c) ==
    /\ pc[c] = "hold"
    /\ op[c] = "stop"
    /\ run' = None
    /\ Go(c, "join")
    /\ UNCHANGED <<op, dev, yield, signal, fds, fdOf, opened, data, hung, valid, batch, wake, cur, running>>

Join(c) ==
    /\ pc[c] = "join"
    /\ pc[IO] = "ended"
    /\ Go(c, "joined")
    /\ UNCHANGED <<op, dev, run, yield, signal, fds, fdOf, opened, data, hung, valid, batch, wake, cur, running>>

Yield(t)  == YieldLock(t) \/ YieldWrite(t) \/ YieldTake(t) \/ Remove(t) \/ Close(t)
Caller(c) == Add(c) \/ Stopped(c) \/ Join(c)
Listen    == Start \/ Poll \/ NextBatch \/ Yielding \/ Drain \/ Relock \/ (\E e \in batch : Lookup(e)) \/ Enter \/ Handle

IONext ==
    \/ \E t \in Threads : Yield(t)
    \/ \E c \in Callers : Caller(c) \/ Open(c) \/ Drop(c) \/ Stop(c)
    \/ Listen
    \/ \E d \in Devices : Report(d) \/ Unplug(d)

IOSpec == IOInit /\ [][IONext]_ioVars

\* Every thread runs on; nothing makes a device, its owner or the end come.
IOFairness ==
    /\ \A t \in Threads : WF_ioVars(Yield(t))
    /\ \A c \in Callers : WF_ioVars(Caller(c))
    /\ WF_ioVars(Listen)

-----------------------------------------------------------------------------
(***************************************************************************)
(* No wakeup is lost: when a thread waits for _run_mutex and the I/O       *)
(* thread is inside epoll_wait, the eventfd is readable. The drain of one  *)
(* yield must not take the signal of the next.                             *)
(***************************************************************************)
YielderIsHeard ==
    pc[IO] = "poll" => \A t \in Threads : pc[t] = "blocked" => signal

(***************************************************************************)
(* While a callback runs its device is neither removed nor closed: the     *)
(* destructor waits for the callback's reference, on whichever thread.     *)
(***************************************************************************)
CallbackOnOpenDevice ==
    pc[IO] = "handler" => \E f \in Fds : fds[f] = dev[IO] /\ fdOf[dev[IO]] = f

(***************************************************************************)
(* Every add and every remove comes to its end, whatever events arrive and *)
(* even when the I/O thread itself removes a device; there are no more     *)
(* than MaxDevices of each.                                                *)
(***************************************************************************)
NobodyYields == \A t \in Threads : pc[t] \notin YieldPcs
YieldsEnd    == []<>NobodyYields

(***************************************************************************)
(* The destructor ends once the I/O thread has begun to listen.            *)
(***************************************************************************)
NobodyStops ==
    \A c \in Callers : op[c] = "stop" /\ pc[c] # "joined" => running \/ pc[IO] = "start"
StopEnds    == []<>NobodyStops
=============================================================================
