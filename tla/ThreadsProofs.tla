---------------------------- MODULE ThreadsProofs ----------------------------
(***************************************************************************)
(* Theorems about what carries the daemon's threads, part by part:         *)
(*  - TaskQueue, for any number of workers, tasks and delays: no wakeup is *)
(*    lost, and when a task may start early;                               *)
(*  - IOMonitor, for any number of threads, descriptors and devices: no    *)
(*    yield is lost, and callbacks run on open devices;                    *)
(*  - EventHandlerList, for any number of owners and of handlers: the      *)
(*    rounds of a report, as long as no add meets a cleanup that erases    *)
(*    the front entry.                                                     *)
(***************************************************************************)
EXTENDS TaskQueue, IOMonitor, EventHandlerList, TLAPS

-----------------------------------------------------------------------------
(* TaskQueue *)

(* Workers exist from init_workers on, and end only when they are stopped. *)
WorkersLive ==
    /\ workersRun => \A w \in Workers : doing[w] \notin {"none", "ended"}
    /\ ~Initialised => tasks = {} /\ \A w \in Workers : doing[w] = "none"

\* The inductive invariant.
TaskInv == TypeOK /\ WorkersLive /\ QueueAttended

(* A task of the queue has a time. *)
LEMMA TaskTimes == \A t \in Tasks : t.time \in Nat
  BY BoundsAssumption DEF Tasks

\* At first nothing is queued.
LEMMA TasksInitially == Init => TaskInv
<1> SUFFICES ASSUME Init PROVE TaskInv
  OBVIOUS
<1>1. TypeOK
  <2>1. 0 \in 0 .. MaxTime /\ 0 \in 0 .. MaxTasks
    BY BoundsAssumption
  <2>2. QED
    BY <2>1 DEF Init, TypeOK
<1>2. WorkersLive /\ QueueAttended
  BY DEF Init, WorkersLive, QueueAttended, Initialised
<1>3. QED
  BY <1>1, <1>2 DEF TaskInv

-----------------------------------------------------------------------------
(* The ways in which a worker's step may change the worker and the queue:  *)
(* it takes the top task, sleeps until the top task's time, sleeps without *)
(* a task, goes back to the head of its loop, ends, or stays as it is.     *)
Pops(w)     == \E t \in tasks : /\ IsTop(t) /\ tasks' = tasks \ {t}
                                /\ current' = [current EXCEPT ![w] = t]
                                /\ doing' = [doing EXCEPT ![w] = "running"]
SleepsFor(w) == \E t \in tasks : /\ UNCHANGED tasks
                                 /\ current' = [current EXCEPT ![w] = t]
                                 /\ doing' = [doing EXCEPT ![w] = "timed"]
Parks(w)    == /\ tasks = {} /\ UNCHANGED tasks
               /\ doing[w] = "ready"
               /\ doing' = [doing EXCEPT ![w] = "idle"] /\ UNCHANGED current
Loops(w)    == /\ doing' = [doing EXCEPT ![w] = "ready"]
               /\ current' = [current EXCEPT ![w] = NoTask] /\ UNCHANGED tasks
Ends(w)     == /\ ~workersRun
               /\ doing' = [doing EXCEPT ![w] = "ended"]
               /\ current' = [current EXCEPT ![w] = NoTask] /\ UNCHANGED tasks
Stays(w)    == /\ doing[w] = "timed" \/ (doing[w] = "idle" /\ tasks = {})
               /\ UNCHANGED <<tasks, doing, current>>

(* What a step of a worker does, whichever of its actions it is. *)
LEMMA WorkerSteps ==
    ASSUME TypeOK, NEW w \in Workers, Worker(w) \/ WaitExpires(w)
    PROVE  /\ doing[w] \in {"ready", "idle", "timed", "running"}
           /\ UNCHANGED <<workersRun, now, queued, stop>>
           /\ notified' = notified \ {w}
           /\ \/ Pops(w) \/ SleepsFor(w) \/ Parks(w) \/ Loops(w) \/ Ends(w) \/ Stays(w)
<1>1. CASE Loop(w)
  <2>1. doing[w] = "ready" /\ w \notin notified
    BY <1>1 DEF Loop, TypeOK
  <2>2. QED
    BY <1>1, <2>1 DEF Loop, End, Take, Pop, Pops, SleepsFor, Parks, Ends
<1>2. CASE WakeIdle(w)
  <2>1. Take(w) => Pops(w) \/ SleepsFor(w)
    BY DEF Take, Pop, Pops, SleepsFor
  <2>2. End(w) /\ ~workersRun => Ends(w)
    BY DEF End, Ends
  <2>3. QED
    BY <1>2, <2>1, <2>2 DEF WakeIdle, Stays
<1>3. CASE WakeTimed(w)
  <2>1. AfterTimedWait(w) => Pops(w) \/ Loops(w) \/ Ends(w)
    BY DEF AfterTimedWait, End, Pop, Pops, Loops, Ends
  <2>2. QED
    BY <1>3, <2>1 DEF WakeTimed, Stays
<1>4. CASE WaitExpires(w)
  <2>1. AfterTimedWait(w) => Pops(w) \/ Loops(w) \/ Ends(w)
    BY DEF AfterTimedWait, End, Pop, Pops, Loops, Ends
  <2>2. QED
    BY <1>4, <2>1 DEF WaitExpires
<1>5. CASE Finish(w)
  <2>1. doing[w] = "running" /\ w \notin notified
    BY <1>5 DEF Finish, TypeOK
  <2>2. QED
    BY <1>5, <2>1 DEF Finish, Loops
<1>6. QED
  BY <1>1, <1>2, <1>3, <1>4, <1>5 DEF Worker

(* Every step preserves the inductive invariant. *)
LEMMA TasksStep == TaskInv /\ [Next]_vars => TaskInv'
<1> SUFFICES ASSUME TaskInv, [Next]_vars PROVE TaskInv'
  OBVIOUS
<1>0. TypeOK /\ WorkersLive /\ QueueAttended
  BY DEF TaskInv
<1>1. CASE InitWorkers
  <2>1. TypeOK'
    BY <1>0, <1>1 DEF InitWorkers, TypeOK, WorkersLive
  <2>2. WorkersLive'
    BY <1>0, <1>1, WorkersAssumption DEF InitWorkers, WorkersLive, Initialised
  <2>3. QueueAttended'
    BY <1>0, <1>1 DEF InitWorkers, WorkersLive, QueueAttended
  <2>4. QED
    BY <2>1, <2>2, <2>3 DEF TaskInv
<1>2. ASSUME NEW d \in Delays, RunTask(d) PROVE TaskInv'
  <2> DEFINE new == [id |-> queued + 1, time |-> now + d]
  <2>1. new \in Tasks
    BY <1>0, <1>2, DelaysAssumption, BoundsAssumption DEF RunTask, TypeOK, Tasks
  <2>2. notified' = notified \/ \E w \in Waiters : notified' = notified \cup {w}
    BY <1>2 DEF RunTask, NotifyOne
  <2>3. TypeOK'
    BY <1>0, <1>2, <2>1, <2>2, BoundsAssumption DEF RunTask, TypeOK, Waiters
  <2>4. WorkersLive'
    BY <1>0, <1>2 DEF RunTask, WorkersLive, Initialised
  <2>5. QueueAttended'
    <3> SUFFICES ASSUME workersRun' PROVE \E w \in Workers : Attending(w)'
      BY DEF QueueAttended
    <3>1. CASE Waiters = {}
      <4>1. \A w \in Workers : doing[w] \in {"ready", "running", "idle", "timed"}
        BY <1>0, <1>2 DEF RunTask, WorkersLive, TypeOK
      <4>2. \A w \in Workers : Attending(w)
        BY <3>1, <4>1 DEF Waiters, Attending
      <4>3. QED
        BY <1>2, <2>2, <4>2, WorkersAssumption DEF RunTask, Attending
    <3>2. CASE Waiters # {}
      BY <1>2, <3>2 DEF RunTask, NotifyOne, Attending, Waiters
    <3>3. QED
      BY <3>1, <3>2
  <2>6. QED
    BY <2>3, <2>4, <2>5 DEF TaskInv
<1>3. ASSUME NEW w \in Workers, Worker(w) \/ WaitExpires(w) PROVE TaskInv'
  <2>1. /\ doing[w] \in {"ready", "idle", "timed", "running"}
        /\ UNCHANGED <<workersRun, now, queued, stop>>
        /\ notified' = notified \ {w}
        /\ Pops(w) \/ SleepsFor(w) \/ Parks(w) \/ Loops(w) \/ Ends(w) \/ Stays(w)
    BY <1>0, <1>3, WorkerSteps
  <2>2. TypeOK'
    BY <1>0, <2>1, NoTaskAssumption
    DEF Pops, SleepsFor, Parks, Loops, Ends, Stays, TypeOK
  <2>3. WorkersLive'
    BY <1>0, <2>1
    DEF Pops, SleepsFor, Parks, Loops, Ends, Stays, TypeOK, WorkersLive, Initialised
  <2>4. QueueAttended'
    BY <1>0, <2>1
    DEF Pops, SleepsFor, Parks, Loops, Ends, Stays, TypeOK, QueueAttended, Attending
  <2>5. QED
    BY <2>2, <2>3, <2>4 DEF TaskInv
<1>4. ASSUME NEW w \in Workers, SpuriousWakeup(w) PROVE TaskInv'
  <2>1. TypeOK'
    BY <1>0, <1>4 DEF SpuriousWakeup, Waiters, TypeOK
  <2>2. WorkersLive' /\ QueueAttended'
    BY <1>0, <1>4 DEF SpuriousWakeup, WorkersLive, Initialised, QueueAttended, Attending
  <2>3. QED
    BY <2>1, <2>2 DEF TaskInv
<1>5. CASE Tick
  <2>1. TypeOK'
    BY <1>0, <1>5, BoundsAssumption DEF Tick, TypeOK
  <2>2. WorkersLive' /\ QueueAttended'
    BY <1>0, <1>5 DEF Tick, WorkersLive, Initialised, QueueAttended, Attending
  <2>3. QED
    BY <2>1, <2>2 DEF TaskInv
<1>6. CASE StopWorkers
  <2>1. TypeOK'
    BY <1>0, <1>6 DEF StopWorkers, TypeOK
  <2>2. WorkersLive' /\ QueueAttended'
    BY <1>0, <1>6 DEF StopWorkers, WorkersLive, Initialised, QueueAttended
  <2>3. QED
    BY <2>1, <2>2 DEF TaskInv
<1>7. CASE StopReturns
  <2>1. TypeOK'
    BY <1>0, <1>7 DEF StopReturns, Waiters, TypeOK
  <2>2. WorkersLive' /\ QueueAttended'
    BY <1>0, <1>7 DEF StopReturns, WorkersLive, Initialised, QueueAttended, Attending
  <2>3. QED
    BY <2>1, <2>2 DEF TaskInv
<1>8. CASE UNCHANGED vars
  BY <1>0, <1>8 DEF vars, TaskInv, TypeOK, WorkersLive, Initialised, QueueAttended, Attending
<1>9. QED
  BY <1>1, <1>2, <1>3, <1>4, <1>5, <1>6, <1>7, <1>8 DEF Next

\* TaskInv is an invariant.
LEMMA TasksInvariant == Spec => []TaskInv
<1>1. Init => TaskInv
  BY TasksInitially
<1>2. TaskInv /\ [Next]_vars => TaskInv'
  BY TasksStep
<1>3. QED
  BY <1>1, <1>2, PTL DEF Spec

(***************************************************************************)
(* No wakeup of the pool is lost: notify_one may reach any waiting worker, *)
(* and whichever it reaches, a worker will come to a queue that has tasks. *)
(***************************************************************************)
THEOREM NoLostWakeup == Spec => []QueueAttended
<1>1. TaskInv => QueueAttended
  BY DEF TaskInv
<1>2. QED
  BY <1>1, TasksInvariant, PTL

(***************************************************************************)
(* A task starts early only when the worker that starts it had slept until *)
(* the time of a task that another worker took.                            *)
(***************************************************************************)
THEOREM EarlyStarts == Spec => EarlyOnlyAfterLostRace
<1> DEFINE LostRace == \A w \in Workers :
              Starts(w) /\ current'[w].time > now =>
                  /\ doing[w] = "timed"
                  /\ current[w].time <= now
                  /\ current[w] \notin tasks
<1>1. TaskInv /\ [Next]_vars => [LostRace]_vars
  <2> SUFFICES ASSUME TaskInv, Next, NEW w \in Workers, Starts(w), current'[w].time > now
               PROVE  /\ doing[w] = "timed"
                      /\ current[w].time <= now
                      /\ current[w] \notin tasks
    OBVIOUS
  <2>0. TypeOK /\ now \in Nat
    BY BoundsAssumption DEF TaskInv, TypeOK
  <2>1. ASSUME NEW v \in Workers, Worker(v) \/ WaitExpires(v) PROVE v = w
    <3>1. doing' = doing \/ \E l : doing' = [doing EXCEPT ![v] = l]
      BY <2>0, <2>1, WorkerSteps DEF Pops, SleepsFor, Parks, Loops, Ends, Stays
    <3>2. QED
      BY <2>0, <3>1 DEF Starts, TypeOK
  <2>2. Worker(w) \/ WaitExpires(w)
    BY <2>0, <2>1
    DEF Next, Starts, InitWorkers, RunTask, SpuriousWakeup, Tick, StopWorkers, StopReturns, TypeOK
  <2>3. PICK t \in tasks : IsTop(t) /\ current'[w] = t
    <3>1. Pops(w)
      BY <2>0, <2>2, WorkerSteps
      DEF Starts, SleepsFor, Parks, Loops, Ends, Stays, TypeOK
    <3>2. QED
      BY <2>0, <3>1 DEF Pops, TypeOK
  <2>4. t.time \in Nat /\ t.time > now /\ \A u \in tasks : u.time \in Nat /\ u.time > now
    BY <2>0, <2>3, TaskTimes DEF IsTop, TypeOK
  <2>5. ~Due
    BY <2>0, <2>4 DEF Due
  <2>6. WaitExpires(w)
    BY <2>0, <2>2, <2>4, <2>5
    DEF Worker, Loop, WakeIdle, WakeTimed, Finish, Take, Pop, End, AfterTimedWait, Starts, TypeOK
  <2>7. doing[w] = "timed" /\ now >= current[w].time /\ current[w] \in Tasks
    BY <2>0, <2>6 DEF WaitExpires, TypeOK
  <2>8. current[w] \notin tasks
    BY <2>0, <2>4, <2>7, TaskTimes
  <2>9. QED
    BY <2>0, <2>7, <2>8, TaskTimes
<1>2. QED
  BY <1>1, TasksInvariant, PTL DEF Spec, EarlyOnlyAfterLostRace

-----------------------------------------------------------------------------
(* IOMonitor *)

(* A thread that has yielded or wants to. *)
AtGate == {"lock", "write", "blocked", "hold"}

(* Where a thread can be. *)
Places == YieldPcs \cup {"idle", "using", "join", "joined"}
             \cup {"start", "poll", "batch", "wantYield", "drained", "found", "handler", "handled", "ended"}

(* _yield_mutex is held by a thread inside _yield and by the I/O thread     *)
(* while it drains the eventfd, so whoever waits for _run_mutex has written *)
(* an eventfd that is not drained yet.                                      *)
Gate ==
    /\ \A t \in Threads : pc[t] \in {"write", "blocked"} => yield = t
    /\ pc[IO] = "drained" => yield = IO
    /\ \A t \in Threads : pc[t] = "blocked" => signal

(* What a thread does, what it yields for and the device it works on. *)
CallerPhases == \A c \in Callers :
    \/ op[c] = "none" /\ dev[c] = 0 /\ pc[c] = "idle"
    \/ op[c] = "add" /\ dev[c] # 0 /\ pc[c] \in AtGate \cup {"using"}
    \/ op[c] = "remove" /\ dev[c] # 0 /\ pc[c] \in AtGate \cup {"closing"}
    \/ op[c] = "stop" /\ dev[c] = 0 /\ pc[c] \in AtGate \cup {"join", "joined"}

\* What the listener does, with which device.
ListenerPhases ==
    \/ op[IO] = "remove" /\ dev[IO] # 0 /\ pc[IO] \in AtGate \cup {"closing"}
    \/ op[IO] = "none" /\ dev[IO] # 0 /\ pc[IO] \in {"found", "handler"}
    \/ /\ op[IO] = "none" /\ dev[IO] = 0
       /\ pc[IO] \in {"start", "poll", "batch", "wantYield", "drained", "handled", "ended"}

(* Devices are numbered in the order they are opened, and no two of them    *)
(* have the same descriptor at a time.                                      *)
Numbered ==
    /\ \A t \in Threads : dev[t] <= opened
    /\ \A d \in Devices : fdOf[d] # None => d <= opened
    /\ \A d, e \in Devices : fdOf[d] # None /\ fdOf[d] = fdOf[e] => d = e

(* A device has one owner; once a callback holds a reference the owner does *)
(* not remove it, and the I/O thread removes only what nobody owns.         *)
OneOwner ==
    /\ \A c, d \in Callers : dev[c] # 0 /\ dev[c] = dev[d] => c = d
    /\ \A c \in Callers : pc[IO] = "handler" /\ dev[c] = dev[IO] => op[c] = "add"
    /\ \A c \in Callers : op[IO] = "remove" => dev[c] # dev[IO]

\* The listener finds device d by its descriptor.
Registered(d) == fdOf[d] # None /\ fds[fdOf[d]] = d

(* A device is registered from the end of add to the end of remove, and a   *)
(* device whose handler has been looked up is not waiting to be added.      *)
Registration ==
    /\ \A t \in Threads : op[t] \in {"add", "remove"} =>
          /\ fdOf[dev[t]] # None
          /\ Registered(dev[t]) <=> (pc[t] = "using" \/ (op[t] = "remove" /\ pc[t] # "closing"))
    /\ pc[IO] = "handler" => Registered(dev[IO])
    /\ pc[IO] = "found" =>
          \A c \in Callers : dev[c] = dev[IO] /\ op[c] = "add" => pc[c] = "using"

\* Where the callers and the listener are.
Phases == CallerPhases /\ ListenerPhases

\* The inductive invariant.
IOInv == IOTypeOK /\ Gate /\ Phases /\ Numbered /\ OneOwner /\ Registration

\* At first no device is open.
LEMMA IOInitially == IOInit => IOInv
<1> SUFFICES ASSUME IOInit PROVE IOInv
  OBVIOUS
<1>1. 0 \in 0 .. MaxDevices
  BY BoundAssumption
<1>2. IOTypeOK
  BY <1>1 DEF IOInit, IOTypeOK
<1>3. Gate /\ Phases
  BY IOAssumption DEF IOInit, Gate, Phases, CallerPhases, ListenerPhases, Threads
<1>4. Numbered /\ OneOwner /\ Registration
  BY DEF IOInit, Numbered, OneOwner, Registration, Threads
<1>5. QED
  BY <1>2, <1>3, <1>4 DEF IOInv

-----------------------------------------------------------------------------

\* Every step keeps the types.
LEMMA IOTypeStep == IOInv /\ [IONext]_ioVars => IOTypeOK'
<1> SUFFICES ASSUME IOInv, [IONext]_ioVars PROVE IOTypeOK'
  OBVIOUS
<1>0. IOTypeOK /\ IO \in Threads /\ opened \in Nat
  BY BoundAssumption DEF IOInv, IOTypeOK, Threads
<1>a. ASSUME NEW t \in Threads, NEW l \in Places, Go(t, l) PROVE pc' \in [Threads -> Places]
  BY <1>0, <1>a DEF Go, IOTypeOK, Places
<1>1. ASSUME NEW t \in Threads, YieldLock(t) \/ YieldWrite(t) \/ YieldTake(t) PROVE IOTypeOK'
  BY <1>0, <1>1 DEF YieldLock, YieldWrite, YieldTake, Go, IOTypeOK, Places, YieldPcs
<1>2. ASSUME NEW t \in Threads, Remove(t) PROVE IOTypeOK'
  <2>1. pc' \in [Threads -> Places]
    BY <1>2, <1>a DEF Remove, Places, YieldPcs
  <2>2. \A f \in Fds : fds'[f] = fds[f] \/ fds'[f] = 0
    BY <1>0, <1>2 DEF Remove, IOTypeOK
  <2>3. fds' \in [Fds -> 0 .. MaxDevices]
    <3>1. 0 \in 0 .. MaxDevices
      BY BoundAssumption
    <3>2. fds \in [Fds -> 0 .. MaxDevices] /\ fds' = [fds EXCEPT ![fdOf[dev[t]]] = 0]
      BY <1>0, <1>2 DEF Remove, IOTypeOK
    <3>3. QED
      BY <3>1, <3>2
  <2>4. QED
    BY <1>0, <1>2, <2>1, <2>2, <2>3 DEF Remove, IOTypeOK, Places
<1>3. ASSUME NEW t \in Threads, Close(t) PROVE IOTypeOK'
  <2>0. pc[t] = "closing"
    BY <1>3 DEF Close
  <2>a. op[t] = "remove" /\ dev[t] # 0
    BY <2>0 DEF IOInv, Phases, CallerPhases, ListenerPhases, AtGate, Threads
  <2>b. dev[t] \in Devices
    BY <1>0, <2>a, BoundAssumption DEF IOTypeOK, Devices
  <2>1. op[t] = "remove" /\ dev[t] \in Devices /\ fdOf[dev[t]] # None /\ ~Registered(dev[t])
    BY <2>0, <2>a, <2>b DEF IOInv, Registration
  <2>2. \A f \in Fds : fds'[f] # 0 => fdOf'[fds'[f]] = f
    BY <1>0, <1>3, <2>1 DEF Close, IOTypeOK, Registered
  <2>3. pc' \in [Threads -> Places]
    BY <1>3, <1>a DEF Close, Places, YieldPcs
  <2>4. /\ fdOf' \in [Devices -> Fds \cup {None}]
        /\ op' \in [Threads -> {"none", "add", "remove", "stop"}]
    BY <1>0, <1>3 DEF Close, IOTypeOK
  <2>5. dev' \in [Threads -> 0 .. MaxDevices]
    BY <1>0, <1>3, BoundAssumption DEF Close, IOTypeOK
  <2>6. QED
    BY <1>0, <1>3, <2>2, <2>3, <2>4, <2>5 DEF Close, IOTypeOK, Places
<1>4. ASSUME NEW c \in Callers, Add(c) PROVE IOTypeOK'
  <2>1. c \in Threads /\ dev[c] \in Devices /\ fdOf[dev[c]] # None
    BY <1>0, <1>4 DEF Add, IOInv, Phases, CallerPhases, Registration, IOTypeOK, Devices, Threads
  <2>2. fdOf[dev[c]] \in Fds
    BY <1>0, <2>1 DEF IOTypeOK
  <2>3. /\ fds' \in [Fds -> 0 .. MaxDevices]
        /\ \A f \in Fds : fds'[f] # 0 => fdOf[fds'[f]] = f
    BY <1>0, <1>4, <2>1, <2>2 DEF Add, IOTypeOK
  <2>4. pc' \in [Threads -> Places]
    BY <1>4, <1>a, <2>1 DEF Add, Places
  <2>5. QED
    BY <1>0, <1>4, <2>1, <2>3, <2>4 DEF Add, IOTypeOK, Threads, Places
<1>5. ASSUME NEW c \in Callers, Open(c) PROVE IOTypeOK'
  <2>1. c \in Threads /\ opened + 1 \in Devices /\ opened' \in 0 .. MaxDevices
    BY <1>0, <1>5, BoundAssumption DEF Open, Threads, Devices
  <2>2. fdOf[opened + 1] = None
    BY <1>0, <2>1 DEF IOInv, Numbered
  <2>3. /\ fdOf' \in [Devices -> Fds \cup {None}]
        /\ \A f \in Fds : fds[f] # 0 => fdOf'[fds[f]] = f
    BY <1>0, <1>5, <2>1, <2>2, IOAssumption DEF Open, IOTypeOK
  <2>4. pc' \in [Threads -> Places]
    BY <1>5, <1>a, <2>1 DEF Open, Places, YieldPcs
  <2>5. /\ dev' \in [Threads -> 0 .. MaxDevices] /\ valid' \subseteq Devices
        /\ op' \in [Threads -> {"none", "add", "remove", "stop"}]
    BY <1>0, <1>5, <2>1, BoundAssumption DEF Open, IOTypeOK, Devices
  <2>6. QED
    BY <1>0, <1>5, <2>1, <2>3, <2>4, <2>5 DEF Open, IOTypeOK, Places
<1>6. ASSUME NEW c \in Callers, Drop(c) \/ Stop(c) \/ Stopped(c) \/ Join(c) PROVE IOTypeOK'
  <2>1. c \in Threads
    BY DEF Threads
  <2>2. pc' \in [Threads -> Places]
    BY <1>6, <1>a, <2>1 DEF Drop, Stop, Stopped, Join, Places, YieldPcs
  <2>3. dev' \in [Threads -> 0 .. MaxDevices] /\ op' \in [Threads -> {"none", "add", "remove", "stop"}]
    BY <1>0, <1>6, <2>1, BoundAssumption DEF Drop, Stop, Stopped, Join, IOTypeOK
  <2>4. UNCHANGED <<yield, signal, fds, fdOf, opened, data, hung, valid, batch, wake, cur>>
    BY <1>6 DEF Drop, Stop, Stopped, Join
  <2>5. run' \in Threads \cup {None} /\ running' \in BOOLEAN
    BY <1>0, <1>6 DEF Drop, Stop, Stopped, Join, IOTypeOK
  <2>6. QED
    BY <1>0, <2>2, <2>3, <2>4, <2>5 DEF IOTypeOK, Places
<1>7. CASE Start \/ Poll \/ NextBatch \/ Yielding \/ Drain \/ Relock
  <2>1. pc' \in [Threads -> Places]
    BY <1>0, <1>7, <1>a DEF Start, Poll, NextBatch, Yielding, Drain, Relock, IOTypeOK, Places
  <2>2. batch' \subseteq Events
    <3>1. Ready \subseteq Events
      <4>1. \A f \in Fds, p, q \in BOOLEAN : [fd |-> f, read |-> p, hup |-> q] \in Events
        BY SMT DEF Events
      <4>2. \A f \in Fds : (fds[f] \in data) \in BOOLEAN /\ (fds[f] \in hung) \in BOOLEAN
        BY SMT
      <4>3. \A f \in Fds : [fd |-> f, read |-> fds[f] \in data, hup |-> fds[f] \in hung] \in Events
        BY <4>1, <4>2, Zenon
      <4>4. QED
        BY <4>3, Zenon DEF Ready
    <3>2. QED
      BY <1>0, <1>7, <3>1 DEF Start, Poll, NextBatch, Yielding, Drain, Relock, IOTypeOK
  <2>3. /\ run' \in Threads \cup {None} /\ yield' \in Threads \cup {None}
        /\ signal' \in BOOLEAN /\ wake' \in BOOLEAN /\ running' \in BOOLEAN
    BY <1>0, <1>7 DEF Start, Poll, NextBatch, Yielding, Drain, Relock, IOTypeOK
  <2>4. UNCHANGED <<op, dev, fds, fdOf, opened, data, hung, valid, cur>>
    BY <1>7 DEF Start, Poll, NextBatch, Yielding, Drain, Relock
  <2>5. QED
    BY <1>0, <2>1, <2>2, <2>3, <2>4 DEF IOTypeOK, Places
<1>8. ASSUME NEW e \in batch, Lookup(e) PROVE IOTypeOK'
  <2>1. pc' \in [Threads -> Places]
    BY <1>0, <1>8, <1>a DEF Lookup, IOTypeOK, Places
  <2>2. e \in Events /\ fds[e.fd] \in 0 .. MaxDevices
    BY <1>0 DEF IOTypeOK, Events
  <2>3. dev' \in [Threads -> 0 .. MaxDevices] /\ cur' \in Events \cup {NoEvent} /\ run' \in Threads \cup {None}
    BY <1>0, <1>8, <2>2 DEF Lookup, IOTypeOK
  <2>4. QED
    BY <1>0, <1>8, <2>1, <2>3 DEF Lookup, IOTypeOK, Places
<1>9. CASE Enter \/ Handle
  <2>1. pc' \in [Threads -> Places]
    BY <1>0, <1>9, <1>a DEF Enter, Handle, Places, YieldPcs
  <2>2. /\ dev' \in [Threads -> 0 .. MaxDevices] /\ op' \in [Threads -> {"none", "add", "remove", "stop"}]
        /\ cur' \in Events \cup {NoEvent}
    BY <1>0, <1>9, BoundAssumption DEF Enter, Handle, IOTypeOK
  <2>3. data' \subseteq data /\ valid' \subseteq valid
    BY <1>9 DEF Enter, Handle
  <2>4. UNCHANGED <<run, yield, signal, fds, fdOf, opened, hung, batch, wake, running>>
    BY <1>9 DEF Enter, Handle
  <2>5. QED
    BY <1>0, <2>1, <2>2, <2>3, <2>4 DEF IOTypeOK, Places
<1>10. ASSUME NEW d \in Devices, Report(d) \/ Unplug(d) PROVE IOTypeOK'
  BY <1>0, <1>10 DEF Report, Unplug, IOTypeOK
<1>11. CASE UNCHANGED ioVars
  BY <1>0, <1>11 DEF ioVars, IOTypeOK
<1>12. QED
  BY <1>1, <1>2, <1>3, <1>4, <1>5, <1>6, <1>7, <1>8, <1>9, <1>10, <1>11
  DEF IONext, Yield, Caller, Listen

(* The steps that leave every thread's errand and every device alone. *)
Errands == <<op, dev, fds, fdOf, opened>>

\* Every step keeps what holds at the gate.
LEMMA GateStep == IOInv /\ [IONext]_ioVars => Gate'
<1> SUFFICES ASSUME IOInv, [IONext]_ioVars PROVE Gate'
  OBVIOUS
<1>0. pc \in [Threads -> Places] /\ Gate /\ Callers \subseteq Threads /\ IO \in Threads /\ None \notin Threads
  BY IOAssumption DEF IOInv, IOTypeOK, Threads, Places
<1>1. ASSUME NEW t \in Threads, YieldLock(t) PROVE Gate'
  BY <1>0, <1>1 DEF YieldLock, Go, Gate
<1>2. ASSUME NEW t \in Threads, YieldWrite(t) PROVE Gate'
  BY <1>0, <1>2 DEF YieldWrite, Go, Gate
<1>3. ASSUME NEW t \in Threads, YieldTake(t) PROVE Gate'
  BY <1>0, <1>3 DEF YieldTake, Go, Gate
<1>4. ASSUME NEW t \in Threads, Remove(t) \/ Close(t) PROVE Gate'
  BY <1>0, <1>4 DEF Remove, Close, Go, Gate
<1>5. ASSUME NEW c \in Callers, Add(c) \/ Stopped(c) \/ Join(c) \/ Open(c) \/ Drop(c) \/ Stop(c) PROVE Gate'
  <2>1. /\ UNCHANGED <<yield, signal>>
        /\ \E l \in {"lock", "using", "idle", "join", "joined"} : Go(c, l)
    BY <1>5 DEF Add, Stopped, Join, Open, Drop, Stop
  <2>2. QED
    BY <1>0, <2>1, IOAssumption DEF Go, Gate
<1>6. CASE Drain
  BY <1>0, <1>6 DEF Drain, Go, Gate
<1>7. CASE Relock
  BY <1>0, <1>7 DEF Relock, Go, Gate
<1>8. CASE Start \/ Poll \/ NextBatch \/ Yielding \/ (\E e \in batch : Lookup(e)) \/ Enter \/ Handle
  <2>1. /\ UNCHANGED <<yield, signal>>
        /\ UNCHANGED pc \/ \E l \in {"poll", "batch", "ended", "wantYield", "found", "handler", "handled", "lock"} : Go(IO, l)
    BY <1>8 DEF Start, Poll, NextBatch, Yielding, Lookup, Enter, Handle
  <2>2. QED
    BY <1>0, <2>1 DEF Go, Gate
<1>9. ASSUME NEW d \in Devices, Report(d) \/ Unplug(d) PROVE Gate'
  BY <1>0, <1>9 DEF Report, Unplug, Gate
<1>10. CASE UNCHANGED ioVars
  BY <1>0, <1>10 DEF ioVars, Gate
<1>11. QED
  BY <1>1, <1>2, <1>3, <1>4, <1>5, <1>6, <1>7, <1>8, <1>9, <1>10 DEF IONext, Yield, Caller, Listen

(* The steps of _yield and of the I/O thread that change nobody's errand.   *)
Passes(t) ==
    /\ UNCHANGED Errands
    /\ \/ t \in Threads /\ pc[t] \in AtGate /\ \E l \in AtGate : Go(t, l)
       \/ t \in Callers /\ op[t] = "stop" /\ \E l \in {"join", "joined"} : Go(t, l)
       \/ /\ t = IO
          /\ pc[IO] \in {"start", "poll", "batch", "wantYield", "drained", "handled"}
          /\ \E l \in {"poll", "batch", "wantYield", "drained", "ended"} : Go(IO, l)
       \/ UNCHANGED pc

\* A step passes the gate or does what is behind it.
LEMMA PassingSteps ==
    ASSUME IOInv, [IONext]_ioVars
    PROVE  \/ \E t \in Threads : Passes(t) \/ Remove(t) \/ Close(t)
           \/ \E c \in Callers : Add(c) \/ Open(c) \/ Drop(c) \/ Stop(c)
           \/ (\E e \in batch : fds[e.fd] # 0 /\ Lookup(e)) \/ Enter \/ Handle
<1>0. IO \in Threads /\ Callers \subseteq Threads
  BY DEF Threads
<1>1. ASSUME NEW t \in Threads, YieldLock(t) \/ YieldWrite(t) \/ YieldTake(t) PROVE Passes(t)
  BY <1>1 DEF YieldLock, YieldWrite, YieldTake, AtGate, Passes, Errands
<1>2. ASSUME NEW c \in Callers, Stopped(c) \/ Join(c) PROVE Passes(c)
  <2>1. op[c] = "stop"
    BY <1>2 DEF Stopped, Join, IOInv, Phases, CallerPhases, AtGate
  <2>2. QED
    BY <1>2, <2>1 DEF Stopped, Join, Passes, Errands
<1>3. ASSUME Start \/ Poll \/ NextBatch \/ Yielding \/ Drain \/ Relock PROVE Passes(IO)
  BY <1>3 DEF Start, Poll, NextBatch, Yielding, Drain, Relock, Passes, Errands
<1>4. ASSUME NEW e \in batch, Lookup(e), fds[e.fd] = 0 PROVE Passes(IO)
  BY <1>4 DEF Lookup, Passes, Errands
<1>5. ASSUME NEW d \in Devices, Report(d) \/ Unplug(d) PROVE Passes(IO)
  BY <1>5 DEF Report, Unplug, Passes, Errands
<1>6. ASSUME UNCHANGED ioVars PROVE Passes(IO)
  BY <1>6 DEF ioVars, Passes, Errands
<1>7. QED
  BY <1>0, <1>1, <1>2, <1>3, <1>4, <1>5, <1>6 DEF IONext, Yield, Caller, Listen

(* Every step keeps what is known of devices, their owners and the callback. *)
Owning == Phases /\ Numbered /\ OneOwner /\ Registration

\* Every step keeps who has which device.
LEMMA OwningStep == IOInv /\ [IONext]_ioVars => Owning'
<1> SUFFICES ASSUME IOInv, [IONext]_ioVars PROVE Owning'
  OBVIOUS
<1>0. /\ Phases /\ Numbered /\ OneOwner /\ Registration
      /\ pc \in [Threads -> Places] /\ op \in [Threads -> {"none", "add", "remove", "stop"}]
      /\ dev \in [Threads -> 0 .. MaxDevices] /\ opened \in 0 .. MaxDevices
      /\ fds \in [Fds -> 0 .. MaxDevices] /\ fdOf \in [Devices -> Fds \cup {None}]
      /\ \A f \in Fds : fds[f] # 0 => fdOf[fds[f]] = f
  BY DEF IOInv, IOTypeOK, Places
<1>1. /\ IO \in Threads /\ IO \notin Callers /\ None \notin Fds
      /\ \A t \in Threads : t \in Callers \/ t = IO
      /\ \A c \in Callers : c \in Threads
      /\ MaxDevices \in Nat /\ Devices = 1 .. MaxDevices
  BY IOAssumption, BoundAssumption DEF Threads, Devices
<1>b. \A t \in Threads : op[t] \in {"add", "remove"} => dev[t] \in Devices
  <2>1. \A t \in Threads : op[t] \in {"add", "remove"} => dev[t] # 0
    BY <1>0, <1>1 DEF Phases, CallerPhases, ListenerPhases
  <2>2. QED
    BY <1>0, <1>1, <2>1
<1>c. \A t \in Threads : pc[t] = "closing" => op[t] = "remove"
  BY <1>0, <1>1 DEF Phases, CallerPhases, ListenerPhases, AtGate
<1>2. ASSUME NEW t \in Threads, Passes(t) PROVE Owning'
  <2>0. UNCHANGED Errands
    BY <1>2 DEF Passes
  <2>1. Phases'
    <3>1. ASSUME t \in Threads, pc[t] \in AtGate, NEW l \in AtGate, Go(t, l) PROVE Phases'
      BY <1>0, <1>1, <2>0, <3>1 DEF Errands, Go, Phases, CallerPhases, ListenerPhases, AtGate
    <3>2. ASSUME t \in Callers, op[t] = "stop", NEW l \in {"join", "joined"}, Go(t, l) PROVE Phases'
      BY <1>0, <1>1, <2>0, <3>2 DEF Errands, Go, Phases, CallerPhases, ListenerPhases, AtGate
    <3>3. ASSUME pc[IO] \in {"start", "poll", "batch", "wantYield", "drained", "handled"},
                 NEW l \in {"poll", "batch", "wantYield", "drained", "ended"}, Go(IO, l)
          PROVE  Phases'
      BY <1>0, <1>1, <2>0, <3>3 DEF Errands, Go, Phases, CallerPhases, ListenerPhases, AtGate
    <3>4. CASE UNCHANGED pc
      BY <1>0, <2>0, <3>4 DEF Errands, Phases, CallerPhases, ListenerPhases
    <3>5. QED
      BY <1>2, <3>1, <3>2, <3>3, <3>4 DEF Passes
  <2>2. Numbered'
    BY <1>0, <1>2 DEF Passes, Errands, Numbered
  <2>3. OneOwner'
    BY <1>0, <1>1, <1>2 DEF Passes, Errands, Go, OneOwner, AtGate
  <2>4. Registration'
    BY <1>0, <1>1, <1>2
    DEF Passes, Errands, Go, Phases, CallerPhases, ListenerPhases, Registration, Registered, AtGate
  <2>5. QED
    BY <2>1, <2>2, <2>3, <2>4 DEF Owning
<1>3. ASSUME NEW t \in Threads, Remove(t) PROVE Owning'
  <2>1. /\ pc[t] = "hold" /\ op[t] = "remove" /\ dev[t] \in Devices
        /\ pc' = [pc EXCEPT ![t] = "closing"] /\ fds' = [fds EXCEPT ![fdOf[dev[t]]] = 0]
        /\ UNCHANGED <<op, dev, fdOf, opened>>
    BY <1>0, <1>1, <1>3 DEF Remove, Go, Phases, CallerPhases, ListenerPhases, AtGate
  <2>2. Registered(dev[t]) /\ fdOf[dev[t]] \in Fds /\ ~Registered(dev[t])'
    BY <1>0, <1>1, <2>1 DEF Registration, Registered
  <2>3. \A d \in Devices \ {dev[t]} : Registered(d)' <=> Registered(d)
    BY <1>0, <1>1, <2>1, <2>2 DEF Registered
  <2>4. \A u \in Threads \ {t} : op[u] \in {"add", "remove"} => dev[u] # dev[t]
    BY <1>0, <1>1, <2>1 DEF OneOwner, Phases, CallerPhases, ListenerPhases
  <2>5. Phases' /\ Numbered' /\ OneOwner'
    BY <1>0, <1>1, <2>1 DEF Phases, CallerPhases, ListenerPhases, Numbered, OneOwner, AtGate
  <2>6. Registration'
    <3>1. ASSUME NEW u \in Threads \ {t}, op'[u] \in {"add", "remove"}
          PROVE  /\ fdOf'[dev'[u]] # None
                 /\ Registered(dev[u])' <=> (pc'[u] = "using" \/ (op'[u] = "remove" /\ pc'[u] # "closing"))
      <4>1. dev[u] \in Devices \ {dev[t]} /\ pc'[u] = pc[u]
        BY <1>0, <1>b, <2>1, <2>4, <3>1
      <4>2. QED
        BY <1>0, <2>1, <2>3, <3>1, <4>1 DEF Registration, Registered
    <3>2. pc'[t] = "closing" /\ fdOf'[dev'[t]] # None /\ ~Registered(dev[t])'
      BY <1>0, <2>1, <2>2 DEF Registered
    <3>3. pc'[IO] = "handler" => Registered(dev[IO])'
      <4>1. CASE t # IO /\ pc[IO] = "handler"
        <5>1. dev[IO] \in Devices \ {dev[t]}
          BY <1>0, <1>1, <2>1, <4>1 DEF OneOwner, Phases, ListenerPhases, AtGate
        <5>2. QED
          BY <1>0, <2>1, <2>3, <4>1, <5>1 DEF Registration
      <4>2. QED
        BY <1>0, <2>1, <4>1
    <3>4. pc'[IO] = "found" =>
            \A c \in Callers : dev'[c] = dev'[IO] /\ op'[c] = "add" => pc'[c] = "using"
      BY <1>0, <1>1, <2>1 DEF Registration
    <3>5. QED
      BY <2>1, <3>1, <3>2, <3>3, <3>4 DEF Registration
  <2>7. QED
    BY <2>5, <2>6 DEF Owning
<1>4. ASSUME NEW t \in Threads, Close(t) PROVE Owning'
  <2>1. /\ pc[t] = "closing" /\ op[t] = "remove" /\ dev[t] \in Devices
        /\ fdOf' = [fdOf EXCEPT ![dev[t]] = None] /\ dev' = [dev EXCEPT ![t] = 0]
        /\ op' = [op EXCEPT ![t] = "none"]
        /\ pc' = [pc EXCEPT ![t] = IF t = IO THEN "handled" ELSE "idle"]
        /\ UNCHANGED <<fds, opened>>
    <3>1. pc[t] = "closing"
      BY <1>4 DEF Close
    <3>2. op[t] = "remove" /\ dev[t] \in Devices
      BY <1>b, <1>c, <3>1
    <3>3. QED
      BY <1>4, <3>2 DEF Close, Go
  <2>2. \A d \in Devices \ {dev[t]} : (Registered(d)' <=> Registered(d)) /\ fdOf'[d] = fdOf[d]
    BY <1>0, <2>1 DEF Registered
  <2>3. \A u \in Threads \ {t} : op[u] \in {"add", "remove"} => dev[u] # dev[t]
    BY <1>0, <1>1, <2>1 DEF OneOwner, Phases, CallerPhases, ListenerPhases
  <2>4. Phases'
    BY <1>0, <1>1, <2>1 DEF Phases, CallerPhases, ListenerPhases, AtGate
  <2>5. Numbered'
    BY <1>0, <1>1, <2>1 DEF Numbered
  <2>6. OneOwner'
    BY <1>0, <1>1, <2>1 DEF OneOwner, Phases, CallerPhases, ListenerPhases
  <2>7. Registration'
    BY <1>0, <1>1, <2>1, <2>2, <2>3
    DEF Registration, OneOwner, Phases, CallerPhases, ListenerPhases
  <2>8. QED
    BY <2>4, <2>5, <2>6, <2>7 DEF Owning
<1>5. ASSUME NEW c \in Callers, Add(c) PROVE Owning'
  <2>1. /\ c \in Threads /\ pc[c] = "hold" /\ op[c] = "add" /\ dev[c] \in Devices
        /\ fdOf[dev[c]] # None /\ fds[fdOf[dev[c]]] = 0 /\ fds' = [fds EXCEPT ![fdOf[dev[c]]] = dev[c]]
        /\ pc' = [pc EXCEPT ![c] = "using"]
        /\ UNCHANGED <<op, dev, fdOf, opened>>
    BY <1>0, <1>1, <1>5 DEF Add, Go, Phases, CallerPhases, AtGate, Registration
  <2>2. Registered(dev[c])'
    BY <1>0, <2>1 DEF Registered
  <2>3. \A d \in Devices \ {dev[c]} : Registered(d)' <=> Registered(d)
    BY <1>0, <1>1, <2>1 DEF Registered
  <2>4. \A u \in Threads \ {c} : op[u] \in {"add", "remove"} => dev[u] # dev[c]
    BY <1>0, <1>1, <2>1 DEF OneOwner, Phases, CallerPhases, ListenerPhases
  <2>5. Phases' /\ Numbered' /\ OneOwner'
    BY <1>0, <1>1, <2>1 DEF Phases, CallerPhases, ListenerPhases, Numbered, OneOwner, AtGate
  <2>6. Registration'
    <3>1. ASSUME NEW u \in Threads \ {c}, op'[u] \in {"add", "remove"}
          PROVE  /\ fdOf'[dev'[u]] # None
                 /\ Registered(dev[u])' <=> (pc'[u] = "using" \/ (op'[u] = "remove" /\ pc'[u] # "closing"))
      <4>1. dev[u] \in Devices \ {dev[c]} /\ pc'[u] = pc[u]
        BY <1>0, <1>b, <2>1, <2>4, <3>1
      <4>2. QED
        BY <1>0, <2>1, <2>3, <3>1, <4>1 DEF Registration, Registered
    <3>2. pc'[c] = "using" /\ fdOf'[dev'[c]] # None /\ Registered(dev[c])'
      BY <1>0, <2>1, <2>2
    <3>3. pc'[IO] = "handler" => Registered(dev[IO])'
      <4>1. CASE pc[IO] = "handler"
        <5>1. dev[IO] \in Devices
          BY <1>0, <1>1, <4>1 DEF Phases, ListenerPhases, AtGate
        <5>2. QED
          BY <1>0, <2>1, <2>2, <2>3, <4>1, <5>1 DEF Registration
      <4>2. QED
        BY <1>0, <1>1, <2>1, <4>1
    <3>4. pc'[IO] = "found" =>
            \A d \in Callers : dev'[d] = dev'[IO] /\ op'[d] = "add" => pc'[d] = "using"
      BY <1>0, <1>1, <2>1 DEF Registration
    <3>5. QED
      BY <2>1, <3>1, <3>2, <3>3, <3>4 DEF Registration
  <2>7. QED
    BY <2>5, <2>6 DEF Owning
<1>6. ASSUME NEW c \in Callers, Open(c) PROVE Owning'
  <2> PICK new \in Devices : new = opened + 1
    BY <1>0, <1>1, <1>6 DEF Open
  <2>1. /\ pc[c] = "idle" /\ op[c] = "none" /\ opened' = new
        /\ dev' = [dev EXCEPT ![c] = new] /\ op' = [op EXCEPT ![c] = "add"]
        /\ pc' = [pc EXCEPT ![c] = "lock"] /\ UNCHANGED fds
    <3>1. pc[c] = "idle" /\ opened < MaxDevices
      BY <1>6 DEF Open
    <3>2. op[c] = "none"
      BY <1>0, <1>1, <3>1 DEF Phases, CallerPhases, AtGate
    <3>3. QED
      BY <1>6, <3>2 DEF Open, Go
  <2>2. PICK f \in Fds : fdOf' = [fdOf EXCEPT ![new] = f] /\ \A d \in Devices : fdOf[d] # f
    BY <1>6 DEF Open, InUse
  <2>3. fdOf[new] = None /\ \A t \in Threads : dev[t] # new
    BY <1>0, <1>1, <2>1 DEF Numbered
  <2>4. ~Registered(new)'
    <3>1. fds[f] # new
      BY <1>0, <1>1, <2>2, <2>3
    <3>2. fdOf'[new] = f /\ fds' = fds
      BY <1>0, <2>1, <2>2
    <3>3. QED
      BY <3>1, <3>2 DEF Registered
  <2>5. \A d \in Devices \ {new} : (Registered(d)' <=> Registered(d)) /\ fdOf'[d] = fdOf[d]
    BY <1>0, <2>1, <2>2 DEF Registered
  <2>6. Phases'
    BY <1>0, <1>1, <2>1 DEF Phases, CallerPhases, ListenerPhases, AtGate
  <2>7. Numbered'
    BY <1>0, <1>1, <2>1, <2>2 DEF Numbered
  <2>8. OneOwner'
    BY <1>0, <1>1, <2>1, <2>3 DEF OneOwner
  <2>9. Registration'
    <3>1. ASSUME NEW u \in Threads \ {c}, op'[u] \in {"add", "remove"}
          PROVE  /\ fdOf'[dev'[u]] # None
                 /\ Registered(dev[u])' <=> (pc'[u] = "using" \/ (op'[u] = "remove" /\ pc'[u] # "closing"))
      <4>1. dev[u] \in Devices \ {new} /\ pc'[u] = pc[u] /\ op'[u] = op[u] /\ dev'[u] = dev[u]
        BY <1>0, <1>b, <2>1, <2>3, <3>1
      <4>2. QED
        BY <1>0, <2>1, <2>5, <3>1, <4>1 DEF Registration, Registered
    <3>2. /\ op'[c] = "add" /\ pc'[c] = "lock"
          /\ fdOf'[dev'[c]] # None /\ ~Registered(dev[c])'
      BY <1>0, <1>1, <2>1, <2>2, <2>4
    <3>3. pc'[IO] = "handler" => Registered(dev[IO])'
      <4>1. CASE pc[IO] = "handler"
        <5>1. dev[IO] \in Devices \ {new}
          BY <1>0, <1>1, <2>3, <4>1 DEF Phases, ListenerPhases, AtGate
        <5>2. QED
          BY <1>0, <1>1, <2>1, <2>5, <4>1, <5>1 DEF Registration
      <4>2. QED
        BY <1>0, <1>1, <2>1, <4>1
    <3>4. pc'[IO] = "found" =>
            \A d \in Callers : dev'[d] = dev'[IO] /\ op'[d] = "add" => pc'[d] = "using"
      BY <1>0, <1>1, <2>1, <2>3 DEF Registration
    <3>5. QED
      BY <3>1, <3>2, <3>3, <3>4 DEF Registration
  <2>10. QED
    BY <2>6, <2>7, <2>8, <2>9 DEF Owning
<1>7. ASSUME NEW c \in Callers, Drop(c) PROVE Owning'
  <2>1. /\ c \in Threads /\ pc[c] = "using" /\ op[c] = "add" /\ dev[c] \in Devices
        /\ UNCHANGED <<fds, fdOf, opened>>
    <3>1. pc[c] = "using" /\ UNCHANGED <<fds, fdOf, opened>>
      BY <1>7 DEF Drop
    <3>2. op[c] = "add" /\ dev[c] \in Devices
      BY <1>0, <1>1, <3>1 DEF Phases, CallerPhases, AtGate
    <3>3. QED
      BY <1>1, <3>1, <3>2
  <2>2. CASE pc[IO] = "handler" /\ dev[IO] = dev[c]
    <3>1. /\ pc' = [pc EXCEPT ![c] = "idle"] /\ op' = [op EXCEPT ![c] = "none"]
          /\ dev' = [dev EXCEPT ![c] = 0]
      BY <1>7, <2>2 DEF Drop, Go
    <3>2. Phases' /\ Numbered' /\ OneOwner'
      BY <1>0, <1>1, <2>1, <3>1 DEF Phases, CallerPhases, ListenerPhases, Numbered, OneOwner, AtGate
    <3>3. Registration'
      BY <1>0, <1>1, <2>1, <2>2, <3>1 DEF Registration, Registered, Phases, ListenerPhases
    <3>4. QED
      BY <3>2, <3>3 DEF Owning
  <2>3. CASE ~(pc[IO] = "handler" /\ dev[IO] = dev[c])
    <3>1. pc' = [pc EXCEPT ![c] = "lock"] /\ op' = [op EXCEPT ![c] = "remove"] /\ UNCHANGED dev
      BY <1>7, <2>3 DEF Drop, Go
    <3>2. Phases' /\ Numbered' /\ OneOwner'
      BY <1>0, <1>1, <2>1, <2>3, <3>1
      DEF Phases, CallerPhases, ListenerPhases, Numbered, OneOwner, AtGate
    <3>3. Registration'
      BY <1>0, <1>1, <2>1, <2>3, <3>1 DEF Registration, Registered, Phases, ListenerPhases
    <3>4. QED
      BY <3>2, <3>3 DEF Owning
  <2>4. QED
    BY <2>2, <2>3
<1>8. ASSUME NEW c \in Callers, Stop(c) PROVE Owning'
  <2>1. /\ c \in Threads /\ pc[c] = "idle" /\ op[c] = "none"
        /\ pc' = [pc EXCEPT ![c] = "lock"] /\ op' = [op EXCEPT ![c] = "stop"]
        /\ UNCHANGED <<dev, fds, fdOf, opened>>
    BY <1>0, <1>1, <1>8 DEF Stop, Go, Phases, CallerPhases, AtGate
  <2>2. dev[c] = 0
    BY <1>0, <2>1 DEF Phases, CallerPhases
  <2>3. Phases' /\ Numbered' /\ OneOwner'
    BY <1>0, <1>1, <2>1, <2>2
    DEF Phases, CallerPhases, ListenerPhases, Numbered, OneOwner, AtGate
  <2>4. Registration'
    BY <1>0, <1>1, <2>1 DEF Registration, Registered, Phases, ListenerPhases
  <2>5. QED
    BY <2>3, <2>4 DEF Owning
<1>9. ASSUME NEW e \in batch, fds[e.fd] # 0, Lookup(e) PROVE Owning'
  <2>1. /\ pc[IO] = "batch" /\ pc' = [pc EXCEPT ![IO] = "found"]
        /\ dev' = [dev EXCEPT ![IO] = fds[e.fd]]
        /\ UNCHANGED <<op, fds, fdOf, opened>>
    BY <1>9 DEF Lookup, Go
  <2>2. e.fd \in Fds /\ fds[e.fd] \in Devices /\ Registered(fds[e.fd])
    BY <1>0, <1>1, <1>9 DEF IOInv, IOTypeOK, Events, Registered
  <2>3. op[IO] = "none"
    BY <1>0, <2>1 DEF Phases, ListenerPhases, AtGate
  <2>4. Phases' /\ OneOwner'
    BY <1>0, <1>1, <2>1, <2>2, <2>3 DEF Phases, CallerPhases, ListenerPhases, OneOwner, AtGate
  <2>5. Numbered'
    BY <1>0, <1>1, <2>1, <2>2 DEF Numbered, Registered
  <2>6. Registration'
    BY <1>0, <1>1, <2>1, <2>2, <2>3 DEF Registration, Registered, Phases, CallerPhases
  <2>7. QED
    BY <2>4, <2>5, <2>6 DEF Owning
<1>10. CASE Enter
  <2>1. /\ pc[IO] = "found" /\ op[IO] = "none" /\ dev[IO] # 0
        /\ UNCHANGED <<op, fds, fdOf, opened>>
    BY <1>0, <1>10 DEF Enter, Phases, ListenerPhases, AtGate
  <2>2. CASE Owned(dev[IO])
    <3>1. pc' = [pc EXCEPT ![IO] = "handler"] /\ UNCHANGED dev
      BY <1>10, <2>2 DEF Enter, Go
    <3>2. PICK c \in Callers : dev[c] = dev[IO] /\ op[c] = "add"
      BY <2>2 DEF Owned
    <3>3. Registered(dev[IO])
      BY <1>0, <1>1, <2>1, <3>2 DEF Registration
    <3>p. Phases'
      BY <1>0, <1>1, <2>1, <3>1 DEF Phases, CallerPhases, ListenerPhases, AtGate
    <3>n. Numbered'
      BY <1>0, <2>1, <3>1 DEF Numbered
    <3>o. OneOwner'
      BY <1>0, <1>1, <2>1, <3>1, <3>2 DEF OneOwner
    <3>4. Phases' /\ Numbered' /\ OneOwner'
      BY <3>p, <3>n, <3>o
    <3>5. Registration'
      BY <1>0, <1>1, <2>1, <3>1, <3>3 DEF Registration, Registered
    <3>6. QED
      BY <3>4, <3>5 DEF Owning
  <2>3. CASE ~Owned(dev[IO])
    <3>1. pc' = [pc EXCEPT ![IO] = "handled"] /\ dev' = [dev EXCEPT ![IO] = 0]
      BY <1>10, <2>3 DEF Enter, Go
    <3>2. Phases' /\ Numbered' /\ OneOwner'
      BY <1>0, <1>1, <2>1, <3>1
      DEF Phases, CallerPhases, ListenerPhases, Numbered, OneOwner, AtGate
    <3>3. Registration'
      BY <1>0, <1>1, <2>1, <3>1 DEF Registration, Registered
    <3>4. QED
      BY <3>2, <3>3 DEF Owning
  <2>4. QED
    BY <2>2, <2>3
<1>11. CASE Handle
  <2>1. /\ pc[IO] = "handler" /\ op[IO] = "none" /\ dev[IO] \in Devices
        /\ Registered(dev[IO]) /\ UNCHANGED <<fds, fdOf, opened>>
    BY <1>0, <1>1, <1>11 DEF Handle, Phases, ListenerPhases, AtGate, Registration
  <2>2. CASE Owned(dev[IO])
    <3>1. pc' = [pc EXCEPT ![IO] = "handled"] /\ dev' = [dev EXCEPT ![IO] = 0] /\ UNCHANGED op
      BY <1>11, <2>2 DEF Handle, Go
    <3>2. Phases' /\ Numbered' /\ OneOwner'
      BY <1>0, <1>1, <2>1, <3>1
      DEF Phases, CallerPhases, ListenerPhases, Numbered, OneOwner, AtGate
    <3>3. Registration'
      BY <1>0, <1>1, <2>1, <3>1 DEF Registration, Registered
    <3>4. QED
      BY <3>2, <3>3 DEF Owning
  <2>3. CASE ~Owned(dev[IO])
    <3>1. pc' = [pc EXCEPT ![IO] = "lock"] /\ op' = [op EXCEPT ![IO] = "remove"] /\ UNCHANGED dev
      BY <1>11, <2>3 DEF Handle, Go
    <3>2. \A c \in Callers : dev[c] # dev[IO]
      BY <1>0, <2>1, <2>3 DEF OneOwner, Owned
    <3>3. Phases' /\ Numbered' /\ OneOwner'
      BY <1>0, <1>1, <2>1, <3>1, <3>2
      DEF Phases, CallerPhases, ListenerPhases, Numbered, OneOwner, AtGate
    <3>4. Registration'
      BY <1>0, <1>1, <2>1, <3>1 DEF Registration, Registered
    <3>5. QED
      BY <3>3, <3>4 DEF Owning
  <2>4. QED
    BY <2>2, <2>3
<1>12. QED
  BY <1>2, <1>3, <1>4, <1>5, <1>6, <1>7, <1>8, <1>9, <1>10, <1>11, PassingSteps

\* IOInv is an invariant.
LEMMA IOInvariant == IOSpec => []IOInv
<1>1. IOInit => IOInv
  BY IOInitially
<1>2. IOInv /\ [IONext]_ioVars => IOInv'
  BY IOTypeStep, GateStep, OwningStep DEF IOInv, Owning
<1>3. QED
  BY <1>1, <1>2, PTL DEF IOSpec

(***************************************************************************)
(* No wakeup of the I/O thread is lost: whoever waits for _run_mutex while *)
(* epoll_wait blocks has made the eventfd readable, and no drain of an     *)
(* earlier yield has taken that signal.                                    *)
(***************************************************************************)
THEOREM YieldersAreHeard == IOSpec => []YielderIsHeard
<1>1. IOInv => YielderIsHeard
  BY DEF IOInv, Gate, YielderIsHeard
<1>2. QED
  BY <1>1, IOInvariant, PTL

(***************************************************************************)
(* While a callback runs, its device is registered and open, whatever its  *)
(* owner does meanwhile and however descriptor numbers are used again.     *)
(***************************************************************************)
THEOREM CallbacksOnOpenDevices == IOSpec => []CallbackOnOpenDevice
<1>1. IOInv => CallbackOnOpenDevice
  <2> SUFFICES ASSUME IOInv, pc[IO] = "handler"
               PROVE  \E f \in Fds : fds[f] = dev[IO] /\ fdOf[dev[IO]] = f
    BY DEF CallbackOnOpenDevice
  <2>1. dev[IO] \in Devices /\ fdOf[dev[IO]] \in Fds \cup {None}
    BY BoundAssumption DEF IOInv, IOTypeOK, Phases, ListenerPhases, AtGate, Threads, Devices
  <2>2. Registered(dev[IO])
    BY DEF IOInv, Registration
  <2>3. QED
    BY <2>1, <2>2 DEF Registered
<1>2. QED
  BY <1>1, IOInvariant, PTL

-----------------------------------------------------------------------------
(* EventHandlerList *)

\* Handlers are numbered as they are added.
Bounds ==
    /\ list \cup active \subseteq 1 .. added
    /\ \A o \in Owners : handle[o] <= added

\* mutex is held by the owner that erases, by cleanup, or by the round.
MutexHeld ==
    /\ \A o \in Owners : removal[o] = "erase" <=> mutex = o
    /\ mutex = "cleanup" <=> round = "cleanup"
    /\ mutex = "round" <=> round \in {"check", "called", "running"}

\* No two locks name the same entry; only what has a lock is removed, and not
\* while a callback keeps its owner alive.
Apart ==
    /\ \A o, p \in Owners : handle[o] # 0 /\ handle[o] = handle[p] => o = p
    /\ \A o \in Owners : removal[o] # "no" => handle[o] # 0 /\ o \notin orphaned

\* Whatever the round owes its report has an owner that keeps it.
DueKept == \A h \in due : Kept(h)

\* The round goes from the newest entry to the oldest: it has offered its
\* report to entries before its place only, none newer than the round ...
RoundPlace ==
    /\ round \in {"idle", "cleanup", "begin"} => at = 0
    /\ round \in {"called", "running"} => at # 0 /\ at \in offered
    /\ at <= newest
    /\ round \in {"check", "called", "running"} =>
          \A h \in offered : h > at \/ (round # "check" /\ h = at)

\* ... and what it still owes is at its place or behind it.
DueAhead ==
    round \in {"check", "called", "running"} =>
        \A h \in due \ offered : h < at \/ (round = "check" /\ h = at)

\* What holds of a round while nothing tore the list.
Sound == Bounds /\ MutexHeld /\ Apart /\ DueKept /\ RoundPlace /\ DueAhead
         /\ RoundStandsOnList /\ EveryHandlerIsOffered /\ MarkedWhenRemoved

\* The inductive invariant.
RoundInv == HandlersTypeOK /\ (torn = "no" => Sound)

USE DEF handlerVars, listVars, roundVars

\* Before the first handler, nothing is listed and nobody holds mutex.
LEMMA RoundInitially == HandlersInit => RoundInv
  <1> SUFFICES ASSUME HandlersInit PROVE RoundInv
    OBVIOUS
  <1> USE DEF HandlersInit
  <1>1. HandlersTypeOK
    BY MaxAddsAssumption DEF HandlersTypeOK
  <1>2. Bounds /\ MutexHeld /\ Apart /\ DueKept /\ RoundPlace /\ DueAhead
    BY OwnersAssumption, MaxAddsAssumption
    DEF Bounds, MutexHeld, Apart, DueKept, RoundPlace, DueAhead
  <1>3. RoundStandsOnList /\ EveryHandlerIsOffered /\ MarkedWhenRemoved
    BY DEF RoundStandsOnList, EveryHandlerIsOffered, MarkedWhenRemoved
  <1> QED
    BY <1>1, <1>2, <1>3 DEF RoundInv, Sound

\* The place the round goes to: past the end, or an entry in front of all that
\* are still behind.
LEMMA AfterIsNext ==
    ASSUME HandlersTypeOK, NEW h \in 0 .. MaxAdds, NEW g \in After(h)
    PROVE  /\ g \in 0 .. MaxAdds
           /\ g # 0 => g \in list /\ (h # 0 => g < h)
           /\ \A k \in list : (h = 0 \/ k < h) => k <= g /\ g # 0
  BY MaxAddsAssumption DEF HandlersTypeOK, After, Behind, Handlers

\* Every variable keeps its type.
LEMMA RoundTypeStep ==
    ASSUME HandlersTypeOK, [HandlersNext]_handlerVars
    PROVE  HandlersTypeOK'
  <1> USE MaxAddsAssumption DEF HandlersTypeOK, Handlers
  <1>0. 0 \in 0 .. MaxAdds /\ added \in 0 .. added
    OBVIOUS
  <1>1. ASSUME NEW o \in Owners, add(o) PROVE HandlersTypeOK'
    <2>1. added + 1 \in 1 .. MaxAdds
      BY <1>1 DEF add
    <2>2. torn' \in {"no", "now", "was"}
      BY <1>1 DEF add
    <2>3. newest' \in 0 .. added'
      BY <1>1 DEF add
    <2> QED
      BY <1>1, <2>1, <2>2, <2>3 DEF add
  <1>2. ASSUME NEW o \in Owners, giveUp(o) PROVE HandlersTypeOK'
    BY <1>2 DEF giveUp
  <1>3. ASSUME NEW o \in Owners, try(o) PROVE HandlersTypeOK'
    BY <1>3 DEF try
  <1>4. ASSUME NEW o \in Owners, erase(o) PROVE HandlersTypeOK'
    BY <1>0, <1>4 DEF erase
  <1>5. ASSUME NEW o \in Owners, mark(o) PROVE HandlersTypeOK'
    BY <1>0, <1>5 DEF mark
  <1>6. CASE readReport
    BY <1>6 DEF readReport
  <1>7. CASE cleanup
    BY <1>7 DEF cleanup
  <1>8. CASE beginRound
    BY <1>0, <1>8, AfterIsNext DEF beginRound
  <1>9. CASE check
    BY <1>9, AfterIsNext DEF check
  <1>10. CASE callback
    BY <1>10, AfterIsNext DEF callback
  <1>11. CASE callbackReturns
    BY <1>0, <1>11, AfterIsNext DEF callbackReturns
  <1>12. CASE endRound
    BY <1>12 DEF endRound
  <1>13. CASE UNCHANGED handlerVars
    BY <1>13
  <1> QED
    BY <1>1, <1>2, <1>3, <1>4, <1>5, <1>6, <1>7, <1>8, <1>9, <1>10, <1>11, <1>12, <1>13
    DEF HandlersNext

\* A list that an add and cleanup have written at once is never sound again.
LEMMA TornStays == [HandlersNext]_handlerVars /\ torn' = "no" => torn = "no"
  BY DEF HandlersNext, add, giveUp, try, erase, mark, readReport, cleanup, beginRound, check,
         callback, callbackReturns, endRound

\* Every step keeps the invariant; the disjuncts are taken one by one.
LEMMA RoundStep ==
    ASSUME RoundInv, [HandlersNext]_handlerVars
    PROVE  RoundInv'
  <1>0. HandlersTypeOK'
    BY RoundTypeStep DEF RoundInv
  <1> SUFFICES ASSUME torn' = "no" PROVE Sound'
    BY <1>0 DEF RoundInv
  <1> HandlersTypeOK /\ Sound
    BY TornStays DEF RoundInv
  <1>1. ASSUME NEW o \in Owners, add(o) PROVE Sound'
    <2> USE <1>1 DEF add
    <2>1. Bounds' /\ MutexHeld' /\ Apart'
      BY DEF HandlersTypeOK, Sound, Bounds, MutexHeld, Apart
    <2>2. DueKept'
      <3> SUFFICES ASSUME NEW h \in due' PROVE Kept(h)'
        BY DEF DueKept
      <3>1. h # 0
        BY DEF HandlersTypeOK, Handlers
      <3>2. PICK p \in Owners : handle[p] = h /\ removal[p] = "no"
        BY DEF Sound, DueKept, Kept
      <3>3. handle'[p] = h /\ removal'[p] = "no"
        BY <3>1, <3>2 DEF HandlersTypeOK
      <3> QED
        BY <3>3 DEF Kept
    <2>3. RoundPlace' /\ DueAhead'
      BY DEF Sound, RoundPlace, DueAhead
    <2>4. RoundStandsOnList' /\ EveryHandlerIsOffered'
      BY DEF Sound, RoundStandsOnList, EveryHandlerIsOffered
    <2>5. MarkedWhenRemoved'
      <3>1. handle' = [handle EXCEPT ![o] = added + 1] /\ handle[o] = 0 /\ 0 \notin active
        BY DEF HandlersTypeOK, Handlers
      <3> QED
        BY <3>1 DEF HandlersTypeOK, Sound, MarkedWhenRemoved
    <2> QED
      BY <2>1, <2>2, <2>3, <2>4, <2>5 DEF Sound
  <1>2. ASSUME NEW o \in Owners, giveUp(o) PROVE Sound'
    <2> USE <1>2 DEF giveUp
    <2>1. Bounds' /\ MutexHeld' /\ Apart'
      BY DEF HandlersTypeOK, Sound, Bounds, MutexHeld, Apart
    <2>2. DueKept'
      <3> SUFFICES ASSUME NEW h \in due' PROVE Kept(h)'
        BY DEF DueKept
      <3>1. PICK p \in Owners : handle[p] = h /\ removal[p] = "no"
        BY DEF Sound, DueKept, Kept
      <3>2. handle'[p] = h /\ removal'[p] = "no"
        BY <3>1 DEF HandlersTypeOK
      <3> QED
        BY <3>2 DEF Kept
    <2>3. RoundPlace' /\ DueAhead'
      BY DEF Sound, RoundPlace, DueAhead
    <2>4. RoundStandsOnList' /\ EveryHandlerIsOffered'
      BY DEF Sound, RoundStandsOnList, EveryHandlerIsOffered
    <2>5. MarkedWhenRemoved'
      BY DEF Sound, MarkedWhenRemoved
    <2> QED
      BY <2>1, <2>2, <2>3, <2>4, <2>5 DEF Sound
  <1>3. ASSUME NEW o \in Owners, try(o) PROVE Sound'
    <2> USE <1>3 DEF try
    <2>1. Bounds' /\ MutexHeld' /\ Apart'
      BY OwnersAssumption DEF HandlersTypeOK, Sound, Bounds, MutexHeld, Apart
    <2>2. DueKept'
      BY DEF HandlersTypeOK, Sound, DueKept, Kept
    <2>3. RoundPlace' /\ DueAhead'
      BY DEF Sound, RoundPlace, DueAhead
    <2>4. RoundStandsOnList' /\ EveryHandlerIsOffered' /\ MarkedWhenRemoved'
      BY DEF HandlersTypeOK, Sound, RoundStandsOnList, EveryHandlerIsOffered, MarkedWhenRemoved
    <2> QED
      BY <2>1, <2>2, <2>3, <2>4 DEF Sound
  <1>4. ASSUME NEW o \in Owners, erase(o) PROVE Sound'
    <2> USE <1>4 DEF erase
    <2>0. mutex = o /\ round \notin {"check", "called", "running"} /\ at = 0
      BY OwnersAssumption DEF HandlersTypeOK, Sound, MutexHeld, RoundPlace
    <2>1. Bounds' /\ MutexHeld' /\ Apart'
      BY <2>0, OwnersAssumption DEF HandlersTypeOK, Sound, Bounds, MutexHeld, Apart
    <2>2. DueKept'
      BY DEF HandlersTypeOK, Sound, DueKept, Kept
    <2>3. RoundPlace' /\ DueAhead'
      BY DEF Sound, RoundPlace, DueAhead
    <2>4. RoundStandsOnList' /\ EveryHandlerIsOffered'
      BY <2>0 DEF Sound, RoundStandsOnList, EveryHandlerIsOffered
    <2>5. MarkedWhenRemoved'
      BY DEF HandlersTypeOK, Sound, Apart, MarkedWhenRemoved
    <2> QED
      BY <2>1, <2>2, <2>3, <2>4, <2>5 DEF Sound
  <1>5. ASSUME NEW o \in Owners, mark(o) PROVE Sound'
    <2> USE <1>5 DEF mark
    <2>1. Bounds' /\ MutexHeld' /\ Apart'
      BY DEF HandlersTypeOK, Sound, Bounds, MutexHeld, Apart
    <2>2. DueKept'
      BY DEF HandlersTypeOK, Sound, DueKept, Kept
    <2>3. RoundPlace' /\ DueAhead'
      BY DEF Sound, RoundPlace, DueAhead
    <2>4. RoundStandsOnList' /\ EveryHandlerIsOffered'
      BY DEF Sound, RoundStandsOnList, EveryHandlerIsOffered
    <2>5. MarkedWhenRemoved'
      BY DEF HandlersTypeOK, Sound, Apart, MarkedWhenRemoved
    <2> QED
      BY <2>1, <2>2, <2>3, <2>4, <2>5 DEF Sound
  <1>6. CASE readReport
    <2> USE <1>6 DEF readReport
    <2>1. Bounds' /\ Apart' /\ DueKept'
      BY DEF Sound, Bounds, Apart, DueKept, Kept
    <2>2. MutexHeld'
      BY OwnersAssumption DEF HandlersTypeOK, Sound, MutexHeld
    <2>3. RoundPlace' /\ DueAhead' /\ RoundStandsOnList' /\ EveryHandlerIsOffered' /\ MarkedWhenRemoved'
      BY DEF Sound, RoundPlace, DueAhead, RoundStandsOnList, EveryHandlerIsOffered, MarkedWhenRemoved
    <2> QED
      BY <2>1, <2>2, <2>3 DEF Sound
  <1>7. CASE cleanup
    <2> USE <1>7 DEF cleanup
    <2>0. list' = list \cap active /\ at = 0
      BY DEF Sound, RoundPlace
    <2>1. Bounds' /\ Apart' /\ DueKept'
      BY <2>0 DEF Sound, Bounds, Apart, DueKept, Kept
    <2>2. MutexHeld'
      BY OwnersAssumption DEF HandlersTypeOK, Sound, MutexHeld
    <2>3. RoundPlace' /\ DueAhead' /\ RoundStandsOnList' /\ EveryHandlerIsOffered'
      BY <2>0 DEF Sound, RoundPlace, DueAhead, RoundStandsOnList, EveryHandlerIsOffered
    <2>4. MarkedWhenRemoved'
      BY <2>0 DEF Sound, MarkedWhenRemoved
    <2> QED
      BY <2>1, <2>2, <2>3, <2>4 DEF Sound
  <1>8. CASE beginRound
    <2> USE <1>8 DEF beginRound
    <2>0. /\ at' \in 0 .. MaxAdds
          /\ at' # 0 => at' \in list
          /\ \A k \in list : k <= at' /\ at' # 0
      BY AfterIsNext, MaxAddsAssumption
    <2>1. Bounds' /\ Apart' /\ DueKept'
      BY DEF Sound, Bounds, Apart, DueKept, Kept
    <2>2. MutexHeld'
      BY OwnersAssumption DEF HandlersTypeOK, Sound, MutexHeld
    <2>3. RoundPlace'
      BY <2>0 DEF HandlersTypeOK, Sound, RoundPlace, Bounds
    <2>4. DueAhead'
      BY <2>0 DEF HandlersTypeOK, Handlers, DueAhead
    <2>5. RoundStandsOnList' /\ EveryHandlerIsOffered'
      BY <2>0 DEF RoundStandsOnList, EveryHandlerIsOffered
    <2>6. MarkedWhenRemoved'
      BY DEF Sound, MarkedWhenRemoved
    <2> QED
      BY <2>1, <2>2, <2>3, <2>4, <2>5, <2>6 DEF Sound
  <1>9. ASSUME round \in {"check", "called", "running"}, at # 0, at' \in After(at),
               round' = "check", at \in offered \/ at \notin due, due' \subseteq due,
               UNCHANGED <<list, added, offered, newest>>
        PROVE  RoundPlace' /\ DueAhead' /\ RoundStandsOnList' /\ EveryHandlerIsOffered'
    <2>1. /\ at' \in 0 .. MaxAdds
          /\ at' # 0 => at' \in list /\ at' < at
          /\ \A k \in list : k < at => k <= at' /\ at' # 0
      BY <1>9, AfterIsNext DEF HandlersTypeOK
    <2>2. at \in 1 .. MaxAdds /\ newest \in Nat
      BY <1>9, MaxAddsAssumption DEF HandlersTypeOK
    <2>3. \A h \in offered : h \in 1 .. MaxAdds /\ h >= at
      BY <1>9, <2>2 DEF HandlersTypeOK, Handlers, Sound, RoundPlace
    <2>4. \A h \in due' \ offered : h \in list /\ h \in 1 .. MaxAdds /\ h < at
      BY <1>9, <2>2 DEF HandlersTypeOK, Handlers, Sound, DueAhead, DueKept, Kept, MarkedWhenRemoved
    <2>5. RoundPlace'
      BY <1>9, <2>1, <2>2, <2>3 DEF Sound, RoundPlace
    <2>6. DueAhead'
      BY <1>9, <2>1, <2>2, <2>4 DEF DueAhead
    <2>7. RoundStandsOnList' /\ EveryHandlerIsOffered'
      BY <1>9, <2>1, <2>2, <2>3, <2>4 DEF Sound, RoundStandsOnList, EveryHandlerIsOffered
    <2> QED
      BY <2>5, <2>6, <2>7
  <1>10. CASE check
    <2> USE <1>10 DEF check
    <2>1. Bounds' /\ Apart' /\ DueKept' /\ MarkedWhenRemoved'
      BY DEF Sound, Bounds, Apart, DueKept, Kept, MarkedWhenRemoved
    <2>2. MutexHeld'
      BY DEF Sound, MutexHeld
    <2>3. CASE at \in active
      <3>1. RoundPlace' /\ DueAhead'
        BY <2>3 DEF HandlersTypeOK, Handlers, Sound, RoundPlace, DueAhead
      <3>2. RoundStandsOnList' /\ EveryHandlerIsOffered'
        BY <2>3 DEF HandlersTypeOK, Sound, RoundPlace, RoundStandsOnList, EveryHandlerIsOffered
      <3> QED
        BY <2>1, <2>2, <3>1, <3>2 DEF Sound
    <2>4. CASE at \notin active
      <3>1. at \notin due
        BY <2>4 DEF Sound, DueKept, Kept, MarkedWhenRemoved
      <3> QED
        BY <1>9, <2>1, <2>2, <2>4, <3>1 DEF Sound
    <2> QED
      BY <2>3, <2>4
  <1>11. CASE callback
    <2> USE <1>11 DEF callback
    <2>1. Bounds' /\ Apart' /\ DueKept' /\ MarkedWhenRemoved' /\ MutexHeld'
      BY DEF Sound, Bounds, Apart, DueKept, Kept, MarkedWhenRemoved, MutexHeld
    <2>2. at # 0 /\ at \in offered
      BY DEF Sound, RoundPlace
    <2>3. CASE round' = "check" /\ at' \in After(at)
      BY <1>9, <2>1, <2>2, <2>3 DEF Sound
    <2>4. CASE round' = "running" /\ at' = at
      BY <2>1, <2>2, <2>4
      DEF Sound, RoundPlace, DueAhead, RoundStandsOnList, EveryHandlerIsOffered
    <2> QED
      BY <2>3, <2>4
  <1>12. CASE callbackReturns
    <2> USE <1>12 DEF callbackReturns
    <2>1. at # 0 /\ at \in offered
      BY DEF Sound, RoundPlace
    <2>2. Bounds' /\ MutexHeld'
      BY DEF HandlersTypeOK, Sound, Bounds, MutexHeld
    <2>3. Apart'
      BY DEF HandlersTypeOK, Sound, Apart
    <2>4. DueKept'
      BY DEF HandlersTypeOK, Sound, DueKept, Kept
    <2>5. MarkedWhenRemoved'
      BY <2>1 DEF HandlersTypeOK, Sound, Apart, MarkedWhenRemoved
    <2> QED
      BY <1>9, <2>1, <2>2, <2>3, <2>4, <2>5 DEF Sound
  <1>13. CASE endRound
    <2> USE <1>13 DEF endRound
    <2>1. Bounds' /\ Apart' /\ DueKept'
      BY DEF Sound, Bounds, Apart, DueKept, Kept
    <2>2. MutexHeld'
      BY OwnersAssumption DEF HandlersTypeOK, Sound, MutexHeld
    <2>3. RoundPlace' /\ DueAhead' /\ RoundStandsOnList' /\ EveryHandlerIsOffered' /\ MarkedWhenRemoved'
      BY DEF Sound, RoundPlace, DueAhead, RoundStandsOnList, EveryHandlerIsOffered, MarkedWhenRemoved
    <2> QED
      BY <2>1, <2>2, <2>3 DEF Sound
  <1>14. CASE UNCHANGED handlerVars
    BY <1>14 DEF Sound, Bounds, MutexHeld, Apart, DueKept, Kept, RoundPlace, DueAhead,
                 RoundStandsOnList, EveryHandlerIsOffered, MarkedWhenRemoved
  <1> QED
    BY <1>1, <1>2, <1>3, <1>4, <1>5, <1>6, <1>7, <1>8, <1>10, <1>11, <1>12, <1>13, <1>14
    DEF HandlersNext

(***************************************************************************)
(* Whatever is added and removed while reports go round: unless an add met *)
(* a cleanup that erases the front entry, no entry is erased under a round,*)
(* every handler that stays is offered each report once, one that comes    *)
(* waits for the next report, and no handler outlives its lock.            *)
(***************************************************************************)
THEOREM Rounds == HandlersSpec => []RoundIsSound
  <1>1. RoundInv /\ [HandlersNext]_handlerVars => RoundInv'
    BY RoundStep
  <1>2. RoundInv => RoundIsSound
    BY DEF RoundInv, Sound, RoundIsSound
  <1> QED
    BY <1>1, <1>2, RoundInitially, PTL DEF HandlersSpec

=============================================================================
