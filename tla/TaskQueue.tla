------------------------------ MODULE TaskQueue ------------------------------
(***************************************************************************)
(* The worker pool of the daemon (util/task.cpp). Hotplug, connection      *)
(* events, retries with a backoff, delayed profile changes and most        *)
(* actions run as tasks: a priority queue by time, one mutex, one          *)
(* condition variable and a fixed number of worker threads.                *)
(*                                                                         *)
(* The mutex is held except while a worker waits or runs a task, so what a *)
(* worker does between two of those points is one step.                    *)
(***************************************************************************)
EXTENDS Naturals, FiniteSets

CONSTANTS Workers,   \* the threads init_workers starts
          Delays,    \* delays given to run_task_after; 0 is run_task
          MaxTasks,  \* bound: tasks queued in a behaviour
          MaxTime,   \* bound: the last instant of the clock
          NoTask     \* no task

ASSUME BoundsAssumption  == MaxTasks \in Nat /\ MaxTime \in Nat
ASSUME DelaysAssumption  == Delays \subseteq Nat
ASSUME WorkersAssumption == Workers # {} /\ IsFiniteSet(Workers)

VARIABLES tasks,      \* the priority queue
          workersRun, \* workers_run
          doing,      \* where each worker is
          current,    \* the task a worker runs, or the one it waits for
          notified,   \* the waiting workers that have been notified
          now,        \* system_clock
          queued,     \* number of tasks queued so far
          stop        \* progress of stop_workers: "no", "stopping", "returned"

vars == <<tasks, workersRun, doing, current, notified, now, queued, stop>>

Tasks == [id : 1 .. MaxTasks, time : 0 .. MaxTime]

ASSUME NoTaskAssumption == NoTask \notin Tasks

TypeOK ==
    /\ tasks \subseteq Tasks
    /\ workersRun \in BOOLEAN
    /\ doing \in [Workers -> {"none", "ready", "idle", "timed", "running", "ended"}]
    /\ current \in [Workers -> Tasks \cup {NoTask}]
    /\ \A w \in Workers : current[w] # NoTask <=> doing[w] \in {"timed", "running"}
    /\ notified \subseteq {w \in Workers : doing[w] \in {"idle", "timed"}}
    /\ now \in 0 .. MaxTime
    /\ queued \in 0 .. MaxTasks
    /\ stop \in {"no", "stopping", "returned"}

Init ==
    /\ tasks = {}
    /\ workersRun = FALSE
    /\ doing = [w \in Workers |-> "none"]
    /\ current = [w \in Workers |-> NoTask]
    /\ notified = {}
    /\ now = 0
    /\ queued = 0
    /\ stop = "no"

\* tasks.top(): the earliest task; the heap breaks ties as it likes.
IsTop(t) == t \in tasks /\ \A u \in tasks : t.time <= u.time

\* workers_init: run_task throws before it, init_workers asserts it is unset.
Initialised == \E w \in Workers : doing[w] # "none"

\* init_workers: the threads are created with the mutex held, so they find
\* workers_run set.
InitWorkers ==
    /\ ~Initialised
    /\ workersRun' = TRUE
    /\ doing' = [w \in Workers |-> "ready"]
    /\ UNCHANGED <<tasks, current, notified, now, queued, stop>>

Waiters == {w \in Workers : doing[w] \in {"idle", "timed"} /\ w \notin notified}

\* Mutant: run_task does not notify.
NotifyNobody == notified' = notified

\* task_cv.notify_one(): one of the waiting workers, if there is any.
NotifyOne ==
    IF Waiters = {} THEN notified' = notified
    ELSE \E w \in Waiters : notified' = notified \cup {w}

\* run_task and run_task_after.
RunTask(d) ==
    /\ Initialised
    /\ queued < MaxTasks
    /\ now + d <= MaxTime
    /\ queued' = queued + 1
    /\ tasks' = tasks \cup {[id |-> queued + 1, time |-> now + d]}
    /\ NotifyOne
    /\ UNCHANGED <<workersRun, doing, current, now, stop>>

Pop(w) ==
    \E t \in tasks :
        /\ IsTop(t)
        /\ tasks' = tasks \ {t}
        /\ current' = [current EXCEPT ![w] = t]
        /\ doing' = [doing EXCEPT ![w] = "running"]

\* Mutant: a worker takes the top task although it is in the future.
TakeAny(w) == Pop(w)

\* With a task in the queue: take the top task when it is in the past, else
\* sleep until its time.
Take(w) ==
    \E t \in tasks :
        /\ IsTop(t)
        /\ \/ t.time < now /\ Pop(w)
           \/ /\ t.time >= now
              /\ doing' = [doing EXCEPT ![w] = "timed"]
              /\ current' = [current EXCEPT ![w] = t]
              /\ UNCHANGED tasks

End(w) ==
    /\ doing' = [doing EXCEPT ![w] = "ended"]
    /\ current' = [current EXCEPT ![w] = NoTask]
    /\ UNCHANGED tasks

\* The head of the worker's loop, with the mutex just acquired.
Loop(w) ==
    /\ doing[w] = "ready"
    /\ \/ ~workersRun /\ End(w)
       \/ workersRun /\ tasks # {} /\ Take(w)
       \/ /\ workersRun /\ tasks = {}
          /\ doing' = [doing EXCEPT ![w] = "idle"]
          /\ UNCHANGED <<tasks, current>>
    /\ UNCHANGED <<workersRun, notified, now, queued, stop>>

\* A notified worker leaves task_cv.wait if its predicate holds.
WakeIdle(w) ==
    /\ doing[w] = "idle"
    /\ w \in notified
    /\ notified' = notified \ {w}
    /\ \/ ~workersRun /\ End(w)
       \/ workersRun /\ tasks # {} /\ Take(w)
       \/ workersRun /\ tasks = {} /\ UNCHANGED <<tasks, doing, current>>
    /\ UNCHANGED <<workersRun, now, queued, stop>>

Due == \E t \in tasks : t.time < now

\* After wait_for: whatever ended the wait, the task that is on top now is
\* taken, be it in the past or in the future.
AfterTimedWait(w) ==
    \/ ~workersRun /\ End(w)
    \/ workersRun /\ tasks # {} /\ Pop(w)
    \/ /\ workersRun /\ tasks = {}
       /\ doing' = [doing EXCEPT ![w] = "ready"]
       /\ current' = [current EXCEPT ![w] = NoTask]
       /\ UNCHANGED tasks

\* A notified worker leaves task_cv.wait_for if its predicate holds, else it
\* waits on for the time it first computed.
WakeTimed(w) ==
    /\ doing[w] = "timed"
    /\ w \in notified
    /\ notified' = notified \ {w}
    /\ \/ (Due \/ ~workersRun) /\ AfterTimedWait(w)
       \/ ~Due /\ workersRun /\ UNCHANGED <<tasks, doing, current>>
    /\ UNCHANGED <<workersRun, now, queued, stop>>

\* The wait ends at the time of the task the worker waited for.
WaitExpires(w) ==
    /\ doing[w] = "timed"
    /\ now >= current[w].time
    /\ notified' = notified \ {w}
    /\ AfterTimedWait(w)
    /\ UNCHANGED <<workersRun, now, queued, stop>>

\* The task returns or throws; ExceptionHandler::Default swallows exceptions.
Finish(w) ==
    /\ doing[w] = "running"
    /\ doing' = [doing EXCEPT ![w] = "ready"]
    /\ current' = [current EXCEPT ![w] = NoTask]
    /\ UNCHANGED <<tasks, workersRun, notified, now, queued, stop>>

Tick ==
    /\ now < MaxTime
    /\ now' = now + 1
    /\ UNCHANGED <<tasks, workersRun, doing, current, notified, queued, stop>>

\* A waiting worker may wake by itself; it tests its predicate as if notified.
SpuriousWakeup(w) ==
    /\ w \in Waiters
    /\ notified' = notified \cup {w}
    /\ UNCHANGED <<tasks, workersRun, doing, current, now, queued, stop>>

\* stop_workers, at exit: clear workers_run with the mutex held.
StopWorkers ==
    /\ Initialised
    /\ stop = "no"
    /\ stop' = "stopping"
    /\ workersRun' = FALSE
    /\ UNCHANGED <<tasks, doing, current, notified, now, queued>>

\* ... then notify every waiter, lock the mutex once more and return.
StopReturns ==
    /\ stop = "stopping"
    /\ stop' = "returned"
    /\ notified' = notified \cup Waiters
    /\ UNCHANGED <<tasks, workersRun, doing, current, now, queued>>

\* What a worker does when it can run.
Worker(w) == Loop(w) \/ WakeIdle(w) \/ WakeTimed(w) \/ Finish(w)

Next ==
    \/ InitWorkers
    \/ \E d \in Delays : RunTask(d)
    \/ \E w \in Workers : Worker(w) \/ WaitExpires(w) \/ SpuriousWakeup(w)
    \/ Tick
    \/ StopWorkers
    \/ StopReturns

Spec == Init /\ [][Next]_vars

\* Workers run when they can, tasks end, timed waits end, stop_workers goes on
\* and time passes.
Fairness ==
    /\ WF_vars(Tick) /\ WF_vars(StopReturns)
    /\ \A w \in Workers : WF_vars(Worker(w)) /\ WF_vars(WaitExpires(w))

FairSpec == Spec /\ Fairness

-----------------------------------------------------------------------------
\* A worker that will look at the queue without any further notification.
Attending(w) == doing[w] \in {"ready", "running", "timed"} \/ w \in notified

(***************************************************************************)
(* No wakeup is lost: while tasks are queued some worker will come to the  *)
(* queue by itself. run_task notifies only one waiter, and that one may be *)
(* a worker that waits for a later task.                                   *)
(***************************************************************************)
QueueAttended == workersRun /\ tasks # {} => \E w \in Workers : Attending(w)

Starts(w) == doing[w] # "running" /\ doing'[w] = "running"

(***************************************************************************)
(* A task starts before its time only in the race that worker() leaves     *)
(* open: the worker had slept until another task's time, and that task was *)
(* taken by another worker.                                                *)
(***************************************************************************)
EarlyOnlyAfterLostRace ==
    [][\A w \in Workers :
          Starts(w) /\ current'[w].time > now =>
              /\ doing[w] = "timed"
              /\ current[w].time <= now
              /\ current[w] \notin tasks]_vars

(***************************************************************************)
(* Every queued task is started, unless the workers are stopped first: the *)
(* queue, to which no more than MaxTasks are added, becomes empty.         *)
(***************************************************************************)
Served   == tasks = {} \/ ~workersRun
TasksRun == []<>Served

=============================================================================
