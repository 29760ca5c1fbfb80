------------------------------ MODULE MCThreads ------------------------------
(***************************************************************************)
(* What carries the daemon's threads, three parts that share no state: the *)
(* worker pool, the I/O thread with its descriptors, and the rounds that a *)
(* report makes in a list of handlers. A behaviour exercises one.          *)
(***************************************************************************)
EXTENDS TaskQueue, IOMonitor, EventHandlerList
CONSTANTS w1, w2, c1, c2, f1, f2, o1, o2
VARIABLE focus

threadVars == <<focus, vars, ioVars, handlerVars>>

ThreadsTypeOK == TypeOK /\ IOTypeOK /\ HandlersTypeOK

ThreadsInit ==
    /\ focus \in {"tasks", "io", "handlers"}
    /\ Init /\ IOInit /\ HandlersInit

ThreadsNext ==
    \/ focus = "tasks" /\ Next /\ UNCHANGED <<focus, ioVars, handlerVars>>
    \/ focus = "io" /\ IONext /\ UNCHANGED <<focus, vars, handlerVars>>
    \/ focus = "handlers" /\ HandlersNext /\ UNCHANGED <<focus, vars, ioVars>>

\* The fairness of TaskQueue and of IOMonitor.
InTasks(A) == focus = "tasks" /\ A /\ UNCHANGED <<focus, ioVars, handlerVars>>
InIO(A)    == focus = "io" /\ A /\ UNCHANGED <<focus, vars, handlerVars>>

ThreadsFair ==
    /\ WF_threadVars(InTasks(Tick)) /\ WF_threadVars(InTasks(StopReturns))
    /\ \A w \in Workers :
          /\ WF_threadVars(InTasks(Worker(w)))
          /\ WF_threadVars(InTasks(WaitExpires(w)))
    /\ \A t \in Threads : WF_threadVars(InIO(Yield(t)))
    /\ \A c \in Callers : WF_threadVars(InIO(Caller(c)))
    /\ WF_threadVars(InIO(Listen))

ThreadsSpec == ThreadsInit /\ [][ThreadsNext]_threadVars /\ ThreadsFair

\* Nobody waits for ever: every task runs, every thread that wants the I/O
\* thread's lock gets it, and the I/O thread ends when it is told to: see
\* TasksRun, YieldsEnd and StopEnds. Tasks and devices are bounded, and a thread
\* that stops is not followed by another: one moment at which all are served
\* serves them all.
ThreadsGoOn == []<>(Served /\ NobodyYields /\ NobodyStops)

=============================================================================
