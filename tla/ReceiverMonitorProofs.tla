------------------------ MODULE ReceiverMonitorProofs ------------------------
(***************************************************************************)
(* Theorems about a receiver.                                              *)
(*                                                                         *)
(* ReceiverMonitor, for any indices, workers and bounds: no device that    *)
(* was unpaired stays in the list without a removal under way, and nothing *)
(* stays announced when the receiver is gone.                              *)
(*                                                                         *)
(* ReceiverPairing, for any devices, names and number of sessions: when    *)
(* nothing is on its way the daemon and the receiver agree, and what is    *)
(* paired is what is shown. Both argue about the reports on their way,     *)
(* which is where the daemon and the receiver may differ.                  *)
(***************************************************************************)
EXTENDS ReceiverMonitor, ReceiverPairing, SequenceTheorems, TLAPS

\* A device that is constructed is one that is supported.
MadeSupported == \A w \in Workers : pc[w] = "made" => Index(w) \in Supported

\* The receiver goes when the manager has dropped it and no task uses it; then
\* nothing is listed or announced.
Lifetime ==
    /\ gone => dropped /\ \A w \in Workers : pc[w] = "idle"
    /\ announced = IF gone THEN {} ELSE devices
    /\ gone => devices = {}

\* A removal of i that has still to take the device off the list.
Queued(i) == \E n \in 1 .. Len(queue) : Removing(queue[n], i)

\* A removal of i that has not taken the device off the list.
Due(i) == \/ Queued(i)
          \/ \E w \in Workers : pc[w] \in {"start", "locked"} /\ Removing(job[w], i)

\* Device i is listed, or was constructed and is about to be.
Owned(i) == i \in devices \/ \E w \in Workers : pc[w] = "made" /\ Index(w) = i

\* A device that has lost its pairing is about to be taken off the list.
OwnedHaveLink == \A i \in Indices : Owned(i) /\ link[i] = "unpaired" => Due(i) \/ dropped

\* The inductive invariant.
IInv == TypeOK /\ MadeSupported /\ Lifetime /\ OwnedHaveLink

-----------------------------------------------------------------------------
(* The queue                                                                *)

\* A task that is appended leaves the others queued.
LEMMA Appended ==
    ASSUME queue \in Seq(Tasks), NEW t \in Tasks, queue' = Append(queue, t)
    PROVE  queue' \in Seq(Tasks) /\ \A i : Queued(i)' <=> Queued(i) \/ Removing(t, i)
<1>1. queue' \in Seq(Tasks) /\ Len(queue') = Len(queue) + 1 /\ Len(queue) \in Nat
  OBVIOUS
<1>2. \A n \in 1 .. Len(queue) : queue'[n] = queue[n]
  OBVIOUS
<1>3. queue'[Len(queue) + 1] = t
  OBVIOUS
<1>4. 1 .. Len(queue') = (1 .. Len(queue)) \cup {Len(queue) + 1}
  BY <1>1
<1> QED
  BY <1>1, <1>2, <1>3, <1>4 DEF Queued, Removing

\* A task that is taken from the front leaves the others queued.
LEMMA Taken ==
    ASSUME queue \in Seq(Tasks), 1 \in 1 .. Len(queue), queue' = Tail(queue)
    PROVE  /\ queue[1] \in Tasks /\ queue' \in Seq(Tasks)
           /\ \A i : Queued(i) => Queued(i)' \/ Removing(queue[1], i)
<1>1. Len(queue) \in Nat /\ Len(queue) >= 1 /\ queue # << >>
  OBVIOUS
<1>2. queue[1] \in Tasks /\ queue' \in Seq(Tasks) /\ Len(queue') = Len(queue) - 1
  BY <1>1
<1>3. \A n \in 1 .. Len(queue) : n # 1 => n - 1 \in 1 .. Len(queue') /\ queue'[n - 1] = queue[n]
  BY <1>1, <1>2
<1> QED
  BY <1>2, <1>3 DEF Queued, Removing

\* A report becomes a task, a removal if the device is unpaired.
LEMMA Reported ==
    ASSUME TypeOK, NEW i \in Indices, NEW l \in Links, Report(i, l)
    PROVE  /\ queue' \in Seq(Tasks) /\ sent' \in Nat /\ later' = later
           /\ \A k : Queued(k) => Queued(k)'
           /\ l = "unpaired" => Queued(i)'
<1>1. PICK t \in Tasks : /\ queue' = Append(queue, t) /\ later' = later /\ sent' = sent + 1
                         /\ l = "unpaired" => t.kind = "remove" /\ t.index = i
  <2>1. sent + 1 \in Nat /\ sent \in Nat
    BY DEF TypeOK
  <2>2. Established(l) \in BOOLEAN /\ FALSE \in BOOLEAN /\ 0 \in 0 .. MaxTries
    BY BoundsAssumption DEF Established
  <2>3. [kind |-> "remove", index |-> i, established |-> FALSE, tries |-> 0, id |-> sent + 1] \in Tasks
    BY <2>1, <2>2 DEF Tasks
  <2>4. [kind |-> "add", index |-> i, established |-> Established(l), tries |-> 0, id |-> sent + 1] \in Tasks
    BY <2>1, <2>2 DEF Tasks
  <2> QED
    BY <2>3, <2>4 DEF Report, RunTask
<1>2. t # None
  BY <1>1, NoneAssumption
<1>3. queue \in Seq(Tasks) /\ sent \in Nat
  BY DEF TypeOK
<1> QED
  BY <1>1, <1>2, <1>3, Appended DEF Removing

-----------------------------------------------------------------------------
(* Reports, and the queue                                                   *)

\* The I/O thread: reports, changes of a link and inputs.
LEMMA ReportSteps ==
    ASSUME IInv, NEW i \in Indices,
           Enumerated(i) \/ Input(i) \/ \E l \in Links : LinkChanges(i, l)
    PROVE  IInv'
<1>1. /\ queue' \in Seq(Tasks) /\ sent' \in Nat /\ later' = later
      /\ \A k : Queued(k) => Queued(k)'
      /\ \A k \in Indices : link'[k] = "unpaired" => link[k] = "unpaired" \/ Queued(k)'
      /\ link' \in [Indices -> Links]
      /\ enumerating' \subseteq enumerating
      /\ changes' \in 0 .. MaxEvents
      /\ UNCHANGED <<threads, lists, waiters, life, history>>
  <2>0. TypeOK
    BY DEF IInv
  <2>1. CASE Enumerated(i)
    <3>1. CASE link[i] = "unpaired"
      BY <2>0, <2>1, <3>1 DEF Enumerated, tasks, TypeOK, Queued
    <3>2. CASE link[i] # "unpaired"
      <4>1. link[i] \in Links /\ Report(i, link[i])
        BY <2>0, <2>1, <3>2 DEF Enumerated, TypeOK
      <4> QED
        BY <2>0, <2>1, <4>1, Reported DEF Enumerated, TypeOK
    <3> QED
      BY <3>1, <3>2
  <2>2. CASE Input(i)
    <3>1. Report(i, "on")
      BY <2>2 DEF Input, Report, Established
    <3>2. "on" \in Links
      BY DEF Links
    <3> QED
      BY <2>0, <2>2, <3>1, <3>2, Reported, BoundsAssumption DEF Input, TypeOK
  <2>3. CASE \E l \in Links : LinkChanges(i, l)
    <3>1. PICK l \in Links : LinkChanges(i, l)
      BY <2>3
    <3>2. Report(i, l)
      BY <3>1 DEF LinkChanges
    <3> QED
      BY <2>0, <3>1, <3>2, Reported, BoundsAssumption DEF LinkChanges, TypeOK
  <2> QED
    BY <2>1, <2>2, <2>3
<1>2. TypeOK'
  BY <1>1 DEF IInv, TypeOK, threads, lists, life, history
<1>3. MadeSupported' /\ Lifetime'
  BY <1>1 DEF IInv, MadeSupported, Lifetime, threads, lists, life, Index
<1>4. OwnedHaveLink'
  <2> SUFFICES ASSUME NEW k \in Indices, Owned(k)', link'[k] = "unpaired" PROVE Due(k)' \/ dropped'
    BY DEF OwnedHaveLink
  <2>1. Owned(k)
    BY <1>1 DEF Owned, threads, lists, Index
  <2>2. Queued(k)' \/ Due(k) \/ dropped
    BY <1>1, <2>1 DEF IInv, OwnedHaveLink
  <2> QED
    BY <1>1, <2>2 DEF Due, threads, life
<1> QED
  BY <1>2, <1>3, <1>4 DEF IInv

\* A worker takes a task.
LEMMA StartSteps ==
    ASSUME IInv, NEW w \in Workers, StartTask(w)
    PROVE  IInv'
<1>0. TypeOK /\ MadeSupported /\ Lifetime /\ OwnedHaveLink
  BY DEF IInv
<1>1. PICK t \in Tasks :
          /\ queue' \in Seq(Tasks) /\ later' \subseteq Tasks
          /\ \A i : Queued(i) => Queued(i)' \/ Removing(t, i)
          /\ IF gone THEN UNCHANGED <<job, pc>>
             ELSE job' = [job EXCEPT ![w] = t] /\ Goto(w, "start")
  <2>1. PICK t \in later \cup {queue[n] : n \in {m \in 1 .. Len(queue) : m = 1}} :
          /\ IF t \in later THEN later' = later \ {t} /\ UNCHANGED queue
             ELSE queue' = Tail(queue) /\ UNCHANGED later
          /\ IF gone THEN UNCHANGED <<job, pc>>
             ELSE job' = [job EXCEPT ![w] = t] /\ Goto(w, "start")
    BY DEF StartTask
  <2>2. CASE t \in later
    <3>1. t \in Tasks
      BY <1>0, <2>2 DEF TypeOK
    <3>2. queue' \in Seq(Tasks) /\ later' \subseteq Tasks /\ \A i : Queued(i) => Queued(i)'
      BY <1>0, <2>1, <2>2 DEF TypeOK, Queued
    <3> QED
      BY <2>1, <3>1, <3>2
  <2>3. CASE t \notin later
    <3>1. 1 \in 1 .. Len(queue) /\ t = queue[1] /\ queue' = Tail(queue) /\ UNCHANGED later
      BY <2>1, <2>3
    <3>2. queue \in Seq(Tasks)
      BY <1>0 DEF TypeOK
    <3>3. t \in Tasks /\ queue' \in Seq(Tasks) /\ later' \subseteq Tasks
          /\ \A i : Queued(i) => Queued(i)' \/ Removing(t, i)
      BY <1>0, <3>1, <3>2, Taken DEF TypeOK
    <3> QED
      BY <2>1, <3>3
  <2> QED
    BY <2>2, <2>3
<1>2. pc[w] = "idle" /\ UNCHANGED <<world, sent, changing, lists, waiters, life, history>>
  BY DEF StartTask
<1>3. CASE gone
  <2>1. TypeOK'
    BY <1>0, <1>1, <1>2, <1>3 DEF TypeOK, world, lists, life, history
  <2>2. MadeSupported' /\ Lifetime' /\ OwnedHaveLink'
    BY <1>0, <1>1, <1>2, <1>3 DEF MadeSupported, Lifetime, OwnedHaveLink, Index, lists, life
  <2> QED
    BY <2>1, <2>2 DEF IInv
<1>4. CASE ~gone
  <2>1. job' = [job EXCEPT ![w] = t] /\ pc' = [pc EXCEPT ![w] = "start"]
    BY <1>1, <1>4 DEF Goto
  <2>2. t # None
    BY <1>1, NoneAssumption
  <2>3. TypeOK'
    <3>1. job' \in [Workers -> Tasks \cup {None}]
          /\ pc' \in [Workers -> {"idle", "start", "locked", "made", "added", "done"}]
      BY <1>0, <1>1, <2>1 DEF TypeOK
    <3>2. \A v \in Workers : pc'[v] \in {"locked", "made"} <=> changing' = v
      BY <1>0, <1>2, <2>1 DEF TypeOK
    <3>3. \A v \in Workers : pc'[v] # "idle" => job'[v] # None
      BY <1>0, <2>1, <2>2 DEF TypeOK
    <3> QED
      BY <1>0, <1>1, <1>2, <3>1, <3>2, <3>3 DEF TypeOK, world, lists, life, history
  <2>4. MadeSupported' /\ Lifetime'
    BY <1>0, <1>2, <1>4, <2>1 DEF MadeSupported, Lifetime, Index, TypeOK, lists, life
  <2>5. OwnedHaveLink'
    <3> SUFFICES ASSUME NEW i \in Indices, Owned(i)', link'[i] = "unpaired" PROVE Due(i)' \/ dropped'
      BY DEF OwnedHaveLink
    <3>1. Owned(i)
      BY <1>0, <1>2, <2>1 DEF Owned, Index, lists, TypeOK
    <3>2. Due(i) \/ dropped
      BY <1>0, <1>2, <3>1 DEF OwnedHaveLink, world
    <3>3. ASSUME Removing(t, i) PROVE Due(i)'
      BY <1>0, <2>1, <3>3 DEF Due, TypeOK
    <3>4. ASSUME NEW v \in Workers, pc[v] \in {"start", "locked"}, Removing(job[v], i) PROVE Due(i)'
      BY <1>0, <1>2, <2>1, <3>4 DEF Due, TypeOK
    <3> QED
      BY <1>1, <1>2, <3>2, <3>3, <3>4 DEF Due, life
  <2> QED
    BY <2>3, <2>4, <2>5 DEF IInv
<1> QED
  BY <1>3, <1>4

-----------------------------------------------------------------------------
(* The workers                                                              *)

\* A worker that leaves the lists alone goes on, and stays no removal that was due.
LEMMA PassingSteps ==
    ASSUME IInv, NEW w \in Workers, NEW l \in {"locked", "made", "added", "done"},
           pc' = [pc EXCEPT ![w] = l], UNCHANGED <<job, queue, link, life, devices, announced>>,
           TypeOK', pc[w] # "idle",
           l = "made" => Index(w) \in Supported /\ link[Index(w)] # "unpaired",
           pc[w] # "start" => job[w].kind = "add",
           pc[w] = "start" => l = "locked"
    PROVE  IInv'
<1>1. MadeSupported' /\ Lifetime'
  BY DEF IInv, MadeSupported, Lifetime, Index, TypeOK, life
<1>2. OwnedHaveLink'
  <2> SUFFICES ASSUME NEW i \in Indices, Owned(i)', link'[i] = "unpaired" PROVE Due(i)' \/ dropped'
    BY DEF OwnedHaveLink
  <2>1. Owned(i)
    BY DEF Owned, Index, IInv, TypeOK
  <2>2. Due(i) \/ dropped
    BY <2>1 DEF IInv, OwnedHaveLink
  <2>3. ASSUME NEW v \in Workers, pc[v] \in {"start", "locked"}, Removing(job[v], i) PROVE Due(i)'
    <3>1. pc'[v] \in {"start", "locked"}
      BY <2>3 DEF Removing, IInv, TypeOK
    <3> QED
      BY <2>3, <3>1 DEF Due
  <2> QED
    BY <2>2, <2>3 DEF Due, Queued, life
<1> QED
  BY <1>1, <1>2 DEF IInv

\* A transfer that failed for good, or not: the histories keep their types.
LEMMA HistoryType ==
    ASSUME TypeOK, NEW w \in Workers, job[w] \in Tasks, Disturb(w) \/ UNCHANGED <<latest, disturbed>>
    PROVE  latest' \in [Indices -> Nat] /\ disturbed' \subseteq Indices
BY DEF TypeOK, Disturb, Index, Tasks

\* Every step of a worker keeps the types.
LEMMA WorkType ==
    ASSUME IInv, NEW w \in Workers, Work(w)
    PROVE  TypeOK'
<1>0. TypeOK /\ MadeSupported
  BY DEF IInv
<1>1. pc[w] # "idle" /\ job[w] \in Tasks
  BY <1>0 DEF Work, LockDevices, KnownDevice, NothingToAdd, Probe, Emplace, AddRefused, AddTimesOut,
              EraseWaiter, AddNotReady, AddFails, RemoveDevice, EndTask, Transfers, At, TypeOK
<1>2. Index(w) \in Indices /\ job[w].id \in Nat /\ job[w].tries \in 0 .. MaxTries
  BY <1>1 DEF Index, Tasks
<1>3. ASSUME NEW l \in {"added", "done"}, Leave(w, l), pc[w] \in {"locked", "made"}
      PROVE  /\ pc' \in [Workers -> {"idle", "start", "locked", "made", "added", "done"}]
             /\ changing' \in Workers \cup {None}
             /\ \A v \in Workers : pc'[v] \in {"locked", "made"} <=> changing' = v
             /\ \A v \in Workers : pc'[v] # "idle" => job'[v] # None
             /\ job' \in [Workers -> Tasks \cup {None}]
  BY <1>0, <1>3, NoneAssumption DEF Leave, Goto, TypeOK
<1>4. CASE LockDevices(w)
  <2>1. /\ latest' \in [Indices -> Nat] /\ disturbed' \subseteq Indices /\ timedOut' \subseteq Indices
    BY <1>0, <1>2, <1>4 DEF LockDevices, TypeOK, Index
  <2>2. /\ pc' \in [Workers -> {"idle", "start", "locked", "made", "added", "done"}]
        /\ changing' \in Workers \cup {None}
        /\ \A v \in Workers : pc'[v] \in {"locked", "made"} <=> changing' = v
        /\ \A v \in Workers : pc'[v] # "idle" => job'[v] # None
    BY <1>0, <1>4, NoneAssumption DEF LockDevices, LockFree, Goto, TypeOK
  <2> QED
    BY <1>0, <1>4, <2>1, <2>2 DEF LockDevices, TypeOK, world, tasks, lists, life
<1>5. CASE KnownDevice(w)
  <2>1. awake' \subseteq devices
    BY <1>0, <1>5 DEF KnownDevice, TypeOK
  <2> QED
    BY <1>0, <1>3, <1>5, <2>1 DEF KnownDevice, At, TypeOK, world, tasks, life, history
<1>6. CASE NothingToAdd(w)
  BY <1>0, <1>3, <1>6 DEF NothingToAdd, At, TypeOK, world, tasks, lists, life, history
<1>7. CASE Probe(w)
  <2>2. /\ pc' \in [Workers -> {"idle", "start", "locked", "made", "added", "done"}]
        /\ \A v \in Workers : pc'[v] \in {"locked", "made"} <=> changing' = v
        /\ \A v \in Workers : pc'[v] # "idle" => job'[v] # None
    BY <1>0, <1>7 DEF Probe, Transfers, At, Goto, TypeOK
  <2> QED
    BY <1>0, <1>7, <2>2 DEF Probe, TypeOK, world, tasks, lists, life, history
<1>8. CASE Emplace(w)
  <2>1. Index(w) \in Supported
    BY <1>0, <1>8 DEF Emplace, MadeSupported
  <2>2. awake' \subseteq devices' /\ devices' \cup announced' \subseteq Supported
    BY <1>0, <1>8, <2>1 DEF Emplace, TypeOK
  <2> QED
    BY <1>0, <1>3, <1>8, <2>2 DEF Emplace, TypeOK, world, tasks, life, history
<1>9. CASE AddRefused(w)
  <2>1. latest' \in [Indices -> Nat] /\ disturbed' \subseteq Indices
    BY <1>0, <1>1, <1>9, HistoryType DEF AddRefused
  <2> QED
    BY <1>0, <1>3, <1>9, <2>1 DEF AddRefused, Transfers, At, TypeOK, world, tasks, lists, life
<1>10. CASE AddTimesOut(w)
  <2>1. latest' \in [Indices -> Nat] /\ disturbed' \subseteq Indices
    BY <1>0, <1>1, <1>10, HistoryType DEF AddTimesOut
  <2>2. waiters' \subseteq Indices /\ timedOut' \subseteq Indices
    BY <1>0, <1>2, <1>10 DEF AddTimesOut, TypeOK
  <2> QED
    BY <1>0, <1>3, <1>10, <2>1, <2>2 DEF AddTimesOut, Transfers, At, TypeOK, world, tasks, lists, life
<1>11. CASE EraseWaiter(w)
  <2>1. /\ pc' \in [Workers -> {"idle", "start", "locked", "made", "added", "done"}]
        /\ \A v \in Workers : pc'[v] \in {"locked", "made"} <=> changing' = v
        /\ \A v \in Workers : pc'[v] # "idle" => job'[v] # None
    BY <1>0, <1>11 DEF EraseWaiter, Goto, TypeOK
  <2> QED
    BY <1>0, <1>11, <2>1 DEF EraseWaiter, TypeOK, world, tasks, lists, life, history
<1>12. CASE AddNotReady(w)
  <2>1. latest' \in [Indices -> Nat] /\ disturbed' \subseteq Indices
    BY <1>0, <1>1, <1>12, HistoryType DEF AddNotReady
  <2>2. later' \subseteq Tasks
    <3>1. job[w].tries # MaxTries => [job[w] EXCEPT !.tries = @ + 1] \in Tasks
      BY <1>1, BoundsAssumption DEF Tasks
    <3> QED
      BY <1>0, <1>12, <3>1 DEF AddNotReady, Retry, TypeOK
  <2> QED
    BY <1>0, <1>3, <1>12, <2>1, <2>2 DEF AddNotReady, Transfers, At, TypeOK, world, lists, life
<1>13. CASE AddFails(w)
  <2>1. latest' \in [Indices -> Nat] /\ disturbed' \subseteq Indices
    BY <1>0, <1>1, <1>13, HistoryType DEF AddFails
  <2> QED
    BY <1>0, <1>3, <1>13, <2>1 DEF AddFails, Transfers, At, TypeOK, world, tasks, lists, life
<1>14. CASE RemoveDevice(w)
  <2>1. awake' \subseteq devices' /\ devices' \cup announced' \subseteq Supported
    BY <1>0, <1>14 DEF RemoveDevice, TypeOK
  <2> QED
    BY <1>0, <1>3, <1>14, <2>1 DEF RemoveDevice, At, TypeOK, world, tasks, life, history
<1>15. CASE EndTask(w)
  <2>1. /\ pc' \in [Workers -> {"idle", "start", "locked", "made", "added", "done"}]
        /\ \A v \in Workers : pc'[v] \in {"locked", "made"} <=> changing' = v
        /\ \A v \in Workers : pc'[v] # "idle" => job'[v] # None
        /\ job' \in [Workers -> Tasks \cup {None}]
    BY <1>0, <1>15 DEF EndTask, Goto, TypeOK
  <2>2. gone' \in BOOLEAN /\ awake' \subseteq devices' /\ devices' \cup announced' \subseteq Supported
    BY <1>0, <1>15 DEF EndTask, Destroy, TypeOK, lists
  <2> QED
    BY <1>0, <1>15, <2>1, <2>2 DEF EndTask, TypeOK, world, tasks, history
<1> QED
  BY <1>4, <1>5, <1>6, <1>7, <1>8, <1>9, <1>10, <1>11, <1>12, <1>13, <1>14, <1>15 DEF Work

\* A worker's step keeps the list.
LEMMA WorkSteps ==
    ASSUME IInv, NEW w \in Workers, Work(w)
    PROVE  IInv'
<1>0. TypeOK /\ MadeSupported /\ Lifetime /\ OwnedHaveLink /\ TypeOK'
  BY WorkType DEF IInv
<1>1. CASE LockDevices(w)
  <2>1. /\ pc' = [pc EXCEPT ![w] = "locked"] /\ pc[w] = "start"
        /\ UNCHANGED <<job, queue, link, life, devices, announced>>
    BY <1>1 DEF LockDevices, Goto, world, tasks, lists
  <2> QED
    BY <1>0, <2>1, PassingSteps
<1>2. CASE \/ KnownDevice(w) \/ NothingToAdd(w) \/ AddRefused(w) \/ AddTimesOut(w)
           \/ AddNotReady(w) \/ AddFails(w)
  <2>1. PICK l \in {"added", "done"} :
           /\ pc' = [pc EXCEPT ![w] = l] /\ pc[w] = "locked" /\ job[w].kind = "add"
           /\ UNCHANGED <<job, queue, link, life, devices, announced>>
    BY <1>2 DEF KnownDevice, NothingToAdd, AddRefused, AddTimesOut, AddNotReady, AddFails,
                Transfers, At, Leave, Goto, world, tasks, lists
  <2> QED
    BY <1>0, <2>1, PassingSteps
<1>3. CASE Probe(w)
  <2>1. /\ pc' = [pc EXCEPT ![w] = "made"] /\ pc[w] = "locked" /\ job[w].kind = "add"
        /\ Index(w) \in Supported /\ link[Index(w)] # "unpaired"
        /\ UNCHANGED <<job, queue, link, life, devices, announced>>
    BY <1>3 DEF Probe, Transfers, At, Goto, world, tasks, lists
  <2> QED
    BY <1>0, <2>1, PassingSteps
<1>4. CASE Emplace(w)
  <2>1. /\ pc[w] = "made" /\ pc' = [pc EXCEPT ![w] = "added"] /\ ~gone
        /\ devices' = devices \cup {Index(w)} /\ announced' = announced \cup {Index(w)}
        /\ UNCHANGED <<job, queue, link, life>>
    BY <1>0, <1>4 DEF Emplace, Leave, Goto, world, tasks, Lifetime
  <2>2. MadeSupported' /\ Lifetime'
    BY <1>0, <2>1 DEF MadeSupported, Lifetime, Index, TypeOK, life
  <2>3. \A i : Owned(i)' => Owned(i)
    BY <1>0, <2>1 DEF Owned, Index, TypeOK
  <2>4. \A i : Due(i) => Due(i)'
    BY <1>0, <2>1 DEF Due, Queued, TypeOK
  <2> QED
    BY <1>0, <2>1, <2>2, <2>3, <2>4 DEF IInv, OwnedHaveLink, life
<1>5. CASE EraseWaiter(w)
  <2>1. /\ pc[w] = "added" /\ pc' = [pc EXCEPT ![w] = "done"]
        /\ UNCHANGED <<job, queue, link, life, devices, announced>>
    BY <1>5 DEF EraseWaiter, Goto, world, tasks, lists
  <2>2. MadeSupported' /\ Lifetime'
    BY <1>0, <2>1 DEF MadeSupported, Lifetime, Index, TypeOK, life
  <2>3. \A i : (Owned(i)' => Owned(i)) /\ (Due(i) => Due(i)')
    BY <1>0, <2>1 DEF Owned, Index, Due, Queued, TypeOK
  <2> QED
    BY <1>0, <2>1, <2>2, <2>3 DEF IInv, OwnedHaveLink, life
<1>6. CASE RemoveDevice(w)
  <2>1. /\ pc[w] = "locked" /\ pc' = [pc EXCEPT ![w] = "done"] /\ ~gone
        /\ devices' = devices \ {Index(w)} /\ announced' = announced \ {Index(w)}
        /\ UNCHANGED <<job, queue, link, life>>
    BY <1>0, <1>6 DEF RemoveDevice, At, Leave, Goto, world, tasks, Lifetime
  <2>2. MadeSupported' /\ Lifetime'
    BY <1>0, <2>1 DEF MadeSupported, Lifetime, Index, TypeOK, life
  <2>3. \A v \in Workers : pc[v] # "made"
    BY <1>0, <2>1 DEF TypeOK
  <2>4. \A i : Owned(i)' => Owned(i) /\ i # Index(w)
    BY <1>0, <2>1, <2>3 DEF Owned, Index, TypeOK
  <2>5. \A i : Due(i) /\ i # Index(w) => Due(i)'
    BY <1>0, <2>1 DEF Due, Queued, Removing, Index, TypeOK
  <2> QED
    BY <1>0, <2>1, <2>2, <2>4, <2>5 DEF IInv, OwnedHaveLink, life
<1>7. CASE EndTask(w)
  <2>1. /\ pc[w] = "done" /\ pc' = [pc EXCEPT ![w] = "idle"] /\ job' = [job EXCEPT ![w] = None]
        /\ UNCHANGED <<queue, link, dropped>>
    BY <1>7 DEF EndTask, Goto, world, tasks
  <2>2. \/ UNCHANGED <<gone, devices, announced>>
        \/ /\ gone' /\ dropped /\ \A v \in Workers \ {w} : pc[v] = "idle"
           /\ devices' = {} /\ announced' = announced \ devices
    BY <1>7 DEF EndTask, Destroy, lists
  <2>3. MadeSupported' /\ Lifetime'
    BY <1>0, <2>1, <2>2 DEF MadeSupported, Lifetime, Index, TypeOK
  <2>4. \A i : (Owned(i)' => Owned(i)) /\ (Due(i) => Due(i)')
    BY <1>0, <2>1, <2>2 DEF Owned, Index, Due, Queued, TypeOK
  <2> QED
    BY <1>0, <2>1, <2>3, <2>4 DEF IInv, OwnedHaveLink
<1> QED
  BY <1>1, <1>2, <1>3, <1>4, <1>5, <1>6, <1>7 DEF Work

-----------------------------------------------------------------------------

\* At first nothing is listed.
LEMMA InitIInv == Init => IInv
<1> SUFFICES ASSUME Init PROVE IInv
  OBVIOUS
<1>1. TypeOK
  <2>1. << >> \in Seq(Tasks) /\ 0 \in 0 .. MaxEvents
    BY BoundsAssumption
  <2> QED
    BY <2>1, NoneAssumption DEF Init, TypeOK
<1> QED
  BY <1>1 DEF Init, IInv, MadeSupported, Lifetime, OwnedHaveLink, Owned

\* Every step keeps the inductive invariant.
LEMMA NextIInv ==
    ASSUME IInv, [Next]_vars
    PROVE  IInv'
<1>1. CASE UNCHANGED vars
  BY <1>1 DEF vars, world, tasks, threads, lists, life, history, IInv, TypeOK, MadeSupported, Lifetime,
              OwnedHaveLink, Owned, Due, Queued, Index
<1>2. CASE Drop
  <2>1. /\ dropped' /\ UNCHANGED <<job, pc, queue, changing, link>>
        /\ \/ UNCHANGED <<gone, devices, announced, awake>>
           \/ /\ gone' /\ \A v \in Workers : pc[v] = "idle"
              /\ devices' = {} /\ awake' = {} /\ announced' = announced \ devices
    BY <1>2 DEF Drop, Destroy, world, tasks, threads, lists
  <2>2. TypeOK'
    BY <1>2, <2>1 DEF Drop, IInv, TypeOK, world, tasks, history, threads
  <2>3. MadeSupported' /\ Lifetime' /\ OwnedHaveLink'
    BY <2>1 DEF IInv, MadeSupported, Lifetime, OwnedHaveLink, Index
  <2> QED
    BY <2>2, <2>3 DEF IInv
<1> QED
  BY <1>1, <1>2, ReportSteps, StartSteps, WorkSteps DEF Next

\* A device that is no longer paired is about to be taken off the list, in
\* whatever order the workers act on the reports, and what was announced is
\* retracted when the receiver goes.
THEOREM UnpairedLeave == Spec => []NoGhost
<1>1. IInv /\ [Next]_vars => IInv'
  BY NextIInv
<1>2. IInv => NoGhost
  <2> SUFFICES ASSUME IInv PROVE NoGhost
    OBVIOUS
  <2>1. ASSUME NEW i \in devices, link[i] = "unpaired" PROVE RemovalPending(i) \/ dropped
    <3>1. i \in Indices /\ Owned(i)
      BY SupportedAssumption DEF IInv, TypeOK, Owned
    <3>2. Due(i) \/ dropped
      BY <2>1, <3>1 DEF IInv, OwnedHaveLink
    <3> QED
      BY <3>2 DEF Due, Queued, RemovalPending
  <2> QED
    BY <2>1 DEF IInv, Lifetime, NoGhost
<1> QED
  BY InitIInv, <1>1, <1>2, PTL DEF Spec

-----------------------------------------------------------------------------
(* Pairing                                                                  *)

\* What the receiver may be doing, and a call may still have to transfer.
Modes == {"idle", "discovering", "pairing"}
Owings == {"nothing", "startDiscover", "startPairing", "stopDiscover", "stopPairing"}

\* The reports are a sequence, and the daemon and the receiver do what they can.
PairingOK ==
    /\ \E S : air \in Seq(S)
    /\ mode \in Modes /\ pairState \in PairStates /\ owed \in Owings

\* The end of something is on its way.
Ended(of) == \E n \in 1 .. Len(air) : air[n].kind = of /\ ~air[n].on

\* A report of that kind is on its way.
Sent(kind) == \E n \in 1 .. Len(air) : air[n].kind = kind

\* What goes on at the receiver, in the words of the daemon: it still does it,
\* or the report that it has ended is on its way.
GoesOn(as, of) == IF Ended(of) THEN mode = "idle" ELSE mode = as

\* Where a session is, when none was overtaken and no transfer refused.
Session ==
    /\ owed \in {"startDiscover", "startPairing"} =>
           /\ pairState = (IF owed = "startDiscover" THEN "Discovering" ELSE "Pairing")
           /\ mode = "idle" /\ starting = {}
           /\ ~Ended("discovery status") /\ ~Ended(PairingStatus)
           /\ ~Sent("part") /\ ~Sent("passkey")
    /\ owed \in {"stopDiscover", "stopPairing"} =>
           /\ pairState = "NotPairing" /\ starting = {}
           /\ mode \in {"idle", IF owed = "stopDiscover" THEN "discovering" ELSE "pairing"}
    /\ owed = "nothing" =>
           /\ pairState = "NotPairing" => mode = "idle" /\ starting = {}
           /\ pairState = "Discovering" =>
                  /\ starting = {} /\ ~Ended(PairingStatus) /\ ~Sent("passkey")
                  /\ GoesOn("discovering", "discovery status")
           /\ pairState = "FindingPasskey" /\ starting # {} =>
                  /\ mode \in {"idle", "discovering"} /\ ~Ended(PairingStatus)
                  /\ (\E e : starting = {e}) /\ ~Sent("passkey")
           /\ pairState = "FindingPasskey" /\ starting = {} => GoesOn("pairing", PairingStatus)
           /\ pairState = "Pairing" => starting = {} /\ GoesOn("pairing", PairingStatus)

\* The inductive invariant.
SessionInv == PairingOK /\ (~overtaken /\ ~refused => Session)

\* Which receiver it is does not change, nor what its status is called.
LEMMA SameStatus == ASSUME bolt' = bolt PROVE PairingStatus' = PairingStatus
  BY DEF PairingStatus

\* A status is no part of a name and no passkey.
LEMMA Statuses == PairingStatus # "discovery status" /\ PairingStatus \notin {"part", "passkey"}
  BY DEF PairingStatus

\* A report is added to those on their way.
LEMMA Added ==
    ASSUME PairingOK, NEW r, air' = Append(air, r)
    PROVE  /\ \E S : air' \in Seq(S)
           /\ Len(air) \in Nat /\ Len(air') = Len(air) + 1
           /\ \A n \in 1 .. Len(air) : air'[n] = air[n]
           /\ air'[Len(air) + 1] = r
  <1>1. PICK S : air \in Seq(S)
    BY DEF PairingOK
  <1>2. air \in Seq(S \cup {r})
    BY <1>1
  <1>3. air' \in Seq(S \cup {r})
    BY <1>2
  <1> QED
    BY <1>2, <1>3

\* The first report is taken.
LEMMA Received ==
    ASSUME PairingOK, air # << >>, air' = Tail(air)
    PROVE  /\ \E S : air' \in Seq(S)
           /\ Len(air) \in Nat \ {0} /\ Len(air') = Len(air) - 1 /\ Head(air) = air[1]
           /\ \A n \in 1 .. Len(air') : air'[n] = air[n + 1]
  <1>1. PICK S : air \in Seq(S)
    BY DEF PairingOK
  <1> QED
    BY <1>1

\* What a turn of the receiver adds to the air is statuses.
LEMMA TurnTells ==
    ASSUME PairingOK, NEW to \in Modes, NEW of, Turns(to, of)
    PROVE  /\ \E S : air' \in Seq(S)
           /\ Len(air) \in Nat /\ Len(air') \in Nat /\ Len(air) <= Len(air')
           /\ \A n \in 1 .. Len(air) : air'[n] = air[n]
           /\ \A n \in (Len(air) + 1) .. Len(air') :
                  /\ air'[n].kind \in {"discovery status", PairingStatus}
                  /\ ~air'[n].on => \/ mode = "discovering" /\ air'[n].kind = "discovery status"
                                    \/ mode = "pairing" /\ air'[n].kind = PairingStatus
  <1> DEFINE K == {"discovery status", PairingStatus}
             d0 == Status("discovery status", FALSE)
             p0 == Status(PairingStatus, FALSE)
             d1 == Status("discovery status", TRUE)
             p1 == Status(PairingStatus, TRUE)
             A == IF mode = "discovering" /\ to # "discovering" THEN <<d0>> ELSE << >>
             B == IF mode = "pairing" /\ to # "pairing" THEN <<p0>> ELSE << >>
             C == IF to = "discovering" THEN <<d1>> ELSE IF to = "pairing" THEN <<p1>> ELSE << >>
             Q == {r \in {d0, p0, d1, p1} :
                      r.kind \in K /\ (~r.on => \/ mode = "discovering" /\ r.kind = "discovery status"
                                                \/ mode = "pairing" /\ r.kind = PairingStatus)}
  <1>1. PICK S : air \in Seq(S)
    BY DEF PairingOK
  <1>6. air' = ((air \o A) \o B) \o C
    BY DEF Turns
  <1>a. /\ d0.kind = "discovery status" /\ d1.kind = "discovery status" /\ d1.on
        /\ p0.kind = PairingStatus /\ p1.kind = PairingStatus /\ p1.on
    BY DEF Status
  <1> HIDE DEF d0, p0, d1, p1
  <1>b. /\ mode = "discovering" => d0 \in Q
        /\ mode = "pairing" => p0 \in Q
        /\ d1 \in Q /\ p1 \in Q
    BY <1>a
  <1>5. \A r \in Q : /\ r.kind \in K
                     /\ ~r.on => \/ mode = "discovering" /\ r.kind = "discovery status"
                                 \/ mode = "pairing" /\ r.kind = PairingStatus
    OBVIOUS
  <1> HIDE DEF Q
  <1>2. A \in Seq(Q)
    BY <1>b
  <1>3. B \in Seq(Q)
    BY <1>b
  <1>4. C \in Seq(Q)
    BY <1>b
  <1> HIDE DEF A, B, C
  <1>7. ASSUME NEW s \in Seq(S \cup Q), NEW t \in Seq(Q),
               Len(s) >= Len(air), \A n \in 1 .. Len(air) : s[n] = air[n],
               \A n \in (Len(air) + 1) .. Len(s) : s[n] \in Q
        PROVE  /\ s \o t \in Seq(S \cup Q) /\ Len(s \o t) \in Nat /\ Len(s \o t) >= Len(air)
               /\ \A n \in 1 .. Len(air) : (s \o t)[n] = air[n]
               /\ \A n \in (Len(air) + 1) .. Len(s \o t) : (s \o t)[n] \in Q
    <2>1. t \in Seq(S \cup Q) /\ Len(t) \in Nat /\ Len(s) \in Nat /\ Len(air) \in Nat
      BY <1>1
    <2>2. /\ s \o t \in Seq(S \cup Q) /\ Len(s \o t) = Len(s) + Len(t)
          /\ \A i \in 1 .. Len(s) + Len(t) : (s \o t)[i] = IF i <= Len(s) THEN s[i] ELSE t[i - Len(s)]
      BY <2>1, ConcatProperties
    <2>3. \A i \in 1 .. Len(t) : t[i] \in Q
      OBVIOUS
    <2>4. \A n \in (Len(s) + 1) .. Len(s \o t) : (s \o t)[n] = t[n - Len(s)] /\ n - Len(s) \in 1 .. Len(t)
      BY <2>1, <2>2
    <2> QED
      BY <1>7, <2>1, <2>2, <2>3, <2>4
  <1>8. air \in Seq(S \cup Q) /\ Len(air) \in Nat
    BY <1>1
  <1>9. /\ air \o A \in Seq(S \cup Q) /\ Len(air \o A) \in Nat /\ Len(air \o A) >= Len(air)
        /\ \A n \in 1 .. Len(air) : (air \o A)[n] = air[n]
        /\ \A n \in (Len(air) + 1) .. Len(air \o A) : (air \o A)[n] \in Q
    BY <1>2, <1>7, <1>8
  <1>10. /\ (air \o A) \o B \in Seq(S \cup Q) /\ Len((air \o A) \o B) \in Nat
         /\ Len((air \o A) \o B) >= Len(air)
         /\ \A n \in 1 .. Len(air) : ((air \o A) \o B)[n] = air[n]
         /\ \A n \in (Len(air) + 1) .. Len((air \o A) \o B) : ((air \o A) \o B)[n] \in Q
    BY <1>3, <1>7, <1>9
  <1>11. /\ air' \in Seq(S \cup Q) /\ Len(air') \in Nat /\ Len(air') >= Len(air)
         /\ \A n \in 1 .. Len(air) : air'[n] = air[n]
         /\ \A n \in (Len(air) + 1) .. Len(air') : air'[n] \in Q
    BY <1>4, <1>6, <1>7, <1>10
  <1> QED
    BY <1>5, <1>8, <1>11

\* A range is split.
LEMMA Ranges ==
    ASSUME NEW m \in Nat, NEW o \in Nat, m <= o
    PROVE  /\ \A n \in 1 .. o : n \in 1 .. m \/ n \in (m + 1) .. o
           /\ \A n \in 1 .. m : n \in 1 .. o
  OBVIOUS

\* A turn of the receiver tells the end of what it did, and no more.
LEMMA TurnEnds ==
    ASSUME PairingOK, NEW to \in Modes, NEW of, Turns(to, of), bolt' = bolt,
           NEW k \in {"discovery status", PairingStatus}
    PROVE  /\ Ended(k) => Ended(k)'
           /\ Ended(k)' => \/ Ended(k)
                           \/ mode = "discovering" /\ k = "discovery status"
                           \/ mode = "pairing" /\ k = PairingStatus
           /\ \A kind \in {"part", "passkey"} : Sent(kind)' <=> Sent(kind)
  <1>1. /\ Len(air) \in Nat /\ Len(air') \in Nat /\ Len(air) <= Len(air')
        /\ \A n \in 1 .. Len(air) : air'[n] = air[n]
        /\ \A n \in (Len(air) + 1) .. Len(air') :
               /\ air'[n].kind \notin {"part", "passkey"}
               /\ ~air'[n].on => \/ mode = "discovering" /\ air'[n].kind = "discovery status"
                                 \/ mode = "pairing" /\ air'[n].kind = PairingStatus
    BY TurnTells, Statuses
  <1>2. \A m, o \in Nat : m <= o =>
            /\ \A n \in 1 .. o : n \in 1 .. m \/ n \in (m + 1) .. o
            /\ \A n \in 1 .. m : n \in 1 .. o
    BY Ranges
  <1> QED
    BY <1>1, <1>2 DEF Ended, Sent

\* A report that is not the end of anything leaves what is on its way to end.
LEMMA AddedEnds ==
    ASSUME PairingOK, NEW r, air' = Append(air, r), NEW k
    PROVE  /\ Ended(k)' <=> Ended(k) \/ (r.kind = k /\ ~r.on)
           /\ Sent(k)' <=> Sent(k) \/ r.kind = k
  <1>1. /\ Len(air) \in Nat /\ Len(air') = Len(air) + 1 /\ air'[Len(air) + 1] = r
        /\ \A n \in 1 .. Len(air) : air'[n] = air[n]
    BY Added
  <1>2. 1 .. Len(air') = (1 .. Len(air)) \cup {Len(air) + 1}
    BY <1>1
  <1> QED
    BY <1>1, <1>2 DEF Ended, Sent

\* Taking a report leaves what else is on its way to end.
LEMMA ReceivedEnds ==
    ASSUME PairingOK, air # << >>, air' = Tail(air), NEW k
    PROVE  /\ Ended(k)' => Ended(k)
           /\ Ended(k) => Ended(k)' \/ (Head(air).kind = k /\ ~Head(air).on)
           /\ Sent(k)' => Sent(k)
           /\ Sent(Head(air).kind)
  <1>1. /\ Len(air) \in Nat \ {0} /\ Len(air') = Len(air) - 1 /\ Head(air) = air[1]
        /\ \A n \in 1 .. Len(air') : air'[n] = air[n + 1] /\ n + 1 \in 1 .. Len(air)
    BY Received
  <1>2. \A n \in 1 .. Len(air) : n # 1 => n - 1 \in 1 .. Len(air') /\ air'[n - 1] = air[n]
    BY <1>1
  <1>3. 1 \in 1 .. Len(air)
    BY <1>1
  <1>4. Ended(k)' => Ended(k)
    BY <1>1 DEF Ended
  <1>5. Ended(k) => Ended(k)' \/ (Head(air).kind = k /\ ~Head(air).on)
    BY <1>1, <1>2 DEF Ended
  <1>6. (Sent(k)' => Sent(k)) /\ Sent(Head(air).kind)
    BY <1>1, <1>3 DEF Sent
  <1> QED
    BY <1>4, <1>5, <1>6

\* There is no session yet.
LEMMA SessionInitially == PairInit => SessionInv
  <1> SUFFICES ASSUME PairInit PROVE SessionInv
    OBVIOUS
  <1>1. air = << >> /\ mode = "idle" /\ pairState = "NotPairing" /\ owed = "nothing" /\ starting = {}
    BY DEF PairInit
  <1>2. << >> \in Seq({}) /\ Len(<< >>) = 0
    OBVIOUS
  <1>3. PairingOK
    BY <1>1, <1>2 DEF PairingOK, Modes, PairStates, Owings
  <1> QED
    BY <1>1, <1>3 DEF SessionInv, Session

\* The receiver.
LEMMA SessionReceiver ==
    ASSUME SessionInv, (\E d \in Near : Discovers(d)) \/ AsksPasskey \/ Finishes
    PROVE  SessionInv'
  <1>1. PairingOK /\ (~overtaken /\ ~refused => Session)
    BY DEF SessionInv
  <1>2. /\ bolt' = bolt /\ pairState' = pairState /\ owed' = owed /\ starting' = starting
        /\ overtaken' = overtaken /\ refused' = refused /\ PairingStatus' = PairingStatus
    <2>1. UNCHANGED DaemonVars
      BY DEF Discovers, AsksPasskey, Finishes
    <2> QED
      BY <2>1, SameStatus DEF DaemonVars
  <1>3. PICK r : /\ air' = Append(air, r) /\ mode # "idle" /\ mode' \in Modes
                 /\ \/ r.kind = "part" /\ mode' = mode
                    \/ r.kind = "passkey" /\ mode = "pairing" /\ mode' = mode
                    \/ /\ r.kind = (IF mode = "pairing" THEN PairingStatus ELSE "discovery status")
                       /\ r.on = FALSE /\ mode' = "idle"
    <2>1. CASE \E d \in Near : Discovers(d)
      <3>1. PICK d \in Near : Discovers(d)
        BY <2>1
      <3>2. Part(d, told[d]).kind = "part"
        BY DEF Part
      <3> QED
        BY <3>1, <3>2 DEF Discovers, Modes
    <2>2. CASE AsksPasskey
      BY <2>2 DEF AsksPasskey, Modes
    <2>3. CASE Finishes
      <3> DEFINE k == IF mode = "pairing" THEN PairingStatus ELSE "discovery status"
                 r == [kind |-> k, on |-> FALSE]
      <3>1. air' = Append(air, r) /\ mode # "idle" /\ mode' = "idle"
        BY <2>3 DEF Finishes, Status
      <3>2. r.kind = k /\ r.on = FALSE
        OBVIOUS
      <3> HIDE DEF r
      <3> QED
        BY <3>1, <3>2 DEF Modes
    <2> QED
      BY <2>1, <2>2, <2>3
  <1>4. PairingOK'
    BY <1>1, <1>2, <1>3, Added DEF PairingOK
  <1>5. /\ Ended("discovery status")' <=> Ended("discovery status") \/ (r.kind = "discovery status" /\ ~r.on)
        /\ Sent("passkey")' <=> Sent("passkey") \/ r.kind = "passkey"
    BY <1>1, <1>3, AddedEnds
  <1>a. Ended(PairingStatus)' <=> Ended(PairingStatus) \/ (r.kind = PairingStatus /\ ~r.on)
    <2>1. PICK k : k = PairingStatus
      OBVIOUS
    <2>2. Ended(k)' <=> Ended(k) \/ (r.kind = k /\ ~r.on)
      BY <1>1, <1>3, AddedEnds
    <2>3. Ended(PairingStatus)' <=> Ended(k)'
      BY <1>2, <2>1 DEF Ended
    <2>4. Ended(PairingStatus) <=> Ended(k)
      BY <2>1 DEF Ended
    <2> QED
      BY <2>1, <2>2, <2>3, <2>4
  <1>6. ASSUME ~overtaken, ~refused PROVE Session'
    <2>1. Session
      BY <1>1, <1>6
    <2>2. owed \notin {"startDiscover", "startPairing"}
      BY <1>3, <2>1 DEF Session
    <2>3. mode \in Modes /\ owed \in Owings /\ pairState \in PairStates
      BY <1>1 DEF PairingOK
    <2>4. CASE \/ r.kind = "part" /\ mode' = mode
               \/ r.kind = "passkey" /\ mode = "pairing" /\ mode' = mode
      <3>1. /\ Ended("discovery status")' <=> Ended("discovery status")
            /\ Ended(PairingStatus)' <=> Ended(PairingStatus)
            /\ Sent("passkey")' => Sent("passkey") \/ mode = "pairing"
        BY <1>5, <1>a, <2>4, Statuses
      <3> QED
        BY <1>2, <2>1, <2>2, <2>4, <3>1 DEF Session, GoesOn
    <2>5. CASE mode = "pairing" /\ r.kind = PairingStatus /\ r.on = FALSE /\ mode' = "idle"
      <3>1. /\ Ended("discovery status")' <=> Ended("discovery status")
            /\ Ended(PairingStatus)' /\ (Sent("passkey")' <=> Sent("passkey"))
        BY <1>5, <1>a, <2>5, Statuses
      <3> QED
        BY <1>2, <2>1, <2>2, <2>5, <3>1 DEF Session, GoesOn
    <2>6. CASE mode = "discovering" /\ r.kind = "discovery status" /\ r.on = FALSE /\ mode' = "idle"
      <3>1. /\ Ended("discovery status")' /\ (Sent("passkey")' <=> Sent("passkey"))
            /\ Ended(PairingStatus)' <=> Ended(PairingStatus)
        BY <1>5, <1>a, <2>6, Statuses
      <3> QED
        BY <1>2, <2>1, <2>2, <2>6, <3>1 DEF Session, GoesOn
    <2> QED
      BY <1>3, <2>3, <2>4, <2>5, <2>6 DEF Modes
  <1> QED
    BY <1>2, <1>4, <1>6 DEF SessionInv

\* The calls of the bus. One that begins a session after the last is over finds
\* the receiver idle.
LEMMA SessionCalls ==
    ASSUME SessionInv, _startPair \/ _stopPair
    PROVE  SessionInv'
  <1>1. PairingOK /\ (~overtaken /\ ~refused => Session) /\ owed = "nothing"
    BY DEF SessionInv, _startPair, _stopPair, PairCall
  <1>2. /\ bolt' = bolt /\ mode' = mode /\ air' = air /\ starting' = starting
        /\ PairingStatus' = PairingStatus
    BY SameStatus DEF _startPair, _stopPair, PairCall
  <1>3. \A k : (Ended(k)' <=> Ended(k)) /\ (Sent(k)' <=> Sent(k))
    BY <1>2 DEF Ended, Sent
  <1>4. PairingOK'
    <2>1. owed' \in Owings /\ pairState' \in PairStates
      BY <1>1 DEF _startPair, _stopPair, Owings, PairStates
    <2> QED
      BY <1>1, <1>2, <2>1 DEF PairingOK
  <1>5. CASE _startPair
    <2>1. ASSUME ~overtaken' PROVE Session'
      <3>1. mode = "idle" /\ starting = {}
            /\ \A n \in 1 .. Len(air) : air[n].kind \notin {"part", "passkey"} /\ air[n].on
        BY <1>5, <2>1 DEF _startPair, Unfinished
      <3>2. (\A k : ~Ended(k)) /\ ~Sent("part") /\ ~Sent("passkey")
        BY <3>1 DEF Ended, Sent
      <3>3. /\ pairState' = (IF bolt THEN "Discovering" ELSE "Pairing")
            /\ owed' = (IF bolt THEN "startDiscover" ELSE "startPairing")
        BY <1>5 DEF _startPair
      <3> QED
        BY <1>2, <1>3, <3>1, <3>2, <3>3 DEF Session
    <2> QED
      BY <1>4, <2>1 DEF SessionInv
  <1>6. CASE _stopPair
    <2>1. ASSUME ~overtaken', ~refused' PROVE Session'
      <3>1. Session /\ starting = {}
        BY <1>1, <1>6, <2>1 DEF _stopPair
      <3>2. /\ pairState' = "NotPairing"
            /\ pairState = "Discovering" => owed' = "stopDiscover"
            /\ pairState \in {"FindingPasskey", "Pairing"} => owed' = "stopPairing"
            /\ pairState = "NotPairing" => owed' = "nothing"
        BY <1>6 DEF _stopPair
      <3>3. pairState \in PairStates
        BY <1>1 DEF PairingOK
      <3> QED
        BY <1>1, <1>2, <3>1, <3>2, <3>3 DEF Session, GoesOn, PairStates
    <2> QED
      BY <1>4, <2>1 DEF SessionInv
  <1> QED
    BY <1>5, <1>6

\* The transfer of a call, and that of the worker.
LEMMA SessionTransfers ==
    ASSUME SessionInv, MakeTransfer \/ \E e \in starting : startBoltPairing(e)
    PROVE  SessionInv'
  <1>1. PairingOK /\ (~overtaken /\ ~refused => Session)
    BY DEF SessionInv
  <1>2. /\ bolt' = bolt /\ pairState' = pairState /\ overtaken' = overtaken
        /\ PairingStatus' = PairingStatus
    BY SameStatus DEF MakeTransfer, startBoltPairing
  <1>3. \/ mode' = mode /\ air' = air
        \/ \E to \in Modes : mode' = to /\ \E of : Turns(to, of)
    <2>1. \A to, of : Turns(to, of) => mode' = to
      BY DEF Turns
    <2>2. "discovering" \in Modes /\ "pairing" \in Modes /\ "idle" \in Modes
      BY DEF Modes
    <2>3. CASE MakeTransfer
      BY <2>1, <2>2, <2>3 DEF MakeTransfer
    <2>4. CASE \E e \in starting : startBoltPairing(e)
      BY <2>1, <2>2, <2>4 DEF startBoltPairing
    <2> QED
      BY <2>3, <2>4
  <1>4. PairingOK'
    <2>1. owed' \in Owings
      BY <1>1 DEF MakeTransfer, startBoltPairing, Owings, PairingOK
    <2>2. mode' \in Modes /\ \E S : air' \in Seq(S)
      BY <1>1, <1>3, TurnTells DEF PairingOK
    <2> QED
      BY <1>1, <1>2, <2>1, <2>2 DEF PairingOK
  <1>5. ASSUME ~overtaken', ~refused', MakeTransfer PROVE Session'
    <2>1. owed # "nothing" /\ owed' = "nothing" /\ starting' = starting /\ refused' = refused
      BY <1>5 DEF MakeTransfer
    <2>2. Session
      BY <1>1, <1>2, <1>5, <2>1
    <2>3. CASE owed = "startDiscover" /\ mode = "idle" /\ Turns("discovering", Nobody)
      <3>1. mode' = "discovering" /\ ~Ended("discovery status")' /\ ~Ended(PairingStatus)'
            /\ ~Sent("passkey")'
        BY <1>1, <1>2, <2>2, <2>3, TurnEnds DEF Session, Turns, Modes
      <3> QED
        BY <1>2, <2>1, <2>2, <2>3, <3>1 DEF Session, GoesOn
    <2>4. CASE owed = "startPairing" /\ mode = "idle" /\ Turns("pairing", Nobody)
      <3>1. mode' = "pairing" /\ ~Ended("discovery status")' /\ ~Ended(PairingStatus)'
            /\ ~Sent("passkey")'
        BY <1>1, <1>2, <2>2, <2>4, TurnEnds DEF Session, Turns, Modes
      <3> QED
        BY <1>2, <2>1, <2>2, <2>4, <3>1 DEF Session, GoesOn
    <2>5. CASE owed \in {"stopDiscover", "stopPairing"}
      <3>1. mode' = "idle"
        BY <1>5, <2>1, <2>2, <2>5 DEF MakeTransfer, Session, Turns
      <3> QED
        BY <1>2, <2>1, <2>2, <2>5, <3>1 DEF Session, GoesOn
    <2> QED
      BY <1>5, <2>1, <2>2, <2>3, <2>4, <2>5 DEF MakeTransfer, Session
  <1>6. ASSUME ~overtaken', ~refused', NEW e \in starting, startBoltPairing(e) PROVE Session'
    <2>1. /\ starting' = starting \ {e} /\ owed' = owed /\ refused' = refused
          /\ mode # "pairing" /\ Turns("pairing", e.of) /\ mode' = "pairing"
      BY <1>6 DEF startBoltPairing, Turns
    <2>2. Session
      BY <1>1, <1>2, <1>6, <2>1
    <2>3. owed = "nothing" /\ pairState = "FindingPasskey" /\ starting' = {} /\ ~Ended(PairingStatus)
      BY <1>1, <1>6, <2>1, <2>2 DEF Session, PairingOK, Owings, PairStates
    <2>4. ~Ended(PairingStatus)'
      BY <1>1, <1>2, <2>1, <2>3, TurnEnds, Statuses DEF Modes
    <2> QED
      BY <1>2, <2>1, <2>3, <2>4 DEF Session, GoesOn
  <1> QED
    BY <1>1, <1>2, <1>4, <1>5, <1>6 DEF SessionInv

\* The reports.
LEMMA SessionReports ==
    ASSUME SessionInv, TakeReport
    PROVE  SessionInv'
  <1>1. PairingOK /\ (~overtaken /\ ~refused => Session)
    BY DEF SessionInv
  <1>2. /\ air # << >> /\ air' = Tail(air)
        /\ bolt' = bolt /\ mode' = mode /\ owed' = owed
        /\ overtaken' = overtaken /\ refused' = refused /\ PairingStatus' = PairingStatus
    <2>1. \E k : Takes(k)
      BY DEF TakeReport, TakeDiscovery, TakePasskey, TakeStatus
    <2> QED
      BY <2>1, SameStatus DEF Takes
  <1>3. \A k : /\ Ended(k)' => Ended(k)
               /\ Ended(k) => Ended(k)' \/ (Head(air).kind = k /\ ~Head(air).on)
               /\ Sent(k)' => Sent(k)
    BY <1>1, <1>2, ReceivedEnds
  <1>a. /\ Ended(PairingStatus)' => Ended(PairingStatus)
        /\ Ended(PairingStatus) => Ended(PairingStatus)' \/ (Head(air).kind = PairingStatus /\ ~Head(air).on)
        /\ Sent(Head(air).kind)
    <2>1. PICK k : k = PairingStatus
      OBVIOUS
    <2>2. /\ Ended(k)' => Ended(k)
          /\ Ended(k) => Ended(k)' \/ (Head(air).kind = k /\ ~Head(air).on)
          /\ Sent(Head(air).kind)
      BY <1>1, <1>2, ReceivedEnds
    <2>3. (Ended(PairingStatus)' <=> Ended(k)') /\ (Ended(PairingStatus) <=> Ended(k))
      BY <1>2, <2>1 DEF Ended
    <2> QED
      BY <2>1, <2>2, <2>3
  <1>4. /\ Len(air') \in Nat /\ Head(air) = air[1] /\ 1 \in 1 .. Len(air)
        /\ \A n \in 1 .. Len(air') : n + 1 \in 1 .. Len(air) /\ air'[n] = air[n + 1]
    BY <1>1, <1>2, Received
  <1>5. PairingOK'
    <2>1. pairState' \in PairStates
      BY <1>1 DEF TakeReport, TakeDiscovery, TakePasskey, TakeStatus, PairingOK, PairStates
    <2>2. \E S : air' \in Seq(S)
      BY <1>1, <1>2, Received
    <2> QED
      BY <1>1, <1>2, <2>1, <2>2 DEF PairingOK
  <1>6. ASSUME ~overtaken, ~refused PROVE Session'
    <2>1. Session /\ pairState \in PairStates
      BY <1>1, <1>6 DEF PairingOK
    <2>2. ASSUME pairState' = pairState, starting' = starting,
                 Head(air).kind = "discovery status" => Head(air).on \/ pairState # "Discovering",
                 Head(air).kind = PairingStatus =>
                     Head(air).on \/ pairState \notin {"FindingPasskey", "Pairing"}
          PROVE  Session'
      <3>1. (~Sent("part") => ~Sent("part")') /\ (~Sent("passkey") => ~Sent("passkey")')
        BY <1>3
      <3>2. pairState = "Discovering" => (Ended("discovery status")' <=> Ended("discovery status"))
        BY <1>3, <2>2
      <3>3. pairState \in {"FindingPasskey", "Pairing"} => (Ended(PairingStatus)' <=> Ended(PairingStatus))
        BY <1>a, <2>2
      <3>4. ~Ended(PairingStatus) => ~Ended(PairingStatus)'
        BY <1>a
      <3>5. ~Ended("discovery status") => ~Ended("discovery status")'
        BY <1>3
      <3> QED
        BY <1>2, <2>1, <2>2, <3>1, <3>2, <3>3, <3>4, <3>5 DEF Session, GoesOn
    <2>3. CASE TakeDiscovery
      <3>1. Head(air).kind = "part"
        BY <2>3 DEF TakeDiscovery, Takes
      <3>2. CASE pairState' = pairState /\ starting' = starting
        BY <2>2, <3>1, <3>2, Statuses
      <3>3. CASE ~(pairState' = pairState /\ starting' = starting)
        <4>1. PICK e : pairState = "Discovering" /\ pairState' = "FindingPasskey"
                       /\ starting' = starting \cup {e}
          BY <2>3, <3>3 DEF TakeDiscovery
        <4>2. owed = "nothing"
          BY <1>1, <1>a, <2>1, <3>1, <4>1 DEF Session, PairingOK, Owings
        <4>3. starting' = {e} /\ mode \in {"idle", "discovering"} /\ ~Ended(PairingStatus)'
              /\ ~Sent("passkey")'
          BY <1>3, <1>a, <2>1, <4>1, <4>2 DEF Session, GoesOn
        <4> QED
          BY <1>2, <4>1, <4>2, <4>3 DEF Session
      <3> QED
        BY <3>2, <3>3
    <2>4. CASE TakePasskey
      <3>1. Head(air).kind = "passkey" /\ starting' = starting
        BY <2>4 DEF TakePasskey, Takes
      <3>2. CASE pairState' = pairState
        BY <2>2, <3>1, <3>2, Statuses
      <3>3. CASE pairState' # pairState
        <4>1. pairState = "FindingPasskey" /\ pairState' = "Pairing"
          BY <2>4, <3>3 DEF TakePasskey
        <4>2. owed = "nothing" /\ starting = {} /\ GoesOn("pairing", PairingStatus)
          BY <1>1, <1>a, <2>1, <3>1, <4>1 DEF Session, PairingOK, Owings
        <4>3. Ended(PairingStatus)' <=> Ended(PairingStatus)
          BY <1>a, <3>1, Statuses
        <4> QED
          BY <1>2, <3>1, <4>1, <4>2, <4>3 DEF Session, GoesOn
      <3> QED
        BY <3>2, <3>3
    <2>5. ASSUME NEW of \in {"discovery status", PairingStatus}, TakeStatus(of) PROVE Session'
      <3>1. Head(air).kind = of /\ starting' = starting
        BY <2>5 DEF TakeStatus, Takes
      <3>2. CASE ~Head(air).on /\ EndedBy(of)
        <4>1. pairState' = "NotPairing" /\ Ended(of)
          BY <1>4, <2>5, <3>1, <3>2 DEF TakeStatus, Ended
        <4>2. of = "discovery status" <=> pairState = "Discovering"
          BY <2>5, <3>2, Statuses DEF EndedBy
        <4>3. CASE of = "discovery status"
          <5>1. owed = "nothing" /\ starting = {} /\ mode = "idle"
            BY <1>1, <2>1, <4>1, <4>2, <4>3 DEF Session, PairingOK, Owings, GoesOn
          <5> QED
            BY <1>2, <3>1, <4>1, <5>1 DEF Session
        <4>4. CASE of = PairingStatus
          <5>1. pairState \in {"FindingPasskey", "Pairing"} /\ Ended(PairingStatus)
            BY <3>2, <4>1, <4>4, Statuses DEF EndedBy
          <5>2. owed = "nothing" /\ starting = {} /\ mode = "idle"
            BY <1>1, <2>1, <5>1 DEF Session, PairingOK, Owings, GoesOn
          <5> QED
            BY <1>2, <3>1, <4>1, <5>2 DEF Session
        <4> QED
          BY <2>5, <4>3, <4>4
      <3>3. CASE ~(~Head(air).on /\ EndedBy(of))
        <4>1. pairState' = pairState
          BY <2>5, <3>3 DEF TakeStatus
        <4> QED
          BY <2>2, <2>5, <3>1, <3>3, <4>1, Statuses DEF EndedBy
      <3> QED
        BY <3>2, <3>3
    <2> QED
      BY <2>3, <2>4, <2>5 DEF TakeReport
  <1> QED
    BY <1>2, <1>5, <1>6 DEF SessionInv

\* Every step keeps SessionInv.
LEMMA SessionStep == SessionInv /\ [PairNext]_pairVars => SessionInv'
  <1> SUFFICES ASSUME SessionInv, [PairNext]_pairVars PROVE SessionInv'
    OBVIOUS
  <1>1. CASE UNCHANGED pairVars
    BY <1>1, SameStatus
    DEF pairVars, SessionInv, PairingOK, Session, GoesOn, Ended, Sent
  <1>2. CASE PairNext
    BY <1>2, SessionReceiver, SessionCalls, SessionTransfers, SessionReports DEF PairNext
  <1> QED
    BY <1>1, <1>2

\* The theorem. For any devices, sequence numbers and names, and any number of
\* sessions: when nothing is on its way, daemon and receiver agree, unless a
\* transfer was refused or sessions overtook each other.
THEOREM SessionsAgree == PairSpec => []SessionAgrees
  <1>1. SessionInv => SessionAgrees
    <2> SUFFICES ASSUME SessionInv, ~overtaken, ~refused, air = << >>, starting = {},
                        owed = "nothing"
                 PROVE  SessionAgrees
      BY DEF SessionAgrees
    <2>1. \A k : ~Ended(k)
      BY DEF Ended
    <2>2. Session /\ pairState \in PairStates
      BY DEF SessionInv, PairingOK
    <2> QED
      BY <2>1, <2>2 DEF Session, GoesOn, SessionAgrees, PairStates
  <1> QED
    BY <1>1, SessionInitially, SessionStep, PTL DEF PairSpec

-----------------------------------------------------------------------------
(* What is paired, and what is shown                                        *)

\* The session's first transfer is still to be made: nothing is left of another.
Fresh ==
    owed \in {"startDiscover", "startPairing"} =>
        /\ mode = "idle" /\ starting = {} /\ ~Sent("part")
        /\ owed = "startDiscover" => discovery = Blank
        /\ owed = "startPairing" => pairState # "Discovering"

\* One device was chosen, and is the one that is paired and asked for.
Chosen ==
    /\ \A e \in starting : e = discovery /\ WholeEvent(e)
    /\ target \in {Nobody, discovery.of}
    /\ \A n \in 1 .. Len(air) : air[n].kind = "passkey" => air[n].of = discovery.of
    /\ \A p \in ready : p.of = p.passkey

\* The parts that are on their way: of each device those that were sent and not
\* yet taken, in order.
PartsInOrder(taken) ==
    /\ \A d \in Near : taken[d] <= told[d]
    /\ \A n \in 1 .. Len(air) : air[n].kind = "part" =>
           \E d \in Near, k \in Nat : air[n] = Part(d, k) /\ taken[d] <= k /\ k < told[d]
    /\ \A m, n \in 1 .. Len(air) :
           m < n /\ air[m].kind = "part" /\ air[n].kind = "part" /\ air[m].of = air[n].of =>
               air[m].n < air[n].n
    /\ \A d \in Near, k \in Nat : taken[d] <= k /\ k < told[d] =>
           \E n \in 1 .. Len(air) : air[n] = Part(d, k)

\* The event of a device has the parts that were taken, and does not have its
\* whole name. There is none only as long as no part was taken of any, or when
\* none will come.
Filled(taken) ==
    IF discovery.of = Nobody
    THEN (\A d \in Near : taken[d] = 0) \/ (mode # "discovering" /\ ~Sent("part"))
    ELSE /\ discovery.of \in Near /\ taken[discovery.of] >= 1
         /\ discovery.seq = SeqNum[discovery.of]
         /\ discovery.name = {Part(discovery.of, n) : n \in 1 .. taken[discovery.of] - 1}
         /\ taken[discovery.of] >= 2 => discovery.size = Size[discovery.of]
         /\ (taken[discovery.of] - 1) * Block <= Size[discovery.of]

\* In a discovery nothing is paired yet, and what is noted of a device is what
\* its parts say that were taken.
Hearing ==
    pairState = "Discovering" =>
        /\ starting = {} /\ mode # "pairing" /\ ~Sent("passkey")
        /\ \E taken \in [Near -> Nat] : PartsInOrder(taken) /\ Filled(taken)

\* The event has its four fields.
EventOK == /\ {"of", "seq", "size", "name"} = DOMAIN discovery
           /\ discovery = [of |-> discovery.of, seq |-> discovery.seq,
                           size |-> discovery.size, name |-> discovery.name]

\* The inductive invariant, beside SessionInv.
ShownInv ==
    /\ EventOK /\ told \in [Near -> Nat]
    /\ mode # "pairing" => target = Nobody
    /\ ~overtaken => Fresh /\ Chosen /\ Hearing

\* The part with which a name ends is the one that goes beyond its length.
LEMMA LastPart ==
    ASSUME NEW b \in Nat \ {0}, NEW z \in Nat, NEW k \in Nat \ {0},
           (k - 1) * b <= z, k * b > z
    PROVE  k = (z \div b) + 1
  <1> DEFINE q == z \div b
  <1>1. q \in Nat /\ q * b <= z /\ z < (q + 1) * b
    OBVIOUS
  <1> HIDE DEF q
  <1>2. k <= q + 1
    <2> SUFFICES ASSUME k - 1 >= q + 1 PROVE FALSE
      BY <1>1
    <2>1. (k - 1) * b >= (q + 1) * b
      BY <1>1
    <2> QED
      BY <1>1, <2>1
  <1>3. k >= q + 1
    <2> SUFFICES ASSUME k <= q PROVE FALSE
      BY <1>1
    <2>1. k * b <= q * b
      BY <1>1
    <2> QED
      BY <1>1, <2>1
  <1> QED
    BY <1>1, <1>2, <1>3 DEF q

\* Nothing is paired yet.
LEMMA ShownInitially == PairInit => ShownInv
  <1> SUFFICES ASSUME PairInit PROVE ShownInv
    OBVIOUS
  <1>1. PairingOK /\ air = << >> /\ mode = "idle" /\ pairState = "NotPairing" /\ owed = "nothing"
        /\ starting = {} /\ ready = {} /\ target = Nobody /\ discovery = Blank
    BY SessionInitially DEF PairInit, SessionInv
  <1>2. told \in [Near -> Nat]
    BY DEF PairInit
  <1>3. EventOK
    BY <1>1 DEF EventOK, Blank
  <1>4. Fresh /\ Chosen /\ Hearing
    BY <1>1 DEF Fresh, Chosen, Hearing
  <1> QED
    BY <1>1, <1>2, <1>3, <1>4 DEF ShownInv

\* What follows the reports on their way is no part: the parts are as they were.
LEMMA PartsStay ==
    ASSUME NEW taken \in [Near -> Nat], PartsInOrder(taken), told' = told,
           Len(air) \in Nat, Len(air') \in Nat, Len(air) <= Len(air'),
           \A n \in 1 .. Len(air) : air'[n] = air[n],
           \A n \in (Len(air) + 1) .. Len(air') : air'[n].kind # "part"
    PROVE  PartsInOrder(taken)'
  <1>1. /\ \A n \in 1 .. Len(air') : n \in 1 .. Len(air) \/ n \in (Len(air) + 1) .. Len(air')
        /\ \A n \in 1 .. Len(air) : n \in 1 .. Len(air')
    BY Ranges
  <1>2. \A n \in 1 .. Len(air') : air'[n].kind = "part" => n \in 1 .. Len(air) /\ air'[n] = air[n]
    BY <1>1
  <1>3. \A n \in 1 .. Len(air) : n \in 1 .. Len(air') /\ air'[n] = air[n]
    BY <1>1
  <1>4. \A d \in Near : taken[d] <= told'[d]
    BY DEF PartsInOrder
  <1>5. \A n \in 1 .. Len(air') : air'[n].kind = "part" =>
            \E d \in Near, k \in Nat : air'[n] = Part(d, k) /\ taken[d] <= k /\ k < told'[d]
    <2>1. \A n \in 1 .. Len(air) : air[n].kind = "part" =>
              \E d \in Near, k \in Nat : air[n] = Part(d, k) /\ taken[d] <= k /\ k < told'[d]
      BY DEF PartsInOrder
    <2> QED
      BY <1>2, <2>1
  <1>6. \A m, n \in 1 .. Len(air') :
            m < n /\ air'[m].kind = "part" /\ air'[n].kind = "part" /\ air'[m].of = air'[n].of =>
                air'[m].n < air'[n].n
    BY <1>2 DEF PartsInOrder
  <1>7. \A d \in Near, k \in Nat : taken[d] <= k /\ k < told'[d] =>
            \E n \in 1 .. Len(air') : air'[n] = Part(d, k)
    <2> SUFFICES ASSUME NEW d \in Near, NEW k \in Nat, taken[d] <= k, k < told'[d]
                 PROVE  \E n \in 1 .. Len(air') : air'[n] = Part(d, k)
      OBVIOUS
    <2>1. PICK n \in 1 .. Len(air) : air[n] = Part(d, k)
      BY DEF PartsInOrder
    <2> QED
      BY <1>3, <2>1
  <1> QED
    BY <1>4, <1>5, <1>6, <1>7 DEF PartsInOrder

\* The receiver sends a part.
LEMMA PartSent ==
    ASSUME PairingOK, told \in [Near -> Nat], NEW taken \in [Near -> Nat], PartsInOrder(taken),
           NEW d \in Near, Discovers(d)
    PROVE  PartsInOrder(taken)'
  <1> DEFINE r == Part(d, told[d])
  <1>1. /\ told' = [told EXCEPT ![d] = @ + 1] /\ air' = Append(air, r)
    BY DEF Discovers
  <1>2. r.kind = "part" /\ r.of = d /\ r.n = told[d]
    BY DEF Part
  <1>3. /\ Len(air) \in Nat /\ Len(air') = Len(air) + 1 /\ air'[Len(air) + 1] = r
        /\ \A n \in 1 .. Len(air) : air'[n] = air[n]
    BY <1>1, Added
  <1>4. /\ told'[d] = told[d] + 1
        /\ \A e \in Near : e # d => told'[e] = told[e]
        /\ \A e \in Near : told[e] \in Nat /\ taken[e] \in Nat /\ taken[e] <= told[e]
    BY <1>1 DEF PartsInOrder
  <1>5. /\ \A n \in 1 .. Len(air') : n \in 1 .. Len(air) \/ n = Len(air) + 1
        /\ \A n \in 1 .. Len(air) : n \in 1 .. Len(air') /\ n # Len(air) + 1
        /\ Len(air) + 1 \in 1 .. Len(air')
    BY <1>3
  <1>6. \A n \in 1 .. Len(air') : air'[n].kind = "part" =>
            \E e \in Near, k \in Nat : air'[n] = Part(e, k) /\ taken[e] <= k /\ k < told'[e]
    <2>1. ASSUME NEW n \in 1 .. Len(air), air'[n].kind = "part"
          PROVE  \E e \in Near, k \in Nat : air'[n] = Part(e, k) /\ taken[e] <= k /\ k < told'[e]
      <3>1. PICK e \in Near, k \in Nat : air[n] = Part(e, k) /\ taken[e] <= k /\ k < told[e]
        BY <1>3, <2>1 DEF PartsInOrder
      <3>2. k < told'[e]
        BY <1>4, <3>1
      <3> QED
        BY <1>3, <3>1, <3>2
    <2>2. air'[Len(air) + 1] = Part(d, told[d]) /\ taken[d] <= told[d] /\ told[d] < told'[d]
      BY <1>3, <1>4
    <2> QED
      BY <1>4, <1>5, <2>1, <2>2
  <1>7. ASSUME NEW m \in 1 .. Len(air'), NEW n \in 1 .. Len(air'), m < n,
               air'[m].kind = "part", air'[n].kind = "part", air'[m].of = air'[n].of
        PROVE  air'[m].n < air'[n].n
    <2>1. m \in 1 .. Len(air)
      BY <1>3, <1>7
    <2>2. CASE n \in 1 .. Len(air)
      BY <1>3, <1>7, <2>1, <2>2 DEF PartsInOrder
    <2>3. CASE n = Len(air) + 1
      <3>a. air[m].kind = "part"
        BY <1>3, <1>7, <2>1
      <3>1. PICK e \in Near, k \in Nat : air[m] = Part(e, k) /\ taken[e] <= k /\ k < told[e]
        BY <2>1, <3>a DEF PartsInOrder
      <3>2. air'[m].of = e /\ air'[m].n = k
        BY <1>3, <2>1, <3>1 DEF Part
      <3> QED
        BY <1>2, <1>3, <1>7, <2>3, <3>1, <3>2
    <2> QED
      BY <1>5, <2>2, <2>3
  <1>8. ASSUME NEW e \in Near, NEW k \in Nat, taken[e] <= k, k < told'[e]
        PROVE  \E n \in 1 .. Len(air') : air'[n] = Part(e, k)
    <2>1. CASE k < told[e]
      <3>1. PICK n \in 1 .. Len(air) : air[n] = Part(e, k)
        BY <1>8, <2>1 DEF PartsInOrder
      <3> QED
        BY <1>3, <1>5, <3>1
    <2>2. CASE ~(k < told[e])
      <3>1. e = d /\ k = told[d]
        BY <1>4, <1>8, <2>2
      <3> QED
        BY <1>3, <1>5, <3>1
    <2> QED
      BY <2>1, <2>2
  <1>9. \A e \in Near : taken[e] <= told'[e]
    BY <1>4
  <1> QED
    BY <1>6, <1>7, <1>8, <1>9 DEF PartsInOrder

\* The first report is taken. A part is the next of its device.
LEMMA PartTaken ==
    ASSUME PairingOK, told \in [Near -> Nat], told' = told, air # << >>, air' = Tail(air),
           NEW taken \in [Near -> Nat], PartsInOrder(taken)
    PROVE  /\ Head(air).kind # "part" => PartsInOrder(taken)'
           /\ Head(air).kind = "part" =>
                  \E d \in Near : /\ Head(air) = Part(d, taken[d])
                                  /\ PartsInOrder([taken EXCEPT ![d] = @ + 1])'
  <1>1. /\ Len(air) \in Nat \ {0} /\ Len(air') = Len(air) - 1 /\ Head(air) = air[1]
        /\ \A n \in 1 .. Len(air') : air'[n] = air[n + 1] /\ n + 1 \in 1 .. Len(air)
    BY Received
  <1>2. \A n \in 1 .. Len(air) : n # 1 => n - 1 \in 1 .. Len(air') /\ air'[n - 1] = air[n]
    BY <1>1
  <1>3. 1 \in 1 .. Len(air)
    BY <1>1
  <1>4. \A m, n \in 1 .. Len(air') :
            m < n /\ air'[m].kind = "part" /\ air'[n].kind = "part" /\ air'[m].of = air'[n].of =>
                air'[m].n < air'[n].n
    <2>1. \A m, n \in 1 .. Len(air') : m < n => m + 1 < n + 1
      BY <1>1
    <2> QED
      BY <1>1, <2>1 DEF PartsInOrder
  <1>5. ASSUME Head(air).kind # "part" PROVE PartsInOrder(taken)'
    <2>1. \A n \in 1 .. Len(air') : air'[n].kind = "part" =>
              \E d \in Near, k \in Nat : air'[n] = Part(d, k) /\ taken[d] <= k /\ k < told[d]
      BY <1>1 DEF PartsInOrder
    <2>2. ASSUME NEW d \in Near, NEW k \in Nat, taken[d] <= k, k < told[d]
          PROVE  \E n \in 1 .. Len(air') : air'[n] = Part(d, k)
      <3>1. PICK n \in 1 .. Len(air) : air[n] = Part(d, k)
        BY <2>2 DEF PartsInOrder
      <3>2. n # 1
        BY <1>1, <1>5, <3>1 DEF Part
      <3> QED
        BY <1>2, <3>1, <3>2
    <2> QED
      BY <1>4, <2>1, <2>2 DEF PartsInOrder
  <1>6. ASSUME Head(air).kind = "part"
        PROVE  \E d \in Near : /\ Head(air) = Part(d, taken[d])
                               /\ PartsInOrder([taken EXCEPT ![d] = @ + 1])'
    <2>1. PICK d \in Near, k \in Nat : air[1] = Part(d, k) /\ taken[d] <= k /\ k < told[d]
      BY <1>1, <1>3, <1>6 DEF PartsInOrder
    <2>2. \A e \in Near : taken[e] \in Nat /\ told[e] \in Nat /\ taken[e] <= told[e]
      BY DEF PartsInOrder
    <2>3. k = taken[d]
      <3>1. PICK n \in 1 .. Len(air) : air[n] = Part(d, taken[d])
        BY <2>1, <2>2 DEF PartsInOrder
      <3>2. CASE n = 1
        BY <2>1, <3>1, <3>2 DEF Part
      <3>3. CASE n # 1
        <4>1. air[1].n < air[n].n
          <5>1. /\ air[1].kind = "part" /\ air[1].of = d
                /\ air[n].kind = "part" /\ air[n].of = d
            BY <2>1, <3>1 DEF Part
          <5>2. 1 < n
            BY <1>1, <3>3
          <5> QED
            BY <1>3, <5>1, <5>2 DEF PartsInOrder
        <4> QED
          BY <2>1, <2>2, <3>1, <4>1 DEF Part
      <3> QED
        BY <3>2, <3>3
    <2> DEFINE next == [taken EXCEPT ![d] = @ + 1]
    <2>4. /\ next[d] = taken[d] + 1 /\ \A e \in Near : e # d => next[e] = taken[e]
      BY <2>2
    <2> HIDE DEF next
    <2>5. \A e \in Near : next[e] <= told[e]
      BY <2>1, <2>2, <2>3, <2>4
    <2>6. ASSUME NEW n \in 1 .. Len(air'), air'[n].kind = "part"
          PROVE  \E e \in Near, j \in Nat : air'[n] = Part(e, j) /\ next[e] <= j /\ j < told[e]
      <3>1. PICK e \in Near, j \in Nat : air[n + 1] = Part(e, j) /\ taken[e] <= j /\ j < told[e]
        BY <1>1, <2>6 DEF PartsInOrder
      <3>2. e = d => taken[d] < j
        <4>1. 1 < n + 1 /\ n + 1 \in 1 .. Len(air)
          BY <1>1
        <4>2. /\ air[1].kind = "part" /\ air[1].of = d
              /\ air[n + 1].kind = "part" /\ air[n + 1].of = e
          BY <2>1, <3>1 DEF Part
        <4>3. e = d => air[1].n < air[n + 1].n
          BY <1>3, <4>1, <4>2 DEF PartsInOrder
        <4> QED
          BY <2>1, <2>3, <3>1, <4>3 DEF Part
      <3>3. next[e] <= j
        BY <2>2, <2>4, <3>1, <3>2
      <3> QED
        BY <1>1, <3>1, <3>3
    <2>7. ASSUME NEW e \in Near, NEW j \in Nat, next[e] <= j, j < told[e]
          PROVE  \E n \in 1 .. Len(air') : air'[n] = Part(e, j)
      <3>1. taken[e] <= j /\ (e = d => j # taken[d])
        BY <2>2, <2>4, <2>7
      <3>2. PICK n \in 1 .. Len(air) : air[n] = Part(e, j)
        BY <2>7, <3>1 DEF PartsInOrder
      <3>3. n # 1
        BY <2>1, <2>3, <3>1, <3>2 DEF Part
      <3> QED
        BY <1>2, <3>2, <3>3
    <2>8. PartsInOrder(next)'
      BY <1>4, <2>5, <2>6, <2>7 DEF PartsInOrder
    <2> QED
      BY <1>1, <2>1, <2>3, <2>8 DEF next
  <1> QED
    BY <1>5, <1>6

\* Hearing and Chosen only look at these.
LEMMA ShownStays ==
    ASSUME told' = told, air' = air, target' = target, mode' = mode, pairState' = pairState,
           discovery' = discovery, starting' = starting, ready' = ready
    PROVE  /\ Chosen => Chosen'
           /\ Hearing => Hearing'
  <1>1. \A k : Sent(k)' <=> Sent(k)
    BY DEF Sent
  <1>2. Chosen => Chosen'
    BY DEF Chosen, WholeEvent
  <1>3. ASSUME Hearing, pairState = "Discovering" PROVE Hearing'
    <2>1. PICK taken \in [Near -> Nat] : PartsInOrder(taken) /\ Filled(taken)
      BY <1>3 DEF Hearing
    <2>2. PartsInOrder(taken)' /\ Filled(taken)'
      <3>1. PartsInOrder(taken)'
        BY <2>1 DEF PartsInOrder
      <3>2. Filled(taken)'
        BY <1>1, <2>1 DEF Filled
      <3> QED
        BY <3>1, <3>2
    <2> QED
      BY <1>1, <1>3, <2>2 DEF Hearing
  <1> QED
    BY <1>2, <1>3 DEF Hearing

\* The receiver.
LEMMA ShownReceiver ==
    ASSUME SessionInv, ShownInv, (\E d \in Near : Discovers(d)) \/ AsksPasskey \/ Finishes
    PROVE  ShownInv'
  <1>1. PairingOK /\ EventOK /\ told \in [Near -> Nat] /\ (mode # "pairing" => target = Nobody)
    BY DEF ShownInv, SessionInv
  <1>2. /\ pairState' = pairState /\ discovery' = discovery /\ owed' = owed
        /\ starting' = starting /\ ready' = ready /\ overtaken' = overtaken
    <2>1. UNCHANGED DaemonVars
      BY DEF Discovers, AsksPasskey, Finishes
    <2> QED
      BY <2>1 DEF DaemonVars
  <1>3. EventOK'
    BY <1>1, <1>2 DEF EventOK
  <1>4. ASSUME NEW d \in Near, Discovers(d) PROVE ShownInv'
    <2>1. /\ mode = "discovering" /\ mode' = mode /\ target' = target
          /\ air' = Append(air, Part(d, told[d])) /\ told' = [told EXCEPT ![d] = @ + 1]
      BY <1>4 DEF Discovers
    <2>2. told' \in [Near -> Nat]
      BY <1>1, <2>1
    <2>3. Part(d, told[d]).kind = "part"
      BY DEF Part
    <2>4. Sent("passkey")' <=> Sent("passkey")
      BY <1>1, <2>1, <2>3, AddedEnds
    <2>5. ASSUME ~overtaken PROVE Fresh' /\ Chosen' /\ Hearing'
      <3>1. Fresh /\ Chosen /\ Hearing
        BY <2>5 DEF ShownInv
      <3>2. Fresh'
        BY <1>2, <2>1, <3>1 DEF Fresh
      <3>3. Chosen'
        <4>1. /\ Len(air') = Len(air) + 1 /\ air'[Len(air) + 1] = Part(d, told[d])
              /\ Len(air) \in Nat /\ \A n \in 1 .. Len(air) : air'[n] = air[n]
          BY <1>1, <2>1, Added
        <4>2. \A n \in 1 .. Len(air') : n \in 1 .. Len(air) \/ n = Len(air) + 1
          BY <4>1
        <4>3. \A n \in 1 .. Len(air') : air'[n].kind = "passkey" => air'[n].of = discovery.of
          BY <2>3, <3>1, <4>1, <4>2 DEF Chosen
        <4> QED
          BY <1>2, <2>1, <3>1, <4>3 DEF Chosen, WholeEvent
      <3>4. Hearing'
        <4> SUFFICES ASSUME pairState = "Discovering" PROVE Hearing'
          BY <1>2 DEF Hearing
        <4>1. PICK taken \in [Near -> Nat] : PartsInOrder(taken) /\ Filled(taken)
          BY <3>1 DEF Hearing
        <4>2. PartsInOrder(taken)'
          BY <1>1, <1>4, <4>1, PartSent
        <4>3. Filled(taken)'
          BY <1>2, <2>1, <4>1 DEF Filled
        <4> QED
          BY <1>2, <2>1, <2>4, <3>1, <4>2, <4>3 DEF Hearing
      <3> QED
        BY <3>2, <3>3, <3>4
    <2> QED
      BY <1>1, <1>2, <1>3, <2>1, <2>2, <2>5 DEF ShownInv
  <1>5. CASE AsksPasskey \/ Finishes
    <2>1. PICK r : /\ air' = Append(air, r) /\ told' = told /\ r.kind # "part"
                   /\ \/ /\ r.kind = "passkey" /\ r.of = target /\ target \in Near
                         /\ mode = "pairing" /\ mode' = mode /\ target' = Nobody
                      \/ r.kind # "passkey" /\ mode # "idle" /\ mode' = "idle" /\ target' = Nobody
      <3>1. CASE AsksPasskey
        BY <3>1 DEF AsksPasskey
      <3>2. CASE Finishes
        <4>1. \A k \in {"discovery status", PairingStatus} :
                  Status(k, FALSE).kind \notin {"part", "passkey"}
          BY Statuses DEF Status
        <4> QED
          BY <3>2, <4>1 DEF Finishes
      <3> QED
        BY <1>5, <3>1, <3>2
    <2>2. (Sent("part")' <=> Sent("part")) /\ (Sent("passkey")' <=> Sent("passkey") \/ r.kind = "passkey")
      BY <1>1, <2>1, AddedEnds
    <2>3. ASSUME ~overtaken PROVE Fresh' /\ Chosen' /\ Hearing'
      <3>1. Fresh /\ Chosen /\ Hearing
        BY <2>3 DEF ShownInv
      <3>2. Fresh'
        BY <1>2, <2>1, <2>2, <3>1 DEF Fresh
      <3>a. /\ Len(air) \in Nat /\ Len(air') \in Nat /\ Len(air) <= Len(air')
            /\ Len(air') = Len(air) + 1 /\ air'[Len(air) + 1] = r
            /\ \A n \in 1 .. Len(air) : air'[n] = air[n]
        BY <1>1, <2>1, Added
      <3>b. /\ \A n \in 1 .. Len(air') : n \in 1 .. Len(air) \/ n = Len(air) + 1
            /\ \A n \in (Len(air) + 1) .. Len(air') : n = Len(air) + 1
        BY <3>a
      <3>3. Chosen'
        <4>1. r.kind = "passkey" => r.of = discovery.of
          <5> SUFFICES ASSUME r.kind = "passkey" PROVE r.of = discovery.of
            OBVIOUS
          <5>1. target # Nobody
            BY <2>1, PairingAssumption
          <5> QED
            BY <2>1, <3>1, <5>1 DEF Chosen
        <4>2. \A n \in 1 .. Len(air') : air'[n].kind = "passkey" => air'[n].of = discovery.of
          BY <3>1, <3>a, <3>b, <4>1 DEF Chosen
        <4> QED
          BY <1>2, <2>1, <3>1, <4>2 DEF Chosen, WholeEvent
      <3>4. Hearing'
        <4> SUFFICES ASSUME pairState = "Discovering" PROVE Hearing'
          BY <1>2 DEF Hearing
        <4>1. PICK taken \in [Near -> Nat] : PartsInOrder(taken) /\ Filled(taken)
          BY <3>1 DEF Hearing
        <4>2. PartsInOrder(taken)'
          BY <2>1, <3>a, <3>b, <4>1, PartsStay
        <4>3. mode # "pairing" /\ mode' # "pairing" /\ ~Sent("passkey")' /\ (mode' = "discovering" => mode = "discovering")
          BY <2>1, <2>2, <3>1 DEF Hearing
        <4>4. Filled(taken)'
          BY <1>2, <2>2, <4>1, <4>3 DEF Filled
        <4> QED
          BY <1>2, <3>1, <4>2, <4>3, <4>4 DEF Hearing
      <3> QED
        BY <3>2, <3>3, <3>4
    <2> QED
      BY <1>1, <1>2, <1>3, <2>1, <2>3 DEF ShownInv
  <1> QED
    BY <1>4, <1>5

\* The calls of the bus. One that begins a session finds nothing of another.
LEMMA ShownCalls ==
    ASSUME SessionInv, ShownInv, _startPair \/ _stopPair
    PROVE  ShownInv'
  <1>1. PairingOK /\ EventOK /\ told \in [Near -> Nat] /\ (mode # "pairing" => target = Nobody)
        /\ owed = "nothing"
    BY DEF ShownInv, SessionInv, _startPair, _stopPair, PairCall
  <1>2. mode' = mode /\ target' = target /\ told' = told /\ air' = air /\ starting' = starting
    BY DEF _startPair, _stopPair, PairCall
  <1>3. EventOK'
    BY <1>1 DEF EventOK, _startPair, _stopPair, Blank
  <1>4. ASSUME ~overtaken', _startPair PROVE Fresh' /\ Chosen' /\ Hearing'
    <2>1. /\ mode = "idle" /\ starting = {} /\ target = Nobody
          /\ \A n \in 1 .. Len(air) : air[n].kind \notin {"part", "passkey"}
      BY <1>1, <1>4 DEF _startPair, Unfinished
    <2>2. ~Sent("part")' /\ ~Sent("passkey")'
      BY <1>2, <2>1 DEF Sent
    <2>3. /\ discovery' = Blank /\ ready' = {}
          /\ pairState' = (IF bolt THEN "Discovering" ELSE "Pairing")
          /\ owed' = (IF bolt THEN "startDiscover" ELSE "startPairing")
      BY <1>4 DEF _startPair
    <2>4. Fresh' /\ Chosen'
      BY <1>2, <2>1, <2>2, <2>3 DEF Fresh, Chosen
    <2>5. Hearing'
      <3>1. PartsInOrder(told)'
        BY <1>1, <1>2, <2>1 DEF PartsInOrder
      <3>2. PICK taken \in [Near -> Nat] : taken = told
        BY <1>1
      <3>3. PartsInOrder(taken)'
        <4>1. /\ told' = taken /\ \A d \in Near : taken[d] \in Nat
              /\ \A n \in 1 .. Len(air') : air'[n].kind # "part"
          BY <1>2, <2>1, <3>2
        <4> QED
          BY <4>1 DEF PartsInOrder
      <3>4. Filled(taken)'
        BY <1>2, <2>1, <2>2, <2>3 DEF Filled, Blank
      <3> QED
        BY <1>2, <2>1, <2>2, <3>3, <3>4 DEF Hearing
    <2> QED
      BY <2>4, <2>5
  <1>5. ASSUME ~overtaken', _stopPair PROVE Fresh' /\ Chosen' /\ Hearing'
    <2>1. /\ ~overtaken /\ pairState' = "NotPairing" /\ discovery' = discovery /\ ready' = ready
          /\ owed' \notin {"startDiscover", "startPairing"}
      BY <1>5 DEF _stopPair
    <2>2. Chosen
      BY <2>1 DEF ShownInv
    <2> QED
      BY <1>2, <2>1, <2>2 DEF Fresh, Chosen, Hearing, WholeEvent
  <1> QED
    BY <1>1, <1>2, <1>3, <1>4, <1>5 DEF ShownInv

\* The transfer of a call.
LEMMA ShownTransfers ==
    ASSUME SessionInv, ShownInv, MakeTransfer
    PROVE  ShownInv'
  <1>1. PairingOK /\ EventOK /\ told \in [Near -> Nat] /\ (mode # "pairing" => target = Nobody)
    BY DEF ShownInv, SessionInv
  <1>2. /\ pairState' = pairState /\ discovery' = discovery /\ starting' = starting
        /\ ready' = ready /\ overtaken' = overtaken /\ bolt' = bolt
        /\ owed # "nothing" /\ owed' = "nothing"
    BY DEF MakeTransfer
  <1>3. EventOK' /\ Fresh'
    BY <1>1, <1>2 DEF EventOK, Fresh
  <1>4. \/ mode' = mode /\ target' = target /\ told' = told /\ air' = air
        \/ owed = "startDiscover" /\ mode = "idle" /\ Turns("discovering", Nobody)
        \/ owed = "startPairing" /\ mode = "idle" /\ Turns("pairing", Nobody)
        \/ owed \in {"stopDiscover", "stopPairing"} /\ Turns("idle", Nobody)
    BY DEF MakeTransfer
  <1>5. CASE mode' = mode /\ target' = target /\ told' = told /\ air' = air
    BY <1>1, <1>2, <1>3, <1>5, ShownStays DEF ShownInv
  <1>6. ASSUME NEW to \in Modes, Turns(to, Nobody),
               \/ owed = "startDiscover" /\ to = "discovering"
               \/ owed = "startPairing" /\ to = "pairing"
               \/ owed \in {"stopDiscover", "stopPairing"} /\ to = "idle"
        PROVE  ShownInv'
    <2>1. /\ mode' = to /\ target' = Nobody
          /\ told' = (IF to = "discovering" THEN [d \in Near |-> 0] ELSE told)
      BY <1>6 DEF Turns
    <2>2. /\ Len(air) \in Nat /\ Len(air') \in Nat /\ Len(air) <= Len(air')
          /\ \A n \in 1 .. Len(air) : air'[n] = air[n]
          /\ \A n \in (Len(air) + 1) .. Len(air') : air'[n].kind \notin {"part", "passkey"}
      BY <1>1, <1>6, TurnTells, Statuses
    <2>3. (Sent("part")' <=> Sent("part")) /\ (Sent("passkey")' <=> Sent("passkey"))
      <3>1. PICK k \in {"discovery status", PairingStatus} : TRUE
        OBVIOUS
      <3> QED
        BY <1>1, <1>2, <1>6, TurnEnds
    <2>4. told' \in [Near -> Nat]
      BY <1>1, <2>1
    <2>5. ASSUME ~overtaken PROVE Chosen' /\ Hearing'
      <3>1. Fresh /\ Chosen /\ Hearing
        BY <2>5 DEF ShownInv
      <3>2. Chosen'
        <4>1. \A n \in 1 .. Len(air') : n \in 1 .. Len(air) \/ n \in (Len(air) + 1) .. Len(air')
          BY <2>2, Ranges
        <4>2. \A n \in 1 .. Len(air') : air'[n].kind = "passkey" => air'[n].of = discovery.of
          BY <2>2, <3>1, <4>1 DEF Chosen
        <4> QED
          BY <1>2, <2>1, <3>1, <4>2 DEF Chosen, WholeEvent
      <3>3. Hearing'
        <4> SUFFICES ASSUME pairState = "Discovering" PROVE Hearing'
          BY <1>2 DEF Hearing
        <4>1. to # "pairing"
          BY <1>6, <3>1 DEF Fresh
        <4>2. CASE to = "discovering"
          <5>1. ~Sent("part")' /\ discovery = Blank
            BY <1>6, <2>3, <3>1, <4>2 DEF Fresh
          <5>2. PICK taken \in [Near -> Nat] : taken = [d \in Near |-> 0]
            OBVIOUS
          <5>3. told' = taken /\ (\A d \in Near : taken[d] = 0)
                /\ \A n \in 1 .. Len(air') : air'[n].kind # "part"
            BY <2>1, <4>2, <5>1, <5>2 DEF Sent
          <5>4. PartsInOrder(taken)'
            BY <5>3 DEF PartsInOrder
          <5>5. Filled(taken)'
            BY <1>2, <5>1, <5>3 DEF Filled, Blank
          <5> QED
            BY <1>2, <2>1, <2>3, <3>1, <4>1, <5>4, <5>5 DEF Hearing
        <4>3. CASE to = "idle"
          <5>1. PICK taken \in [Near -> Nat] : PartsInOrder(taken) /\ Filled(taken)
            BY <3>1 DEF Hearing
          <5>2. PartsInOrder(taken)'
            BY <2>1, <2>2, <4>3, <5>1, PartsStay
          <5>3. Filled(taken)'
            BY <1>2, <2>1, <2>3, <4>3, <5>1 DEF Filled
          <5> QED
            BY <1>2, <2>1, <2>3, <3>1, <4>1, <5>2, <5>3 DEF Hearing
        <4> QED
          BY <1>6, <4>1, <4>2, <4>3
      <3> QED
        BY <3>2, <3>3
    <2> QED
      BY <1>2, <1>3, <2>1, <2>4, <2>5 DEF ShownInv
  <1> QED
    BY <1>4, <1>5, <1>6 DEF Modes

\* The worker has the receiver pair the device that was discovered.
LEMMA ShownPairing ==
    ASSUME SessionInv, ShownInv, NEW e \in starting, startBoltPairing(e)
    PROVE  ShownInv'
  <1>1. PairingOK /\ EventOK /\ told \in [Near -> Nat] /\ (mode # "pairing" => target = Nobody)
    BY DEF ShownInv, SessionInv
  <1>2. /\ pairState' = pairState /\ discovery' = discovery /\ starting' = starting \ {e}
        /\ ready' = ready /\ overtaken' = overtaken /\ bolt' = bolt /\ owed' = owed
    BY DEF startBoltPairing
  <1>3. EventOK'
    BY <1>1, <1>2 DEF EventOK
  <1>4. ASSUME ~overtaken
        PROVE  /\ Fresh /\ Chosen /\ e.of = discovery.of
               /\ owed \notin {"startDiscover", "startPairing"} /\ pairState # "Discovering"
    BY <1>4 DEF ShownInv, Fresh, Chosen, Hearing
  <1>5. CASE mode' = mode /\ target' = target /\ told' = told /\ air' = air
    <2>1. ASSUME ~overtaken PROVE Fresh' /\ Chosen' /\ Hearing'
      BY <1>2, <1>4, <1>5, <2>1 DEF Fresh, Chosen, Hearing, WholeEvent
    <2> QED
      BY <1>1, <1>2, <1>3, <1>5, <2>1 DEF ShownInv
  <1>6. CASE Turns("pairing", e.of)
    <2>1. mode' = "pairing" /\ target' = e.of /\ told' = told
      BY <1>6 DEF Turns
    <2>2. /\ Len(air) \in Nat /\ Len(air') \in Nat /\ Len(air) <= Len(air')
          /\ \A n \in 1 .. Len(air) : air'[n] = air[n]
          /\ \A n \in (Len(air) + 1) .. Len(air') : air'[n].kind \notin {"part", "passkey"}
      BY <1>1, <1>6, TurnTells, Statuses DEF Modes
    <2>3. \A n \in 1 .. Len(air') : n \in 1 .. Len(air) \/ n \in (Len(air) + 1) .. Len(air')
      BY <2>2, Ranges
    <2>4. ASSUME ~overtaken PROVE Fresh' /\ Chosen' /\ Hearing'
      <3>1. \A n \in 1 .. Len(air') : air'[n].kind = "passkey" => air'[n].of = discovery.of
        BY <1>4, <2>2, <2>3, <2>4 DEF Chosen
      <3> QED
        BY <1>2, <1>4, <2>1, <2>4, <3>1 DEF Fresh, Chosen, Hearing, WholeEvent
    <2> QED
      BY <1>1, <1>2, <1>3, <2>1, <2>4 DEF ShownInv
  <1> QED
    BY <1>5, <1>6 DEF startBoltPairing

\* A part that is taken in a discovery: the event has it, or is filled by it.
LEMMA ShownPart ==
    ASSUME SessionInv, ShownInv, ~overtaken, pairState = "Discovering", TakeDiscovery
    PROVE  Chosen' /\ Hearing'
  <1> DEFINE r == Head(air)
             e == Fill(discovery, r)
  <1>1. PairingOK /\ EventOK /\ told \in [Near -> Nat] /\ Chosen /\ Hearing
        /\ (mode # "pairing" => target = Nobody)
    BY DEF ShownInv, SessionInv
  <1>2. /\ air # << >> /\ air' = Tail(air) /\ r.kind = "part" /\ mode' = mode /\ target' = target
        /\ told' = told /\ ready' = ready /\ discovery' = e
        /\ IF Fills(e, r) THEN pairState' = "FindingPasskey" /\ starting' = starting \cup {e}
           ELSE pairState' = pairState /\ starting' = starting
    BY DEF TakeDiscovery, Takes
  <1> HIDE DEF r, e
  <1>3. /\ starting = {} /\ mode # "pairing" /\ target = Nobody /\ ~Sent("passkey")
    BY <1>1 DEF Hearing
  <1>4. PICK taken \in [Near -> Nat] : PartsInOrder(taken) /\ Filled(taken)
    BY <1>1 DEF Hearing
  <1>5. PICK d \in Near : r = Part(d, taken[d]) /\ PartsInOrder([taken EXCEPT ![d] = @ + 1])'
    BY <1>1, <1>2, <1>4, PartTaken DEF r
  <1> DEFINE k == taken[d]
  <1>6. PICK next \in [Near -> Nat] : next = [taken EXCEPT ![d] = @ + 1]
    <2>1. taken[d] + 1 \in Nat
      OBVIOUS
    <2>2. [taken EXCEPT ![d] = @ + 1] \in [Near -> Nat]
      BY <2>1
    <2> QED
      BY <2>2
  <1>7. /\ k \in Nat /\ next[d] = k + 1 /\ \A m \in Near : m # d => next[m] = taken[m]
    BY <1>6
  <1>8. PartsInOrder(next)'
    BY <1>5, <1>6
  <1>9. r.of = d /\ r.n = k /\ r.kind = "part"
    BY <1>5 DEF Part
  <1>10. ~Sent("passkey")' /\ Sent("part")
    <2>1. Sent("passkey")' => Sent("passkey")
      BY <1>1, <1>2, ReceivedEnds
    <2>2. Sent(r.kind)
      BY <1>1, <1>2, ReceivedEnds DEF r
    <2> QED
      BY <1>2, <1>3, <2>1, <2>2
  <1>11. \A n \in 1 .. Len(air') : air'[n].kind # "passkey"
    BY <1>10 DEF Sent
  <1>12. discovery = [of |-> discovery.of, seq |-> discovery.seq,
                      size |-> discovery.size, name |-> discovery.name]
    BY <1>1 DEF EventOK
  <1> HIDE DEF k
  <1>13. Block \in Nat \ {0} /\ Nobody \notin Near
         /\ \A m \in Near : Size[m] \in Nat \ {0} /\ SeqNum[m] \in Nat
    BY PairingAssumption
  <1>14. ASSUME Filled(next)', ~Fills(e, r) PROVE Chosen' /\ Hearing'
    <2>1. Hearing'
      BY <1>2, <1>3, <1>8, <1>10, <1>14 DEF Hearing
    <2>2. Chosen'
      BY <1>1, <1>2, <1>3, <1>11, <1>14 DEF Chosen
    <2> QED
      BY <2>1, <2>2
  <1>15. CASE k = 0
    <2>1. e = [of |-> d, seq |-> SeqNum[d], size |-> 0, name |-> {}]
      BY <1>9, <1>15 DEF Fill, e
    <2>2. ~Fills(e, r)
      BY <1>9, <1>15 DEF Fills
    <2>3. {Part(d, n) : n \in 1 .. next[d] - 1} = {}
      BY <1>7, <1>15
    <2>4. next[d] = 1 /\ (next[d] - 1) * Block <= Size[d]
      BY <1>7, <1>13, <1>15
    <2>5. d # Nobody
      BY <1>13
    <2>6. Filled(next)'
      BY <1>2, <2>1, <2>3, <2>4, <2>5 DEF Filled
    <2> QED
      BY <1>14, <2>2, <2>6
  <1>16. CASE k # 0 /\ discovery.of # d
    <2>1. discovery.of \in Near /\ taken[discovery.of] >= 1
          /\ discovery.seq = SeqNum[discovery.of]
      BY <1>4, <1>7, <1>10, <1>16 DEF Filled, k
    <2>2. SeqNum[d] # discovery.seq
      BY <1>16, <2>1, SeqNumAssumption
    <2>3. e = discovery
      BY <1>9, <1>16, <2>2 DEF Fill, e
    <2>4. ~Fills(e, r)
      BY <1>9, <2>2, <2>3 DEF Fills
    <2>5. next[discovery.of] = taken[discovery.of] /\ discovery.of # Nobody
      BY <1>7, <1>13, <1>16, <2>1
    <2>6. Filled(next)'
      BY <1>2, <1>4, <2>1, <2>3, <2>5 DEF Filled
    <2> QED
      BY <1>14, <2>4, <2>6
  <1>17. CASE k # 0 /\ discovery.of = d
    <2>1. /\ d # Nobody /\ discovery.seq = SeqNum[d] /\ k >= 1
          /\ discovery.name = {Part(d, n) : n \in 1 .. k - 1}
          /\ k >= 2 => discovery.size = Size[d]
          /\ (k - 1) * Block <= Size[d]
      BY <1>4, <1>13, <1>17 DEF Filled, k
    <2>2. e = [of |-> d, seq |-> SeqNum[d], size |-> Size[d], name |-> discovery.name \cup {r}]
      <3>1. e = [discovery EXCEPT !.size = IF k = 1 THEN Size[d] ELSE @, !.name = @ \cup {r}]
        BY <1>9, <1>17, <2>1 DEF Fill, e
      <3>2. (IF k = 1 THEN Size[d] ELSE discovery.size) = Size[d]
        BY <1>7, <2>1
      <3>3. e = [of |-> discovery.of, seq |-> discovery.seq,
                 size |-> IF k = 1 THEN Size[d] ELSE discovery.size,
                 name |-> discovery.name \cup {r}]
        BY <1>12, <3>1
      <3> QED
        BY <1>17, <2>1, <3>2, <3>3
    <2>3. discovery.name \cup {r} = {Part(d, n) : n \in 1 .. k}
      <3>1. 1 .. k = (1 .. k - 1) \cup {k}
        BY <1>7, <2>1
      <3> QED
        BY <1>5, <2>1, <3>1 DEF k
    <2>4. Fills(e, r) <=> k * Block > Size[d]
      BY <1>9, <1>17, <2>2 DEF Fills
    <2>5. CASE ~Fills(e, r)
      <3>1. next[d] - 1 = k /\ next[d] >= 1 /\ k * Block <= Size[d]
        BY <1>7, <1>13, <2>4, <2>5
      <3>2. Filled(next)'
        BY <1>2, <2>1, <2>2, <2>3, <3>1 DEF Filled
      <3> QED
        BY <1>14, <2>5, <3>2
    <2>6. CASE Fills(e, r)
      <3>1. k = Parts(d)
        BY <1>7, <1>13, <1>17, <2>1, <2>4, <2>6, LastPart DEF Parts
      <3>2. WholeEvent(e)
        BY <2>1, <2>2, <2>3, <3>1 DEF WholeEvent
      <3>3. starting' = {e} /\ pairState' = "FindingPasskey"
        BY <1>2, <1>3, <2>6
      <3>4. Hearing'
        BY <3>3 DEF Hearing
      <3>5. \A x \in starting' : x = discovery' /\ WholeEvent(x)'
        BY <1>2, <3>2, <3>3 DEF WholeEvent
      <3>6. Chosen'
        BY <1>1, <1>2, <1>3, <1>11, <3>5 DEF Chosen
      <3> QED
        BY <3>4, <3>6
    <2> QED
      BY <2>5, <2>6
  <1> QED
    BY <1>15, <1>16, <1>17

\* The reports.
LEMMA ShownReports ==
    ASSUME SessionInv, ShownInv, TakeReport
    PROVE  ShownInv'
  <1>1. PairingOK /\ EventOK /\ told \in [Near -> Nat] /\ (mode # "pairing" => target = Nobody)
    BY DEF ShownInv, SessionInv
  <1>2. /\ air # << >> /\ air' = Tail(air) /\ mode' = mode /\ target' = target /\ told' = told
        /\ owed' = owed /\ overtaken' = overtaken
    <2>1. \E k : Takes(k)
      BY DEF TakeReport, TakeDiscovery, TakePasskey, TakeStatus
    <2> QED
      BY <2>1 DEF Takes
  <1>3. /\ Head(air) = air[1] /\ 1 \in 1 .. Len(air)
        /\ \A n \in 1 .. Len(air') : n + 1 \in 1 .. Len(air) /\ air'[n] = air[n + 1]
    BY <1>1, <1>2, Received
  <1>4. \A k : (Sent(k)' => Sent(k)) /\ Sent(Head(air).kind)
    BY <1>1, <1>2, ReceivedEnds
  <1>5. EventOK'
    <2>1. CASE discovery' = discovery
      BY <1>1, <2>1 DEF EventOK
    <2>2. CASE discovery' = Fill(discovery, Head(air))
      <3> DEFINE r == Head(air)
      <3>1. CASE r.n = 0
        BY <2>2, <3>1 DEF EventOK, Fill
      <3>2. CASE r.n # 0 /\ discovery.seq # SeqNum[r.of]
        BY <1>1, <2>2, <3>2 DEF EventOK, Fill
      <3>3. CASE r.n # 0 /\ discovery.seq = SeqNum[r.of]
        <4>1. discovery' = [discovery EXCEPT !.size = IF r.n = 1 THEN Size[r.of] ELSE @,
                                             !.name = @ \cup {r}]
          BY <2>2, <3>3 DEF Fill
        <4> DEFINE z == IF r.n = 1 THEN Size[r.of] ELSE discovery.size
                   w == discovery.name \cup {r}
        <4>2. discovery' = [of |-> discovery.of, seq |-> discovery.seq, size |-> z, name |-> w]
          BY <1>1, <4>1 DEF EventOK
        <4> HIDE DEF z, w
        <4> QED
          BY <4>2 DEF EventOK
      <3> QED
        BY <3>1, <3>2, <3>3
    <2> QED
      BY <2>1, <2>2 DEF TakeReport, TakeDiscovery, TakePasskey, TakeStatus
  <1>6. ASSUME ~overtaken PROVE Fresh' /\ Chosen' /\ Hearing'
    <2>1. Fresh /\ Chosen /\ Hearing
      BY <1>6 DEF ShownInv
    <2>2. \A n \in 1 .. Len(air') : air'[n].kind = "passkey" => air'[n].of = discovery.of
      BY <1>3, <2>1 DEF Chosen
    <2>3. CASE TakeDiscovery /\ pairState = "Discovering"
      <3>1. Chosen' /\ Hearing'
        BY <1>6, <2>3, ShownPart
      <3>2. Head(air).kind = "part"
        BY <2>3 DEF TakeDiscovery, Takes
      <3>3. Fresh'
        BY <1>2, <1>4, <2>1, <3>2 DEF Fresh
      <3> QED
        BY <3>1, <3>3
    <2>4. ASSUME discovery' = discovery, starting' = starting, \A p \in ready' : p.of = p.passkey,
                 pairState' = pairState \/ pairState' # "Discovering",
                 pairState = "Discovering" => Head(air).kind # "part"
          PROVE  Fresh' /\ Chosen' /\ Hearing'
      <3>1. Fresh'
        BY <1>2, <1>4, <2>1, <2>4 DEF Fresh
      <3>2. Chosen'
        BY <1>2, <2>1, <2>2, <2>4 DEF Chosen, WholeEvent
      <3>3. Hearing'
        <4> SUFFICES ASSUME pairState' = "Discovering" PROVE Hearing'
          BY DEF Hearing
        <4>1. pairState = "Discovering" /\ Head(air).kind # "part"
          BY <2>4
        <4>2. PICK taken \in [Near -> Nat] : PartsInOrder(taken) /\ Filled(taken)
          BY <2>1, <4>1 DEF Hearing
        <4>3. PartsInOrder(taken)'
          BY <1>1, <1>2, <4>1, <4>2, PartTaken
        <4>4. Filled(taken)'
          BY <1>2, <1>4, <2>4, <4>2 DEF Filled
        <4> QED
          BY <1>2, <1>4, <2>1, <2>4, <4>1, <4>3, <4>4 DEF Hearing
      <3> QED
        BY <3>1, <3>2, <3>3
    <2>5. CASE TakeDiscovery /\ pairState # "Discovering"
      <3>1. discovery' = discovery /\ starting' = starting /\ ready' = ready /\ pairState' = pairState
        BY <2>5 DEF TakeDiscovery
      <3> QED
        BY <2>1, <2>4, <2>5, <3>1 DEF Chosen
    <2>6. CASE TakePasskey
      <3>1. /\ Head(air).kind = "passkey" /\ discovery' = discovery /\ starting' = starting
            /\ \/ ready' = ready /\ pairState' = pairState
               \/ /\ ready' = {[of |-> discovery.of, passkey |-> Head(air).of]}
                  /\ pairState' = "Pairing"
        BY <2>6 DEF TakePasskey, Takes
      <3>2. Head(air).of = discovery.of
        BY <1>3, <2>1, <3>1 DEF Chosen
      <3>3. \A p \in ready' : p.of = p.passkey
        BY <2>1, <3>1, <3>2 DEF Chosen
      <3> QED
        BY <2>4, <3>1, <3>3
    <2>7. ASSUME NEW of \in {"discovery status", PairingStatus}, TakeStatus(of)
          PROVE  Fresh' /\ Chosen' /\ Hearing'
      <3>1. /\ Head(air).kind = of /\ discovery' = discovery /\ starting' = starting
            /\ ready' = ready /\ pairState' \in {pairState, "NotPairing"}
        BY <2>7 DEF TakeStatus, Takes
      <3>2. of # "part"
        BY <2>7, Statuses
      <3>3. \A p \in ready' : p.of = p.passkey
        BY <2>1, <3>1 DEF Chosen
      <3> QED
        BY <2>4, <3>1, <3>2, <3>3
    <2> QED
      BY <2>3, <2>5, <2>6, <2>7 DEF TakeReport
  <1> QED
    BY <1>1, <1>2, <1>5, <1>6 DEF ShownInv

\* Every step keeps ShownInv.
LEMMA ShownStep == SessionInv /\ ShownInv /\ [PairNext]_pairVars => ShownInv'
  <1> SUFFICES ASSUME SessionInv, ShownInv, [PairNext]_pairVars PROVE ShownInv'
    OBVIOUS
  <1>1. CASE UNCHANGED pairVars
    <2>1. /\ told' = told /\ air' = air /\ target' = target /\ mode' = mode
          /\ pairState' = pairState /\ discovery' = discovery /\ starting' = starting
          /\ ready' = ready /\ owed' = owed /\ overtaken' = overtaken
      BY <1>1 DEF pairVars
    <2>2. (Fresh => Fresh') /\ (EventOK => EventOK')
      BY <2>1 DEF Fresh, EventOK, Sent
    <2> QED
      BY <2>1, <2>2, ShownStays DEF ShownInv
  <1>2. CASE PairNext
    BY <1>2, ShownReceiver, ShownCalls, ShownTransfers, ShownPairing, ShownReports DEF PairNext
  <1> QED
    BY <1>1, <1>2

\* The theorem. For any number of devices, with names of any length and reports
\* that mix in any way: unless a session began before the last was over, or ended
\* before the worker paired, the receiver is told to pair a device it has reported
\* with its whole name, and the passkey the bus is shown with it is its own.
THEOREM PairedAsShown == PairSpec => []PairsWhatItShows
  <1>1. ShownInv => PairsWhatItShows
    BY DEF ShownInv, Chosen, PairsWhatItShows
  <1> QED
    BY <1>1, SessionInitially, SessionStep, ShownInitially, ShownStep, PTL DEF PairSpec
=============================================================================
