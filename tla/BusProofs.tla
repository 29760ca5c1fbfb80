------------------------------ MODULE BusProofs ------------------------------
(***************************************************************************)
(* Theorems about the daemon and the bus: its locks, the tree of its       *)
(* objects, and the client's list of its devices.                          *)
(*  - DaemonLocks, for any number of workers and operations: threads       *)
(*    wait in a circle only where a node is taken apart or a call from     *)
(*    the bus takes part, and the thread that reads the answers waits      *)
(*    for a transfer only of a switch of profiles or a call. Each          *)
(*    operation is shown to take the locks in one order, composed as the   *)
(*    operation is: by sequence and by scope. What the threads hold then   *)
(*    follows them through it.                                             *)
(*  - BusTree, for any number of devices: a call on a device that is       *)
(*    known does not run while the device is destroyed.                    *)
(*  - DaemonConnection, for any devices and restarts of the daemon: the    *)
(*    client's list and screen are what the daemon is like.                *)
(***************************************************************************)
EXTENDS DaemonLocks, BusTree, DaemonConnection, FiniteSetTheorems, SequenceTheorems, TLAPS

-----------------------------------------------------------------------------
(* The order of the locks                                                  *)

\* The order in which the operations take the locks.
Rank == [devices |-> 1, map |-> 2, pair |-> 2, profile |-> 3, state |-> 4, buttons |-> 5,
         action |-> 6, wheel |-> 7, server |-> 8, hierarchy |-> 9]

\* What a thread holds, alone or with others, out of what its operation may.
Held(may) == [own : SUBSET may.own, shared : SUBSET may.shared]

\* What a thread holds at first, and after it takes or leaves lock l.
NoLocks   == [own |-> {}, shared |-> {}]
Owning(a, l)  == [own |-> a.own \cup {l}, shared |-> a.shared]
Sharing(a, l) == [own |-> a.own, shared |-> a.shared \cup {l}]
Releasing(a, l) == [own |-> a.own \ {l}, shared |-> a.shared \ {l}]

\* All that is held comes before rank n.
Below(n, a) == \A m \in a.own \cup a.shared : Rank[m] < n

\* A thread that takes a node apart asks for the server's lock too late.
InOrder(l, a) == Below(Rank[l], a) \/ (l = "server" /\ "hierarchy" \in a.own)

\* A step of an operation: what it wants is in order, and what it leaves held.
Disciplined(step, a, b) ==
    \/ /\ step.do = "lock" /\ step.lock \in Locks \ a.own
       /\ InOrder(step.lock, a) /\ b = Owning(a, step.lock)
    \/ /\ step.do = "share" /\ step.lock \in Locks
       /\ InOrder(step.lock, a) /\ b = Sharing(a, step.lock)
    \/ /\ step.do \in {"visit", "visitShared"} /\ step.lock \in Locks
       /\ InOrder(step.lock, a) /\ b = a
    \/ step.do = "unlock" /\ step.lock \in Locks /\ b = Releasing(a, step.lock)
    \/ step.do = "transfer" /\ a.own \cap {"server", "hierarchy"} = {} /\ b = a

\* The steps the operations consist of.
StepKinds == [do : {"lock", "share", "visit", "visitShared", "unlock", "transfer", "prompt"},
              lock : Locks \cup {None}]

\* h is what is held before each step of s, and in the end.
Course(s, h, a, b) ==
    /\ h[1] = a /\ h[Len(s) + 1] = b
    /\ \A k \in 1 .. Len(s) : Disciplined(s[k], h[k], h[k + 1])

\* A thread that holds a may make the steps s, each in its order, and then holds b;
\* in between it holds only what it may.
Passage(s, a, b, may) ==
    /\ s \in Seq(StepKinds)
    /\ \E h \in [1 .. Len(s) + 1 -> Held(may)] : Course(s, h, a, b)

\* A step is a path.
LEMMA OneStep ==
    ASSUME NEW may, NEW a \in Held(may), NEW b \in Held(may), NEW step \in StepKinds,
           Disciplined(step, a, b)
    PROVE  Passage(<<step>>, a, b, may)
  <1> DEFINE h == [k \in 1 .. 2 |-> IF k = 1 THEN a ELSE b]
  <1>1. <<step>> \in Seq(StepKinds) /\ Len(<<step>>) = 1 /\ <<step>>[1] = step
    OBVIOUS
  <1>2. h \in [1 .. 2 -> Held(may)] /\ h[1] = a /\ h[2] = b
    OBVIOUS
  <1>3. Course(<<step>>, h, a, b)
    BY <1>1, <1>2 DEF Course
  <1> HIDE DEF h
  <1> QED
    BY <1>1, <1>2, <1>3 DEF Passage

\* Paths are joined.
LEMMA JoinedPassages ==
    ASSUME NEW may, NEW a, NEW b, NEW c, NEW s, NEW t,
           Passage(s, a, b, may), Passage(t, b, c, may)
    PROVE  Passage(s \o t, a, c, may)
  <1>1. PICK g \in [1 .. Len(s) + 1 -> Held(may)] : Course(s, g, a, b)
    BY DEF Passage
  <1>2. PICK h \in [1 .. Len(t) + 1 -> Held(may)] : Course(t, h, b, c)
    BY DEF Passage
  <1>3. /\ s \in Seq(StepKinds) /\ t \in Seq(StepKinds) /\ Len(s) \in Nat /\ Len(t) \in Nat
        /\ s \o t \in Seq(StepKinds) /\ Len(s \o t) = Len(s) + Len(t)
        /\ \A k \in 1 .. Len(s) + Len(t) :
               (s \o t)[k] = IF k <= Len(s) THEN s[k] ELSE t[k - Len(s)]
    BY ConcatProperties DEF Passage
  <1> DEFINE j == [k \in 1 .. Len(s) + Len(t) + 1 |->
                      IF k <= Len(s) THEN g[k] ELSE h[k - Len(s)]]
  <1>4. j \in [1 .. Len(s \o t) + 1 -> Held(may)]
    BY <1>1, <1>2, <1>3
  <1>5. j[1] = a /\ j[Len(s \o t) + 1] = c
    BY <1>1, <1>2, <1>3 DEF Course
  <1>6. ASSUME NEW k \in 1 .. Len(s \o t)
        PROVE  Disciplined((s \o t)[k], j[k], j[k + 1])
    <2>1. CASE k < Len(s)
      <3>1. (s \o t)[k] = s[k] /\ j[k] = g[k] /\ j[k + 1] = g[k + 1]
        BY <1>3, <2>1
      <3> QED
        BY <1>1, <1>3, <2>1, <3>1 DEF Course
    <2>2. CASE k = Len(s)
      <3>1. (s \o t)[k] = s[k] /\ j[k] = g[k] /\ j[k + 1] = h[1]
        BY <1>3, <2>2
      <3>2. h[1] = g[k + 1]
        BY <1>1, <1>2, <2>2 DEF Course
      <3> QED
        BY <1>1, <1>3, <2>2, <3>1, <3>2 DEF Course
    <2>3. CASE k > Len(s)
      <3> DEFINE m == k - Len(s)
      <3>1. m \in 1 .. Len(t) /\ (k + 1) - Len(s) = m + 1
        BY <1>3, <2>3
      <3>2. (s \o t)[k] = t[m]
        BY <1>3, <2>3
      <3>3. k + 1 \in 1 .. Len(s) + Len(t) + 1 /\ k \in 1 .. Len(s) + Len(t) + 1
        BY <1>3
      <3>4. j[k] = h[m]
        BY <1>3, <2>3, <3>3
      <3>5. j[k + 1] = h[m + 1]
        BY <1>3, <2>3, <3>1, <3>3
      <3>6. \A n \in 1 .. Len(t) : Disciplined(t[n], h[n], h[n + 1])
        BY <1>2 DEF Course
      <3> HIDE DEF m, j
      <3> QED
        BY <3>1, <3>2, <3>4, <3>5, <3>6
    <2> QED
      BY <1>3, <2>1, <2>2, <2>3
  <1> HIDE DEF j
  <1> QED
    BY <1>3, <1>4, <1>5, <1>6 DEF Passage, Course

\* What is held under a scope, whichever lock it takes.
LEMMA Scope ==
    ASSUME NEW may, NEW a \in Held(may), NEW l \in may.own, l \in Locks, NEW body,
           Below(Rank[l], a), Passage(body, Owning(a, l), Owning(a, l), may)
    PROVE  Passage(Under(l, body), a, a, may)
  <1>1. l \notin a.own \cup a.shared
    BY DEF Below, Rank, Locks
  <1>2. Owning(a, l) \in Held(may) /\ Releasing(Owning(a, l), l) = a
    BY <1>1 DEF Held, Owning, Releasing
  <1>3. Passage(Step("lock", l), a, Owning(a, l), may)
    <2>1. Disciplined([do |-> "lock", lock |-> l], a, Owning(a, l))
      BY <1>1 DEF Disciplined, InOrder
    <2>2. [do |-> "lock", lock |-> l] \in StepKinds
      BY DEF StepKinds
    <2> QED
      BY <1>2, <2>1, <2>2, OneStep DEF Step
  <1>4. Passage(Step("unlock", l), Owning(a, l), a, may)
    <2>1. Disciplined([do |-> "unlock", lock |-> l], Owning(a, l), a)
      BY <1>2 DEF Disciplined
    <2>2. [do |-> "unlock", lock |-> l] \in StepKinds
      BY DEF StepKinds
    <2> QED
      BY <1>2, <2>1, <2>2, OneStep DEF Step
  <1>5. Passage(Step("lock", l) \o body, a, Owning(a, l), may)
    BY <1>3, JoinedPassages
  <1> QED
    BY <1>4, <1>5, JoinedPassages DEF Under

\* A lock that is shared around steps is held before and after them as before.
LEMMA SharedScope ==
    ASSUME NEW may, NEW a \in Held(may), NEW l \in may.shared, l \in Locks, NEW body,
           Below(Rank[l], a), Passage(body, Sharing(a, l), Sharing(a, l), may)
    PROVE  Passage(UnderShared(l, body), a, a, may)
  <1>1. l \notin a.own \cup a.shared
    BY DEF Below, Rank, Locks
  <1>2. Sharing(a, l) \in Held(may) /\ Releasing(Sharing(a, l), l) = a
    BY <1>1 DEF Held, Sharing, Releasing
  <1>3. Passage(Step("share", l), a, Sharing(a, l), may)
    <2>1. Disciplined([do |-> "share", lock |-> l], a, Sharing(a, l))
      BY <1>1 DEF Disciplined, InOrder
    <2>2. [do |-> "share", lock |-> l] \in StepKinds
      BY DEF StepKinds
    <2> QED
      BY <1>2, <2>1, <2>2, OneStep DEF Step
  <1>4. Passage(Step("unlock", l), Sharing(a, l), a, may)
    <2>1. Disciplined([do |-> "unlock", lock |-> l], Sharing(a, l), a)
      BY <1>2 DEF Disciplined
    <2>2. [do |-> "unlock", lock |-> l] \in StepKinds
      BY DEF StepKinds
    <2> QED
      BY <1>2, <2>1, <2>2, OneStep DEF Step
  <1>5. Passage(Step("share", l) \o body, a, Sharing(a, l), may)
    BY <1>3, JoinedPassages
  <1> QED
    BY <1>4, <1>5, JoinedPassages DEF UnderShared

\* A lock that is taken and left at once only has to be in order.
LEMMA Visits ==
    ASSUME NEW may, NEW a \in Held(may), NEW l \in Locks, InOrder(l, a)
    PROVE  Passage(Visit(l), a, a, may) /\ Passage(VisitShared(l), a, a, may)
  <1>1. ASSUME NEW do \in {"visit", "visitShared"} PROVE Passage(Step(do, l), a, a, may)
    <2>1. Disciplined([do |-> do, lock |-> l], a, a)
      BY DEF Disciplined
    <2>2. [do |-> do, lock |-> l] \in StepKinds
      BY DEF StepKinds
    <2> QED
      BY <2>1, <2>2, OneStep DEF Step
  <1> QED
    BY <1>1 DEF Visit, VisitShared

-----------------------------------------------------------------------------
(* What the operations are made of is in order, when what is held already  *)
(* comes before it.                                                        *)

\* What a worker's operation may hold: the locks of a device's wheel and buttons
\* for itself only where it changes the profile.
WorkerMay == [own |-> {"server", "hierarchy", "map", "devices", "state"},
              shared |-> {"wheel", "action"}]
SwitchMay == [own |-> Locks, shared |-> {"wheel", "action"}]
IOMay     == [own |-> {"buttons", "pair"}, shared |-> {}]
MayOf(t, o) == IF t = IO THEN IOMay ELSE IF o = "changeProfile" THEN SwitchMay ELSE WorkerMay

\* Any step may be made where neither the server's lock nor the tree's is held.
LEMMA Parts ==
    ASSUME NEW may \in {WorkerMay, SwitchMay}, NEW a \in Held(may), Below(8, a)
    PROVE  /\ Passage(Transfer, a, a, may) /\ Passage(Announce, a, a, may)
           /\ Passage(Emit, a, a, may) /\ Passage(DropInterface, a, a, may)
           /\ Passage(AddInterface, a, a, may) /\ Passage(DropNode, a, a, may)
  <1>0. /\ {"server", "hierarchy"} \subseteq may.own
        /\ a.own \subseteq Locks /\ a.shared \subseteq Locks
        /\ \A l \in Locks : Rank[l] \in Nat
    BY DEF WorkerMay, SwitchMay, Locks, Held, Rank
  <1>1. InOrder("server", a) /\ InOrder("hierarchy", a)
    BY <1>0 DEF InOrder, Below, Rank
  <1>2. Passage(Visit("server"), a, a, may) /\ Passage(Visit("hierarchy"), a, a, may)
    BY <1>1, Visits DEF Locks
  <1>3. Passage(Transfer, a, a, may)
    <2>1. "server" \notin a.own /\ "hierarchy" \notin a.own
      BY DEF Below, Rank
    <2>2. Disciplined([do |-> "transfer", lock |-> None], a, a)
      BY <2>1 DEF Disciplined
    <2>3. [do |-> "transfer", lock |-> None] \in StepKinds
      BY DEF StepKinds
    <2> QED
      BY <2>2, <2>3, OneStep DEF Transfer, Step
  <1>4. Passage(Emit, a, a, may) /\ Passage(DropInterface, a, a, may)
    BY <1>2, JoinedPassages DEF Emit, DropInterface
  <1>5. Passage(AddInterface, a, a, may)
    <2>1. Below(Rank["server"], a)
      BY DEF Rank
    <2>2. Owning(a, "server") \in Held(may) /\ InOrder("hierarchy", Owning(a, "server"))
      BY <1>0 DEF Owning, InOrder, Below, Rank, Held
    <2>3. Passage(Visit("hierarchy"), Owning(a, "server"), Owning(a, "server"), may)
      BY <2>2, Visits DEF Locks
    <2> QED
      BY <1>0, <2>1, <2>3, Scope DEF AddInterface, Locks
  <1>6. Passage(DropNode, a, a, may)
    <2>1. Below(Rank["hierarchy"], a)
      BY <1>0 DEF Rank, Below
    <2>2. Owning(a, "hierarchy") \in Held(may) /\ InOrder("server", Owning(a, "hierarchy"))
      BY <1>0 DEF Owning, InOrder, Held
    <2>3. Passage(Visit("server"), Owning(a, "hierarchy"), Owning(a, "hierarchy"), may)
      BY <2>2, Visits DEF Locks
    <2> QED
      BY <1>0, <2>1, <2>3, Scope DEF DropNode, Locks
  <1> QED
    BY <1>2, <1>3, <1>4, <1>5, <1>6 DEF Announce

\* A device that is configured takes the locks of its wheel and actions in order.
LEMMA Reconfigures ==
    ASSUME NEW may \in {WorkerMay, SwitchMay}, NEW a \in Held(may), Below(6, a)
    PROVE  Passage(Reconfigure, a, a, may)
  <1>1. /\ {"server", "hierarchy"} \subseteq may.own /\ {"wheel", "action"} \subseteq may.shared
        /\ may.own \cup may.shared \subseteq Locks
    BY DEF WorkerMay, SwitchMay, Locks
  <1>2. /\ \A n \in {6, 7, 8} : Below(n, a)
        /\ \A l \in {"wheel", "action"} : Sharing(a, l) \in Held(may) /\ Below(8, Sharing(a, l))
    BY <1>1 DEF Below, Held, Sharing, Rank, Locks
  <1>3. Passage(Transfer, a, a, may)
    BY <1>1, <1>2, Parts
  <1>4. ASSUME NEW l \in {"wheel", "action"}
        PROVE  Passage(UnderShared(l, Transfer), a, a, may)
    <2>1. Below(Rank[l], a)
      BY <1>2 DEF Rank
    <2>2. Passage(Transfer, Sharing(a, l), Sharing(a, l), may)
      BY <1>1, <1>2, Parts
    <2> QED
      BY <1>1, <2>1, <2>2, SharedScope DEF Locks
  <1> QED
    BY <1>3, <1>4, JoinedPassages DEF Reconfigure, ConfigureWheel, ConfigureButtons

\* Under a lock, what comes after it may be taken.
LEMMA Deeper ==
    ASSUME NEW may \in {WorkerMay, SwitchMay}, NEW a \in Held(may), NEW l \in may.own,
           Below(Rank[l], a)
    PROVE  /\ Owning(a, l) \in Held(may)
           /\ \A n \in Nat : Rank[l] < n => Below(n, Owning(a, l)) /\ Below(n, a)
  <1>1. /\ l \in Locks /\ a.own \subseteq Locks /\ a.shared \subseteq Locks
        /\ \A m \in Locks : Rank[m] \in Nat
    BY DEF WorkerMay, SwitchMay, Locks, Held, Rank
  <1>2. Owning(a, l) \in Held(may)
    BY DEF Held, Owning
  <1> QED
    BY <1>1, <1>2 DEF Below, Owning

\* So does a button or gesture that is given a new action.
LEMMA NewActions ==
    ASSUME NEW may \in {WorkerMay, SwitchMay}, NEW a \in Held(may), Below(8, a)
    PROVE  Passage(NewAction, a, a, may)
  BY Parts, JoinedPassages DEF NewAction

\* The operations on a device that do not change its profile.
LEMMA DeviceOperations ==
    ASSUME NEW a \in Held(WorkerMay), Below(4, a)
    PROVE  /\ Passage(Wakeup, a, a, WorkerMay) /\ Passage(Sleep, a, a, WorkerMay)
           /\ Passage(SetBattery, a, a, WorkerMay)
  <1>1. /\ "state" \in WorkerMay.own /\ "state" \in Locks /\ Rank["state"] = 4
    BY DEF WorkerMay, Locks, Rank
  <1> DEFINE b == Owning(a, "state")
  <1>2. b \in Held(WorkerMay) /\ Below(6, b) /\ Below(8, b)
    BY <1>1, Deeper
  <1>3. Passage(Reconfigure, b, b, WorkerMay) /\ Passage(Emit, b, b, WorkerMay)
    BY <1>2, Reconfigures, Parts
  <1>4. Passage(Reconfigure \o Emit, b, b, WorkerMay)
    BY <1>3, JoinedPassages
  <1> QED
    BY <1>1, <1>3, <1>4, Scope DEF Wakeup, Sleep, SetBattery

\* Devices that come and go.
LEMMA DeviceLives ==
    ASSUME NEW a \in Held(WorkerMay), Below(2, a)
    PROVE  /\ Passage(AddDevice, a, a, WorkerMay) /\ Passage(RemoveDevice, a, a, WorkerMay)
  <1>1. "map" \in WorkerMay.own /\ "map" \in Locks /\ Rank["map"] = 2
    BY DEF WorkerMay, Locks, Rank
  <1> DEFINE b == Owning(a, "map")
  <1>2. b \in Held(WorkerMay) /\ Below(8, b) /\ Below(8, a)
    BY <1>1, Deeper
  <1>3. Passage(MakeDevice, a, a, WorkerMay)
    BY <1>2, Parts, JoinedPassages DEF MakeDevice
  <1>4. Passage(Announce, b, b, WorkerMay) /\ Passage(DropDevice, b, b, WorkerMay)
    BY <1>2, Parts, JoinedPassages DEF DropDevice
  <1>5. Passage(Announce \o DropDevice, b, b, WorkerMay)
    BY <1>4, JoinedPassages
  <1>6. Passage(Under("map", Announce), a, a, WorkerMay)
    BY <1>1, <1>4, Scope
  <1>7. Passage(Under("map", Announce \o DropDevice), a, a, WorkerMay)
    BY <1>1, <1>5, Scope
  <1> QED
    BY <1>3, <1>6, <1>7, JoinedPassages DEF AddDevice, RemoveDevice

\* The operations of a receiver hold its devices while they work on one.
LEMMA ReceiverOperations ==
    /\ Passage(ReceiverAdds, NoLocks, NoLocks, WorkerMay)
    /\ Passage(ReceiverWakes, NoLocks, NoLocks, WorkerMay)
    /\ Passage(ReceiverSleeps, NoLocks, NoLocks, WorkerMay)
    /\ Passage(ReceiverRemoves, NoLocks, NoLocks, WorkerMay)
  <1>1. "devices" \in WorkerMay.own /\ "devices" \in Locks /\ Rank["devices"] = 1
    BY DEF WorkerMay, Locks, Rank
  <1>2. NoLocks \in Held(WorkerMay) /\ Below(1, NoLocks)
    BY DEF Held, NoLocks, Below
  <1> DEFINE a == Owning(NoLocks, "devices")
  <1>3. a \in Held(WorkerMay) /\ Below(2, a) /\ Below(4, a)
    BY <1>1, <1>2, Deeper
  <1>4. /\ Passage(Wakeup, a, a, WorkerMay) /\ Passage(Sleep, a, a, WorkerMay)
        /\ Passage(AddDevice, a, a, WorkerMay) /\ Passage(RemoveDevice, a, a, WorkerMay)
    BY <1>3, DeviceOperations, DeviceLives
  <1> HIDE DEF a
  <1> QED
    BY <1>1, <1>2, <1>4, Scope
    DEF ReceiverAdds, ReceiverWakes, ReceiverSleeps, ReceiverRemoves, AddDevice, RemoveDevice, a

\* The change of a profile.
LEMMA ProfileChanges ==
    Passage(SetProfile, NoLocks, NoLocks, SwitchMay)
  <1>1. /\ \A l \in Locks : l \in SwitchMay.own
        /\ {"profile", "wheel", "buttons", "action"} \subseteq Locks
        /\ Rank["profile"] = 3 /\ Rank["wheel"] = 7 /\ Rank["buttons"] = 5 /\ Rank["action"] = 6
    BY DEF SwitchMay, Locks, Rank
  <1>2. NoLocks \in Held(SwitchMay) /\ Below(3, NoLocks)
    BY DEF Held, NoLocks, Below
  <1> DEFINE a == Owning(NoLocks, "profile")
             b == Owning(a, "wheel")
             c == Owning(a, "buttons")
             d == Owning(c, "action")
  <1>3. a \in Held(SwitchMay) /\ Below(5, a) /\ Below(6, a) /\ Below(7, a)
    BY <1>1, <1>2, Deeper
  <1>4. b \in Held(SwitchMay) /\ Below(8, b)
    BY <1>1, <1>3, Deeper
  <1>5. c \in Held(SwitchMay) /\ Below(6, c)
    BY <1>1, <1>3, Deeper
  <1>6. d \in Held(SwitchMay) /\ Below(8, d)
    BY <1>1, <1>5, Deeper
  <1>7. Passage(WheelSetProfile, a, a, SwitchMay)
    <2>1. Passage(DropNode \o AddInterface \o Transfer, b, b, SwitchMay)
      BY <1>4, Parts, JoinedPassages
    <2> QED
      BY <1>1, <1>3, <2>1, Scope DEF WheelSetProfile
  <1>8. Passage(ButtonsSetProfile, a, a, SwitchMay)
    <2>1. Passage(Under("action", NewAction), c, c, SwitchMay)
      BY <1>1, <1>5, <1>6, NewActions, Scope
    <2> QED
      BY <1>1, <1>3, <2>1, Scope DEF ButtonsSetProfile
  <1>9. Passage(Reconfigure, a, a, SwitchMay)
    BY <1>3, Reconfigures
  <1>10. Passage(WheelSetProfile \o ButtonsSetProfile \o Reconfigure, a, a, SwitchMay)
    BY <1>7, <1>8, <1>9, JoinedPassages
  <1> HIDE DEF a
  <1> QED
    BY <1>1, <1>2, <1>10, Scope DEF SetProfile, a

\* The reports.
LEMMA ReportsInOrder ==
    /\ Passage(ButtonEvent, NoLocks, NoLocks, IOMay) /\ Passage(HandleScroll, NoLocks, NoLocks, IOMay)
    /\ Passage(PairReady, NoLocks, NoLocks, IOMay)
  <1>1. NoLocks \in Held(IOMay) /\ \A l \in Locks : Below(Rank[l], NoLocks) /\ InOrder(l, NoLocks)
    BY DEF Held, NoLocks, Below, InOrder
  <1>2. /\ Owning(NoLocks, "buttons") \in Held(IOMay) /\ InOrder("action", Owning(NoLocks, "buttons"))
        /\ Owning(NoLocks, "pair") \in Held(IOMay) /\ InOrder("server", Owning(NoLocks, "pair"))
    BY DEF Held, IOMay, Owning, NoLocks, InOrder, Below, Rank
  <1>3. /\ Passage(VisitShared("action"), Owning(NoLocks, "buttons"), Owning(NoLocks, "buttons"), IOMay)
        /\ Passage(Visit("server"), Owning(NoLocks, "pair"), Owning(NoLocks, "pair"), IOMay)
        /\ Passage(VisitShared("wheel"), NoLocks, NoLocks, IOMay)
    BY <1>1, <1>2, Visits DEF Locks
  <1>4. {"buttons", "pair"} \subseteq IOMay.own /\ {"buttons", "pair"} \subseteq Locks
    BY DEF IOMay, Locks
  <1> QED
    BY <1>1, <1>3, <1>4, Scope DEF ButtonEvent, HandleScroll, PairReady, Announce

\* Every operation but those of the bus.
LEMMA OperationsInOrder ==
    ASSUME NEW t \in {IO} \cup Workers, NEW o \in DOMAIN OpsOf(t)
    PROVE  Passage(OpsOf(t)[o], NoLocks, NoLocks, MayOf(t, o))
  <1>1. CASE t = IO
    <2>1. OpsOf(t) = IOOps
      BY <1>1, ThreadsAssumption DEF OpsOf
    <2>2. o \in {"buttonEvent", "wheelEvent", "pairReady"} /\ MayOf(t, o) = IOMay
      BY <1>1, <2>1 DEF IOOps, MayOf
    <2> QED
      BY <2>1, <2>2, ReportsInOrder DEF IOOps
  <1>2. CASE t \in Workers
    <2>1. OpsOf(t) = WorkerOps /\ t # IO
      BY <1>2, ThreadsAssumption DEF OpsOf
    <2>2. CASE o = "changeProfile"
      BY <2>1, <2>2, ProfileChanges DEF WorkerOps, MayOf
    <2>3. CASE o # "changeProfile"
      <3>1. MayOf(t, o) = WorkerMay
        BY <2>1, <2>3 DEF MayOf
      <3>2. NoLocks \in Held(WorkerMay) /\ Below(2, NoLocks) /\ Below(4, NoLocks)
        BY DEF Held, NoLocks, Below
      <3>3. /\ Passage(AddDevice, NoLocks, NoLocks, WorkerMay)
            /\ Passage(RemoveDevice, NoLocks, NoLocks, WorkerMay)
            /\ Passage(SetBattery, NoLocks, NoLocks, WorkerMay)
        BY <3>2, DeviceLives, DeviceOperations
      <3>4. o \in {"addDevice", "removeDevice", "receiverAdds", "receiverWakes",
                   "receiverSleeps", "receiverRemoves", "setBattery"}
        BY <2>1, <2>3 DEF WorkerOps
      <3> QED
        BY <2>1, <3>1, <3>3, <3>4, ReceiverOperations DEF WorkerOps
    <2> QED
      BY <2>2, <2>3
  <1> QED
    BY <1>1, <1>2

-----------------------------------------------------------------------------
(* What the threads hold                                                   *)

\* The threads whose operations are in order; the dispatcher's are not.
Others == {IO} \cup Workers

\* What thread t holds.
Has(t) == [own    |-> {l \in Locks : owner[l] = t},
           shared |-> {l \in Locks : t \in readers[l]}]

\* A thread holds what its operation has taken so far.
Keeps(t) ==
    IF op[t] = None THEN Has(t) = NoLocks /\ pos[t] = 1
    ELSE /\ op[t] \in DOMAIN OpsOf(t)
         /\ \E h \in [1 .. Len(OpsOf(t)[op[t]]) + 1 -> Held(MayOf(t, op[t]))] :
                /\ Course(OpsOf(t)[op[t]], h, NoLocks, NoLocks)
                /\ pos[t] \in 1 .. Len(OpsOf(t)[op[t]]) + 1
                /\ h[pos[t]] = Has(t)

\* Nobody but the dispatcher takes a lock twice.
Depths ==
    /\ owner \in [Locks -> Threads \cup {None}]
    /\ depth \in [Locks -> Nat]
    /\ readers \in [Locks -> SUBSET Threads]
    /\ \A l \in Locks : /\ depth[l] = 0 <=> owner[l] = None
                        /\ owner[l] \in Others => depth[l] = 1

\* Every thread is somewhere.
Places == DOMAIN op = Threads /\ DOMAIN pos = Threads

\* The inductive invariant.
LockInv == Depths /\ Places /\ \A t \in Others : Keeps(t)

\* Before the first operation nothing is held.
LEMMA LocksInitially == Init => LockInv
  <1> SUFFICES ASSUME Init PROVE LockInv
    OBVIOUS
  <1>1. Depths /\ Places
    BY ThreadsAssumption DEF Init, Depths, Places, Others, Threads
  <1>2. ASSUME NEW t \in Others PROVE Keeps(t)
    BY ThreadsAssumption DEF Init, Keeps, Others, Threads, Has, NoLocks
  <1> QED
    BY <1>1, <1>2 DEF LockInv

\* Lengths are numbers, and where a thread is midway there is a step.
LEMMA Lengths ==
    ASSUME NEW t \in Others, NEW o \in DOMAIN OpsOf(t)
    PROVE  Len(OpsOf(t)[o]) \in Nat /\ OpsOf(t)[o] \in Seq(StepKinds)
  BY OperationsInOrder DEF Others, Passage

\* What t has at its place, before the step and after it.
LEMMA Midways ==
    ASSUME LockInv, NEW t \in Others, Midway(t)
    PROVE  /\ Here(t) \in StepKinds
           /\ \E b \in Held(MayOf(t, op[t])) : Disciplined(Here(t), Has(t), b)
           /\ Has(t) \in Held(MayOf(t, op[t]))
  <1>1. op[t] # None /\ op[t] \in DOMAIN OpsOf(t) /\ Keeps(t)
    BY DEF LockInv, Keeps, Midway
  <1> DEFINE s == OpsOf(t)[op[t]]
  <1>2. s \in Seq(StepKinds) /\ Len(s) \in Nat
    BY <1>1, Lengths
  <1>3. PICK h \in [1 .. Len(s) + 1 -> Held(MayOf(t, op[t]))] :
            Course(s, h, NoLocks, NoLocks) /\ pos[t] \in 1 .. Len(s) + 1 /\ h[pos[t]] = Has(t)
    BY <1>1 DEF Keeps
  <1>4. pos[t] \in 1 .. Len(s) /\ Here(t) = s[pos[t]]
    BY <1>2, <1>3 DEF Midway, Here
  <1>5. Disciplined(s[pos[t]], h[pos[t]], h[pos[t] + 1])
    BY <1>3, <1>4 DEF Course
  <1>6. s[pos[t]] \in StepKinds
    BY <1>2, <1>4
  <1>7. pos[t] + 1 \in 1 .. Len(s) + 1
    BY <1>2, <1>4
  <1>8. h[pos[t]] \in Held(MayOf(t, op[t])) /\ h[pos[t] + 1] \in Held(MayOf(t, op[t]))
    BY <1>3, <1>7
  <1> HIDE DEF s
  <1> QED
    BY <1>3, <1>4, <1>5, <1>6, <1>8

\* A thread that has made its step keeps to its operation, if it has now what the
\* step leaves it.
LEMMA Proceeding ==
    ASSUME LockInv, NEW t \in Others, Midway(t), Proceed(t),
           \A b \in Held(MayOf(t, op[t])) : Disciplined(Here(t), Has(t), b) => b = Has(t)'
    PROVE  Keeps(t)'
  <1>1. op[t] # None /\ op[t] \in DOMAIN OpsOf(t) /\ Keeps(t) /\ t \in DOMAIN pos
    BY DEF LockInv, Keeps, Midway, Places, Others, Threads
  <1> DEFINE s == OpsOf(t)[op[t]]
  <1>2. s \in Seq(StepKinds) /\ Len(s) \in Nat
    BY <1>1, Lengths
  <1>3. PICK h \in [1 .. Len(s) + 1 -> Held(MayOf(t, op[t]))] :
            Course(s, h, NoLocks, NoLocks) /\ pos[t] \in 1 .. Len(s) + 1 /\ h[pos[t]] = Has(t)
    BY <1>1 DEF Keeps
  <1>4. pos[t] \in 1 .. Len(s) /\ Here(t) = s[pos[t]] /\ op' = op /\ pos'[t] = pos[t] + 1
    BY <1>1, <1>2, <1>3 DEF Midway, Here, Proceed
  <1>5. pos'[t] \in 1 .. Len(s) + 1
    BY <1>2, <1>4
  <1>6. h[pos'[t]] = Has(t)'
    BY <1>2, <1>3, <1>4, <1>5 DEF Course
  <1>7. OpsOf(t)' = OpsOf(t) /\ MayOf(t, op[t])' = MayOf(t, op[t])
    BY <1>4 DEF OpsOf, MayOf
  <1> HIDE DEF s
  <1>8. /\ op'[t] # None /\ op'[t] \in DOMAIN OpsOf(t)
        /\ \E g \in [1 .. Len(s) + 1 -> Held(MayOf(t, op[t]))] :
               /\ Course(s, g, NoLocks, NoLocks)
               /\ pos'[t] \in 1 .. Len(s) + 1 /\ g[pos'[t]] = Has(t)'
    BY <1>1, <1>3, <1>4, <1>5, <1>6
  <1> QED
    BY <1>4, <1>7, <1>8 DEF Keeps, s

\* The threads that do not move.
LEMMA Resting ==
    ASSUME LockInv, NEW u \in Others, Has(u)' = Has(u), op'[u] = op[u], pos'[u] = pos[u]
    PROVE  Keeps(u)'
  <1>1. Keeps(u)
    BY DEF LockInv
  <1>2. OpsOf(u)' = OpsOf(u) /\ MayOf(u, op[u])' = MayOf(u, op[u])
    BY DEF OpsOf, MayOf
  <1> QED
    BY <1>1, <1>2 DEF Keeps

\* What a step does to the locks, as far as those of one thread.
LEMMA LocksMoved ==
    ASSUME LockInv, NEW t \in Threads, Lock(t) \/ Share(t) \/ LockAndUnlock(t) \/ Unlock(t)
                                       \/ TransferEnds(t) \/ PromptEnds(t)
    PROVE  /\ Depths' /\ Places' /\ \A u \in Others \ {t} : Has(u)' = Has(u)
           /\ t \in Others => \A b \in Held(MayOf(t, op[t])) :
                                  Disciplined(Here(t), Has(t), b) => b = Has(t)'
  <1> DEFINE l == Here(t).lock
  <1>1. Places'
    BY DEF LockInv, Places, Lock, Share, LockAndUnlock, Unlock, TransferEnds, PromptEnds, Proceed
  <1>2. Threads \cup {None} = Others \cup {Bus, None} /\ t # None /\ None \notin Others
        /\ Bus \notin Others /\ Bus # None
    BY ThreadsAssumption DEF Others, Threads
  <1>3. Depths
    BY DEF LockInv
  <1>4. CASE Lock(t)
    <2>1. /\ owner' = [owner EXCEPT ![l] = t] /\ depth' = [depth EXCEPT ![l] = @ + 1]
          /\ readers' = readers /\ Here(t).do = "lock" /\ Free(l, t)
      BY <1>4 DEF Lock, Does
    <2>2. t \in Others => /\ Midway(t) /\ Here(t) \in StepKinds
                          /\ \E b \in Held(MayOf(t, op[t])) : Disciplined(Here(t), Has(t), b)
      BY <1>4, Midways DEF Lock, Does
    <2>3. t \in Others => l \in Locks /\ owner[l] # t
      BY <2>1, <2>2 DEF Disciplined, Has
    <2>4. l \in Locks => owner[l] \in {None, t}
      BY <2>1 DEF Free
    <2> HIDE DEF l
    <2>a. /\ owner' = [m \in Locks |-> IF m = l THEN t ELSE owner[m]]
          /\ depth' = [m \in Locks |-> IF m = l THEN depth[m] + 1 ELSE depth[m]]
      BY <1>3, <2>1 DEF Depths
    <2>b. t \in Others => l \in Locks /\ owner[l] = None /\ depth[l] = 0
      BY <1>3, <2>3, <2>4 DEF Depths
    <2>5. Depths'
      <3>1. owner' \in [Locks -> Threads \cup {None}] /\ depth' \in [Locks -> Nat]
        BY <1>3, <2>a DEF Depths
      <3>2. ASSUME NEW m \in Locks
            PROVE  /\ depth'[m] = 0 <=> owner'[m] = None
                   /\ owner'[m] \in Others => depth'[m] = 1
        <4>1. CASE m = l
          BY <1>2, <1>3, <2>a, <2>b, <4>1 DEF Depths
        <4>2. CASE m # l
          BY <1>3, <2>a, <4>2 DEF Depths
        <4> QED
          BY <4>1, <4>2
      <3> QED
        BY <1>3, <2>1, <3>1, <3>2 DEF Depths
    <2>6. ASSUME NEW u \in Others \ {t} PROVE Has(u)' = Has(u)
      <3>1. \A m \in Locks : (owner'[m] = u) <=> (owner[m] = u)
        BY <1>2, <2>a, <2>4
      <3> QED
        BY <2>1, <3>1 DEF Has
    <2>7. t \in Others => \A b \in Held(MayOf(t, op[t])) :
                              Disciplined(Here(t), Has(t), b) => b = Has(t)'
      BY <1>3, <2>1, <2>3 DEF Has, Disciplined, Owning, Depths, l
    <2> QED
      BY <1>1, <2>5, <2>6, <2>7
  <1>5. CASE Share(t)
    <2>1. /\ owner' = owner /\ depth' = depth /\ Here(t).do = "share"
          /\ readers' = [readers EXCEPT ![l] = @ \cup {t}]
      BY <1>5 DEF Share, Does
    <2>2. Depths'
      BY <1>3, <2>1 DEF Depths
    <2>3. \A u \in Others \ {t} : Has(u)' = Has(u)
      BY <1>3, <2>1 DEF Has, Depths
    <2>4. t \in Others => \A b \in Held(MayOf(t, op[t])) :
                              Disciplined(Here(t), Has(t), b) => b = Has(t)'
      BY <1>3, <2>1 DEF Has, Disciplined, Sharing, Depths
    <2> QED
      BY <1>1, <2>2, <2>3, <2>4
  <1>6. CASE LockAndUnlock(t) \/ TransferEnds(t) \/ PromptEnds(t)
    <2>1. /\ owner' = owner /\ depth' = depth /\ readers' = readers
          /\ Here(t).do \in {"visit", "visitShared", "transfer", "prompt"}
      BY <1>6 DEF LockAndUnlock, TransferEnds, PromptEnds, Does, locks
    <2>2. Depths' /\ \A u \in Others : Has(u)' = Has(u)
      BY <1>3, <2>1 DEF Depths, Has
    <2>3. t \in Others => \A b \in Held(MayOf(t, op[t])) :
                              Disciplined(Here(t), Has(t), b) => b = Has(t)'
      BY <2>1, <2>2 DEF Disciplined
    <2> QED
      BY <1>1, <2>2, <2>3
  <1>7. CASE Unlock(t)
    <2>1. /\ readers' = [readers EXCEPT ![l] = @ \ {t}] /\ Here(t).do = "unlock"
          /\ depth' = [depth EXCEPT ![l] = IF owner[l] = t THEN @ - 1 ELSE @]
          /\ owner' = [owner EXCEPT ![l] = IF @ = t /\ depth[l] = 1 THEN None ELSE @]
      BY <1>7 DEF Unlock, GiveBack, Does
    <2> HIDE DEF l
    <2>a. /\ owner' = [m \in Locks |-> IF m = l /\ owner[m] = t /\ depth[m] = 1
                                      THEN None ELSE owner[m]]
          /\ depth' = [m \in Locks |-> IF m = l /\ owner[m] = t THEN depth[m] - 1 ELSE depth[m]]
          /\ readers' = [m \in Locks |-> IF m = l THEN readers[m] \ {t} ELSE readers[m]]
      BY <1>3, <2>1 DEF Depths
    <2>2. Depths'
      <3>1. ASSUME NEW m \in Locks
            PROVE  /\ depth'[m] \in Nat /\ owner'[m] \in Threads \cup {None}
                   /\ depth'[m] = 0 <=> owner'[m] = None
                   /\ owner'[m] \in Others => depth'[m] = 1
        BY <1>2, <1>3, <2>a DEF Depths
      <3>2. readers' \in [Locks -> SUBSET Threads]
        BY <1>3, <2>a DEF Depths
      <3> QED
        BY <2>a, <3>1, <3>2 DEF Depths
    <2>3. ASSUME NEW u \in Others \ {t} PROVE Has(u)' = Has(u)
      <3>1. \A m \in Locks : ((owner'[m] = u) <=> (owner[m] = u))
                             /\ ((u \in readers'[m]) <=> (u \in readers[m]))
        BY <1>2, <1>3, <2>a
      <3> QED
        BY <3>1 DEF Has
    <2>4. t \in Others => \A b \in Held(MayOf(t, op[t])) :
                              Disciplined(Here(t), Has(t), b) => b = Has(t)'
      <3>1. ASSUME t \in Others, l \in Locks
            PROVE  Has(t)' = Releasing(Has(t), l)
        <4>1. \A m \in Locks : /\ (owner'[m] = t) <=> (owner[m] = t /\ m # l)
                               /\ (t \in readers'[m]) <=> (t \in readers[m] /\ m # l)
          BY <1>2, <1>3, <2>a, <3>1 DEF Depths
        <4> QED
          BY <4>1 DEF Has, Releasing
      <3> QED
        BY <2>1, <3>1 DEF Disciplined, l
    <2> QED
      BY <1>1, <2>2, <2>3, <2>4
  <1> QED
    BY <1>4, <1>5, <1>6, <1>7

\* An operation that begins holds nothing.
LEMMA StartingOperation ==
    ASSUME LockInv, NEW t \in Threads, NEW o \in DOMAIN OpsOf(t), Start(t, o)
    PROVE  LockInv'
  <1>1. Depths' /\ Places' /\ \A u \in Others : Has(u)' = Has(u)
    BY DEF LockInv, Depths, Places, Start, Has, locks
  <1>2. \A u \in Others \ {t} : op'[u] = op[u] /\ pos'[u] = pos[u]
    BY DEF Start, LockInv, Places, Others, Threads
  <1>3. ASSUME t \in Others PROVE Keeps(t)'
    <2>1. op'[t] = o /\ pos'[t] = pos[t] /\ Has(t)' = NoLocks /\ op[t] = None
      BY <1>1, <1>3 DEF Start, LockInv, Places, Keeps
    <2>2. OpsOf(t)' = OpsOf(t) /\ MayOf(t, o)' = MayOf(t, o)
      BY DEF OpsOf, MayOf
    <2>3. PICK h \in [1 .. Len(OpsOf(t)[o]) + 1 -> Held(MayOf(t, o))] :
              Course(OpsOf(t)[o], h, NoLocks, NoLocks)
      BY <1>3, OperationsInOrder DEF Passage, Others
    <2>4. pos[t] = 1
      BY <1>3, <2>1 DEF LockInv, Keeps
    <2>5. Len(OpsOf(t)[o]) \in Nat
      BY <1>3, Lengths
    <2> QED
      BY <2>1, <2>2, <2>3, <2>4, <2>5 DEF Keeps, Course
  <1>4. ASSUME NEW u \in Others PROVE Keeps(u)'
    BY <1>1, <1>2, <1>3, <1>4, Resting
  <1> QED
    BY <1>1, <1>4 DEF LockInv

\* An operation that ends, or that a failed transfer ends, leaves nothing held.
LEMMA Ending ==
    ASSUME LockInv, NEW t \in Threads, Unwind(t) \/ Finish(t)
    PROVE  LockInv'
  <1>1. Bus \notin Others /\ None \notin Others /\ t # None
    BY ThreadsAssumption DEF Others, Threads
  <1>2. Depths /\ Places
    BY DEF LockInv
  <1>3. /\ op' = [op EXCEPT ![t] = None] /\ pos' = [pos EXCEPT ![t] = 1]
    BY DEF Unwind, Finish
  <1>4. Places' /\ \A u \in Others \ {t} : op'[u] = op[u] /\ pos'[u] = pos[u]
    BY <1>2, <1>3 DEF Places, Others, Threads
  <1>5. CASE Unwind(t)
    <2>1. /\ owner' = [l \in Locks |-> IF owner[l] = t THEN None ELSE owner[l]]
          /\ depth' = [l \in Locks |-> IF owner[l] = t THEN 0 ELSE depth[l]]
          /\ readers' = [l \in Locks |-> readers[l] \ {t}]
      BY <1>5 DEF Unwind
    <2>2. Depths'
      BY <1>1, <1>2, <2>1 DEF Depths
    <2>3. \A u \in Others \ {t} : Has(u)' = Has(u)
      BY <1>1, <1>2, <2>1 DEF Depths, Has
    <2>4. Has(t)' = NoLocks
      BY <1>1, <1>2, <2>1 DEF Depths, Has, NoLocks
    <2>5. t \in Others => Keeps(t)'
      BY <1>2, <1>3, <2>4 DEF Keeps, Places
    <2>6. ASSUME NEW u \in Others PROVE Keeps(u)'
      BY <1>4, <2>3, <2>5, <2>6, Resting
    <2> QED
      BY <1>4, <2>2, <2>6 DEF LockInv
  <1>6. CASE Finish(t)
    <2>1. owner' = owner /\ depth' = depth /\ readers' = readers /\ op[t] # None /\ ~Midway(t)
      BY <1>6 DEF Finish, locks
    <2>2. Depths' /\ \A u \in Others : Has(u)' = Has(u)
      BY <1>2, <2>1 DEF Depths, Has
    <2>3. ASSUME t \in Others PROVE Keeps(t)'
      <3>1. op[t] \in DOMAIN OpsOf(t) /\ Keeps(t)
        BY <2>1, <2>3 DEF LockInv, Keeps
      <3>2. Len(OpsOf(t)[op[t]]) \in Nat
        BY <2>3, <3>1, Lengths
      <3>3. Has(t) = NoLocks
        BY <2>1, <3>1, <3>2 DEF Keeps, Course, Midway
      <3> QED
        BY <1>2, <1>3, <2>2, <2>3, <3>3 DEF Keeps, Places
    <2>4. ASSUME NEW u \in Others PROVE Keeps(u)'
      BY <1>4, <2>2, <2>3, <2>4, Resting
    <2> QED
      BY <1>4, <2>2, <2>4 DEF LockInv
  <1> QED
    BY <1>5, <1>6

\* Every step keeps LockInv.
LEMMA LockStep == LockInv /\ [Next]_vars => LockInv'
  <1> SUFFICES ASSUME LockInv, [Next]_vars PROVE LockInv'
    OBVIOUS
  <1>1. ASSUME NEW t \in Threads,
               Lock(t) \/ Share(t) \/ LockAndUnlock(t) \/ Unlock(t) \/ TransferEnds(t) \/ PromptEnds(t)
        PROVE  LockInv'
    <2>1. Midway(t) /\ Proceed(t)
      BY <1>1 DEF Lock, Share, LockAndUnlock, Unlock, TransferEnds, PromptEnds, Does
    <2>2. /\ Depths' /\ Places' /\ \A u \in Others \ {t} : Has(u)' = Has(u)
          /\ t \in Others => \A b \in Held(MayOf(t, op[t])) :
                                 Disciplined(Here(t), Has(t), b) => b = Has(t)'
      BY <1>1, LocksMoved
    <2>3. t \in Others => Keeps(t)'
      BY <2>1, <2>2, Proceeding
    <2>4. \A u \in Others \ {t} : op'[u] = op[u] /\ pos'[u] = pos[u]
      BY <2>1 DEF Proceed, LockInv, Places, Others, Threads
    <2>5. ASSUME NEW u \in Others PROVE Keeps(u)'
      BY <2>2, <2>3, <2>4, <2>5, Resting
    <2> QED
      BY <2>2, <2>5 DEF LockInv
  <1>2. CASE UNCHANGED vars
    <2>1. Depths' /\ Places' /\ \A u \in Others : Has(u)' = Has(u) /\ op'[u] = op[u] /\ pos'[u] = pos[u]
      BY <1>2 DEF vars, locks, LockInv, Depths, Places, Has
    <2>2. ASSUME NEW u \in Others PROVE Keeps(u)'
      BY <2>1, <2>2, Resting
    <2> QED
      BY <2>1, <2>2 DEF LockInv
  <1> QED
    BY <1>1, <1>2, StartingOperation, Ending DEF Next, GoesOn

-----------------------------------------------------------------------------
(* Circles of waiting threads                                              *)

\* A thread that waits wants a lock in order, and one of those it waits for,
\* if it is not the dispatcher, holds that lock.
LEMMA Waiting ==
    ASSUME LockInv, NEW t \in Others, NEW u \in WaitsFor(t)
    PROVE  /\ Midway(t) /\ Here(t).lock \in Locks /\ InOrder(Here(t).lock, Has(t))
           /\ u \in Threads /\ Here(t).lock \in Has(u).own \cup Has(u).shared
  <1>1. /\ Midway(t) /\ Here(t).do \in {"lock", "visit", "share", "visitShared"}
        /\ u \in Owners(Here(t).lock) \cup readers[Here(t).lock]
    BY DEF WaitsFor
  <1>2. Here(t).lock \in Locks /\ InOrder(Here(t).lock, Has(t))
    BY <1>1, Midways DEF Disciplined
  <1> QED
    BY <1>1, <1>2 DEF Owners, Has, LockInv, Depths

\* What a thread holds is among the locks, and the lock of the server and that of
\* the tree are never shared.
LEMMA HeldLocks ==
    ASSUME LockInv, NEW t \in Others, op[t] # None
    PROVE  /\ Has(t) \in Held(MayOf(t, op[t]))
           /\ {"server", "hierarchy"} \cap Has(t).shared = {}
           /\ \A l \in Has(t).own \cup Has(t).shared : l \in Locks /\ Rank[l] \in 1 .. 9
  <1>1. op[t] \in DOMAIN OpsOf(t) /\ Keeps(t)
    BY DEF LockInv, Keeps
  <1>2. Has(t) \in Held(MayOf(t, op[t]))
    BY <1>1 DEF Keeps
  <1>3. Has(t).shared \subseteq {"wheel", "action"}
    BY <1>2 DEF Held, MayOf, WorkerMay, SwitchMay, IOMay
  <1>4. \A l \in Locks : Rank[l] \in 1 .. 9
    BY DEF Locks, Rank
  <1> QED
    BY <1>2, <1>3, <1>4 DEF Has

\* A set of threads each of which waits for one of higher rank is empty.
LEMMA NoAscent ==
    ASSUME NEW S, NEW f, \A t \in S : f[t] \in 1 .. 9 /\ \E u \in S : f[t] < f[u]
    PROVE  S = {}
  <1>1. ASSUME NEW n \in 1 .. 9, \A t \in S : f[t] <= n PROVE \A t \in S : f[t] <= n - 1
    BY <1>1
  <1>2. \A t \in S : f[t] <= 9
    OBVIOUS
  <1>3. \A t \in S : f[t] <= 8
    BY <1>1, <1>2
  <1>4. \A t \in S : f[t] <= 7
    BY <1>1, <1>3
  <1>5. \A t \in S : f[t] <= 6
    BY <1>1, <1>4
  <1>6. \A t \in S : f[t] <= 5
    BY <1>1, <1>5
  <1>7. \A t \in S : f[t] <= 4
    BY <1>1, <1>6
  <1>8. \A t \in S : f[t] <= 3
    BY <1>1, <1>7
  <1>9. \A t \in S : f[t] <= 2
    BY <1>1, <1>8
  <1>10. \A t \in S : f[t] <= 1
    BY <1>1, <1>9
  <1>11. \A t \in S : f[t] <= 0
    BY <1>1, <1>10
  <1> QED
    BY <1>11

\* Threads that wait for each other in a circle would ask for locks of ever higher
\* rank: there are finitely many, so one of them takes a node apart.
LEMMA CirclesDispatch == LockInv => DeadlockNeedsDispatch
  <1> SUFFICES ASSUME LockInv,
                      NEW S \in SUBSET (Threads \ {Bus}), Deadlocked(S),
                      \A t \in S : ~TakesNodeApart(t)
               PROVE  FALSE
    BY DEF DeadlockNeedsDispatch
  <1> DEFINE f == [t \in S |-> Rank[Here(t).lock]]
  <1>1. S \subseteq Others /\ S # {} /\ \A t \in S : WaitsFor(t) \cap S # {}
    BY DEF Others, Threads, Deadlocked
  <1>2. ASSUME NEW t \in S
        PROVE  /\ op[t] # None /\ Here(t).lock \in Locks /\ InOrder(Here(t).lock, Has(t))
               /\ \E u \in S : Here(t).lock \in Has(u).own \cup Has(u).shared
                               /\ u \in WaitsFor(t)
    <2>1. PICK u \in S : u \in WaitsFor(t)
      BY <1>1, <1>2
    <2> QED
      BY <1>1, <1>2, <2>1, Waiting DEF Midway
  <1>3. \A l \in Locks : Rank[l] \in 1 .. 9
    BY DEF Locks, Rank
  <1>4. ASSUME NEW t \in S PROVE Below(Rank[Here(t).lock], Has(t))
    <2>1. PICK u \in S : Here(t).lock \in Has(u).own \cup Has(u).shared /\ u \in WaitsFor(t)
      BY <1>2, <1>4
    <2>2. CASE Here(t).lock = "server" /\ "hierarchy" \in Has(t).own
      <3>1. "server" \notin Has(u).shared
        BY <1>1, <1>2, HeldLocks
      <3>2. owner["server"] = u /\ owner["hierarchy"] = t
        BY <2>1, <2>2, <3>1 DEF Has
      <3> QED
        BY <1>4, <2>1, <3>2 DEF TakesNodeApart
    <2> QED
      BY <1>2, <1>4, <2>2 DEF InOrder
  <1>5. ASSUME NEW t \in S PROVE f[t] \in 1 .. 9 /\ \E u \in S : f[t] < f[u]
    <2>1. PICK u \in S : Here(t).lock \in Has(u).own \cup Has(u).shared
      BY <1>2, <1>5
    <2>2. Rank[Here(t).lock] < Rank[Here(u).lock]
      BY <1>4, <2>1 DEF Below
    <2> QED
      BY <1>2, <1>3, <1>5, <2>2
  <1> HIDE DEF f
  <1> QED
    BY <1>1, <1>5, NoAscent

\* The theorem. For any number of workers, threads other than the dispatcher wait
\* for each other in a circle only where one of them takes a node apart.
THEOREM CirclesNeedDispatch == Spec => []DeadlockNeedsDispatch
  <1>1. Init => LockInv
    BY LocksInitially
  <1>2. LockInv /\ [Next]_vars => LockInv'
    BY LockStep
  <1>3. LockInv => DeadlockNeedsDispatch
    BY CirclesDispatch
  <1> QED
    BY <1>1, <1>2, <1>3, PTL DEF Spec

-----------------------------------------------------------------------------
(* The thread that reads the answers                                       *)

\* All that a report asks for.
Asks == {<<"lock", "buttons">>, <<"unlock", "buttons">>, <<"visitShared", "action">>,
         <<"visitShared", "wheel">>, <<"lock", "pair">>, <<"unlock", "pair">>,
         <<"visit", "server">>}
IOSteps == {[do |-> p[1], lock |-> p[2]] : p \in Asks}

\* The operations of the listener consist of these steps.
LEMMA ReportsAsk ==
    ASSUME NEW o \in DOMAIN IOOps
    PROVE  IOOps[o] \in Seq(IOSteps)
  <1>1. ASSUME NEW p \in Asks PROVE Step(p[1], p[2]) \in Seq(IOSteps)
    BY DEF Step, IOSteps
  <1>2. /\ Step("lock", "buttons") \in Seq(IOSteps) /\ Step("unlock", "buttons") \in Seq(IOSteps)
        /\ Step("visitShared", "action") \in Seq(IOSteps)
        /\ Step("visitShared", "wheel") \in Seq(IOSteps)
        /\ Step("lock", "pair") \in Seq(IOSteps) /\ Step("unlock", "pair") \in Seq(IOSteps)
        /\ Step("visit", "server") \in Seq(IOSteps)
    BY <1>1 DEF Asks
  <1>3. \A s, t \in Seq(IOSteps) : s \o t \in Seq(IOSteps)
    BY ConcatProperties
  <1>4. ButtonEvent \in Seq(IOSteps)
    BY <1>2, <1>3 DEF ButtonEvent, Under, VisitShared
  <1>5. HandleScroll \in Seq(IOSteps)
    BY <1>2 DEF HandleScroll, VisitShared
  <1>6. PairReady \in Seq(IOSteps)
    BY <1>2, <1>3 DEF PairReady, Under, Announce, Visit
  <1> HIDE DEF IOSteps
  <1> QED
    BY <1>4, <1>5, <1>6 DEF IOOps

\* Who makes a report wait: the dispatcher, a change of the profile, or a worker
\* that has the lock of the server.
LEMMA ListenerWaits ==
    ASSUME LockInv, NEW u \in WaitsFor(IO)
    PROVE  \/ u = Bus
           \/ u \in Workers /\ (op[u] = "changeProfile" \/ "server" \in Has(u).own)
  <1>1. IO \in Others /\ IO # Bus
    BY ThreadsAssumption DEF Others
  <1>2. /\ Midway(IO) /\ Here(IO).lock \in Locks /\ InOrder(Here(IO).lock, Has(IO))
        /\ u \in Threads /\ Here(IO).lock \in Has(u).own \cup Has(u).shared
    BY <1>1, Waiting
  <1>3. Here(IO) \in IOSteps
    <2>1. OpsOf(IO) = IOOps /\ op[IO] # None /\ op[IO] \in DOMAIN OpsOf(IO) /\ Keeps(IO)
      BY <1>1, <1>2 DEF OpsOf, LockInv, Keeps, Midway
    <2>2. IOOps[op[IO]] \in Seq(IOSteps) /\ Len(IOOps[op[IO]]) \in Nat
      BY <2>1, ReportsAsk
    <2>3. pos[IO] \in 1 .. Len(IOOps[op[IO]])
      BY <1>2, <2>1, <2>2 DEF Keeps, Midway
    <2> QED
      BY <2>1, <2>2, <2>3 DEF Here
  <1>4. \/ Here(IO).lock \in {"buttons", "pair", "server"}
        \/ Here(IO).lock \in {"action", "wheel"} /\ owner[Here(IO).lock] = u
    BY <1>3 DEF IOSteps, Asks, WaitsFor, Owners
  <1>5. u # IO
    <2>1. Has(IO) \in Held(IOMay)
      BY <1>1, <1>2, HeldLocks DEF Midway, MayOf
    <2>2. Has(IO).own \cup Has(IO).shared \subseteq {"buttons", "pair"}
      BY <2>1 DEF Held, IOMay
    <2>3. ~Below(Rank[Here(IO).lock], Has(IO)) \/ u # IO
      BY <1>2 DEF Below, Rank, Locks
    <2> QED
      BY <1>2, <2>2, <2>3 DEF InOrder
  <1>6. ASSUME u \in Workers, op[u] # "changeProfile"
        PROVE  "server" \in Has(u).own
    <2>1. u \in Others /\ u # IO
      BY <1>5, <1>6 DEF Others
    <2>2. op[u] # None
      BY <1>2, <2>1 DEF LockInv, Keeps, NoLocks
    <2>3. Has(u) \in Held(WorkerMay)
      BY <1>6, <2>1, <2>2, HeldLocks DEF MayOf
    <2>4. /\ Has(u).own \subseteq {"server", "hierarchy", "map", "devices", "state"}
          /\ Has(u).shared \subseteq {"wheel", "action"}
      BY <2>3 DEF Held, WorkerMay
    <2>5. owner[Here(IO).lock] = u => Here(IO).lock \in Has(u).own
      BY <1>2 DEF Has
    <2> QED
      BY <1>2, <1>4, <2>4, <2>5
  <1> QED
    BY <1>2, <1>5, <1>6 DEF Threads

\* Whoever the listener waits for, at whatever distance, has the server's lock or
\* the tree's, unless a profile is changed; with these no transfer is made.
LEMMA ListenerFree == LockInv => ListenerStalledOnlyBySwitch
  <1> DEFINE chain == Chain(IO)
             Inside == {u \in Workers : {"server", "hierarchy"} \cap Has(u).own # {}}
             S == chain \cap ({IO} \cup Inside)
  <1> SUFFICES ASSUME LockInv, WaitsFor(IO) # {}, NEW v \in chain, Does(v, "transfer"),
                      Bus \notin chain, \A t \in chain : op[t] # "changeProfile"
               PROVE  FALSE
    BY DEF ListenerStalledOnlyBySwitch
  <1>1. IO \in Others /\ IO # Bus /\ IO \notin Workers
    BY ThreadsAssumption DEF Others
  <1>2. IO \in chain
    BY DEF Chain, Threads
  <1>3. ASSUME NEW t \in chain, NEW u \in WaitsFor(t), t \in Others PROVE u \in chain
    <2>1. u \in Threads
      BY <1>3, Waiting
    <2> QED
      BY <1>3, <2>1 DEF Chain
  <1>4. ASSUME NEW t \in S, NEW u \in WaitsFor(t) PROVE u \in S
    <2>1. t \in Others /\ u \in chain
      BY <1>1, <1>3, <1>4 DEF Others
    <2>2. CASE t = IO
      BY <1>4, <2>1, <2>2, ListenerWaits
    <2>3. CASE t \in Inside
      <3>1. /\ Here(t).lock \in Locks /\ InOrder(Here(t).lock, Has(t))
            /\ u \in Threads /\ Here(t).lock \in Has(u).own \cup Has(u).shared
        BY <1>4, <2>1, Waiting
      <3>2. Here(t).lock \in {"server", "hierarchy"}
        BY <2>3, <3>1 DEF InOrder, Below, Rank, Locks
      <3>3. CASE u = Bus
        BY <2>1, <3>3
      <3>4. CASE u \in Others
        <4>1. op[u] # None
          BY <3>1, <3>4 DEF LockInv, Keeps, NoLocks
        <4>2. Here(t).lock \in Has(u).own
          BY <3>1, <3>2, <3>4, <4>1, HeldLocks
        <4> QED
          BY <2>1, <3>2, <3>4, <4>2 DEF Others
      <3> QED
        BY <3>1, <3>3, <3>4 DEF Threads, Others
    <2> QED
      BY <1>4, <2>2, <2>3
  <1>5. v \in S
    <2>1. S \in SUBSET Threads /\ IO \in S /\ \A t \in S : WaitsFor(t) \subseteq S
      BY <1>2, <1>4 DEF Chain
    <2> HIDE DEF S
    <2> QED
      BY <2>1 DEF Chain
  <1>6. CASE v = IO
    BY <1>6 DEF WaitsFor, Does
  <1>7. CASE v \in Inside
    <2>1. v \in Others /\ Midway(v) /\ Here(v).do = "transfer"
      BY <1>7 DEF Does, Others
    <2>2. {"server", "hierarchy"} \cap Has(v).own = {}
      BY <2>1, Midways DEF Disciplined
    <2> QED
      BY <1>7, <2>2
  <1> QED
    BY <1>5, <1>6, <1>7

\* The theorem. For any number of workers, the I/O thread is kept from reading an
\* answer by the one who waits for it only in a change of the profile or a call
\* from the bus.
THEOREM ListenerReads == Spec => []ListenerStalledOnlyBySwitch
  <1>1. Init => LockInv
    BY LocksInitially
  <1>2. LockInv /\ [Next]_vars => LockInv'
    BY LockStep
  <1>3. LockInv => ListenerStalledOnlyBySwitch
    BY ListenerFree
  <1> QED
    BY <1>1, <1>2, <1>3, PTL DEF Spec

-----------------------------------------------------------------------------
(* BusTree: calls and devices that go                                       *)

\* Every device is on its way; the dispatcher has a call on a node that exists.
KnownInv ==
    /\ way \in [BusDevices -> {"none", "up", "live", "down", "gone"}]
    /\ DOMAIN left = BusDevices
    /\ alive \subseteq BusNodes
    /\ call # NoCall => call.node \in BusNodes
    /\ KnownDevicesAnswer

\* A step on the way of a device that the bus does not know, and that does
\* nothing else to the dispatcher's call than to give up references.
LEMMA UnknownOnItsWay ==
    ASSUME KnownInv, NEW d \in BusDevices, ~Announced(d),
           \A e \in BusDevices \ {d} : way'[e] = way[e] /\ left'[e] = left[e],
           way' \in [BusDevices -> {"none", "up", "live", "down", "gone"}],
           DOMAIN left' = BusDevices,
           alive' \subseteq BusNodes,
           call'.node = call.node, call'.known = call.known,
           call' # NoCall => call # NoCall
    PROVE  KnownInv'
  <1>1. ASSUME call'.known PROVE Announced(call.node[1])'
    <2>1. Announced(call.node[1]) /\ call # NoCall
      BY <1>1 DEF KnownInv, KnownDevicesAnswer, NoCall
    <2>2. call.node[1] \in BusDevices \ {d}
      BY <2>1 DEF KnownInv, BusNodes
    <2> QED
      BY <2>1, <2>2 DEF Announced, Down
  <1> QED
    BY <1>1 DEF KnownInv, KnownDevicesAnswer

\* A thing done changes the way of its own device alone, ...
LEMMA AdvanceWay ==
    ASSUME KnownInv, NEW d \in BusDevices, Advance(d)
    PROVE  /\ \A e \in BusDevices \ {d} : way'[e] = way[e] /\ left'[e] = left[e]
           /\ way' \in [BusDevices -> {"none", "up", "live", "down", "gone"}]
           /\ DOMAIN left' = BusDevices
  BY DEF KnownInv, Advance

\* ... and so does a constructor that throws.
LEMMA ThrowWay ==
    ASSUME KnownInv, NEW d \in BusDevices, Throw(d)
    PROVE  /\ \A e \in BusDevices \ {d} : way'[e] = way[e] /\ left'[e] = left[e]
           /\ way' \in [BusDevices -> {"none", "up", "live", "down", "gone"}]
           /\ DOMAIN left' = BusDevices
  BY DEF KnownInv, Throw

\* Every step keeps the invariant. Only remove takes a device that the bus
\* knows, and what it leaves to do begins with the announcement; only announce
\* makes a device unknown, and it waits for the dispatcher.
LEMMA KnownStep ==
    ASSUME KnownInv, [BusNext]_busVars
    PROVE  KnownInv'
  <1>1. ASSUME NEW d \in BusDevices, begin(d) \/ fail(d) PROVE KnownInv'
    <2>1. ~Announced(d)
      BY <1>1 DEF begin, fail, Announced, Down
    <2> QED
      BY <1>1, <2>1, ThrowWay, UnknownOnItsWay DEF begin, fail, nodeVars, KnownInv
  <1>2. ASSUME NEW d \in BusDevices,
               configure(d) \/ manage(d) \/ newDeviceNickname(d) \/ dropNickname(d)
               \/ makeChildLinks(d) \/ makeChildReturns(d)
        PROVE  KnownInv'
    <2>1. ~Announced(d) /\ Advance(d) /\ UNCHANGED <<alive, call>>
      BY <1>2 DEF configure, manage, newDeviceNickname, dropNickname, makeChildLinks,
                  makeChildReturns, nodeVars, Announced, Up, Down
    <2> QED
      BY <1>2, <2>1, AdvanceWay, UnknownOnItsWay DEF KnownInv
  <1>3. ASSUME NEW d \in BusDevices, NEW l \in {"buttons", "button"}, NEW u \in {"dev", "buttons"}, NEW x,
            makeChildReads(d) \/ makeChild(d, l, u, x) PROVE KnownInv'
    <2>1. ~Announced(d) /\ Advance(d) /\ UNCHANGED call /\ alive' \subseteq BusNodes
      BY <1>3 DEF makeChildReads, makeChild, Announced, Up, Down, KnownInv, BusNodes
    <2> QED
      BY <1>3, <2>1, AdvanceWay, UnknownOnItsWay
  <1>4. ASSUME NEW d \in BusDevices, NEW l \in {"dev", "buttons", "button"}, dropNode(d, l) PROVE KnownInv'
    <2>1. ~Announced(d) /\ alive' \subseteq BusNodes
      BY <1>4 DEF dropNode, Expires, nodeVars, Announced, Down, KnownInv
    <2>2. CASE call.node = <<d, l>>
      <3>1. call' = [call EXCEPT !.lastNode = TRUE] /\ call # NoCall /\ Advance(d)
        BY <1>4, <2>2 DEF dropNode, NoCall, Root
      <3> QED
        BY <2>1, <3>1, AdvanceWay, UnknownOnItsWay DEF KnownInv
    <2>3. CASE call.node # <<d, l>>
      <3>1. UNCHANGED <<call, way, left>>
        BY <1>4, <2>3 DEF dropNode
      <3> QED
        BY <2>1, <3>1, UnknownOnItsWay DEF KnownInv
    <2> QED
      BY <2>2, <2>3
  <1>5. ASSUME NEW d \in BusDevices, NEW i \in Interfaces, makeInterface(d, i) PROVE KnownInv'
    <2>1. ~Announced(d) /\ UNCHANGED <<call, alive>>
      BY <1>5 DEF makeInterface, nodeVars, Announced, Up, Down
    <2>2. Advance(d) \/ Throw(d)
      BY <1>5 DEF makeInterface
    <2> QED
      BY <2>1, <2>2, AdvanceWay, ThrowWay, UnknownOnItsWay DEF KnownInv
  <1>6. ASSUME NEW d \in BusDevices, NEW i \in Interfaces, leaveInterface(d, i) PROVE KnownInv'
    <2>1. ~Announced(d) /\ UNCHANGED alive
      BY <1>6 DEF leaveInterface, nodeVars, Announced, Down, Interfaces
    <2>2. CASE UNCHANGED <<way, left, call>>
      BY <2>1, <2>2, UnknownOnItsWay DEF KnownInv
    <2>3. CASE Advance(d) /\ UNCHANGED call
      BY <2>1, <2>3, AdvanceWay, UnknownOnItsWay DEF KnownInv
    <2>4. CASE Advance(d) /\ call.iface = i /\ call' = [call EXCEPT !.lastIface = TRUE]
      <3>1. call # NoCall
        BY <2>4 DEF NoCall, Interfaces
      <3> QED
        BY <2>1, <2>4, <3>1, AdvanceWay, UnknownOnItsWay DEF KnownInv
    <2> QED
      BY <1>6, <2>2, <2>3, <2>4 DEF leaveInterface
  <1>12. ASSUME NEW d \in BusDevices, NEW i \in Interfaces, dropInterface(d, i) PROVE KnownInv'
    <2>1. ~Announced(d) /\ Advance(d) /\ UNCHANGED <<alive, call>>
      BY <1>12 DEF dropInterface, nodeVars, Announced, Down, Interfaces
    <2> QED
      BY <2>1, AdvanceWay, UnknownOnItsWay DEF KnownInv
  <1>13. ASSUME NEW d \in BusDevices, NEW l \in {"dev", "buttons", "button"}, destroyNode(d, l)
         PROVE  KnownInv'
    <2>1. ~Announced(d) /\ Advance(d) /\ UNCHANGED <<alive, call>>
      BY <1>13 DEF destroyNode, Destroyed, Announced, Down
    <2> QED
      BY <2>1, AdvanceWay, UnknownOnItsWay DEF KnownInv
  <1>7. ASSUME NEW d \in BusDevices, announce(d) PROVE KnownInv'
    <2>1. call = NoCall /\ UNCHANGED <<call, alive>> /\ Advance(d)
      BY <1>7 DEF announce, nodeVars, ServerFree
    <2> QED
      BY <2>1, AdvanceWay DEF KnownInv, KnownDevicesAnswer, NoCall
  <1>8. ASSUME NEW d \in BusDevices, remove(d) PROVE KnownInv'
    <2>1. /\ way' = [way EXCEPT ![d] = "down"] /\ left' = [left EXCEPT ![d] = Destruction]
          /\ UNCHANGED <<alive, call>>
      BY <1>8 DEF remove, nodeVars
    <2>2. Head(Destruction) = "announce"
      BY DEF Destruction, Features
    <2>3. ASSUME call.known PROVE Announced(call.node[1])'
      <3>1. call.node[1] \in BusDevices /\ Announced(call.node[1])
        BY <2>3 DEF KnownInv, KnownDevicesAnswer, NoCall, BusNodes
      <3> QED
        BY <2>1, <2>2, <3>1 DEF Announced, Down, KnownInv
    <2> QED
      BY <2>1, <2>3 DEF KnownInv, KnownDevicesAnswer
  <1>9. ASSUME NEW path \in DOMAIN registry, NEW i \in Interfaces, dispatch(path, i) PROVE KnownInv'
    <2>1. call' = [NoCall EXCEPT !.node = registry[path].object, !.iface = i,
                                 !.known = Announced(registry[path].object[1])]
      BY <1>9 DEF dispatch
    <2>2. /\ call'.node = registry[path].object
          /\ call'.known = Announced(registry[path].object[1])
      BY <2>1 DEF NoCall
    <2>3. UNCHANGED <<way, left, alive>> /\ registry[path].object \in alive
      BY <1>9 DEF dispatch, nodeVars
    <2>4. ASSUME call'.known PROVE Announced(call.node[1])'
      BY <2>2, <2>3, <2>4 DEF Announced, Down
    <2> QED
      BY <2>2, <2>3, <2>4 DEF KnownInv, KnownDevicesAnswer
  <1>10. CASE returnInterface
    <2>1. call # NoCall /\ call' = [call EXCEPT !.iface = "none", !.lastIface = FALSE]
          /\ UNCHANGED <<way, left, alive>>
      BY <1>10 DEF returnInterface, nodeVars
    <2>2. call'.node = call.node /\ (call'.known => call.known)
      BY <2>1 DEF KnownInv, NoCall
    <2> QED
      BY <2>1, <2>2 DEF KnownInv, KnownDevicesAnswer, Announced, Down
  <1>14. CASE returnNode
    <2>1. way' = way /\ alive' \subseteq alive /\ DOMAIN left' = DOMAIN left
      BY <1>14 DEF returnNode, Expires, nodeVars
    <2>2. call' = NoCall \/ UNCHANGED <<call, left>>
      BY <1>14 DEF returnNode
    <2> QED
      BY <2>1, <2>2 DEF KnownInv, KnownDevicesAnswer, NoCall, Announced, Down
  <1>15. CASE returnDestroys
    <2>1. call' = NoCall /\ UNCHANGED <<way, left, alive>>
      BY <1>15 DEF returnDestroys, Destroyed
    <2> QED
      BY <2>1 DEF KnownInv, KnownDevicesAnswer, NoCall
  <1>11. CASE UNCHANGED busVars
    BY <1>11 DEF KnownInv, KnownDevicesAnswer, Announced, Down, busVars, nodeVars
  <1> QED
    BY <1>1, <1>2, <1>3, <1>4, <1>5, <1>6, <1>7, <1>8, <1>9, <1>10, <1>11,
       <1>12, <1>13, <1>14, <1>15 DEF BusNext

\* At the start nothing is on the bus.
LEMMA KnownInitially == BusInit => KnownInv
  <1>1. NoCall.known = FALSE
    BY DEF NoCall
  <1> SUFFICES ASSUME BusInit PROVE KnownInv
    OBVIOUS
  <1>2. call = NoCall /\ alive = {} /\ DOMAIN left = BusDevices
        /\ way = [d \in BusDevices |-> "none"]
    BY DEF BusInit
  <1> QED
    BY <1>1, <1>2 DEF KnownInv, KnownDevicesAnswer

(***************************************************************************)
(* However many devices come and go, a call on a device that the bus knows *)
(* does not run while the device is destroyed: the signal DeviceRemoved    *)
(* needs the server lock, which the dispatcher holds until the method      *)
(* returns, and nothing of a device goes before its signal.                *)
(***************************************************************************)
THEOREM KnownCalls == BusSpec => []KnownDevicesAnswer
  <1>1. KnownInv => KnownDevicesAnswer
    BY DEF KnownInv
  <1> QED
    BY <1>1, KnownInitially, KnownStep, PTL DEF BusSpec

-----------------------------------------------------------------------------
(* DaemonConnection: sequences that messages and rows are added to and      *)
(* taken from                                                               *)

\* A set of natural numbers has a least: their intervals from one are finite
\* sets, of which inclusion is well founded.
LEMMA LeastThere ==
    ASSUME NEW S, S \subseteq Nat, S # {}
    PROVE  \E m \in S : \A n \in S : m <= n
  <1> DEFINE R == StrictSubsetOrdering(Nat)
             F == FiniteSubsetsOf(Nat)
             T == {1 .. n : n \in S}
  <1>1. IsWellFoundedOn(R, F)
    BY FS_StrictSubsetOrderingWellFounded
  <1>2. \A n \in Nat : 1 .. n \in F
    BY FS_Interval DEF FiniteSubsetsOf
  <1>3. T \subseteq F /\ T # {}
    BY <1>2
  <1>4. \E least \in T : \A other \in T : <<other, least>> \notin R
    <2> HIDE DEF R, F, T
    <2> QED
      BY <1>1, <1>3, WFMin
  <1>5. PICK m \in S : \A n \in S : <<1 .. n, 1 .. m>> \notin R
    BY <1>4
  <1>6. ASSUME NEW n \in S, n < m PROVE FALSE
    <2>1. 1 .. n \subseteq 1 .. m /\ 1 .. n # 1 .. m
      <3>1. m \in 1 .. m /\ m \notin 1 .. n
        BY <1>6
      <3> QED
        BY <1>6, <3>1
    <2>2. <<1 .. n, 1 .. m>> \in R
      BY <2>1 DEF StrictSubsetOrdering
    <2> QED
      BY <1>5, <2>2
  <1> QED
    BY <1>5, <1>6

\* Append keeps the entries and adds one.
LEMMA Appended ==
    ASSUME NEW S, NEW s \in Seq(S), NEW m, NEW t, t = Append(s, m)
    PROVE  /\ Len(s) \in Nat /\ DOMAIN s = 1 .. Len(s) /\ DOMAIN t = 1 .. Len(s) + 1 /\ Len(t) = Len(s) + 1
           /\ \A i \in 1 .. Len(s) : t[i] = s[i]
           /\ t[Len(s) + 1] = m
           /\ m \in S => t \in Seq(S)
OBVIOUS

\* Tail takes the first entry.
LEMMA Taken ==
    ASSUME NEW S, NEW s \in Seq(S), s # << >>, NEW t, t = Tail(s)
    PROVE  /\ Len(s) \in Nat \ {0} /\ DOMAIN s = 1 .. Len(s) /\ DOMAIN t = 1 .. Len(s) - 1 /\ Len(t) = Len(s) - 1
           /\ \A i \in 1 .. Len(s) - 1 : t[i] = s[i + 1]
           /\ Head(s) = s[1] /\ s[1] \in S
           /\ t \in Seq(S)
OBVIOUS

\* Concatenation keeps the entries of both.
LEMMA Joined ==
    ASSUME NEW S, NEW s \in Seq(S), NEW u \in Seq(S), NEW t, t = s \o u
    PROVE  /\ Len(s) \in Nat /\ Len(u) \in Nat /\ DOMAIN s = 1 .. Len(s) /\ DOMAIN u = 1 .. Len(u)
           /\ DOMAIN t = 1 .. Len(s) + Len(u) /\ Len(t) = Len(s) + Len(u)
           /\ \A i \in 1 .. Len(s) : t[i] = s[i]
           /\ \A i \in 1 .. Len(u) : t[Len(s) + i] = u[i]
           /\ t \in Seq(S)
OBVIOUS

\* The rows are in the order of their nicknames.
RowsInOrder(rs) == \A m, n \in 1 .. Len(rs) : m < n => rs[m].path < rs[n].path

\* Min is the least.
LEMMA Least ==
    ASSUME NEW S, S \subseteq Nat, S # {}
    PROVE  Min(S) \in S /\ \A n \in S : Min(S) <= n
  BY LeastThere DEF Min

-----------------------------------------------------------------------------
(* The rows of the model                                                    *)

\* What a row holds.
LEMMA RowFields ==
    ASSUME NEW r \in Row
    PROVE  r.path \in DevicePaths /\ r.path \in Nat /\ r.state \in {"Online", "Sleeping", "Offline"}
           /\ r.known \in BOOLEAN
  BY DevicePathsAssumption DEF Row

\* A row is put where its nickname belongs.
LEMMA RowAdded ==
    ASSUME NEW rs \in Seq(Row), RowsInOrder(rs), NEW p \in DevicePaths, NEW awake \in BOOLEAN,
           NEW new, new = [path |-> p, state |-> Connection(awake), known |-> FALSE],
           NEW t, t = onDeviceAdded(rs, p, awake)
    PROVE  /\ t \in Seq(Row) /\ RowsInOrder(t)
           /\ (\E r \in ToSet(rs) : r.path = p) => t = rs
           /\ (\A r \in ToSet(rs) : r.path # p) => ToSet(t) = ToSet(rs) \cup {new}
  <1> DEFINE L == Len(rs)
             above == {n \in 1 .. L : p < rs[n].path} \cup {L + 1}
             at == Min(above)
  <1>0. L \in Nat /\ DOMAIN rs = 1 .. L /\ (\A n \in 1 .. L : rs[n] \in Row /\ rs[n].path \in Nat) /\ p \in Nat
        /\ new \in Row /\ new.path = p
    <2>1. \A n \in 1 .. L : rs[n] \in Row
      OBVIOUS
    <2>2. \A n \in 1 .. L : rs[n].path \in Nat
      BY <2>1, RowFields
    <2>3. new \in Row /\ new.path = p
      BY DEF Row, Connection
    <2> QED
      BY <2>1, <2>2, <2>3, DevicePathsAssumption
  <1>1. CASE \E r \in ToSet(rs) : r.path = p
    <2>1. rowForPath(rs, p) # {}
      BY <1>0, <1>1 DEF rowForPath, ToSet
    <2> QED
      BY <1>1, <2>1 DEF onDeviceAdded
  <1>2. CASE \A r \in ToSet(rs) : r.path # p
    <2>1. \A n \in 1 .. L : rs[n].path # p
      BY <1>0, <1>2 DEF ToSet
    <2>2. rowForPath(rs, p) = {}
      BY <2>1 DEF rowForPath
    <2>3. t = InsertAt(rs, at, new)
      BY <2>2 DEF onDeviceAdded
    <2>4. at \in above /\ \A n \in above : at <= n
      <3>1. above \subseteq Nat /\ above # {}
        BY <1>0
      <3> HIDE DEF above
      <3> QED
        BY <3>1, Least
    <2>5. at \in 1 .. L + 1 /\ (\A n \in 1 .. L : n < at => rs[n].path < p)
          /\ (\A n \in 1 .. L : at <= n => p < rs[n].path)
      <3>1. at \in 1 .. L + 1
        BY <2>4, <1>0
      <3>2. ASSUME NEW n \in 1 .. L, n < at PROVE rs[n].path < p
        <4>1. n \notin above
          <5>1. n \in above => at <= n
            BY <2>4
          <5>2. n \in Nat /\ at \in Nat /\ ~(at <= n)
            <6> HIDE DEF at
            <6> QED
              BY <1>0, <3>1, <3>2
          <5> QED
            BY <5>1, <5>2
        <4> QED
          BY <4>1, <2>1, <1>0
      <3>3. ASSUME NEW n \in 1 .. L, at <= n PROVE p < rs[n].path
        <4>1. at \in 1 .. L /\ p < rs[at].path
          BY <2>4, <3>3, <1>0, <3>1
        <4> HIDE DEF at
        <4>2. at = n \/ rs[at].path < rs[n].path
          BY <4>1, <3>3, <1>0 DEF RowsInOrder
        <4> QED
          BY <4>1, <4>2, <1>0
      <3> QED
        BY <3>1, <3>2, <3>3
    <2> HIDE DEF at, above
    <2>6. /\ Len(t) = L + 1 /\ DOMAIN t = 1 .. L + 1 /\ t \in Seq(Row)
          /\ \A n \in 1 .. L + 1 : t[n] = IF n < at THEN rs[n] ELSE IF n = at THEN new ELSE rs[n - 1]
      <3>1. SubSeq(rs, 1, at - 1) \in Seq(Row) /\ Len(SubSeq(rs, 1, at - 1)) = at - 1
            /\ \A n \in 1 .. at - 1 : SubSeq(rs, 1, at - 1)[n] = rs[n]
        BY <1>0, <2>5
      <3>2. SubSeq(rs, at, L) \in Seq(Row) /\ Len(SubSeq(rs, at, L)) = L - at + 1
            /\ \A n \in 1 .. L - at + 1 : SubSeq(rs, at, L)[n] = rs[at + n - 1]
        BY <1>0, <2>5
      <3>3. t = (SubSeq(rs, 1, at - 1) \o <<new>>) \o SubSeq(rs, at, L)
        BY <2>3 DEF InsertAt
      <3> DEFINE u == SubSeq(rs, 1, at - 1)
                 v == SubSeq(rs, at, L)
                 w == u \o <<new>>
      <3> HIDE DEF u, v
      <3>4. w \in Seq(Row) /\ Len(w) = at /\ (\A n \in 1 .. at - 1 : w[n] = rs[n]) /\ w[at] = new
        <4>1. u \in Seq(Row) /\ Len(u) = at - 1 /\ \A n \in 1 .. at - 1 : u[n] = rs[n]
          BY <3>1 DEF u
        <4>2. w = Append(u, new)
          BY <4>1
        <4> HIDE DEF w
        <4> QED
          BY <4>1, <4>2, Appended, <1>0, <2>5
      <3>5. t = w \o v
        BY <3>3 DEF u, v
      <3> HIDE DEF w
      <3>v. v \in Seq(Row) /\ Len(v) = L - at + 1
        BY <3>2 DEF v
      <3>6. t \in Seq(Row) /\ Len(t) = at + (L - at + 1) /\ (\A n \in 1 .. at : t[n] = w[n])
            /\ (\A n \in 1 .. L - at + 1 : t[at + n] = v[n])
        <4>1. w \in Seq(Row) /\ v \in Seq(Row)
          BY <3>v, <3>4
        <4>2. /\ Len(t) = Len(w) + Len(v) /\ t \in Seq(Row)
              /\ (\A n \in 1 .. Len(w) : t[n] = w[n]) /\ \A n \in 1 .. Len(v) : t[Len(w) + n] = v[n]
          BY <3>5, <4>1, Joined
        <4>3. Len(w) = at /\ Len(v) = L - at + 1
          BY <3>v, <3>4
        <4> QED
          BY <4>2, <4>3
      <3>7. \A n \in at + 1 .. L + 1 : t[n] = rs[n - 1]
        <4> SUFFICES ASSUME NEW n \in at + 1 .. L + 1 PROVE t[n] = rs[n - 1]
          OBVIOUS
        <4>1. n - at \in 1 .. L - at + 1 /\ at + (n - at) = n /\ at + (n - at) - 1 = n - 1
          BY <1>0, <2>5
        <4> QED
          BY <4>1, <3>6, <3>2 DEF v
      <3> QED
        BY <1>0, <2>5, <3>4, <3>6, <3>7
    <2>7. RowsInOrder(t)
      <3> SUFFICES ASSUME NEW m \in 1 .. L + 1, NEW n \in 1 .. L + 1, m < n PROVE t[m].path < t[n].path
        BY <2>6 DEF RowsInOrder
      <3>1. CASE n < at
        BY <3>1, <2>5, <2>6, <1>0 DEF RowsInOrder
      <3>2. CASE n = at
        BY <3>2, <2>5, <2>6, <1>0
      <3>3. CASE n > at /\ m = at
        BY <3>3, <2>5, <2>6, <1>0
      <3>4. CASE n > at /\ m < at
        <4>1. rs[m].path < p /\ p < rs[n - 1].path /\ t[m] = rs[m] /\ t[n] = rs[n - 1]
          BY <3>4, <2>5, <2>6, <1>0
        <4> QED
          BY <4>1, <1>0, <3>4, <2>5
      <3>5. CASE n > at /\ m > at
        <4>1. t[m] = rs[m - 1] /\ t[n] = rs[n - 1] /\ m - 1 \in 1 .. L /\ n - 1 \in 1 .. L /\ m - 1 < n - 1
          BY <3>5, <2>5, <2>6, <1>0
        <4> QED
          BY <4>1, <1>0 DEF RowsInOrder
      <3> QED
        BY <3>1, <3>2, <3>3, <3>4, <3>5, <1>0, <2>5
    <2>8. ToSet(t) = ToSet(rs) \cup {new}
      <3>1. \A n \in 1 .. L + 1 : t[n] \in ToSet(rs) \cup {new}
        <4>1. ASSUME NEW n \in 1 .. L + 1, n > at PROVE n - 1 \in 1 .. L
          BY <4>1, <2>5, <1>0
        <4>2. ASSUME NEW n \in 1 .. L + 1, n < at PROVE n \in 1 .. L
          BY <4>2, <2>5, <1>0
        <4>3. \A n \in 1 .. L : rs[n] \in ToSet(rs)
          BY <1>0 DEF ToSet
        <4> QED
          BY <2>6, <4>1, <4>2, <4>3, <2>5, <1>0
      <3>2. t[at] = new
        BY <2>6, <2>5, <1>0
      <3>3. \A n \in 1 .. L : \E m \in 1 .. L + 1 : t[m] = rs[n]
        <4> SUFFICES ASSUME NEW n \in 1 .. L PROVE \E m \in 1 .. L + 1 : t[m] = rs[n]
          OBVIOUS
        <4>1. CASE n < at
          BY <4>1, <2>6, <1>0
        <4>2. CASE n >= at
          <5>1. n + 1 \in 1 .. L + 1 /\ ~(n + 1 < at) /\ n + 1 # at /\ n + 1 - 1 = n
            BY <4>2, <1>0, <2>5
          <5> QED
            BY <5>1, <2>6
        <4> QED
          BY <4>1, <4>2, <1>0, <2>5
      <3>4. \A x \in ToSet(t) : x \in ToSet(rs) \cup {new}
        BY <3>1, <2>6 DEF ToSet
      <3>5. ASSUME NEW x \in ToSet(rs) PROVE x \in ToSet(t)
        <4>1. PICK n \in 1 .. L : x = rs[n]
          BY <1>0 DEF ToSet
        <4>2. PICK m \in 1 .. L + 1 : t[m] = rs[n]
          BY <3>3
        <4> QED
          BY <4>1, <4>2, <2>6 DEF ToSet
      <3>6. new \in ToSet(t)
        BY <3>2, <2>6, <2>5, <1>0 DEF ToSet
      <3> QED
        BY <3>4, <3>5, <3>6
    <2> QED
      BY <1>2, <2>6, <2>7, <2>8
  <1> QED
    BY <1>1, <1>2

\* A row is taken out.
LEMMA RowRemoved ==
    ASSUME NEW rs \in Seq(Row), RowsInOrder(rs), NEW p \in DevicePaths, NEW t, t = onDeviceRemoved(rs, p)
    PROVE  /\ t \in Seq(Row) /\ RowsInOrder(t)
           /\ ToSet(t) = {r \in ToSet(rs) : r.path # p}
  <1> DEFINE L == Len(rs)
             at == Min(rowForPath(rs, p))
  <1>0. L \in Nat /\ DOMAIN rs = 1 .. L /\ (\A n \in 1 .. L : rs[n] \in Row /\ rs[n].path \in Nat) /\ p \in Nat
    <2>1. \A n \in 1 .. L : rs[n] \in Row
      OBVIOUS
    <2>2. \A n \in 1 .. L : rs[n].path \in Nat
      BY <2>1, RowFields
    <2> QED
      BY <2>1, <2>2, DevicePathsAssumption
  <1>1. CASE rowForPath(rs, p) = {}
    BY <1>0, <1>1 DEF rowForPath, onDeviceRemoved, ToSet
  <1>2. CASE rowForPath(rs, p) # {}
    <2>1. at \in 1 .. L /\ rs[at].path = p
      <3>1. rowForPath(rs, p) \subseteq Nat
        BY DEF rowForPath
      <3>2. at \in rowForPath(rs, p)
        BY <3>1, <1>2, Least
      <3> QED
        BY <3>2 DEF rowForPath
    <2>2. t = RemoveAt(rs, at)
      BY <1>2 DEF onDeviceRemoved
    <2> HIDE DEF at
    <2>3. \A n \in 1 .. L : n # at => rs[n].path # p
      BY <2>1, <1>0 DEF RowsInOrder
    <2>4. /\ t \in Seq(Row) /\ Len(t) = L - 1 /\ DOMAIN t = 1 .. L - 1
          /\ \A n \in 1 .. L - 1 : t[n] = IF n < at THEN rs[n] ELSE rs[n + 1]
      <3> DEFINE u == SubSeq(rs, 1, at - 1)
                 v == SubSeq(rs, at + 1, L)
      <3>1. u \in Seq(Row) /\ Len(u) = at - 1 /\ \A n \in 1 .. at - 1 : u[n] = rs[n]
        BY <1>0, <2>1
      <3>2. v \in Seq(Row) /\ Len(v) = L - at /\ \A n \in 1 .. L - at : v[n] = rs[at + n]
        <4>1. PICK k \in Int : k = at + 1
          BY <1>0, <2>1
        <4>2. v = SubSeq(rs, k, L)
          BY <4>1
        <4> HIDE DEF v
        <4>3. \A i \in k .. L : rs[i] \in Row
          BY <1>0, <2>1, <4>1
        <4>4. /\ v \in Seq(Row)
              /\ Len(v) = IF k <= L THEN L - k + 1 ELSE 0
              /\ \A i \in 1 .. L - k + 1 : v[i] = rs[k + i - 1]
          <5>1. rs \in Seq(Row) /\ k \in Int /\ L \in Int
            BY <1>0
          <5> QED
            BY <4>2, <4>3, <5>1, SubSeqProperties
        <4>0. PICK l \in Nat : l = L
          BY <1>0, Zenon
        <4>x. PICK x \in 1 .. l : x = at
          BY <1>0, <2>1, <4>0
        <4>5. l \in Nat /\ x \in 1 .. l /\ l = L /\ x = at
          BY <4>0, <4>x
        <4>6. k = x + 1
          BY <4>1, <4>5
        <4>7. /\ l - k + 1 = l - x
              /\ \A i \in 1 .. l - x : k + i - 1 = x + i
              /\ k <= l \/ l - x = 0
          BY <4>6
        <4>8. \A i \in 1 .. l - x : v[i] = rs[x + i]
          BY <4>4, <4>5, <4>7
        <4>9. Len(v) = l - x
          BY <4>4, <4>5, <4>7
        <4> QED
          BY <4>4, <4>5, <4>8, <4>9
      <3>3. t = u \o v
        BY <2>2 DEF RemoveAt
      <3> HIDE DEF u, v
      <3>4. t \in Seq(Row) /\ Len(t) = (at - 1) + (L - at) /\ (\A n \in 1 .. at - 1 : t[n] = u[n])
            /\ (\A n \in 1 .. L - at : t[at - 1 + n] = v[n])
        <4>2. Len(u) = at - 1 /\ Len(v) = L - at
          BY <3>1, <3>2
        <4>3. u \in Seq(Row) /\ v \in Seq(Row)
          BY <3>1, <3>2
        <4>1. Len(t) = Len(u) + Len(v) /\ t \in Seq(Row) /\ (\A i \in 1 .. Len(u) : t[i] = u[i])
              /\ (\A i \in 1 .. Len(v) : t[Len(u) + i] = v[i])
          BY <4>3, <3>3, Joined
        <4> QED
          BY <4>1, <4>2
      <3>5. \A n \in at .. L - 1 : t[n] = rs[n + 1]
        <4> SUFFICES ASSUME NEW n \in at .. L - 1 PROVE t[n] = rs[n + 1]
          OBVIOUS
        <4>1. n + 1 - at \in 1 .. L - at /\ at - 1 + (n + 1 - at) = n /\ at + (n + 1 - at) = n + 1
          BY <1>0, <2>1
        <4> QED
          BY <4>1, <3>2, <3>4
      <3> QED
        BY <1>0, <2>1, <3>1, <3>4, <3>5
    <2>5. RowsInOrder(t)
      <3> SUFFICES ASSUME NEW m \in 1 .. L - 1, NEW n \in 1 .. L - 1, m < n PROVE t[m].path < t[n].path
        BY <2>4 DEF RowsInOrder
      <3>1. \E i, j \in 1 .. L : i < j /\ t[m] = rs[i] /\ t[n] = rs[j]
        <4>1. CASE n < at
          <5>1. m \in 1 .. L /\ n \in 1 .. L /\ m < at
            BY <4>1, <1>0, <2>1
          <5> QED
            BY <5>1, <4>1, <2>4
        <4>2. CASE m < at /\ n >= at
          <5>1. m \in 1 .. L /\ n + 1 \in 1 .. L /\ m < n + 1
            BY <4>2, <1>0
          <5> QED
            BY <5>1, <4>2, <2>4, <2>1, <1>0
        <4>3. CASE m >= at
          <5>1. m + 1 \in 1 .. L /\ n + 1 \in 1 .. L /\ m + 1 < n + 1 /\ ~(m < at) /\ ~(n < at)
            BY <4>3, <1>0, <2>1
          <5> QED
            BY <5>1, <2>4
        <4>4. n < at \/ (m < at /\ n >= at) \/ m >= at
          BY <2>1, <1>0
        <4> QED
          BY <4>1, <4>2, <4>3, <4>4
      <3> QED
        BY <3>1 DEF RowsInOrder
    <2>6. ToSet(t) = {r \in ToSet(rs) : r.path # p}
      <3>1. \A n \in 1 .. L - 1 : t[n] \in ToSet(rs) /\ t[n].path # p
        <4> SUFFICES ASSUME NEW n \in 1 .. L - 1 PROVE t[n] \in ToSet(rs) /\ t[n].path # p
          OBVIOUS
        <4>1. \E i \in 1 .. L : i # at /\ t[n] = rs[i]
          <5>1. n \in 1 .. L /\ n + 1 \in 1 .. L /\ (~(n < at) => n + 1 # at) /\ (n < at => n # at)
            BY <1>0, <2>1
          <5> QED
            BY <5>1, <2>4
        <4> QED
          BY <4>1, <2>3, <1>0 DEF ToSet
      <3>2. \A n \in 1 .. L : n # at => \E m \in 1 .. L - 1 : t[m] = rs[n]
        <4> SUFFICES ASSUME NEW n \in 1 .. L, n # at PROVE \E m \in 1 .. L - 1 : t[m] = rs[n]
          OBVIOUS
        <4>1. CASE n < at
          BY <4>1, <2>1, <2>4, <1>0
        <4>2. CASE n > at
          <5>1. n - 1 \in 1 .. L - 1 /\ ~(n - 1 < at) /\ n - 1 + 1 = n
            BY <4>2, <1>0, <2>1
          <5> QED
            BY <5>1, <2>4
        <4> QED
          BY <4>1, <4>2, <1>0, <2>1
      <3>3. \A x \in ToSet(t) : x \in ToSet(rs) /\ x.path # p
        BY <3>1, <2>4 DEF ToSet
      <3>4. ASSUME NEW x \in ToSet(rs), x.path # p PROVE x \in ToSet(t)
        <4>1. PICK n \in 1 .. L : x = rs[n]
          BY <1>0 DEF ToSet
        <4>2. PICK m \in 1 .. L - 1 : t[m] = rs[n]
          BY <3>2, <4>1, <3>4, <2>1
        <4> QED
          BY <4>1, <4>2, <2>4 DEF ToSet
      <3> QED
        BY <3>3, <3>4
    <2> QED
      BY <2>4, <2>5, <2>6
  <1> QED
    BY <1>1, <1>2

\* The rows t are rs but for the state of p.
Stated(t, rs, p, s) ==
    /\ \A x \in ToSet(t) : \E r \in ToSet(rs) :
          x.path = r.path /\ x.known = r.known /\ (x.path # p => x = r) /\ (x.path = p => x.state = s)
    /\ \A r \in ToSet(rs) : \E x \in ToSet(t) : x.path = r.path /\ (r.path # p => x = r)

\* The state of a row is set.
LEMMA RowState ==
    ASSUME NEW rs \in Seq(Row), RowsInOrder(rs), NEW p \in DevicePaths,
           NEW s \in {"Online", "Sleeping", "Offline"}, NEW t, t = onConnectionStateChanged(rs, p, s)
    PROVE  /\ t \in Seq(Row) /\ RowsInOrder(t)
           /\ Stated(t, rs, p, s)
  <1>0. DOMAIN rs = 1 .. Len(rs) /\ Len(rs) \in Nat /\ \A n \in 1 .. Len(rs) : rs[n] \in Row
    OBVIOUS
  <1>1. t = [n \in 1 .. Len(rs) |-> IF rs[n].path = p THEN [rs[n] EXCEPT !.state = s] ELSE rs[n]]
    BY DEF onConnectionStateChanged
  <1>2. \A n \in 1 .. Len(rs) : /\ t[n] \in Row /\ t[n].path = rs[n].path /\ t[n].known = rs[n].known
                               /\ (t[n].path # p => t[n] = rs[n]) /\ (t[n].path = p => t[n].state = s)
    BY <1>0, <1>1 DEF Row
  <1>3. t \in Seq(Row) /\ Len(t) = Len(rs) /\ DOMAIN t = 1 .. Len(rs)
    BY <1>0, <1>1, <1>2
  <1>4. RowsInOrder(t)
    BY <1>0, <1>2, <1>3 DEF RowsInOrder
  <1> QED
    BY <1>0, <1>2, <1>3, <1>4 DEF ToSet, Stated

\* The rows t are rs but for the battery of p.
Charged(t, rs, p, k) ==
    /\ \A x \in ToSet(t) : \E r \in ToSet(rs) :
          x.path = r.path /\ x.state = r.state /\ (x.path # p => x = r) /\ (x.path = p => x.known = k)
    /\ \A r \in ToSet(rs) : \E x \in ToSet(t) : x.path = r.path /\ (r.path # p => x = r)

\* The battery of a row is set.
LEMMA RowBattery ==
    ASSUME NEW rs \in Seq(Row), RowsInOrder(rs), NEW p \in DevicePaths,
           NEW k \in BOOLEAN, NEW t, t = onBatteryChanged(rs, p, k)
    PROVE  /\ t \in Seq(Row) /\ RowsInOrder(t)
           /\ Charged(t, rs, p, k)
  <1>0. DOMAIN rs = 1 .. Len(rs) /\ Len(rs) \in Nat /\ \A n \in 1 .. Len(rs) : rs[n] \in Row
    OBVIOUS
  <1>1. t = [n \in 1 .. Len(rs) |-> IF rs[n].path = p THEN [rs[n] EXCEPT !.known = k] ELSE rs[n]]
    BY DEF onBatteryChanged
  <1>2. \A n \in 1 .. Len(rs) : /\ t[n] \in Row /\ t[n].path = rs[n].path /\ t[n].state = rs[n].state
                               /\ (t[n].path # p => t[n] = rs[n]) /\ (t[n].path = p => t[n].known = k)
    BY <1>0, <1>1 DEF Row
  <1>3. t \in Seq(Row) /\ Len(t) = Len(rs) /\ DOMAIN t = 1 .. Len(rs)
    BY <1>0, <1>1, <1>2
  <1>4. RowsInOrder(t)
    BY <1>0, <1>2, <1>3 DEF RowsInOrder
  <1> QED
    BY <1>0, <1>2, <1>3, <1>4 DEF ToSet, Charged

\* What SetToSeq lists is the set.
LEMMA Listing ==
    ASSUME NEW S, IsFiniteSet(S), NEW t, t = SetToSeq(S)
    PROVE  t \in Seq(S) /\ ToSet(t) = S /\ \A i, j \in DOMAIN t : i # j => t[i] # t[j]
  <1> DEFINE k == Cardinality(S)
  <1>1. k \in Nat /\ ExistsBijection(1 .. k, S)
    BY FS_CardinalityType
  <1>2. \E f \in [1 .. k -> S] : IsInjective(f)
    BY <1>1 DEF ExistsBijection, Bijection, Injection, IsInjective
  <1>3. t \in [1 .. k -> S] /\ IsInjective(t)
    BY <1>2 DEF SetToSeq
  <1>4. t \in Injection(1 .. k, S)
    BY <1>3 DEF Injection, IsInjective
  <1>5. Cardinality(1 .. k) = k /\ IsFiniteSet(1 .. k)
    BY <1>1, FS_Interval
  <1>6. t \in Surjection(1 .. k, S)
    BY <1>4, <1>5, FS_Injection
  <1> QED
    BY <1>1, <1>3, <1>6 DEF Surjection, ToSet, IsInjective

-----------------------------------------------------------------------------
(* What is under way                                                        *)

\* The messages of the bus, and the calls of the client.
Messages ==
    [kind : {"added", "removed", "readError"}, path : DevicePaths]
    \cup [kind : {"status"}, path : DevicePaths, awake : BOOLEAN]
    \cup [kind : {"battery"}, path : DevicePaths, known : {TRUE}]
    \cup [kind : {"read"}, path : DevicePaths, awake : BOOLEAN, known : BOOLEAN]
    \cup [kind : {"list"}, paths : SUBSET DevicePaths]
    \cup [kind : {"listError"}, name : {"NoReply", "ServiceUnknown", "AccessDenied"}]
    \cup [kind : {"up", "down"}]
ConnCalls == {Enumeration} \cup {GetAll(p) : p \in DevicePaths}

\* What a message means for a device.
Drops(m, p)     == m.kind = "up" \/ (m.kind = "removed" /\ m.path = p)
Adds(m, p)      == (m.kind = "added" /\ m.path = p) \/ (m.kind = "list" /\ p \in m.paths)
Answers(m, p)   == m.kind \in {"read", "readError"} /\ m.path = p
Statuses(m, p)  == m.kind = "status" /\ m.path = p
Batteries(m, p) == m.kind = "battery" /\ m.path = p

\* Of the mail behind the first i messages.
DropsAfter(ml, p, i)   == \E j \in 1 .. Len(ml) : i < j /\ Drops(ml[j], p)
AnswerAfter(ml, p, i)  == \E j \in 1 .. Len(ml) : i < j /\ Answers(ml[j], p)
StatusAfter(ml, p, i)  == \E j \in 1 .. Len(ml) : i < j /\ Statuses(ml[j], p)
BatteryAfter(ml, p, i) == \E j \in 1 .. Len(ml) : i < j /\ Batteries(ml[j], p)
KindAfter(ml, k, i)    == \E j \in 1 .. Len(ml) : i < j /\ ml[j].kind = k

\* The device has a proxy when the message at i comes to be handled.
Tracked(ps, ml, p, i) ==
    \/ p \in ps /\ \A l \in 1 .. Len(ml) : l < i => ~Drops(ml[l], p)
    \/ \E k \in 1 .. Len(ml) :
          k < i /\ Adds(ml[k], p) /\ \A l \in 1 .. Len(ml) : k < l /\ l < i => ~Drops(ml[l], p)

\* Of the calls.
ListAsked(cs)     == \E i \in 1 .. Len(cs) : cs[i] = Enumeration
ReadAsked(cs, p)  == \E i \in 1 .. Len(cs) : cs[i] = GetAll(p)
ReadBehind(cs, p) == \A i \in 1 .. Len(cs) : cs[i] = Enumeration =>
                        \E j \in 1 .. Len(cs) : i < j /\ cs[j] = GetAll(p)

\* What a message holds.
LEMMA MessageFields ==
    ASSUME NEW m \in Messages
    PROVE  /\ m.kind \in {"added", "removed", "readError", "status", "battery", "read"} => m.path \in DevicePaths
           /\ m.kind \in {"status", "read"} => m.awake \in BOOLEAN
           /\ m.kind \in {"battery", "read"} => m.known \in BOOLEAN
           /\ m.kind = "battery" => m.known = TRUE
           /\ m.kind = "listError" => m.name \in {"NoReply", "ServiceUnknown", "AccessDenied"}
           /\ m.kind = "list" => m.paths \subseteq DevicePaths
           /\ m.kind \in {"added", "removed", "readError", "status", "battery", "read", "list",
                           "listError", "up", "down"}
  BY DEF Messages

\* The two calls differ.
LEMMA CallKinds ==
    ASSUME NEW p, NEW q
    PROVE  /\ Enumeration # GetAll(p) /\ (GetAll(p) = GetAll(q) => p = q)
           /\ Enumeration.kind = "enumerate" /\ GetAll(p).kind = "getAll" /\ GetAll(p).path = p
  <1>1. Enumeration.kind = "enumerate" /\ GetAll(p).kind = "getAll" /\ GetAll(p).path = p /\ GetAll(q).path = q
    BY DEF Enumeration, GetAll
  <1> QED
    BY <1>1

\* The mail t is ml and, behind it, m.
Telled(ml, m, t) ==
    /\ Len(ml) \in Nat /\ Len(t) = Len(ml) + 1 /\ t \in Seq(Messages)
    /\ \A i \in 1 .. Len(ml) : t[i] = ml[i]
    /\ t[Len(ml) + 1] = m
    /\ \A p : \A i \in 0 .. Len(ml) : DropsAfter(t, p, i) <=> DropsAfter(ml, p, i) \/ Drops(m, p)
    /\ \A p : \A i \in 0 .. Len(ml) : AnswerAfter(t, p, i) <=> AnswerAfter(ml, p, i) \/ Answers(m, p)
    /\ \A p : \A i \in 0 .. Len(ml) : StatusAfter(t, p, i) <=> StatusAfter(ml, p, i) \/ Statuses(m, p)
    /\ \A p : \A i \in 0 .. Len(ml) : BatteryAfter(t, p, i) <=> BatteryAfter(ml, p, i) \/ Batteries(m, p)
    /\ \A k : \A i \in 0 .. Len(ml) : KindAfter(t, k, i) <=> KindAfter(ml, k, i) \/ m.kind = k

\* A message is told.
LEMMA Told ==
    ASSUME NEW ml \in Seq(Messages), NEW m \in Messages, NEW t, t = Append(ml, m), NEW n, n = Len(ml)
    PROVE  Telled(ml, m, t)
  <1>1. n \in Nat /\ Len(t) = n + 1 /\ t \in Seq(Messages) /\ (\A i \in 1 .. n : t[i] = ml[i]) /\ t[n + 1] = m
    BY Appended
  <1>2. ASSUME NEW i \in 0 .. n PROVE i < n + 1 /\ n + 1 \in 1 .. n + 1
    BY <1>1
  <1>3. 1 .. n + 1 = 1 .. n \cup {n + 1}
    BY <1>1
  <1>4. \A p : \A i \in 0 .. n : DropsAfter(t, p, i) <=> DropsAfter(ml, p, i) \/ Drops(m, p)
    BY <1>1, <1>2, <1>3 DEF DropsAfter
  <1>5. \A p : \A i \in 0 .. n : AnswerAfter(t, p, i) <=> AnswerAfter(ml, p, i) \/ Answers(m, p)
    BY <1>1, <1>2, <1>3 DEF AnswerAfter
  <1>6. \A p : \A i \in 0 .. n : StatusAfter(t, p, i) <=> StatusAfter(ml, p, i) \/ Statuses(m, p)
    BY <1>1, <1>2, <1>3 DEF StatusAfter
  <1>7. \A p : \A i \in 0 .. n : BatteryAfter(t, p, i) <=> BatteryAfter(ml, p, i) \/ Batteries(m, p)
    BY <1>1, <1>2, <1>3 DEF BatteryAfter
  <1>8. \A k : \A i \in 0 .. n : KindAfter(t, k, i) <=> KindAfter(ml, k, i) \/ m.kind = k
    BY <1>1, <1>2, <1>3 DEF KindAfter
  <1> QED
    BY <1>1, <1>4, <1>5, <1>6, <1>7, <1>8 DEF Telled

\* Nothing is behind the last message.
LEMMA NothingAfter ==
    ASSUME NEW ml \in Seq(Messages), NEW n \in Nat, n >= Len(ml)
    PROVE  /\ \A p : ~DropsAfter(ml, p, n) /\ ~AnswerAfter(ml, p, n) /\ ~StatusAfter(ml, p, n) /\ ~BatteryAfter(ml, p, n)
           /\ \A k : ~KindAfter(ml, k, n)
  <1>1. \A j \in 1 .. Len(ml) : ~(n < j)
    OBVIOUS
  <1> QED
    BY <1>1 DEF DropsAfter, AnswerAfter, StatusAfter, BatteryAfter, KindAfter

\* A message that is told does not change what was before it.
LEMMA ToldTracked ==
    ASSUME NEW ml \in Seq(Messages), NEW m \in Messages, NEW t, t = Append(ml, m), NEW n, n = Len(ml), NEW ps
    PROVE  /\ \A p : \A i \in 1 .. n + 1 : Tracked(ps, t, p, i) <=> Tracked(ps, ml, p, i)
           /\ \A p : Adds(m, p) => Tracked(ps, t, p, n + 2)
           /\ \A p : Tracked(ps, ml, p, n + 1) /\ ~Drops(m, p) => Tracked(ps, t, p, n + 2)
  <1>1. n \in Nat /\ Len(t) = n + 1 /\ (\A i \in 1 .. n : t[i] = ml[i]) /\ t[n + 1] = m
    BY Appended
  <1>2. ASSUME NEW p, NEW i \in 1 .. n + 1 PROVE Tracked(ps, t, p, i) <=> Tracked(ps, ml, p, i)
    <2>1. \A l \in 1 .. n + 1 : l < i => l \in 1 .. n /\ t[l] = ml[l]
      BY <1>1, <1>2
    <2>2. \A l \in 1 .. n : l \in 1 .. n + 1
      BY <1>1
    <2> QED
      BY <1>1, <2>1, <2>2 DEF Tracked
  <1>3. ASSUME NEW p, Adds(m, p) PROVE Tracked(ps, t, p, n + 2)
    <2>1. n + 1 \in 1 .. n + 1 /\ n + 1 < n + 2 /\ \A l \in 1 .. n + 1 : ~(n + 1 < l)
      BY <1>1
    <2> QED
      BY <1>1, <1>3, <2>1 DEF Tracked
  <1>4. ASSUME NEW p, Tracked(ps, ml, p, n + 1), ~Drops(m, p) PROVE Tracked(ps, t, p, n + 2)
    <2>1. \A l \in 1 .. n + 1 : l = n + 1 \/ (l \in 1 .. n /\ l < n + 1 /\ t[l] = ml[l])
      BY <1>1
    <2>2. \A l \in 1 .. n : l \in 1 .. n + 1 /\ l < n + 2 /\ t[l] = ml[l]
      BY <1>1
    <2>3. CASE p \in ps /\ \A l \in 1 .. n : l < n + 1 => ~Drops(ml[l], p)
      BY <1>1, <1>4, <2>1, <2>3 DEF Tracked
    <2>4. CASE \E k \in 1 .. n : k < n + 1 /\ Adds(ml[k], p) /\ \A l \in 1 .. n : k < l /\ l < n + 1 => ~Drops(ml[l], p)
      <3>1. PICK k \in 1 .. n : Adds(ml[k], p) /\ \A l \in 1 .. n : k < l /\ l < n + 1 => ~Drops(ml[l], p)
        BY <2>4
      <3>2. \A l \in 1 .. n + 1 : k < l => ~Drops(t[l], p)
        BY <1>1, <1>4, <2>1, <3>1
      <3> QED
        BY <1>1, <2>2, <3>1, <3>2 DEF Tracked
    <2> QED
      BY <1>1, <1>4, <2>3, <2>4 DEF Tracked
  <1> QED
    BY <1>2, <1>3, <1>4

\* The mail t is ml without its first message.
Took(ml, t) ==
    /\ Len(ml) \in Nat \ {0} /\ Len(t) = Len(ml) - 1 /\ t \in Seq(Messages)
    /\ Head(ml) = ml[1] /\ ml[1] \in Messages
    /\ \A i \in 1 .. Len(ml) - 1 : t[i] = ml[i + 1] /\ i + 1 \in 1 .. Len(ml) /\ i \in 0 .. Len(ml) - 1 /\ i \in 1 .. Len(ml)
    /\ 0 \in 0 .. Len(ml) - 1 /\ 1 \in 1 .. Len(ml)
    /\ \A p : \A i \in 0 .. Len(ml) - 1 : DropsAfter(t, p, i) <=> DropsAfter(ml, p, i + 1)
    /\ \A p : \A i \in 0 .. Len(ml) - 1 : AnswerAfter(t, p, i) <=> AnswerAfter(ml, p, i + 1)
    /\ \A p : \A i \in 0 .. Len(ml) - 1 : StatusAfter(t, p, i) <=> StatusAfter(ml, p, i + 1)
    /\ \A p : \A i \in 0 .. Len(ml) - 1 : BatteryAfter(t, p, i) <=> BatteryAfter(ml, p, i + 1)
    /\ \A k : \A i \in 0 .. Len(ml) - 1 : KindAfter(t, k, i) <=> KindAfter(ml, k, i + 1)
    /\ \A p : DropsAfter(ml, p, 0) <=> Drops(ml[1], p) \/ DropsAfter(t, p, 0)
    /\ \A p : AnswerAfter(ml, p, 0) <=> Answers(ml[1], p) \/ AnswerAfter(t, p, 0)
    /\ \A p : StatusAfter(ml, p, 0) <=> Statuses(ml[1], p) \/ StatusAfter(t, p, 0)
    /\ \A p : BatteryAfter(ml, p, 0) <=> Batteries(ml[1], p) \/ BatteryAfter(t, p, 0)
    /\ \A k : KindAfter(ml, k, 0) <=> ml[1].kind = k \/ KindAfter(t, k, 0)

\* The first message is handled.
LEMMA Handled ==
    ASSUME NEW ml \in Seq(Messages), ml # << >>, NEW t, t = Tail(ml), NEW n, n = Len(ml)
    PROVE  Took(ml, t)
  <1>1. n \in Nat \ {0} /\ Len(t) = n - 1 /\ t \in Seq(Messages) /\ Head(ml) = ml[1] /\ ml[1] \in Messages
        /\ \A i \in 1 .. n - 1 : t[i] = ml[i + 1]
    BY Taken
  <1>2. /\ \A i \in 1 .. n - 1 : i + 1 \in 1 .. n /\ i \in 0 .. n - 1 /\ i \in 1 .. n
        /\ 0 \in 0 .. n - 1 /\ 1 \in 1 .. n
    BY <1>1
  <1>3. \A i \in 0 .. n - 1 : \A j \in 1 .. n : i + 1 < j => j - 1 \in 1 .. n - 1 /\ i < j - 1 /\ t[j - 1] = ml[j]
    <2> SUFFICES ASSUME NEW i \in 0 .. n - 1, NEW j \in 1 .. n, i + 1 < j
                 PROVE  j - 1 \in 1 .. n - 1 /\ i < j - 1 /\ t[j - 1] = ml[j]
      OBVIOUS
    <2>1. j - 1 \in 1 .. n - 1 /\ i < j - 1 /\ (j - 1) + 1 = j
      BY <1>1
    <2> QED
      BY <1>1, <2>1
  <1>4. \A i \in 0 .. n - 1 : \A j \in 1 .. n - 1 : i < j => j + 1 \in 1 .. n /\ i + 1 < j + 1 /\ t[j] = ml[j + 1]
    BY <1>1
  <1>5. \A p : \A i \in 0 .. n - 1 : DropsAfter(t, p, i) <=> DropsAfter(ml, p, i + 1)
    <2> SUFFICES ASSUME NEW p, NEW i \in 0 .. n - 1 PROVE DropsAfter(t, p, i) <=> DropsAfter(ml, p, i + 1)
      OBVIOUS
    <2>1. ASSUME NEW j \in 1 .. n - 1, i < j, Drops(t[j], p) PROVE \E m \in 1 .. n : i + 1 < m /\ Drops(ml[m], p)
      BY <1>4, <2>1
    <2>2. ASSUME NEW j \in 1 .. n, i + 1 < j, Drops(ml[j], p) PROVE \E m \in 1 .. n - 1 : i < m /\ Drops(t[m], p)
      BY <1>3, <2>2
    <2> QED
      BY <1>1, <2>1, <2>2 DEF DropsAfter
  <1>6. \A p : \A i \in 0 .. n - 1 : AnswerAfter(t, p, i) <=> AnswerAfter(ml, p, i + 1)
    <2> SUFFICES ASSUME NEW p, NEW i \in 0 .. n - 1 PROVE AnswerAfter(t, p, i) <=> AnswerAfter(ml, p, i + 1)
      OBVIOUS
    <2>1. ASSUME NEW j \in 1 .. n - 1, i < j, Answers(t[j], p) PROVE \E m \in 1 .. n : i + 1 < m /\ Answers(ml[m], p)
      BY <1>4, <2>1
    <2>2. ASSUME NEW j \in 1 .. n, i + 1 < j, Answers(ml[j], p) PROVE \E m \in 1 .. n - 1 : i < m /\ Answers(t[m], p)
      BY <1>3, <2>2
    <2> QED
      BY <1>1, <2>1, <2>2 DEF AnswerAfter
  <1>7. \A p : \A i \in 0 .. n - 1 : StatusAfter(t, p, i) <=> StatusAfter(ml, p, i + 1)
    <2> SUFFICES ASSUME NEW p, NEW i \in 0 .. n - 1 PROVE StatusAfter(t, p, i) <=> StatusAfter(ml, p, i + 1)
      OBVIOUS
    <2>1. ASSUME NEW j \in 1 .. n - 1, i < j, Statuses(t[j], p) PROVE \E m \in 1 .. n : i + 1 < m /\ Statuses(ml[m], p)
      BY <1>4, <2>1
    <2>2. ASSUME NEW j \in 1 .. n, i + 1 < j, Statuses(ml[j], p) PROVE \E m \in 1 .. n - 1 : i < m /\ Statuses(t[m], p)
      BY <1>3, <2>2
    <2> QED
      BY <1>1, <2>1, <2>2 DEF StatusAfter
  <1>8. \A p : \A i \in 0 .. n - 1 : BatteryAfter(t, p, i) <=> BatteryAfter(ml, p, i + 1)
    <2> SUFFICES ASSUME NEW p, NEW i \in 0 .. n - 1 PROVE BatteryAfter(t, p, i) <=> BatteryAfter(ml, p, i + 1)
      OBVIOUS
    <2>1. ASSUME NEW j \in 1 .. n - 1, i < j, Batteries(t[j], p) PROVE \E m \in 1 .. n : i + 1 < m /\ Batteries(ml[m], p)
      BY <1>4, <2>1
    <2>2. ASSUME NEW j \in 1 .. n, i + 1 < j, Batteries(ml[j], p) PROVE \E m \in 1 .. n - 1 : i < m /\ Batteries(t[m], p)
      BY <1>3, <2>2
    <2> QED
      BY <1>1, <2>1, <2>2 DEF BatteryAfter
  <1>9. \A k : \A i \in 0 .. n - 1 : KindAfter(t, k, i) <=> KindAfter(ml, k, i + 1)
    <2> SUFFICES ASSUME NEW k, NEW i \in 0 .. n - 1 PROVE KindAfter(t, k, i) <=> KindAfter(ml, k, i + 1)
      OBVIOUS
    <2>1. ASSUME NEW j \in 1 .. n - 1, i < j, t[j].kind = k PROVE \E m \in 1 .. n : i + 1 < m /\ ml[m].kind = k
      BY <1>4, <2>1
    <2>2. ASSUME NEW j \in 1 .. n, i + 1 < j, ml[j].kind = k PROVE \E m \in 1 .. n - 1 : i < m /\ t[m].kind = k
      BY <1>3, <2>2
    <2> QED
      BY <1>1, <2>1, <2>2 DEF KindAfter
  <1>10. 1 \in 1 .. n /\ 0 < 1 /\ (\A j \in 1 .. n : 0 < j <=> (j = 1 \/ 1 < j)) /\ 0 + 1 = 1
    BY <1>1
  <1>16. 0 \in 0 .. n - 1
    BY <1>1
  <1>11. \A p : DropsAfter(ml, p, 0) <=> Drops(ml[1], p) \/ DropsAfter(t, p, 0)
    <2>1. \A p : DropsAfter(ml, p, 0) <=> Drops(ml[1], p) \/ DropsAfter(ml, p, 1)
      BY <1>1, <1>10 DEF DropsAfter
    <2>2. ASSUME NEW p PROVE DropsAfter(t, p, 0) <=> DropsAfter(ml, p, 1)
      <3>1. DropsAfter(t, p, 0) <=> DropsAfter(ml, p, 0 + 1)
        BY <1>5, <1>16
      <3> QED
        BY <3>1, <1>10
    <2> QED
      BY <2>1, <2>2
  <1>12. \A p : AnswerAfter(ml, p, 0) <=> Answers(ml[1], p) \/ AnswerAfter(t, p, 0)
    <2>1. \A p : AnswerAfter(ml, p, 0) <=> Answers(ml[1], p) \/ AnswerAfter(ml, p, 1)
      BY <1>1, <1>10 DEF AnswerAfter
    <2>2. ASSUME NEW p PROVE AnswerAfter(t, p, 0) <=> AnswerAfter(ml, p, 1)
      <3>1. AnswerAfter(t, p, 0) <=> AnswerAfter(ml, p, 0 + 1)
        BY <1>6, <1>16
      <3> QED
        BY <3>1, <1>10
    <2> QED
      BY <2>1, <2>2
  <1>13. \A p : StatusAfter(ml, p, 0) <=> Statuses(ml[1], p) \/ StatusAfter(t, p, 0)
    <2>1. \A p : StatusAfter(ml, p, 0) <=> Statuses(ml[1], p) \/ StatusAfter(ml, p, 1)
      BY <1>1, <1>10 DEF StatusAfter
    <2>2. ASSUME NEW p PROVE StatusAfter(t, p, 0) <=> StatusAfter(ml, p, 1)
      <3>1. StatusAfter(t, p, 0) <=> StatusAfter(ml, p, 0 + 1)
        BY <1>7, <1>16
      <3> QED
        BY <3>1, <1>10
    <2> QED
      BY <2>1, <2>2
  <1>14. \A p : BatteryAfter(ml, p, 0) <=> Batteries(ml[1], p) \/ BatteryAfter(t, p, 0)
    <2>1. \A p : BatteryAfter(ml, p, 0) <=> Batteries(ml[1], p) \/ BatteryAfter(ml, p, 1)
      BY <1>1, <1>10 DEF BatteryAfter
    <2>2. ASSUME NEW p PROVE BatteryAfter(t, p, 0) <=> BatteryAfter(ml, p, 1)
      <3>1. BatteryAfter(t, p, 0) <=> BatteryAfter(ml, p, 0 + 1)
        BY <1>8, <1>16
      <3> QED
        BY <3>1, <1>10
    <2> QED
      BY <2>1, <2>2
  <1>15. \A k : KindAfter(ml, k, 0) <=> ml[1].kind = k \/ KindAfter(t, k, 0)
    <2>1. \A k : KindAfter(ml, k, 0) <=> ml[1].kind = k \/ KindAfter(ml, k, 1)
      BY <1>1, <1>10 DEF KindAfter
    <2>2. ASSUME NEW k PROVE KindAfter(t, k, 0) <=> KindAfter(ml, k, 1)
      <3>1. KindAfter(t, k, 0) <=> KindAfter(ml, k, 0 + 1)
        BY <1>9, <1>16
      <3> QED
        BY <3>1, <1>10
    <2> QED
      BY <2>1, <2>2
  <1> QED
    BY <1>1, <1>2, <1>5, <1>6, <1>7, <1>8, <1>9, <1>11, <1>12, <1>13, <1>14, <1>15 DEF Took

\* What the proxies are when a message comes does not change as those before
\* it are handled.
LEMMA HandledTracked ==
    ASSUME NEW ml \in Seq(Messages), ml # << >>, NEW t, t = Tail(ml), NEW n, n = Len(ml), NEW ps, NEW qs,
           NEW p, NEW i \in 1 .. n
    PROVE  /\ (p \in qs => Adds(ml[1], p) \/ (p \in ps /\ ~Drops(ml[1], p))) /\ Tracked(qs, t, p, i)
                 => Tracked(ps, ml, p, i + 1)
           /\ (Adds(ml[1], p) \/ (p \in ps /\ ~Drops(ml[1], p)) => p \in qs) /\ Tracked(ps, ml, p, i + 1)
                 => Tracked(qs, t, p, i)
  <1>1. n \in Nat \ {0} /\ Len(t) = n - 1 /\ \A j \in 1 .. n - 1 : t[j] = ml[j + 1]
    BY Taken
  <1>2. \A j \in 1 .. n : j = 1 \/ (j - 1 \in 1 .. n - 1 /\ t[j - 1] = ml[j])
    <2> SUFFICES ASSUME NEW j \in 1 .. n, j # 1 PROVE j - 1 \in 1 .. n - 1 /\ t[j - 1] = ml[j]
      OBVIOUS
    <2>1. j - 1 \in 1 .. n - 1 /\ (j - 1) + 1 = j
      BY <1>1
    <2> QED
      BY <1>1, <2>1
  <1>3. \A j \in 1 .. n - 1 : j + 1 \in 1 .. n /\ t[j] = ml[j + 1]
    BY <1>1
  <1>4. 1 \in 1 .. n /\ 1 < i + 1
    BY <1>1
  <1>5. ASSUME p \in qs => Adds(ml[1], p) \/ (p \in ps /\ ~Drops(ml[1], p)), Tracked(qs, t, p, i)
        PROVE  Tracked(ps, ml, p, i + 1)
    <2>1. CASE p \in qs /\ \A l \in 1 .. n - 1 : l < i => ~Drops(t[l], p)
      <3>1. \A l \in 1 .. n : 1 < l /\ l < i + 1 => ~Drops(ml[l], p)
        <4> SUFFICES ASSUME NEW l \in 1 .. n, 1 < l, l < i + 1 PROVE ~Drops(ml[l], p)
          OBVIOUS
        <4>1. l - 1 \in 1 .. n - 1 /\ l - 1 < i /\ l # 1
          BY <1>1
        <4> QED
          BY <1>2, <2>1, <4>1
      <3>2. \A l \in 1 .. n : l = 1 \/ 1 < l
        BY <1>1
      <3>3. CASE Adds(ml[1], p)
        BY <1>1, <1>4, <3>1, <3>3 DEF Tracked
      <3>4. CASE p \in ps /\ ~Drops(ml[1], p)
        BY <1>1, <3>1, <3>2, <3>4 DEF Tracked
      <3> QED
        BY <1>5, <2>1, <3>3, <3>4
    <2>2. CASE \E k \in 1 .. n - 1 : k < i /\ Adds(t[k], p) /\ \A l \in 1 .. n - 1 : k < l /\ l < i => ~Drops(t[l], p)
      <3>1. PICK k \in 1 .. n - 1 : k < i /\ Adds(t[k], p) /\ \A l \in 1 .. n - 1 : k < l /\ l < i => ~Drops(t[l], p)
        BY <2>2
      <3>2. k + 1 \in 1 .. n /\ k + 1 < i + 1 /\ Adds(ml[k + 1], p)
        BY <1>1, <3>1
      <3>3. \A l \in 1 .. n : k + 1 < l /\ l < i + 1 => ~Drops(ml[l], p)
        <4> SUFFICES ASSUME NEW l \in 1 .. n, k + 1 < l, l < i + 1 PROVE ~Drops(ml[l], p)
          OBVIOUS
        <4>1. l - 1 \in 1 .. n - 1 /\ l - 1 < i /\ k < l - 1 /\ l # 1
          BY <1>1
        <4> QED
          BY <1>2, <3>1, <4>1
      <3> QED
        BY <1>1, <3>2, <3>3 DEF Tracked
    <2> QED
      BY <1>1, <1>5, <2>1, <2>2 DEF Tracked
  <1>6. ASSUME Adds(ml[1], p) \/ (p \in ps /\ ~Drops(ml[1], p)) => p \in qs, Tracked(ps, ml, p, i + 1)
        PROVE  Tracked(qs, t, p, i)
    <2>0. ASSUME NEW l \in 1 .. n - 1, l < i PROVE l + 1 \in 1 .. n /\ l + 1 < i + 1 /\ 1 < l + 1
      BY <2>0, <1>1
    <2>1. CASE p \in ps /\ \A l \in 1 .. n : l < i + 1 => ~Drops(ml[l], p)
      BY <1>1, <1>3, <1>4, <1>6, <2>0, <2>1 DEF Tracked
    <2>2. CASE \E k \in 1 .. n : k < i + 1 /\ Adds(ml[k], p) /\ \A l \in 1 .. n : k < l /\ l < i + 1 => ~Drops(ml[l], p)
      <3>1. PICK k \in 1 .. n : k < i + 1 /\ Adds(ml[k], p) /\ \A l \in 1 .. n : k < l /\ l < i + 1 => ~Drops(ml[l], p)
        BY <2>2
      <3>2. CASE k = 1
        BY <1>1, <1>3, <1>6, <2>0, <3>1, <3>2 DEF Tracked
      <3>3. CASE k # 1
        <4>1. k - 1 \in 1 .. n - 1 /\ k - 1 < i /\ Adds(t[k - 1], p)
          BY <1>1, <1>2, <3>1, <3>3
        <4>2. \A l \in 1 .. n - 1 : k - 1 < l /\ l < i => ~Drops(t[l], p)
          <5> SUFFICES ASSUME NEW l \in 1 .. n - 1, k - 1 < l, l < i PROVE ~Drops(t[l], p)
            OBVIOUS
          <5>1. l + 1 \in 1 .. n /\ k < l + 1 /\ l + 1 < i + 1
            BY <1>1, <3>1
          <5> QED
            BY <1>3, <3>1, <5>1
        <4> QED
          BY <1>1, <4>1, <4>2 DEF Tracked
      <3> QED
        BY <3>2, <3>3
    <2> QED
      BY <1>1, <1>6, <2>1, <2>2 DEF Tracked
  <1> QED
    BY <1>5, <1>6

-----------------------------------------------------------------------------
(* The calls                                                                *)

\* The calls u read the devices of S.
AsksAll(u, S) ==
    /\ u \in Seq(ConnCalls)
    /\ \A n \in 1 .. Len(u) : \E p \in S : u[n] = GetAll(p)
    /\ \A p \in S : \E n \in 1 .. Len(u) : u[n] = GetAll(p)

\* The calls ds are cs and, behind them, one to read each device of S.
AsksMore(ds, cs, S) ==
    /\ ds \in Seq(ConnCalls)
    /\ ListAsked(ds) <=> ListAsked(cs)
    /\ \A p : ReadAsked(ds, p) <=> ReadAsked(cs, p) \/ p \in S
    /\ \A p : ReadBehind(cs, p) \/ p \in S => ReadBehind(ds, p)

\* Calls are made behind the others.
LEMMA AskingBehind ==
    ASSUME NEW S, NEW cs \in Seq(ConnCalls), NEW u, AsksAll(u, S), NEW ds, ds = cs \o u
    PROVE  AsksMore(ds, cs, S)
  <1> DEFINE k == Len(cs)
             l == Len(u)
  <1>u. u \in Seq(ConnCalls) /\ (\A n \in 1 .. l : \E p \in S : u[n] = GetAll(p))
        /\ \A p \in S : \E n \in 1 .. l : u[n] = GetAll(p)
    BY DEF AsksAll
  <1>4. k \in Nat /\ Len(ds) = k + l /\ ds \in Seq(ConnCalls) /\ (\A i \in 1 .. k : ds[i] = cs[i])
        /\ \A i \in 1 .. l : ds[k + i] = u[i]
    <2>1. u \in Seq(ConnCalls)
      BY <1>u
    <2> QED
      BY <2>1, Joined
  <1>1. l \in Nat
    BY <1>u
  <1> HIDE DEF k
  <1>5. \A i \in 1 .. k + l : i \in 1 .. k \/ (i - k \in 1 .. l /\ k + (i - k) = i)
    BY <1>1, <1>4
  <1>6. \A i \in 1 .. k + l : i \in 1 .. k \/ (k < i /\ \E p \in S : ds[i] = GetAll(p))
    <2> SUFFICES ASSUME NEW i \in 1 .. k + l, i \notin 1 .. k PROVE k < i /\ \E p \in S : ds[i] = GetAll(p)
      OBVIOUS
    <2>1. ds[i] = u[i - k] /\ i - k \in 1 .. l
      BY <1>4, <1>5
    <2> QED
      BY <2>1, <1>1, <1>4, <1>u
  <1>7. \A p \in S : \E i \in 1 .. k + l : k < i /\ ds[i] = GetAll(p)
    <2> SUFFICES ASSUME NEW p \in S PROVE \E i \in 1 .. k + l : k < i /\ ds[i] = GetAll(p)
      OBVIOUS
    <2>1. PICK j \in 1 .. l : u[j] = GetAll(p)
      BY <1>u
    <2>2. k + j \in 1 .. k + l /\ k < k + j
      BY <1>1, <1>4
    <2>3. ds[k + j] = GetAll(p)
      BY <1>4, <2>1
    <2> QED
      BY <2>2, <2>3
  <1>8. \A i \in 1 .. k : i \in 1 .. k + l
    BY <1>1, <1>4
  <1>9. ListAsked(ds) <=> ListAsked(cs)
    <2>1. ASSUME NEW i \in 1 .. k + l, ds[i] = Enumeration PROVE i \in 1 .. k /\ cs[i] = Enumeration
      <3>1. \A p \in S : ds[i] # GetAll(p)
        BY <2>1, CallKinds
      <3> QED
        BY <3>1, <2>1, <1>4, <1>6
    <2>2. ASSUME NEW i \in 1 .. k, cs[i] = Enumeration PROVE i \in 1 .. k + l /\ ds[i] = Enumeration
      BY <2>2, <1>4, <1>8
    <2> QED
      BY <2>1, <2>2, <1>4 DEF ListAsked, k
  <1>10. ASSUME NEW p PROVE ReadAsked(ds, p) <=> ReadAsked(cs, p) \/ p \in S
    <2>1. ASSUME NEW i \in 1 .. k + l, ds[i] = GetAll(p) PROVE (\E j \in 1 .. k : cs[j] = GetAll(p)) \/ p \in S
      BY <1>4, <1>6, <2>1, CallKinds
    <2>2. ASSUME NEW i \in 1 .. k, cs[i] = GetAll(p) PROVE \E j \in 1 .. k + l : ds[j] = GetAll(p)
      BY <1>4, <1>8, <2>2
    <2> QED
      BY <1>4, <1>7, <2>1, <2>2 DEF ReadAsked, k
  <1>11. ASSUME NEW p, ReadBehind(cs, p) \/ p \in S PROVE ReadBehind(ds, p)
    <2> SUFFICES ASSUME NEW i \in 1 .. k + l, ds[i] = Enumeration
                 PROVE  \E j \in 1 .. k + l : i < j /\ ds[j] = GetAll(p)
      BY <1>4 DEF ReadBehind
    <2>1. i \in 1 .. k /\ cs[i] = Enumeration
      <3>1. \A q \in S : ds[i] # GetAll(q)
        BY CallKinds
      <3> QED
        BY <3>1, <1>4, <1>6
    <2>2. CASE p \in S
      <3>1. PICK j \in 1 .. k + l : k < j /\ ds[j] = GetAll(p)
        BY <1>7, <2>2
      <3>2. i < j
        BY <1>1, <1>4, <2>1, <3>1
      <3> QED
        BY <3>1, <3>2
    <2>3. CASE ReadBehind(cs, p)
      <3>1. PICK j \in 1 .. k : i < j /\ cs[j] = GetAll(p)
        BY <2>1, <2>3 DEF ReadBehind, k
      <3> QED
        BY <3>1, <1>4, <1>8
    <2> QED
      BY <1>11, <2>2, <2>3
  <1> QED
    BY <1>4, <1>9, <1>10, <1>11 DEF AsksMore

\* The devices are asked for, in the order of a list of them.
LEMMA Asking ==
    ASSUME NEW S \in SUBSET DevicePaths, NEW new, new = SetToSeq(S),
           NEW u, u = [n \in 1 .. Len(new) |-> GetAll(new[n])]
    PROVE  AsksAll(u, S)
  <1>0. new \in Seq(S) /\ ToSet(new) = S
    <2>1. IsFiniteSet(S)
      BY DevicePathsAssumption, FS_Subset
    <2> QED
      BY <2>1, Listing
  <1>1. Len(new) \in Nat /\ DOMAIN new = 1 .. Len(new) /\ \A n \in 1 .. Len(new) : new[n] \in S
    BY <1>0
  <1>2. u \in Seq(ConnCalls) /\ Len(u) = Len(new) /\ \A n \in 1 .. Len(new) : u[n] = GetAll(new[n])
    <2>1. \A n \in 1 .. Len(new) : GetAll(new[n]) \in ConnCalls
      BY <1>1 DEF ConnCalls
    <2> QED
      BY <1>1, <2>1
  <1>3. \A n \in 1 .. Len(u) : \E p \in S : u[n] = GetAll(p)
    BY <1>1, <1>2
  <1>4. \A p \in S : \E n \in 1 .. Len(u) : u[n] = GetAll(p)
    BY <1>0, <1>1, <1>2 DEF ToSet
  <1> QED
    BY <1>2, <1>3, <1>4 DEF AsksAll

\* The list is asked for behind the others.
LEMMA AskingList ==
    ASSUME NEW cs \in Seq(ConnCalls), NEW new \in Seq({Enumeration}), Len(new) > 0, NEW ds, ds = cs \o new
    PROVE  ds \in Seq(ConnCalls) /\ ListAsked(ds) /\ \A p : ReadAsked(ds, p) <=> ReadAsked(cs, p)
  <1> DEFINE k == Len(cs)
             l == Len(new)
  <1>1. \A i \in 1 .. l : new[i] = Enumeration
    OBVIOUS
  <1>2. new \in Seq(ConnCalls) /\ l \in Nat
    BY DEF ConnCalls
  <1>3. k \in Nat /\ Len(ds) = k + l /\ ds \in Seq(ConnCalls) /\ (\A i \in 1 .. k : ds[i] = cs[i])
        /\ \A i \in 1 .. l : ds[k + i] = new[i]
    BY <1>2, Joined
  <1>4. \A i \in 1 .. k + l : i \in 1 .. k \/ ds[i] = Enumeration
    <2> SUFFICES ASSUME NEW i \in 1 .. k + l, i \notin 1 .. k PROVE ds[i] = Enumeration
      OBVIOUS
    <2>1. i - k \in 1 .. l /\ k + (i - k) = i
      BY <1>2, <1>3
    <2> QED
      BY <1>1, <1>3, <2>1
  <1>5. k + 1 \in 1 .. k + l /\ ds[k + 1] = Enumeration
    BY <1>1, <1>2, <1>3
  <1>6. \A i \in 1 .. k : i \in 1 .. k + l
    BY <1>2, <1>3
  <1> HIDE DEF k, l
  <1>7. ListAsked(ds)
    BY <1>3, <1>5 DEF ListAsked
  <1>8. \A p : ReadAsked(ds, p) <=> ReadAsked(cs, p)
    BY <1>3, <1>4, <1>6, CallKinds DEF ReadAsked, k
  <1> QED
    BY <1>3, <1>7, <1>8

\* The first call is answered.
LEMMA CallGone ==
    ASSUME NEW cs \in Seq(ConnCalls), cs # << >>, NEW ds, ds = Tail(cs)
    PROVE  /\ ds \in Seq(ConnCalls) /\ Head(cs) \in ConnCalls
           /\ ListAsked(cs) <=> Head(cs) = Enumeration \/ ListAsked(ds)
           /\ \A p : ReadAsked(cs, p) <=> Head(cs) = GetAll(p) \/ ReadAsked(ds, p)
           /\ \A p : ReadBehind(cs, p) => ReadBehind(ds, p)
           /\ \A p : Head(cs) = Enumeration /\ ReadBehind(cs, p) => ReadAsked(ds, p)
  <1> DEFINE k == Len(cs)
  <1>1. k \in Nat \ {0} /\ Len(ds) = k - 1 /\ ds \in Seq(ConnCalls) /\ Head(cs) = cs[1] /\ cs[1] \in ConnCalls
        /\ \A i \in 1 .. k - 1 : ds[i] = cs[i + 1]
    BY Taken
  <1>2. \A i \in 1 .. k : i = 1 \/ (i - 1 \in 1 .. k - 1 /\ ds[i - 1] = cs[i])
    <2> SUFFICES ASSUME NEW i \in 1 .. k, i # 1 PROVE i - 1 \in 1 .. k - 1 /\ ds[i - 1] = cs[i]
      OBVIOUS
    <2>1. i - 1 \in 1 .. k - 1 /\ (i - 1) + 1 = i
      BY <1>1
    <2> QED
      BY <1>1, <2>1
  <1>3. \A i \in 1 .. k - 1 : i + 1 \in 1 .. k /\ ds[i] = cs[i + 1]
    BY <1>1
  <1>4. 1 \in 1 .. k
    BY <1>1
  <1> HIDE DEF k
  <1>5. ListAsked(cs) <=> cs[1] = Enumeration \/ ListAsked(ds)
    BY <1>1, <1>2, <1>3, <1>4 DEF ListAsked, k
  <1>6. \A p : ReadAsked(cs, p) <=> cs[1] = GetAll(p) \/ ReadAsked(ds, p)
    BY <1>1, <1>2, <1>3, <1>4 DEF ReadAsked, k
  <1>7. ASSUME NEW p, ReadBehind(cs, p) PROVE ReadBehind(ds, p) /\ (cs[1] = Enumeration => ReadAsked(ds, p))
    <2>1. ASSUME NEW i \in 1 .. k, cs[i] = Enumeration
          PROVE  \E j \in 1 .. k - 1 : i - 1 < j /\ ds[j] = GetAll(p)
      <3>1. PICK j \in 1 .. k : i < j /\ cs[j] = GetAll(p)
        BY <1>7, <2>1 DEF ReadBehind, k
      <3>2. j # 1 /\ i - 1 < j - 1
        BY <3>1, <1>1
      <3> QED
        BY <3>1, <3>2, <1>2
    <2>2. ReadBehind(ds, p)
      <3> SUFFICES ASSUME NEW i \in 1 .. k - 1, ds[i] = Enumeration PROVE \E j \in 1 .. k - 1 : i < j /\ ds[j] = GetAll(p)
        BY <1>1 DEF ReadBehind
      <3>1. i + 1 \in 1 .. k /\ cs[i + 1] = Enumeration /\ (i + 1) - 1 = i
        BY <1>1, <1>3
      <3> QED
        BY <2>1, <3>1
    <2>3. cs[1] = Enumeration => ReadAsked(ds, p)
      BY <1>1, <1>4, <2>1 DEF ReadAsked
    <2> QED
      BY <2>2, <2>3
  <1> QED
    BY <1>1, <1>5, <1>6, <1>7

-----------------------------------------------------------------------------
(* The steps, as they change the mail, the calls and the view               *)

\* States of the devices.
Powers == [DevicePaths -> [awake : BOOLEAN, known : BOOLEAN]]

\* The types of the state.
ConnTypes ==
    /\ mail \in Seq(Messages) /\ calls \in Seq(ConnCalls) /\ rows \in Seq(Row)
    /\ up \in BOOLEAN /\ allowed \in BOOLEAN /\ failed \in BOOLEAN
    /\ listed \subseteq DevicePaths /\ nodes \subseteq DevicePaths /\ leaving \subseteq DevicePaths
    /\ proxies \subseteq DevicePaths /\ screen \in ScreenState
    /\ power \in Powers

\* What the daemon has on the bus: a list, and objects.
There == listed \cup leaving
DaemonLists == listed \cap leaving = {} /\ There \subseteq nodes

\* A property of a device has changed since the reading under way, and not after
\* it.
Overtaken(p, k) == <<p, k>> \in overtaken

\* The daemon tells of a change.
Telling(m) == m \in Messages /\ mail' = Append(mail, m) /\ UNCHANGED <<allowed, calls, guiVars>>
Appearing(m) ==
    /\ Telling(m) /\ m.kind = "added" /\ up /\ up' /\ m.path \notin nodes
    /\ listed' = listed \cup {m.path} /\ nodes' = nodes \cup {m.path} /\ leaving' = leaving
    /\ power' \in Powers /\ \A q \in DevicePaths \ {m.path} : power'[q] = power[q]
    /\ Changed(m.path, {"awake", "known"})
Vanishing(m) ==
    /\ Telling(m) /\ m.kind = "removed" /\ up' = up
    /\ listed' = listed \ {m.path} /\ leaving' = leaving \ {m.path} /\ nodes' = nodes /\ power' = power
    /\ overtaken' = overtaken
Powering(m) ==
    /\ Telling(m) /\ m.kind = "status" /\ up /\ up' /\ m.path \in listed
    /\ UNCHANGED <<listed, leaving, nodes>>
    /\ power' \in Powers /\ m.awake = power'[m.path].awake /\ Changed(m.path, {"awake"})
    /\ \A q \in DevicePaths : power'[q].known = power[q].known /\ (q # m.path => power'[q].awake = power[q].awake)
Charging(m) ==
    /\ Telling(m) /\ m.kind = "battery" /\ up /\ up' /\ m.path \in listed
    /\ UNCHANGED <<listed, leaving, nodes>>
    /\ power' \in Powers /\ power'[m.path].known = TRUE /\ Changed(m.path, {"known"})
    /\ \A q \in DevicePaths : power'[q].awake = power[q].awake /\ (q # m.path => power'[q].known = power[q].known)

\* A device leaves the list, its object goes, or a property is read, without a
\* word.
Moving ==
    /\ listed' \subseteq listed /\ There' = There /\ listed' \cap leaving' = {} /\ There' \subseteq nodes'
    /\ nodes' \subseteq nodes
    /\ UNCHANGED <<up, allowed, power, overtaken, calls, mail, guiVars>>

Stopping ==
    /\ up /\ up' = FALSE /\ listed' = {} /\ leaving' = {} /\ nodes' = {} /\ calls' = << >> /\ power' \in Powers
    /\ mail' = Append(mail, [kind |-> "down"]) \o [n \in 1 .. Len(calls) |-> ErrorReply(calls[n], "NoReply")]
    /\ UNCHANGED <<allowed, guiVars>>
Starting(m) ==
    /\ Telling(m) /\ m.kind = "up" /\ ~up /\ up'
    /\ UNCHANGED <<listed, nodes, leaving, power, overtaken>>

\* The devices of S are asked for.
AsksFor(S) == AsksMore(calls', calls, S)

\* The list is asked for.
AsksList ==
    /\ calls' \in Seq(ConnCalls)
    /\ ListAsked(calls')
    /\ \A p : ReadAsked(calls', p) <=> ReadAsked(calls, p)

\* What the answer m to the call c may be.
Answered(c, m) ==
    \/ c = Enumeration /\ m.kind = "listError" /\ (m.name = "AccessDenied" => up)
    \/ c = Enumeration /\ up /\ m.kind = "list" /\ m.paths = listed
    \/ c = GetAll(m.path) /\ m.kind = "readError"
    \/ /\ c = GetAll(m.path) /\ up /\ m.kind = "read"
       /\ m.awake = power[m.path].awake \/ Overtaken(m.path, "awake")
       /\ m.known = power[m.path].known \/ Overtaken(m.path, "known") \/ m.path \notin nodes

\* What GetAll has read of its device is so, unless it has changed since.
AnswerTrue ==
    /\ answer \in [read : 0 .. 2, awake : BOOLEAN, known : BOOLEAN]
    /\ answer.read > 0 => \E p \in DevicePaths :
           /\ calls # << >> /\ Head(calls) = GetAll(p)
           /\ answer.awake = power[p].awake \/ Overtaken(p, "awake")
           /\ answer.read > 1 => answer.known = power[p].known \/ Overtaken(p, "known") \/ p \notin nodes

\* A call is answered with m.
Answering(m) ==
    /\ m \in Messages /\ mail' = Append(mail, m)
    /\ calls # << >> /\ calls' = Tail(calls) /\ Answered(Head(calls), m)
    /\ UNCHANGED <<daemonVars, guiVars>>

\* The first message is handled.
Handling == mail # << >> /\ mail' = Tail(mail) /\ UNCHANGED daemonVars
HandlesError ==
    /\ Handling /\ mail[1].kind = "listError" /\ failed' = TRUE
    /\ screen' = IF mail[1].name = "AccessDenied" THEN "AccessDenied" ELSE "DaemonDown"
    /\ UNCHANGED <<proxies, rows, calls, unread>>
HandlesList ==
    /\ Handling /\ mail[1].kind = "list" /\ proxies' = proxies \cup mail[1].paths /\ AsksFor(mail[1].paths \ proxies)
    /\ screen' = IF mail[1].paths = {} THEN "Empty" ELSE recomputePopulation(screen, proxies')
    /\ UNCHANGED <<rows, failed, unread>>
HandlesAdded ==
    /\ Handling /\ mail[1].kind = "added"
    /\ proxies' = proxies \cup {mail[1].path} /\ AsksFor({mail[1].path} \ proxies)
    /\ UNCHANGED <<screen, rows, failed, unread>>
HandlesRemoved ==
    /\ Handling /\ mail[1].kind = "removed" /\ proxies' = proxies \ {mail[1].path}
    /\ rows' = onDeviceRemoved(rows, mail[1].path) /\ screen' = recomputePopulation(screen, proxies')
    /\ UNCHANGED <<calls, failed, unread>>
HandlesStatus ==
    /\ Handling /\ mail[1].kind = "status"
    /\ rows' = IF mail[1].path \in proxies
               THEN onConnectionStateChanged(rows, mail[1].path, Connection(mail[1].awake)) ELSE rows
    /\ UNCHANGED <<screen, proxies, calls, failed, unread>>
HandlesBattery ==
    /\ Handling /\ mail[1].kind = "battery"
    /\ rows' = IF mail[1].path \in proxies THEN onBatteryChanged(rows, mail[1].path, mail[1].known) ELSE rows
    /\ UNCHANGED <<screen, proxies, calls, failed, unread>>
HandlesRead == Handling /\ ReadReplied(mail[1])
HandlesDown == Handling /\ mail[1].kind = "down" /\ onDaemonDown /\ UNCHANGED unread
HandlesUp ==
    /\ Handling /\ mail[1].kind = "up" /\ teardownProxies /\ screen' = "Loading" /\ AsksList /\ UNCHANGED unread

\* The user retries.
Retrying == teardownProxies /\ screen' = "Loading" /\ AsksList /\ UNCHANGED <<daemonVars, mail, unread>>

\* Every step is one of these.
ConnSteps ==
    \/ \E m \in Messages : Appearing(m) \/ Vanishing(m) \/ Powering(m) \/ Charging(m) \/ Starting(m) \/ Answering(m)
    \/ Moving \/ Stopping
    \/ HandlesError \/ HandlesList \/ HandlesAdded \/ HandlesRemoved \/ HandlesStatus \/ HandlesBattery
    \/ HandlesRead \/ HandlesDown \/ HandlesUp
    \/ Retrying

\* What an answer is.
LEMMA Replied ==
    ASSUME ConnTypes, AnswerTrue, CallAnswered
    PROVE  \E m \in Messages : Answering(m)
  <1> DEFINE first == Head(calls)
  <1>1. calls # << >> /\ calls' = Tail(calls) /\ UNCHANGED <<daemonVars, guiVars>>
    BY DEF CallAnswered
  <1>2. first \in ConnCalls
    BY <1>1 DEF ConnTypes
  <1> HIDE DEF first
  <1>3. ASSUME NEW error \in {"NoReply", "ServiceUnknown", "AccessDenied"}, error = "AccessDenied" => up,
               Tell(ErrorReply(first, error))
        PROVE  \E m \in Messages : Answering(m)
    <2>1. CASE first = Enumeration
      <3> DEFINE m == [kind |-> "listError", name |-> error]
      <3>1. m \in Messages /\ m.kind = "listError" /\ m.name = error
        BY DEF Messages
      <3>2. mail' = Append(mail, m)
        BY <1>3, <2>1, CallKinds DEF Tell, ErrorReply
      <3> HIDE DEF m
      <3>3. Answered(first, m)
        BY <1>3, <2>1, <3>1 DEF Answered
      <3> QED
        BY <1>1, <3>1, <3>2, <3>3 DEF Answering, first
    <2>2. ASSUME NEW p \in DevicePaths, first = GetAll(p) PROVE \E m \in Messages : Answering(m)
      <3> DEFINE m == [kind |-> "readError", path |-> p]
      <3>1. m \in Messages /\ m.kind = "readError" /\ m.path = p
        BY DEF Messages
      <3>2. mail' = Append(mail, m)
        BY <1>3, <2>2, CallKinds DEF Tell, ErrorReply
      <3> HIDE DEF m
      <3>3. Answered(first, m)
        BY <2>2, <3>1 DEF Answered
      <3> QED
        BY <1>1, <3>1, <3>2, <3>3 DEF Answering, first
    <2> QED
      BY <1>2, <2>1, <2>2 DEF ConnCalls
  <1>4. ASSUME up, first.kind = "enumerate", Tell([kind |-> "list", paths |-> listed])
        PROVE  \E m \in Messages : Answering(m)
    <2> DEFINE m == [kind |-> "list", paths |-> listed]
    <2>1. m \in Messages /\ m.kind = "list" /\ m.paths = listed
      BY DEF Messages, ConnTypes
    <2>2. mail' = Append(mail, m)
      BY <1>4 DEF Tell
    <2> HIDE DEF m
    <2>3. first = Enumeration
      <3>1. \A p : first # GetAll(p)
        BY <1>4, CallKinds
      <3> QED
        BY <1>2, <3>1 DEF ConnCalls
    <2>4. Answered(first, m)
      BY <1>4, <2>1, <2>3 DEF Answered
    <2> QED
      BY <1>1, <2>1, <2>2, <2>4 DEF Answering, first
  <1>5. ASSUME up, first.kind = "getAll", answer.read = 2,
               Tell([kind |-> "read", path |-> first.path, awake |-> answer.awake, known |-> answer.known])
        PROVE  \E m \in Messages : Answering(m)
    <2>1. PICK p \in DevicePaths : first = GetAll(p)
      <3>1. first # Enumeration
        BY <1>5, CallKinds
      <3> QED
        BY <1>2, <3>1 DEF ConnCalls
    <2>2. first.path = p
      BY <2>1, CallKinds
    <2> DEFINE m == [kind |-> "read", path |-> p, awake |-> answer.awake, known |-> answer.known]
    <2>3. m \in Messages /\ m.kind = "read" /\ m.path = p /\ m.awake = answer.awake /\ m.known = answer.known
      <3>1. answer.awake \in BOOLEAN /\ answer.known \in BOOLEAN
        BY DEF AnswerTrue
      <3> QED
        BY <3>1 DEF Messages
    <2>6. /\ answer.awake = power[p].awake \/ Overtaken(p, "awake")
          /\ answer.known = power[p].known \/ Overtaken(p, "known") \/ p \notin nodes
      <3>1. PICK q \in DevicePaths :
               /\ first = GetAll(q)
               /\ answer.awake = power[q].awake \/ Overtaken(q, "awake")
               /\ answer.known = power[q].known \/ Overtaken(q, "known") \/ q \notin nodes
        BY <1>5 DEF AnswerTrue, first
      <3> QED
        BY <2>1, <3>1, CallKinds
    <2>4. mail' = Append(mail, m)
      BY <1>5, <2>2 DEF Tell
    <2> HIDE DEF m
    <2>5. Answered(first, m)
      BY <1>5, <2>1, <2>3, <2>6 DEF Answered
    <2> QED
      BY <1>1, <2>3, <2>4, <2>5 DEF Answering, first
  <1>6. \/ ~up /\ Tell(ErrorReply(first, "ServiceUnknown"))
        \/ up /\ Tell(ErrorReply(first, "AccessDenied"))
        \/ up /\ Tell(ErrorReply(first, "NoReply"))
        \/ up /\ first.kind = "enumerate" /\ Tell([kind |-> "list", paths |-> listed])
        \/ up /\ first.kind = "getAll" /\ answer.read = 2
           /\ Tell([kind |-> "read", path |-> first.path, awake |-> answer.awake, known |-> answer.known])
    BY DEF CallAnswered, first
  <1> QED
    BY <1>3, <1>4, <1>5, <1>6

\* What adding devices does.
LEMMA AddsDevices ==
    ASSUME ConnTypes, NEW ps \in SUBSET DevicePaths, addDevices(ps)
    PROVE  proxies' = proxies \cup ps /\ AsksFor(ps \ proxies)
  <1>1. PICK new : new = SetToSeq(ps \ proxies)
    OBVIOUS
  <1>2. PICK u : u = [n \in 1 .. Len(new) |-> GetAll(new[n])]
    OBVIOUS
  <1>3. proxies' = proxies \cup ps /\ calls' = calls \o u
    BY <1>1, <1>2 DEF addDevices
  <1>4. AsksAll(u, ps \ proxies)
    BY <1>1, <1>2, Asking
  <1>5. calls \in Seq(ConnCalls)
    BY DEF ConnTypes
  <1>6. AsksFor(ps \ proxies)
    BY <1>3, <1>4, <1>5, AskingBehind DEF AsksFor
  <1> QED
    BY <1>3, <1>6

\* What asking for the list does.
LEMMA AsksTheList ==
    ASSUME ConnTypes, calls' = calls \o <<Enumeration, Enumeration>> \/ calls' = Append(calls, Enumeration)
    PROVE  AsksList
  <1>1. calls \in Seq(ConnCalls)
    BY DEF ConnTypes
  <1>2. PICK u \in {<<Enumeration, Enumeration>>, <<Enumeration>>} : calls' = calls \o u
    <2>1. calls' = Append(calls, Enumeration) => calls' = calls \o <<Enumeration>>
      BY <1>1
    <2> QED
      BY <2>1
  <1>3. u \in Seq({Enumeration}) /\ Len(u) > 0
    <2>1. CASE u = <<Enumeration, Enumeration>>
      BY <2>1
    <2>2. CASE u = <<Enumeration>>
      BY <2>2
    <2> QED
      BY <1>2, <2>1, <2>2
  <1> QED
    BY <1>1, <1>2, <1>3, AskingList DEF AsksList

\* What a step of the daemon does.
LEMMA DaemonSteps ==
    ASSUME ConnTypes, DaemonLists, NEW p \in DevicePaths,
           DaemonAdds(p) \/ DaemonRemoves(p) \/ DaemonAnnounces(p) \/ DaemonDestroys(p) \/ DevicePowers(p)
    PROVE  ConnSteps
  <1>1. CASE DaemonAdds(p)
    <2> DEFINE m == [kind |-> "added", path |-> p]
    <2>1. m \in Messages /\ m.kind = "added" /\ m.path = p
      BY DEF Messages
    <2>2. mail' = Append(mail, m)
      BY <1>1 DEF DaemonAdds, Tell
    <2> HIDE DEF m
    <2>3. power' \in Powers /\ \A q \in DevicePaths \ {p} : power'[q] = power[q]
      BY <1>1 DEF DaemonAdds, ConnTypes, Powers
    <2>4. Appearing(m)
      BY <1>1, <2>1, <2>2, <2>3 DEF DaemonAdds, Change, Appearing, Telling
    <2> QED
      BY <2>1, <2>4 DEF ConnSteps
  <1>2. ASSUME Tell([kind |-> "removed", path |-> p]), UNCHANGED <<allowed, calls, guiVars, up, nodes, power, overtaken>>,
               listed' = listed \ {p}, leaving' = leaving \ {p}
        PROVE  ConnSteps
    <2> DEFINE m == [kind |-> "removed", path |-> p]
    <2>1. m \in Messages /\ m.kind = "removed" /\ m.path = p
      BY DEF Messages
    <2>2. mail' = Append(mail, m)
      BY <1>2 DEF Tell
    <2> HIDE DEF m
    <2>3. Vanishing(m)
      BY <1>2, <2>1, <2>2 DEF Vanishing, Telling
    <2> QED
      BY <2>1, <2>3 DEF ConnSteps
  <1>3. CASE DaemonRemoves(p)
    <2>1. CASE Tell([kind |-> "removed", path |-> p]) /\ UNCHANGED leaving
      <3>1. p \notin leaving
        BY <1>3 DEF DaemonRemoves, DaemonLists
      <3> QED
        BY <1>2, <1>3, <2>1, <3>1 DEF DaemonRemoves, Change
    <2>2. CASE leaving' = leaving \cup {p} /\ UNCHANGED mail
      <3>1. Moving
        BY <1>3, <2>2 DEF Moving, DaemonRemoves, Change, DaemonLists, There
      <3> QED
        BY <3>1 DEF ConnSteps
    <2> QED
      BY <1>3, <2>1, <2>2 DEF DaemonRemoves
  <1>4. CASE DaemonAnnounces(p)
    <2>1. p \notin listed
      BY <1>4 DEF DaemonAnnounces, DaemonLists
    <2> QED
      BY <1>2, <1>4, <2>1 DEF DaemonAnnounces
  <1>5. CASE DaemonDestroys(p)
    <2>1. Moving
      BY <1>5 DEF Moving, DaemonDestroys, DaemonLists, There
    <2> QED
      BY <2>1 DEF ConnSteps
  <1>6. CASE DevicePowers(p)
    <2>0. power[p] \in [awake : BOOLEAN, known : BOOLEAN] /\ power \in [DevicePaths -> [awake : BOOLEAN, known : BOOLEAN]]
      BY DEF ConnTypes, Powers
    <2>1. CASE /\ power' = [power EXCEPT ![p].awake = ~@] /\ Tell([kind |-> "status", path |-> p, awake |-> power'[p].awake])
               /\ Changed(p, {"awake"})
      <3> DEFINE m == [kind |-> "status", path |-> p, awake |-> power'[p].awake]
      <3>0. power'[p].awake \in BOOLEAN
        BY <2>0, <2>1
      <3>1. m \in Messages /\ m.kind = "status" /\ m.path = p /\ m.awake = power'[p].awake
        BY <3>0 DEF Messages
      <3>2. mail' = Append(mail, m)
        BY <2>1 DEF Tell
      <3> HIDE DEF m
      <3>p. power' \in Powers
        BY <2>0, <2>1 DEF Powers
      <3>3. \A q \in DevicePaths : power'[q].known = power[q].known /\ (q # p => power'[q].awake = power[q].awake)
        BY <2>0, <2>1
      <3>4. Powering(m)
        BY <1>6, <2>1, <3>1, <3>2, <3>3, <3>p DEF DevicePowers, Change, Powering, Telling
      <3> QED
        BY <3>1, <3>4 DEF ConnSteps
    <2>2. CASE /\ power' = [power EXCEPT ![p].known = TRUE] /\ Tell([kind |-> "battery", path |-> p, known |-> TRUE])
               /\ Changed(p, {"known"})
      <3> DEFINE m == [kind |-> "battery", path |-> p, known |-> TRUE]
      <3>1. m \in Messages /\ m.kind = "battery" /\ m.path = p
        BY DEF Messages
      <3>2. mail' = Append(mail, m)
        BY <2>2 DEF Tell
      <3> HIDE DEF m
      <3>3. power'[p].known = TRUE
        BY <2>0, <2>2
      <3>p. power' \in Powers
        BY <2>0, <2>2 DEF Powers
      <3>4. \A q \in DevicePaths : power'[q].awake = power[q].awake /\ (q # p => power'[q].known = power[q].known)
        BY <2>0, <2>2
      <3>5. Charging(m)
        BY <1>6, <2>2, <3>1, <3>2, <3>3, <3>4, <3>p DEF DevicePowers, Change, Charging, Telling
      <3> QED
        BY <3>1, <3>5 DEF ConnSteps
    <2> QED
      BY <1>6, <2>1, <2>2 DEF DevicePowers
  <1> QED
    BY <1>1, <1>3, <1>4, <1>5, <1>6

\* What handling a message does.
LEMMA HandlingSteps ==
    ASSUME ConnTypes, MailHandled
    PROVE  ConnSteps
  <1>1. mail \in Seq(Messages) /\ mail # << >> /\ mail' = Tail(mail) /\ UNCHANGED daemonVars
    BY DEF ConnTypes, MailHandled
  <1>2. PICK m \in Messages : m = mail[1] /\ m = Head(mail)
    BY <1>1, Taken
  <1>3. Handling
    BY <1>1 DEF Handling
  <1>4. \/ EnumerateReplied(m) /\ UNCHANGED unread
        \/ ReadReplied(m)
        \/ SignalReceived(m) /\ UNCHANGED unread
        \/ m.kind = "down" /\ onDaemonDown /\ UNCHANGED unread
        \/ m.kind = "up" /\ onDaemonUp /\ UNCHANGED unread
    BY <1>2 DEF MailHandled
  <1>5. CASE m.kind = "listError" /\ EnumerateReplied(m) /\ UNCHANGED unread
    BY <1>2, <1>3, <1>5 DEF EnumerateReplied, HandlesError, ConnSteps
  <1>6. CASE m.kind = "list" /\ EnumerateReplied(m) /\ UNCHANGED unread
    <2>0. m.paths \in SUBSET DevicePaths
      BY <1>2, <1>6, MessageFields
    <2>1. CASE m.paths = {}
      <3>1. proxies' = proxies \cup m.paths /\ screen' = "Empty" /\ UNCHANGED <<rows, calls, failed>>
        BY <1>6, <2>1 DEF EnumerateReplied
      <3>2. AsksFor(m.paths \ proxies)
        BY <2>1, <3>1 DEF AsksFor, AsksMore, ConnTypes
      <3> QED
        BY <1>2, <1>3, <1>6, <2>1, <3>1, <3>2 DEF HandlesList, ConnSteps
    <2>2. CASE m.paths # {}
      <3>1. addDevices(m.paths) /\ screen' = recomputePopulation(screen, proxies') /\ UNCHANGED <<rows, failed>>
        BY <1>6, <2>2 DEF EnumerateReplied
      <3>2. proxies' = proxies \cup m.paths /\ AsksFor(m.paths \ proxies)
        BY <2>0, <3>1, AddsDevices
      <3> QED
        BY <1>2, <1>3, <1>6, <2>2, <3>1, <3>2 DEF HandlesList, ConnSteps
    <2> QED
      BY <2>1, <2>2
  <1>7. CASE m.kind = "added" /\ SignalReceived(m) /\ UNCHANGED unread
    <2>1. {m.path} \in SUBSET DevicePaths
      BY <1>2, <1>7, MessageFields
    <2>2. addDevices({m.path}) /\ UNCHANGED <<screen, rows, failed>>
      BY <1>7 DEF SignalReceived
    <2>3. proxies' = proxies \cup {m.path} /\ AsksFor({m.path} \ proxies)
      BY <2>1, <2>2, AddsDevices
    <2> QED
      BY <1>2, <1>3, <1>7, <2>2, <2>3 DEF HandlesAdded, ConnSteps
  <1>8. CASE m.kind = "removed" /\ SignalReceived(m) /\ UNCHANGED unread
    BY <1>2, <1>3, <1>8 DEF SignalReceived, HandlesRemoved, ConnSteps
  <1>9. CASE m.kind = "status" /\ SignalReceived(m) /\ UNCHANGED unread
    BY <1>2, <1>3, <1>9 DEF SignalReceived, HandlesStatus, ConnSteps
  <1>10. CASE m.kind = "battery" /\ SignalReceived(m) /\ UNCHANGED unread
    BY <1>2, <1>3, <1>10 DEF SignalReceived, HandlesBattery, ConnSteps
  <1>11. CASE ReadReplied(m)
    BY <1>2, <1>3, <1>11 DEF HandlesRead, ConnSteps
  <1>12. CASE m.kind = "down" /\ onDaemonDown /\ UNCHANGED unread
    BY <1>2, <1>3, <1>12 DEF HandlesDown, ConnSteps
  <1>13. CASE m.kind = "up" /\ onDaemonUp /\ UNCHANGED unread
    <2>1. AsksList
      BY <1>13, AsksTheList DEF onDaemonUp
    <2> QED
      BY <1>2, <1>3, <1>13, <2>1 DEF onDaemonUp, HandlesUp, ConnSteps
  <1>14. EnumerateReplied(m) => m.kind \in {"list", "listError"}
    BY DEF EnumerateReplied
  <1>15. SignalReceived(m) => m.kind \in {"added", "removed", "status", "battery"}
    BY DEF SignalReceived
  <1> QED
    BY <1>4, <1>5, <1>6, <1>7, <1>8, <1>9, <1>10, <1>11, <1>12, <1>13, <1>14, <1>15

\* Every step of the connection is one of these.
LEMMA AllSteps ==
    ASSUME ConnTypes, DaemonLists, AnswerTrue, ConnNext
    PROVE  ConnSteps
  <1>1. CASE \E p \in DevicePaths : \/ DaemonAdds(p) \/ DaemonRemoves(p)
                        \/ DaemonAnnounces(p) \/ DaemonDestroys(p)
                        \/ DevicePowers(p)
    BY <1>1, DaemonSteps
  <1>2. CASE DaemonStops
    <2>0. power' \in Powers
      BY <1>2 DEF DaemonStops, Asleep, Powers
    <2>1. Stopping
      BY <1>2, <2>0 DEF DaemonStops, Stopping
    <2> QED
      BY <2>1 DEF ConnSteps
  <1>3. CASE DaemonStarts
    <2> DEFINE m == [kind |-> "up"]
    <2>1. m \in Messages /\ m.kind = "up"
      BY DEF Messages
    <2>2. mail' = Append(mail, m)
      BY <1>3 DEF DaemonStarts, Tell
    <2> HIDE DEF m
    <2>3. Starting(m)
      BY <1>3, <2>1, <2>2 DEF DaemonStarts, Starting, Telling
    <2> QED
      BY <2>1, <2>3 DEF ConnSteps
  <1>4. CASE CallAnswered
    BY <1>4, Replied DEF ConnSteps
  <1>5. CASE MailHandled
    BY <1>5, HandlingSteps
  <1>6. CASE retry
    <2>1. AsksList
      BY <1>6, AsksTheList DEF retry
    <2>2. Retrying
      BY <1>6, <2>1 DEF retry, Retrying
    <2> QED
      BY <2>2 DEF ConnSteps
  <1>7. CASE PropertyRead
    <2>1. Moving
      BY <1>7 DEF PropertyRead, Moving, daemonVars, DaemonLists, There
    <2> QED
      BY <2>1 DEF ConnSteps
  <1> QED
    BY <1>1, <1>2, <1>3, <1>4, <1>5, <1>6, <1>7 DEF ConnNext

\* What the bus answers to the calls that the daemon leaves.
Undelivered(u, cs) ==
    /\ u \in Seq(Messages)
    /\ \A i \in 1 .. Len(u) : u[i].kind = "readError" \/ (u[i].kind = "listError" /\ u[i].name = "NoReply")
    /\ \A p : ReadAsked(cs, p) => \E i \in 1 .. Len(u) : Answers(u[i], p)

\* The answers of the bus are so.
LEMMA Undelivering ==
    ASSUME NEW cs \in Seq(ConnCalls), NEW u, u = [i \in 1 .. Len(cs) |-> ErrorReply(cs[i], "NoReply")]
    PROVE  Undelivered(u, cs)
  <1> DEFINE e == [kind |-> "listError", name |-> "NoReply"]
             f(q) == [kind |-> "readError", path |-> q]
  <1>1. e \in Messages /\ e.kind = "listError" /\ e.name = "NoReply"
    BY DEF Messages
  <1>2. ASSUME NEW q \in DevicePaths PROVE f(q) \in Messages /\ f(q).kind = "readError" /\ f(q).path = q
    BY DEF Messages
  <1>3. Len(cs) \in Nat /\ \A i \in 1 .. Len(cs) : cs[i] \in ConnCalls
    OBVIOUS
  <1>4. ASSUME NEW i \in 1 .. Len(cs)
        PROVE  /\ u[i] \in Messages
               /\ u[i].kind = "readError" \/ (u[i].kind = "listError" /\ u[i].name = "NoReply")
               /\ \A p : cs[i] = GetAll(p) => Answers(u[i], p)
    <2>1. u[i] = ErrorReply(cs[i], "NoReply") /\ cs[i] \in ConnCalls
      BY <1>3
    <2>2. CASE cs[i] = Enumeration
      <3>1. u[i] = e
        BY <2>1, <2>2, CallKinds DEF ErrorReply
      <3>3. \A p : cs[i] # GetAll(p)
        BY <2>2, CallKinds
      <3> HIDE DEF e
      <3> QED
        BY <1>1, <3>1, <3>3
    <2>3. ASSUME NEW q \in DevicePaths, cs[i] = GetAll(q)
          PROVE  /\ u[i] \in Messages /\ u[i].kind = "readError"
                 /\ \A p : cs[i] = GetAll(p) => Answers(u[i], p)
      <3>1. u[i] = f(q)
        BY <2>1, <2>3, CallKinds DEF ErrorReply
      <3>2. \A p : cs[i] = GetAll(p) => p = q
        BY <2>3, CallKinds
      <3> HIDE DEF f
      <3> QED
        BY <1>2, <3>1, <3>2 DEF Answers
    <2> QED
      BY <2>1, <2>2, <2>3 DEF ConnCalls
  <1>5. u \in Seq(Messages) /\ Len(u) = Len(cs)
    BY <1>3, <1>4
  <1>6. \A p : ReadAsked(cs, p) => \E i \in 1 .. Len(u) : Answers(u[i], p)
    BY <1>4, <1>5 DEF ReadAsked
  <1> QED
    BY <1>4, <1>5, <1>6 DEF Undelivered

\* The mail t is ml, the news that the daemon is down, and what the bus
\* answers to the calls cs.
StopNews(ml, cs, t) ==
    /\ Len(ml) \in Nat /\ t \in Seq(Messages) /\ Len(t) \in Nat /\ Len(t) >= Len(ml) + 1
    /\ \A i \in 1 .. Len(ml) : t[i] = ml[i] /\ i \in 1 .. Len(t)
    /\ \A i \in 1 .. Len(t) : \/ i \in 1 .. Len(ml)
                              \/ t[i].kind \in {"down", "readError"}
                              \/ t[i].kind = "listError" /\ t[i].name = "NoReply"
    /\ \A i \in 0 .. Len(ml) : KindAfter(t, "down", i)
    /\ \A p : \A i \in 0 .. Len(ml) : AnswerAfter(ml, p, i) \/ ReadAsked(cs, p) => AnswerAfter(t, p, i)

\* What the bus delivers when the daemon stops.
LEMMA Stopped ==
    ASSUME NEW ml \in Seq(Messages), NEW cs, NEW n, n = Len(ml), NEW u, Undelivered(u, cs),
           NEW a, a = Append(ml, [kind |-> "down"]), NEW t, t = a \o u
    PROVE  StopNews(ml, cs, t)
  <1> DEFINE d == [kind |-> "down"]
             l == Len(u)
  <1>1. d \in Messages /\ d.kind = "down"
    BY DEF Messages
  <1>2. n \in Nat /\ Len(a) = n + 1 /\ a \in Seq(Messages) /\ (\A i \in 1 .. n : a[i] = ml[i]) /\ a[n + 1] = d
    <2> HIDE DEF d
    <2>1. a = Append(ml, d)
      BY DEF d
    <2> QED
      BY <1>1, <2>1, Appended
  <1> HIDE DEF d
  <1>5. u \in Seq(Messages) /\ l \in Nat
        /\ (\A i \in 1 .. l : u[i].kind = "readError" \/ (u[i].kind = "listError" /\ u[i].name = "NoReply"))
        /\ (\A p : ReadAsked(cs, p) => \E i \in 1 .. l : Answers(u[i], p))
    BY DEF Undelivered
  <1> HIDE DEF l
  <1>6. t \in Seq(Messages) /\ Len(t) = n + 1 + l /\ (\A i \in 1 .. n + 1 : t[i] = a[i])
        /\ \A i \in 1 .. l : t[n + 1 + i] = u[i]
    <2>1. t = a \o u /\ a \in Seq(Messages) /\ u \in Seq(Messages)
      BY <1>2, <1>5
    <2>2. t \in Seq(Messages) /\ Len(t) = Len(a) + Len(u) /\ (\A i \in 1 .. Len(a) : t[i] = a[i])
        /\ \A i \in 1 .. Len(u) : t[Len(a) + i] = u[i]
      BY <2>1, Joined
    <2> QED
      BY <2>2, <1>2 DEF l
  <1>7. \A i \in 1 .. n : t[i] = ml[i] /\ i \in 1 .. Len(t)
    <2>1. \A i \in 1 .. n : i \in 1 .. n + 1 /\ i \in 1 .. Len(t)
      BY <1>2, <1>5, <1>6
    <2> QED
      BY <2>1, <1>2, <1>6
  <1>8. Len(t) >= n + 1 /\ Len(t) \in Nat /\ n + 1 \in 1 .. Len(t) /\ t[n + 1] = d
    BY <1>2, <1>5, <1>6
  <1>9. ASSUME NEW i \in 1 .. Len(t), i \notin 1 .. n, i # n + 1
        PROVE  t[i].kind = "readError" \/ (t[i].kind = "listError" /\ t[i].name = "NoReply")
    <2>1. i - (n + 1) \in 1 .. l /\ (n + 1) + (i - (n + 1)) = i
      BY <1>2, <1>5, <1>6, <1>9
    <2>2. t[i] = u[i - (n + 1)]
      BY <2>1, <1>6
    <2> QED
      BY <2>1, <2>2, <1>5
  <1>10. \A i \in 0 .. n : KindAfter(t, "down", i)
    <2>1. \A i \in 0 .. n : i < n + 1
      BY <1>2
    <2> QED
      BY <2>1, <1>8, <1>1 DEF KindAfter
  <1>11. ASSUME NEW p, NEW i \in 0 .. n, AnswerAfter(ml, p, i) PROVE AnswerAfter(t, p, i)
    BY <1>7, <1>11 DEF AnswerAfter
  <1>12. ASSUME NEW p, NEW i \in 0 .. n, ReadAsked(cs, p) PROVE AnswerAfter(t, p, i)
    <2>1. PICK j \in 1 .. l : Answers(u[j], p)
      BY <1>5, <1>12
    <2>3. n + 1 + j \in 1 .. Len(t) /\ i < n + 1 + j
      BY <1>2, <1>5, <1>6
    <2>4. t[n + 1 + j] = u[j]
      BY <1>6
    <2> QED
      BY <2>1, <2>3, <2>4 DEF AnswerAfter
  <1>13. \A i \in 1 .. Len(t) : \/ i \in 1 .. n
                                \/ t[i].kind \in {"down", "readError"}
                                \/ t[i].kind = "listError" /\ t[i].name = "NoReply"
    BY <1>1, <1>8, <1>9
  <1> QED
    BY <1>2, <1>6, <1>7, <1>8, <1>10, <1>11, <1>12, <1>13 DEF StopNews

\* The order of the rows, and that each has its proxy.
RowsOrdered == RowsInOrder(rows) /\ \A r \in ToSet(rows) : r.path \in proxies

\* A row of each answered device.
LEMMA RowsRead ==
    ASSUME ConnTypes, RowsOrdered, HandlesRead, NEW m \in Messages, m = mail[1], m.path \in proxies
    PROVE  /\ rows' \in Seq(Row) /\ RowsInOrder(rows')
           /\ \A r \in ToSet(rows') : r.path # m.path => r \in ToSet(rows)
           /\ \A r \in ToSet(rows) : r.path # m.path => r \in ToSet(rows')
           /\ \E r \in ToSet(rows') : r.path = m.path
           /\ m.kind = "read" => \A r \in ToSet(rows') : r.path = m.path =>
                 /\ r.known = m.known
                 /\ \/ r.state = Connection(m.awake) /\ unread' = unread \ {m.path}
                    \/ (\E r0 \in ToSet(rows) : r0.path = m.path /\ r0.state = r.state) /\ unread' = unread
           /\ m.kind = "readError" => /\ \A r \in ToSet(rows') : r.path = m.path => r.state = "Offline" /\ r.known = FALSE
                                      /\ unread' = unread \cup {m.path}
  <1> DEFINE p == m.path
  <1>1. m.kind \in {"read", "readError"} /\ p \in DevicePaths /\ rows \in Seq(Row) /\ RowsInOrder(rows)
    BY MessageFields DEF HandlesRead, ReadReplied, ConnTypes, RowsOrdered
  <1>2. unread' = IF m.kind = "readError" THEN unread \cup {p}
                  ELSE IF rowForPath(rows, p) = {} THEN unread \ {p} ELSE unread
    BY DEF HandlesRead, ReadReplied
  <1>3. rowForPath(rows, p) = {} <=> \A r \in ToSet(rows) : r.path # p
    <2>1. DOMAIN rows = 1 .. Len(rows)
      BY <1>1
    <2> QED
      BY <2>1 DEF rowForPath, ToSet
  <1> DEFINE awake == IF m.kind = "read" THEN m.awake ELSE FALSE
             grown == onDeviceAdded(rows, p, awake)
             new == [path |-> p, state |-> Connection(awake), known |-> FALSE]
             known == IF m.kind = "read" THEN m.known ELSE FALSE
             stated == IF m.kind = "read" THEN grown ELSE onConnectionStateChanged(grown, p, "Offline")
  <1>4. awake \in BOOLEAN /\ known \in BOOLEAN
    BY <1>1, MessageFields
  <1>5. rows' = onBatteryChanged(stated, p, known)
    BY <1>1 DEF HandlesRead, ReadReplied
  <1>6. /\ grown \in Seq(Row) /\ RowsInOrder(grown)
        /\ (\E r \in ToSet(rows) : r.path = p) => grown = rows
        /\ (\A r \in ToSet(rows) : r.path # p) => ToSet(grown) = ToSet(rows) \cup {new}
    <2>1. PICK on : on = awake
      OBVIOUS
    <2>2. on \in BOOLEAN /\ grown = onDeviceAdded(rows, p, on) /\ new = [path |-> p, state |-> Connection(on), known |-> FALSE]
      BY <1>4, <2>1
    <2> HIDE DEF awake, p, grown, new
    <2> QED
      BY <1>1, <2>2, RowAdded
  <1>7. new.path = p /\ new.state = Connection(awake)
    OBVIOUS
  <1> HIDE DEF grown, new
  <1>8. /\ stated \in Seq(Row) /\ RowsInOrder(stated)
        /\ m.kind = "read" => stated = grown
        /\ m.kind = "readError" => Stated(stated, grown, p, "Offline")
    <2>1. CASE m.kind = "read"
      BY <2>1, <1>6
    <2>2. CASE m.kind = "readError"
      <3> DEFINE over == onConnectionStateChanged(grown, p, "Offline")
      <3>1. stated = over
        BY <2>2
      <3> HIDE DEF p, over
      <3>2. over \in Seq(Row) /\ RowsInOrder(over) /\ Stated(over, grown, p, "Offline")
        <4>1. over = onConnectionStateChanged(grown, p, "Offline")
          BY DEF over
        <4>2. PICK off \in {"Online", "Sleeping", "Offline"} : off = "Offline"
          OBVIOUS
        <4>3. over = onConnectionStateChanged(grown, p, off) /\ grown \in Seq(Row) /\ RowsInOrder(grown) /\ p \in DevicePaths
          BY <1>1, <1>6, <4>1, <4>2
        <4>4. over \in Seq(Row) /\ RowsInOrder(over) /\ Stated(over, grown, p, off)
          BY <4>3, RowState
        <4> QED
          BY <4>2, <4>4
      <3> QED
        BY <2>2, <3>1, <3>2
    <2> QED
      BY <1>1, <2>1, <2>2
  <1> HIDE DEF stated
  <1>9. rows' \in Seq(Row) /\ RowsInOrder(rows') /\ Charged(rows', stated, p, known)
    <2> HIDE DEF p, known
    <2> QED
      BY <1>1, <1>4, <1>5, <1>8, RowBattery
  <1>10. /\ \A r \in ToSet(grown) : r.path # p => r \in ToSet(rows)
         /\ \A r \in ToSet(rows) : r \in ToSet(grown)
         /\ \E r \in ToSet(grown) : r.path = p
    BY <1>6, <1>7
  <1>11. /\ \A r \in ToSet(stated) : r.path # p => r \in ToSet(grown)
         /\ \A r \in ToSet(grown) : r.path # p => r \in ToSet(stated)
         /\ \E r \in ToSet(stated) : r.path = p
         /\ m.kind = "readError" => \A r \in ToSet(stated) : r.path = p => r.state = "Offline"
    <2>1. CASE m.kind = "read"
      BY <2>1, <1>8, <1>10
    <2>2. CASE m.kind = "readError"
      <3>1. ASSUME NEW r \in ToSet(stated) PROVE (r.path # p => r \in ToSet(grown)) /\ (r.path = p => r.state = "Offline")
        BY <2>2, <1>8 DEF Stated
      <3>2. ASSUME NEW r \in ToSet(grown) PROVE (r.path # p => r \in ToSet(stated)) /\ \E s \in ToSet(stated) : s.path = r.path
        BY <2>2, <1>8 DEF Stated
      <3> QED
        BY <3>1, <3>2, <1>10
    <2> QED
      BY <1>1, <2>1, <2>2
  <1>12. ASSUME NEW r \in ToSet(rows')
         PROVE  /\ r.path # p => r \in ToSet(stated)
                /\ r.path = p => r.known = known /\ \E s \in ToSet(stated) : s.path = p /\ s.state = r.state
    BY <1>9 DEF Charged
  <1>13. ASSUME NEW r \in ToSet(stated)
         PROVE  (r.path # p => r \in ToSet(rows')) /\ \E s \in ToSet(rows') : s.path = r.path
    BY <1>9 DEF Charged
  <1>14. ASSUME m.kind = "read", NEW r \in ToSet(rows'), r.path = p
         PROVE  /\ r.known = m.known
                /\ \/ r.state = Connection(m.awake) /\ unread' = unread \ {p}
                   \/ (\E r0 \in ToSet(rows) : r0.path = p /\ r0.state = r.state) /\ unread' = unread
    <2>1. r.known = m.known /\ \E s \in ToSet(grown) : s.path = p /\ s.state = r.state
      BY <1>8, <1>12, <1>14
    <2>2. CASE \E r0 \in ToSet(rows) : r0.path = p
      BY <2>1, <2>2, <1>2, <1>3, <1>6, <1>14
    <2>3. CASE \A r0 \in ToSet(rows) : r0.path # p
      <3>1. unread' = unread \ {p}
        BY <2>3, <1>2, <1>3, <1>14
      <3>2. r.state = Connection(awake) /\ awake = m.awake
        BY <2>1, <2>3, <1>6, <1>7, <1>14
      <3> QED
        BY <2>1, <3>1, <3>2
    <2> QED
      BY <2>2, <2>3
  <1>15. ASSUME m.kind = "readError"
         PROVE  /\ \A r \in ToSet(rows') : r.path = p => r.state = "Offline" /\ r.known = FALSE
                /\ unread' = unread \cup {p}
    <2>1. unread' = unread \cup {p}
      BY <1>2, <1>15
    <2>2. known = FALSE /\ \A r \in ToSet(stated) : r.path = p => r.state = "Offline"
      BY <1>11, <1>15
    <2>3. ASSUME NEW r \in ToSet(rows'), r.path = p PROVE r.state = "Offline" /\ r.known = FALSE
      BY <1>12, <2>2, <2>3
    <2> QED
      BY <2>1, <2>3
  <1>16. /\ \A r \in ToSet(rows') : r.path # p => r \in ToSet(rows)
         /\ \A r \in ToSet(rows) : r.path # p => r \in ToSet(rows')
         /\ \E r \in ToSet(rows') : r.path = p
    BY <1>10, <1>11, <1>12, <1>13, Zenon
  <1> QED
    BY <1>9, <1>14, <1>15, <1>16

\* The screen that follows.
LEMMA Recomputed ==
    ASSUME NEW s \in ScreenState, NEW ps, NEW t, t = recomputePopulation(s, ps)
    PROVE  /\ t \in ScreenState
           /\ t = "Loading" => FALSE
           /\ t = "DaemonDown" <=> s = "DaemonDown"
           /\ t = "AccessDenied" <=> s = "AccessDenied"
           /\ t = "Empty" => ps = {}
           /\ t = "Populated" => ps # {}
  BY DEF recomputePopulation, ScreenState

\* Every step keeps the types, the order of the rows, and what the daemon lists.
LEMMA TypesKept ==
    ASSUME ConnTypes, RowsOrdered, DaemonLists, ConnSteps
    PROVE  ConnTypes' /\ RowsOrdered' /\ DaemonLists'
  <1>1. /\ mail \in Seq(Messages) /\ calls \in Seq(ConnCalls) /\ rows \in Seq(Row)
        /\ up \in BOOLEAN /\ allowed \in BOOLEAN /\ failed \in BOOLEAN
        /\ listed \subseteq DevicePaths /\ nodes \subseteq DevicePaths /\ leaving \subseteq DevicePaths
        /\ proxies \subseteq DevicePaths /\ screen \in ScreenState
        /\ power \in Powers
    BY DEF ConnTypes
  <1>2. RowsInOrder(rows) /\ \A r \in ToSet(rows) : r.path \in proxies
    BY DEF RowsOrdered
  <1>3. listed \cap leaving = {} /\ listed \cup leaving \subseteq nodes
    BY DEF DaemonLists, There
  <1>4. ASSUME NEW m \in Messages, Appearing(m) \/ Vanishing(m) \/ Powering(m) \/ Charging(m) \/ Starting(m)
        PROVE  ConnTypes' /\ RowsOrdered' /\ DaemonLists'
    <2>1. mail' \in Seq(Messages) /\ UNCHANGED <<allowed, calls, screen, proxies, rows, failed>>
      <3>1. Telling(m)
        BY <1>4 DEF Appearing, Vanishing, Powering, Charging, Starting
      <3>2. mail' = Append(mail, m) /\ UNCHANGED <<allowed, calls, screen, proxies, rows, failed>>
        BY <3>1 DEF Telling, guiVars
      <3> QED
        BY <1>1, <3>2, Told DEF Telled
    <2>2. RowsOrdered'
      BY <1>2, <2>1 DEF RowsOrdered
    <2>3. m.kind \in {"added", "removed", "status", "battery"} => m.path \in DevicePaths
      BY MessageFields
    <2>4. CASE Appearing(m)
      <3>1. /\ m.path \in DevicePaths /\ m.path \notin nodes /\ up' \in BOOLEAN /\ power' \in Powers
            /\ listed' = listed \cup {m.path} /\ nodes' = nodes \cup {m.path} /\ leaving' = leaving
        BY <1>1, <2>3, <2>4 DEF Appearing
      <3>2. DaemonLists'
        BY <1>3, <3>1 DEF DaemonLists, There
      <3> QED
        BY <1>1, <2>1, <2>2, <3>1, <3>2 DEF ConnTypes
    <2>5. CASE Vanishing(m)
      <3>1. /\ up' = up /\ power' = power
            /\ listed' = listed \ {m.path} /\ nodes' = nodes /\ leaving' = leaving \ {m.path}
        BY <2>5 DEF Vanishing
      <3>2. DaemonLists'
        BY <1>3, <3>1 DEF DaemonLists, There
      <3> QED
        BY <1>1, <2>1, <2>2, <3>1, <3>2 DEF ConnTypes
    <2>6. CASE Powering(m) \/ Charging(m)
      <3>1. up' \in BOOLEAN /\ power' \in Powers /\ UNCHANGED <<listed, nodes, leaving>>
        BY <1>1, <2>6 DEF Powering, Charging
      <3>2. DaemonLists'
        BY <1>3, <3>1 DEF DaemonLists, There
      <3> QED
        BY <1>1, <2>1, <2>2, <3>1, <3>2 DEF ConnTypes
    <2>7. CASE Starting(m)
      <3>1. up' = TRUE /\ UNCHANGED <<listed, nodes, leaving, power>>
        <4>1. up' \in BOOLEAN
          BY <2>7 DEF Starting
        <4> QED
          BY <2>7, <4>1 DEF Starting
      <3>2. DaemonLists'
        BY <1>3, <3>1 DEF DaemonLists, There
      <3> QED
        BY <1>1, <2>1, <2>2, <3>1, <3>2 DEF ConnTypes
    <2> QED
      BY <1>4, <2>4, <2>5, <2>6, <2>7
  <1>5. ASSUME NEW m \in Messages, Answering(m)
        PROVE  ConnTypes' /\ RowsOrdered' /\ DaemonLists'
    <2>1. mail' = Append(mail, m) /\ calls # << >> /\ calls' = Tail(calls)
          /\ UNCHANGED <<up, allowed, listed, nodes, leaving, power, screen, proxies, rows, failed>>
      BY <1>5 DEF Answering, daemonVars, guiVars
    <2>2. mail' \in Seq(Messages) /\ calls' \in Seq(ConnCalls)
      <3>1. mail' \in Seq(Messages)
        BY <1>1, <2>1, Told DEF Telled
      <3>2. calls' \in Seq(ConnCalls)
        BY <1>1, <2>1, CallGone
      <3> QED
        BY <3>1, <3>2
    <2> QED
      BY <1>1, <1>2, <1>3, <2>1, <2>2 DEF ConnTypes, RowsOrdered, DaemonLists, There
  <1>6. CASE Moving
    BY <1>1, <1>2, <1>3, <1>6 DEF Moving, guiVars, ConnTypes, RowsOrdered, DaemonLists, There
  <1>7. CASE Stopping
    <2>1. mail' \in Seq(Messages)
      <3>1. PICK u, a : /\ u = [i \in 1 .. Len(calls) |-> ErrorReply(calls[i], "NoReply")]
                        /\ a = Append(mail, [kind |-> "down"]) /\ mail' = a \o u
        BY <1>7 DEF Stopping
      <3>2. Undelivered(u, calls)
        BY <1>1, <3>1, Undelivering
      <3> QED
        BY <1>1, <3>1, <3>2, Stopped DEF StopNews
    <2>2. listed' = {} /\ leaving' = {} /\ nodes' = {} /\ power' \in Powers /\ calls' = << >>
          /\ UNCHANGED <<allowed, screen, proxies, rows, failed>>
      BY <1>7 DEF Stopping, guiVars
    <2>3. up' \in BOOLEAN
      BY <1>7 DEF Stopping
    <2>4. calls' \in Seq(ConnCalls)
      BY <2>2
    <2> QED
      BY <1>1, <1>2, <2>1, <2>2, <2>3, <2>4 DEF ConnTypes, RowsOrdered, DaemonLists, There
  <1>8. ASSUME Handling, rows' \in Seq(Row), RowsOrdered', failed' \in BOOLEAN, calls' \in Seq(ConnCalls),
               proxies' \subseteq DevicePaths, screen' \in ScreenState
        PROVE  ConnTypes' /\ RowsOrdered' /\ DaemonLists'
    <2>1. mail' \in Seq(Messages) /\ UNCHANGED <<up, allowed, listed, nodes, leaving, power>>
      BY <1>1, <1>8, Handled DEF Took, Handling, daemonVars
    <2> QED
      BY <1>1, <1>3, <1>8, <2>1 DEF ConnTypes, DaemonLists, There
  <1>9. ASSUME Handling PROVE mail[1] \in Messages
    BY <1>1, <1>9, Handled DEF Took, Handling
  <1>10. ASSUME proxies \subseteq proxies', UNCHANGED rows PROVE rows' \in Seq(Row) /\ RowsOrdered'
    BY <1>1, <1>2, <1>10 DEF RowsOrdered
  <1>11. ASSUME rows' = << >> PROVE rows' \in Seq(Row) /\ RowsOrdered'
    BY <1>11 DEF RowsOrdered, RowsInOrder, ToSet
  <1>12. \A S : AsksFor(S) => calls' \in Seq(ConnCalls)
    BY DEF AsksFor, AsksMore
  <1>13. CASE HandlesError
    <2>1. rows' \in Seq(Row) /\ RowsOrdered'
      BY <1>10, <1>13 DEF HandlesError
    <2>2. screen' \in ScreenState
      BY <1>13 DEF HandlesError, ScreenState
    <2> QED
      BY <1>1, <1>8, <1>13, <2>1, <2>2 DEF HandlesError
  <1>14. CASE HandlesList
    <2>1. rows' \in Seq(Row) /\ RowsOrdered'
      BY <1>10, <1>14 DEF HandlesList
    <2>2. mail[1].paths \subseteq DevicePaths
      BY <1>9, <1>14, MessageFields DEF HandlesList
    <2>3. screen' \in ScreenState
      <3>1. "Empty" \in ScreenState
        BY DEF ScreenState
      <3> QED
        BY <1>1, <1>14, <3>1, Recomputed DEF HandlesList
    <2>4. Handling /\ proxies' = proxies \cup mail[1].paths /\ failed' = failed /\ calls' \in Seq(ConnCalls)
      BY <1>12, <1>14 DEF HandlesList
    <2> QED
      BY <1>1, <1>8, <2>1, <2>2, <2>3, <2>4
  <1>15. CASE HandlesAdded
    <2>1. rows' \in Seq(Row) /\ RowsOrdered'
      BY <1>10, <1>15 DEF HandlesAdded
    <2>2. mail[1].path \in DevicePaths
      BY <1>9, <1>15, MessageFields DEF HandlesAdded
    <2>3. Handling /\ proxies' = proxies \cup {mail[1].path} /\ failed' = failed /\ screen' = screen /\ calls' \in Seq(ConnCalls)
      BY <1>12, <1>15 DEF HandlesAdded
    <2> QED
      BY <1>1, <1>8, <2>1, <2>2, <2>3
  <1>16. CASE HandlesRemoved
    <2>1. mail[1].path \in DevicePaths
      BY <1>9, <1>16, MessageFields DEF HandlesRemoved
    <2>2. rows' \in Seq(Row) /\ RowsInOrder(rows') /\ ToSet(rows') = {r \in ToSet(rows) : r.path # mail[1].path}
      BY <1>1, <1>2, <1>16, <2>1, RowRemoved DEF HandlesRemoved
    <2>3. proxies' = proxies \ {mail[1].path} /\ screen' \in ScreenState
      BY <1>1, <1>16, Recomputed DEF HandlesRemoved
    <2>4. RowsOrdered'
      BY <1>2, <2>2, <2>3 DEF RowsOrdered
    <2> QED
      BY <1>1, <1>8, <1>16, <2>2, <2>3, <2>4 DEF HandlesRemoved
  <1>17. CASE HandlesStatus
    <2>1. mail[1].path \in DevicePaths /\ mail[1].awake \in BOOLEAN
      BY <1>9, <1>17, MessageFields DEF HandlesStatus
    <2>2. rows' \in Seq(Row) /\ RowsInOrder(rows') /\ \A x \in ToSet(rows') : \E r \in ToSet(rows) : x.path = r.path
      <3>1. CASE mail[1].path \in proxies
        <4>1. Connection(mail[1].awake) \in {"Online", "Sleeping", "Offline"}
          BY DEF Connection
        <4>2. rows' = onConnectionStateChanged(rows, mail[1].path, Connection(mail[1].awake))
          BY <1>17, <3>1 DEF HandlesStatus
        <4>3. rows' \in Seq(Row) /\ RowsInOrder(rows') /\ Stated(rows', rows, mail[1].path, Connection(mail[1].awake))
          BY <1>1, <1>2, <2>1, <4>1, <4>2, RowState
        <4> QED
          BY <4>3 DEF Stated
      <3>2. CASE mail[1].path \notin proxies
        BY <1>1, <1>2, <1>17, <3>2 DEF HandlesStatus
      <3> QED
        BY <3>1, <3>2
    <2>3. RowsOrdered'
      BY <1>2, <1>17, <2>2 DEF RowsOrdered, HandlesStatus
    <2> QED
      BY <1>1, <1>8, <1>17, <2>2, <2>3 DEF HandlesStatus
  <1>18. CASE HandlesBattery
    <2>1. mail[1].path \in DevicePaths /\ mail[1].known \in BOOLEAN
      BY <1>9, <1>18, MessageFields DEF HandlesBattery
    <2>2. rows' \in Seq(Row) /\ RowsInOrder(rows') /\ \A x \in ToSet(rows') : \E r \in ToSet(rows) : x.path = r.path
      <3>1. CASE mail[1].path \in proxies
        <4>2. rows' = onBatteryChanged(rows, mail[1].path, mail[1].known)
          BY <1>18, <3>1 DEF HandlesBattery
        <4>3. rows' \in Seq(Row) /\ RowsInOrder(rows') /\ Charged(rows', rows, mail[1].path, mail[1].known)
          BY <1>1, <1>2, <2>1, <4>2, RowBattery
        <4> QED
          BY <4>3 DEF Charged
      <3>2. CASE mail[1].path \notin proxies
        BY <1>1, <1>2, <1>18, <3>2 DEF HandlesBattery
      <3> QED
        BY <3>1, <3>2
    <2>3. RowsOrdered'
      BY <1>2, <1>18, <2>2 DEF RowsOrdered, HandlesBattery
    <2> QED
      BY <1>1, <1>8, <1>18, <2>2, <2>3 DEF HandlesBattery
  <1>19. CASE HandlesRead
    <2>1. PICK m \in Messages : m = mail[1]
      BY <1>9, <1>19 DEF HandlesRead
    <2>2. Handling /\ UNCHANGED <<proxies, calls, failed>>
      BY <1>19 DEF HandlesRead, ReadReplied
    <2>3. screen' \in ScreenState
      <3>1. screen' = screen \/ screen' = recomputePopulation(screen, proxies)
        BY <1>19 DEF HandlesRead, ReadReplied
      <3> QED
        BY <1>1, <3>1, Recomputed
    <2>4. rows' \in Seq(Row) /\ RowsOrdered'
      <3>1. CASE m.path \in proxies
        <4>1. /\ rows' \in Seq(Row) /\ RowsInOrder(rows')
              /\ \A r \in ToSet(rows') : r.path # m.path => r \in ToSet(rows)
          BY <1>19, <2>1, <3>1, RowsRead
        <4> QED
          BY <1>2, <2>2, <3>1, <4>1 DEF RowsOrdered
      <3>2. CASE m.path \notin proxies
        <4>1. rows' = rows
          BY <1>19, <2>1, <3>2 DEF HandlesRead, ReadReplied
        <4> QED
          BY <1>10, <2>2, <4>1
      <3> QED
        BY <3>1, <3>2
    <2> QED
      BY <1>1, <1>8, <2>2, <2>3, <2>4
  <1>20. CASE HandlesDown
    <2>1. Handling /\ proxies' = {} /\ rows' = << >> /\ failed' = FALSE /\ screen' = "DaemonDown" /\ calls' = calls
      BY <1>20 DEF HandlesDown, onDaemonDown, teardownProxies
    <2>2. screen' \in ScreenState
      BY <2>1 DEF ScreenState
    <2> QED
      BY <1>1, <1>8, <1>11, <2>1, <2>2
  <1>21. CASE HandlesUp
    <2>1. Handling /\ proxies' = {} /\ rows' = << >> /\ failed' = FALSE /\ screen' = "Loading" /\ calls' \in Seq(ConnCalls)
      BY <1>21 DEF HandlesUp, teardownProxies, AsksList
    <2>2. screen' \in ScreenState
      BY <2>1 DEF ScreenState
    <2> QED
      BY <1>1, <1>8, <1>11, <2>1, <2>2
  <1>22. CASE Retrying
    <2>1. proxies' = {} /\ rows' = << >> /\ failed' = FALSE /\ screen' = "Loading" /\ calls' \in Seq(ConnCalls)
          /\ UNCHANGED <<mail, up, allowed, listed, nodes, leaving, power>>
      BY <1>22 DEF Retrying, teardownProxies, AsksList, daemonVars
    <2>2. screen' \in ScreenState
      BY <2>1 DEF ScreenState
    <2> QED
      BY <1>1, <1>3, <1>11, <2>1, <2>2 DEF ConnTypes, DaemonLists, There
  <1> QED
    BY <1>4, <1>5, <1>6, <1>7, <1>13, <1>14, <1>15, <1>16, <1>17, <1>18, <1>19, <1>20, <1>21, <1>22 DEF ConnSteps

\* A step that tells m.
LEMMA ToldNow ==
    ASSUME ConnTypes, NEW m \in Messages,
           Appearing(m) \/ Vanishing(m) \/ Powering(m) \/ Charging(m) \/ Starting(m) \/ Answering(m)
    PROVE  mail' = Append(mail, m) /\ UNCHANGED <<allowed, guiVars>> /\ (~Answering(m) => UNCHANGED calls)
  BY DEF Appearing, Vanishing, Powering, Charging, Starting, Answering, Telling, daemonVars

\* A step that handles a message.
Handles == \/ HandlesError \/ HandlesList \/ HandlesAdded \/ HandlesRemoved \/ HandlesStatus \/ HandlesBattery
           \/ HandlesRead \/ HandlesDown \/ HandlesUp

\* What handling a message leaves alone.
LEMMA HandlesIs ==
    ASSUME Handles
    PROVE  mail # << >> /\ mail' = Tail(mail) /\ UNCHANGED <<up, listed, leaving, nodes, power, overtaken>>
  BY DEF Handles, HandlesError, HandlesList, HandlesAdded, HandlesRemoved, HandlesStatus, HandlesBattery,
         HandlesRead, HandlesDown, HandlesUp, Handling, daemonVars

-----------------------------------------------------------------------------
(* The owner of the name                                                    *)

\* Behind the news that the daemon is down, that it is up again.
Restarts == up => \A i \in 1 .. Len(mail) : mail[i].kind = "down" => KindAfter(mail, "up", i)

\* A daemon that is down has no devices, and behind what it said is the news
\* that it is down.
Absence ==
    ~up => /\ listed = {} /\ leaving = {}
           /\ \A i \in 1 .. Len(mail) :
                 mail[i].kind = "list" \/ (mail[i].kind = "listError" /\ mail[i].name = "AccessDenied")
                    => KindAfter(mail, "down", i)

\* What is said of the owner stays so: when the daemon comes and goes, the news
\* of it goes behind all it said.
LEMMA OwnerKept ==
    ASSUME ConnTypes, Restarts, Absence, ConnSteps
    PROVE  Restarts' /\ Absence'
  <1> DEFINE n == Len(mail)
             Lists(msg) == msg.kind = "list" \/ (msg.kind = "listError" /\ msg.name = "AccessDenied")
  <1>1. mail \in Seq(Messages) /\ up \in BOOLEAN
    BY DEF ConnTypes
  <1>2. ASSUME NEW m \in Messages, Appearing(m) \/ Vanishing(m) \/ Powering(m) \/ Charging(m) \/ Starting(m) \/ Answering(m)
        PROVE  Restarts' /\ Absence'
    <2>1. mail' = Append(mail, m)
      BY <1>2, ToldNow
    <2>s. Telled(mail, m, mail')
      BY <1>1, <2>1, Told
    <2>2. /\ n \in Nat /\ Len(mail') = n + 1
          /\ \A i \in 1 .. n : mail'[i] = mail[i] /\ i \in 0 .. n
          /\ mail'[n + 1] = m
          /\ \A k : \A i \in 0 .. n : KindAfter(mail', k, i) <=> KindAfter(mail, k, i) \/ m.kind = k
      BY <2>s DEF Telled
    <2>3. \A i \in 1 .. n + 1 : i \in 1 .. n \/ i = n + 1
      BY <2>2
    <2>4. m.kind # "down" /\ (m.kind = "up" <=> Starting(m))
      BY <1>2 DEF Appearing, Vanishing, Powering, Charging, Starting, Answering, Answered
    <2>5. CASE Starting(m)
      <3>1. up' /\ m.kind = "up"
        BY <2>5 DEF Starting
      <3> QED
        BY <3>1, <2>2, <2>3, <2>4 DEF Restarts, Absence
    <2>6. CASE ~Starting(m)
      <3>1. up' <=> up
        BY <1>2, <2>6 DEF Appearing, Vanishing, Powering, Charging, Answering, daemonVars
      <3>2. Restarts'
        BY <3>1, <2>2, <2>3, <2>4 DEF Restarts
      <3>3. ~up => listed' = {} /\ leaving' = {}
        BY <1>2, <2>6 DEF Absence, Appearing, Vanishing, Powering, Charging, Answering, daemonVars
      <3>4. ~up => ~(m.kind = "list") /\ ~(m.kind = "listError" /\ m.name = "AccessDenied")
        BY <1>2, <2>6 DEF Appearing, Vanishing, Powering, Charging, Answering, Answered
      <3> QED
        BY <3>1, <3>2, <3>3, <3>4, <2>2, <2>3 DEF Absence
    <2> QED
      BY <2>5, <2>6
  <1>3. CASE Moving
    BY <1>3 DEF Moving, Restarts, Absence, There
  <1>4. CASE Stopping
    <2>1. PICK u, a : /\ u = [i \in 1 .. Len(calls) |-> ErrorReply(calls[i], "NoReply")]
                      /\ a = Append(mail, [kind |-> "down"]) /\ mail' = a \o u
      BY <1>4 DEF Stopping
    <2>2. Undelivered(u, calls)
      BY <2>1, Undelivering DEF ConnTypes
    <2>s. StopNews(mail, calls, mail')
      BY <1>1, <2>1, <2>2, Stopped
    <2>3. /\ n \in Nat
          /\ \A i \in 1 .. Len(mail') : \/ i \in 1 .. n
                                        \/ mail'[i].kind \in {"down", "readError"}
                                        \/ mail'[i].kind = "listError" /\ mail'[i].name = "NoReply"
          /\ \A i \in 0 .. n : KindAfter(mail', "down", i)
      BY <2>s DEF StopNews
    <2>4. \A i \in 1 .. n : i \in 0 .. n
      BY <2>3
    <2>5. ~up' /\ listed' = {} /\ leaving' = {}
      BY <1>4 DEF Stopping
    <2> QED
      BY <2>3, <2>4, <2>5 DEF Restarts, Absence
  <1>5. CASE Handles
    <2>1. mail # << >> /\ mail' = Tail(mail) /\ UNCHANGED <<up, listed, leaving>>
      BY <1>5, HandlesIs
    <2>s. Took(mail, mail')
      BY <1>1, <2>1, Handled
    <2>2. /\ Len(mail') = n - 1
          /\ \A i \in 1 .. n - 1 : mail'[i] = mail[i + 1] /\ i + 1 \in 1 .. n /\ i \in 0 .. n - 1
          /\ \A k : \A i \in 0 .. n - 1 : KindAfter(mail', k, i) <=> KindAfter(mail, k, i + 1)
      BY <2>s DEF Took
    <2>3. Restarts'
      BY <2>1, <2>2 DEF Restarts
    <2>4. Absence'
      BY <2>1, <2>2 DEF Absence
    <2> QED
      BY <2>3, <2>4
  <1>6. CASE Retrying
    BY <1>6 DEF Retrying, daemonVars, Restarts, Absence
  <1> QED
    BY <1>2, <1>3, <1>4, <1>5, <1>6 DEF ConnSteps, Handles

-----------------------------------------------------------------------------
(* The answers for the proxies                                              *)

\* A proxy is read behind every list that may name it, and its row is there
\* or its answer is under way.
ReadLast == \A p \in proxies :
    /\ ReadBehind(calls, p)
    /\ \A i \in 1 .. Len(mail) : mail[i].kind = "list" => ReadAsked(calls, p) \/ AnswerAfter(mail, p, i)
RowOrRead == \A p \in proxies :
    (\E r \in ToSet(rows) : r.path = p) \/ ReadAsked(calls, p) \/ AnswerAfter(mail, p, 0)

\* Every proxy keeps its row, or its answer under way.
LEMMA AnswersKept ==
    ASSUME ConnTypes, RowsOrdered, ReadLast, RowOrRead, ConnSteps
    PROVE  ReadLast' /\ RowOrRead'
  <1> DEFINE n == Len(mail)
             m1 == mail[1]
  <1>1. mail \in Seq(Messages) /\ calls \in Seq(ConnCalls) /\ rows \in Seq(Row) /\ RowsInOrder(rows)
    BY DEF ConnTypes, RowsOrdered
  <1>2. ASSUME NEW m \in Messages, Appearing(m) \/ Vanishing(m) \/ Powering(m) \/ Charging(m) \/ Starting(m) \/ Answering(m)
        PROVE  ReadLast' /\ RowOrRead'
    <2>1. mail' = Append(mail, m) /\ UNCHANGED <<proxies, rows>> /\ (~Answering(m) => UNCHANGED calls)
      BY <1>2, ToldNow DEF guiVars
    <2>s. Telled(mail, m, mail')
      BY <1>1, <2>1, Told
    <2>2. /\ n \in Nat /\ Len(mail') = n + 1
          /\ \A i \in 1 .. n : mail'[i] = mail[i]
          /\ mail'[n + 1] = m
          /\ \A p : \A i \in 0 .. n : AnswerAfter(mail', p, i) <=> AnswerAfter(mail, p, i) \/ Answers(m, p)
      BY <2>s DEF Telled
    <2>3. (\A i \in 1 .. n + 1 : i \in 1 .. n \/ i = n + 1) /\ (\A i \in 1 .. n : i \in 0 .. n) /\ 0 \in 0 .. n
      BY <2>2
    <2>4. CASE ~Answering(m)
      <3>1. m.kind # "list" /\ calls' = calls
        BY <1>2, <2>1, <2>4 DEF Appearing, Vanishing, Powering, Charging, Starting
      <3> QED
        BY <3>1, <2>1, <2>2, <2>3 DEF ReadLast, RowOrRead
    <2>5. CASE Answering(m)
      <3>1. calls # << >> /\ calls' = Tail(calls) /\ Answered(Head(calls), m)
        BY <2>5 DEF Answering
      <3>2. /\ \A p : ReadAsked(calls, p) <=> Head(calls) = GetAll(p) \/ ReadAsked(calls', p)
            /\ \A p : ReadBehind(calls, p) => ReadBehind(calls', p)
            /\ \A p : Head(calls) = Enumeration /\ ReadBehind(calls, p) => ReadAsked(calls', p)
        BY <1>1, <3>1, CallGone
      <3>3. \A p : Head(calls) = GetAll(p) => Answers(m, p)
        BY <3>1, CallKinds DEF Answered, Answers
      <3>4. m.kind = "list" => Head(calls) = Enumeration
        BY <3>1 DEF Answered
      <3>5. ReadLast'
        BY <2>1, <2>2, <2>3, <3>2, <3>3, <3>4 DEF ReadLast
      <3>6. RowOrRead'
        BY <2>1, <2>2, <2>3, <3>2, <3>3 DEF RowOrRead
      <3> QED
        BY <3>5, <3>6
    <2> QED
      BY <2>4, <2>5
  <1>3. CASE Moving
    BY <1>3 DEF Moving, guiVars, ReadLast, RowOrRead
  <1>4. CASE Stopping
    <2>1. PICK u, a : /\ u = [i \in 1 .. Len(calls) |-> ErrorReply(calls[i], "NoReply")]
                      /\ a = Append(mail, [kind |-> "down"]) /\ mail' = a \o u
      BY <1>4 DEF Stopping
    <2>2. Undelivered(u, calls)
      BY <1>1, <2>1, Undelivering
    <2>s. StopNews(mail, calls, mail')
      BY <1>1, <2>1, <2>2, Stopped
    <2>3. /\ n \in Nat
          /\ \A i \in 1 .. n : mail'[i] = mail[i]
          /\ \A i \in 1 .. Len(mail') : \/ i \in 1 .. n
                                        \/ mail'[i].kind \in {"down", "readError"}
                                        \/ mail'[i].kind = "listError" /\ mail'[i].name = "NoReply"
          /\ \A p : \A i \in 0 .. n : AnswerAfter(mail, p, i) \/ ReadAsked(calls, p) => AnswerAfter(mail', p, i)
      BY <2>s DEF StopNews
    <2>4. (\A i \in 1 .. n : i \in 0 .. n) /\ 0 \in 0 .. n
      BY <2>3
    <2>5. calls' = << >> /\ UNCHANGED <<proxies, rows>>
      BY <1>4 DEF Stopping, guiVars
    <2>6. \A p : ReadBehind(calls', p)
      BY <2>5 DEF ReadBehind
    <2>7. \A i \in 1 .. Len(mail') : mail'[i].kind = "list" => i \in 1 .. n /\ mail[i].kind = "list"
      BY <2>3
    <2> QED
      BY <2>3, <2>4, <2>5, <2>6, <2>7 DEF ReadLast, RowOrRead
  <1>5. CASE Handles
    <2>1. mail # << >> /\ mail' = Tail(mail)
      BY <1>5, HandlesIs
    <2>s. Took(mail, mail')
      BY <1>1, <2>1, Handled
    <2>2. /\ Len(mail') = n - 1 /\ m1 \in Messages
          /\ \A i \in 1 .. n - 1 : mail'[i] = mail[i + 1] /\ i + 1 \in 1 .. n /\ i \in 0 .. n - 1
          /\ \A p : \A i \in 0 .. n - 1 : AnswerAfter(mail', p, i) <=> AnswerAfter(mail, p, i + 1)
          /\ \A p : AnswerAfter(mail, p, 0) <=> Answers(m1, p) \/ AnswerAfter(mail', p, 0)
      BY <2>s DEF Took
    <2> HIDE DEF n, m1
    \* The proxies are, or are being read.
    <2>3. ASSUME \A p \in proxies' : ReadBehind(calls', p) /\ (p \in proxies => (ReadAsked(calls, p) => ReadAsked(calls', p))),
                 \A p \in proxies' : p \in proxies \/ ReadAsked(calls', p)
          PROVE  ReadLast'
      BY <2>2, <2>3 DEF ReadLast, n
    <2>4. ASSUME \A p \in proxies' : p \in proxies => (ReadAsked(calls, p) => ReadAsked(calls', p)),
                 \A p \in proxies' : p \in proxies \/ ReadAsked(calls', p),
                 \A r \in ToSet(rows) : r.path \in proxies' => \E x \in ToSet(rows') : x.path = r.path,
                 \A p \in proxies' : Answers(m1, p) => \E x \in ToSet(rows') : x.path = p
          PROVE  RowOrRead'
      BY <2>2, <2>4 DEF RowOrRead, n
    <2>5. CASE HandlesError
      <3>1. m1.kind = "listError" /\ UNCHANGED <<proxies, rows, calls>>
        BY <2>5 DEF HandlesError, m1
      <3> QED
        BY <3>1, <2>3, <2>4 DEF Answers, ReadLast
    <2>6. ASSUME NEW S, proxies' = proxies \cup S, AsksFor(S \ proxies), rows' = rows, m1.kind \in {"list", "added"}
          PROVE  ReadLast' /\ RowOrRead'
      <3>1. /\ \A p : ReadAsked(calls', p) <=> ReadAsked(calls, p) \/ p \in S \ proxies
            /\ \A p : ReadBehind(calls, p) \/ p \in S \ proxies => ReadBehind(calls', p)
        BY <2>6 DEF AsksFor, AsksMore
      <3> QED
        BY <3>1, <2>3, <2>4, <2>6 DEF Answers, ReadLast
    <2>7. CASE HandlesList
      BY <2>6, <2>7 DEF HandlesList, m1
    <2>8. CASE HandlesAdded
      BY <2>6, <2>8 DEF HandlesAdded, m1
    <2>9. CASE HandlesRemoved
      <3>1. m1.kind = "removed" /\ UNCHANGED calls /\ proxies' = proxies \ {m1.path} /\ rows' = onDeviceRemoved(rows, m1.path)
        BY <2>9 DEF HandlesRemoved, m1
      <3>2. m1.path \in DevicePaths
        BY <2>2, <3>1, MessageFields
      <3>3. ToSet(rows') = {r \in ToSet(rows) : r.path # m1.path}
        BY <1>1, <3>1, <3>2, RowRemoved
      <3> QED
        BY <3>1, <3>3, <2>3, <2>4 DEF Answers, ReadLast
    <2>10. CASE HandlesStatus
      <3>1. m1.kind = "status" /\ UNCHANGED <<proxies, calls>>
        BY <2>10 DEF HandlesStatus, m1
      <3>2. m1.path \in DevicePaths /\ m1.awake \in BOOLEAN
        BY <2>2, <3>1, MessageFields
      <3>3. \A r \in ToSet(rows) : \E x \in ToSet(rows') : x.path = r.path
        <4>1. CASE m1.path \in proxies
          <5>1. Connection(m1.awake) \in {"Online", "Sleeping", "Offline"}
            BY DEF Connection
          <5>2. rows' = onConnectionStateChanged(rows, m1.path, Connection(m1.awake))
            BY <2>10, <4>1 DEF HandlesStatus, m1
          <5>3. Stated(rows', rows, m1.path, Connection(m1.awake))
            BY <1>1, <3>2, <5>1, <5>2, RowState
          <5> QED
            BY <5>3 DEF Stated
        <4>2. CASE m1.path \notin proxies
          BY <2>10, <4>2 DEF HandlesStatus, m1
        <4> QED
          BY <4>1, <4>2
      <3> QED
        BY <3>1, <3>3, <2>3, <2>4 DEF Answers, ReadLast
    <2>11. CASE HandlesBattery
      <3>1. m1.kind = "battery" /\ UNCHANGED <<proxies, calls>>
        BY <2>11 DEF HandlesBattery, m1
      <3>2. m1.path \in DevicePaths /\ m1.known \in BOOLEAN
        BY <2>2, <3>1, MessageFields
      <3>3. \A r \in ToSet(rows) : \E x \in ToSet(rows') : x.path = r.path
        <4>1. CASE m1.path \in proxies
          <5>2. rows' = onBatteryChanged(rows, m1.path, m1.known)
            BY <2>11, <4>1 DEF HandlesBattery, m1
          <5>3. Charged(rows', rows, m1.path, m1.known)
            BY <1>1, <3>2, <5>2, RowBattery
          <5> QED
            BY <5>3 DEF Charged
        <4>2. CASE m1.path \notin proxies
          BY <2>11, <4>2 DEF HandlesBattery, m1
        <4> QED
          BY <4>1, <4>2
      <3> QED
        BY <3>1, <3>3, <2>3, <2>4 DEF Answers, ReadLast
    <2>12. CASE HandlesRead
      <3>1. UNCHANGED <<proxies, calls>>
        BY <2>12 DEF HandlesRead, ReadReplied
      <3>2. CASE m1.path \in proxies
        <4>1. /\ \A r \in ToSet(rows) : r.path # m1.path => r \in ToSet(rows')
              /\ \E r \in ToSet(rows') : r.path = m1.path
          BY <2>2, <2>12, <3>2, RowsRead DEF m1
        <4> QED
          BY <3>1, <4>1, <2>3, <2>4 DEF Answers, ReadLast
      <3>3. CASE m1.path \notin proxies
        <4>1. rows' = rows
          BY <2>12, <3>3 DEF HandlesRead, ReadReplied, m1
        <4> QED
          BY <3>1, <3>3, <4>1, <2>3, <2>4 DEF Answers, ReadLast
      <3> QED
        BY <3>2, <3>3
    <2>13. CASE HandlesDown \/ HandlesUp
      <3>1. proxies' = {}
        BY <2>13 DEF HandlesDown, HandlesUp, onDaemonDown, teardownProxies
      <3> QED
        BY <3>1 DEF ReadLast, RowOrRead
    <2> QED
      BY <1>5, <2>5, <2>7, <2>8, <2>9, <2>10, <2>11, <2>12, <2>13 DEF Handles
  <1>6. CASE Retrying
    <2>1. proxies' = {}
      BY <1>6 DEF Retrying, teardownProxies
    <2> QED
      BY <2>1 DEF ReadLast, RowOrRead
  <1> QED
    BY <1>2, <1>3, <1>4, <1>5, <1>6 DEF ConnSteps, Handles

-----------------------------------------------------------------------------
(* The devices that are there                                               *)

\* What has a proxy, or is told to be there, is there or will be dropped.
ProxyThere == up => \A p \in proxies : p \in There \/ DropsAfter(mail, p, 0)
MailThere ==
    up => \A p \in DevicePaths : \A i \in 1 .. Len(mail) :
             Adds(mail[i], p) \/ Statuses(mail[i], p) \/ Batteries(mail[i], p)
                => p \in There \/ DropsAfter(mail, p, i)

\* A device that goes leaves the news behind it.
LEMMA ThereKept ==
    ASSUME ConnTypes, DaemonLists, ProxyThere, MailThere, ConnSteps
    PROVE  ProxyThere' /\ MailThere'
  <1> DEFINE n == Len(mail)
             m1 == mail[1]
             Speaks(msg, p) == Adds(msg, p) \/ Statuses(msg, p) \/ Batteries(msg, p)
  <1>1. mail \in Seq(Messages) /\ proxies \subseteq DevicePaths
    BY DEF ConnTypes
  <1>2. ASSUME NEW m \in Messages, Appearing(m) \/ Vanishing(m) \/ Powering(m) \/ Charging(m) \/ Starting(m) \/ Answering(m)
        PROVE  ProxyThere' /\ MailThere'
    <2>1. mail' = Append(mail, m) /\ UNCHANGED proxies
      BY <1>2, ToldNow DEF guiVars
    <2>s. Telled(mail, m, mail')
      BY <1>1, <2>1, Told
    <2>2. /\ n \in Nat /\ Len(mail') = n + 1
          /\ \A i \in 1 .. n : mail'[i] = mail[i]
          /\ mail'[n + 1] = m
          /\ \A p : \A i \in 0 .. n : DropsAfter(mail', p, i) <=> DropsAfter(mail, p, i) \/ Drops(m, p)
      BY <2>s DEF Telled
    <2>3. (\A i \in 1 .. n + 1 : i \in 1 .. n \/ i = n + 1) /\ (\A i \in 1 .. n : i \in 0 .. n) /\ 0 \in 0 .. n
      BY <2>2
    <2> HIDE DEF n, Speaks
    <2>4. ASSUME up, \A p : p \in There => p \in There' \/ Drops(m, p),
                 \A p \in DevicePaths : Speaks(m, p) => p \in There'
          PROVE  ProxyThere' /\ MailThere'
      <3>1. ProxyThere'
        BY <1>1, <2>1, <2>2, <2>3, <2>4 DEF ProxyThere
      <3>2. ASSUME NEW p \in DevicePaths, NEW i \in 1 .. n + 1, Speaks(mail'[i], p)
            PROVE  p \in There' \/ DropsAfter(mail', p, i)
        <4>1. CASE i \in 1 .. n
          <5>1. p \in There \/ DropsAfter(mail, p, i)
            BY <2>2, <2>4, <3>2, <4>1 DEF MailThere, Speaks, n
          <5> QED
            BY <5>1, <2>2, <2>3, <2>4, <4>1
        <4>2. CASE i = n + 1
          BY <2>2, <2>4, <3>2, <4>2
        <4> QED
          BY <2>3, <4>1, <4>2
      <3>3. MailThere'
        BY <2>2, <3>2 DEF MailThere, Speaks
      <3> QED
        BY <3>1, <3>3
    <2>5. CASE Appearing(m)
      <3>1. up /\ m.kind = "added" /\ There' = There \cup {m.path}
        BY <2>5 DEF Appearing, There
      <3> QED
        BY <2>4, <3>1 DEF Speaks, Adds, Statuses, Batteries
    <2>6. CASE Vanishing(m)
      <3>1. m.kind = "removed" /\ There' = There \ {m.path} /\ up' = up
        BY <2>6 DEF Vanishing, There
      <3>2. CASE up
        BY <2>4, <3>1, <3>2 DEF Speaks, Adds, Statuses, Batteries, Drops
      <3>3. CASE ~up
        BY <3>1, <3>3 DEF ProxyThere, MailThere
      <3> QED
        BY <3>2, <3>3
    <2>7. CASE Powering(m) \/ Charging(m)
      <3>1. up /\ m.kind \in {"status", "battery"} /\ There' = There /\ m.path \in There
        BY <2>7 DEF Powering, Charging, There
      <3> QED
        BY <2>4, <3>1 DEF Speaks, Adds, Statuses, Batteries
    <2>8. CASE Starting(m)
      <3>1. m.kind = "up"
        BY <2>8 DEF Starting
      <3>2. \A p : Drops(m, p) /\ ~Speaks(m, p)
        BY <3>1 DEF Drops, Speaks, Adds, Statuses, Batteries
      <3> QED
        BY <2>2, <2>3, <3>2 DEF ProxyThere, MailThere, Speaks
    <2>9. CASE Answering(m)
      <3>1. up' = up /\ There' = There /\ Answered(Head(calls), m)
        BY <2>9 DEF Answering, daemonVars, There
      <3>2. CASE up
        <4>1. \A p : Speaks(m, p) => p \in There
          BY <3>1 DEF Answered, Speaks, Adds, Statuses, Batteries, There
        <4> QED
          BY <2>4, <3>1, <3>2, <4>1
      <3>3. CASE ~up
        BY <3>1, <3>3 DEF ProxyThere, MailThere
      <3> QED
        BY <3>2, <3>3
    <2> QED
      BY <1>2, <2>5, <2>6, <2>7, <2>8, <2>9
  <1>3. CASE Moving
    BY <1>3 DEF Moving, guiVars, ProxyThere, MailThere
  <1>4. CASE Stopping
    BY <1>4 DEF Stopping, ProxyThere, MailThere
  <1>5. CASE Handles
    <2>1. mail # << >> /\ mail' = Tail(mail) /\ UNCHANGED <<up, listed, leaving>>
      BY <1>5, HandlesIs
    <2>s. Took(mail, mail')
      BY <1>1, <2>1, Handled
    <2>2. /\ Len(mail') = n - 1 /\ m1 \in Messages
          /\ \A i \in 1 .. n - 1 : mail'[i] = mail[i + 1] /\ i + 1 \in 1 .. n /\ i \in 0 .. n - 1
          /\ \A p : \A i \in 0 .. n - 1 : DropsAfter(mail', p, i) <=> DropsAfter(mail, p, i + 1)
          /\ \A p : DropsAfter(mail, p, 0) <=> Drops(m1, p) \/ DropsAfter(mail', p, 0)
          /\ 1 \in 1 .. n /\ 0 \in 0 .. n - 1
      BY <2>s DEF Took
    <2>3. There' = There
      BY <2>1 DEF There
    <2> HIDE DEF n, m1
    <2>4. MailThere'
      BY <2>1, <2>2, <2>3 DEF MailThere, n
    <2>5. \A p \in proxies' : (p \in proxies /\ ~Drops(m1, p)) \/ Adds(m1, p)
      <3>1. CASE HandlesList
        <4>1. m1.kind = "list" /\ proxies' = proxies \cup m1.paths
          BY <3>1 DEF HandlesList, m1
        <4> QED
          BY <4>1 DEF Adds, Drops
      <3>2. CASE HandlesAdded
        <4>1. m1.kind = "added" /\ proxies' = proxies \cup {m1.path}
          BY <3>2 DEF HandlesAdded, m1
        <4> QED
          BY <4>1 DEF Adds, Drops
      <3>3. CASE HandlesRemoved
        <4>1. m1.kind = "removed" /\ proxies' = proxies \ {m1.path}
          BY <3>3 DEF HandlesRemoved, m1
        <4> QED
          BY <4>1 DEF Adds, Drops
      <3>4. CASE HandlesError \/ HandlesStatus \/ HandlesBattery \/ HandlesRead
        <4>1. proxies' = proxies /\ m1.kind \in {"listError", "status", "battery", "read", "readError"}
          BY <3>4 DEF HandlesError, HandlesStatus, HandlesBattery, HandlesRead, ReadReplied, m1
        <4> QED
          BY <4>1 DEF Drops
      <3>5. CASE HandlesDown \/ HandlesUp
        BY <3>5 DEF HandlesDown, HandlesUp, onDaemonDown, teardownProxies
      <3> QED
        BY <1>5, <3>1, <3>2, <3>3, <3>4, <3>5 DEF Handles
    <2>6. ASSUME up, NEW p \in proxies' PROVE p \in There \/ DropsAfter(mail', p, 0)
      <3>1. CASE p \in proxies /\ ~Drops(m1, p)
        BY <2>2, <2>6, <3>1 DEF ProxyThere
      <3>2. CASE Adds(m1, p)
        <4>1. p \in DevicePaths
          BY <2>2, <3>2, MessageFields DEF Adds
        <4>2. p \in There \/ DropsAfter(mail, p, 1)
          BY <2>2, <2>6, <3>2, <4>1 DEF MailThere, m1, n
        <4>3. DropsAfter(mail', p, 0) <=> DropsAfter(mail, p, 0 + 1)
          BY <2>2
        <4> QED
          BY <4>2, <4>3
      <3> QED
        BY <2>5, <2>6, <3>1, <3>2
    <2>7. ProxyThere'
      BY <2>1, <2>3, <2>6 DEF ProxyThere
    <2> QED
      BY <2>4, <2>7
  <1>6. CASE Retrying
    BY <1>6 DEF Retrying, teardownProxies, daemonVars, ProxyThere, MailThere, There
  <1> QED
    BY <1>2, <1>3, <1>4, <1>5, <1>6 DEF ConnSteps, Handles

\* What a handled message does to the proxies.
LEMMA ProxiesNow ==
    ASSUME ConnTypes, Handles, mail[1].kind # "down"
    PROVE  /\ \A p \in proxies' : Adds(mail[1], p) \/ (p \in proxies /\ ~Drops(mail[1], p))
           /\ \A p : Adds(mail[1], p) \/ (p \in proxies /\ ~Drops(mail[1], p)) => p \in proxies'
  <1> DEFINE m1 == mail[1]
  <1> HIDE DEF m1
  <1>1. CASE HandlesList
    <2>1. m1.kind = "list" /\ proxies' = proxies \cup m1.paths
      BY <1>1 DEF HandlesList, m1
    <2> QED
      BY <2>1 DEF Adds, Drops, m1
  <1>2. CASE HandlesAdded
    <2>1. m1.kind = "added" /\ proxies' = proxies \cup {m1.path}
      BY <1>2 DEF HandlesAdded, m1
    <2> QED
      BY <2>1 DEF Adds, Drops, m1
  <1>3. CASE HandlesRemoved
    <2>1. m1.kind = "removed" /\ proxies' = proxies \ {m1.path}
      BY <1>3 DEF HandlesRemoved, m1
    <2> QED
      BY <2>1 DEF Adds, Drops, m1
  <1>4. CASE HandlesError \/ HandlesStatus \/ HandlesBattery \/ HandlesRead
    <2>1. proxies' = proxies /\ m1.kind \in {"listError", "status", "battery", "read", "readError"}
      BY <1>4 DEF HandlesError, HandlesStatus, HandlesBattery, HandlesRead, ReadReplied, m1
    <2> QED
      BY <2>1 DEF Adds, Drops, m1
  <1>5. CASE HandlesUp
    <2>1. proxies' = {} /\ m1.kind = "up"
      BY <1>5 DEF HandlesUp, teardownProxies, m1
    <2> QED
      BY <2>1 DEF Adds, Drops, m1
  <1>6. ~HandlesDown
    BY DEF HandlesDown
  <1> QED
    BY <1>1, <1>2, <1>3, <1>4, <1>5, <1>6 DEF Handles

-----------------------------------------------------------------------------
(* The devices of the list are known                                        *)

\* The list failed, or will be renewed.
Renewal == failed \/ ListAsked(calls) \/ KindAfter(mail, "up", 0) \/ KindAfter(mail, "listError", 0)

\* Else every listed device has its proxy once the mail is handled.
Secured == up /\ ~Renewal => \A p \in listed : Tracked(proxies, mail, p, Len(mail) + 1)

\* A device that is listed keeps its proxy, or is told.
LEMMA SecuredKept ==
    ASSUME ConnTypes, DaemonLists, Restarts, Secured, ConnSteps
    PROVE  Secured'
  <1> DEFINE n == Len(mail)
             m1 == mail[1]
  <1>1. mail \in Seq(Messages) /\ calls \in Seq(ConnCalls) /\ n \in Nat
    BY DEF ConnTypes
  <1>2. ASSUME NEW m \in Messages, Appearing(m) \/ Vanishing(m) \/ Powering(m) \/ Charging(m) \/ Starting(m) \/ Answering(m)
        PROVE  Secured'
    <2>1. mail' = Append(mail, m) /\ UNCHANGED <<proxies, failed>> /\ (~Answering(m) => UNCHANGED calls)
      BY <1>2, ToldNow DEF guiVars
    <2>s. Telled(mail, m, mail')
      BY <1>1, <2>1, Told
    <2>2. /\ Len(mail') + 1 = n + 2
          /\ \A k : KindAfter(mail', k, 0) <=> KindAfter(mail, k, 0) \/ m.kind = k
      <3>1. 0 \in 0 .. n
        BY <1>1
      <3> QED
        BY <1>1, <2>s, <3>1 DEF Telled
    <2>3. /\ \A p : Adds(m, p) => Tracked(proxies, mail', p, n + 2)
          /\ \A p : Tracked(proxies, mail, p, n + 1) /\ ~Drops(m, p) => Tracked(proxies, mail', p, n + 2)
      BY <1>1, <2>1, ToldTracked
    <2> HIDE DEF n
    <2>4. ASSUME up', ~Renewal',
                 \A p \in listed' : Adds(m, p) \/ (p \in listed /\ ~Drops(m, p) /\ up /\ ~Renewal)
          PROVE  \A p \in listed' : Tracked(proxies', mail', p, Len(mail') + 1)
      BY <2>1, <2>2, <2>3, <2>4 DEF Secured, n
    <2>5. CASE ~Answering(m)
      <3>0. ~Renewal' => ~Renewal
        BY <2>1, <2>2, <2>5 DEF Renewal
      <3>1. CASE Appearing(m)
        <4>1. up /\ m.kind = "added" /\ listed' = listed \cup {m.path}
          BY <3>1 DEF Appearing
        <4> QED
          BY <2>4, <3>0, <4>1 DEF Adds, Drops, Secured
      <3>2. CASE Vanishing(m)
        <4>1. up' = up /\ m.kind = "removed" /\ listed' = listed \ {m.path}
          BY <3>2 DEF Vanishing
        <4> QED
          BY <2>4, <3>0, <4>1 DEF Adds, Drops, Secured
      <3>3. CASE Powering(m) \/ Charging(m)
        <4>1. up /\ m.kind \in {"status", "battery"} /\ listed' = listed
          BY <3>3 DEF Powering, Charging
        <4> QED
          BY <2>4, <3>0, <4>1 DEF Adds, Drops, Secured
      <3>4. CASE Starting(m)
        <4>1. m.kind = "up"
          BY <3>4 DEF Starting
        <4> QED
          BY <2>2, <4>1 DEF Secured, Renewal
      <3> QED
        BY <1>2, <2>5, <3>1, <3>2, <3>3, <3>4
    <2>6. CASE Answering(m)
      <3>1. calls # << >> /\ calls' = Tail(calls) /\ Answered(Head(calls), m) /\ UNCHANGED <<up, listed>>
        BY <2>6 DEF Answering, daemonVars
      <3>2. ListAsked(calls) <=> Head(calls) = Enumeration \/ ListAsked(calls')
        BY <1>1, <3>1, CallGone
      <3>3. CASE m.kind = "listError"
        BY <2>2, <3>3 DEF Secured, Renewal
      <3>4. CASE m.kind = "list"
        <4>1. \A p \in listed : Adds(m, p)
          BY <3>1, <3>4 DEF Answered, Adds
        <4> QED
          BY <2>4, <3>1, <4>1 DEF Secured
      <3>5. CASE m.kind \in {"read", "readError"}
        <4>1. Head(calls) # Enumeration
          BY <3>1, <3>5, CallKinds DEF Answered
        <4>2. ~Renewal' => ~Renewal
          BY <2>1, <2>2, <3>2, <4>1 DEF Renewal
        <4>3. \A p : ~Drops(m, p)
          BY <3>5 DEF Drops
        <4> QED
          BY <2>4, <3>1, <4>2, <4>3 DEF Secured
      <3> QED
        BY <3>1, <3>3, <3>4, <3>5 DEF Answered
    <2> QED
      BY <2>5, <2>6
  <1>3. CASE Moving
    BY <1>3 DEF Moving, guiVars, Secured, Renewal
  <1>4. CASE Stopping
    BY <1>4 DEF Stopping, Secured
  <1>5. CASE Handles
    <2>1. mail # << >> /\ mail' = Tail(mail) /\ UNCHANGED <<up, listed>>
      BY <1>5, HandlesIs
    <2>s. Took(mail, mail')
      BY <1>1, <2>1, Handled
    <2>2. /\ Len(mail') = n - 1 /\ Len(mail') + 1 = n /\ n \in 1 .. n
          /\ \A k : KindAfter(mail, k, 0) <=> m1.kind = k \/ KindAfter(mail', k, 0)
          /\ \A k : KindAfter(mail', k, 0) <=> KindAfter(mail, k, 1)
          /\ 1 \in 1 .. n
      <3>1. \A k : KindAfter(mail', k, 0) <=> KindAfter(mail, k, 0 + 1)
        BY <2>s DEF Took
      <3>2. n \in Nat \ {0} /\ Len(mail') = n - 1
        BY <2>s DEF Took
      <3> QED
        BY <2>s, <3>1, <3>2 DEF Took
    <2>3. CASE m1.kind = "down"
      <3>1. up => KindAfter(mail', "up", 0)
        BY <2>2, <2>3 DEF Restarts
      <3> QED
        BY <2>1, <3>1 DEF Secured, Renewal
    <2>4. CASE HandlesError
      <3>1. failed'
        BY <2>4 DEF HandlesError
      <3> QED
        BY <3>1 DEF Secured, Renewal
    <2>5. CASE HandlesUp
      <3>1. ListAsked(calls')
        BY <2>5 DEF HandlesUp, AsksList
      <3> QED
        BY <3>1 DEF Secured, Renewal
    <2>6. CASE m1.kind \notin {"down", "up", "listError"}
      <3>1. failed' = failed /\ (ListAsked(calls') <=> ListAsked(calls))
        BY <1>5, <2>6 DEF Handles, HandlesError, HandlesList, HandlesAdded, HandlesRemoved, HandlesStatus,
              HandlesBattery, HandlesRead, HandlesDown, HandlesUp, ReadReplied, AsksFor, AsksMore, m1
      <3>2. ~Renewal' => ~Renewal
        BY <2>2, <2>6, <3>1 DEF Renewal
      <3>3. ASSUME NEW p, Tracked(proxies, mail, p, n + 1) PROVE Tracked(proxies', mail', p, n)
        <4>1. Adds(mail[1], p) \/ (p \in proxies /\ ~Drops(mail[1], p)) => p \in proxies'
          BY <1>5, <2>6, ProxiesNow
        <4> HIDE DEF n
        <4>2. n = Len(mail)
          BY DEF n
        <4> QED
          BY <1>1, <2>1, <2>2, <3>3, <4>1, <4>2, HandledTracked
      <3> QED
        BY <2>1, <2>2, <3>2, <3>3 DEF Secured
    <2>7. m1.kind = "up" => HandlesUp
      BY <1>5 DEF Handles, HandlesError, HandlesList, HandlesAdded, HandlesRemoved, HandlesStatus,
            HandlesBattery, HandlesRead, HandlesDown, ReadReplied, m1
    <2>8. m1.kind = "listError" => HandlesError
      BY <1>5 DEF Handles, HandlesUp, HandlesList, HandlesAdded, HandlesRemoved, HandlesStatus,
            HandlesBattery, HandlesRead, HandlesDown, ReadReplied, m1
    <2> QED
      BY <2>3, <2>4, <2>5, <2>6, <2>7, <2>8
  <1>6. CASE Retrying
    BY <1>6 DEF Retrying, AsksList, Secured, Renewal
  <1> QED
    BY <1>2, <1>3, <1>4, <1>5, <1>6 DEF ConnSteps, Handles

-----------------------------------------------------------------------------
(* What is told of a device is what it is                                   *)

\* The last that is told of the state, or of the battery, is so, unless the
\* device will be dropped.
StatusLast ==
    up => \A p \in DevicePaths : \A i \in 1 .. Len(mail) : Statuses(mail[i], p) =>
        DropsAfter(mail, p, i) \/ StatusAfter(mail, p, i) \/ mail[i].awake = power[p].awake
BatteryTrue ==
    up => \A p \in DevicePaths : \A i \in 1 .. Len(mail) : Batteries(mail[i], p) =>
        DropsAfter(mail, p, i) \/ power[p].known = TRUE

\* What a row, or an answer, says of p is so, or what is behind it says so, or
\* the reply was overtaken.
StateHolds(aw, p, i) == StatusAfter(mail, p, i) \/ aw = power[p].awake \/ Overtaken(p, "awake")
KnownHolds(kn, p, i) == kn = power[p].known \/ (kn = FALSE /\ BatteryAfter(mail, p, i)) \/ Overtaken(p, "known")

\* So is the answer that finds the device tracked.
ReadTrue ==
    up => \A p \in DevicePaths : \A i \in 1 .. Len(mail) :
        mail[i].kind = "read" /\ mail[i].path = p /\ Tracked(proxies, mail, p, i) =>
            DropsAfter(mail, p, i) \/ (StateHolds(mail[i].awake, p, i) /\ KnownHolds(mail[i].known, p, i))

\* So is the row, unless the device could not be read.
RowHolds(r) ==
    /\ \/ StatusAfter(mail, r.path, 0) \/ r.state = Connection(power[r.path].awake) \/ Overtaken(r.path, "awake")
       \/ r.state = "Offline" /\ r.path \in unread
    /\ KnownHolds(r.known, r.path, 0) \/ (r.known = FALSE /\ r.path \in unread)
RowTrue == up => \A r \in ToSet(rows) : DropsAfter(mail, r.path, 0) \/ RowHolds(r)

\* An answer that finds a device tracked that is not there is followed by the
\* news that it is gone.
LEMMA TrackedThere ==
    ASSUME ConnTypes, ProxyThere, MailThere, up, NEW p \in DevicePaths, p \notin There,
           NEW i \in 1 .. Len(mail), mail[i].kind = "read", Tracked(proxies, mail, p, i)
    PROVE  DropsAfter(mail, p, i)
  <1> DEFINE n == Len(mail)
  <1>1. n \in Nat
    BY DEF ConnTypes
  <1> HIDE DEF n
  <1>2. ~Drops(mail[i], p)
    BY DEF Drops
  <1>3. CASE p \in proxies /\ \A l \in 1 .. n : l < i => ~Drops(mail[l], p)
    <2>1. PICK j \in 1 .. n : Drops(mail[j], p)
      BY <1>3 DEF ProxyThere, DropsAfter, n
    <2>2. i < j
      BY <1>1, <1>2, <1>3, <2>1 DEF n
    <2> QED
      BY <2>1, <2>2 DEF DropsAfter, n
  <1>4. CASE \E k \in 1 .. n : k < i /\ Adds(mail[k], p) /\ \A l \in 1 .. n : k < l /\ l < i => ~Drops(mail[l], p)
    <2>1. PICK k \in 1 .. n : Adds(mail[k], p) /\ \A l \in 1 .. n : k < l /\ l < i => ~Drops(mail[l], p)
      BY <1>4
    <2>2. PICK j \in 1 .. n : k < j /\ Drops(mail[j], p)
      BY <2>1 DEF MailThere, DropsAfter, n
    <2>3. i < j
      BY <1>1, <1>2, <2>1, <2>2 DEF n
    <2> QED
      BY <2>2, <2>3 DEF DropsAfter, n
  <1> QED
    BY <1>3, <1>4 DEF Tracked, n

\* A device that is not there is not tracked any more behind the last message.
LEMMA TrackedNow ==
    ASSUME ConnTypes, ProxyThere, MailThere, up, NEW p \in DevicePaths, p \notin There
    PROVE  ~Tracked(proxies, mail, p, Len(mail) + 1)
  <1> DEFINE n == Len(mail)
  <1>1. n \in Nat /\ \A l \in 1 .. n : l < n + 1
    BY DEF ConnTypes
  <1> HIDE DEF n
  <1>2. p \in proxies => \E l \in 1 .. n : Drops(mail[l], p)
    BY DEF ProxyThere, DropsAfter, n
  <1>3. ASSUME NEW k \in 1 .. n, Adds(mail[k], p) PROVE \E l \in 1 .. n : k < l /\ Drops(mail[l], p)
    BY <1>3 DEF MailThere, DropsAfter, n
  <1> QED
    BY <1>1, <1>2, <1>3 DEF Tracked, n

\* What a change does to the properties that were overtaken: none of another is,
\* and none stops to be.
LEMMA Overtaking ==
    ASSUME NEW p, NEW ks, Changed(p, ks)
    PROVE  /\ \A q, k : q # p \/ k \notin ks => (Overtaken(q, k)' <=> Overtaken(q, k))
           /\ \A k \in ks : <<p, k>> \in HasRead(p) => Overtaken(p, k)'
  BY DEF Changed, Overtaken

\* What is told is so, and what was told before stays so.
LEMMA TruthTold ==
    ASSUME ConnTypes, DaemonLists, RowsOrdered, ProxyThere, MailThere,
           StatusLast, BatteryTrue, ReadTrue, RowTrue, NEW m \in Messages,
           Appearing(m) \/ Vanishing(m) \/ Powering(m) \/ Charging(m) \/ Starting(m) \/ Answering(m)
    PROVE  StatusLast' /\ BatteryTrue' /\ ReadTrue' /\ RowTrue'
  <1> DEFINE n == Len(mail)
  <1>1. mail \in Seq(Messages) /\ n \in Nat /\ rows \in Seq(Row) /\ \A r \in ToSet(rows) : r.path \in proxies
    BY DEF ConnTypes, RowsOrdered
  <1>2. mail' = Append(mail, m) /\ UNCHANGED <<proxies, rows, unread>>
    BY ToldNow DEF guiVars
  <1>s. Telled(mail, m, mail')
    BY <1>1, <1>2, Told
  <1>3. /\ Len(mail') = n + 1
        /\ \A i \in 1 .. n : mail'[i] = mail[i]
        /\ mail'[n + 1] = m
        /\ \A p : \A i \in 0 .. n : DropsAfter(mail', p, i) <=> DropsAfter(mail, p, i) \/ Drops(m, p)
        /\ \A p : \A i \in 0 .. n : StatusAfter(mail', p, i) <=> StatusAfter(mail, p, i) \/ Statuses(m, p)
        /\ \A p : \A i \in 0 .. n : BatteryAfter(mail', p, i) <=> BatteryAfter(mail, p, i) \/ Batteries(m, p)
    BY <1>s DEF Telled
  <1>4. (\A i \in 1 .. n + 1 : i \in 1 .. n \/ i = n + 1) /\ (\A i \in 1 .. n : i \in 0 .. n) /\ 0 \in 0 .. n
        /\ \A i \in 1 .. n : i \in 1 .. n + 1
    BY <1>1
  <1>5. \A p : \A i \in 1 .. n + 1 : Tracked(proxies', mail', p, i) <=> Tracked(proxies, mail, p, i)
    BY <1>1, <1>2, ToldTracked
  <1>6. (\A r \in ToSet(rows) : r.path \in DevicePaths) /\ proxies \subseteq DevicePaths /\ \A r \in ToSet(rows) : r \in Row
    BY <1>1 DEF ConnTypes, ToSet
  <1> HIDE DEF n
  \* Where the device is there, what is told so far is still so, or m tells it.
  <1>7. ASSUME up, up',
               \A p \in DevicePaths : Drops(m, p) \/ Statuses(m, p) \/ p \notin There
                   \/ (power'[p].awake = power[p].awake /\ (Overtaken(p, "awake") => Overtaken(p, "awake")')),
               \A p \in DevicePaths : Drops(m, p) \/ p \notin There \/ (power'[p].known = TRUE /\ Batteries(m, p))
                   \/ (power'[p].known = power[p].known /\ (Overtaken(p, "known") => Overtaken(p, "known")')),
               \A p \in DevicePaths : Statuses(m, p) => m.awake = power'[p].awake,
               \A p \in DevicePaths : Batteries(m, p) => power'[p].known = TRUE,
               \A p \in DevicePaths : m.kind = "read" /\ m.path = p => p \notin There
                   \/ ((m.awake = power'[p].awake \/ Overtaken(p, "awake")') /\ (m.known = power'[p].known \/ Overtaken(p, "known")'))
        PROVE  StatusLast' /\ BatteryTrue' /\ ReadTrue' /\ RowTrue'
    <2>1. ASSUME NEW p \in DevicePaths, NEW i \in 1 .. n, Statuses(mail[i], p)
          PROVE  DropsAfter(mail', p, i) \/ StatusAfter(mail', p, i) \/ mail[i].awake = power'[p].awake
      <3>1. DropsAfter(mail, p, i) \/ StatusAfter(mail, p, i) \/ mail[i].awake = power[p].awake
        BY <1>7, <2>1 DEF StatusLast, n
      <3>2. p \in There \/ DropsAfter(mail, p, i)
        BY <1>7, <2>1 DEF MailThere, n
      <3> QED
        BY <1>3, <1>4, <1>7, <3>1, <3>2
    <2>2. StatusLast'
      <3>1. ASSUME NEW p \in DevicePaths, NEW i \in 1 .. n + 1, Statuses(mail'[i], p)
            PROVE  DropsAfter(mail', p, i) \/ StatusAfter(mail', p, i) \/ mail'[i].awake = power'[p].awake
        BY <1>3, <1>4, <1>7, <2>1, <3>1
      <3> QED
        BY <1>3, <3>1 DEF StatusLast
    <2>3. ASSUME NEW p \in DevicePaths, NEW i \in 1 .. n, Batteries(mail[i], p)
          PROVE  DropsAfter(mail', p, i) \/ power'[p].known = TRUE
      <3>1. DropsAfter(mail, p, i) \/ power[p].known = TRUE
        BY <1>7, <2>3 DEF BatteryTrue, n
      <3>2. p \in There \/ DropsAfter(mail, p, i)
        BY <1>7, <2>3 DEF MailThere, n
      <3> QED
        BY <1>3, <1>4, <1>7, <3>1, <3>2
    <2>4. BatteryTrue'
      <3>1. ASSUME NEW p \in DevicePaths, NEW i \in 1 .. n + 1, Batteries(mail'[i], p)
            PROVE  DropsAfter(mail', p, i) \/ power'[p].known = TRUE
        BY <1>3, <1>4, <1>7, <2>3, <3>1
      <3> QED
        BY <1>3, <3>1 DEF BatteryTrue
    <2>5. ASSUME NEW p \in DevicePaths, NEW i \in 0 .. n, p \in There \/ DropsAfter(mail, p, i),
                 NEW kn \in BOOLEAN, KnownHolds(kn, p, i)
          PROVE  DropsAfter(mail', p, i) \/ KnownHolds(kn, p, i)'
      BY <1>3, <1>7, <2>5 DEF KnownHolds
    <2>6. ASSUME NEW p \in DevicePaths, NEW i \in 1 .. n, mail[i].kind = "read", mail[i].path = p, Tracked(proxies, mail, p, i)
          PROVE  DropsAfter(mail', p, i)
                 \/ (StateHolds(mail[i].awake, p, i)' /\ KnownHolds(mail[i].known, p, i)')
      <3>0. mail[i] \in Messages
        BY <1>1 DEF n
      <3>1. mail[i].known \in BOOLEAN
        BY <3>0, <2>6, MessageFields
      <3>2. DropsAfter(mail, p, i) \/ (StateHolds(mail[i].awake, p, i) /\ KnownHolds(mail[i].known, p, i))
        BY <1>7, <2>6 DEF ReadTrue, n
      <3>3. p \in There \/ DropsAfter(mail, p, i)
        BY <1>7, <2>6, TrackedThere DEF n
      <3>4. i \in 0 .. n
        BY <1>4
      <3>5. DropsAfter(mail', p, i) \/ KnownHolds(mail[i].known, p, i)'
        <4>1. PICK kn \in BOOLEAN : kn = mail[i].known
          BY <3>1
        <4>2. DropsAfter(mail', p, i) \/ KnownHolds(kn, p, i)'
          BY <1>3, <2>5, <3>2, <3>3, <3>4, <4>1
        <4> QED
          BY <1>3, <1>4, <4>1, <4>2 DEF KnownHolds
      <3>6. DropsAfter(mail', p, i) \/ StateHolds(mail[i].awake, p, i)'
        BY <1>3, <1>7, <2>6, <3>2, <3>3, <3>4 DEF StateHolds
      <3> QED
        BY <3>5, <3>6
    <2>7. ReadTrue'
      <3>1. ASSUME NEW p \in DevicePaths, NEW i \in 1 .. n + 1, mail'[i].kind = "read", mail'[i].path = p,
                   Tracked(proxies', mail', p, i)
            PROVE  DropsAfter(mail', p, i)
                   \/ (StateHolds(mail[i].awake, p, i)' /\ KnownHolds(mail[i].known, p, i)')
        <4>1. CASE i \in 1 .. n
          <5>1. Tracked(proxies, mail, p, i) /\ mail'[i] = mail[i]
            BY <1>3, <1>4, <1>5, <3>1, <4>1
          <5>2. DropsAfter(mail', p, i)
                 \/ (StateHolds(mail[i].awake, p, i)' /\ KnownHolds(mail[i].known, p, i)')
            BY <2>6, <3>1, <4>1, <5>1
          <5> QED
            BY <5>1, <5>2 DEF StateHolds, KnownHolds
        <4>2. CASE i = n + 1
          <5>1. m.kind = "read" /\ m.path = p /\ Tracked(proxies, mail, p, n + 1)
            BY <1>3, <1>4, <1>5, <3>1, <4>2
          <5>2. p \in There
            BY <1>7, <5>1, TrackedNow DEF n
          <5> QED
            BY <1>3, <1>7, <4>2, <5>1, <5>2 DEF StateHolds, KnownHolds
        <4> QED
          BY <1>4, <4>1, <4>2
      <3> QED
        BY <1>3, <3>1 DEF ReadTrue, StateHolds, KnownHolds
    <2>8. ASSUME NEW r \in ToSet(rows) PROVE DropsAfter(mail', r.path, 0) \/ RowHolds(r)'
      <3>1. r.path \in DevicePaths /\ r.known \in BOOLEAN /\ r.path \in proxies
        BY <1>1, <1>6, RowFields
      <3>2. DropsAfter(mail, r.path, 0) \/ RowHolds(r)
        BY <1>7 DEF RowTrue
      <3>3. r.path \in There \/ DropsAfter(mail, r.path, 0)
        BY <1>7, <3>1 DEF ProxyThere
      <3>4. KnownHolds(r.known, r.path, 0) => DropsAfter(mail', r.path, 0) \/ KnownHolds(r.known, r.path, 0)'
        BY <1>3, <1>4, <1>7, <3>1, <3>3 DEF KnownHolds
      <3> QED
        BY <1>2, <1>3, <1>4, <1>7, <3>1, <3>2, <3>3, <3>4 DEF RowHolds
    <2>9. RowTrue'
      BY <1>2, <2>8 DEF RowTrue
    <2> QED
      BY <2>2, <2>4, <2>7, <2>9
  <1>8. m.kind \in {"added", "removed", "status", "battery", "read"} => m.path \in DevicePaths
    BY MessageFields
  <1>9. CASE Appearing(m)
    <2>1. up /\ up' /\ m.kind = "added" /\ m.path \notin There /\ \A q \in DevicePaths \ {m.path} : power'[q] = power[q]
      BY <1>9 DEF Appearing, DaemonLists
    <2>2. \A q, k : q # m.path => (Overtaken(q, k)' <=> Overtaken(q, k))
      BY <1>9, Overtaking DEF Appearing
    <2> QED
      BY <1>7, <2>1, <2>2 DEF Statuses, Batteries
  <1>10. CASE Vanishing(m)
    <2>1. m.kind = "removed" /\ power' = power /\ up' = up /\ \A p, k : Overtaken(p, k)' <=> Overtaken(p, k)
      BY <1>10 DEF Vanishing, Overtaken
    <2>2. CASE up
      BY <1>7, <2>1, <2>2 DEF Statuses, Batteries
    <2>3. CASE ~up
      BY <2>1, <2>3 DEF StatusLast, BatteryTrue, ReadTrue, RowTrue
    <2> QED
      BY <2>2, <2>3
  <1>11. CASE Powering(m)
    <2>1. /\ up /\ up' /\ m.kind = "status" /\ m.awake = power'[m.path].awake
          /\ \A q \in DevicePaths : power'[q].known = power[q].known /\ (q # m.path => power'[q].awake = power[q].awake)
      BY <1>11 DEF Powering
    <2>2. \A q, k : q # m.path \/ k # "awake" => (Overtaken(q, k)' <=> Overtaken(q, k))
      BY <1>11, Overtaking DEF Powering
    <2>3. \A q : Overtaken(q, "known")' <=> Overtaken(q, "known")
      BY <2>2
    <2> QED
      BY <1>7, <1>8, <2>1, <2>2, <2>3 DEF Statuses, Batteries
  <1>12. CASE Charging(m)
    <2>1. /\ up /\ up' /\ m.kind = "battery" /\ power'[m.path].known = TRUE
          /\ \A q \in DevicePaths : power'[q].awake = power[q].awake /\ (q # m.path => power'[q].known = power[q].known)
      BY <1>12 DEF Charging
    <2>2. \A q, k : q # m.path \/ k # "known" => (Overtaken(q, k)' <=> Overtaken(q, k))
      BY <1>12, Overtaking DEF Charging
    <2>3. \A q : Overtaken(q, "awake")' <=> Overtaken(q, "awake")
      BY <2>2
    <2> QED
      BY <1>7, <1>8, <2>1, <2>2, <2>3 DEF Statuses, Batteries
  <1>13. CASE Starting(m)
    <2>1. m.kind = "up"
      BY <1>13 DEF Starting
    <2>2. \A p : Drops(m, p) /\ ~Statuses(m, p) /\ ~Batteries(m, p)
      BY <2>1 DEF Drops, Statuses, Batteries
    <2>3. \A p : \A i \in 1 .. n : DropsAfter(mail', p, i)
      BY <1>3, <1>4, <2>2
    <2>4. StatusLast' /\ BatteryTrue'
      BY <1>3, <1>4, <2>2, <2>3 DEF StatusLast, BatteryTrue
    <2>5. ReadTrue'
      BY <1>3, <1>4, <2>1, <2>3 DEF ReadTrue
    <2>6. RowTrue'
      BY <1>2, <1>3, <1>4, <2>2 DEF RowTrue
    <2> QED
      BY <2>4, <2>5, <2>6
  <1>14. CASE Answering(m)
    <2>1. Answered(Head(calls), m) /\ power' = power /\ up' = up /\ \A p, k : Overtaken(p, k)' <=> Overtaken(p, k)
      BY <1>14 DEF Answering, daemonVars, Overtaken
    <2>2. CASE up
      <3>1. /\ m.kind \notin {"status", "battery"}
            /\ m.kind = "read" => m.path \notin There
                   \/ (/\ m.awake = power[m.path].awake \/ Overtaken(m.path, "awake")
                       /\ m.known = power[m.path].known \/ Overtaken(m.path, "known"))
        BY <2>1 DEF Answered, DaemonLists
      <3> QED
        BY <1>7, <2>1, <2>2, <3>1 DEF Statuses, Batteries
    <2>3. CASE ~up
      BY <2>1, <2>3 DEF StatusLast, BatteryTrue, ReadTrue, RowTrue
    <2> QED
      BY <2>2, <2>3
  <1> QED
    BY <1>9, <1>10, <1>11, <1>12, <1>13, <1>14

\* What is handled is shown as it was told.
LEMMA TruthHandled ==
    ASSUME ConnTypes, RowsOrdered, StatusLast, BatteryTrue, ReadTrue, RowTrue, Handles
    PROVE  StatusLast' /\ BatteryTrue' /\ ReadTrue' /\ RowTrue'
  <1> DEFINE n == Len(mail)
             m1 == mail[1]
             p1 == mail[1].path
  <1>1. mail \in Seq(Messages) /\ rows \in Seq(Row) /\ RowsInOrder(rows) /\ \A r \in ToSet(rows) : r.path \in proxies
    BY DEF ConnTypes, RowsOrdered
  <1>2. mail # << >> /\ mail' = Tail(mail) /\ UNCHANGED <<up, power>> /\ \A p, k : Overtaken(p, k)' <=> Overtaken(p, k)
    BY HandlesIs DEF Overtaken
  <1>s. Took(mail, mail')
    BY <1>1, <1>2, Handled
  <1>3. /\ Len(mail') = n - 1 /\ m1 \in Messages /\ n \in Nat /\ 1 \in 1 .. n /\ 0 \in 0 .. n - 1
        /\ \A i \in 1 .. n - 1 : mail'[i] = mail[i + 1] /\ i + 1 \in 1 .. n /\ i \in 0 .. n - 1 /\ i \in 1 .. n
        /\ \A p : \A i \in 0 .. n - 1 : DropsAfter(mail', p, i) <=> DropsAfter(mail, p, i + 1)
        /\ \A p : \A i \in 0 .. n - 1 : StatusAfter(mail', p, i) <=> StatusAfter(mail, p, i + 1)
        /\ \A p : \A i \in 0 .. n - 1 : BatteryAfter(mail', p, i) <=> BatteryAfter(mail, p, i + 1)
        /\ \A p : DropsAfter(mail, p, 0) <=> Drops(m1, p) \/ DropsAfter(mail', p, 0)
        /\ \A p : StatusAfter(mail, p, 0) <=> Statuses(m1, p) \/ StatusAfter(mail', p, 0)
        /\ \A p : BatteryAfter(mail, p, 0) <=> Batteries(m1, p) \/ BatteryAfter(mail', p, 0)
    BY <1>s DEF Took
  <1>4. /\ \A p : DropsAfter(mail', p, 0) <=> DropsAfter(mail, p, 1)
        /\ \A p : StatusAfter(mail', p, 0) <=> StatusAfter(mail, p, 1)
        /\ \A p : BatteryAfter(mail', p, 0) <=> BatteryAfter(mail, p, 1)
    <2>1. /\ \A p : DropsAfter(mail', p, 0) <=> DropsAfter(mail, p, 0 + 1)
          /\ \A p : StatusAfter(mail', p, 0) <=> StatusAfter(mail, p, 0 + 1)
          /\ \A p : BatteryAfter(mail', p, 0) <=> BatteryAfter(mail, p, 0 + 1)
      BY <1>3
    <2> QED
      BY <2>1
  <1>5. /\ m1.kind \in {"added", "removed", "readError", "status", "battery", "read"} => p1 \in DevicePaths
        /\ m1.kind \in {"status", "read"} => m1.awake \in BOOLEAN
        /\ m1.kind \in {"battery", "read"} => m1.known \in BOOLEAN
        /\ m1.kind = "battery" => m1.known = TRUE
    BY <1>3, MessageFields
  <1>6. \A r \in ToSet(rows) : r.path \in DevicePaths /\ r.known \in BOOLEAN
    <2>1. \A r \in ToSet(rows) : r \in Row
      BY <1>1 DEF ToSet
    <2> QED
      BY <2>1, RowFields
  <1> HIDE DEF n, m1, p1
  <1>7. StatusLast'
    BY <1>2, <1>3 DEF StatusLast, n
  <1>8. BatteryTrue'
    BY <1>2, <1>3 DEF BatteryTrue, n
  <1>9. ReadTrue'
    <2>1. ASSUME NEW p, NEW i \in 1 .. n - 1, Tracked(proxies', mail', p, i) PROVE Tracked(proxies, mail, p, i + 1)
      <3>1. p \in proxies' => Adds(mail[1], p) \/ (p \in proxies /\ ~Drops(mail[1], p))
        <4>1. CASE mail[1].kind = "down"
          <5>1. HandlesDown
            BY <4>1 DEF Handles, HandlesError, HandlesList, HandlesAdded, HandlesRemoved, HandlesStatus,
                  HandlesBattery, HandlesRead, HandlesUp, ReadReplied
          <5> QED
            BY <5>1 DEF HandlesDown, onDaemonDown, teardownProxies
        <4>2. CASE mail[1].kind # "down"
          BY <4>2, ProxiesNow
        <4> QED
          BY <4>1, <4>2
      <3>2. n = Len(mail) /\ i \in 1 .. n
        BY <1>3 DEF n
      <3> QED
        BY <1>1, <1>2, <2>1, <3>1, <3>2, HandledTracked
    <2>2. ASSUME up, NEW p \in DevicePaths, NEW i \in 1 .. n - 1, mail'[i].kind = "read", mail'[i].path = p,
                 Tracked(proxies', mail', p, i)
          PROVE  DropsAfter(mail', p, i)
                 \/ (StateHolds(mail[i].awake, p, i)' /\ KnownHolds(mail[i].known, p, i)')
      <3>1. mail'[i] = mail[i + 1] /\ i + 1 \in 1 .. n /\ i \in 0 .. n - 1
        BY <1>3
      <3>2. Tracked(proxies, mail, p, i + 1)
        BY <2>1, <2>2
      <3>3. DropsAfter(mail, p, i + 1) \/ (StateHolds(mail[i + 1].awake, p, i + 1) /\ KnownHolds(mail[i + 1].known, p, i + 1))
        BY <2>2, <3>1, <3>2 DEF ReadTrue, n
      <3> QED
        BY <1>2, <1>3, <3>1, <3>3 DEF StateHolds, KnownHolds
    <2>3. Len(mail') = n - 1 /\ (up' => up)
      BY <1>2, <1>3
    <2> QED
      BY <2>2, <2>3 DEF ReadTrue
  \* A row the message does not concern.
  <1>10. ASSUME up, NEW r \in ToSet(rows), ~Drops(m1, r.path), ~Statuses(m1, r.path), ~Batteries(m1, r.path),
                r.path \in unread => r.path \in unread'
         PROVE  DropsAfter(mail', r.path, 0) \/ RowHolds(r)'
    <2>1. DropsAfter(mail, r.path, 0) \/ RowHolds(r)
      BY <1>10 DEF RowTrue
    <2> QED
      BY <1>2, <1>3, <1>10, <2>1 DEF RowHolds, KnownHolds
  <1>11. ASSUME UNCHANGED <<rows, unread>>, \A r \in ToSet(rows) : ~Drops(m1, r.path) /\ ~Statuses(m1, r.path) /\ ~Batteries(m1, r.path)
         PROVE  RowTrue'
    BY <1>2, <1>10, <1>11 DEF RowTrue
  <1>12. CASE HandlesError \/ HandlesList \/ HandlesAdded
    <2>1. m1.kind \in {"listError", "list", "added"} /\ UNCHANGED <<rows, unread>>
      BY <1>12 DEF HandlesError, HandlesList, HandlesAdded, m1
    <2> QED
      BY <1>7, <1>8, <1>9, <1>11, <2>1 DEF Drops, Statuses, Batteries
  <1>13. CASE HandlesRemoved
    <2>1. m1.kind = "removed" /\ rows' = onDeviceRemoved(rows, p1) /\ unread' = unread
      BY <1>13 DEF HandlesRemoved, m1, p1
    <2>2. ToSet(rows') = {r \in ToSet(rows) : r.path # p1}
      BY <1>1, <1>5, <2>1, RowRemoved
    <2>3. ASSUME up, NEW r \in ToSet(rows') PROVE DropsAfter(mail', r.path, 0) \/ RowHolds(r)'
      <3>1. r \in ToSet(rows) /\ r.path # p1
        BY <2>2, <2>3
      <3> QED
        BY <1>10, <2>1, <2>3, <3>1 DEF Drops, Statuses, Batteries, m1, p1
    <2>4. RowTrue'
      BY <1>2, <2>3 DEF RowTrue
    <2> QED
      BY <1>7, <1>8, <1>9, <2>4
  <1>14. CASE HandlesStatus
    <2>1. m1.kind = "status" /\ unread' = unread
      BY <1>14 DEF HandlesStatus, m1
    <2>2. CASE p1 \notin proxies
      <3>1. rows' = rows
        BY <1>14, <2>2 DEF HandlesStatus, p1
      <3>2. \A r \in ToSet(rows) : r.path # p1
        BY <1>1, <2>2
      <3> QED
        BY <1>7, <1>8, <1>9, <1>11, <2>1, <3>1, <3>2 DEF Drops, Statuses, Batteries, m1, p1
    <2>3. CASE p1 \in proxies
      <3>1. Stated(rows', rows, p1, Connection(m1.awake))
        <4>1. Connection(m1.awake) \in {"Online", "Sleeping", "Offline"}
          BY DEF Connection
        <4>2. rows' = onConnectionStateChanged(rows, p1, Connection(m1.awake))
          BY <1>14, <2>3 DEF HandlesStatus, m1, p1
        <4> QED
          BY <1>1, <1>5, <2>1, <4>1, <4>2, RowState
      <3>2. ASSUME up, NEW x \in ToSet(rows') PROVE DropsAfter(mail', x.path, 0) \/ RowHolds(x)'
        <4>1. PICK r \in ToSet(rows) : x.path = r.path /\ x.known = r.known /\ (x.path # p1 => x = r)
                                       /\ (x.path = p1 => x.state = Connection(m1.awake))
          BY <3>1, <3>2 DEF Stated
        <4>2. CASE x.path # p1
          BY <1>10, <2>1, <3>2, <4>1, <4>2 DEF Drops, Statuses, Batteries, m1, p1
        <4>3. CASE x.path = p1
          <5>1. DropsAfter(mail, p1, 1) \/ StatusAfter(mail, p1, 1) \/ m1.awake = power[p1].awake
            BY <1>3, <1>5, <2>1, <3>2 DEF StatusLast, Statuses, m1, p1, n
          <5>2. DropsAfter(mail, p1, 0) \/ RowHolds(r)
            BY <3>2, <4>1, <4>3 DEF RowTrue
          <5>3. ~Drops(m1, p1) /\ ~Batteries(m1, p1)
            BY <2>1 DEF Drops, Batteries
          <5> QED
            BY <1>2, <1>3, <1>4, <2>1, <4>1, <4>3, <5>1, <5>2, <5>3 DEF RowHolds, KnownHolds
        <4> QED
          BY <4>2, <4>3
      <3>3. RowTrue'
        BY <1>2, <3>2 DEF RowTrue
      <3> QED
        BY <1>7, <1>8, <1>9, <3>3
    <2> QED
      BY <2>2, <2>3
  <1>15. CASE HandlesBattery
    <2>1. m1.kind = "battery" /\ unread' = unread
      BY <1>15 DEF HandlesBattery, m1
    <2>2. CASE p1 \notin proxies
      <3>1. rows' = rows
        BY <1>15, <2>2 DEF HandlesBattery, p1
      <3>2. \A r \in ToSet(rows) : r.path # p1
        BY <1>1, <2>2
      <3> QED
        BY <1>7, <1>8, <1>9, <1>11, <2>1, <3>1, <3>2 DEF Drops, Statuses, Batteries, m1, p1
    <2>3. CASE p1 \in proxies
      <3>1. Charged(rows', rows, p1, m1.known)
        <4>2. rows' = onBatteryChanged(rows, p1, m1.known)
          BY <1>15, <2>3 DEF HandlesBattery, m1, p1
        <4> QED
          BY <1>1, <1>5, <2>1, <4>2, RowBattery
      <3>2. ASSUME up, NEW x \in ToSet(rows') PROVE DropsAfter(mail', x.path, 0) \/ RowHolds(x)'
        <4>1. PICK r \in ToSet(rows) : x.path = r.path /\ x.state = r.state /\ (x.path # p1 => x = r)
                                       /\ (x.path = p1 => x.known = m1.known)
          BY <3>1, <3>2 DEF Charged
        <4>2. CASE x.path # p1
          BY <1>10, <2>1, <3>2, <4>1, <4>2 DEF Drops, Statuses, Batteries, m1, p1
        <4>3. CASE x.path = p1
          <5>1. DropsAfter(mail, p1, 1) \/ power[p1].known = TRUE
            BY <1>3, <1>5, <2>1, <3>2 DEF BatteryTrue, Batteries, m1, p1, n
          <5>2. DropsAfter(mail, p1, 0) \/ RowHolds(r)
            BY <3>2, <4>1, <4>3 DEF RowTrue
          <5>3. ~Drops(m1, p1) /\ ~Statuses(m1, p1)
            BY <2>1 DEF Drops, Statuses
          <5> QED
            BY <1>2, <1>3, <1>4, <1>5, <2>1, <4>1, <4>3, <5>1, <5>2, <5>3 DEF RowHolds, KnownHolds
        <4> QED
          BY <4>2, <4>3
      <3>3. RowTrue'
        BY <1>2, <3>2 DEF RowTrue
      <3> QED
        BY <1>7, <1>8, <1>9, <3>3
    <2> QED
      BY <2>2, <2>3
  <1>16. CASE HandlesRead
    <2>1. m1.kind \in {"read", "readError"}
          /\ unread' = (IF m1.kind = "readError" THEN unread \cup {p1}
                        ELSE IF rowForPath(rows, p1) = {} THEN unread \ {p1} ELSE unread)
      BY <1>16 DEF HandlesRead, ReadReplied, m1, p1
    <2>0. \A p : ~Drops(m1, p) /\ ~Statuses(m1, p) /\ ~Batteries(m1, p)
      BY <2>1 DEF Drops, Statuses, Batteries
    <2>u. \A p : p # p1 /\ p \in unread => p \in unread'
      BY <2>1
    <2>2. CASE p1 \notin proxies
      <3>1. rows' = rows
        BY <1>16, <2>2 DEF HandlesRead, ReadReplied, m1, p1
      <3>2. \A r \in ToSet(rows) : r.path # p1
        BY <1>1, <2>2
      <3>3. RowTrue'
        BY <1>2, <1>10, <2>0, <2>u, <3>1, <3>2 DEF RowTrue
      <3> QED
        BY <1>7, <1>8, <1>9, <3>3
    <2>3. CASE p1 \in proxies
      <3>1. PICK m \in Messages : m = mail[1] /\ m = m1 /\ m.path = p1
        BY <1>3 DEF m1, p1
      <3>2. /\ \A r \in ToSet(rows') : r.path # m.path => r \in ToSet(rows)
            /\ m.kind = "read" => \A r \in ToSet(rows') : r.path = m.path =>
                  /\ r.known = m.known
                  /\ \/ r.state = Connection(m.awake) /\ unread' = unread \ {m.path}
                     \/ (\E r0 \in ToSet(rows) : r0.path = m.path /\ r0.state = r.state) /\ unread' = unread
            /\ m.kind = "readError" => /\ \A r \in ToSet(rows') : r.path = m.path => r.state = "Offline" /\ r.known = FALSE
                                       /\ unread' = unread \cup {m.path}
        BY <1>16, <2>3, <3>1, RowsRead
      <3>3. ASSUME up, NEW x \in ToSet(rows') PROVE DropsAfter(mail', x.path, 0) \/ RowHolds(x)'
        <4>1. CASE x.path # p1
          BY <1>10, <2>0, <2>u, <3>1, <3>2, <3>3, <4>1
        <4>2. CASE x.path = p1 /\ m.kind = "readError"
          BY <3>1, <3>2, <3>3, <4>2 DEF RowHolds, KnownHolds
        <4>3. CASE x.path = p1 /\ m.kind = "read"
          <5>1. Tracked(proxies, mail, p1, 1)
            BY <1>3, <2>3 DEF Tracked, n
          <5>2. DropsAfter(mail, p1, 1) \/ (StateHolds(m.awake, p1, 1) /\ KnownHolds(m.known, p1, 1))
            <6>1. mail[1].kind = "read" /\ mail[1].path = p1 /\ 1 \in 1 .. Len(mail) /\ p1 \in DevicePaths
              BY <1>3, <3>1, <4>3, MessageFields DEF n
            <6> QED
              BY <3>1, <3>3, <5>1, <6>1 DEF ReadTrue, m1
          <5>3. x.known = m.known
            BY <3>1, <3>2, <3>3, <4>3
          <5>4. CASE x.state = Connection(m.awake)
            BY <1>2, <1>4, <4>3, <5>2, <5>3, <5>4 DEF RowHolds, StateHolds, KnownHolds
          <5>5. ASSUME NEW r0 \in ToSet(rows), r0.path = p1, r0.state = x.state, unread' = unread
                PROVE  DropsAfter(mail', x.path, 0) \/ RowHolds(x)'
            <6>1. DropsAfter(mail, p1, 0) \/ RowHolds(r0)
              BY <3>3, <5>5 DEF RowTrue
            <6> QED
              BY <1>2, <1>3, <1>4, <2>0, <4>3, <5>2, <5>3, <5>5, <6>1 DEF RowHolds, KnownHolds
          <5> QED
            BY <3>1, <3>2, <3>3, <4>3, <5>4, <5>5
        <4> QED
          BY <2>1, <3>1, <4>1, <4>2, <4>3
      <3>4. RowTrue'
        BY <1>2, <3>3 DEF RowTrue
      <3> QED
        BY <1>7, <1>8, <1>9, <3>4
    <2> QED
      BY <2>2, <2>3
  <1>17. CASE HandlesDown \/ HandlesUp
    <2>1. rows' = << >>
      BY <1>17 DEF HandlesDown, HandlesUp, onDaemonDown, teardownProxies
    <2>2. RowTrue'
      BY <2>1 DEF RowTrue, ToSet
    <2> QED
      BY <1>7, <1>8, <1>9, <2>2
  <1> QED
    BY <1>12, <1>13, <1>14, <1>15, <1>16, <1>17 DEF Handles

\* Every step keeps what is told, and shown, true.
LEMMA TruthKept ==
    ASSUME ConnTypes, DaemonLists, RowsOrdered, ProxyThere, MailThere,
           StatusLast, BatteryTrue, ReadTrue, RowTrue, ConnSteps
    PROVE  StatusLast' /\ BatteryTrue' /\ ReadTrue' /\ RowTrue'
  <1>1. CASE \E m \in Messages : Appearing(m) \/ Vanishing(m) \/ Powering(m) \/ Charging(m) \/ Starting(m) \/ Answering(m)
    BY <1>1, TruthTold
  <1>2. CASE Moving
    BY <1>2 DEF Moving, guiVars, StatusLast, BatteryTrue, ReadTrue, RowTrue, RowHolds, StateHolds, KnownHolds, Overtaken
  <1>3. CASE Stopping
    <2>1. up' = FALSE
      BY <1>3 DEF Stopping
    <2> QED
      BY <2>1 DEF StatusLast, BatteryTrue, ReadTrue, RowTrue
  <1>4. CASE Handles
    BY <1>4, TruthHandled
  <1>5. CASE Retrying
    <2>1. rows' = << >> /\ proxies' = {} /\ UNCHANGED <<up, power, overtaken, mail, unread>>
      BY <1>5 DEF Retrying, teardownProxies, daemonVars
    <2>2. RowTrue'
      BY <2>1 DEF RowTrue, ToSet
    <2>3. \A p, i : Tracked(proxies', mail', p, i) => Tracked(proxies, mail, p, i)
      BY <2>1 DEF Tracked
    <2>4. ReadTrue'
      BY <2>1, <2>3 DEF ReadTrue, StateHolds, KnownHolds, Overtaken
    <2> QED
      BY <2>1, <2>2, <2>4 DEF StatusLast, BatteryTrue
  <1> QED
    BY <1>1, <1>2, <1>3, <1>4, <1>5 DEF ConnSteps, Handles

\* The reading under way is of the first call, and true but for what overtook it.
LEMMA ReadingKept ==
    ASSUME ConnTypes, AnswerTrue, ConnNext
    PROVE  AnswerTrue'
  <1>1. answer \in [read : 0 .. 2, awake : BOOLEAN, known : BOOLEAN] /\ power \in [DevicePaths -> [awake : BOOLEAN, known : BOOLEAN]]
    BY DEF AnswerTrue, ConnTypes, Powers
  <1>2. calls \in Seq(ConnCalls)
    BY DEF ConnTypes
  \* Where the first call stays and a device q changes, its properties ks.
  <1>4. ASSUME answer' = answer, calls' = calls, NEW q, NEW ks, Changed(q, ks),
               nodes' \subseteq nodes \/ (nodes' = nodes \cup {q} /\ ks = {"awake", "known"}),
               \A p \in DevicePaths : (p = q /\ "awake" \in ks) \/ power'[p].awake = power[p].awake,
               \A p \in DevicePaths : (p = q /\ "known" \in ks) \/ power'[p].known = power[p].known
        PROVE  AnswerTrue'
    <2>1. /\ \A p, k : p # q \/ k \notin ks => (Overtaken(p, k)' <=> Overtaken(p, k))
          /\ \A k \in ks : <<q, k>> \in HasRead(q) => Overtaken(q, k)'
      BY <1>4, Overtaking
    <2>2. CASE answer.read > 0
      <3>1. PICK p \in DevicePaths :
               /\ calls # << >> /\ Head(calls) = GetAll(p)
               /\ answer.awake = power[p].awake \/ Overtaken(p, "awake")
               /\ answer.read > 1 => answer.known = power[p].known \/ Overtaken(p, "known") \/ p \notin nodes
        BY <2>2 DEF AnswerTrue
      <3>2. <<p, "awake">> \in HasRead(p) /\ (answer.read > 1 => <<p, "known">> \in HasRead(p))
        BY <2>2, <3>1 DEF HasRead
      <3>3. answer.awake = power'[p].awake \/ Overtaken(p, "awake")'
        BY <1>4, <2>1, <3>1, <3>2
      <3>4. ASSUME answer.read > 1
            PROVE  answer.known = power'[p].known \/ Overtaken(p, "known")' \/ p \notin nodes'
        BY <1>4, <2>1, <3>1, <3>2, <3>4
      <3> QED
        BY <1>1, <1>4, <3>1, <3>3, <3>4 DEF AnswerTrue
    <2>3. CASE ~(answer.read > 0)
      BY <1>1, <1>4, <2>3 DEF AnswerTrue
    <2> QED
      BY <2>2, <2>3
  <1>5. ASSUME answer' = answer, UNCHANGED <<power, overtaken>>, nodes' \subseteq nodes,
               calls # << >> => calls' # << >> /\ Head(calls') = Head(calls)
        PROVE  AnswerTrue'
    BY <1>5 DEF AnswerTrue, Overtaken
  <1>6. answer' = Nothing => AnswerTrue'
    BY DEF AnswerTrue, Nothing
  <1>7. ASSUME NEW q \in DevicePaths, DaemonAdds(q) PROVE AnswerTrue'
    <2>1. \A p \in DevicePaths : p # q => power'[p] = power[p]
      BY <1>1, <1>7 DEF DaemonAdds
    <2>2. Changed(q, {"awake", "known"}) /\ nodes' = nodes \cup {q} /\ answer' = answer /\ calls' = calls
      BY <1>7 DEF DaemonAdds, Change
    <2> QED
      BY <1>4, <2>1, <2>2
  <1>8. ASSUME NEW q \in DevicePaths, DevicePowers(q) PROVE AnswerTrue'
    <2>1. answer' = answer /\ calls' = calls /\ nodes' = nodes
      BY <1>8 DEF DevicePowers, Change
    <2>2. CASE power' = [power EXCEPT ![q].awake = ~@] /\ Changed(q, {"awake"})
      <3>1. \A p \in DevicePaths : power'[p].known = power[p].known /\ (p = q \/ power'[p].awake = power[p].awake)
        BY <1>1, <2>2
      <3> QED
        BY <1>4, <2>1, <2>2, <3>1
    <2>3. CASE power' = [power EXCEPT ![q].known = TRUE] /\ Changed(q, {"known"})
      <3>1. \A p \in DevicePaths : power'[p].awake = power[p].awake /\ (p = q \/ power'[p].known = power[p].known)
        BY <1>1, <2>3
      <3> QED
        BY <1>4, <2>1, <2>3, <3>1
    <2> QED
      BY <1>8, <2>2, <2>3 DEF DevicePowers
  <1>9. ASSUME NEW q \in DevicePaths, DaemonRemoves(q) \/ DaemonAnnounces(q) \/ DaemonDestroys(q) PROVE AnswerTrue'
    BY <1>5, <1>9 DEF DaemonRemoves, DaemonAnnounces, DaemonDestroys, Change
  <1>10. CASE DaemonStops \/ CallAnswered
    BY <1>6, <1>10 DEF DaemonStops, CallAnswered
  <1>11. CASE DaemonStarts
    BY <1>5, <1>11 DEF DaemonStarts
  <1>12. CASE PropertyRead
    <2>1. calls # << >> /\ UNCHANGED <<calls, power, nodes, overtaken>>
      BY <1>12 DEF PropertyRead, daemonVars
    <2>2. PICK p \in DevicePaths : Head(calls) = GetAll(p)
      <3>1. Head(calls) \in ConnCalls /\ Head(calls).kind = "getAll"
        BY <1>2, <1>12 DEF PropertyRead
      <3> QED
        BY <3>1, CallKinds DEF ConnCalls
    <2>3. Head(calls).path = p
      BY <2>2, CallKinds
    <2>4. CASE answer.read = 0 /\ answer' = [read |-> 1, awake |-> power[p].awake, known |-> FALSE]
      <3>1. PICK b \in BOOLEAN : b = power[p].awake
        BY <1>1, Zenon
      <3>2. answer' = [read |-> 1, awake |-> b, known |-> FALSE]
        BY <2>4, <3>1, Zenon
      <3>3. answer'.read = 1 /\ answer'.awake = b /\ 1 \in 0 .. 2 /\ ~(1 > 1)
        BY <3>2
      <3>4. answer' \in [read : 0 .. 2, awake : BOOLEAN, known : BOOLEAN]
        BY <3>2, <3>3, Zenon
      <3> QED
        BY <2>1, <2>2, <3>1, <3>3, <3>4 DEF AnswerTrue, Overtaken
    <2>5. CASE answer.read = 1 /\ answer' = [read |-> 2, awake |-> answer.awake, known |-> p \in nodes /\ power[p].known]
      <3>1. PICK b \in BOOLEAN : b = answer.awake
        BY <1>1, Zenon
      <3>4. PICK c \in BOOLEAN : c = (p \in nodes /\ power[p].known)
        OBVIOUS
      <3>5. answer' = [read |-> 2, awake |-> b, known |-> c]
        BY <2>5, <3>1, <3>4, Zenon
      <3>6. answer'.awake = b /\ answer'.known = c /\ 2 \in 0 .. 2
        BY <3>5
      <3>7. answer' \in [read : 0 .. 2, awake : BOOLEAN, known : BOOLEAN]
        BY <3>5, <3>6, Zenon
      <3>8. power[p].known \in BOOLEAN
        BY <1>1, Zenon
      <3>9. p \in nodes => answer'.known = power[p].known
        BY <3>4, <3>6, <3>8, Zenon
      <3>2. PICK q \in DevicePaths : Head(calls) = GetAll(q) /\ (answer.awake = power[q].awake \/ Overtaken(q, "awake"))
        BY <2>5 DEF AnswerTrue
      <3>3. q = p
        BY <2>2, <3>2, CallKinds
      <3> QED
        BY <2>1, <2>2, <3>1, <3>2, <3>3, <3>6, <3>7, <3>9 DEF AnswerTrue, Overtaken
    <2> QED
      BY <1>12, <2>3, <2>4, <2>5 DEF PropertyRead
  <1>13. CASE MailHandled \/ retry
    <2>1. answer' = answer /\ UNCHANGED <<power, overtaken, nodes>>
      BY <1>13 DEF MailHandled, retry, daemonVars
    <2>2. calls' = calls \/ (\E u \in Seq(ConnCalls) : calls' = calls \o u)
      <3>1. \A ps : addDevices(ps) /\ ps \subseteq DevicePaths => \E u \in Seq(ConnCalls) : calls' = calls \o u
        <4> SUFFICES ASSUME NEW ps \in SUBSET DevicePaths, addDevices(ps)
                     PROVE  \E u \in Seq(ConnCalls) : calls' = calls \o u
          OBVIOUS
        <4>1. PICK new : new = SetToSeq(ps \ proxies)
          OBVIOUS
        <4>2. PICK u : u = [i \in 1 .. Len(new) |-> GetAll(new[i])]
          OBVIOUS
        <4>3. calls' = calls \o u
          BY <4>1, <4>2 DEF addDevices
        <4>4. AsksAll(u, ps \ proxies)
          BY <4>1, <4>2, Asking
        <4> QED
          BY <4>3, <4>4 DEF AsksAll, ConnCalls
      <3>2. <<Enumeration, Enumeration>> \in Seq(ConnCalls) /\ <<Enumeration>> \in Seq(ConnCalls)
            /\ Append(calls, Enumeration) = calls \o <<Enumeration>>
        BY <1>2 DEF ConnCalls
      <3>3. mail # << >> => Head(mail) \in Messages
        BY DEF ConnTypes
      <3> QED
        BY <1>13, <3>1, <3>2, <3>3, MessageFields DEF MailHandled, retry, EnumerateReplied, ReadReplied, SignalReceived,
              onDaemonDown, onDaemonUp
    <2>3. calls # << >> => calls' # << >> /\ Head(calls') = Head(calls)
      BY <1>2, <2>2
    <2> QED
      BY <1>5, <2>1, <2>3
  <1> QED
    BY <1>7, <1>8, <1>9, <1>10, <1>11, <1>12, <1>13 DEF ConnNext

-----------------------------------------------------------------------------
(* The screen                                                               *)

\* A daemon that is away is shown so, or the news of it is under way.
AwayKnown == \/ screen = "DaemonDown" \/ ListAsked(calls)
             \/ KindAfter(mail, "down", 0) \/ KindAfter(mail, "listError", 0)

\* What each screen says, or what is under way that will change it.
Screens ==
    /\ screen = "Loading" => ListAsked(calls) \/ \E k \in {"list", "listError", "up", "down"} : KindAfter(mail, k, 0)
    /\ screen = "DaemonDown" => ~up \/ failed \/ KindAfter(mail, "up", 0)
    /\ screen = "AccessDenied" => failed
    /\ screen = "Populated" => proxies # {}
    /\ screen = "Empty" => proxies = {} \/ \E p \in proxies : ReadAsked(calls, p) \/ AnswerAfter(mail, p, 0)
    /\ ~up => AwayKnown

\* What is told keeps the screens.
LEMMA ScreensTold ==
    ASSUME ConnTypes, Screens, NEW m \in Messages,
           Appearing(m) \/ Vanishing(m) \/ Powering(m) \/ Charging(m) \/ Starting(m) \/ Answering(m)
    PROVE  Screens'
  <1>1. mail' = Append(mail, m) /\ UNCHANGED <<screen, proxies, failed>> /\ (~Answering(m) => UNCHANGED calls)
    BY ToldNow DEF guiVars
  <1>s. Telled(mail, m, mail')
    BY <1>1, Told DEF ConnTypes
  <1>2. /\ \A p : AnswerAfter(mail', p, 0) <=> AnswerAfter(mail, p, 0) \/ Answers(m, p)
        /\ \A k : KindAfter(mail', k, 0) <=> KindAfter(mail, k, 0) \/ m.kind = k
    <2>1. 0 \in 0 .. Len(mail)
      BY <1>s DEF Telled
    <2> QED
      BY <1>s, <2>1 DEF Telled
  <1>3. CASE Answering(m)
    <2>1. calls # << >> /\ calls' = Tail(calls) /\ Answered(Head(calls), m) /\ up' = up
      BY <1>3 DEF Answering, daemonVars
    <2>2. /\ ListAsked(calls) <=> Head(calls) = Enumeration \/ ListAsked(calls')
          /\ \A p : ReadAsked(calls, p) <=> Head(calls) = GetAll(p) \/ ReadAsked(calls', p)
      BY <2>1, CallGone DEF ConnTypes
    <2>3. /\ Head(calls) = Enumeration => m.kind = "listError" \/ (up /\ m.kind = "list")
          /\ \A p : Head(calls) = GetAll(p) => Answers(m, p)
      BY <2>1, CallKinds DEF Answered, Answers
    <2> QED
      BY <1>1, <1>2, <2>1, <2>2, <2>3 DEF Screens, AwayKnown
  <1>4. CASE ~Answering(m)
    <2>1. (~up' => ~up) /\ (up' => up \/ m.kind = "up")
      BY <1>4 DEF Appearing, Vanishing, Powering, Charging, Starting
    <2> QED
      BY <1>1, <1>2, <1>4, <2>1 DEF Screens, AwayKnown
  <1> QED
    BY <1>3, <1>4

\* What is handled changes the screen as it has to.
LEMMA ScreensHandled ==
    ASSUME ConnTypes, Restarts, Absence, ReadLast, Screens, Handles
    PROVE  Screens'
  <1> DEFINE n == Len(mail)
             m1 == mail[1]
  <1>1. mail # << >> /\ mail' = Tail(mail) /\ up' = up
    BY HandlesIs
  <1>s. Took(mail, mail')
    BY <1>1, Handled DEF ConnTypes
  <1>2. m1 \in Messages /\ 1 \in 1 .. n /\ 0 \in 0 .. n - 1
    BY <1>s DEF Took
  <1>3. /\ \A p : AnswerAfter(mail, p, 0) <=> Answers(m1, p) \/ AnswerAfter(mail', p, 0)
        /\ \A k : KindAfter(mail, k, 0) <=> m1.kind = k \/ KindAfter(mail', k, 0)
    BY <1>s DEF Took
  <1>4. /\ \A p : AnswerAfter(mail', p, 0) <=> AnswerAfter(mail, p, 1)
        /\ \A k : KindAfter(mail', k, 0) <=> KindAfter(mail, k, 1)
    <2>1. /\ \A p : AnswerAfter(mail', p, 0) <=> AnswerAfter(mail, p, 0 + 1)
          /\ \A k : KindAfter(mail', k, 0) <=> KindAfter(mail, k, 0 + 1)
      BY <1>2, <1>s DEF Took
    <2> QED
      BY <2>1
  <1>5. \A s, t, ps : s \in ScreenState /\ t = recomputePopulation(s, ps) =>
            /\ t # "Loading"
            /\ t = "DaemonDown" <=> s = "DaemonDown"
            /\ t = "AccessDenied" <=> s = "AccessDenied"
            /\ t = "Empty" => ps = {}
            /\ t = "Populated" => ps # {}
    BY Recomputed
  <1>6. screen \in ScreenState /\ up \in BOOLEAN
    BY DEF ConnTypes
  \* Behind what the daemon said before it went is the news that it went.
  <1>7. ~up /\ (m1.kind = "list" \/ (m1.kind = "listError" /\ m1.name = "AccessDenied")) => KindAfter(mail', "down", 0)
    BY <1>2, <1>4 DEF Absence
  <1>8. up /\ m1.kind = "down" => KindAfter(mail', "up", 0)
    BY <1>2, <1>4 DEF Restarts
  <1> HIDE DEF m1, n
  <1>9. CASE HandlesError
    <2>1. /\ m1.kind = "listError" /\ failed' = TRUE
          /\ screen' = IF m1.name = "AccessDenied" THEN "AccessDenied" ELSE "DaemonDown"
      BY <1>9 DEF HandlesError, m1
    <2> QED
      BY <1>1, <1>7, <2>1 DEF Screens, AwayKnown
  <1>10. ASSUME NEW S, proxies' = proxies \cup S, AsksFor(S \ proxies)
         PROVE  /\ ListAsked(calls') <=> ListAsked(calls)
                /\ \A p : ReadAsked(calls', p) <=> ReadAsked(calls, p) \/ p \in S \ proxies
    BY <1>10 DEF AsksFor, AsksMore
  <1>11. CASE HandlesList
    <2>1. /\ m1.kind = "list" /\ proxies' = proxies \cup m1.paths /\ AsksFor(m1.paths \ proxies)
          /\ screen' = IF m1.paths = {} THEN "Empty" ELSE recomputePopulation(screen, proxies')
          /\ failed' = failed
      BY <1>11 DEF HandlesList, m1
    <2>2. /\ ListAsked(calls') <=> ListAsked(calls)
          /\ \A p : ReadAsked(calls', p) <=> ReadAsked(calls, p) \/ p \in m1.paths \ proxies
      BY <1>10, <2>1
    <2>3. CASE m1.paths = {}
      <3>1. screen' = "Empty" /\ proxies' = proxies
        BY <2>1, <2>3
      <3>2. \A p \in proxies : ReadAsked(calls', p) \/ AnswerAfter(mail', p, 0)
        BY <1>2, <1>4, <2>1, <2>2 DEF ReadLast, m1, n
      <3>3. proxies = {} \/ \E p \in proxies' : ReadAsked(calls', p) \/ AnswerAfter(mail', p, 0)
        BY <3>1, <3>2
      <3> QED
        BY <1>1, <1>7, <2>1, <3>1, <3>3 DEF Screens, AwayKnown
    <2>4. CASE m1.paths # {}
      <3>1. screen' = recomputePopulation(screen, proxies') /\ proxies' # {}
        BY <2>1, <2>4
      <3>2. /\ screen' # "Loading" /\ screen' # "Empty"
            /\ screen' = "DaemonDown" <=> screen = "DaemonDown"
            /\ screen' = "AccessDenied" <=> screen = "AccessDenied"
        BY <1>5, <1>6, <3>1
      <3> QED
        BY <1>1, <1>3, <1>7, <2>1, <3>1, <3>2 DEF Screens, AwayKnown
    <2> QED
      BY <2>3, <2>4
  <1>12. CASE HandlesAdded
    <2>1. /\ m1.kind = "added" /\ proxies' = proxies \cup {m1.path} /\ AsksFor({m1.path} \ proxies)
          /\ UNCHANGED <<screen, failed>>
      BY <1>12 DEF HandlesAdded, m1
    <2>2. /\ ListAsked(calls') <=> ListAsked(calls)
          /\ \A p : ReadAsked(calls', p) <=> ReadAsked(calls, p) \/ p \in {m1.path} \ proxies
      BY <1>10, <2>1
    <2>3. \A p : ~Answers(m1, p)
      BY <2>1 DEF Answers
    <2>4. proxies = {} => ReadAsked(calls', m1.path) /\ m1.path \in proxies'
      BY <2>1, <2>2
    <2> QED
      BY <1>1, <1>3, <2>1, <2>2, <2>3, <2>4 DEF Screens, AwayKnown
  <1>13. CASE HandlesRemoved
    <2>1. m1.kind = "removed" /\ screen' = recomputePopulation(screen, proxies') /\ UNCHANGED <<calls, failed>>
      BY <1>13 DEF HandlesRemoved, m1
    <2>2. /\ screen' # "Loading"
          /\ screen' = "DaemonDown" <=> screen = "DaemonDown"
          /\ screen' = "AccessDenied" <=> screen = "AccessDenied"
          /\ screen' = "Empty" => proxies' = {}
          /\ screen' = "Populated" => proxies' # {}
      BY <1>5, <1>6, <2>1
    <2> QED
      BY <1>1, <1>3, <2>1, <2>2 DEF Screens, AwayKnown
  <1>14. CASE HandlesStatus \/ HandlesBattery
    <2>1. m1.kind \in {"status", "battery"} /\ UNCHANGED <<screen, proxies, calls, failed>>
      BY <1>14 DEF HandlesStatus, HandlesBattery, m1
    <2>2. \A p : ~Answers(m1, p)
      BY <2>1 DEF Answers
    <2> QED
      BY <1>1, <1>3, <2>1, <2>2 DEF Screens, AwayKnown
  <1>15. CASE HandlesRead
    <2>1. m1.kind \in {"read", "readError"} /\ UNCHANGED <<proxies, calls, failed>>
          /\ \/ m1.path \notin proxies /\ screen' = screen
             \/ screen' = recomputePopulation(screen, proxies)
      BY <1>15 DEF HandlesRead, ReadReplied, m1
    <2>2. CASE m1.path \notin proxies /\ screen' = screen
      <3>1. \A p \in proxies : ~Answers(m1, p)
        BY <2>2 DEF Answers
      <3> QED
        BY <1>1, <1>3, <2>1, <2>2, <3>1 DEF Screens, AwayKnown
    <2>3. CASE screen' = recomputePopulation(screen, proxies)
      <3>1. /\ screen' # "Loading"
            /\ screen' = "DaemonDown" <=> screen = "DaemonDown"
            /\ screen' = "AccessDenied" <=> screen = "AccessDenied"
            /\ screen' = "Empty" => proxies = {}
            /\ screen' = "Populated" => proxies # {}
        BY <1>5, <1>6, <2>3
      <3> QED
        BY <1>1, <1>3, <2>1, <3>1 DEF Screens, AwayKnown
    <2> QED
      BY <2>1, <2>2, <2>3
  <1>16. CASE HandlesDown
    <2>1. m1.kind = "down" /\ screen' = "DaemonDown"
      BY <1>16 DEF HandlesDown, onDaemonDown, m1
    <2> QED
      BY <1>1, <1>8, <2>1 DEF Screens, AwayKnown
  <1>17. CASE HandlesUp
    <2>1. screen' = "Loading" /\ ListAsked(calls')
      BY <1>17 DEF HandlesUp, AsksList
    <2> QED
      BY <2>1 DEF Screens, AwayKnown
  <1> QED
    BY <1>9, <1>11, <1>12, <1>13, <1>14, <1>15, <1>16, <1>17 DEF Handles

\* Every step keeps the screens.
LEMMA ScreensKept ==
    ASSUME ConnTypes, Restarts, Absence, ReadLast, Screens, ConnSteps
    PROVE  Screens'
  <1>1. CASE \E m \in Messages : Appearing(m) \/ Vanishing(m) \/ Powering(m) \/ Charging(m) \/ Starting(m) \/ Answering(m)
    BY <1>1, ScreensTold
  <1>2. CASE Moving
    BY <1>2 DEF Moving, guiVars, Screens, AwayKnown
  <1>3. CASE Stopping
    <2>1. PICK u, a : /\ u = [i \in 1 .. Len(calls) |-> ErrorReply(calls[i], "NoReply")]
                      /\ a = Append(mail, [kind |-> "down"]) /\ mail' = a \o u
      BY <1>3 DEF Stopping
    <2>2. Undelivered(u, calls)
      BY <2>1, Undelivering DEF ConnTypes
    <2>s. StopNews(mail, calls, mail')
      BY <2>1, <2>2, Stopped DEF ConnTypes
    <2>3. /\ KindAfter(mail', "down", 0)
          /\ \A p : AnswerAfter(mail, p, 0) \/ ReadAsked(calls, p) => AnswerAfter(mail', p, 0)
      <3>1. 0 \in 0 .. Len(mail)
        BY <2>s DEF StopNews
      <3> QED
        BY <2>s, <3>1 DEF StopNews
    <2>4. up' = FALSE /\ UNCHANGED <<screen, proxies, failed>>
      BY <1>3 DEF Stopping, guiVars
    <2> QED
      BY <2>3, <2>4 DEF Screens, AwayKnown
  <1>4. CASE Handles
    BY <1>4, ScreensHandled
  <1>5. CASE Retrying
    <2>1. screen' = "Loading" /\ ListAsked(calls')
      BY <1>5 DEF Retrying, AsksList
    <2> QED
      BY <2>1 DEF Screens, AwayKnown
  <1> QED
    BY <1>1, <1>2, <1>3, <1>4, <1>5 DEF ConnSteps, Handles

-----------------------------------------------------------------------------
(* The invariant                                                            *)

\* Types and lists, the order of the mail, and what list and screen show.
ConnInv ==
    /\ ConnTypes /\ RowsOrdered /\ DaemonLists
    /\ Restarts /\ Absence
    /\ ReadLast /\ RowOrRead
    /\ ProxyThere /\ MailThere
    /\ Secured
    /\ StatusLast /\ BatteryTrue /\ ReadTrue /\ RowTrue
    /\ AnswerTrue /\ Screens

\* It holds when the GUI has asked for the list.
LEMMA ConnStarts ==
    ASSUME ConnInit
    PROVE  ConnInv
  <1>1. /\ up \in BOOLEAN /\ allowed \in BOOLEAN /\ listed \subseteq DevicePaths
        /\ nodes = listed /\ leaving = {} /\ (~up => listed = {})
        /\ power = [p \in DevicePaths |-> Asleep]
        /\ calls = <<Enumeration>> /\ mail = << >>
        /\ screen = "Loading" /\ proxies = {} /\ rows = << >>
        /\ failed = FALSE /\ unread = {} /\ answer = Nothing
    BY DEF ConnInit
  <1>2. ConnTypes
    <2>1. power \in Powers
      BY <1>1 DEF Powers, Asleep
    <2>2. calls \in Seq(ConnCalls) /\ mail \in Seq(Messages) /\ rows \in Seq(Row)
      BY <1>1 DEF ConnCalls
    <2>3. screen \in ScreenState
      BY <1>1 DEF ScreenState
    <2> QED
      BY <1>1, <2>1, <2>2, <2>3 DEF ConnTypes
  <1>3. 1 .. Len(mail) = {} /\ ToSet(rows) = {} /\ RowsInOrder(rows)
    BY <1>1 DEF ToSet, RowsInOrder
  <1>4. ListAsked(calls)
    BY <1>1 DEF ListAsked
  <1>5. RowsOrdered /\ DaemonLists
    BY <1>1, <1>3 DEF RowsOrdered, DaemonLists, There
  <1>6. Restarts /\ Absence /\ ReadLast /\ RowOrRead /\ ProxyThere /\ MailThere
    BY <1>1, <1>3 DEF Restarts, Absence, ReadLast, RowOrRead, ProxyThere, MailThere
  <1>7. Secured
    BY <1>1, <1>3, <1>4 DEF Renewal, Secured
  <1>8. StatusLast /\ BatteryTrue /\ ReadTrue /\ RowTrue
    BY <1>3 DEF StatusLast, BatteryTrue, ReadTrue, RowTrue
  <1>9. Screens
    BY <1>1, <1>4 DEF Screens, AwayKnown
  <1>10. AnswerTrue
    BY <1>1 DEF AnswerTrue, Nothing
  <1> QED
    BY <1>2, <1>5, <1>6, <1>7, <1>8, <1>9, <1>10 DEF ConnInv

\* Every step keeps it, part by part.
LEMMA ConnStepKeeps ==
    ASSUME ConnInv, ConnNext
    PROVE  ConnInv'
  <1>1. ConnSteps
    BY AllSteps DEF ConnInv
  <1>2. ConnTypes' /\ RowsOrdered' /\ DaemonLists'
    BY <1>1, TypesKept DEF ConnInv
  <1>3. Restarts' /\ Absence'
    BY <1>1, OwnerKept DEF ConnInv
  <1>4. ReadLast' /\ RowOrRead'
    BY <1>1, AnswersKept DEF ConnInv
  <1>5. ProxyThere' /\ MailThere'
    BY <1>1, ThereKept DEF ConnInv
  <1>6. Secured'
    BY <1>1, SecuredKept DEF ConnInv
  <1>7. StatusLast' /\ BatteryTrue' /\ ReadTrue' /\ RowTrue'
    BY <1>1, TruthKept DEF ConnInv
  <1>8. Screens'
    BY <1>1, ScreensKept DEF ConnInv
  <1>9. AnswerTrue'
    BY ReadingKept DEF ConnInv
  <1> QED
    BY <1>2, <1>3, <1>4, <1>5, <1>6, <1>7, <1>8, <1>9 DEF ConnInv

\* It only speaks of the state.
LEMMA ConnStutterKeeps ==
    ASSUME ConnInv, UNCHANGED connVars
    PROVE  ConnInv'
  <1>1. /\ UNCHANGED <<up, allowed, listed, nodes, leaving, power, calls, mail, screen>>
        /\ UNCHANGED <<proxies, rows, failed, unread, answer>> /\ \A p, k : Overtaken(p, k)' <=> Overtaken(p, k)
    BY DEF connVars, daemonVars, guiVars, Overtaken
  <1>2. ConnTypes' /\ RowsOrdered' /\ DaemonLists' /\ Restarts' /\ Absence'
    BY <1>1 DEF ConnInv, ConnTypes, RowsOrdered, DaemonLists, There, Restarts, Absence
  <1>3. ReadLast' /\ RowOrRead' /\ ProxyThere' /\ MailThere' /\ Secured'
    BY <1>1 DEF ConnInv, ReadLast, RowOrRead, ProxyThere, MailThere, There, Renewal, Secured
  <1>4. StatusLast' /\ BatteryTrue' /\ ReadTrue'
    BY <1>1 DEF ConnInv, StatusLast, BatteryTrue, ReadTrue, StateHolds, KnownHolds
  <1>5. RowTrue'
    BY <1>1 DEF ConnInv, RowTrue, RowHolds, KnownHolds
  <1>6. AnswerTrue' /\ Screens'
    BY <1>1 DEF ConnInv, AnswerTrue, Screens, AwayKnown
  <1> QED
    BY <1>2, <1>3, <1>4, <1>5, <1>6 DEF ConnInv

\* What follows from the invariant.
LEMMA ConnInvTells ==
    ASSUME ConnInv
    PROVE  ViewTellsTruth
  <1>1. /\ mail \in Seq(Messages) /\ calls \in Seq(ConnCalls) /\ rows \in Seq(Row)
        /\ RowsInOrder(rows) /\ \A r \in ToSet(rows) : r.path \in proxies
        /\ proxies \subseteq DevicePaths /\ listed \subseteq DevicePaths /\ screen \in ScreenState
    BY DEF ConnInv, ConnTypes, RowsOrdered
  <1>2. /\ \A r \in ToSet(rows) : r.path \in RowPaths
        /\ \A n \in 1 .. Len(rows) : rows[n] \in ToSet(rows)
        /\ RowPaths \subseteq proxies
    BY <1>1 DEF RowPaths, ToSet
  <1>3. RowsSubscribed
    BY <1>1, <1>2 DEF RowsSubscribed, RowsInOrder
  <1>4. ASSUME ConnQuiet
        PROVE  /\ mail = << >> /\ ~ListAsked(calls) /\ (\A p : ~ReadAsked(calls, p))
               /\ \A p : ~DropsAfter(mail, p, 0) /\ ~AnswerAfter(mail, p, 0) /\ ~StatusAfter(mail, p, 0) /\ ~BatteryAfter(mail, p, 0)
               /\ \A k : ~KindAfter(mail, k, 0)
    BY <1>4 DEF ConnQuiet, ListAsked, ReadAsked, DropsAfter, AnswerAfter, StatusAfter, BatteryAfter, KindAfter
  <1>5. ASSUME ConnQuiet, up, ~failed
        PROVE  /\ listed \subseteq RowPaths /\ RowPaths \subseteq listed \cup leaving
               /\ \A n \in 1 .. Len(rows) :
                      LET p == rows[n].path
                      IN  /\ \/ rows[n].state = Connection(power[p].awake)
                             \/ rows[n].state = "Offline" /\ p \in unread
                             \/ <<p, "awake">> \in overtaken
                          /\ \/ rows[n].known = power[p].known
                             \/ ~rows[n].known /\ p \in unread
                             \/ <<p, "known">> \in overtaken
    <2>1. listed \subseteq proxies
      BY <1>1, <1>4, <1>5 DEF ConnInv, Secured, Renewal, Tracked
    <2>2. proxies \subseteq RowPaths
      BY <1>2, <1>4, <1>5 DEF ConnInv, RowOrRead
    <2>3. RowPaths \subseteq listed \cup leaving
      BY <1>2, <1>4, <1>5 DEF ConnInv, ProxyThere, There
    <2>4. ASSUME NEW n \in 1 .. Len(rows) PROVE RowHolds(rows[n])
      BY <1>2, <1>4, <1>5 DEF ConnInv, RowTrue
    <2> QED
      BY <1>4, <1>5, <2>1, <2>2, <2>3, <2>4 DEF RowHolds, KnownHolds, Overtaken
  <1>6. ListTellsTruth
    BY <1>3, <1>5 DEF ListTellsTruth, RowsAreDevices
  <1>7. screen = "Loading" =>
           \/ Enumeration \in ToSet(calls)
           \/ \E m \in ToSet(mail) : m.kind \in {"list", "listError", "up", "down"}
    <2>1. ListAsked(calls) => Enumeration \in ToSet(calls)
      BY <1>1 DEF ListAsked, ToSet
    <2>2. \A k : KindAfter(mail, k, 0) => \E m \in ToSet(mail) : m.kind = k
      BY <1>1 DEF KindAfter, ToSet
    <2> QED
      BY <2>1, <2>2 DEF ConnInv, Screens
  <1>8. ASSUME ConnQuiet
        PROVE  /\ ~up => screen = "DaemonDown"
               /\ screen = "DaemonDown" => ~up \/ failed
               /\ up /\ ~failed => screen = IF proxies = {} THEN "Empty" ELSE "Populated"
    BY <1>1, <1>4, <1>8 DEF ConnInv, Screens, AwayKnown, ScreenState
  <1> QED
    BY <1>6, <1>7, <1>8 DEF ViewTellsTruth, ScreenTellsTruth

\* The invariant holds for any devices, changes, restarts and retries.
THEOREM ConnInvariant == ConnSpec => []ConnInv
  <1>1. ConnInit => ConnInv
    BY ConnStarts
  <1>2. ConnInv /\ [ConnNext]_connVars => ConnInv'
    BY ConnStepKeeps, ConnStutterKeeps
  <1> QED
    BY <1>1, <1>2, PTL DEF ConnSpec

(***************************************************************************)
(* However hotplug, sleep, failing calls, restarts of the daemon and       *)
(* retries overtake one another: once the mail is handled and no           *)
(* enumeration failed, the rows are the daemon's devices in their states   *)
(* and the screen says what the daemon is like. At any time each row has   *)
(* its proxy, and "Loading" is shown only while an answer is on its way.   *)
(***************************************************************************)
THEOREM ViewTells == ConnSpec => []ViewTellsTruth
  <1>1. ConnInv => ViewTellsTruth
    BY ConnInvTells
  <1> QED
    BY <1>1, ConnInvariant, PTL
=============================================================================
