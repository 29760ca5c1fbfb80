-------------------------- MODULE LogidDeviceProofs --------------------------
(***************************************************************************)
(* Theorems about LogidDevice, for any features, profiles, workers and     *)
(* bound: the features always refer to one profile that exists, and, when  *)
(* nothing runs, the hardware has the settings of the active one.          *)
(***************************************************************************)
EXTENDS LogidDevice, TLAPS

\* How far an operation may be.
PCs == {"idle", "enter", "switch", "reset", "configure", "battery"}

\* An operation begins with the first feature; the battery is read at its turn.
Places ==
    /\ \A t \in Threads : pc[t] \in {"idle", "enter", "reset"} => pos[t] = 1
    /\ \A t \in Threads : pc[t] = "switch" => pos[t] \in Positions
    /\ \A t \in Threads : pc[t] = "battery" => pos[t] \in Positions /\ Features[pos[t]] = Battery

\* The profile is changed under _profile_mutex, whose holder is at work.
LockHeld ==
    /\ \A t \in Threads : pc[t] = "switch" => profileLock = t
    /\ profileLock # None => pc[profileLock] \in {"switch", "reset", "configure", "battery"}

\* Thread t has still to come to feature f.
Ahead(t, f) == \E i \in Positions : Features[i] = f /\ pos[t] <= i

\* A feature refers to the active profile, and its reference is as good as
\* that of the device, or the thread that changes the profile will come to it.
Following ==
    \A f \in Settings :
        \/ ref[f] = active /\ (f \in dangling => Device \in dangling)
        \/ \E t \in Threads : pc[t] = "switch" /\ Ahead(t, f)

\* Thread t will write the setting of feature f.
Pending(t, f) ==
    \/ pc[t] \in {"switch", "reset"}
    \/ pc[t] \in {"configure", "battery"} /\ Ahead(t, f)

\* The hardware has what the profile of feature f says, if it says anything.
Match(f) == profiles[ref[f]][f] \in {Unset, hw[f]}

\* Unless a transfer failed since the last reconfiguration began, a setting is
\* in the hardware or will be written.
Written ==
    Living /\ (~behind \/ \E t \in Threads : fresh[t]) =>
        \A f \in Settings \ dangling : Match(f) \/ \E t \in Threads : Pending(t, f)

\* The inductive invariant of the first theorem.
Profiled == TypeOK /\ Places /\ LockHeld /\ Following /\ Existing

-----------------------------------------------------------------------------
(* Types                                                                    *)

\* The profile that is made is empty, the others stay.
LEMMA MadeProfile ==
    ASSUME TypeOK, NEW p \in Profiles, profiles' = WithProfile(p)
    PROVE  /\ DOMAIN profiles' = DOMAIN profiles \cup {p}
           /\ DOMAIN profiles' \subseteq Profiles
           /\ \A q \in DOMAIN profiles' : profiles'[q] \in Config
           /\ \A q \in DOMAIN profiles : profiles'[q] = profiles[q]
<1>1. NoConfig \in Config
  BY DEF NoConfig, Config
<1>2. CASE p \in DOMAIN profiles
  BY <1>2 DEF WithProfile, TypeOK
<1>3. CASE p \notin DOMAIN profiles
  BY <1>1, <1>3 DEF WithProfile, TypeOK
<1> QED
  BY <1>2, <1>3

\* A thread that has finished its operation is idle, or resets.
LEMMA EndType ==
    ASSUME TypeOK, NEW t \in Threads, End(t)
    PROVE  /\ op' \in [Threads -> Operations \cup {None}]
           /\ arg' \in [Threads -> Profiles]
           /\ pc' \in [Threads -> PCs]
           /\ pos' \in [Threads -> 1 .. Len(Features) + 1]
           /\ \A u \in Threads : pc'[u] = "reset" => pos'[u] = 1
BY ProfileAssumption, FeatureAssumption DEF TypeOK, End, PCs

\* A thread that leaves its locks leaves them free.
LEMMA ReleaseType ==
    ASSUME TypeOK, NEW t \in Threads, Release(t)
    PROVE  profileLock' \in Threads \cup {None} /\ stateLock' \in Threads \cup {None}
BY DEF TypeOK, Release

\* The next feature is one, or there is none left.
LEMMA AdvanceType ==
    ASSUME TypeOK, NEW t \in Threads, pos[t] \in Positions, Advance(t)
    PROVE  /\ pos' \in [Threads -> 1 .. Len(Features) + 1]
           /\ listening' \subseteq {Features[i] : i \in Positions}
BY FeatureAssumption DEF TypeOK, Advance, Positions

\* A thread that goes to another part of its operation keeps the operation.
LEMMA GotoType ==
    ASSUME TypeOK, NEW t \in Threads, NEW l \in PCs, Goto(t, l)
    PROVE  /\ op' \in [Threads -> Operations \cup {None}] /\ arg' \in [Threads -> Profiles]
           /\ pc' \in [Threads -> PCs]
BY DEF TypeOK, Goto, PCs

\* Every step of a thread keeps the types.
LEMMA StepType ==
    ASSUME TypeOK, Places, Existing, NEW t \in Threads, Step(t)
    PROVE  TypeOK'
<1> USE DEF PCs
<1>1. CASE Sleep(t)
  BY <1>1, EndType DEF Sleep, TypeOK, locks, shared, history
<1>2. CASE SetBattery(t)
  BY <1>2, EndType DEF SetBattery, TypeOK, device, locks, shared, history
<1>3. CASE Wakeup(t)
  <2>1. \A u \in Threads : pc'[u] = "reset" => pos'[u] = 1
    BY <1>3 DEF Wakeup, At, Goto, TypeOK, Places
  <2> QED
    BY <1>3, <2>1, GotoType DEF Wakeup, TypeOK, device, shared, history
<1>4. CASE SetProfile(t)
  <2>1. arg[t] \in Profiles
    BY DEF TypeOK
  <2>2. DOMAIN profiles' \subseteq Profiles /\ \A p \in DOMAIN profiles' : profiles'[p] \in Config
    BY <1>4, <2>1, MadeProfile DEF SetProfile
  <2>3. \A u \in Threads : pc'[u] = "reset" => pos'[u] = 1
    BY <1>4 DEF SetProfile, Goto, TypeOK
  <2> QED
    BY <1>4, <2>1, <2>2, <2>3, GotoType DEF SetProfile, TypeOK, history
<1>5. CASE ClearProfile(t)
  <2>1. DOMAIN profiles' \subseteq Profiles /\ \A p \in DOMAIN profiles' : profiles'[p] \in Config
    <3>1. NoConfig \in Config
      BY DEF NoConfig, Config
    <3>2. CASE arg[t] \in DOMAIN profiles
      BY <1>5, <3>1, <3>2 DEF ClearProfile, TypeOK
    <3>3. CASE arg[t] \notin DOMAIN profiles
      BY <1>5, <3>3 DEF ClearProfile, TypeOK
    <3> QED
      BY <3>2, <3>3
  <2>2. /\ op' \in [Threads -> Operations \cup {None}] /\ arg' \in [Threads -> Profiles]
        /\ pc' \in [Threads -> PCs] /\ pos' \in [Threads -> 1 .. Len(Features) + 1]
        /\ profileLock' \in Threads \cup {None}
        /\ \A u \in Threads : pc'[u] = "reset" => pos'[u] = 1
    <3>1. CASE arg[t] = active
      <4>1. profileLock' = t /\ Goto(t, "switch") /\ UNCHANGED pos
        BY <1>5, <3>1 DEF ClearProfile
      <4> QED
        BY <4>1, GotoType DEF Goto, TypeOK
    <3>2. CASE arg[t] # active
      BY <1>5, <3>2, EndType DEF ClearProfile, TypeOK
    <3> QED
      BY <3>1, <3>2
  <2>3. phase' \in {"constructing", "ready", "failed", "crashed"}
    BY <1>5 DEF ClearProfile, TypeOK
  <2> QED
    BY <1>5, <2>1, <2>2, <2>3 DEF ClearProfile, TypeOK, shared, history
<1>6. CASE RemoveProfile(t)
  <2>1. DOMAIN profiles' \subseteq Profiles /\ \A p \in DOMAIN profiles' : profiles'[p] \in Config
    BY <1>6 DEF RemoveProfile, TypeOK
  <2>2. dangling' \subseteq Settings \cup {Device, Twin}
    BY <1>6 DEF RemoveProfile, TypeOK
  <2> QED
    BY <1>6, <2>1, <2>2, EndType DEF RemoveProfile, TypeOK, locks, history
<1>7. CASE Switch(t)
  <2>1. /\ ref' \in [Settings -> Profiles] /\ dangling' \subseteq Settings \cup {Device, Twin}
    BY <1>7 DEF Switch, Retarget, TypeOK
  <2>2. /\ op' \in [Threads -> Operations \cup {None}] /\ arg' \in [Threads -> Profiles]
        /\ pc' \in [Threads -> PCs] /\ pos' \in [Threads -> 1 .. Len(Features) + 1]
        /\ \A u \in Threads : pc'[u] = "reset" => pos'[u] = 1
    <3>1. CASE pos[t] < Len(Features)
      <4>1. pos' = [pos EXCEPT ![t] = pos[t] + 1] /\ UNCHANGED <<op, arg, pc>> /\ pc[t] = "switch"
        BY <1>7, <3>1 DEF Switch
      <4>2. pos[t] + 1 \in 1 .. Len(Features) + 1
        BY <3>1, FeatureAssumption DEF TypeOK
      <4>3. pos' \in [Threads -> 1 .. Len(Features) + 1]
        BY <4>1, <4>2 DEF TypeOK
      <4>4. \A u \in Threads : pc'[u] = "reset" => pos'[u] = 1
        BY <4>1 DEF TypeOK
      <4>5. /\ op' \in [Threads -> Operations \cup {None}] /\ arg' \in [Threads -> Profiles]
            /\ pc' \in [Threads -> PCs]
        BY <4>1 DEF TypeOK
      <4> QED
        BY <4>3, <4>4, <4>5
    <3>2. CASE ~(pos[t] < Len(Features))
      <4>1. pos' = [pos EXCEPT ![t] = 1] /\ Goto(t, "reset")
        BY <1>7, <3>2 DEF Switch
      <4>2. pos' \in [Threads -> 1 .. Len(Features) + 1]
        BY <4>1, FeatureAssumption DEF TypeOK
      <4>3. \A u \in Threads : pc'[u] = "reset" => pos'[u] = 1
        BY <4>1 DEF TypeOK, Goto
      <4> QED
        BY <4>1, <4>2, <4>3, GotoType
    <3> QED
      BY <3>1, <3>2
  <2> QED
    BY <1>7, <2>1, <2>2 DEF Switch, TypeOK, locks, history
<1>8. CASE Reset(t)
  <2>1. hw' \in Config
    BY <1>8 DEF Reset, TypeOK, NoConfig, Config
  <2>2. fresh' \in [Threads -> BOOLEAN] /\ \A u \in Threads : pc'[u] = "reset" => pos'[u] = 1
    BY <1>8 DEF Reset, Goto, TypeOK
  <2> QED
    BY <1>8, <2>1, <2>2, GotoType DEF Reset, TypeOK, locks, shared
<1>9. CASE Configure(t)
  <2>1. pos[t] \in Positions /\ pc[t] = "configure"
    BY <1>9, FeatureAssumption DEF Configure, Configuring, TypeOK, Positions
  <2>2. hw' \in Config
    <3> DEFINE f == Features[pos[t]]
    <3>1. CASE f \in Settings \ dangling /\ profiles[ref[f]][f] # Unset
      <4>1. hw' = [hw EXCEPT ![f] = profiles[ref[f]][f]]
        BY <1>9, <3>1 DEF Configure
      <4>2. profiles[ref[f]] \in Config
        BY <3>1 DEF Existing, TypeOK
      <4> QED
        BY <3>1, <4>1, <4>2 DEF TypeOK, Config
    <3>2. CASE ~(f \in Settings \ dangling /\ profiles[ref[f]][f] # Unset)
      BY <1>9, <3>2 DEF Configure, TypeOK
    <3> QED
      BY <3>1, <3>2
  <2>3. phase' \in {"constructing", "ready", "failed", "crashed"} /\ Advance(t)
    BY <1>9 DEF Configure, Deref, TypeOK
  <2>4. \A u \in Threads : pc'[u] = "reset" => pos'[u] = 1
    BY <1>9, <2>1, <2>3 DEF Configure, Advance, TypeOK
  <2> QED
    BY <1>9, <2>1, <2>2, <2>3, <2>4, AdvanceType DEF Configure, TypeOK, locks, shared, history
<1>10. CASE ConfigureBattery(t)
  <2>1. pos[t] \in Positions /\ pc[t] = "configure"
    BY <1>10, FeatureAssumption DEF ConfigureBattery, Configuring, TypeOK, Positions
  <2>2. CASE Advance(t) /\ UNCHANGED <<op, arg, pc>>
    <3>1. \A u \in Threads : pc'[u] = "reset" => pos'[u] = 1
      BY <2>1, <2>2 DEF Advance, TypeOK
    <3> QED
      BY <1>10, <2>1, <2>2, <3>1, AdvanceType DEF ConfigureBattery, TypeOK, device, locks, shared, history
  <2>3. CASE Goto(t, "battery") /\ UNCHANGED <<pos, listening>>
    <3>1. \A u \in Threads : pc'[u] = "reset" => pos'[u] = 1
      BY <2>3 DEF Goto, TypeOK
    <3> QED
      BY <1>10, <2>3, <3>1, GotoType DEF ConfigureBattery, TypeOK, device, locks, shared, history
  <2> QED
    BY <1>10, <2>2, <2>3 DEF ConfigureBattery
<1>11. CASE ReadBattery(t)
  <2>1. pos[t] \in Positions
    BY <1>11 DEF ReadBattery, Places
  <2>2. \A u \in Threads : pc'[u] = "reset" => pos'[u] = 1
    BY <1>11 DEF ReadBattery, Advance, Goto, TypeOK
  <2> QED
    BY <1>11, <2>1, <2>2, AdvanceType, GotoType DEF ReadBattery, TypeOK, device, locks, shared, history
<1>12. CASE TransferFails(t)
  <2>1. fresh' \in [Threads -> BOOLEAN] /\ behind' \in BOOLEAN
    BY <1>12 DEF TransferFails, Fail
  <2>2. phase' \in {"constructing", "ready", "failed", "crashed"}
    BY <1>12 DEF TransferFails, TypeOK
  <2> QED
    BY <1>12, <2>1, <2>2, EndType, ReleaseType DEF TransferFails, TypeOK, device, shared
<1>13. CASE Finish(t)
  <2>1. fresh' \in [Threads -> BOOLEAN] /\ behind' \in BOOLEAN
    BY <1>13 DEF Finish, TypeOK
  <2>2. phase' \in {"constructing", "ready", "failed", "crashed"} /\ awake' \in BOOLEAN
    BY <1>13 DEF Finish, TypeOK
  <2> QED
    BY <1>13, <2>1, <2>2, EndType, ReleaseType DEF Finish, TypeOK, shared
<1> QED
  BY <1>1, <1>2, <1>3, <1>4, <1>5, <1>6, <1>7, <1>8, <1>9, <1>10, <1>11, <1>12, <1>13 DEF Step

\* Every step keeps the types.
LEMMA NextType ==
    ASSUME TypeOK, Places, Existing, [Next]_vars
    PROVE  TypeOK'
<1> USE DEF PCs
<1>1. CASE UNCHANGED vars
  BY <1>1 DEF vars, TypeOK, device, locks, threads, shared, history
<1>2. ASSUME NEW t \in Threads, NEW o \in Operations, NEW p \in Profiles, Start(t, o, p)
      PROVE  TypeOK'
  <2>1. ops' \in 0 .. MaxOps
    BY <1>2, BoundAssumption DEF Start, TypeOK
  <2>2. \A u \in Threads : pc'[u] = "reset" => pos'[u] = 1
    BY <1>2 DEF Start, TypeOK
  <2> QED
    BY <1>2, <2>1, <2>2 DEF Start, TypeOK, device, locks, shared, history
<1>3. ASSUME NEW f \in Settings, NEW v \in Values \cup {Unset}, SetFeature(f, v)
      PROVE  TypeOK'
  <2>1. DOMAIN profiles' \subseteq Profiles /\ \A p \in DOMAIN profiles' : profiles'[p] \in Config
    BY <1>3 DEF SetFeature, TypeOK, Config
  <2>2. hw' \in Config /\ fresh' \in [Threads -> BOOLEAN] /\ behind' \in BOOLEAN
    BY <1>3 DEF SetFeature, TypeOK, Config, Fail, history
  <2>3. ops' \in 0 .. MaxOps /\ phase' \in {"constructing", "ready", "failed", "crashed"}
    BY <1>3, BoundAssumption DEF SetFeature, TypeOK, Deref
  <2> QED
    BY <1>3, <2>1, <2>2, <2>3 DEF SetFeature, TypeOK, locks, threads, shared
<1>4. ASSUME NEW f \in Settings, NEW v \in Values \cup {Unset}, TwinSetsFeature(f, v)
      PROVE  TypeOK'
  <2>1. DOMAIN profiles' \subseteq Profiles /\ \A p \in DOMAIN profiles' : profiles'[p] \in Config
    BY <1>4 DEF TwinSetsFeature, TypeOK, Config
  <2>2. fresh' \in [Threads -> BOOLEAN] /\ behind' \in BOOLEAN
    BY <1>4 DEF TwinSetsFeature, TypeOK, Fail, history
  <2>3. ops' \in 0 .. MaxOps /\ phase' \in {"constructing", "ready", "failed", "crashed"}
    BY <1>4, BoundAssumption DEF TwinSetsFeature, TwinMay, TypeOK
  <2> QED
    BY <1>4, <2>1, <2>2, <2>3 DEF TwinSetsFeature, TypeOK, locks, threads, shared
<1>5. ASSUME NEW p \in Profiles, TwinSetsProfile(p)
      PROVE  TypeOK'
  <2>1. DOMAIN profiles' \subseteq Profiles /\ \A q \in DOMAIN profiles' : profiles'[q] \in Config
    BY <1>5, MadeProfile DEF TwinSetsProfile
  <2>2. ops' \in 0 .. MaxOps
    BY <1>5, BoundAssumption DEF TwinSetsProfile, TwinMay, TypeOK
  <2> QED
    BY <1>5, <2>1, <2>2 DEF TwinSetsProfile, TypeOK, locks, threads, history
<1>6. ASSUME NEW p \in Profiles, TwinRemovesProfile(p)
      PROVE  TypeOK'
  <2>1. DOMAIN profiles' \subseteq Profiles /\ \A q \in DOMAIN profiles' : profiles'[q] \in Config
    BY <1>6 DEF TwinRemovesProfile, TypeOK
  <2>2. ops' \in 0 .. MaxOps /\ dangling' \subseteq Settings \cup {Device, Twin}
    BY <1>6, BoundAssumption DEF TwinRemovesProfile, TwinMay, TypeOK
  <2> QED
    BY <1>6, <2>1, <2>2 DEF TwinRemovesProfile, TypeOK, locks, threads, history
<1> QED
  BY <1>1, <1>2, <1>3, <1>4, <1>5, <1>6, StepType DEF Next

-----------------------------------------------------------------------------
(* Where the threads are, and the lock                                      *)

\* A thread that works is thread t, at place l with feature n.
Moves(t, l, n) ==
    /\ pc' = [pc EXCEPT ![t] = l]
    /\ pos' = [pos EXCEPT ![t] = n]

\* Every step of a thread moves that thread, the way of the operations.
LEMMA StepMoves ==
    ASSUME TypeOK, Places, LockHeld, NEW t \in Threads, Step(t)
    PROVE  \/ pc[t] \in {"enter", "reset", "configure"} /\ Moves(t, "idle", 1)
              /\ (profileLock = t => profileLock' = None) /\ (profileLock # t => profileLock' = profileLock)
           \/ pc[t] = "enter" /\ Moves(t, "reset", 1) /\ profileLock' = profileLock
           \/ pc[t] = "enter" /\ Moves(t, "switch", 1) /\ profileLock = None /\ profileLock' = t
           \/ pc[t] = "switch" /\ Moves(t, "switch", pos[t] + 1) /\ pos[t] + 1 \in Positions
              /\ profileLock' = profileLock
           \/ pc[t] = "switch" /\ Moves(t, "reset", 1) /\ profileLock' = profileLock
           \/ pc[t] = "reset" /\ Moves(t, "configure", 1) /\ profileLock' = profileLock
           \/ /\ pc[t] \in {"configure", "battery"} /\ Moves(t, "configure", pos[t] + 1)
              /\ profileLock' = profileLock
           \/ /\ pc[t] = "configure" /\ pos[t] \in Positions /\ Features[pos[t]] = Battery
              /\ Moves(t, "battery", pos[t]) /\ profileLock' = profileLock
<1> USE DEF Moves
<1>1. ASSUME pc[t] \in {"enter", "reset", "configure"}, End(t),
             Release(t) \/ (pc[t] = "enter" /\ UNCHANGED profileLock)
      PROVE  /\ pc[t] \in {"enter", "reset", "configure"} /\ Moves(t, "idle", 1)
             /\ (profileLock = t => profileLock' = None) /\ (profileLock # t => profileLock' = profileLock)
  BY <1>1 DEF End, Release, LockHeld, TypeOK
<1>2. CASE Sleep(t) \/ SetBattery(t) \/ RemoveProfile(t) \/ TransferFails(t) \/ Finish(t)
  <2>1. pc[t] \in {"enter", "reset", "configure"} /\ End(t)
        /\ (Release(t) \/ (pc[t] = "enter" /\ UNCHANGED profileLock))
    BY <1>2 DEF Sleep, SetBattery, RemoveProfile, TransferFails, Finish, At, Configuring, locks
  <2> QED
    BY <1>1, <2>1
<1>3. CASE ClearProfile(t)
  <2>1. CASE arg[t] = active
    <3>1. pc[t] = "enter" /\ pos[t] = 1 /\ profileLock = None /\ profileLock' = t
          /\ Goto(t, "switch") /\ UNCHANGED pos
      BY <1>3, <2>1 DEF ClearProfile, At, Places, ProfileLockFree
    <3> QED
      BY <3>1 DEF Goto, TypeOK
  <2>2. CASE arg[t] # active
    BY <1>1, <1>3, <2>2 DEF ClearProfile, At
  <2> QED
    BY <2>1, <2>2
<1>4. CASE SetProfile(t)
  BY <1>4 DEF SetProfile, At, Goto, Places, ProfileLockFree, TypeOK
<1>5. CASE Wakeup(t)
  BY <1>5 DEF Wakeup, At, Goto, Places, TypeOK
<1>6. CASE Switch(t)
  <2>1. CASE pos[t] < Len(Features)
    BY <1>6, <2>1, FeatureAssumption DEF Switch, TypeOK, locks, Positions
  <2>2. CASE ~(pos[t] < Len(Features))
    BY <1>6, <2>2 DEF Switch, Goto, TypeOK, locks
  <2> QED
    BY <2>1, <2>2
<1>7. CASE Reset(t)
  BY <1>7 DEF Reset, Goto, TypeOK, Places, locks
<1>8. CASE Configure(t)
  BY <1>8 DEF Configure, Configuring, Advance, TypeOK, locks
<1>9. CASE ConfigureBattery(t)
  <2>1. pc[t] = "configure" /\ pos[t] \in Positions /\ Features[pos[t]] = Battery
        /\ profileLock' = profileLock
    BY <1>9, FeatureAssumption DEF ConfigureBattery, Configuring, Positions, TypeOK, locks
  <2> QED
    BY <1>9, <2>1 DEF ConfigureBattery, Advance, Goto, TypeOK
<1>10. CASE ReadBattery(t)
  BY <1>10 DEF ReadBattery, Advance, Goto, TypeOK, locks
<1> QED
  BY <1>2, <1>3, <1>4, <1>5, <1>6, <1>7, <1>8, <1>9, <1>10 DEF Step

\* Every step keeps the threads in place and the lock with its holder.
LEMMA NextPlaces ==
    ASSUME TypeOK, Places, LockHeld, [Next]_vars
    PROVE  Places' /\ LockHeld'
<1>1. CASE UNCHANGED <<pc, pos, profileLock>>
  BY <1>1 DEF Places, LockHeld
<1>2. ASSUME NEW t \in Threads, NEW o \in Operations, NEW p \in Profiles, Start(t, o, p)
      PROVE  Places' /\ LockHeld'
  <2>1. pc' = [pc EXCEPT ![t] = "enter"] /\ pc[t] = "idle" /\ UNCHANGED <<pos, profileLock>>
    BY <1>2 DEF Start, locks
  <2> QED
    BY <2>1 DEF Places, LockHeld, TypeOK
<1>3. ASSUME NEW t \in Threads, Step(t)
      PROVE  Places' /\ LockHeld'
  <2>1. None \notin Threads
    BY ThreadAssumption DEF Threads
  <2>2. Places'
    <3>1. 1 \in Positions
      BY FeatureAssumption DEF Positions
    <3>2. \A u \in Threads \ {t} : pc'[u] = pc[u] /\ pos'[u] = pos[u]
      BY <1>3, StepMoves DEF Moves, TypeOK
    <3>3. \/ pc'[t] \in {"idle", "reset"} /\ pos'[t] = 1
          \/ pc'[t] = "switch" /\ pos'[t] \in Positions
          \/ pc'[t] = "configure"
          \/ pc'[t] = "battery" /\ pos'[t] \in Positions /\ Features[pos'[t]] = Battery
      BY <1>3, <3>1, StepMoves DEF Moves, TypeOK
    <3> QED
      BY <3>2, <3>3 DEF Places
  <2>3. LockHeld'
    BY <1>3, <2>1, StepMoves DEF Moves, LockHeld, TypeOK
  <2> QED
    BY <2>2, <2>3
<1> QED
  BY <1>1, <1>2, <1>3 DEF Next, vars, threads, locks, SetFeature, TwinSetsFeature, TwinSetsProfile, TwinRemovesProfile

-----------------------------------------------------------------------------
(* One profile, which exists                                                *)

\* A step that leaves the references alone.
LEMMA SameReferences ==
    ASSUME Following, Existing, UNCHANGED <<active, ref, twin, dangling>>,
           DOMAIN profiles' = DOMAIN profiles,
           \A t \in Threads : pc[t] = "switch" => pc'[t] = "switch" /\ pos'[t] = pos[t]
    PROVE  Following' /\ Existing'
BY DEF Following, Existing, Ahead

\* The thread that changes the profile has still to come to every feature.
LEMMA SetsProfile ==
    ASSUME Profiled, NEW t \in Threads, SetProfile(t)
    PROVE  Following' /\ Existing'
<1>1. arg[t] \in Profiles /\ profiles' = WithProfile(arg[t]) /\ active' = arg[t]
      /\ dangling' = dangling \ {Device} /\ UNCHANGED <<ref, twin>>
  BY DEF SetProfile, Profiled, TypeOK
<1>2. DOMAIN profiles' = DOMAIN profiles \cup {arg[t]}
  BY <1>1, MadeProfile DEF Profiled
<1>3. pc'[t] = "switch" /\ pos'[t] = 1
  BY DEF SetProfile, At, Goto, Profiled, Places, TypeOK
<1>4. Following'
  BY <1>3, FeatureAssumption DEF Following, Ahead, Settings, Positions
<1>5. Existing'
  BY <1>1, <1>2, NameAssumption DEF Existing, Profiled, Settings
<1> QED
  BY <1>4, <1>5

\* With the lock free no feature refers to another profile than the active one.
LEMMA RemovesProfile ==
    ASSUME Profiled, NEW t \in Threads, RemoveProfile(t)
    PROVE  Following' /\ Existing'
<1>1. \A u \in Threads : pc[u] # "switch"
  BY ThreadAssumption DEF RemoveProfile, ProfileLockFree, Profiled, LockHeld, Threads
<1>2. \A f \in Settings : ref[f] = active
  BY <1>1 DEF Profiled, Following
<1>3. dangling \subseteq dangling' /\ dangling' \subseteq dangling \cup {Twin}
      /\ UNCHANGED <<active, ref, twin>>
  BY DEF RemoveProfile
<1>4. Following'
  BY <1>1, <1>2, <1>3, NameAssumption DEF Profiled, Following, Settings
<1>5. DOMAIN profiles \ {arg[t]} \subseteq DOMAIN profiles'
      /\ (arg[t] \in DOMAIN profiles \ DOMAIN profiles' => arg[t] # active /\ (arg[t] = twin => Twin \in dangling'))
  BY DEF RemoveProfile, Removable
<1>6. Existing'
  BY <1>2, <1>3, <1>5 DEF Profiled, Existing
<1> QED
  BY <1>4, <1>6

\* The features take the reference of the device one by one.
LEMMA Switches ==
    ASSUME Profiled, NEW t \in Threads, Switch(t)
    PROVE  Following' /\ Existing'
<1> DEFINE g == Features[pos[t]]
<1>1. /\ pc[t] = "switch" /\ pos[t] \in Positions
      /\ ref' = [f \in Settings |-> IF f \in {g} THEN active ELSE ref[f]]
      /\ dangling' = IF Device \in dangling THEN dangling \cup ({g} \cap Settings) ELSE dangling \ {g}
      /\ UNCHANGED <<profiles, active, twin>>
  BY DEF Switch, Retarget, Profiled, Places
<1>2. \A u \in Threads : pc[u] = "switch" => u = t
  BY <1>1 DEF Profiled, LockHeld
<1>3. Device \in dangling' <=> Device \in dangling
  BY <1>1, NameAssumption DEF Settings
<1>4. \A f \in Settings : f = g =>
          ref'[f] = active' /\ (f \in dangling' => Device \in dangling')
  BY <1>1, <1>3
<1>5. \A f \in Settings : f # g =>
          ref'[f] = ref[f] /\ (f \in dangling' <=> f \in dangling)
  BY <1>1
<1>6. ASSUME NEW f \in Settings, f # g, Ahead(t, f)
      PROVE  pc'[t] = "switch" /\ Ahead(t, f)'
  <2>1. PICK i \in Positions : Features[i] = f /\ pos[t] <= i
    BY <1>6 DEF Ahead
  <2>2. pos[t] < i /\ pos[t] + 1 <= i /\ pos[t] < Len(Features)
    BY <1>1, <1>6, <2>1, FeatureAssumption DEF Positions
  <2>3. pos' = [pos EXCEPT ![t] = pos[t] + 1] /\ UNCHANGED pc
    BY <2>2 DEF Switch
  <2>4. pos'[t] = pos[t] + 1
    BY <2>3 DEF Profiled, TypeOK
  <2> QED
    BY <1>1, <2>1, <2>2, <2>3, <2>4 DEF Ahead
<1>7. Following'
  BY <1>1, <1>2, <1>3, <1>4, <1>5, <1>6 DEF Profiled, Following
<1>8. Existing'
  BY <1>1, <1>3, <1>4, <1>5, NameAssumption DEF Profiled, Existing, Settings
<1> QED
  BY <1>7, <1>8

\* What the twin removes is marked wherever it is used here.
LEMMA TwinRemoves ==
    ASSUME Profiled, NEW p \in Profiles, TwinRemovesProfile(p)
    PROVE  Following' /\ Existing'
<1>1. /\ p # twin /\ DOMAIN profiles' = DOMAIN profiles \ {p}
      /\ dangling' = dangling \cup {f \in Settings : ref[f] = p}
                              \cup (IF active = p THEN {Device} ELSE {})
      /\ UNCHANGED <<active, ref, twin, pc, pos>>
  BY DEF TwinRemovesProfile, threads
<1>2. Twin \in dangling' <=> Twin \in dangling
  BY <1>1, NameAssumption DEF Settings
<1>3. Following'
  BY <1>1 DEF Profiled, Following, Ahead
<1>4. Existing'
  BY <1>1, <1>2 DEF Profiled, Existing
<1> QED
  BY <1>3, <1>4

\* The twin sets its profile, which may be one it makes.
LEMMA TwinSets ==
    ASSUME Profiled, NEW p \in Profiles, TwinSetsProfile(p)
    PROVE  Following' /\ Existing'
<1>1. /\ profiles' = WithProfile(p) /\ twin' = p /\ dangling' = dangling \ {Twin}
      /\ UNCHANGED <<active, ref, pc, pos>>
  BY DEF TwinSetsProfile, threads
<1>2. DOMAIN profiles' = DOMAIN profiles \cup {p}
  BY <1>1, MadeProfile DEF Profiled
<1>3. Following'
  BY <1>1, NameAssumption DEF Profiled, Following, Ahead
<1>4. Existing'
  BY <1>1, <1>2, NameAssumption DEF Profiled, Existing, Settings
<1> QED
  BY <1>3, <1>4

\* A device begins with the profile its configuration names.
LEMMA InitProfiled == Init => Profiled
<1> SUFFICES ASSUME Init PROVE Profiled
  OBVIOUS
<1>1. TypeOK
  <2>1. /\ op \in [Threads -> Operations \cup {None}] /\ arg \in [Threads -> Profiles]
        /\ pc \in [Threads -> PCs] /\ pos \in [Threads -> 1 .. Len(Features) + 1]
        /\ \A t \in Threads : pc[t] = "reset" => pos[t] = 1
    BY ProfileAssumption, FeatureAssumption DEF Init, Operations, PCs
  <2>2. hw \in Config
    BY DEF Init, NoConfig, Config
  <2>3. DOMAIN profiles \subseteq Profiles /\ \A p \in DOMAIN profiles : profiles[p] \in Config
    BY ProfileAssumption, InitialAssumption DEF Init
  <2>4. fresh \in [Threads -> BOOLEAN] /\ behind \in BOOLEAN /\ awake \in BOOLEAN /\ canReset \in BOOLEAN
    BY DEF Init
  <2>5. active \in Profiles /\ ref \in [Settings -> Profiles] /\ twin \in Profiles
    BY ProfileAssumption DEF Init
  <2>6. phase \in {"constructing", "ready", "failed", "crashed"} /\ ops \in 0 .. MaxOps
    BY BoundAssumption DEF Init
  <2>7. /\ profileLock \in Threads \cup {None} /\ stateLock \in Threads \cup {None}
        /\ listening \subseteq {Features[i] : i \in Positions} /\ dangling \subseteq Settings \cup {Device, Twin}
    BY DEF Init
  <2> QED
    BY <2>1, <2>2, <2>3, <2>4, <2>5, <2>6, <2>7 DEF TypeOK, PCs
<1>2. Places /\ LockHeld
  BY DEF Init, Places, LockHeld
<1>3. Following /\ Existing
  BY DEF Init, Following, Existing
<1> QED
  BY <1>1, <1>2, <1>3 DEF Profiled

\* Every step keeps the features with one profile.
LEMMA NextProfiled ==
    ASSUME Profiled, [Next]_vars
    PROVE  Profiled'
<1>0. TypeOK /\ Places /\ LockHeld /\ Following /\ Existing
  BY DEF Profiled
<1>1. TypeOK' /\ Places' /\ LockHeld'
  BY <1>0, NextType, NextPlaces
<1>2. ASSUME UNCHANGED <<active, ref, twin, dangling>>, DOMAIN profiles' = DOMAIN profiles,
             \A t \in Threads : pc[t] = "switch" => pc'[t] = "switch" /\ pos'[t] = pos[t]
      PROVE  Following' /\ Existing'
  BY <1>0, <1>2, SameReferences
<1>3. ASSUME UNCHANGED vars PROVE Following' /\ Existing'
  BY <1>2, <1>3 DEF vars, device, shared, threads
<1>4. ASSUME NEW t \in Threads, NEW o \in Operations, NEW p \in Profiles, Start(t, o, p)
      PROVE  Following' /\ Existing'
  BY <1>0, <1>2, <1>4 DEF Start, device, shared, TypeOK
<1>5. ASSUME NEW t \in Threads, Step(t)
      PROVE  Following' /\ Existing'
  <2>1. CASE SetProfile(t)
    BY <2>1, SetsProfile
  <2>2. CASE RemoveProfile(t)
    BY <2>2, RemovesProfile
  <2>3. CASE Switch(t)
    BY <2>3, Switches
  <2>4. CASE \/ Sleep(t) \/ SetBattery(t) \/ Wakeup(t) \/ ClearProfile(t)
             \/ Reset(t) \/ Configure(t) \/ ConfigureBattery(t) \/ ReadBattery(t)
             \/ TransferFails(t) \/ Finish(t)
    <3>1. UNCHANGED <<active, ref, twin, dangling>> /\ DOMAIN profiles' = DOMAIN profiles
      BY <2>4 DEF Sleep, SetBattery, Wakeup, ClearProfile, Reset, Configure, ConfigureBattery, ReadBattery,
                  TransferFails, Finish, device, shared
    <3>2. pc[t] # "switch"
      BY <2>4 DEF Sleep, SetBattery, Wakeup, ClearProfile, Reset, Configure, ConfigureBattery, ReadBattery,
                  TransferFails, Finish, At, Configuring
    <3>3. \A u \in Threads \ {t} : pc'[u] = pc[u] /\ pos'[u] = pos[u]
      BY <1>0, <1>5, StepMoves DEF Moves, TypeOK
    <3> QED
      BY <1>2, <3>1, <3>2, <3>3
  <2> QED
    BY <1>5, <2>1, <2>2, <2>3, <2>4 DEF Step
<1>6. ASSUME NEW f \in Settings, NEW v \in Values \cup {Unset}, SetFeature(f, v) \/ TwinSetsFeature(f, v)
      PROVE  Following' /\ Existing'
  <2>1. DOMAIN profiles' = DOMAIN profiles
    BY <1>6 DEF SetFeature, TwinSetsFeature
  <2>2. UNCHANGED <<active, ref, twin, dangling, pc, pos>>
    BY <1>6 DEF SetFeature, TwinSetsFeature, threads, shared
  <2> QED
    BY <1>2, <2>1, <2>2
<1>7. ASSUME NEW p \in Profiles, TwinSetsProfile(p) \/ TwinRemovesProfile(p)
      PROVE  Following' /\ Existing'
  BY <1>7, TwinSets, TwinRemoves
<1>8. Following' /\ Existing'
  BY <1>3, <1>4, <1>5, <1>6, <1>7 DEF Next
<1> QED
  BY <1>1, <1>8 DEF Profiled

\* While no thread changes the profile, all features refer to the active one,
\* which exists: no mixture, and no setting erased under a feature, unless a
\* device of the same name erased it.
THEOREM OneProfileForAll == Spec => []FeaturesShareProfile
<1>1. Profiled /\ [Next]_vars => Profiled'
  BY NextProfiled
<1>2. Profiled => FeaturesShareProfile
  <2>1. None \notin Threads
    BY ThreadAssumption DEF Threads
  <2> QED
    BY <2>1 DEF Profiled, LockHeld, Following, FeaturesShareProfile, OneProfile
<1> QED
  BY InitProfiled, <1>1, <1>2, PTL DEF Spec

-----------------------------------------------------------------------------
(* The hardware                                                             *)

\* What is written or will be stays so when neither the profile of a feature
\* nor its hardware changes, and no thread passes it by.
LEMMA StillWritten ==
    ASSUME Written, NEW f \in Settings \ dangling,
           Living, ~behind \/ \E t \in Threads : fresh[t],
           Match(f) => Match(f)' \/ \E t \in Threads : Pending(t, f)',
           \A t \in Threads : Pending(t, f) => Match(f)' \/ Pending(t, f)'
    PROVE  Match(f)' \/ \E t \in Threads : Pending(t, f)'
BY DEF Written

\* A thread that is not yet at the features will come to all of them.
LEMMA AllAhead ==
    ASSUME NEW f \in Settings, NEW t \in Threads, pos[t] = 1
    PROVE  Ahead(t, f)
BY FeatureAssumption DEF Settings, Ahead, Positions

\* A step of a thread writes what is due, or lets a transfer fail.
LEMMA StepWritten ==
    ASSUME Profiled, Profiled', Written, NEW s \in Threads, Step(s), Living',
           ~behind' \/ \E t \in Threads : fresh'[t],
           NEW f \in Settings \ dangling'
    PROVE  Match(f)' \/ \E t \in Threads : Pending(t, f)'
<1> DEFINE Goal == Match(f)' \/ \E t \in Threads : Pending(t, f)'
<1>0. TypeOK /\ Places /\ LockHeld /\ Following /\ Existing
  BY DEF Profiled
<1>1. \A t \in Threads \ {s} : pc'[t] = pc[t] /\ pos'[t] = pos[t]
  BY <1>0, StepMoves DEF Moves, TypeOK
<1>2. \A t \in Threads \ {s} : Pending(t, f) => Pending(t, f)'
  BY <1>1 DEF Pending, Ahead
<1>3. ASSUME UNCHANGED <<profiles, ref, hw>> PROVE Match(f)' = Match(f)
  BY <1>3 DEF Match
<1>4. ASSUME pc'[s] \in {"switch", "reset"} PROVE Goal
  BY <1>4 DEF Pending
<1>5. CASE Sleep(s) \/ SetBattery(s)
  <2>1. /\ pc[s] = "enter" /\ Living
        /\ UNCHANGED <<profiles, ref, hw, dangling, fresh, behind>>
    BY <1>5 DEF Sleep, SetBattery, At, device, shared, history
  <2>2. ~Pending(s, f)
    BY <2>1 DEF Pending
  <2> QED
    BY <1>2, <1>3, <2>1, <2>2, StillWritten
<1>6. CASE Wakeup(s) \/ SetProfile(s)
  <2>1. pc'[s] \in {"switch", "reset"}
    BY <1>0, <1>6 DEF Wakeup, SetProfile, Goto, TypeOK
  <2> QED
    BY <1>4, <2>1
<1>7. CASE ClearProfile(s)
  <2>1. CASE arg[s] = active
    <3>1. pc'[s] = "switch"
      BY <1>0, <1>7, <2>1 DEF ClearProfile, Goto, TypeOK
    <3> QED
      BY <1>4, <3>1
  <2>2. CASE arg[s] # active
    <3>1. /\ pc[s] = "enter" /\ Living
          /\ UNCHANGED <<ref, hw, dangling, fresh, behind>>
          /\ profiles' = profiles \/ profiles' = [profiles EXCEPT ![arg[s]] = NoConfig]
      BY <1>7, <2>2 DEF ClearProfile, At, shared, history
    <3>2. Match(f) => Match(f)'
      <4>1. ref[f] \in DOMAIN profiles
        BY <1>0, <3>1 DEF Existing
      <4>2. CASE profiles' = profiles
        BY <3>1, <4>2 DEF Match
      <4>3. CASE profiles' = [profiles EXCEPT ![arg[s]] = NoConfig]
        BY <3>1, <4>1, <4>3 DEF Match, NoConfig
      <4> QED
        BY <3>1, <4>2, <4>3
    <3>3. ~Pending(s, f)
      BY <3>1 DEF Pending
    <3> QED
      BY <1>2, <3>1, <3>2, <3>3, StillWritten
  <2> QED
    BY <2>1, <2>2
<1>8. CASE RemoveProfile(s)
  <2>1. /\ pc[s] = "enter" /\ Living
        /\ UNCHANGED <<ref, hw, fresh, behind>> /\ dangling \subseteq dangling'
    BY <1>8 DEF RemoveProfile, At, history
  <2>2. ref[f] \in DOMAIN profiles' /\ profiles'[ref[f]] = profiles[ref[f]]
    <3>1. ref'[f] \in DOMAIN profiles'
      BY DEF Profiled, Existing
    <3> QED
      BY <1>8, <2>1, <3>1 DEF RemoveProfile
  <2>3. Match(f)' = Match(f) /\ ~Pending(s, f)
    BY <2>1, <2>2 DEF Match, Pending
  <2> QED
    BY <1>2, <2>1, <2>3, StillWritten
<1>9. CASE Switch(s)
  <2>1. pc'[s] \in {"switch", "reset"}
    BY <1>0, <1>9 DEF Switch, Goto, TypeOK
  <2> QED
    BY <1>4, <2>1
<1>10. CASE Reset(s)
  <2>1. pc'[s] = "configure" /\ pos'[s] = 1
    BY <1>0, <1>10 DEF Reset, Goto, TypeOK, Places
  <2>2. Ahead(s, f)'
    BY <2>1, FeatureAssumption DEF Settings, Ahead, Positions
  <2> QED
    BY <2>1, <2>2 DEF Pending
<1>11. CASE Configure(s)
  <2>1. /\ pc[s] = "configure" /\ Living /\ pc'[s] = "configure" /\ pos[s] \in Positions
        /\ pos'[s] = pos[s] + 1 /\ UNCHANGED <<profiles, ref, dangling, fresh, behind>>
    BY <1>0, <1>11, FeatureAssumption
       DEF Configure, Configuring, Advance, TypeOK, Positions, shared, history
  <2>2. CASE f = Features[pos[s]]
    <3>1. f \in dangling => phase' = "crashed"
      BY <1>11, <2>2 DEF Configure, Deref
    <3>2. Match(f)'
      BY <1>0, <1>11, <2>1, <2>2, <3>1 DEF Configure, Match, TypeOK, Config
    <3> QED
      BY <3>2
  <2>3. CASE f # Features[pos[s]]
    <3>1. hw'[f] = hw[f]
      BY <1>0, <1>11, <2>3 DEF Configure, TypeOK, Config
    <3>2. Match(f)' = Match(f)
      BY <2>1, <3>1 DEF Match
    <3>3. Pending(s, f) => Pending(s, f)'
      <4>1. Ahead(s, f) => Ahead(s, f)'
        BY <2>1, <2>3, FeatureAssumption DEF Ahead, Positions
      <4> QED
        BY <2>1, <4>1 DEF Pending
    <3> QED
      BY <1>2, <2>1, <3>2, <3>3, StillWritten
  <2> QED
    BY <2>2, <2>3
<1>12. CASE ConfigureBattery(s) \/ ReadBattery(s)
  <2>1. /\ pc[s] \in {"configure", "battery"} /\ Living /\ pos[s] \in Positions
        /\ Features[pos[s]] = Battery /\ pc'[s] \in {"configure", "battery"}
        /\ pos'[s] \in {pos[s], pos[s] + 1}
        /\ UNCHANGED <<profiles, ref, hw, dangling, fresh, behind>>
    BY <1>0, <1>12, FeatureAssumption
       DEF ConfigureBattery, ReadBattery, Configuring, Advance, Goto, TypeOK, Places, Positions,
           device, shared, history
  <2>2. f # Battery
    BY DEF Settings
  <2>3. Pending(s, f) => Pending(s, f)'
    <3>1. Ahead(s, f) => Ahead(s, f)'
      BY <2>1, <2>2, FeatureAssumption DEF Ahead, Positions
    <3> QED
      BY <2>1, <3>1 DEF Pending
  <2> QED
    BY <1>2, <1>3, <2>1, <2>3, StillWritten
<1>13. CASE TransferFails(s)
  BY <1>13 DEF TransferFails, Fail
<1>14. CASE Finish(s)
  <2>1. /\ pc[s] = "configure" /\ pos[s] = Len(Features) + 1 /\ Living
        /\ UNCHANGED <<profiles, ref, hw, dangling>>
    BY <1>14 DEF Finish, shared
  <2>2. ~behind \/ \E t \in Threads : fresh[t]
    BY <1>0, <1>14 DEF Finish, TypeOK
  <2>3. ~Pending(s, f)
    BY <2>1, FeatureAssumption DEF Pending, Ahead, Positions
  <2> QED
    BY <1>2, <1>3, <2>1, <2>2, <2>3, StillWritten
<1> QED
  BY <1>5, <1>6, <1>7, <1>8, <1>9, <1>10, <1>11, <1>12, <1>13, <1>14 DEF Step

\* Every step keeps the hardware with the profiles.
LEMMA NextWritten ==
    ASSUME Profiled, Profiled', Written, [Next]_vars
    PROVE  Written'
<1> SUFFICES ASSUME Living', ~behind' \/ \E t \in Threads : fresh'[t],
                    NEW f \in Settings \ dangling'
             PROVE  Match(f)' \/ \E t \in Threads : Pending(t, f)'
  BY DEF Written
<1> DEFINE Goal == Match(f)' \/ \E t \in Threads : Pending(t, f)'
<1>0. TypeOK /\ Places /\ LockHeld /\ Following /\ Existing
  BY DEF Profiled
<1>1. ASSUME f \notin dangling, Living, ~behind \/ \E t \in Threads : fresh[t],
             Match(f) => Match(f)', UNCHANGED <<pc, pos>>
      PROVE  Goal
  <2>1. \A t \in Threads : Pending(t, f)' = Pending(t, f)
    BY <1>1 DEF Pending, Ahead
  <2> QED
    BY <1>1, <2>1, StillWritten
<1>2. ASSUME UNCHANGED vars PROVE Goal
  BY <1>1, <1>2 DEF vars, device, threads, shared, history, Living, Match
<1>3. ASSUME NEW s \in Threads, NEW o \in Operations, NEW p \in Profiles, Start(s, o, p)
      PROVE  Goal
  <2>1. \A t \in Threads : Pending(t, f) => Pending(t, f)'
    BY <1>0, <1>3 DEF Start, Pending, Ahead, TypeOK
  <2>2. Living /\ UNCHANGED <<profiles, ref, hw, dangling, fresh, behind>>
    BY <1>3 DEF Start, device, shared, history
  <2> QED
    BY <2>1, <2>2, StillWritten DEF Match
<1>4. ASSUME NEW s \in Threads, Step(s) PROVE Goal
  BY <1>4, StepWritten
<1>5. ASSUME NEW g \in Settings, NEW v \in Values \cup {Unset}, SetFeature(g, v) PROVE Goal
  <2>1. CASE behind' /\ \A t \in Threads : ~fresh'[t]
    BY <2>1
  <2>2. CASE ~(behind' /\ \A t \in Threads : ~fresh'[t])
    <3>1. /\ hw' = [hw EXCEPT ![g] = v] \/ (v = Unset /\ hw' = hw)
          /\ UNCHANGED <<fresh, behind, ref, dangling, pc, pos>> /\ Living
      BY <1>5, <2>2 DEF SetFeature, Fail, history, shared, threads, Living
    <3>2. g \notin dangling /\ profiles' = [profiles EXCEPT ![ref[g]][g] = v]
      BY <1>5 DEF SetFeature, Deref, Living
    <3>3. ref[f] \in DOMAIN profiles /\ ref[g] \in DOMAIN profiles
          /\ profiles[ref[f]] \in Config /\ profiles[ref[g]] \in Config
      BY <1>0, <3>1, <3>2 DEF Existing, TypeOK
    <3>4. Match(f) => Match(f)'
      <4>1. CASE f = g
        BY <1>0, <3>1, <3>2, <3>3, <4>1 DEF Match, Config, TypeOK
      <4>2. CASE f # g
        <5>1. profiles'[ref[f]][f] = profiles[ref[f]][f]
          BY <3>2, <3>3, <4>2 DEF Config
        <5>2. hw'[f] = hw[f]
          BY <1>0, <3>1, <4>2 DEF Config, TypeOK
        <5> QED
          BY <3>1, <5>1, <5>2 DEF Match
      <4> QED
        BY <4>1, <4>2
    <3> QED
      BY <1>1, <3>1, <3>4
  <2> QED
    BY <2>1, <2>2
<1>6. ASSUME NEW g \in Settings, NEW v \in Values \cup {Unset}, TwinSetsFeature(g, v) PROVE Goal
  <2>1. CASE behind' /\ \A t \in Threads : ~fresh'[t]
    BY <2>1
  <2>2. CASE ~(behind' /\ \A t \in Threads : ~fresh'[t])
    <3>1. /\ UNCHANGED <<fresh, behind, ref, hw, dangling, pc, pos>> /\ Living /\ ref[g] # twin
      BY <1>6, <2>2 DEF TwinSetsFeature, TwinMay, Fail, history, shared, threads
    <3>2. profiles' = profiles \/ profiles' = [profiles EXCEPT ![twin][g] = v]
      BY <1>6 DEF TwinSetsFeature
    <3>3. ref[f] \in DOMAIN profiles /\ profiles[ref[f]] \in Config
      BY <1>0, <3>1 DEF Existing, TypeOK
    <3>4. profiles'[ref[f]][f] = profiles[ref[f]][f]
      BY <3>1, <3>2, <3>3 DEF Config
    <3>5. Match(f) => Match(f)'
      BY <3>1, <3>4 DEF Match
    <3> QED
      BY <1>1, <3>1, <3>5
  <2> QED
    BY <2>1, <2>2
<1>7. ASSUME NEW p \in Profiles, TwinSetsProfile(p) PROVE Goal
  <2>1. /\ UNCHANGED <<fresh, behind, ref, hw, pc, pos>> /\ Living
        /\ profiles' = WithProfile(p) /\ dangling' = dangling \ {Twin}
    BY <1>7 DEF TwinSetsProfile, TwinMay, history, threads
  <2>2. f \notin dangling
    BY <2>1, NameAssumption DEF Settings
  <2>3. profiles'[ref[f]] = profiles[ref[f]]
    BY <1>0, <2>1, <2>2, MadeProfile DEF Existing
  <2> QED
    BY <1>1, <2>1, <2>2, <2>3 DEF Match
<1>8. ASSUME NEW p \in Profiles, TwinRemovesProfile(p) PROVE Goal
  <2>1. /\ UNCHANGED <<fresh, behind, ref, hw, pc, pos>> /\ Living
        /\ profiles' = [q \in DOMAIN profiles \ {p} |-> profiles[q]] /\ dangling \subseteq dangling'
    BY <1>8 DEF TwinRemovesProfile, TwinMay, history, threads
  <2>2. f \notin dangling /\ ref[f] \in DOMAIN profiles'
    BY <2>1 DEF Profiled, Existing
  <2>3. profiles'[ref[f]] = profiles[ref[f]]
    BY <2>1, <2>2
  <2> QED
    BY <1>1, <2>1, <2>2, <2>3 DEF Match
<1> QED
  BY <1>2, <1>3, <1>4, <1>5, <1>6, <1>7, <1>8 DEF Next

\* When nothing runs and no transfer failed since the last reconfiguration, the
\* hardware has every setting of the active profile, however changes of the
\* profile, setters and wakeups were interleaved.
THEOREM HardwareAgrees == Spec => []HardwareFollowsProfile
<1>1. Init => Written
  <2> SUFFICES ASSUME Init, NEW f \in Settings PROVE Match(f) \/ \E t \in Threads : Pending(t, f)
    BY DEF Written
  <2>1. \E t \in Threads : pc[t] = "reset"
    <3> DEFINE w == CHOOSE t \in Workers : TRUE
    <3>1. w \in Threads
      BY ThreadAssumption DEF Threads
    <3>2. pc[w] = "reset"
      BY <3>1 DEF Init
    <3> QED
      BY <3>1, <3>2
  <2> QED
    BY <2>1 DEF Pending
<1>2. Profiled /\ Profiled' /\ Written /\ [Next]_vars => Written'
  BY NextWritten
<1>3. Profiled /\ [Next]_vars => Profiled'
  BY NextProfiled
<1>4. Profiled /\ Written => HardwareFollowsProfile
  <2> SUFFICES ASSUME Profiled, Written, Quiet, ~behind, Device \notin dangling, NEW f \in Settings,
                      profiles[active][f] # Unset
               PROVE  hw[f] = profiles[active][f]
    BY DEF HardwareFollowsProfile
  <2>1. \A t \in Threads : pc[t] = "idle"
    BY DEF Quiet
  <2>2. ref[f] = active /\ f \notin dangling
    BY <2>1 DEF Profiled, Following
  <2>3. Match(f)
    BY <2>1, <2>2 DEF Written, Quiet, Pending
  <2> QED
    BY <2>2, <2>3 DEF Match
<1> QED
  BY InitProfiled, <1>1, <1>2, <1>3, <1>4, PTL DEF Spec

=============================================================================
