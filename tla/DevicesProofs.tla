---------------------------- MODULE DevicesProofs ----------------------------
(***************************************************************************)
(* Theorems about the devices, from the nodes of the kernel to the         *)
(* client.                                                                 *)
(*  - DeviceManager, for any nodes, workers and bounds: two living         *)
(*    devices never share a nickname and nicknames are given back; a       *)
(*    node that is gone stays listed only if its remove task missed an     *)
(*    object.                                                              *)
(*  - The page of a device in the client, for any edits, saves and         *)
(*    refusals: what its settings (DeviceController), profiles             *)
(*    (ProfilesModel), rows of buttons (ButtonsModel) and panels of        *)
(*    gestures (GestureModel) show is what the daemon has, and what is     *)
(*    shown as saved is in the file.                                       *)
(***************************************************************************)
EXTENDS DeviceManager, MCGui, FiniteSetTheorems, SequenceTheorems, TLAPS

\* A thread that is not idle has a job.
JobKnown == \A t \in Threads : pc[t] # "idle" => job[t] \in Jobs

\* A thread holds an object from its construction to the end of the job.
ObjInit == \A t \in Threads : obj[t] # 0 <=> pc[t] = "init"

\* An object is in one place: a thread makes it, or one of the maps has it,
\* at one path.
OnePlace ==
    /\ \A t, u \in Threads : obj[t] # 0 /\ obj[t] = obj[u] => t = u
    /\ \A t \in Threads, p \in Paths : obj[t] # 0 => obj[t] # receivers[p] /\ obj[t] # devices[p]
    /\ \A p, q \in Paths : receivers[p] # 0 => receivers[p] # devices[q]
    /\ \A p, q \in Paths : receivers[p] # 0 /\ receivers[p] = receivers[q] => p = q
    /\ \A p, q \in Paths : devices[p] # 0 /\ devices[p] = devices[q] => p = q

\* An object of the path is being made.
Busy(p) == \E t \in Threads : pc[t] \in {"make", "init"} /\ job[t].path = p

\* The remove task of the path is queued or runs.
Removing(p) ==
    \/ \E j \in queue : j.kind = "remove" /\ j.path = p
    \/ \E t \in Threads : pc[t] = "run" /\ job[t].kind = "remove" /\ job[t].path = p

\* What is listed or made of a node that is gone will be removed, unless a
\* remove task of the path missed an object.
Attended ==
    \A p \in Paths \ missed : p \notin Nodes /\ (Listed(p) \/ Busy(p)) => Removing(p)

\* The inductive invariant.
NickInv == TypeOK /\ JobKnown /\ ObjInit /\ OnePlace /\ NicknamesFollowDevices

-----------------------------------------------------------------------------
(* Types                                                                    *)

\* An add that is tried again is a job.
LEMMA RetryJobs ==
    ASSUME queue \subseteq Jobs, NEW j \in Jobs, Retry(j) \/ UNCHANGED queue
    PROVE  queue' \subseteq Jobs
<1>1. j.tries # MaxTries => [j EXCEPT !.tries = @ + 1] \in Jobs
  BY BoundsAssumption DEF Jobs
<1> QED
  BY <1>1 DEF Retry

\* A thread that has finished its job is idle.
LEMMA EndType ==
    ASSUME TypeOK, JobKnown, NEW t \in Threads, End(t)
    PROVE  /\ job' \in [Threads -> Jobs \cup {None}]
           /\ pc' \in [Threads -> {"idle", "run", "make", "init"}]
           /\ kind' \in [Threads -> Kinds]
           /\ obj' \in [Threads -> 0 .. MaxObjects]
           /\ JobKnown'
<1>1. 0 \in 0 .. MaxObjects
  BY BoundsAssumption
<1> QED
  BY <1>1 DEF TypeOK, JobKnown, End, Kinds

\* Objects are destroyed, none is made: the nicknames of the others stay.
LEMMA DestroyType ==
    ASSUME TypeOK, NEW S, Destroy(S), UNCHANGED made
    PROVE  /\ DOMAIN nick' \subseteq 1 .. made'
           /\ \A o \in DOMAIN nick' :
                 nick'[o] \in [of : {"receiver", "device"}, n : 0 .. MaxObjects - 1]
BY DEF TypeOK, Destroy

\* Every step keeps the types, and a thread that works has a job.
LEMMA NextType ==
    ASSUME TypeOK, JobKnown, [Next]_vars
    PROVE  TypeOK' /\ JobKnown'
<1>0. CASE UNCHANGED vars
  BY <1>0 DEF TypeOK, JobKnown, vars
<1>1. ASSUME NEW p \in Paths, Plug(p) PROVE TypeOK' /\ JobKnown'
  <2>1. plugs + 1 \in 0 .. MaxPlugs
    BY <1>1, BoundsAssumption DEF Plug, TypeOK
  <2>2. [kind |-> "add", path |-> p, tries |-> 0, id |-> plugs + 1] \in Jobs
    BY <2>1, BoundsAssumption DEF Jobs
  <2>3. plugged' \in [Paths -> Kinds \cup {None}]
    BY <1>1 DEF Plug, TypeOK
  <2> QED
    BY <1>1, <2>1, <2>2, <2>3 DEF Plug, TypeOK, JobKnown, objects
<1>2. ASSUME NEW p \in Paths, Unplug(p) PROVE TypeOK' /\ JobKnown'
  <2>2. [kind |-> "remove", path |-> p, tries |-> 0, id |-> plugs] \in Jobs
    BY BoundsAssumption DEF Jobs, TypeOK
  <2> QED
    BY <1>2, <2>2 DEF Unplug, TypeOK, JobKnown, objects
<1>3. CASE Enumerate
  BY <1>3 DEF Enumerate, TypeOK, JobKnown, objects, Nodes
<1>4. ASSUME NEW t \in Threads, NEW j \in Jobs, Start(t, j), queue' \subseteq queue, scan' \subseteq scan
      PROVE  TypeOK' /\ JobKnown'
  BY <1>4 DEF Start, TypeOK, JobKnown, objects
<1>5. CASE \E w \in Workers : StartTask(w)
  BY <1>4, <1>5 DEF StartTask, Threads, TypeOK
<1>6. CASE StartScan
  <2>1. PICK p \in scan : /\ Start(Main, [kind |-> "add", path |-> p, tries |-> 0, id |-> 0])
                          /\ scan' = scan \ {p}
                          /\ UNCHANGED queue
    BY <1>6 DEF StartScan
  <2>2. [kind |-> "add", path |-> p, tries |-> 0, id |-> 0] \in Jobs
    BY BoundsAssumption DEF Jobs, TypeOK
  <2> QED
    BY <1>4, <2>1, <2>2 DEF Threads
<1>7. ASSUME NEW t \in Threads, Step(t) PROVE TypeOK' /\ JobKnown'
  <2>1. CASE Skip(t)
    BY <2>1, EndType DEF Skip, TypeOK, objects
  <2>2. CASE NotReady(t)
    <3>1. job[t] \in Jobs
      BY <2>2 DEF NotReady, Adding, JobKnown
    <3>2. queue' \subseteq Jobs
      BY <2>2, <3>1, RetryJobs DEF NotReady, TypeOK
    <3> QED
      BY <2>2, <3>2, EndType DEF NotReady, TypeOK, objects
  <2>3. CASE Probe(t)
    <3>1. job[t] \in Jobs
      BY <2>3 DEF Probe, Adding, JobKnown
    <3>2. plugged[job[t].path] \in Kinds
      BY <2>3, <3>1 DEF Probe, Nodes, TypeOK, Jobs
    <3>3. kind' \in [Threads -> Kinds] /\ pc' \in [Threads -> {"idle", "run", "make", "init"}]
      BY <2>3, <3>2 DEF Probe, TypeOK
    <3>4. JobKnown'
      BY <2>3, <3>1 DEF Probe, JobKnown, TypeOK
    <3> QED
      BY <2>3, <3>3, <3>4 DEF Probe, TypeOK, objects
  <2>4. CASE Make(t)
    <3>1. made' \in 0 .. MaxObjects /\ made + 1 \in 0 .. MaxObjects /\ made + 1 \in 1 .. made'
      BY <2>4, BoundsAssumption DEF Make, TypeOK
    <3>2. PICK n \in 0 .. MaxObjects - 1 :
              nick' = [o \in DOMAIN nick \cup {made + 1} |->
                          IF o = made + 1 THEN [of |-> Of(kind[t]), n |-> n] ELSE nick[o]]
      BY <2>4 DEF Make
    <3>3. [of |-> Of(kind[t]), n |-> n] \in [of : {"receiver", "device"}, n : 0 .. MaxObjects - 1]
      BY DEF Of
    <3>4. DOMAIN nick' \subseteq 1 .. made'
      BY <3>1, <3>2, <2>4 DEF TypeOK, Make
    <3>5. \A o \in DOMAIN nick' :
             nick'[o] \in [of : {"receiver", "device"}, n : 0 .. MaxObjects - 1]
      BY <3>2, <3>3 DEF TypeOK
    <3> QED
      BY <2>4, <3>1, <3>4, <3>5 DEF Make, TypeOK, JobKnown
  <2>5. CASE MakeFails(t)
    <3>1. job[t] \in Jobs
      BY <2>5 DEF MakeFails, JobKnown
    <3>2. queue' \subseteq Jobs
      BY <2>5, <3>1, RetryJobs DEF MakeFails, TypeOK
    <3>3. UNCHANGED made /\ Destroy({obj[t]}) /\ End(t)
      BY <2>5 DEF MakeFails
    <3> QED
      BY <2>5, <3>2, <3>3, EndType, DestroyType DEF MakeFails, TypeOK
  <2>6. CASE Added(t)
    <3>1. End(t) /\ UNCHANGED made /\ (UNCHANGED nick \/ Destroy({obj[t]}))
      BY <2>6 DEF Added
    <3>2. /\ DOMAIN nick' \subseteq 1 .. made'
          /\ \A o \in DOMAIN nick' :
                nick'[o] \in [of : {"receiver", "device"}, n : 0 .. MaxObjects - 1]
      BY <3>1, DestroyType DEF TypeOK
    <3>3. receivers' \in [Paths -> 0 .. MaxObjects] /\ devices' \in [Paths -> 0 .. MaxObjects]
      BY <2>6 DEF Added, TypeOK
    <3> QED
      BY <2>6, <3>1, <3>2, <3>3, EndType DEF Added, TypeOK
  <2>7. CASE RemoveDevice(t)
    <3>1. job[t] \in Jobs
      BY <2>7 DEF RemoveDevice, JobKnown
    <3>2. End(t) /\ UNCHANGED made /\ \E S : Destroy(S)
      BY <2>7 DEF RemoveDevice
    <3>3. /\ DOMAIN nick' \subseteq 1 .. made'
          /\ \A o \in DOMAIN nick' :
                nick'[o] \in [of : {"receiver", "device"}, n : 0 .. MaxObjects - 1]
      BY <3>2, DestroyType
    <3>4. receivers' \in [Paths -> 0 .. MaxObjects] /\ devices' \in [Paths -> 0 .. MaxObjects]
      <4>1. 0 \in 0 .. MaxObjects
        BY BoundsAssumption
      <4> QED
        BY <2>7, <4>1 DEF RemoveDevice, TypeOK
    <3>5. missed' \subseteq Paths
      BY <2>7, <3>1 DEF RemoveDevice, TypeOK, Jobs
    <3> QED
      BY <2>7, <3>2, <3>3, <3>4, <3>5, EndType DEF RemoveDevice, TypeOK
  <2> QED
    BY <1>7, <2>1, <2>2, <2>3, <2>4, <2>5, <2>6, <2>7 DEF Step
<1> QED
  BY <1>0, <1>1, <1>2, <1>3, <1>5, <1>6, <1>7 DEF Next


-----------------------------------------------------------------------------
(* Nicknames                                                                *)

\* A nickname that is given out is not in use.
LEMMA NicknameIsNew ==
    ASSUME NEW S, NEW n, NewNickname(S, n)
    PROVE  n \notin S
BY DEF NewNickname

\* A step that makes and destroys nothing.
LEMMA NothingMade ==
    ASSUME ObjInit, OnePlace, NicknamesFollowDevices,
           UNCHANGED <<nick, receivers, devices, obj>>,
           \A t \in Threads : pc'[t] = "init" <=> pc[t] = "init"
    PROVE  ObjInit' /\ OnePlace' /\ NicknamesFollowDevices'
BY DEF ObjInit, OnePlace, NicknamesFollowDevices, Mapped, Making

\* The object of a thread is made, with a nickname of its own.
LEMMA MakeNick ==
    ASSUME TypeOK, ObjInit, OnePlace, NicknamesFollowDevices, NEW t \in Threads, Make(t)
    PROVE  ObjInit' /\ OnePlace' /\ NicknamesFollowDevices'
<1> DEFINE new == made + 1
<1>1. /\ new # 0 /\ new \notin DOMAIN nick
      /\ \A p \in Paths : receivers[p] # new /\ devices[p] # new
      /\ \A u \in Threads : obj[u] # new
  <2>1. new # 0 /\ new \notin 1 .. made /\ DOMAIN nick \subseteq 1 .. made
    BY DEF TypeOK
  <2> QED
    BY <2>1 DEF NicknamesFollowDevices, Mapped, Making
<1>2. obj' = [obj EXCEPT ![t] = new] /\ pc' = [pc EXCEPT ![t] = "init"] /\ pc[t] = "make"
      /\ UNCHANGED <<receivers, devices>>
  BY DEF Make
<1>3. ObjInit'
  BY <1>1, <1>2 DEF ObjInit, TypeOK
<1>4. OnePlace'
  BY <1>1, <1>2 DEF OnePlace, TypeOK
<1>5. obj[t] = 0
  BY <1>2 DEF ObjInit
<1>6. PICK n \in 0 .. MaxObjects - 1 :
          /\ NewNickname(Used(Of(kind[t])), n)
          /\ nick' = [o \in DOMAIN nick \cup {new} |->
                         IF o = new THEN [of |-> Of(kind[t]), n |-> n] ELSE nick[o]]
  BY DEF Make
<1>7. \A o \in DOMAIN nick : nick[o] # [of |-> Of(kind[t]), n |-> n]
  BY <1>6, NicknameIsNew DEF Used
<1>8. \A o, p \in DOMAIN nick' : nick'[o] = nick'[p] => o = p
  BY <1>1, <1>6, <1>7 DEF NicknamesFollowDevices
<1>9. Making' = Making \cup {new} /\ Mapped' = Mapped
  BY <1>1, <1>2, <1>5 DEF Making, Mapped, TypeOK
<1>10. DOMAIN nick' = DOMAIN nick \cup {new}
  BY <1>6
<1> QED
  BY <1>3, <1>4, <1>8, <1>9, <1>10 DEF NicknamesFollowDevices

\* The job of a thread ends and its object, if it has one, dies.
LEMMA DropNick ==
    ASSUME TypeOK, ObjInit, OnePlace, NicknamesFollowDevices, NEW t \in Threads,
           End(t), Destroy({obj[t]}), UNCHANGED <<receivers, devices>>
    PROVE  ObjInit' /\ OnePlace' /\ NicknamesFollowDevices'
<1>1. obj' = [obj EXCEPT ![t] = 0] /\ pc' = [pc EXCEPT ![t] = "idle"]
  BY DEF End
<1>2. ObjInit' /\ OnePlace'
  BY <1>1 DEF ObjInit, OnePlace, TypeOK
<1>3. DOMAIN nick' = DOMAIN nick \ {obj[t]} /\ \A o \in DOMAIN nick' : nick'[o] = nick[o]
  BY DEF Destroy
<1>4. Making' = Making \ {obj[t]}
  BY <1>1 DEF Making, TypeOK, OnePlace
<1>5. Mapped' = Mapped \ {obj[t]}
  BY DEF Mapped, OnePlace
<1> QED
  BY <1>2, <1>3, <1>4, <1>5 DEF NicknamesFollowDevices

\* The object of a thread moves into a map.
LEMMA AddNick ==
    ASSUME TypeOK, ObjInit, OnePlace, NicknamesFollowDevices, JobKnown, NEW t \in Threads, Added(t)
    PROVE  ObjInit' /\ OnePlace' /\ NicknamesFollowDevices'
<1> DEFINE p == job[t].path
<1>1. End(t) /\ p \in Paths /\ obj[t] # 0
  BY DEF Added, JobKnown, Jobs, ObjInit
<1>2. CASE Destroy({obj[t]}) /\ UNCHANGED <<receivers, devices>>
  BY <1>1, <1>2, DropNick
<1>3. obj' = [obj EXCEPT ![t] = 0] /\ pc' = [pc EXCEPT ![t] = "idle"]
  BY <1>1 DEF End
<1>4. ObjInit'
  BY <1>3 DEF ObjInit, TypeOK
<1>5. Making' = Making \ {obj[t]}
  BY <1>3 DEF Making, TypeOK, OnePlace
<1>6. ASSUME UNCHANGED nick, receivers[p] = 0, receivers' = [receivers EXCEPT ![p] = obj[t]], UNCHANGED devices
      PROVE  OnePlace' /\ NicknamesFollowDevices'
  <2>1. OnePlace'
    BY <1>1, <1>3, <1>6 DEF OnePlace, TypeOK
  <2>2. Mapped' = Mapped \cup {obj[t]}
    BY <1>1, <1>6 DEF Mapped, TypeOK
  <2>3. obj[t] \in Making
    BY <1>1 DEF Making
  <2> QED
    BY <1>5, <1>6, <2>1, <2>2, <2>3 DEF NicknamesFollowDevices
<1>7. ASSUME UNCHANGED nick, devices[p] = 0, devices' = [devices EXCEPT ![p] = obj[t]], UNCHANGED receivers
      PROVE  OnePlace' /\ NicknamesFollowDevices'
  <2>1. OnePlace'
    BY <1>1, <1>3, <1>7 DEF OnePlace, TypeOK
  <2>2. Mapped' = Mapped \cup {obj[t]}
    BY <1>1, <1>7 DEF Mapped, TypeOK
  <2>3. obj[t] \in Making
    BY <1>1 DEF Making
  <2> QED
    BY <1>5, <1>7, <2>1, <2>2, <2>3 DEF NicknamesFollowDevices
<1> QED
  BY <1>2, <1>4, <1>6, <1>7 DEF Added

\* A path loses its receiver, or its device.
LEMMA RemoveNick ==
    ASSUME TypeOK, ObjInit, OnePlace, NicknamesFollowDevices, JobKnown, NEW t \in Threads, RemoveDevice(t)
    PROVE  ObjInit' /\ OnePlace' /\ NicknamesFollowDevices'
<1> DEFINE p == job[t].path
<1>1. End(t) /\ p \in Paths /\ obj[t] = 0
  BY DEF RemoveDevice, JobKnown, Jobs, ObjInit
<1>2. obj' = obj /\ pc' = [pc EXCEPT ![t] = "idle"] /\ pc[t] = "run"
  BY <1>1 DEF End, RemoveDevice, TypeOK
<1>3. ObjInit' /\ Making' = Making
  BY <1>2 DEF ObjInit, Making, TypeOK
<1>4. ASSUME receivers[p] # 0, Destroy({receivers[p]}), receivers' = [receivers EXCEPT ![p] = 0], UNCHANGED devices
      PROVE  OnePlace' /\ NicknamesFollowDevices'
  <2>1. OnePlace'
    BY <1>1, <1>2, <1>4 DEF OnePlace, TypeOK
  <2>2. Mapped' = Mapped \ {receivers[p]}
    BY <1>1, <1>4 DEF Mapped, TypeOK, OnePlace
  <2>3. receivers[p] \notin Making
    BY <1>1 DEF Making, OnePlace
  <2>4. DOMAIN nick' = DOMAIN nick \ {receivers[p]} /\ \A o \in DOMAIN nick' : nick'[o] = nick[o]
    BY <1>4 DEF Destroy
  <2> QED
    BY <1>3, <2>1, <2>2, <2>3, <2>4 DEF NicknamesFollowDevices
<1>5. ASSUME receivers[p] = 0, Destroy({devices[p]}), devices' = [devices EXCEPT ![p] = 0], UNCHANGED receivers
      PROVE  OnePlace' /\ NicknamesFollowDevices'
  <2>1. OnePlace'
    BY <1>1, <1>2, <1>5 DEF OnePlace, TypeOK
  <2>2. Mapped' = Mapped \ {devices[p]}
    BY <1>1, <1>5 DEF Mapped, TypeOK, OnePlace
  <2>3. devices[p] \notin Making
    BY <1>1 DEF Making, OnePlace
  <2>4. DOMAIN nick' = DOMAIN nick \ {devices[p]} /\ \A o \in DOMAIN nick' : nick'[o] = nick[o]
    BY <1>5 DEF Destroy
  <2> QED
    BY <1>3, <2>1, <2>2, <2>3, <2>4 DEF NicknamesFollowDevices
<1> QED
  BY <1>3, <1>4, <1>5 DEF RemoveDevice

\* At the start the nodes have no objects.
LEMMA InitNick == Init => NickInv
<1> SUFFICES ASSUME Init PROVE NickInv
  OBVIOUS
<1>1. 0 \in 0 .. MaxObjects /\ 0 \in 0 .. MaxPlugs
  BY BoundsAssumption
<1>2. DOMAIN nick = {}
  BY DEF Init
<1>3. TypeOK
  BY <1>1, <1>2 DEF Init, TypeOK, Kinds
<1>4. Mapped = {} /\ Making = {}
  BY DEF Init, Mapped, Making
<1> QED
  BY <1>2, <1>3, <1>4 DEF Init, NickInv, JobKnown, ObjInit, OnePlace, NicknamesFollowDevices

\* Every step keeps objects and nicknames in order.
LEMMA NextNick ==
    ASSUME NickInv, [Next]_vars
    PROVE  NickInv'
<1>0. TypeOK /\ JobKnown /\ ObjInit /\ OnePlace /\ NicknamesFollowDevices
  BY DEF NickInv
<1>1. TypeOK' /\ JobKnown'
  BY <1>0, NextType
<1> DEFINE Same == /\ UNCHANGED <<nick, receivers, devices, obj>>
                   /\ \A t \in Threads : pc'[t] = "init" <=> pc[t] = "init"
           Kept == ObjInit' /\ OnePlace' /\ NicknamesFollowDevices'
<1>2. CASE UNCHANGED vars
  <2>1. Same
    BY <1>2 DEF vars
  <2> QED
    BY <1>0, <1>1, <2>1, NothingMade DEF NickInv
<1>3. CASE (\E p \in Paths : Plug(p) \/ Unplug(p)) \/ Enumerate
  <2>1. Same
    BY <1>3 DEF Plug, Unplug, Enumerate, objects
  <2> QED
    BY <1>0, <1>1, <2>1, NothingMade DEF NickInv
<1>4. CASE (\E w \in Workers : StartTask(w)) \/ StartScan
  <2>1. PICK t \in Threads : \E j : Start(t, j)
    BY <1>4 DEF StartTask, StartScan, Threads
  <2>2. Same
    BY <1>0, <2>1 DEF Start, objects, TypeOK
  <2> QED
    BY <1>0, <1>1, <2>2, NothingMade DEF NickInv
<1>5. ASSUME NEW t \in Threads, Step(t) PROVE NickInv'
  <2>1. CASE Skip(t) \/ NotReady(t)
    <3>1. pc[t] = "run" /\ End(t) /\ UNCHANGED <<nick, receivers, devices>>
      BY <2>1 DEF Skip, NotReady, Adding, objects
    <3>2. Same
      BY <1>0, <3>1 DEF End, ObjInit, TypeOK
    <3> QED
      BY <1>0, <1>1, <3>2, NothingMade DEF NickInv
  <2>2. CASE Probe(t)
    <3>1. Same
      BY <1>0, <2>2 DEF Probe, Adding, objects, TypeOK
    <3> QED
      BY <1>0, <1>1, <3>1, NothingMade DEF NickInv
  <2>3. CASE Make(t)
    BY <1>0, <1>1, <2>3, MakeNick DEF NickInv
  <2>4. CASE MakeFails(t)
    <3>1. End(t) /\ Destroy({obj[t]}) /\ UNCHANGED <<receivers, devices>>
      BY <2>4 DEF MakeFails
    <3> QED
      BY <1>0, <1>1, <3>1, DropNick DEF NickInv
  <2>5. CASE Added(t)
    BY <1>0, <1>1, <2>5, AddNick DEF NickInv
  <2>6. CASE RemoveDevice(t)
    BY <1>0, <1>1, <2>6, RemoveNick DEF NickInv
  <2> QED
    BY <1>5, <2>1, <2>2, <2>3, <2>4, <2>5, <2>6 DEF Step
<1> QED
  BY <1>2, <1>3, <1>4, <1>5 DEF Next

\* Two living devices, or receivers, never share a nickname, and the nicknames
\* in use are those of the objects that live: they are given back by every way
\* an add may end and by every removal.
THEOREM Nicknames == Spec => []NicknamesFollowDevices
<1>1. NickInv /\ [Next]_vars => NickInv'
  BY NextNick
<1>2. NickInv => NicknamesFollowDevices
  BY DEF NickInv
<1> QED
  BY InitNick, <1>1, <1>2, PTL DEF Spec

-----------------------------------------------------------------------------
(* Ghosts                                                                   *)

\* Every step keeps a pending removal for what is listed of a node that is gone.
LEMMA NextAttended ==
    ASSUME TypeOK, JobKnown, Attended, [Next]_vars
    PROVE  Attended'
<1> SUFFICES ASSUME NEW p \in Paths, p \notin missed', p \notin Nodes', Listed(p)' \/ Busy(p)'
             PROVE  Removing(p)'
  BY DEF Attended
<1>0. CASE UNCHANGED vars
  BY <1>0 DEF vars, Attended, Nodes, Listed, Busy, Removing
<1>1. ASSUME NEW q \in Paths, Plug(q) PROVE Removing(p)'
  <2>1. p \notin Nodes
    BY <1>1, NoneAssumption DEF Plug, Nodes, TypeOK
  <2> QED
    BY <1>1, <2>1 DEF Plug, Attended, Listed, Busy, Removing, objects
<1>2. ASSUME NEW q \in Paths, Unplug(q) PROVE Removing(p)'
  <2>1. CASE p = q
    <3> DEFINE j == [kind |-> "remove", path |-> q, tries |-> 0, id |-> plugs]
    <3>1. j \in queue' /\ j.kind = "remove" /\ j.path = q
      BY <1>2 DEF Unplug
    <3> QED
      BY <2>1, <3>1 DEF Removing
  <2>2. CASE p # q
    <3>1. p \notin Nodes
      BY <1>2, <2>2 DEF Unplug, Nodes, TypeOK
    <3> QED
      BY <1>2, <3>1 DEF Unplug, Attended, Listed, Busy, Removing, objects
  <2> QED
    BY <2>1, <2>2
<1>3. CASE Enumerate
  BY <1>3 DEF Enumerate, Attended, Nodes, Listed, Busy, Removing, objects
<1>4. CASE \E w \in Workers : StartTask(w)
  <2>1. PICK w \in Workers, j \in queue : Start(w, j) /\ queue' = queue \ {j}
    BY <1>4 DEF StartTask
  <2>2. w \in Threads /\ pc[w] = "idle"
    BY <2>1 DEF Threads, Start
  <2>3. job' = [job EXCEPT ![w] = j] /\ pc' = [pc EXCEPT ![w] = "run"]
        /\ UNCHANGED <<plugged, receivers, devices, missed>>
    BY <2>1 DEF Start, objects
  <2>4. Busy(p)' => Busy(p)
    BY <2>2, <2>3 DEF Busy, TypeOK
  <2>5. Removing(p)
    BY <2>3, <2>4 DEF Attended, Nodes, Listed
  <2> QED
    BY <2>1, <2>2, <2>3, <2>5 DEF Removing, TypeOK
<1>5. CASE StartScan
  <2>1. PICK j : Start(Main, j) /\ UNCHANGED queue
    BY <1>5 DEF StartScan
  <2>2. Main \in Threads /\ pc[Main] = "idle"
    BY <2>1 DEF Threads, Start
  <2>3. job' = [job EXCEPT ![Main] = j] /\ pc' = [pc EXCEPT ![Main] = "run"]
        /\ UNCHANGED <<plugged, receivers, devices, missed>>
    BY <2>1 DEF Start, objects
  <2>4. Busy(p)' => Busy(p)
    BY <2>2, <2>3 DEF Busy, TypeOK
  <2>5. Removing(p)
    BY <2>3, <2>4 DEF Attended, Nodes, Listed
  <2> QED
    BY <2>1, <2>2, <2>3, <2>5 DEF Removing, TypeOK
<1>6. ASSUME NEW t \in Threads, Step(t) PROVE Removing(p)'
  <2>1. ASSUME \/ pc[t] \in {"make", "init"}
               \/ pc[t] = "run" /\ job[t].kind = "add",
               queue \subseteq queue', UNCHANGED <<plugged, missed>>,
               \A u \in Threads \ {t} : job'[u] = job[u] /\ pc'[u] = pc[u],
               Listed(p) \/ Busy(p)
        PROVE  Removing(p)'
    BY <2>1 DEF Attended, Nodes, Removing
  <2>2. CASE Skip(t) \/ NotReady(t)
    <3>1. End(t) /\ queue \subseteq queue' /\ UNCHANGED <<plugged, missed, receivers, devices>>
      BY <2>2 DEF Skip, NotReady, Retry, objects
    <3>2. \A u \in Threads \ {t} : job'[u] = job[u] /\ pc'[u] = pc[u]
      BY <3>1 DEF End, TypeOK
    <3>3. Busy(p)' => Busy(p)
      BY <3>1 DEF End, TypeOK, Busy
    <3> QED
      BY <2>1, <2>2, <3>1, <3>2, <3>3 DEF Skip, NotReady, Adding, Listed
  <2>3. CASE Probe(t)
    <3>1. job[t].path # p
      BY <2>3 DEF Probe, Nodes
    <3>2. Busy(p)' => Busy(p)
      BY <2>3, <3>1 DEF Probe, TypeOK, Busy
    <3> QED
      BY <2>1, <2>3, <3>2 DEF Probe, Adding, Listed, objects, TypeOK
  <2>4. CASE Make(t)
    <3>1. Busy(p)' => Busy(p)
      BY <2>4 DEF Make, TypeOK, Busy
    <3> QED
      BY <2>1, <2>4, <3>1 DEF Make, Listed, TypeOK
  <2>5. CASE MakeFails(t)
    <3>1. Busy(p)' => Busy(p)
      BY <2>5 DEF MakeFails, End, TypeOK, Busy
    <3>2. queue \subseteq queue'
      BY <2>5 DEF MakeFails, Retry
    <3> QED
      BY <2>1, <2>5, <3>1, <3>2 DEF MakeFails, End, Listed, TypeOK
  <2>6. CASE Added(t)
    <3>1. Busy(p)' => Busy(p)
      BY <2>6 DEF Added, End, TypeOK, Busy
    <3>2. Listed(p)' => Listed(p) \/ Busy(p)
      BY <2>6 DEF Added, Listed, Busy, TypeOK
    <3> QED
      BY <2>1, <2>6, <3>1, <3>2 DEF Added, End, TypeOK
  <2>7. CASE RemoveDevice(t)
    <3>1. End(t) /\ UNCHANGED <<plugged, queue>> /\ p \notin missed
      BY <2>7 DEF RemoveDevice
    <3>2. Busy(p)' => Busy(p)
      BY <3>1 DEF End, TypeOK, Busy
    <3>3. CASE job[t].path = p
      <4>1. ~Busy(p) /\ ~(receivers[p] # 0 /\ devices[p] # 0)
        BY <2>7, <3>3 DEF RemoveDevice, Busy
      <4>2. ~Listed(p)'
        BY <2>7, <3>3, <4>1 DEF RemoveDevice, Listed, TypeOK
      <4> QED
        BY <3>2, <4>1, <4>2
    <3>4. CASE job[t].path # p
      <4>1. Listed(p)' => Listed(p)
        BY <2>7, <3>4 DEF RemoveDevice, Listed, TypeOK
      <4>2. Removing(p)
        BY <3>1, <3>2, <4>1 DEF Attended, Nodes
      <4> QED
        BY <3>1, <3>4, <4>2 DEF Removing, End, TypeOK
    <3> QED
      BY <3>3, <3>4
  <2> QED
    BY <1>6, <2>2, <2>3, <2>4, <2>5, <2>6, <2>7 DEF Step
<1> QED
  BY <1>0, <1>1, <1>2, <1>3, <1>4, <1>5, <1>6 DEF Next

\* When all tasks are done, a node that is gone is listed only if a remove task
\* of its path missed an object: one that was still being made, or a device
\* behind a receiver.
THEOREM Ghosts == Spec => []GhostOnlyIfMissed
<1>1. Init => Attended
  BY DEF Init, Attended, Listed, Busy
<1>2. NickInv /\ Attended /\ [Next]_vars => Attended'
  BY NextAttended DEF NickInv
<1>3. NickInv /\ [Next]_vars => NickInv'
  BY NextNick
<1>4. Attended => GhostOnlyIfMissed
  BY DEF Attended, GhostOnlyIfMissed, Quiet, Removing
<1> QED
  BY InitNick, <1>1, <1>2, <1>3, <1>4, PTL DEF Spec

-----------------------------------------------------------------------------
(* The client                                                              *)

\* Calls that change settings of the daemon and that the flag knows of. A
\* clear is not one: its reply sets the flag.
IsChange(c) == c.op \in {"set", "profile"}

\* Replies that clear the flag, and that set it.
Saved(m)   == m.call.op = "save" /\ m.ok
Cleared(m) == m.call.op = "clear" /\ m.ok

\* Calls and replies are in order.
InOrder == (\E S : ctlCalls \in Seq(S)) /\ (\E S : ctlMail \in Seq(S))

\* While a save is pending there is one, as a call or as a reply.
OneSave ==
    /\ \A m, n \in DOMAIN ctlCalls : ctlCalls[m].op = "save" /\ ctlCalls[n].op = "save" => m = n
    /\ \A m, n \in DOMAIN ctlMail :
          ctlMail[m].call.op = "save" /\ ctlMail[n].call.op = "save" => m = n
    /\ \A m \in DOMAIN ctlCalls, n \in DOMAIN ctlMail :
          ~(ctlCalls[m].op = "save" /\ ctlMail[n].call.op = "save")
    /\ ~saving => /\ \A m \in DOMAIN ctlCalls : ctlCalls[m].op # "save"
                  /\ \A n \in DOMAIN ctlMail : ctlMail[n].call.op # "save"

\* A pending save comes after every change, and a change that the daemon has
\* not taken is an unsaved one.
ChangesFirst ==
    /\ \A m, n \in DOMAIN ctlCalls : ctlCalls[m].op = "save" /\ IsChange(ctlCalls[n]) => n < m
    /\ \A m \in DOMAIN ctlMail, n \in DOMAIN ctlCalls :
          ctlMail[m].call.op = "save" => ~IsChange(ctlCalls[n])
    /\ ~dirty => \A n \in DOMAIN ctlCalls : ~IsChange(ctlCalls[n])

\* If the disk differs, and not by a clear that failed, the flag says so and
\* stays set, or a reply on its way sets it and none behind that one clears it.
DiskBehind ==
    disk # live /\ ~emptied =>
        \/ dirty /\ \A n \in DOMAIN ctlMail : ~Saved(ctlMail[n])
        \/ \E n \in DOMAIN ctlMail :
              /\ Cleared(ctlMail[n])
              /\ \A m \in DOMAIN ctlMail : m > n => ~Saved(ctlMail[m])

\* The inductive invariant. What it says of changes and of the disk only holds
\* unless the last change overlapped a save: a change that does not finds no
\* save pending, and sets the flag for all that came before it too.
CleanInv == InOrder /\ OneSave /\ (overlap \/ (ChangesFirst /\ DiskBehind))

-----------------------------------------------------------------------------
(* The elements of a sequence after it grows and after it shrinks           *)

\* A sequence that follows another.
LEMMA Grown ==
    ASSUME NEW S, NEW s \in Seq(S), NEW T, NEW t \in Seq(T)
    PROVE  /\ \E U : s \o t \in Seq(U)
           /\ DOMAIN s = 1 .. Len(s) /\ Len(s) \in Nat
           /\ DOMAIN (s \o t) = 1 .. (Len(s) + Len(t))
           /\ \A n \in DOMAIN (s \o t) : n \notin DOMAIN s => n - Len(s) \in DOMAIN t
           /\ \A n \in DOMAIN (s \o t) :
                 (s \o t)[n] = IF n \in DOMAIN s THEN s[n] ELSE t[n - Len(s)]
  <1>1. s \in Seq(S \cup T) /\ t \in Seq(S \cup T)
    OBVIOUS
  <1> QED
    BY <1>1

\* An element that is appended.
LEMMA GrownByOne ==
    ASSUME NEW S, NEW s \in Seq(S), NEW elem, NEW r, r = Append(s, elem)
    PROVE  /\ r = s \o <<elem>>
           /\ \E U : r \in Seq(U)
           /\ DOMAIN s = 1 .. Len(s) /\ Len(s) \in Nat
           /\ DOMAIN r = 1 .. (Len(s) + 1)
           /\ \A n \in DOMAIN r : r[n] = IF n \in DOMAIN s THEN s[n] ELSE elem
  <1>1. s \in Seq(S \cup {elem}) /\ elem \in S \cup {elem}
    OBVIOUS
  <1> QED
    BY <1>1

\* A first element that is taken.
LEMMA Shrunk ==
    ASSUME NEW S, NEW s \in Seq(S), s # << >>
    PROVE  /\ Tail(s) \in Seq(S)
           /\ DOMAIN s = 1 .. Len(s) /\ Len(s) \in Nat \ {0} /\ Head(s) = s[1]
           /\ DOMAIN Tail(s) = 1 .. (Len(s) - 1)
           /\ \A n \in DOMAIN Tail(s) : Tail(s)[n] = s[n + 1]
  OBVIOUS

\* Append keeps the entries and adds one.
LEMMA Appended ==
    ASSUME NEW S, NEW s \in Seq(S), NEW m, NEW t, t = Append(s, m)
    PROVE  /\ Len(s) \in Nat /\ DOMAIN s = 1 .. Len(s) /\ DOMAIN t = 1 .. Len(s) + 1 /\ Len(t) = Len(s) + 1
           /\ \A i \in 1 .. Len(s) : t[i] = s[i]
           /\ t[Len(s) + 1] = m
           /\ m \in S => t \in Seq(S)
OBVIOUS

\* Tail takes the first entry.
LEMMA Taken ==
    ASSUME NEW S, NEW s \in Seq(S), s # << >>, NEW t, t = Tail(s)
    PROVE  /\ Len(s) \in Nat \ {0} /\ DOMAIN s = 1 .. Len(s) /\ DOMAIN t = 1 .. Len(s) - 1 /\ Len(t) = Len(s) - 1
           /\ \A i \in 1 .. Len(s) - 1 : t[i] = s[i + 1]
           /\ Head(s) = s[1] /\ s[1] \in S
           /\ t \in Seq(S)
OBVIOUS

\* Concatenation keeps the entries of both.
LEMMA Joined ==
    ASSUME NEW S, NEW s \in Seq(S), NEW u \in Seq(S), NEW t, t = s \o u
    PROVE  /\ Len(s) \in Nat /\ Len(u) \in Nat /\ DOMAIN s = 1 .. Len(s) /\ DOMAIN u = 1 .. Len(u)
           /\ DOMAIN t = 1 .. Len(s) + Len(u) /\ Len(t) = Len(s) + Len(u)
           /\ \A i \in 1 .. Len(s) : t[i] = s[i]
           /\ \A i \in 1 .. Len(u) : t[Len(s) + i] = u[i]
           /\ t \in Seq(S)
OBVIOUS

\* What SetToSeq lists is the set.
LEMMA Listing ==
    ASSUME NEW S, IsFiniteSet(S), NEW t, t = SetToSeq(S)
    PROVE  t \in Seq(S) /\ ToSet(t) = S /\ \A i, j \in DOMAIN t : i # j => t[i] # t[j]
  <1> DEFINE k == Cardinality(S)
  <1>1. k \in Nat /\ ExistsBijection(1 .. k, S)
    BY FS_CardinalityType
  <1>2. \E f \in [1 .. k -> S] : IsInjective(f)
    BY <1>1 DEF ExistsBijection, Bijection, Injection, IsInjective
  <1>3. t \in [1 .. k -> S] /\ IsInjective(t)
    BY <1>2 DEF SetToSeq
  <1>4. t \in Injection(1 .. k, S)
    BY <1>3 DEF Injection, IsInjective
  <1>5. Cardinality(1 .. k) = k /\ IsFiniteSet(1 .. k)
    BY <1>1, FS_Interval
  <1>6. t \in Surjection(1 .. k, S)
    BY <1>4, <1>5, FS_Injection
  <1> QED
    BY <1>1, <1>3, <1>6 DEF Surjection, ToSet, IsInjective

-----------------------------------------------------------------------------

\* There is no call yet.
LEMMA CleanInitially == ControllerInit => CleanInv
  <1> SUFFICES ASSUME ControllerInit PROVE CleanInv
    OBVIOUS
  <1>1. /\ ctlCalls = <<[op |-> "introspect", x |-> 0, by |-> 1]>> /\ ctlMail = << >>
        /\ disk = live
    BY DEF ControllerInit
  <1>2. InOrder
    <2>1. ctlCalls \in Seq({[op |-> "introspect", x |-> 0, by |-> 1]}) /\ ctlMail \in Seq({})
      BY <1>1
    <2> QED
      BY <2>1 DEF InOrder
  <1> QED
    BY <1>1, <1>2 DEF CleanInv, OneSave, ChangesFirst, DiskBehind, IsChange

\* Calls are added that are no saves; a change among them sets the flag, and is
\* an overlap if a save is pending.
LEMMA CallsAdded ==
    ASSUME CleanInv, NEW T, NEW cs \in Seq(T),
           ctlCalls' = ctlCalls \o cs,
           UNCHANGED <<ctlMail, live, disk, saving, emptied>>,
           \A n \in DOMAIN cs : cs[n].op # "save",
           \/ dirty' /\ overlap' = saving
           \/ UNCHANGED <<dirty, overlap>> /\ \A n \in DOMAIN cs : ~IsChange(cs[n])
    PROVE  CleanInv'
  <1>1. PICK S : ctlCalls \in Seq(S)
    BY DEF CleanInv, InOrder
  <1>2. /\ DOMAIN ctlCalls = 1 .. Len(ctlCalls) /\ Len(ctlCalls) \in Nat
        /\ \E U : ctlCalls' \in Seq(U)
        /\ \A n \in DOMAIN ctlCalls' : n \notin DOMAIN ctlCalls => n - Len(ctlCalls) \in DOMAIN cs
        /\ \A n \in DOMAIN ctlCalls' :
              ctlCalls'[n] = IF n \in DOMAIN ctlCalls THEN ctlCalls[n] ELSE cs[n - Len(ctlCalls)]
        /\ DOMAIN ctlCalls' = 1 .. (Len(ctlCalls) + Len(cs)) 
    BY <1>1, Grown
  <1>3. InOrder'
    BY <1>2 DEF CleanInv, InOrder
  <1>4. OneSave'
    BY <1>2 DEF CleanInv, OneSave
  <1>5. ASSUME ~overlap' PROVE ChangesFirst' /\ DiskBehind'
    <2>1. CASE dirty' /\ ~saving
      <3>1. /\ \A m \in DOMAIN ctlCalls' : ctlCalls'[m].op # "save"
            /\ \A n \in DOMAIN ctlMail' : ctlMail'[n].call.op # "save"
        BY <1>4, <2>1 DEF OneSave
      <3> QED
        BY <2>1, <3>1 DEF ChangesFirst, DiskBehind, Saved
    <2>2. CASE UNCHANGED <<dirty, overlap>> /\ \A n \in DOMAIN cs : ~IsChange(cs[n])
      <3>1. ChangesFirst /\ DiskBehind
        BY <1>5, <2>2 DEF CleanInv
      <3>2. \A n \in DOMAIN ctlCalls' :
                IsChange(ctlCalls'[n]) => n \in DOMAIN ctlCalls /\ ctlCalls'[n] = ctlCalls[n]
        BY <1>2, <2>2
      <3>3. \A n \in DOMAIN ctlCalls' :
                ctlCalls'[n].op = "save" => n \in DOMAIN ctlCalls /\ ctlCalls'[n] = ctlCalls[n]
        BY <1>2
      <3>4. ChangesFirst'
        BY <2>2, <3>1, <3>2, <3>3 DEF ChangesFirst
      <3>5. DiskBehind'
        BY <2>2, <3>1 DEF DiskBehind, Saved, Cleared
      <3> QED
        BY <3>4, <3>5
    <2> QED
      BY <1>5, <2>1, <2>2
  <1> QED
    BY <1>3, <1>4, <1>5 DEF CleanInv
\* The user's inputs. Only save adds a save, and only when none is pending.
LEMMA InputStep ==
    ASSUME CleanInv,
           \/ \E v \in Dpis : setDpi(v) \/ addPreset(v)
           \/ \E v \in BOOLEAN : setToggle(v) \/ selectDevice(v)
           \/ removePreset \/ save \/ restoreDefaults \/ profileSwitched
    PROVE  CleanInv'
  <1>0. ASSUME NEW elem, elem.op \notin {"save", "set", "profile"}, ctlCalls' = ctlCalls \o <<elem>>,
               UNCHANGED <<ctlMail, live, disk, emptied, saving, dirty, overlap>>
        PROVE  CleanInv'
    <2>1. <<elem>> \in Seq({elem}) /\ DOMAIN <<elem>> = {1} /\ <<elem>>[1] = elem
      OBVIOUS
    <2>2. \A n \in DOMAIN <<elem>> : <<elem>>[n].op # "save" /\ ~IsChange(<<elem>>[n])
      BY <1>0, <2>1 DEF IsChange
    <2> QED
      BY <1>0, <2>1, <2>2, CallsAdded
  <1>1. ASSUME NEW f, NEW v, NEW cs, Edited(f, v, cs),
               cs = <<Write(f, v)>> \/ cs = <<Write(f, v), CtlCall("get", f)>>
        PROVE  CleanInv'
    <2>1. cs \in Seq({Write(f, v), CtlCall("get", f)})
      <3>1. \A a, b : <<a>> \in Seq({a, b}) /\ <<a, b>> \in Seq({a, b})
        OBVIOUS
      <3> QED
        BY <1>1, <3>1
    <2>2. \A n \in DOMAIN cs : cs[n].op # "save"
      BY <1>1 DEF Write, CtlCall
    <2>3. /\ ctlCalls' = ctlCalls \o cs /\ UNCHANGED <<ctlMail, live, disk, saving, emptied>>
          /\ dirty' /\ overlap' = saving
      BY <1>1 DEF Edited, OneMore, markDirty, daemonParts
    <2> QED
      BY <2>1, <2>2, <2>3, CallsAdded
  <1>2. ASSUME NEW v, setDpi(v) PROVE CleanInv'
    BY <1>1, <1>2 DEF setDpi
  <1>3. ASSUME NEW v, setToggle(v) PROVE CleanInv'
    BY <1>1, <1>3 DEF setToggle
  <1>4. ASSUME NEW l, syncPresets(l) PROVE CleanInv'
    BY <1>1, <1>4 DEF syncPresets
  <1>5. ASSUME NEW v \in BOOLEAN, selectDevice(v) PROVE CleanInv'
    <2>1. CASE v
      <3>1. ctlCalls' = Append(ctlCalls, [op |-> "introspect", x |-> 0, by |-> session'])
        BY <1>5, <2>1 DEF selectDevice
      <3>2. ctlCalls' = ctlCalls \o <<[op |-> "introspect", x |-> 0, by |-> session']>>
        BY <3>1, GrownByOne DEF CleanInv, InOrder
      <3>3. UNCHANGED <<ctlMail, live, disk, emptied, saving, dirty, overlap>>
        BY <1>5 DEF selectDevice, OneMore, daemonParts
      <3> QED
        BY <1>0, <3>2, <3>3
    <2>2. CASE ~v
      <3>1. ctlCalls' = ctlCalls /\ UNCHANGED <<ctlMail, live, disk, emptied, saving, dirty, overlap>>
        BY <1>5, <2>2 DEF selectDevice, OneMore, daemonParts
      <3> QED
        BY <3>1 DEF CleanInv, InOrder, OneSave, ChangesFirst, DiskBehind
    <2> QED
      BY <2>1, <2>2
  <1>6. CASE save
    <2>1. /\ ~saving /\ saving' /\ ctlCalls' = Append(ctlCalls, CtlCall("save", 0))
          /\ UNCHANGED <<ctlMail, live, disk, emptied, dirty, overlap>>
          /\ CtlCall("save", 0).op = "save"
      BY <1>6 DEF save, OneMore, CtlCall, daemonParts
    <2>2. PICK S : ctlCalls \in Seq(S)
      BY DEF CleanInv, InOrder
    <2>0. InOrder'
      BY <2>1, <2>2, GrownByOne DEF CleanInv, InOrder
    <2>3. /\ DOMAIN ctlCalls = 1 .. Len(ctlCalls) /\ Len(ctlCalls) \in Nat
          /\ DOMAIN ctlCalls' = 1 .. (Len(ctlCalls) + 1)
      BY <2>1, <2>2, GrownByOne
    <2>n. \A n \in DOMAIN ctlCalls' :
              ctlCalls'[n] = IF n \in DOMAIN ctlCalls THEN ctlCalls[n] ELSE CtlCall("save", 0)
      BY <2>1, <2>2, GrownByOne
    <2>4. OneSave'
      BY <2>1, <2>3, <2>n DEF CleanInv, OneSave
    <2>5. ChangesFirst => ChangesFirst'
      BY <2>1, <2>3, <2>n DEF CleanInv, OneSave, ChangesFirst, IsChange
    <2>6. DiskBehind => DiskBehind'
      BY <2>1 DEF DiskBehind, Saved, Cleared
    <2> QED
      BY <2>0, <2>1, <2>4, <2>5, <2>6 DEF CleanInv
  <1>7. CASE restoreDefaults
    <2>1. ctlCalls' = ctlCalls \o <<CtlCall("clear", 0)>>
      BY <1>7, GrownByOne DEF restoreDefaults, CleanInv, InOrder
    <2>2. UNCHANGED <<ctlMail, live, disk, emptied, saving, dirty, overlap>>
      BY <1>7 DEF restoreDefaults, OneMore, daemonParts
    <2>3. CtlCall("clear", 0).op = "clear"
      BY DEF CtlCall
    <2> QED
      BY <1>0, <2>1, <2>2, <2>3
  <1>8. CASE profileSwitched
    <2>1. ctlCalls' = ctlCalls \o <<CtlCall("profile", 0)>>
      BY <1>8, GrownByOne DEF profileSwitched, CleanInv, InOrder
    <2>2. /\ UNCHANGED <<ctlMail, live, disk, saving, emptied>>
          /\ dirty' /\ overlap' = saving
      BY <1>8 DEF profileSwitched, markDirty, OneMore, daemonParts
    <2>3. CtlCall("profile", 0).op = "profile"
      BY DEF CtlCall
    <2> DEFINE p == CtlCall("profile", 0)
    <2>4. <<p>> \in Seq({p}) /\ DOMAIN <<p>> = {1} /\ <<p>>[1] = p
      OBVIOUS
    <2>5. \A n \in DOMAIN <<p>> : <<p>>[n].op # "save"
      BY <2>3, <2>4
    <2> HIDE DEF p
    <2> QED
      BY <2>1, <2>2, <2>4, <2>5, CallsAdded DEF p
  <1> QED
    BY <1>2, <1>3, <1>4, <1>5, <1>6, <1>7, <1>8 DEF addPreset, removePreset

\* The daemon takes a call. A change finds the flag set and no save's reply on
\* its way; a save makes the disk equal; a clear leaves a reply behind.
LEMMA CallTakenStep ==
    ASSUME CleanInv, ControllerCallTaken
    PROVE  CleanInv'
  <1> DEFINE c == Head(ctlCalls)
  <1>1. /\ ctlCalls # << >> /\ ctlCalls' = Tail(ctlCalls) /\ UNCHANGED <<dirty, saving, overlap>>
        /\ TakeWrite(c) \/ TakeRead(c) \/ TakeSave(c) \/ TakeProfile(c)
    BY DEF ControllerCallTaken
  <1>2. PICK S : ctlCalls \in Seq(S)
    BY DEF CleanInv, InOrder
  <1>3. PICK M : ctlMail \in Seq(M)
    BY DEF CleanInv, InOrder
  <1>4. /\ \E U : ctlCalls' \in Seq(U)
        /\ DOMAIN ctlCalls = 1 .. Len(ctlCalls) /\ Len(ctlCalls) \in Nat \ {0} /\ c = ctlCalls[1]
        /\ DOMAIN ctlCalls' = 1 .. (Len(ctlCalls) - 1)
        /\ \A n \in DOMAIN ctlCalls' : ctlCalls'[n] = ctlCalls[n + 1] /\ n + 1 \in DOMAIN ctlCalls
    BY <1>1, <1>2, Shrunk
  <1>5. ASSUME NEW ok, NEW v, Returned(c, ok, v)
        PROVE  /\ \E U : ctlMail' \in Seq(U)
               /\ DOMAIN ctlMail = 1 .. Len(ctlMail) /\ Len(ctlMail) \in Nat
               /\ DOMAIN ctlMail' = 1 .. (Len(ctlMail) + 1)
               /\ \A n \in DOMAIN ctlMail' :
                     ctlMail'[n] = IF n \in DOMAIN ctlMail THEN ctlMail[n]
                                   ELSE [call |-> c, ok |-> ok, value |-> v]
    <2> DEFINE r == [call |-> c, ok |-> ok, value |-> v]
    <2>0. ctlMail' = Append(ctlMail, r)
      BY <1>5 DEF Returned
    <2>1. \E U : ctlMail' \in Seq(U)
      <3> HIDE DEF r
      <3> QED
        BY <1>3, <2>0, GrownByOne
    <2>2. /\ DOMAIN ctlMail = 1 .. Len(ctlMail) /\ Len(ctlMail) \in Nat
          /\ DOMAIN ctlMail' = 1 .. (Len(ctlMail) + 1)
      BY <1>3, <1>5, GrownByOne DEF Returned
    <2>3. \A n \in DOMAIN ctlMail' :
              ctlMail'[n] = IF n \in DOMAIN ctlMail THEN ctlMail[n]
                            ELSE [call |-> c, ok |-> ok, value |-> v]
      BY <1>3, <1>5, GrownByOne DEF Returned
    <2> QED
      BY <2>1, <2>2, <2>3
  <1>6. CASE TakeWrite(c)
    <2>1. IsChange(c) /\ UNCHANGED <<disk, ctlMail, emptied>>
      BY <1>6 DEF TakeWrite, IsChange
    <2>2. InOrder' /\ OneSave'
      BY <1>1, <1>4, <2>1 DEF CleanInv, InOrder, OneSave
    <2>3. ASSUME ChangesFirst, DiskBehind PROVE ChangesFirst' /\ DiskBehind'
      <3>1. ChangesFirst'
        BY <1>1, <1>4, <2>1, <2>3 DEF ChangesFirst, IsChange
      <3>2. dirty /\ \A n \in DOMAIN ctlMail : ~Saved(ctlMail[n])
        BY <1>4, <2>1, <2>3 DEF ChangesFirst, Saved
      <3> QED
        BY <1>1, <2>1, <3>1, <3>2 DEF DiskBehind, Saved
    <2> QED
      BY <1>1, <2>2, <2>3 DEF CleanInv
  <1>7. ASSUME NEW ok \in BOOLEAN, NEW v, Returned(c, ok, v), ~IsChange(c) \/ c.op = "profile",
               \/ UNCHANGED <<live, disk, emptied>> /\ ~Saved([call |-> c, ok |-> ok, value |-> v])
               \/ c.op = "save" /\ disk' = live /\ live' = live
               \/ c.op = "profile" /\ UNCHANGED disk
               \/ c.op = "clear" /\ UNCHANGED <<disk, emptied>> /\ ok
               \/ c.op = "clear" /\ UNCHANGED disk /\ emptied'
        PROVE  CleanInv'
    <2> DEFINE reply == [call |-> c, ok |-> ok, value |-> v]
    <2>0. /\ DOMAIN ctlMail = 1 .. Len(ctlMail) /\ Len(ctlMail) \in Nat
          /\ DOMAIN ctlMail' = 1 .. (Len(ctlMail) + 1)
          /\ \A n \in DOMAIN ctlMail' : ctlMail'[n] = IF n \in DOMAIN ctlMail THEN ctlMail[n] ELSE reply
      BY <1>5, <1>7
    <2>i. InOrder'
      BY <1>4, <1>5, <1>7 DEF InOrder
    <2>r. reply.call = c /\ reply.ok = ok
      OBVIOUS
    <2> HIDE DEF reply
    <2>1. OneSave'
      <3>1. OneSave
        BY DEF CleanInv
      <3>2. \A m, n \in DOMAIN ctlCalls' : ctlCalls'[m].op = "save" /\ ctlCalls'[n].op = "save" => m = n
        BY <1>4, <3>1 DEF OneSave
      <3>3. \A n \in DOMAIN ctlMail' :
                ctlMail'[n].call.op = "save" =>
                    IF n \in DOMAIN ctlMail THEN ctlMail[n].call.op = "save" ELSE c.op = "save"
        BY <2>0, <2>r
      <3>0. /\ \A m, n \in DOMAIN ctlMail :
                    ctlMail[m].call.op = "save" /\ ctlMail[n].call.op = "save" => m = n
            /\ c.op = "save" => \A n \in DOMAIN ctlMail : ctlMail[n].call.op # "save"
        BY <1>4, <3>1 DEF OneSave
      <3>4. \A m, n \in DOMAIN ctlMail' :
                ctlMail'[m].call.op = "save" /\ ctlMail'[n].call.op = "save" => m = n
        <4>1. \A n \in DOMAIN ctlMail' : n \notin DOMAIN ctlMail => n = Len(ctlMail) + 1
          BY <2>0
        <4> QED
          BY <3>0, <3>3, <4>1
      <3>5. \A m \in DOMAIN ctlCalls', n \in DOMAIN ctlMail' :
                ~(ctlCalls'[m].op = "save" /\ ctlMail'[n].call.op = "save")
        BY <1>4, <2>0, <3>1, <3>3 DEF OneSave
      <3>6. ~saving' => /\ \A m \in DOMAIN ctlCalls' : ctlCalls'[m].op # "save"
                        /\ \A n \in DOMAIN ctlMail' : ctlMail'[n].call.op # "save"
        BY <1>1, <1>4, <3>1, <3>3 DEF OneSave
      <3> QED
        BY <3>2, <3>4, <3>5, <3>6 DEF OneSave
    <2>2. ASSUME ChangesFirst, DiskBehind PROVE ChangesFirst' /\ DiskBehind'
      <3>1. ChangesFirst'
        BY <1>1, <1>4, <2>0, <2>r, <1>7, <2>2 DEF ChangesFirst, IsChange
      <3>2. CASE c.op = "profile"
        <4>1. dirty /\ \A n \in DOMAIN ctlMail : ~Saved(ctlMail[n])
          BY <1>4, <2>2, <3>2 DEF ChangesFirst, Saved, IsChange
        <4> QED
          BY <1>1, <2>0, <2>r, <1>7, <3>1, <3>2, <4>1 DEF DiskBehind, Saved
      <3>3. CASE c.op = "clear" /\ ok /\ UNCHANGED <<disk, emptied>>
        <4>0. /\ Len(ctlMail) + 1 \in DOMAIN ctlMail'
              /\ Len(ctlMail) + 1 \notin DOMAIN ctlMail
          BY <2>0
        <4>1. Len(ctlMail) + 1 \in DOMAIN ctlMail' /\ Cleared(ctlMail'[Len(ctlMail) + 1])
          BY <2>0, <2>r, <3>3, <4>0 DEF Cleared
        <4>2. \A m \in DOMAIN ctlMail' : ~(m > Len(ctlMail) + 1)
          BY <2>0, <2>r, <1>7
        <4> QED
          BY <3>1, <4>1, <4>2 DEF DiskBehind, Saved, Cleared
      <3>4. CASE c.op = "save" /\ disk' = live /\ live' = live
        BY <3>1, <3>4 DEF DiskBehind
      <3>6. CASE emptied'
        BY <3>1, <3>6 DEF DiskBehind
      <3>5. CASE UNCHANGED <<live, disk, emptied>> /\ ~Saved(reply)
        BY <1>1, <1>7, <2>0, <2>r, <2>2, <3>1, <3>5 DEF DiskBehind, Saved, Cleared
      <3> QED
        BY <1>7, <3>2, <3>3, <3>4, <3>5, <3>6 DEF reply
    <2> QED
      BY <1>1, <2>i, <2>1, <2>2 DEF CleanInv
  <1>8. CASE TakeRead(c)
    <2>1. PICK ok \in BOOLEAN, v \in {0} \cup Answers(c.x) : Returned(c, ok, v)
      BY <1>8 DEF TakeRead
    <2>2. /\ c.op \in {"introspect", "get"} /\ UNCHANGED <<live, disk, emptied>>
          /\ ~Saved([call |-> c, ok |-> ok, value |-> v])
      BY <1>8 DEF TakeRead, daemonParts, Saved
    <2> QED
      BY <1>7, <2>1, <2>2 DEF IsChange
  <1>9. CASE TakeSave(c)
    BY <1>7, <1>9 DEF TakeSave, IsChange, Saved
  <1>10. CASE TakeProfile(c)
    BY <1>7, <1>10 DEF TakeProfile, IsChange, Saved
  <1> QED
    BY <1>1, <1>6, <1>8, <1>9, <1>10

\* A reply that sets the flag, and behind which none clears it, moves up.
LEMMA ClearedMovesUp ==
    ASSUME Len(ctlMail) \in Nat, DOMAIN ctlMail = 1 .. Len(ctlMail),
           DOMAIN ctlMail' = 1 .. (Len(ctlMail) - 1),
           \A n \in DOMAIN ctlMail' : ctlMail'[n] = ctlMail[n + 1],
           NEW n \in DOMAIN ctlMail, n # 1, Cleared(ctlMail[n]),
           \A k \in DOMAIN ctlMail : k > n => ~Saved(ctlMail[k])
    PROVE  DiskBehind'
  <1> DEFINE i == n - 1
  <1>1. i \in DOMAIN ctlMail' /\ i + 1 = n
    OBVIOUS
  <1>2. ctlMail'[i] = ctlMail[n]
    BY <1>1
  <1>3. ASSUME NEW k \in DOMAIN ctlMail', k > i PROVE ~Saved(ctlMail'[k])
    <2>1. k + 1 \in DOMAIN ctlMail /\ k + 1 > n
      BY <1>3
    <2>2. ~Saved(ctlMail[k + 1]) /\ ctlMail'[k] = ctlMail[k + 1]
      BY <2>1
    <2> QED
      BY <2>2
  <1> HIDE DEF i
  <1> QED
    BY <1>1, <1>2, <1>3 DEF DiskBehind, Saved, Cleared

\* The GUI handles a reply.
LEMMA RepliedStep ==
    ASSUME CleanInv, ControllerReplied
    PROVE  CleanInv'
  <1> DEFINE m == Head(ctlMail)
  <1>1. /\ ctlMail # << >> /\ ctlMail' = Tail(ctlMail) /\ UNCHANGED <<live, disk, emptied, session, overlap>>
        /\ \/ m.call.op = "introspect" /\ applyIntrospection(m.ok)
           \/ m.call.op = "get" /\ seed(m.call.x, m.ok, m.value)
           \/ m.call.op \in {"introspect", "get"} /\ Ignored
           \/ m.call.op = "save" /\ onSaveReplied(m.ok)
           \/ m.call.op = "clear" /\ onClearReplied(m.ok)
           \/ m.call.op = "profile" /\ Ignored
    BY DEF ControllerReplied, daemonParts
  <1>2. PICK M : ctlMail \in Seq(M)
    BY DEF CleanInv, InOrder
  <1>3. /\ \E U : ctlMail' \in Seq(U)
        /\ DOMAIN ctlMail = 1 .. Len(ctlMail) /\ Len(ctlMail) \in Nat \ {0} /\ m = ctlMail[1]
        /\ DOMAIN ctlMail' = 1 .. (Len(ctlMail) - 1)
        /\ \A n \in DOMAIN ctlMail' : ctlMail'[n] = ctlMail[n + 1] /\ n + 1 \in DOMAIN ctlMail
    BY <1>1, <1>2, Shrunk
  <1>4. ASSUME UNCHANGED <<saving, dirty>>, m.call.op \notin {"save", "clear"},
               \E U : ctlCalls' \in Seq(U),
               \A n \in DOMAIN ctlCalls' : \/ n \in DOMAIN ctlCalls /\ ctlCalls'[n] = ctlCalls[n]
                                          \/ ctlCalls'[n].op = "get"
        PROVE  CleanInv'
    <2>1. InOrder' /\ OneSave'
      <3>1. InOrder'
        BY <1>3, <1>4 DEF InOrder
      <3>2. \A n \in DOMAIN ctlCalls' :
               ctlCalls'[n].op = "save" => n \in DOMAIN ctlCalls /\ ctlCalls[n].op = "save"
        BY <1>4
      <3>3. OneSave
        BY DEF CleanInv
      <3>4. \A k, n \in DOMAIN ctlCalls' :
               ctlCalls'[k].op = "save" /\ ctlCalls'[n].op = "save" => k = n
        BY <3>2, <3>3 DEF OneSave
      <3>5. \A k, n \in DOMAIN ctlMail' :
               ctlMail'[k].call.op = "save" /\ ctlMail'[n].call.op = "save" => k = n
        BY <1>3, <3>3 DEF OneSave
      <3>6. \A k \in DOMAIN ctlCalls', n \in DOMAIN ctlMail' :
               ~(ctlCalls'[k].op = "save" /\ ctlMail'[n].call.op = "save")
        BY <1>3, <3>2, <3>3 DEF OneSave
      <3>7. ~saving' => /\ \A k \in DOMAIN ctlCalls' : ctlCalls'[k].op # "save"
                        /\ \A n \in DOMAIN ctlMail' : ctlMail'[n].call.op # "save"
        BY <1>3, <1>4, <3>2, <3>3 DEF OneSave
      <3> QED
        BY <3>1, <3>4, <3>5, <3>6, <3>7 DEF OneSave
    <2>2. ChangesFirst => ChangesFirst'
      BY <1>1, <1>3, <1>4 DEF ChangesFirst, IsChange
    <2>3. ASSUME DiskBehind PROVE DiskBehind'
      <3>1. CASE dirty /\ \A n \in DOMAIN ctlMail : ~Saved(ctlMail[n])
        BY <1>3, <1>4, <3>1 DEF DiskBehind, Saved
      <3>2. ASSUME NEW n \in DOMAIN ctlMail, Cleared(ctlMail[n]),
                   \A k \in DOMAIN ctlMail : k > n => ~Saved(ctlMail[k])
            PROVE  DiskBehind'
        <4>1. n # 1
          BY <1>3, <1>4, <3>2 DEF Cleared
        <4> QED
          BY <1>3, <3>2, <4>1, ClearedMovesUp
      <3> QED
        BY <1>1, <2>3, <3>1, <3>2 DEF DiskBehind
    <2> QED
      BY <1>1, <2>1, <2>2, <2>3 DEF CleanInv
  <1>0. ASSUME UNCHANGED <<saving, dirty, ctlCalls>>, m.call.op \notin {"save", "clear"}
        PROVE  CleanInv'
    BY <1>0, <1>4 DEF CleanInv, InOrder
  <1>5. CASE m.call.op = "introspect" /\ applyIntrospection(m.ok)
    <2> DEFINE gets == <<CtlCall("get", "dpi"), CtlCall("get", "presets"), CtlCall("get", "toggle")>>
    <2>1. CASE ~m.ok
      BY <1>0, <1>5, <2>1 DEF applyIntrospection
    <2>2. CASE m.ok
      <3>1. ctlCalls' = ctlCalls \o gets /\ UNCHANGED <<saving, dirty>>
        BY <1>5, <2>2 DEF applyIntrospection
      <3>2. /\ gets \in Seq({CtlCall("get", "dpi"), CtlCall("get", "presets"), CtlCall("get", "toggle")})
            /\ \A n \in DOMAIN gets : gets[n].op = "get"
        BY DEF CtlCall
      <3>3. PICK S : ctlCalls \in Seq(S)
        BY DEF CleanInv, InOrder
      <3> HIDE DEF gets
      <3>4. /\ \E U : ctlCalls' \in Seq(U)
            /\ \A n \in DOMAIN ctlCalls' : n \notin DOMAIN ctlCalls => n - Len(ctlCalls) \in DOMAIN gets
            /\ \A n \in DOMAIN ctlCalls' :
                  ctlCalls'[n] = IF n \in DOMAIN ctlCalls THEN ctlCalls[n] ELSE gets[n - Len(ctlCalls)]
        BY <3>1, <3>2, <3>3, Grown
      <3> QED
        BY <1>4, <1>5, <3>1, <3>2, <3>4
    <2> QED
      BY <2>1, <2>2
  <1>6. CASE m.call.op = "save" /\ onSaveReplied(m.ok)
    <2>1. UNCHANGED ctlCalls /\ saving' = FALSE /\ dirty' = IF m.ok THEN FALSE ELSE dirty
      BY <1>6 DEF onSaveReplied
    <2>2. InOrder' /\ OneSave'
      BY <1>1, <1>3, <1>6, <2>1 DEF CleanInv, InOrder, OneSave
    <2>3. ASSUME ChangesFirst, DiskBehind PROVE ChangesFirst' /\ DiskBehind'
      <3>1. ChangesFirst'
        BY <1>1, <1>3, <1>6, <2>1, <2>3 DEF ChangesFirst
      <3>2. \A n \in DOMAIN ctlMail : n # 1 => ctlMail[n].call.op # "save"
        BY <1>3, <1>6 DEF CleanInv, OneSave
      <3>3. CASE \E n \in DOMAIN ctlMail : Cleared(ctlMail[n])
        <4>1. PICK n \in DOMAIN ctlMail : Cleared(ctlMail[n])
          BY <3>3
        <4>2. n - 1 \in DOMAIN ctlMail' /\ ctlMail'[n - 1] = ctlMail[n]
          BY <1>3, <1>6, <4>1 DEF Cleared
        <4>3. \A k \in DOMAIN ctlMail' : ~Saved(ctlMail'[k])
          BY <1>3, <3>2 DEF Saved
        <4> QED
          BY <3>1, <4>1, <4>2, <4>3 DEF DiskBehind, Saved, Cleared
      <3>4. CASE disk # live /\ ~emptied /\ ~(\E n \in DOMAIN ctlMail : Cleared(ctlMail[n]))
        <4>1. dirty /\ ~m.ok
          BY <1>3, <1>6, <2>3, <3>4 DEF DiskBehind, Saved
        <4>2. \A k \in DOMAIN ctlMail' : ~Saved(ctlMail'[k])
          BY <1>3, <3>2 DEF Saved
        <4> QED
          BY <2>1, <3>1, <4>1, <4>2 DEF DiskBehind, Saved, Cleared
      <3> QED
        BY <1>1, <3>1, <3>3, <3>4 DEF DiskBehind
    <2> QED
      BY <1>1, <2>2, <2>3 DEF CleanInv
  <1>7. CASE m.call.op = "clear" /\ onClearReplied(m.ok)
    <2>1. UNCHANGED <<ctlCalls, saving>> /\ dirty' = (dirty \/ m.ok)
      BY <1>7 DEF onClearReplied
    <2>2. InOrder' /\ OneSave'
      BY <1>1, <1>3, <1>7, <2>1 DEF CleanInv, InOrder, OneSave
    <2>3. ChangesFirst => ChangesFirst'
      BY <1>1, <1>3, <1>7, <2>1 DEF ChangesFirst
    <2>4. ASSUME DiskBehind PROVE DiskBehind'
      <3>1. CASE dirty /\ \A n \in DOMAIN ctlMail : ~Saved(ctlMail[n])
        BY <1>3, <2>1, <3>1 DEF DiskBehind, Saved
      <3>2. ASSUME NEW n \in DOMAIN ctlMail, Cleared(ctlMail[n]),
                   \A k \in DOMAIN ctlMail : k > n => ~Saved(ctlMail[k])
            PROVE  DiskBehind'
        <4>1. CASE n = 1
          <5>1. dirty'
            BY <1>3, <2>1, <3>2, <4>1 DEF Cleared
          <5>2. \A k \in DOMAIN ctlMail' : ~Saved(ctlMail'[k])
            BY <1>3, <3>2, <4>1 DEF Saved
          <5> QED
            BY <5>1, <5>2 DEF DiskBehind, Saved
        <4>2. CASE n # 1
          BY <1>3, <3>2, <4>2, ClearedMovesUp
        <4> QED
          BY <4>1, <4>2
      <3> QED
        BY <1>1, <2>4, <3>1, <3>2 DEF DiskBehind
    <2> QED
      BY <1>1, <2>2, <2>3, <2>4 DEF CleanInv
  <1> QED
    BY <1>0, <1>1, <1>5, <1>6, <1>7 DEF seed, Ignored

(***************************************************************************)
(* Once every call is answered, a device without unsaved changes has its   *)
(* settings on disk, unless the last change was made while a save was      *)
(* pending or a clear failed with the profile emptied. It needs the order  *)
(* of the bus: a change is a call before the save that covers it, and the  *)
(* flag that a clear sets comes with its reply.                            *)
(***************************************************************************)
THEOREM CleanMeansSaved == ControllerSpec => []CleanIsSaved
  <1>1. CleanInv /\ [ControllerNext]_controllerVars => CleanInv'
    <2>1. CASE UNCHANGED controllerVars
      BY <2>1 DEF controllerVars, CleanInv, InOrder, OneSave, ChangesFirst, DiskBehind
    <2> QED
      BY <2>1, InputStep, CallTakenStep, RepliedStep DEF ControllerNext
  <1>2. CleanInv => CleanIsSaved
    <2> SUFFICES ASSUME CleanInv, ctlMail = << >>, ~dirty, ~overlap, ~emptied PROVE disk = live
      BY DEF CleanIsSaved, ControllerQuiet
    <2>1. DOMAIN ctlMail = {}
      OBVIOUS
    <2> QED
      BY <2>1 DEF CleanInv, DiskBehind
  <1> QED
    BY <1>1, <1>2, CleanInitially, PTL DEF ControllerSpec

-----------------------------------------------------------------------------
(* The values of the settings                                               *)

\* A read of a setting for a selection, and a write of a setting.
IsRead(c, f, s) == c.op = "get" /\ c.x = f /\ c.by = s
IsWrite(c, f)   == c.op = "set" /\ c.x.field = f

\* Of the calls: a setting is read behind every write of it; it is neither
\* written nor read; its last write is of v.
ReadComes(cs, f, s) ==
    \E i \in DOMAIN cs : IsRead(cs[i], f, s) /\ \A j \in DOMAIN cs : j > i => ~IsWrite(cs[j], f)
NoWrite(cs, f)   == \A i \in DOMAIN cs : ~IsWrite(cs[i], f)
NoRead(cs, f, s) == \A i \in DOMAIN cs : ~IsRead(cs[i], f, s)
LastWrite(cs, f, v) ==
    \E i \in DOMAIN cs : /\ IsWrite(cs[i], f) /\ cs[i].x.value = v
                         /\ \A j \in DOMAIN cs : j > i => ~IsWrite(cs[j], f)

\* What is shown of a value that is read.
Shown(f, v) == IF f = "toggle" THEN v # 0 ELSE v

\* A reply has the setting show w.
Settles(m, f, s, w) == IsRead(m.call, f, s) /\ m.ok /\ Shown(f, m.value) = w

\* Of the mail: the last reply to a read of a setting has it show w; there is
\* none.
LastReply(ml, f, s, w) ==
    \E i \in DOMAIN ml : /\ Settles(ml[i], f, s, w)
                         /\ \A j \in DOMAIN ml : j > i => ~IsRead(ml[j].call, f, s)
NoReply(ml, f, s) == \A i \in DOMAIN ml : ~IsRead(ml[i].call, f, s)

\* The value shown is the daemon's, or what is under way makes it so: a read
\* behind every write; the reply to one, with the daemon's value; or, when
\* none is to be applied any more, a last write of what is shown.
ValueFollows(f) ==
    \/ ReadComes(ctlCalls, f, session)
    \/ NoWrite(ctlCalls, f) /\ LastReply(ctlMail, f, session, Told(f))
    \/ /\ NoRead(ctlCalls, f, session) /\ NoReply(ctlMail, f, session)
       /\ \/ NoWrite(ctlCalls, f) /\ Told(f) = values[f]
          \/ f # "dpi" /\ LastWrite(ctlCalls, f, values[f])

\* Calls and replies are in order; a read is nothing but its setting and its
\* selection, and a write is of a setting. A toggle is shown on or off.
FormedCall(c) ==
    /\ c.op = "get" => c = [op |-> "get", x |-> c.x, by |-> c.by]
    /\ c.op = "set" => c.x.field \in Fields
SettingsFormed ==
    /\ (\E S : ctlCalls \in Seq(S)) /\ (\E S : ctlMail \in Seq(S))
    /\ DOMAIN live = Fields /\ DOMAIN values = Fields
    /\ live.toggle \in 0 .. 2 /\ values.toggle \in BOOLEAN
    /\ \A i \in DOMAIN ctlCalls : FormedCall(ctlCalls[i])
    /\ \A i \in DOMAIN ctlMail : FormedCall(ctlMail[i].call)

\* The sensor has a value it can have: the nearest to the one it was told last,
\* if it answered.
SensorFollows ==
    /\ Snap(sensor) = sensor
    /\ ~behind /\ live.dpi # 0 => sensor = Snap(live.dpi)

\* What the settings keep at every step.
ValuesInv ==
    /\ SettingsFormed /\ SensorFollows
    /\ ready => \A f \in Fields \ unsure : ValueFollows(f)

-----------------------------------------------------------------------------

\* Calls are added behind the others.
LEMMA CallsJoined ==
    ASSUME NEW S, NEW cs \in Seq(S), NEW T, NEW add \in Seq(T), NEW all, all = cs \o add, NEW f, NEW s, NEW v
    PROVE  /\ NoWrite(add, f) /\ ReadComes(cs, f, s) => ReadComes(all, f, s)
           /\ NoWrite(add, f) /\ LastWrite(cs, f, v) => LastWrite(all, f, v)
           /\ NoWrite(add, f) /\ NoWrite(cs, f) => NoWrite(all, f)
           /\ NoRead(add, f, s) /\ NoRead(cs, f, s) => NoRead(all, f, s)
           /\ ReadComes(add, f, s) => ReadComes(all, f, s)
           /\ LastWrite(add, f, v) => LastWrite(all, f, v)
  <1>1. /\ DOMAIN cs = 1 .. Len(cs) /\ Len(cs) \in Nat
        /\ DOMAIN all = 1 .. (Len(cs) + Len(add))
        /\ \A n \in DOMAIN all : n \notin DOMAIN cs => n - Len(cs) \in DOMAIN add
        /\ \A n \in DOMAIN all : all[n] = IF n \in DOMAIN cs THEN cs[n] ELSE add[n - Len(cs)]
        /\ DOMAIN add = 1 .. Len(add) /\ Len(add) \in Nat
    BY Grown
  <1>2. /\ \A n \in DOMAIN cs : n \in DOMAIN all /\ all[n] = cs[n]
        /\ \A n \in DOMAIN add : Len(cs) + n \in DOMAIN all /\ all[Len(cs) + n] = add[n]
    BY <1>1
  <1>3. ASSUME NEW n \in DOMAIN all
        PROVE  \/ n \in DOMAIN cs /\ all[n] = cs[n]
               \/ n \notin DOMAIN cs /\ \E k \in DOMAIN add : n = Len(cs) + k /\ all[n] = add[k]
    BY <1>1
  <1>4. NoWrite(add, f) /\ ReadComes(cs, f, s) => ReadComes(all, f, s)
    BY <1>2, <1>3 DEF NoWrite, ReadComes
  <1>5. NoWrite(add, f) /\ LastWrite(cs, f, v) => LastWrite(all, f, v)
    BY <1>2, <1>3 DEF NoWrite, LastWrite
  <1>6. /\ NoWrite(add, f) /\ NoWrite(cs, f) => NoWrite(all, f)
        /\ NoRead(add, f, s) /\ NoRead(cs, f, s) => NoRead(all, f, s)
    BY <1>3 DEF NoWrite, NoRead
  <1>7. ASSUME NEW k \in DOMAIN add, NEW n \in DOMAIN all, n > Len(cs) + k
        PROVE  \E l \in DOMAIN add : l > k /\ all[n] = add[l]
    <2>1. n \notin DOMAIN cs /\ n - Len(cs) > k
      BY <1>1, <1>7
    <2> QED
      BY <2>1, <1>1
  <1>8. ReadComes(add, f, s) => ReadComes(all, f, s)
    BY <1>2, <1>7 DEF ReadComes
  <1>9. LastWrite(add, f, v) => LastWrite(all, f, v)
    <2>1. ASSUME LastWrite(add, f, v) PROVE LastWrite(all, f, v)
      <3>1. PICK k \in DOMAIN add : /\ IsWrite(add[k], f) /\ add[k].x.value = v
                                    /\ \A j \in DOMAIN add : j > k => ~IsWrite(add[j], f)
        BY <2>1 DEF LastWrite
      <3>2. \A n \in DOMAIN all : n > Len(cs) + k => ~IsWrite(all[n], f)
        BY <3>1, <1>7
      <3> QED
        BY <3>1, <3>2, <1>2 DEF LastWrite
    <2> QED
      BY <2>1
  <1> QED
    BY <1>4, <1>5, <1>6, <1>8, <1>9

\* The first call is taken.
LEMMA CallOff ==
    ASSUME NEW S, NEW cs \in Seq(S), cs # << >>, NEW rest, rest = Tail(cs), NEW c, c = Head(cs), NEW f, NEW s, NEW v
    PROVE  /\ ReadComes(cs, f, s) => ReadComes(rest, f, s) \/ (IsRead(c, f, s) /\ NoWrite(rest, f))
           /\ LastWrite(cs, f, v) => LastWrite(rest, f, v) \/ (IsWrite(c, f) /\ c.x.value = v /\ NoWrite(rest, f))
           /\ NoWrite(cs, f) => NoWrite(rest, f) /\ ~IsWrite(c, f)
           /\ NoRead(cs, f, s) => NoRead(rest, f, s) /\ ~IsRead(c, f, s)
  <1>1. /\ DOMAIN cs = 1 .. Len(cs) /\ Len(cs) \in Nat \ {0} /\ c = cs[1]
        /\ DOMAIN rest = 1 .. (Len(cs) - 1)
        /\ \A n \in DOMAIN rest : rest[n] = cs[n + 1]
    BY Shrunk
  <1>2. ASSUME NEW n \in DOMAIN cs PROVE (n = 1 /\ cs[n] = c) \/ (n - 1 \in DOMAIN rest /\ rest[n - 1] = cs[n])
    BY <1>1
  <1>3. ASSUME NEW n \in DOMAIN rest PROVE n + 1 \in DOMAIN cs /\ rest[n] = cs[n + 1] /\ n + 1 > 1 /\ n \in Int
    BY <1>1
  <1>4. 1 \in DOMAIN cs /\ DOMAIN cs \subseteq Int
    BY <1>1
  <1>5. ASSUME NEW i \in DOMAIN cs, NEW n \in DOMAIN rest, n > i - 1 PROVE n + 1 > i
    BY <1>3, <1>4, <1>5
  <1>x. ASSUME NEW i \in DOMAIN cs, \A j \in DOMAIN cs : j > i => ~IsWrite(cs[j], f)
        PROVE  \/ cs[i] = c /\ NoWrite(rest, f)
               \/ /\ i - 1 \in DOMAIN rest /\ rest[i - 1] = cs[i]
                  /\ \A n \in DOMAIN rest : n > i - 1 => ~IsWrite(rest[n], f)
    <2>1. \A n \in DOMAIN rest : n > i - 1 => ~IsWrite(rest[n], f)
      BY <1>x, <1>3, <1>5
    <2>2. i = 1 => NoWrite(rest, f)
      BY <1>x, <1>3 DEF NoWrite
    <2> QED
      BY <2>1, <2>2, <1>2
  <1>6. ReadComes(cs, f, s) => ReadComes(rest, f, s) \/ (IsRead(c, f, s) /\ NoWrite(rest, f))
    <2>1. ASSUME NEW i \in DOMAIN cs, IsRead(cs[i], f, s), \A j \in DOMAIN cs : j > i => ~IsWrite(cs[j], f)
          PROVE  ReadComes(rest, f, s) \/ (IsRead(c, f, s) /\ NoWrite(rest, f))
      BY <1>x, <2>1 DEF ReadComes
    <2> QED
      BY <2>1 DEF ReadComes
  <1>7. LastWrite(cs, f, v) => LastWrite(rest, f, v) \/ (IsWrite(c, f) /\ c.x.value = v /\ NoWrite(rest, f))
    <2>1. ASSUME NEW i \in DOMAIN cs, IsWrite(cs[i], f), cs[i].x.value = v,
                 \A j \in DOMAIN cs : j > i => ~IsWrite(cs[j], f)
          PROVE  LastWrite(rest, f, v) \/ (IsWrite(c, f) /\ c.x.value = v /\ NoWrite(rest, f))
      BY <1>x, <2>1 DEF LastWrite
    <2> QED
      BY <2>1 DEF LastWrite
  <1>8. /\ NoWrite(cs, f) => NoWrite(rest, f) /\ ~IsWrite(c, f)
        /\ NoRead(cs, f, s) => NoRead(rest, f, s) /\ ~IsRead(c, f, s)
    BY <1>1, <1>3, <1>4 DEF NoWrite, NoRead
  <1> QED
    BY <1>6, <1>7, <1>8

\* A reply is sent.
LEMMA ReplyOn ==
    ASSUME NEW S, NEW ml \in Seq(S), NEW m, NEW all, all = Append(ml, m), NEW f, NEW s, NEW v
    PROVE  /\ ~IsRead(m.call, f, s) /\ LastReply(ml, f, s, v) => LastReply(all, f, s, v)
           /\ ~IsRead(m.call, f, s) /\ NoReply(ml, f, s) => NoReply(all, f, s)
           /\ Settles(m, f, s, v) => LastReply(all, f, s, v)
  <1>1. /\ DOMAIN ml = 1 .. Len(ml) /\ Len(ml) \in Nat
        /\ DOMAIN all = 1 .. (Len(ml) + 1)
        /\ \A n \in DOMAIN all : all[n] = IF n \in DOMAIN ml THEN ml[n] ELSE m
    BY GrownByOne
  <1>2. \A n \in DOMAIN ml : n \in DOMAIN all /\ all[n] = ml[n]
    BY <1>1
  <1>3. \A n \in DOMAIN all : (n \in DOMAIN ml /\ all[n] = ml[n]) \/ (n = Len(ml) + 1 /\ all[n] = m)
    BY <1>1
  <1>4. Len(ml) + 1 \in DOMAIN all /\ all[Len(ml) + 1] = m /\ \A n \in DOMAIN all : ~(n > Len(ml) + 1)
    BY <1>1
  <1>5. ~IsRead(m.call, f, s) /\ LastReply(ml, f, s, v) => LastReply(all, f, s, v)
    BY <1>2, <1>3 DEF LastReply
  <1>6. ~IsRead(m.call, f, s) /\ NoReply(ml, f, s) => NoReply(all, f, s)
    BY <1>3 DEF NoReply
  <1>7. Settles(m, f, s, v) => LastReply(all, f, s, v)
    <2>1. Settles(m, f, s, v) => IsRead(m.call, f, s)
      BY DEF Settles
    <2> QED
      BY <1>4 DEF LastReply
  <1> QED
    BY <1>5, <1>6, <1>7

\* The first reply is handled.
LEMMA ReplyOff ==
    ASSUME NEW S, NEW ml \in Seq(S), ml # << >>, NEW rest, rest = Tail(ml), NEW m, m = Head(ml), NEW f, NEW s, NEW v
    PROVE  /\ LastReply(ml, f, s, v) => LastReply(rest, f, s, v) \/ (Settles(m, f, s, v) /\ NoReply(rest, f, s))
           /\ NoReply(ml, f, s) => NoReply(rest, f, s) /\ ~IsRead(m.call, f, s)
  <1>1. /\ DOMAIN ml = 1 .. Len(ml) /\ Len(ml) \in Nat \ {0} /\ m = ml[1]
        /\ DOMAIN rest = 1 .. (Len(ml) - 1)
        /\ \A n \in DOMAIN rest : rest[n] = ml[n + 1]
    BY Shrunk
  <1>2. ASSUME NEW n \in DOMAIN ml PROVE (n = 1 /\ ml[n] = m) \/ (n - 1 \in DOMAIN rest /\ rest[n - 1] = ml[n])
    BY <1>1
  <1>3. ASSUME NEW n \in DOMAIN rest PROVE n + 1 \in DOMAIN ml /\ rest[n] = ml[n + 1] /\ n + 1 > 1 /\ n \in Int
    BY <1>1
  <1>4. 1 \in DOMAIN ml /\ DOMAIN ml \subseteq Int
    BY <1>1
  <1>5. ASSUME NEW i \in DOMAIN ml, NEW n \in DOMAIN rest, n > i - 1 PROVE n + 1 > i
    BY <1>3, <1>4, <1>5
  <1>6. LastReply(ml, f, s, v) => LastReply(rest, f, s, v) \/ (Settles(m, f, s, v) /\ NoReply(rest, f, s))
    <2>1. ASSUME NEW i \in DOMAIN ml, Settles(ml[i], f, s, v),
                 \A j \in DOMAIN ml : j > i => ~IsRead(ml[j].call, f, s)
          PROVE  \/ LastReply(rest, f, s, v)
                 \/ Settles(m, f, s, v) /\ NoReply(rest, f, s)
      <3>1. \A n \in DOMAIN rest : n > i - 1 => ~IsRead(rest[n].call, f, s)
        BY <2>1, <1>3, <1>5
      <3>2. i = 1 => NoReply(rest, f, s)
        BY <2>1, <1>3 DEF NoReply
      <3> QED
        BY <2>1, <3>1, <3>2, <1>2 DEF LastReply
    <2> QED
      BY <2>1 DEF LastReply
  <1>7. NoReply(ml, f, s) => NoReply(rest, f, s) /\ ~IsRead(m.call, f, s)
    BY <1>1, <1>3, <1>4 DEF NoReply
  <1> QED
    BY <1>6, <1>7

-----------------------------------------------------------------------------

\* Before the introspection no value is shown.
LEMMA ValuesStart == ControllerInit => ValuesInv
  <1> SUFFICES ASSUME ControllerInit PROVE ValuesInv
    OBVIOUS
  <1>1. PICK c : c = [op |-> "introspect", x |-> 0, by |-> 1] /\ ctlCalls = <<c>>
    BY DEF ControllerInit
  <1>2. c.op = "introspect"
    BY <1>1
  <1>3. ctlCalls \in Seq({c}) /\ ctlMail \in Seq({}) /\ DOMAIN ctlCalls = {1} /\ ctlCalls[1] = c /\ DOMAIN ctlMail = {}
    <2>1. ctlMail = << >>
      BY DEF ControllerInit
    <2> HIDE DEF Fields
    <2> QED
      BY <1>1, <2>1
  <1>4. /\ DOMAIN live = Fields /\ DOMAIN values = Fields
        /\ live.toggle = 2 /\ values.toggle = FALSE /\ live.dpi = 0
    BY DEF ControllerInit, Defaults, Blank, Fields
  <1>6. SensorFollows
    BY <1>4, MaxDpiAssumption DEF SensorFollows, Snap, ControllerInit, FactoryDpi
  <1>5. SettingsFormed
    <2>1. live.toggle \in 0 .. 2
      BY <1>4
    <2>3. values.toggle \in BOOLEAN
      BY <1>4, Zenon
    <2>2. FormedCall(c)
      BY <1>2 DEF FormedCall
    <2> QED
      BY <1>3, <1>4, <2>1, <2>2, <2>3 DEF SettingsFormed
  <1> QED
    BY <1>5, <1>6 DEF ValuesInv, ControllerInit

\* The daemon takes a call: it and the others are formed, and so is the reply.
LEMMA TakenFormed ==
    ASSUME ValuesInv, ControllerCallTaken, NEW c, c = Head(ctlCalls)
    PROVE  /\ FormedCall(c) /\ SettingsFormed'
           /\ ctlMail' = ctlMail \/ \E ok, v : ctlMail' = Append(ctlMail, [call |-> c, ok |-> ok, value |-> v])
  <1>1. PICK S : ctlCalls \in Seq(S)
    BY DEF ValuesInv, SettingsFormed
  <1>2. PICK T : ctlMail \in Seq(T)
    BY DEF ValuesInv, SettingsFormed
  <1>3. /\ ctlCalls # << >> /\ ctlCalls' = Tail(ctlCalls)
        /\ TakeWrite(c) \/ TakeRead(c) \/ TakeSave(c) \/ TakeProfile(c)
        /\ values' = values
    BY DEF ControllerCallTaken
  <1>4. /\ ctlCalls' \in Seq(S) /\ c = ctlCalls[1] /\ 1 \in DOMAIN ctlCalls
        /\ \A n \in DOMAIN ctlCalls' : n + 1 \in DOMAIN ctlCalls /\ ctlCalls'[n] = ctlCalls[n + 1]
    BY <1>1, <1>3, Shrunk
  <1>5. FormedCall(c) /\ \A n \in DOMAIN ctlCalls' : FormedCall(ctlCalls'[n])
    BY <1>4 DEF ValuesInv, SettingsFormed
  <1>6. ctlMail' = ctlMail \/ \E ok, v : ctlMail' = Append(ctlMail, [call |-> c, ok |-> ok, value |-> v])
    BY <1>3 DEF TakeWrite, TakeRead, TakeSave, TakeProfile, Returned, Answers
  <1>7. (\E U : ctlMail' \in Seq(U)) /\ \A i \in DOMAIN ctlMail' : FormedCall(ctlMail'[i].call)
    <2>1. CASE ctlMail' = ctlMail
      BY <2>1, <1>2 DEF ValuesInv, SettingsFormed
    <2>2. CASE \E ok, v : ctlMail' = Append(ctlMail, [call |-> c, ok |-> ok, value |-> v])
      <3>1. PICK m : m.call = c /\ ctlMail' = Append(ctlMail, m)
        BY <2>2
      <3>2. /\ \E U : ctlMail' \in Seq(U)
            /\ \A n \in DOMAIN ctlMail' : ctlMail'[n] = IF n \in DOMAIN ctlMail THEN ctlMail[n] ELSE m
        <4>1. PICK r : r = ctlMail' /\ r = Append(ctlMail, m)
          BY <3>1
        <4>2. r \in Seq(T \cup {m})
          BY <1>2, <4>1
        <4>3. \A n \in DOMAIN r : r[n] = IF n \in DOMAIN ctlMail THEN ctlMail[n] ELSE m
          BY <1>2, <4>1, GrownByOne
        <4> QED
          BY <4>1, <4>2, <4>3
      <3> QED
        BY <3>1, <3>2, <1>5 DEF ValuesInv, SettingsFormed
    <2> QED
      BY <1>6, <2>1, <2>2
  <1>8. DOMAIN live' = Fields /\ live'.toggle \in 0 .. 2
    <2>1. DOMAIN live = Fields /\ live.toggle \in 0 .. 2 /\ "toggle" \in Fields
      BY DEF ValuesInv, SettingsFormed, Fields
    <2>2. DOMAIN Defaults = Fields /\ Defaults.toggle = 0
      BY DEF Defaults, Fields
    <2>3. CASE TakeWrite(c) /\ live' # live
      <3>1. live' = [live EXCEPT ![c.x.field] = StoredAs(c.x.field, c.x.value)]
        BY <2>3 DEF TakeWrite
      <3>2. StoredAs("toggle", c.x.value) \in 0 .. 2
        BY DEF StoredAs
      <3> QED
        BY <2>1, <3>1, <3>2
    <2>4. CASE live' = Defaults
      BY <2>2, <2>4
    <2>5. CASE live' = live
      BY <2>1, <2>5
    <2> QED
      BY <1>3, <2>3, <2>4, <2>5 DEF TakeRead, TakeSave, TakeProfile, daemonParts
  <1>9. DOMAIN values' = Fields /\ values'.toggle \in BOOLEAN
    BY <1>3 DEF ValuesInv, SettingsFormed
  <1> QED
    BY <1>1, <1>4, <1>5, <1>6, <1>7, <1>8, <1>9 DEF SettingsFormed

\* The sensor, as the daemon takes a call.
LEMMA TakenSensor == ValuesInv /\ ControllerCallTaken => SensorFollows'
  <1> SUFFICES ASSUME ValuesInv, ControllerCallTaken PROVE SensorFollows'
    OBVIOUS
  <1> DEFINE c == Head(ctlCalls)
  <1>1. SensorFollows /\ DOMAIN live = Fields
    BY DEF ValuesInv, SettingsFormed
  <1>2. TakeWrite(c) \/ TakeRead(c) \/ TakeSave(c) \/ TakeProfile(c)
    BY DEF ControllerCallTaken
  <1> HIDE DEF c
  <1>3. \A v : Snap(Snap(v)) = Snap(v)
    BY DEF Snap
  <1>4. Snap(FactoryDpi) = FactoryDpi
    BY MaxDpiAssumption DEF Snap, FactoryDpi
  <1>5. CASE UNCHANGED <<sensor, behind>> /\ live'.dpi = live.dpi
    BY <1>1, <1>5 DEF SensorFollows
  <1>6. CASE TakeWrite(c)
    <2>1. CASE live' = [live EXCEPT ![c.x.field] = StoredAs(c.x.field, c.x.value)]
      <3>1. CASE c.x.field = "dpi" /\ TellSensor(c.x.value)
        <4>1. live'.dpi = c.x.value
          BY <1>1, <2>1, <3>1 DEF StoredAs, Fields
        <4> QED
          BY <1>1, <1>3, <3>1, <4>1 DEF TellSensor, SensorFollows
      <3>2. CASE c.x.field # "dpi" /\ UNCHANGED <<sensor, behind>>
        <4>1. live'.dpi = live.dpi
          BY <1>1, <2>1, <3>2 DEF Fields
        <4> QED
          BY <1>5, <3>2, <4>1
      <3> QED
        BY <1>5, <1>6, <3>1, <3>2 DEF TakeWrite
    <2>2. CASE UNCHANGED <<live, sensor, behind>>
      BY <1>5, <2>2
    <2> QED
      BY <1>6, <2>1, <2>2 DEF TakeWrite
  <1>7. CASE TakeProfile(c)
    <2>1. CASE live' = Defaults /\ sensor' \in {sensor, FactoryDpi}
      <3>1. live'.dpi = 0
        BY <2>1 DEF Defaults
      <3> QED
        BY <1>1, <1>4, <2>1, <3>1 DEF SensorFollows
    <2> QED
      BY <1>5, <1>7, <2>1 DEF TakeProfile
  <1> QED
    BY <1>2, <1>5, <1>6, <1>7 DEF TakeRead, TakeSave, daemonParts

\* What the page should show of a setting depends on it and on the sensor.
LEMMA ToldKept ==
    ASSUME NEW f \in Fields, live'[f] = live[f], f = "dpi" => sensor' = sensor
    PROVE  Told(f)' = Told(f)
  BY DEF Told, Got, getDPI, Fields

\* A setting whose value stays sure.
LEMMA TakenFollows ==
    ASSUME ValuesInv, ControllerCallTaken, NEW f \in Fields, f \notin unsure', f \notin unsure, ValueFollows(f)
    PROVE  ValueFollows(f)'
  <1> DEFINE c == Head(ctlCalls)
  <1>1. PICK S : ctlCalls \in Seq(S)
    BY DEF ValuesInv, SettingsFormed
  <1>2. PICK T : ctlMail \in Seq(T)
    BY DEF ValuesInv, SettingsFormed
  <1>3. /\ ctlCalls # << >> /\ ctlCalls' = Tail(ctlCalls)
        /\ TakeWrite(c) \/ TakeRead(c) \/ TakeSave(c) \/ TakeProfile(c)
        /\ values' = values /\ session' = session
    BY DEF ControllerCallTaken
  <1>4. /\ ReadComes(ctlCalls, f, session)
             => ReadComes(ctlCalls', f, session) \/ (IsRead(c, f, session) /\ NoWrite(ctlCalls', f))
        /\ LastWrite(ctlCalls, f, values[f])
             => LastWrite(ctlCalls', f, values[f]) \/ (IsWrite(c, f) /\ c.x.value = values[f] /\ NoWrite(ctlCalls', f))
        /\ NoWrite(ctlCalls, f) => NoWrite(ctlCalls', f) /\ ~IsWrite(c, f)
        /\ NoRead(ctlCalls, f, session) => NoRead(ctlCalls', f, session) /\ ~IsRead(c, f, session)
    BY <1>1, <1>3, CallOff
  <1>5. FormedCall(c)
    BY TakenFormed
  <1> HIDE DEF c
  <1>6. CASE IsWrite(c, f)
    <2>1. TakeWrite(c) /\ ctlMail' = ctlMail
      BY <1>3, <1>6 DEF IsWrite, TakeWrite, TakeRead, TakeSave, TakeProfile
    <2>2. ~NoWrite(ctlCalls, f) /\ ~IsRead(c, f, session)
      BY <1>4, <1>6 DEF IsRead, IsWrite
    <2>3. CASE f = "dpi"
      BY <1>3, <1>4, <2>1, <2>2, <2>3 DEF ValueFollows
    <2>4. CASE f # "dpi"
      <3>1. live'[f] = StoredAs(f, c.x.value)
        <4>1. live' = [live EXCEPT ![f] = StoredAs(f, c.x.value)]
          BY <1>6, <2>1, <2>4 DEF TakeWrite, IsWrite
        <4> QED
          BY <4>1 DEF ValuesInv, SettingsFormed
      <3>2. c.x.value = values[f] => Told(f)' = values[f]
        <4>1. values.toggle \in BOOLEAN
          BY DEF ValuesInv, SettingsFormed
        <4> QED
          BY <2>4, <3>1, <4>1 DEF Told, Got, StoredAs
      <3> QED
        BY <1>3, <1>4, <2>1, <2>2, <2>4, <3>2 DEF ValueFollows
    <2> QED
      BY <2>3, <2>4
  <1>7. CASE ~IsWrite(c, f) /\ TakeWrite(c)
    <2>1. ctlMail' = ctlMail /\ Told(f)' = Told(f) /\ ~IsRead(c, f, session)
      <3>1. c.op = "set" /\ c.x.field # f /\ ctlMail' = ctlMail
        BY <1>7 DEF IsWrite, TakeWrite
      <3>2. live'[f] = live[f] /\ (f = "dpi" => sensor' = sensor)
        BY <1>7, <3>1 DEF TakeWrite, ValuesInv, SettingsFormed
      <3> QED
        BY <3>1, <3>2, ToldKept DEF IsRead
    <2> QED
      BY <1>3, <1>4, <1>7, <2>1 DEF ValueFollows
  <1>8. CASE TakeRead(c)
    <2>1. PICK m : /\ m.call = c /\ ctlMail' = Append(ctlMail, m)
                   /\ c.op = "get" =>
                        \/ c.x \in unsure'
                        \/ m.ok /\ m.value \in Answers(c.x) /\ ~(c.x = "toggle" /\ m.value = 1)
      <3>1. CASE c.op = "introspect" /\ Returned(c, TRUE, 0)
        BY <3>1 DEF Returned
      <3>2. CASE Returned(c, FALSE, 0) /\ unsure' = IF c.op = "get" THEN unsure \cup {c.x} ELSE unsure
        BY <3>2 DEF Returned
      <3>3. ASSUME NEW v \in Answers(c.x), Returned(c, TRUE, v),
                   unsure' = IF c.x = "toggle" /\ v = 1 THEN unsure \cup {c.x} ELSE unsure
            PROVE  \E m : /\ m.call = c /\ ctlMail' = Append(ctlMail, m)
                          /\ \/ c.x \in unsure'
                             \/ m.ok /\ m.value \in Answers(c.x) /\ ~(c.x = "toggle" /\ m.value = 1)
        <4> DEFINE r == [call |-> c, ok |-> TRUE, value |-> v]
        <4>1. r.call = c /\ r.ok /\ r.value = v
          OBVIOUS
        <4>2. ctlMail' = Append(ctlMail, r)
          BY <3>3 DEF Returned
        <4> HIDE DEF r
        <4> QED
          BY <3>3, <4>1, <4>2
      <3> QED
        BY <1>8, <3>1, <3>2, <3>3 DEF TakeRead
    <2>2. Told(f)' = Told(f) /\ ~IsWrite(c, f)
      BY <1>8, ToldKept DEF TakeRead, IsWrite, daemonParts
    <2>3. /\ ~IsRead(c, f, session) /\ LastReply(ctlMail, f, session, Told(f)) => LastReply(ctlMail', f, session, Told(f))
          /\ ~IsRead(c, f, session) /\ NoReply(ctlMail, f, session) => NoReply(ctlMail', f, session)
          /\ Settles(m, f, session, Told(f)) => LastReply(ctlMail', f, session, Told(f))
      BY <1>2, <2>1, ReplyOn
    <2>4. IsRead(c, f, session) => Settles(m, f, session, Told(f))
      <3>1. live.toggle \in 0 .. 2
        BY DEF ValuesInv, SettingsFormed
      <3>2. ASSUME NEW v \in Answers(f), ~(f = "toggle" /\ v = 1) PROVE Shown(f, v) = Told(f)
        BY <3>1, <3>2 DEF Answers, Shown, Told, Got
      <3> QED
        BY <2>1, <3>2 DEF IsRead, Settles
    <2> QED
      BY <1>3, <1>4, <2>2, <2>3, <2>4 DEF ValueFollows
  <1>9. CASE TakeSave(c) \/ TakeProfile(c)
    <2>1. c.op \notin {"get", "set"}
      BY <1>9 DEF TakeSave, TakeProfile
    <2>2. Told(f)' = Told(f)
      BY <1>9, ToldKept DEF TakeSave, TakeProfile
    <2>3. PICK m : m.call = c /\ ctlMail' = Append(ctlMail, m)
      BY <1>9 DEF TakeSave, TakeProfile, Returned
    <2>4. /\ LastReply(ctlMail, f, session, Told(f)) => LastReply(ctlMail', f, session, Told(f))
          /\ NoReply(ctlMail, f, session) => NoReply(ctlMail', f, session)
          /\ ~IsRead(c, f, session) /\ ~IsWrite(c, f)
      BY <1>2, <2>1, <2>3, ReplyOn DEF IsRead, IsWrite
    <2> QED
      BY <1>3, <1>4, <2>2, <2>4 DEF ValueFollows
  <1> QED
    BY <1>3, <1>6, <1>7, <1>8, <1>9

\* The daemon takes a call.
LEMMA TakenValues == ValuesInv /\ ControllerCallTaken => ValuesInv'
  <1> SUFFICES ASSUME ValuesInv, ControllerCallTaken PROVE ValuesInv'
    OBVIOUS
  <1>1. SettingsFormed' /\ SensorFollows'
    BY TakenFormed, TakenSensor
  <1>2. ready' = ready
    BY DEF ControllerCallTaken
  <1>3. \A f \in Fields : f \in unsure => f \in unsure'
    BY DEF ControllerCallTaken, TakeWrite, TakeRead, TakeSave, TakeProfile
  <1>4. ASSUME ready', NEW f \in Fields \ unsure' PROVE ValueFollows(f)'
    <2>1. f \notin unsure /\ ValueFollows(f)
      BY <1>2, <1>3, <1>4 DEF ValuesInv
    <2> QED
      BY <2>1, TakenFollows
  <1> QED
    BY <1>1, <1>4 DEF ValuesInv

-----------------------------------------------------------------------------

\* Calls that are formed are added.
LEMMA FormedJoined ==
    ASSUME SettingsFormed, NEW T, NEW add \in Seq(T), \A n \in DOMAIN add : FormedCall(add[n]),
           ctlCalls' = ctlCalls \o add, live' = live, DOMAIN values' = Fields, values'.toggle \in BOOLEAN,
           ctlMail' = ctlMail \/ (ctlMail # << >> /\ ctlMail' = Tail(ctlMail))
    PROVE  SettingsFormed'
  <1>1. PICK S : ctlCalls \in Seq(S)
    BY DEF SettingsFormed
  <1>2. PICK M : ctlMail \in Seq(M)
    BY DEF SettingsFormed
  <1>3. ctlCalls' \in Seq(S \cup T)
    <2>1. ctlCalls \in Seq(S \cup T) /\ add \in Seq(S \cup T)
      BY <1>1
    <2> QED
      BY <2>1
  <1>4. \A n \in DOMAIN ctlCalls' : FormedCall(ctlCalls'[n])
    <2>1. /\ DOMAIN ctlCalls = 1 .. Len(ctlCalls) /\ Len(ctlCalls) \in Nat
          /\ \A n \in DOMAIN ctlCalls' : n \notin DOMAIN ctlCalls => n - Len(ctlCalls) \in DOMAIN add
          /\ \A n \in DOMAIN ctlCalls' :
                ctlCalls'[n] = IF n \in DOMAIN ctlCalls THEN ctlCalls[n] ELSE add[n - Len(ctlCalls)]
      BY <1>1, Grown
    <2> QED
      BY <2>1 DEF SettingsFormed
  <1>5. ctlMail' \in Seq(M) /\ \A i \in DOMAIN ctlMail' : FormedCall(ctlMail'[i].call)
    <2>1. CASE ctlMail' = ctlMail
      BY <2>1, <1>2 DEF SettingsFormed
    <2>2. CASE ctlMail # << >> /\ ctlMail' = Tail(ctlMail)
      <3>1. /\ ctlMail' \in Seq(M)
            /\ \A n \in DOMAIN ctlMail' : n + 1 \in DOMAIN ctlMail /\ ctlMail'[n] = ctlMail[n + 1]
        BY <1>2, <2>2, Shrunk
      <3> QED
        BY <3>1 DEF SettingsFormed
    <2> QED
      BY <2>1, <2>2
  <1> QED
    BY <1>3, <1>4, <1>5 DEF SettingsFormed

\* A call that neither reads nor writes a setting is sent.
LEMMA OtherCall ==
    ASSUME ValuesInv, NEW c, c.op \notin {"get", "set"}, ctlCalls' = Append(ctlCalls, c),
           UNCHANGED <<live, sensor, behind, values, session, ready, unsure, ctlMail>>
    PROVE  ValuesInv'
  <1>1. PICK S : ctlCalls \in Seq(S)
    BY DEF ValuesInv, SettingsFormed
  <1>2. PICK add : add = <<c>>
    OBVIOUS
  <1>3. add \in Seq({c}) /\ DOMAIN add = {1} /\ add[1] = c
    BY <1>2
  <1>4. ctlCalls' = ctlCalls \o add
    BY <1>1, <1>2, GrownByOne
  <1>5. FormedCall(c)
    BY DEF FormedCall
  <1>6. SettingsFormed'
    BY <1>3, <1>4, <1>5, FormedJoined DEF ValuesInv, SettingsFormed
  <1>7. ASSUME NEW f \in Fields, ValueFollows(f) PROVE ValueFollows(f)'
    <2>1. NoWrite(add, f) /\ NoRead(add, f, session)
      BY <1>3 DEF NoWrite, NoRead, IsWrite, IsRead
    <2>2. /\ ReadComes(ctlCalls, f, session) => ReadComes(ctlCalls', f, session)
          /\ LastWrite(ctlCalls, f, values[f]) => LastWrite(ctlCalls', f, values[f])
          /\ NoWrite(ctlCalls, f) => NoWrite(ctlCalls', f)
          /\ NoRead(ctlCalls, f, session) => NoRead(ctlCalls', f, session)
      BY <1>1, <1>3, <1>4, <2>1, CallsJoined
    <2>3. Told(f)' = Told(f) /\ values' = values /\ session' = session /\ ctlMail' = ctlMail
      BY ToldKept
    <2> QED
      BY <1>7, <2>2, <2>3 DEF ValueFollows
  <1>8. ready' = ready /\ unsure' = unsure /\ SensorFollows'
    BY DEF ValuesInv, SensorFollows
  <1> QED
    BY <1>6, <1>7, <1>8 DEF ValuesInv

\* A setting is edited.
LEMMA EditFollows ==
    ASSUME ValuesInv, NEW f \in Fields, NEW v, f = "toggle" => v \in BOOLEAN,
           NEW T, NEW cs \in Seq(T), Edited(f, v, cs),
           \A n \in DOMAIN cs : FormedCall(cs[n]),
           \A g \in Fields : g # f => NoWrite(cs, g) /\ NoRead(cs, g, session),
           f = "dpi" => ReadComes(cs, f, session),
           f # "dpi" => LastWrite(cs, f, v) /\ NoRead(cs, f, session)
    PROVE  ValuesInv'
  <1>1. PICK S : ctlCalls \in Seq(S)
    BY DEF ValuesInv, SettingsFormed
  <1>2. /\ ctlCalls' = ctlCalls \o cs /\ values' = [values EXCEPT ![f] = v] /\ UNCHANGED <<live, sensor, behind>>
        /\ ctlMail' = ctlMail /\ session' = session /\ ready /\ ready' = ready
        /\ unsure' = IF f # "dpi" /\ Unseeded(f) THEN unsure \cup {f} ELSE unsure
    BY DEF Edited, OneMore, daemonParts
  <1>3. DOMAIN values' = Fields /\ values'.toggle \in BOOLEAN
    BY <1>2 DEF ValuesInv, SettingsFormed
  <1>4. SettingsFormed' /\ SensorFollows'
    BY <1>2, <1>3, FormedJoined DEF ValuesInv, SensorFollows
  <1>5. ASSUME NEW g \in Fields \ unsure' PROVE ValueFollows(g)'
    <2>1. g \notin unsure /\ ValueFollows(g)
      BY <1>2 DEF ValuesInv
    <2>2. CASE g # f
      <3>1. values'[g] = values[g]
        BY <1>2, <2>2 DEF ValuesInv, SettingsFormed
      <3>2. NoWrite(cs, g) /\ NoRead(cs, g, session)
        BY <2>2
      <3>3. /\ ReadComes(ctlCalls, g, session) => ReadComes(ctlCalls', g, session)
            /\ LastWrite(ctlCalls, g, values[g]) => LastWrite(ctlCalls', g, values[g])
            /\ NoWrite(ctlCalls, g) => NoWrite(ctlCalls', g)
            /\ NoRead(ctlCalls, g, session) => NoRead(ctlCalls', g, session)
        BY <1>1, <1>2, <3>2, CallsJoined
      <3>4. Told(g)' = Told(g)
        BY <1>2, ToldKept
      <3> QED
        BY <1>2, <2>1, <3>1, <3>3, <3>4 DEF ValueFollows
    <2>3. CASE g = f /\ f = "dpi"
      <3>1. ReadComes(ctlCalls', g, session)
        BY <1>1, <1>2, <2>3, CallsJoined
      <3> QED
        BY <1>2, <3>1 DEF ValueFollows
    <2>4. CASE g = f /\ f # "dpi"
      <3>1. ~Unseeded(f)
        BY <1>2, <2>4
      <3>2. PICK M : ctlMail \in Seq(M)
        BY DEF ValuesInv, SettingsFormed
      <3>3. DOMAIN ctlCalls = 1 .. Len(ctlCalls) /\ DOMAIN ctlMail = 1 .. Len(ctlMail)
        BY <1>1, <3>2
      <3>4. ASSUME NEW c, FormedCall(c), IsRead(c, f, session) PROVE c = CtlCall("get", f)
        BY <3>4 DEF FormedCall, IsRead, CtlCall
      <3>5. NoRead(ctlCalls, f, session) /\ NoReply(ctlMail, f, session)
        BY <3>1, <3>3, <3>4 DEF Unseeded, NoRead, NoReply, ValuesInv, SettingsFormed
      <3>6. LastWrite(ctlCalls', f, v) /\ NoRead(ctlCalls', f, session)
        BY <1>1, <1>2, <2>4, <3>5, CallsJoined
      <3>7. values'[f] = v
        BY <1>2 DEF ValuesInv, SettingsFormed
      <3> QED
        BY <1>2, <2>4, <3>5, <3>6, <3>7 DEF ValueFollows
    <2> QED
      BY <2>2, <2>3, <2>4
  <1> QED
    BY <1>4, <1>5 DEF ValuesInv

\* A setting of which only the write is sent.
LEMMA OneWrite ==
    ASSUME ValuesInv, NEW f \in Fields, f # "dpi", NEW v, f = "toggle" => v \in BOOLEAN,
           Edited(f, v, <<Write(f, v)>>)
    PROVE  ValuesInv'
  <1>1. PICK c : c = Write(f, v)
    OBVIOUS
  <1>2. c.op = "set" /\ c.x.field = f /\ c.x.value = v
    BY <1>1 DEF Write, CtlCall
  <1>3. PICK cs : cs = <<c>> /\ Edited(f, v, cs)
    BY <1>1
  <1>4. cs \in Seq({c}) /\ DOMAIN cs = {1} /\ cs[1] = c
    BY <1>3
  <1>5. \A n \in DOMAIN cs : FormedCall(cs[n])
    BY <1>2, <1>4 DEF FormedCall
  <1>6. \A g \in Fields : (g # f => NoWrite(cs, g)) /\ NoRead(cs, g, session)
    BY <1>2, <1>4 DEF NoWrite, NoRead, IsWrite, IsRead
  <1>7. LastWrite(cs, f, v)
    BY <1>2, <1>4 DEF LastWrite, IsWrite
  <1> QED
    BY <1>3, <1>4, <1>5, <1>6, <1>7, EditFollows

\* The DPI is written and read back.
LEMMA DpiSet == ASSUME ValuesInv, NEW v, setDpi(v) PROVE ValuesInv'
  <1>1. PICK c, d : c = Write("dpi", v) /\ d = CtlCall("get", "dpi")
    OBVIOUS
  <1>2. /\ c.op = "set" /\ c.x.field = "dpi"
        /\ d.op = "get" /\ d.x = "dpi" /\ d.by = session /\ FormedCall(d)
    BY <1>1 DEF Write, CtlCall, FormedCall
  <1>3. PICK cs : cs = <<c, d>> /\ Edited("dpi", v, cs)
    BY <1>1 DEF setDpi
  <1>4. cs \in Seq({c, d}) /\ DOMAIN cs = {1, 2} /\ cs[1] = c /\ cs[2] = d
    BY <1>3
  <1>5. \A n \in DOMAIN cs : FormedCall(cs[n])
    BY <1>2, <1>4 DEF FormedCall, Fields
  <1>6. \A g \in Fields : g # "dpi" => NoWrite(cs, g) /\ NoRead(cs, g, session)
    BY <1>2, <1>4 DEF NoWrite, NoRead, IsWrite, IsRead
  <1>7. ReadComes(cs, "dpi", session)
    BY <1>2, <1>4 DEF ReadComes, IsRead, IsWrite
  <1> QED
    BY <1>3, <1>4, <1>5, <1>6, <1>7, EditFollows DEF Fields

\* Another device is selected, or none.
LEMMA SelectedValues == ASSUME ValuesInv, NEW v, selectDevice(v) PROVE ValuesInv'
  <1>1. /\ ready' = FALSE /\ values' = Blank /\ ctlMail' = ctlMail /\ UNCHANGED <<live, sensor, behind>>
        /\ ctlCalls' = IF v THEN Append(ctlCalls, [op |-> "introspect", x |-> 0, by |-> session']) ELSE ctlCalls
    BY DEF selectDevice, OneMore, daemonParts
  <1>2. DOMAIN values' = Fields /\ values'.toggle \in BOOLEAN
    BY <1>1 DEF ValuesInv, SettingsFormed, Blank, Fields
  <1>3. SettingsFormed'
    <2>1. CASE v
      <3>1. PICK c : c.op = "introspect" /\ ctlCalls' = Append(ctlCalls, c)
        BY <1>1, <2>1
      <3>2. PICK S : ctlCalls \in Seq(S)
        BY DEF ValuesInv, SettingsFormed
      <3>3. PICK add : add = <<c>>
        OBVIOUS
      <3>4. add \in Seq({c}) /\ DOMAIN add = {1} /\ add[1] = c
        BY <3>3
      <3>5. ctlCalls' = ctlCalls \o add
        BY <3>1, <3>2, <3>3, GrownByOne
      <3>6. FormedCall(c)
        BY <3>1 DEF FormedCall
      <3> QED
        BY <1>1, <1>2, <3>4, <3>5, <3>6, FormedJoined DEF ValuesInv
    <2>2. CASE ~v
      BY <1>1, <1>2, <2>2 DEF ValuesInv, SettingsFormed
    <2> QED
      BY <2>1, <2>2
  <1> QED
    BY <1>1, <1>3 DEF ValuesInv, SensorFollows

\* The introspection is applied: every setting is read.
LEMMA IntrospectedValues ==
    ASSUME ValuesInv, ctlMail # << >>, ctlMail' = Tail(ctlMail), NEW ok, applyIntrospection(ok),
           UNCHANGED <<live, sensor, behind, session, unsure>>
    PROVE  ValuesInv'
  <1>1. /\ values' = values /\ ready' = ok
        /\ ctlCalls' = IF ok THEN ctlCalls \o <<CtlCall("get", "dpi"), CtlCall("get", "presets"), CtlCall("get", "toggle")>>
                       ELSE ctlCalls
    BY DEF applyIntrospection
  <1>2. PICK S : ctlCalls \in Seq(S)
    BY DEF ValuesInv, SettingsFormed
  <1>3. CASE ok
    <2>1. PICK a, b, c : a = CtlCall("get", "dpi") /\ b = CtlCall("get", "presets") /\ c = CtlCall("get", "toggle")
      OBVIOUS
    <2>2. /\ IsRead(a, "dpi", session) /\ IsRead(b, "presets", session) /\ IsRead(c, "toggle", session)
          /\ \A f : ~IsWrite(a, f) /\ ~IsWrite(b, f) /\ ~IsWrite(c, f)
          /\ FormedCall(a) /\ FormedCall(b) /\ FormedCall(c)
      BY <2>1 DEF IsRead, IsWrite, CtlCall, FormedCall
    <2>3. PICK add : add = <<a, b, c>> /\ ctlCalls' = ctlCalls \o add
      BY <1>1, <1>3, <2>1
    <2>4. add \in Seq({a, b, c}) /\ DOMAIN add = {1, 2, 3} /\ add[1] = a /\ add[2] = b /\ add[3] = c
      BY <2>3
    <2>5. \A f \in Fields : ReadComes(add, f, session)
      BY <2>2, <2>4 DEF ReadComes, Fields
    <2>6. SettingsFormed'
      <3>1. \A n \in DOMAIN add : FormedCall(add[n])
        BY <2>2, <2>4
      <3>2. DOMAIN values' = Fields /\ values'.toggle \in BOOLEAN
        BY <1>1 DEF ValuesInv, SettingsFormed
      <3> QED
        BY <2>3, <2>4, <3>1, <3>2, FormedJoined DEF ValuesInv
    <2>7. \A f \in Fields : ReadComes(ctlCalls', f, session)
      BY <1>2, <2>3, <2>4, <2>5, CallsJoined
    <2> QED
      BY <2>6, <2>7 DEF ValuesInv, ValueFollows, SensorFollows
  <1>4. CASE ~ok
    <2>1. PICK add : add = << >>
      OBVIOUS
    <2>2. add \in Seq({}) /\ DOMAIN add = {} /\ ctlCalls' = ctlCalls \o add
      BY <1>1, <1>2, <1>4, <2>1
    <2>3. SettingsFormed'
      BY <1>1, <2>2, FormedJoined DEF ValuesInv, SettingsFormed
    <2> QED
      BY <1>1, <1>4, <2>3 DEF ValuesInv, SensorFollows
  <1> QED
    BY <1>3, <1>4

\* ReplyOff for the mail of the settings.
LEMMA FirstReplyOff ==
    ASSUME SettingsFormed, ctlMail # << >>, ctlMail' = Tail(ctlMail), NEW m, m = Head(ctlMail), NEW f, NEW s, NEW v
    PROVE  /\ LastReply(ctlMail, f, s, v) => LastReply(ctlMail', f, s, v) \/ (Settles(m, f, s, v) /\ NoReply(ctlMail', f, s))
           /\ NoReply(ctlMail, f, s) => NoReply(ctlMail', f, s) /\ ~IsRead(m.call, f, s)
  <1>1. PICK S : ctlMail \in Seq(S)
    BY DEF SettingsFormed
  <1>2. PICK ml, rest : ml = ctlMail /\ rest = ctlMail'
    OBVIOUS
  <1>3. ml \in Seq(S) /\ ml # << >> /\ rest = Tail(ml) /\ m = Head(ml)
    BY <1>1, <1>2
  <1>4. /\ LastReply(ml, f, s, v) => LastReply(rest, f, s, v) \/ (Settles(m, f, s, v) /\ NoReply(rest, f, s))
        /\ NoReply(ml, f, s) => NoReply(rest, f, s) /\ ~IsRead(m.call, f, s)
    BY <1>3, ReplyOff
  <1> QED
    BY <1>2, <1>4

\* A reply is handled that does not change which selection is shown.
LEMMA HandledValues ==
    ASSUME ValuesInv, ctlMail # << >>, ctlMail' = Tail(ctlMail), NEW m, m = Head(ctlMail),
           \/ m.call.op = "get" /\ m.call.by = session /\ seed(m.call.x, m.ok, m.value)
           \/ ~(m.call.op = "get" /\ m.call.by = session) /\ UNCHANGED <<values, ready, ctlCalls>>,
           UNCHANGED <<live, sensor, behind, session, unsure>>
    PROVE  ValuesInv'
  <1>1. PICK S : ctlMail \in Seq(S)
    BY DEF ValuesInv, SettingsFormed
  <1>2. /\ ready' = ready /\ ctlCalls' = ctlCalls /\ DOMAIN values' = Fields
        /\ \A f \in Fields :
              values'[f] = IF IsRead(m.call, f, session) /\ m.ok THEN Shown(f, m.value) ELSE values[f]
        /\ values'.toggle \in BOOLEAN
    <2>1. CASE m.call.op = "get" /\ m.call.by = session /\ seed(m.call.x, m.ok, m.value)
      BY <2>1 DEF seed, Shown, IsRead, ValuesInv, SettingsFormed, Fields
    <2>2. CASE ~(m.call.op = "get" /\ m.call.by = session) /\ UNCHANGED <<values, ready, ctlCalls>>
      BY <2>2 DEF IsRead, ValuesInv, SettingsFormed
    <2> QED
      BY <2>1, <2>2
  <1>3. SettingsFormed'
    <2>1. PICK add : add = << >>
      OBVIOUS
    <2>2. add \in Seq({}) /\ DOMAIN add = {}
      BY <2>1
    <2>3. ctlCalls' = ctlCalls \o add
      BY <1>2, <2>1 DEF ValuesInv, SettingsFormed
    <2> QED
      BY <1>2, <2>2, <2>3, FormedJoined DEF ValuesInv, SettingsFormed
  <1>4. ASSUME NEW f \in Fields, ValueFollows(f) PROVE ValueFollows(f)'
    <2>1. /\ LastReply(ctlMail, f, session, Told(f)) =>
                \/ LastReply(ctlMail', f, session, Told(f))
                \/ Settles(m, f, session, Told(f)) /\ NoReply(ctlMail', f, session)
          /\ NoReply(ctlMail, f, session) => NoReply(ctlMail', f, session) /\ ~IsRead(m.call, f, session)
      BY FirstReplyOff DEF ValuesInv
    <2>2. ReadComes(ctlCalls, f, session) \/ ~(NoWrite(ctlCalls, f) /\ ~NoRead(ctlCalls, f, session))
      BY DEF ReadComes, NoWrite, NoRead
    <2>3. Told(f)' = Told(f)
      BY ToldKept
    <2> QED
      BY <1>2, <1>4, <2>1, <2>2, <2>3 DEF ValueFollows, Settles
  <1> QED
    BY <1>2, <1>3, <1>4 DEF ValuesInv, SensorFollows

\* The client handles a reply.
LEMMA RepliedValues == ValuesInv /\ ControllerReplied => ValuesInv'
  <1> SUFFICES ASSUME ValuesInv, ControllerReplied PROVE ValuesInv'
    OBVIOUS
  <1>1. PICK m : m = Head(ctlMail)
    OBVIOUS
  <1>2. ctlMail # << >> /\ ctlMail' = Tail(ctlMail) /\ UNCHANGED <<live, sensor, behind, session, unsure>>
    BY DEF ControllerReplied, daemonParts
  <1>3. \/ applyIntrospection(m.ok)
        \/ m.call.op = "get" /\ m.call.by = session /\ seed(m.call.x, m.ok, m.value)
        \/ ~(m.call.op = "get" /\ m.call.by = session) /\ UNCHANGED <<values, ready, ctlCalls>>
    BY <1>1 DEF ControllerReplied, onSaveReplied, onClearReplied, Ignored
  <1>4. CASE applyIntrospection(m.ok)
    BY <1>2, <1>4, IntrospectedValues
  <1>5. CASE ~applyIntrospection(m.ok)
    BY <1>1, <1>2, <1>3, <1>5, HandledValues
  <1> QED
    BY <1>4, <1>5

\* The steps.
LEMMA NextValues == ValuesInv /\ [ControllerNext]_controllerVars => ValuesInv'
  <1> SUFFICES ASSUME ValuesInv, [ControllerNext]_controllerVars PROVE ValuesInv'
    OBVIOUS
  <1>1. CASE \E v \in Dpis : setDpi(v) \/ addPreset(v)
    <2>1. PICK v \in Dpis : setDpi(v) \/ addPreset(v)
      BY <1>1
    <2>2. CASE setDpi(v)
      BY <2>2, DpiSet
    <2>3. CASE addPreset(v)
      BY <2>3, OneWrite DEF addPreset, syncPresets, Fields
    <2> QED
      BY <2>1, <2>2, <2>3
  <1>2. CASE \E v \in BOOLEAN : setToggle(v) \/ selectDevice(v)
    BY <1>2, OneWrite, SelectedValues DEF setToggle, Fields
  <1>3. CASE removePreset
    BY <1>3, OneWrite DEF removePreset, syncPresets, Fields
  <1>4. CASE save \/ restoreDefaults \/ profileSwitched
    <2>1. PICK c : c.op \notin {"get", "set"} /\ ctlCalls' = Append(ctlCalls, c)
      BY <1>4 DEF save, restoreDefaults, profileSwitched, CtlCall
    <2>2. UNCHANGED <<live, sensor, behind, values, session, ready, unsure, ctlMail>>
      BY <1>4 DEF save, restoreDefaults, profileSwitched, OneMore, daemonParts
    <2> QED
      BY <2>1, <2>2, OtherCall
  <1>5. CASE ControllerCallTaken
    BY <1>5, TakenValues
  <1>6. CASE ControllerReplied
    BY <1>6, RepliedValues
  <1>7. CASE UNCHANGED controllerVars
    <2>1. UNCHANGED <<live, sensor, behind, ctlCalls, ctlMail, session, ready, values, unsure>>
      BY <1>7 DEF controllerVars
    <2> QED
      BY <2>1 DEF ValuesInv, SettingsFormed, SensorFollows, ValueFollows, Told, Got, getDPI
  <1> QED
    BY <1>1, <1>2, <1>3, <1>4, <1>5, <1>6, <1>7 DEF ControllerNext

\* Without calls and replies under way, the values are the daemon's.
LEMMA ValuesTold == ValuesInv => ValuesAreDaemons
  <1> SUFFICES ASSUME ValuesInv, ControllerQuiet, ready
               PROVE  /\ \A f \in Fields \ unsure : values[f] = Told(f)
                      /\ "dpi" \notin unsure /\ ~behind => sensor = Snap(values.dpi)
    BY DEF ValuesAreDaemons
  <1>1. ctlCalls = << >> /\ ctlMail = << >>
    BY DEF ControllerQuiet
  <1>2. DOMAIN ctlCalls = {} /\ DOMAIN ctlMail = {}
    BY <1>1
  <1>3. \A f \in Fields \ unsure : values[f] = Told(f)
    BY <1>2 DEF ValuesInv, ValueFollows, ReadComes, LastReply, LastWrite
  <1>4. "dpi" \notin unsure => values.dpi = IF live.dpi = 0 THEN sensor ELSE live.dpi
    BY <1>3 DEF Told, Got, getDPI, Fields
  <1> QED
    BY <1>3, <1>4 DEF ValuesInv, SensorFollows

\* For any values and any number of inputs: once every call is answered, each
\* setting shown is the daemon's and the sensor has the DPI shown, however edits, reads and selections overlap
\* (DeviceController::setDpi, applyIntrospection and the seeds of its reads),
\* with the exceptions of ValuesAreDaemons.
THEOREM ValuesShown == ControllerSpec => []ValuesAreDaemons
  <1>1. ControllerSpec => []ValuesInv
    BY ValuesStart, NextValues, PTL DEF ControllerSpec
  <1> QED
    BY <1>1, ValuesTold, PTL

-----------------------------------------------------------------------------
(* ProfilesModel: the profiles of a device in the client                    *)

\* The calls and the replies there are.
RenameRecords  == [old : Names, new : Names, created : BOOLEAN]
ProfileCalls   == [op : {"set"}, name : Names, from : Names]
                  \cup [op : {"remove"}, name : Names, newer : Names]
                  \cup [op : {"get"}, rename : RenameRecords]
ProfileReplies == [call : ProfileCalls, ok : BOOLEAN, list : SUBSET Names]

\* What has been dropped, and S, what is there or has been dropped, bear a
\* call out: what it removes has been dropped, and the name that replaces it
\* is in S.
Grounded(c, S, dr) ==
    CASE c.op = "set"    -> c.from = c.name \/ c.from \in dr
      [] c.op = "remove" -> c.name \in dr /\ (c.newer = c.name \/ c.newer \in S)
      [] c.op = "get"    -> c.rename.created => c.rename.old \in dr
GroundedCalls(S, dr) == {c \in ProfileCalls : Grounded(c, S, dr)}

\* The same of a reply: a list that confirms the new name of a rename.
GroundedReplies(S, dr) ==
    {m \in ProfileReplies :
        /\ m.call.op # "remove" => Grounded(m.call, S, dr)
        /\ m.call.op = "get" /\ m.call.rename.created /\ m.ok /\ m.call.rename.new \in m.list
           => m.call.rename.new \in S}

\* The rows are the daemon's, or something is under way that makes them so.
RowsFollow ==
    \/ proCalls # << >>
    \/ /\ proMail # << >>
       /\ proMail[Len(proMail)].call.op = "get" /\ proMail[Len(proMail)].ok
          => proMail[Len(proMail)].list = profiles
    \/ proMail = << >> /\ (stale = TRUE \/ (ToSet(names) = profiles /\ active = current /\ default = Standard))

\* What is marked as active: a profile, or nothing.
Marks == Names \cup {""}

\* What the daemon and the list of the client consist of.
ProfileTypes ==
    /\ profiles \subseteq Names /\ IsFiniteSet(profiles) /\ current \in Names
    /\ names \in Seq(Names) /\ active \in Marks /\ dropped \subseteq Names
    /\ stale \in BOOLEAN

\* Calls and replies under way are backed by profiles that exist or were given up.
RenamesGrounded ==
    /\ proCalls \in Seq(GroundedCalls(profiles \cup dropped, dropped))
    /\ proMail \in Seq(GroundedReplies(profiles \cup dropped, dropped))
    /\ ~lost

\* What the profiles keep at every step.
ProfileInv == ProfileTypes /\ RenamesGrounded /\ RowsFollow

\* A sequence over a set is one over any larger set.
LEMMA Widened == ASSUME NEW A, NEW B, A \subseteq B, NEW s \in Seq(A) PROVE s \in Seq(B)
OBVIOUS

\* More in S and more dropped ground no less.
LEMMA GroundKept ==
    ASSUME NEW S, NEW T, S \subseteq T, NEW d, NEW e, d \subseteq e
    PROVE  /\ GroundedCalls(S, d) \subseteq GroundedCalls(T, e)
           /\ GroundedReplies(S, d) \subseteq GroundedReplies(T, e)
  <1>1. ASSUME NEW c \in ProfileCalls, Grounded(c, S, d) PROVE Grounded(c, T, e)
    <2>1. c.op \in {"set", "remove", "get"}
      BY DEF ProfileCalls
    <2> QED
      BY <1>1, <2>1 DEF Grounded
  <1>2. GroundedCalls(S, d) \subseteq GroundedCalls(T, e)
    BY <1>1 DEF GroundedCalls
  <1>3. \A m \in ProfileReplies : m.call \in ProfileCalls
    BY DEF ProfileReplies
  <1> QED
    BY <1>1, <1>2, <1>3 DEF GroundedReplies

\* What each kind of call has to show.
LEMMA GroundFor ==
    ASSUME NEW S, NEW d
    PROVE  /\ \A n \in Names : SetProfile(n, n) \in GroundedCalls(S, d)
           /\ \A n, m \in Names : m \in d => SetProfile(n, m) \in GroundedCalls(S, d)
           /\ \A n \in Names : n \in d => RemoveProfile(n, n) \in GroundedCalls(S, d)
           /\ \A n, m \in Names : n \in d /\ m \in S => RemoveProfile(n, m) \in GroundedCalls(S, d)
           /\ \A r \in RenameRecords : (r.created => r.old \in d) => GetProfiles(r) \in GroundedCalls(S, d)
  BY DEF GroundedCalls, Grounded, ProfileCalls, SetProfile, RemoveProfile, GetProfiles

\* Calls of G are sent.
SentSome(G, s, t) == \E cs \in Seq(G) : cs # << >> /\ t = s \o cs

\* One call is.
LEMMA OneSent ==
    ASSUME NEW G, NEW g \in G, NEW s, NEW t, t = s \o <<g>>
    PROVE  SentSome(G, s, t)
  <1>1. <<g>> \in Seq(G) /\ <<g>> # << >>
    OBVIOUS
  <1> QED
    BY <1>1 DEF SentSome

\* The initial states.
LEMMA ProfileStart == ProfileInit => ProfileInv
  <1> SUFFICES ASSUME ProfileInit PROVE ProfileInv
    OBVIOUS
  <1>1. profiles \subseteq Names /\ IsFiniteSet(profiles)
    BY NamesAssumption, FS_Subset DEF ProfileInit
  <1>2. names \in Seq(profiles) /\ ToSet(names) = profiles
    BY <1>1, Listing DEF ProfileInit
  <1>3. names \in Seq(Names)
    BY <1>1, <1>2, Widened
  <1>4. ProfileTypes
    BY <1>1, <1>3, StandardAssumption DEF ProfileInit, ProfileTypes, Marks
  <1>5. RenamesGrounded
    BY DEF ProfileInit, RenamesGrounded
  <1>6. RowsFollow
    BY <1>2 DEF ProfileInit, RowsFollow
  <1> QED
    BY <1>4, <1>5, <1>6 DEF ProfileInv

\* The daemon takes a call.
LEMMA CallTakenKeeps == ProfileInv /\ ProfileCallTaken => ProfileInv'
  <1> SUFFICES ASSUME ProfileInv, ProfileCallTaken PROVE ProfileInv'
    OBVIOUS
  <1> DEFINE c == Head(proCalls)
             S == profiles \cup dropped
             T == profiles' \cup dropped
  <1>0. /\ proCalls \in Seq(GroundedCalls(S, dropped)) /\ proMail \in Seq(GroundedReplies(S, dropped))
        /\ proCalls # << >> /\ ~lost
    BY DEF ProfileInv, RenamesGrounded, ProfileCallTaken
  <1>1. /\ c \in GroundedCalls(S, dropped)
        /\ proCalls' \in Seq(GroundedCalls(S, dropped))
    BY <1>0 DEF ProfileCallTaken
  <1>2. c \in ProfileCalls /\ Grounded(c, S, dropped)
    BY <1>1 DEF GroundedCalls
  <1>3. UNCHANGED <<names, active, default, acts, stale, dropped>>
    BY DEF ProfileCallTaken
  <1>4. S \subseteq T /\ profiles' \subseteq Names /\ IsFiniteSet(profiles') /\ current' \in Names /\ ~lost'
    <2>1. CASE TakeSetProfile(c)
      <3>1. c.name \in Names
        BY <1>2, <2>1 DEF TakeSetProfile, ProfileCalls
      <3> QED
        BY <2>1, <3>1, <1>0, FS_AddElement DEF TakeSetProfile, ProfileInv, ProfileTypes
    <2>2. CASE TakeRemoveProfile(c)
      <3>1. c.name \in dropped /\ (c.newer = c.name \/ c.newer \in S)
        BY <1>2, <2>2 DEF TakeRemoveProfile, Grounded
      <3>2. profiles' \subseteq profiles /\ S \subseteq T /\ current' = current
        BY <2>2, <3>1 DEF TakeRemoveProfile
      <3>3. ~lost'
        BY <2>2, <3>1, <1>0 DEF TakeRemoveProfile
      <3> QED
        BY <3>2, <3>3, FS_Subset DEF ProfileInv, ProfileTypes
    <2>3. CASE TakeGetProfiles(c) \/ TakeNothing(c)
      <3>1. profiles' = profiles /\ current' = current /\ lost' = lost
        BY <2>3 DEF TakeGetProfiles, TakeNothing
      <3> QED
        BY <3>1, <1>0 DEF ProfileInv, ProfileTypes
    <2> QED
      BY <2>1, <2>2, <2>3 DEF ProfileCallTaken
  <1>5. PICK r \in GroundedReplies(T, dropped) :
           /\ proMail' = Append(proMail, r)
           /\ r.call.op = "get" => r.list = profiles'
    <2>1. ASSUME NEW ok \in BOOLEAN, NEW l \in SUBSET Names, Answer(c, ok, l),
                 c.op = "get" => l = profiles /\ profiles' = profiles
          PROVE  \E r \in GroundedReplies(T, dropped) :
                    proMail' = Append(proMail, r) /\ (r.call.op = "get" => r.list = profiles')
      <3> DEFINE r == [call |-> c, ok |-> ok, list |-> l]
      <3>1. r \in ProfileReplies /\ r.call = c /\ r.list = l
        BY <1>2 DEF ProfileReplies
      <3>2. c.op # "remove" => Grounded(c, T, dropped)
        BY <1>2 DEF Grounded, ProfileCalls
      <3>3. r \in GroundedReplies(T, dropped)
        BY <3>1, <3>2, <2>1 DEF GroundedReplies
      <3> QED
        BY <3>1, <3>3, <2>1 DEF Answer
    <2>2. profiles \in SUBSET Names /\ {} \in SUBSET Names
      BY DEF ProfileInv, ProfileTypes
    <2>3. CASE TakeSetProfile(c)
      BY <2>1, <2>2, <2>3 DEF TakeSetProfile
    <2>4. CASE TakeRemoveProfile(c)
      BY <2>1, <2>2, <2>4 DEF TakeRemoveProfile
    <2>5. CASE TakeGetProfiles(c)
      BY <2>1, <2>2, <2>5 DEF TakeGetProfiles
    <2>6. CASE TakeNothing(c)
      BY <2>1, <2>2, <2>6 DEF TakeNothing
    <2> QED
      BY <2>3, <2>4, <2>5, <2>6 DEF ProfileCallTaken
  <1>6. RenamesGrounded'
    <2>1. proCalls' \in Seq(GroundedCalls(T, dropped)) /\ proMail \in Seq(GroundedReplies(T, dropped))
      BY <1>0, <1>1, <1>4, GroundKept, Widened
    <2>2. proMail' \in Seq(GroundedReplies(T, dropped))
      BY <2>1, <1>5
    <2> QED
      BY <2>1, <2>2, <1>3, <1>4 DEF RenamesGrounded
  <1>7. RowsFollow'
    <2>1. proMail' # << >> /\ proMail'[Len(proMail')] = r
      BY <1>0, <1>5, Appended
    <2> QED
      BY <2>1, <1>5 DEF RowsFollow
  <1>8. ProfileTypes'
    BY <1>3, <1>4 DEF ProfileTypes, ProfileInv
  <1> QED
    BY <1>6, <1>7, <1>8 DEF ProfileInv

\* An edit.
LEMMA ProfileEditKeeps ==
    ASSUME ProfileInv, NEW n \in Names, NEW o \in Names,
           createProfile(n) \/ switchProfile(n) \/ removeProfile(n) \/ renameProfile(o, n)
    PROVE  ProfileInv'
  <1>0. /\ names \in Seq(Names) /\ active \in Marks /\ dropped \subseteq Names
        /\ proCalls \in Seq(GroundedCalls(profiles \cup dropped, dropped))
        /\ proMail \in Seq(GroundedReplies(profiles \cup dropped, dropped))
    BY DEF ProfileInv, ProfileTypes, RenamesGrounded
  <1>1. UNCHANGED <<profiles, current, proMail, default, stale, lost>>
    BY DEF createProfile, switchProfile, removeProfile, renameProfile, Act
  <1>2. /\ names' \in Seq(Names) /\ active' \in Marks /\ dropped \subseteq dropped' /\ dropped' \subseteq Names
        /\ SentSome(GroundedCalls(profiles \cup dropped', dropped'), proCalls, proCalls')
    <2>1. CASE createProfile(n)
      <3>1. SetProfile(n, n) \in GroundedCalls(profiles \cup dropped', dropped')
        BY GroundFor
      <3>2. names' \in Seq(Names) /\ active' = n /\ dropped' = dropped
        BY <2>1, <1>0 DEF createProfile
      <3>3. proCalls' = proCalls \o <<SetProfile(n, n)>>
        BY <2>1 DEF createProfile, Sends
      <3>4. SentSome(GroundedCalls(profiles \cup dropped', dropped'), proCalls, proCalls')
        BY <3>1, <3>3, OneSent
      <3> QED
        BY <3>2, <3>4, <1>0 DEF Marks
    <2>2. CASE switchProfile(n)
      <3>1. SetProfile(n, n) \in GroundedCalls(profiles \cup dropped', dropped')
        BY GroundFor
      <3>2. names' = names /\ active' = n /\ dropped' = dropped
        BY <2>2 DEF switchProfile
      <3>3. proCalls' = proCalls \o <<SetProfile(n, n)>>
        BY <2>2 DEF switchProfile, Sends
      <3>4. SentSome(GroundedCalls(profiles \cup dropped', dropped'), proCalls, proCalls')
        BY <3>1, <3>3, OneSent
      <3> QED
        BY <3>2, <3>4, <1>0 DEF Marks
    <2>3. CASE removeProfile(n)
      <3>1. PICK row \in 1 .. Len(names) : names' = RemoveAt(names, row)
        BY <2>3 DEF removeProfile
      <3>2. Len(names) > 1
        BY <2>3 DEF removeProfile
      <3>3. names' \in Seq(Names) /\ names' # << >>
        <4> DEFINE u == SubSeq(names, 1, row - 1)
                   v == SubSeq(names, row + 1, Len(names))
        <4>1. u \in Seq(Names) /\ Len(u) = row - 1
          BY <1>0, <3>1
        <4>2. v \in Seq(Names) /\ Len(v) = Len(names) - row
          <5>1. PICK k \in Int : k = row + 1
            BY <1>0, <3>1
          <5>2. \A i \in k .. Len(names) : names[i] \in Names
            BY <1>0, <3>1, <5>1
          <5>3. /\ v \in Seq(Names)
                /\ Len(v) = IF k <= Len(names) THEN Len(names) - k + 1 ELSE 0
            BY <1>0, <5>1, <5>2, SubSeqProperties
          <5>4. PICK l \in Nat : l = Len(names)
            BY <1>0
          <5>5. row \in 1 .. l
            BY <3>1, <5>4
          <5> QED
            BY <5>1, <5>3, <5>4, <5>5
        <4>3. names' = u \o v
          BY <3>1 DEF RemoveAt
        <4> HIDE DEF u, v
        <4>4. names' \in Seq(Names) /\ Len(names') = Len(u) + Len(v)
          <5>1. u \in Seq(Names) /\ v \in Seq(Names)
            BY <4>1, <4>2
          <5> QED
            BY <4>3, <5>1, Joined
        <4>5. PICK l \in Nat : l = Len(names) /\ l > 1
          BY <1>0, <3>2
        <4>6. row \in 1 .. l /\ Len(names') = (row - 1) + (l - row)
          BY <3>1, <4>1, <4>2, <4>4, <4>5
        <4>7. Len(names') > 0
          BY <4>5, <4>6
        <4> QED
          BY <4>4, <4>7
      <3>4. active' \in Marks /\ (active = n => active' \in Names)
        <4>1. PICK h \in Names : h = Head(names')
          BY <3>3
        <4>2. active' = IF active = n THEN h ELSE active
          BY <2>3, <4>1 DEF removeProfile
        <4>3. active \in Marks
          BY <1>0
        <4> QED
          BY <4>2, <4>3, Zenon DEF Marks
      <3>5. dropped' = dropped \cup {n}
        BY <2>3 DEF removeProfile
      <3>6. /\ RemoveProfile(n, n) \in GroundedCalls(profiles \cup dropped', dropped')
            /\ active = n => SetProfile(active', active') \in GroundedCalls(profiles \cup dropped', dropped')
        BY <3>4, <3>5, GroundFor
      <3>7. \/ active = n /\ proCalls' = proCalls \o (<<RemoveProfile(n, n)>> \o <<SetProfile(active', active')>>)
            \/ proCalls' = proCalls \o (<<RemoveProfile(n, n)>> \o << >>)
        BY <2>3 DEF removeProfile, Sends
      <3>8. SentSome(GroundedCalls(profiles \cup dropped', dropped'), proCalls, proCalls')
        <4> DEFINE G == GroundedCalls(profiles \cup dropped', dropped')
                   a == RemoveProfile(n, n)
                   b == SetProfile(active', active')
        <4> HIDE DEF a, b, G
        <4>1. a \in G /\ (active = n => b \in G)
          BY <3>6 DEF a, b, G
        <4>2. /\ active = n => <<a>> \o <<b>> \in Seq(G)
              /\ <<a>> \o << >> \in Seq(G) /\ <<a>> \o <<b>> # << >> /\ <<a>> \o << >> # << >>
          BY <4>1
        <4>3. \/ active = n /\ proCalls' = proCalls \o (<<a>> \o <<b>>)
              \/ proCalls' = proCalls \o (<<a>> \o << >>)
          BY <3>7 DEF a, b
        <4>4. SentSome(G, proCalls, proCalls')
          BY <4>2, <4>3 DEF SentSome
        <4> QED
          BY <4>4 DEF G
      <3> QED
        BY <3>3, <3>4, <3>5, <3>8, <1>0
    <2>4. CASE renameProfile(o, n)
      <3>1. dropped' = dropped \cup {o}
        BY <2>4 DEF renameProfile
      <3>2. SetProfile(n, o) \in GroundedCalls(profiles \cup dropped', dropped')
        BY <3>1, GroundFor
      <3>3. names' \in Seq(Names) /\ active' \in Marks
        <4>1. names' \in Seq(Names)
          BY <2>4, <1>0 DEF renameProfile
        <4>2. active \in Marks /\ active' = IF active = o THEN n ELSE active
          BY <2>4, <1>0 DEF renameProfile
        <4> QED
          BY <4>1, <4>2, Zenon DEF Marks
      <3>4. proCalls' = proCalls \o <<SetProfile(n, o)>>
        BY <2>4 DEF renameProfile, Sends
      <3>5. SentSome(GroundedCalls(profiles \cup dropped', dropped'), proCalls, proCalls')
        BY <3>2, <3>4, OneSent
      <3> QED
        BY <3>1, <3>3, <3>5, <1>0
    <2> QED
      BY <2>1, <2>2, <2>3, <2>4
  <1>3. RenamesGrounded'
    <2> DEFINE A == GroundedCalls(profiles \cup dropped, dropped)
               B == GroundedCalls(profiles \cup dropped', dropped')
               C == GroundedReplies(profiles \cup dropped, dropped)
               D == GroundedReplies(profiles \cup dropped', dropped')
    <2>1. A \subseteq B /\ C \subseteq D
      BY <1>2, GroundKept
    <2>2. proCalls \in Seq(B) /\ proMail' \in Seq(D)
      BY <1>0, <1>1, <2>1, Widened
    <2>3. proCalls' \in Seq(B)
      <3> HIDE DEF B
      <3> QED
        <4>1. PICK cs \in Seq(B) : proCalls' = proCalls \o cs
          BY <1>2 DEF SentSome, B
        <4> QED
          BY <2>2, <4>1
    <2> QED
      BY <1>1, <2>2, <2>3 DEF RenamesGrounded, ProfileInv
  <1>4. proCalls' # << >>
    <2> DEFINE B == GroundedCalls(profiles \cup dropped', dropped')
    <2>1. PICK cs \in Seq(B) : cs # << >> /\ proCalls' = proCalls \o cs
      BY <1>2 DEF SentSome
    <2> HIDE DEF B
    <2>2. PICK A : proCalls \in Seq(A)
      BY <1>0
    <2>3. Len(cs) > 0 /\ Len(proCalls') = Len(proCalls) + Len(cs) /\ Len(proCalls) \in Nat /\ Len(cs) \in Nat
      BY <2>1, <2>2
    <2> QED
      BY <2>3
  <1> QED
    BY <1>1, <1>2, <1>3, <1>4 DEF ProfileInv, ProfileTypes, RowsFollow

\* A reply is handled.
LEMMA ProfileReplyKeeps == ProfileInv /\ ProfileReplied => ProfileInv'
  <1> SUFFICES ASSUME ProfileInv, ProfileReplied PROVE ProfileInv'
    OBVIOUS
  <1> DEFINE m == Head(proMail)
             S == profiles \cup dropped
             G == GroundedCalls(S, dropped)
  <1>0. /\ proCalls \in Seq(G) /\ proMail \in Seq(GroundedReplies(S, dropped))
        /\ proMail # << >> /\ proMail' = Tail(proMail)
    BY DEF ProfileInv, RenamesGrounded, ProfileReplied
  <1>1. /\ m \in GroundedReplies(S, dropped) /\ m = proMail[1]
        /\ proMail' \in Seq(GroundedReplies(S, dropped))
        /\ Len(proMail) = 1 \/ (proMail' # << >> /\ proMail'[Len(proMail')] = proMail[Len(proMail)])
        /\ Len(proMail) = 1 => proMail' = << >>
    <2> DEFINE R == GroundedReplies(S, dropped)
    <2> HIDE DEF R
    <2>0. proMail \in Seq(R)
      BY <1>0 DEF R
    <2>1. Len(proMail) \in Nat \ {0} /\ m = proMail[1] /\ m \in R /\ proMail' \in Seq(R)
          /\ Len(proMail') = Len(proMail) - 1
          /\ \A i \in 1 .. Len(proMail) - 1 : proMail'[i] = proMail[i + 1]
      BY <1>0, <2>0, Taken
    <2>2. Len(proMail) = 1 => proMail' = << >>
      BY <2>1
    <2>3. ASSUME Len(proMail) # 1 PROVE proMail' # << >> /\ proMail'[Len(proMail')] = proMail[Len(proMail)]
      <3>1. PICK l \in Nat : l = Len(proMail)
        BY <2>1
      <3>2. l > 1 /\ l - 1 \in 1 .. l - 1 /\ (l - 1) + 1 = l
        BY <2>1, <2>3, <3>1
      <3>3. Len(proMail') = l - 1 /\ l - 1 > 0
        BY <2>1, <3>1, <3>2
      <3>4. proMail'[l - 1] = proMail[(l - 1) + 1]
        BY <2>1, <3>1, <3>2
      <3> QED
        BY <3>1, <3>2, <3>3, <3>4
    <2>4. /\ m \in R /\ m = proMail[1] /\ proMail' \in Seq(R)
          /\ Len(proMail) = 1 \/ (proMail' # << >> /\ proMail'[Len(proMail')] = proMail[Len(proMail)])
          /\ Len(proMail) = 1 => proMail' = << >>
      <3>1. m \in R /\ m = proMail[1] /\ proMail' \in Seq(R)
        BY <2>1
      <3>2. Len(proMail) = 1 \/ (proMail' # << >> /\ proMail'[Len(proMail')] = proMail[Len(proMail)])
        <4>1. CASE Len(proMail) = 1
          BY <4>1
        <4>2. CASE Len(proMail) # 1
          BY <2>3, <4>2
        <4> QED
          BY <4>1, <4>2
      <3> QED
        BY <2>2, <3>1, <3>2
    <2> QED
      BY <2>4 DEF R
  <1>2. /\ m.call \in ProfileCalls /\ m.ok \in BOOLEAN /\ m.list \subseteq Names
        /\ m.call.op # "remove" => Grounded(m.call, S, dropped)
        /\ m.call.op = "get" /\ m.call.rename.created /\ m.ok /\ m.call.rename.new \in m.list
           => m.call.rename.new \in S
    BY <1>1 DEF GroundedReplies, ProfileReplies
  <1>3. UNCHANGED <<profiles, current, acts, dropped, lost>>
    BY DEF ProfileReplied
  <1>4. CASE WriteReplied(m.call, m.ok)
    <2>0. UNCHANGED <<names, active, default, stale>>
      BY <1>4 DEF WriteReplied
    <2>1. PICK r \in RenameRecords : (r.created => r.old \in dropped) /\ proCalls' = proCalls \o <<GetProfiles(r)>>
      <3>1. CASE m.call.op = "set" /\ m.call.from # m.call.name
                 /\ Sends(<<GetProfiles([old |-> m.call.from, new |-> m.call.name, created |-> m.ok])>>)
        <4>1. m.call.from \in dropped
          BY <1>2, <3>1 DEF Grounded
        <4>2. m.call.from \in Names /\ m.call.name \in Names
          BY <1>2, <3>1 DEF ProfileCalls
        <4>3. [old |-> m.call.from, new |-> m.call.name, created |-> m.ok] \in RenameRecords
          BY <1>2, <4>2 DEF RenameRecords
        <4> QED
          BY <3>1, <4>1, <4>3 DEF Sends
      <3>2. CASE refresh
        BY <3>2, StandardAssumption DEF refresh, Sends, NoRename, RenameRecords
      <3> QED
        BY <1>4, <3>1, <3>2 DEF WriteReplied
    <2>2. GetProfiles(r) \in G
      BY <2>1, GroundFor
    <2>3. proCalls' \in Seq(G) /\ proCalls' # << >>
      <3> HIDE DEF G
      <3>1. PICK g \in G : g = GetProfiles(r)
        BY <2>2
      <3> QED
        BY <1>0, <2>1, <3>1
    <2> QED
      BY <1>1, <1>3, <2>0, <2>3 DEF ProfileInv, ProfileTypes, RenamesGrounded, RowsFollow
  <1>5. CASE GetReplied(m.call, m.ok, m.list)
    <2>0. m.call.op = "get" /\ stale' \in BOOLEAN
      BY <1>5 DEF GetReplied, seedProfiles
    <2>1. /\ names' \in Seq(Names) /\ active' \in Marks
          /\ \/ stale' = TRUE
             \/ m.ok /\ ToSet(names') = m.list /\ active' = current /\ default' = Standard
      <3>1. CASE m.ok
        <4>1. /\ names' = SetToSeq(m.list) /\ active' \in {current, ""}
              /\ stale' = TRUE \/ (active' = current /\ default' = Standard)
          BY <1>5, <3>1 DEF GetReplied, seedProfiles
        <4>2. IsFiniteSet(m.list)
          BY <1>2, NamesAssumption, FS_Subset
        <4>3. names' \in Seq(m.list) /\ ToSet(names') = m.list
          BY <4>1, <4>2, Listing
        <4>4. names' \in Seq(Names)
          BY <1>2, <4>3, Widened
        <4> QED
          BY <3>1, <4>1, <4>3, <4>4 DEF ProfileInv, ProfileTypes, Marks
      <3>2. CASE ~m.ok
        BY <1>5, <3>2 DEF GetReplied, ProfileInv, ProfileTypes
      <3> QED
        BY <3>1, <3>2
    <2>2. proCalls' \in Seq(G) /\ (proCalls' = proCalls \/ proCalls' # << >>)
      <3> DEFINE ren == m.call.rename
      <3>1. CASE ren.created /\ m.ok /\ ren.new \in m.list
        <4>1. ren.old \in dropped /\ ren.new \in S
          BY <1>2, <2>0, <3>1 DEF Grounded
        <4>2. ren.old \in Names /\ ren.new \in Names
          BY <1>2, <2>0 DEF ProfileCalls, RenameRecords
        <4>3. RemoveProfile(ren.old, ren.new) \in G
          BY <4>1, <4>2, GroundFor
        <4>4. proCalls' = proCalls \o <<RemoveProfile(ren.old, ren.new)>>
          BY <1>5, <3>1 DEF GetReplied, Sends
        <4> HIDE DEF G
        <4>5. PICK g \in G : g = RemoveProfile(ren.old, ren.new)
          BY <4>3
        <4> QED
          BY <1>0, <4>4, <4>5
      <3>2. CASE ~(ren.created /\ m.ok /\ ren.new \in m.list)
        <4>1. proCalls' = proCalls \o << >>
          BY <1>5, <3>2, Zenon DEF GetReplied, Sends
        <4> HIDE DEF G
        <4> QED
          BY <1>0, <4>1
      <3> QED
        BY <3>1, <3>2
    <2>3. RowsFollow'
      <3>1. CASE proCalls' # << >>
        BY <3>1 DEF RowsFollow
      <3>2. CASE proCalls' = << >>
        <4>1. proCalls = << >>
          BY <2>2, <3>2
        <4>2. proMail[Len(proMail)].call.op = "get" /\ proMail[Len(proMail)].ok
                => proMail[Len(proMail)].list = profiles
          BY <1>0, <4>1 DEF ProfileInv, RowsFollow
        <4>3. CASE Len(proMail) = 1
          <5>1. m.ok => m.list = profiles
            BY <1>1, <2>0, <4>2, <4>3
          <5>2. stale' = TRUE \/ (ToSet(names') = profiles' /\ active' = current' /\ default' = Standard)
            BY <1>3, <2>1, <5>1
          <5> QED
            BY <1>1, <4>3, <5>2 DEF RowsFollow
        <4>4. CASE Len(proMail) # 1
          BY <1>1, <1>3, <4>2, <4>4 DEF RowsFollow
        <4> QED
          BY <4>3, <4>4
      <3> QED
        BY <3>1, <3>2
    <2> QED
      BY <1>1, <1>2, <1>3, <2>0, <2>1, <2>2, <2>3 DEF ProfileInv, ProfileTypes, RenamesGrounded
  <1> QED
    BY <1>4, <1>5 DEF ProfileReplied

\* A step that leaves the profiles alone.
LEMMA ProfileStutter == ProfileInv /\ UNCHANGED profileVars => ProfileInv'
  BY DEF profileVars, ProfileInv, ProfileTypes, RenamesGrounded, RowsFollow

\* The steps.
LEMMA ProfileNextKeeps == ProfileInv /\ [ProfileNext]_profileVars => ProfileInv'
  BY ProfileEditKeeps, CallTakenKeeps, ProfileReplyKeeps, ProfileStutter DEF ProfileNext

\* Without calls and replies under way, the rows are the daemon's.
LEMMA ProfilesTold == ProfileInv => ProfilesAreDaemons
  BY DEF ProfileInv, RenamesGrounded, RowsFollow, ProfilesAreDaemons, ProfileQuiet

\* For any profiles and any number of edits: once every call is answered and
\* the list, the active and the default profile could be read, the rows and the
\* two marks are the daemon's; and no rename has removed the old name before the
\* new one was there, unless the user dropped the new one himself
\* (ProfilesModel::performRenameProfile).
THEOREM ProfilesShown == ProfileSpec => []ProfilesAreDaemons
  <1>1. ProfileSpec => []ProfileInv
    BY ProfileStart, ProfileNextKeeps, PTL DEF ProfileSpec
  <1> QED
    BY <1>1, ProfilesTold, PTL

-----------------------------------------------------------------------------
(***************************************************************************)
(* ButtonsModel: the row of a button                                       *)
(*                                                                         *)
(* A row that is not the daemon's is corrected by a read that is under     *)
(* way, or that the reply of a call under way will start. What a read has  *)
(* found is kept to be true by the order of the bus: without an overlap no *)
(* edit is behind a probe. And the parameter the daemon last accepted is   *)
(* the one it has, or the last one on its way: the last SetParam, or the   *)
(* SetParam that the last reply of a parametric SetAction will send.       *)
(***************************************************************************)

\* The calls and the replies there are. Only a parametric edit has a value, and
\* only its parameter is set.
SoundEdits    == {e \in Edit : e.type \notin Parametric => e.value = 0}
ButtonCalls   == [op : {"SetAction"}, edit : SoundEdits]
                 \cup [op : {"SetParam"}, edit : {e \in SoundEdits : e.type \in Parametric}]
                 \cup [op : {"GetAll"}, at : 1 .. Len(ActionTypes)]
                 \cup [op : {"Enumerate"}]
ButtonReplies == [call : ButtonCalls, ok : BOOLEAN]

\* Of the calls: no action is set, and no parameter; the last parameter that
\* is set is that of the type t, to v.
NoAction(cs) == \A i \in 1 .. Len(cs) : cs[i].op # "SetAction"
NoParam(cs)  == \A i \in 1 .. Len(cs) : cs[i].op # "SetParam"
LastParam(cs, t, v) ==
    \E i \in 1 .. Len(cs) :
        /\ cs[i].op = "SetParam" /\ cs[i].edit.type = t /\ cs[i].edit.value = v
        /\ \A j \in 1 .. Len(cs) : j > i => cs[j].op # "SetParam"

\* Of the mail: replies that a parameter follows; the last is of the type t and
\* the value v.
Continues(m) == m.call.op = "SetAction" /\ m.ok /\ m.call.edit.type \in Parametric
NoneContinues(ml) == \A i \in 1 .. Len(ml) : ~Continues(ml[i])
LastContinues(ml, t, v) ==
    \E i \in 1 .. Len(ml) :
        /\ Continues(ml[i]) /\ ml[i].call.edit.type = t /\ ml[i].call.edit.value = v
        /\ \A j \in 1 .. Len(ml) : j > i => ~Continues(ml[j])

\* The types probed before the one at n are not the button's.
Unmatched(n) == \A k \in 1 .. Len(ActionTypes) : k < n => bound # ActionTypes[k]

\* Without an overlap, the type is read behind every edit of it, so that what
\* a probe has found still holds.
ProbesBehind ==
    /\ \A i, j \in 1 .. Len(btnCalls) : i < j /\ btnCalls[i].op = "GetAll" => btnCalls[j].op # "SetAction"
    /\ \A i \in 1 .. Len(btnCalls) : btnCalls[i].op = "GetAll" =>
          Unmatched(btnCalls[i].at) /\ (btnCalls[i].at = 1 \/ NoAction(btnCalls))
    /\ \A i \in 1 .. Len(btnMail) : btnMail[i].call.op = "GetAll" =>
          /\ NoAction(btnCalls) /\ Unmatched(btnMail[i].call.at)
          /\ btnMail[i].ok <=> bound = ActionTypes[btnMail[i].call.at]

\* What leads to a read of the type.
Leads(c) == c.op \in {"SetAction", "SetParam", "GetAll"}

\* The row is right, or will be read.
RowFollows ==
    \/ shown = "absent" \/ Present(shown) = bound
    \/ \E i \in 1 .. Len(btnCalls) : Leads(btnCalls[i])
    \/ \E i \in 1 .. Len(btnMail) : Leads(btnMail[i].call)

\* The parameter is the accepted one, or on its way, or was not taken.
ParamFollows ==
    IF bound \in Parametric
    THEN \/ LastContinues(btnMail, bound, accepted.value)
         \/ NoneContinues(btnMail) /\ LastParam(btnCalls, bound, accepted.value)
         \/ /\ NoneContinues(btnMail) /\ NoParam(btnCalls)
            /\ accepted.value = param \/ "untaken" \in misread
    ELSE accepted.value = 0 /\ param = 0

\* What the daemon's button, the calls and the replies consist of.
ButtonShapes ==
    /\ bound \in Types \cup {"None"} /\ accepted.type = bound
    /\ btnCalls \in Seq(ButtonCalls) /\ btnMail \in Seq(ButtonReplies)

\* What a row keeps at every step, while no edits overlap.
ButtonInv ==
    /\ ButtonShapes
    /\ misread \subseteq {"halfway", "untaken"} => ProbesBehind /\ RowFollows
    /\ "halfway" \notin misread => ParamFollows


\* A call is sent.
LEMMA CallSent ==
    ASSUME NEW S, NEW cs \in Seq(S), NEW c, NEW all, all = Append(cs, c), NEW t, NEW v
    PROVE  /\ NoAction(cs) /\ c.op # "SetAction" => NoAction(all)
           /\ NoParam(cs) /\ c.op # "SetParam" => NoParam(all)
           /\ LastParam(cs, t, v) /\ c.op # "SetParam" => LastParam(all, t, v)
           /\ c.op = "SetParam" /\ c.edit.type = t /\ c.edit.value = v => LastParam(all, t, v)
           /\ Leads(c) => \E i \in 1 .. Len(all) : Leads(all[i])
           /\ (\E i \in 1 .. Len(cs) : Leads(cs[i])) => \E i \in 1 .. Len(all) : Leads(all[i])
  <1>1. /\ Len(cs) \in Nat /\ Len(all) = Len(cs) + 1
        /\ \A i \in 1 .. Len(cs) : i \in 1 .. Len(all) /\ all[i] = cs[i]
        /\ \A i \in 1 .. Len(all) : i \in 1 .. Len(cs) \/ i = Len(all)
        /\ Len(all) \in 1 .. Len(all) /\ all[Len(all)] = c
    BY Appended
  <1>2. \A i, j \in 1 .. Len(all) : j > i => i # Len(all)
    BY <1>1
  <1>3. \A i \in 1 .. Len(all) : all[i] = c \/ (i \in 1 .. Len(cs) /\ all[i] = cs[i])
    BY <1>1
  <1>4. /\ NoAction(cs) /\ c.op # "SetAction" => NoAction(all)
        /\ NoParam(cs) /\ c.op # "SetParam" => NoParam(all)
    BY <1>3 DEF NoAction, NoParam
  <1>5. ASSUME LastParam(cs, t, v), c.op # "SetParam" PROVE LastParam(all, t, v)
    <2>1. PICK i \in 1 .. Len(cs) : /\ cs[i].op = "SetParam" /\ cs[i].edit.type = t /\ cs[i].edit.value = v
                                    /\ \A j \in 1 .. Len(cs) : j > i => cs[j].op # "SetParam"
      BY <1>5 DEF LastParam
    <2>2. \A j \in 1 .. Len(all) : j > i => all[j].op # "SetParam"
      BY <1>3, <1>5, <2>1
    <2>3. i \in 1 .. Len(all) /\ all[i] = cs[i]
      BY <1>1
    <2> QED
      BY <2>1, <2>2, <2>3 DEF LastParam
  <1>6. ASSUME c.op = "SetParam", c.edit.type = t, c.edit.value = v PROVE LastParam(all, t, v)
    BY <1>1, <1>2, <1>6 DEF LastParam
  <1>7. /\ Leads(c) => \E i \in 1 .. Len(all) : Leads(all[i])
        /\ (\E i \in 1 .. Len(cs) : Leads(cs[i])) => \E i \in 1 .. Len(all) : Leads(all[i])
    BY <1>1
  <1> QED
    BY <1>4, <1>5, <1>6, <1>7

\* What the Tail of a sequence has of it.
LEMMA Shifted ==
    ASSUME NEW S, NEW s \in Seq(S), s # << >>, NEW t, t = Tail(s)
    PROVE  /\ t \in Seq(S) /\ Len(s) \in Nat /\ 1 \in 1 .. Len(s) /\ Head(s) = s[1] /\ s[1] \in S
           /\ \A i \in 1 .. Len(s) : i = 1 \/ (i - 1 \in 1 .. Len(t) /\ t[i - 1] = s[i])
           /\ \A i \in 1 .. Len(t) : i + 1 \in 1 .. Len(s) /\ t[i] = s[i + 1] /\ i + 1 > 1 /\ i \in Int
           /\ \A i \in 1 .. Len(s), j \in 1 .. Len(t) : j > i - 1 => j + 1 > i
  <1>1. /\ Len(s) \in Nat \ {0} /\ Len(t) = Len(s) - 1
        /\ \A i \in 1 .. Len(s) - 1 : t[i] = s[i + 1]
        /\ Head(s) = s[1] /\ s[1] \in S /\ t \in Seq(S)
    BY Taken
  <1>2. PICK l \in Nat \ {0} : l = Len(s)
    BY <1>1, Zenon
  <1>3. /\ \A i \in 1 .. l : i = 1 \/ (i - 1 \in 1 .. l - 1 /\ (i - 1) + 1 = i)
        /\ \A i \in 1 .. l - 1 : i + 1 \in 1 .. l /\ i + 1 > 1 /\ i \in Int
        /\ \A i \in 1 .. l, j \in 1 .. l - 1 : j > i - 1 => j + 1 > i
        /\ 1 \in 1 .. l
    BY <1>2
  <1> QED
    BY <1>1, <1>2, <1>3

\* The first call is taken.
LEMMA FirstCall ==
    ASSUME NEW S, NEW cs \in Seq(S), cs # << >>, NEW rest, rest = Tail(cs), NEW c, c = Head(cs), NEW t, NEW v
    PROVE  /\ NoAction(cs) => NoAction(rest) /\ c.op # "SetAction"
           /\ NoParam(cs) => NoParam(rest) /\ c.op # "SetParam"
           /\ LastParam(cs, t, v) =>
                 LastParam(rest, t, v)
                 \/ (c.op = "SetParam" /\ c.edit.type = t /\ c.edit.value = v /\ NoParam(rest))
           /\ (\E i \in 1 .. Len(cs) : Leads(cs[i])) => Leads(c) \/ \E i \in 1 .. Len(rest) : Leads(rest[i])
  <1>1. /\ 1 \in 1 .. Len(cs) /\ c = cs[1]
        /\ \A i \in 1 .. Len(cs) : i = 1 \/ (i - 1 \in 1 .. Len(rest) /\ rest[i - 1] = cs[i])
        /\ \A i \in 1 .. Len(rest) : i + 1 \in 1 .. Len(cs) /\ rest[i] = cs[i + 1] /\ i + 1 > 1 /\ i \in Int
        /\ \A i \in 1 .. Len(cs), j \in 1 .. Len(rest) : j > i - 1 => j + 1 > i
    BY Shifted
  <1>2. /\ NoAction(cs) => NoAction(rest) /\ c.op # "SetAction"
        /\ NoParam(cs) => NoParam(rest) /\ c.op # "SetParam"
    BY <1>1 DEF NoAction, NoParam
  <1>3. ASSUME LastParam(cs, t, v)
        PROVE  LastParam(rest, t, v)
               \/ (c.op = "SetParam" /\ c.edit.type = t /\ c.edit.value = v /\ NoParam(rest))
    <2>1. PICK i \in 1 .. Len(cs) : /\ cs[i].op = "SetParam" /\ cs[i].edit.type = t /\ cs[i].edit.value = v
                                    /\ \A j \in 1 .. Len(cs) : j > i => cs[j].op # "SetParam"
      BY <1>3 DEF LastParam
    <2>2. \A j \in 1 .. Len(rest) : j > i - 1 => rest[j].op # "SetParam"
      BY <1>1, <2>1
    <2>3. i = 1 => NoParam(rest)
      BY <1>1, <2>1 DEF NoParam
    <2> QED
      BY <1>1, <2>1, <2>2, <2>3 DEF LastParam
  <1>4. (\E i \in 1 .. Len(cs) : Leads(cs[i])) => Leads(c) \/ \E i \in 1 .. Len(rest) : Leads(rest[i])
    BY <1>1
  <1> QED
    BY <1>2, <1>3, <1>4

\* A reply is sent.
LEMMA ReplySent ==
    ASSUME NEW S, NEW ml \in Seq(S), NEW m, NEW all, all = Append(ml, m), NEW t, NEW v
    PROVE  /\ NoneContinues(ml) /\ ~Continues(m) => NoneContinues(all)
           /\ LastContinues(ml, t, v) /\ ~Continues(m) => LastContinues(all, t, v)
           /\ Continues(m) /\ m.call.edit.type = t /\ m.call.edit.value = v => LastContinues(all, t, v)
           /\ Leads(m.call) => \E i \in 1 .. Len(all) : Leads(all[i].call)
           /\ (\E i \in 1 .. Len(ml) : Leads(ml[i].call)) => \E i \in 1 .. Len(all) : Leads(all[i].call)
  <1>1. /\ Len(ml) \in Nat /\ Len(all) = Len(ml) + 1
        /\ \A i \in 1 .. Len(ml) : i \in 1 .. Len(all) /\ all[i] = ml[i]
        /\ \A i \in 1 .. Len(all) : i \in 1 .. Len(ml) \/ i = Len(all)
        /\ Len(all) \in 1 .. Len(all) /\ all[Len(all)] = m
    BY Appended
  <1>2. \A i, j \in 1 .. Len(all) : j > i => i # Len(all)
    BY <1>1
  <1>3. \A i \in 1 .. Len(all) : all[i] = m \/ (i \in 1 .. Len(ml) /\ all[i] = ml[i])
    BY <1>1
  <1>4. NoneContinues(ml) /\ ~Continues(m) => NoneContinues(all)
    BY <1>3 DEF NoneContinues
  <1>5. ASSUME LastContinues(ml, t, v), ~Continues(m) PROVE LastContinues(all, t, v)
    <2>1. PICK i \in 1 .. Len(ml) : /\ Continues(ml[i]) /\ ml[i].call.edit.type = t /\ ml[i].call.edit.value = v
                                    /\ \A j \in 1 .. Len(ml) : j > i => ~Continues(ml[j])
      BY <1>5 DEF LastContinues
    <2>2. \A j \in 1 .. Len(all) : j > i => ~Continues(all[j])
      BY <1>3, <1>5, <2>1
    <2>3. i \in 1 .. Len(all) /\ all[i] = ml[i]
      BY <1>1
    <2> QED
      BY <2>1, <2>2, <2>3 DEF LastContinues
  <1>6. ASSUME Continues(m), m.call.edit.type = t, m.call.edit.value = v PROVE LastContinues(all, t, v)
    BY <1>1, <1>2, <1>6 DEF LastContinues
  <1>7. /\ Leads(m.call) => \E i \in 1 .. Len(all) : Leads(all[i].call)
        /\ (\E i \in 1 .. Len(ml) : Leads(ml[i].call)) => \E i \in 1 .. Len(all) : Leads(all[i].call)
    BY <1>1
  <1> QED
    BY <1>4, <1>5, <1>6, <1>7

\* The first reply is handled.
LEMMA FirstReply ==
    ASSUME NEW S, NEW ml \in Seq(S), ml # << >>, NEW rest, rest = Tail(ml), NEW m, m = Head(ml), NEW t, NEW v
    PROVE  /\ NoneContinues(ml) => NoneContinues(rest) /\ ~Continues(m)
           /\ LastContinues(ml, t, v) =>
                 LastContinues(rest, t, v)
                 \/ (Continues(m) /\ m.call.edit.type = t /\ m.call.edit.value = v /\ NoneContinues(rest))
           /\ (\E i \in 1 .. Len(ml) : Leads(ml[i].call))
              => Leads(m.call) \/ \E i \in 1 .. Len(rest) : Leads(rest[i].call)
  <1>1. /\ 1 \in 1 .. Len(ml) /\ m = ml[1]
        /\ \A i \in 1 .. Len(ml) : i = 1 \/ (i - 1 \in 1 .. Len(rest) /\ rest[i - 1] = ml[i])
        /\ \A i \in 1 .. Len(rest) : i + 1 \in 1 .. Len(ml) /\ rest[i] = ml[i + 1] /\ i + 1 > 1 /\ i \in Int
        /\ \A i \in 1 .. Len(ml), j \in 1 .. Len(rest) : j > i - 1 => j + 1 > i
    BY Shifted
  <1>2. NoneContinues(ml) => NoneContinues(rest) /\ ~Continues(m)
    BY <1>1 DEF NoneContinues
  <1>3. ASSUME LastContinues(ml, t, v)
        PROVE  LastContinues(rest, t, v)
               \/ (Continues(m) /\ m.call.edit.type = t /\ m.call.edit.value = v /\ NoneContinues(rest))
    <2>1. PICK i \in 1 .. Len(ml) : /\ Continues(ml[i]) /\ ml[i].call.edit.type = t /\ ml[i].call.edit.value = v
                                    /\ \A j \in 1 .. Len(ml) : j > i => ~Continues(ml[j])
      BY <1>3 DEF LastContinues
    <2>2. \A j \in 1 .. Len(rest) : j > i - 1 => ~Continues(rest[j])
      BY <1>1, <2>1
    <2>3. i = 1 => NoneContinues(rest)
      BY <1>1, <2>1 DEF NoneContinues
    <2> QED
      BY <1>1, <2>1, <2>2, <2>3 DEF LastContinues
  <1>4. (\E i \in 1 .. Len(ml) : Leads(ml[i].call)) => Leads(m.call) \/ \E i \in 1 .. Len(rest) : Leads(rest[i].call)
    BY <1>1
  <1> QED
    BY <1>2, <1>3, <1>4


\* In the GUI a reply is handled and perhaps a call sent: a probe only where
\* the types before it are known not to match.
LEMMA ProbesKept ==
    ASSUME btnCalls \in Seq(ButtonCalls), btnMail \in Seq(ButtonReplies), ProbesBehind,
           NEW c, bound' = bound, btnMail # << >>, btnMail' = Tail(btnMail),
           \/ btnCalls' = btnCalls
           \/ /\ btnCalls' = Append(btnCalls, c) /\ c.op # "SetAction"
              /\ c.op = "GetAll" => Unmatched(c.at) /\ (c.at = 1 \/ NoAction(btnCalls))
    PROVE  ProbesBehind'
  <1>1. PICK r : r = btnMail'
    OBVIOUS
  <1>2. \A i \in 1 .. Len(r) : i + 1 \in 1 .. Len(btnMail) /\ r[i] = btnMail[i + 1]
    BY <1>1, Shifted
  <1>3. PICK cs : cs = btnCalls'
    OBVIOUS
  <1>4. \A n : Unmatched(n) => Unmatched(n)'
    BY DEF Unmatched
  <1>5. CASE btnCalls' = btnCalls
    <2>1. cs = btnCalls
      BY <1>3, <1>5
    <2>2. \A i \in 1 .. Len(r) : r[i].call.op = "GetAll" =>
              /\ NoAction(cs) /\ Unmatched(r[i].call.at)'
              /\ r[i].ok <=> bound' = ActionTypes[r[i].call.at]
      BY <1>2, <1>4, <2>1 DEF ProbesBehind
    <2>3. /\ \A i, j \in 1 .. Len(cs) : i < j /\ cs[i].op = "GetAll" => cs[j].op # "SetAction"
          /\ \A i \in 1 .. Len(cs) : cs[i].op = "GetAll" =>
                Unmatched(cs[i].at)' /\ (cs[i].at = 1 \/ NoAction(cs))
      BY <1>4, <2>1 DEF ProbesBehind
    <2> QED
      BY <1>1, <1>3, <2>2, <2>3 DEF ProbesBehind
  <1>6. CASE /\ btnCalls' = Append(btnCalls, c) /\ c.op # "SetAction"
             /\ c.op = "GetAll" => Unmatched(c.at) /\ (c.at = 1 \/ NoAction(btnCalls))
    <2>1. cs = Append(btnCalls, c)
      BY <1>3, <1>6
    <2>2. /\ Len(btnCalls) \in Nat /\ Len(cs) = Len(btnCalls) + 1
          /\ \A i \in 1 .. Len(btnCalls) : i \in 1 .. Len(cs) /\ cs[i] = btnCalls[i]
          /\ \A i \in 1 .. Len(cs) : i \in 1 .. Len(btnCalls) \/ i = Len(cs)
          /\ Len(cs) \in 1 .. Len(cs) /\ cs[Len(cs)] = c
      BY <2>1, Appended
    <2>3. NoAction(btnCalls) => NoAction(cs)
      BY <1>6, <2>1, CallSent
    <2>4. \A i \in 1 .. Len(r) : r[i].call.op = "GetAll" =>
              /\ NoAction(cs) /\ Unmatched(r[i].call.at)'
              /\ r[i].ok <=> bound' = ActionTypes[r[i].call.at]
      BY <1>2, <1>4, <2>3 DEF ProbesBehind
    <2>5. \A i, j \in 1 .. Len(cs) : i < j => i \in 1 .. Len(btnCalls)
      BY <2>2
    <2>6. \A i, j \in 1 .. Len(cs) : i < j /\ cs[i].op = "GetAll" => cs[j].op # "SetAction"
      BY <1>6, <2>2, <2>5 DEF ProbesBehind
    <2>7. \A i \in 1 .. Len(cs) : cs[i].op = "GetAll" =>
                Unmatched(cs[i].at)' /\ (cs[i].at = 1 \/ NoAction(cs))
      BY <1>4, <1>6, <2>2, <2>3 DEF ProbesBehind
    <2> QED
      BY <1>1, <1>3, <2>4, <2>6, <2>7 DEF ProbesBehind
  <1> QED
    BY <1>5, <1>6

\* In the daemon a call is answered.
LEMMA ProbesAnswered ==
    ASSUME btnCalls \in Seq(ButtonCalls), btnMail \in Seq(ButtonReplies), ProbesBehind,
           btnCalls # << >>, btnCalls' = Tail(btnCalls),
           NEW m, btnMail' = Append(btnMail, m), m.call = Head(btnCalls),
           \/ m.call.op = "SetAction"
           \/ bound' = bound /\ m.call.op = "GetAll" => (m.ok <=> bound = ActionTypes[m.call.at]),
           m.call.op # "SetAction" => bound' = bound
    PROVE  ProbesBehind'
  <1>1. PICK cs : cs = btnCalls'
    OBVIOUS
  <1>2. PICK all : all = btnMail'
    OBVIOUS
  <1>3. /\ cs \in Seq(ButtonCalls) /\ 1 \in 1 .. Len(btnCalls) /\ m.call = btnCalls[1]
        /\ \A i \in 1 .. Len(cs) : i + 1 \in 1 .. Len(btnCalls) /\ cs[i] = btnCalls[i + 1] /\ i + 1 > 1 /\ i \in Int
    BY <1>1, Shifted
  <1>4. \A i \in 1 .. Len(all) : all[i] = m \/ (i \in 1 .. Len(btnMail) /\ all[i] = btnMail[i])
    BY <1>2, Appended
  <1>5. \A i, j \in 1 .. Len(cs) : i < j /\ cs[i].op = "GetAll" => cs[j].op # "SetAction"
    <2> SUFFICES ASSUME NEW i \in 1 .. Len(cs), NEW j \in 1 .. Len(cs), i < j, cs[i].op = "GetAll"
                 PROVE  cs[j].op # "SetAction"
      OBVIOUS
    <2>1. i + 1 < j + 1
      OBVIOUS
    <2>2. i + 1 \in 1 .. Len(btnCalls) /\ j + 1 \in 1 .. Len(btnCalls)
          /\ cs[i] = btnCalls[i + 1] /\ cs[j] = btnCalls[j + 1]
      BY <1>3
    <2> QED
      BY <2>1, <2>2 DEF ProbesBehind
  <1>6. CASE m.call.op = "SetAction"
    <2>1. ~NoAction(btnCalls)
      BY <1>3, <1>6 DEF NoAction
    <2>2. \A i \in 1 .. Len(all) : all[i].call.op # "GetAll"
      BY <1>4, <1>6, <2>1 DEF ProbesBehind
    <2>3. \A i \in 1 .. Len(cs) : cs[i].op = "GetAll" => cs[i].at = 1
      BY <1>3, <2>1 DEF ProbesBehind
    <2>4. Unmatched(1)'
      BY DEF Unmatched
    <2>5. \A i \in 1 .. Len(cs) : cs[i].op = "GetAll" => Unmatched(cs[i].at)'
      BY <2>3, <2>4
    <2> QED
      BY <1>1, <1>2, <1>5, <2>2, <2>3, <2>5 DEF ProbesBehind
  <1>7. CASE /\ m.call.op # "SetAction" /\ bound' = bound
             /\ m.call.op = "GetAll" => (m.ok <=> bound = ActionTypes[m.call.at])
    <2>1. \A n : Unmatched(n) => Unmatched(n)'
      BY <1>7 DEF Unmatched
    <2>2. NoAction(btnCalls) => NoAction(cs)
      BY <1>1, FirstCall
    <2>3. \A i \in 1 .. Len(cs) : cs[i].op = "GetAll" =>
                Unmatched(cs[i].at)' /\ (cs[i].at = 1 \/ NoAction(cs))
      BY <1>3, <2>1, <2>2 DEF ProbesBehind
    <2>4. m.call.op = "GetAll" => NoAction(cs) /\ Unmatched(m.call.at)'
      <3>1. m.call.op = "GetAll" => NoAction(cs)
        BY <1>3, Zenon DEF ProbesBehind, NoAction
      <3> QED
        BY <1>3, <2>1, <3>1 DEF ProbesBehind
    <2>5. \A i \in 1 .. Len(btnMail) : btnMail[i].call.op = "GetAll" =>
              /\ NoAction(cs) /\ Unmatched(btnMail[i].call.at)'
              /\ btnMail[i].ok <=> bound = ActionTypes[btnMail[i].call.at]
      BY <2>1, <2>2 DEF ProbesBehind
    <2>6. \A i \in 1 .. Len(all) : all[i].call.op = "GetAll" =>
              /\ NoAction(cs) /\ Unmatched(all[i].call.at)'
              /\ all[i].ok <=> bound' = ActionTypes[all[i].call.at]
      BY <1>4, <1>7, <2>4, <2>5
    <2> QED
      BY <1>1, <1>2, <1>5, <2>3, <2>6 DEF ProbesBehind
  <1> QED
    BY <1>6, <1>7

\* At first one enumeration is under way and nothing is shown.
LEMMA ButtonStart == ButtonInit => ButtonInv
  <1> SUFFICES ASSUME ButtonInit PROVE ButtonInv
    OBVIOUS
  <1>1. btnCalls \in Seq(ButtonCalls) /\ btnMail \in Seq(ButtonReplies)
    BY DEF ButtonInit, ButtonCalls
  <1>2. Len(btnCalls) = 1 /\ btnCalls[1].op = "Enumerate" /\ Len(btnMail) = 0
    BY DEF ButtonInit
  <1>3. NoneContinues(btnMail) /\ NoParam(btnCalls)
    BY <1>2 DEF NoneContinues, NoParam
  <1>4. ProbesBehind
    BY <1>2 DEF ProbesBehind
  <1> QED
    BY <1>1, <1>3, <1>4 DEF ButtonInit, ButtonInv, ButtonShapes, RowFollows, ParamFollows

\* An edit.
LEMMA ButtonEdited ==
    ASSUME ButtonInv, NEW e \in SoundEdits, EditButton(e)
    PROVE  ButtonInv'
  <1>1. PICK c : c = SetActionCall(e)
    OBVIOUS
  <1>2. c \in ButtonCalls /\ c.op = "SetAction" /\ Leads(c)
    BY <1>1 DEF SetActionCall, ButtonCalls, Leads
  <1>3. PICK cs : cs = btnCalls'
    OBVIOUS
  <1>4. btnCalls \in Seq(ButtonCalls) /\ cs = Append(btnCalls, c)
    BY <1>1, <1>3 DEF EditButton, Send, ButtonInv, ButtonShapes
  <1>5. cs \in Seq(ButtonCalls)
    BY <1>2, <1>4
  <1>6. ButtonShapes'
    BY <1>3, <1>5 DEF ButtonInv, ButtonShapes, EditButton
  <1>7. ASSUME misread' \subseteq {"halfway", "untaken"} PROVE ProbesBehind' /\ RowFollows'
    <2>1. ~ReadingBack /\ ~ReadReturns
      BY <1>7 DEF EditButton
    <2>2. \A i \in 1 .. Len(cs) : cs[i] = c \/ (i \in 1 .. Len(btnCalls) /\ cs[i] = btnCalls[i])
      BY <1>4, Appended
    <2>3. \A i \in 1 .. Len(cs) : cs[i].op # "GetAll"
      BY <1>2, <2>1, <2>2 DEF ReadingBack
    <2>4. \A i \in 1 .. Len(btnMail) : btnMail[i].call.op # "GetAll"
      BY <2>1 DEF ReadReturns
    <2>5. btnMail' = btnMail
      BY DEF EditButton
    <2>6. ProbesBehind'
      BY <1>3, <2>3, <2>4, <2>5 DEF ProbesBehind
    <2>7. \E i \in 1 .. Len(cs) : Leads(cs[i])
      BY <1>2, <1>4, CallSent
    <2> QED
      BY <1>3, <2>6, <2>7 DEF RowFollows
  <1>8. ASSUME "halfway" \notin misread' PROVE ParamFollows'
    <2>1. "halfway" \notin misread
      BY <1>8 DEF EditButton
    <2>2. ParamFollows /\ ("untaken" \in misread' <=> "untaken" \in misread)
      BY <2>1 DEF ButtonInv, EditButton
    <2>3. \A t, v : LastParam(btnCalls, t, v) => LastParam(cs, t, v)
      BY <1>2, <1>4, CallSent
    <2>4. NoParam(btnCalls) => NoParam(cs)
      BY <1>2, <1>4, CallSent
    <2>5. bound' = bound /\ param' = param /\ accepted' = accepted /\ btnMail' = btnMail
      BY DEF EditButton
    <2> QED
      BY <1>3, <2>2, <2>3, <2>4, <2>5 DEF ParamFollows
  <1> QED
    BY <1>6, <1>7, <1>8 DEF ButtonInv


\* A call is answered.
LEMMA ButtonAnswers ==
    ASSUME ButtonInv, ButtonAnswered
    PROVE  ButtonInv'
  <1>1. PICK c : c = Head(btnCalls)
    OBVIOUS
  <1>2. PICK cs : cs = btnCalls'
    OBVIOUS
  <1>3. PICK all : all = btnMail'
    OBVIOUS
  <1>4. /\ btnCalls \in Seq(ButtonCalls) /\ btnMail \in Seq(ButtonReplies) /\ btnCalls # << >>
        /\ cs = Tail(btnCalls) /\ shown' = shown
    BY <1>2 DEF ButtonInv, ButtonShapes, ButtonAnswered
  <1>5. c \in ButtonCalls /\ cs \in Seq(ButtonCalls)
    BY <1>1, <1>4, Shifted
  <1>6. PICK ok \in BOOLEAN :
           /\ all = Append(btnMail, [call |-> c, ok |-> ok])
           /\ \/ /\ c.op = "SetAction"
                 /\ bound' = Present(c.edit.type) /\ param' = 0
                 /\ accepted' = [type |-> bound', value |-> c.edit.value]
                 /\ \/ ok = TRUE /\ misread' = misread \ {"halfway", "untaken"}
                    \/ ok = FALSE /\ misread' = (misread \ {"untaken"}) \cup {"halfway"}
              \/ /\ c.op = "SetAction" /\ ok = FALSE
                 /\ bound' = bound /\ param' = param /\ accepted' = accepted /\ misread' = misread
              \/ /\ c.op = "SetParam" /\ bound' = bound /\ accepted' = accepted
                 /\ \/ /\ bound = c.edit.type /\ param' = c.edit.value
                       /\ misread' = misread \ {"untaken"}
                    \/ /\ param' = param
                       /\ misread' = IF bound = c.edit.type THEN misread \cup {"untaken"} ELSE misread
              \/ /\ c.op = "GetAll" /\ bound' = bound /\ param' = param /\ accepted' = accepted
                 /\ \/ misread' = misread /\ ok = (bound = ActionTypes[c.at])
                    \/ misread' = misread \cup {"unanswered"}
              \/ /\ c.op = "Enumerate" /\ misread' = misread
                 /\ bound' = bound /\ param' = param /\ accepted' = accepted
    <2>1. AnswerSetAction(c) \/ AnswerSetParam(c) \/ AnswerProbe(c) \/ AnswerEnumerate(c)
      BY <1>1 DEF ButtonAnswered
    <2>2. CASE AnswerSetAction(c)
      BY <1>3, <2>2 DEF AnswerSetAction, Reply
    <2>3. CASE AnswerSetParam(c)
      BY <1>3, <2>3 DEF AnswerSetParam, Reply
    <2>4. CASE AnswerProbe(c)
      BY <1>3, <2>4 DEF AnswerProbe, Reply
    <2>5. CASE AnswerEnumerate(c)
      BY <1>3, <2>5 DEF AnswerEnumerate, Reply
    <2> QED
      BY <2>1, <2>2, <2>3, <2>4, <2>5
  <1>7. PICK m : m = [call |-> c, ok |-> ok]
    OBVIOUS
  <1>8. m \in ButtonReplies /\ m.call = c /\ m.ok = ok /\ all = Append(btnMail, m)
    BY <1>5, <1>6, <1>7 DEF ButtonReplies
  <1>9. all \in Seq(ButtonReplies)
    BY <1>4, <1>8
  <1>10. c.op = "SetAction" => c.edit \in SoundEdits
    BY <1>5 DEF ButtonCalls
  <1>11. c.op = "SetParam" => c.edit.type \in Parametric
    BY <1>5 DEF ButtonCalls
  <1>12. \A e \in SoundEdits :
            /\ Present(e.type) \in Types \cup {"None"}
            /\ Present(e.type) \in Parametric => e.type = Present(e.type)
            /\ Present(e.type) \notin Parametric => e.type \notin Parametric /\ e.value = 0
    BY ActionTypesAssumption DEF SoundEdits, Edit, Present, Untyped
  <1>13. ButtonShapes'
    <2>1. bound \in Types \cup {"None"} /\ accepted.type = bound
      BY DEF ButtonInv, ButtonShapes
    <2>2. bound' \in Types \cup {"None"} /\ accepted'.type = bound'
      BY <1>6, <1>10, <1>12, <2>1
    <2> QED
      BY <1>2, <1>3, <1>5, <1>9, <2>2 DEF ButtonShapes
  <1>14. ASSUME misread' \subseteq {"halfway", "untaken"} PROVE ProbesBehind' /\ RowFollows'
    <2>1. misread \subseteq {"halfway", "untaken"}
      BY <1>6, <1>14
    <2>2. ProbesBehind /\ RowFollows
      BY <2>1 DEF ButtonInv
    <2>3. /\ c.op # "SetAction" => bound' = bound
          /\ c.op = "GetAll" => (ok <=> bound = ActionTypes[c.at])
      BY <1>6, <1>14
    <2>4. /\ btnCalls' = Tail(btnCalls) /\ btnMail' = Append(btnMail, m) /\ m.call = Head(btnCalls)
          /\ m.call.op # "SetAction" => bound' = bound
          /\ \/ m.call.op = "SetAction"
             \/ (bound' = bound /\ m.call.op = "GetAll") => (m.ok <=> bound = ActionTypes[m.call.at])
      BY <1>1, <1>2, <1>3, <1>4, <1>8, <2>3
    <2>5. ProbesBehind'
      BY <1>4, <2>2, <2>4, ProbesAnswered
    <2>6. /\ Leads(c) => \E i \in 1 .. Len(all) : Leads(all[i].call)
          /\ (\E i \in 1 .. Len(btnMail) : Leads(btnMail[i].call)) => \E i \in 1 .. Len(all) : Leads(all[i].call)
          /\ (\E i \in 1 .. Len(btnCalls) : Leads(btnCalls[i])) => Leads(c) \/ \E i \in 1 .. Len(cs) : Leads(cs[i])
      <3>1. /\ Leads(m.call) => \E i \in 1 .. Len(all) : Leads(all[i].call)
            /\ (\E i \in 1 .. Len(btnMail) : Leads(btnMail[i].call)) => \E i \in 1 .. Len(all) : Leads(all[i].call)
        BY <1>4, <1>8, ReplySent
      <3>2. (\E i \in 1 .. Len(btnCalls) : Leads(btnCalls[i])) => Leads(c) \/ \E i \in 1 .. Len(cs) : Leads(cs[i])
        BY <1>1, <1>4, FirstCall
      <3> QED
        BY <1>8, <3>1, <3>2
    <2>7. c.op = "SetAction" => Leads(c)
      BY DEF Leads
    <2>8. \/ shown' = "absent" \/ Present(shown') = bound'
          \/ \E i \in 1 .. Len(cs) : Leads(cs[i])
          \/ \E i \in 1 .. Len(all) : Leads(all[i].call)
      BY <1>4, <2>2, <2>3, <2>6, <2>7 DEF RowFollows
    <2> QED
      BY <1>2, <1>3, <2>5, <2>8 DEF RowFollows
  <1>15. ASSUME "halfway" \notin misread' PROVE ParamFollows'
    <2>1. CASE /\ c.op = "SetAction"
               /\ bound' = Present(c.edit.type) /\ param' = 0
               /\ accepted' = [type |-> bound', value |-> c.edit.value]
               /\ ok = TRUE
      <3>1. accepted'.value = c.edit.value
        BY <2>1
      <3>2. Continues(m) => LastContinues(all, c.edit.type, c.edit.value)
        BY <1>4, <1>8, ReplySent
      <3>3. bound' \in Parametric => LastContinues(all, bound', accepted'.value)
        BY <1>8, <1>10, <1>12, <2>1, <3>1, <3>2 DEF Continues
      <3>4. bound' \notin Parametric => accepted'.value = 0 /\ param' = 0
        BY <1>10, <1>12, <2>1, <3>1
      <3> QED
        BY <1>2, <1>3, <3>3, <3>4 DEF ParamFollows
    <2>2. CASE \/ c.op # "SetAction"
               \/ ok = FALSE /\ bound' = bound /\ param' = param /\ accepted' = accepted /\ misread' = misread
      <3>1. /\ "halfway" \notin misread /\ bound' = bound /\ accepted' = accepted
            /\ c.op # "SetParam" => param' = param /\ ("untaken" \in misread' <=> "untaken" \in misread)
        BY <1>6, <1>15, <2>2
      <3>2. ParamFollows /\ ~Continues(m)
        BY <1>8, <2>2, <3>1 DEF ButtonInv, Continues
      <3>3. \A t, v : /\ NoneContinues(btnMail) => NoneContinues(all)
                      /\ LastContinues(btnMail, t, v) => LastContinues(all, t, v)
        BY <1>4, <1>8, <3>2, ReplySent
      <3>4. \A t, v : /\ NoParam(btnCalls) => NoParam(cs) /\ c.op # "SetParam"
                      /\ LastParam(btnCalls, t, v) =>
                           LastParam(cs, t, v)
                           \/ (c.op = "SetParam" /\ c.edit.type = t /\ c.edit.value = v /\ NoParam(cs))
        BY <1>1, <1>4, FirstCall
      <3>5. c.op = "SetParam" =>
               \/ bound = c.edit.type /\ param' = c.edit.value
               \/ param' = param /\ (bound = c.edit.type => "untaken" \in misread')
        BY <1>6
      <3>6. bound \in Parametric =>
               \/ LastContinues(all, bound, accepted.value)
               \/ NoneContinues(all) /\ LastParam(cs, bound, accepted.value)
               \/ /\ NoneContinues(all) /\ NoParam(cs)
                  /\ accepted.value = param' \/ "untaken" \in misread'
        <4>1. CASE LastContinues(btnMail, bound, accepted.value)
          BY <3>3, <4>1
        <4>2. CASE NoneContinues(btnMail) /\ LastParam(btnCalls, bound, accepted.value)
          BY <3>3, <3>4, <3>5, <4>2
        <4>3. CASE /\ NoneContinues(btnMail) /\ NoParam(btnCalls)
                   /\ accepted.value = param \/ "untaken" \in misread
          BY <3>1, <3>3, <3>4, <4>3
        <4> QED
          BY <3>2, <4>1, <4>2, <4>3 DEF ParamFollows
      <3>7. bound \notin Parametric => accepted.value = 0 /\ param' = 0
        BY <1>11, <3>1, <3>2, <3>5 DEF ParamFollows
      <3> QED
        BY <1>2, <1>3, <3>1, <3>6, <3>7 DEF ParamFollows
    <2> QED
      BY <1>6, <1>15, <2>1, <2>2
  <1> QED
    BY <1>13, <1>14, <1>15 DEF ButtonInv

\* A reply is handled.
LEMMA ButtonHandles ==
    ASSUME ButtonInv, ButtonReplied
    PROVE  ButtonInv'
  <1>1. PICK m : m = Head(btnMail)
    OBVIOUS
  <1>2. PICK cs : cs = btnCalls'
    OBVIOUS
  <1>3. PICK rest : rest = btnMail'
    OBVIOUS
  <1>4. /\ btnCalls \in Seq(ButtonCalls) /\ btnMail \in Seq(ButtonReplies) /\ btnMail # << >>
        /\ rest = Tail(btnMail)
        /\ bound' = bound /\ param' = param /\ accepted' = accepted
    BY <1>3 DEF ButtonInv, ButtonShapes, ButtonReplied
  <1>5. m \in ButtonReplies /\ rest \in Seq(ButtonReplies) /\ 1 \in 1 .. Len(btnMail) /\ m = btnMail[1]
    BY <1>1, <1>4, Shifted
  <1>6. m.call \in ButtonCalls /\ m.ok \in BOOLEAN
    BY <1>5 DEF ButtonReplies
  <1>7. Len(ActionTypes) \in Nat /\ Len(ActionTypes) # 0
    BY ActionTypesAssumption
  <1>8. ProbeCall(1) \in ButtonCalls /\ ProbeCall(1).op = "GetAll" /\ ProbeCall(1).at = 1 /\ Unmatched(1)
    BY <1>7 DEF ButtonCalls, ProbeCall, Unmatched
  <1>9. SetActionReplied(m.call, m.ok) \/ SetParamReplied(m.call)
        \/ TypeProbed(m.call, m.ok) \/ RowsEnumerated(m.call, m.ok)
    BY <1>1 DEF ButtonReplied
  \* What is sent.
  <1>10. /\ \/ cs = btnCalls
            \/ \E c \in ButtonCalls : cs = Append(btnCalls, c) /\ c.op # "SetAction" /\ Leads(c)
         /\ ~Continues(m) => \/ cs = btnCalls
                             \/ \E c \in ButtonCalls : cs = Append(btnCalls, c) /\ c.op # "SetParam"
         /\ Continues(m) => cs = Append(btnCalls, SetParamCall(m.call.edit))
    <2>1. CASE SetActionReplied(m.call, m.ok)
      <3>1. m.call.edit \in SoundEdits
        BY <1>6, <2>1 DEF SetActionReplied, ButtonCalls
      <3>2. m.call.edit.type \in Parametric => SetParamCall(m.call.edit) \in ButtonCalls
        BY <3>1 DEF SetParamCall, ButtonCalls
      <3> QED
        BY <1>2, <1>8, <2>1, <3>2 DEF SetActionReplied, Send, SetParamCall, Leads, Continues
    <2>2. CASE SetParamReplied(m.call)
      BY <1>2, <1>8, <2>2 DEF SetParamReplied, Send, Leads, Continues
    <2>3. CASE TypeProbed(m.call, m.ok)
      <3>1. m.call.at \in 1 .. Len(ActionTypes)
        BY <1>6, <2>3 DEF TypeProbed, ButtonCalls
      <3>2. m.call.at < Len(ActionTypes) => ProbeCall(m.call.at + 1) \in ButtonCalls
        BY <1>7, <3>1 DEF ProbeCall, ButtonCalls
      <3>3. ProbeCall(m.call.at + 1).op = "GetAll"
        BY DEF ProbeCall
      <3> QED
        BY <1>2, <2>3, <3>2, <3>3 DEF TypeProbed, Send, Leads, Continues
    <2>4. CASE RowsEnumerated(m.call, m.ok)
      BY <1>2, <2>4 DEF RowsEnumerated, Continues
    <2> QED
      BY <1>9, <2>1, <2>2, <2>3, <2>4
  <1>11. cs \in Seq(ButtonCalls)
    <2>1. \A c \in ButtonCalls : Append(btnCalls, c) \in Seq(ButtonCalls)
      BY <1>4
    <2>2. cs = btnCalls \/ \E c \in ButtonCalls : cs = Append(btnCalls, c)
      BY <1>10
    <2> QED
      BY <1>4, <2>1, <2>2
  <1>12. ButtonShapes'
    BY <1>2, <1>3, <1>4, <1>5, <1>11 DEF ButtonInv, ButtonShapes
  <1>13. ASSUME misread' \subseteq {"halfway", "untaken"} PROVE ProbesBehind' /\ RowFollows'
    <2>1. misread \subseteq {"halfway", "untaken"}
      BY <1>9, <1>13 DEF SetActionReplied, SetParamReplied, TypeProbed, RowsEnumerated
    <2>2. ProbesBehind /\ RowFollows
      BY <2>1 DEF ButtonInv
    <2>3. m.call.op = "GetAll" =>
              /\ NoAction(btnCalls) /\ Unmatched(m.call.at) /\ m.call.at \in 1 .. Len(ActionTypes)
              /\ m.ok <=> bound = ActionTypes[m.call.at]
      BY <1>5, <1>6, <2>2 DEF ProbesBehind, ButtonCalls
    <2>4. \A n \in 1 .. Len(ActionTypes) : Unmatched(n) /\ bound # ActionTypes[n] => Unmatched(n + 1)
      BY <1>7 DEF Unmatched
    <2>5. \/ cs = btnCalls
          \/ \E c : /\ cs = Append(btnCalls, c) /\ c.op # "SetAction"
                    /\ c.op = "GetAll" => Unmatched(c.at) /\ (c.at = 1 \/ NoAction(btnCalls))
      <3>1. CASE SetActionReplied(m.call, m.ok)
        BY <1>2, <1>8, <3>1 DEF SetActionReplied, Send, SetParamCall
      <3>2. CASE SetParamReplied(m.call)
        BY <1>2, <1>8, <3>2 DEF SetParamReplied, Send
      <3>3. CASE TypeProbed(m.call, m.ok)
        <4>1. /\ ProbeCall(m.call.at + 1).op = "GetAll"
              /\ ProbeCall(m.call.at + 1).at = m.call.at + 1
          BY DEF ProbeCall
        <4> QED
          BY <1>2, <2>3, <2>4, <3>3, <4>1 DEF TypeProbed, Send
      <3>4. CASE RowsEnumerated(m.call, m.ok)
        BY <1>2, <3>4 DEF RowsEnumerated
      <3> QED
        BY <1>9, <3>1, <3>2, <3>3, <3>4
    <2>6. ProbesBehind'
      BY <1>2, <1>3, <1>4, <2>2, <2>5, ProbesKept
    <2>7. CASE \E c \in ButtonCalls : cs = Append(btnCalls, c) /\ Leads(c)
      <3>1. \E i \in 1 .. Len(cs) : Leads(cs[i])
        BY <1>4, <2>7, CallSent
      <3> QED
        BY <1>2, <2>6, <3>1 DEF RowFollows
    <2>8. CASE cs = btnCalls
      <3>1. Types \cap Untyped = {} /\ "None" \in Untyped
        BY ActionTypesAssumption DEF Untyped
      <3>2. bound \in Types \cup {"None"} /\ Present(bound) = bound
        BY <3>1 DEF ButtonInv, ButtonShapes, Present
      <3>3. CASE TypeProbed(m.call, m.ok)
        <4>1. CASE m.ok
          BY <2>3, <3>2, <3>3, <4>1, <1>4, <2>6 DEF TypeProbed, RowFollows
        <4>2. CASE ~m.ok /\ m.call.at < Len(ActionTypes)
          <5>1. cs = Append(btnCalls, ProbeCall(m.call.at + 1))
            BY <1>2, <2>3, <3>3, <4>2 DEF TypeProbed, Send
          <5> QED
            BY <1>4, <2>8, <5>1, Appended
        <4>3. CASE ~m.ok /\ m.call.at = Len(ActionTypes)
          <5>1. bound \notin Types
            <6> SUFFICES ASSUME NEW k \in 1 .. Len(ActionTypes) PROVE bound # ActionTypes[k]
              BY DEF Types
            <6>1. k < m.call.at \/ k = m.call.at
              BY <1>7, <4>3
            <6> QED
              BY <2>3, <3>3, <4>3, <6>1 DEF Unmatched, TypeProbed
          <5>2. Present(shown') = bound'
            BY <1>4, <2>3, <3>1, <3>2, <3>3, <4>3, <5>1 DEF TypeProbed, Present
          <5> QED
            BY <2>6, <5>2 DEF RowFollows
        <4> QED
          BY <3>3, <4>1, <4>2, <4>3 DEF TypeProbed
      <3>4. CASE RowsEnumerated(m.call, m.ok)
        <4>1. CASE m.ok
          <5>1. shown' = bound
            BY <1>13, <3>4, <4>1 DEF RowsEnumerated
          <5>2. Present(shown') = bound'
            BY <1>4, <3>2, <5>1
          <5> QED
            BY <2>6, <5>2 DEF RowFollows
        <4>2. CASE ~m.ok
          <5>1. shown' = shown /\ ~Leads(m.call)
            BY <3>4, <4>2 DEF RowsEnumerated, Leads
          <5>2. (\E i \in 1 .. Len(btnMail) : Leads(btnMail[i].call)) => \E i \in 1 .. Len(rest) : Leads(rest[i].call)
            BY <1>1, <1>4, <5>1, FirstReply
          <5>3. \/ shown' = "absent" \/ Present(shown') = bound'
                \/ \E i \in 1 .. Len(cs) : Leads(cs[i])
                \/ \E i \in 1 .. Len(rest) : Leads(rest[i].call)
            BY <1>4, <2>2, <2>8, <5>1, <5>2 DEF RowFollows
          <5> QED
            BY <1>2, <1>3, <2>6, <5>3 DEF RowFollows
        <4> QED
          BY <4>1, <4>2
      <3>5. CASE SetActionReplied(m.call, m.ok) \/ SetParamReplied(m.call)
        <4>1. \E c : cs = Append(btnCalls, c)
          BY <1>2, <1>13, <3>5 DEF SetActionReplied, SetParamReplied, Send
        <4> QED
          BY <1>4, <2>8, <4>1, Appended
      <3> QED
        BY <1>9, <3>3, <3>4, <3>5
    <2> QED
      BY <1>10, <2>7, <2>8
  <1>14. ASSUME "halfway" \notin misread' PROVE ParamFollows'
    <2>1. "halfway" \notin misread /\ ("untaken" \in misread' <=> "untaken" \in misread)
      BY <1>9, <1>14 DEF SetActionReplied, SetParamReplied, TypeProbed, RowsEnumerated
    <2>2. ParamFollows
      BY <2>1 DEF ButtonInv
    <2>3. \A t, v : /\ NoneContinues(btnMail) => NoneContinues(rest) /\ ~Continues(m)
                    /\ LastContinues(btnMail, t, v) =>
                         LastContinues(rest, t, v)
                         \/ (Continues(m) /\ m.call.edit.type = t /\ m.call.edit.value = v /\ NoneContinues(rest))
      BY <1>1, <1>4, FirstReply
    <2>4. CASE Continues(m)
      <3>1. \A t, v : m.call.edit.type = t /\ m.call.edit.value = v => LastParam(cs, t, v)
        <4>1. PICK c : c = SetParamCall(m.call.edit)
          OBVIOUS
        <4>2. c.op = "SetParam" /\ c.edit = m.call.edit /\ cs = Append(btnCalls, c)
          BY <1>10, <2>4, <4>1 DEF SetParamCall
        <4> QED
          BY <1>4, <4>2, CallSent
      <3> QED
        BY <1>2, <1>3, <1>4, <2>2, <2>3, <2>4, <3>1 DEF ParamFollows
    <2>5. CASE ~Continues(m)
      <3>1. \A t, v : /\ NoParam(btnCalls) => NoParam(cs)
                      /\ LastParam(btnCalls, t, v) => LastParam(cs, t, v)
        BY <1>4, <1>10, <2>5, CallSent
      <3> QED
        BY <1>2, <1>3, <1>4, <2>1, <2>2, <2>3, <2>5, <3>1 DEF ParamFollows
    <2> QED
      BY <2>4, <2>5
  <1> QED
    BY <1>12, <1>13, <1>14 DEF ButtonInv

\* Every step keeps the invariant.
LEMMA ButtonKept == ASSUME ButtonInv, [ButtonNext]_buttonVars PROVE ButtonInv'
  <1>1. CASE UNCHANGED buttonVars
    BY <1>1 DEF buttonVars, ButtonInv, ButtonShapes, ProbesBehind, RowFollows, ParamFollows, Unmatched,
       NoAction, NoParam, LastParam, NoneContinues, LastContinues
  <1>2. ASSUME NEW t \in Types, setAction(t) PROVE ButtonInv'
    <2>1. [type |-> t, value |-> 0] \in SoundEdits
      BY DEF SoundEdits, Edit
    <2> QED
      BY <1>2, <2>1, ButtonEdited DEF setAction
  <1>3. ASSUME NEW t \in Types, NEW v \in Params, setParametric(t, v) PROVE ButtonInv'
    <2>1. [type |-> t, value |-> v] \in SoundEdits
      BY <1>3 DEF SoundEdits, Edit, setParametric
    <2> QED
      BY <1>3, <2>1, ButtonEdited DEF setParametric
  <1>4. CASE restoreDefault \/ clearAction
    <2>1. [type |-> "Default", value |-> 0] \in SoundEdits /\ [type |-> "None", value |-> 0] \in SoundEdits
      BY DEF SoundEdits, Edit, Untyped
    <2> QED
      BY <1>4, <2>1, ButtonEdited DEF restoreDefault, clearAction
  <1> QED
    BY <1>1, <1>2, <1>3, <1>4, ButtonAnswers, ButtonHandles DEF ButtonNext

\* Once nothing is under way, the invariant is what the row promises.
LEMMA ButtonShown == ButtonInv => RowIsBinding
  <1> SUFFICES ASSUME ButtonInv, ButtonQuiet PROVE
        /\ misread \subseteq {"halfway", "untaken"} /\ shown # "absent" => Present(shown) = bound
        /\ accepted.type = bound
        /\ misread \cap {"halfway", "untaken"} = {} => accepted.value = param
    BY DEF RowIsBinding
  <1>1. Len(btnCalls) = 0 /\ Len(btnMail) = 0
    BY DEF ButtonQuiet
  <1>2. ~(\E i \in 1 .. Len(btnCalls) : Leads(btnCalls[i])) /\ ~(\E i \in 1 .. Len(btnMail) : Leads(btnMail[i].call))
    BY <1>1
  <1>3. misread \subseteq {"halfway", "untaken"} /\ shown # "absent" => Present(shown) = bound
    BY <1>2 DEF ButtonInv, RowFollows
  <1>4. \A t, v : ~LastContinues(btnMail, t, v) /\ ~LastParam(btnCalls, t, v)
    BY <1>1 DEF LastContinues, LastParam
  <1>5. misread \cap {"halfway", "untaken"} = {} => accepted.value = param
    BY <1>4 DEF ButtonInv, ParamFollows
  <1> QED
    BY <1>3, <1>5 DEF ButtonInv, ButtonShapes

\* Whatever edits overlap, once every call is answered the row of a button names
\* the action the daemon has and the daemon the parameter of the last edit it
\* took, with the exceptions that RowIsBinding names.
THEOREM RowShown == ButtonSpec => []RowIsBinding
  BY ButtonStart, ButtonKept, ButtonShown, PTL DEF ButtonSpec

-----------------------------------------------------------------------------
(***************************************************************************)
(* GestureModel: the panel of a direction                                  *)
(*                                                                         *)
(* The bus is a queue, so that what counts is the last call of its sort.   *)
(* The direction's mode is the daemon's, or that of the SetGesture that it *)
(* waits for: the last of its sort, sent or answered, with no probe behind *)
(* it. A parameter set since is the daemon's, or the newest of its kind    *)
(* under way has its value: it is chained to that SetGesture, or it waits  *)
(* for its probe, and the probes and the calls they send keep their order. *)
(* While the direction is filled, the one probe under way tells which of   *)
(* the modes are excluded.                                                 *)
(***************************************************************************)

\* The calls and the replies there are.
ParamsSet    == [kind : {"grain"}, mode : ModeSet, value : Grains]
                \cup [kind : {"action"}, mode : ModeSet, value : {"Keypress", "Other"}]
                \cup [kind : {"keys"}, mode : ModeSet, value : {TRUE}]
SetCalls     == [op : {"set"}, x : ParamsSet]
ProbeCalls   == [op : {"probe"}, x : ParamsSet]
ModeCalls    == [op : {"setGesture"}, x : [mode : ModeSet, id : 1 .. MaxGestures]]
SeedCalls    == [op : {"seed"}, x : 1 .. Len(Modes)] \cup [op : {"seedParam"}, x : ModeSet]
GestureCalls == SetCalls \cup ProbeCalls \cup ModeCalls \cup SeedCalls
GestureReplies == [call : GestureCalls, ok : BOOLEAN, value : Grains \cup {0}]

\* Of a sequence of calls: none is in K; the last in K is in G.
Absent(cs, K) == \A i \in 1 .. Len(cs) : cs[i] \notin K
Newest(cs, K, G) ==
    \E i \in 1 .. Len(cs) :
        cs[i] \in K \cap G /\ \A j \in 1 .. Len(cs) : j > i => cs[j] \notin K
Once(cs, G) == \A i, j \in 1 .. Len(cs) : cs[i] \in G /\ cs[j] \in G => i = j

\* The calls that are answered.
CallsOf(ml) == [n \in 1 .. Len(ml) |-> ml[n].call]
CallsAnswered == CallsOf(gestMail)

\* A SetGesture; that which the direction waits for, and what must not follow
\* it; those that are not sent yet.
SetGesture(id) == {c \in ModeCalls : c.x.id = id}
Awaited        == SetGesture(pending)
Later          == ModeCalls \cup ProbeCalls
Unsent         == {c \in ModeCalls : c.x.id > gestEdits}

\* The values of the variables.
GestureShapes ==
    /\ gesture \in [mode : ModeSet \cup {""}, grain : Grains \cup {0}, action : Actions, keys : BOOLEAN]
    /\ dir \in [mode : ModeSet \cup {""}, grain : Grains \cup {0}, action : Actions]
    /\ gestCalls \in Seq(GestureCalls) /\ gestMail \in Seq(GestureReplies)
    /\ chained \in [1 .. MaxGestures -> Seq(SetCalls)]
    /\ pending \in 0 .. MaxGestures /\ gestEdits \in 0 .. MaxGestures /\ pending <= gestEdits
    /\ "keys" \in own => "action" \in own /\ dir.action = "Keypress"

\* The SetGesture the direction waits for is under way, on its way or answered,
\* and nothing that depends on it was sent after it; what is chained waits for
\* a SetGesture that is under way; a number that was not given is not in use.
UnderWay ==
    /\ IF pending = 0 THEN Absent(gestCalls, ModeCalls) /\ Absent(CallsAnswered, ModeCalls)
       ELSE \/ /\ Newest(gestCalls, Later, Awaited) /\ Once(gestCalls, Awaited)
               /\ Absent(CallsAnswered, Awaited)
            \/ /\ Absent(gestCalls, Later)
               /\ Newest(CallsAnswered, Later, Awaited) /\ Once(CallsAnswered, Awaited)
    /\ \A id \in 1 .. MaxGestures :
           chained[id] # << >> => ~(Absent(gestCalls, SetGesture(id)) /\ Absent(CallsAnswered, SetGesture(id)))
    /\ Absent(gestCalls, Unsent) /\ Absent(CallsAnswered, Unsent)

\* The call c of the filling: the modes before it are not the daemon's, and a
\* reply tells whether its own is; then the mode is known.
Seeds(c, fits, told) ==
    \/ /\ c.op = "seed" /\ dir.mode = "" /\ \A k \in 1 .. Len(Modes) : k < c.x => gesture.mode # Modes[k]
       /\ told => fits = (gesture.mode = Modes[c.x])
    \/ c.op = "seedParam" /\ dir.mode = gesture.mode

\* An undisturbed filling has one call or one reply under way, and no edits.
SeedsFirst ==
    Seeding /\ doubts = {} =>
        /\ pending = 0 /\ own = {}
        /\ \/ Len(gestCalls) = 1 /\ Len(gestMail) = 0 /\ Seeds(gestCalls[1], TRUE, FALSE)
           \/ Len(gestCalls) = 0 /\ Len(gestMail) = 1 /\ Seeds(gestMail[1].call, gestMail[1].ok, TRUE)

\* The direction is filled, and no edit was made before.
Filled == doubts = {} /\ ~Seeding

\* Of a filled direction: what would give it another mode than the daemon's.
StrayProbe  == {c \in ProbeCalls : c.x.mode # dir.mode}
StrayProbed == {m \in GestureReplies : m.call \in ProbeCalls /\ ~(m.call.x.mode = dir.mode /\ m.ok = TRUE)}
StrayMode   == {c \in Awaited : c.x.mode # dir.mode}
StrayModed  == {m \in GestureReplies : m.call \in Awaited /\ m.ok = TRUE /\ gesture.mode # dir.mode}

\* A filled direction has the mode of the daemon, or waits for it.
ModeFollows ==
    Filled => IF pending = 0
              THEN /\ dir.mode = gesture.mode
                   /\ Absent(gestCalls, StrayProbe) /\ Absent(gestMail, StrayProbed)
              ELSE Absent(gestCalls, StrayMode) /\ Absent(gestMail, StrayModed)

\* The parameters of a kind.
OfKind(params, kinds) == {c \in params : c.x.kind \in kinds}

\* The last parameter of the kinds that is under way is in G: it is chained,
\* or the newest of those that wait for their probe to be answered, that are
\* answered, and that are set. Or none is under way.
Coming(kinds, G) ==
    IF pending # 0 THEN Newest(chained[pending], OfKind(SetCalls, kinds), G)
    ELSE \/ Newest(gestCalls, OfKind(ProbeCalls, kinds), G)
         \/ /\ Absent(gestCalls, OfKind(ProbeCalls, kinds))
            /\ \/ Newest(CallsAnswered, OfKind(ProbeCalls, kinds), G)
               \/ /\ Absent(CallsAnswered, OfKind(ProbeCalls, kinds))
                  /\ Newest(gestCalls, OfKind(SetCalls, kinds), G)
\* No parameter of the kinds is under way.
Done(kinds) ==
    /\ pending = 0
    /\ Absent(gestCalls, OfKind(ProbeCalls, kinds)) /\ Absent(CallsAnswered, OfKind(ProbeCalls, kinds))
    /\ Absent(gestCalls, OfKind(SetCalls, kinds))

\* The calls that give the daemon what the direction has.
GrainCalls  == {c \in SetCalls \cup ProbeCalls : c.x.mode = dir.mode /\ c.x.value = dir.grain}
ActionCalls == {c \in SetCalls \cup ProbeCalls : c.x.mode = dir.mode /\ c.x.value = dir.action}
KeysCalls   == {c \in SetCalls \cup ProbeCalls : c.x.kind = "keys"}

\* A parameter set since the mode is on its way to the daemon, or is its own.
\* A keystroke is lost with another action: its kinds are two.
ParamsFollow ==
    doubts = {} =>
        /\ "grain" \in own =>
              Coming({"grain"}, GrainCalls) \/ (Done({"grain"}) /\ gesture.grain = dir.grain)
        /\ "action" \in own =>
              Coming({"action"}, ActionCalls) \/ (Done({"action"}) /\ gesture.action = dir.action)
        /\ "keys" \in own =>
              Coming({"action", "keys"}, KeysCalls) \/ (Done({"action", "keys"}) /\ gesture.keys = TRUE)

\* The inductive invariant.
GestureInv == GestureShapes /\ UnderWay /\ SeedsFirst /\ ModeFollows /\ ParamsFollow

\* A call is sent.
LEMMA OneMoreCall ==
    ASSUME NEW S, NEW cs \in Seq(S), NEW c, NEW all, all = Append(cs, c)
    PROVE  /\ \A K : Absent(cs, K) /\ c \notin K => Absent(all, K)
           /\ \A K, G : Newest(cs, K, G) /\ c \notin K => Newest(all, K, G)
           /\ \A K, G : c \in K \cap G => Newest(all, K, G)
           /\ \A G : Once(cs, G) /\ c \notin G => Once(all, G)
           /\ \A G : Absent(cs, G) => Once(all, G)
  <1> SUFFICES ASSUME NEW K, NEW G
                PROVE  /\ Absent(cs, K) /\ c \notin K => Absent(all, K)
                       /\ Newest(cs, K, G) /\ c \notin K => Newest(all, K, G)
                       /\ c \in K \cap G => Newest(all, K, G)
                       /\ Once(cs, G) /\ c \notin G => Once(all, G)
                       /\ Absent(cs, G) => Once(all, G)
    OBVIOUS
  <1>1. /\ Len(cs) \in Nat /\ Len(all) = Len(cs) + 1
        /\ \A i \in 1 .. Len(cs) : i \in 1 .. Len(all) /\ all[i] = cs[i]
        /\ \A i \in 1 .. Len(all) : i \in 1 .. Len(cs) \/ i = Len(all)
        /\ Len(all) \in 1 .. Len(all) /\ all[Len(all)] = c
    BY Appended
  <1>2. \A i, j \in 1 .. Len(all) : j > i => i # Len(all)
    BY <1>1
  <1>3. \A i \in 1 .. Len(all) : (i = Len(all) /\ all[i] = c) \/ (i \in 1 .. Len(cs) /\ all[i] = cs[i])
    BY <1>1
  <1>4. Absent(cs, K) /\ c \notin K => Absent(all, K)
    BY <1>3 DEF Absent
  <1>5. ASSUME Newest(cs, K, G), c \notin K PROVE Newest(all, K, G)
    <2>1. PICK i \in 1 .. Len(cs) : cs[i] \in K \cap G /\ \A j \in 1 .. Len(cs) : j > i => cs[j] \notin K
      BY <1>5 DEF Newest
    <2>2. \A j \in 1 .. Len(all) : j > i => all[j] \notin K
      BY <1>3, <1>5, <2>1
    <2>3. i \in 1 .. Len(all) /\ all[i] = cs[i]
      BY <1>1
    <2> QED
      BY <2>1, <2>2, <2>3 DEF Newest
  <1>6. c \in K \cap G => Newest(all, K, G)
    BY <1>1, <1>2 DEF Newest
  <1>7. /\ Once(cs, G) /\ c \notin G => Once(all, G)
        /\ Absent(cs, G) => Once(all, G)
    BY <1>3 DEF Once, Absent
  <1> QED
    BY <1>4, <1>5, <1>6, <1>7

\* The first call is taken.
LEMMA OneLess ==
    ASSUME NEW S, NEW cs \in Seq(S), cs # << >>, NEW rest, rest = Tail(cs), NEW c, c = Head(cs)
    PROVE  /\ \A K : Absent(cs, K) => Absent(rest, K) /\ c \notin K
           /\ \A K : c \notin K /\ Absent(rest, K) => Absent(cs, K)
           /\ \A K, G : Newest(cs, K, G) => Newest(rest, K, G) \/ (c \in K \cap G /\ Absent(rest, K))
           /\ \A G : Once(cs, G) => Once(rest, G) /\ (c \in G => Absent(rest, G))
  <1> SUFFICES ASSUME NEW K, NEW G
                PROVE  /\ Absent(cs, K) => Absent(rest, K) /\ c \notin K
                       /\ c \notin K /\ Absent(rest, K) => Absent(cs, K)
                       /\ Newest(cs, K, G) => Newest(rest, K, G) \/ (c \in K \cap G /\ Absent(rest, K))
                       /\ Once(cs, G) => Once(rest, G) /\ (c \in G => Absent(rest, G))
    OBVIOUS
  <1>1. /\ 1 \in 1 .. Len(cs) /\ c = cs[1]
        /\ \A i \in 1 .. Len(cs) : i = 1 \/ (i - 1 \in 1 .. Len(rest) /\ rest[i - 1] = cs[i])
        /\ \A i \in 1 .. Len(rest) : i + 1 \in 1 .. Len(cs) /\ rest[i] = cs[i + 1] /\ i + 1 > 1 /\ i \in Int
        /\ \A i \in 1 .. Len(cs), j \in 1 .. Len(rest) : j > i - 1 => j + 1 > i
    BY Shifted
  <1>2. /\ Absent(cs, K) => Absent(rest, K) /\ c \notin K
        /\ c \notin K /\ Absent(rest, K) => Absent(cs, K)
    BY <1>1 DEF Absent
  <1>3. ASSUME Newest(cs, K, G) PROVE Newest(rest, K, G) \/ (c \in K \cap G /\ Absent(rest, K))
    <2>1. PICK i \in 1 .. Len(cs) : cs[i] \in K \cap G /\ \A j \in 1 .. Len(cs) : j > i => cs[j] \notin K
      BY <1>3 DEF Newest
    <2>2. \A j \in 1 .. Len(rest) : j > i - 1 => rest[j] \notin K
      BY <1>1, <2>1
    <2>3. i = 1 => Absent(rest, K)
      BY <1>1, <2>1 DEF Absent
    <2> QED
      BY <1>1, <2>1, <2>2, <2>3 DEF Newest
  <1>4. ASSUME Once(cs, G) PROVE Once(rest, G) /\ (c \in G => Absent(rest, G))
    <2>1. \A i, j \in 1 .. Len(rest) : i + 1 = j + 1 => i = j
      OBVIOUS
    <2>2. \A i \in 1 .. Len(rest) : i + 1 # 1
      BY <1>1
    <2> QED
      BY <1>1, <1>4, <2>1, <2>2 DEF Once, Absent
  <1> QED
    BY <1>2, <1>3, <1>4

\* Calls are sent.
LEMMA SomeMore ==
    ASSUME NEW S, NEW cs \in Seq(S), NEW us \in Seq(S), NEW all, all = cs \o us
    PROVE  /\ \A K : Absent(cs, K) /\ Absent(us, K) => Absent(all, K)
           /\ \A K : Absent(all, K) => Absent(cs, K) /\ Absent(us, K)
           /\ \A K, G : Newest(us, K, G) => Newest(all, K, G)
           /\ \A K, G : Newest(cs, K, G) /\ Absent(us, K) => Newest(all, K, G)
           /\ \A G : Once(cs, G) /\ Absent(us, G) => Once(all, G)
  <1> SUFFICES ASSUME NEW K, NEW G
                PROVE  /\ Absent(cs, K) /\ Absent(us, K) => Absent(all, K)
                       /\ Absent(all, K) => Absent(cs, K) /\ Absent(us, K)
                       /\ Newest(us, K, G) => Newest(all, K, G)
                       /\ Newest(cs, K, G) /\ Absent(us, K) => Newest(all, K, G)
                       /\ Once(cs, G) /\ Absent(us, G) => Once(all, G)
    OBVIOUS
  <1>1. /\ Len(cs) \in Nat /\ Len(us) \in Nat /\ Len(all) = Len(cs) + Len(us)
        /\ \A i \in 1 .. Len(cs) : all[i] = cs[i]
        /\ \A i \in 1 .. Len(us) : all[Len(cs) + i] = us[i]
    BY Joined
  <1>2. PICK k \in Nat : k = Len(cs)
    BY <1>1
  <1>3. PICK l \in Nat : l = Len(us)
    BY <1>1
  <1>4. /\ \A i \in 1 .. k : i \in 1 .. k + l /\ all[i] = cs[i]
        /\ \A i \in 1 .. l : k + i \in 1 .. k + l /\ all[k + i] = us[i]
    BY <1>1, <1>2, <1>3
  <1>5. \A i \in 1 .. k + l : i \in 1 .. k \/ (i > k /\ i - k \in 1 .. l /\ k + (i - k) = i)
    OBVIOUS
  <1>6. \A i \in 1 .. k + l : \/ i \in 1 .. k /\ all[i] = cs[i]
                              \/ i > k /\ i - k \in 1 .. l /\ all[i] = us[i - k]
    BY <1>4, <1>5
  <1>7. Len(all) = k + l
    BY <1>1, <1>2, <1>3
  <1>8. Absent(cs, K) /\ Absent(us, K) => Absent(all, K)
    BY <1>2, <1>3, <1>6, <1>7 DEF Absent
  <1>9. ASSUME Newest(us, K, G) PROVE Newest(all, K, G)
    <2>1. PICK i \in 1 .. l : us[i] \in K \cap G /\ \A j \in 1 .. l : j > i => us[j] \notin K
      BY <1>3, <1>9 DEF Newest
    <2>2. ASSUME NEW j \in 1 .. k + l, j > k + i PROVE all[j] \notin K
      <3>1. j \notin 1 .. k /\ j - k > i
        BY <2>2
      <3> QED
        BY <1>6, <2>1, <3>1
    <2> QED
      BY <1>4, <1>7, <2>1, <2>2 DEF Newest
  <1>10. ASSUME Newest(cs, K, G), Absent(us, K) PROVE Newest(all, K, G)
    <2>1. PICK i \in 1 .. k : cs[i] \in K \cap G /\ \A j \in 1 .. k : j > i => cs[j] \notin K
      BY <1>2, <1>10 DEF Newest
    <2>2. \A j \in 1 .. k + l : j > i => all[j] \notin K
      BY <1>3, <1>6, <1>10, <2>1 DEF Absent
    <2> QED
      BY <1>4, <1>7, <2>1, <2>2 DEF Newest
  <1>11. ASSUME Once(cs, G), Absent(us, G) PROVE Once(all, G)
    <2>1. \A i \in 1 .. k + l : all[i] \in G => i \in 1 .. k /\ all[i] = cs[i]
      BY <1>3, <1>6, <1>11 DEF Absent
    <2> QED
      BY <1>2, <1>7, <1>11, <2>1 DEF Once
  <1>12. Absent(all, K) => Absent(cs, K) /\ Absent(us, K)
    BY <1>2, <1>3, <1>4, <1>7 DEF Absent
  <1> QED
    BY <1>8, <1>9, <1>10, <1>11, <1>12

\* Where some call of K is the last, calls of K are present.
LEMMA NewestIs ==
    ASSUME NEW cs, NEW K, NEW G
    PROVE  Newest(cs, K, G) => ~Absent(cs, K) /\ ~Absent(cs, G)
  BY DEF Newest, Absent

\* The calls of the mail.
LEMMA CallsListed ==
    /\ \A ml \in Seq(GestureReplies) :
          /\ CallsOf(ml) \in Seq(GestureCalls) /\ Len(CallsOf(ml)) = Len(ml)
          /\ \A i \in 1 .. Len(ml) : CallsOf(ml)[i] = ml[i].call
    /\ \A ml \in Seq(GestureReplies), m \in GestureReplies :
          CallsOf(Append(ml, m)) = Append(CallsOf(ml), m.call)
    /\ \A ml \in Seq(GestureReplies) :
          ml # << >> => /\ CallsOf(Tail(ml)) = Tail(CallsOf(ml)) /\ CallsOf(ml) # << >>
                        /\ Head(CallsOf(ml)) = Head(ml).call
  <1> SUFFICES ASSUME NEW ml \in Seq(GestureReplies)
               PROVE  /\ CallsOf(ml) \in Seq(GestureCalls) /\ Len(CallsOf(ml)) = Len(ml)
                      /\ \A i \in 1 .. Len(ml) : CallsOf(ml)[i] = ml[i].call
                      /\ \A m \in GestureReplies : CallsOf(Append(ml, m)) = Append(CallsOf(ml), m.call)
                      /\ ml # << >> => /\ CallsOf(Tail(ml)) = Tail(CallsOf(ml)) /\ CallsOf(ml) # << >>
                                       /\ Head(CallsOf(ml)) = Head(ml).call
    OBVIOUS
  <1>1. \A m \in GestureReplies : m.call \in GestureCalls
    BY DEF GestureReplies
  <1>2. ASSUME NEW u \in Seq(GestureReplies) PROVE CallsOf(u) \in Seq(GestureCalls) /\ Len(CallsOf(u)) = Len(u)
    BY <1>1 DEF CallsOf
  <1>3. ASSUME NEW m \in GestureReplies PROVE CallsOf(Append(ml, m)) = Append(CallsOf(ml), m.call)
    <2>1. PICK a : a = Append(ml, m)
      OBVIOUS
    <2>2. /\ a \in Seq(GestureReplies) /\ Len(a) = Len(ml) + 1 /\ Len(ml) \in Nat
          /\ \A i \in 1 .. Len(ml) : a[i] = ml[i]
          /\ a[Len(ml) + 1] = m
      BY <2>1
    <2>3. PICK b : b = Append(CallsOf(ml), m.call)
      OBVIOUS
    <2>4. /\ b \in Seq(GestureCalls) /\ Len(b) = Len(ml) + 1
          /\ \A i \in 1 .. Len(ml) : b[i] = CallsOf(ml)[i]
          /\ b[Len(ml) + 1] = m.call
      BY <1>1, <1>2, <2>3
    <2>5. b = [n \in 1 .. Len(ml) + 1 |-> b[n]]
      BY <2>4
    <2>6. \A n \in 1 .. Len(ml) + 1 : b[n] = a[n].call
      <3>1. \A i \in 1 .. Len(ml) : CallsOf(ml)[i] = ml[i].call
        BY DEF CallsOf
      <3>2. \A n \in 1 .. Len(ml) + 1 : n \in 1 .. Len(ml) \/ n = Len(ml) + 1
        BY <2>2
      <3>3. \A n \in 1 .. Len(ml) : b[n] = a[n].call
        BY <2>2, <2>4, <3>1
      <3>4. b[Len(ml) + 1] = a[Len(ml) + 1].call
        BY <2>2, <2>4
      <3> QED
        BY <3>2, <3>3, <3>4
    <2>7. CallsOf(a) = [n \in 1 .. Len(ml) + 1 |-> a[n].call]
      BY <2>2 DEF CallsOf
    <2> QED
      BY <2>1, <2>3, <2>5, <2>6, <2>7
  <1>4. ASSUME ml # << >>
        PROVE  /\ CallsOf(Tail(ml)) = Tail(CallsOf(ml)) /\ CallsOf(ml) # << >>
               /\ Head(CallsOf(ml)) = Head(ml).call
    <2>1. PICK a : a = Tail(ml)
      OBVIOUS
    <2>2. /\ a \in Seq(GestureReplies) /\ Len(a) = Len(ml) - 1 /\ Len(ml) \in Nat \ {0}
          /\ \A i \in 1 .. Len(ml) - 1 : a[i] = ml[i + 1]
          /\ Head(ml) = ml[1]
      BY <1>4, <2>1, Taken
    <2>3. CallsOf(ml) \in Seq(GestureCalls) /\ Len(CallsOf(ml)) = Len(ml) /\ CallsOf(ml) # << >>
      BY <1>2, <2>2
    <2>4. PICK b : b = Tail(CallsOf(ml))
      OBVIOUS
    <2>5. /\ b \in Seq(GestureCalls) /\ Len(b) = Len(ml) - 1
          /\ \A i \in 1 .. Len(ml) - 1 : b[i] = CallsOf(ml)[i + 1]
          /\ Head(CallsOf(ml)) = CallsOf(ml)[1]
      BY <2>3, <2>4, Taken
    <2>6. b = [n \in 1 .. Len(ml) - 1 |-> b[n]]
      BY <2>5
    <2>7. \A n \in 1 .. Len(ml) - 1 : b[n] = a[n].call
      <3>1. \A i \in 1 .. Len(ml) : CallsOf(ml)[i] = ml[i].call
        BY DEF CallsOf
      <3> QED
        BY <2>2, <2>5, <3>1
    <2>8. CallsOf(a) = [n \in 1 .. Len(ml) - 1 |-> a[n].call]
      BY <2>2 DEF CallsOf
    <2>9. CallsOf(ml)[1] = ml[1].call
      BY <2>2 DEF CallsOf
    <2> QED
      BY <2>1, <2>2, <2>3, <2>4, <2>5, <2>6, <2>7, <2>8, <2>9
  <1> QED
    BY <1>2, <1>3, <1>4 DEF CallsOf

\* The sort of a call is told by its operation.
LEMMA Sorts ==
    ASSUME NEW c \in GestureCalls
    PROVE  /\ c \in ModeCalls <=> c.op = "setGesture"
           /\ c \in SetCalls <=> c.op = "set"
           /\ c \in ProbeCalls <=> c.op = "probe"
           /\ c \in SeedCalls <=> c.op \in {"seed", "seedParam"}
           /\ c.op \in {"setGesture", "set", "probe", "seed", "seedParam"}
           /\ c \in ModeCalls => c.x.mode \in ModeSet /\ c.x.id \in 1 .. MaxGestures
           /\ c \in SetCalls \cup ProbeCalls => c.x \in ParamsSet
           /\ c.op = "seed" => c.x \in 1 .. Len(Modes)
           /\ c.op = "seedParam" => c.x \in ModeSet
  BY DEF GestureCalls, ModeCalls, SetCalls, ProbeCalls, SeedCalls

\* The direction is being filled while a call or a reply of that is under way.
LEMMA SeedingIs ==
    ASSUME NEW cs \in Seq(GestureCalls), NEW ml \in Seq(GestureReplies)
    PROVE  /\ (\E n \in 1 .. Len(cs) : cs[n].op \in {"seed", "seedParam"}) <=> ~Absent(cs, SeedCalls)
           /\ (\E n \in 1 .. Len(ml) : ml[n].call.op \in {"seed", "seedParam"}) <=> ~Absent(CallsOf(ml), SeedCalls)
  <1>1. \A n \in 1 .. Len(cs) : cs[n] \in GestureCalls
    OBVIOUS
  <1>2. /\ CallsOf(ml) \in Seq(GestureCalls) /\ Len(CallsOf(ml)) = Len(ml)
        /\ \A i \in 1 .. Len(ml) : CallsOf(ml)[i] = ml[i].call
    BY CallsListed
  <1>3. \A n \in 1 .. Len(CallsOf(ml)) : CallsOf(ml)[n] \in GestureCalls
    BY <1>2
  <1> QED
    BY <1>1, <1>2, <1>3, Sorts DEF Absent

\* A gesture with a parameter set is one of the same mode.
LEMMA ParamSet ==
    ASSUME NEW p \in ParamsSet, gesture \in [mode : ModeSet \cup {""}, grain : Grains \cup {0}, action : Actions, keys : BOOLEAN]
    PROVE  /\ WithParam(p) \in [mode : ModeSet \cup {""}, grain : Grains \cup {0}, action : Actions, keys : BOOLEAN]
           /\ WithParam(p).mode = gesture.mode
           /\ p.kind = "grain" => /\ WithParam(p).grain = p.value /\ WithParam(p).action = gesture.action
                                  /\ WithParam(p).keys = gesture.keys
           /\ p.kind = "action" => WithParam(p).grain = gesture.grain /\ WithParam(p).action = p.value
           /\ p.kind = "keys" => /\ WithParam(p).grain = gesture.grain /\ WithParam(p).action = gesture.action
                                 /\ WithParam(p).keys = TRUE
           /\ p.kind \in {"grain", "action", "keys"}
  <1>1. CASE p.kind = "grain"
    BY <1>1, Zenon DEF ParamsSet, WithParam
  <1>2. CASE p.kind = "action"
    BY <1>2, Zenon DEF ParamsSet, WithParam, Actions
  <1>3. CASE p.kind = "keys"
    BY <1>3, Zenon DEF ParamsSet, WithParam
  <1> QED
    BY <1>1, <1>2, <1>3, Zenon DEF ParamsSet

\* A call is answered: what the daemon has, and the reply.
AnsweredAs(c, m) ==
    \/ /\ c.op = "setGesture" /\ doubts' = doubts
       /\ \/ m.ok = TRUE /\ gesture' = Fresh(c.x.mode)
          \/ m.ok = FALSE /\ gesture' \in {gesture, Fresh(""), Fresh(c.x.mode)}
    \/ /\ c.op = "set"
       /\ \/ doubts' = doubts /\ gesture' = IF Applies(c.x) THEN WithParam(c.x) ELSE gesture
          \/ /\ doubts' = doubts \cup {"unset"}
             /\ gesture' \in {gesture, [gesture EXCEPT !.action = "", !.keys = FALSE]}
    \/ /\ c.op \in {"probe", "seed", "seedParam"} /\ gesture' = gesture
       /\ \/ /\ doubts' = doubts
             /\ c.op = "probe" => m.ok = (gesture.mode = c.x.mode)
             /\ c.op = "seed" => m.ok = (gesture.mode = Modes[c.x])
          \/ doubts' = doubts \cup {"unanswered"}

\* The daemon answers the first call: what the reply says.
LEMMA GestureAnswer ==
    ASSUME GestureShapes, GestureAnswered
    PROVE  \E m \in GestureReplies :
              /\ gestMail' = Append(gestMail, m) /\ m.call = Head(gestCalls)
              /\ AnsweredAs(Head(gestCalls), m)
              /\ GestureShapes'
  <1>1. PICK c : c = Head(gestCalls)
    OBVIOUS
  <1>2. gestCalls \in Seq(GestureCalls) /\ gestCalls # << >> /\ gestMail \in Seq(GestureReplies)
        /\ gesture \in [mode : ModeSet \cup {""}, grain : Grains \cup {0}, action : Actions, keys : BOOLEAN]
    BY Zenon DEF GestureShapes, GestureAnswered
  <1>3. c \in GestureCalls /\ Tail(gestCalls) \in Seq(GestureCalls)
    <2>1. PICK rest : rest = Tail(gestCalls)
      OBVIOUS
    <2>2. rest \in Seq(GestureCalls) /\ Head(gestCalls) = gestCalls[1] /\ gestCalls[1] \in GestureCalls
      BY <1>2, <2>1, Shifted, Zenon
    <2> QED
      BY <1>1, <2>1, <2>2
  <1>4. /\ \/ MadeOrRefused(c) \/ SetOrNot(c)
           \/ c.op = "probe" /\ Probed(c, c.x.mode)
           \/ c.op = "seed" /\ Probed(c, Modes[c.x])
           \/ c.op = "seedParam" /\ Probed(c, c.x)
        /\ 0 \in Grains \cup {0} /\ gesture.grain \in Grains \cup {0}
    BY <1>1, <1>2 DEF GestureAnswered
  <1>5. PICK m : /\ \E ok \in BOOLEAN, v \in Grains \cup {0} : m = [call |-> c, ok |-> ok, value |-> v]
                 /\ gestMail' = Append(gestMail, m) /\ AnsweredAs(c, m)
    <2>1. CASE MadeOrRefused(c)
      <3>1. PICK ok \in BOOLEAN :
               /\ gestMail' = Append(gestMail, [call |-> c, ok |-> ok, value |-> 0])
               /\ \/ ok = TRUE /\ gesture' = Fresh(c.x.mode)
                  \/ ok = FALSE /\ gesture' \in {gesture, Fresh(""), Fresh(c.x.mode)}
               /\ c.op = "setGesture" /\ doubts' = doubts
        BY <2>1 DEF MadeOrRefused, Replies
      <3>2. PICK m : m = [call |-> c, ok |-> ok, value |-> 0]
        OBVIOUS
      <3>3. m.ok = ok
        BY <3>2
      <3>4. AnsweredAs(c, m)
        BY <3>1, <3>3, Zenon DEF AnsweredAs
      <3> QED
        BY <1>4, <3>1, <3>2, <3>4
    <2>2. CASE SetOrNot(c)
      <3>1. gestMail' = Append(gestMail, [call |-> c, ok |-> TRUE, value |-> 0]) /\ c.op = "set"
        BY <2>2 DEF SetOrNot, Replies
      <3>2. \/ doubts' = doubts /\ gesture' = IF Applies(c.x) THEN WithParam(c.x) ELSE gesture
            \/ /\ doubts' = doubts \cup {"unset"}
               /\ gesture' \in {gesture, [gesture EXCEPT !.action = "", !.keys = FALSE]}
        BY <2>2, Zenon DEF SetOrNot
      <3> QED
        BY <1>4, <3>1, <3>2 DEF AnsweredAs
    <2>3. ASSUME NEW mode, Probed(c, mode)
          PROVE  \E ok \in BOOLEAN, v \in Grains \cup {0} :
                    /\ gestMail' = Append(gestMail, [call |-> c, ok |-> ok, value |-> v]) /\ gesture' = gesture
                    /\ (doubts' = doubts /\ ok = (gesture.mode = mode)) \/ doubts' = doubts \cup {"unanswered"}
      <3>1. (gesture.mode = mode) \in BOOLEAN
        OBVIOUS
      <3> QED
        BY <1>4, <2>3, <3>1 DEF Probed, Replies
    <2>4. CASE c.op = "probe" /\ Probed(c, c.x.mode)
      <3>1. PICK ok \in BOOLEAN, v \in Grains \cup {0} :
               /\ gestMail' = Append(gestMail, [call |-> c, ok |-> ok, value |-> v]) /\ gesture' = gesture
               /\ (doubts' = doubts /\ ok = (gesture.mode = c.x.mode)) \/ doubts' = doubts \cup {"unanswered"}
        BY <2>3, <2>4
      <3>2. PICK m : m = [call |-> c, ok |-> ok, value |-> v]
        OBVIOUS
      <3>3. m.ok = ok
        BY <3>2
      <3>4. AnsweredAs(c, m)
        BY <2>4, <3>1, <3>3 DEF AnsweredAs
      <3> QED
        BY <3>1, <3>2, <3>4
    <2>5. CASE c.op = "seed" /\ Probed(c, Modes[c.x])
      <3>1. PICK ok \in BOOLEAN, v \in Grains \cup {0} :
               /\ gestMail' = Append(gestMail, [call |-> c, ok |-> ok, value |-> v]) /\ gesture' = gesture
               /\ (doubts' = doubts /\ ok = (gesture.mode = Modes[c.x])) \/ doubts' = doubts \cup {"unanswered"}
        BY <2>3, <2>5
      <3>2. PICK m : m = [call |-> c, ok |-> ok, value |-> v]
        OBVIOUS
      <3>3. m.ok = ok
        BY <3>2
      <3>4. AnsweredAs(c, m)
        BY <2>5, <3>1, <3>3 DEF AnsweredAs
      <3> QED
        BY <3>1, <3>2, <3>4
    <2>6. CASE c.op = "seedParam" /\ Probed(c, c.x)
      <3>1. PICK ok \in BOOLEAN, v \in Grains \cup {0} :
               /\ gestMail' = Append(gestMail, [call |-> c, ok |-> ok, value |-> v]) /\ gesture' = gesture
               /\ (doubts' = doubts /\ ok = (gesture.mode = c.x)) \/ doubts' = doubts \cup {"unanswered"}
        BY <2>3, <2>6
      <3>2. PICK m : m = [call |-> c, ok |-> ok, value |-> v]
        OBVIOUS
      <3>3. m.ok = ok
        BY <3>2
      <3>4. AnsweredAs(c, m)
        BY <2>6, <3>1, <3>3 DEF AnsweredAs
      <3> QED
        BY <3>1, <3>2, <3>4
    <2> QED
      BY <1>4, <2>1, <2>2, <2>4, <2>5, <2>6
  <1>6. m \in GestureReplies /\ m.call = c
    BY <1>3, <1>5 DEF GestureReplies
  <1>7. gesture' \in [mode : ModeSet \cup {""}, grain : Grains \cup {0}, action : Actions, keys : BOOLEAN]
    <2>1. CASE c.op = "setGesture"
      <3>1. c.x.mode \in ModeSet
        BY <1>3, <2>1, Sorts
      <3>2. Fresh(c.x.mode) \in [mode : ModeSet \cup {""}, grain : Grains \cup {0}, action : Actions, keys : BOOLEAN]
        BY <3>1, Zenon DEF Fresh, Actions
      <3>3. Fresh("") \in [mode : ModeSet \cup {""}, grain : Grains \cup {0}, action : Actions, keys : BOOLEAN]
        BY Zenon DEF Fresh, Actions
      <3> QED
        BY <1>2, <1>5, <2>1, <3>2, <3>3, Zenon DEF AnsweredAs
    <2>2. CASE c.op = "set"
      <3>1. c.x \in ParamsSet
        BY <1>3, <2>2, Sorts
      <3>2. WithParam(c.x) \in [mode : ModeSet \cup {""}, grain : Grains \cup {0}, action : Actions, keys : BOOLEAN]
        BY <1>2, <3>1, ParamSet, Zenon
      <3>3. [gesture EXCEPT !.action = "", !.keys = FALSE] \in
               [mode : ModeSet \cup {""}, grain : Grains \cup {0}, action : Actions, keys : BOOLEAN]
        BY <1>2 DEF Actions
      <3> QED
        BY <1>2, <1>5, <2>2, <3>2, <3>3, Zenon DEF AnsweredAs
    <2> QED
      BY <1>2, <1>5, <2>1, <2>2, Zenon DEF AnsweredAs
  <1>8. Append(gestMail, m) \in Seq(GestureReplies)
    BY <1>2, <1>6, Appended, Zenon
  <1>9. gestCalls' = Tail(gestCalls) /\ dir' = dir /\ chained' = chained /\ pending' = pending
        /\ gestEdits' = gestEdits /\ own' = own
    BY DEF GestureAnswered
  <1>10. GestureShapes'
    BY <1>3, <1>5, <1>7, <1>8, <1>9, Zenon DEF GestureShapes
  <1> QED
    BY <1>1, <1>5, <1>6, <1>10

\* What a call that is taken and answered does to a kind of parameter.
LEMMA FollowsAnswered ==
    ASSUME GestureShapes, GestureAnswered, NEW c, c = Head(gestCalls), NEW kinds, NEW G,
           \A x \in ParamsSet : Call("probe", x) \in G => Call("set", x) \in G
    PROVE  /\ Coming(kinds, G) => Coming(kinds, G)' \/ (Done(kinds)' /\ c \in OfKind(SetCalls, kinds) \cap G)
           /\ Done(kinds) => Done(kinds)' /\ c \notin OfKind(SetCalls, kinds)
  <1>1. PICK m \in GestureReplies : gestMail' = Append(gestMail, m) /\ m.call = c
    BY GestureAnswer
  <1>2. gestCalls \in Seq(GestureCalls) /\ gestMail \in Seq(GestureReplies) /\ gestCalls # << >>
    BY Zenon DEF GestureShapes, GestureAnswered
  <1>3. PICK cs : cs = gestCalls'
    OBVIOUS
  <1>4. PICK an : an = CallsAnswered'
    OBVIOUS
  <1>5. cs = Tail(gestCalls) /\ pending' = pending /\ chained' = chained
    BY <1>3 DEF GestureAnswered
  <1>6. CallsAnswered \in Seq(GestureCalls) /\ an = Append(CallsAnswered, c)
    <2>1. CallsOf(gestMail) \in Seq(GestureCalls) /\ CallsOf(Append(gestMail, m)) = Append(CallsOf(gestMail), m.call)
      BY <1>1, <1>2, CallsListed
    <2> QED
      BY <1>1, <1>4, <2>1 DEF CallsAnswered
  <1>7. PICK KP : KP = OfKind(ProbeCalls, kinds)
    OBVIOUS
  <1>8. PICK KS : KS = OfKind(SetCalls, kinds)
    OBVIOUS
  <1>9. CASE pending # 0
    BY <1>5, <1>9 DEF Coming, Done
  <1>10. CASE pending = 0
    <2>1. /\ Absent(gestCalls, KP) => Absent(cs, KP) /\ c \notin KP
          /\ Newest(gestCalls, KP, G) => Newest(cs, KP, G) \/ (c \in KP \cap G /\ Absent(cs, KP))
          /\ Absent(gestCalls, KS) => Absent(cs, KS) /\ c \notin KS
          /\ Newest(gestCalls, KS, G) => Newest(cs, KS, G) \/ (c \in KS \cap G /\ Absent(cs, KS))
      BY <1>2, <1>5, OneLess
    <2>2. /\ Absent(CallsAnswered, KP) /\ c \notin KP => Absent(an, KP)
          /\ Newest(CallsAnswered, KP, G) /\ c \notin KP => Newest(an, KP, G)
          /\ c \in KP \cap G => Newest(an, KP, G)
      BY <1>6, OneMoreCall
    <2>3. Coming(kinds, G) <=>
             \/ Newest(gestCalls, KP, G)
             \/ /\ Absent(gestCalls, KP)
                /\ \/ Newest(CallsAnswered, KP, G)
                   \/ Absent(CallsAnswered, KP) /\ Newest(gestCalls, KS, G)
      BY <1>7, <1>8, <1>10 DEF Coming
    <2>4. Coming(kinds, G)' <=>
             \/ Newest(cs, KP, G)
             \/ /\ Absent(cs, KP)
                /\ \/ Newest(an, KP, G)
                   \/ Absent(an, KP) /\ Newest(cs, KS, G)
      BY <1>3, <1>4, <1>5, <1>7, <1>8, <1>10 DEF Coming
    <2>5. /\ Done(kinds) <=> Absent(gestCalls, KP) /\ Absent(CallsAnswered, KP) /\ Absent(gestCalls, KS)
          /\ Done(kinds)' <=> Absent(cs, KP) /\ Absent(an, KP) /\ Absent(cs, KS)
      BY <1>3, <1>4, <1>5, <1>7, <1>8, <1>10 DEF Done
    <2>6. c \in KS => c \notin KP
      BY <1>7, <1>8 DEF OfKind, SetCalls, ProbeCalls
    <2>7. Coming(kinds, G) => Coming(kinds, G)' \/ (Done(kinds)' /\ c \in KS \cap G)
      BY <2>1, <2>2, <2>3, <2>4, <2>5, <2>6
    <2>8. Done(kinds) => Done(kinds)' /\ c \notin KS
      BY <2>1, <2>2, <2>5
    <2> QED
      BY <1>8, <2>7, <2>8
  <1> QED
    BY <1>9, <1>10

\* A call is answered.
LEMMA GestureAnswers ==
    ASSUME GestureInv, GestureAnswered
    PROVE  GestureInv'
  <1>1. PICK c : c = Head(gestCalls)
    OBVIOUS
  <1>2. PICK m \in GestureReplies : gestMail' = Append(gestMail, m) /\ m.call = c /\ AnsweredAs(c, m) /\ GestureShapes'
    BY <1>1, GestureAnswer DEF GestureInv
  <1>3. GestureShapes /\ UnderWay /\ SeedsFirst /\ ModeFollows /\ ParamsFollow
    BY DEF GestureInv
  <1>4. gestCalls \in Seq(GestureCalls) /\ gestMail \in Seq(GestureReplies) /\ gestCalls # << >>
    BY <1>3, Zenon DEF GestureShapes, GestureAnswered
  <1>5. PICK cs : cs = gestCalls'
    OBVIOUS
  <1>6. PICK ml : ml = gestMail'
    OBVIOUS
  <1>7. PICK an : an = CallsOf(ml)
    OBVIOUS
  <1>8. cs = Tail(gestCalls) /\ dir' = dir /\ pending' = pending /\ chained' = chained
        /\ gestEdits' = gestEdits /\ own' = own /\ (doubts' = {} => doubts = {} /\ doubts' = doubts)
    BY <1>2, <1>5 DEF GestureAnswered, AnsweredAs
  <1>9. CallsAnswered \in Seq(GestureCalls) /\ an = Append(CallsAnswered, c) /\ CallsAnswered' = an
    <2>1. CallsOf(gestMail) \in Seq(GestureCalls) /\ CallsOf(Append(gestMail, m)) = Append(CallsOf(gestMail), m.call)
      BY <1>2, <1>4, CallsListed
    <2> QED
      BY <1>2, <1>6, <1>7, <2>1 DEF CallsAnswered
  <1>10. c \in GestureCalls /\ cs \in Seq(GestureCalls) /\ c = gestCalls[1] /\ 1 \in 1 .. Len(gestCalls)
    BY <1>1, <1>4, <1>8, Shifted
  <1>11. ml = Append(gestMail, m) /\ ml \in Seq(GestureReplies) /\ an \in Seq(GestureCalls)
    BY <1>2, <1>4, <1>6, <1>9, <1>10, Appended
  <1>12. /\ \A K : Absent(gestCalls, K) => Absent(cs, K) /\ c \notin K
         /\ \A K : c \notin K /\ Absent(cs, K) => Absent(gestCalls, K)
         /\ \A K, G : Newest(gestCalls, K, G) => Newest(cs, K, G) \/ (c \in K \cap G /\ Absent(cs, K))
         /\ \A G : Once(gestCalls, G) => Once(cs, G) /\ (c \in G => Absent(cs, G))
    BY <1>1, <1>4, <1>8, OneLess
  <1>13. /\ \A K : Absent(CallsAnswered, K) /\ c \notin K => Absent(an, K)
         /\ \A K, G : Newest(CallsAnswered, K, G) /\ c \notin K => Newest(an, K, G)
         /\ \A K, G : c \in K \cap G => Newest(an, K, G)
         /\ \A G : Once(CallsAnswered, G) /\ c \notin G => Once(an, G)
         /\ \A G : Absent(CallsAnswered, G) => Once(an, G)
    BY <1>9, OneMoreCall
  <1>14. \A K : Absent(an, K) => Absent(CallsAnswered, K) /\ c \notin K
    <2>1. /\ \A i \in 1 .. Len(CallsAnswered) : i \in 1 .. Len(an) /\ an[i] = CallsAnswered[i]
          /\ \E i \in 1 .. Len(an) : an[i] = c
      <3>1. /\ Len(CallsAnswered) \in Nat /\ Len(an) = Len(CallsAnswered) + 1 /\ an[Len(CallsAnswered) + 1] = c
            /\ \A i \in 1 .. Len(CallsAnswered) : an[i] = CallsAnswered[i]
        BY <1>9, Appended
      <3>2. Len(CallsAnswered) + 1 \in 1 .. Len(an) /\ \A i \in 1 .. Len(CallsAnswered) : i \in 1 .. Len(an)
        BY <3>1
      <3> QED
        BY <3>1, <3>2
    <2> QED
      BY <2>1 DEF Absent
  <1>15. \A K : Absent(gestMail, K) /\ m \notin K => Absent(ml, K)
    BY <1>4, <1>11, OneMoreCall
  <1>16. Awaited' = Awaited /\ Unsent' = Unsent
    BY <1>8 DEF Awaited, Unsent
  <1>17. UnderWay'
    <2>1. pending = 0 => Absent(cs, ModeCalls) /\ Absent(an, ModeCalls)
      BY <1>3, <1>12, <1>13 DEF UnderWay
    <2>2. ASSUME pending # 0
          PROVE  \/ Newest(cs, Later, Awaited) /\ Once(cs, Awaited) /\ Absent(an, Awaited)
                 \/ Absent(cs, Later) /\ Newest(an, Later, Awaited) /\ Once(an, Awaited)
      <3>1. CASE Newest(gestCalls, Later, Awaited) /\ Once(gestCalls, Awaited) /\ Absent(CallsAnswered, Awaited)
        <4>1. CASE Newest(cs, Later, Awaited)
          <5>1. c \notin Awaited
            BY <1>12, <3>1, <4>1, NewestIs
          <5> QED
            BY <1>12, <1>13, <3>1, <4>1, <5>1
        <4>2. CASE c \in Later \cap Awaited /\ Absent(cs, Later)
          BY <1>13, <3>1, <4>2
        <4> QED
          BY <1>12, <3>1, <4>1, <4>2
      <3>2. CASE Absent(gestCalls, Later) /\ Newest(CallsAnswered, Later, Awaited) /\ Once(CallsAnswered, Awaited)
        <4>1. c \notin Later /\ Absent(cs, Later)
          BY <1>12, <3>2
        <4>2. c \notin Awaited
          BY <4>1 DEF Awaited, SetGesture, Later
        <4> QED
          BY <1>13, <3>2, <4>1, <4>2
      <3> QED
        BY <1>3, <2>2, <3>1, <3>2 DEF UnderWay
    <2>3. \A id \in 1 .. MaxGestures :
             chained[id] # << >> => ~(Absent(cs, SetGesture(id)) /\ Absent(an, SetGesture(id)))
      BY <1>3, <1>12, <1>14 DEF UnderWay
    <2>4. Absent(cs, Unsent) /\ Absent(an, Unsent)
      BY <1>3, <1>12, <1>13 DEF UnderWay
    <2> QED
      BY <1>5, <1>8, <1>9, <1>16, <2>1, <2>2, <2>3, <2>4 DEF UnderWay
  <1>18. Seeding => Seeding'
    <2>1. /\ Seeding <=> ~(Absent(gestCalls, SeedCalls) /\ Absent(CallsAnswered, SeedCalls))
          /\ Seeding' <=> ~(Absent(cs, SeedCalls) /\ Absent(an, SeedCalls))
      BY <1>4, <1>5, <1>6, <1>7, <1>10, <1>11, SeedingIs DEF Seeding, CallsAnswered
    <2> QED
      BY <1>12, <1>14, <2>1
  <1>19. Seeding' => Seeding
    <2>1. /\ Seeding <=> ~(Absent(gestCalls, SeedCalls) /\ Absent(CallsAnswered, SeedCalls))
          /\ Seeding' <=> ~(Absent(cs, SeedCalls) /\ Absent(an, SeedCalls))
      BY <1>4, <1>5, <1>6, <1>7, <1>10, <1>11, SeedingIs DEF Seeding, CallsAnswered
    <2> QED
      BY <1>12, <1>13, <2>1
  <1>20. SeedsFirst'
    <2> SUFFICES ASSUME Seeding', doubts' = {}
                 PROVE  /\ pending = 0 /\ own = {}
                        /\ Len(cs) = 0 /\ Len(ml) = 1 /\ Seeds(ml[1].call, ml[1].ok, TRUE)'
      BY <1>5, <1>6, <1>8 DEF SeedsFirst
    <2>1. /\ pending = 0 /\ own = {}
          /\ \/ Len(gestCalls) = 1 /\ Len(gestMail) = 0 /\ Seeds(gestCalls[1], TRUE, FALSE)
             \/ Len(gestCalls) = 0
      BY <1>3, <1>8, <1>19 DEF SeedsFirst
    <2>2. Len(gestCalls) = 1 /\ Len(gestMail) = 0 /\ Seeds(c, TRUE, FALSE)
      <3>1. Len(gestCalls) # 0
        BY <1>4, Taken
      <3> QED
        BY <1>10, <2>1, <3>1
    <2>3. Len(cs) = 0 /\ Len(ml) = 1 /\ ml[1] = m
      BY <1>4, <1>8, <1>11, <2>2, Taken, Appended
    <2>4. c.op = "seed" \/ c.op = "seedParam"
      BY <2>2, Zenon DEF Seeds
    <2>5. gesture' = gesture /\ (c.op = "seed" => m.ok = (gesture.mode = Modes[c.x]))
      BY <1>2, <1>8, <2>4 DEF AnsweredAs
    <2>6. Seeds(c, m.ok, TRUE)'
      BY <1>8, <2>2, <2>5, Zenon DEF Seeds
    <2> QED
      BY <1>2, <1>6, <2>1, <2>3, <2>6
  <1>21. c.op # "setGesture" => gesture'.mode = gesture.mode
    <2>1. c.op = "set" => WithParam(c.x).mode = gesture.mode
      BY <1>3, <1>10, Sorts, ParamSet, Zenon DEF GestureShapes
    <2>2. gesture \in [mode : ModeSet \cup {""}, grain : Grains \cup {0}, action : Actions, keys : BOOLEAN]
      BY <1>3, Zenon DEF GestureShapes
    <2>3. [gesture EXCEPT !.action = "", !.keys = FALSE].mode = gesture.mode
      BY <2>2
    <2>4. c.op = "set" => \/ gesture' = WithParam(c.x) \/ gesture' = gesture
                          \/ gesture' = [gesture EXCEPT !.action = "", !.keys = FALSE]
      BY <1>2, Zenon DEF AnsweredAs
    <2>5. c.op \notin {"set", "setGesture"} => gesture' = gesture
      BY <1>2, Zenon DEF AnsweredAs
    <2> QED
      BY <2>1, <2>3, <2>4, <2>5
  <1>22. ModeFollows'
    <2> SUFFICES ASSUME Filled' PROVE ModeFollows'
      BY DEF ModeFollows
    <2>0. doubts = {} /\ doubts' = {}
      BY <1>8 DEF Filled
    <2>1. Filled
      BY <1>18, <2>0 DEF Filled
    <2>2. /\ StrayProbe' = StrayProbe /\ StrayProbed' = StrayProbed /\ StrayMode' = StrayMode
      BY <1>8, <1>16 DEF StrayProbe, StrayProbed, StrayMode
    <2>3. CASE pending = 0
      <3>1. dir.mode = gesture.mode /\ Absent(gestCalls, StrayProbe) /\ Absent(gestMail, StrayProbed)
            /\ Absent(gestCalls, ModeCalls)
        BY <1>3, <2>1, <2>3 DEF ModeFollows, UnderWay
      <3>2. c \notin ModeCalls /\ c \notin StrayProbe /\ Absent(cs, StrayProbe)
        BY <1>12, <3>1
      <3>3. gesture'.mode = dir'.mode
        BY <1>8, <1>10, <1>21, <3>1, <3>2, Sorts
      <3>4. m \notin StrayProbed
        <4>1. c \in ProbeCalls => c.op = "probe" /\ c.x.mode = dir.mode
          BY <1>10, <3>2, Sorts DEF StrayProbe
        <4>2. c \in ProbeCalls => m.ok = TRUE
          BY <1>2, <3>1, <4>1, <2>0 DEF AnsweredAs
        <4> QED
          BY <1>2, <4>1, <4>2 DEF StrayProbed
      <3>5. Absent(ml, StrayProbed)
        BY <1>15, <3>1, <3>4
      <3> QED
        BY <1>5, <1>6, <1>8, <2>2, <2>3, <3>2, <3>3, <3>5 DEF ModeFollows
    <2>4. CASE pending # 0
      <3>1. Absent(gestCalls, StrayMode) /\ Absent(gestMail, StrayModed)
        BY <1>3, <2>1, <2>4 DEF ModeFollows
      <3>2. Absent(cs, StrayMode) /\ c \notin StrayMode
        BY <1>12, <3>1
      <3>3. CASE c.op = "setGesture"
        <4>1. c \in Later
          BY <1>10, <3>3, Sorts DEF Later
        <4>2. Absent(CallsAnswered, Awaited)
          BY <1>3, <1>12, <2>4, <4>1 DEF UnderWay
        <4>3. \A i \in 1 .. Len(gestMail) : gestMail[i].call \notin Awaited
          <5>1. /\ Len(CallsAnswered) = Len(gestMail)
                /\ \A i \in 1 .. Len(gestMail) : CallsAnswered[i] = gestMail[i].call
            BY <1>4, CallsListed DEF CallsAnswered
          <5> QED
            BY <4>2, <5>1 DEF Absent
        <4>4. Absent(gestMail, StrayModed')
          BY <1>16, <4>3 DEF Absent, StrayModed
        <4>5. m \notin StrayModed'
          <5>1. m.ok = TRUE => gesture' = Fresh(c.x.mode)
            BY <1>2, <3>3 DEF AnsweredAs
          <5>2. c \in Awaited => c.x.mode = dir.mode
            BY <3>2 DEF StrayMode
          <5>3. m \in StrayModed' => c \in Awaited /\ m.ok = TRUE /\ gesture'.mode # dir'.mode
            BY <1>2, <1>16 DEF StrayModed
          <5>4. Fresh(c.x.mode).mode = c.x.mode
            BY DEF Fresh
          <5> QED
            BY <1>8, <5>1, <5>2, <5>3, <5>4
        <4>6. Absent(ml, StrayModed')
          BY <1>15, <4>4, <4>5
        <4> QED
          BY <1>5, <1>6, <1>8, <2>2, <2>4, <3>2, <4>6 DEF ModeFollows
      <3>4. CASE c.op # "setGesture"
        <4>1. StrayModed' = StrayModed
          BY <1>8, <1>16, <1>21, <3>4 DEF StrayModed
        <4>2. m \notin StrayModed
          BY <1>2, <1>10, <3>4, Sorts DEF StrayModed, Awaited, SetGesture
        <4>3. Absent(ml, StrayModed)
          BY <1>15, <3>1, <4>2
        <4> QED
          BY <1>5, <1>6, <1>8, <2>2, <2>4, <3>2, <4>1, <4>3 DEF ModeFollows
      <3> QED
        BY <3>3, <3>4
    <2> QED
      BY <2>3, <2>4
  <1>23. ParamsFollow'
    <2> SUFFICES ASSUME doubts' = {} PROVE ParamsFollow'
      BY DEF ParamsFollow
    <2>1. doubts = {}
      BY <1>8
    <2>2. own # {} => Filled
      BY <1>3, <2>1 DEF SeedsFirst, Filled
    \* With no SetGesture awaited the mode is the direction's.
    <2>3. own # {} /\ pending = 0 => gesture.mode = dir.mode /\ c.op # "setGesture"
      BY <1>3, <1>10, <1>12, <2>2, Sorts DEF ModeFollows, UnderWay
    <2>4. /\ GrainCalls' = GrainCalls /\ ActionCalls' = ActionCalls /\ KeysCalls' = KeysCalls
      BY <1>8 DEF GrainCalls, ActionCalls, KeysCalls
    <2>5. /\ \A x \in ParamsSet : Call("probe", x) \in GrainCalls => Call("set", x) \in GrainCalls
          /\ \A x \in ParamsSet : Call("probe", x) \in ActionCalls => Call("set", x) \in ActionCalls
          /\ \A x \in ParamsSet : Call("probe", x) \in KeysCalls => Call("set", x) \in KeysCalls
      BY DEF Call, GrainCalls, ActionCalls, KeysCalls, SetCalls
    <2>6. c.op = "set" => /\ c.x \in ParamsSet /\ c.x.kind \in {"grain", "action", "keys"}
                          /\ gesture' = IF Applies(c.x) THEN WithParam(c.x) ELSE gesture
      BY <1>2, <1>8, <1>10, Sorts DEF AnsweredAs, ParamsSet
    <2>7. c.op \notin {"set", "setGesture"} => gesture' = gesture
      BY <1>2 DEF AnsweredAs
    <2>8. \A k : c \in OfKind(SetCalls, k) <=> c.op = "set" /\ c.x.kind \in k
      BY <1>10, Sorts DEF OfKind
    <2>9. c.op = "set" =>
             /\ WithParam(c.x).mode = gesture.mode
             /\ c.x.kind = "grain" => /\ WithParam(c.x).grain = c.x.value /\ WithParam(c.x).action = gesture.action
                                      /\ WithParam(c.x).keys = gesture.keys
             /\ c.x.kind = "action" => WithParam(c.x).grain = gesture.grain /\ WithParam(c.x).action = c.x.value
             /\ c.x.kind = "keys" => /\ WithParam(c.x).grain = gesture.grain /\ WithParam(c.x).action = gesture.action
                                     /\ WithParam(c.x).keys = TRUE
      BY <1>3, <2>6, ParamSet, Zenon DEF GestureShapes
    <2>11. ASSUME "grain" \in own
           PROVE  (Coming({"grain"}, GrainCalls) \/ (Done({"grain"}) /\ gesture.grain = dir.grain))'
      <3>1. PICK G : G = GrainCalls
        OBVIOUS
      <3>2. Coming({"grain"}, G) \/ (Done({"grain"}) /\ gesture.grain = dir.grain)
        BY <1>3, <2>1, <2>11, <3>1 DEF ParamsFollow
      <3>3. \A x \in ParamsSet : Call("probe", x) \in G => Call("set", x) \in G
        BY <2>5, <3>1
      <3>4. /\ Coming({"grain"}, G) => Coming({"grain"}, G)' \/ (Done({"grain"})' /\ c \in OfKind(SetCalls, {"grain"}) \cap G)
            /\ Done({"grain"}) => Done({"grain"})' /\ c \notin OfKind(SetCalls, {"grain"})
        BY <1>1, <1>3, <3>3, FollowsAnswered
      <3>5. ASSUME c \notin OfKind(SetCalls, {"grain"}), Done({"grain"}), gesture.grain = dir.grain PROVE gesture'.grain = dir'.grain
        BY <1>8, <2>3, <2>6, <2>7, <2>8, <2>9, <2>11, <3>5 DEF Done
      <3>6. ASSUME Done({"grain"})', c \in OfKind(SetCalls, {"grain"}) \cap G PROVE gesture'.grain = dir'.grain
        <4>1. c.op = "set" /\ c.x.kind = "grain" /\ c.x.mode = dir.mode /\ c.x.value = dir.grain
          BY <2>8, <3>1, <3>6 DEF GrainCalls
        <4>2. Applies(c.x)
          BY <1>8, <2>3, <2>11, <3>6, <4>1 DEF Applies, Done
        <4> QED
          BY <1>8, <2>6, <2>9, <4>1, <4>2
      <3> QED
        BY <2>4, <3>1, <3>2, <3>4, <3>5, <3>6
    <2>12. ASSUME "action" \in own
           PROVE  (Coming({"action"}, ActionCalls) \/ (Done({"action"}) /\ gesture.action = dir.action))'
      <3>1. PICK G : G = ActionCalls
        OBVIOUS
      <3>2. Coming({"action"}, G) \/ (Done({"action"}) /\ gesture.action = dir.action)
        BY <1>3, <2>1, <2>12, <3>1 DEF ParamsFollow
      <3>3. \A x \in ParamsSet : Call("probe", x) \in G => Call("set", x) \in G
        BY <2>5, <3>1
      <3>4. /\ Coming({"action"}, G) => Coming({"action"}, G)' \/ (Done({"action"})' /\ c \in OfKind(SetCalls, {"action"}) \cap G)
            /\ Done({"action"}) => Done({"action"})' /\ c \notin OfKind(SetCalls, {"action"})
        BY <1>1, <1>3, <3>3, FollowsAnswered
      <3>5. ASSUME c \notin OfKind(SetCalls, {"action"}), Done({"action"}), gesture.action = dir.action PROVE gesture'.action = dir'.action
        BY <1>8, <2>3, <2>6, <2>7, <2>8, <2>9, <2>12, <3>5 DEF Done
      <3>6. ASSUME Done({"action"})', c \in OfKind(SetCalls, {"action"}) \cap G PROVE gesture'.action = dir'.action
        <4>1. c.op = "set" /\ c.x.kind = "action" /\ c.x.mode = dir.mode /\ c.x.value = dir.action
          BY <2>8, <3>1, <3>6 DEF ActionCalls
        <4>2. Applies(c.x)
          BY <1>8, <2>3, <2>12, <3>6, <4>1 DEF Applies, Done
        <4> QED
          BY <1>8, <2>6, <2>9, <4>1, <4>2
      <3> QED
        BY <2>4, <3>1, <3>2, <3>4, <3>5, <3>6
    <2>13. ASSUME "keys" \in own
           PROVE  (Coming({"action", "keys"}, KeysCalls) \/ (Done({"action", "keys"}) /\ gesture.keys = TRUE))'
      <3>1. PICK G : G = KeysCalls
        OBVIOUS
      <3>2. Coming({"action", "keys"}, G) \/ (Done({"action", "keys"}) /\ gesture.keys = TRUE)
        BY <1>3, <2>1, <2>13, <3>1 DEF ParamsFollow
      <3>3. \A x \in ParamsSet : Call("probe", x) \in G => Call("set", x) \in G
        BY <2>5, <3>1
      <3>4. /\ Coming({"action", "keys"}, G) => Coming({"action", "keys"}, G)' \/ (Done({"action", "keys"})' /\ c \in OfKind(SetCalls, {"action", "keys"}) \cap G)
            /\ Done({"action", "keys"}) => Done({"action", "keys"})' /\ c \notin OfKind(SetCalls, {"action", "keys"})
        BY <1>1, <1>3, <3>3, FollowsAnswered
      <3>5. ASSUME c \notin OfKind(SetCalls, {"action", "keys"}), Done({"action", "keys"}), gesture.keys = TRUE
            PROVE  gesture'.keys = TRUE
        BY <1>8, <2>3, <2>6, <2>7, <2>8, <2>9, <2>13, <3>5 DEF Done
      <3>6. ASSUME Done({"action", "keys"})', c \in OfKind(SetCalls, {"action", "keys"}) \cap G
            PROVE  gesture'.keys = TRUE
        <4>1. c.op = "set" /\ c.x.kind = "keys"
          BY <2>8, <3>1, <3>6 DEF KeysCalls
        \* Without an action under way the daemon has that of the direction.
        <4>2. /\ pending = 0 /\ Absent(cs, OfKind(ProbeCalls, {"action"})) /\ Absent(an, OfKind(ProbeCalls, {"action"}))
              /\ Absent(cs, OfKind(SetCalls, {"action"}))
          BY <1>5, <1>8, <1>9, <3>6 DEF Done, Absent, OfKind
        <4>3. c \notin OfKind(SetCalls, {"action"}) /\ c \notin OfKind(ProbeCalls, {"action"})
          BY <2>8, <4>1 DEF OfKind, ProbeCalls
        <4>4. /\ Absent(gestCalls, OfKind(SetCalls, {"action"})) /\ Absent(gestCalls, OfKind(ProbeCalls, {"action"}))
              /\ Absent(CallsAnswered, OfKind(ProbeCalls, {"action"}))
          BY <1>12, <1>14, <4>2, <4>3
        <4>5. "action" \in own /\ dir.action = "Keypress"
          BY <1>3, <2>13, Zenon DEF GestureShapes
        <4>6. Coming({"action"}, ActionCalls) \/ gesture.action = dir.action
          BY <1>3, <2>1, <4>5 DEF ParamsFollow
        <4>7. gesture.action = dir.action
          BY <4>2, <4>4, <4>6, NewestIs DEF Coming
        <4>8. Applies(c.x)
          BY <4>1, <4>5, <4>7 DEF Applies
        <4> QED
          BY <2>6, <2>9, <4>1, <4>8
      <3> QED
        BY <2>4, <3>1, <3>2, <3>4, <3>5, <3>6
    <2> QED
      BY <1>8, <2>11, <2>12, <2>13 DEF ParamsFollow
  <1> QED
    BY <1>2, <1>17, <1>20, <1>22, <1>23 DEF GestureInv

\* The reply m of the call c is handled, and us are sent.
HandledAs(c, m, us) ==
    \/ /\ c.op = "setGesture" /\ dir' = dir
       /\ pending' = IF pending = c.x.id THEN 0 ELSE pending
       /\ chained' = [chained EXCEPT ![c.x.id] = << >>]
       /\ \/ m.ok = TRUE /\ us = chained[c.x.id] /\ doubts' = doubts
          \/ m.ok = FALSE /\ us = << >> /\ doubts' = doubts \cup {"refused"}
    \/ /\ c.op = "probe" /\ dir' = dir /\ pending' = pending /\ chained' = chained /\ doubts' = doubts
       /\ us = <<Call("set", c.x)>> \/ (us = << >> /\ m.ok = FALSE)
    \/ /\ c.op = "seed" /\ pending' = pending /\ chained' = chained /\ doubts' = doubts
       /\ \/ /\ m.ok = TRUE /\ dir' = [dir EXCEPT !.mode = Modes[c.x]]
             /\ us = << >> \/ us = <<Call("seedParam", Modes[c.x])>>
          \/ m.ok = FALSE /\ dir' = dir /\ c.x = Len(Modes) /\ us = << >>
          \/ m.ok = FALSE /\ dir' = dir /\ c.x # Len(Modes) /\ us = <<Call("seed", c.x + 1)>>
    \/ /\ c.op = "seedParam" /\ pending' = pending /\ chained' = chained /\ doubts' = doubts /\ us = << >>
       /\ dir' = IF m.ok = TRUE THEN [dir EXCEPT !.grain = m.value] ELSE dir
    \/ /\ c.op = "set" /\ dir' = dir /\ pending' = pending /\ chained' = chained /\ doubts' = doubts
       /\ us = << >>

\* What the calls are that a handled reply sends.
LEMMA GestureReply ==
    ASSUME GestureShapes, GestureReplied
    PROVE  \E us \in Seq(GestureCalls) :
              /\ gestCalls' = gestCalls \o us /\ HandledAs(Head(gestMail).call, Head(gestMail), us)
              /\ us \in Seq(SetCalls) \/ (us \in Seq(SeedCalls) /\ Head(gestMail).call.op = "seed")
              /\ GestureShapes'
  <1>1. PICK m : m = Head(gestMail)
    OBVIOUS
  <1>2. PICK c : c = m.call
    OBVIOUS
  <1>3. /\ gestMail \in Seq(GestureReplies) /\ gestMail # << >> /\ gestCalls \in Seq(GestureCalls)
        /\ chained \in [1 .. MaxGestures -> Seq(SetCalls)]
        /\ dir \in [mode : ModeSet \cup {""}, grain : Grains \cup {0}, action : Actions]
    BY Zenon DEF GestureShapes, GestureReplied
  <1>4. m \in GestureReplies /\ Tail(gestMail) \in Seq(GestureReplies)
    <2>1. PICK rest : rest = Tail(gestMail)
      OBVIOUS
    <2>2. rest \in Seq(GestureReplies) /\ Head(gestMail) = gestMail[1] /\ gestMail[1] \in GestureReplies
      BY <1>3, <2>1, Shifted, Zenon
    <2> QED
      BY <1>1, <2>1, <2>2
  <1>5. c \in GestureCalls /\ m.ok \in BOOLEAN /\ m.value \in Grains \cup {0}
    BY <1>2, <1>4 DEF GestureReplies
  <1>6. /\ gestCalls \o << >> = gestCalls
        /\ \A d \in GestureCalls : Append(gestCalls, d) = gestCalls \o <<d>>
    <2>1. gestCalls \o << >> = gestCalls
      BY <1>3, ConcatEmptySeq, Zenon
    <2>2. \A d : Append(gestCalls, d) = gestCalls \o <<d>>
      BY <1>3, GrownByOne, Zenon
    <2> QED
      BY <2>1, <2>2
  <1>7. \A n \in 1 .. Len(Modes) : Modes[n] \in ModeSet
    BY DEF ModeSet
  <1>8. /\ << >> \in Seq(SetCalls) /\ \A d \in SetCalls : <<d>> \in Seq(SetCalls)
        /\ \A d \in SeedCalls : <<d>> \in Seq(SeedCalls)
    OBVIOUS
  <1>9. /\ \A s \in Seq(SetCalls) : s \in Seq(GestureCalls)
        /\ \A s \in Seq(SeedCalls) : s \in Seq(GestureCalls)
    BY DEF GestureCalls
  <1>10. /\ \/ c.op = "setGesture" /\ SetGestureReplied(c.x.id, m.ok)
            \/ c.op = "probe" /\ ProbeReplied(c.x, m.ok)
            \/ c.op = "seed" /\ SeedReplied(c.x, m.ok)
            \/ c.op = "seedParam" /\ SeedParamReplied(m.ok, m.value)
            \/ c.op = "set" /\ UNCHANGED <<dir, gestCalls, pending, chained, doubts>>
         /\ gestMail' = Tail(gestMail) /\ gesture' = gesture /\ gestEdits' = gestEdits /\ own' = own
    BY <1>1, <1>2 DEF GestureReplied
  <1>11. \E us : /\ gestCalls' = gestCalls \o us /\ HandledAs(c, m, us)
                 /\ us \in Seq(SetCalls) \/ (us \in Seq(SeedCalls) /\ c.op = "seed")
    <2>1. CASE c.op = "setGesture"
      <3>1. c.x.id \in 1 .. MaxGestures
        BY <1>5, <2>1, Sorts
      <3>2. chained[c.x.id] \in Seq(SetCalls)
        BY <1>3, <3>1, Zenon
      <3>3. CASE m.ok = TRUE
        BY <1>10, <2>1, <3>2, <3>3 DEF SetGestureReplied, fire, HandledAs
      <3>4. CASE m.ok = FALSE
        BY <1>6, <1>8, <1>10, <2>1, <3>4 DEF SetGestureReplied, HandledAs
      <3> QED
        BY <1>5, <3>3, <3>4
    <2>2. CASE c.op = "probe"
      <3>1. Call("set", c.x) \in SetCalls
        BY <1>5, <2>2, Sorts DEF Call, SetCalls
      <3>2. ProbeReplied(c.x, m.ok)
        BY <1>10, <2>2
      <3>3. CASE gestCalls' = gestCalls \o <<Call("set", c.x)>>
        BY <1>8, <2>2, <3>1, <3>2, <3>3 DEF ProbeReplied, HandledAs
      <3>4. CASE gestCalls' = gestCalls /\ ~m.ok
        BY <1>5, <1>6, <1>8, <2>2, <3>2, <3>4 DEF ProbeReplied, HandledAs
      <3> QED
        BY <3>2, <3>3, <3>4 DEF ProbeReplied, fire
    <2>3. CASE c.op = "seed"
      <3>1. SeedReplied(c.x, m.ok) /\ c.x \in 1 .. Len(Modes)
        BY <1>5, <1>10, <2>3, Sorts
      <3>2. Call("seedParam", Modes[c.x]) \in SeedCalls /\ (c.x # Len(Modes) => Call("seed", c.x + 1) \in SeedCalls)
        <4>1. Len(Modes) \in Nat
          <5>1. Modes \in Seq(STRING)
            BY ModesAssumption, Zenon
          <5> QED
            BY <5>1
        <4> QED
          BY <1>7, <3>1, <4>1 DEF Call, SeedCalls
      <3>3. SeedCalls \subseteq GestureCalls
        BY DEF GestureCalls
      <3>4. CASE m.ok = TRUE /\ gestCalls' = gestCalls
        BY <1>6, <1>8, <2>3, <3>1, <3>4 DEF SeedReplied, HandledAs
      <3>5. CASE m.ok = TRUE /\ gestCalls' = Append(gestCalls, Call("seedParam", Modes[c.x]))
        <4>1. gestCalls' = gestCalls \o <<Call("seedParam", Modes[c.x])>>
          BY <1>6, <3>2, <3>3, <3>5
        <4> QED
          BY <1>8, <2>3, <3>1, <3>2, <3>5, <4>1 DEF SeedReplied, HandledAs
      <3>6. CASE m.ok = FALSE /\ c.x = Len(Modes)
        BY <1>6, <1>8, <2>3, <3>1, <3>6 DEF SeedReplied, HandledAs
      <3>7. CASE m.ok = FALSE /\ c.x # Len(Modes)
        <4>1. gestCalls' = gestCalls \o <<Call("seed", c.x + 1)>>
          BY <1>6, <3>1, <3>2, <3>3, <3>7 DEF SeedReplied
        <4> QED
          BY <1>8, <2>3, <3>1, <3>2, <3>7, <4>1 DEF SeedReplied, HandledAs
      <3> QED
        BY <1>5, <3>1, <3>4, <3>5, <3>6, <3>7 DEF SeedReplied
    <2>4. CASE c.op = "seedParam"
      BY <1>5, <1>6, <1>8, <1>10, <2>4 DEF SeedParamReplied, HandledAs
    <2>5. CASE c.op = "set"
      BY <1>6, <1>8, <1>10, <2>5 DEF HandledAs
    <2> QED
      BY <1>10, <2>1, <2>2, <2>3, <2>4, <2>5
  <1>12. PICK us : /\ gestCalls' = gestCalls \o us /\ HandledAs(c, m, us)
                   /\ us \in Seq(SetCalls) \/ (us \in Seq(SeedCalls) /\ c.op = "seed")
    BY <1>11
  <1>13. us \in Seq(GestureCalls)
    BY <1>9, <1>12
  <1>14. gestCalls' \in Seq(GestureCalls)
    BY <1>3, <1>12, <1>13, Joined, Zenon
  <1>15. dir' \in [mode : ModeSet \cup {""}, grain : Grains \cup {0}, action : Actions] /\ dir'.action = dir.action
    <2>1. c.op = "seed" => Modes[c.x] \in ModeSet
      BY <1>5, <1>7, Sorts
    <2> QED
      BY <1>3, <1>5, <1>12, <2>1, Zenon DEF HandledAs
  <1>16. chained' \in [1 .. MaxGestures -> Seq(SetCalls)]
    BY <1>3, <1>8, <1>12, Zenon DEF HandledAs
  <1>17. pending' \in 0 .. MaxGestures /\ pending' <= gestEdits
    <2>1. pending \in 0 .. MaxGestures /\ pending <= gestEdits /\ gestEdits \in 0 .. MaxGestures
      BY Zenon DEF GestureShapes
    <2>2. MaxGestures \in Nat
      BY ModesAssumption, Zenon
    <2> QED
      BY <1>12, <2>1, <2>2 DEF HandledAs
  <1>18. GestureShapes'
    BY <1>4, <1>10, <1>14, <1>15, <1>16, <1>17, Zenon DEF GestureShapes
  <1> QED
    BY <1>1, <1>2, <1>12, <1>13, <1>18

\* What a handled reply does to a kind of parameter.
LEMMA ComingHandled ==
    ASSUME GestureShapes, UnderWay, GestureReplied, NEW m, m = Head(gestMail),
           NEW us \in Seq(GestureCalls), gestCalls' = gestCalls \o us, HandledAs(m.call, m, us),
           us \in Seq(SetCalls) \/ us \in Seq(SeedCalls),
           doubts' = {}, m.call \in ProbeCalls /\ pending = 0 => m.ok = TRUE,
           NEW kinds, NEW G,
           \A x \in ParamsSet : Call("probe", x) \in G => Call("set", x) \in G
    PROVE  /\ Coming(kinds, G) => Coming(kinds, G)'
           /\ Done(kinds) => Done(kinds)'
  <1>1. PICK c : c = m.call
    OBVIOUS
  <1>2. gestCalls \in Seq(GestureCalls) /\ gestMail \in Seq(GestureReplies) /\ gestMail # << >>
    BY Zenon DEF GestureShapes, GestureReplied
  <1>3. PICK cs : cs = gestCalls'
    OBVIOUS
  <1>4. PICK an : an = CallsAnswered'
    OBVIOUS
  <1>5. /\ CallsAnswered \in Seq(GestureCalls) /\ CallsAnswered # << >> /\ an = Tail(CallsAnswered) /\ c = Head(CallsAnswered)
    BY <1>1, <1>2, <1>4, CallsListed DEF CallsAnswered, GestureReplied
  <1>6. c \in GestureCalls
    <2>1. Head(CallsAnswered) = CallsAnswered[1] /\ CallsAnswered[1] \in GestureCalls
      BY <1>5, Taken
    <2> QED
      BY <1>5, <2>1
  <1>7. PICK KP : KP = OfKind(ProbeCalls, kinds)
    OBVIOUS
  <1>8. PICK KS : KS = OfKind(SetCalls, kinds)
    OBVIOUS
  <1>9. Absent(us, Later) /\ Absent(us, KP)
    <2>1. CASE us \in Seq(SetCalls)
      <3>1. \A i \in 1 .. Len(us) : us[i] \in SetCalls
        BY <2>1
      <3> QED
        BY <1>7, <3>1 DEF Absent, Later, OfKind, SetCalls, ProbeCalls, ModeCalls
    <2>2. CASE us \in Seq(SeedCalls)
      <3>1. \A i \in 1 .. Len(us) : us[i] \in SeedCalls
        BY <2>2
      <3> QED
        BY <1>7, <3>1 DEF Absent, Later, OfKind, SeedCalls, ProbeCalls, ModeCalls
    <2> QED
      BY <2>1, <2>2
  <1>10. /\ \A K : Absent(gestCalls, K) /\ Absent(us, K) => Absent(cs, K)
         /\ \A K : Absent(cs, K) => Absent(gestCalls, K) /\ Absent(us, K)
         /\ Newest(us, KS, G) => Newest(cs, KS, G)
         /\ Newest(gestCalls, KP, G) /\ Absent(us, KP) => Newest(cs, KP, G)
         /\ Newest(gestCalls, KS, G) /\ Absent(us, KS) => Newest(cs, KS, G)
    BY <1>2, <1>3, SomeMore
  <1>11. /\ \A K : Absent(CallsAnswered, K) => Absent(an, K) /\ c \notin K
         /\ Newest(CallsAnswered, KP, G) => Newest(an, KP, G) \/ (c \in KP \cap G /\ Absent(an, KP))
    BY <1>5, OneLess
  <1>12. /\ c \in ModeCalls <=> c.op = "setGesture"
         /\ c \in ProbeCalls <=> c.op = "probe"
         /\ c \in SetCalls \cup ProbeCalls => c.x \in ParamsSet
    BY <1>6, Sorts
  <1>13. pending = 0 => c.op # "setGesture"
    BY <1>11, <1>12 DEF UnderWay
  <1>14. CASE pending # 0 /\ pending' = pending
    <2>1. chained'[pending] = chained[pending]
      <3>1. c.op = "setGesture" => c.x.id # pending
        BY <1>1, <1>14 DEF HandledAs
      <3>2. chained \in [1 .. MaxGestures -> Seq(SetCalls)] /\ pending \in 1 .. MaxGestures
        <4>1. pending \in 0 .. MaxGestures /\ chained \in [1 .. MaxGestures -> Seq(SetCalls)]
          BY Zenon DEF GestureShapes
        <4>2. MaxGestures \in Nat
          BY ModesAssumption, Zenon
        <4>3. pending \in 1 .. MaxGestures
          BY <1>14, <4>1, <4>2
        <4> QED
          BY <4>1, <4>3
      <3> QED
        BY <1>1, <3>1, <3>2 DEF HandledAs
    <2> QED
      BY <1>14, <2>1 DEF Coming, Done
  <1>15. CASE pending # 0 /\ pending' # pending
    <2>1. c.op = "setGesture" /\ c.x.id = pending /\ pending' = 0 /\ m.ok = TRUE /\ us = chained[pending]
      BY <1>1, <1>15 DEF HandledAs
    <2>2. c \in Awaited /\ c \in Later
      BY <1>12, <2>1 DEF Awaited, SetGesture, Later
    <2>3. Absent(gestCalls, Later) /\ Newest(CallsAnswered, Later, Awaited) /\ Once(CallsAnswered, Awaited)
      <3>1. ~Absent(CallsAnswered, Awaited)
        BY <1>11, <2>2
      <3> QED
        BY <1>15, <3>1 DEF UnderWay
    <2>4. Absent(an, Later)
      <3>1. Once(CallsAnswered, Awaited) => (c \in Awaited => Absent(an, Awaited))
        BY <1>5, OneLess
      <3>2. Newest(CallsAnswered, Later, Awaited) => Newest(an, Later, Awaited) \/ Absent(an, Later)
        BY <1>5, OneLess
      <3>3. ~Newest(an, Later, Awaited)
        BY <2>2, <2>3, <3>1, NewestIs
      <3> QED
        BY <2>3, <3>2, <3>3
    <2>5. Absent(gestCalls, KP) /\ Absent(an, KP)
      BY <1>7, <2>3, <2>4 DEF Absent, Later, OfKind
    <2>6. Absent(cs, KP)
      BY <1>9, <1>10, <2>5
    <2>7. Coming(kinds, G) => Newest(us, KS, G)
      BY <1>8, <1>15, <2>1 DEF Coming
    <2>8. ~Done(kinds)
      BY <1>15 DEF Done
    <2>9. Coming(kinds, G)' <=>
             \/ Newest(cs, KP, G)
             \/ /\ Absent(cs, KP)
                /\ \/ Newest(an, KP, G)
                   \/ Absent(an, KP) /\ Newest(cs, KS, G)
      BY <1>3, <1>4, <1>7, <1>8, <2>1 DEF Coming
    <2> QED
      BY <1>10, <2>5, <2>6, <2>7, <2>8, <2>9
  <1>16. CASE pending = 0
    <2>1. pending' = 0
      BY <1>1, <1>13, <1>16 DEF HandledAs
    <2>2. Coming(kinds, G) <=>
             \/ Newest(gestCalls, KP, G)
             \/ /\ Absent(gestCalls, KP)
                /\ \/ Newest(CallsAnswered, KP, G)
                   \/ Absent(CallsAnswered, KP) /\ Newest(gestCalls, KS, G)
      BY <1>7, <1>8, <1>16 DEF Coming
    <2>3. Coming(kinds, G)' <=>
             \/ Newest(cs, KP, G)
             \/ /\ Absent(cs, KP)
                /\ \/ Newest(an, KP, G)
                   \/ Absent(an, KP) /\ Newest(cs, KS, G)
      BY <1>3, <1>4, <1>7, <1>8, <2>1 DEF Coming
    <2>4. /\ Done(kinds) <=> Absent(gestCalls, KP) /\ Absent(CallsAnswered, KP) /\ Absent(gestCalls, KS)
          /\ Done(kinds)' <=> Absent(cs, KP) /\ Absent(an, KP) /\ Absent(cs, KS)
      BY <1>3, <1>4, <1>7, <1>8, <1>16, <2>1 DEF Done
    <2>5. CASE c.op = "probe"
      <3>1. PICK d : d = Call("set", c.x)
        OBVIOUS
      <3>2. us = <<d>>
        BY <1>1, <1>12, <1>16, <2>5, <3>1 DEF HandledAs
      <3>3. Len(us) = 1 /\ us[1] = d
        BY <3>2
      <3>4. /\ d \in KS <=> c \in KP
            /\ c \in KP \cap G => d \in KS \cap G
        <4>1. c = Call("probe", c.x) /\ c.x \in ParamsSet
          BY <1>12, <2>5 DEF ProbeCalls, Call
        <4>2. d \in SetCalls /\ d.x = c.x
          BY <3>1, <4>1 DEF SetCalls, Call
        <4> QED
          BY <1>7, <1>8, <1>12, <2>5, <3>1, <4>1, <4>2 DEF OfKind
      <3>5. /\ d \notin KS => Absent(us, KS)
            /\ d \in KS \cap G => Newest(us, KS, G)
        BY <3>3 DEF Absent, Newest
      <3> QED
        BY <1>9, <1>10, <1>11, <2>2, <2>3, <2>4, <3>4, <3>5
    <2>6. CASE c.op # "probe"
      <3>1. c \notin KP
        BY <1>7, <1>12, <2>6 DEF OfKind
      <3>2. Absent(us, KS)
        <4>1. us = << >> \/ us \in Seq(SeedCalls)
          <5>1. us = << >> \/ c.op = "seed"
            BY <1>1, <1>13, <1>16, <2>6 DEF HandledAs
          <5>2. c.op = "seed" => us = << >> \/ (Len(us) = 1 /\ us[1].op \in {"seed", "seedParam"})
            BY <1>1 DEF HandledAs, Call
          <5>3. us \in Seq(SetCalls) /\ Len(us) = 1 => us[1].op = "set"
            <6>1. ASSUME us \in Seq(SetCalls), Len(us) = 1 PROVE us[1] \in SetCalls
              <7>1. 1 \in 1 .. Len(us)
                BY <6>1
              <7> QED
                BY <6>1, <7>1, ElementOfSeq
            <6> QED
              BY <6>1 DEF SetCalls
          <5> QED
            BY <5>1, <5>2, <5>3
        <4>2. \A i \in 1 .. Len(us) : us[i] \in SeedCalls
          BY <4>1
        <4> QED
          BY <1>8, <4>2 DEF Absent, OfKind, SeedCalls, SetCalls
      <3> QED
        BY <1>9, <1>10, <1>11, <2>2, <2>3, <2>4, <3>1, <3>2
    <2> QED
      BY <2>5, <2>6
  <1> QED
    BY <1>14, <1>15, <1>16

\* A reply is handled.
LEMMA GestureHandles ==
    ASSUME GestureInv, GestureReplied
    PROVE  GestureInv'
  <1>1. PICK m : m = Head(gestMail)
    OBVIOUS
  <1>2. PICK c : c = m.call
    OBVIOUS
  <1>3. GestureShapes /\ UnderWay /\ SeedsFirst /\ ModeFollows /\ ParamsFollow
    BY DEF GestureInv
  <1>4. PICK us \in Seq(GestureCalls) :
           /\ gestCalls' = gestCalls \o us /\ HandledAs(c, m, us)
           /\ us \in Seq(SetCalls) \/ (us \in Seq(SeedCalls) /\ c.op = "seed")
           /\ GestureShapes'
    BY <1>1, <1>2, <1>3, GestureReply
  <1>5. gestCalls \in Seq(GestureCalls) /\ gestMail \in Seq(GestureReplies) /\ gestMail # << >>
    BY <1>3, Zenon DEF GestureShapes, GestureReplied
  <1>6. PICK cs : cs = gestCalls'
    OBVIOUS
  <1>7. PICK ml : ml = gestMail'
    OBVIOUS
  <1>8. PICK an : an = CallsOf(ml)
    OBVIOUS
  <1>9. /\ ml = Tail(gestMail) /\ gesture' = gesture /\ gestEdits' = gestEdits /\ own' = own
    BY <1>7 DEF GestureReplied
  <1>10. /\ CallsAnswered \in Seq(GestureCalls) /\ CallsAnswered # << >> /\ an = Tail(CallsAnswered) /\ c = Head(CallsAnswered)
         /\ CallsAnswered' = an
    BY <1>1, <1>2, <1>5, <1>7, <1>8, <1>9, CallsListed DEF CallsAnswered, GestureReplies
  <1>11. m \in GestureReplies /\ m = gestMail[1] /\ 1 \in 1 .. Len(gestMail) /\ ml \in Seq(GestureReplies)
    BY <1>1, <1>5, <1>9, Shifted
  <1>12. c \in GestureCalls /\ m.ok \in BOOLEAN /\ m.call = c
    BY <1>2, <1>11 DEF GestureReplies
  <1>13. cs \in Seq(GestureCalls) /\ an \in Seq(GestureCalls)
    BY <1>4, <1>5, <1>6, <1>8, <1>11, CallsListed, Joined
  <1>14. /\ \A K : Absent(gestCalls, K) /\ Absent(us, K) => Absent(cs, K)
         /\ \A K : Absent(cs, K) => Absent(gestCalls, K) /\ Absent(us, K)
         /\ \A K, G : Newest(gestCalls, K, G) /\ Absent(us, K) => Newest(cs, K, G)
         /\ \A G : Once(gestCalls, G) /\ Absent(us, G) => Once(cs, G)
    BY <1>4, <1>5, <1>6, SomeMore
  <1>15. /\ \A K : Absent(CallsAnswered, K) => Absent(an, K) /\ c \notin K
         /\ \A K : c \notin K /\ Absent(an, K) => Absent(CallsAnswered, K)
         /\ \A K, G : Newest(CallsAnswered, K, G) => Newest(an, K, G) \/ (c \in K \cap G /\ Absent(an, K))
         /\ \A G : Once(CallsAnswered, G) => Once(an, G) /\ (c \in G => Absent(an, G))
    BY <1>10, OneLess
  <1>16. \A K : Absent(gestMail, K) => Absent(ml, K) /\ m \notin K
    BY <1>1, <1>5, <1>9, OneLess
  <1>17. /\ c \in ModeCalls <=> c.op = "setGesture"
         /\ c \in ProbeCalls <=> c.op = "probe"
         /\ c \in SeedCalls <=> c.op \in {"seed", "seedParam"}
         /\ c \in SetCalls \cup ProbeCalls => c.x \in ParamsSet
         /\ c \in ModeCalls => c.x.id \in 1 .. MaxGestures
         /\ c.op = "seed" => c.x \in 1 .. Len(Modes)
    BY <1>12, Sorts
  \* No mode is set and nothing is probed.
  <1>18. Absent(us, Later) /\ Absent(us, ModeCalls) /\ Absent(us, ProbeCalls)
         /\ (us \in Seq(SetCalls) => Absent(us, SeedCalls))
    <2>1. us \in Seq(SetCalls) => Absent(us, Later) /\ Absent(us, SeedCalls)
      <3>1. us \in Seq(SetCalls) => \A i \in 1 .. Len(us) : us[i] \in SetCalls
        OBVIOUS
      <3> QED
        BY <3>1 DEF Absent, Later, SetCalls, ProbeCalls, ModeCalls, SeedCalls
    <2>2. us \in Seq(SeedCalls) => Absent(us, Later)
      <3>1. us \in Seq(SeedCalls) => \A i \in 1 .. Len(us) : us[i] \in SeedCalls
        OBVIOUS
      <3> QED
        BY <3>1 DEF Absent, Later, ProbeCalls, ModeCalls, SeedCalls
    <2>3. Absent(us, Later) => Absent(us, ModeCalls) /\ Absent(us, ProbeCalls)
      BY DEF Absent, Later
    <2> QED
      BY <1>4, <2>1, <2>2, <2>3
  <1>19. Absent(us, Awaited) /\ Absent(us, Unsent) /\ \A id : Absent(us, SetGesture(id))
    BY <1>18 DEF Absent, Awaited, SetGesture, Unsent
  <1>20. c \in Awaited <=> c.op = "setGesture" /\ c.x.id = pending
    BY <1>17 DEF Awaited, SetGesture
  <1>21. pending = 0 => c.op # "setGesture" /\ pending' = 0
    BY <1>3, <1>4, <1>15, <1>17 DEF UnderWay, HandledAs
  <1>22. pending # 0 /\ c \notin Awaited => pending' = pending
    BY <1>4, <1>20 DEF HandledAs
  \* With the awaited SetGesture replied nothing that could part the panel
  \* from the daemon is under way.
  <1>23. ASSUME pending # 0, c \in Awaited
         PROVE  pending' = 0 /\ Absent(cs, Later) /\ Absent(an, Later)
    <2>1. pending' = 0
      BY <1>4, <1>20, <1>23 DEF HandledAs
    <2>2. Absent(gestCalls, Later) /\ Newest(CallsAnswered, Later, Awaited) /\ Once(CallsAnswered, Awaited)
      <3>1. ~Absent(CallsAnswered, Awaited)
        BY <1>15, <1>23
      <3> QED
        BY <1>3, <1>23, <3>1 DEF UnderWay
    <2>3. Absent(an, Awaited)
      BY <1>15, <1>23, <2>2
    <2>4. Absent(an, Later)
      BY <1>15, <2>2, <2>3, NewestIs
    <2> QED
      BY <1>14, <1>18, <2>1, <2>2, <2>4
  <1>24. UnderWay'
    <2>1. pending' = 0 => Absent(cs, ModeCalls) /\ Absent(an, ModeCalls)
      <3>1. CASE pending = 0
        BY <1>3, <1>14, <1>15, <1>18, <3>1 DEF UnderWay
      <3>2. CASE pending # 0 /\ c \in Awaited
        BY <1>23, <3>2 DEF Absent, Later
      <3>3. CASE pending # 0 /\ c \notin Awaited
        BY <1>22, <3>3
      <3> QED
        BY <3>1, <3>2, <3>3
    <2>2. ASSUME pending' # 0
          PROVE  /\ pending' = pending
                 /\ \/ Newest(cs, Later, Awaited) /\ Once(cs, Awaited) /\ Absent(an, Awaited)
                    \/ Absent(cs, Later) /\ Newest(an, Later, Awaited) /\ Once(an, Awaited)
      <3>1. pending # 0 /\ c \notin Awaited /\ pending' = pending
        BY <1>21, <1>22, <1>23, <2>2
      <3>2. CASE Newest(gestCalls, Later, Awaited) /\ Once(gestCalls, Awaited) /\ Absent(CallsAnswered, Awaited)
        BY <1>14, <1>15, <1>18, <1>19, <3>1, <3>2
      <3>3. CASE Absent(gestCalls, Later) /\ Newest(CallsAnswered, Later, Awaited) /\ Once(CallsAnswered, Awaited)
        BY <1>14, <1>15, <1>18, <3>1, <3>3
      <3> QED
        BY <1>3, <3>1, <3>2, <3>3 DEF UnderWay
    <2>3. ASSUME NEW id \in 1 .. MaxGestures, chained'[id] # << >>
          PROVE  ~(Absent(cs, SetGesture(id)) /\ Absent(an, SetGesture(id)))
      <3>1. chained \in [1 .. MaxGestures -> Seq(SetCalls)]
        BY <1>3, Zenon DEF GestureShapes
      <3>2. chained[id] # << >> /\ ~(c.op = "setGesture" /\ c.x.id = id)
        <4>1. CASE c.op = "setGesture"
          <5>1. chained' = [chained EXCEPT ![c.x.id] = << >>]
            BY <1>4, <4>1 DEF HandledAs
          <5> QED
            BY <2>3, <3>1, <5>1
        <4>2. CASE c.op # "setGesture"
          <5>1. chained' = chained
            BY <1>4, <4>2 DEF HandledAs
          <5> QED
            BY <2>3, <4>2, <5>1
        <4> QED
          BY <4>1, <4>2
      <3>3. c \notin SetGesture(id)
        BY <1>17, <3>2 DEF SetGesture
      <3> QED
        BY <1>3, <1>14, <1>15, <3>2, <3>3 DEF UnderWay
    <2>4. Unsent' = Unsent /\ Absent(cs, Unsent) /\ Absent(an, Unsent)
      <3>1. Unsent' = Unsent
        BY <1>9 DEF Unsent
      <3> QED
        BY <1>3, <1>14, <1>15, <1>19, <3>1 DEF UnderWay
    <2>5. pending' = pending => Awaited' = Awaited
      BY DEF Awaited, SetGesture
    <2> QED
      BY <1>6, <1>10, <2>1, <2>2, <2>3, <2>4, <2>5 DEF UnderWay
  <1>25. doubts' = {} => doubts = {} /\ (c.op = "setGesture" => m.ok = TRUE)
    BY <1>4 DEF HandledAs
  <1>26. /\ Seeding <=> ~(Absent(gestCalls, SeedCalls) /\ Absent(CallsAnswered, SeedCalls))
         /\ Seeding' <=> ~(Absent(cs, SeedCalls) /\ Absent(an, SeedCalls))
    BY <1>5, <1>6, <1>7, <1>8, <1>11, <1>13, SeedingIs DEF Seeding, CallsAnswered
  <1>27. Seeding' => Seeding
    BY <1>4, <1>14, <1>15, <1>17, <1>18, <1>26
  <1>28. Seeding /\ c \notin SeedCalls => Seeding'
    BY <1>14, <1>15, <1>26
  <1>29. Len(ml) = Len(gestMail) - 1 /\ Len(gestMail) \in Nat \ {0}
    BY <1>5, <1>9, Taken
  \* The direction is being filled: only this reply is under way.
  <1>30. ASSUME Seeding, doubts' = {}
         PROVE  /\ pending = 0 /\ own = {} /\ gestCalls = << >> /\ ml = << >> /\ cs = us
                /\ Seeds(c, m.ok, TRUE) /\ c \in SeedCalls
    <2>1. /\ pending = 0 /\ own = {}
          /\ Len(gestCalls) = 0 /\ Len(gestMail) = 1 /\ Seeds(gestMail[1].call, gestMail[1].ok, TRUE)
      BY <1>3, <1>25, <1>29, <1>30 DEF SeedsFirst
    <2>2. gestCalls = << >> /\ ml = << >>
      BY <1>5, <1>11, <1>29, <2>1
    <2>3. cs = us
      BY <1>4, <1>6, <2>2, ConcatEmptySeq
    <2>4. Seeds(c, m.ok, TRUE)
      BY <1>2, <1>11, <2>1
    <2> QED
      BY <1>17, <2>1, <2>2, <2>3, <2>4, Zenon DEF Seeds
  <1>31. SeedsFirst'
    <2> SUFFICES ASSUME Seeding', doubts' = {}
                 PROVE  /\ pending' = 0 /\ own = {}
                        /\ Len(cs) = 1 /\ Len(ml) = 0 /\ Seeds(cs[1], TRUE, FALSE)'
      BY <1>6, <1>7, <1>9 DEF SeedsFirst
    <2>1. /\ pending = 0 /\ own = {} /\ gestCalls = << >> /\ ml = << >> /\ cs = us
          /\ Seeds(c, m.ok, TRUE) /\ c \in SeedCalls
      BY <1>27, <1>30
    <2>2. us # << >>
      <3>1. us = << >> => Absent(cs, SeedCalls)
        BY <2>1 DEF Absent
      <3>2. Absent(an, SeedCalls)
        BY <1>8, <2>1 DEF Absent, CallsOf
      <3> QED
        BY <1>26, <3>1, <3>2
    <2>3. c.op = "seed"
      BY <1>4, <1>17, <2>1, <2>2 DEF HandledAs
    <2>4. CASE m.ok = TRUE
      <3>1. us = <<Call("seedParam", Modes[c.x])>> /\ dir' = [dir EXCEPT !.mode = Modes[c.x]]
        BY <1>4, <2>2, <2>3, <2>4 DEF HandledAs
      <3>2. gesture.mode = Modes[c.x]
        BY <2>1, <2>3, <2>4, Zenon DEF Seeds
      <3>3. dir'.mode = gesture'.mode
        <4>1. dir \in [mode : ModeSet \cup {""}, grain : Grains \cup {0}, action : Actions]
          BY <1>3, Zenon DEF GestureShapes
        <4> QED
          BY <1>9, <3>1, <3>2, <4>1, Zenon
      <3>4. Len(cs) = 1 /\ cs[1] = Call("seedParam", Modes[c.x])
        BY <2>1, <3>1
      <3>5. Seeds(Call("seedParam", Modes[c.x]), TRUE, FALSE)'
        BY <3>3 DEF Seeds, Call
      <3> QED
        BY <1>21, <2>1, <3>4, <3>5
    <2>5. CASE m.ok = FALSE
      <3>1. us = <<Call("seed", c.x + 1)>> /\ dir' = dir
        BY <1>4, <2>2, <2>3, <2>5 DEF HandledAs
      <3>2. dir.mode = "" /\ gesture.mode # Modes[c.x] /\ \A k \in 1 .. Len(Modes) : k < c.x => gesture.mode # Modes[k]
        BY <2>1, <2>3, <2>5, Zenon DEF Seeds
      <3>3. \A k \in 1 .. Len(Modes) : k < c.x + 1 => k < c.x \/ k = c.x
        BY <1>17, <2>3
      <3>4. Len(cs) = 1 /\ cs[1] = Call("seed", c.x + 1)
        BY <2>1, <3>1
      <3>5. Seeds(Call("seed", c.x + 1), TRUE, FALSE)'
        BY <1>9, <3>1, <3>2, <3>3, Zenon DEF Seeds, Call
      <3> QED
        BY <1>21, <2>1, <3>4, <3>5
    <2> QED
      BY <1>12, <2>4, <2>5
  <1>32. ModeFollows'
    <2> SUFFICES ASSUME Filled' PROVE ModeFollows'
      BY DEF ModeFollows
    <2>1. doubts' = {} /\ doubts = {} /\ ~Seeding'
      BY <1>25 DEF Filled
    <2>2. CASE Seeding
      <3>1. /\ pending = 0 /\ own = {} /\ gestCalls = << >> /\ ml = << >> /\ cs = us
            /\ Seeds(c, m.ok, TRUE) /\ c \in SeedCalls
        BY <1>30, <2>1, <2>2
      <3>2. Absent(cs, ProbeCalls) /\ Absent(ml, StrayProbed')
        BY <1>18, <3>1 DEF Absent
      <3>3. dir'.mode = gesture.mode
        <4>1. CASE c.op = "seedParam"
          <5>1. dir \in [mode : ModeSet \cup {""}, grain : Grains \cup {0}, action : Actions]
            BY <1>3, Zenon DEF GestureShapes
          <5>2. dir.mode = gesture.mode
            BY <3>1, <4>1 DEF Seeds
          <5>3. dir' = [dir EXCEPT !.grain = m.value] \/ dir' = dir
            BY <1>4, <4>1 DEF HandledAs
          <5> QED
            BY <5>1, <5>2, <5>3, Zenon
        <4>2. CASE c.op = "seed" /\ m.ok = TRUE
          <5>1. dir \in [mode : ModeSet \cup {""}, grain : Grains \cup {0}, action : Actions]
            BY <1>3, Zenon DEF GestureShapes
          <5>2. gesture.mode = Modes[c.x]
            BY <3>1, <4>2, Zenon DEF Seeds
          <5>3. dir' = [dir EXCEPT !.mode = Modes[c.x]]
            BY <1>4, <4>2 DEF HandledAs
          <5> QED
            BY <5>1, <5>2, <5>3, Zenon
        <4>3. CASE c.op = "seed" /\ m.ok = FALSE
          <5>1. us = << >>
            <6>1. us = <<Call("seed", c.x + 1)>> => us[1].op = "seed" /\ Len(us) = 1
              BY DEF Call
            <6>2. \A i \in 1 .. Len(us) : us[i] \notin SeedCalls
              BY <1>26, <2>1, <3>1 DEF Absent
            <6>3. us # << >> => us = <<Call("seed", c.x + 1)>>
              BY <1>4, <4>3 DEF HandledAs
            <6>4. us = <<Call("seed", c.x + 1)>> => us[1] \in GestureCalls
              BY <6>1
            <6>5. us # << >> => us[1] \in SeedCalls /\ Len(us) = 1
              BY <6>1, <6>3, <6>4, Sorts
            <6> QED
              BY <6>2, <6>5
          <5>2. c.x = Len(Modes) /\ dir' = dir
            <6>1. us # <<Call("seed", c.x + 1)>>
              BY <5>1
            <6> QED
              BY <1>4, <4>3, <6>1 DEF HandledAs
          <5>3. dir.mode = "" /\ gesture.mode # Modes[c.x] /\ \A k \in 1 .. Len(Modes) : k < c.x => gesture.mode # Modes[k]
            BY <3>1, <4>3, Zenon DEF Seeds
          <5>4. \A k \in 1 .. Len(Modes) : k < c.x \/ k = c.x
            BY <1>17, <4>3, <5>2
          <5>5. gesture.mode \notin ModeSet
            BY <5>3, <5>4, Zenon DEF ModeSet
          <5>6. gesture.mode \in ModeSet \cup {""}
            BY <1>3, Zenon DEF GestureShapes
          <5> QED
            BY <5>2, <5>3, <5>5, <5>6, Zenon
        <4> QED
          BY <1>12, <1>17, <3>1, <4>1, <4>2, <4>3
      <3>4. Absent(cs, StrayProbe')
        BY <3>2 DEF Absent, StrayProbe
      <3> QED
        BY <1>6, <1>7, <1>9, <1>21, <3>1, <3>2, <3>3, <3>4 DEF ModeFollows
    <2>3. CASE ~Seeding
      <3>1. Filled /\ c \notin SeedCalls /\ dir' = dir
        <4>1. c \notin SeedCalls
          BY <1>15, <1>26, <2>3
        <4> QED
          BY <1>4, <1>17, <2>1, <2>3, <4>1 DEF Filled, HandledAs
      <3>2. StrayProbe' = StrayProbe /\ StrayProbed' = StrayProbed
        BY <3>1 DEF StrayProbe, StrayProbed
      <3>3. CASE pending = 0
        <4>1. dir.mode = gesture.mode /\ Absent(gestCalls, StrayProbe) /\ Absent(gestMail, StrayProbed)
          BY <1>3, <3>1, <3>3 DEF ModeFollows
        <4>2. Absent(us, StrayProbe)
          BY <1>18 DEF Absent, StrayProbe
        <4> QED
          BY <1>6, <1>7, <1>9, <1>14, <1>16, <1>21, <3>1, <3>2, <3>3, <4>1, <4>2 DEF ModeFollows
      <3>4. CASE pending # 0 /\ c \in Awaited
        <4>1. Absent(gestMail, StrayModed)
          BY <1>3, <3>1, <3>4 DEF ModeFollows
        <4>2. m.ok = TRUE
          BY <1>20, <1>25, <2>1, <3>4
        <4>3. dir.mode = gesture.mode
          BY <1>11, <1>12, <1>16, <3>4, <4>1, <4>2 DEF StrayModed
        <4>4. pending' = 0 /\ Absent(cs, StrayProbe) /\ \A i \in 1 .. Len(an) : an[i] \notin ProbeCalls
          BY <1>23, <3>4 DEF Absent, Later, StrayProbe
        <4>5. Absent(ml, StrayProbed)
          <5>1. Len(an) = Len(ml) /\ \A i \in 1 .. Len(ml) : an[i] = ml[i].call
            BY <1>8, <1>11, CallsListed
          <5> QED
            BY <4>4, <5>1 DEF Absent, StrayProbed
        <4> QED
          BY <1>6, <1>7, <1>9, <3>1, <3>2, <4>3, <4>4, <4>5 DEF ModeFollows
      <3>5. CASE pending # 0 /\ c \notin Awaited
        <4>1. pending' = pending /\ Awaited' = Awaited
          BY <1>22, <3>5 DEF Awaited, SetGesture
        <4>2. StrayMode' = StrayMode /\ StrayModed' = StrayModed
          BY <1>9, <3>1, <4>1 DEF StrayMode, StrayModed
        <4>3. Absent(gestCalls, StrayMode) /\ Absent(gestMail, StrayModed)
          BY <1>3, <3>1, <3>5 DEF ModeFollows
        <4>4. Absent(us, StrayMode)
          BY <1>19 DEF Absent, StrayMode
        <4> QED
          BY <1>6, <1>7, <1>14, <1>16, <3>5, <4>1, <4>2, <4>3, <4>4 DEF ModeFollows
      <3> QED
        BY <3>3, <3>4, <3>5
    <2> QED
      BY <2>2, <2>3
  <1>33. ParamsFollow'
    <2> SUFFICES ASSUME doubts' = {} PROVE ParamsFollow'
      BY DEF ParamsFollow
    <2>1. doubts = {}
      BY <1>25
    <2> SUFFICES ASSUME own # {} PROVE ParamsFollow'
      BY <1>9 DEF ParamsFollow
    <2>2. Filled /\ c \notin SeedCalls
      <3>1. ~Seeding
        BY <1>30
      <3> QED
        BY <1>15, <1>26, <2>1, <3>1 DEF Filled
    <2>3. dir' = dir
      BY <1>4, <1>17, <2>2 DEF HandledAs
    <2>4. m.call \in ProbeCalls /\ pending = 0 => m.ok = TRUE
      BY <1>3, <1>11, <1>16, <2>2 DEF ModeFollows, StrayProbed
    <2>5. /\ GrainCalls' = GrainCalls /\ ActionCalls' = ActionCalls /\ KeysCalls' = KeysCalls
      BY <2>3 DEF GrainCalls, ActionCalls, KeysCalls
    <2>6. /\ \A x \in ParamsSet : Call("probe", x) \in GrainCalls => Call("set", x) \in GrainCalls
          /\ \A x \in ParamsSet : Call("probe", x) \in ActionCalls => Call("set", x) \in ActionCalls
          /\ \A x \in ParamsSet : Call("probe", x) \in KeysCalls => Call("set", x) \in KeysCalls
      BY DEF Call, GrainCalls, ActionCalls, KeysCalls, SetCalls
    <2>7. \A kinds, G : (\A x \in ParamsSet : Call("probe", x) \in G => Call("set", x) \in G) =>
                           /\ Coming(kinds, G) => Coming(kinds, G)'
                           /\ Done(kinds) => Done(kinds)'
      BY <1>1, <1>3, <1>4, <1>12, <2>4, ComingHandled
    <2>8. "grain" \in own =>
             (Coming({"grain"}, GrainCalls) \/ (Done({"grain"}) /\ gesture.grain = dir.grain))'
      <3>1. PICK G : G = GrainCalls
        OBVIOUS
      <3> QED
        BY <1>3, <1>9, <2>1, <2>3, <2>5, <2>6, <2>7, <3>1 DEF ParamsFollow
    <2>9. "action" \in own =>
             (Coming({"action"}, ActionCalls) \/ (Done({"action"}) /\ gesture.action = dir.action))'
      <3>1. PICK G : G = ActionCalls
        OBVIOUS
      <3> QED
        BY <1>3, <1>9, <2>1, <2>3, <2>5, <2>6, <2>7, <3>1 DEF ParamsFollow
    <2>10. "keys" \in own =>
             (Coming({"action", "keys"}, KeysCalls) \/ (Done({"action", "keys"}) /\ gesture.keys = TRUE))'
      <3>1. PICK G : G = KeysCalls
        OBVIOUS
      <3> QED
        BY <1>3, <1>9, <2>1, <2>3, <2>5, <2>6, <2>7, <3>1 DEF ParamsFollow
    <2> QED
      BY <1>9, <2>8, <2>9, <2>10 DEF ParamsFollow
  <1> QED
    BY <1>4, <1>24, <1>31, <1>32, <1>33 DEF GestureInv

\* The mode is set.
LEMMA ModeSetKeeps ==
    ASSUME GestureInv, NEW k \in ModeSet, setMode(k)
    PROVE  GestureInv'
  <1>1. PICK n : n = gestEdits + 1
    OBVIOUS
  <1>2. GestureShapes /\ UnderWay /\ SeedsFirst /\ ModeFollows /\ ParamsFollow
    BY DEF GestureInv
  <1>3. /\ gestEdits < MaxGestures /\ gestEdits' = n /\ gesture' = gesture /\ gestMail' = gestMail
        /\ pending' = n /\ own' = {} /\ chained' = chained
        /\ doubts' = IF Seeding THEN doubts \cup {"seeding"} ELSE doubts
        /\ gestCalls' = Append(gestCalls, Call("setGesture", [mode |-> k, id |-> n]))
        /\ dir' = [dir EXCEPT !.mode = k, !.action = IF k \in ActionModes THEN @ ELSE ""]
    BY <1>1 DEF setMode, Edits
  <1>4. MaxGestures \in Nat /\ gestEdits \in 0 .. MaxGestures
    <2>1. MaxGestures \in Nat
      BY ModesAssumption, Zenon
    <2> QED
      BY <1>2, <2>1, Zenon DEF GestureShapes
  <1>5. n \in 1 .. MaxGestures /\ gestEdits < n
    BY <1>1, <1>3, <1>4
  <1>6. PICK c : c = Call("setGesture", [mode |-> k, id |-> n])
    OBVIOUS
  <1>7. c \in ModeCalls /\ c \in GestureCalls /\ c.x.id = n /\ c.x.mode = k /\ c.op = "setGesture"
    BY <1>5, <1>6 DEF Call, ModeCalls, GestureCalls
  <1>8. c \notin ProbeCalls /\ c \notin SeedCalls
    BY <1>7, Sorts
  <1>9. PICK cs : cs = gestCalls'
    OBVIOUS
  <1>10. /\ gestCalls \in Seq(GestureCalls) /\ gestMail \in Seq(GestureReplies)
         /\ dir \in [mode : ModeSet \cup {""}, grain : Grains \cup {0}, action : Actions]
    BY <1>2, Zenon DEF GestureShapes
  <1>11. cs = Append(gestCalls, c)
    BY <1>3, <1>6, <1>9
  <1>12. cs \in Seq(GestureCalls)
    BY <1>7, <1>10, <1>11, Appended, Zenon
  <1>13. /\ \A K : Absent(gestCalls, K) /\ c \notin K => Absent(cs, K)
         /\ \A K, G : c \in K \cap G => Newest(cs, K, G)
         /\ \A G : Absent(gestCalls, G) => Once(cs, G)
    BY <1>10, <1>11, OneMoreCall, Zenon
  <1>14. \A K : Absent(cs, K) => Absent(gestCalls, K) /\ c \notin K
    <2> gestCalls \in Seq(GestureCalls)
      BY <1>10, Zenon
    <2>1. /\ Len(gestCalls) \in Nat /\ Len(cs) = Len(gestCalls) + 1 /\ cs[Len(gestCalls) + 1] = c
          /\ \A i \in 1 .. Len(gestCalls) : cs[i] = gestCalls[i]
      BY <1>11, Appended
    <2>2. /\ Len(gestCalls) + 1 \in 1 .. Len(cs)
          /\ \A i \in 1 .. Len(gestCalls) : i \in 1 .. Len(cs)
      BY <2>1
    <2> QED
      BY <2>1, <2>2 DEF Absent
  <1>15. CallsAnswered' = CallsAnswered
    BY <1>3 DEF CallsAnswered
  <1>16. GestureShapes'
    <2>1. dir' \in [mode : ModeSet \cup {""}, grain : Grains \cup {0}, action : Actions]
      BY <1>3, <1>10, Zenon DEF Actions
    <2>2. n \in 0 .. MaxGestures /\ n <= n
      BY <1>4, <1>5
    <2> QED
      BY <1>2, <1>3, <1>9, <1>12, <2>1, <2>2, Zenon DEF GestureShapes
  \* The number is a new one.
  <1>17. SetGesture(n) \subseteq Unsent
    BY <1>5 DEF SetGesture, Unsent
  <1>18. Absent(gestCalls, SetGesture(n)) /\ Absent(CallsAnswered, SetGesture(n))
    BY <1>2, <1>17 DEF UnderWay, Absent
  <1>19. Awaited' = SetGesture(n)
    BY <1>3 DEF Awaited, SetGesture
  <1>20. UnderWay'
    <2>1. Newest(cs, Later, SetGesture(n))
      BY <1>7, <1>13 DEF Later, SetGesture
    <2>2. Once(cs, SetGesture(n))
      BY <1>13, <1>18
    <2>3. \A id \in 1 .. MaxGestures :
             chained[id] # << >> => ~(Absent(cs, SetGesture(id)) /\ Absent(CallsAnswered, SetGesture(id)))
      BY <1>2, <1>14 DEF UnderWay
    <2>4. Unsent' \subseteq Unsent /\ c \notin Unsent'
      <3>1. \A d \in ModeCalls : d.x.id \in Int
        BY DEF ModeCalls
      <3>2. \A d \in ModeCalls : d.x.id > n => d.x.id > gestEdits
        BY <1>4, <1>5, <3>1
      <3>3. Unsent' = {d \in ModeCalls : d.x.id > n}
        BY <1>3 DEF Unsent
      <3>4. ~(n > n)
        BY <1>5
      <3> QED
        BY <1>7, <3>2, <3>3, <3>4 DEF Unsent
    <2>5. Absent(gestCalls, Unsent') /\ Absent(CallsAnswered, Unsent')
      BY <1>2, <2>4 DEF UnderWay, Absent
    <2>6. Absent(cs, Unsent')
      BY <1>13, <2>4, <2>5
    <2>7. n # 0
      BY <1>5
    <2> QED
      BY <1>3, <1>9, <1>15, <1>18, <1>19, <2>1, <2>2, <2>3, <2>5, <2>6, <2>7 DEF UnderWay
  <1>21. doubts' = {} => doubts = {} /\ ~Seeding
    BY <1>3
  <1>22. ~Seeding => ~Seeding'
    <2>1. /\ Seeding <=> ~(Absent(gestCalls, SeedCalls) /\ Absent(CallsAnswered, SeedCalls))
          /\ Seeding' <=> ~(Absent(cs, SeedCalls) /\ Absent(CallsAnswered, SeedCalls))
      BY <1>3, <1>9, <1>10, <1>12, SeedingIs, Zenon DEF Seeding, CallsAnswered
    <2> QED
      BY <1>8, <1>13, <2>1
  <1>23. SeedsFirst'
    BY <1>21, <1>22 DEF SeedsFirst
  <1>24. ModeFollows'
    <2>1. dir'.mode = k
      BY <1>3, <1>10, Zenon
    <2>2. n # 0
      BY <1>5
    <2>3. Absent(cs, StrayMode')
      <3>1. c \notin StrayMode'
        BY <1>7, <2>1 DEF StrayMode
      <3>2. Absent(gestCalls, StrayMode')
        BY <1>18, <1>19 DEF Absent, StrayMode
      <3> QED
        BY <1>13, <3>1, <3>2
    <2>4. Absent(gestMail, StrayModed')
      <3>1. Len(CallsAnswered) = Len(gestMail) /\ \A i \in 1 .. Len(gestMail) : CallsAnswered[i] = gestMail[i].call
        BY <1>10, CallsListed, Zenon DEF CallsAnswered
      <3>2. \A i \in 1 .. Len(gestMail) : gestMail[i].call \notin SetGesture(n)
        BY <1>18, <3>1 DEF Absent
      <3> QED
        BY <1>19, <3>2 DEF Absent, StrayModed
    <2> QED
      BY <1>3, <1>9, <2>2, <2>3, <2>4 DEF ModeFollows
  <1>25. ParamsFollow'
    BY <1>3 DEF ParamsFollow
  <1> QED
    BY <1>16, <1>20, <1>23, <1>24, <1>25 DEF GestureInv

\* Parameters are set: the calls of ps are chained, or sent as probes.
ParamsEdited(ps) ==
    /\ ps \in Seq(ParamsSet) /\ \A i \in 1 .. Len(ps) : ps[i].mode = dir.mode
    /\ Edits /\ performParamCalls(ps) /\ pending' = pending
    /\ dir' \in [mode : ModeSet \cup {""}, grain : Grains \cup {0}, action : Actions]
    /\ dir'.mode = dir.mode
    /\ "keys" \in own' => "action" \in own' /\ dir'.action = "Keypress"

\* The calls of a sequence of parameters.
LEMMA CallsOfParams ==
    ASSUME NEW ps \in Seq(ParamsSet)
    PROVE  /\ Calls("probe", ps) \in Seq(ProbeCalls) /\ Calls("probe", ps) \in Seq(GestureCalls)
           /\ Len(Calls("probe", ps)) = Len(ps) /\ Len(ps) \in Nat
           /\ \A i \in 1 .. Len(ps) : Calls("probe", ps)[i] = Call("probe", ps[i])
           /\ \A i \in 1 .. Len(ps) : Calls("probe", ps)[i] \in ProbeCalls /\ Calls("probe", ps)[i].x = ps[i]
           /\ Calls("set", ps) \in Seq(SetCalls) /\ Len(Calls("set", ps)) = Len(ps)
           /\ \A i \in 1 .. Len(ps) : Calls("set", ps)[i] \in SetCalls /\ Calls("set", ps)[i].x = ps[i]
  <1>1. Len(ps) \in Nat /\ \A i \in 1 .. Len(ps) : ps[i] \in ParamsSet
    OBVIOUS
  <1>2. \A x \in ParamsSet : /\ Call("probe", x) \in ProbeCalls /\ Call("set", x) \in SetCalls
                             /\ Call("probe", x).x = x /\ Call("set", x).x = x
    BY DEF Call, ProbeCalls, SetCalls
  <1>3. PICK us : us = Calls("probe", ps)
    OBVIOUS
  <1>4. PICK vs : vs = Calls("set", ps)
    OBVIOUS
  <1>5. /\ us = [n \in 1 .. Len(ps) |-> Call("probe", ps[n])]
        /\ vs = [n \in 1 .. Len(ps) |-> Call("set", ps[n])]
    BY <1>3, <1>4 DEF Calls
  <1>6. \A i \in 1 .. Len(ps) : /\ Call("probe", ps[i]) \in ProbeCalls /\ Call("set", ps[i]) \in SetCalls
                                /\ Call("probe", ps[i]).x = ps[i] /\ Call("set", ps[i]).x = ps[i]
    BY <1>1, <1>2
  <1>7. /\ \A i \in 1 .. Len(ps) : us[i] = Call("probe", ps[i])
        /\ \A i \in 1 .. Len(ps) : vs[i] = Call("set", ps[i])
    BY <1>5
  <1>8. us \in Seq(ProbeCalls) /\ Len(us) = Len(ps)
    BY <1>1, <1>5, <1>6
  <1>9. vs \in Seq(SetCalls) /\ Len(vs) = Len(ps)
    BY <1>1, <1>5, <1>6
  <1>10. \A i \in 1 .. Len(ps) : Call("probe", ps[i]) \in GestureCalls
    BY <1>6 DEF GestureCalls
  <1>11. us \in Seq(GestureCalls)
    BY <1>1, <1>5, <1>10
  <1> QED
    BY <1>1, <1>3, <1>4, <1>6, <1>7, <1>8, <1>9, <1>11

\* Setting parameters keeps what is not about the parameters themselves.
LEMMA ParamsEditKeeps ==
    ASSUME GestureInv, NEW ps, ParamsEdited(ps)
    PROVE  /\ GestureShapes' /\ UnderWay' /\ SeedsFirst' /\ ModeFollows'
           /\ doubts' = {} => doubts = {}
  <1>1. GestureShapes /\ UnderWay /\ SeedsFirst /\ ModeFollows
    BY DEF GestureInv
  <1>2. /\ gestEdits < MaxGestures /\ gestEdits' = gestEdits + 1 /\ gesture' = gesture /\ gestMail' = gestMail
        /\ doubts' = IF Seeding THEN doubts \cup {"seeding"} ELSE doubts
        /\ pending' = pending
    BY Zenon DEF ParamsEdited, Edits
  <1>3. PICK us : us = Calls("probe", ps)
    OBVIOUS
  <1>4. PICK vs : vs = Calls("set", ps)
    OBVIOUS
  <1>5. ps \in Seq(ParamsSet) /\ \A i \in 1 .. Len(ps) : ps[i].mode = dir.mode
    BY Zenon DEF ParamsEdited
  <1>6. /\ us \in Seq(GestureCalls) /\ Len(us) = Len(ps)
        /\ \A i \in 1 .. Len(ps) : us[i] \in ProbeCalls /\ us[i].x = ps[i]
    BY <1>3, <1>5, CallsOfParams
  <1>7. vs \in Seq(SetCalls)
    BY <1>4, <1>5, CallsOfParams
  <1>8. us \in Seq(GestureCalls)
    BY <1>6
  <1>9. /\ pending # 0 => chained' = [chained EXCEPT ![pending] = @ \o vs] /\ gestCalls' = gestCalls
        /\ pending = 0 => gestCalls' = gestCalls \o us /\ chained' = chained
    BY <1>3, <1>4, Zenon DEF ParamsEdited, performParamCalls
  <1>10. PICK cs : cs = gestCalls'
    OBVIOUS
  <1>11. /\ gestCalls \in Seq(GestureCalls) /\ gestMail \in Seq(GestureReplies)
         /\ chained \in [1 .. MaxGestures -> Seq(SetCalls)]
    BY <1>1, Zenon DEF GestureShapes
  <1>12. cs \in Seq(GestureCalls)
    <2> gestCalls \in Seq(GestureCalls)
      BY <1>11
    <2>1. gestCalls \o us \in Seq(GestureCalls)
      BY <1>8, Joined
    <2> QED
      BY <1>9, <1>10, <2>1
  <1>13. CallsAnswered' = CallsAnswered
    BY <1>2 DEF CallsAnswered
  <1>14. /\ MaxGestures \in Nat /\ gestEdits \in 0 .. MaxGestures
         /\ pending \in 0 .. MaxGestures /\ pending <= gestEdits
    <2>1. MaxGestures \in Nat
      BY ModesAssumption, Zenon
    <2> QED
      BY <1>1, <2>1, Zenon DEF GestureShapes
  <1>15. gestEdits' \in 0 .. MaxGestures /\ pending <= gestEdits'
    BY <1>2, <1>14
  <1>16. chained' \in [1 .. MaxGestures -> Seq(SetCalls)]
    <2>1. \A s \in Seq(SetCalls) : s \o vs \in Seq(SetCalls)
      BY <1>7
    <2>2. chained \in [1 .. MaxGestures -> Seq(SetCalls)]
      BY <1>11
    <2> QED
      BY <1>9, <2>1, <2>2
  <1>17. GestureShapes'
    BY <1>1, <1>2, <1>10, <1>12, <1>15, <1>16, Zenon DEF GestureShapes, ParamsEdited
  <1>18. Absent(us, ModeCalls) /\ Absent(us, SeedCalls)
    <2>1. \A i \in 1 .. Len(us) : us[i] \in ProbeCalls
      BY <1>6
    <2>2. \A d \in ProbeCalls : d \notin ModeCalls /\ d \notin SeedCalls
      BY DEF ModeCalls, SeedCalls, ProbeCalls
    <2> QED
      BY <2>1, <2>2 DEF Absent
  <1>19. \A K : Absent(gestCalls, K) /\ Absent(us, K) => Absent(cs, K)
    <2>1. gestCalls' = gestCalls \o us => \A K : Absent(gestCalls, K) /\ Absent(us, K) => Absent(cs, K)
      BY <1>8, <1>10, <1>11, SomeMore
    <2> QED
      BY <1>9, <1>10, <2>1
  <1>20. Awaited' = Awaited
    BY <1>2 DEF Awaited, SetGesture
  <1>21. Unsent' \subseteq Unsent
    <2>1. \A d \in ModeCalls : d.x.id \in Int
      BY DEF ModeCalls
    <2>2. \A d \in ModeCalls : d.x.id > gestEdits + 1 => d.x.id > gestEdits
      BY <1>14, <2>1
    <2> QED
      BY <1>2, <2>2 DEF Unsent
  <1>22. UnderWay'
    <2>1. CASE pending = 0
      <3>1. Absent(cs, ModeCalls) /\ Absent(CallsAnswered, ModeCalls)
        BY <1>1, <1>18, <1>19, <2>1 DEF UnderWay
      <3>2. Absent(us, Unsent') /\ Absent(gestCalls, Unsent') /\ Absent(CallsAnswered, Unsent')
        BY <1>1, <1>18, <1>21 DEF UnderWay, Absent, Unsent
      <3>3. Absent(cs, Unsent')
        BY <1>19, <3>2
      <3>4. \A id \in 1 .. MaxGestures :
               chained[id] # << >> => ~(Absent(cs, SetGesture(id)) /\ Absent(CallsAnswered, SetGesture(id)))
        <4>1. \A id : Absent(gestCalls, SetGesture(id)) /\ Absent(CallsAnswered, SetGesture(id))
          BY <1>1, <2>1 DEF UnderWay, Absent, SetGesture
        <4> QED
          BY <1>1, <4>1 DEF UnderWay
      <3> QED
        BY <1>2, <1>9, <1>10, <1>13, <2>1, <3>1, <3>2, <3>3, <3>4 DEF UnderWay
    <2>2. CASE pending # 0
      <3>1. cs = gestCalls
        BY <1>9, <1>10, <2>2
      <3>2. Absent(cs, Unsent') /\ Absent(CallsAnswered, Unsent')
        BY <1>1, <1>21, <3>1 DEF UnderWay, Absent
      <3>3. ~(Absent(cs, SetGesture(pending)) /\ Absent(CallsAnswered, SetGesture(pending)))
        BY <1>1, <2>2, <3>1, NewestIs DEF UnderWay, Awaited
      <3>4. \A id \in 1 .. MaxGestures :
               chained'[id] # << >> => ~(Absent(cs, SetGesture(id)) /\ Absent(CallsAnswered, SetGesture(id)))
        <4>1. \A id \in 1 .. MaxGestures : id # pending => chained'[id] = chained[id]
          BY <1>9, <1>11, <2>2
        <4> QED
          BY <1>1, <3>1, <3>3, <4>1 DEF UnderWay
      <3>5. \/ Newest(cs, Later, Awaited) /\ Once(cs, Awaited) /\ Absent(CallsAnswered, Awaited)
            \/ Absent(cs, Later) /\ Newest(CallsAnswered, Later, Awaited) /\ Once(CallsAnswered, Awaited)
        BY <1>1, <2>2, <3>1 DEF UnderWay
      <3> QED
        BY <1>2, <1>10, <1>13, <1>20, <2>2, <3>2, <3>4, <3>5 DEF UnderWay
    <2> QED
      BY <2>1, <2>2
  <1>23. doubts' = {} => doubts = {} /\ ~Seeding
    BY <1>2
  <1>24. ~Seeding => ~Seeding'
    <2>1. /\ Seeding <=> ~(Absent(gestCalls, SeedCalls) /\ Absent(CallsAnswered, SeedCalls))
          /\ Seeding' <=> ~(Absent(cs, SeedCalls) /\ Absent(CallsAnswered, SeedCalls))
      BY <1>2, <1>10, <1>11, <1>12, SeedingIs DEF Seeding, CallsAnswered
    <2> QED
      BY <1>18, <1>19, <2>1
  <1>25. SeedsFirst'
    BY <1>23, <1>24 DEF SeedsFirst
  <1>26. ModeFollows'
    <2> SUFFICES ASSUME Filled' PROVE ModeFollows'
      BY DEF ModeFollows
    <2>1. Filled
      BY <1>23 DEF Filled
    <2>2. dir'.mode = dir.mode
      BY Zenon DEF ParamsEdited
    <2>3. StrayProbe' = StrayProbe /\ StrayProbed' = StrayProbed /\ StrayMode' = StrayMode /\ StrayModed' = StrayModed
      BY <1>2, <1>20, <2>2 DEF StrayProbe, StrayProbed, StrayMode, StrayModed
    <2>4. Absent(us, StrayProbe)
      <3>1. \A i \in 1 .. Len(us) : us[i].x.mode = dir.mode
        BY <1>5, <1>6
      <3> QED
        BY <3>1 DEF Absent, StrayProbe
    <2>5. pending = 0 => Absent(cs, StrayProbe)
      BY <1>1, <1>19, <2>1, <2>4 DEF ModeFollows
    <2>6. pending # 0 => cs = gestCalls
      BY <1>9, <1>10
    <2> QED
      BY <1>1, <1>2, <1>10, <2>1, <2>3, <2>5, <2>6, <2>2 DEF ModeFollows
  <1> QED
    BY <1>17, <1>22, <1>23, <1>25, <1>26

\* The calls of parameters, by the kinds of these.
LEMMA KindsOfParams ==
    ASSUME NEW ps \in Seq(ParamsSet), NEW kinds, NEW G
    PROVE  /\ (\A i \in 1 .. Len(ps) : ps[i].kind \notin kinds) =>
                 /\ Absent(Calls("set", ps), OfKind(SetCalls, kinds))
                 /\ Absent(Calls("probe", ps), OfKind(ProbeCalls, kinds))
           /\ (\E i \in 1 .. Len(ps) :
                 /\ ps[i].kind \in kinds /\ \A c \in SetCalls \cup ProbeCalls : c.x = ps[i] => c \in G
                 /\ \A j \in 1 .. Len(ps) : j > i => ps[j].kind \notin kinds) =>
                 /\ Newest(Calls("set", ps), OfKind(SetCalls, kinds), G)
                 /\ Newest(Calls("probe", ps), OfKind(ProbeCalls, kinds), G)
  <1>1. PICK us : us = Calls("probe", ps)
    OBVIOUS
  <1>2. PICK vs : vs = Calls("set", ps)
    OBVIOUS
  <1>3. /\ Len(us) = Len(ps) /\ \A i \in 1 .. Len(ps) : us[i] \in ProbeCalls /\ us[i].x = ps[i]
        /\ Len(vs) = Len(ps) /\ \A i \in 1 .. Len(ps) : vs[i] \in SetCalls /\ vs[i].x = ps[i]
    BY <1>1, <1>2, CallsOfParams
  <1>4. ASSUME \A i \in 1 .. Len(ps) : ps[i].kind \notin kinds
        PROVE  Absent(vs, OfKind(SetCalls, kinds)) /\ Absent(us, OfKind(ProbeCalls, kinds))
    BY <1>3, <1>4 DEF Absent, OfKind
  <1>5. ASSUME NEW i \in 1 .. Len(ps), ps[i].kind \in kinds,
               \A c \in SetCalls \cup ProbeCalls : c.x = ps[i] => c \in G,
               \A j \in 1 .. Len(ps) : j > i => ps[j].kind \notin kinds
        PROVE  Newest(vs, OfKind(SetCalls, kinds), G) /\ Newest(us, OfKind(ProbeCalls, kinds), G)
    <2>1. us[i] \in OfKind(ProbeCalls, kinds) \cap G /\ vs[i] \in OfKind(SetCalls, kinds) \cap G
      BY <1>3, <1>5 DEF OfKind
    <2>2. \A j \in 1 .. Len(ps) : j > i => us[j] \notin OfKind(ProbeCalls, kinds) /\ vs[j] \notin OfKind(SetCalls, kinds)
      BY <1>3, <1>5 DEF OfKind
    <2> QED
      BY <1>3, <2>1, <2>2 DEF Newest
  <1> QED
    BY <1>1, <1>2, <1>4, <1>5

\* What parameters that are set do to the kinds under way.
LEMMA ComingEdited ==
    ASSUME GestureShapes, NEW ps, ParamsEdited(ps), NEW kinds, NEW G
    PROVE  /\ /\ Newest(Calls("set", ps), OfKind(SetCalls, kinds), G)
              /\ Newest(Calls("probe", ps), OfKind(ProbeCalls, kinds), G)
              => Coming(kinds, G)'
           /\ /\ Absent(Calls("set", ps), OfKind(SetCalls, kinds))
              /\ Absent(Calls("probe", ps), OfKind(ProbeCalls, kinds))
              => (Coming(kinds, G) => Coming(kinds, G)') /\ (Done(kinds) => Done(kinds)')
  <1>1. PICK us : us = Calls("probe", ps)
    OBVIOUS
  <1>2. PICK vs : vs = Calls("set", ps)
    OBVIOUS
  <1>3. ps \in Seq(ParamsSet)
    BY Zenon DEF ParamsEdited
  <1>4. us \in Seq(GestureCalls) /\ Len(us) = Len(ps) /\ \A i \in 1 .. Len(ps) : us[i] \in ProbeCalls
    BY <1>1, <1>3, CallsOfParams
  <1>5. vs \in Seq(SetCalls)
    BY <1>2, <1>3, CallsOfParams
  <1>6. /\ pending # 0 => chained' = [chained EXCEPT ![pending] = @ \o vs] /\ gestCalls' = gestCalls
        /\ pending = 0 => gestCalls' = gestCalls \o us
        /\ pending' = pending /\ gestMail' = gestMail
    BY <1>1, <1>2, Zenon DEF ParamsEdited, performParamCalls, Edits
  <1>7. gestCalls \in Seq(GestureCalls) /\ chained \in [1 .. MaxGestures -> Seq(SetCalls)]
    BY Zenon DEF GestureShapes
  <1>8. CallsAnswered' = CallsAnswered
    BY <1>6 DEF CallsAnswered
  <1>9. PICK KP : KP = OfKind(ProbeCalls, kinds)
    OBVIOUS
  <1>10. PICK KS : KS = OfKind(SetCalls, kinds)
    OBVIOUS
  <1>11. PICK cs : cs = gestCalls'
    OBVIOUS
  <1>12. CASE pending # 0
    <2>1. pending \in 1 .. MaxGestures
      <3>1. pending \in 0 .. MaxGestures /\ MaxGestures \in Nat
        BY ModesAssumption, Zenon DEF GestureShapes
      <3> QED
        BY <1>12, <3>1
    <2>2. PICK w : w = chained[pending]
      OBVIOUS
    <2>3. PICK v : v = chained'[pending]
      OBVIOUS
    <2>4. w \in Seq(SetCalls) /\ v = w \o vs
      BY <1>6, <1>7, <1>12, <2>1, <2>2, <2>3
    <2>5. /\ Newest(vs, KS, G) => Newest(v, KS, G)
          /\ Newest(w, KS, G) /\ Absent(vs, KS) => Newest(v, KS, G)
      BY <1>5, <2>4, SomeMore
    <2>6. /\ Coming(kinds, G) <=> Newest(w, KS, G)
          /\ Coming(kinds, G)' <=> Newest(v, KS, G)
          /\ ~Done(kinds)
      BY <1>6, <1>10, <1>12, <2>2, <2>3 DEF Coming, Done
    <2> QED
      BY <1>2, <1>10, <2>5, <2>6
  <1>13. CASE pending = 0
    <2>1. cs = gestCalls \o us
      BY <1>6, <1>11, <1>13
    <2>2. /\ Absent(gestCalls, KP) /\ Absent(us, KP) => Absent(cs, KP)
          /\ Absent(gestCalls, KS) /\ Absent(us, KS) => Absent(cs, KS)
          /\ Newest(us, KP, G) => Newest(cs, KP, G)
          /\ Newest(gestCalls, KP, G) /\ Absent(us, KP) => Newest(cs, KP, G)
          /\ Newest(gestCalls, KS, G) /\ Absent(us, KS) => Newest(cs, KS, G)
      BY <1>4, <1>7, <2>1, SomeMore
    <2>3. Absent(us, KS)
      <3>1. \A d \in ProbeCalls : d \notin KS
        BY <1>10 DEF OfKind, SetCalls, ProbeCalls
      <3> QED
        BY <1>4, <3>1 DEF Absent
    <2>4. Coming(kinds, G) <=>
             \/ Newest(gestCalls, KP, G)
             \/ /\ Absent(gestCalls, KP)
                /\ \/ Newest(CallsAnswered, KP, G)
                   \/ Absent(CallsAnswered, KP) /\ Newest(gestCalls, KS, G)
      BY <1>9, <1>10, <1>13 DEF Coming
    <2>5. Coming(kinds, G)' <=>
             \/ Newest(cs, KP, G)
             \/ /\ Absent(cs, KP)
                /\ \/ Newest(CallsAnswered, KP, G)
                   \/ Absent(CallsAnswered, KP) /\ Newest(cs, KS, G)
      BY <1>6, <1>8, <1>9, <1>10, <1>11, <1>13 DEF Coming
    <2>6. /\ Done(kinds) <=> Absent(gestCalls, KP) /\ Absent(CallsAnswered, KP) /\ Absent(gestCalls, KS)
          /\ Done(kinds)' <=> Absent(cs, KP) /\ Absent(CallsAnswered, KP) /\ Absent(cs, KS)
      BY <1>6, <1>8, <1>9, <1>10, <1>11, <1>13 DEF Done
    <2> QED
      BY <1>1, <1>9, <2>2, <2>3, <2>4, <2>5, <2>6
  <1> QED
    BY <1>12, <1>13

\* The granularity is set.
LEMMA GrainSetKeeps ==
    ASSUME GestureInv, NEW g \in Grains, setGranularity(g)
    PROVE  GestureInv'
  <1>1. PICK p : p = Param("grain", g)
    OBVIOUS
  <1>2. PICK ps : ps = <<p>>
    OBVIOUS
  <1>3. /\ Edits /\ performParamCalls(ps) /\ pending' = pending /\ own' = own \cup {"grain"}
        /\ dir' = [dir EXCEPT !.grain = g] /\ dir.mode \notin {"", "None"} /\ gesture' = gesture
    BY <1>1, <1>2, Zenon DEF setGranularity, Edits
  <1>4. /\ GestureShapes /\ ParamsFollow
        /\ dir \in [mode : ModeSet \cup {""}, grain : Grains \cup {0}, action : Actions]
    BY Zenon DEF GestureInv, GestureShapes
  <1>5. dir.mode \in ModeSet
    BY <1>3, <1>4, Zenon
  <1>6. p \in ParamsSet /\ p.kind = "grain" /\ p.mode = dir.mode /\ p.value = g
    BY <1>1, <1>5 DEF Param, ParamsSet
  <1>7. Len(ps) = 1 /\ ps[1] = p
    BY <1>2
  <1>8. ps \in Seq(ParamsSet)
    BY <1>2, <1>6
  <1>9. /\ dir' \in [mode : ModeSet \cup {""}, grain : Grains \cup {0}, action : Actions]
        /\ dir'.mode = dir.mode /\ dir'.grain = g /\ dir'.action = dir.action
    BY <1>3, <1>4, Zenon
  <1>10. "keys" \in own' => "action" \in own' /\ dir'.action = "Keypress"
    BY <1>3, <1>4, <1>9, Zenon DEF GestureShapes
  <1>11. \A i \in 1 .. Len(ps) : i = 1
    BY <1>7
  <1>12. ParamsEdited(ps)
    BY <1>3, <1>6, <1>7, <1>8, <1>9, <1>10, <1>11, Zenon DEF ParamsEdited
  <1>13. /\ GestureShapes' /\ UnderWay' /\ SeedsFirst' /\ ModeFollows'
         /\ doubts' = {} => doubts = {}
    BY <1>12, ParamsEditKeeps
  <1>14. PICK G : G = GrainCalls'
    OBVIOUS
  <1>15. Coming({"grain"}, GrainCalls)'
    <2>1. \A c \in SetCalls \cup ProbeCalls : c.x = p => c \in G
      BY <1>6, <1>9, <1>14, Zenon DEF GrainCalls
    <2>2. 1 \in 1 .. Len(ps) /\ \A j \in 1 .. Len(ps) : ~(j > 1)
      BY <1>7
    <2>3. /\ Newest(Calls("set", ps), OfKind(SetCalls, {"grain"}), G)
          /\ Newest(Calls("probe", ps), OfKind(ProbeCalls, {"grain"}), G)
      BY <1>6, <1>7, <1>8, <2>1, <2>2, KindsOfParams
    <2>4. Coming({"grain"}, G)'
      BY <1>4, <1>12, <2>3, ComingEdited, Zenon
    <2> QED
      BY <1>14, <2>4 DEF Coming
  <1>16. ASSUME NEW kinds, "grain" \notin kinds, NEW H
         PROVE  (Coming(kinds, H) => Coming(kinds, H)') /\ (Done(kinds) => Done(kinds)')
    <2>1. \A i \in 1 .. Len(ps) : ps[i].kind \notin kinds
      BY <1>6, <1>7, <1>11, <1>16
    <2>2. /\ Absent(Calls("set", ps), OfKind(SetCalls, kinds))
          /\ Absent(Calls("probe", ps), OfKind(ProbeCalls, kinds))
      BY <1>8, <2>1, KindsOfParams
    <2> QED
      BY <1>4, <1>12, <2>2, ComingEdited, Zenon
  <1>17. ParamsFollow'
    <2> SUFFICES ASSUME doubts' = {} PROVE ParamsFollow'
      BY DEF ParamsFollow
    <2>1. doubts = {}
      BY <1>13
    <2>2. PICK A : A = ActionCalls
      OBVIOUS
    <2>3. PICK K : K = KeysCalls
      OBVIOUS
    <2>4. ActionCalls' = A /\ KeysCalls' = K
      BY <1>9, <2>2, <2>3, Zenon DEF ActionCalls, KeysCalls
    <2>5. /\ (Coming({"action"}, A) => Coming({"action"}, A)') /\ (Done({"action"}) => Done({"action"})')
          /\ (Coming({"action", "keys"}, K) => Coming({"action", "keys"}, K)')
          /\ (Done({"action", "keys"}) => Done({"action", "keys"})')
      BY <1>16
    <2>6. /\ Coming({"action"}, A)' <=> Coming({"action"}, ActionCalls)'
          /\ Coming({"action", "keys"}, K)' <=> Coming({"action", "keys"}, KeysCalls)'
      BY <2>4 DEF Coming
    <2>7. /\ "action" \in own' => Coming({"action"}, ActionCalls)' \/ (Done({"action"})' /\ gesture'.action = dir'.action)
      BY <1>3, <1>4, <1>9, <2>1, <2>2, <2>5, <2>6, Zenon DEF ParamsFollow
    <2>8. /\ "keys" \in own' => Coming({"action", "keys"}, KeysCalls)' \/ (Done({"action", "keys"})' /\ gesture'.keys = TRUE)
      BY <1>3, <1>4, <2>1, <2>3, <2>5, <2>6, Zenon DEF ParamsFollow
    <2> QED
      BY <1>15, <2>7, <2>8 DEF ParamsFollow
  <1> QED
    BY <1>13, <1>17 DEF GestureInv

\* An action other than a keystroke is set.
LEMMA ActionSetKeeps ==
    ASSUME GestureInv, setGestureAction
    PROVE  GestureInv'
  <1>1. PICK p : p = Param("action", "Other")
    OBVIOUS
  <1>2. PICK ps : ps = <<p>>
    OBVIOUS
  <1>3. /\ Edits /\ performParamCalls(ps) /\ pending' = pending /\ own' = (own \cup {"action"}) \ {"keys"}
        /\ dir' = [dir EXCEPT !.action = "Other"] /\ dir.mode \in ModeSet /\ gesture' = gesture
    BY <1>1, <1>2, ModesAssumption, Zenon DEF setGestureAction, Edits
  <1>4. /\ GestureShapes /\ ParamsFollow
        /\ dir \in [mode : ModeSet \cup {""}, grain : Grains \cup {0}, action : Actions]
    BY Zenon DEF GestureInv, GestureShapes
  <1>5. p \in ParamsSet /\ p.kind = "action" /\ p.mode = dir.mode /\ p.value = "Other"
    BY <1>1, <1>3 DEF Param, ParamsSet
  <1>6. Len(ps) = 1 /\ ps[1] = p
    BY <1>2
  <1>7. ps \in Seq(ParamsSet)
    BY <1>2, <1>5
  <1>8. /\ dir' \in [mode : ModeSet \cup {""}, grain : Grains \cup {0}, action : Actions]
        /\ dir'.mode = dir.mode /\ dir'.grain = dir.grain /\ dir'.action = "Other"
    BY <1>3, <1>4, Zenon DEF Actions
  <1>9. "keys" \notin own'
    BY <1>3
  <1>10. \A i \in 1 .. Len(ps) : i = 1
    BY <1>6
  <1>11. ParamsEdited(ps)
    BY <1>3, <1>5, <1>6, <1>7, <1>8, <1>9, <1>10, Zenon DEF ParamsEdited
  <1>12. /\ GestureShapes' /\ UnderWay' /\ SeedsFirst' /\ ModeFollows'
         /\ doubts' = {} => doubts = {}
    BY <1>11, ParamsEditKeeps
  <1>13. PICK G : G = ActionCalls'
    OBVIOUS
  <1>14. Coming({"action"}, ActionCalls)'
    <2>1. \A c \in SetCalls \cup ProbeCalls : c.x = p => c \in G
      BY <1>5, <1>8, <1>13, Zenon DEF ActionCalls
    <2>2. 1 \in 1 .. Len(ps) /\ \A j \in 1 .. Len(ps) : ~(j > 1)
      BY <1>6
    <2>3. /\ Newest(Calls("set", ps), OfKind(SetCalls, {"action"}), G)
          /\ Newest(Calls("probe", ps), OfKind(ProbeCalls, {"action"}), G)
      BY <1>5, <1>6, <1>7, <2>1, <2>2, KindsOfParams
    <2>4. Coming({"action"}, G)'
      BY <1>4, <1>11, <2>3, ComingEdited, Zenon
    <2> QED
      BY <1>13, <2>4 DEF Coming
  <1>15. PICK H : H = GrainCalls
    OBVIOUS
  <1>16. (Coming({"grain"}, H) => Coming({"grain"}, H)') /\ (Done({"grain"}) => Done({"grain"})')
    <2>1. \A i \in 1 .. Len(ps) : ps[i].kind \notin {"grain"}
      BY <1>5, <1>6, <1>10
    <2>2. /\ Absent(Calls("set", ps), OfKind(SetCalls, {"grain"}))
          /\ Absent(Calls("probe", ps), OfKind(ProbeCalls, {"grain"}))
      BY <1>7, <2>1, KindsOfParams
    <2> QED
      BY <1>4, <1>11, <2>2, ComingEdited, Zenon
  <1>17. ParamsFollow'
    <2> SUFFICES ASSUME doubts' = {} PROVE ParamsFollow'
      BY DEF ParamsFollow
    <2>1. doubts = {}
      BY <1>12
    <2>2. GrainCalls' = H
      BY <1>8, <1>15, Zenon DEF GrainCalls
    <2>3. Coming({"grain"}, H)' <=> Coming({"grain"}, GrainCalls)'
      BY <2>2 DEF Coming
    <2>4. "grain" \in own' => Coming({"grain"}, GrainCalls)' \/ (Done({"grain"})' /\ gesture'.grain = dir'.grain)
      BY <1>3, <1>4, <1>8, <1>15, <1>16, <2>1, <2>3, Zenon DEF ParamsFollow
    <2> QED
      BY <1>9, <1>14, <2>4 DEF ParamsFollow
  <1> QED
    BY <1>12, <1>17 DEF GestureInv

\* A keystroke is set.
LEMMA KeypressSetKeeps ==
    ASSUME GestureInv, setGestureKeypress
    PROVE  GestureInv'
  <1>1. PICK p : p = Param("action", "Keypress")
    OBVIOUS
  <1>2. PICK q : q = Param("keys", TRUE)
    BY Zenon
  <1>3. PICK ps : ps = <<p, q>>
    OBVIOUS
  <1>4. /\ Edits /\ performParamCalls(ps) /\ pending' = pending /\ own' = own \cup {"action", "keys"}
        /\ dir' = [dir EXCEPT !.action = "Keypress"] /\ dir.mode \in ModeSet /\ gesture' = gesture
    BY <1>1, <1>2, <1>3, ModesAssumption, Zenon DEF setGestureKeypress, Edits
  <1>5. /\ GestureShapes /\ ParamsFollow
        /\ dir \in [mode : ModeSet \cup {""}, grain : Grains \cup {0}, action : Actions]
    BY Zenon DEF GestureInv, GestureShapes
  <1>6. /\ p \in ParamsSet /\ p.kind = "action" /\ p.mode = dir.mode /\ p.value = "Keypress"
        /\ q \in ParamsSet /\ q.kind = "keys" /\ q.mode = dir.mode /\ q.value = TRUE
    BY <1>1, <1>2, <1>4 DEF Param, ParamsSet
  <1>7. Len(ps) = 2 /\ ps[1] = p /\ ps[2] = q
    BY <1>3
  <1>8. ps \in Seq(ParamsSet)
    BY <1>3, <1>6
  <1>9. /\ dir' \in [mode : ModeSet \cup {""}, grain : Grains \cup {0}, action : Actions]
        /\ dir'.mode = dir.mode /\ dir'.grain = dir.grain /\ dir'.action = "Keypress"
    BY <1>4, <1>5, Zenon DEF Actions
  <1>10. \A i \in 1 .. Len(ps) : i = 1 \/ i = 2
    BY <1>7
  <1>11. ParamsEdited(ps)
    BY <1>4, <1>6, <1>7, <1>8, <1>9, <1>10, Zenon DEF ParamsEdited
  <1>12. /\ GestureShapes' /\ UnderWay' /\ SeedsFirst' /\ ModeFollows'
         /\ doubts' = {} => doubts = {}
    BY <1>11, ParamsEditKeeps
  <1>13. PICK G : G = ActionCalls'
    OBVIOUS
  <1>14. /\ 1 \in 1 .. Len(ps) /\ 2 \in 1 .. Len(ps)
         /\ \A j \in 1 .. Len(ps) : (j > 1 => j = 2) /\ ~(j > 2)
    BY <1>7
  <1>15. Coming({"action"}, ActionCalls)'
    <2>1. \A c \in SetCalls \cup ProbeCalls : c.x = p => c \in G
      BY <1>6, <1>9, <1>13, Zenon DEF ActionCalls
    <2>2. \A j \in 1 .. Len(ps) : j > 1 => ps[j].kind \notin {"action"}
      BY <1>6, <1>7, <1>14
    <2>3. /\ Newest(Calls("set", ps), OfKind(SetCalls, {"action"}), G)
          /\ Newest(Calls("probe", ps), OfKind(ProbeCalls, {"action"}), G)
      BY <1>6, <1>7, <1>8, <1>14, <2>1, <2>2, KindsOfParams
    <2>4. Coming({"action"}, G)'
      BY <1>5, <1>11, <2>3, ComingEdited, Zenon
    <2> QED
      BY <1>13, <2>4 DEF Coming
  <1>16. PICK K : K = KeysCalls'
    OBVIOUS
  <1>17. Coming({"action", "keys"}, KeysCalls)'
    <2>1. \A c \in SetCalls \cup ProbeCalls : c.x = q => c \in K
      BY <1>6, <1>16 DEF KeysCalls
    <2>2. \A j \in 1 .. Len(ps) : ~(j > 2)
      BY <1>14
    <2>3. /\ Newest(Calls("set", ps), OfKind(SetCalls, {"action", "keys"}), K)
          /\ Newest(Calls("probe", ps), OfKind(ProbeCalls, {"action", "keys"}), K)
      BY <1>6, <1>7, <1>8, <1>14, <2>1, <2>2, KindsOfParams
    <2>4. Coming({"action", "keys"}, K)'
      BY <1>5, <1>11, <2>3, ComingEdited, Zenon
    <2> QED
      BY <1>16, <2>4 DEF Coming
  <1>18. PICK H : H = GrainCalls
    OBVIOUS
  <1>19. (Coming({"grain"}, H) => Coming({"grain"}, H)') /\ (Done({"grain"}) => Done({"grain"})')
    <2>1. \A i \in 1 .. Len(ps) : ps[i].kind \notin {"grain"}
      BY <1>6, <1>7, <1>10
    <2>2. /\ Absent(Calls("set", ps), OfKind(SetCalls, {"grain"}))
          /\ Absent(Calls("probe", ps), OfKind(ProbeCalls, {"grain"}))
      BY <1>8, <2>1, KindsOfParams
    <2> QED
      BY <1>5, <1>11, <2>2, ComingEdited, Zenon
  <1>20. ParamsFollow'
    <2> SUFFICES ASSUME doubts' = {} PROVE ParamsFollow'
      BY DEF ParamsFollow
    <2>1. doubts = {}
      BY <1>12
    <2>2. GrainCalls' = H
      BY <1>9, <1>18, Zenon DEF GrainCalls
    <2>3. Coming({"grain"}, H)' <=> Coming({"grain"}, GrainCalls)'
      BY <2>2 DEF Coming
    <2>4. "grain" \in own' => Coming({"grain"}, GrainCalls)' \/ (Done({"grain"})' /\ gesture'.grain = dir'.grain)
      BY <1>4, <1>5, <1>9, <1>18, <1>19, <2>1, <2>3, Zenon DEF ParamsFollow
    <2> QED
      BY <1>15, <1>17, <2>4 DEF ParamsFollow
  <1> QED
    BY <1>12, <1>20 DEF GestureInv

\* The constructor establishes the invariant.
LEMMA GestureStart ==
    ASSUME GestureInit
    PROVE  GestureInv
  <1>1. PICK c : c = Call("seed", 1)
    OBVIOUS
  <1>2. /\ pending = 0 /\ gestEdits = 0 /\ own = {} /\ doubts = {}
        /\ dir = [mode |-> "", grain |-> 0, action |-> ""]
        /\ chained = [id \in 1 .. MaxGestures |-> << >>]
    BY Zenon DEF GestureInit
  <1>3. /\ MaxGestures \in Nat /\ "" \notin ModeSet
        /\ 1 \in 1 .. Len(Modes)
    <2>1. Modes \in Seq(STRING) /\ Modes # << >>
      BY ModesAssumption, Zenon
    <2>2. 1 \in 1 .. Len(Modes)
      BY <2>1
    <2> QED
      BY <2>2, ModesAssumption, Zenon
  <1>4. c.op = "seed" /\ c.x = 1 /\ c \in SeedCalls /\ c \in GestureCalls
    BY <1>1, <1>3, Zenon DEF Call, SeedCalls, GestureCalls
  <1>5. gestCalls = <<c>> /\ gestMail = << >>
    BY <1>1, Zenon DEF GestureInit
  <1>6. /\ Len(gestCalls) = 1 /\ gestCalls[1] = c /\ Len(gestMail) = 0
        /\ \A i \in 1 .. Len(gestCalls) : gestCalls[i] = c
        /\ gestMail \in Seq(GestureReplies)
    BY <1>5
  <1>7. gestCalls \in Seq(GestureCalls)
    BY <1>4, <1>5
  <1>8. Len(CallsAnswered) = 0
    BY <1>6, CallsListed DEF CallsAnswered
  <1>9. GestureShapes
    <2>1. gesture \in [mode : ModeSet \cup {""}, grain : Grains \cup {0}, action : Actions, keys : BOOLEAN]
      <3>1. PICK m \in ModeSet \cup {""}, g \in Grains \cup {0} :
               gesture = [Fresh(m) EXCEPT !.grain = IF m \in {"", "None"} THEN 0 ELSE g]
        BY Zenon DEF GestureInit
      <3> QED
        BY <3>1, Zenon DEF Fresh, Actions
    <2>2. dir \in [mode : ModeSet \cup {""}, grain : Grains \cup {0}, action : Actions]
      BY <1>2, Zenon DEF Actions
    <2>3. chained \in [1 .. MaxGestures -> Seq(SetCalls)]
      <3>1. << >> \in Seq(SetCalls)
        OBVIOUS
      <3> QED
        BY <1>2, <3>1, Zenon
    <2>4. pending \in 0 .. MaxGestures /\ gestEdits \in 0 .. MaxGestures /\ pending <= gestEdits
      <3>1. pending = 0 /\ gestEdits = 0
        BY <1>2, Zenon
      <3>2. MaxGestures \in Nat
        BY <1>3, Zenon
      <3> QED
        BY <3>1, <3>2
    <2> QED
      BY <1>2, <1>6, <1>7, <2>1, <2>2, <2>3, <2>4, Zenon DEF GestureShapes
  <1>10. \A K : Absent(CallsAnswered, K) /\ (c \notin K => Absent(gestCalls, K))
    BY <1>6, <1>8 DEF Absent
  <1>11. c \notin ModeCalls
    BY <1>4, Sorts
  <1>12. UnderWay
    <2>1. c \notin Unsent
      BY <1>11 DEF Unsent
    <2>2. \A id \in 1 .. MaxGestures : chained[id] = << >>
      BY <1>2, Zenon
    <2> QED
      BY <1>2, <1>10, <1>11, <2>1, <2>2, Zenon DEF UnderWay
  <1>13. SeedsFirst
    <2>1. \A k \in 1 .. Len(Modes) : ~(k < c.x)
      BY <1>4
    <2>2. Seeds(gestCalls[1], TRUE, FALSE)
      BY <1>2, <1>4, <1>6, <2>1, Zenon DEF Seeds
    <2> QED
      BY <1>2, <1>6, <2>2, Zenon DEF SeedsFirst
  <1>14. Seeding
    BY <1>4, <1>6 DEF Seeding
  <1>15. ModeFollows /\ ParamsFollow
    BY <1>2, <1>14, Zenon DEF ModeFollows, Filled, ParamsFollow
  <1> QED
    BY <1>9, <1>12, <1>13, <1>15 DEF GestureInv

\* Every step keeps the invariant.
LEMMA GestureKept ==
    ASSUME GestureInv, [GestureNext]_gestureVars
    PROVE  GestureInv'
  <1>1. CASE \E k \in ModeSet : setMode(k)
    BY <1>1, ModeSetKeeps
  <1>2. CASE \E g \in Grains : setGranularity(g)
    BY <1>2, GrainSetKeeps
  <1>3. CASE setGestureAction
    BY <1>3, ActionSetKeeps
  <1>4. CASE setGestureKeypress
    BY <1>4, KeypressSetKeeps
  <1>5. CASE GestureAnswered
    BY <1>5, GestureAnswers
  <1>6. CASE GestureReplied
    BY <1>6, GestureHandles
  <1>7. CASE UNCHANGED gestureVars
    <2>1. /\ gesture' = gesture /\ gestCalls' = gestCalls /\ gestMail' = gestMail /\ dir' = dir
          /\ pending' = pending /\ chained' = chained /\ gestEdits' = gestEdits /\ own' = own /\ doubts' = doubts
      BY <1>7 DEF gestureVars
    <2>2. GestureShapes' = GestureShapes
      BY <2>1 DEF GestureShapes
    <2>3. CallsAnswered' = CallsAnswered /\ Awaited' = Awaited /\ Unsent' = Unsent /\ (Seeding' <=> Seeding)
      BY <2>1 DEF CallsAnswered, Awaited, SetGesture, Unsent, Seeding
    <2>4. UnderWay' = UnderWay
      BY <2>1, <2>3 DEF UnderWay
    <2>5. SeedsFirst' = SeedsFirst
      BY <2>1, <2>3, Zenon DEF SeedsFirst, Seeds
    <2>6. StrayProbe' = StrayProbe /\ StrayProbed' = StrayProbed /\ StrayMode' = StrayMode /\ StrayModed' = StrayModed
      BY <2>1, <2>3 DEF StrayProbe, StrayProbed, StrayMode, StrayModed
    <2>7. ModeFollows' = ModeFollows
      BY <2>1, <2>3, <2>6 DEF ModeFollows, Filled
    <2>8. GrainCalls' = GrainCalls /\ ActionCalls' = ActionCalls /\ KeysCalls' = KeysCalls
      BY <2>1 DEF GrainCalls, ActionCalls, KeysCalls
    <2>9. ParamsFollow' = ParamsFollow
      BY <2>1, <2>3, <2>8 DEF ParamsFollow, Coming, Done
    <2> QED
      BY <2>2, <2>4, <2>5, <2>7, <2>9 DEF GestureInv
  <1> QED
    BY <1>1, <1>2, <1>3, <1>4, <1>5, <1>6, <1>7 DEF GestureNext

\* Once every call is answered the panel shows what the daemon has.
LEMMA GestureShown ==
    ASSUME GestureInv
    PROVE  PanelIsGesture
  <1> SUFFICES ASSUME GestureQuiet PROVE PanelIsGesture
    BY DEF PanelIsGesture
  <1>1. GestureShapes /\ UnderWay /\ SeedsFirst /\ ModeFollows /\ ParamsFollow
    BY DEF GestureInv
  <1>2. gestCalls = << >> /\ gestMail = << >> /\ Len(gestCalls) = 0 /\ Len(gestMail) = 0
    BY DEF GestureQuiet
  <1>3. Len(CallsAnswered) = 0
    <2>1. gestMail \in Seq(GestureReplies)
      BY <1>1, Zenon DEF GestureShapes
    <2> QED
      BY <1>2, <2>1, CallsListed DEF CallsAnswered
  <1>4. /\ \A K : Absent(gestCalls, K) /\ Absent(CallsAnswered, K)
        /\ \A K, G : ~Newest(gestCalls, K, G) /\ ~Newest(CallsAnswered, K, G)
    BY <1>2, <1>3 DEF Absent, Newest
  <1>5. pending = 0
    BY <1>1, <1>4 DEF UnderWay
  <1>6. \A id \in 1 .. MaxGestures : chained[id] = << >>
    BY <1>1, <1>4 DEF UnderWay
  <1>7. DOMAIN chained = 1 .. MaxGestures
    BY <1>1, Zenon DEF GestureShapes
  <1>8. ~Seeding
    BY <1>2 DEF Seeding
  <1>9. doubts = {} => dir.mode = gesture.mode
    BY <1>1, <1>5, <1>8 DEF ModeFollows, Filled
  <1>10. \A kinds, G : ~Coming(kinds, G)
    BY <1>4, <1>5 DEF Coming
  <1>11. doubts = {} => /\ "grain" \in own => gesture.grain = dir.grain
                        /\ "action" \in own => gesture.action = dir.action
                        /\ "keys" \in own => gesture.keys = TRUE
    BY <1>1, <1>10 DEF ParamsFollow
  <1> QED
    BY <1>5, <1>6, <1>7, <1>9, <1>11 DEF PanelIsGesture

\* The panel of a direction, whatever edits overlap: once every call is answered
\* no parameter waits any more, and the panel shows the mode and the parameters
\* that the daemon has, with the exceptions named in PanelIsGesture.
THEOREM PanelShown == GestureSpec => []PanelIsGesture
  <1>1. GestureInit => GestureInv
    BY GestureStart
  <1>2. GestureInv /\ [GestureNext]_gestureVars => GestureInv'
    BY GestureKept
  <1>3. GestureInv => PanelIsGesture
    BY GestureShown
  <1> QED
    BY <1>1, <1>2, <1>3, PTL DEF GestureSpec

(* The client as a whole                                                    *)

\* A step of the client is one of each part or leaves that part alone.
LEMMA GuiParts ==
    [GuiNext]_guiAll => /\ [ConnNext]_connVars /\ [ControllerNext]_controllerVars
                        /\ [ProfileNext]_profileVars /\ [ButtonNext]_buttonVars
                        /\ [GestureNext]_gestureVars
  BY DEF GuiNext, guiAll, Only

\* The device page of the client, whatever happens in its other parts: once
\* every call is answered, the settings and the profiles shown are the
\* daemon's, with the exceptions named in the two parts.
THEOREM PageShown == GuiSpec => []PageIsDaemons
  <1>1. GuiInit => ControllerInit /\ ProfileInit
    BY Zenon DEF GuiInit
  <1>2. GuiSpec => ControllerSpec /\ ProfileSpec
    BY <1>1, GuiParts, PTL DEF GuiSpec, ControllerSpec, ProfileSpec
  <1>3. ValuesAreDaemons /\ ProfilesAreDaemons => PageIsDaemons
    BY DEF PageIsDaemons
  <1> QED
    BY <1>2, <1>3, ValuesShown, ProfilesShown, PTL

\* The editors of the device page, whatever happens in its other parts: once
\* every call is answered, the row of a button and the panel of a direction
\* show what the daemon has bound, with the exceptions named in the two parts.
THEOREM EditorsShown == GuiSpec => []EditorsTellTruth
  <1>1. GuiInit => ButtonInit /\ GestureInit
    BY Zenon DEF GuiInit
  <1>2. GuiSpec => ButtonSpec /\ GestureSpec
    BY <1>1, GuiParts, PTL DEF GuiSpec, ButtonSpec, GestureSpec
  <1>3. RowIsBinding /\ PanelIsGesture => EditorsTellTruth
    BY DEF EditorsTellTruth
  <1> QED
    BY <1>2, <1>3, RowShown, PanelShown, PTL
=============================================================================
