---------------------------- MODULE DeviceManager ----------------------------
(***************************************************************************)
(* Hotplug: udev events become tasks that add or remove a device node      *)
(* (backend/raw/DeviceMonitor.cpp); adding probes the node and makes a     *)
(* receiver or a device with a nickname of its own (DeviceManager.cpp).    *)
(* The tasks of one path run on different workers and nothing orders them; *)
(* a node that is not ready is tried again later; at start the main thread *)
(* enumerates the nodes while udev events already arrive.                  *)
(***************************************************************************)
EXTENDS Naturals, FiniteSets

CONSTANTS Paths,       \* device nodes
          Workers,     \* worker threads
          Main,        \* the main thread
          MaxTries,    \* max_tries
          MaxPlugs,    \* bound: times a node is plugged in
          MaxObjects,  \* bound: receivers and devices made
          None         \* no job, nothing plugged in

ASSUME BoundsAssumption == MaxTries \in Nat /\ MaxPlugs \in Nat /\ MaxObjects \in Nat
ASSUME MainAssumption   == Main \notin Workers

Threads == Workers \cup {Main}
Kinds   == {"receiver", "device", "corded"}
Jobs    == [kind : {"add", "remove"}, path : Paths, tries : 0 .. MaxTries, id : 0 .. MaxPlugs]

ASSUME NoneAssumption == None \notin Jobs \cup Kinds

VARIABLES plugged,    \* what is plugged in at a node, or None
          plugs,      \* number of times a node was plugged in
          scan,       \* nodes the main thread has still to enumerate
          enumerated, \* enumerate() was called
          queue,      \* tasks that are queued, or that wait for their backoff
          job,        \* the job a thread runs
          pc,         \* how far it has come: "idle", "run", "make", "init"
          kind,       \* what the probe found
          obj,        \* the object a thread makes, 0 for none
          made,       \* number of objects made so far
          nick,       \* nickname of every living object
          receivers,  \* _receivers: path -> object
          devices,    \* _devices: path -> object
          missed      \* history: paths of which a remove task missed an object,
                      \* still being made or a device behind a receiver

Nodes == {p \in Paths : plugged[p] # None}

vars == <<plugged, plugs, scan, enumerated, queue, job, pc, kind, obj, made, nick, receivers, devices, missed>>

\* The nicknames in use; receivers and devices have their own.
Used(of) == {nick[o].n : o \in {p \in DOMAIN nick : nick[p].of = of}}

TypeOK ==
    /\ plugged \in [Paths -> Kinds \cup {None}]
    /\ scan \subseteq Paths /\ missed \subseteq Paths
    /\ enumerated \in BOOLEAN
    /\ plugs \in 0 .. MaxPlugs /\ made \in 0 .. MaxObjects
    /\ queue \subseteq Jobs
    /\ job \in [Threads -> Jobs \cup {None}]
    /\ pc \in [Threads -> {"idle", "run", "make", "init"}]
    /\ kind \in [Threads -> Kinds]
    /\ obj \in [Threads -> 0 .. MaxObjects]
    /\ DOMAIN nick \subseteq 1 .. made
    /\ \A o \in DOMAIN nick : nick[o] \in [of : {"receiver", "device"}, n : 0 .. MaxObjects - 1]
    /\ receivers \in [Paths -> 0 .. MaxObjects] /\ devices \in [Paths -> 0 .. MaxObjects]

Init ==
    /\ plugged \in [Paths -> Kinds \cup {None}]
    /\ plugs = 0 /\ scan = {} /\ enumerated = FALSE
    /\ queue = {}
    /\ job = [t \in Threads |-> None] /\ pc = [t \in Threads |-> "idle"]
    /\ kind = [t \in Threads |-> "device"] /\ obj = [t \in Threads |-> 0]
    /\ made = 0 /\ nick = << >>
    /\ receivers = [p \in Paths |-> 0] /\ devices = [p \in Paths |-> 0]
    /\ missed = {}

objects == <<made, nick, receivers, devices>>

-----------------------------------------------------------------------------
(* DeviceMonitor                                                            *)

\* udev's events; ready() is called before anything is enumerated.
Plug(p) ==
    /\ p \notin Nodes /\ plugs < MaxPlugs
    /\ \E k \in Kinds : plugged' = [plugged EXCEPT ![p] = k]
    /\ plugs' = plugs + 1
    /\ queue' = queue \cup {[kind |-> "add", path |-> p, tries |-> 0, id |-> plugs + 1]}
    /\ UNCHANGED <<scan, enumerated, job, pc, kind, obj, objects, missed>>

\* Mutant: udev's remove events are ignored.
UnplugIgnored(p) ==
    /\ p \in Nodes
    /\ plugged' = [plugged EXCEPT ![p] = None]
    /\ UNCHANGED <<plugs, scan, enumerated, queue, job, pc, kind, obj, objects, missed>>

Unplug(p) ==
    /\ p \in Nodes
    /\ plugged' = [plugged EXCEPT ![p] = None]
    /\ queue' = queue \cup {[kind |-> "remove", path |-> p, tries |-> 0, id |-> plugs]}
    /\ UNCHANGED <<plugs, scan, enumerated, job, pc, kind, obj, objects, missed>>

\* enumerate: the list is read once and its nodes are added one by one.
Enumerate ==
    /\ ~enumerated
    /\ enumerated' = TRUE
    /\ scan' = Nodes
    /\ UNCHANGED <<plugged, plugs, queue, job, pc, kind, obj, objects, missed>>

Start(t, j) ==
    /\ pc[t] = "idle"
    /\ job' = [job EXCEPT ![t] = j]
    /\ pc' = [pc EXCEPT ![t] = "run"]
    /\ UNCHANGED <<plugged, plugs, enumerated, kind, obj, objects, missed>>

StartTask(w) == \E j \in queue : Start(w, j) /\ queue' = queue \ {j} /\ UNCHANGED scan

StartScan ==
    \E p \in scan :
        /\ Start(Main, [kind |-> "add", path |-> p, tries |-> 0, id |-> 0])
        /\ scan' = scan \ {p}
        /\ UNCHANGED queue

\* The job of a thread ends.
End(t) ==
    /\ job' = [job EXCEPT ![t] = None]
    /\ pc' = [pc EXCEPT ![t] = "idle"]
    /\ kind' = [kind EXCEPT ![t] = "device"]
    /\ obj' = [obj EXCEPT ![t] = 0]

\* DeviceNotReady: try again after a backoff, until max_tries.
Retry(j) ==
    IF j.tries = MaxTries THEN UNCHANGED queue
    ELSE queue' = queue \cup {[j EXCEPT !.tries = @ + 1]}

-----------------------------------------------------------------------------
(* DeviceManager::addDevice                                                 *)

Adding(t) == pc[t] = "run" /\ job[t].kind = "add"

\* Unsupported, ignored, a virtual node or an I/O error.
Skip(t) ==
    /\ Adding(t)
    /\ End(t)
    /\ UNCHANGED <<plugged, plugs, scan, enumerated, queue, objects, missed>>

\* The probe times out, or the device is asleep or busy.
NotReady(t) ==
    /\ Adding(t)
    /\ Retry(job[t])
    /\ End(t)
    /\ UNCHANGED <<plugged, plugs, scan, enumerated, objects, missed>>

\* The probe answers: the node is there.
Probe(t) ==
    /\ Adding(t)
    /\ job[t].path \in Nodes
    /\ kind' = [kind EXCEPT ![t] = plugged[job[t].path]]
    /\ pc' = [pc EXCEPT ![t] = "make"]
    /\ UNCHANGED <<plugged, plugs, scan, enumerated, queue, job, obj, objects, missed>>

Of(k) == IF k = "receiver" THEN "receiver" ELSE "device"

\* Mutant: the gap is taken for free at its lower end.
NewNicknameOffByOne(S, n) ==
    \/ 0 \notin S /\ n = 0
    \/ 0 \in S /\ n \in S /\ n + 1 \notin S

\* newDeviceNickname, newReceiverNickname: 0 when it is free, else the number
\* after the first one that has no successor in the ordered set.
NewNickname(S, n) ==
    \/ 0 \notin S /\ n = 0
    \/ /\ 0 \in S
       /\ n > 0 /\ n - 1 \in S /\ n \notin S
       /\ \A m \in S : m < n - 1 => m + 1 \in S

\* The object is constructed; its constructor takes a nickname.
Make(t) ==
    /\ pc[t] = "make"
    /\ made < MaxObjects
    /\ made' = made + 1
    /\ obj' = [obj EXCEPT ![t] = made + 1]
    /\ \E n \in 0 .. MaxObjects - 1 :
          /\ NewNickname(Used(Of(kind[t])), n)
          /\ nick' = [o \in DOMAIN nick \cup {made + 1} |->
                         IF o = made + 1 THEN [of |-> Of(kind[t]), n |-> n] ELSE nick[o]]
    /\ pc' = [pc EXCEPT ![t] = "init"]
    /\ UNCHANGED <<plugged, plugs, scan, enumerated, queue, job, kind, receivers, devices, missed>>

\* The destructors of the objects in S free their nicknames.
Destroy(S) == nick' = [o \in DOMAIN nick \ S |-> nick[o]]

\* The constructor throws, before or after the nickname is taken. Only the
\* corded device's exceptions are turned into DeviceNotReady.
MakeFails(t) ==
    /\ pc[t] \in {"make", "init"}
    /\ Destroy({obj[t]})
    /\ \/ UNCHANGED queue
       \/ kind[t] = "corded" /\ Retry(job[t])
    /\ End(t)
    /\ UNCHANGED <<plugged, plugs, scan, enumerated, made, receivers, devices, missed>>

\* With _map_lock held: emplace keeps an object that is already there, and the
\* new one dies at the end of the block.
Added(t) ==
    /\ pc[t] = "init"
    /\ LET p   == job[t].path
           map == IF kind[t] = "receiver" THEN receivers ELSE devices
       IN  IF map[p] = 0
           THEN /\ UNCHANGED nick
                /\ IF kind[t] = "receiver"
                   THEN receivers' = [receivers EXCEPT ![p] = obj[t]] /\ UNCHANGED devices
                   ELSE devices' = [devices EXCEPT ![p] = obj[t]] /\ UNCHANGED receivers
           ELSE Destroy({obj[t]}) /\ UNCHANGED <<receivers, devices>>
    /\ End(t)
    /\ UNCHANGED <<plugged, plugs, scan, enumerated, queue, made, missed>>

\* removeDevice: the receiver on the path, else the device.
RemoveDevice(t) ==
    /\ pc[t] = "run" /\ job[t].kind = "remove"
    /\ LET p == job[t].path
       IN  /\ IF receivers[p] # 0
              THEN /\ Destroy({receivers[p]})
                   /\ receivers' = [receivers EXCEPT ![p] = 0]
                   /\ UNCHANGED devices
              ELSE /\ Destroy({devices[p]})
                   /\ devices' = [devices EXCEPT ![p] = 0]
                   /\ UNCHANGED receivers
           /\ missed' = IF \/ \E u \in Threads : pc[u] \in {"make", "init"} /\ job[u].path = p
                           \/ receivers[p] # 0 /\ devices[p] # 0
                        THEN missed \cup {p} ELSE missed
    /\ End(t)
    /\ UNCHANGED <<plugged, plugs, scan, enumerated, queue, made>>

Step(t) == Skip(t) \/ NotReady(t) \/ Probe(t) \/ Make(t) \/ MakeFails(t) \/ Added(t) \/ RemoveDevice(t)

Next ==
    \/ \E p \in Paths : Plug(p) \/ Unplug(p)
    \/ Enumerate
    \/ \E w \in Workers : StartTask(w)
    \/ StartScan
    \/ \E t \in Threads : Step(t)

Spec == Init /\ [][Next]_vars

-----------------------------------------------------------------------------
\* The objects of the maps, and those being made.
Mapped == ({receivers[p] : p \in Paths} \cup {devices[p] : p \in Paths}) \ {0}
Making == {obj[t] : t \in Threads} \ {0}

(***************************************************************************)
(* Two living devices, or two living receivers, never share a nickname: it *)
(* is their D-Bus object path. Nicknames are given back: those in use are  *)
(* the nicknames of objects in the maps or in the making, also after       *)
(* failed and repeated adds.                                               *)
(***************************************************************************)
NicknamesFollowDevices ==
    /\ \A o, p \in DOMAIN nick : nick[o] = nick[p] => o = p
    /\ DOMAIN nick = Mapped \cup Making

Quiet == enumerated /\ scan = {} /\ queue = {} /\ \A t \in Threads : pc[t] = "idle"
Listed(p) == receivers[p] # 0 \/ devices[p] # 0

(***************************************************************************)
(* When all tasks are done a path is listed without its node only if its   *)
(* remove task ran while a probed object of the path was being made.       *)
(***************************************************************************)
GhostOnlyIfMissed == Quiet => \A p \in Paths : Listed(p) => p \in Nodes \cup missed
=============================================================================
