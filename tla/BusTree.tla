------------------------------- MODULE BusTree -------------------------------
(***************************************************************************)
(* The tree of ipcgull's nodes under "devices" (ipcgull/src/node.cpp) and  *)
(* the registry of the server (server_gdbus.cpp), which maps the path of a *)
(* node to its interfaces on the bus.                                      *)
(*                                                                         *)
(* A device puts itself on the bus piece by piece while it is constructed: *)
(* its node, the node "buttons", a node for every button with the button's *)
(* action and interface. It goes piece by piece as well, in the order of   *)
(* the members of Device, RemapButton and Button: its node and its         *)
(* nickname go before the features and the nodes below. Devices come and   *)
(* go on several workers; calls are dispatched by the main loop, which     *)
(* holds the server lock and references to a node and to an interface      *)
(* until the method returns. When the last reference to a node goes, no    *)
(* node below it finds it any more; its destructor runs after that, on the *)
(* thread that had the reference, once it gets the lock of the hierarchy.  *)
(***************************************************************************)
EXTENDS Naturals, Sequences
SeqExt == INSTANCE SequencesExt

CONSTANTS BusDevices, \* the devices constructed in a behaviour: 1 .. n
          Numbers     \* bound: the decimal forms of nicknames, the least first

ASSUME BusDevicesAssumption == BusDevices \subseteq Nat \ {0}
ASSUME NumbersAssumption    == Len(Numbers) > 0

\* The nodes of a device: its own, "buttons" and that of a button.
Root  == <<0, "devices">>
BusNodes == BusDevices \X {"dev", "buttons", "button"}

\* The node an interface is put on.
Owner(d, i) == <<d, IF i \in {"Device", "Buttons"} THEN "dev" ELSE "button">>

VARIABLES
    way,      \* [BusDevices -> {"none", "up", "live", "down", "gone"}]
    left,     \* [BusDevices -> Seq]: what is still to be made, or to be dropped
    nickname,     \* [BusDevices]: the nickname a device holds, "" for none
    alive,    \* the nodes that somebody refers to
    dying,    \* the nodes that nobody does, and whose destructor has not run
    parent,   \* [BusNodes -> BusNodes \cup {Root}]: _parent
    name,     \* [BusNodes -> Seq(STRING)]: _name, split at its slashes
    ifaces,   \* [BusNodes -> set of interfaces]: _interfaces
    children, \* [BusNodes \cup {Root} -> Seq(BusNodes)]: _children
    place,    \* [BusNodes -> BusNodes]: the entry _parent_it refers to, Root for none
    seen,     \* [BusDevices]: the list under "devices" when a make_child began
    registry, \* the server's nodes: path -> [object, ifaces]
    shown,    \* [BusDevices]: the path object_path_lookup gives a device
    dropping, \* [BusDevices]: the path whose interface a device is taking off the
              \* bus, or << >>
    call,     \* the call that is dispatched, or NoCall
    clashed,  \* history: devices that met an interface or a path of another one
    severed,  \* history: devices of which two nodes, one above the other, were
              \* dying at once, and the server or a list missed one for it
    raced     \* history: two threads wrote the list under "devices" at once

nodeVars == <<alive, dying, parent, name, children, place>>
busVars == <<way, left, nickname, nodeVars, ifaces, seen, registry, shown, dropping, call,
             clashed, severed, raced>>

NoCall == [node |-> Root, iface |-> "none", known |-> FALSE, lastIface |-> FALSE, lastNode |-> FALSE]

BusInit ==
    /\ way = [d \in BusDevices |-> "none"] /\ left = [d \in BusDevices |-> <<>>]
    /\ nickname = [d \in BusDevices |-> ""]
    /\ alive = {} /\ dying = {}
    /\ parent = [n \in BusNodes |-> Root] /\ name = [n \in BusNodes |-> <<>>]
    /\ ifaces = [n \in BusNodes |-> {}]
    /\ children = [n \in BusNodes \cup {Root} |-> <<>>] /\ place = [n \in BusNodes |-> Root]
    /\ seen = [d \in BusDevices |-> <<>>]
    /\ registry = <<>> /\ shown = [d \in BusDevices |-> <<>>]
    /\ dropping = [d \in BusDevices |-> <<>>] /\ call = NoCall
    /\ clashed = {} /\ severed = {} /\ raced = FALSE

\* The way to a node from below "devices", as far as the nodes above are there.
PathAmong(there, n) ==
    LET from[m \in BusNodes \cup {Root}] ==
            IF m = Root THEN <<>>
            ELSE (IF parent[m] \in there \cup {Root} THEN from[parent[m]] ELSE <<"..">>)
                 \o name[m]
    IN  from[n]

\* tree_name: a node that is dying is not found.
Path(n) == PathAmong(alive, n)

\* A node that does not find one above it; one that leaves a dying one behind.
Astray(n)  == Head(Path(n)) = ".."
Leaving(n) == \E m \in dying : parent[m] = n
Severing(n, missed) == severed' = IF missed THEN severed \cup {n[1]} ELSE severed

\* The dispatcher holds the server lock.
ServerFree == call = NoCall

-----------------------------------------------------------------------------
(* Construction and destruction, in the order of the code                   *)

\* The constructor of Device with RemapButton's and Button's in it, then
\* Device::make and the announcement by the device manager.
Construction ==
    <<"nick", "read", "link", "dev", "buttons", "button", "Action", "Button", "Buttons",
      "configure", "show", "Device", "announce">>

\* The members of a device, the last one first.
Features    == <<"Buttons", "buttons", "Button", "Action", "button">>
Destruction == <<"announce", "Device", "dev", "nick">> \o Features

\* What is destroyed when the constructor throws at some point.
Unwinding(at) ==
    CASE at = "buttons"   -> <<"dev", "nick">>
      [] at = "button"    -> <<"buttons", "dev", "nick">>
      [] at = "Button"    -> <<"Action", "button", "buttons", "dev", "nick">>
      [] at = "configure" -> <<"dev", "nick">> \o Features

Throw(d) ==
    /\ way' = [way EXCEPT ![d] = "down"]
    /\ left' = [left EXCEPT ![d] = Unwinding(Head(@))]

\* The device has done the next thing on its way.
Advance(d) ==
    /\ left' = [left EXCEPT ![d] = Tail(@)]
    /\ way' = [way EXCEPT ![d] =
                  IF Len(left[d]) > 1 THEN @ ELSE IF @ = "up" THEN "live" ELSE "gone"]

Up(d, step)   == way[d] = "up" /\ Head(left[d]) = step
Down(d, step) == way[d] = "down" /\ Head(left[d]) = step

begin(d) ==
    /\ way[d] = "none"
    /\ way' = [way EXCEPT ![d] = "up"]
    /\ left' = [left EXCEPT ![d] = Construction]
    /\ UNCHANGED <<nickname, nodeVars, ifaces, seen, registry, shown, dropping, call, clashed,
                   severed, raced>>

\* A transfer fails, or a feature finds that it cannot be made.
fail(d) ==
    /\ way[d] = "up" /\ Head(left[d]) \in {"buttons", "button", "configure"}
    /\ Throw(d)
    /\ UNCHANGED <<nickname, nodeVars, ifaces, seen, registry, shown, dropping, call, clashed,
                   severed, raced>>

\* Every feature is configured.
configure(d) ==
    /\ Up(d, "configure")
    /\ Advance(d)
    /\ UNCHANGED <<nickname, nodeVars, ifaces, seen, registry, shown, dropping, call, clashed,
                   severed, raced>>

remove(d) ==
    /\ way[d] = "live"
    /\ way' = [way EXCEPT ![d] = "down"]
    /\ left' = [left EXCEPT ![d] = Destruction]
    /\ UNCHANGED <<nickname, nodeVars, ifaces, seen, registry, shown, dropping, call, clashed,
                   severed, raced>>

\* newDeviceNickname: the least number that nobody holds.
newDeviceNickname(d) ==
    /\ Up(d, "nick")
    /\ LET free == {k \in DOMAIN Numbers : \A e \in BusDevices : nickname[e] # Numbers[k]}
       IN  \E k \in free :
              /\ \A j \in free : k <= j
              /\ nickname' = [nickname EXCEPT ![d] = Numbers[k]]
    /\ Advance(d)
    /\ UNCHANGED <<nodeVars, ifaces, seen, registry, shown, dropping, call, clashed, severed,
                   raced>>

dropNickname(d) ==
    /\ Down(d, "nick")
    /\ nickname' = [nickname EXCEPT ![d] = ""]
    /\ Advance(d)
    /\ UNCHANGED <<nodeVars, ifaces, seen, registry, shown, dropping, call, clashed, severed,
                   raced>>

\* Mutant: the signal is emitted without the server lock.
announceUnlocked(d) ==
    /\ Up(d, "announce") \/ Down(d, "announce")
    /\ Advance(d)
    /\ UNCHANGED <<nickname, nodeVars, ifaces, seen, registry, shown, dropping, call, clashed,
                   severed, raced>>

\* The signals DeviceAdded and DeviceRemoved.
announce(d) ==
    /\ Up(d, "announce") \/ Down(d, "announce")
    /\ ServerFree
    /\ Advance(d)
    /\ UNCHANGED <<nickname, nodeVars, ifaces, seen, registry, shown, dropping, call, clashed,
                   severed, raced>>

-----------------------------------------------------------------------------
(* Nodes                                                                       *)

\* Device d is in the middle of make_child on the list under "devices".
Linking(d) == way[d] = "up" /\ Head(left[d]) \in {"link", "dev"}

InMakeChild(d) == \E e \in BusDevices \ {d} : Linking(e)

\* make_child on "devices" takes no lock: push_front reads the list ...
makeChildReads(d) ==
    /\ Up(d, "read")
    /\ seen' = [seen EXCEPT ![d] = children[Root]]
    /\ alive' = alive \cup {<<d, "dev">>}
    /\ name' = [name EXCEPT ![<<d, "dev">>] = <<nickname[d]>>]
    /\ raced' = (raced \/ InMakeChild(d))
    /\ Advance(d)
    /\ UNCHANGED <<nickname, dying, parent, ifaces, children, place, registry, shown, dropping,
                   call, clashed, severed>>

\* ... and links the node in front of what it has read, ...
makeChildLinks(d) ==
    /\ Up(d, "link")
    /\ children' = [children EXCEPT ![Root] = <<<<d, "dev">>>> \o seen[d]]
    /\ seen' = [seen EXCEPT ![d] = <<>>]
    /\ raced' = (raced \/ InMakeChild(d))
    /\ Advance(d)
    /\ UNCHANGED <<nickname, alive, dying, parent, name, ifaces, place, registry, shown, dropping,
                   call, clashed, severed>>

\* ... and the node remembers the first entry as its own.
makeChildReturns(d) ==
    /\ Up(d, "dev")
    /\ place' = [place EXCEPT ![<<d, "dev">>] =
                    IF children[Root] = <<>> THEN Root ELSE Head(children[Root])]
    /\ Advance(d)
    /\ UNCHANGED <<nickname, alive, dying, parent, name, ifaces, children, seen, registry, shown,
                   dropping, call, clashed, severed, raced>>

\* make_child on a node that only the device's own thread uses.
makeChild(d, level, above, label) ==
    LET n == <<d, level>>
        p == <<d, above>>
    IN  /\ Up(d, level)
        /\ alive' = alive \cup {n}
        /\ parent' = [parent EXCEPT ![n] = p]
        /\ name' = [name EXCEPT ![n] = <<label>>]
        /\ children' = [children EXCEPT ![p] = <<n>> \o @]
        /\ place' = [place EXCEPT ![n] = n]
        /\ Advance(d)
        /\ UNCHANGED <<nickname, dying, ifaces, seen, registry, shown, dropping, call, clashed,
                       severed, raced>>

\* server::drop_interface, for the interfaces is of a path.
Unregistered(reg, path, is) ==
    IF path \notin DOMAIN reg THEN reg
    ELSE [p \in {q \in DOMAIN reg : q # path \/ ~(reg[q].ifaces \subseteq is)} |->
             IF p = path THEN [reg[p] EXCEPT !.ifaces = @ \ is] ELSE reg[p]]

\* _children.erase(_parent_it).
Erased(list, entry) == SeqExt!RemoveFirst(list, entry)

\* ~node: the node leaves its parent and the server, and the nodes below it
\* move to the parent, with the lost part of the path in their names. A parent
\* that is dying or dead is not found: nothing of its list is changed then.
Destroyed(n) ==
    LET up       == parent[n]
        moved    == SelectSeq(SeqExt!Reverse(children[n]), LAMBDA m : m \in alive)
        Moved(m) == \E k \in DOMAIN moved : moved[k] = m
        found    == up \in alive \cup {Root}
    IN  /\ dying' = dying \ {n}
        /\ registry' = Unregistered(registry, Path(n), ifaces[n])
        /\ ifaces' = [ifaces EXCEPT ![n] = {}]
        /\ children' = IF found THEN [children EXCEPT ![n] = <<>>,
                                           ![up] = moved \o Erased(@, place[n])]
                       ELSE [children EXCEPT ![n] = <<>>]
        /\ name' = [m \in BusNodes |-> IF m = n THEN <<>> ELSE IF Moved(m) THEN name[n] \o name[m] ELSE name[m]]
        /\ parent' = [m \in BusNodes |-> IF m = n THEN Root ELSE IF Moved(m) THEN up ELSE parent[m]]
        /\ place' = [m \in BusNodes |-> IF m = n THEN Root ELSE IF Moved(m) /\ found THEN m ELSE place[m]]
        /\ raced' = (raced \/ (up = Root /\ InMakeChild(n[1])))
        /\ Severing(n, Astray(n) \/ Leaving(n))
        /\ UNCHANGED alive

\* The last reference to a node goes.
Expires(n) == alive' = alive \ {n} /\ dying' = dying \cup {n}
              /\ UNCHANGED <<parent, name, children, place>>

\* The device gives its reference up. The dispatcher may hold another one.
dropNode(d, level) ==
    LET n == <<d, level>>
    IN  /\ Down(d, level) /\ n \in alive
        /\ IF call.node = n
           THEN /\ call' = [call EXCEPT !.lastNode = TRUE] /\ Advance(d)
                /\ UNCHANGED nodeVars
           ELSE Expires(n) /\ UNCHANGED <<way, left, call>>
        /\ UNCHANGED <<nickname, ifaces, seen, registry, shown, dropping, clashed, severed, raced>>

destroyNode(d, level) ==
    LET n == <<d, level>>
    IN  /\ Down(d, level) /\ n \in dying
        /\ ifaces[n] # {} => ServerFree
        /\ Destroyed(n)
        /\ Advance(d)
        /\ UNCHANGED <<nickname, seen, shown, dropping, call, clashed>>

-----------------------------------------------------------------------------
(* Interfaces and the server                                                *)

\* make_interface. The server refuses an interface that the path has already:
\* a button then goes without its action, or is not made at all.
makeInterface(d, i) ==
    LET n     == Owner(d, i)
        path  == Path(n)
        taken == path \in DOMAIN registry
    IN  /\ Up(d, i)
        /\ ServerFree
        /\ clashed' = IF taken /\ registry[path].object # n THEN clashed \cup {d} ELSE clashed
        /\ IF taken /\ i \in registry[path].ifaces
           THEN /\ IF i = "Action" THEN Advance(d) ELSE Throw(d)
                /\ UNCHANGED <<ifaces, registry>>
           ELSE /\ registry' = [p \in DOMAIN registry \cup {path} |->
                      IF p # path THEN registry[p]
                      ELSE IF taken THEN [registry[p] EXCEPT !.ifaces = @ \cup {i}]
                      ELSE [object |-> n, ifaces |-> {i}]]
                /\ ifaces' = [ifaces EXCEPT ![n] = @ \cup {i}]
                /\ Advance(d)
        /\ UNCHANGED <<nickname, nodeVars, seen, shown, dropping, call, severed, raced>>

\* ~interface, unless the dispatcher holds another reference. It finds the
\* path first. Nothing is left to do if the node is gone, or about to go.
leaveInterface(d, i) ==
    LET n == Owner(d, i)
    IN  /\ Down(d, i) /\ dropping[d] = <<>>
        /\ IF call.node = n /\ call.iface = i
           THEN call' = [call EXCEPT !.lastIface = TRUE] /\ Advance(d)
                /\ UNCHANGED <<dropping, severed>>
           ELSE IF n \in alive /\ i \in ifaces[n]
           THEN dropping' = [dropping EXCEPT ![d] = Path(n)] /\ Severing(n, Astray(n))
                /\ UNCHANGED <<way, left, call>>
           ELSE Advance(d) /\ UNCHANGED <<dropping, severed, call>>
        /\ UNCHANGED <<nickname, nodeVars, ifaces, seen, registry, shown, clashed, raced>>

\* Mutant: the interface stays with the server.
dropInterfaceKeeps(d, i) ==
    LET n == Owner(d, i)
    IN  /\ Down(d, i) /\ dropping[d] # <<>> /\ ServerFree
        /\ ifaces' = [ifaces EXCEPT ![n] = @ \ {i}]
        /\ dropping' = [dropping EXCEPT ![d] = <<>>]
        /\ Advance(d)
        /\ UNCHANGED <<nickname, nodeVars, seen, registry, shown, call, clashed, severed, raced>>

\* Then it waits for the server.
dropInterface(d, i) ==
    LET n == Owner(d, i)
    IN  /\ Down(d, i) /\ dropping[d] # <<>> /\ ServerFree
        /\ ifaces' = [ifaces EXCEPT ![n] = @ \ {i}]
        /\ registry' = Unregistered(registry, dropping[d], {i})
        /\ dropping' = [dropping EXCEPT ![d] = <<>>]
        /\ Advance(d)
        /\ UNCHANGED <<nickname, nodeVars, seen, shown, call, clashed, severed, raced>>

\* node::manage: what methods return as the device is its path.
manage(d) ==
    /\ Up(d, "show")
    /\ ServerFree
    /\ shown' = [shown EXCEPT ![d] = Path(<<d, "dev">>)]
    /\ Advance(d)
    /\ UNCHANGED <<nickname, nodeVars, ifaces, seen, registry, dropping, call, clashed,
                   severed, raced>>

\* The bus has been told that the device is there, and not yet that it is gone.
Announced(d) == way[d] = "live" \/ Down(d, "announce")

\* A call finds the node of its path, and there the interface. Any other is
\* answered with an error.
Expired(n, i) == dropping[n[1]] # <<>> /\ Down(n[1], i) /\ Owner(n[1], i) = n
dispatch(path, i) ==
    LET n == registry[path].object
    IN  /\ ServerFree
        /\ n \in alive /\ i \in ifaces[n] /\ ~Expired(n, i)
        /\ call' = [NoCall EXCEPT !.node = n, !.iface = i, !.known = Announced(n[1])]
        /\ UNCHANGED <<way, left, nickname, nodeVars, ifaces, seen, registry, shown, dropping,
                       clashed, severed, raced>>

\* The method has returned: the reference to the interface goes, ...
returnInterface ==
    LET n    == call.node
        last == IF call.lastIface THEN {call.iface} ELSE {}
    IN  /\ call # NoCall /\ call.iface # "none"
        /\ call' = [call EXCEPT !.iface = "none", !.lastIface = FALSE]
        /\ registry' = Unregistered(registry, Path(n), last)
        /\ ifaces' = [ifaces EXCEPT ![n] = @ \ last]
        /\ Severing(n, last # {} /\ Astray(n))
        /\ UNCHANGED <<way, left, nickname, nodeVars, seen, shown, dropping, clashed, raced>>

\* ... then that to the node. An interface of it that its device is taking off
\* the bus still refers to it: the device has the last reference again.
Refers(d, n) == dropping[d] # <<>> /\ Owner(d, Head(left[d])) = n
returnNode ==
    LET n == call.node
        d == n[1]
    IN  /\ call # NoCall /\ call.iface = "none" /\ n \in alive
        /\ IF ~call.lastNode THEN call' = NoCall /\ UNCHANGED <<left, nodeVars>>
           ELSE IF Refers(d, n)
           THEN call' = NoCall /\ UNCHANGED nodeVars
                /\ left' = [left EXCEPT ![d] = <<Head(@), n[2]>> \o Tail(@)]
           ELSE Expires(n) /\ UNCHANGED <<left, call>>
        /\ UNCHANGED <<way, nickname, ifaces, seen, registry, shown, dropping, clashed, severed,
                       raced>>

\* ... and it may be the dispatcher that destroys the node.
returnDestroys ==
    /\ call # NoCall /\ call.node \in dying
    /\ Destroyed(call.node)
    /\ call' = NoCall
    /\ UNCHANGED <<way, left, nickname, seen, shown, dropping, clashed>>

Interfaces == {"Device", "Buttons", "Button", "Action"}

BusNext ==
    \/ \E d \in BusDevices :
          \/ begin(d) \/ fail(d) \/ configure(d) \/ remove(d) \/ announce(d) \/ manage(d)
          \/ newDeviceNickname(d) \/ dropNickname(d)
          \/ makeChildReads(d) \/ makeChildLinks(d) \/ makeChildReturns(d)
          \/ makeChild(d, "buttons", "dev", "buttons") \/ makeChild(d, "button", "buttons", "0")
          \/ \E level \in {"dev", "buttons", "button"} : dropNode(d, level) \/ destroyNode(d, level)
          \/ \E i \in Interfaces : makeInterface(d, i) \/ leaveInterface(d, i) \/ dropInterface(d, i)
    \/ \E path \in DOMAIN registry, i \in Interfaces : dispatch(path, i)
    \/ returnInterface \/ returnNode \/ returnDestroys

BusSpec == BusInit /\ [][BusNext]_busVars

-----------------------------------------------------------------------------
\* The path of a node, that of one above it still in it while that one is dying.
PlaceOf(n) == PathAmong(alive \cup dying, n)

\* What is on the bus belongs to a node that exists, at its path; unless it was
\* left by a device with a node that did not find its path.
Astraying(p) == registry[p].object[1] \in severed \/ severed \cap clashed # {}
NothingStays ==
    \A p \in DOMAIN registry :
        /\ registry[p].ifaces # {}
        /\ Astraying(p) \/ \A i \in registry[p].ifaces :
               \E n \in alive \cup dying : i \in ifaces[n] /\ PlaceOf(n) = p

\* A node that has interfaces is found at its path with all of them.
Found(n) ==
    /\ PlaceOf(n) \in DOMAIN registry
    /\ registry[PlaceOf(n)].object = n
    /\ ifaces[n] \subseteq registry[PlaceOf(n)].ifaces

(***************************************************************************)
(* The lists of children hold the nodes that exist, once each, and a node  *)
(* knows its own entry, so that ~node erases the right one; unless a       *)
(* make_child, which takes no lock, overlapped with another change of the  *)
(* list, or the nodes of a device died together.                           *)
(***************************************************************************)
ChildrenAreListed ==
    ~raced =>
        \A n \in alive :
            Linking(n[1]) \/ n[1] \in severed \/
            /\ place[n] = n
            /\ LET list == children[parent[n]]
               IN  /\ \E k \in DOMAIN list : \A j \in DOMAIN list : list[j] = n <=> j = k
                   /\ \A k \in DOMAIN list : list[k] \in alive \cup dying

(***************************************************************************)
(* Whatever devices come and go at the same time, and although their nodes *)
(* are destroyed above before below: the bus shows what exists, at the     *)
(* path it was made at, and nothing else. A device escapes this only if it *)
(* met the buttons of an earlier one whose nickname it got, or if a node   *)
(* of it and the one above, which the dispatcher referred to last, died at *)
(* the same time. And the lists that introspection and ~node walk hold the *)
(* same tree.                                                              *)
(***************************************************************************)
BusShowsTree ==
    /\ NothingStays
    /\ \A n \in alive : ifaces[n] # {} /\ n[1] \notin clashed \cup severed => Found(n)
    /\ \A d \in BusDevices : way[d] = "live" => shown[d] = Path(<<d, "dev">>)
    /\ ChildrenAreListed

(***************************************************************************)
(* A call on a device of which the client has been told, and not that it   *)
(* was removed, does not run on an object that is being destroyed.         *)
(***************************************************************************)
KnownDevicesAnswer == call.known => Announced(call.node[1])

=============================================================================
