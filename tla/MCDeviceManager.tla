--------------------------- MODULE MCDeviceManager ---------------------------
(***************************************************************************)
(* Devices come and go: in the maps and the nicknames of the device        *)
(* manager, and on the bus. DeviceManager and BusTree share no state: a    *)
(* behaviour exercises one. The manager has the nodes p1 and p2, with one  *)
(* device plugged in and two made, or p1 alone, with two and three.        *)
(***************************************************************************)
EXTENDS DeviceManager, BusTree

CONSTANTS p1, p2, w1

VARIABLE focus

MCNumbers == <<"0", "1">>

comingVars == <<focus, vars, busVars>>

ComingInit ==
    /\ focus \in {"two nodes", "one node", "bus"} /\ Init /\ BusInit
    /\ focus = "one node" => plugged[p2] = None
    /\ focus = "bus" => \A p \in Paths : plugged[p] = None

ComingNext ==
    \/ focus = "two nodes" /\ Next /\ plugs' <= 1 /\ made' <= 2 /\ UNCHANGED <<focus, busVars>>
    \/ focus = "one node" /\ Next /\ plugged'[p2] = None /\ UNCHANGED <<focus, busVars>>
    \/ focus = "bus" /\ BusNext /\ UNCHANGED <<focus, vars>>

ComingSpec == ComingInit /\ [][ComingNext]_comingVars

=============================================================================
