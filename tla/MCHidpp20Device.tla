--------------------------- MODULE MCHidpp20Device ---------------------------
(***************************************************************************)
(* Instances of Hidpp20Device for TLC. The slots and the ErrorID are those *)
(* of the code: features 1 and 17 share slot 1, and slot 15 is the one     *)
(* every error report is looked up in.                                     *)
(***************************************************************************)
EXTENDS Hidpp20Device

CONSTANTS t1, t2, t3

MCFeatures  == {1, 2, 15, 17}

\* t1 and t2 compete for slot 1; t3 has a slot of its own and slot 15.
SharedSlots == [c \in Callers |-> IF c = t1 THEN {1} ELSE IF c = t2 THEN {17} ELSE {2, 15}]
=============================================================================
