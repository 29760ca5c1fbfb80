---------------------------- MODULE MCLogidDevice ----------------------------
(* Instances of LogidDevice for TLC: two workers and the features battery,  *)
(* status, f1 and f2, in the order of a device's map.                       *)
EXTENDS LogidDevice

CONSTANTS w1, w2, f1, f2, v1

FeatureMap == <<Battery, Status, f1, f2>>

ConfigFile == [f \in {f1, f2} |-> IF f = f1 THEN v1 ELSE Unset]
=============================================================================
