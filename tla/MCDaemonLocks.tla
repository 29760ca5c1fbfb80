---------------------------- MODULE MCDaemonLocks ----------------------------
(* Instances of DaemonLocks for TLC: the dispatcher, the I/O thread and two *)
(* workers.                                                                 *)
EXTENDS DaemonLocks

CONSTANTS w1, w2

=============================================================================
