----------------------------- MODULE MCReceiver ------------------------------
(***************************************************************************)
(* The two things a receiver does, which share no state of the daemon: it  *)
(* lists its devices, and it pairs new ones. A behaviour exercises one.    *)
(*                                                                         *)
(* One device is listed: each has tasks, a waiter and a list entry of its  *)
(* own, and only the lock is shared between two devices.                   *)
(***************************************************************************)
EXTENDS ReceiverMonitor, ReceiverPairing
CONSTANTS i1, w1, w2, d1, d2
VARIABLE focus

\* The name of one device fits in one report; that of the other takes two.
MCSeqNum == [d \in Near |-> IF d = d1 THEN 0 ELSE 1]
MCSize   == [d \in Near |-> IF d = d1 THEN 1 ELSE 3]

ReceiverTypeOK == TypeOK /\ PairTypeOK

receiverVars == <<focus, vars, pairVars>>

\* What is not in focus starts in one state.
ReceiverInit ==
    /\ focus \in {"list", "pairing"}
    /\ Init /\ PairInit
    /\ focus # "list" => \A i \in Indices : link[i] = "on"
    /\ focus # "pairing" => bolt

ReceiverNext ==
    \/ focus = "list" /\ Next /\ UNCHANGED <<focus, pairVars>>
    \/ focus = "pairing" /\ PairNext /\ UNCHANGED <<focus, vars>>

\* The fairness of ReceiverMonitor.
InList(A) == focus = "list" /\ A /\ UNCHANGED <<focus, pairVars>>
ReceiverFair ==
    /\ \A i \in Indices : WF_receiverVars(InList(Enumerated(i)))
    /\ \A w \in Workers : /\ WF_receiverVars(InList(StartTask(w)))
                          /\ WF_receiverVars(InList(Work(w)))

ReceiverSpec == ReceiverInit /\ [][ReceiverNext]_receiverVars /\ ReceiverFair

\* The list of a receiver comes to say what the links of its devices say: see
\* ListFollowsLink.
ListComesTrue == focus = "list" => ListFollowsLink
=============================================================================
