------------------------------ MODULE Transport ------------------------------
(***************************************************************************)
(* What the two one-at-a-time transports have in common: the threads that  *)
(* call sendReport, the requests they make, and the wire to the device.    *)
(* hidpp::Device (backend/hidpp/Device.cpp) and its subclass               *)
(* hidpp10::Device (backend/hidpp10/Device.cpp) each add what they match   *)
(* answers with.                                                           *)
(***************************************************************************)
EXTENDS Naturals

CONSTANTS Callers,      \* threads
          MaxCalls,     \* bound: requests made in a behaviour
          TimeoutError, \* exceptions that leave sendReport
          SystemError,
          None          \* an empty std::optional, no holder of a mutex

ASSUME CallersAssumption  == None \notin Callers
ASSUME MaxCallsAssumption == MaxCalls \in Nat
ASSUME TokensAssumption   == TimeoutError # SystemError /\ None \notin {TimeoutError, SystemError}

VARIABLES pc,       \* where each thread is in sendReport
          request,  \* the request of the thread's current or last call
          result,   \* how the thread's last call ended
          calls,    \* number of requests made; identifies them
          wire,     \* requests written to the device and not answered
          abandoned \* history: requests nobody waits for any longer

transport == <<pc, request, result, calls, wire, abandoned>>

Failures == {TimeoutError, SystemError}

Quiet ==
    /\ pc = [c \in Callers |-> "idle"]
    /\ request = [c \in Callers |-> None]
    /\ result = [c \in Callers |-> None]
    /\ calls = 0
    /\ wire = {}
    /\ abandoned = {}

\* A thread calls sendReport for a new request.
Enter(c, r) ==
    /\ pc[c] = "idle"
    /\ calls < MaxCalls
    /\ calls' = calls + 1
    /\ request' = [request EXCEPT ![c] = r]
    /\ result' = [result EXCEPT ![c] = None]
    /\ pc' = [pc EXCEPT ![c] = "enter"]
    /\ UNCHANGED <<wire, abandoned>>

\* A request is written that nobody waits for the answer of.
WriteOnly(c, r) ==
    /\ pc[c] = "idle"
    /\ calls < MaxCalls
    /\ calls' = calls + 1
    /\ wire' = wire \cup {r}
    /\ abandoned' = abandoned \cup {r}
    /\ UNCHANGED <<pc, request, result>>

Returned(c) == pc[c] = "idle" /\ result[c] \notin Failures \cup {None}
=============================================================================
