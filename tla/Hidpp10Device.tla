---------------------------- MODULE Hidpp10Device ----------------------------
(***************************************************************************)
(* Register access of a HID++ 1.0 device, in practice a receiver           *)
(* (backend/hidpp10/Device.cpp). Requests and answers are matched by sub   *)
(* ID alone, in four slots; the four register operations 0x80 .. 0x83 have *)
(* a slot each. HID++ 1.0 has no software ID, so the answer to a write     *)
(* made without waiting looks like any other.                              *)
(***************************************************************************)
EXTENDS Transport

CONSTANTS SubIDs,       \* SetRegisterShort .. GetRegisterLong
          Registers,    \* register addresses
          SubIDCount    \* size of _responses, 4 in the code

ASSUME SubIDCountAssumption == SubIDCount \in Nat \ {0}
ASSUME SubIDsAssumption     == SubIDs \subseteq Nat /\ None \notin Nat

VARIABLES subId,      \* ResponseSlot::sub_id of each slot
          response,   \* ResponseSlot::response of each slot
          seen,       \* history: the reports the I/O thread has handled
          failed      \* history: requests whose write failed

slots == <<subId, response>>
register == <<slots, seen, failed>>
registerVars == <<transport, register>>

Slots    == 0 .. SubIDCount - 1
Requests == [id : 1 .. MaxCalls, subId : SubIDs, address : Registers]
Kinds    == {"response", "error"}
Answers  == [to : Requests, kind : Kinds]
SlotOf(s) == s % SubIDCount
CallerSlot(c) == SlotOf(request[c].subId)

TypeOK ==
    /\ subId \in [Slots -> SubIDs \cup {None}]
    /\ response \in [Slots -> Answers \cup {None}]
    /\ pc \in [Callers -> {"idle", "enter", "asleep", "sent"}]
    /\ request \in [Callers -> Requests \cup {None}]
    /\ result \in [Callers -> Answers \cup Failures \cup {None}]
    /\ calls \in 0 .. MaxCalls
    /\ wire \cup abandoned \cup failed \subseteq Requests
    /\ seen \subseteq Answers

Init ==
    /\ Quiet
    /\ subId = [s \in Slots |-> None]
    /\ response = [s \in Slots |-> None]
    /\ seen = {} /\ failed = {}

\* The request that the next register access makes.
NewRequest(s, a) == [id |-> calls + 1, subId |-> s, address |-> a]

\* getRegister, setRegister: accessRegister calls sendReport.
Access(c, s, a) == Enter(c, NewRequest(s, a)) /\ UNCHANGED register

\* setRegisterNoResponse (unpairing a device): the request is written past
\* the slots, and answered like any other.
AccessNoResponse(c, s, a) == WriteOnly(c, NewRequest(s, a)) /\ UNCHANGED register

\* Mutant: the caller does not wait for the slot.
SlotNotAwaited(c) == CallerSlot(c) \in Slots
SlotFree(c) == subId[CallerSlot(c)] = None

\* Another call has the slot: sleep on _response_cv.
Sleep(c) ==
    /\ pc[c] = "enter"
    /\ ~SlotFree(c)
    /\ pc' = [pc EXCEPT ![c] = "asleep"]
    /\ UNCHANGED <<slots, request, result, calls, wire, seen, failed, abandoned>>

SpuriousWakeup(c) ==
    /\ pc[c] = "asleep"
    /\ pc' = [pc EXCEPT ![c] = "enter"]
    /\ UNCHANGED <<slots, request, result, calls, wire, seen, failed, abandoned>>

\* Take the slot and write the request; a request dropped by a node that
\* has hung up stays unanswered on the wire.
Send(c) ==
    /\ pc[c] = "enter"
    /\ SlotFree(c)
    /\ subId' = [subId EXCEPT ![CallerSlot(c)] = request[c].subId]
    /\ pc' = [pc EXCEPT ![c] = "sent"]
    /\ wire' = wire \cup {request[c]}
    /\ UNCHANGED <<response, request, result, calls, seen, failed, abandoned>>

\* The write throws and the slot keeps its sub ID.
SendFails(c) ==
    /\ pc[c] = "enter"
    /\ SlotFree(c)
    /\ subId' = [subId EXCEPT ![CallerSlot(c)] = request[c].subId]
    /\ pc' = [pc EXCEPT ![c] = "idle"]
    /\ result' = [result EXCEPT ![c] = SystemError]
    /\ failed' = failed \cup {request[c]}
    /\ UNCHANGED <<response, request, calls, wire, seen, abandoned>>

\* ResponseSlot::reset, without a notification.
Reset(s) ==
    /\ response' = [response EXCEPT ![s] = None]
    /\ subId' = [subId EXCEPT ![s] = None]

\* The wait ends with an answer, returned or thrown.
Return(c) ==
    /\ pc[c] = "sent"
    /\ response[CallerSlot(c)] # None
    /\ result' = [result EXCEPT ![c] = response[CallerSlot(c)]]
    /\ Reset(CallerSlot(c))
    /\ pc' = [pc EXCEPT ![c] = "idle"]
    /\ abandoned' = IF response[CallerSlot(c)].to = request[c]
                      THEN abandoned ELSE abandoned \cup {request[c]}
    /\ UNCHANGED <<request, calls, wire, seen, failed>>

\* The wait ends after io_timeout with the slot still empty.
Timeout(c) ==
    /\ pc[c] = "sent"
    /\ response[CallerSlot(c)] = None
    /\ result' = [result EXCEPT ![c] = TimeoutError]
    /\ Reset(CallerSlot(c))
    /\ pc' = [pc EXCEPT ![c] = "idle"]
    /\ abandoned' = abandoned \cup {request[c]}
    /\ UNCHANGED <<request, calls, wire, seen, failed>>

\* responseReport: an error counts under the sub ID of the request it
\* answers, and the slot must be taken for that sub ID.
Accepts(rep) == subId[SlotOf(rep.to.subId)] = rep.to.subId

ResponseReport(rep) ==
    \/ /\ Accepts(rep)
       /\ response' = [response EXCEPT ![SlotOf(rep.to.subId)] = rep]
       /\ pc' = [c \in Callers |-> IF pc[c] = "asleep" THEN "enter" ELSE pc[c]]
    \/ /\ ~Accepts(rep)
       /\ UNCHANGED <<response, pc>>

\* The device answers a request it has, in time or late or never.
Answer(r) ==
    /\ r \in wire
    /\ wire' = wire \ {r}
    /\ \E k \in Kinds :
          /\ ResponseReport([to |-> r, kind |-> k])
          /\ seen' = seen \cup {[to |-> r, kind |-> k]}
    /\ UNCHANGED <<subId, request, result, calls, abandoned, failed>>

Next ==
    \/ \E c \in Callers :
          \/ \E s \in SubIDs, a \in Registers : Access(c, s, a) \/ AccessNoResponse(c, s, a)
          \/ Sleep(c) \/ SpuriousWakeup(c)
          \/ Send(c) \/ SendFails(c)
          \/ Return(c) \/ Timeout(c)
    \/ \E r \in wire : Answer(r)

Spec == Init /\ [][Next]_registerVars

-----------------------------------------------------------------------------
(***************************************************************************)
(* A register access never returns the answer to another kind of access;   *)
(* it returns that of another register or call only if nobody waits for    *)
(* that answer any longer: a call that timed out, or a write made with     *)
(* setRegisterNoResponse.                                                  *)
(***************************************************************************)
OwnAnswerOrStray ==
    \A c \in Callers : Returned(c) =>
        \/ result[c].to = request[c]
        \/ result[c].to \in abandoned /\ result[c].to.subId = request[c].subId
=============================================================================
