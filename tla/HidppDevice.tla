----------------------------- MODULE HidppDevice -----------------------------
(***************************************************************************)
(* The transport of the base class hidpp::Device (backend/hidpp/Device.cpp)*)
(* that probes a node before its protocol is known. One transaction at a   *)
(* time: _send_mutex is held for a whole sendReport, _response_mutex only  *)
(* while the request is written and the answer awaited. The key of a       *)
(* report is its pair of sub ID and address.                               *)
(***************************************************************************)
EXTENDS Transport

CONSTANTS Keys,         \* (sub ID, address) pairs
          MaxEvents     \* bound: reports the device sends unasked

ASSUME KeysAssumption      == None \notin Keys
ASSUME MaxEventsAssumption == MaxEvents \in Nat

VARIABLES sendMutex,   \* holder of _send_mutex
          sent,        \* _sent_sub_id with _sent_address
          answer,      \* _response
          events,      \* number of reports sent unasked
          consumed,    \* history: a report was taken as an answer while no
                       \* transaction was running
          writeFailed  \* history: a write has failed

probe == <<sendMutex, sent, answer, events, consumed, writeFailed>>
probeVars == <<transport, probe>>

Probes == [id : 1 .. MaxCalls, key : Keys]
ProbeKinds    == {"response", "error10", "error20"}
Unasked  == [id : {0}, key : Keys]
Reports  == [to : Probes \cup Unasked, kind : ProbeKinds]

\* What responseReport leaves in _response: an error of HID++ 1.0 as
\* Hidpp10Error, any other report as a Report. isError20 only supplies the
\* sub ID and address; the variant is not assigned.
Stored(rep) == [to |-> rep.to, kind |-> rep.kind,
                as |-> IF rep.kind = "error10" THEN "error10" ELSE "response"]
ProbeAnswers == {Stored(rep) : rep \in Reports}

ProbeTypeOK ==
    /\ sendMutex \in Callers \cup {None}
    /\ sent \in Keys \cup {None}
    /\ answer \in ProbeAnswers \cup {None}
    /\ pc \in [Callers -> {"idle", "enter", "sending", "sent"}]
    /\ request \in [Callers -> Probes \cup {None}]
    /\ result \in [Callers -> ProbeAnswers \cup Failures \cup {None}]
    /\ calls \in 0 .. MaxCalls
    /\ events \in 0 .. MaxEvents
    /\ wire \subseteq Probes
    /\ consumed \in BOOLEAN
    /\ writeFailed \in BOOLEAN
    /\ abandoned \subseteq Probes

ProbeInit ==
    /\ Quiet
    /\ sendMutex = None
    /\ sent = None
    /\ answer = None
    /\ events = 0
    /\ consumed = FALSE
    /\ writeFailed = FALSE

NewProbe(k) == [id |-> calls + 1, key |-> k]

\* A thread calls sendReport.
Call(c, k) == Enter(c, NewProbe(k)) /\ UNCHANGED probe

\* Mutant: no notice is taken of a running transaction.
SendMutexSkipped == sendMutex \in Callers \cup {None}
SendMutexFree == sendMutex = None

\* sendReportNoACK: write under _send_mutex and expect nothing.
CallNoACK(c, k) == SendMutexFree /\ WriteOnly(c, NewProbe(k)) /\ UNCHANGED probe

Expected(c) == request[c].key

\* The thread has _send_mutex and stores what it expects; _response_mutex is
\* not held here, and _response is not reset.
Begin(c) ==
    /\ pc[c] = "enter"
    /\ SendMutexFree
    /\ sendMutex' = c
    /\ sent' = Expected(c)
    /\ pc' = [pc EXCEPT ![c] = "sending"]
    /\ UNCHANGED <<answer, request, result, calls, events, wire, consumed, writeFailed, abandoned>>

\* Under _response_mutex: write the request and block for the answer.
Write(c) ==
    /\ pc[c] = "sending"
    /\ wire' = wire \cup {request[c]}
    /\ pc' = [pc EXCEPT ![c] = "sent"]
    /\ UNCHANGED <<sendMutex, sent, answer, request, result, calls, events, consumed,
                   writeFailed, abandoned>>

\* Mutant: _send_mutex is not released when the write throws.
WriteFailsLocked(c) ==
    /\ pc[c] = "sending"
    /\ pc' = [pc EXCEPT ![c] = "idle"]
    /\ result' = [result EXCEPT ![c] = SystemError]
    /\ writeFailed' = TRUE
    /\ UNCHANGED <<sendMutex, sent, answer, request, calls, events, wire, consumed, abandoned>>

\* The write throws: both mutexes are released, _sent_sub_id stays set.
WriteFails(c) ==
    /\ pc[c] = "sending"
    /\ pc' = [pc EXCEPT ![c] = "idle"]
    /\ result' = [result EXCEPT ![c] = SystemError]
    /\ sendMutex' = None
    /\ writeFailed' = TRUE
    /\ UNCHANGED <<sent, answer, request, calls, events, wire, consumed, abandoned>>

\* wait_for ends with an answer: _response and the expected key are reset.
ProbeReturn(c) ==
    /\ pc[c] = "sent"
    /\ answer # None
    /\ result' = [result EXCEPT ![c] = answer]
    /\ answer' = None
    /\ sent' = None
    /\ pc' = [pc EXCEPT ![c] = "idle"]
    /\ sendMutex' = None
    /\ abandoned' = IF answer.to = request[c] THEN abandoned ELSE abandoned \cup {request[c]}
    /\ UNCHANGED <<request, calls, events, wire, consumed, writeFailed>>

\* Mutant: the expected key outlives the timeout.
ProbeTimeoutKeepsKey(c) ==
    /\ pc[c] = "sent"
    /\ answer = None
    /\ result' = [result EXCEPT ![c] = TimeoutError]
    /\ pc' = [pc EXCEPT ![c] = "idle"]
    /\ sendMutex' = None
    /\ abandoned' = abandoned \cup {request[c]}
    /\ UNCHANGED <<sent, answer, request, calls, events, wire, consumed, writeFailed>>

\* wait_for ends without one: _sent_sub_id is reset, so nothing matches.
ProbeTimeout(c) ==
    /\ pc[c] = "sent"
    /\ answer = None
    /\ result' = [result EXCEPT ![c] = TimeoutError]
    /\ sent' = None
    /\ pc' = [pc EXCEPT ![c] = "idle"]
    /\ sendMutex' = None
    /\ abandoned' = abandoned \cup {request[c]}
    /\ UNCHANGED <<answer, request, calls, events, wire, consumed, writeFailed>>

\* The report carries the expected sub ID and address.
Matches(rep) == sent = rep.to.key

\* responseReport, under _response_mutex: a report with the expected key is
\* the answer; any other goes to the event handlers.
ProbeReport(rep) ==
    IF Matches(rep)
    THEN /\ answer' = Stored(rep)
         /\ consumed' = (consumed \/ \A c \in Callers : pc[c] \notin {"sending", "sent"})
    ELSE UNCHANGED <<answer, consumed>>

\* The device answers a request, in time, late or never.
ProbeAnswer(r) ==
    /\ r \in wire
    /\ wire' = wire \ {r}
    /\ \E k \in ProbeKinds : ProbeReport([to |-> r, kind |-> k])
    /\ UNCHANGED <<sendMutex, sent, pc, request, result, calls, events, writeFailed, abandoned>>

\* The device sends a report of its own accord; its key may be any.
Event(k) ==
    /\ events < MaxEvents
    /\ events' = events + 1
    /\ ProbeReport([to |-> [id |-> 0, key |-> k], kind |-> "response"])
    /\ UNCHANGED <<sendMutex, sent, pc, request, result, calls, wire, writeFailed, abandoned>>

ProbeNext ==
    \/ \E c \in Callers :
          \/ \E k \in Keys : Call(c, k) \/ CallNoACK(c, k)
          \/ Begin(c) \/ Write(c) \/ WriteFails(c) \/ ProbeReturn(c) \/ ProbeTimeout(c)
    \/ \E r \in wire : ProbeAnswer(r)
    \/ \E k \in Keys : Event(k)

ProbeSpec == ProbeInit /\ [][ProbeNext]_probeVars

-----------------------------------------------------------------------------
(***************************************************************************)
(* As long as no write has failed, a call gets the answer to another       *)
(* request only if that request's call ended without its own, or a report  *)
(* the device sent unasked with the same sub ID and address.               *)
(***************************************************************************)
OwnAnswerOrLate ==
    ~writeFailed =>
        \A c \in Callers : Returned(c) =>
            \/ result[c].to = request[c]
            \/ result[c].to \in abandoned
            \/ result[c].to.id = 0

(***************************************************************************)
(* As long as no write has failed, a report that arrives while no          *)
(* transaction runs is never swallowed as an answer: it reaches the event  *)
(* handlers.                                                               *)
(***************************************************************************)
EventsNotSwallowed == ~writeFailed => ~consumed
=============================================================================
