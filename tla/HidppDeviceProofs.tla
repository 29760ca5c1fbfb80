-------------------------- MODULE HidppDeviceProofs --------------------------
(***************************************************************************)
(* Proofs about the two transports that match answers without a software   *)
(* ID: hidpp::Device, which probes a node (HidppDevice), and               *)
(* hidpp10::Device, which reads and writes the registers of a receiver     *)
(* (Hidpp10Device). Both are proved for any number of threads, keys, sub   *)
(* IDs, slots and requests, and then for the composition that the runs     *)
(* check.                                                                  *)
(***************************************************************************)
EXTENDS MCHidppDevices, TLAPS

-----------------------------------------------------------------------------
(* The probing transport                                                    *)

\* _send_mutex is held by the thread that has a transaction, and no other.
ProbeLocked ==
    \A c \in Callers : pc[c] \in {"sending", "sent"} <=> sendMutex = c

\* Unless a write has failed, the expected key is that of the transaction,
\* and without one nothing is expected and no answer is left over.
ProbeExpects ==
    ~writeFailed =>
        /\ sendMutex \in Callers => sent = request[sendMutex].key
        /\ sendMutex = None => sent = None /\ answer = None

\* Requests that are still to be answered by somebody are numbered apart.
ProbeNumbered ==
    /\ \A c \in Callers : pc[c] # "idle" => request[c] \in Probes /\ request[c].id <= calls
    /\ \A c, e \in Callers :
          pc[c] # "idle" /\ pc[e] # "idle" /\ c # e => request[c].id # request[e].id
    /\ \A r \in wire : r.id <= calls
    /\ answer # None => answer.to.id <= calls /\ answer.to \notin wire

\* A request that was not written is neither with the device nor answered.
ProbeUnwritten ==
    \A c \in Callers : pc[c] \in {"enter", "sending"} =>
        /\ request[c] \notin wire
        /\ answer # None => answer.to # request[c]

\* Whatever the device still answers is waited for, or was given up.
ProbeAwaited ==
    \A r \in wire : r \in abandoned \/ \E c \in Callers : pc[c] = "sent" /\ request[c] = r

\* Unless a write has failed, an answer that was taken is the one of the
\* transaction, a late one, or a report the device sent unasked.
ProbeAnswered ==
    ~writeFailed /\ answer # None =>
        \/ answer.to = request[sendMutex]
        \/ answer.to \in abandoned
        \/ answer.to.id = 0

\* The inductive invariant.
ProbeInv ==
    /\ ProbeTypeOK
    /\ ProbeLocked
    /\ ProbeExpects
    /\ ProbeNumbered
    /\ ProbeUnwritten
    /\ ProbeAwaited
    /\ ProbeAnswered
    /\ OwnAnswerOrLate
    /\ EventsNotSwallowed

USE DEF transport, probe, probeVars, slots, register, registerVars

\* Before the first call, nothing is expected and nothing is on the wire.
LEMMA ProbeInitially == ProbeInit => ProbeInv
  <1> SUFFICES ASSUME ProbeInit PROVE ProbeInv
    OBVIOUS
  <1> USE DEF ProbeInit, Quiet
  <1>1. ProbeTypeOK
    <2>1. calls \in 0 .. MaxCalls /\ events \in 0 .. MaxEvents
      BY MaxCallsAssumption, MaxEventsAssumption
    <2>2. /\ pc \in [Callers -> {"idle", "enter", "sending", "sent"}]
          /\ request \in [Callers -> Probes \cup {None}]
          /\ result \in [Callers -> ProbeAnswers \cup Failures \cup {None}]
      OBVIOUS
    <2> QED
      BY <2>1, <2>2 DEF ProbeTypeOK
  <1>2. ProbeLocked /\ ProbeExpects /\ ProbeNumbered /\ ProbeUnwritten /\ ProbeAwaited
    BY CallersAssumption DEF ProbeLocked, ProbeExpects, ProbeNumbered, ProbeUnwritten, ProbeAwaited
  <1>3. ProbeAnswered /\ OwnAnswerOrLate /\ EventsNotSwallowed
    BY DEF ProbeAnswered, OwnAnswerOrLate, EventsNotSwallowed, Returned
  <1> QED
    BY <1>1, <1>2, <1>3 DEF ProbeInv

\* What is stored of a report is an answer, and keeps what the report is about.
LEMMA StoredType ==
    ASSUME NEW rep \in Reports
    PROVE  Stored(rep) \in ProbeAnswers /\ Stored(rep).to = rep.to
  BY DEF Stored, ProbeAnswers

\* What a new request is.
LEMMA NewProbeType ==
    ASSUME ProbeTypeOK, calls < MaxCalls, NEW k \in Keys
    PROVE  /\ NewProbe(k) \in Probes
           /\ NewProbe(k).id = calls + 1
           /\ calls + 1 \in 0 .. MaxCalls
  BY MaxCallsAssumption DEF ProbeTypeOK, NewProbe, Probes

\* A report is of one of the kinds, and about a request or nothing.
LEMMA ProbeReportType ==
    ASSUME ProbeTypeOK, NEW rep \in Reports, ProbeReport(rep)
    PROVE  answer' \in ProbeAnswers \cup {None} /\ consumed' \in BOOLEAN
  <1>1. CASE Matches(rep)
    BY <1>1, StoredType DEF ProbeReport, ProbeTypeOK
  <1>2. CASE ~Matches(rep)
    BY <1>2 DEF ProbeReport, ProbeTypeOK
  <1> QED
    BY <1>1, <1>2

\* What an answer is about has a number.
LEMMA AnswerNumber == ProbeTypeOK /\ answer # None => answer.to.id \in Nat
  BY DEF ProbeTypeOK, ProbeAnswers, Stored, Reports, Probes, Unasked

\* Every variable keeps its type.
LEMMA ProbeTypeStep ==
    ASSUME ProbeTypeOK, ProbeNumbered, [ProbeNext]_probeVars
    PROVE  ProbeTypeOK'
  <1>1. ASSUME NEW c \in Callers, NEW k \in Keys, Call(c, k) PROVE ProbeTypeOK'
    BY <1>1, NewProbeType DEF ProbeTypeOK, Call, Enter
  <1>2. ASSUME NEW c \in Callers, NEW k \in Keys, CallNoACK(c, k) PROVE ProbeTypeOK'
    BY <1>2, NewProbeType DEF ProbeTypeOK, CallNoACK, WriteOnly
  <1>3. ASSUME NEW c \in Callers, Begin(c) PROVE ProbeTypeOK'
    <2>1. Expected(c) \in Keys
      BY <1>3 DEF Begin, Expected, ProbeNumbered, Probes
    <2> QED
      BY <1>3, <2>1 DEF ProbeTypeOK, Begin
  <1>4. ASSUME NEW c \in Callers, Write(c) PROVE ProbeTypeOK'
    BY <1>4 DEF ProbeTypeOK, ProbeNumbered, Write
  <1>5. ASSUME NEW c \in Callers, WriteFails(c) PROVE ProbeTypeOK'
    BY <1>5 DEF ProbeTypeOK, WriteFails, Failures
  <1>6. ASSUME NEW c \in Callers, ProbeReturn(c) PROVE ProbeTypeOK'
    BY <1>6 DEF ProbeTypeOK, ProbeNumbered, ProbeReturn
  <1>7. ASSUME NEW c \in Callers, ProbeTimeout(c) PROVE ProbeTypeOK'
    BY <1>7 DEF ProbeTypeOK, ProbeNumbered, ProbeTimeout, Failures
  <1>8. ASSUME NEW r \in wire, ProbeAnswer(r) PROVE ProbeTypeOK'
    <2> PICK k \in ProbeKinds : ProbeReport([to |-> r, kind |-> k])
      BY <1>8 DEF ProbeAnswer
    <2>1. [to |-> r, kind |-> k] \in Reports
      BY DEF ProbeTypeOK, Reports
    <2> QED
      BY <1>8, <2>1, ProbeReportType DEF ProbeTypeOK, ProbeAnswer
  <1>9. ASSUME NEW k \in Keys, Event(k) PROVE ProbeTypeOK'
    <2>1. [to |-> [id |-> 0, key |-> k], kind |-> "response"] \in Reports
      BY DEF Reports, Unasked, ProbeKinds
    <2> QED
      BY <1>9, <2>1, ProbeReportType, MaxEventsAssumption DEF ProbeTypeOK, Event
  <1>10. CASE UNCHANGED probeVars
    BY <1>10 DEF ProbeTypeOK
  <1> QED
    BY <1>1, <1>2, <1>3, <1>4, <1>5, <1>6, <1>7, <1>8, <1>9, <1>10 DEF ProbeNext

\* Every step keeps the invariant; the disjuncts are taken one by one.
LEMMA ProbeStep ==
    ASSUME ProbeInv, [ProbeNext]_probeVars
    PROVE  ProbeInv'
  <1> USE DEF ProbeInv
  <1>0. ProbeTypeOK'
    BY ProbeTypeStep
  <1> DEFINE Goal == /\ ProbeLocked' /\ ProbeExpects' /\ ProbeNumbered' /\ ProbeUnwritten'
                     /\ ProbeAwaited' /\ ProbeAnswered' /\ OwnAnswerOrLate' /\ EventsNotSwallowed'
  <1>1. ASSUME NEW c \in Callers, NEW k \in Keys, Call(c, k) PROVE Goal
    <2> USE <1>1, NewProbeType DEF Call, Enter
    <2>1. ProbeLocked' /\ ProbeExpects'
      BY CallersAssumption DEF ProbeTypeOK, ProbeLocked, ProbeExpects
    <2>2. ProbeNumbered'
      BY AnswerNumber DEF ProbeTypeOK, ProbeNumbered, Probes
    <2>3. ProbeUnwritten' /\ ProbeAwaited' /\ ProbeAnswered'
      BY DEF ProbeTypeOK, ProbeNumbered, ProbeUnwritten, ProbeAwaited, ProbeAnswered,
             ProbeLocked, ProbeExpects, Probes
    <2>4. OwnAnswerOrLate' /\ EventsNotSwallowed'
      BY DEF ProbeTypeOK, OwnAnswerOrLate, EventsNotSwallowed, Returned
    <2> QED
      BY <2>1, <2>2, <2>3, <2>4
  <1>2. ASSUME NEW c \in Callers, NEW k \in Keys, CallNoACK(c, k) PROVE Goal
    <2> USE <1>2, NewProbeType DEF CallNoACK, WriteOnly
    <2>1. ProbeLocked' /\ ProbeExpects'
      BY DEF ProbeTypeOK, ProbeLocked, ProbeExpects
    <2>2. ProbeNumbered'
      BY AnswerNumber DEF ProbeTypeOK, ProbeNumbered, Probes
    <2>3. ProbeUnwritten' /\ ProbeAwaited' /\ ProbeAnswered'
      BY DEF ProbeTypeOK, ProbeNumbered, ProbeUnwritten, ProbeAwaited, ProbeAnswered, Probes
    <2>4. OwnAnswerOrLate' /\ EventsNotSwallowed'
      BY DEF ProbeTypeOK, OwnAnswerOrLate, EventsNotSwallowed, Returned
    <2> QED
      BY <2>1, <2>2, <2>3, <2>4
  <1>3. ASSUME NEW c \in Callers, Begin(c) PROVE Goal
    <2> USE <1>3 DEF Begin, SendMutexFree, Expected
    <2>1. ProbeLocked' /\ ProbeExpects'
      BY CallersAssumption DEF ProbeTypeOK, ProbeLocked, ProbeExpects
    <2>2. ProbeNumbered' /\ ProbeUnwritten' /\ ProbeAwaited'
      BY DEF ProbeTypeOK, ProbeNumbered, ProbeUnwritten, ProbeAwaited
    <2>3. ProbeAnswered'
      BY DEF ProbeTypeOK, ProbeExpects, ProbeAnswered
    <2>4. OwnAnswerOrLate' /\ EventsNotSwallowed'
      BY DEF ProbeTypeOK, OwnAnswerOrLate, EventsNotSwallowed, Returned
    <2> QED
      BY <2>1, <2>2, <2>3, <2>4
  <1>4. ASSUME NEW c \in Callers, Write(c) PROVE Goal
    <2> USE <1>4 DEF Write
    <2>1. ProbeLocked' /\ ProbeExpects'
      BY DEF ProbeTypeOK, ProbeLocked, ProbeExpects
    <2>2. ProbeNumbered'
      BY DEF ProbeTypeOK, ProbeNumbered, ProbeUnwritten
    <2>3. ProbeUnwritten' /\ ProbeAwaited' /\ ProbeAnswered'
      BY DEF ProbeTypeOK, ProbeNumbered, ProbeUnwritten, ProbeAwaited, ProbeAnswered
    <2>4. OwnAnswerOrLate' /\ EventsNotSwallowed'
      BY DEF ProbeTypeOK, OwnAnswerOrLate, EventsNotSwallowed, Returned
    <2> QED
      BY <2>1, <2>2, <2>3, <2>4
  <1>5. ASSUME NEW c \in Callers, WriteFails(c) PROVE Goal
    <2> USE <1>5 DEF WriteFails
    <2>1. ProbeLocked' /\ ProbeExpects'
      BY CallersAssumption DEF ProbeTypeOK, ProbeLocked, ProbeExpects
    <2>2. ProbeNumbered' /\ ProbeUnwritten' /\ ProbeAwaited'
      BY DEF ProbeTypeOK, ProbeNumbered, ProbeUnwritten, ProbeAwaited
    <2>3. ProbeAnswered' /\ OwnAnswerOrLate' /\ EventsNotSwallowed'
      BY DEF ProbeAnswered, OwnAnswerOrLate, EventsNotSwallowed
    <2> QED
      BY <2>1, <2>2, <2>3
  <1>6. ASSUME NEW c \in Callers, ProbeReturn(c) PROVE Goal
    <2> USE <1>6 DEF ProbeReturn
    <2>0. sendMutex = c
      BY DEF ProbeLocked
    <2>1. ProbeLocked' /\ ProbeExpects'
      BY <2>0, CallersAssumption DEF ProbeTypeOK, ProbeLocked, ProbeExpects
    <2>2. ProbeNumbered' /\ ProbeUnwritten'
      BY DEF ProbeTypeOK, ProbeNumbered, ProbeUnwritten
    <2>3. ProbeAwaited' /\ ProbeAnswered'
      BY DEF ProbeTypeOK, ProbeNumbered, ProbeAwaited, ProbeAnswered
    <2>4. OwnAnswerOrLate' /\ EventsNotSwallowed'
      BY <2>0 DEF ProbeTypeOK, ProbeAnswered, OwnAnswerOrLate, EventsNotSwallowed, Returned
    <2> QED
      BY <2>1, <2>2, <2>3, <2>4
  <1>7. ASSUME NEW c \in Callers, ProbeTimeout(c) PROVE Goal
    <2> USE <1>7 DEF ProbeTimeout
    <2>0. sendMutex = c
      BY DEF ProbeLocked
    <2>1. ProbeLocked' /\ ProbeExpects'
      BY <2>0, CallersAssumption DEF ProbeTypeOK, ProbeLocked, ProbeExpects
    <2>2. ProbeNumbered' /\ ProbeUnwritten'
      BY DEF ProbeTypeOK, ProbeNumbered, ProbeUnwritten
    <2>3. ProbeAwaited' /\ ProbeAnswered'
      BY DEF ProbeTypeOK, ProbeNumbered, ProbeAwaited, ProbeAnswered
    <2>4. OwnAnswerOrLate' /\ EventsNotSwallowed'
      BY DEF ProbeTypeOK, OwnAnswerOrLate, EventsNotSwallowed, Returned, Failures
    <2> QED
      BY <2>1, <2>2, <2>3, <2>4
  <1>8. ASSUME NEW rep \in Reports, ProbeReport(rep), rep.to.id = 0 \/ rep.to \in wire,
               rep.to.id <= calls, wire' = wire \ {rep.to},
               UNCHANGED <<sendMutex, sent, pc, request, result, calls, writeFailed, abandoned>>
        PROVE  Goal
    <2> USE <1>8
    <2>0. ASSUME Matches(rep), ~writeFailed
          PROVE  sendMutex \in Callers /\ pc[sendMutex] \in {"sending", "sent"}
      <3>1. sent # None
        BY <2>0, KeysAssumption DEF Matches, Reports, Probes, Unasked
      <3> QED
        BY <2>0, <3>1 DEF ProbeExpects, ProbeLocked, ProbeTypeOK
    <2>1. ProbeLocked' /\ ProbeExpects'
      BY <2>0, CallersAssumption DEF ProbeTypeOK, ProbeLocked, ProbeExpects, ProbeReport
    <2>2. ProbeNumbered'
      BY StoredType DEF ProbeTypeOK, ProbeNumbered, ProbeReport
    <2>3. ProbeUnwritten'
      BY StoredType DEF ProbeTypeOK, ProbeNumbered, ProbeUnwritten, ProbeReport, Probes
    <2>4. ProbeAwaited'
      BY DEF ProbeTypeOK, ProbeAwaited
    <2>5. ProbeAnswered'
      BY <2>0, StoredType
      DEF ProbeTypeOK, ProbeAwaited, ProbeAnswered, ProbeLocked, ProbeReport
    <2>6. OwnAnswerOrLate'
      BY DEF OwnAnswerOrLate, Returned
    <2>7. EventsNotSwallowed'
      BY <2>0 DEF EventsNotSwallowed, ProbeReport
    <2> QED
      BY <2>1, <2>2, <2>3, <2>4, <2>5, <2>6, <2>7
  <1>9. ASSUME NEW r \in wire, ProbeAnswer(r) PROVE Goal
    <2> PICK k \in ProbeKinds : ProbeReport([to |-> r, kind |-> k])
      BY <1>9 DEF ProbeAnswer
    <2>1. [to |-> r, kind |-> k] \in Reports
      BY DEF ProbeTypeOK, Reports
    <2> QED
      BY <1>8, <1>9, <2>1 DEF ProbeAnswer, ProbeNumbered
  <1>10. ASSUME NEW k \in Keys, Event(k) PROVE Goal
    <2> DEFINE rep == [to |-> [id |-> 0, key |-> k], kind |-> "response"]
    <2>1. rep \in Reports
      BY DEF Reports, Unasked, ProbeKinds
    <2>2. rep.to.id = 0 /\ rep.to.id <= calls
      BY DEF ProbeTypeOK
    <2>3. wire' = wire \ {rep.to}
      BY <1>10 DEF ProbeTypeOK, Event, Probes
    <2>4. ProbeReport(rep)
      BY <1>10 DEF Event
    <2> QED
      BY <1>8, <1>10, <2>1, <2>2, <2>3, <2>4 DEF Event
  <1>11. ASSUME UNCHANGED probeVars PROVE Goal
    BY <1>11 DEF ProbeLocked, ProbeExpects, ProbeNumbered, ProbeUnwritten, ProbeAwaited,
                 ProbeAnswered, OwnAnswerOrLate, EventsNotSwallowed, Returned
  <1>12. Goal
    BY <1>1, <1>2, <1>3, <1>4, <1>5, <1>6, <1>7, <1>9, <1>10, <1>11 DEF ProbeNext
  <1> QED
    BY <1>0, <1>12 DEF Goal, ProbeInv

(***************************************************************************)
(* As long as no write has failed, sendReport of hidpp::Device returns the *)
(* answer to its own request, a late answer to a request that was given    *)
(* up, or a report that the device sent unasked; for any number of threads.*)
(***************************************************************************)
THEOREM ProbesGetAnswers == ProbeSpec => []OwnAnswerOrLate
  <1>1. ProbeInv /\ [ProbeNext]_probeVars => ProbeInv'
    BY ProbeStep
  <1>2. ProbeInv => OwnAnswerOrLate
    BY DEF ProbeInv
  <1> QED
    BY <1>1, <1>2, ProbeInitially, PTL DEF ProbeSpec

(***************************************************************************)
(* As long as no write has failed, no report is swallowed as an answer     *)
(* while no transaction runs, whatever the order in which the threads and  *)
(* the reports take the mutexes (responseReport of backend/hidpp).         *)
(***************************************************************************)
THEOREM EventsReachHandlers == ProbeSpec => []EventsNotSwallowed
  <1>1. ProbeInv /\ [ProbeNext]_probeVars => ProbeInv'
    BY ProbeStep
  <1>2. ProbeInv => EventsNotSwallowed
    BY DEF ProbeInv
  <1> QED
    BY <1>1, <1>2, ProbeInitially, PTL DEF ProbeSpec

-----------------------------------------------------------------------------
(* The registers of a receiver                                              *)

\* A slot is only taken for a sub ID that belongs to it.
SlotKeys == \A s \in Slots : subId[s] # None => SlotOf(subId[s]) = s

\* A thread that waits has its slot, and has it alone.
SlotsHeld ==
    /\ \A c \in Callers : pc[c] = "sent" => subId[CallerSlot(c)] = request[c].subId
    /\ \A c, e \in Callers :
          pc[c] = "sent" /\ pc[e] = "sent" /\ c # e => CallerSlot(c) # CallerSlot(e)

\* Requests that are still to be answered by somebody are numbered apart.
Numbered ==
    /\ \A c \in Callers : pc[c] # "idle" => request[c] \in Requests /\ request[c].id <= calls
    /\ \A c, e \in Callers :
          pc[c] # "idle" /\ pc[e] # "idle" /\ c # e => request[c].id # request[e].id
    /\ \A r \in wire : r.id <= calls

\* What is in a slot was asked for under the sub ID of the slot, once.
SlotAnswers ==
    \A s \in Slots : response[s] # None =>
        /\ response[s].to.id <= calls
        /\ response[s].to \notin wire
        /\ response[s].to.subId = subId[s]

\* A request that was not written is neither with the device nor answered.
Unwritten ==
    \A c \in Callers : pc[c] \in {"enter", "asleep"} =>
        /\ request[c] \notin wire
        /\ \A s \in Slots : response[s] # None => response[s].to # request[c]

\* Whatever the device still answers, or has answered into a slot, is waited
\* for or was given up.
WaitedFor(r) == r \in abandoned \/ \E c \in Callers : pc[c] = "sent" /\ request[c] = r
Awaited ==
    /\ \A r \in wire : WaitedFor(r)
    /\ \A s \in Slots : response[s] # None => WaitedFor(response[s].to)

\* The inductive invariant.
RegisterInv ==
    /\ TypeOK
    /\ SlotKeys
    /\ SlotsHeld
    /\ Numbered
    /\ SlotAnswers
    /\ Unwritten
    /\ Awaited
    /\ OwnAnswerOrStray

\* Each sub ID has a slot.
LEMMA SlotType == \A s \in SubIDs : SlotOf(s) \in Slots
  BY SubIDCountAssumption, SubIDsAssumption DEF SlotOf, Slots

\* A request is for a sub ID, and has its slot.
LEMMA CallerSlotType ==
    ASSUME NEW c \in Callers, request[c] \in Requests
    PROVE  CallerSlot(c) \in Slots /\ request[c].subId \in SubIDs /\ request[c].subId # None
  BY SlotType, SubIDsAssumption DEF CallerSlot, Requests

\* Before the first call, all slots are free.
LEMMA RegisterInitially == Init => RegisterInv
  <1> SUFFICES ASSUME Init PROVE RegisterInv
    OBVIOUS
  <1> USE DEF Init, Quiet
  <1>1. TypeOK
    <2>1. calls \in 0 .. MaxCalls
      BY MaxCallsAssumption
    <2>2. /\ subId \in [Slots -> SubIDs \cup {None}]
          /\ response \in [Slots -> Answers \cup {None}]
          /\ pc \in [Callers -> {"idle", "enter", "asleep", "sent"}]
          /\ request \in [Callers -> Requests \cup {None}]
          /\ result \in [Callers -> Answers \cup Failures \cup {None}]
      OBVIOUS
    <2> QED
      BY <2>1, <2>2 DEF TypeOK
  <1>2. SlotKeys /\ SlotsHeld /\ Numbered /\ SlotAnswers /\ Unwritten /\ Awaited
    BY DEF SlotKeys, SlotsHeld, Numbered, SlotAnswers, Unwritten, Awaited
  <1>3. OwnAnswerOrStray
    BY DEF OwnAnswerOrStray, Returned
  <1> QED
    BY <1>1, <1>2, <1>3 DEF RegisterInv

\* What a new request is.
LEMMA NewRequestType ==
    ASSUME TypeOK, calls < MaxCalls, NEW s \in SubIDs, NEW a \in Registers
    PROVE  /\ NewRequest(s, a) \in Requests
           /\ NewRequest(s, a).id = calls + 1
           /\ calls + 1 \in 0 .. MaxCalls
  BY MaxCallsAssumption DEF TypeOK, NewRequest, Requests

\* Every variable keeps its type.
LEMMA RegisterTypeStep ==
    ASSUME TypeOK, Numbered, [Next]_registerVars
    PROVE  TypeOK'
  <1>1. ASSUME NEW c \in Callers, NEW s \in SubIDs, NEW a \in Registers, Access(c, s, a)
        PROVE  TypeOK'
    BY <1>1, NewRequestType DEF TypeOK, Access, Enter
  <1>2. ASSUME NEW c \in Callers, NEW s \in SubIDs, NEW a \in Registers,
               AccessNoResponse(c, s, a)
        PROVE  TypeOK'
    BY <1>2, NewRequestType DEF TypeOK, AccessNoResponse, WriteOnly
  <1>3. ASSUME NEW c \in Callers, Sleep(c) \/ SpuriousWakeup(c) PROVE TypeOK'
    BY <1>3 DEF TypeOK, Sleep, SpuriousWakeup
  <1>4. ASSUME NEW c \in Callers, Send(c) PROVE TypeOK'
    BY <1>4, CallerSlotType DEF TypeOK, Numbered, Send
  <1>5. ASSUME NEW c \in Callers, SendFails(c) PROVE TypeOK'
    BY <1>5, CallerSlotType DEF TypeOK, Numbered, SendFails, Failures
  <1>6. ASSUME NEW c \in Callers, Return(c) PROVE TypeOK'
    BY <1>6, CallerSlotType DEF TypeOK, Numbered, Return, Reset
  <1>7. ASSUME NEW c \in Callers, Timeout(c) PROVE TypeOK'
    BY <1>7, CallerSlotType DEF TypeOK, Numbered, Timeout, Reset, Failures
  <1>8. ASSUME NEW r \in wire, NEW k \in Kinds, Answer(r),
               ResponseReport([to |-> r, kind |-> k]),
               seen' = seen \cup {[to |-> r, kind |-> k]}
        PROVE  TypeOK'
    <2>1. [to |-> r, kind |-> k] \in Answers
      BY DEF TypeOK, Answers
    <2> QED
      BY <1>8, <2>1, SlotType DEF TypeOK, Answer, ResponseReport
  <1>9. CASE UNCHANGED registerVars
    BY <1>9 DEF TypeOK
  <1> QED
    BY <1>1, <1>2, <1>3, <1>4, <1>5, <1>6, <1>7, <1>8, <1>9 DEF Next, Answer

\* Every step keeps the invariant; the disjuncts are taken one by one.
LEMMA RegisterStep ==
    ASSUME RegisterInv, [Next]_registerVars
    PROVE  RegisterInv'
  <1> USE DEF RegisterInv
  <1>0. TypeOK'
    BY RegisterTypeStep
  <1> DEFINE Goal == /\ SlotKeys' /\ SlotsHeld' /\ Numbered' /\ SlotAnswers' /\ Unwritten'
                     /\ Awaited' /\ OwnAnswerOrStray'
  <1>1. ASSUME NEW c \in Callers, NEW s \in SubIDs, NEW a \in Registers, Access(c, s, a)
        PROVE  Goal
    <2> USE <1>1, NewRequestType DEF Access, Enter
    <2>1. SlotKeys' /\ SlotsHeld'
      BY DEF TypeOK, SlotKeys, SlotsHeld, CallerSlot
    <2>6. SlotAnswers'
      BY DEF TypeOK, SlotAnswers, Answers, Requests
    <2>2. Numbered'
      BY DEF TypeOK, Numbered, Requests
    <2>3. Unwritten'
      BY DEF TypeOK, Numbered, SlotAnswers, Unwritten, Requests
    <2>4. Awaited'
      BY DEF TypeOK, Awaited, WaitedFor
    <2>5. OwnAnswerOrStray'
      BY DEF TypeOK, OwnAnswerOrStray, Returned
    <2> QED
      BY <2>1, <2>2, <2>3, <2>4, <2>5, <2>6
  <1>2. ASSUME NEW c \in Callers, NEW s \in SubIDs, NEW a \in Registers,
               AccessNoResponse(c, s, a)
        PROVE  Goal
    <2> USE <1>2, NewRequestType DEF AccessNoResponse, WriteOnly
    <2>1. SlotKeys' /\ SlotsHeld'
      BY DEF TypeOK, SlotKeys, SlotsHeld, CallerSlot
    <2>2. Numbered'
      BY DEF TypeOK, Numbered, Requests
    <2>3. SlotAnswers' /\ Unwritten'
      BY DEF TypeOK, Numbered, SlotAnswers, Unwritten, Answers, Requests
    <2>4. Awaited'
      BY DEF TypeOK, Awaited, WaitedFor
    <2>5. OwnAnswerOrStray'
      BY DEF TypeOK, OwnAnswerOrStray, Returned
    <2> QED
      BY <2>1, <2>2, <2>3, <2>4, <2>5
  <1>3. ASSUME NEW c \in Callers, Sleep(c) \/ SpuriousWakeup(c) PROVE Goal
    BY <1>3 DEF TypeOK, Sleep, SpuriousWakeup, SlotKeys, SlotsHeld, Numbered, SlotAnswers,
                Unwritten, Awaited, WaitedFor, OwnAnswerOrStray, Returned, CallerSlot
  <1>4. ASSUME NEW c \in Callers, Send(c) PROVE Goal
    <2> USE <1>4, CallerSlotType DEF Send, SlotFree
    <2>1. request[c] \in Requests /\ CallerSlot(c) \in Slots
      BY DEF Numbered
    <2>2. SlotKeys'
      BY <2>1 DEF TypeOK, SlotKeys, CallerSlot
    <2>3. SlotsHeld'
      BY <2>1 DEF TypeOK, SlotsHeld, Numbered, CallerSlot
    <2>4. Numbered' /\ Unwritten'
      BY <2>1 DEF TypeOK, Numbered, Unwritten
    <2>5. SlotAnswers'
      BY <2>1, SubIDsAssumption DEF TypeOK, SlotAnswers, Unwritten, Answers, Requests
    <2>6. Awaited'
      BY DEF TypeOK, Awaited, WaitedFor
    <2>7. OwnAnswerOrStray'
      BY DEF TypeOK, OwnAnswerOrStray, Returned
    <2> QED
      BY <2>2, <2>3, <2>4, <2>5, <2>6, <2>7
  <1>5. ASSUME NEW c \in Callers, SendFails(c) PROVE Goal
    <2> USE <1>5, CallerSlotType DEF SendFails, SlotFree
    <2>1. request[c] \in Requests /\ CallerSlot(c) \in Slots
      BY DEF Numbered
    <2>2. SlotKeys' /\ SlotsHeld'
      BY <2>1 DEF TypeOK, SlotKeys, SlotsHeld, Numbered, CallerSlot
    <2>3. Numbered' /\ Unwritten'
      BY <2>1 DEF TypeOK, Numbered, Unwritten
    <2>4. SlotAnswers'
      BY <2>1, SubIDsAssumption DEF TypeOK, SlotAnswers, Answers, Requests
    <2>5. Awaited'
      BY DEF TypeOK, Awaited, WaitedFor
    <2>6. OwnAnswerOrStray'
      BY DEF TypeOK, OwnAnswerOrStray, Returned, Failures
    <2> QED
      BY <2>2, <2>3, <2>4, <2>5, <2>6
  <1>6. ASSUME NEW c \in Callers, Return(c) PROVE Goal
    <2> USE <1>6, CallerSlotType DEF Return, Reset
    <2>1. request[c] \in Requests /\ CallerSlot(c) \in Slots
      BY DEF Numbered
    <2>2. SlotKeys' /\ SlotsHeld'
      BY <2>1 DEF TypeOK, SlotKeys, SlotsHeld, Numbered, CallerSlot
    <2>3. Numbered' /\ Unwritten'
      BY <2>1 DEF TypeOK, Numbered, Unwritten
    <2>4. SlotAnswers'
      BY <2>1 DEF TypeOK, SlotAnswers
    <2>5. Awaited'
      <3> DEFINE got == response[CallerSlot(c)].to
      <3>1. got \notin wire
        BY <2>1 DEF SlotAnswers
      <3>2. \A s \in Slots : response[s] # None => SlotOf(response[s].to.subId) = s
        <4> SUFFICES ASSUME NEW s \in Slots, response[s] # None
                     PROVE  SlotOf(response[s].to.subId) = s
          OBVIOUS
        <4>1. response[s].to.subId \in SubIDs
          BY DEF TypeOK, Answers, Requests
        <4>2. subId[s] # None /\ subId[s] = response[s].to.subId
          BY <4>1, SubIDsAssumption DEF SlotAnswers
        <4> QED
          BY <4>2 DEF SlotKeys
      <3>3. ASSUME NEW r, WaitedFor(r), r # got PROVE WaitedFor(r)'
        BY <3>3 DEF TypeOK, WaitedFor
      <3> QED
        BY <2>1, <3>1, <3>2, <3>3 DEF TypeOK, Awaited
    <2>6. OwnAnswerOrStray'
      <3>1. response[CallerSlot(c)].to.subId = request[c].subId
        BY <2>1 DEF SlotAnswers, SlotsHeld
      <3>2. response[CallerSlot(c)].to = request[c] \/ response[CallerSlot(c)].to \in abandoned
        BY <2>1, <3>1 DEF Awaited, WaitedFor, SlotsHeld, CallerSlot
      <3> QED
        BY <3>1, <3>2 DEF TypeOK, OwnAnswerOrStray, Returned
    <2> QED
      BY <2>2, <2>3, <2>4, <2>5, <2>6
  <1>7. ASSUME NEW c \in Callers, Timeout(c) PROVE Goal
    <2> USE <1>7, CallerSlotType DEF Timeout, Reset
    <2>1. request[c] \in Requests /\ CallerSlot(c) \in Slots
      BY DEF Numbered
    <2>2. SlotKeys' /\ SlotsHeld'
      BY <2>1 DEF TypeOK, SlotKeys, SlotsHeld, Numbered, CallerSlot
    <2>3. Numbered' /\ Unwritten'
      BY <2>1 DEF TypeOK, Numbered, Unwritten
    <2>4. SlotAnswers'
      BY <2>1 DEF TypeOK, SlotAnswers
    <2>5. Awaited'
      BY <2>1 DEF TypeOK, Awaited, WaitedFor
    <2>6. OwnAnswerOrStray'
      BY DEF TypeOK, OwnAnswerOrStray, Returned, Failures
    <2> QED
      BY <2>2, <2>3, <2>4, <2>5, <2>6
  <1>8. ASSUME NEW r \in wire, NEW k \in Kinds, Answer(r),
               ResponseReport([to |-> r, kind |-> k])
        PROVE  Goal
    <2> DEFINE rep == [to |-> r, kind |-> k]
    <2> USE <1>8, SlotType DEF Answer, ResponseReport
    <2>0. r \in Requests /\ SlotOf(r.subId) \in Slots
      BY DEF TypeOK, Requests
    <2>1. \A e \in Callers : (pc'[e] = "sent" <=> pc[e] = "sent") /\ (pc'[e] = "idle" <=> pc[e] = "idle")
      BY DEF TypeOK
    <2>2. SlotKeys' /\ SlotsHeld' /\ Numbered'
      BY <2>1 DEF TypeOK, SlotKeys, SlotsHeld, Numbered, CallerSlot
    <2>3. SlotAnswers'
      BY <2>0 DEF TypeOK, SlotAnswers, Numbered, Accepts
    <2>4. Unwritten'
      BY <2>0 DEF TypeOK, Unwritten
    <2>5. Awaited'
      BY <2>0, <2>1 DEF TypeOK, Awaited, WaitedFor
    <2>6. OwnAnswerOrStray'
      BY <2>1 DEF OwnAnswerOrStray, Returned
    <2> QED
      BY <2>2, <2>3, <2>4, <2>5, <2>6
  <1>9. ASSUME UNCHANGED registerVars PROVE Goal
    BY <1>9 DEF SlotKeys, SlotsHeld, Numbered, SlotAnswers, Unwritten, Awaited, WaitedFor,
                OwnAnswerOrStray, Returned, CallerSlot
  <1>10. Goal
    BY <1>1, <1>2, <1>3, <1>4, <1>5, <1>6, <1>7, <1>8, <1>9 DEF Next, Answer
  <1> QED
    BY <1>0, <1>10 DEF Goal

(***************************************************************************)
(* A register access of hidpp10::Device returns the answer to itself, or   *)
(* to an access of the same kind that nobody waits for any longer; for any *)
(* number of threads, registers and slots, with failed writes, timeouts    *)
(* and writes that wait for no answer in between.                          *)
(***************************************************************************)
THEOREM RegistersGetAnswers == Spec => []OwnAnswerOrStray
  <1>1. RegisterInv /\ [Next]_registerVars => RegisterInv'
    BY RegisterStep
  <1>2. RegisterInv => OwnAnswerOrStray
    BY DEF RegisterInv
  <1> QED
    BY <1>1, <1>2, RegisterInitially, PTL DEF Spec

-----------------------------------------------------------------------------
(* The composition                                                          *)

\* Whichever transport is looked at keeps its invariant.
TransportInv ==
    /\ focus = Probe => ProbeInv
    /\ focus = Register => RegisterInv

(***************************************************************************)
(* Both transports give their callers their own answers, in the            *)
(* composition that TLC explores (its focus says which one runs).          *)
(***************************************************************************)
THEOREM BothTransports == MCSpec => []AnswersAreOwn
  <1>1. MCInit => TransportInv
    BY ProbeInitially, RegisterInitially DEF MCInit, TransportInv
  <1>2. TransportInv /\ [MCNext]_mcvars => TransportInv'
    <2> SUFFICES ASSUME TransportInv, [MCNext]_mcvars PROVE TransportInv'
      OBVIOUS
    <2>1. focus' = focus
      BY DEF MCNext, mcvars
    <2>2. focus = Probe => [ProbeNext]_probeVars
      BY FocusAssumption DEF MCNext, mcvars
    <2>3. focus = Register => [Next]_registerVars
      BY FocusAssumption DEF MCNext, mcvars
    <2> QED
      BY <2>1, <2>2, <2>3, ProbeStep, RegisterStep DEF TransportInv
  <1>3. TransportInv => AnswersAreOwn
    BY DEF TransportInv, ProbeInv, RegisterInv, AnswersAreOwn
  <1> QED
    BY <1>1, <1>2, <1>3, PTL DEF MCSpec
==============================================================================
