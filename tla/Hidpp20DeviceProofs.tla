------------------------- MODULE Hidpp20DeviceProofs -------------------------
(***************************************************************************)
(* Proofs about Hidpp20Device, for any number of threads, slots, features  *)
(* and calls.                                                              *)
(***************************************************************************)
EXTENDS Hidpp20Device, TLAPS

(* The slot of a feature is an index of _responses, whatever the feature. *)
LEMMA SlotInRange == \A f \in Nat : SlotOf(f) \in Slots
  BY NumSlotsAssumption DEF SlotOf, Slots

-----------------------------------------------------------------------------
(* A thread inside sendReport has a request. *)
RequestKnown == \A c \in Callers : pc[c] # "idle" => request[c] \in Calls

\* The inductive invariant.
IInv == TypeOK /\ RequestKnown /\ SlotExclusion /\ ResponseMatchesSlot

(* The slot a thread uses is an index of the array, and its feature is one. *)
LEMMA CallerSlotInRange ==
    ASSUME NEW c \in Callers, request[c] \in Calls
    PROVE  /\ CallerSlot(c) \in Slots
           /\ request[c].feature \in Features
           /\ request[c].feature # None
  BY SlotInRange, FeaturesAssumption DEF CallerSlot, Calls

(* The slot of a report is an index of the array too. *)
LEMMA ReportSlotInRange ==
    ASSUME NEW rep \in Reports
    PROVE  SlotOf(ReportFeature(rep)) \in Slots
  BY SlotInRange, FeaturesAssumption DEF ReportFeature, Reports, Requests

(* The inductive invariant holds initially. *)
LEMMA InitIInv == Init => IInv
  BY MaxCallsAssumption
  DEF Init, IInv, TypeOK, RequestKnown, SlotExclusion, ResponseMatchesSlot, Slots

(* Every step of the slot protocol preserves the inductive invariant. *)
LEMMA NextIInv == IInv /\ [Next]_vars => IInv'
<1> SUFFICES ASSUME IInv, [Next]_vars PROVE IInv'
  OBVIOUS
<1> USE DEF IInv
<1>1. ASSUME NEW c \in Callers, NEW f \in MayCall[c], Call(c, f) PROVE IInv'
  <2>1. f \in Features
    BY MayCallAssumption
  <2>2. [id |-> calls + 1, feature |-> f, swId |-> "logid"] \in Calls
    BY <1>1, <2>1, MaxCallsAssumption DEF Call, Calls, Ids, TypeOK
  <2>3. TypeOK'
    BY <1>1, <2>2, MaxCallsAssumption DEF Call, TypeOK, slots, history
  <2>4. RequestKnown'
    BY <1>1, <2>2 DEF Call, TypeOK, RequestKnown
  <2>5. SlotExclusion'
    BY <1>1 DEF Call, TypeOK, SlotExclusion, CallerSlot, slots
  <2>6. ResponseMatchesSlot'
    BY <1>1 DEF Call, ResponseMatchesSlot, slots
  <2>7. QED
    BY <2>3, <2>4, <2>5, <2>6
<1>2. ASSUME NEW c \in Callers, NEW f \in MayCall[c], CallNoACK(c, f) PROVE IInv'
  <2>1. [id |-> calls + 1, feature |-> f, swId |-> "noack"] \in Requests
    BY <1>2, MayCallAssumption, MaxCallsAssumption DEF CallNoACK, Requests, Ids, TypeOK
  <2>2. TypeOK'
    BY <1>2, <2>1, MaxCallsAssumption DEF CallNoACK, TypeOK, slots, history
  <2>3. RequestKnown' /\ SlotExclusion' /\ ResponseMatchesSlot'
    BY <1>2 DEF CallNoACK, RequestKnown, SlotExclusion, ResponseMatchesSlot, CallerSlot, slots
  <2>4. QED
    BY <2>2, <2>3
<1>3. ASSUME NEW c \in Callers, Sleep(c) \/ SpuriousWakeup(c) PROVE IInv'
  BY <1>3 DEF Sleep, SpuriousWakeup, TypeOK, RequestKnown, SlotExclusion, ResponseMatchesSlot,
              CallerSlot, slots, history
<1>4. ASSUME NEW c \in Callers, Send(c) PROVE IInv'
  <2>1. request[c] \in Calls
    BY <1>4 DEF Send, RequestKnown
  <2>2. CallerSlot(c) \in Slots /\ request[c].feature \in Features /\ request[c].feature # None
    BY <2>1, CallerSlotInRange
  <2>3. response[CallerSlot(c)] = None
    BY <1>4, <2>2, FeaturesAssumption
    DEF Send, SlotFree, ResponseMatchesSlot, TypeOK, Answers, Calls
  <2>4. TypeOK'
    BY <1>4, <2>1, <2>2 DEF Send, TypeOK, Calls, Requests, history
  <2>5. RequestKnown'
    BY <1>4, <2>1 DEF Send, RequestKnown, TypeOK
  <2>6. SlotExclusion'
    BY <1>4, <2>2, CallerSlotInRange DEF Send, SlotFree, SlotExclusion, RequestKnown, TypeOK, CallerSlot
  <2>7. ResponseMatchesSlot'
    BY <1>4, <2>2, <2>3 DEF Send, ResponseMatchesSlot, TypeOK
  <2>8. QED
    BY <2>4, <2>5, <2>6, <2>7
<1>5. ASSUME NEW c \in Callers, SendFails(c) PROVE IInv'
  <2>1. request[c] \in Calls
    BY <1>5 DEF SendFails, RequestKnown
  <2>2. CallerSlot(c) \in Slots /\ request[c].feature \in Features /\ request[c].feature # None
    BY <2>1, CallerSlotInRange
  <2>3. response[CallerSlot(c)] = None
    BY <1>5, <2>2, FeaturesAssumption
    DEF SendFails, SlotFree, ResponseMatchesSlot, TypeOK, Answers, Calls
  <2>4. TypeOK'
    BY <1>5, <2>1, <2>2 DEF SendFails, TypeOK, Failures
  <2>5. RequestKnown'
    BY <1>5 DEF SendFails, RequestKnown, TypeOK
  <2>6. SlotExclusion'
    BY <1>5, <2>2, CallerSlotInRange
    DEF SendFails, SlotFree, SlotExclusion, RequestKnown, TypeOK, CallerSlot
  <2>7. ResponseMatchesSlot'
    BY <1>5, <2>2, <2>3 DEF SendFails, ResponseMatchesSlot, TypeOK
  <2>8. QED
    BY <2>4, <2>5, <2>6, <2>7
<1>6. ASSUME NEW c \in Callers, Return(c) \/ Timeout(c) PROVE IInv'
  <2>1. request[c] \in Calls
    BY <1>6 DEF Return, Timeout, RequestKnown
  <2>2. CallerSlot(c) \in Slots
    BY <2>1, CallerSlotInRange
  <2>3. Reset(CallerSlot(c)) /\ pc[c] = "sent" /\ pc' = [pc EXCEPT ![c] = "idle"] /\ request' = request
    BY <1>6 DEF Return, Timeout
  <2>4. TypeOK'
    <3>1. feature' \in [Slots -> Features \cup {None}] /\ response' \in [Slots -> Answers \cup {None}]
      BY <2>3 DEF Reset, TypeOK
    <3>2. result' \in [Callers -> Answers \cup Failures \cup {None}]
      BY <1>6, <2>2 DEF Return, Timeout, TypeOK, Failures
    <3>3. abandoned' \subseteq Calls
      BY <1>6, <2>1 DEF Return, Timeout, TypeOK
    <3>4. QED
      BY <1>6, <2>3, <3>1, <3>2, <3>3 DEF Return, Timeout, TypeOK
  <2>5. RequestKnown'
    BY <2>3 DEF RequestKnown, TypeOK
  <2>6. SlotExclusion'
    BY <2>2, <2>3 DEF Reset, SlotExclusion, TypeOK, CallerSlot
  <2>7. ResponseMatchesSlot'
    BY <2>2, <2>3 DEF Reset, ResponseMatchesSlot, TypeOK
  <2>8. QED
    BY <2>4, <2>5, <2>6, <2>7
<1>7. ASSUME NEW r \in wire, Answer(r) PROVE IInv'
  <2> PICK k \in Kinds : /\ ResponseReport([to |-> r, kind |-> k])
                         /\ seen' = seen \cup {[to |-> r, kind |-> k]}
    BY <1>7 DEF Answer
  <2> DEFINE rep == [to |-> r, kind |-> k]
             s == SlotOf(ReportFeature(rep))
  <2>1. rep \in Reports /\ s \in Slots
    BY ReportSlotInRange DEF Reports, TypeOK
  <2>2. CASE Accepts(rep) /\ response' = [response EXCEPT ![s] = rep]
             /\ pc' = [c \in Callers |-> IF pc[c] = "asleep" THEN "enter" ELSE pc[c]]
    <3>1. rep \in Answers /\ feature[s] = rep.to.feature
      BY <2>2, <2>1 DEF Accepts, Answers, Reports, Requests, Calls
    <3>2. TypeOK'
      BY <1>7, <2>1, <2>2, <3>1 DEF Answer, TypeOK
    <3>3. RequestKnown' /\ SlotExclusion'
      BY <1>7, <2>2 DEF Answer, RequestKnown, SlotExclusion, TypeOK, CallerSlot
    <3>4. ResponseMatchesSlot'
      BY <1>7, <2>1, <2>2, <3>1 DEF Answer, ResponseMatchesSlot, TypeOK
    <3>5. QED
      BY <3>2, <3>3, <3>4
  <2>3. CASE UNCHANGED <<response, pc>>
    BY <1>7, <2>1, <2>3
    DEF Answer, TypeOK, RequestKnown, SlotExclusion, ResponseMatchesSlot, CallerSlot
  <2>4. QED
    BY <2>2, <2>3 DEF ResponseReport
<1>8. CASE UNCHANGED vars
  BY <1>8 DEF vars, slots, history, TypeOK, RequestKnown, SlotExclusion, ResponseMatchesSlot, CallerSlot
<1>9. QED
  BY <1>1, <1>2, <1>3, <1>4, <1>5, <1>6, <1>7, <1>8 DEF Next

(* The inductive invariant holds in every reachable state. *)
LEMMA Invariance == Spec => []IInv
<1>1. Init => IInv
  BY InitIInv
<1>2. IInv /\ [Next]_vars => IInv'
  BY NextIInv
<1>3. QED
  BY <1>1, <1>2, PTL DEF Spec

(***************************************************************************)
(* The fields of the device and of its callers keep their types; a stored  *)
(* answer is always one to a request of this software.                     *)
(***************************************************************************)
THEOREM TypeCorrect == Spec => []TypeOK
<1>1. IInv => TypeOK
  BY DEF IInv
<1>2. QED
  BY <1>1, Invariance, PTL

(***************************************************************************)
(* One caller per slot: no two threads ever wait in the same slot, and the *)
(* slot names the feature of the thread that waits in it.                  *)
(***************************************************************************)
THEOREM OneCallerPerSlot == Spec => []SlotExclusion
<1>1. IInv => SlotExclusion
  BY DEF IInv
<1>2. QED
  BY <1>1, Invariance, PTL

(***************************************************************************)
(* The answer in a slot is for the feature the slot is taken for, so no    *)
(* caller ever finds the answer of the slot's previous owner.              *)
(***************************************************************************)
THEOREM AnswersMatchSlots == Spec => []ResponseMatchesSlot
<1>1. IInv => ResponseMatchesSlot
  BY DEF IInv
<1>2. QED
  BY <1>1, Invariance, PTL

(***************************************************************************)
(* Every step that empties a slot holding an answer is the return, with    *)
(* that answer, of the thread that waits in it.                            *)
(***************************************************************************)
THEOREM AnswersAreReturned == Spec => StoredAnswerIsReturned
<1> DEFINE Kept == \A s \in Slots :
                      response[s] # None /\ response'[s] = None =>
                        \E c \in Waiting(s) : pc'[c] = "idle" /\ result'[c] = response[s]
<1>1. IInv /\ [Next]_vars => [Kept]_vars
  <2> SUFFICES ASSUME IInv, Next, NEW s \in Slots, response[s] # None, response'[s] = None
               PROVE  \E c \in Waiting(s) : pc'[c] = "idle" /\ result'[c] = response[s]
    OBVIOUS
  <2>1. ASSUME NEW c \in Callers, Return(c) \/ Timeout(c)
        PROVE  \E d \in Waiting(s) : pc'[d] = "idle" /\ result'[d] = response[s]
    <3>1. request[c] \in Calls /\ CallerSlot(c) \in Slots
      BY <2>1, CallerSlotInRange DEF Return, Timeout, RequestKnown, IInv
    <3>2. CallerSlot(c) = s
      BY <2>1, <3>1 DEF Return, Timeout, Reset, IInv, TypeOK
    <3>3. Return(c)
      BY <2>1, <3>2 DEF Timeout
    <3>4. c \in Waiting(s) /\ pc'[c] = "idle" /\ result'[c] = response[s]
      BY <3>2, <3>3 DEF Return, Waiting, IInv, TypeOK
    <3>5. QED
      BY <3>4
  <2>2. ASSUME NEW r \in wire, Answer(r) PROVE FALSE
    <3> PICK k \in Kinds : ResponseReport([to |-> r, kind |-> k])
      BY <2>2 DEF Answer
    <3>1. [to |-> r, kind |-> k] # None \/ UNCHANGED response
      BY AnswersAssumption, <2>2 DEF ResponseReport, Accepts, Answers, Calls, Requests, IInv, TypeOK
    <3>2. QED
      BY <3>1 DEF ResponseReport, IInv, TypeOK
  <2>3. QED
    BY <2>1, <2>2
    DEF Next, Call, CallNoACK, Sleep, SpuriousWakeup, Send, SendFails, slots
<1>2. QED
  BY <1>1, Invariance, PTL DEF Spec, StoredAnswerIsReturned

-----------------------------------------------------------------------------
(* A slot is taken only for a feature that belongs to it. *)
SlotOfFeature == \A s \in Slots : feature[s] # None => SlotOf(feature[s]) = s

(* Requests that may still be answered, or whose answer is not collected. *)
Pending(r) == r \in wire \/ \E s \in Slots : response[s] # None /\ response[s].to = r

(* Behind every such request there is the thread that waits for its answer, *)
(* unless the thread has left without it. *)
AskedOrAbandoned ==
    \A r \in Calls : Pending(r) =>
        r \in abandoned \/ \E c \in Callers : pc[c] = "sent" /\ request[c] = r

(* The numbers of the requests in use have been given out. *)
NumbersUsed ==
    /\ \A c \in Callers : pc[c] # "idle" => request[c].id <= calls
    /\ \A r \in Requests : Pending(r) => r.id <= calls

(* No request is made twice, none is pending before it is written, and none *)
(* is answered twice. *)
AskedOnce ==
    /\ \A c, d \in Callers :
          pc[c] # "idle" /\ pc[d] # "idle" /\ request[c] = request[d] => c = d
    /\ \A c \in Callers : pc[c] \in {"enter", "asleep"} => ~Pending(request[c])
    /\ \A s \in Slots : response[s] # None => response[s].to \notin wire

\* The inductive invariant of the answers, beside IInv.
Traced == SlotOfFeature /\ AskedOrAbandoned /\ NumbersUsed /\ AskedOnce /\ OwnAnswerOrLate

\* Before the first call, nothing was asked.
LEMMA InitTraced == Init => Traced
  BY DEF Init, Traced, SlotOfFeature, AskedOrAbandoned, NumbersUsed, AskedOnce,
         OwnAnswerOrLate, Pending, Failures

(* What a slot holds was asked by the thread that waits on it, or was given *)
(* up by a thread that called the same feature. *)
LEMMA StoredIsOwnOrLate ==
    ASSUME IInv, Traced, NEW c \in Callers, pc[c] = "sent", response[CallerSlot(c)] # None
    PROVE  /\ response[CallerSlot(c)] \in Answers
           /\ response[CallerSlot(c)].to.feature = request[c].feature
           /\ \/ response[CallerSlot(c)].to = request[c]
              \/ response[CallerSlot(c)].to \in abandoned
<1> DEFINE s == CallerSlot(c)
           rep == response[s]
<1>1. request[c] \in Calls /\ s \in Slots
  BY CallerSlotInRange DEF IInv, RequestKnown
<1>2. rep \in Answers /\ rep.to \in Calls
  BY <1>1 DEF IInv, TypeOK, Answers
<1>3. rep.to.feature = request[c].feature
  BY <1>1 DEF IInv, ResponseMatchesSlot, SlotExclusion
<1>4. ASSUME NEW d \in Callers, pc[d] = "sent", request[d] = rep.to
      PROVE  rep.to = request[c]
  <2>1. CallerSlot(d) = CallerSlot(c)
    BY <1>3, <1>4 DEF CallerSlot
  <2>2. QED
    BY <1>4, <2>1 DEF IInv, SlotExclusion
<1>5. Pending(rep.to)
  BY <1>1 DEF Pending
<1>6. QED
  BY <1>2, <1>3, <1>4, <1>5 DEF Traced, AskedOrAbandoned

(* Every step preserves the link between requests and threads. *)
LEMMA NextTraced == IInv /\ Traced /\ [Next]_vars => Traced'
<1> SUFFICES ASSUME IInv, Traced, [Next]_vars PROVE Traced'
  OBVIOUS
<1> USE DEF Traced
<1>0. TypeOK /\ RequestKnown /\ calls \in Nat
  BY MaxCallsAssumption DEF IInv, TypeOK
<1>1. ASSUME NEW c \in Callers, NEW f \in MayCall[c], Call(c, f) PROVE Traced'
  <2>1. /\ pc[c] = "idle" /\ pc' = [pc EXCEPT ![c] = "enter"]
        /\ request' = [request EXCEPT ![c] = [id |-> calls + 1, feature |-> f, swId |-> "logid"]]
        /\ result' = [result EXCEPT ![c] = None]
        /\ calls' = calls + 1
        /\ UNCHANGED <<feature, response, wire, abandoned>>
    BY <1>1 DEF Call, slots, history
  <2>2. request'[c].id = calls + 1 /\ request'[c] \in Requests
    <3>1. f \in Features
      BY MayCallAssumption
    <3>2. calls + 1 \in Ids
      BY <1>0, <1>1, MaxCallsAssumption DEF TypeOK, Call, Ids
    <3>3. request'[c] = [id |-> calls + 1, feature |-> f, swId |-> "logid"]
      BY <1>0, <2>1 DEF TypeOK
    <3>4. QED
      BY <3>1, <3>2, <3>3 DEF Requests
  <2>3. ~Pending(request'[c])
    BY <1>0, <2>2 DEF NumbersUsed
  <2>4. \A r : Pending(r)' <=> Pending(r)
    BY <2>1 DEF Pending
  <2>5. SlotOfFeature' /\ OwnAnswerOrLate'
    BY <1>0, <2>1 DEF SlotOfFeature, OwnAnswerOrLate, TypeOK, Failures
  <2>6. AskedOrAbandoned'
    BY <1>0, <2>1, <2>4 DEF AskedOrAbandoned, TypeOK
  <2>7. NumbersUsed'
    <3>1. ASSUME NEW d \in Callers, pc'[d] # "idle" PROVE request'[d].id <= calls'
      BY <1>0, <2>1, <2>2, <3>1 DEF NumbersUsed, TypeOK, RequestKnown, Calls, Ids
    <3>2. ASSUME NEW r \in Requests, Pending(r)' PROVE r.id <= calls'
      BY <1>0, <2>1, <2>4, <3>2 DEF NumbersUsed, Requests, Ids
    <3>3. QED
      BY <3>1, <3>2 DEF NumbersUsed
  <2>8. AskedOnce'
    <3>1. ASSUME NEW d \in Callers, d # c, pc[d] # "idle" PROVE request[d] # request'[c]
      BY <1>0, <2>2, <3>1 DEF NumbersUsed
    <3>2. QED
      BY <1>0, <2>1, <2>3, <2>4, <3>1 DEF AskedOnce, TypeOK
  <2>9. QED
    BY <2>5, <2>6, <2>7, <2>8
<1>2. ASSUME NEW c \in Callers, NEW f \in MayCall[c], CallNoACK(c, f) PROVE Traced'
  <2> DEFINE new == [id |-> calls + 1, feature |-> f, swId |-> "noack"]
  <2>1. /\ wire' = wire \cup {new} /\ calls' = calls + 1
        /\ UNCHANGED <<feature, response, pc, request, result, abandoned>>
    BY <1>2 DEF CallNoACK, slots, history
  <2>2. \A r : Pending(r)' <=> Pending(r) \/ r = new
    BY <2>1 DEF Pending
  <2>3. new \notin Calls
    BY DEF Calls
  <2>4. SlotOfFeature' /\ OwnAnswerOrLate' /\ AskedOrAbandoned'
    BY <2>1, <2>2, <2>3 DEF SlotOfFeature, OwnAnswerOrLate, AskedOrAbandoned
  <2>5. NumbersUsed'
    BY <1>0, <2>1, <2>2 DEF NumbersUsed, RequestKnown, Calls, Requests, Ids
  <2>6. AskedOnce'
    BY <1>0, <2>1, <2>2, <2>3 DEF AskedOnce, TypeOK, RequestKnown, Answers
  <2>7. QED
    BY <2>4, <2>5, <2>6
<1>3. ASSUME NEW c \in Callers, Sleep(c) \/ SpuriousWakeup(c) PROVE Traced'
  <2>1. /\ pc[c] \in {"enter", "asleep"} /\ \E l \in {"enter", "asleep"} : pc' = [pc EXCEPT ![c] = l]
        /\ UNCHANGED <<feature, response, request, result, calls, wire, abandoned>>
    BY <1>3 DEF Sleep, SpuriousWakeup, slots, history
  <2>2. \A r : Pending(r)' <=> Pending(r)
    BY <2>1 DEF Pending
  <2>3. SlotOfFeature' /\ OwnAnswerOrLate' /\ AskedOrAbandoned' /\ NumbersUsed' /\ AskedOnce'
    BY <1>0, <2>1, <2>2
    DEF SlotOfFeature, OwnAnswerOrLate, AskedOrAbandoned, NumbersUsed, AskedOnce, TypeOK
  <2>4. QED
    BY <2>3
<1>4. ASSUME NEW c \in Callers, Send(c) PROVE Traced'
  <2>1. /\ pc[c] = "enter" /\ pc' = [pc EXCEPT ![c] = "sent"]
        /\ feature' = [feature EXCEPT ![CallerSlot(c)] = request[c].feature]
        /\ wire' = wire \cup {request[c]}
        /\ UNCHANGED <<response, request, result, calls, abandoned>>
    BY <1>4 DEF Send, history
  <2>2. request[c] \in Calls /\ CallerSlot(c) \in Slots
    BY <1>0, <2>1, CallerSlotInRange DEF RequestKnown
  <2>3. \A r : Pending(r)' <=> Pending(r) \/ r = request[c]
    BY <2>1 DEF Pending
  <2>4. SlotOfFeature'
    BY <1>0, <2>1, <2>2 DEF SlotOfFeature, CallerSlot, TypeOK
  <2>5. OwnAnswerOrLate' /\ AskedOrAbandoned'
    BY <1>0, <2>1, <2>3 DEF OwnAnswerOrLate, AskedOrAbandoned, TypeOK
  <2>6. NumbersUsed'
    BY <1>0, <2>1, <2>3 DEF NumbersUsed, TypeOK
  <2>7. AskedOnce'
    BY <1>0, <2>1, <2>3 DEF AskedOnce, TypeOK, Pending
  <2>8. QED
    BY <2>4, <2>5, <2>6, <2>7
<1>5. ASSUME NEW c \in Callers, SendFails(c) PROVE Traced'
  <2>1. /\ pc[c] = "enter" /\ pc' = [pc EXCEPT ![c] = "idle"]
        /\ feature' = [feature EXCEPT ![CallerSlot(c)] = request[c].feature]
        /\ result' = [result EXCEPT ![c] = SystemError]
        /\ UNCHANGED <<response, request, calls, wire, abandoned>>
    BY <1>5 DEF SendFails
  <2>2. request[c] \in Calls /\ CallerSlot(c) \in Slots
    BY <1>0, <2>1, CallerSlotInRange DEF RequestKnown
  <2>3. \A r : Pending(r)' <=> Pending(r)
    BY <2>1 DEF Pending
  <2>4. SlotOfFeature'
    BY <1>0, <2>1, <2>2 DEF SlotOfFeature, CallerSlot, TypeOK
  <2>5. OwnAnswerOrLate'
    BY <1>0, <2>1 DEF OwnAnswerOrLate, TypeOK, Failures
  <2>6. AskedOrAbandoned' /\ NumbersUsed' /\ AskedOnce'
    BY <1>0, <2>1, <2>3 DEF AskedOrAbandoned, NumbersUsed, AskedOnce, TypeOK
  <2>7. QED
    BY <2>4, <2>5, <2>6
<1>6. ASSUME NEW c \in Callers, Return(c) \/ Timeout(c) PROVE Traced'
  <2> DEFINE s == CallerSlot(c)
  <2>1. /\ pc[c] = "sent" /\ pc' = [pc EXCEPT ![c] = "idle"]
        /\ feature' = [feature EXCEPT ![s] = None] /\ response' = [response EXCEPT ![s] = None]
        /\ UNCHANGED <<request, calls, wire>>
    BY <1>6 DEF Return, Timeout, Reset
  <2>2. request[c] \in Calls /\ s \in Slots
    BY <1>0, <2>1, CallerSlotInRange DEF RequestKnown
  <2>3. \A r : Pending(r)' => Pending(r)
    BY <1>0, <2>1, <2>2 DEF Pending, TypeOK
  <2>4. abandoned \subseteq abandoned' /\ (Pending(request[c])' => request[c] \in abandoned')
    <3>1. CASE response[s] # None /\ response[s].to = request[c]
      <4>1. request[c] \notin wire
        BY <2>2, <3>1 DEF AskedOnce
      <4>2. ASSUME NEW t \in Slots, response'[t] # None, response'[t].to = request[c] PROVE FALSE
        <5>1. t # s /\ response[t] = response'[t] /\ feature[t] = request[c].feature
          BY <1>0, <2>1, <2>2, <4>2 DEF TypeOK, IInv, ResponseMatchesSlot
        <5>2. SlotOf(request[c].feature) = t
          BY <2>2, <5>1, FeaturesAssumption DEF SlotOfFeature, Calls
        <5>3. QED
          BY <5>1, <5>2 DEF CallerSlot
      <4>3. ~Pending(request[c])'
        BY <2>1, <4>1, <4>2 DEF Pending
      <4>4. QED
        BY <1>6, <4>3 DEF Return, Timeout
    <3>2. CASE response[s] = None \/ response[s].to # request[c]
      BY <1>6, <3>2 DEF Return, Timeout
    <3>3. QED
      BY <3>1, <3>2
  <2>5. SlotOfFeature'
    BY <1>0, <2>1, <2>2 DEF SlotOfFeature, TypeOK
  <2>6. AskedOrAbandoned'
    BY <1>0, <2>1, <2>3, <2>4 DEF AskedOrAbandoned, TypeOK
  <2>7. NumbersUsed'
    BY <1>0, <2>1, <2>3 DEF NumbersUsed, TypeOK
  <2>8. AskedOnce'
    BY <1>0, <2>1, <2>2, <2>3 DEF AskedOnce, TypeOK
  <2>9. OwnAnswerOrLate'
    <3>1. ASSUME NEW d \in Callers, d # c PROVE pc'[d] = pc[d] /\ result'[d] = result[d]
      BY <1>0, <1>6, <3>1 DEF Return, Timeout, TypeOK
    <3>2. CASE Return(c)
      <4>1. result'[c] = response[s] /\ response[s] # None
        BY <1>0, <3>2 DEF Return, TypeOK
      <4>2. QED
        BY <2>1, <2>4, <3>1, <4>1, StoredIsOwnOrLate DEF OwnAnswerOrLate
    <3>3. CASE Timeout(c)
      BY <1>0, <2>1, <2>4, <3>1, <3>3 DEF Timeout, OwnAnswerOrLate, Failures, TypeOK
    <3>4. QED
      BY <1>6, <3>2, <3>3
  <2>10. QED
    BY <2>5, <2>6, <2>7, <2>8, <2>9
<1>7. ASSUME NEW r \in wire, Answer(r) PROVE Traced'
  <2> PICK k \in Kinds : ResponseReport([to |-> r, kind |-> k])
    BY <1>7 DEF Answer
  <2> DEFINE rep == [to |-> r, kind |-> k]
             s == SlotOf(ReportFeature(rep))
  <2>1. wire' = wire \ {r} /\ UNCHANGED <<feature, request, result, calls, abandoned>>
    BY <1>7 DEF Answer
  <2>2. rep \in Reports /\ s \in Slots
    BY <1>0, ReportSlotInRange DEF Reports, TypeOK
  <2>3. /\ response' = response \/ response' = [response EXCEPT ![s] = rep]
        /\ \A c \in Callers : /\ pc'[c] = "sent" <=> pc[c] = "sent"
                              /\ pc'[c] = "idle" <=> pc[c] = "idle"
    BY <1>0 DEF ResponseReport, TypeOK
  <2>4. rep # None => rep.to = r
    OBVIOUS
  <2>5. \A q : Pending(q)' => Pending(q)
    BY <1>0, <2>1, <2>2, <2>3 DEF Pending, TypeOK
  <2>6. SlotOfFeature' /\ OwnAnswerOrLate'
    BY <2>1, <2>3 DEF SlotOfFeature, OwnAnswerOrLate
  <2>7. AskedOrAbandoned' /\ NumbersUsed'
    BY <1>0, <2>1, <2>3, <2>5 DEF AskedOrAbandoned, NumbersUsed, TypeOK
  <2>8. AskedOnce'
    <3>1. \A c \in Callers : pc'[c] \in {"enter", "asleep"} => pc[c] \in {"enter", "asleep"}
      BY <1>0, <2>3 DEF ResponseReport, TypeOK
    <3>2. \A t \in Slots : response'[t] # None => response'[t].to \notin wire'
      BY <1>0, <2>1, <2>2, <2>3 DEF AskedOnce, TypeOK
    <3>3. QED
      BY <2>1, <2>3, <2>5, <3>1, <3>2 DEF AskedOnce
  <2>9. QED
    BY <2>6, <2>7, <2>8
<1>8. CASE UNCHANGED vars
  BY <1>8
  DEF vars, slots, history, SlotOfFeature, AskedOrAbandoned, NumbersUsed, AskedOnce,
      OwnAnswerOrLate, Pending
<1>9. QED
  BY <1>1, <1>2, <1>3, <1>4, <1>5, <1>6, <1>7, <1>8 DEF Next

(***************************************************************************)
(* A call that ends with an answer ends with the answer to its own         *)
(* request, or with the late answer to an earlier call of the same feature *)
(* that had ended without its own.                                         *)
(***************************************************************************)
THEOREM OwnOrLate == Spec => []OwnAnswerOrLate
<1>1. Init => Traced
  BY InitTraced
<1>2. IInv /\ Traced /\ [Next]_vars => Traced'
  BY NextTraced
<1>3. Traced => OwnAnswerOrLate
  BY DEF Traced
<1>4. QED
  BY <1>1, <1>2, <1>3, Invariance, PTL DEF Spec

-----------------------------------------------------------------------------
(* The owner of a slot, as the abstract specification sees it. *)
OwnerRule ==
    /\ \A s \in Slots : feature[s] = None => OwnerOf(s) = "free"
    /\ \A s \in Slots : feature[s] # None /\ Waiting(s) = {} => OwnerOf(s) = "lost"
    /\ \A c \in Callers : pc[c] = "sent" => OwnerOf(CallerSlot(c)) = c
    /\ \A s \in Slots, c \in Callers : OwnerOf(s) = c => pc[c] = "sent" /\ CallerSlot(c) = s

\* OwnerRule follows from what the slots hold.
LEMMA OwnerKnown == IInv => OwnerRule
<1> SUFFICES ASSUME IInv PROVE OwnerRule
  OBVIOUS
<1>1. \A s \in Slots : feature[s] = None => OwnerOf(s) = "free"
  BY DEF OwnerOf
<1>2. \A s \in Slots : feature[s] # None /\ Waiting(s) = {} => OwnerOf(s) = "lost"
  BY DEF OwnerOf
<1>3. ASSUME NEW c \in Callers, pc[c] = "sent" PROVE OwnerOf(CallerSlot(c)) = c
  <2> DEFINE s == CallerSlot(c)
  <2>1. s \in Slots /\ feature[s] # None
    BY <1>3, CallerSlotInRange DEF IInv, RequestKnown, SlotExclusion
  <2>2. c \in Waiting(s) /\ \A d \in Callers : d \in Waiting(s) => d = c
    BY <1>3 DEF Waiting, IInv, SlotExclusion
  <2>3. (CHOOSE d \in Callers : d \in Waiting(s)) = c
    BY <2>2
  <2>4. QED
    BY <2>1, <2>2, <2>3 DEF OwnerOf
<1>4. ASSUME NEW s \in Slots, NEW c \in Callers, OwnerOf(s) = c
      PROVE  pc[c] = "sent" /\ CallerSlot(c) = s
  <2>1. OwnerOf(s) \notin {"free", "lost"}
    BY <1>4, CallersAssumption
  <2>2. Waiting(s) # {} /\ OwnerOf(s) = CHOOSE d \in Callers : d \in Waiting(s)
    BY <2>1 DEF OwnerOf
  <2>3. PICK d \in Callers : d \in Waiting(s)
    BY <2>2 DEF Waiting
  <2>4. c \in Waiting(s)
    BY <1>4, <2>2, <2>3
  <2>5. QED
    BY <2>4 DEF Waiting
<1>5. QED
  BY <1>1, <1>2, <1>3, <1>4 DEF OwnerRule

\* So it does after a step.
LEMMA OwnerKnownNext == IInv' => OwnerRule'
  BY OwnerKnown, PTL

(* A slot whose feature and waiting threads do not change keeps its owner. *)
LEMMA OwnerKept ==
    ASSUME IInv, IInv', NEW s \in Slots, feature'[s] = feature[s], Waiting(s)' = Waiting(s)
    PROVE  OwnerOf(s)' = OwnerOf(s)
<1>1. OwnerRule /\ OwnerRule'
  BY OwnerKnown, OwnerKnownNext
<1>2. CASE feature[s] = None \/ Waiting(s) = {}
  BY <1>1, <1>2 DEF OwnerRule
<1>3. CASE Waiting(s) # {}
  <2>1. PICK c \in Callers : c \in Waiting(s) /\ c \in Waiting(s)'
    BY <1>3 DEF Waiting
  <2>2. OwnerOf(s) = c /\ OwnerOf(s)' = c
    BY <1>1, <2>1 DEF OwnerRule, Waiting
  <2>3. QED
    BY <2>2
<1>4. QED
  BY <1>2, <1>3

(* The owners of the slots change in one place only. *)
LEMMA OwnersChange ==
    ASSUME IInv, IInv', NEW s \in Slots,
           \A t \in Slots \ {s} : feature'[t] = feature[t] /\ Waiting(t)' = Waiting(t)
    PROVE  [t \in Slots |-> OwnerOf(t)]' = [[t \in Slots |-> OwnerOf(t)] EXCEPT ![s] = OwnerOf(s)']
  BY OwnerKept

LEMMA InitSlots == Init => RS!SlotsInit
<1> SUFFICES ASSUME Init PROVE RS!SlotsInit
  OBVIOUS
<1>1. \A s \in Slots : OwnerOf(s) = "free" /\ response[s] = None
  BY DEF Init, OwnerOf
<1>2. QED
  BY <1>1 DEF RS!SlotsInit

(* Every step is a step of the abstract slots or leaves them alone. *)
LEMMA NextSlots == IInv /\ IInv' /\ [Next]_vars => [RS!SlotsNext]_(RS!rvars)
<1> SUFFICES ASSUME IInv, IInv', [Next]_vars PROVE [RS!SlotsNext]_(RS!rvars)
  OBVIOUS
<1> DEFINE owner == [t \in Slots |-> OwnerOf(t)]
           answered == {t \in Slots : response[t] # None}
<1>0. TypeOK /\ RequestKnown /\ OwnerRule /\ OwnerRule'
  BY OwnerKnown, OwnerKnownNext DEF IInv
<1>1. ASSUME feature' = feature, \A s \in Slots : Waiting(s)' = Waiting(s)
      PROVE  owner' = owner
  BY <1>1, OwnerKept
<1>2. CASE UNCHANGED <<slots, pc, request>>
  <2>1. UNCHANGED owner
    BY <1>1, <1>2 DEF slots, Waiting, CallerSlot
  <2>2. QED
    BY <1>2, <2>1 DEF slots, RS!rvars
<1>3. ASSUME NEW c \in Callers, NEW f \in MayCall[c], Call(c, f)
      PROVE  [RS!SlotsNext]_(RS!rvars)
  <2>1. \A s \in Slots : Waiting(s)' = Waiting(s)
    BY <1>0, <1>3 DEF Call, Waiting, CallerSlot, TypeOK
  <2>2. QED
    BY <1>1, <1>3, <2>1 DEF Call, slots, RS!rvars
<1>4. ASSUME NEW c \in Callers, Sleep(c) \/ SpuriousWakeup(c)
      PROVE  [RS!SlotsNext]_(RS!rvars)
  <2>1. \A s \in Slots : Waiting(s)' = Waiting(s)
    BY <1>0, <1>4 DEF Sleep, SpuriousWakeup, Waiting, CallerSlot, TypeOK
  <2>2. QED
    BY <1>1, <1>4, <2>1 DEF Sleep, SpuriousWakeup, slots, RS!rvars
<1>5. ASSUME NEW c \in Callers, Send(c) PROVE RS!SlotsNext
  <2> PICK s \in Slots : s = CallerSlot(c)
    BY <1>0, <1>5, CallerSlotInRange DEF Send, RequestKnown
  <2>1. pc[c] = "enter" /\ pc'[c] = "sent" /\ feature[s] = None
    BY <1>0, <1>5 DEF Send, SlotFree, TypeOK
  <2>2. \A t \in Slots \ {s} : feature'[t] = feature[t] /\ Waiting(t)' = Waiting(t)
    BY <1>0, <1>5, <2>1 DEF Send, Waiting, CallerSlot, TypeOK
  <2>3. OwnerOf(s)' = c
    BY <1>0, <1>5, <2>1 DEF OwnerRule, Send, CallerSlot
  <2>4. owner' = [owner EXCEPT ![s] = c]
    BY <2>1, <2>2, <2>3, OwnersChange
  <2>5. owner[s] = "free" /\ \A t \in Slots : owner[t] # c
    BY <1>0, <2>1 DEF OwnerRule
  <2>6. RS!Take(c, s)
    BY <1>5, <2>1, <2>4, <2>5 DEF RS!Take, Send
  <2>7. QED
    BY <2>1, <2>6 DEF RS!SlotsNext
<1>6. ASSUME NEW c \in Callers, SendFails(c) PROVE RS!SlotsNext
  <2> PICK s \in Slots : s = CallerSlot(c)
    BY <1>0, <1>6, CallerSlotInRange DEF SendFails, RequestKnown
  <2>1. /\ pc[c] = "enter" /\ feature[s] = None
        /\ request[c].feature # None /\ feature'[s] # None
    BY <1>0, <1>6, CallerSlotInRange DEF SendFails, SlotFree, RequestKnown, TypeOK
  <2>2. \A t \in Slots : Waiting(t)' = Waiting(t)
    BY <1>0, <1>6, <2>1 DEF SendFails, Waiting, CallerSlot, TypeOK
  <2>3. \A t \in Slots \ {s} : feature'[t] = feature[t]
    BY <1>0, <1>6 DEF SendFails, TypeOK
  <2>4. Waiting(s) = {}
    BY <1>0, <2>1, CallerSlotInRange DEF Waiting, IInv, SlotExclusion, RequestKnown
  <2>5. OwnerOf(s)' = "lost"
    BY <1>0, <2>1, <2>2, <2>4 DEF OwnerRule
  <2>6. owner' = [owner EXCEPT ![s] = "lost"]
    BY <2>1, <2>2, <2>3, <2>5, OwnersChange
  <2>7. RS!Lose(s)
    BY <1>0, <1>6, <2>1, <2>6 DEF RS!Lose, SendFails, OwnerRule
  <2>8. QED
    BY <2>1, <2>7 DEF RS!SlotsNext
<1>7. ASSUME NEW c \in Callers, Return(c) \/ Timeout(c) PROVE RS!SlotsNext
  <2> PICK s \in Slots : s = CallerSlot(c)
    BY <1>0, <1>7, CallerSlotInRange DEF Return, Timeout, RequestKnown
  <2>1. /\ pc[c] = "sent" /\ pc' = [pc EXCEPT ![c] = "idle"] /\ request' = request
        /\ feature' = [feature EXCEPT ![s] = None] /\ response' = [response EXCEPT ![s] = None]
    BY <1>7 DEF Return, Timeout, Reset
  <2>2. \A t \in Slots \ {s} : feature'[t] = feature[t] /\ Waiting(t)' = Waiting(t)
    BY <1>0, <2>1 DEF Waiting, CallerSlot, TypeOK
  <2>3. OwnerOf(s)' = "free"
    BY <1>0, <2>1 DEF OwnerRule, TypeOK
  <2>4. owner' = [owner EXCEPT ![s] = "free"]
    BY <2>1, <2>2, <2>3, OwnersChange
  <2>5. owner[s] = c
    BY <1>0, <2>1 DEF OwnerRule
  <2>6. answered' = answered \ {s}
    BY <1>0, <2>1 DEF TypeOK
  <2>7. CASE response[s] # None
    <3>1. RS!Collect(c, s)
      BY <2>1, <2>4, <2>5, <2>6, <2>7 DEF RS!Collect
    <3>2. QED
      BY <2>1, <3>1 DEF RS!SlotsNext
  <2>8. CASE response[s] = None
    <3>1. RS!GiveUp(c, s)
      BY <2>1, <2>4, <2>5, <2>6, <2>8 DEF RS!GiveUp
    <3>2. QED
      BY <2>1, <3>1 DEF RS!SlotsNext
  <2>9. QED
    BY <2>7, <2>8
<1>8. ASSUME NEW r \in wire, Answer(r) PROVE [RS!SlotsNext]_(RS!rvars)
  <2> PICK k \in Kinds : ResponseReport([to |-> r, kind |-> k])
    BY <1>8 DEF Answer
  <2> DEFINE rep == [to |-> r, kind |-> k]
             s == SlotOf(ReportFeature(rep))
  <2>1. rep \in Reports /\ s \in Slots /\ rep.to = r
    BY <1>0, ReportSlotInRange DEF Reports, TypeOK
  <2>2. \A c \in Callers : pc'[c] = "sent" <=> pc[c] = "sent"
    BY <1>0 DEF ResponseReport, TypeOK
  <2>3. owner' = owner
    BY <1>1, <1>8, <2>2 DEF Answer, Waiting, CallerSlot
  <2>4. CASE Accepts(rep) /\ response' = [response EXCEPT ![s] = rep]
    <3>1. rep \in Answers /\ feature[s] # None
      BY <1>0, <2>1, <2>4, FeaturesAssumption DEF Accepts, Answers, Reports, Requests, Calls
    <3>2. rep # None
      BY <3>1, AnswersAssumption
    <3>3. answered' = answered \cup {s}
      BY <1>0, <2>1, <2>4, <3>2 DEF TypeOK
    <3>4. owner[s] # "free"
      BY <2>1, <3>1, CallersAssumption DEF OwnerOf, Waiting
    <3>5. RS!Store(s)
      BY <2>3, <3>3, <3>4 DEF RS!Store
    <3>6. QED
      BY <2>1, <3>5 DEF RS!SlotsNext
  <2>5. CASE UNCHANGED response
    BY <2>3, <2>5 DEF RS!rvars
  <2>6. QED
    BY <2>4, <2>5 DEF ResponseReport
<1>9. QED
  <2>1. ASSUME NEW c \in Callers, NEW f \in MayCall[c], CallNoACK(c, f)
        PROVE  [RS!SlotsNext]_(RS!rvars)
    BY <1>2, <2>1 DEF CallNoACK
  <2>2. CASE UNCHANGED vars
    BY <1>2, <2>2 DEF vars
  <2>3. QED
    BY <1>3, <1>4, <1>5, <1>6, <1>7, <1>8, <2>1, <2>2 DEF Next

(***************************************************************************)
(* The array of slots implements ResponseSlots, for any number of threads  *)
(* and slots: one owner at a time, who leaves with the answer if there is  *)
(* one; the other ways out are the timeout and the failed write.           *)
(***************************************************************************)
THEOREM SlotsRefinement == Spec => SlotsImplemented
<1>1. Init => RS!SlotsInit
  BY InitSlots
<1>2. IInv /\ IInv' /\ [Next]_vars => [RS!SlotsNext]_(RS!rvars)
  BY NextSlots
<1>3. QED
  BY <1>1, <1>2, Invariance, PTL DEF Spec, SlotsImplemented, RS!SlotsSpec
=============================================================================
