---------------------------- MODULE Hidpp20Device ----------------------------
(***************************************************************************)
(* The request/response correlation of a HID++ 2.0 device                  *)
(* (backend/hidpp20/Device.cpp).                                           *)
(*                                                                         *)
(* Any thread of the daemon (the workers, the D-Bus thread, the I/O        *)
(* thread) may call sendReport. The answer is matched by feature index and *)
(* software ID in one of 16 slots, chosen by the low nibble of the feature *)
(* index; one mutex (_response_mutex) and one condition variable           *)
(* (_response_cv) serve all the slots. The mutex is held from the moment a *)
(* caller finds its slot free until it blocks for the answer, so taking    *)
(* the slot and writing the request is one step.                           *)
(***************************************************************************)
EXTENDS Naturals, FiniteSets

CONSTANTS Callers,    \* threads
          Features,   \* feature indices, 0..255
          MayCall,    \* [Callers -> SUBSET Features]: what each thread calls
          NumSlots,   \* size of _responses, 16 in the code
          ErrorID,    \* hidpp20::ErrorID, 0xff: the feature byte of an error report
          MaxCalls,   \* bound: requests made in a behaviour
          TimeoutError, \* the exception thrown after io_timeout
          SystemError,  \* the std::system_error of a failed write
          None        \* an empty std::optional

ASSUME NumSlotsAssumption == NumSlots \in Nat \ {0}
ASSUME FeaturesAssumption == Features \subseteq Nat /\ ErrorID \in Nat /\ None \notin Nat
ASSUME MayCallAssumption  == MayCall \in [Callers -> SUBSET Features]
ASSUME MaxCallsAssumption == MaxCalls \in Nat
ASSUME TokensAssumption   == TimeoutError # SystemError /\ None \notin {TimeoutError, SystemError}
ASSUME CallersAssumption  == {"free", "lost"} \cap Callers = {}

VARIABLES feature,    \* ResponseSlot::feature of each slot
          response,   \* ResponseSlot::response of each slot
          pc,         \* where each thread is in sendReport
          request,    \* the request of the thread's current or last call
          result,     \* how the thread's last call ended
          calls,      \* number of requests made; identifies them
          wire,       \* requests written to the device and not answered
          seen,       \* history: the reports the I/O thread has handled
          abandoned,  \* history: requests whose call ended without their answer
          failed      \* history: requests whose write failed

slots == <<feature, response>>
history == <<seen, abandoned, failed>>
vars == <<slots, pc, request, result, calls, wire, history>>

Slots == 0 .. NumSlots - 1
Ids == 1 .. MaxCalls

\* "logid" is hidpp::softwareID, "noack" is hidpp::noAckSoftwareID.
Requests == [id : Ids, feature : Features, swId : {"logid", "noack"}]
Calls    == [id : Ids, feature : Features, swId : {"logid"}]
Kinds    == {"response", "error"}
Reports  == [to : Requests, kind : Kinds]
Answers  == [to : Calls, kind : Kinds]
Failures == {TimeoutError, SystemError}

\* An empty optional or an exception is not taken for an answer.
ASSUME AnswersAssumption == (Failures \cup {None}) \cap Answers = {} /\ None \notin Calls

SlotOf(f) == f % NumSlots
CallerSlot(c) == SlotOf(request[c].feature)

\* Report::feature(): an error report has ErrorID where an answer has the
\* feature index.
ReportFeature(rep) == IF rep.kind = "error" THEN ErrorID ELSE rep.to.feature

TypeOK ==
    /\ feature \in [Slots -> Features \cup {None}]
    /\ response \in [Slots -> Answers \cup {None}]
    /\ pc \in [Callers -> {"idle", "enter", "asleep", "sent"}]
    /\ request \in [Callers -> Calls \cup {None}]
    /\ result \in [Callers -> Answers \cup Failures \cup {None}]
    /\ calls \in 0 .. MaxCalls
    /\ wire \subseteq Requests
    /\ seen \subseteq Reports
    /\ abandoned \subseteq Calls
    /\ failed \subseteq Calls

Init ==
    /\ feature = [s \in Slots |-> None]
    /\ response = [s \in Slots |-> None]
    /\ pc = [c \in Callers |-> "idle"]
    /\ request = [c \in Callers |-> None]
    /\ result = [c \in Callers |-> None]
    /\ calls = 0
    /\ wire = {}
    /\ seen = {}
    /\ abandoned = {}
    /\ failed = {}

\* A thread enters sendReport and contends for _response_mutex.
Call(c, f) ==
    /\ pc[c] = "idle"
    /\ calls < MaxCalls
    /\ calls' = calls + 1
    /\ request' = [request EXCEPT ![c] = [id |-> calls + 1, feature |-> f, swId |-> "logid"]]
    /\ result' = [result EXCEPT ![c] = None]
    /\ pc' = [pc EXCEPT ![c] = "enter"]
    /\ UNCHANGED <<slots, wire, history>>

\* sendReportNoACK: the request goes out under another software ID and no
\* slot is taken; the device may answer all the same.
CallNoACK(c, f) ==
    /\ pc[c] = "idle"
    /\ calls < MaxCalls
    /\ calls' = calls + 1
    /\ wire' = wire \cup {[id |-> calls + 1, feature |-> f, swId |-> "noack"]}
    /\ UNCHANGED <<slots, pc, request, result, history>>

\* Mutant: the caller does not wait for the slot.
SlotNotAwaited(c) == CallerSlot(c) \in Slots

\* The test _response_cv.wait makes before a caller goes on.
SlotFree(c) == feature[CallerSlot(c)] = None

\* The slot is in use: _response_cv.wait releases the mutex and sleeps.
Sleep(c) ==
    /\ pc[c] = "enter"
    /\ ~SlotFree(c)
    /\ pc' = [pc EXCEPT ![c] = "asleep"]
    /\ UNCHANGED <<slots, request, result, calls, wire, history>>

\* A condition variable may wake a waiter without being notified.
SpuriousWakeup(c) ==
    /\ pc[c] = "asleep"
    /\ pc' = [pc EXCEPT ![c] = "enter"]
    /\ UNCHANGED <<slots, request, result, calls, wire, history>>

\* The slot is free: take it, write the request, block for the answer. A
\* request that RawDevice::sendReport drops because the node has hung up is
\* one that stays on the wire unanswered.
Send(c) ==
    /\ pc[c] = "enter"
    /\ SlotFree(c)
    /\ feature' = [feature EXCEPT ![CallerSlot(c)] = request[c].feature]
    /\ pc' = [pc EXCEPT ![c] = "sent"]
    /\ wire' = wire \cup {request[c]}
    /\ UNCHANGED <<response, request, result, calls, history>>

\* The write throws std::system_error: the exception leaves sendReport and
\* the slot keeps its feature.
SendFails(c) ==
    /\ pc[c] = "enter"
    /\ SlotFree(c)
    /\ feature' = [feature EXCEPT ![CallerSlot(c)] = request[c].feature]
    /\ pc' = [pc EXCEPT ![c] = "idle"]
    /\ result' = [result EXCEPT ![c] = SystemError]
    /\ failed' = failed \cup {request[c]}
    /\ UNCHANGED <<response, request, calls, wire, seen, abandoned>>

\* Mutant: reset forgets the feature.
ResetResponseOnly(s) ==
    /\ response' = [response EXCEPT ![s] = None]
    /\ UNCHANGED feature

\* ResponseSlot::reset. Nobody is notified of it.
Reset(s) ==
    /\ feature' = [feature EXCEPT ![s] = None]
    /\ response' = [response EXCEPT ![s] = None]

\* The wait ends with an answer: return it, or throw it when it is an error.
Return(c) ==
    /\ pc[c] = "sent"
    /\ response[CallerSlot(c)] # None
    /\ result' = [result EXCEPT ![c] = response[CallerSlot(c)]]
    /\ Reset(CallerSlot(c))
    /\ pc' = [pc EXCEPT ![c] = "idle"]
    /\ abandoned' = IF response[CallerSlot(c)].to = request[c]
                      THEN abandoned ELSE abandoned \cup {request[c]}
    /\ UNCHANGED <<request, calls, wire, seen, failed>>

\* Mutant: the timeout does not look at the slot again.
TimeoutUnchecked(c) ==
    /\ pc[c] = "sent"
    /\ result' = [result EXCEPT ![c] = TimeoutError]
    /\ Reset(CallerSlot(c))
    /\ pc' = [pc EXCEPT ![c] = "idle"]
    /\ abandoned' = abandoned \cup {request[c]}
    /\ UNCHANGED <<request, calls, wire, seen, failed>>

\* The wait ends after io_timeout. wait_for evaluates its predicate once
\* more, so an answer that is already in the slot is not dropped.
Timeout(c) ==
    /\ pc[c] = "sent"
    /\ response[CallerSlot(c)] = None
    /\ result' = [result EXCEPT ![c] = TimeoutError]
    /\ Reset(CallerSlot(c))
    /\ pc' = [pc EXCEPT ![c] = "idle"]
    /\ abandoned' = abandoned \cup {request[c]}
    /\ UNCHANGED <<request, calls, wire, seen, failed>>

\* Mutants: responseReport checks only the feature, or only the software ID.
AcceptsAnySwId(rep) == feature[SlotOf(ReportFeature(rep))] = rep.to.feature
AcceptsAnyFeature(rep) ==
    /\ rep.to.swId = "logid"
    /\ feature[SlotOf(ReportFeature(rep))] # None

\* responseReport accepts a report: ours, and for the feature whose call
\* occupies the slot that the report's feature byte selects.
Accepts(rep) ==
    /\ rep.to.swId = "logid"
    /\ feature[SlotOf(ReportFeature(rep))] = rep.to.feature

\* responseReport stores an accepted report and wakes every waiter; any
\* other report is left to the event handlers.
ResponseReport(rep) ==
    \/ /\ Accepts(rep)
       /\ response' = [response EXCEPT ![SlotOf(ReportFeature(rep))] = rep]
       /\ pc' = [c \in Callers |-> IF pc[c] = "asleep" THEN "enter" ELSE pc[c]]
    \/ /\ ~Accepts(rep)
       /\ UNCHANGED <<response, pc>>

\* The device answers a request it has, in time or late or never, with a
\* response or with an error report; the I/O thread hands it to handleEvent.
Answer(r) ==
    /\ r \in wire
    /\ wire' = wire \ {r}
    /\ \E k \in Kinds :
          /\ ResponseReport([to |-> r, kind |-> k])
          /\ seen' = seen \cup {[to |-> r, kind |-> k]}
    /\ UNCHANGED <<feature, request, result, calls, abandoned, failed>>

Next ==
    \/ \E c \in Callers :
          \/ \E f \in MayCall[c] : Call(c, f) \/ CallNoACK(c, f)
          \/ Sleep(c) \/ SpuriousWakeup(c)
          \/ Send(c) \/ SendFails(c)
          \/ Return(c) \/ Timeout(c)
    \/ \E r \in wire : Answer(r)

Spec == Init /\ [][Next]_vars

\* A thread that can run does run, and a wait with a timeout ends. The
\* device owes nothing, and a spurious wakeup is never owed.
Fairness ==
    \A c \in Callers :
        /\ WF_vars(Sleep(c) \/ Send(c) \/ SendFails(c))
        /\ WF_vars(Return(c) \/ Timeout(c))

FairSpec == Spec /\ Fairness

-----------------------------------------------------------------------------
\* The threads that wait for an answer in slot s.
Waiting(s) == {c \in Callers : pc[c] = "sent" /\ CallerSlot(c) = s}

(***************************************************************************)
(* Two threads never wait for an answer in the same slot, and the slot     *)
(* names the feature its thread called: in Device::sendReport the test for *)
(* a free slot, the store of the feature and the start of the wait are one *)
(* critical section.                                                       *)
(***************************************************************************)
SlotExclusion ==
    /\ \A c \in Callers : pc[c] = "sent" => feature[CallerSlot(c)] = request[c].feature
    /\ \A c, d \in Callers :
          pc[c] = "sent" /\ pc[d] = "sent" /\ CallerSlot(c) = CallerSlot(d) => c = d

(***************************************************************************)
(* What a slot holds was sent in answer to the feature the slot is taken   *)
(* for: responseReport compares it under the mutex, and reset clears both  *)
(* fields together, so the next owner never finds the answer of the last.  *)
(***************************************************************************)
ResponseMatchesSlot ==
    \A s \in Slots : response[s] # None => response[s].to.feature = feature[s]

(***************************************************************************)
(* A call returns the answer to its own request, unless an earlier call of *)
(* the same feature had ended without its answer (a timeout, or a call     *)
(* shifted by a timeout before it): only feature and software ID are       *)
(* compared, so the late answer is then taken for this call's.             *)
(***************************************************************************)
OwnAnswerOrLate ==
    \A c \in Callers :
        pc[c] = "idle" /\ result[c] \notin Failures \cup {None} =>
            \/ result[c].to = request[c]
            \/ /\ result[c].to \in abandoned
               /\ result[c].to.feature = request[c].feature

(***************************************************************************)
(* An answer that reached its slot is not lost: a slot is emptied only by  *)
(* the thread that waits on it, which leaves sendReport with that answer.  *)
(* In particular a timeout that races the answer does not drop it.         *)
(***************************************************************************)
StoredAnswerIsReturned ==
    [][\A s \in Slots :
          response[s] # None /\ response'[s] = None =>
              \E c \in Waiting(s) : pc'[c] = "idle" /\ result'[c] = response[s]]_vars

TimesOut(c) == pc[c] = "sent" /\ pc'[c] = "idle" /\ result'[c] = TimeoutError

(***************************************************************************)
(* A call the device has answered, by a response or by an error, does not  *)
(* time out: the slot of a response is the low nibble of the feature index *)
(* it answers (backend/hidpp20/Device.h).                                  *)
(***************************************************************************)
AnsweredCallReturns ==
    [][\A c \in Callers : TimesOut(c) => \A rep \in seen : rep.to # request[c]]_vars

\* The threads whose slots no other thread uses.
SlotsUsed(c) == {SlotOf(f) : f \in MayCall[c]}
Alone == {c \in Callers : \A d \in Callers \ {c} : SlotsUsed(c) \cap SlotsUsed(d) = {}}

(***************************************************************************)
(* A thread that shares its slots with no other always ends its call,      *)
(* except in a slot that a failed write has left taken.                    *)
(***************************************************************************)
CallEnds ==
    \A c \in Alone :
        pc[c] = "enter" ~>
            \/ pc[c] = "idle"
            \/ \E r \in failed : SlotOf(r.feature) = CallerSlot(c)

-----------------------------------------------------------------------------
\* The slots as the locks of ResponseSlots.
OwnerOf(s) ==
    IF feature[s] = None THEN "free"
    ELSE IF Waiting(s) = {} THEN "lost"
    ELSE CHOOSE c \in Callers : c \in Waiting(s)

RS == INSTANCE ResponseSlots
        WITH Free <- "free", Lost <- "lost",
             owner <- [s \in Slots |-> OwnerOf(s)],
             answered <- {s \in Slots : response[s] # None}

(***************************************************************************)
(* The array of slots behaves as ResponseSlots promises: one owner at a    *)
(* time, an owner leaves with the answer when there is one, and the only   *)
(* other ways out are the timeout without answer and the failed write.     *)
(***************************************************************************)
SlotsImplemented == RS!SlotsSpec
=============================================================================
