-------------------------- MODULE EventHandlerList ---------------------------
(***************************************************************************)
(* The list of event handlers of a raw or of a HID++ device               *)
(* (backend/EventHandlerList.h). Features, receivers and devices register  *)
(* a handler and hold an EventHandlerLock that removes it again; the I/O   *)
(* thread offers every report to the handlers of the list in one round.    *)
(*                                                                         *)
(* A round shares mutex from its first handler to its last, so nothing is  *)
(* erased under it: a handler removed meanwhile is only marked, and the    *)
(* cleanup before a later round erases it. add takes only add_mutex, which *)
(* the round and remove take for a moment each, and cleanup not at all.    *)
(***************************************************************************)
EXTENDS Naturals

CONSTANTS Owners,   \* the objects that hold an EventHandlerLock
          MaxAdds   \* bound: handlers added in a behaviour

ASSUME MaxAddsAssumption == MaxAdds \in Nat
ASSUME OwnersAssumption  == Owners \cap {"free", "round", "cleanup"} = {}

\* A handler is one entry of the list; 0 is none. An entry is always put in
\* front of the others, so the list has them in the order of their numbers,
\* the newest first.
Handlers == 1 .. MaxAdds

VARIABLES
    list,     \* the entries of the list
    active,   \* the entries that are not marked as removed
    added,    \* handlers added so far
    mutex,    \* who has mutex: "free", "round" (shared), "cleanup" or an owner
    handle,   \* [Owners -> Handlers \cup {0}]: what the lock of an owner names
    removal,  \* [Owners -> {"no", "try", "erase", "mark"}]: how far its destructor is
    round,    \* the I/O thread: "idle", "cleanup", "begin", "check", "called", "running"
    at,       \* the entry the round is at, 0 past the end
    orphaned, \* owners that only the callback that runs keeps alive
    offered,  \* history: the entries the round has offered its report to
    newest,   \* history: the last handler added before the round
    due,      \* history: the entries registered since the round began
    torn      \* an add met a cleanup that erases the front entry: "no", "now", "was"

listVars  == <<list, active, added, mutex>>
roundVars == <<round, at, offered>>
handlerVars == <<listVars, handle, removal, roundVars, orphaned, newest, due, torn>>

HandlersInit ==
    /\ list = {} /\ active = {} /\ added = 0
    /\ mutex = "free"
    /\ handle = [o \in Owners |-> 0]
    /\ removal = [o \in Owners |-> "no"]
    /\ round = "idle" /\ at = 0
    /\ orphaned = {} /\ offered = {} /\ newest = 0 /\ due = {}
    /\ torn = "no"

\* The entries behind h; all of them if h is 0.
Behind(h) == {g \in list : h = 0 \/ g < h}

\* The entry after h, the first one if h is 0; past the end of the list, 0.
After(h) == IF Behind(h) = {} THEN {0} ELSE {g \in Behind(h) : \A k \in Behind(h) : k <= g}

-----------------------------------------------------------------------------
(* The owners                                                               *)

\* cleanup erases the front entry just now: it writes the same links as add.
MeetsCleanup == round = "cleanup" /\ \E h \in After(0) \ {0} : h \notin active

\* listen, _ready and the like: an owner whose lock is empty adds its handler
\* in front of the others, and may do so while cleanup walks the list.
add(o) ==
    /\ handle[o] = 0 /\ removal[o] = "no" /\ added < MaxAdds
    /\ added' = added + 1
    /\ list' = list \cup {added + 1}
    /\ active' = active \cup {added + 1}
    /\ handle' = [handle EXCEPT ![o] = added + 1]
    /\ torn' = IF MeetsCleanup THEN "now" ELSE torn
    /\ UNCHANGED <<mutex, removal, roundVars, orphaned, newest, due>>

\* The owner is given up. A callback that runs has a reference to it, so its
\* destructor is left to the I/O thread.
giveUp(o) ==
    /\ handle[o] # 0 /\ removal[o] = "no" /\ o \notin orphaned
    /\ IF round = "running" /\ at = handle[o]
       THEN orphaned' = orphaned \cup {o} /\ UNCHANGED <<removal, due>>
       ELSE /\ removal' = [removal EXCEPT ![o] = "try"]
            /\ due' = due \ {handle[o]}
            /\ UNCHANGED orphaned
    /\ UNCHANGED <<listVars, handle, roundVars, newest, torn>>

\* Mutant: remove does not care for mutex.
tryAtOnce(o) ==
    /\ removal[o] = "try"
    /\ removal' = [removal EXCEPT ![o] = "erase"]
    /\ mutex' = IF mutex = "free" THEN o ELSE mutex
    /\ UNCHANGED <<list, active, added, handle, roundVars, orphaned, newest, due, torn>>

\* remove: try_lock on mutex.
try(o) ==
    /\ removal[o] = "try"
    /\ IF mutex = "free"
       THEN mutex' = o /\ removal' = [removal EXCEPT ![o] = "erase"]
       ELSE mutex' = mutex /\ removal' = [removal EXCEPT ![o] = "mark"]
    /\ UNCHANGED <<list, active, added, handle, roundVars, orphaned, newest, due, torn>>

\* ... with it, the entry is erased.
erase(o) ==
    /\ removal[o] = "erase"
    /\ list' = list \ {handle[o]}
    /\ active' = active \ {handle[o]}
    /\ mutex' = IF mutex = o THEN "free" ELSE mutex
    /\ handle' = [handle EXCEPT ![o] = 0]
    /\ removal' = [removal EXCEPT ![o] = "no"]
    /\ UNCHANGED <<added, roundVars, orphaned, newest, due, torn>>

\* ... without it, the entry is marked.
mark(o) ==
    /\ removal[o] = "mark"
    /\ active' = active \ {handle[o]}
    /\ handle' = [handle EXCEPT ![o] = 0]
    /\ removal' = [removal EXCEPT ![o] = "no"]
    /\ UNCHANGED <<list, added, mutex, roundVars, orphaned, newest, due, torn>>

-----------------------------------------------------------------------------
(* The I/O thread: run_all                                                  *)

\* A report is read; cleanup goes on if it gets mutex for itself.
readReport ==
    /\ round = "idle"
    /\ IF mutex = "free" THEN mutex' = "cleanup" /\ round' = "cleanup"
       ELSE mutex' = mutex /\ round' = "begin"
    /\ UNCHANGED <<list, active, added, handle, removal, at, offered, orphaned, newest, due, torn>>

\* The marked entries are erased. An add that wrote the same links may get lost.
cleanup ==
    /\ round = "cleanup"
    /\ LET left == list \cap active
       IN  list' \in IF torn = "now" THEN {left, left \ After(0)} ELSE {left}
    /\ torn' = IF torn = "now" THEN "was" ELSE torn
    /\ mutex' = "free"
    /\ round' = "begin"
    /\ UNCHANGED <<active, added, handle, removal, at, offered, orphaned, newest, due>>

\* Nobody has begun to remove the handler.
Kept(h) == \E o \in Owners : handle[o] = h /\ removal[o] = "no"

beginRound ==
    /\ round = "begin" /\ mutex = "free"
    /\ mutex' = "round"
    /\ round' = "check" /\ at' \in After(0)
    /\ offered' = {}
    /\ newest' = added
    /\ due' = {h \in list : Kept(h)}
    /\ UNCHANGED <<list, active, added, handle, removal, orphaned, torn>>

\* The handler is called unless it is marked by now.
check ==
    /\ round = "check" /\ at # 0
    /\ IF at \in active
       THEN round' = "called" /\ offered' = offered \cup {at} /\ UNCHANGED at
       ELSE at' \in After(at) /\ UNCHANGED <<round, offered>>
    /\ UNCHANGED <<listVars, handle, removal, orphaned, newest, due, torn>>

\* The condition does not hold, or the callback finds that the owner is gone,
\* or it takes a reference to the owner and runs.
callback ==
    /\ round = "called"
    /\ \/ round' = "check" /\ at' \in After(at)
       \/ Kept(at) /\ round' = "running" /\ UNCHANGED at
    /\ UNCHANGED <<listVars, handle, removal, offered, orphaned, newest, due, torn>>

\* The callback gives its reference back. If it was the last, the owner's
\* destructor runs here, in the round itself, so it can only mark the entry.
callbackReturns ==
    /\ round = "running"
    /\ LET gone == {o \in orphaned : handle[o] = at}
       IN  /\ active' = IF gone = {} THEN active ELSE active \ {at}
           /\ handle' = [o \in Owners |-> IF o \in gone THEN 0 ELSE handle[o]]
           /\ orphaned' = orphaned \ gone
           /\ due' = IF gone = {} THEN due ELSE due \ {at}
    /\ round' = "check" /\ at' \in After(at)
    /\ UNCHANGED <<list, added, mutex, removal, offered, newest, torn>>

endRound ==
    /\ round = "check" /\ at = 0
    /\ mutex' = "free"
    /\ round' = "idle"
    /\ UNCHANGED <<list, active, added, handle, removal, at, offered, orphaned, newest, due, torn>>

HandlersNext ==
    \/ \E o \in Owners : add(o) \/ giveUp(o) \/ try(o) \/ erase(o) \/ mark(o)
    \/ readReport \/ cleanup \/ beginRound \/ check \/ callback \/ callbackReturns \/ endRound

HandlersSpec == HandlersInit /\ [][HandlersNext]_handlerVars

-----------------------------------------------------------------------------
HandlersTypeOK ==
    /\ list \subseteq Handlers /\ active \subseteq Handlers
    /\ added \in 0 .. MaxAdds
    /\ mutex \in {"free", "round", "cleanup"} \cup Owners
    /\ handle \in [Owners -> 0 .. MaxAdds]
    /\ removal \in [Owners -> {"no", "try", "erase", "mark"}]
    /\ round \in {"idle", "cleanup", "begin", "check", "called", "running"}
    /\ at \in 0 .. MaxAdds
    /\ orphaned \subseteq Owners
    /\ offered \subseteq Handlers /\ newest \in 0 .. added /\ due \subseteq Handlers
    /\ torn \in {"no", "now", "was"}

\* The round stands on an entry of the list, and on each of them only once.
RoundStandsOnList ==
    /\ at # 0 => at \in list
    /\ round = "check" => at \notin offered

\* A handler that was registered all the while has been offered the report, and
\* one that came during the round has not.
EveryHandlerIsOffered ==
    /\ round = "check" /\ at = 0 => due \subseteq offered
    /\ \A h \in offered : h <= newest

\* An entry whose lock is gone is marked, so that no later report reaches it;
\* one whose lock is there is in the list.
MarkedWhenRemoved ==
    /\ \A h \in active : \E o \in Owners : handle[o] = h
    /\ \A o \in Owners : handle[o] # 0 => handle[o] \in active \cap list

(***************************************************************************)
(* Whatever is added and removed while a report goes round, on other       *)
(* threads or by the callback itself: no entry is erased under the round,  *)
(* every handler that stays is offered the report once, one that comes     *)
(* waits for the next, and no handler outlives its lock. This is lost only *)
(* where an add met a cleanup that erases the front of the list.           *)
(***************************************************************************)
RoundIsSound == torn = "no" => RoundStandsOnList /\ EveryHandlerIsOffered /\ MarkedWhenRemoved

=============================================================================
