---------------------------- MODULE ResponseSlots ----------------------------
(***************************************************************************)
(* What the array of response slots of a HID++ device promises to the      *)
(* threads that call it: a slot is a lock that carries at most one answer. *)
(*                                                                         *)
(* hidpp20::Device (16 slots, by feature index) and hidpp10::Device (4     *)
(* slots, by sub ID) both keep such an array; the module Hidpp20Device is  *)
(* shown to implement this specification.                                  *)
(***************************************************************************)
CONSTANTS Callers,  \* the threads that call sendReport
          Slots,    \* indices of the array _responses
          Free,     \* "no caller": the optional key of the slot is empty
          Lost      \* the caller has left by an exception and kept the key

VARIABLES owner,    \* [Slots -> Callers \cup {Free, Lost}]
          answered  \* the slots that hold an answer

rvars == <<owner, answered>>

SlotsTypeOK ==
    /\ owner \in [Slots -> Callers \cup {Free, Lost}]
    /\ answered \subseteq Slots

SlotsInit ==
    /\ owner = [s \in Slots |-> Free]
    /\ answered = {}

\* A caller takes a free slot, and has no second slot.
Take(c, s) ==
    /\ owner[s] = Free
    /\ \A t \in Slots : owner[t] # c
    /\ owner' = [owner EXCEPT ![s] = c]
    /\ UNCHANGED answered

\* The write of the request fails: the slot is taken and nobody owns it.
Lose(s) ==
    /\ owner[s] = Free
    /\ owner' = [owner EXCEPT ![s] = Lost]
    /\ UNCHANGED answered

\* An answer is stored, over an earlier one that was not yet collected.
Store(s) ==
    /\ owner[s] # Free
    /\ answered' = answered \cup {s}
    /\ UNCHANGED owner

\* The owner collects the answer.
Collect(c, s) ==
    /\ owner[s] = c
    /\ s \in answered
    /\ owner' = [owner EXCEPT ![s] = Free]
    /\ answered' = answered \ {s}

\* The owner gives up; only a slot without an answer may be given up.
GiveUp(c, s) ==
    /\ owner[s] = c
    /\ s \notin answered
    /\ owner' = [owner EXCEPT ![s] = Free]
    /\ UNCHANGED answered

SlotsNext ==
    \E s \in Slots :
        \/ Lose(s)
        \/ Store(s)
        \/ \E c \in Callers : Take(c, s) \/ Collect(c, s) \/ GiveUp(c, s)

SlotsSpec == SlotsInit /\ [][SlotsNext]_rvars
=============================================================================
