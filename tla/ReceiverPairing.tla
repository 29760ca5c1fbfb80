--------------------------- MODULE ReceiverPairing ---------------------------
(***************************************************************************)
(* Pairing through a receiver (backend/hidpp10/ReceiverMonitor.cpp and     *)
(* Receiver.cpp). The bus starts and stops a session, one call after the   *)
(* other; the I/O thread takes the receiver's reports in order; a worker   *)
(* has the receiver pair the device that was discovered. _pair_mutex       *)
(* covers what the daemon notes, and not the transfers that follow.        *)
(***************************************************************************)
EXTENDS Naturals, Sequences, FiniteSets

CONSTANTS Near,      \* devices that may be discovered
          Nobody,    \* no device
          SeqNum,    \* [Near -> Nat]: the address byte of its reports
          Size,      \* [Near -> Nat]: length of its name
          Block,     \* characters of a name in a report
          MaxCalls   \* bound: calls of the bus

ASSUME PairingAssumption ==
    /\ Nobody \notin Near /\ Block \in Nat \ {0}
    /\ \A d \in Near : Size[d] \in Nat \ {0} /\ SeqNum[d] \in Nat

\* The sequence number is all by which fillDeviceDiscoveryEvent tells the
\* reports of two devices apart: the receiver gives each its own.
ASSUME SeqNumAssumption == \A d, e \in Near : SeqNum[d] = SeqNum[e] => d = e

VARIABLES bolt,       \* _is_bolt: a Bolt receiver, or an older one
          mode, target, \* the receiver: what it does, and whose passkey it will ask for
          told,       \* [Near -> Nat]: reports of a device in this discovery
          air,        \* its reports on their way, in order
          pairState,  \* _pair_state
          discovery,  \* _discovery_event
          owed,       \* the transfer the bus call has still to make
          starting,   \* tasks that will call startBoltPairing
          ready,      \* the last PairReady: the device and whose passkey
          calls,      \* calls so far
          overtaken,  \* history: a session was begun before another was over, or
                      \* ended before the worker had begun to pair
          refused     \* history: a transfer of this session failed

pairVars == <<bolt, mode, target, told, air, pairState, discovery, owed, starting, ready,
              calls, overtaken, refused>>

PairStates == {"NotPairing", "Discovering", "FindingPasskey", "Pairing"}
Blank      == [of |-> Nobody, seq |-> 0, size |-> 0, name |-> {}]

PairTypeOK ==
    /\ bolt \in BOOLEAN
    /\ mode \in {"idle", "discovering", "pairing"} /\ target \in Near \cup {Nobody}
    /\ pairState \in PairStates /\ discovery.of \in Near \cup {Nobody}
    /\ owed \in {"nothing", "startDiscover", "startPairing", "stopDiscover", "stopPairing"}
    /\ \A e \in starting : e.of \in Near \cup {Nobody}
    /\ told \in [Near -> Nat] /\ calls \in 0 .. MaxCalls
    /\ overtaken \in BOOLEAN /\ refused \in BOOLEAN

PairInit ==
    /\ bolt \in BOOLEAN /\ mode = "idle" /\ target = Nobody /\ air = << >>
    /\ told = [d \in Near |-> 0]
    /\ pairState = "NotPairing" /\ discovery = Blank
    /\ owed = "nothing" /\ starting = {} /\ ready = {}
    /\ calls = 0 /\ overtaken = FALSE /\ refused = FALSE

(***************************************************************************)
(* The receiver.                                                           *)
(***************************************************************************)

Status(of, on) == [kind |-> of, on |-> on]
Part(d, n)     == [kind |-> "part", of |-> d, n |-> n]
Parts(d)       == (Size[d] \div Block) + 1
PairingStatus  == IF bolt THEN "bolt status" ELSE "pair status"
DaemonVars     == <<bolt, pairState, discovery, owed, starting, ready, calls, overtaken, refused>>

\* A device that is near is reported, its name in as many parts as it takes;
\* the parts of several devices mix.
Discovers(d) ==
    /\ mode = "discovering" /\ told[d] <= Parts(d)
    /\ told' = [told EXCEPT ![d] = @ + 1]
    /\ air' = Append(air, Part(d, told[d]))
    /\ UNCHANGED <<mode, target, DaemonVars>>

AsksPasskey ==
    /\ mode = "pairing" /\ target \in Near
    /\ air' = Append(air, [kind |-> "passkey", of |-> target])
    /\ target' = Nobody
    /\ UNCHANGED <<mode, told, DaemonVars>>

\* It has paired a device, or its time is up.
Finishes ==
    /\ mode # "idle" /\ mode' = "idle" /\ target' = Nobody
    /\ air' = Append(air, Status(IF mode = "pairing" THEN PairingStatus ELSE "discovery status",
                                 FALSE))
    /\ UNCHANGED <<told, DaemonVars>>

\* What a register write does: it is refused when it does not fit.
Turns(to, of) ==
    /\ mode' = to /\ target' = of
    /\ told' = IF to = "discovering" THEN [d \in Near |-> 0] ELSE told
    /\ air' = air \o (IF mode = "discovering" /\ to # "discovering"
                      THEN <<Status("discovery status", FALSE)>> ELSE << >>)
                  \o (IF mode = "pairing" /\ to # "pairing"
                      THEN <<Status(PairingStatus, FALSE)>> ELSE << >>)
                  \o (IF to = "discovering" THEN <<Status("discovery status", TRUE)>>
                      ELSE IF to = "pairing" THEN <<Status(PairingStatus, TRUE)>> ELSE << >>)

(***************************************************************************)
(* The bus.                                                                *)
(***************************************************************************)

PairCall == /\ owed = "nothing" /\ calls < MaxCalls /\ calls' = calls + 1
            /\ UNCHANGED <<bolt, mode, target, told, air, starting>>

\* Something of a session is not over, but for reports that tell it began.
Unfinished == \/ mode # "idle" \/ starting # {}
              \/ \E n \in 1 .. Len(air) : air[n].kind \in {"part", "passkey"} \/ ~air[n].on

_startPair ==
    /\ PairCall /\ ready' = {} /\ refused' = FALSE
    /\ pairState' = (IF bolt THEN "Discovering" ELSE "Pairing")
    /\ discovery' = Blank
    /\ owed' = IF bolt THEN "startDiscover" ELSE "startPairing"
    /\ overtaken' = Unfinished

_stopPair ==
    /\ PairCall /\ UNCHANGED <<discovery, ready, refused>>
    /\ pairState' = "NotPairing"
    /\ overtaken' = (overtaken \/ starting # {})
    /\ owed' = CASE pairState = "Discovering" -> "stopDiscover"
                 [] pairState \in {"FindingPasskey", "Pairing"} -> "stopPairing"
                 [] OTHER -> "nothing"

\* The transfer of the call: done, or refused, which leaves the state as it is.
\* There may be nothing to stop.
MakeTransfer ==
    /\ owed # "nothing" /\ owed' = "nothing"
    /\ \/ /\ \/ owed = "startDiscover" /\ mode = "idle" /\ Turns("discovering", Nobody)
             \/ owed = "startPairing" /\ mode = "idle" /\ Turns("pairing", Nobody)
             \/ owed = "stopDiscover" /\ mode = "discovering" /\ Turns("idle", Nobody)
             \/ owed = "stopPairing" /\ mode = "pairing" /\ Turns("idle", Nobody)
             \/ /\ <<owed, mode>> \in {"stopDiscover"} \X {"idle", "pairing"} \cup
                                      {"stopPairing"} \X {"idle", "discovering"}
                /\ UNCHANGED <<mode, target, told, air>>
          /\ UNCHANGED refused
       \/ refused' = TRUE /\ UNCHANGED <<mode, target, told, air>>
    /\ UNCHANGED <<bolt, pairState, discovery, starting, ready, calls, overtaken>>

(***************************************************************************)
(* The worker.                                                             *)
(***************************************************************************)

\* startBoltPairing does not look at the state again.
startBoltPairing(e) ==
    /\ e \in starting /\ starting' = starting \ {e}
    /\ \/ mode # "pairing" /\ Turns("pairing", e.of) /\ UNCHANGED refused
       \/ refused' = TRUE /\ UNCHANGED <<mode, target, told, air>>
    /\ UNCHANGED <<bolt, pairState, discovery, owed, ready, calls, overtaken>>

(***************************************************************************)
(* The I/O thread.                                                         *)
(***************************************************************************)

\* Mutant: parts are taken whatever discovery they belong to.
FillAny(e, r) ==
    IF r.n = 0 THEN [of |-> r.of, seq |-> SeqNum[r.of], size |-> 0, name |-> {}]
    ELSE [e EXCEPT !.size = IF r.n = 1 THEN Size[r.of] ELSE @, !.name = @ \cup {r}]

\* fillDeviceDiscoveryEvent: part 0 starts an event, the others belong to the
\* event with their sequence number. The first tells the size of the name,
\* and the one that goes beyond it fills the event: none does when the name
\* ends with its part.
Fill(e, r) ==
    IF r.n = 0 THEN [of |-> r.of, seq |-> SeqNum[r.of], size |-> 0, name |-> {}]
    ELSE IF e.seq # SeqNum[r.of] THEN e
    ELSE [e EXCEPT !.size = IF r.n = 1 THEN Size[r.of] ELSE @, !.name = @ \cup {r}]
Fills(e, r) == r.n # 0 /\ e.seq = SeqNum[r.of] /\ r.n * Block > e.size

Takes(kind) == /\ air # << >> /\ Head(air).kind = kind /\ air' = Tail(air)
               /\ UNCHANGED <<bolt, mode, target, told, owed, calls, overtaken, refused>>

\* An event that is filled goes to a worker. (Until then, the session may
\* have been stopped: see startBoltPairing.)
TakeDiscovery ==
    /\ Takes("part")
    /\ LET r == Head(air)
           e == Fill(discovery, r)
       IN  IF pairState # "Discovering" THEN UNCHANGED <<pairState, discovery, starting>>
           ELSE /\ discovery' = e
                /\ IF Fills(e, r) THEN /\ pairState' = "FindingPasskey"
                                       /\ starting' = starting \cup {e}
                   ELSE UNCHANGED <<pairState, starting>>
    /\ UNCHANGED ready

TakePasskey ==
    /\ Takes("passkey")
    /\ IF pairState = "FindingPasskey"
       THEN pairState' = "Pairing" /\ ready' = {[of |-> discovery.of, passkey |-> Head(air).of]}
       ELSE UNCHANGED <<pairState, ready>>
    /\ UNCHANGED <<discovery, starting>>

\* Mutant: the end of a discovery ends whatever goes on.
EndedByAny(of) == pairState # "NotPairing"

\* What the status report "of" may end.
EndedBy(of) == IF of = "discovery status" THEN pairState = "Discovering"
               ELSE pairState \in {"FindingPasskey", "Pairing"}

TakeStatus(of) ==
    /\ Takes(of)
    /\ pairState' = IF ~Head(air).on /\ EndedBy(of) THEN "NotPairing" ELSE pairState
    /\ UNCHANGED <<discovery, starting, ready>>

TakeReport == TakeDiscovery \/ TakePasskey
              \/ \E of \in {"discovery status", PairingStatus} : TakeStatus(of)

PairNext ==
    \/ \E d \in Near : Discovers(d)
    \/ AsksPasskey \/ Finishes
    \/ _startPair \/ _stopPair \/ MakeTransfer
    \/ \E e \in starting : startBoltPairing(e)
    \/ TakeReport

PairSpec == PairInit /\ [][PairNext]_pairVars

(***************************************************************************)
(* Properties.                                                             *)
(***************************************************************************)

\* A device the receiver is told to pair is one it has reported, with its
\* whole name, and the passkey the bus is shown with it is its own, however
\* the reports of several devices mix; unless the session began before the
\* end of another one, or ended before the worker began to pair.
WholeEvent(e) == /\ e.of # Nobody
                 /\ e.name = {Part(e.of, n) : n \in 1 .. Parts(e.of)}
PairsWhatItShows ==
    ~overtaken => /\ \A e \in starting : WholeEvent(e)
                  /\ \A p \in ready : p.of = p.passkey

\* When nothing is on its way, the daemon and the receiver agree on what goes
\* on, unless a transfer was refused, or sessions overtook each other.
SessionAgrees ==
    ~overtaken /\ ~refused /\ air = << >> /\ starting = {} /\ owed = "nothing" =>
        CASE pairState = "NotPairing"  -> mode = "idle"
          [] pairState = "Discovering" -> mode = "discovering"
          [] OTHER                     -> mode = "pairing"
=============================================================================
