---------------------------- MODULE VersionProbe ----------------------------
(***************************************************************************)
(* How a node is recognised: Device::_init (backend/hidpp/Device.cpp) asks *)
(* for the version, pings the device with a word letter by letter and asks *)
(* for its name. addDevice does so twice: with hidpp::Device to learn the  *)
(* protocol, then, unless it is a receiver, with hidpp20::Device. A failed *)
(* attempt is repeated on the same node, where answers to the requests of  *)
(* earlier attempts may still arrive. The device answers in the order it   *)
(* was asked, and may leave anything unanswered. The second index of a     *)
(* corded device is not modelled.                                          *)
(***************************************************************************)
EXTENDS Naturals, Sequences

CONSTANTS PingWord,      \* ping_seq
          MaxAttempts    \* attempts to add the node: six (max_tries of DeviceMonitor);
                         \* of a device behind a receiver, a bound

ASSUME PingWordAssumption    == PingWord \in Seq(STRING) /\ PingWord # <<>>
ASSUME MaxAttemptsAssumption == MaxAttempts \in Nat

VARIABLES node,      \* what the device is, whether it has a DeviceName
                     \* feature, whether it is behind a receiver
          class,     \* the class whose constructor runs
          stage,     \* what _init waits for
          letter,    \* position in PingWord
          asked,     \* requests that may still be answered, in order
          version,   \* major number of _version
          name,      \* where _name comes from; "wrong": another feature
          outcome,   \* how the attempt ended
          attempts   \* attempts begun

probing == <<node, class, stage, letter, asked, version, name, outcome, attempts>>

Devices == [protocol : {"1.0", "2.0"}, named : BOOLEAN, behind : BOOLEAN]

NoLetter == ""
Ping(b)   == [fn |-> "ping", byte |-> b]
GetIndex  == [fn |-> "feature", byte |-> NoLetter]
GetName   == [fn |-> "name", byte |-> NoLetter]

VersionProbeInit ==
    /\ node \in Devices
    /\ class = "hidpp"
    /\ stage = "idle"
    /\ letter = 0
    /\ asked = <<>>
    /\ version = 0
    /\ name = "none"
    /\ outcome = "none"
    /\ attempts = 0

SoftwareID == 2

Function(r) == IF r.fn = "ping" THEN 1 ELSE 0

\* The third to fifth bytes of an answer, as getVersion, ping and getFeature
\* read them. In an error report they are the function with the software ID,
\* the code, and zero.
Read(r, kind) ==
    CASE kind = "error20"  -> [first |-> 16 * Function(r) + SoftwareID, echo |-> NoLetter]
      [] r.fn = "ping"     -> [first |-> 4, echo |-> r.byte]
      [] r.fn = "feature"  -> [first |-> IF node.named THEN 3 ELSE 0, echo |-> NoLetter]
      [] OTHER             -> [first |-> 9, echo |-> NoLetter]

\* The constructor sends its next request.
Ask(s, r, rest) == stage' = s /\ asked' = Append(rest, r)

AskVersion(rest) == Ask("version", Ping(NoLetter), rest) /\ letter' = 0

\* addDevice, or its repetition: after DeviceNotReady, or for a device behind
\* a receiver with its next connection event.
Attempt ==
    /\ stage = "idle"
    /\ outcome \in {"none", "notReady"} \/ (node.behind /\ outcome # "device")
    /\ attempts < MaxAttempts
    /\ attempts' = attempts + 1
    /\ class' = "hidpp"
    /\ outcome' = "none"
    /\ name' = "none"
    /\ AskVersion(asked)
    /\ UNCHANGED <<node, version>>

\* The attempt is over.
Finish(o, rest) ==
    /\ outcome' = o
    /\ stage' = "idle"
    /\ asked' = rest
    /\ UNCHANGED <<node, class, letter, attempts>>

\* _init has returned with a version and a name.
Constructed(v, n, rest) ==
    /\ version' = v
    /\ name' = n
    /\ \/ /\ class = "hidpp" /\ v >= 2
          /\ class' = "hidpp20"
          /\ AskVersion(rest)
          /\ UNCHANGED <<node, outcome, attempts>>
       \/ /\ class = "hidpp" /\ v < 2
          /\ Finish(IF node.behind THEN "unsupported" ELSE "receiver", rest)
       \/ class = "hidpp20" /\ Finish(IF v >= 2 THEN "device" ELSE "failed", rest)

\* The name when there is no DeviceName feature.
OtherName == IF node.behind THEN "receiver" ELSE "raw"

\* The report's key is the expected one: sub ID and address for
\* hidpp::Device, the feature index alone for hidpp20::Device.
Expects(r) ==
    CASE stage = "version" \/ stage = "ping" -> r.fn = "ping" \/ (class = "hidpp20" /\ r.fn = "feature")
      [] stage = "feature" -> r.fn = "feature" \/ (class = "hidpp20" /\ r.fn = "ping")
      [] stage = "name"    -> r.fn = "name"
      [] OTHER             -> FALSE

\* getVersion has an answer.
GotVersion(got, rest) ==
    /\ stage = "version"
    /\ IF got.first = 17 THEN Constructed(1, OtherName, rest)
       ELSE IF got.first < 2 THEN Constructed(got.first, OtherName, rest)
       ELSE /\ version' = got.first
            /\ letter' = 1
            /\ Ask("ping", Ping(PingWord[1]), rest)
            /\ UNCHANGED <<node, class, name, outcome, attempts>>

\* Mutant: the echo is not compared.
EchoIgnored(got) == TRUE
Echoed(got) == got.echo = PingWord[letter]

\* isStable20: every letter must come back.
GotPing(got, rest) ==
    /\ stage = "ping"
    /\ UNCHANGED version
    /\ \/ /\ ~Echoed(got)
          /\ Finish("notReady", rest)
          /\ UNCHANGED name
       \/ /\ Echoed(got)
          /\ IF letter < Len(PingWord)
             THEN letter' = letter + 1 /\ Ask("ping", Ping(PingWord[letter + 1]), rest)
             ELSE letter' = 0 /\ Ask("feature", GetIndex, rest)
          /\ UNCHANGED <<node, class, name, outcome, attempts>>

\* DeviceName's constructor has the index of its feature, 0 if there is none.
GotIndex(r, kind, rest) ==
    /\ stage = "feature"
    /\ IF Read(r, kind).first = 0
       THEN Constructed(version, OtherName, rest)
       ELSE /\ name' = IF kind = "answer" /\ r = GetIndex THEN "device" ELSE "wrong"
            /\ Ask("name", GetName, rest)
            /\ UNCHANGED <<node, class, letter, version, outcome, attempts>>

\* getName has the length and all sections.
GotName(rest) == stage = "name" /\ Constructed(version, name, rest)

\* A report that is returned by sendReport as an answer. hidpp::Device takes
\* an error of HID++ 2.0 for one; in hidpp20::Device no caller gets it.
Reply(kind) ==
    /\ node.protocol = "2.0"
    /\ asked # <<>>
    /\ LET r    == Head(asked)
           rest == Tail(asked)
       IN /\ Expects(r)
          /\ kind = "answer" \/ class = "hidpp"
          /\ \/ GotVersion(Read(r, kind), rest)
             \/ GotPing(Read(r, kind), rest)
             \/ GotIndex(r, kind, rest)
             \/ GotName(rest)

\* A device of HID++ 1.0 does not know the sub ID. Only hidpp::Device takes
\* the error for an answer. Any other error makes the attempt fail.
Refuse(code) ==
    /\ node.protocol = "1.0"
    /\ asked # <<>>
    /\ stage = "version" /\ class = "hidpp"
    /\ \/ code = "InvalidSubID" /\ Constructed(1, OtherName, Tail(asked))
       \/ /\ code = "other"
          /\ Finish(IF node.behind THEN "failed" ELSE "notReady", Tail(asked))
          /\ UNCHANGED <<version, name>>

\* No answer, or a report that nobody waits for.
Lose ==
    /\ asked # <<>>
    /\ asked' = Tail(asked)
    /\ UNCHANGED <<node, class, stage, letter, version, name, outcome, attempts>>

\* A call times out. isStable20 makes DeviceNotReady of it; elsewhere
\* addDevice does, but not around the construction of the HID++ 2.0 device.
GivesUp ==
    /\ stage # "idle"
    /\ Finish(IF stage = "ping" \/ class = "hidpp" \/ node.behind THEN "notReady" ELSE "failed",
              asked)
    /\ UNCHANGED <<version, name>>

\* The request cannot be written; addDevice skips the node.
CannotWrite ==
    /\ stage # "idle"
    /\ asked # <<>>
    /\ Finish(IF stage = "ping" THEN "notReady" ELSE "failed", SubSeq(asked, 1, Len(asked) - 1))
    /\ UNCHANGED <<version, name>>

VersionProbeNext ==
    \/ Attempt
    \/ \E kind \in {"answer", "error20"} : Reply(kind)
    \/ \E code \in {"InvalidSubID", "other"} : Refuse(code)
    \/ Lose
    \/ GivesUp
    \/ CannotWrite

-----------------------------------------------------------------------------
(***************************************************************************)
(* A node is taken for what it is: a receiver, or an old device behind     *)
(* one, speaks HID++ 1.0; a device that is kept speaks 2.0 and has its own *)
(* name, though hidpp::Device reads error reports as answers. And the      *)
(* stability test finds out late answers of earlier attempts: once it is   *)
(* passed, no answer to a ping is outstanding (_init and isStable20 of     *)
(* backend/hidpp/Device.cpp). That rests on the number of attempts: the    *)
(* late answers of six can pass the test of a seventh. A node is tried six *)
(* times in all; a device behind a receiver at every connection anew.      *)
(***************************************************************************)
NodeRecognised ==
    /\ outcome \in {"receiver", "unsupported"} => node.protocol = "1.0"
    /\ outcome = "device" => node.protocol = "2.0" /\ name # "wrong"
    /\ stage \in {"feature", "name"} => \A i \in 1 .. Len(asked) : asked[i].fn # "ping"
=============================================================================
