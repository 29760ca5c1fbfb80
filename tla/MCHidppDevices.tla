--------------------------- MODULE MCHidppDevices ----------------------------
(* Instances for TLC. Of the two transports that share Transport: a node is *)
(* probed by hidpp::Device (focus Probe), or a receiver's registers are     *)
(* read and written by hidpp10::Device (focus Register): two threads, two   *)
(* keys; register reads and writes (0x81 and 0x80), and two registers. Of   *)
(* VersionProbe (focus Recognise): one node, six attempts.                  *)
EXTENDS HidppDevice, Hidpp10Device, VersionProbe

CONSTANTS t1, t2, k1, k2, r1, r2, Probe, Register, Recognise

ASSUME FocusAssumption == Probe # Register /\ Recognise \notin {Probe, Register}

VARIABLE focus

ReadWrite == {128, 129}
Hello == <<"h", "e", "l", "l", "o">>

MCInit ==
    /\ focus \in {Probe, Register, Recognise}
    /\ ProbeInit /\ Init
    /\ VersionProbeInit
    /\ focus # Recognise => node = [protocol |-> "2.0", named |-> TRUE, behind |-> FALSE]

MCNext ==
    /\ UNCHANGED focus
    /\ \/ focus = Probe /\ ProbeNext /\ UNCHANGED <<register, probing>>
       \/ focus = Register /\ Next /\ UNCHANGED <<probe, probing>>
       \/ focus = Recognise /\ VersionProbeNext /\ UNCHANGED <<transport, probe, register>>

mcvars == <<focus, transport, probe, register, probing>>

Probing(A) == focus = Probe /\ A /\ UNCHANGED <<focus, register, probing>>

\* Threads that probe run, the mutex is handed on, and the timed wait ends.
MCFairness ==
    \A c \in Callers :
        /\ WF_mcvars(Probing(Begin(c)))
        /\ WF_mcvars(Probing(Write(c) \/ WriteFails(c)))
        /\ WF_mcvars(Probing(ProbeReturn(c) \/ ProbeTimeout(c)))

MCSpec == MCInit /\ [][MCNext]_mcvars /\ MCFairness

(***************************************************************************)
(* Every call of a probe ends, by its answer, by the timeout or by a       *)
(* failed write, and _send_mutex is handed on to the threads that wait for *)
(* it (sendReport of backend/hidpp/Device.cpp).                            *)
(***************************************************************************)
ProbesEnd == focus = Probe => []<>(\A c \in Callers : pc[c] = "idle")

(***************************************************************************)
(* Calls get their own answers. OwnAnswerOrLate of the probes; and an      *)
(* access of a register is answered by another's answer only if that is to *)
(* the same kind of access and nobody waits for it any longer              *)
(* (responseReport of backend/hidpp/Device.cpp and hidpp10/Device.cpp).    *)
(***************************************************************************)
AnswersAreOwn ==
    /\ focus = Probe => OwnAnswerOrLate
    /\ focus = Register => OwnAnswerOrStray
==============================================================================
