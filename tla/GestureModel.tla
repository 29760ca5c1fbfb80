---------------------------- MODULE GestureModel ----------------------------
(***************************************************************************)
(* The gestures of a button in the GUI (logiops-gui/GestureModel.cpp). The *)
(* mode of a direction is set with SetGesture, which makes the daemon      *)
(* build a new gesture; its parameters are set through the interface of    *)
(* that mode, after the reply of a SetGesture that is under way, or after  *)
(* the interface was found by a probe. When the panel opens, each          *)
(* direction is filled from the daemon by a chain of probes.               *)
(*                                                                         *)
(* One direction: directions share nothing. The bus keeps the order of the *)
(* calls and of the replies.                                               *)
(***************************************************************************)
EXTENDS Naturals, Sequences, FiniteSets

CONSTANTS Modes,        \* kSeedTypes, in the order of the probes
          ActionModes,  \* modes whose gesture runs an action
          Grains,       \* granularities an edit may give
          MaxGestures   \* bound: edits in a behaviour

VARIABLES gesture,   \* what the daemon has: [mode, grain, action, keys]
          gestCalls, \* calls on their way to the daemon
          gestMail,  \* replies on their way to the GUI
          dir,       \* _dirs of the direction: [mode, grain, action]
          pending,   \* _pendingSetGesture: number of a SetGesture, or 0
          chained,   \* of each SetGesture, the parameter calls that wait for it
          gestEdits, \* edits so far; numbers the SetGestures
          own,       \* history: parameters set since the mode was set
          doubts     \* history: what may have parted the panel from the daemon

gestureVars == <<gesture, gestCalls, gestMail, dir, pending, chained, gestEdits,
                 own, doubts>>

ModeSet  == {Modes[n] : n \in 1 .. Len(Modes)}
ASSUME ModesAssumption ==
    /\ Modes \in Seq(STRING) /\ Modes # << >> /\ "" \notin ModeSet
    /\ ActionModes \subseteq ModeSet /\ MaxGestures \in Nat
Actions  == {"", "Keypress", "Other"}
Fresh(m) == [mode |-> m, grain |-> 0, action |-> "", keys |-> FALSE]

GestureTypeOK ==
    /\ gesture \in [mode : ModeSet \cup {""}, grain : Grains \cup {0},
                    action : Actions, keys : BOOLEAN]
    /\ dir \in [mode : ModeSet \cup {""}, grain : Grains \cup {0}, action : Actions]
    /\ pending \in 0 .. MaxGestures /\ gestEdits \in 0 .. MaxGestures
    /\ own \subseteq {"grain", "action", "keys"}
    /\ doubts \subseteq {"seeding", "refused", "unset", "unanswered"}
    /\ DOMAIN chained = 1 .. MaxGestures

Call(op, x) == [op |-> op, x |-> x]

\* The constructor has started the first probe.
GestureInit ==
    /\ \E m \in ModeSet \cup {""}, g \in Grains \cup {0} :
           gesture = [Fresh(m) EXCEPT !.grain = IF m \in {"", "None"} THEN 0 ELSE g]
    /\ gestCalls = <<Call("seed", 1)>> /\ gestMail = << >>
    /\ dir = [mode |-> "", grain |-> 0, action |-> ""]
    /\ pending = 0 /\ chained = [id \in 1 .. MaxGestures |-> << >>] /\ gestEdits = 0
    /\ own = {} /\ doubts = {}

(***************************************************************************)
(* The daemon answers the next call.                                       *)
(***************************************************************************)

\* A parameter finds the interface of its mode, or that of the keystroke.
Applies(p) == IF p.kind = "keys" THEN gesture.action = "Keypress"
              ELSE gesture.mode = p.mode

WithParam(p) ==
    CASE p.kind = "grain"  -> [gesture EXCEPT !.grain = p.value]
      [] p.kind = "action" -> [gesture EXCEPT !.action = p.value, !.keys = FALSE]
      [] p.kind = "keys"   -> [gesture EXCEPT !.keys = TRUE]

Replies(c, ok, value) ==
    gestMail' = Append(gestMail, [call |-> c, ok |-> ok, value |-> value])

\* setGesture destroys the old gesture before it makes the new one, which may
\* fail; or the call is lost, or its answer late.
MadeOrRefused(c) ==
    /\ c.op = "setGesture" /\ UNCHANGED doubts
    /\ \/ gesture' = Fresh(c.x.mode) /\ Replies(c, TRUE, 0)
       \/ gesture' \in {gesture, Fresh(""), Fresh(c.x.mode)} /\ Replies(c, FALSE, 0)

\* Nobody looks at the reply of a parameter. Its setter may throw, and that of
\* the action has destroyed the old action then.
SetOrNot(c) ==
    /\ c.op = "set" /\ Replies(c, TRUE, 0)
    /\ \/ Applies(c.x) /\ gesture' = WithParam(c.x) /\ UNCHANGED doubts
       \/ /\ Applies(c.x) /\ doubts' = doubts \cup {"unset"}
          /\ \/ UNCHANGED gesture
             \/ /\ c.x.kind = "action"
                /\ gesture' = [gesture EXCEPT !.action = "", !.keys = FALSE]
       \/ ~Applies(c.x) /\ UNCHANGED <<gesture, doubts>>

\* A probe that is not answered looks like an absent interface.
Probed(c, mode) ==
    /\ \/ Replies(c, gesture.mode = mode, gesture.grain) /\ UNCHANGED doubts
       \/ /\ gesture.mode = mode /\ Replies(c, FALSE, 0)
          /\ doubts' = doubts \cup {"unanswered"}
    /\ UNCHANGED gesture

GestureAnswered ==
    /\ gestCalls # << >> /\ gestCalls' = Tail(gestCalls)
    /\ LET c == Head(gestCalls)
       IN  \/ MadeOrRefused(c) \/ SetOrNot(c)
           \/ c.op = "probe" /\ Probed(c, c.x.mode)
           \/ c.op = "seed" /\ Probed(c, Modes[c.x])
           \/ c.op = "seedParam" /\ Probed(c, c.x)
    /\ UNCHANGED <<dir, pending, chained, gestEdits, own>>

(***************************************************************************)
(* Edits.                                                                  *)
(***************************************************************************)

Seeding == \/ \E n \in 1 .. Len(gestCalls) : gestCalls[n].op \in {"seed", "seedParam"}
           \/ \E n \in 1 .. Len(gestMail) :
                  gestMail[n].call.op \in {"seed", "seedParam"}

Edits == /\ gestEdits < MaxGestures /\ gestEdits' = gestEdits + 1
         /\ doubts' = IF Seeding THEN doubts \cup {"seeding"} ELSE doubts
         /\ UNCHANGED <<gesture, gestMail>>

Calls(op, ps) == [n \in 1 .. Len(ps) |-> Call(op, ps[n])]

\* performParamCall: behind the SetGesture under way, or behind a probe.
performParamCalls(ps) ==
    IF pending # 0
    THEN /\ chained' = [chained EXCEPT ![pending] = @ \o Calls("set", ps)]
         /\ UNCHANGED gestCalls
    ELSE /\ gestCalls' = gestCalls \o Calls("probe", ps)
         /\ UNCHANGED chained

Param(kind, value) == [kind |-> kind, mode |-> dir.mode, value |-> value]

setMode(m) ==
    /\ Edits
    /\ gestCalls' = Append(gestCalls, Call("setGesture", [mode |-> m, id |-> gestEdits']))
    /\ pending' = gestEdits'
    /\ dir' = [dir EXCEPT !.mode = m,
                          !.action = IF m \in ActionModes THEN @ ELSE ""]
    /\ own' = {}
    /\ UNCHANGED chained

setGranularity(g) ==
    /\ Edits /\ dir.mode \notin {"", "None"}
    /\ performParamCalls(<<Param("grain", g)>>)
    /\ dir' = [dir EXCEPT !.grain = g] /\ own' = own \cup {"grain"}
    /\ UNCHANGED pending

setGestureAction ==
    /\ Edits /\ dir.mode \in ActionModes
    /\ performParamCalls(<<Param("action", "Other")>>)
    /\ dir' = [dir EXCEPT !.action = "Other"]
    /\ own' = (own \cup {"action"}) \ {"keys"}
    /\ UNCHANGED pending

setGestureKeypress ==
    /\ Edits /\ dir.mode \in ActionModes
    /\ performParamCalls(<<Param("action", "Keypress"), Param("keys", TRUE)>>)
    /\ dir' = [dir EXCEPT !.action = "Keypress"]
    /\ own' = own \cup {"action", "keys"}
    /\ UNCHANGED pending

(***************************************************************************)
(* Replies.                                                                *)
(***************************************************************************)

fire(calls) == gestCalls' = gestCalls \o calls

\* Mutant: the reply of one SetGesture drops what waits for another.
DropAllChained(id, ok) ==
    /\ pending' = IF pending = id THEN 0 ELSE pending
    /\ chained' = [n \in DOMAIN chained |-> << >>]
    /\ IF ok THEN fire(chained[id]) /\ UNCHANGED doubts
       ELSE doubts' = doubts \cup {"refused"} /\ UNCHANGED gestCalls
    /\ UNCHANGED dir

SetGestureReplied(id, ok) ==
    /\ pending' = IF pending = id THEN 0 ELSE pending
    /\ chained' = [chained EXCEPT ![id] = << >>]
    /\ IF ok THEN fire(chained[id]) /\ UNCHANGED doubts
       ELSE doubts' = doubts \cup {"refused"} /\ UNCHANGED gestCalls
    /\ UNCHANGED dir

\* SetKeys goes out whatever the probe said.
ProbeReplied(p, ok) ==
    /\ IF ok \/ p.kind = "keys" THEN fire(<<Call("set", p)>>) ELSE UNCHANGED gestCalls
    /\ UNCHANGED <<dir, pending, chained, doubts>>

\* probeDirection: the first mode that is present is the direction's; its
\* granularity is read next.
SeedReplied(n, ok) ==
    /\ IF ok
       THEN /\ dir' = [dir EXCEPT !.mode = Modes[n]]
            /\ gestCalls' = IF Modes[n] = "None" THEN gestCalls
                            ELSE Append(gestCalls, Call("seedParam", Modes[n]))
       ELSE /\ gestCalls' = IF n = Len(Modes) THEN gestCalls
                            ELSE Append(gestCalls, Call("seed", n + 1))
            /\ UNCHANGED dir
    /\ UNCHANGED <<pending, chained, doubts>>

SeedParamReplied(ok, value) ==
    /\ dir' = IF ok THEN [dir EXCEPT !.grain = value] ELSE dir
    /\ UNCHANGED <<gestCalls, pending, chained, doubts>>

GestureReplied ==
    /\ gestMail # << >> /\ gestMail' = Tail(gestMail)
    /\ LET m == Head(gestMail)
       IN  \/ m.call.op = "setGesture" /\ SetGestureReplied(m.call.x.id, m.ok)
           \/ m.call.op = "probe" /\ ProbeReplied(m.call.x, m.ok)
           \/ m.call.op = "seed" /\ SeedReplied(m.call.x, m.ok)
           \/ m.call.op = "seedParam" /\ SeedParamReplied(m.ok, m.value)
           \/ /\ m.call.op = "set"
              /\ UNCHANGED <<dir, gestCalls, pending, chained, doubts>>
    /\ UNCHANGED <<gesture, gestEdits, own>>

GestureNext ==
    \/ \E m \in ModeSet : setMode(m)
    \/ \E g \in Grains : setGranularity(g)
    \/ setGestureAction \/ setGestureKeypress
    \/ GestureAnswered
    \/ GestureReplied

GestureSpec == GestureInit /\ [][GestureNext]_gestureVars

GestureQuiet == gestCalls = << >> /\ gestMail = << >>

\* Once every call is answered, no parameter is left waiting, and the panel
\* shows what the daemon has: the mode, and each parameter the user has set
\* since, whatever edits overlapped; except after an edit made before the
\* direction was filled, which the filling overwrites, a SetGesture or a
\* parameter that failed (nothing is read back, and the reply of a parameter
\* is not looked at), or a probe that was not answered.
PanelIsGesture ==
    GestureQuiet =>
        /\ \A id \in DOMAIN chained : chained[id] = << >>
        /\ pending = 0
        /\ doubts = {} =>
               /\ dir.mode = gesture.mode
               /\ "grain" \in own => gesture.grain = dir.grain
               /\ "action" \in own => gesture.action = dir.action
               /\ "keys" \in own => gesture.keys
=============================================================================
