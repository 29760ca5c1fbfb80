----------------------------- MODULE InputProofs -----------------------------
(***************************************************************************)
(* Theorems about what a user does to a device by its controls, and about  *)
(* the settings that they change.                                          *)
(*  - The gestures of a button (GestureAction), for any movements and any  *)
(*    calls of the bus: a gesture goes as far as the pointer, and a        *)
(*    release runs one action at most.                                     *)
(*  - The wheels (Wheels), for any turns, calls and profiles: what a wheel *)
(*    sets in motion is bounded by its turn and its touch.                 *)
(*  - The buttons (RemapButton), for any reports, calls and profiles: an   *)
(*    action, its keys and its control agree.                              *)
(*  - The settings (Settings), for any profiles, sensors and operations: a *)
(*    device has what its profile says, in values that it supports.        *)
(*  - The configuration file (ConfigFile), for any names, files that a     *)
(*    user wrote and edits: a start loads what the last save wrote.        *)
(***************************************************************************)
EXTENDS GestureAction, Wheels, RemapButton, Settings, ConfigFile, FiniteSetTheorems,
        WellFoundedInduction, TLAPS

\* What a gesture is made of.
Gestures ==
    [kind : Kinds, threshold : SUBSET Int, interval : SUBSET Int, factor : Int, scale : Int,
     bound : BOOLEAN, action : BOOLEAN, axis : Int, passes : Int, done : BOOLEAN,
     rest : Int, ran : Int, moved : Int, steps : Int]

-----------------------------------------------------------------------------
(* The operations of a gesture                                              *)

\* A setting that may be left out is a number all the same.
LEMMA SetIsInt ==
    ASSUME NEW o \in SUBSET Int, NEW v \in Int
    PROVE  Set(o, v) \in Int
  BY DEF Set

\* A threshold and an interval are numbers.
LEMMA NumbersOf ==
    ASSUME NEW g \in Gestures
    PROVE  Threshold(g) \in Int /\ Interval(g) \in Int
  BY SetIsInt, DefaultsAssumption DEF Gestures, Threshold, Interval

\* A gesture of any kind is made with its axis at zero.
LEMMA GestureIs ==
    ASSUME NEW kind \in Kinds
    PROVE  Gesture(kind) \in Gestures /\ Gesture(kind).axis = 0
  BY DEF Gesture, Gestures

\* A press puts the axis at zero, or at the threshold.
LEMMA PressIs ==
    ASSUME NEW g \in Gestures, NEW init \in BOOLEAN
    PROVE  /\ Press(g, init) \in Gestures
           /\ Press(g, init).axis = IF init THEN Threshold(g) ELSE 0
           /\ Press(g, init).kind = g.kind
  <1> DEFINE a == IF init THEN Threshold(g) ELSE 0
  <1>1. a \in Int
    BY NumbersOf
  <1>2. Press(g, init) = [g EXCEPT !.axis = a, !.passes = 0, !.done = FALSE, !.rest = 0,
                                   !.ran = 0, !.moved = 0, !.steps = 0]
    BY DEF Press
  <1> HIDE DEF a
  <1>3. Press(g, init) \in Gestures
    <2>1. Press(g, init) =
             [kind |-> g.kind, threshold |-> g.threshold, interval |-> g.interval,
              factor |-> g.factor, scale |-> g.scale, bound |-> g.bound, action |-> g.action,
              axis |-> a, passes |-> 0, done |-> FALSE, rest |-> 0, ran |-> 0, moved |-> 0, steps |-> 0]
      BY <1>2 DEF Gestures
    <2> QED
      BY <1>1, <2>1 DEF Gestures
  <1>4. Press(g, init).axis = a /\ Press(g, init).kind = g.kind
    BY <1>2 DEF Gestures
  <1> QED
    BY <1>3, <1>4 DEF a

\* An action that runs changes only how often it ran.
LEMMA RunIs ==
    ASSUME NEW g \in Gestures
    PROVE  /\ Run(g) \in Gestures /\ Run(g).axis = g.axis /\ Run(g).kind = g.kind
           /\ Run(g).ran \in {g.ran, g.ran + 1}
           /\ Run(g).interval = g.interval /\ Run(g).action = g.action
           /\ Run(g).threshold = g.threshold
  BY DEF Run, Gestures

\* A release changes neither the axis nor what the gesture is, and runs the
\* action only of a primary gesture that has met its threshold.
LEMMA ReleaseIs ==
    ASSUME NEW g \in Gestures, NEW primary \in BOOLEAN
    PROVE  /\ Release(g, primary) \in Gestures
           /\ Release(g, primary).axis = g.axis /\ Release(g, primary).kind = g.kind
           /\ Release(g, primary).interval = g.interval /\ Release(g, primary).action = g.action
           /\ Release(g, primary).threshold = g.threshold
           /\ Release(g, primary).ran \in {g.ran, g.ran + 1}
           /\ Release(g, primary).ran # g.ran => primary /\ metThreshold(g)
  BY RunIs DEF Release, Gestures, Kinds

\* A quotient is rounded to a number.
LEMMA TruncatedIs ==
    ASSUME NEW a \in Int, NEW b \in Nat \ {0}
    PROVE  Truncated(a, b) \in Int
  BY DEF Truncated

\* A movement in low resolution leaves the axis and what the gesture is.
LEMMA LowResIs ==
    ASSUME NEW g \in Gestures, NEW by \in Int
    PROVE  /\ LowRes(g, by) \in Gestures /\ LowRes(g, by).axis = g.axis
           /\ LowRes(g, by).kind = g.kind
           /\ LowRes(g, by).interval = g.interval /\ LowRes(g, by).action = g.action
  <1> DEFINE rest == g.rest + by
             step == IF Truncated(rest, Detent) # 0 THEN Truncated(rest, Detent)
                     ELSE IF rest > 0 THEN 1 ELSE -1
  <1>1. rest \in Int /\ step \in Int
    BY TruncatedIs, DetentAssumption DEF Gestures
  <1>2. step * Detent \in Int
    BY <1>1, DetentAssumption
  <1>3. rest - step * Detent \in Int /\ g.steps + step \in Int
    BY <1>1, <1>2 DEF Gestures
  <1>4. LowRes(g, by) = IF 2 * rest >= Detent \/ 2 * rest <= -Detent
                        THEN [g EXCEPT !.rest = rest - step * Detent, !.steps = @ + step]
                        ELSE [g EXCEPT !.rest = rest]
    BY DEF LowRes
  <1> DEFINE left == rest - step * Detent
             all  == g.steps + step
  <1>5. left \in Int /\ all \in Int
    BY <1>3
  <1>6. \/ LowRes(g, by) = [g EXCEPT !.rest = left, !.steps = all]
        \/ LowRes(g, by) = [g EXCEPT !.rest = rest]
    BY <1>4
  <1> HIDE DEF rest, step, left, all
  <1> DEFINE Alike == {h \in Gestures : /\ h.axis = g.axis /\ h.kind = g.kind
                                       /\ h.interval = g.interval /\ h.action = g.action}
  <1>7. \A h \in Alike, v \in Int : [h EXCEPT !.rest = v] \in Alike
    BY DEF Gestures
  <1>8. \A h \in Alike, v \in Int : [h EXCEPT !.steps = v] \in Alike
    BY DEF Gestures
  <1>9. [g EXCEPT !.rest = left, !.steps = all] = [[g EXCEPT !.rest = left] EXCEPT !.steps = all]
    OBVIOUS
  <1>10. g \in Alike
    OBVIOUS
  <1> HIDE DEF Alike
  <1>11. LowRes(g, by) \in Alike
    <2>1. [g EXCEPT !.rest = left] \in Alike /\ [g EXCEPT !.rest = rest] \in Alike
      BY <1>1, <1>5, <1>7, <1>10
    <2>2. [g EXCEPT !.rest = left, !.steps = all] \in Alike
      BY <1>5, <1>8, <1>9, <2>1
    <2> QED
      BY <1>6, <2>1, <2>2
  <1> QED
    BY <1>11 DEF Alike

\* A gesture that is not deaf goes as far as it is moved.
LEMMA MoveIs ==
    ASSUME NEW g \in Gestures, NEW by \in Int
    PROVE  /\ Move(g, by) \in Gestures
           /\ Move(g, by).kind = g.kind
           /\ Move(g, by).interval = g.interval /\ Move(g, by).action = g.action
           /\ ~Deaf(g) => Move(g, by).axis = g.axis + by
  <1>1. CASE g.kind = "Axis"
    <2> DEFINE past  == g.axis + by
               share == IF g.axis < Threshold(g) THEN past - Threshold(g) ELSE by
               sent  == share * g.factor * g.scale
               moved == [g EXCEPT !.axis = past, !.moved = @ + sent]
    <2>1. Move(g, by) = IF ~g.action THEN g
                        ELSE IF past <= Threshold(g) THEN [g EXCEPT !.axis = past]
                        ELSE IF by \in HiResCodes THEN LowRes(moved, sent)
                        ELSE moved
      BY <1>1 DEF Move, MoveAxis
    <2>2. past \in Int /\ share \in Int /\ g.factor \in Int /\ g.scale \in Int /\ g.moved \in Int
      BY NumbersOf DEF Gestures
    <2>3. sent \in Int
      BY <2>2
    <2> HIDE DEF sent, past
    <2>s. g.moved + sent \in Int
      BY <2>2, <2>3
    <2>4. /\ moved \in Gestures /\ moved.axis = past /\ moved.kind = g.kind
          /\ moved.interval = g.interval /\ moved.action = g.action
      BY <2>2, <2>s DEF Gestures
    <2>5. /\ [g EXCEPT !.axis = past] \in Gestures /\ [g EXCEPT !.axis = past].axis = past
          /\ [g EXCEPT !.axis = past].kind = g.kind
          /\ [g EXCEPT !.axis = past].interval = g.interval
          /\ [g EXCEPT !.axis = past].action = g.action
      BY <2>2 DEF Gestures
    <2> HIDE DEF moved
    <2> QED
      BY <1>1, <2>1, <2>3, <2>4, <2>5, LowResIs DEF Deaf, past
  <1>2. CASE g.kind = "OnInterval"
    <2> DEFINE axis  == g.axis + by
               count == (axis - Threshold(g)) \div Interval(g)
               there == [g EXCEPT !.axis = axis, !.passes = count]
    <2>1. Move(g, by) = IF Interval(g) <= 0 THEN g
                        ELSE IF axis < Threshold(g) THEN [g EXCEPT !.axis = axis]
                        ELSE IF count > g.passes THEN Run(there)
                        ELSE there
      BY <1>2 DEF Move, MoveInterval
    <2>2. CASE Interval(g) <= 0
      BY <1>2, <2>1, <2>2 DEF Deaf
    <2>3. CASE ~(Interval(g) <= 0)
      <3>1. axis \in Int /\ Interval(g) \in Int /\ Interval(g) > 0 /\ Threshold(g) \in Int
        BY <2>3, NumbersOf DEF Gestures
      <3>2. count \in Int
        BY <3>1
      <3> HIDE DEF count
      <3>3. /\ there \in Gestures /\ there.axis = axis /\ there.kind = g.kind
            /\ there.interval = g.interval /\ there.action = g.action
        BY <3>1, <3>2 DEF Gestures
      <3>4. /\ [g EXCEPT !.axis = axis] \in Gestures /\ [g EXCEPT !.axis = axis].axis = axis
            /\ [g EXCEPT !.axis = axis].kind = g.kind
            /\ [g EXCEPT !.axis = axis].interval = g.interval
            /\ [g EXCEPT !.axis = axis].action = g.action
        BY <3>1 DEF Gestures
      <3> HIDE DEF there
      <3> QED
        BY <2>1, <2>3, <3>3, <3>4, RunIs
    <2> QED
      BY <2>2, <2>3
  <1>3. CASE g.kind \notin {"Axis", "OnInterval"}
    <2> DEFINE there == [g EXCEPT !.axis = @ + by]
    <2>1. /\ there \in Gestures /\ there.axis = g.axis + by /\ there.kind = g.kind
          /\ there.interval = g.interval /\ there.action = g.action
      BY DEF Gestures
    <2>2. \/ Move(g, by) = there
          \/ Move(g, by) = [Run(there) EXCEPT !.done = TRUE]
      BY <1>3 DEF Move, MoveThreshold
    <2> HIDE DEF there
    <2> DEFINE ran == [Run(there) EXCEPT !.done = TRUE]
    <2>3. /\ ran \in Gestures /\ ran.axis = there.axis /\ ran.kind = there.kind
          /\ ran.interval = there.interval /\ ran.action = there.action
      <3> DEFINE g1 == Run(there)
      <3>1. /\ g1 \in Gestures /\ g1.axis = there.axis /\ g1.kind = there.kind
            /\ g1.interval = there.interval /\ g1.action = there.action
        BY <2>1, RunIs
      <3> HIDE DEF g1
      <3>2. LET g2 == [g1 EXCEPT !.done = TRUE]
            IN  /\ g2 \in Gestures /\ g2.axis = g1.axis /\ g2.kind = g1.kind
                /\ g2.interval = g1.interval /\ g2.action = g1.action
        BY <3>1 DEF Gestures
      <3> QED
        BY <3>1, <3>2 DEF g1
    <2> HIDE DEF ran
    <2>4. Move(g, by) = there \/ Move(g, by) = ran
      BY <2>2 DEF ran
    <2> QED
      BY <2>1, <2>3, <2>4
  <1> QED
    BY <1>1, <1>2, <1>3

-----------------------------------------------------------------------------
(* Types                                                                    *)

\* What a release has still to do.
ReleaseSteps == [do : {"look", "release"}, of : ToSet(Directions), primary : BOOLEAN]

\* Gestures are gestures, and a release only has those to do that there are.
GesturesOK ==
    /\ x \in Int /\ y \in Int /\ runs \in Int
    /\ DOMAIN gestures \subseteq ToSet(Directions)
    /\ gestures \in [DOMAIN gestures -> Gestures]
    /\ todo \in Seq(ReleaseSteps)
    /\ \A n \in DOMAIN todo : todo[n].of \in DOMAIN gestures
    /\ pressed => todo = << >>

\* The ways in which a step may change the gestures, other than by an event
\* of the device: one is replaced, or one is retuned.
Retunes(d) ==
    /\ d \in DOMAIN gestures
    /\ \E g \in Gestures : /\ gestures' = [gestures EXCEPT ![d] = g]
                           /\ g.axis = gestures[d].axis /\ g.kind = gestures[d].kind
                           /\ g.interval = gestures[d].interval
                           /\ g.kind = "Axis" => g.action = gestures[d].action

\* The gesture of direction d is made anew, which is noted while the button is held.
Replaces(d) ==
    /\ \E g \in Gestures : gestures' = [e \in DOMAIN gestures \cup {d} |-> IF e = d THEN g ELSE gestures[e]]
    /\ pressed => d \in remade'

\* What the calls of the bus leave alone.
Tuned == /\ UNCHANGED <<pressed, x, y, todo, met, crossed, runs>>
         /\ \A d : d \in remade => d \in remade'

\* The gesture of "none" is a gesture with its threshold.
LEMMA ThresholdIs ==
    ASSUME NEW d, NEW g \in Gestures
    PROVE  Threshold0(d, g) \in Gestures
  BY DEF Threshold0, Gestures

\* What the calls of the bus do to the gestures.
LEMMA TuningSteps ==
    ASSUME GesturesOK, NEW d \in ToSet(Directions),
           \/ \E kind \in Kinds : setGesture(d, kind)
           \/ \E v \in Thresholds : setThreshold(d, v)
           \/ \E v \in Intervals : setInterval(d, v)
           \/ \E v \in Factors : setMultiplier(d, v)
           \/ \E some \in BOOLEAN : setAxis(d, some) \/ setAction(d, some)
    PROVE  Tuned /\ (Replaces(d) \/ Retunes(d))
  <1>0. Tuned
    BY Zenon DEF Tuned, Tunes, setGesture, setThreshold, setInterval, setMultiplier, setAxis, setAction
  <1>g. d \in DOMAIN gestures => gestures[d] \in Gestures
    BY DEF GesturesOK
  <1>r. ASSUME d \in DOMAIN gestures, NEW g \in Gestures, gestures' = [gestures EXCEPT ![d] = g],
               pressed => d \in remade'
        PROVE  Replaces(d)
    <2>1. gestures' = [e \in DOMAIN gestures \cup {d} |-> IF e = d THEN g ELSE gestures[e]]
      BY <1>r DEF GesturesOK
    <2> QED
      BY <1>r, <2>1 DEF Replaces
  <1>1. ASSUME NEW kind \in Kinds, setGesture(d, kind) PROVE Replaces(d)
    <2> DEFINE old == IF d \in DOMAIN gestures THEN gestures[d] ELSE Gesture("None")
               let == IF pressed THEN Release(old, toDirection(x, y) = d) ELSE old
               anew == [Gesture(old.kind) EXCEPT !.threshold = old.threshold,
                           !.interval = old.interval, !.factor = old.factor,
                           !.bound = old.bound, !.action = old.bound]
               new == IF kind \in Kinds \ {"OnThreshold"} THEN Threshold0(d, Gesture(kind)) ELSE anew
               g   == [new EXCEPT !.ran = let.ran, !.moved = let.moved, !.steps = let.steps]
    <2>1. old \in Gestures
      BY <1>g, GestureIs DEF Kinds
    <2>2. let \in Gestures
      BY <2>1, ReleaseIs
    <2> HIDE DEF let
    <2>3. Gesture(old.kind) \in Gestures
      BY <2>1, GestureIs DEF Gestures
    <2> HIDE DEF old
    <2>4. anew \in Gestures
      BY <2>1, <2>3 DEF Gestures
    <2> HIDE DEF anew
    <2>5. new \in Gestures
      BY <2>4, GestureIs, ThresholdIs
    <2> HIDE DEF new
    <2>6. g \in Gestures
      BY <2>2, <2>5 DEF Gestures
    <2>7. /\ gestures' = [e \in DOMAIN gestures \cup {d} |-> IF e = d THEN g ELSE gestures[e]]
          /\ pressed => d \in remade'
      BY <1>1, Zenon DEF setGesture, new, anew, old, let
    <2> HIDE DEF g
    <2> QED
      BY <2>6, <2>7 DEF Replaces
  <1>2. ASSUME NEW v \in Thresholds, setThreshold(d, v) PROVE Retunes(d)
    <2> DEFINE g == SetThreshold(gestures[d], v)
    <2>1. d \in DOMAIN gestures /\ gestures' = [gestures EXCEPT ![d] = g]
      BY <1>2 DEF setThreshold
    <2>2. /\ g \in Gestures
          /\ g.axis = gestures[d].axis /\ g.kind = gestures[d].kind
          /\ g.interval = gestures[d].interval /\ g.action = gestures[d].action
      <3>1. Optional(v) \in SUBSET Int
        BY TuningAssumption DEF Optional
      <3> QED
        BY <1>g, <2>1, <3>1 DEF Gestures, SetThreshold
    <2> QED
      BY <2>1, <2>2 DEF Retunes
  <1>3. ASSUME NEW v \in Intervals, setInterval(d, v) PROVE Replaces(d)
    <2> DEFINE g == SetInterval(gestures[d], v)
    <2>1. /\ d \in DOMAIN gestures /\ gestures' = [gestures EXCEPT ![d] = g]
          /\ pressed => d \in remade'
      BY <1>3 DEF setInterval
    <2>2. g \in Gestures
      <3>1. Optional(v) \in SUBSET Int
        BY TuningAssumption DEF Optional
      <3> QED
        BY <1>g, <2>1, <3>1 DEF Gestures, SetInterval
    <2> HIDE DEF g
    <2> QED
      BY <1>r, <2>1, <2>2
  <1>4. ASSUME NEW v \in Factors, setMultiplier(d, v) PROVE Retunes(d)
    <2> DEFINE g == SetMultiplier(gestures[d], v, 1)
    <2>1. d \in DOMAIN gestures /\ gestures' = [gestures EXCEPT ![d] = g]
      BY <1>4 DEF setMultiplier
    <2>2. /\ g \in Gestures
          /\ g.axis = gestures[d].axis /\ g.kind = gestures[d].kind
          /\ g.interval = gestures[d].interval /\ g.action = gestures[d].action
      <3>1. v \in Int /\ v * 1 \in Int
        BY TuningAssumption
      <3> QED
        BY <1>g, <2>1, <3>1 DEF Gestures, SetMultiplier
    <2> QED
      BY <2>1, <2>2 DEF Retunes
  <1>5. ASSUME NEW some \in BOOLEAN, setAxis(d, some) PROVE Replaces(d)
    <2> DEFINE g == [gestures[d] EXCEPT !.bound = some, !.action = some]
    <2>1. /\ d \in DOMAIN gestures /\ gestures' = [gestures EXCEPT ![d] = g]
          /\ pressed => d \in remade'
      BY <1>5, Zenon DEF setAxis, GesturesOK
    <2>2. g \in Gestures
      BY <1>g, <2>1 DEF Gestures
    <2> HIDE DEF g
    <2> QED
      BY <1>r, <2>1, <2>2
  <1>6. ASSUME NEW some \in BOOLEAN, setAction(d, some) PROVE Retunes(d)
    <2> DEFINE b == gestures[d].bound \/ some
               a == some \/ (gestures[d].kind # "OnThreshold" /\ gestures[d].bound)
               g == [gestures[d] EXCEPT !.bound = b, !.action = a]
    <2>1. d \in DOMAIN gestures /\ gestures[d].kind # "Axis" /\ b \in BOOLEAN /\ a \in BOOLEAN
      BY <1>6, <1>g, Zenon DEF setAction, Gestures
    <2>2. gestures' = [gestures EXCEPT ![d] = g]
      BY <1>6, Zenon DEF setAction, GesturesOK
    <2> HIDE DEF a, b
    <2>3. /\ g \in Gestures /\ g.axis = gestures[d].axis /\ g.kind = gestures[d].kind
          /\ g.interval = gestures[d].interval
      BY <1>g, <2>1 DEF Gestures
    <2> HIDE DEF g
    <2> QED
      BY <2>1, <2>2, <2>3 DEF Retunes
  <1> QED
    BY <1>0, <1>1, <1>2, <1>3, <1>4, <1>5, <1>6

\* ReleaseSteps of a release, one after the other.
LEMMA StepsOf ==
    ASSUME NEW d \in ToSet(Directions), NEW b \in BOOLEAN
    PROVE  Look(d, b) \in ReleaseSteps /\ Let(d, b) \in ReleaseSteps
           /\ Look(d, b).of = d /\ Let(d, b).of = d
  BY DEF Look, Let, ReleaseSteps

\* The steps s are about gestures that there are.
Known(s, D) == s \in Seq(ReleaseSteps) /\ \A n \in DOMAIN s : s[n].of \in D

\* ReleaseSteps that follow each other are known when each are.
LEMMA KnownCat ==
    ASSUME NEW D, NEW s, NEW t, Known(s, D), Known(t, D)
    PROVE  Known(s \o t, D)
  BY DEF Known

\* One step is known when its gesture is.
LEMMA KnownOne ==
    ASSUME NEW D, NEW e \in ReleaseSteps, e.of \in D
    PROVE  Known(<<e>>, D) /\ Known(<< >>, D)
  BY DEF Known

\* What is left of known steps is known.
LEMMA KnownTail ==
    ASSUME NEW D, NEW s, Known(s, D), s # << >>
    PROVE  Known(Tail(s), D) /\ Head(s) \in ReleaseSteps /\ Head(s).of \in D
  BY DEF Known

\* How far a coordinate is on the positive side.
Beyond(v) == IF v > 0 THEN v ELSE 0

\* The shares of a movement are what the two directions gain by it.
LEMMA SharesAre ==
    ASSUME NEW from \in Int, NEW to \in Int
    PROVE  /\ Shares(from, to).neg \in Int /\ Shares(from, to).pos \in Int
           /\ Shares(from, to).neg = Beyond(-to) - Beyond(-from)
           /\ Shares(from, to).pos = Beyond(to) - Beyond(from)
  BY DEF Shares, Beyond

\* So they are along y, unless the movement crosses the origin.
LEMMA SharesYAre ==
    ASSUME NEW from \in Int, NEW to \in Int
    PROVE  /\ SharesY(from, to).neg \in Int /\ SharesY(from, to).pos \in Int
           /\ from = 0 \/ ~(from * to <= 0) =>
                 /\ SharesY(from, to).neg = Beyond(-to) - Beyond(-from)
                 /\ SharesY(from, to).pos = Beyond(to) - Beyond(from)
  <1>1. (from > 0 /\ to <= 0) \/ (from < 0 /\ to >= 0) => from * to <= 0
    OBVIOUS
  <1>2. SharesY(from, to).neg \in Int /\ SharesY(from, to).pos \in Int
    BY SharesAre DEF SharesY
  <1>3. from = 0 \/ ~(from * to <= 0) => SharesY(from, to) = Shares(from, to)
    BY <1>1 DEF SharesY
  <1> QED
    BY <1>2, <1>3, SharesAre

\* The gestures of a profile are gestures.
LEMMA TypeInitially == GestureInit => GesturesOK
  <1> SUFFICES ASSUME GestureInit PROVE GesturesOK
    OBVIOUS
  <1>1. PICK layout \in Layouts :
           gestures = [d \in DOMAIN layout |->
                          Threshold0(d, [Gesture(layout[d]) EXCEPT !.bound = TRUE, !.action = TRUE])]
    BY Zenon DEF GestureInit
  <1>2. ASSUME NEW d \in DOMAIN layout
        PROVE  Threshold0(d, [Gesture(layout[d]) EXCEPT !.bound = TRUE, !.action = TRUE]) \in Gestures
    <2>1. Gesture(layout[d]) \in Gestures
      BY GestureIs, LayoutAssumption
    <2>2. [Gesture(layout[d]) EXCEPT !.bound = TRUE, !.action = TRUE] \in Gestures
      BY <2>1 DEF Gestures
    <2> QED
      BY <2>2, ThresholdIs
  <1>3. DOMAIN gestures \subseteq ToSet(Directions) /\ gestures \in [DOMAIN gestures -> Gestures]
    BY <1>1, <1>2, LayoutAssumption, Zenon
  <1>4. x = 0 /\ y = 0 /\ runs = 0 /\ pressed = FALSE /\ todo = << >>
    BY Zenon DEF GestureInit
  <1>5. todo \in Seq(ReleaseSteps) /\ DOMAIN todo = {}
    BY <1>4
  <1> QED
    BY <1>3, <1>4, <1>5 DEF GesturesOK

\* Every step keeps the types.
LEMMA TypeStep ==
    ASSUME GesturesOK, [GestureNext]_gestureVars
    PROVE  GesturesOK'
  <1>1. CASE press
    <2>1. \A d \in DOMAIN gestures : Press(gestures[d], FALSE) \in Gestures
      BY PressIs DEF GesturesOK
    <2>2. gestures' \in [DOMAIN gestures -> Gestures] /\ DOMAIN gestures' = DOMAIN gestures
      BY <1>1, <2>1 DEF press
    <2>3. x' \in Int /\ y' \in Int /\ runs' \in Int /\ UNCHANGED todo /\ todo = << >>
      BY <1>1 DEF press
    <2> QED
      BY <2>2, <2>3 DEF GesturesOK
  <1>2. CASE release
    <2> DEFINE D == DOMAIN gestures
               d == toDirection(x, y)
               Has(e)   == IF e \in DOMAIN gestures THEN <<Look(e, TRUE)>> ELSE << >>
               Other(e) == IF e \in DOMAIN gestures \ {d} THEN <<Look(e, FALSE)>> ELSE << >>
    <2>0. ~pressed' /\ runs' = 0 /\ UNCHANGED <<x, y, gestures>>
      BY <1>2 DEF release
    <2>1. todo' = Has(d) \o Other("up") \o Other("down") \o Other("left") \o Other("right")
                         \o Has("none")
      BY <1>2 DEF release
    <2>2. Known(<< >>, D)
      BY DEF Known
    <2>3. \A e : Known(Has(e), D)
      BY <2>2, KnownOne, StepsOf DEF GesturesOK
    <2>4. \A e : Known(Other(e), D)
      BY <2>2, KnownOne, StepsOf DEF GesturesOK
    <2> HIDE DEF Has, Other, d
    <2>5. Known(todo', D)
      <3>1. Known(Has(d) \o Other("up"), D)
        BY <2>3, <2>4, KnownCat
      <3>2. Known(Has(d) \o Other("up") \o Other("down"), D)
        BY <2>4, <3>1, KnownCat
      <3>3. Known(Has(d) \o Other("up") \o Other("down") \o Other("left"), D)
        BY <2>4, <3>2, KnownCat
      <3>4. Known(Has(d) \o Other("up") \o Other("down") \o Other("left") \o Other("right"), D)
        BY <2>4, <3>3, KnownCat
      <3> QED
        BY <2>1, <2>3, <3>4, KnownCat
    <2>6. x' \in Int /\ y' \in Int /\ runs' \in Int
      BY <2>0 DEF GesturesOK
    <2>7. /\ DOMAIN gestures' \subseteq ToSet(Directions)
          /\ gestures' \in [DOMAIN gestures' -> Gestures]
      BY <2>0 DEF GesturesOK
    <2>8. todo' \in Seq(ReleaseSteps) /\ \A n \in DOMAIN todo' : todo'[n].of \in DOMAIN gestures'
      BY <2>0, <2>5 DEF Known
    <2> QED
      BY <2>0, <2>6, <2>7, <2>8 DEF GesturesOK
  <1>3. CASE releaseLooks
    <2> DEFINE D == DOMAIN gestures
               h == Head(todo)
    <2>1. Known(todo, D) /\ todo # << >>
      BY <1>3 DEF releaseLooks, GesturesOK, Known
    <2>2. Known(Tail(todo), D) /\ h \in ReleaseSteps /\ h.of \in D /\ h.of \in ToSet(Directions)
      BY <2>1, KnownTail DEF ReleaseSteps
    <2>3. \A b \in BOOLEAN : Known(<<Let(h.of, b)>>, D) /\ Known(<<Let(h.of, b)>> \o Tail(todo), D)
                             /\ Known(<< >> \o Tail(todo), D)
      BY <2>2, StepsOf, KnownOne, KnownCat
    <2>4. metThreshold(gestures[h.of]) \in BOOLEAN
      BY DEF metThreshold
    <2> HIDE DEF h
    <2>5. Known(todo', D)
      <3>1. \E b \in BOOLEAN :
                todo' \in {<<Let(h.of, b)>>, <<Let(h.of, b)>> \o Tail(todo), << >> \o Tail(todo)}
        BY <1>3, <2>4 DEF releaseLooks, h
      <3> QED
        BY <2>3, <3>1
    <2> QED
      BY <1>3, <2>1, <2>5 DEF releaseLooks, GesturesOK, Known
  <1>4. CASE releaseGesture
    <2> DEFINE D == DOMAIN gestures
               h == Head(todo)
    <2>1. Known(todo, D) /\ todo # << >>
      BY <1>4 DEF releaseGesture, GesturesOK, Known
    <2>2. Known(Tail(todo), D) /\ h \in ReleaseSteps /\ h.of \in D /\ h.primary \in BOOLEAN
      BY <2>1, KnownTail DEF ReleaseSteps
    <2>3. gestures[h.of] \in Gestures /\ Release(gestures[h.of], h.primary) \in Gestures
      BY <2>2, ReleaseIs DEF GesturesOK
    <2> HIDE DEF h
    <2>4. /\ gestures' = [gestures EXCEPT ![h.of] = Release(@, h.primary)]
          /\ runs' = runs + (gestures'[h.of].ran - gestures[h.of].ran)
          /\ todo' = Tail(todo) /\ UNCHANGED <<x, y, pressed>>
      BY <1>4 DEF releaseGesture, h
    <2>5. gestures' \in [D -> Gestures] /\ DOMAIN gestures' = D /\ gestures'[h.of] \in Gestures
      BY <2>2, <2>3, <2>4 DEF GesturesOK
    <2>6. runs' \in Int
      <3>1. gestures'[h.of].ran \in Int /\ gestures[h.of].ran \in Int /\ runs \in Int
        BY <2>3, <2>5 DEF GesturesOK, Gestures
      <3> QED
        BY <2>4, <3>1
    <2> QED
      BY <2>1, <2>2, <2>4, <2>5, <2>6 DEF GesturesOK, Known
  <1>5. ASSUME NEW dx \in Moves, NEW dy \in Moves, move(dx, dy) PROVE GesturesOK'
    <2>1. dx \in Int /\ dy \in Int /\ x + dx \in Int /\ y + dy \in Int
      BY TuningAssumption DEF GesturesOK
    <2> DEFINE sx    == Shares(x, x + dx)
               sy    == SharesY(y, y + dy)
               by(d) == CASE d = "left" -> sx.neg [] d = "right" -> sx.pos
                          [] d = "up"   -> sy.neg [] d = "down"  -> sy.pos
                          [] OTHER      -> 0
    <2>2. sx.neg \in Int /\ sx.pos \in Int /\ sy.neg \in Int /\ sy.pos \in Int
      BY <2>1, SharesAre, SharesYAre DEF GesturesOK
    <2>3. \A d : by(d) \in Int
      BY <2>2
    <2>4. /\ gestures' = [d \in DOMAIN gestures |->
                           IF by(d) = 0 THEN gestures[d] ELSE Move(gestures[d], by(d))]
          /\ x' = x + dx /\ y' = y + dy /\ UNCHANGED <<pressed, todo, runs>>
      BY <1>5 DEF move
    <2> HIDE DEF by
    <2>5. gestures' \in [DOMAIN gestures -> Gestures] /\ DOMAIN gestures' = DOMAIN gestures
      BY <2>3, <2>4, MoveIs DEF GesturesOK
    <2> QED
      BY <2>1, <2>4, <2>5 DEF GesturesOK
  <1>6. ASSUME NEW d \in ToSet(Directions), Tuned /\ (Replaces(d) \/ Retunes(d)) PROVE GesturesOK'
    <2>1. /\ DOMAIN gestures' \subseteq ToSet(Directions) /\ gestures' \in [DOMAIN gestures' -> Gestures]
          /\ DOMAIN gestures \subseteq DOMAIN gestures'
      BY <1>6 DEF Replaces, Retunes, GesturesOK
    <2> QED
      BY <1>6, <2>1 DEF Tuned, GesturesOK
  <1>7. CASE UNCHANGED gestureVars
    BY <1>7 DEF GesturesOK, gestureVars
  <1> QED
    BY <1>1, <1>2, <1>3, <1>4, <1>5, <1>6, <1>7, TuningSteps DEF GestureNext

-----------------------------------------------------------------------------
(* AxisIsDistance                                                           *)

\* How far the pointer has gone in a direction, for the gesture there.
Gone(d) == Beyond(Toward(d))

\* The inductive invariant.
AxisInv == GesturesOK /\ AxisIsDistance

\* Every step keeps AxisInv.
LEMMA AxisStep ==
    ASSUME AxisInv, [GestureNext]_gestureVars
    PROVE  AxisIsDistance'
  <1>0. GesturesOK /\ GesturesOK'
    BY TypeStep DEF AxisInv
  <1>a. \A d : AxisIs(d) <=> (d \in DOMAIN gestures \ remade /\ ~Deaf(gestures[d]) =>
                                 gestures[d].axis = Gone(d))
    BY DEF AxisIs, Gone, Beyond
  <1>b. \A d : AxisIs(d)' <=> (d \in DOMAIN gestures' \ remade' /\ ~Deaf(gestures'[d]) =>
                                 gestures'[d].axis = Gone(d)')
    BY DEF AxisIs, Gone, Beyond, Toward, Deaf, Interval, Set
  <1>1. CASE press
    <2>1. x' = 0 /\ y' = 0 /\ gestures' = [d \in DOMAIN gestures |-> Press(gestures[d], FALSE)]
      BY <1>1 DEF press
    <2>2. \A d \in {"left", "right", "up", "down"} : Gone(d)' = 0
      BY <2>1 DEF Gone, Beyond, Toward
    <2>3. \A d \in DOMAIN gestures' : gestures'[d].axis = 0
      BY <1>0, <2>1, PressIs DEF GesturesOK
    <2> QED
      BY <1>b, <2>2, <2>3 DEF AxisIsDistance
  <1>2. CASE release
    BY <1>2 DEF release, AxisIsDistance
  <1>3. CASE releaseLooks \/ releaseGesture
    BY <1>0, <1>3 DEF releaseLooks, releaseGesture, AxisIsDistance, GesturesOK
  <1>5. ASSUME NEW dx \in Moves, NEW dy \in Moves, move(dx, dy) PROVE AxisIsDistance'
    <2>1. /\ dx \in Int /\ dy \in Int /\ x \in Int /\ y \in Int /\ x + dx \in Int /\ y + dy \in Int
      BY <1>0, TuningAssumption DEF GesturesOK
    <2> DEFINE sx    == Shares(x, x + dx)
               sy    == SharesY(y, y + dy)
               by(d) == CASE d = "left" -> sx.neg [] d = "right" -> sx.pos
                          [] d = "up"   -> sy.neg [] d = "down"  -> sy.pos
                          [] OTHER      -> 0
    <2>2. /\ gestures' = [d \in DOMAIN gestures |->
                           IF by(d) = 0 THEN gestures[d] ELSE Move(gestures[d], by(d))]
          /\ x' = x + dx /\ y' = y + dy /\ UNCHANGED remade /\ pressed
          /\ crossed' = (crossed \/ (dy # 0 /\ y * (y + dy) <= 0 /\ y # 0))
      BY <1>5 DEF move
    <2>3. /\ sx.neg \in Int /\ sx.pos \in Int
          /\ sx.neg = Beyond(-(x + dx)) - Beyond(-x) /\ sx.pos = Beyond(x + dx) - Beyond(x)
      BY <2>1, SharesAre
    <2>4. /\ sy.neg \in Int /\ sy.pos \in Int
          /\ ~crossed' => /\ sy.neg = Beyond(-(y + dy)) - Beyond(-y)
                          /\ sy.pos = Beyond(y + dy) - Beyond(y)
      <3>1. dy = 0 => sy.neg = 0 /\ sy.pos = 0 /\ y + dy = y
        BY <2>1 DEF SharesY, Shares
      <3>2. ~crossed' /\ dy # 0 => y = 0 \/ ~(y * (y + dy) <= 0)
        BY <2>2
      <3>3. /\ sy.neg \in Int /\ sy.pos \in Int
            /\ y = 0 \/ ~(y * (y + dy) <= 0) =>
                 /\ sy.neg = Beyond(-(y + dy)) - Beyond(-y)
                 /\ sy.pos = Beyond(y + dy) - Beyond(y)
        BY <2>1, SharesYAre
      <3>4. Beyond(-y) \in Int /\ Beyond(y) \in Int
        BY <2>1 DEF Beyond
      <3> QED
        BY <3>1, <3>2, <3>3, <3>4
    <2> HIDE DEF sx, sy
    <2>5. /\ \A d \in {"left", "right", "up", "down"} : by(d) \in Int
          /\ by("left") = sx.neg /\ by("right") = sx.pos /\ by("up") = sy.neg /\ by("down") = sy.pos
      BY <2>3, <2>4
    <2> HIDE DEF by
    <2>6. /\ by("left") = Gone("left")' - Gone("left") /\ by("right") = Gone("right")' - Gone("right")
          /\ ~crossed' => by("up") = Gone("up")' - Gone("up") /\ by("down") = Gone("down")' - Gone("down")
      BY <2>1, <2>2, <2>3, <2>4, <2>5 DEF Gone, Toward
    <2>7. \A d \in {"left", "right", "up", "down"} : Gone(d) \in Int /\ Gone(d)' \in Int
      BY <1>0 DEF Gone, Beyond, Toward, GesturesOK
    <2>8. ASSUME NEW d \in {"left", "right", "up", "down"}, AxisIs(d), by(d) = Gone(d)' - Gone(d)
          PROVE  AxisIs(d)'
      <3> SUFFICES ASSUME d \in DOMAIN gestures' \ remade', ~Deaf(gestures'[d])
                   PROVE  gestures'[d].axis = Gone(d)'
        BY <1>b
      <3>1. /\ d \in DOMAIN gestures \ remade /\ gestures[d] \in Gestures /\ by(d) \in Int
            /\ gestures'[d] = IF by(d) = 0 THEN gestures[d] ELSE Move(gestures[d], by(d))
        BY <1>0, <2>2, <2>5 DEF GesturesOK
      <3>2. CASE by(d) = 0
        BY <1>a, <2>7, <2>8, <3>1, <3>2
      <3>3. CASE by(d) # 0
        <4>1. /\ gestures'[d].kind = gestures[d].kind /\ gestures'[d].interval = gestures[d].interval
              /\ gestures'[d].action = gestures[d].action
          BY <3>1, <3>3, MoveIs
        <4>2. ~Deaf(gestures[d])
          BY <4>1 DEF Deaf, Interval
        <4>3. gestures'[d].axis = gestures[d].axis + by(d) /\ gestures[d].axis = Gone(d)
          BY <1>a, <2>8, <3>1, <3>3, <4>2, MoveIs
        <4> QED
          BY <2>7, <2>8, <4>3
      <3> QED
        BY <3>2, <3>3
    <2> QED
      BY <2>2, <2>6, <2>8 DEF AxisIsDistance, AxisInv
  <1>6. ASSUME NEW d \in ToSet(Directions), Tuned /\ (Replaces(d) \/ Retunes(d)) PROVE AxisIsDistance'
    <2>1. /\ UNCHANGED <<pressed, x, y, crossed>> /\ remade \subseteq remade'
          /\ \A e : Gone(e)' = Gone(e)
      BY <1>6 DEF Tuned, Gone, Beyond, Toward
    <2>2. ASSUME NEW e, pressed, AxisIs(e) PROVE AxisIs(e)'
      <3> SUFFICES ASSUME e \in DOMAIN gestures' \ remade', ~Deaf(gestures'[e])
                   PROVE  gestures'[e].axis = Gone(e)
        BY <1>b, <2>1
      <3>1. CASE e = d /\ Retunes(d)
        <4>1. /\ d \in DOMAIN gestures /\ gestures'[d].axis = gestures[d].axis
              /\ gestures'[d].kind = gestures[d].kind /\ gestures'[d].interval = gestures[d].interval
              /\ gestures'[d].kind = "Axis" => gestures'[d].action = gestures[d].action
          BY <1>0, <3>1 DEF Retunes, GesturesOK
        <4>2. ~Deaf(gestures[d])
          BY <3>1, <4>1 DEF Deaf, Interval
        <4> QED
          BY <1>a, <2>1, <2>2, <3>1, <4>1, <4>2
      <3>2. CASE e # d
        <4>1. e \in DOMAIN gestures /\ gestures'[e] = gestures[e]
          BY <1>6, <3>2 DEF Replaces, Retunes
        <4> QED
          BY <1>a, <2>1, <2>2, <4>1
      <3>3. CASE e = d /\ Replaces(d)
        BY <2>2, <3>3 DEF Replaces
      <3> QED
        BY <1>6, <3>1, <3>2, <3>3
    <2> QED
      BY <2>1, <2>2 DEF AxisIsDistance, AxisInv
  <1>7. CASE UNCHANGED gestureVars
    BY <1>7 DEF AxisInv, AxisIsDistance, AxisIs, Deaf, Interval, Toward, gestureVars
  <1> QED
    BY <1>0, <1>1, <1>2, <1>3, <1>5, <1>6, <1>7, TuningSteps DEF GestureNext

(***************************************************************************)
(* Whatever way the pointer goes while the button is held, and whatever    *)
(* the bus retunes meanwhile, the gesture of a direction that was there at *)
(* the press has gone as far as the pointer has in its direction; along y  *)
(* unless a single event has crossed the origin.                           *)
(***************************************************************************)
THEOREM GesturesGoAsFar == GestureSpec => []AxisIsDistance
  <1>1. GestureInit => AxisInv
    <2>1. GestureInit => ~pressed
      BY Zenon DEF GestureInit
    <2> QED
      BY <2>1, TypeInitially DEF AxisInv, AxisIsDistance
  <1>2. AxisInv /\ [GestureNext]_gestureVars => AxisInv'
    BY AxisStep, TypeStep DEF AxisInv
  <1>3. AxisInv => AxisIsDistance
    BY DEF AxisInv
  <1> QED
    BY <1>1, <1>2, <1>3, PTL DEF GestureSpec

-----------------------------------------------------------------------------
(* OneRunPerRelease                                                         *)

\* A look at a gesture that the pointer did not go to, or at "none".
Plain(s)      == \A n \in DOMAIN s : s[n].do = "look" /\ (s[n].primary => s[n].of = "none")
AfterFirst(s) == \A n \in DOMAIN s : n > 1 => s[n].do = "look" /\ (s[n].primary => s[n].of = "none")

\* Of the steps that are left only the first may let a gesture go, or look at
\* the one the pointer went to.
Ordered == AfterFirst(todo)

\* What is let go as primary has not met its threshold or is found to have,
\* and nothing has run before it; what is let go as primary of "none" is the
\* last.
LetGo(h) ==
    h.do = "release" /\ h.primary =>
        /\ runs = 0
        /\ IF h.of = "none" THEN Len(todo) = 1 ELSE metThreshold(gestures[h.of]) => met

\* Whatever has run is known to the looks that follow.
RunsKnown ==
    retuned = {} =>
        /\ runs \in 0 .. 1
        /\ todo # << >> =>
              /\ runs = 1 => met
              /\ Head(todo).do = "look" /\ Head(todo).primary /\ Head(todo).of # "none" => runs = 0
              /\ LetGo(Head(todo))

\* The inductive invariant.
RunsInv == GesturesOK /\ Ordered /\ RunsKnown

\* The looks of a release, one after the other.
LEMMA PlainCat ==
    ASSUME NEW s \in Seq(ReleaseSteps), NEW t \in Seq(ReleaseSteps), Plain(t)
    PROVE  /\ s \o t \in Seq(ReleaseSteps)
           /\ Plain(s) => Plain(s \o t)
           /\ AfterFirst(s) => AfterFirst(s \o t)
           /\ s # << >> => Head(s \o t) = Head(s)
           /\ s = << >> => s \o t = t
  BY DEF Plain, AfterFirst

\* The bus may change what a gesture has met only by its threshold.
LEMMA MetKept ==
    ASSUME GesturesOK, todo # << >>, retuned' = {}, NEW d \in ToSet(Directions),
           \/ \E kind \in Kinds : setGesture(d, kind)
           \/ \E v \in Thresholds : setThreshold(d, v)
           \/ \E v \in Intervals : setInterval(d, v)
           \/ \E v \in Factors : setMultiplier(d, v)
           \/ \E some \in BOOLEAN : setAxis(d, some) \/ setAction(d, some),
           NEW e \in DOMAIN gestures
    PROVE  metThreshold(gestures[e])' = metThreshold(gestures[e])
  <1>1. gestures[e] \in Gestures /\ gestures \in [DOMAIN gestures -> Gestures]
    BY DEF GesturesOK
  <1>2. gestures'[e].axis = gestures[e].axis /\ gestures'[e].threshold = gestures[e].threshold
    <2>1. ASSUME NEW v, setInterval(d, v)
          PROVE  gestures'[e].axis = gestures[e].axis /\ gestures'[e].threshold = gestures[e].threshold
      BY <1>1, <2>1 DEF setInterval, SetInterval, Gestures
    <2>2. ASSUME NEW v, setMultiplier(d, v)
          PROVE  gestures'[e].axis = gestures[e].axis /\ gestures'[e].threshold = gestures[e].threshold
      BY <1>1, <2>2, Zenon DEF setMultiplier, SetMultiplier, Gestures
    <2>3. ASSUME NEW v, setAxis(d, v)
          PROVE  gestures'[e].axis = gestures[e].axis /\ gestures'[e].threshold = gestures[e].threshold
      BY <1>1, <2>3, Zenon DEF setAxis, Gestures
    <2>4. ASSUME NEW v, setAction(d, v)
          PROVE  gestures'[e].axis = gestures[e].axis /\ gestures'[e].threshold = gestures[e].threshold
      BY <1>1, <2>4, Zenon DEF setAction, Gestures
    <2>5. ASSUME NEW v, setThreshold(d, v) PROVE FALSE
      BY <2>5 DEF setThreshold
    <2>6. ASSUME NEW v, setGesture(d, v) PROVE FALSE
      BY <2>6, Zenon DEF setGesture
    <2> QED
      BY <2>1, <2>2, <2>3, <2>4, <2>5, <2>6
  <1> QED
    BY <1>2 DEF metThreshold, Threshold, Set

\* Every step keeps RunsInv.
LEMMA RunsStep ==
    ASSUME RunsInv, [GestureNext]_gestureVars
    PROVE  Ordered' /\ RunsKnown'
  <1>0. GesturesOK /\ Ordered /\ RunsKnown /\ todo \in Seq(ReleaseSteps)
    BY DEF RunsInv, GesturesOK
  <1>1. CASE press
    BY <1>0, <1>1 DEF press, Ordered, AfterFirst, RunsKnown
  <1>2. CASE release
    <2> DEFINE d == toDirection(x, y)
               Has(e)   == IF e \in DOMAIN gestures THEN <<Look(e, TRUE)>> ELSE << >>
               Other(e) == IF e \in DOMAIN gestures \ {d} THEN <<Look(e, FALSE)>> ELSE << >>
    <2>1. /\ todo' = Has(d) \o Other("up") \o Other("down") \o Other("left") \o Other("right")
                            \o Has("none")
          /\ runs' = 0
      BY <1>2 DEF release
    <2>2. \A e : /\ Has(e) \in Seq(ReleaseSteps) /\ AfterFirst(Has(e))
                 /\ \A n \in DOMAIN Has(e) : Has(e)[n].do = "look"
                 /\ Other(e) \in Seq(ReleaseSteps) /\ Plain(Other(e))
      <3>1. \A e \in DOMAIN gestures : e \in ToSet(Directions)
        BY <1>0 DEF GesturesOK
      <3> SUFFICES ASSUME NEW e
                   PROVE  /\ Has(e) \in Seq(ReleaseSteps) /\ AfterFirst(Has(e))
                          /\ \A n \in DOMAIN Has(e) : Has(e)[n].do = "look"
                          /\ Other(e) \in Seq(ReleaseSteps) /\ Plain(Other(e))
        OBVIOUS
      <3>2. << >> \in Seq(ReleaseSteps) /\ AfterFirst(<< >>) /\ Plain(<< >>) /\ DOMAIN << >> = {}
        BY DEF AfterFirst, Plain
      <3>3. ASSUME e \in DOMAIN gestures, NEW b \in BOOLEAN
            PROVE  /\ <<Look(e, b)>> \in Seq(ReleaseSteps) /\ AfterFirst(<<Look(e, b)>>)
                   /\ \A n \in DOMAIN <<Look(e, b)>> : <<Look(e, b)>>[n] = Look(e, b)
        BY <3>1, <3>3, StepsOf DEF AfterFirst
      <3>4. Look(e, TRUE).do = "look" /\ Look(e, FALSE).do = "look" /\ ~Look(e, FALSE).primary
        BY DEF Look
      <3>5. /\ Has(e) \in Seq(ReleaseSteps) /\ AfterFirst(Has(e))
            /\ \A n \in DOMAIN Has(e) : Has(e)[n].do = "look"
        BY <3>2, <3>3, <3>4
      <3>6. Other(e) \in Seq(ReleaseSteps) /\ Plain(Other(e))
        BY <3>2, <3>3, <3>4 DEF Plain
      <3> QED
        BY <3>5, <3>6
    <2>3. Plain(Has("none"))
      BY DEF Plain, Look
    <2> HIDE DEF d, Has, Other
    <2> DEFINE s1 == Has(d) \o Other("up")
               s2 == s1 \o Other("down")
               s3 == s2 \o Other("left")
               s4 == s3 \o Other("right")
    <2> DEFINE Good(s) == s \in Seq(ReleaseSteps) /\ AfterFirst(s) /\ (s # << >> => Head(s).do = "look")
    <2>4. ASSUME NEW s, NEW t, Good(s), t \in Seq(ReleaseSteps), Plain(t) PROVE Good(s \o t)
      BY <2>4, PlainCat DEF Plain
    <2>5. Good(Has(d))
      BY <2>2
    <2> HIDE DEF Good
    <2>6. Good(s1)
      BY <2>2, <2>4, <2>5
    <2>7. Good(s2)
      BY <2>2, <2>4, <2>6
    <2>8. Good(s3)
      BY <2>2, <2>4, <2>7
    <2>9. Good(s4)
      BY <2>2, <2>4, <2>8
    <2>10. Good(todo')
      BY <2>1, <2>2, <2>3, <2>4, <2>9
    <2>11. runs' = 0
      BY <2>1
    <2>12. todo' # << >> => ~(Head(todo').do = "release")
      BY <2>10 DEF Good
    <2>13. Ordered'
      BY <2>10 DEF Good, Ordered
    <2>14. RunsKnown'
      BY <2>11, <2>12 DEF RunsKnown, LetGo
    <2> QED
      BY <2>13, <2>14
  <1>3. CASE releaseLooks
    <2> DEFINE h == Head(todo)
               m == metThreshold(gestures[h.of])
    <2>0. todo # << >> /\ h.do = "look" /\ UNCHANGED <<gestures, runs, retuned>>
      BY <1>3 DEF releaseLooks
    <2>1. /\ todo # << >> /\ h.do = "look" /\ UNCHANGED <<gestures, runs, retuned>>
          /\ \/ h.of = "none" /\ todo' = <<Let(h.of, ~met)>> /\ UNCHANGED met
             \/ /\ h.of # "none" /\ h.primary
                /\ met' = m /\ todo' = <<Let(h.of, TRUE)>> \o Tail(todo)
             \/ /\ h.of # "none" /\ ~h.primary /\ met
                /\ todo' = <<Let(h.of, FALSE)>> \o Tail(todo) /\ UNCHANGED met
             \/ /\ h.of # "none" /\ ~h.primary /\ ~met /\ met' = m
                /\ todo' = (IF m THEN <<Let(h.of, TRUE)>> ELSE << >>) \o Tail(todo)
      <3>1. CASE h.of = "none"
        BY <1>3, <2>0, <3>1 DEF releaseLooks
      <3>2. CASE h.of # "none" /\ h.primary
        BY <1>3, <2>0, <3>2 DEF releaseLooks
      <3>3. CASE h.of # "none" /\ ~h.primary /\ met
        BY <1>3, <2>0, <3>3 DEF releaseLooks
      <3>4. CASE h.of # "none" /\ ~h.primary /\ ~met
        BY <1>3, <2>0, <3>4 DEF releaseLooks
      <3> QED
        BY <3>1, <3>2, <3>3, <3>4
    <2>2. /\ Tail(todo) \in Seq(ReleaseSteps) /\ Plain(Tail(todo))
          /\ h \in ReleaseSteps /\ h.of \in ToSet(Directions)
      <3>1. Tail(todo) \in Seq(ReleaseSteps) /\ h \in ReleaseSteps
        BY <1>0, <2>1
      <3>2. Plain(Tail(todo))
        BY <1>0, <2>1 DEF Ordered, AfterFirst, Plain
      <3>3. h.of \in ToSet(Directions)
        BY <3>1 DEF ReleaseSteps
      <3> QED
        BY <3>1, <3>2, <3>3
    <2>3. ASSUME NEW b \in BOOLEAN, todo' = <<Let(h.of, b)>> \o Tail(todo)
          PROVE  Ordered' /\ todo' # << >> /\ Head(todo') = Let(h.of, b)
      <3>1. /\ Let(h.of, b) \in ReleaseSteps
            /\ <<Let(h.of, b)>> \in Seq(ReleaseSteps) /\ AfterFirst(<<Let(h.of, b)>>)
            /\ <<Let(h.of, b)>> # << >> /\ Head(<<Let(h.of, b)>>) = Let(h.of, b)
        BY <2>2, StepsOf DEF AfterFirst
      <3>2. todo' # << >>
        BY <2>2, <2>3, <3>1
      <3> QED
        BY <2>2, <2>3, <3>1, <3>2, PlainCat DEF Ordered
    <2>4. /\ Let(h.of, TRUE).do = "release" /\ Let(h.of, TRUE).of = h.of /\ Let(h.of, TRUE).primary
          /\ Let(h.of, FALSE).do = "release" /\ ~Let(h.of, FALSE).primary
      BY DEF Let
    <2> HIDE DEF h
    <2>5. metThreshold(gestures'[h.of]) = m
      BY <2>1
    <2>k. ASSUME NEW k \in ReleaseSteps, todo' # << >> => Head(todo') = k, k.do = "release",
                 retuned = {} => (runs = 1 => met'),
                 retuned = {} /\ k.primary => runs = 0,
                 k.of = "none" => Len(todo') = 1,
                 k.of # "none" /\ k.primary => (metThreshold(gestures'[k.of]) => met')
          PROVE  RunsKnown'
      <3>1. todo' # << >> /\ retuned = {} => LetGo(Head(todo))'
        <4>1. metThreshold(gestures[Head(todo).of])' = metThreshold(gestures'[Head(todo').of])
          BY DEF metThreshold, Threshold, Set
        <4> QED
          BY <2>1, <2>k, <4>1 DEF LetGo
      <3> QED
        BY <1>0, <2>1, <2>k, <3>1 DEF RunsKnown
    <2>6. CASE h.of = "none"
      <3>1. todo' = <<Let(h.of, ~met)>> /\ UNCHANGED met
        BY <2>1, <2>6
      <3>2. /\ todo' # << >> /\ Head(todo') = Let(h.of, ~met) /\ Len(todo') = 1 /\ AfterFirst(todo')
        BY <3>1 DEF AfterFirst
      <3>3. Let(h.of, ~met).do = "release" /\ Let(h.of, ~met).of = h.of /\ (Let(h.of, ~met).primary => ~met)
        BY DEF Let
      <3>4. Let(h.of, ~met) \in ReleaseSteps
        BY <2>2 DEF Let, ReleaseSteps
      <3>5. retuned = {} => (runs = 1 => met) /\ runs \in 0 .. 1
        BY <1>0, <2>1 DEF RunsKnown
      <3>6. /\ retuned = {} => (runs = 1 => met')
            /\ retuned = {} /\ Let(h.of, ~met).primary => runs = 0
        BY <3>1, <3>3, <3>5
      <3> DEFINE k == Let(h.of, ~met)
      <3> HIDE DEF k
      <3>7. RunsKnown'
        BY <2>6, <2>k, <3>2, <3>3, <3>4, <3>6 DEF k
      <3> QED
        BY <3>2, <3>7 DEF Ordered
    <2>7. CASE h.of # "none" /\ h.primary
      <3>1. met' = m /\ todo' = <<Let(h.of, TRUE)>> \o Tail(todo)
        BY <2>1, <2>7
      <3>2. Ordered' /\ todo' # << >> /\ Head(todo') = Let(h.of, TRUE)
        BY <2>3, <3>1
      <3>3. retuned = {} => runs = 0
        BY <1>0, <2>1, <2>7 DEF RunsKnown, h
      <3>4. metThreshold(gestures'[h.of]) => met'
        BY <2>5, <3>1
      <3>5. retuned = {} => (runs = 1 => met')
        BY <3>3
      <3>6. Let(h.of, TRUE) \in ReleaseSteps
        BY <2>2, StepsOf
      <3> QED
        BY <2>4, <2>7, <2>k, <3>2, <3>3, <3>4, <3>5, <3>6
    <2>8. CASE h.of # "none" /\ ~h.primary /\ met
      <3>1. UNCHANGED met /\ todo' = <<Let(h.of, FALSE)>> \o Tail(todo)
        BY <2>1, <2>8
      <3>2. Ordered' /\ todo' # << >> /\ Head(todo') = Let(h.of, FALSE)
        BY <2>3, <3>1
      <3> QED
        BY <1>0, <2>1, <2>4, <2>8, <3>1, <3>2 DEF RunsKnown, LetGo, h
    <2>9. CASE h.of # "none" /\ ~h.primary /\ ~met /\ m
      <3>1. met' = m /\ todo' = <<Let(h.of, TRUE)>> \o Tail(todo)
        BY <2>1, <2>9
      <3>2. Ordered' /\ todo' # << >> /\ Head(todo') = Let(h.of, TRUE)
        BY <2>3, <3>1
      <3>3. retuned = {} => (runs = 1 => met) /\ runs \in 0 .. 1
        BY <1>0, <2>1 DEF RunsKnown
      <3>4. retuned = {} => runs = 0
        BY <2>9, <3>3
      <3> QED
        BY <2>1, <2>2, <2>4, <2>5, <2>9, <2>k, <3>1, <3>2, <3>4, StepsOf
    <2>10. CASE h.of # "none" /\ ~h.primary /\ ~met /\ ~m
      <3>1. todo' = << >> \o Tail(todo)
        BY <2>1, <2>10
      <3>2. todo' = Tail(todo) /\ todo' \in Seq(ReleaseSteps)
        BY <2>2, <3>1
      <3>3. Ordered'
        BY <2>2, <3>2 DEF Ordered, AfterFirst, Plain
      <3>4. todo' # << >> => 1 \in DOMAIN todo' /\ Head(todo') = todo'[1]
        BY <3>2
      <3>5. todo' # << >> => Head(todo').do = "look" /\ (Head(todo').primary => Head(todo').of = "none")
        BY <2>2, <3>2, <3>4 DEF Plain
      <3> QED
        BY <1>0, <2>1, <2>10, <3>3, <3>5 DEF RunsKnown, LetGo, h
    <2> QED
      BY <2>6, <2>7, <2>8, <2>9, <2>10
  <1>4. CASE releaseGesture
    <2> DEFINE h == Head(todo)
    <2>1. /\ todo # << >> /\ h.do = "release" /\ UNCHANGED <<met, retuned>> /\ todo' = Tail(todo)
          /\ gestures' = [gestures EXCEPT ![h.of] = Release(@, h.primary)]
          /\ runs' = runs + (gestures'[h.of].ran - gestures[h.of].ran)
      BY <1>4 DEF releaseGesture
    <2>2. /\ Tail(todo) \in Seq(ReleaseSteps) /\ Plain(Tail(todo))
          /\ h \in ReleaseSteps /\ h.of \in DOMAIN gestures
          /\ Len(Tail(todo)) = Len(todo) - 1
      BY <1>0, <2>1 DEF Ordered, AfterFirst, Plain, GesturesOK
    <2>3. /\ gestures'[h.of] = Release(gestures[h.of], h.primary)
          /\ gestures[h.of] \in Gestures /\ h.primary \in BOOLEAN /\ runs \in Int
          /\ gestures[h.of].ran \in Int
      BY <1>0, <2>1, <2>2 DEF GesturesOK, ReleaseSteps, Gestures
    <2>4. /\ runs' \in {runs, runs + 1}
          /\ runs' # runs => h.primary /\ metThreshold(gestures[h.of])
      BY <2>1, <2>3, ReleaseIs
    <2>5. Ordered'
      BY <2>1, <2>2 DEF Ordered, AfterFirst, Plain
    <2>6. todo' # << >> => Head(todo').do = "look" /\ (Head(todo').primary => Head(todo').of = "none")
      <3>1. todo' # << >> => 1 \in DOMAIN todo' /\ Head(todo') = todo'[1]
        BY <2>1, <2>2
      <3> QED
        BY <2>1, <2>2, <3>1 DEF Plain
    <2>7. ASSUME retuned = {} PROVE runs' \in 0 .. 1 /\ (todo' # << >> => (runs' = 1 => met))
      <3>1. runs \in 0 .. 1 /\ (runs = 1 => met) /\ LetGo(h)
        BY <1>0, <2>1, <2>7 DEF RunsKnown
      <3>2. CASE runs' = runs
        BY <3>1, <3>2
      <3>3. CASE runs' # runs
        <4>1. runs = 0 /\ runs' = 1
          BY <2>1, <2>3, <2>4, <3>1, <3>3 DEF LetGo
        <4>2. h.of = "none" => todo' = << >>
          BY <2>1, <2>2, <2>4, <3>1, <3>3 DEF LetGo
        <4>3. h.of # "none" => met
          BY <2>1, <2>4, <3>1, <3>3 DEF LetGo
        <4> QED
          BY <4>1, <4>2, <4>3
      <3> QED
        BY <3>2, <3>3
    <2> QED
      BY <2>1, <2>5, <2>6, <2>7 DEF RunsKnown, LetGo
  <1>5. ASSUME NEW dx \in Moves, NEW dy \in Moves, move(dx, dy) PROVE Ordered' /\ RunsKnown'
    BY <1>0, <1>5 DEF move, Ordered, AfterFirst, RunsKnown
  <1>6. ASSUME NEW d \in ToSet(Directions),
           \/ \E kind \in Kinds : setGesture(d, kind)
           \/ \E v \in Thresholds : setThreshold(d, v)
           \/ \E v \in Intervals : setInterval(d, v)
           \/ \E v \in Factors : setMultiplier(d, v)
           \/ \E some \in BOOLEAN : setAxis(d, some) \/ setAction(d, some)
        PROVE  Ordered' /\ RunsKnown'
    <2>1. UNCHANGED <<todo, runs, met>>
      BY <1>0, <1>6, TuningSteps DEF Tuned
    <2>2. retuned' = {} => retuned = {}
      BY <1>6, Zenon DEF setGesture, setThreshold, setInterval, setMultiplier, setAxis, setAction
    <2>3. ASSUME retuned' = {}, todo # << >>
          PROVE  metThreshold(gestures[Head(todo).of])' = metThreshold(gestures[Head(todo).of])
      <3>1. Head(todo).of \in DOMAIN gestures
        BY <1>0, <2>3 DEF GesturesOK
      <3>2. metThreshold(gestures[Head(todo).of])' = metThreshold(gestures'[Head(todo).of])
        BY <2>1 DEF metThreshold, Threshold, Set
      <3>3. \A e \in DOMAIN gestures : metThreshold(gestures[e])' = metThreshold(gestures[e])
        BY <1>0, <1>6, <2>3, MetKept
      <3> QED
        BY <2>1, <3>1, <3>2, <3>3 DEF metThreshold, Threshold, Set
    <2> QED
      BY <1>0, <2>1, <2>2, <2>3 DEF Ordered, AfterFirst, RunsKnown, LetGo
  <1>7. CASE UNCHANGED gestureVars
    BY <1>0, <1>7 DEF Ordered, AfterFirst, RunsKnown, LetGo, metThreshold, Threshold, Set, gestureVars
  <1> QED
    BY <1>1, <1>2, <1>3, <1>4, <1>5, <1>6, <1>7 DEF GestureNext

(***************************************************************************)
(* A release runs the action of one gesture at most, however many gestures *)
(* the button has and whatever they have met, unless a threshold is        *)
(* changed between the two looks at it.                                    *)
(***************************************************************************)
THEOREM ReleasesRunOnce == GestureSpec => []OneRunPerRelease
  <1>1. GestureInit => RunsInv
    <2>1. GestureInit => todo = << >> /\ runs = 0
      BY Zenon DEF GestureInit
    <2>2. ASSUME todo = << >>, runs = 0 PROVE Ordered /\ RunsKnown
      BY <2>2 DEF Ordered, AfterFirst, RunsKnown
    <2> QED
      BY <2>1, <2>2, TypeInitially DEF RunsInv
  <1>2. RunsInv /\ [GestureNext]_gestureVars => RunsInv'
    BY RunsStep, TypeStep DEF RunsInv
  <1>3. RunsInv => OneRunPerRelease
    BY DEF RunsInv, RunsKnown, OneRunPerRelease
  <1> QED
    BY <1>1, <1>2, <1>3, PTL DEF GestureSpec

-----------------------------------------------------------------------------
(* Wheels                                                                   *)

\* The wheels have gestures, and a direction.
WheelsOK ==
    /\ scroll \in [DOMAIN scroll -> Gestures]
    /\ last \in {-1, 0, 1}
    /\ sensors \in [Sensors -> [on : BOOLEAN, action : BOOLEAN, held : BOOLEAN]]

\* The inductive invariant.
WheelInv == WheelsOK /\ WheelsAgree

\* A gesture that has done nothing since it was pressed.
Resting(g) == g.ran = 0 /\ g.moved = 0 /\ g.passes = 0

\* A gesture that is pressed has done nothing.
LEMMA PressRests ==
    ASSUME NEW g \in Gestures, NEW init \in BOOLEAN
    PROVE  Resting(Press(g, init)) /\ Press(g, init) \in Gestures
  <1>1. Resting(Press(g, init))
    BY DEF Resting, Press, Gestures
  <1> QED
    BY <1>1, PressIs

\* A gesture that is made has done nothing.
LEMMA GestureRests ==
    ASSUME NEW kind \in Kinds
    PROVE  Resting(Gesture(kind)) /\ Bound(kind) \in Gestures
  <1>1. Gesture(kind) \in Gestures /\ Resting(Gesture(kind))
    BY GestureIs DEF Resting, Gesture
  <1> QED
    BY <1>1 DEF Bound, Gestures

\* The gestures that a profile gives a wheel have done nothing.
LEMMA ProfileRests ==
    ASSUME NEW layout \in WheelLayouts
    PROVE  /\ ScrollOf(layout) \in [DOMAIN ScrollOf(layout) -> Gestures]
           /\ \A d \in DOMAIN ScrollOf(layout) : Resting(ScrollOf(layout)[d])
  BY GestureRests, PressRests, WheelAssumption DEF ScrollOf

\* A gesture that starts anew has done nothing; the other stays as it is.
LEMMA RestartIs ==
    ASSUME NEW fun, fun \in [DOMAIN fun -> Gestures], NEW d
    PROVE  /\ Restart(fun, d) \in [DOMAIN fun -> Gestures]
           /\ DOMAIN Restart(fun, d) = DOMAIN fun
           /\ d \in DOMAIN fun => Resting(Restart(fun, d)[d])
           /\ \A e \in DOMAIN fun \ {d} : Restart(fun, d)[e] = fun[e]
  <1>1. CASE d \in DOMAIN fun
    <2>1. /\ Release(fun[d], FALSE) \in Gestures
          /\ Press(Release(fun[d], FALSE), TRUE) \in Gestures
          /\ Resting(Press(Release(fun[d], FALSE), TRUE))
      BY <1>1, ReleaseIs, PressRests
    <2> QED
      BY <1>1, <2>1 DEF Restart
  <1>2. CASE d \notin DOMAIN fun
    BY <1>2 DEF Restart
  <1> QED
    BY <1>1, <1>2

\* A turn moves the gesture of its direction and no other.
LEMMA TurnIs ==
    ASSUME NEW fun, fun \in [DOMAIN fun -> Gestures], NEW d, NEW by \in Int
    PROVE  /\ Turn(fun, d, by) \in [DOMAIN fun -> Gestures]
           /\ DOMAIN Turn(fun, d, by) = DOMAIN fun
           /\ \A e \in DOMAIN fun \ {d} : Turn(fun, d, by)[e] = fun[e]
  <1>1. CASE d \in DOMAIN fun
    <2>1. Move(fun[d], by) \in Gestures
      BY <1>1, MoveIs
    <2> QED
      BY <1>1, <2>1 DEF Turn
  <1>2. CASE d \notin DOMAIN fun
    BY <1>2 DEF Turn
  <1> QED
    BY <1>1, <1>2

\* Nothing has turned yet.
LEMMA WheelInitially == WheelInit => WheelInv
  <1> SUFFICES ASSUME WheelInit PROVE WheelInv
    OBVIOUS
  <1>1. PICK layout \in WheelLayouts : scroll = ScrollOf(layout)
    BY DEF WheelInit
  <1>2. /\ nodes = {"up", "down"} /\ last = 0 /\ loose = {} /\ swapped = {} /\ crashed = FALSE
        /\ sensors \in [Sensors -> {[on |-> FALSE, action |-> a, held |-> FALSE] : a \in BOOLEAN}]
    BY DEF WheelInit
  <1>3. WheelsOK
    <2>1. scroll \in [DOMAIN scroll -> Gestures]
      BY <1>1, ProfileRests
    <2>2. \A a \in BOOLEAN : [on |-> FALSE, action |-> a, held |-> FALSE]
                                \in [on : BOOLEAN, action : BOOLEAN, held : BOOLEAN]
      OBVIOUS
    <2>3. sensors \in [Sensors -> [on : BOOLEAN, action : BOOLEAN, held : BOOLEAN]]
      <3>1. /\ sensors = [n \in Sensors |-> sensors[n]]
            /\ \A n \in Sensors : \E a \in BOOLEAN :
                   sensors[n] = [on |-> FALSE, action |-> a, held |-> FALSE]
        BY <1>2
      <3>2. \A n \in Sensors : sensors[n] \in [on : BOOLEAN, action : BOOLEAN, held : BOOLEAN]
        BY <3>1, <2>2
      <3> QED
        BY <3>1, <3>2
    <2> QED
      BY <1>2, <2>1, <2>3 DEF WheelsOK
  <1>4. WheelStartsAnew
    BY <1>1, <1>2, ProfileRests DEF WheelStartsAnew, AtRest, Resting
  <1>5. HeldWhileSensed
    BY <1>2 DEF HeldWhileSensed
  <1> QED
    BY <1>3, <1>4, <1>5 DEF WheelInv, WheelsAgree

\* A turn of the wheel, after a pause or not.
LEMMA ScrollStep ==
    ASSUME WheelInv, NEW by \in Turns, NEW paused \in BOOLEAN, handleScroll(by, paused)
    PROVE  WheelInv'
  <1> DEFINE rested == IF paused THEN Restart(Restart(scroll, "up"), "down") ELSE scroll
             before == IF paused THEN 0 ELSE last
  <1>0. by \in Int /\ -by \in Int
    BY WheelAssumption
  <1>1. /\ UNCHANGED <<nodes, loose, crashed, sensors, swapped>> /\ ~crashed
        /\ \/ /\ by > 0 /\ last' = 1
              /\ scroll' = Turn(IF before = -1 THEN Restart(rested, "down") ELSE rested, "up", by)
           \/ /\ by < 0 /\ last' = -1
              /\ scroll' = Turn(IF before = 1 THEN Restart(rested, "up") ELSE rested, "down", -by)
           \/ by = 0 /\ last' = before /\ scroll' = rested
    BY DEF handleScroll, Turned
  <1>2. scroll \in [DOMAIN scroll -> Gestures] /\ last \in {-1, 0, 1}
    BY DEF WheelInv, WheelsOK
  <1>3. /\ rested \in [DOMAIN scroll -> Gestures] /\ DOMAIN rested = DOMAIN scroll
        /\ before # 1 /\ "up" \in DOMAIN scroll => Resting(rested["up"])
        /\ before # -1 /\ "down" \in DOMAIN scroll => Resting(rested["down"])
    <2>1. CASE paused
      <3>1. /\ Restart(scroll, "up") \in [DOMAIN scroll -> Gestures]
            /\ DOMAIN Restart(scroll, "up") = DOMAIN scroll
            /\ "up" \in DOMAIN scroll => Resting(Restart(scroll, "up")["up"])
        BY <1>2, RestartIs
      <3> QED
        BY <2>1, <3>1, RestartIs
    <2>2. CASE ~paused
      BY <1>2, <2>2 DEF WheelInv, WheelsAgree, WheelStartsAnew, AtRest, Resting
    <2> QED
      BY <2>1, <2>2
  <1> HIDE DEF rested, before
  <1>4. WheelsOK' /\ (last' # 1 => AtRest("up")') /\ (last' # -1 => AtRest("down")')
        /\ DOMAIN scroll' = DOMAIN scroll
    <2>1. CASE by > 0 /\ last' = 1
      <3> DEFINE from == IF before = -1 THEN Restart(rested, "down") ELSE rested
      <3>1. /\ from \in [DOMAIN scroll -> Gestures] /\ DOMAIN from = DOMAIN scroll
            /\ "down" \in DOMAIN scroll => Resting(from["down"])
        BY <1>3, RestartIs
      <3>2. scroll' = Turn(from, "up", by)
        BY <1>0, <1>1, <2>1
      <3> HIDE DEF from
      <3>3. /\ scroll' \in [DOMAIN scroll -> Gestures] /\ DOMAIN scroll' = DOMAIN scroll
            /\ "down" \in DOMAIN scroll => Resting(scroll'["down"])
        BY <1>0, <3>1, <3>2, TurnIs
      <3> QED
        BY <1>1, <2>1, <3>3 DEF WheelInv, WheelsOK, AtRest, Resting
    <2>2. CASE by < 0 /\ last' = -1
      <3> DEFINE from == IF before = 1 THEN Restart(rested, "up") ELSE rested
      <3>1. /\ from \in [DOMAIN scroll -> Gestures] /\ DOMAIN from = DOMAIN scroll
            /\ "up" \in DOMAIN scroll => Resting(from["up"])
        BY <1>3, RestartIs
      <3>2. scroll' = Turn(from, "down", -by)
        BY <1>0, <1>1, <2>2
      <3> HIDE DEF from
      <3>3. /\ scroll' \in [DOMAIN scroll -> Gestures] /\ DOMAIN scroll' = DOMAIN scroll
            /\ "up" \in DOMAIN scroll => Resting(scroll'["up"])
        BY <1>0, <3>1, <3>2, TurnIs
      <3> QED
        BY <1>1, <2>2, <3>3 DEF WheelInv, WheelsOK, AtRest, Resting
    <2>3. CASE by = 0 /\ last' = before /\ scroll' = rested
      <3>1. before \in {-1, 0, 1}
        BY <1>2 DEF before
      <3> QED
        BY <1>1, <1>3, <2>3, <3>1 DEF WheelInv, WheelsOK, AtRest, Resting
    <2> QED
      BY <1>1, <2>1, <2>2, <2>3
  <1> QED
    BY <1>1, <1>4 DEF WheelInv, WheelsAgree, WheelStartsAnew, HeldWhileSensed

\* The calls of the bus and the profile.
LEMMA WheelCallsStep ==
    ASSUME WheelInv,
           \/ \E kind \in Kinds \ {"OnThreshold"} : \/ \E d \in {"up", "down"} : setScroll(d, kind)
                                                   \/ \E d \in {"left", "right"} : setThumb(d, kind)
           \/ \E some \in BOOLEAN :
                 \/ \E s \in Sensors : setSensor(s, some)
                 \/ \E layout \in WheelLayouts : setWheelProfile(layout, some)
    PROVE  WheelInv'
  <1>0. WheelsOK /\ WheelStartsAnew /\ HeldWhileSensed
    BY DEF WheelInv, WheelsAgree
  <1>1. ASSUME NEW kind \in Kinds, NEW d \in {"up", "down"}, setScroll(d, kind) PROVE WheelInv'
    <2>1. UNCHANGED <<last, sensors, swapped>>
      BY <1>1 DEF setScroll, WheelCalled
    <2>2. HeldWhileSensed'
      BY <1>0, <2>1 DEF HeldWhileSensed
    <2>3. CASE d \notin nodes
      <3>1. crashed' = TRUE /\ UNCHANGED <<scroll, nodes, loose>>
        BY <1>1, <2>3 DEF setScroll
      <3> QED
        BY <1>0, <2>1, <2>2, <2>3, <3>1
        DEF WheelInv, WheelsAgree, WheelsOK, WheelStartsAnew, AtRest
    <2>4. CASE d \in nodes
      <3> DEFINE g == IF wheelCompatibility(Gesture(kind)) THEN Press(Gesture(kind), TRUE) ELSE Gesture(kind)
                 fits == wheelCompatibility(Gesture(kind))
      <3>1. /\ scroll' = [e \in DOMAIN scroll \cup {d} |-> IF e = d THEN g ELSE scroll[e]]
            /\ nodes' = IF fits THEN nodes ELSE nodes \ {d}
            /\ loose' = IF fits THEN loose \ {d} ELSE loose \cup {d}
            /\ UNCHANGED crashed
        BY <1>1, <2>4 DEF setScroll, With
      <3>2. g \in Gestures /\ Resting(g)
        BY GestureIs, GestureRests, PressRests
      <3> HIDE DEF g, fits
      <3>3. WheelsOK'
        BY <1>0, <2>1, <3>1, <3>2 DEF WheelsOK
      <3>4. \A e \in {"up", "down"} : AtRest(e) => AtRest(e)'
        BY <3>1, <3>2 DEF AtRest, Resting
      <3>5. WheelStartsAnew'
        BY <1>0, <2>1, <3>1, <3>4 DEF WheelStartsAnew
      <3> QED
        BY <2>2, <3>3, <3>5 DEF WheelInv, WheelsAgree
    <2> QED
      BY <2>3, <2>4
  <1>2. ASSUME NEW kind, NEW d, setThumb(d, kind) PROVE WheelInv'
    <2>1. UNCHANGED <<last, sensors, swapped, scroll, nodes, loose, crashed>>
      BY <1>2 DEF setThumb, WheelCalled
    <2> QED
      BY <1>0, <2>1 DEF WheelInv, WheelsAgree, WheelsOK, WheelStartsAnew, HeldWhileSensed, AtRest
  <1>3. ASSUME NEW some \in BOOLEAN, NEW s \in Sensors, setSensor(s, some) PROVE WheelInv'
    <2>1. /\ UNCHANGED <<last, scroll, nodes, loose, crashed>>
          /\ sensors' = [sensors EXCEPT ![s].action = some, ![s].held = FALSE]
          /\ swapped' = IF sensors[s].on THEN swapped \cup {s} ELSE swapped
      BY <1>3 DEF setSensor, WheelCalled
    <2>2. WheelsOK'
      BY <1>0, <2>1 DEF WheelsOK
    <2>3. HeldWhileSensed'
      BY <1>0, <2>1 DEF HeldWhileSensed, WheelsOK
    <2> QED
      BY <1>0, <2>1, <2>2, <2>3 DEF WheelInv, WheelsAgree, WheelStartsAnew, AtRest
  <1>4. ASSUME NEW some \in BOOLEAN, NEW layout \in WheelLayouts, setWheelProfile(layout, some)
        PROVE  WheelInv'
    <2> DEFINE set(s) == [sensors[s] EXCEPT !.action = some, !.held = FALSE]
    <2>1. UNCHANGED <<last, nodes, crashed>> /\ scroll' = ScrollOf(layout) /\ loose' = {}
      BY <1>4, Zenon DEF setWheelProfile, WheelCalled
    <2>a. sensors' = [s \in Sensors |-> set(s)]
      BY <1>4, Zenon DEF setWheelProfile
    <2>b. \A s \in Sensors : sensors[s].on => s \in swapped'
      BY <1>4, Zenon DEF setWheelProfile
    <2>s. ASSUME NEW s \in Sensors
          PROVE  /\ set(s) \in [on : BOOLEAN, action : BOOLEAN, held : BOOLEAN]
                 /\ set(s).on <=> sensors[s].on
                 /\ ~set(s).held
      <3>1. sensors[s] \in [on : BOOLEAN, action : BOOLEAN, held : BOOLEAN]
        BY <1>0 DEF WheelsOK
      <3> QED
        BY <3>1
    <2> HIDE DEF set
    <2>2. WheelsOK'
      <3>1. scroll' \in [DOMAIN scroll' -> Gestures]
        BY <2>1, ProfileRests
      <3>2. sensors' \in [Sensors -> [on : BOOLEAN, action : BOOLEAN, held : BOOLEAN]]
        BY <2>a, <2>s
      <3> QED
        BY <1>0, <2>1, <3>1, <3>2 DEF WheelsOK
    <2>3. HeldWhileSensed'
      <3> SUFFICES ASSUME NEW s \in Sensors
                   PROVE  ~sensors'[s].held /\ (sensors'[s].on => s \in swapped')
        BY DEF HeldWhileSensed
      <3>1. sensors'[s] = set(s)
        BY <2>a
      <3> QED
        BY <2>b, <2>s, <3>1
    <2>4. AtRest("up")' /\ AtRest("down")'
      BY <2>1, ProfileRests DEF AtRest, Resting
    <2> QED
      BY <2>1, <2>2, <2>3, <2>4 DEF WheelInv, WheelsAgree, WheelStartsAnew
  <1> QED
    BY <1>1, <1>2, <1>3, <1>4

(***************************************************************************)
(* However the wheels are turned and touched and their gestures, actions   *)
(* and profile are replaced meanwhile: turning to and fro never adds up,   *)
(* and an action is held only while its sensor is on.                      *)
(***************************************************************************)
THEOREM WheelsAreBounded == WheelSpec => []WheelsAgree
  <1>1. WheelInv /\ [WheelNext]_wheelVars => WheelInv'
    <2> SUFFICES ASSUME WheelInv, [WheelNext]_wheelVars PROVE WheelInv'
      OBVIOUS
    <2>1. ASSUME NEW by, NEW status, NEW on \in [Sensors -> BOOLEAN], handleThumb(by, status, on)
          PROVE  WheelInv'
      <3>1. /\ UNCHANGED <<last, scroll, nodes, loose, crashed>>
            /\ sensors' = [s \in Sensors |-> Sense(sensors[s], on[s])]
            /\ swapped' = {s \in swapped : on[s] = sensors[s].on}
        BY <2>1 DEF handleThumb, Turned
      <3>2. \A s \in Sensors :
               /\ sensors[s] \in [on : BOOLEAN, action : BOOLEAN, held : BOOLEAN]
               /\ on[s] \in BOOLEAN
        BY DEF WheelInv, WheelsOK
      <3>3. ASSUME NEW s \in Sensors
            PROVE  /\ sensors'[s] \in [on : BOOLEAN, action : BOOLEAN, held : BOOLEAN]
                   /\ on[s] = sensors[s].on => sensors'[s] = sensors[s]
                   /\ on[s] # sensors[s].on => /\ sensors'[s].action = sensors[s].action
                                               /\ sensors'[s].on = on[s]
                                               /\ sensors'[s].held = (on[s] /\ sensors[s].action)
        BY <3>1, <3>2, Zenon DEF Sense
      <3>4. HeldWhileSensed'
        BY <3>1, <3>2, <3>3 DEF HeldWhileSensed, WheelInv, WheelsAgree
      <3>5. WheelsOK'
        BY <3>1, <3>3 DEF WheelInv, WheelsOK
      <3> QED
        BY <3>1, <3>4, <3>5 DEF WheelInv, WheelsAgree, WheelStartsAnew, AtRest
    <2>2. CASE UNCHANGED wheelVars
      BY <2>2 DEF wheelVars, WheelInv, WheelsOK, WheelsAgree, WheelStartsAnew, HeldWhileSensed, AtRest
    <2> QED
      BY <2>1, <2>2, ScrollStep, WheelCallsStep DEF WheelNext
  <1>2. WheelInv => WheelsAgree
    BY DEF WheelInv
  <1> QED
    BY <1>1, <1>2, WheelInitially, PTL DEF WheelSpec

-----------------------------------------------------------------------------
(* Numbers: the least of a set, and rounding to what a sensor supports      *)

\* A set of natural numbers has a least: their intervals from one are finite
\* sets, of which inclusion is well founded.
LEMMA LeastThere ==
    ASSUME NEW S, S \subseteq Nat, S # {}
    PROVE  \E m \in S : \A n \in S : m <= n
  <1> DEFINE R == StrictSubsetOrdering(Nat)
             F == FiniteSubsetsOf(Nat)
             T == {1 .. n : n \in S}
  <1>1. IsWellFoundedOn(R, F)
    BY FS_StrictSubsetOrderingWellFounded
  <1>2. \A n \in Nat : 1 .. n \in F
    BY FS_Interval DEF FiniteSubsetsOf
  <1>3. T \subseteq F /\ T # {}
    BY <1>2
  <1>4. \E least \in T : \A other \in T : <<other, least>> \notin R
    <2> HIDE DEF R, F, T
    <2> QED
      BY <1>1, <1>3, WFMin
  <1>5. PICK m \in S : \A n \in S : <<1 .. n, 1 .. m>> \notin R
    BY <1>4
  <1>6. ASSUME NEW n \in S, n < m PROVE FALSE
    <2>1. 1 .. n \subseteq 1 .. m /\ 1 .. n # 1 .. m
      <3>1. m \in 1 .. m /\ m \notin 1 .. n
        BY <1>6
      <3> QED
        BY <1>6, <3>1
    <2>2. <<1 .. n, 1 .. m>> \in R
      BY <2>1 DEF StrictSubsetOrdering
    <2> QED
      BY <1>5, <2>2
  <1> QED
    BY <1>5, <1>6

\* Min is the least.
LEMMA Least ==
    ASSUME NEW S, S \subseteq Nat, S # {}
    PROVE  Min(S) \in S /\ \A n \in S : Min(S) <= n
  BY LeastThere DEF Min

\* Division leaves a rest below the divisor, and none when it divides.
LEMMA Division ==
    ASSUME NEW a \in Int, NEW b \in Nat \ {0}
    PROVE  /\ a \div b \in Int /\ (a \div b) * b \in Int
           /\ (a \div b) * b <= a /\ a < (a \div b) * b + b
           /\ a % b = 0 => a = (a \div b) * b
           /\ a >= 0 => a \div b \in Nat
  OBVIOUS

\* A product with a natural number keeps the order.
LEMMA Products ==
    ASSUME NEW a \in Int, NEW b \in Int, NEW c \in Nat, a <= b
    PROVE  a * c \in Int /\ b * c \in Int /\ a * c <= b * c
  OBVIOUS

\* The least and the greatest of two numbers.
LEMMA OfTwo ==
    ASSUME NEW lo \in Nat, NEW hi \in Nat, lo <= hi
    PROVE  Min({lo, hi}) = lo /\ Max({lo, hi}) = hi
  BY DEF Min, Max

\* A list of values: the nearest is one of them.
LEMMA NearestOfValues ==
    ASSUME NEW list, list.values \subseteq Nat, list.values # {}, list.step = 0, NEW v \in Int
    PROVE  LET c == getClosestDPI(list, v)
           IN  c \in Supported(list) /\ \A u \in Supported(list) : Distance(v, c) <= Distance(v, u)
  <1> DEFINE D == {Distance(v, u) : u \in list.values}
             Near(w) == \A u \in list.values : Distance(v, w) <= Distance(v, u)
  <1>1. \A u \in list.values : Distance(v, u) \in Nat
    BY DEF Distance
  <1>2. \E w \in list.values : Near(w)
    <2>1. D \subseteq Nat /\ D # {}
      BY <1>1
    <2>2. Min(D) \in D /\ \A n \in D : Min(D) <= n
      BY <2>1, Least
    <2> QED
      BY <2>2
  <1>3. v \in list.values => Distance(v, v) = 0
    BY DEF Distance
  <1>4. v \in list.values => Near(v)
    BY <1>1, <1>3
  <1> DEFINE c == CHOOSE w \in list.values : Near(w)
  <1>5. c \in list.values /\ Near(c)
    BY <1>2
  <1>6. getClosestDPI(list, v) = IF v \in list.values THEN v ELSE c
    BY DEF getClosestDPI
  <1>7. Supported(list) = list.values
    BY DEF Supported
  <1> HIDE DEF c, D
  <1> QED
    BY <1>4, <1>5, <1>6, <1>7

\* A range: so is the nearest of its steps.
LEMMA NearestOfRange ==
    ASSUME NEW list, NEW lo \in Nat, NEW hi \in Nat, lo <= hi, list.values = {lo, hi},
           list.step \in Nat, list.step # 0, (hi - lo) % list.step = 0, NEW v \in Int
    PROVE  LET c == getClosestDPI(list, v)
           IN  c \in Supported(list) /\ \A u \in Supported(list) : Distance(v, c) <= Distance(v, u)
  <1> DEFINE st == list.step
             K  == (hi - lo) \div st
             At(n) == lo + n * st
  <1>1. Min(list.values) = lo /\ Max(list.values) = hi
    BY OfTwo
  <1>0. st \in Nat \ {0} /\ hi - lo \in Int /\ hi - lo >= 0
    OBVIOUS
  <1>2. K \in Nat /\ hi = At(K)
    <2>1. K \in Nat /\ hi - lo = K * st
      BY <1>0, Division
    <2> HIDE DEF K
    <2> QED
      BY <2>1
  <1>3. Supported(list) = {At(n) : n \in 0 .. K}
    BY <1>1 DEF Supported, Steps
  <1>4. \A n \in Int : At(n) \in Int /\ (n + 1) * st = n * st + st
    OBVIOUS
  <1>5. \A m, n \in Int : m <= n => At(m) <= At(n)
    BY Products
  <1>6. \A m, n \in Int : m < n => At(m) + st <= At(n)
    <2> SUFFICES ASSUME NEW m \in Int, NEW n \in Int, m < n PROVE At(m) + st <= At(n)
      OBVIOUS
    <2>1. At(m + 1) <= At(n)
      <3>1. m + 1 \in Int /\ m + 1 <= n
        OBVIOUS
      <3> HIDE DEF At
      <3> QED
        BY <1>5, <3>1
    <2> QED
      BY <1>4, <2>1
  <1> DEFINE c == getClosestDPI(list, v)
  <1>7. \E m \in 0 .. K : c = At(m) /\ \A n \in 0 .. K : Distance(v, At(m)) <= Distance(v, At(n))
    <2>1. CASE v > hi
      <3>1. c = At(K)
        BY <1>1, <1>2, <2>1 DEF getClosestDPI
      <3>2. \A n \in 0 .. K : At(n) <= At(K) /\ At(n) \in Int
        BY <1>2, <1>4, <1>5
      <3>3. \A n \in 0 .. K : Distance(v, At(K)) <= Distance(v, At(n))
        BY <1>2, <2>1, <3>2 DEF Distance
      <3> HIDE DEF K, At, c
      <3> QED
        BY <1>2, <3>1, <3>3
    <2>2. CASE v < lo
      <3>1. c = At(0)
        BY <1>1, <2>2 DEF getClosestDPI
      <3>2. \A n \in 0 .. K : At(0) <= At(n) /\ At(n) \in Int
        BY <1>2, <1>4, <1>5
      <3>3. \A n \in 0 .. K : Distance(v, At(0)) <= Distance(v, At(n))
        BY <2>2, <3>2 DEF Distance
      <3> HIDE DEF K, At, c
      <3> QED
        BY <1>2, <3>1, <3>3
    <2>3. CASE lo <= v /\ v <= hi /\ (v - lo) % st = 0
      <3> DEFINE q == (v - lo) \div st
      <3>1. q \in Int /\ v = At(q)
        <4>1. v - lo \in Int
          BY <2>3
        <4>2. q \in Int /\ v - lo = q * st
          BY <1>0, <2>3, <4>1, Division
        <4> HIDE DEF q
        <4> QED
          BY <4>2
      <3>2. c = At(q)
        BY <1>1, <2>3, <3>1 DEF getClosestDPI
      <3>3. q \in 0 .. K
        <4>1. q < 0 => At(q) + st <= At(0)
          <5> HIDE DEF At, q
          <5> QED
            BY <1>6, <3>1
        <4>2. q > K => At(K) + st <= At(q)
          <5> HIDE DEF At, K, q
          <5> QED
            BY <1>2, <1>6, <3>1
        <4>3. At(0) = lo
          OBVIOUS
        <4> HIDE DEF q, K, At, st
        <4> QED
          BY <1>0, <1>2, <2>3, <3>1, <4>1, <4>2, <4>3
      <3>4. \A n \in 0 .. K : Distance(v, At(q)) <= Distance(v, At(n))
        <4>1. \A n \in 0 .. K : At(n) \in Int
          BY <1>2, <1>4
        <4> HIDE DEF q, K, At
        <4> QED
          BY <3>1, <4>1 DEF Distance
      <3> QED
        BY <3>2, <3>3, <3>4
    <2>4. CASE lo <= v /\ v <= hi /\ (v - lo) % st # 0
      <3> DEFINE m == (2 * (v - lo) + st) \div (2 * st)
      <3>1. /\ m \in Int /\ m * (2 * st) \in Int /\ m * (2 * st) <= 2 * (v - lo) + st
            /\ 2 * (v - lo) + st < m * (2 * st) + 2 * st
        <4>1. 2 * (v - lo) + st \in Int /\ 2 * st \in Nat \ {0}
          BY <1>0
        <4> DEFINE a == 2 * (v - lo) + st
                   b == 2 * st
        <4> HIDE DEF a, b
        <4>2. /\ a \div b \in Int /\ (a \div b) * b \in Int /\ (a \div b) * b <= a
              /\ a < (a \div b) * b + b
          BY <4>1, Division DEF a, b
        <4> QED
          BY <4>2 DEF a, b
      <3>2. m * (2 * st) = 2 * (m * st) /\ m * st \in Int
        <4> HIDE DEF m
        <4> QED
          BY <3>1
      <3>3. c = At(m)
        BY <1>1, <2>4 DEF getClosestDPI
      <3> HIDE DEF m
      <3>i. m \in Int
        BY <3>1
      <3>4. 2 * At(m) <= 2 * v + st /\ 2 * v < 2 * At(m) + st
        BY <3>1, <3>2
      <3>5. m \in 0 .. K
        <4>1. m < 0 => At(m) + st <= At(0)
          <5> HIDE DEF At
          <5> QED
            BY <1>6, <3>i
        <4>2. m > K => At(K) + st <= At(m)
          <5> HIDE DEF At, K
          <5> QED
            BY <1>2, <1>6, <3>i
        <4>3. m * st \in Int /\ K * st \in Int
          BY <1>2, <3>1
        <4> HIDE DEF K
        <4> QED
          BY <1>2, <2>4, <3>1, <3>4, <4>1, <4>2, <4>3
      <3>6. ASSUME NEW n \in 0 .. K PROVE Distance(v, At(m)) <= Distance(v, At(n))
        <4>1. n < m => At(n) + st <= At(m)
          <5> HIDE DEF At, K
          <5> QED
            BY <1>2, <1>6, <3>i
        <4>2. n > m => At(m) + st <= At(n)
          <5> HIDE DEF At, K
          <5> QED
            BY <1>2, <1>6, <3>i
        <4>3. At(m) \in Int /\ At(n) \in Int /\ n \in Int
          BY <1>2, <1>4, <3>1
        <4>4. n = m => At(n) = At(m)
          OBVIOUS
        <4> HIDE DEF At, K
        <4> QED
          BY <3>1, <3>4, <4>1, <4>2, <4>3, <4>4 DEF Distance
      <3> QED
        BY <3>3, <3>5, <3>6
    <2> QED
      BY <2>1, <2>2, <2>3, <2>4
  <1> HIDE DEF c, K, At
  <1> QED
    BY <1>3, <1>7 DEF c

\* Whatever a sensor reports, the value that is chosen is supported and the nearest.
LEMMA Nearest ==
    ASSUME NEW s \in DpiSensors, NEW v \in Int
    PROVE  getClosestDPI(DpiLists[s], v) \in Supported(DpiLists[s]) /\ IsNearest(s, v)
  <1> DEFINE list == DpiLists[s]
  <1>1. /\ list.values \subseteq Nat /\ list.values # {} /\ list.step \in Nat
        /\ list.step # 0 => \E lo, hi \in list.values :
                   list.values = {lo, hi} /\ lo <= hi /\ (hi - lo) % list.step = 0
    BY DpiListsAssumption
  <1> HIDE DEF list
  <1>2. CASE list.step = 0
    BY <1>1, <1>2, NearestOfValues DEF list, IsNearest
  <1>3. CASE list.step # 0
    <2>1. PICK lo, hi \in list.values : list.values = {lo, hi} /\ lo <= hi /\ (hi - lo) % list.step = 0
      BY <1>1, <1>3
    <2>2. lo \in Nat /\ hi \in Nat
      BY <1>1
    <2> QED
      BY <1>1, <1>3, <2>1, <2>2, NearestOfRange DEF list, IsNearest
  <1> QED
    BY <1>2, <1>3


-----------------------------------------------------------------------------
(* The settings of a device                                                 *)

\* What an operation has still to do is within what its feature has.
OpOK(o) ==
    /\ o.what \in Features => /\ o.left \subseteq Of(o.what)
                             /\ o = [what |-> o.what, mode |-> o.mode, left |-> o.left]
    /\ o.what = "change dpi" => o.sensor \in DpiSensors /\ o.dpi \in Int
    /\ o.what = "change host" => o.host \in 0 .. Hosts - 1

\* The configuration, the operations and the history are what they are named;
\* a worker is past the feature that it configures.
SettingsOK ==
    /\ IsConfiguration(conf)
    /\ DOMAIN op = Procs /\ \A p \in Procs : OpOK(op[p])
    /\ unset \subseteq Features /\ \A p \in Workers : op[p].what \notin unset
    /\ strayed = [f \in Features |-> strayed[f]]
    /\ dpi = [s \in DpiSensors |-> dpi[s]]

\* What is in setting e of feature f is still to be written.
ToWrite(f, e) == f \in unset \/ \E p \in Procs : op[p].what = f /\ e \in op[p].left

\* A setting has strayed, or will be written, or is what the profile says.
WheelComes == \A b \in Mask(conf) \ strayed["wheel"] :
                  ((b \in wheel) <=> conf.wheel[b]) \/ ToWrite("wheel", b)
SmartComes ==
    /\ "smart" \notin strayed["smart"] /\ conf.on # {} =>
           smart \in conf.on \/ ToWrite("smart", "smart")
    /\ "threshold" \notin strayed["smart"] /\ Max(conf.threshold \cup {0}) # 0 =>
           threshold \in conf.threshold \/ ToWrite("smart", "threshold")
DpiComes == \A s \in Told(conf) \ strayed["dpi"] :
                OneWord(Wanted(conf, s)) =>
                    dpi[s] = getClosestDPI(DpiLists[s], Wanted(conf, s)) \/ ToWrite("dpi", s)

\* And the device has values that it supports.
SettingsInv ==
    /\ SettingsOK /\ WheelComes /\ SmartComes /\ DpiComes
    /\ host \in 0 .. Hosts - 1
    /\ \A s \in DpiSensors : dpi[s] \in Supported(DpiLists[s])

\* The number to which a profile sets the threshold.
LEMMA ThresholdOf ==
    ASSUME NEW c, IsConfiguration(c)
    PROVE  /\ Max(c.threshold \cup {0}) # 0 => Max(c.threshold \cup {0}) \in c.threshold
           /\ ~(c.threshold \subseteq {0}) => Max(c.threshold) \in c.threshold
           /\ c.threshold \subseteq {0} => Max(c.threshold \cup {0}) = 0
           /\ Max(c.threshold \cup {0}) # 0 => Max(c.threshold \cup {1}) \in c.threshold
  <1>1. CASE c.threshold = {}
    <2>1. Max({0}) = 0
      BY DEF Max
    <2> QED
      BY <1>1, <2>1
  <1>2. ASSUME NEW v \in Nat, c.threshold = {v}
        PROVE  /\ Max(c.threshold \cup {0}) = v /\ Max(c.threshold) = v
               /\ v # 0 => Max(c.threshold \cup {1}) = v
    <2>1. {v} \cup {0} = {v, 0} /\ {v} \cup {1} = {v, 1}
      OBVIOUS
    <2>2. Max({v, 0}) = v /\ Max({v}) = v /\ (v # 0 => Max({v, 1}) = v)
      BY DEF Max
    <2> QED
      BY <1>2, <2>1, <2>2
  <1>3. CASE \E v \in c.threshold : v \in Nat /\ c.threshold = {v}
    BY <1>2, <1>3
  <1> QED
    BY <1>1, <1>3 DEF IsConfiguration

\* What a profile wants of a sensor is a number; the device gets a word of it.
LEMMA WantedIs ==
    ASSUME NEW c, IsConfiguration(c), NEW s \in DpiSensors
    PROVE  /\ Wanted(c, s) \in Int /\ Wanted(c, s) % Word \in Int
           /\ OneWord(Wanted(c, s)) => Wanted(c, s) % Word = Wanted(c, s)
  <1>1. s \in Nat \ {0} /\ Word \in Nat \ {0}
    BY SettingsAssumption
  <1>2. Values(c) \in Seq(Int)
    BY DEF IsConfiguration, Values
  <1>3. Wanted(c, s) \in Int
    BY <1>1, <1>2 DEF Wanted
  <1>4. \A v \in Int : v % Word \in Int /\ (OneWord(v) => v % Word = v)
    BY <1>1 DEF OneWord
  <1> QED
    BY <1>3, <1>4

\* What is told to be on or off is what the profile says, if it says anything.
LEMMA OnOff ==
    ASSUME NEW on, on \subseteq BOOLEAN, on # {}, NEW b, b = (TRUE \in on)
    PROVE  b \in on
  <1>1. b \in BOOLEAN
    OBVIOUS
  <1>2. CASE TRUE \in on
    <2>1. b
      BY <1>2
    <2>2. b = TRUE
      BY ONLY <1>1, <2>1
    <2> QED
      BY <1>2, <2>2
  <1>3. CASE TRUE \notin on
    <2>1. ~b
      BY <1>3
    <2>2. b = FALSE
      BY ONLY <1>1, <2>1
    <2>3. FALSE \in on
      BY <1>3
    <2> QED
      BY ONLY <2>2, <2>3
  <1> QED
    BY <1>2, <1>3

\* At first the device has what the profile says.
LEMMA SettingsInitially == SettingInit => SettingsInv
  <1> SUFFICES ASSUME SettingInit PROVE SettingsInv
    OBVIOUS
  <1>1. IsConfiguration(conf)
    <2>1. PICK c \in Given : conf = [c EXCEPT !.threshold = {Clipped(v) : v \in c.threshold}]
      BY DEF SettingInit
    <2>2. IsConfiguration(c)
      BY GivenAssumption
    <2>3. conf = [wheel |-> c.wheel, on |-> c.on, threshold |-> {Clipped(v) : v \in c.threshold},
                  dpi |-> c.dpi]
      BY <2>1, <2>2 DEF IsConfiguration
    <2>4. \/ conf.threshold = {}
          \/ \E v \in conf.threshold : v \in Nat /\ conf.threshold = {v}
      <3>1. CASE c.threshold = {}
        BY <2>3, <3>1
      <3>2. ASSUME NEW v \in Nat, c.threshold = {v}
            PROVE  \E u \in conf.threshold : u \in Nat /\ conf.threshold = {u}
        <4>1. conf.threshold = {Clipped(v)} /\ Clipped(v) \in Nat
          BY <2>3, <3>2 DEF Clipped
        <4> QED
          BY <4>1
      <3> QED
        BY <2>2, <3>1, <3>2 DEF IsConfiguration
    <2> QED
      BY <2>2, <2>3, <2>4 DEF IsConfiguration
  <1>2. /\ op = [p \in Procs |-> Idle] /\ unset = {} /\ strayed = [f \in Features |-> {}]
        /\ dpi = [s \in DpiSensors |-> getClosestDPI(DpiLists[s], Wanted(conf, s) % Word)] /\ host = 0
        /\ wheel = Mode(conf) /\ smart = (TRUE \in conf.on)
        /\ threshold = Max(conf.threshold \cup {1})
    BY DEF SettingInit
  <1>3. SettingsOK
    BY <1>1, <1>2, Zenon DEF SettingsOK, OpOK, Idle, Features, Procs
  <1>4. WheelComes
    BY <1>2 DEF WheelComes, Mode
  <1>5. SmartComes
    <2>1. conf.on \subseteq BOOLEAN
      BY <1>1 DEF IsConfiguration
    <2>2. conf.on # {} => smart \in conf.on
      BY <1>2, <2>1, OnOff
    <2> QED
      BY <1>1, <1>2, <2>2, ThresholdOf DEF SmartComes
  <1>6. DpiComes
    BY <1>1, <1>2, WantedIs DEF DpiComes, Told
  <1>7. ASSUME NEW s \in DpiSensors PROVE dpi[s] \in Supported(DpiLists[s])
    BY <1>1, <1>2, WantedIs, Nearest
  <1>8. host \in 0 .. Hosts - 1
    BY <1>2, SettingsAssumption
  <1> QED
    BY <1>3, <1>4, <1>5, <1>6, <1>7, <1>8 DEF SettingsInv

\* What a sensor supports are numbers; the least that it reports is one.
LEMMA SupportedAre ==
    ASSUME NEW s \in DpiSensors
    PROVE  /\ Supported(DpiLists[s]) \subseteq Int
           /\ Min(DpiLists[s].values) \in Supported(DpiLists[s])
  <1> DEFINE list == DpiLists[s]
  <1>1. /\ list.values \subseteq Nat /\ list.values # {} /\ list.step \in Nat
        /\ list.step # 0 => \E lo, hi \in list.values :
                   list.values = {lo, hi} /\ lo <= hi /\ (hi - lo) % list.step = 0
    BY DpiListsAssumption
  <1> HIDE DEF list
  <1>2. Min(list.values) \in list.values
    BY <1>1, Least
  <1>3. CASE list.step = 0
    BY <1>1, <1>2, <1>3 DEF Supported, list
  <1>4. CASE list.step # 0
    <2>1. PICK lo, hi \in list.values : list.values = {lo, hi} /\ lo <= hi
      BY <1>1, <1>4
    <2>2. lo \in Nat /\ hi \in Nat /\ Min(list.values) = lo /\ Max(list.values) = hi
      BY <1>1, <2>1, OfTwo
    <2>3. Steps(list) \in Nat
      BY <1>1, <1>4, <2>1, <2>2, Division DEF Steps
    <2>4. Supported(list) = {lo + n * list.step : n \in 0 .. Steps(list)}
      BY <1>4, <2>2 DEF Supported
    <2>5. lo + 0 * list.step = lo /\ 0 \in 0 .. Steps(list)
      BY <1>1, <2>2, <2>3
    <2>6. \A n \in 0 .. Steps(list) : lo + n * list.step \in Int
      BY <1>1, <2>2, <2>3
    <2> QED
      BY <2>2, <2>4, <2>5, <2>6 DEF list
  <1> QED
    BY <1>3, <1>4

\* The host that is told is one there is.
LEMMA HostIs ==
    ASSUME host \in 0 .. Hosts - 1, NEW way \in Ways
    PROVE  nextHost(way) \in 0 .. Hosts - 1
  <1> DEFINE n == CASE way = "next" -> host + 1 [] way = "prev" -> host - 1 [] OTHER -> way - 1
  <1>1. Hosts \in Nat \ {0} /\ host \in Int
    BY SettingsAssumption
  <1>2. n \in Int
    <2>1. way \in {"next", "prev"} \/ way \in Nat
      BY SettingsAssumption
    <2> QED
      BY <1>1, <2>1
  <1>3. \A k \in Int : k % Hosts \in 0 .. Hosts - 1
    BY <1>1
  <1>4. nextHost(way) = n % Hosts
    BY DEF nextHost
  <1> HIDE DEF n
  <1> QED
    BY <1>2, <1>3, <1>4

\* A task begins: nothing is written yet.
LEMMA TaskBegins ==
    ASSUME SettingsInv, NEW p \in Procs, NEW o, OpOK(o), o.what \notin Features, Begins(p, o),
           UNCHANGED <<DeviceSettings, conf, unset, strayed>>
    PROVE  SettingsInv'
  <1>1. op[p].what \notin Features /\ op' = [op EXCEPT ![p] = o] /\ DOMAIN op = Procs
    BY DEF Begins, Idle, Features, SettingsInv, SettingsOK
  <1>2. UNCHANGED <<wheel, smart, threshold, dpi, host, conf, unset, strayed>>
    BY DEF DeviceSettings
  <1>3. \A f \in Features : \A e : ToWrite(f, e) => ToWrite(f, e)'
    BY <1>1, <1>2 DEF ToWrite
  <1>4. SettingsOK'
    BY <1>1, <1>2 DEF SettingsInv, SettingsOK, Procs
  <1>5. \A s : Wanted(conf, s)' = Wanted(conf, s)
    BY <1>2 DEF Wanted, Values
  <1>6. WheelComes' /\ DpiComes'
    BY <1>2, <1>3, <1>5 DEF SettingsInv, WheelComes, DpiComes, Mask, Told, Features
  <1>7. SmartComes'
    BY <1>2, <1>3 DEF SettingsInv, SmartComes, Features
  <1> QED
    BY <1>2, <1>4, <1>6, <1>7 DEF SettingsInv

\* The sensor that is set has a value that it supports; the others are as they were.
LEMMA SensorSet ==
    ASSUME SettingsInv, NEW s \in DpiSensors, NEW v \in Int, SetSensor(s, v)
    PROVE  /\ dpi' = [t \in DpiSensors |-> dpi'[t]]
           /\ \A t \in DpiSensors : dpi'[t] \in Supported(DpiLists[t])
           /\ v # 0 => dpi'[s] = getClosestDPI(DpiLists[s], v % Word)
           /\ \A t \in DpiSensors \ {s} : dpi'[t] = dpi[t]
  <1>1. /\ dpi = [t \in DpiSensors |-> dpi[t]]
        /\ \A t \in DpiSensors : dpi[t] \in Supported(DpiLists[t])
    BY DEF SettingsInv, SettingsOK
  <1>2. getClosestDPI(DpiLists[s], v % Word) \in Supported(DpiLists[s])
    <2>1. v % Word \in Int
      BY SettingsAssumption
    <2> QED
      BY <2>1, Nearest
  <1>3. dpi' = IF v = 0 THEN dpi ELSE [dpi EXCEPT ![s] = getClosestDPI(DpiLists[s], v % Word)]
    BY DEF SetSensor
  <1> QED
    BY <1>1, <1>2, <1>3

\* A task writes what it has computed.
LEMMA TaskWrites ==
    ASSUME SettingsInv, NEW p \in Workers, taskWrites(p)
    PROVE  SettingsInv'
  <1>1. /\ op' = [op EXCEPT ![p] = Idle] /\ DOMAIN op = Procs /\ p \in Procs
        /\ UNCHANGED <<threshold, conf, unset>> /\ op[p].what \notin Features /\ OpOK(op[p])
    BY Zenon DEF taskWrites, Ends, Features, SettingsInv, SettingsOK, Procs
  <1>2. \A f \in Features : \A e : ToWrite(f, e) => ToWrite(f, e)'
    BY <1>1 DEF ToWrite
  <1>3. \A s : Wanted(conf, s)' = Wanted(conf, s)
    BY <1>1 DEF Wanted, Values
  <1>4. OpOK(Idle)
    BY DEF OpOK, Idle, Features
  <1>5. ASSUME strayed' = [f \in Features |-> strayed'[f]], dpi' = [s \in DpiSensors |-> dpi'[s]]
        PROVE  SettingsOK'
    BY <1>1, <1>4, <1>5 DEF SettingsInv, SettingsOK, Idle, Features, Procs
  <1>s. strayed = [f \in Features |-> strayed[f]] /\ dpi = [s \in DpiSensors |-> dpi[s]]
    BY DEF SettingsInv, SettingsOK
  <1>f. {"wheel", "smart", "dpi"} = Features
    BY DEF Features
  <1>6. CASE op[p].what = "toggle wheel"
    <2>1. /\ strayed' = [strayed EXCEPT !["wheel"] =
                           @ \cup ({"hires"} \cup {b \in Bits : (b \in wheel) # (b \in wheel')})]
          /\ UNCHANGED <<smart, dpi, host>>
      BY <1>6, Zenon DEF taskWrites, Strays
    <2>2. SettingsOK'
      BY <1>5, <1>s, <1>f, <2>1
    <2>3. WheelComes'
      <3>1. Mask(conf) \subseteq Bits
        BY DEF SettingsInv, SettingsOK, IsConfiguration, Mask
      <3>2. \A b \in Bits \ strayed'["wheel"] : b \notin strayed["wheel"] /\ (b \in wheel <=> b \in wheel')
        BY <1>s, <1>f, <2>1
      <3> QED
        BY <1>1, <1>2, <1>f, <3>1, <3>2 DEF SettingsInv, WheelComes, Mask
    <2>4. strayed'["smart"] = strayed["smart"] /\ strayed'["dpi"] = strayed["dpi"]
      BY <1>s, <1>f, <2>1
    <2>5. SmartComes' /\ DpiComes'
      BY <1>1, <1>2, <1>3, <1>f, <2>1, <2>4 DEF SettingsInv, SmartComes, DpiComes, Told
    <2> QED
      BY <2>1, <2>2, <2>3, <2>5 DEF SettingsInv
  <1>7. CASE op[p].what = "toggle smart"
    <2>1. strayed' = [strayed EXCEPT !["smart"] = @ \cup {"smart"}] /\ UNCHANGED <<wheel, dpi, host>>
      BY <1>7, Zenon DEF taskWrites, Strays
    <2>2. SettingsOK'
      BY <1>5, <1>s, <1>f, <2>1
    <2>4. /\ strayed'["wheel"] = strayed["wheel"] /\ strayed'["dpi"] = strayed["dpi"]
          /\ strayed'["smart"] = strayed["smart"] \cup {"smart"}
      BY <1>s, <1>f, <2>1
    <2>5. WheelComes' /\ DpiComes'
      BY <1>1, <1>2, <1>3, <1>f, <2>1, <2>4 DEF SettingsInv, WheelComes, DpiComes, Told, Mask
    <2>6. SmartComes'
      BY <1>1, <1>2, <1>f, <2>4 DEF SettingsInv, SmartComes
    <2> QED
      BY <2>1, <2>2, <2>5, <2>6 DEF SettingsInv
  <1>8. CASE op[p].what = "change dpi"
    <2> DEFINE t == op[p].sensor
    <2>0. t \in DpiSensors /\ op[p].dpi \in Int
      BY <1>1, <1>8, Zenon DEF OpOK
    <2>1. /\ strayed' = [strayed EXCEPT !["dpi"] = @ \cup {t}] /\ UNCHANGED <<wheel, smart, host>>
          /\ SetSensor(t, op[p].dpi)
      BY <1>8, Zenon DEF taskWrites, Strays
    <2>2. /\ dpi' = [s \in DpiSensors |-> dpi'[s]]
          /\ \A s \in DpiSensors : dpi'[s] \in Supported(DpiLists[s])
          /\ \A s \in DpiSensors \ {t} : dpi'[s] = dpi[s]
      BY <2>0, <2>1, SensorSet
    <2>3. SettingsOK'
      BY <1>5, <1>s, <1>f, <2>1, <2>2
    <2>4. /\ strayed'["wheel"] = strayed["wheel"] /\ strayed'["smart"] = strayed["smart"]
          /\ strayed'["dpi"] = strayed["dpi"] \cup {t}
      BY <1>s, <1>f, <2>1
    <2>5. WheelComes' /\ SmartComes'
      BY <1>1, <1>2, <1>f, <2>1, <2>4 DEF SettingsInv, WheelComes, SmartComes, Mask
    <2>6. DpiComes'
      BY <1>1, <1>2, <1>3, <1>f, <2>2, <2>4 DEF SettingsInv, DpiComes, Told
    <2> QED
      BY <2>1, <2>2, <2>3, <2>5, <2>6 DEF SettingsInv
  <1>9. CASE op[p].what = "change host"
    <2>1. host' = op[p].host /\ UNCHANGED <<wheel, smart, dpi, strayed>>
      BY <1>9, Zenon DEF taskWrites
    <2>2. host' \in 0 .. Hosts - 1
      BY <1>1, <1>9, <2>1, Zenon DEF OpOK
    <2>3. SettingsOK'
      BY <1>5, <1>s, <2>1
    <2>4. WheelComes' /\ SmartComes' /\ DpiComes'
      BY <1>1, <1>2, <1>3, <1>f, <2>1 DEF SettingsInv, WheelComes, SmartComes, DpiComes, Told, Mask
    <2> QED
      BY <2>1, <2>2, <2>3, <2>4 DEF SettingsInv
  <1> QED
    BY <1>6, <1>7, <1>8, <1>9, Zenon DEF taskWrites

\* A configuration of all begins, for another profile or after a reset.
LEMMA AllToWrite ==
    ASSUME SettingsInv, NEW p \in Workers, Begins(p, Idle), unset' = Features, UNCHANGED <<host, strayed>>,
           ~Configuring, IsConfiguration(conf'), dpi' = [s \in DpiSensors |-> dpi'[s]],
           \A s \in DpiSensors : dpi'[s] \in Supported(DpiLists[s])
    PROVE  SettingsInv'
  <1>1. op' = [op EXCEPT ![p] = Idle] /\ OpOK(Idle) /\ \A q \in Workers : op[q].what \notin Features
    BY DEF Begins, OpOK, Idle, Features, Configuring
  <1>2. SettingsOK'
    BY <1>1 DEF SettingsInv, SettingsOK, Idle, Features, Procs
  <1>3. \A f \in Features : \A e : ToWrite(f, e)'
    BY DEF ToWrite
  <1>4. WheelComes' /\ SmartComes' /\ DpiComes'
    BY <1>3 DEF WheelComes, SmartComes, DpiComes, Features
  <1> QED
    BY <1>2, <1>4 DEF SettingsInv

\* A worker begins to configure a feature: all of it is still to be written.
LEMMA ConfigureBegins ==
    ASSUME SettingsInv, NEW p \in Workers, NEW g \in Features, configureBegins(p, g)
    PROVE  SettingsInv'
  <1> DEFINE o == Telling(g, IF g = "dpi" THEN Told(conf) ELSE Of(g))
  <1>1. /\ g \in unset /\ op[p] = Idle /\ op' = [op EXCEPT ![p] = o] /\ unset' = unset \ {g}
        /\ UNCHANGED <<wheel, smart, threshold, dpi, host, conf, strayed>>
    BY DEF configureBegins, DeviceSettings
  <1>2. /\ o.what = g /\ o.left = (IF g = "dpi" THEN Told(conf) ELSE Of(g))
        /\ DOMAIN op = Procs /\ p \in Procs /\ op[p].what \notin Features
    BY <1>1 DEF Telling, SettingsInv, SettingsOK, Procs, Idle, Features
  <1> HIDE DEF o
  <1>3. OpOK(o)
    <2>1. o = [what |-> o.what, mode |-> o.mode, left |-> o.left]
      BY DEF o, Telling
    <2> QED
      BY <1>2, <2>1, Zenon DEF OpOK, Told, Of, Features
  <1>4. SettingsOK'
    BY <1>1, <1>2, <1>3 DEF SettingsInv, SettingsOK, configureBegins, Procs
  <1>5. ASSUME NEW f \in Features, NEW e, ToWrite(f, e), f = g => e \in o.left
        PROVE  ToWrite(f, e)'
    <2>1. CASE f = g
      BY <1>1, <1>2, <1>5, <2>1 DEF ToWrite
    <2>2. CASE f # g
      BY <1>1, <1>2, <1>5, <2>2 DEF ToWrite
    <2> QED
      BY <2>1, <2>2
  <1>6. \A s : Wanted(conf, s)' = Wanted(conf, s)
    BY <1>1 DEF Wanted, Values
  <1>7. WheelComes'
    <2>1. Mask(conf) \subseteq Bits
      BY DEF SettingsInv, SettingsOK, IsConfiguration, Mask
    <2>2. "wheel" = g => o.left = Bits
      BY <1>2 DEF Of
    <2> QED
      BY <1>1, <1>5, <2>1, <2>2 DEF SettingsInv, WheelComes, Mask, Features
  <1>8. SmartComes'
    <2>1. "smart" = g => o.left = {"smart", "threshold"}
      BY <1>2 DEF Of
    <2> QED
      BY <1>1, <1>5, <2>1 DEF SettingsInv, SmartComes, Features
  <1>9. DpiComes'
    <2>1. "dpi" = g => o.left = Told(conf)
      BY <1>2
    <2> QED
      BY <1>1, <1>5, <1>6, <2>1 DEF SettingsInv, DpiComes, Told, Features
  <1> QED
    BY <1>1, <1>4, <1>7, <1>8, <1>9 DEF SettingsInv

\* What is not to be written any more when p is done is what p was writing.
LEMMA DoneWriting ==
    ASSUME NEW p \in Procs, DOMAIN op = Procs, op' = [op EXCEPT ![p] = Idle], UNCHANGED unset,
           NEW f, NEW e, ToWrite(f, e)
    PROVE  ToWrite(f, e)' \/ (op[p].what = f /\ e \in op[p].left)
  <1>1. ASSUME NEW q \in Procs, q # p, op[q].what = f, e \in op[q].left
        PROVE  ToWrite(f, e)'
    BY <1>1 DEF ToWrite
  <1> QED
    BY <1>1 DEF ToWrite

\* The configuration is written: all of the wheel and of SmartShift at once,
\* and the sensors one after the other.
LEMMA ConfigureWrites ==
    ASSUME SettingsInv, NEW p \in Procs, configureWrites(p)
    PROVE  SettingsInv'
  <1>1. /\ UNCHANGED <<conf, unset, host>> /\ op[p].what \in Features
        /\ IsConfiguration(conf) /\ DOMAIN op = Procs /\ OpOK(op[p])
    BY DEF configureWrites, SettingsInv, SettingsOK
  <1>2. \A s : Wanted(conf, s)' = Wanted(conf, s)
    BY <1>1 DEF Wanted, Values
  <1>3. OpOK(Idle) /\ Idle.what \notin Features
    BY DEF OpOK, Idle, Features
  <1>s. strayed = [f \in Features |-> strayed[f]] /\ dpi = [s \in DpiSensors |-> dpi[s]]
    BY DEF SettingsInv, SettingsOK
  <1>f. {"wheel", "smart", "dpi"} = Features
    BY DEF Features
  <1>4. ASSUME op' = [op EXCEPT ![p] = Idle], strayed' = [f \in Features |-> strayed'[f]],
               dpi' = [s \in DpiSensors |-> dpi'[s]]
        PROVE  SettingsOK'
    BY <1>1, <1>3, <1>4 DEF SettingsInv, SettingsOK, Idle, Features, Procs
  <1>5. CASE op[p].what = "wheel"
    <2>1. /\ op' = [op EXCEPT ![p] = Idle] /\ WriteWheel(op[p].mode)
          /\ strayed' = [strayed EXCEPT !["wheel"] = @ \ Mask(conf)]
          /\ UNCHANGED <<smart, threshold, dpi>>
      BY <1>5 DEF configureWrites, Settles, Ends
    <2>2. SettingsOK'
      BY <1>4, <1>s, <1>f, <2>1
    <2>3. WheelComes'
      <3>1. \A b \in Mask(conf) : b \in wheel' <=> conf.wheel[b]
        BY <2>1 DEF WriteWheel, Mode
      <3> QED
        BY <1>1, <3>1 DEF WheelComes, Mask
    <2>4. strayed'["smart"] = strayed["smart"] /\ strayed'["dpi"] = strayed["dpi"]
      BY <1>s, <1>f, <2>1
    <2>5. ASSUME NEW f, f # "wheel", NEW e, ToWrite(f, e) PROVE ToWrite(f, e)'
      BY <1>1, <1>5, <2>1, <2>5, DoneWriting
    <2>6. SmartComes' /\ DpiComes'
      BY <1>1, <1>2, <2>1, <2>4, <2>5 DEF SettingsInv, SmartComes, DpiComes, Told
    <2> QED
      BY <1>1, <2>1, <2>2, <2>3, <2>6 DEF SettingsInv
  <1>6. CASE op[p].what = "smart"
    <2>1. /\ op' = [op EXCEPT ![p] = Idle]
          /\ "smart" \notin op[p].left \/ conf.on = {} => smart' = smart
          /\ "smart" \in op[p].left /\ conf.on # {} => smart' = (TRUE \in conf.on)
          /\ threshold' = IF "threshold" \notin op[p].left THEN threshold
                          ELSE IF p = bus THEN Max(conf.threshold \cup {1})
                          ELSE IF conf.threshold \subseteq {0} THEN threshold
                          ELSE Max(conf.threshold)
          /\ strayed' = [strayed EXCEPT !["smart"] = @ \ op[p].left]
          /\ UNCHANGED <<wheel, dpi>>
      BY <1>6 DEF configureWrites, Settles, Ends
    <2>2. SettingsOK'
      BY <1>4, <1>s, <1>f, <2>1
    <2>3. SmartComes'
      <3>1. "smart" \in op[p].left /\ conf.on # {} => smart' \in conf.on
        <4>1. conf.on \subseteq BOOLEAN
          BY <1>1 DEF IsConfiguration
        <4>2. "smart" \in op[p].left /\ conf.on # {} => smart' = (TRUE \in conf.on)
          BY <2>1
        <4> QED
          BY ONLY <4>1, <4>2, OnOff
      <3>2. "threshold" \in op[p].left /\ Max(conf.threshold \cup {0}) # 0 => threshold' \in conf.threshold
        BY <1>1, <2>1, ThresholdOf
      <3>3. /\ "smart" \notin op[p].left => smart' = smart
            /\ "threshold" \notin op[p].left => threshold' = threshold
            /\ strayed'["smart"] = strayed["smart"] \ op[p].left
        BY <1>s, <1>f, <2>1
      <3>4. ASSUME NEW e, ToWrite("smart", e), e \notin op[p].left PROVE ToWrite("smart", e)'
        BY <1>1, <2>1, <3>4, DoneWriting
      <3> QED
        BY <1>1, <3>1, <3>2, <3>3, <3>4 DEF SettingsInv, SmartComes
    <2>4. strayed'["wheel"] = strayed["wheel"] /\ strayed'["dpi"] = strayed["dpi"]
      BY <1>s, <1>f, <2>1
    <2>5. ASSUME NEW f, f # "smart", NEW e, ToWrite(f, e) PROVE ToWrite(f, e)'
      BY <1>1, <1>6, <2>1, <2>5, DoneWriting
    <2>6. WheelComes' /\ DpiComes'
      BY <1>1, <1>2, <2>1, <2>4, <2>5 DEF SettingsInv, WheelComes, DpiComes, Told, Mask
    <2> QED
      BY <1>1, <2>1, <2>2, <2>3, <2>6 DEF SettingsInv
  <1>7. CASE op[p].what = "dpi" /\ op[p].left = {}
    <2>1. op' = [op EXCEPT ![p] = Idle] /\ UNCHANGED <<wheel, smart, threshold, dpi, strayed>>
      BY <1>7 DEF configureWrites, Ends
    <2>2. SettingsOK'
      BY <1>4, <1>s, <2>1
    <2>3. \A f \in Features : \A e : ToWrite(f, e) => ToWrite(f, e)'
      BY <1>1, <1>7, <2>1, DoneWriting
    <2>4. WheelComes' /\ SmartComes' /\ DpiComes'
      BY <1>1, <1>2, <1>f, <2>1, <2>3 DEF SettingsInv, WheelComes, SmartComes, DpiComes, Told, Mask
    <2> QED
      BY <1>1, <2>1, <2>2, <2>4 DEF SettingsInv
  <1>8. CASE op[p].what = "dpi" /\ op[p].left # {}
    <2> DEFINE t == Min(op[p].left)
               o == [op[p] EXCEPT !.left = @ \ {t}]
    <2>1. /\ SetSensor(t, Wanted(conf, t)) /\ strayed' = [strayed EXCEPT !["dpi"] = @ \ {t}]
          /\ op' = [op EXCEPT ![p].left = @ \ {t}] /\ UNCHANGED <<wheel, smart, threshold>>
      BY <1>8 DEF configureWrites, Settles
    <2>2. t \in op[p].left /\ t \in DpiSensors
      <3>1. op[p].left \subseteq DpiSensors
        BY <1>1, <1>8 DEF OpOK, Of
      <3>2. op[p].left \subseteq Nat
        BY <3>1, SettingsAssumption
      <3> QED
        BY <1>8, <3>1, <3>2, Least
    <2> HIDE DEF t
    <2>3. /\ dpi' = [s \in DpiSensors |-> dpi'[s]]
          /\ \A s \in DpiSensors : dpi'[s] \in Supported(DpiLists[s])
          /\ Wanted(conf, t) # 0 /\ OneWord(Wanted(conf, t)) =>
                dpi'[t] = getClosestDPI(DpiLists[t], Wanted(conf, t))
          /\ \A s \in DpiSensors \ {t} : dpi'[s] = dpi[s]
      <3>1. /\ Wanted(conf, t) \in Int
            /\ OneWord(Wanted(conf, t)) => Wanted(conf, t) % Word = Wanted(conf, t)
        BY <1>1, <2>2, WantedIs
      <3> QED
        BY <2>1, <2>2, <3>1, SensorSet
    <2>4. op' = [op EXCEPT ![p] = o]
      BY <1>1, <2>1
    <2>5. o = [what |-> "dpi", mode |-> op[p].mode, left |-> op[p].left \ {t}]
      BY <1>1, <1>8 DEF OpOK
    <2> HIDE DEF o
    <2>6. o.what = "dpi" /\ o.left = op[p].left \ {t} /\ OpOK(o)
      BY <1>1, <1>8, <2>5 DEF OpOK
    <2>7. SettingsOK'
      <3>1. strayed' = [f \in Features |-> strayed'[f]]
        BY <1>s, <1>f, <2>1
      <3> QED
        BY <1>1, <1>8, <2>3, <2>4, <2>6, <3>1 DEF SettingsInv, SettingsOK, Procs
    <2>8. ASSUME NEW f, NEW e, ToWrite(f, e)
          PROVE  ToWrite(f, e)' \/ (f = "dpi" /\ e = t)
      <3>1. ASSUME NEW q \in Procs, op[q].what = f, e \in op[q].left
            PROVE  ToWrite(f, e)' \/ (f = "dpi" /\ e = t)
        <4>1. CASE q = p
          BY <1>1, <1>8, <2>4, <2>6, <3>1, <4>1 DEF ToWrite
        <4>2. CASE q # p
          BY <1>1, <2>4, <3>1, <4>2 DEF ToWrite
        <4> QED
          BY <4>1, <4>2
      <3> QED
        BY <1>1, <2>8, <3>1 DEF ToWrite
    <2>9. /\ strayed'["wheel"] = strayed["wheel"] /\ strayed'["smart"] = strayed["smart"]
          /\ strayed'["dpi"] = strayed["dpi"] \ {t}
      BY <1>s, <1>f, <2>1
    <2>10. WheelComes' /\ SmartComes'
      BY <1>1, <2>1, <2>8, <2>9 DEF SettingsInv, WheelComes, SmartComes, Mask
    <2>11. DpiComes'
      <3> SUFFICES ASSUME NEW s \in Told(conf)', s \notin strayed'["dpi"], OneWord(Wanted(conf, s)')
                   PROVE  (dpi[s] = getClosestDPI(DpiLists[s], Wanted(conf, s)) \/ ToWrite("dpi", s))'
        BY DEF DpiComes, OneWord
      <3>1. s \in Told(conf) /\ s \in DpiSensors /\ Wanted(conf, s) # 0
        BY <1>1, <1>2 DEF Told
      <3>2. CASE s = t
        BY <1>2, <2>3, <3>1, <3>2
      <3>3. CASE s # t
        BY <1>2, <2>3, <2>8, <2>9, <3>1, <3>3 DEF SettingsInv, DpiComes
      <3> QED
        BY <3>2, <3>3
    <2> QED
      BY <1>1, <2>1, <2>3, <2>7, <2>10, <2>11 DEF SettingsInv
  <1> QED
    BY <1>1, <1>5, <1>6, <1>7, <1>8 DEF Features

\* The bus begins: nothing is written yet, and what it has still to write is.
LEMMA BusBegins ==
    ASSUME SettingsInv, NEW o, OpOK(o), Begins(bus, o), UNCHANGED <<unset, dpi>>,
           IsConfiguration(conf'), strayed' = [f \in Features |-> strayed'[f]]
    PROVE  /\ SettingsOK'
           /\ \A f \in Features : \A e : ToWrite(f, e) \/ (o.what = f /\ e \in o.left) => ToWrite(f, e)'
  <1>1. /\ op[bus].what \notin Features /\ op' = [op EXCEPT ![bus] = o] /\ DOMAIN op = Procs
        /\ bus \in Procs /\ bus \notin Workers
    BY SettingsAssumption DEF Begins, Idle, Features, SettingsInv, SettingsOK, Procs
  <1>2. SettingsOK'
    BY <1>1 DEF SettingsInv, SettingsOK, Procs
  <1>3. op[bus] = Idle
    BY DEF Begins
  <1>4. ASSUME NEW f, NEW e, f \in unset \/ (o.what = f /\ e \in o.left) PROVE ToWrite(f, e)'
    BY <1>1, <1>4 DEF ToWrite
  <1>5. ASSUME NEW f \in Features, NEW e, NEW q \in Procs, op[q].what = f, e \in op[q].left
        PROVE  ToWrite(f, e)'
    BY <1>1, <1>5 DEF ToWrite
  <1> QED
    BY <1>2, <1>4, <1>5 DEF ToWrite

\* The bus sets a bit of the wheel.
LEMMA SetWheel ==
    ASSUME SettingsInv, NEW b \in Bits, NEW value \in BOOLEAN, setWheel(b, value)
    PROVE  SettingsInv'
  <1> DEFINE o == Telling("wheel", {b})
             w == [c \in Mask(conf) \cup {b} |-> IF c = b THEN value ELSE conf.wheel[c]]
  <1>1. /\ Begins(bus, o) /\ conf' = [conf EXCEPT !.wheel = w]
        /\ UNCHANGED <<wheel, smart, threshold, dpi, host, unset, strayed>>
    BY DEF setWheel, DeviceSettings
  <1>2. /\ IsConfiguration(conf)
        /\ conf = [wheel |-> conf.wheel, on |-> conf.on, threshold |-> conf.threshold, dpi |-> conf.dpi]
        /\ DOMAIN conf.wheel \subseteq Bits /\ conf.wheel \in [DOMAIN conf.wheel -> BOOLEAN]
        /\ strayed = [f \in Features |-> strayed[f]]
    BY DEF SettingsInv, SettingsOK, IsConfiguration
  <1>3. /\ DOMAIN w = Mask(conf) \cup {b} /\ w \in [DOMAIN w -> BOOLEAN]
        /\ \A c \in Mask(conf) : c # b => w[c] = conf.wheel[c]
    BY <1>2 DEF Mask
  <1> HIDE DEF w
  <1>4. conf' = [wheel |-> w, on |-> conf.on, threshold |-> conf.threshold, dpi |-> conf.dpi]
    BY <1>1, <1>2
  <1>5. IsConfiguration(conf')
    BY <1>2, <1>3, <1>4 DEF IsConfiguration, Mask
  <1>6. OpOK(o) /\ o.what = "wheel" /\ o.left = {b}
    BY DEF OpOK, Telling, Of, Features
  <1> HIDE DEF o
  <1>7. /\ SettingsOK'
        /\ \A f \in Features : \A e : ToWrite(f, e) \/ (o.what = f /\ e \in o.left) => ToWrite(f, e)'
    BY <1>1, <1>2, <1>5, <1>6, BusBegins
  <1>8. WheelComes'
    BY <1>1, <1>3, <1>4, <1>6, <1>7 DEF SettingsInv, WheelComes, Mask, Features
  <1>9. \A s : Wanted(conf, s)' = Wanted(conf, s)
    BY <1>4 DEF Wanted, Values
  <1>10. SmartComes' /\ DpiComes'
    BY <1>1, <1>4, <1>7, <1>9 DEF SettingsInv, SmartComes, DpiComes, Told, Features
  <1> QED
    BY <1>1, <1>7, <1>8, <1>10 DEF SettingsInv

\* The bus turns SmartShift on or off.
LEMMA SetActive ==
    ASSUME SettingsInv, NEW active \in BOOLEAN, NEW clear \in BOOLEAN, setActive(active, clear)
    PROVE  SettingsInv'
  <1> DEFINE on == IF clear THEN {} ELSE {active}
             o  == IF clear THEN Idle ELSE Telling("smart", {"smart"})
  <1>1. /\ Begins(bus, o) /\ conf' = [conf EXCEPT !.on = on]
        /\ UNCHANGED <<wheel, smart, threshold, dpi, host, unset, strayed>>
    BY DEF setActive, DeviceSettings
  <1>2. /\ IsConfiguration(conf)
        /\ conf = [wheel |-> conf.wheel, on |-> conf.on, threshold |-> conf.threshold, dpi |-> conf.dpi]
        /\ strayed = [f \in Features |-> strayed[f]]
    BY DEF SettingsInv, SettingsOK, IsConfiguration
  <1>3. on \subseteq BOOLEAN /\ (on # {} => o.what = "smart" /\ o.left = {"smart"}) /\ OpOK(o)
    <2>1. CASE clear
      BY <2>1 DEF OpOK, Idle, Features
    <2>2. CASE ~clear
      BY <2>2 DEF OpOK, Telling, Of, Features
    <2> QED
      BY <2>1, <2>2
  <1> HIDE DEF on, o
  <1>4. conf' = [wheel |-> conf.wheel, on |-> on, threshold |-> conf.threshold, dpi |-> conf.dpi]
    BY <1>1, <1>2
  <1>5. IsConfiguration(conf')
    BY <1>2, <1>3, <1>4 DEF IsConfiguration
  <1>6. /\ SettingsOK'
        /\ \A f \in Features : \A e : ToWrite(f, e) \/ (o.what = f /\ e \in o.left) => ToWrite(f, e)'
    BY <1>1, <1>2, <1>3, <1>5, BusBegins
  <1>7. \A s : Wanted(conf, s)' = Wanted(conf, s)
    BY <1>4 DEF Wanted, Values
  <1>8. WheelComes' /\ DpiComes'
    BY <1>1, <1>4, <1>6, <1>7 DEF SettingsInv, WheelComes, DpiComes, Mask, Told, Features, OneWord
  <1>9. SmartComes'
    BY <1>1, <1>3, <1>4, <1>6 DEF SettingsInv, SmartComes, Features
  <1> QED
    BY <1>1, <1>6, <1>8, <1>9 DEF SettingsInv

\* The bus sets the threshold of SmartShift.
LEMMA SetAutoDisengage ==
    ASSUME SettingsInv, NEW value \in SmartThresholds, NEW clear \in BOOLEAN,
           setAutoDisengage(value, clear)
    PROVE  SettingsInv'
  <1> DEFINE set == IF clear THEN {} ELSE {Clipped(value)}
             o   == Telling("smart", {"threshold"})
  <1>1. /\ Begins(bus, o) /\ conf' = [conf EXCEPT !.threshold = set]
        /\ UNCHANGED <<wheel, smart, threshold, dpi, host, unset, strayed>>
    BY DEF setAutoDisengage, DeviceSettings
  <1>2. /\ IsConfiguration(conf)
        /\ conf = [wheel |-> conf.wheel, on |-> conf.on, threshold |-> conf.threshold, dpi |-> conf.dpi]
        /\ strayed = [f \in Features |-> strayed[f]]
    BY DEF SettingsInv, SettingsOK, IsConfiguration
  <1>3. Clipped(value) \in Nat
    BY SettingsAssumption DEF Clipped
  <1>4. set = {} \/ set = {Clipped(value)}
    OBVIOUS
  <1>5. OpOK(o) /\ o.what = "smart" /\ o.left = {"threshold"}
    BY DEF OpOK, Telling, Of, Features
  <1> HIDE DEF set, o
  <1>6. conf' = [wheel |-> conf.wheel, on |-> conf.on, threshold |-> set, dpi |-> conf.dpi]
    BY <1>1, <1>2
  <1>7. IsConfiguration(conf')
    BY <1>2, <1>3, <1>4, <1>6 DEF IsConfiguration
  <1>8. /\ SettingsOK'
        /\ \A f \in Features : \A e : ToWrite(f, e) \/ (o.what = f /\ e \in o.left) => ToWrite(f, e)'
    BY <1>1, <1>2, <1>5, <1>7, BusBegins
  <1>9. \A s : Wanted(conf, s)' = Wanted(conf, s)
    BY <1>6 DEF Wanted, Values
  <1>10. WheelComes' /\ DpiComes'
    BY <1>1, <1>6, <1>8, <1>9 DEF SettingsInv, WheelComes, DpiComes, Mask, Told, Features, OneWord
  <1>11. SmartComes'
    BY <1>1, <1>5, <1>6, <1>8 DEF SettingsInv, SmartComes, Features
  <1> QED
    BY <1>1, <1>8, <1>10, <1>11 DEF SettingsInv

\* The list of values in which one is set: it has a value for every sensor that
\* had one, the same for all but the one, and the first if there was one value
\* for all.
LEMMA ListedIs ==
    ASSUME IsConfiguration(conf), NEW value \in Nat, NEW s \in DpiSensors \cup {NoSensor}
    PROVE  /\ Listed(value, s) \in Seq(Int)
           /\ \A t \in DpiSensors : t # s /\ (conf.dpi.kind = "one" => t # 1) =>
                  (IF t <= Len(Listed(value, s)) THEN Listed(value, s)[t] ELSE 0) = Wanted(conf, t)
  <1> DEFINE old  == Values(conf)
             base == IF conf.dpi.kind = "one" THEN <<value>> ELSE old
             size == IF Len(base) > s THEN Len(base) ELSE s
             new  == [n \in 1 .. size |-> IF n = s THEN value
                                          ELSE IF n <= Len(base) THEN base[n] ELSE 0]
  <1>1. s \in Nat \ {0} /\ \A t \in DpiSensors : t \in Nat \ {0}
    BY SettingsAssumption
  <1>2. old \in Seq(Int) /\ (conf.dpi.kind = "one" => Len(old) = 1)
    BY DEF IsConfiguration, Values
  <1>3. \A t : Wanted(conf, t) = IF t <= Len(old) THEN old[t] ELSE 0
    BY DEF Wanted
  <1>4. Listed(value, s) = new
    BY DEF Listed
  <1> HIDE DEF old
  <1>5. base \in Seq(Int) /\ (conf.dpi.kind = "one" => Len(base) = 1) /\ (conf.dpi.kind # "one" => base = old)
    BY <1>2
  <1> HIDE DEF base
  <1>6. size \in Nat /\ size >= s /\ size >= Len(base) /\ (size = s \/ size = Len(base))
    BY <1>1, <1>5
  <1> HIDE DEF size
  <1>7. new \in Seq(Int) /\ Len(new) = size
    <2>1. \A n \in 1 .. size : (IF n = s THEN value ELSE IF n <= Len(base) THEN base[n] ELSE 0) \in Int
      BY <1>5, <1>6
    <2>2. new \in [1 .. size -> Int]
      BY <2>1
    <2> HIDE DEF new
    <2> QED
      BY <1>6, <2>2
  <1>8. ASSUME NEW t \in DpiSensors, t # s, conf.dpi.kind = "one" => t # 1
        PROVE  (IF t <= size THEN new[t] ELSE 0) = IF t <= Len(old) THEN old[t] ELSE 0
    <2>1. t \in Nat \ {0}
      BY <1>1
    <2>2. t \in 1 .. size => new[t] = IF t <= Len(base) THEN base[t] ELSE 0
      BY <1>8
    <2> HIDE DEF new
    <2>3. CASE conf.dpi.kind = "one"
      <3>1. Len(old) = 1 /\ Len(base) = 1 /\ t > 1
        BY <1>2, <1>5, <1>8, <2>1, <2>3
      <3>2. t <= size => t \in 1 .. size
        BY <1>6, <2>1
      <3> QED
        BY <2>1, <2>2, <3>1, <3>2
    <2>4. CASE conf.dpi.kind # "one"
      <3>1. base = old /\ Len(old) \in Nat
        BY <1>2, <1>5, <2>4
      <3>2. t <= size => t \in 1 .. size
        BY <1>6, <2>1
      <3>3. t <= Len(old) => t <= size
        BY <1>6, <2>1, <3>1
      <3> QED
        BY <2>1, <2>2, <3>1, <3>2, <3>3
    <2> QED
      BY <2>3, <2>4
  <1> HIDE DEF new
  <1> QED
    BY <1>3, <1>4, <1>7, <1>8

\* The bus sets the value of a sensor.
LEMMA SetDPI ==
    ASSUME SettingsInv, NEW value \in DpiValues, NEW s \in DpiSensors \cup {NoSensor}, setDPI(value, s)
    PROVE  SettingsInv'
  <1> DEFINE o     == Telling("dpi", {s} \cap DpiSensors)
             first == IF conf.dpi.kind = "one" THEN {1} ELSE {}
             d     == IF conf.dpi.kind = "one" /\ s = 1 THEN [kind |-> "one", values |-> <<value>>]
                      ELSE [kind |-> "list", values |-> Listed(value, s)]
  <1>1. /\ Begins(bus, o) /\ conf' = [conf EXCEPT !.dpi = d]
        /\ strayed' = [strayed EXCEPT !["dpi"] = @ \cup (({s} \cup first) \cap DpiSensors)]
        /\ UNCHANGED <<wheel, smart, threshold, dpi, host, unset>>
    BY DEF setDPI, Strays, DeviceSettings
  <1>2. /\ IsConfiguration(conf)
        /\ conf = [wheel |-> conf.wheel, on |-> conf.on, threshold |-> conf.threshold, dpi |-> conf.dpi]
        /\ strayed = [f \in Features |-> strayed[f]]
    BY DEF SettingsInv, SettingsOK, IsConfiguration
  <1>3. value \in Nat
    BY SettingsAssumption
  <1>4. /\ d.kind \in {"one", "list"} /\ d = [kind |-> d.kind, values |-> d.values]
        /\ d.values \in Seq(Int) /\ (d.kind = "one" => Len(d.values) = 1)
        /\ \A t \in DpiSensors : t # s /\ t \notin first =>
               (IF t <= Len(d.values) THEN d.values[t] ELSE 0) = Wanted(conf, t)
    <2>1. CASE conf.dpi.kind = "one" /\ s = 1
      <3>1. Wanted(conf, 2) = 0 /\ \A t \in DpiSensors : t # s => t \in Nat /\ t > 1
        BY <2>1, <1>2, SettingsAssumption DEF Wanted, Values, IsConfiguration
      <3>2. \A t \in DpiSensors : t # s => Wanted(conf, t) = 0
        BY <1>2, <2>1, <3>1 DEF Wanted, Values, IsConfiguration
      <3>3. d = [kind |-> "one", values |-> <<value>>]
        BY <2>1
      <3> HIDE DEF d
      <3> QED
        BY <1>3, <3>1, <3>2, <3>3
    <2>2. CASE ~(conf.dpi.kind = "one" /\ s = 1)
      <3>1. d = [kind |-> "list", values |-> Listed(value, s)]
        BY <2>2
      <3> HIDE DEF d
      <3> QED
        BY <1>2, <1>3, <3>1, ListedIs
    <2> QED
      BY <2>1, <2>2
  <1> HIDE DEF d
  <1>5. conf' = [wheel |-> conf.wheel, on |-> conf.on, threshold |-> conf.threshold, dpi |-> d]
    BY <1>1, <1>2
  <1>6. IsConfiguration(conf')
    <2>1. d \in [kind : {"absent", "one", "list"}, values : Seq(Int)]
      BY <1>4
    <2> QED
      BY <1>2, <1>4, <1>5, <2>1 DEF IsConfiguration
  <1>7. OpOK(o)
    BY DEF OpOK, Telling, Of, Features
  <1>8. /\ strayed' = [f \in Features |-> strayed'[f]]
        /\ strayed'["wheel"] = strayed["wheel"] /\ strayed'["smart"] = strayed["smart"]
        /\ strayed'["dpi"] = strayed["dpi"] \cup (({s} \cup first) \cap DpiSensors)
    BY <1>1, <1>2 DEF Features
  <1> HIDE DEF o
  <1>9. SettingsOK' /\ \A f \in Features : \A e : ToWrite(f, e) => ToWrite(f, e)'
    BY <1>1, <1>6, <1>7, <1>8, BusBegins
  <1>10. WheelComes' /\ SmartComes'
    BY <1>1, <1>5, <1>8, <1>9 DEF SettingsInv, WheelComes, SmartComes, Mask, Features
  <1>11. DpiComes'
    <2> SUFFICES ASSUME NEW t \in Told(conf)', t \notin strayed'["dpi"], OneWord(Wanted(conf, t)')
                 PROVE  (dpi[t] = getClosestDPI(DpiLists[t], Wanted(conf, t)) \/ ToWrite("dpi", t))'
      BY DEF DpiComes, OneWord
    <2>1. t \in DpiSensors /\ t # s /\ t \notin first /\ t \notin strayed["dpi"] /\ Wanted(conf, t)' # 0
      BY <1>8 DEF Told
    <2>2. Wanted(conf, t)' = Wanted(conf, t)
      <3>1. Values(conf)' = d.values
        BY <1>4, <1>5 DEF Values
      <3> QED
        BY <1>4, <2>1, <3>1 DEF Wanted
    <2> QED
      BY <1>1, <1>9, <2>1, <2>2 DEF SettingsInv, DpiComes, Told, Features
  <1> QED
    BY <1>1, <1>9, <1>10, <1>11 DEF SettingsInv

\* A transfer fails: what was to be written, and after it, has strayed.
LEMMA Fails ==
    ASSUME SettingsInv, NEW p \in Procs, fails(p)
    PROVE  SettingsInv'
  <1>1. /\ op' = [op EXCEPT ![p] = Idle] /\ DOMAIN op = Procs /\ OpOK(op[p])
        /\ UNCHANGED <<wheel, smart, threshold, dpi, host, conf>>
        /\ strayed = [f \in Features |-> strayed[f]] /\ dpi = [s \in DpiSensors |-> dpi[s]]
    BY DEF fails, Ends, DeviceSettings, SettingsInv, SettingsOK
  <1>2. \A s : Wanted(conf, s)' = Wanted(conf, s)
    BY <1>1 DEF Wanted, Values
  <1>3. OpOK(Idle) /\ Idle.what \notin Features
    BY DEF OpOK, Idle, Features
  \* All that is not to be written any more has strayed.
  <1>4. ASSUME unset' \subseteq unset, strayed' = [f \in Features |-> strayed'[f]],
               \A f \in Features : strayed[f] \subseteq strayed'[f],
               \A f \in Features : \A e \in Of(f) : ToWrite(f, e) => e \in strayed'[f] \/ ToWrite(f, e)'
        PROVE  SettingsInv'
    <2>1. SettingsOK'
      BY <1>1, <1>3, <1>4 DEF SettingsInv, SettingsOK, Idle, Features, Procs
    <2>2. WheelComes'
      <3>1. Mask(conf) \subseteq Bits /\ Of("wheel") = Bits /\ "wheel" \in Features
        BY DEF SettingsInv, SettingsOK, IsConfiguration, Mask, Of, Features
      <3> QED
        BY <1>1, <1>4, <3>1 DEF SettingsInv, WheelComes, Mask
    <2>3. SmartComes'
      <3>1. Of("smart") = {"smart", "threshold"} /\ "smart" \in Features
        BY DEF Of, Features
      <3> QED
        BY <1>1, <1>4, <3>1 DEF SettingsInv, SmartComes
    <2>4. DpiComes'
      <3>1. Told(conf) \subseteq DpiSensors /\ Of("dpi") = DpiSensors /\ "dpi" \in Features
        BY DEF Told, Of, Features
      <3> QED
        BY <1>1, <1>2, <1>4, <3>1 DEF SettingsInv, DpiComes, Told
    <2> QED
      BY <1>1, <2>1, <2>2, <2>3, <2>4 DEF SettingsInv
  <1>5. CASE op[p].what \notin Features
    <2>1. UNCHANGED <<strayed, unset>>
      BY <1>5 DEF fails
    <2>2. ASSUME NEW f \in Features, NEW e, ToWrite(f, e) PROVE ToWrite(f, e)'
      BY <1>1, <1>5, <2>1, <2>2, DoneWriting
    <2> QED
      BY <1>1, <1>4, <2>1, <2>2
  <1>6. CASE op[p].what \in Features /\ p = bus
    <2>1. strayed' = [strayed EXCEPT ![op[p].what] = @ \cup op[p].left] /\ UNCHANGED unset
      BY <1>6 DEF fails, Strays
    <2>2. /\ strayed' = [f \in Features |-> strayed'[f]]
          /\ \A f \in Features : strayed[f] \subseteq strayed'[f]
          /\ op[p].left \subseteq strayed'[op[p].what]
      BY <1>1, <1>6, <2>1
    <2>3. ASSUME NEW f \in Features, NEW e, ToWrite(f, e) PROVE e \in strayed'[f] \/ ToWrite(f, e)'
      BY <1>1, <2>1, <2>2, <2>3, DoneWriting
    <2> QED
      BY <1>4, <2>1, <2>2, <2>3
  <1>7. CASE op[p].what \in Features /\ p # bus
    <2>1. /\ strayed' = [f \in Features |-> strayed[f] \cup
                              IF f = op[p].what THEN op[p].left
                              ELSE IF f \in unset THEN Of(f) ELSE {}]
          /\ unset' = {}
      BY <1>7 DEF fails
    <2>2. p \in Workers /\ op[p].what \notin unset
      BY <1>7 DEF SettingsInv, SettingsOK, Procs
    <2>3. /\ strayed' = [f \in Features |-> strayed'[f]]
          /\ \A f \in Features : strayed[f] \subseteq strayed'[f]
      BY <2>1
    <2>4. ASSUME NEW f \in Features, NEW e \in Of(f), ToWrite(f, e)
          PROVE  e \in strayed'[f] \/ ToWrite(f, e)'
      <3>1. CASE f \in unset
        BY <2>1, <2>2, <3>1
      <3>2. ASSUME NEW q \in Procs, op[q].what = f, e \in op[q].left
            PROVE  e \in strayed'[f] \/ ToWrite(f, e)'
        <4>1. CASE q = p
          BY <2>1, <3>2, <4>1
        <4>2. CASE q # p
          BY <1>1, <3>2, <4>2 DEF ToWrite
        <4> QED
          BY <4>1, <4>2
      <3> QED
        BY <2>4, <3>1, <3>2 DEF ToWrite
    <2> QED
      BY <1>4, <2>1, <2>3, <2>4
  <1> QED
    BY <1>5, <1>6, <1>7

\* The tasks of the actions compute what they will write.
LEMMA TasksBegin ==
    ASSUME SettingsInv, NEW p \in Workers,
           \/ toggleHiresScroll(p) \/ toggleSmartShift(p)
           \/ \E s \in DpiSensors, inc \in Increments : changeDPI(p, s, inc)
           \/ \E way \in Ways : changeHost(p, way)
    PROVE  SettingsInv'
  <1>1. p \in Procs
    BY DEF Procs
  <1>2. CASE toggleHiresScroll(p)
    <2> DEFINE o == [what |-> "toggle wheel",
                     mode |-> IF "hires" \in wheel THEN wheel \ {"hires"} ELSE wheel \cup {"hires"}]
    <2>1. Begins(p, o) /\ UNCHANGED <<DeviceSettings, conf, unset, strayed>>
      BY <1>2, Zenon DEF toggleHiresScroll
    <2>2. OpOK(o) /\ o.what \notin Features
      BY DEF OpOK, Features
    <2> HIDE DEF o
    <2> QED
      BY <1>1, <2>1, <2>2, TaskBegins
  <1>3. CASE toggleSmartShift(p)
    <2> DEFINE o == [what |-> "toggle smart", active |-> ~smart]
    <2>1. Begins(p, o) /\ UNCHANGED <<DeviceSettings, conf, unset, strayed>>
      BY <1>3, Zenon DEF toggleSmartShift
    <2>2. OpOK(o) /\ o.what \notin Features
      BY DEF OpOK, Features
    <2> HIDE DEF o
    <2> QED
      BY <1>1, <2>1, <2>2, TaskBegins
  <1>4. ASSUME NEW s \in DpiSensors, NEW inc \in Increments, changeDPI(p, s, inc)
        PROVE  SettingsInv'
    <2> DEFINE o == [what |-> "change dpi", sensor |-> s, dpi |-> (dpi[s] + inc) % Word]
    <2>1. Begins(p, o) /\ UNCHANGED <<DeviceSettings, conf, unset, strayed>>
      BY <1>4, Zenon DEF changeDPI
    <2>2. (dpi[s] + inc) % Word \in Int
      <3>1. dpi[s] \in Supported(DpiLists[s])
        BY DEF SettingsInv
      <3>2. dpi[s] \in Int /\ inc \in Int /\ Word \in Nat \ {0}
        BY <3>1, SupportedAre, SettingsAssumption
      <3> QED
        BY <3>2
    <2>3. o.what = "change dpi" /\ o.sensor = s /\ o.dpi = (dpi[s] + inc) % Word
      OBVIOUS
    <2> HIDE DEF o
    <2>4. OpOK(o) /\ o.what \notin Features
      BY <2>2, <2>3, Zenon DEF OpOK, Features
    <2> QED
      BY <1>1, <2>1, <2>4, TaskBegins
  <1>5. ASSUME NEW way \in Ways, changeHost(p, way)
        PROVE  SettingsInv'
    <2> DEFINE o == [what |-> "change host", host |-> nextHost(way)]
    <2>1. Begins(p, o) /\ UNCHANGED <<DeviceSettings, conf, unset, strayed>>
      BY <1>5, Zenon DEF changeHost
    <2>2. nextHost(way) \in 0 .. Hosts - 1
      BY HostIs DEF SettingsInv
    <2>3. OpOK(o) /\ o.what \notin Features
      BY <2>2 DEF OpOK, Features
    <2> HIDE DEF o
    <2> QED
      BY <1>1, <2>1, <2>3, TaskBegins
  <1> QED
    BY <1>2, <1>3, <1>4, <1>5

\* Another profile is made active, or the device comes back without settings.
LEMMA ConfiguresAll ==
    ASSUME SettingsInv, NEW p \in Workers,
           (\E choice \in Given : switchSettings(p, choice)) \/ resets(p)
    PROVE  SettingsInv'
  <1>1. /\ Begins(p, Idle) /\ ~Configuring /\ unset' = Features /\ UNCHANGED <<host, strayed>>
    BY DEF switchSettings, resets, DeviceSettings
  <1>2. IsConfiguration(conf')
    <2>1. conf' = conf \/ conf' \in Given
      BY DEF switchSettings, resets
    <2> QED
      BY <2>1, GivenAssumption DEF SettingsInv, SettingsOK
  <1>3. dpi' = dpi \/ dpi' = [s \in DpiSensors |-> Min(DpiLists[s].values)]
    BY DEF switchSettings, resets, DeviceSettings
  <1>4. /\ dpi' = [s \in DpiSensors |-> dpi'[s]]
        /\ \A s \in DpiSensors : dpi'[s] \in Supported(DpiLists[s])
    <2>1. CASE dpi' = dpi
      BY <2>1 DEF SettingsInv, SettingsOK
    <2>2. CASE dpi' = [s \in DpiSensors |-> Min(DpiLists[s].values)]
      BY <2>2, SupportedAre
    <2> QED
      BY <1>3, <2>1, <2>2
  <1> QED
    BY <1>1, <1>2, <1>4, AllToWrite

\* A step of others changes nothing of this.
LEMMA SettingsUnchanged == SettingsInv /\ UNCHANGED settingVars => SettingsInv'
  <1> SUFFICES ASSUME SettingsInv, UNCHANGED settingVars PROVE SettingsInv'
    OBVIOUS
  <1>1. UNCHANGED <<wheel, smart, threshold, dpi, host, conf, op, unset, strayed>>
    BY DEF settingVars
  <1>2. \A s : Wanted(conf, s)' = Wanted(conf, s)
    BY <1>1 DEF Wanted, Values
  <1>3. \A f, e : ToWrite(f, e)' = ToWrite(f, e)
    BY <1>1 DEF ToWrite
  <1>4. SettingsOK'
    BY <1>1 DEF SettingsInv, SettingsOK
  <1>5. WheelComes' /\ SmartComes' /\ DpiComes'
    BY <1>1, <1>2, <1>3 DEF SettingsInv, WheelComes, SmartComes, DpiComes, Mask, Told
  <1> QED
    BY <1>1, <1>4, <1>5 DEF SettingsInv

\* Every step keeps the invariant.
LEMMA SettingsStep == SettingsInv /\ [SettingNext]_settingVars => SettingsInv'
  <1> SUFFICES ASSUME SettingsInv, [SettingNext]_settingVars PROVE SettingsInv'
    OBVIOUS
  <1>1. ASSUME NEW p \in Workers,
               \/ toggleHiresScroll(p) \/ toggleSmartShift(p)
               \/ \E s \in DpiSensors, inc \in Increments : changeDPI(p, s, inc)
               \/ \E way \in Ways : changeHost(p, way)
        PROVE  SettingsInv'
    BY <1>1, TasksBegin
  <1>2. ASSUME NEW p \in Workers, (\E choice \in Given : switchSettings(p, choice)) \/ resets(p)
        PROVE  SettingsInv'
    BY <1>2, ConfiguresAll
  <1>3. ASSUME NEW p \in Workers, taskWrites(p) PROVE SettingsInv'
    BY <1>3, TaskWrites
  <1>4. ASSUME NEW p \in Workers, NEW f \in Features, configureBegins(p, f) PROVE SettingsInv'
    BY <1>4, ConfigureBegins
  <1>5. ASSUME NEW p \in Procs, configureWrites(p) \/ fails(p) PROVE SettingsInv'
    BY <1>5, ConfigureWrites, Fails
  <1>6. ASSUME NEW value \in BOOLEAN, NEW b \in Bits, setWheel(b, value) PROVE SettingsInv'
    BY <1>6, SetWheel
  <1>7. ASSUME NEW value \in BOOLEAN, NEW clear \in BOOLEAN, setActive(value, clear) PROVE SettingsInv'
    BY <1>7, SetActive
  <1>8. ASSUME NEW value \in SmartThresholds, NEW clear \in BOOLEAN, setAutoDisengage(value, clear)
        PROVE  SettingsInv'
    BY <1>8, SetAutoDisengage
  <1>9. ASSUME NEW value \in DpiValues, NEW s \in DpiSensors \cup {NoSensor}, setDPI(value, s) PROVE SettingsInv'
    BY <1>9, SetDPI
  <1> QED
    BY <1>1, <1>2, <1>3, <1>4, <1>5, <1>6, <1>7, <1>8, <1>9, SettingsUnchanged DEF SettingNext

\* When nothing is to be written, a setting has strayed or is in force.
LEMMA SettingsInvAgrees == SettingsInv => SettingsAgree
  <1> SUFFICES ASSUME SettingsInv PROVE SettingsAgree
    OBVIOUS
  <1>1. SettingsInForce
    <2> SUFFICES ASSUME unset = {}, \A p \in Procs : op[p] = Idle
                 PROVE  WheelInForce /\ SmartInForce /\ DpiInForce
      BY DEF SettingsInForce
    <2>1. \A f \in Features : \A e : ~ToWrite(f, e)
      BY DEF ToWrite, Idle, Features
    <2> QED
      BY <2>1 DEF SettingsInv, WheelComes, SmartComes, DpiComes, WheelInForce, SmartInForce, DpiInForce,
         Features
  <1>2. ChoicesAreSupported
    <2>1. \A s \in Told(conf) : IsNearest(s, Wanted(conf, s) % Word)
      <3>1. \A s \in DpiSensors : Wanted(conf, s) % Word \in Int
        BY WantedIs DEF SettingsInv, SettingsOK
      <3> QED
        BY <3>1, Nearest DEF Told
    <2>2. \A p \in Procs : op[p].what = "change dpi" => IsNearest(op[p].sensor, op[p].dpi)
      BY Nearest, Zenon DEF SettingsInv, SettingsOK, OpOK
    <2> QED
      BY <2>1, <2>2, Zenon DEF SettingsInv, ChoicesAreSupported
  <1> QED
    BY <1>1, <1>2 DEF SettingsAgree

(***************************************************************************)
(* Whatever tasks of buttons, the bus, switches of the profile, wakeups    *)
(* and failed transfers do in between, once nothing is on its way the      *)
(* device has what its profile says, but for the settings whose loss is    *)
(* named; and a sensor never has a value that it does not support, nor     *)
(* one further from what was asked than need be.                           *)
(***************************************************************************)
THEOREM SettingsAlwaysAgree == SettingSpec => []SettingsAgree
  <1>1. SettingSpec => []SettingsInv
    BY SettingsInitially, SettingsStep, PTL DEF SettingSpec
  <1> QED
    BY <1>1, SettingsInvAgrees, PTL

-----------------------------------------------------------------------------
(* The buttons of a device                                                  *)

\* The ranks of the elements of a set are the numbers from one to its size.
LEMMA Ranks ==
    ASSUME NEW S, IsFiniteSet(S), S \subseteq Nat
    PROVE  /\ Cardinality(S) \in Nat
           /\ \A b \in S : Rank(b, S) \in 1 .. Cardinality(S)
           /\ \A b, c \in S : Rank(b, S) = Rank(c, S) => b = c
           /\ \A n \in 1 .. Cardinality(S) : \E b \in S : Rank(b, S) = n
  <1> DEFINE Below(b) == {c \in S : c <= b}
             f == [b \in S |-> Rank(b, S)]
  <1>1. Cardinality(S) \in Nat
    BY FS_CardinalityType
  <1>2. ASSUME NEW b \in S
        PROVE  IsFiniteSet(Below(b)) /\ Rank(b, S) \in Nat /\ Rank(b, S) <= Cardinality(S)
    <2>1. Below(b) \subseteq S
      OBVIOUS
    <2> HIDE DEF Below
    <2>2. IsFiniteSet(Below(b)) /\ Cardinality(Below(b)) <= Cardinality(S)
      BY <2>1, FS_Subset
    <2> QED
      BY <2>2, FS_CardinalityType DEF Rank, Below
  <1>3. ASSUME NEW b \in S PROVE Rank(b, S) # 0
    <2>1. b \in Below(b)
      OBVIOUS
    <2> HIDE DEF Below
    <2>2. Cardinality(Below(b)) # 0
      BY <1>2, <2>1, FS_EmptySet
    <2> QED
      BY <2>2 DEF Rank, Below
  <1>4. ASSUME NEW b \in S, NEW c \in S, b < c PROVE Rank(b, S) # Rank(c, S)
    <2>0. b \in Nat /\ c \in Nat /\ \A d \in S : d \in Nat
      OBVIOUS
    <2>1. Below(b) \subseteq Below(c) /\ c \in Below(c) /\ c \notin Below(b)
      <3>1. \A d \in S : d <= b => d <= c
        BY <1>4, <2>0
      <3>2. c <= c /\ ~(c <= b)
        BY <1>4, <2>0
      <3> QED
        BY <3>1, <3>2
    <2>2. IsFiniteSet(Below(c)) /\ IsFiniteSet(Below(b))
      BY <1>2
    <2> HIDE DEF Below
    <2>3. Cardinality(Below(b)) # Cardinality(Below(c))
      BY <2>1, <2>2, FS_Subset
    <2> QED
      BY <2>3 DEF Rank, Below
  <1>5. \A b, c \in S : Rank(b, S) = Rank(c, S) => b = c
    BY <1>4
  <1>6. ASSUME NEW b \in S PROVE Rank(b, S) \in 1 .. Cardinality(S)
    <2>1. Rank(b, S) \in Nat /\ Rank(b, S) <= Cardinality(S) /\ Rank(b, S) # 0
      BY <1>2, <1>3
    <2> QED
      BY <1>1, <2>1
  <1>7. f \in Injection(S, 1 .. Cardinality(S))
    <2>1. f \in [S -> 1 .. Cardinality(S)]
      BY <1>6
    <2> QED
      BY <1>5, <2>1 DEF Injection, IsInjective
  <1>8. f \in Surjection(S, 1 .. Cardinality(S))
    <2>1. IsFiniteSet(1 .. Cardinality(S)) /\ Cardinality(1 .. Cardinality(S)) = Cardinality(S)
      BY <1>1, FS_Interval
    <2> HIDE DEF f
    <2> QED
      BY <1>7, <2>1, FS_Injection
  <1>9. \A n \in 1 .. Cardinality(S) : \E b \in S : Rank(b, S) = n
    BY <1>8 DEF Surjection
  <1> QED
    BY <1>1, <1>5, <1>6, <1>9

\* A step for each control of a set: one, and none for others.
LEMMA EachIs ==
    ASSUME NEW do, NEW S, IsFiniteSet(S), S \subseteq Nat
    PROVE  /\ Each(do, S) \in Seq([do : {do}, of : S])
           /\ \A n \in DOMAIN Each(do, S) : Each(do, S)[n].of \in S /\ Each(do, S)[n].do = do
           /\ \A b \in S : \E n \in DOMAIN Each(do, S) : Each(do, S)[n].of = b
           /\ \A m, n \in DOMAIN Each(do, S) : Each(do, S)[m].of = Each(do, S)[n].of => m = n
  <1> DEFINE k == Cardinality(S)
             At(n) == CHOOSE b \in S : Rank(b, S) = n
             each == [n \in 1 .. k |-> [do |-> do, of |-> At(n)]]
  <1>1. /\ k \in Nat
        /\ \A b \in S : Rank(b, S) \in 1 .. k
        /\ \A b, c \in S : Rank(b, S) = Rank(c, S) => b = c
        /\ \A n \in 1 .. k : \E b \in S : Rank(b, S) = n
    BY Ranks
  <1>2. \A n \in 1 .. k : At(n) \in S /\ Rank(At(n), S) = n
    BY <1>1
  <1>3. \A b \in S : At(Rank(b, S)) = b
    BY <1>1, <1>2
  <1>4. Each(do, S) = each
    BY DEF Each
  <1> HIDE DEF k, At
  <1>5. \A n \in 1 .. k : each[n].of = At(n) /\ each[n].do = do /\ each[n] \in [do : {do}, of : S]
    BY <1>2
  <1>6. DOMAIN each = 1 .. k /\ each \in Seq([do : {do}, of : S])
    <2>1. each \in [1 .. k -> [do : {do}, of : S]]
      BY <1>5
    <2>2. k \in Nat
      BY <1>1
    <2> DEFINE T == [do : {do}, of : S]
    <2> HIDE DEF each, T
    <2>3. \A e \in [1 .. k -> T] : e \in Seq(T)
      BY <2>2
    <2> QED
      BY <2>1, <2>3 DEF T
  <1> HIDE DEF each
  <1>7. \A b \in S : \E n \in DOMAIN each : each[n].of = b
    BY <1>1, <1>3, <1>5, <1>6
  <1>8. \A m, n \in DOMAIN each : each[m].of = each[n].of => m = n
    BY <1>2, <1>5, <1>6
  <1> QED
    BY <1>2, <1>4, <1>5, <1>6, <1>7, <1>8

\* What a report has still to do.
ButtonSteps == [do : {"press", "release", "ask", "move"}, of : Buttons]

\* Actions and controls are of the buttons, and one call at a time configures.
ButtonsOK ==
    /\ action = [b \in Buttons |-> [kind |-> action[b].kind, keys |-> action[b].keys,
                                    pressed |-> action[b].pressed, strayed |-> action[b].strayed]]
    /\ \A b \in Buttons : action[b].pressed \in BOOLEAN /\ action[b].strayed \in BOOLEAN
    /\ \A b \in Buttons : action[b].pressed => action[b].kind \in Remembers
    /\ diverted = [b \in Buttons |-> diverted[b]]
    /\ reported \subseteq Buttons /\ newState \subseteq Buttons /\ report \in Seq(ButtonSteps)
    /\ \A b, c \in calling : b = c

\* A button that the report has still to press or to release.
Flips(step)   == step.do \in {"press", "release"}
Pending(r, b) == \E n \in DOMAIN r : Flips(r[n]) /\ r[n].of = b

\* A report r presses what is new, releases what is missing, each once; one of
\* movement changes nothing, and moves actions that are pressed.
ReportOK(r) ==
    /\ \A n \in DOMAIN r : r[n].do = "press" => r[n].of \in newState \ reported
    /\ \A n \in DOMAIN r : r[n].do = "release" => r[n].of \in reported \ newState
    /\ \A m, n \in DOMAIN r : Flips(r[m]) /\ Flips(r[n]) /\ r[m].of = r[n].of => m = n
    /\ \A n \in DOMAIN r : ~Flips(r[n]) => newState = reported
    /\ \A n \in DOMAIN r : r[n].do = "move" => r[n].of \in replaced \/ action[r[n].of].pressed

\* Up to the report's place, an action knows it is pressed just when its button is.
PressedSoFar(r) ==
    \A b \in Buttons \ replaced :
        /\ action[b].kind \in Remembers =>
               (action[b].pressed <=> b \in (IF Pending(r, b) THEN reported ELSE newState))
        /\ ~action[b].strayed

\* The keys of the actions that are pressed.
Held == UNION {action[b].keys : b \in {c \in Buttons : action[c].kind = "Keypress" /\ action[c].pressed}}

\* The inductive invariant.
ButtonInv ==
    /\ ButtonsOK /\ ReportOK(report) /\ PressedSoFar(report)
    /\ report = << >> => newState = reported
    /\ down \subseteq Held \cup orphaned /\ Held \subseteq down \cup lost
    /\ DivertedAsNeeded

\* At first nothing is pressed, and the device is told.
LEMMA ButtonsInitially == ButtonInit => ButtonInv
  <1> SUFFICES ASSUME ButtonInit PROVE ButtonInv
    OBVIOUS
  <1>1. /\ action = [b \in Buttons |-> Act(Profiles[profile][b])]
        /\ diverted = [b \in Buttons |-> reprogFlags(action[b])]
        /\ reported = {} /\ report = << >> /\ newState = {} /\ calling = {} /\ down = {}
    BY DEF ButtonInit
  <1>2. \A b \in Buttons : /\ action[b] = Act(Profiles[profile][b])
                           /\ action[b].pressed = FALSE /\ action[b].strayed = FALSE
    BY <1>1 DEF Act
  <1>3. ButtonsOK
    <2>1. \A b \in Buttons : action[b] = [kind |-> action[b].kind, keys |-> action[b].keys,
                                         pressed |-> action[b].pressed, strayed |-> action[b].strayed]
      <3> SUFFICES ASSUME NEW b \in Buttons
                   PROVE  action[b] = [kind |-> action[b].kind, keys |-> action[b].keys,
                                       pressed |-> action[b].pressed, strayed |-> action[b].strayed]
        OBVIOUS
      <3> DEFINE made == Profiles[profile][b]
      <3>1. action[b] = [kind |-> made.kind, keys |-> made.keys, pressed |-> FALSE, strayed |-> FALSE]
        BY <1>2 DEF Act
      <3> HIDE DEF made
      <3> QED
        BY <3>1
    <2>2. action = [b \in Buttons |-> action[b]] /\ diverted = [b \in Buttons |-> diverted[b]]
      BY <1>1
    <2>3. action = [b \in Buttons |-> [kind |-> action[b].kind, keys |-> action[b].keys,
                                      pressed |-> action[b].pressed, strayed |-> action[b].strayed]]
      BY <2>1, <2>2
    <2>4. report \in Seq(ButtonSteps)
      BY <1>1
    <2> QED
      BY <1>1, <1>2, <2>2, <2>3, <2>4 DEF ButtonsOK
  <1>4. ReportOK(report) /\ PressedSoFar(report)
    BY <1>1, <1>2 DEF ReportOK, PressedSoFar
  <1>5. Held = {}
    BY <1>2 DEF Held
  <1>6. DivertedAsNeeded
    BY <1>1 DEF DivertedAsNeeded
  <1> QED
    BY <1>1, <1>3, <1>4, <1>5, <1>6 DEF ButtonInv

\* A report of buttons begins.
LEMMA ButtonReport ==
    ASSUME ButtonInv, NEW state \in SUBSET Buttons, _buttonEvent(state)
    PROVE  ButtonInv'
  <1> DEFINE P == Each("press", state \ reported)
             R == Each("release", reported \ state)
  <1>1. /\ report = << >> /\ state # reported /\ report' = P \o R /\ newState' = state
        /\ newState = reported
        /\ UNCHANGED <<action, reported, diverted, calling, switching, down, replaced, orphaned,
                       lost, unsettled>>
    BY DEF _buttonEvent, NewReport, ButtonInv
  <1>2. reported \subseteq Buttons
    BY DEF ButtonInv, ButtonsOK
  <1>3. /\ IsFiniteSet(state \ reported) /\ state \ reported \subseteq Nat
        /\ IsFiniteSet(reported \ state) /\ reported \ state \subseteq Nat
    BY <1>2, ControlsAssumption, FS_Subset
  <1>4. /\ P \in Seq([do : {"press"}, of : state \ reported])
        /\ \A n \in DOMAIN P : P[n].of \in state \ reported /\ P[n].do = "press"
        /\ \A b \in state \ reported : \E n \in DOMAIN P : P[n].of = b
        /\ \A m, n \in DOMAIN P : P[m].of = P[n].of => m = n
    BY <1>3, EachIs
  <1>5. /\ R \in Seq([do : {"release"}, of : reported \ state])
        /\ \A n \in DOMAIN R : R[n].of \in reported \ state /\ R[n].do = "release"
        /\ \A b \in reported \ state : \E n \in DOMAIN R : R[n].of = b
        /\ \A m, n \in DOMAIN R : R[m].of = R[n].of => m = n
    BY <1>3, EachIs
  <1> HIDE DEF P, R
  <1> DEFINE r == P \o R
  <1>6. /\ r \in Seq(ButtonSteps)
        /\ DOMAIN P = 1 .. Len(P) /\ DOMAIN R = 1 .. Len(R) /\ Len(P) \in Nat /\ Len(R) \in Nat
        /\ DOMAIN r = 1 .. (Len(P) + Len(R))
        /\ \A n \in DOMAIN r : r[n] = IF n \in DOMAIN P THEN P[n] ELSE R[n - Len(P)]
    <2>1. P \in Seq(ButtonSteps) /\ R \in Seq(ButtonSteps)
      <3>1. /\ [do : {"press"}, of : state \ reported] \subseteq ButtonSteps
            /\ [do : {"release"}, of : reported \ state] \subseteq ButtonSteps
        BY <1>2 DEF ButtonSteps
      <3>2. ASSUME NEW S, S \subseteq ButtonSteps, NEW s \in Seq(S) PROVE s \in Seq(ButtonSteps)
        BY <3>2
      <3> QED
        BY <1>4, <1>5, <3>1, <3>2
    <2> QED
      BY <2>1
  <1>7. /\ \A n \in DOMAIN P : n \in DOMAIN r /\ r[n] = P[n]
        /\ \A n \in DOMAIN R : n + Len(P) \in DOMAIN r /\ r[n + Len(P)] = R[n]
        /\ \A n \in DOMAIN r : n \in DOMAIN P \/ (n - Len(P) \in DOMAIN R /\ r[n] = R[n - Len(P)])
    BY <1>6
  <1> HIDE DEF r
  <1>8. \A n \in DOMAIN r : \/ n \in DOMAIN P /\ r[n].do = "press" /\ r[n].of \in state \ reported
                            \/ n \notin DOMAIN P /\ r[n].do = "release" /\ r[n].of \in reported \ state
    BY <1>4, <1>5, <1>6, <1>7
  <1>9. \A m, n \in DOMAIN r : r[m].of = r[n].of => m = n
    <2> SUFFICES ASSUME NEW m \in DOMAIN r, NEW n \in DOMAIN r, r[m].of = r[n].of PROVE m = n
      OBVIOUS
    <2>1. CASE m \in DOMAIN P
      BY <1>4, <1>7, <1>8, <2>1
    <2>2. CASE m \notin DOMAIN P
      <3>1. n \notin DOMAIN P
        BY <1>8, <2>2
      <3>2. /\ m - Len(P) \in DOMAIN R /\ r[m] = R[m - Len(P)]
            /\ n - Len(P) \in DOMAIN R /\ r[n] = R[n - Len(P)]
        BY <1>7, <2>2, <3>1
      <3>3. R[m - Len(P)].of = R[n - Len(P)].of
        BY <3>2
      <3> DEFINE i == m - Len(P)
                 j == n - Len(P)
      <3>4. i = j
        <4>1. i \in DOMAIN R /\ j \in DOMAIN R /\ R[i].of = R[j].of
          BY <3>2, <3>3
        <4> HIDE DEF i, j
        <4> QED
          BY <1>5, <4>1
      <3>5. m \in Nat /\ n \in Nat /\ Len(P) \in Nat
        BY <1>6
      <3> QED
        BY <3>4, <3>5
    <2> QED
      BY <2>1, <2>2
  <1>10. \A b \in Buttons : Pending(r, b) <=> b \in (state \ reported) \cup (reported \ state)
    <2>1. \A n \in DOMAIN r : Flips(r[n])
      BY <1>8 DEF Flips
    <2>2. ASSUME NEW b \in Buttons, Pending(r, b) PROVE b \in (state \ reported) \cup (reported \ state)
      BY <1>8, <2>2 DEF Pending
    <2>3. ASSUME NEW b \in state \ reported PROVE Pending(r, b)
      BY <1>4, <1>7, <2>1 DEF Pending
    <2>4. ASSUME NEW b \in reported \ state PROVE Pending(r, b)
      <3>1. PICK n \in DOMAIN R : R[n].of = b
        BY <1>5
      <3>2. n + Len(P) \in DOMAIN r /\ r[n + Len(P)].of = b
        BY <1>7, <3>1
      <3> QED
        BY <2>1, <3>2 DEF Pending
    <2> QED
      BY <2>2, <2>3, <2>4
  <1>11. report' = r /\ r # << >>
    <2>1. report' = r
      BY <1>1 DEF r
    <2>2. PICK b : b \in (state \ reported) \cup (reported \ state)
      BY <1>1
    <2>3. b \in Buttons
      BY <1>2, <2>2
    <2>4. DOMAIN r # {}
      BY <1>10, <2>2, <2>3 DEF Pending
    <2> QED
      BY <2>1, <2>4
  <1>12. ButtonsOK'
    BY <1>1, <1>6, <1>11 DEF ButtonInv, ButtonsOK
  <1>13. ReportOK(report)'
    BY <1>1, <1>8, <1>9, <1>11 DEF ReportOK, Flips
  <1>14. PressedSoFar(report)'
    <2>1. \A b \in Buttons \ replaced :
              /\ action[b].kind \in Remembers => (action[b].pressed <=> b \in reported)
              /\ ~action[b].strayed
      BY <1>1 DEF ButtonInv, PressedSoFar
    <2> QED
      BY <1>1, <1>10, <1>11, <2>1 DEF PressedSoFar, Pending
  <1>15. Held' = Held
    BY <1>1 DEF Held
  <1>16. DivertedAsNeeded'
    BY <1>1 DEF ButtonInv, DivertedAsNeeded
  <1> QED
    BY <1>1, <1>11, <1>12, <1>13, <1>14, <1>15, <1>16 DEF ButtonInv

\* A report of movement begins.
LEMMA MovementReport ==
    ASSUME ButtonInv, divertedRawXYEvent
    PROVE  ButtonInv'
  <1> DEFINE r == Each("ask", Buttons)
  <1>1. /\ report' = r /\ newState = reported
        /\ UNCHANGED <<newState, action, reported, diverted, calling, switching, down, replaced,
                       orphaned, lost, unsettled>>
    BY DEF divertedRawXYEvent, NewReport, ButtonInv
  <1>2. r \in Seq([do : {"ask"}, of : Buttons]) /\ \A n \in DOMAIN r : r[n].do = "ask"
    BY ControlsAssumption, EachIs
  <1> HIDE DEF r
  <1>3. r \in Seq(ButtonSteps)
    <2>1. [do : {"ask"}, of : Buttons] \subseteq ButtonSteps
      BY DEF ButtonSteps
    <2>2. ASSUME NEW S, S \subseteq ButtonSteps, NEW s \in Seq(S) PROVE s \in Seq(ButtonSteps)
      BY <2>2
    <2> QED
      BY <1>2, <2>1, <2>2
  <1>4. \A n \in DOMAIN r : ~Flips(r[n]) /\ r[n].do \notin {"press", "release", "move"}
    BY <1>2 DEF Flips
  <1>5. \A b \in Buttons : ~Pending(r, b)
    BY <1>4 DEF Pending
  <1>6. ButtonsOK'
    BY <1>1, <1>3 DEF ButtonInv, ButtonsOK
  <1>7. ReportOK(report)'
    BY <1>1, <1>4 DEF ReportOK
  <1>8. PressedSoFar(report)'
    <2>1. \A b \in Buttons \ replaced :
              /\ action[b].kind \in Remembers => (action[b].pressed <=> b \in reported)
              /\ ~action[b].strayed
      BY <1>1 DEF ButtonInv, PressedSoFar
    <2> QED
      BY <1>1, <1>5, <2>1 DEF PressedSoFar, Pending
  <1>9. Held' = Held
    BY <1>1 DEF Held
  <1>10. DivertedAsNeeded'
    BY <1>1 DEF ButtonInv, DivertedAsNeeded
  <1> QED
    BY <1>1, <1>6, <1>7, <1>8, <1>9, <1>10 DEF ButtonInv

\* The first step of a report is of a button, and what is left of it.
LEMMA AfterStep ==
    ASSUME ButtonInv, report # << >>
    PROVE  /\ Button \in Buttons /\ 1 \in DOMAIN report /\ Head(report) = report[1]
           /\ Tail(report) \in Seq(ButtonSteps)
           /\ \A n \in DOMAIN Tail(report) : n + 1 \in DOMAIN report /\ Tail(report)[n] = report[n + 1]
           /\ \A n \in DOMAIN report : n # 1 => /\ n - 1 \in DOMAIN Tail(report)
                                                /\ Tail(report)[n - 1] = report[n]
           /\ \A b \in Buttons : b # Button \/ ~Flips(Head(report)) =>
                  (Pending(Tail(report), b) <=> Pending(report, b))
           /\ Flips(Head(report)) => Pending(report, Button) /\ ~Pending(Tail(report), Button)
           /\ ReportOK(Tail(report))
  <1> DEFINE t == Tail(report)
  <1>1. report \in Seq(ButtonSteps) /\ report # << >> /\ ReportOK(report)
    BY DEF ButtonInv, ButtonsOK
  <1>2. /\ 1 \in DOMAIN report /\ Head(report) = report[1] /\ t \in Seq(ButtonSteps)
        /\ report[1] \in ButtonSteps
    BY <1>1
  <1>3. \A n \in DOMAIN t : n \in Nat /\ n # 0 /\ n + 1 \in DOMAIN report /\ t[n] = report[n + 1]
    BY <1>1
  <1>4. \A n \in DOMAIN report : n # 1 => n - 1 \in DOMAIN t /\ t[n - 1] = report[n]
    BY <1>1
  <1>5. Button \in Buttons /\ Button = report[1].of
    BY <1>2 DEF Button, ButtonSteps
  <1> HIDE DEF t
  <1>6. \A b \in Buttons : b # Button \/ ~Flips(Head(report)) => (Pending(t, b) <=> Pending(report, b))
    <2> SUFFICES ASSUME NEW b \in Buttons, b # Button \/ ~Flips(report[1])
                 PROVE  Pending(t, b) <=> Pending(report, b)
      BY <1>2
    <2>1. ASSUME Pending(t, b) PROVE Pending(report, b)
      BY <1>3, <2>1 DEF Pending
    <2>2. ASSUME Pending(report, b) PROVE Pending(t, b)
      <3>1. PICK n \in DOMAIN report : Flips(report[n]) /\ report[n].of = b
        BY <2>2 DEF Pending
      <3>2. n # 1
        BY <1>5, <3>1
      <3> QED
        BY <1>4, <3>1, <3>2 DEF Pending
    <2> QED
      BY <2>1, <2>2
  <1>7. ASSUME Flips(Head(report)) PROVE Pending(report, Button) /\ ~Pending(t, Button)
    <2>1. Pending(report, Button)
      BY <1>2, <1>5, <1>7 DEF Pending
    <2>2. ASSUME NEW n \in DOMAIN t, Flips(t[n]), t[n].of = Button PROVE FALSE
      <3>1. /\ n \in Nat /\ n # 0 /\ n + 1 \in DOMAIN report /\ Flips(report[n + 1])
            /\ report[n + 1].of = report[1].of
        BY <1>3, <1>5, <2>2
      <3>2. \A m, i \in DOMAIN report :
                Flips(report[m]) /\ Flips(report[i]) /\ report[m].of = report[i].of => m = i
        BY <1>1 DEF ReportOK
      <3>3. n + 1 = 1
        BY <1>2, <1>7, <3>1, <3>2
      <3> QED
        BY <3>1, <3>3
    <2> QED
      BY <2>1, <2>2 DEF Pending
  <1>8. ReportOK(t)
    <2>1. \A n \in DOMAIN t : /\ t[n].do = "press" => t[n].of \in newState \ reported
                              /\ t[n].do = "release" => t[n].of \in reported \ newState
                              /\ ~Flips(t[n]) => newState = reported
                              /\ t[n].do = "move" => t[n].of \in replaced \/ action[t[n].of].pressed
      BY <1>1, <1>3 DEF ReportOK
    <2>2. ASSUME NEW m \in DOMAIN t, NEW n \in DOMAIN t, Flips(t[m]), Flips(t[n]), t[m].of = t[n].of
          PROVE  m = n
      <3>1. m + 1 \in DOMAIN report /\ n + 1 \in DOMAIN report /\ t[m] = report[m + 1] /\ t[n] = report[n + 1]
        BY <1>3
      <3>2. m + 1 = n + 1
        BY <1>1, <2>2, <3>1 DEF ReportOK
      <3> QED
        BY <1>3, <3>2
    <2> QED
      BY <2>1, <2>2 DEF ReportOK
  <1> QED
    BY <1>2, <1>3, <1>4, <1>5, <1>6, <1>7, <1>8 DEF t

\* A step that presses or releases comes to its end.
LEMMA OnwardIs ==
    ASSUME ButtonInv, report # << >>, Flips(Head(report)), Onward, UNCHANGED newState
    PROVE  /\ report' \in Seq(ButtonSteps) /\ reported' \subseteq Buttons
           /\ report' = << >> => newState' = reported'
           /\ ReportOK(report)'
           /\ \A b \in Buttons :
                  (b \in (IF Pending(report', b) THEN reported' ELSE newState'))
                      <=> b \in (IF b # Button /\ Pending(report, b) THEN reported ELSE newState)
  <1>1. /\ Tail(report) \in Seq(ButtonSteps) /\ ReportOK(Tail(report)) /\ ~Pending(Tail(report), Button)
        /\ \A b \in Buttons : b # Button => (Pending(Tail(report), b) <=> Pending(report, b))
        /\ 1 \in DOMAIN report /\ Head(report) = report[1]
    BY AfterStep
  <1>2. /\ report' = Tail(report) /\ newState' = newState
        /\ reported' = IF report' = << >> THEN newState ELSE reported
    BY DEF Onward
  <1>3. reported # newState
    BY <1>1 DEF ButtonInv, ReportOK, Flips
  <1>4. \A n \in DOMAIN report' : Flips(report'[n]) /\ report'[n].do # "move"
    BY <1>1, <1>2, <1>3 DEF ReportOK, Flips
  <1>5. ReportOK(report)'
    <2>1. CASE report' = << >>
      <3>1. DOMAIN report' = {}
        BY <2>1
      <3> QED
        BY <3>1 DEF ReportOK
    <2>2. CASE report' # << >>
      BY <1>1, <1>2, <1>4, <2>2 DEF ReportOK
    <2> QED
      BY <2>1, <2>2
  <1>6. ASSUME NEW b \in Buttons, report' = << >> PROVE ~Pending(report', b)
    BY <1>6 DEF Pending
  <1> QED
    BY <1>1, <1>2, <1>5, <1>6 DEF ButtonInv, ButtonsOK


\* Which keys are held: by an action that is pressed.
Holds(b, k) == action[b].kind = "Keypress" /\ action[b].pressed /\ k \in action[b].keys
LEMMA HeldIs == /\ \A k : k \in Held <=> \E b \in Buttons : Holds(b, k)
                /\ \A k : k \in Held' <=> \E b \in Buttons : Holds(b, k)'
  BY DEF Held, Holds

\* The device diverts what it should while actions keep their kinds.
LEMMA SameKinds ==
    ASSUME DivertedAsNeeded, UNCHANGED <<diverted, calling, switching, unsettled>>,
           \A b \in Buttons : action'[b].kind = action[b].kind
    PROVE  DivertedAsNeeded'
  <1>1. \A b \in Buttons : reprogFlags(action[b])' = reprogFlags(action[b])
    BY DEF reprogFlags
  <1> QED
    BY <1>1 DEF DivertedAsNeeded

\* A button is pressed.
LEMMA ButtonPressed ==
    ASSUME ButtonInv, pressButton
    PROVE  ButtonInv'
  <1>0. PICK its : its = Button
    OBVIOUS
  <1> DEFINE was == action[its]
             keys == IF was.kind = "Keypress" THEN was.keys ELSE {}
  <1>1. /\ report # << >> /\ Head(report).do = "press" /\ Onward /\ Flips(Head(report))
        /\ action' = [action EXCEPT ![its].pressed = @ \/ was.kind \in Remembers]
        /\ down' = down \cup keys /\ lost' = lost \ keys
        /\ UNCHANGED <<newState, diverted, calling, switching, replaced, orphaned, unsettled>>
    BY <1>0 DEF pressButton, ReportStep, Flips
  <1>2. /\ its \in Buttons /\ Pending(report, its) /\ its \in newState \ reported
    <2>1. /\ its \in Buttons /\ Pending(report, its) /\ 1 \in DOMAIN report
          /\ report[1].do = "press" /\ report[1].of = its
      BY <1>0, <1>1, AfterStep DEF Button
    <2> QED
      BY <2>1 DEF ButtonInv, ReportOK
  <1>3. /\ report' \in Seq(ButtonSteps) /\ reported' \subseteq Buttons
        /\ report' = << >> => newState' = reported'
        /\ ReportOK(report)'
        /\ \A b \in Buttons :
               (b \in (IF Pending(report', b) THEN reported' ELSE newState'))
                   <=> b \in (IF b # its /\ Pending(report, b) THEN reported ELSE newState)
    BY <1>0, <1>1, OnwardIs
  <1>4. /\ \A b \in Buttons : /\ action[b] = [kind |-> action[b].kind, keys |-> action[b].keys,
                                    pressed |-> action[b].pressed, strayed |-> action[b].strayed]
                              /\ action[b].pressed \in BOOLEAN /\ action[b].strayed \in BOOLEAN
                              /\ action[b].pressed => action[b].kind \in Remembers
        /\ action = [b \in Buttons |-> action[b]]
    BY DEF ButtonInv, ButtonsOK
  <1> DEFINE knows == was.pressed \/ was.kind \in Remembers
  <1>5. /\ action' = [b \in Buttons |-> action'[b]]
        /\ \A b \in Buttons : b # its => action'[b] = action[b]
        /\ action'[its] = [kind |-> was.kind, keys |-> was.keys, pressed |-> knows,
                              strayed |-> was.strayed]
    BY <1>1, <1>2, <1>4
  <1>6. /\ action'[its].kind = was.kind /\ action'[its].keys = was.keys
        /\ action'[its].pressed = knows /\ action'[its].strayed = was.strayed
    BY <1>5
  <1>7. ButtonsOK'
    <2>1. \A b \in Buttons : /\ action'[b] = [kind |-> action'[b].kind, keys |-> action'[b].keys,
                                   pressed |-> action'[b].pressed, strayed |-> action'[b].strayed]
                             /\ action'[b].pressed \in BOOLEAN /\ action'[b].strayed \in BOOLEAN
                             /\ action'[b].pressed => action'[b].kind \in Remembers
      BY <1>4, <1>5, <1>6
    <2>2. action' = [b \in Buttons |-> [kind |-> action'[b].kind, keys |-> action'[b].keys,
                                       pressed |-> action'[b].pressed, strayed |-> action'[b].strayed]]
      BY <1>5, <2>1
    <2>3. /\ diverted' = [b \in Buttons |-> diverted'[b]] /\ newState' \subseteq Buttons
          /\ \A b, c \in calling' : b = c
      BY <1>1 DEF ButtonInv, ButtonsOK
    <2> QED
      BY <1>3, <2>1, <2>2, <2>3 DEF ButtonsOK
  <1>8. PressedSoFar(report)'
    <2> SUFFICES ASSUME NEW b \in Buttons \ replaced'
                 PROVE  /\ action'[b].kind \in Remembers =>
                              (action'[b].pressed
                                  <=> b \in (IF Pending(report', b) THEN reported' ELSE newState'))
                        /\ ~action'[b].strayed
      BY DEF PressedSoFar, Pending
    <2>1. b # its => b \notin replaced
      BY <1>1
    <2>2. CASE b = its
      BY <1>1, <1>2, <1>3, <1>6, <2>2 DEF ButtonInv, PressedSoFar
    <2>3. CASE b # its
      BY <1>3, <1>5, <2>1, <2>3 DEF ButtonInv, PressedSoFar
    <2> QED
      BY <2>2, <2>3
  <1>9. down' \subseteq Held' \cup orphaned' /\ Held' \subseteq down' \cup lost'
    <2>1. \A b \in Buttons : \A k : b # its => (Holds(b, k)' <=> Holds(b, k))
      BY <1>5 DEF Holds
    <2>2. \A k : Holds(its, k)' <=> k \in keys
      BY <1>6 DEF Holds, Remembers
    <2>3. \A k : Holds(its, k) => k \in keys
      BY DEF Holds
    <2> HIDE DEF keys
    <2>4. \A k : k \in Held' <=> k \in Held \/ k \in keys
      BY <1>2, <2>1, <2>2, <2>3, HeldIs
    <2> QED
      BY <1>1, <2>4 DEF ButtonInv
  <1>10. DivertedAsNeeded'
    <2>1. \A b \in Buttons : action'[b].kind = action[b].kind
      BY <1>2, <1>5, <1>6
    <2> QED
      BY <1>1, <2>1, SameKinds DEF ButtonInv
  <1> QED
    BY <1>3, <1>7, <1>8, <1>9, <1>10 DEF ButtonInv

\* A button is released.
LEMMA ButtonReleased ==
    ASSUME ButtonInv, releaseButton
    PROVE  ButtonInv'
  <1>0. PICK its : its = Button
    OBVIOUS
  <1> DEFINE was == action[its]
             keys == IF was.kind = "Keypress" THEN was.keys ELSE {}
  <1>1. /\ report # << >> /\ Head(report).do = "release" /\ Onward /\ Flips(Head(report))
        /\ action' = [action EXCEPT ![its].pressed = FALSE, ![its].strayed = FALSE]
        /\ down' = down \ keys /\ orphaned' = orphaned \ keys
        /\ lost' = (lost \ keys) \cup (keys \cap HeldByOthers(its))
        /\ replaced' = replaced \ {its}
        /\ UNCHANGED <<newState, diverted, calling, switching, unsettled>>
    BY <1>0 DEF releaseButton, ReportStep, Flips
  <1>2. /\ its \in Buttons /\ Pending(report, its) /\ its \in reported \ newState
    <2>1. /\ its \in Buttons /\ Pending(report, its) /\ 1 \in DOMAIN report
          /\ report[1].do = "release" /\ report[1].of = its
      BY <1>0, <1>1, AfterStep DEF Button
    <2> QED
      BY <2>1 DEF ButtonInv, ReportOK
  <1>3. /\ report' \in Seq(ButtonSteps) /\ reported' \subseteq Buttons
        /\ report' = << >> => newState' = reported'
        /\ ReportOK(report)'
        /\ \A b \in Buttons :
               (b \in (IF Pending(report', b) THEN reported' ELSE newState'))
                   <=> b \in (IF b # its /\ Pending(report, b) THEN reported ELSE newState)
    BY <1>0, <1>1, OnwardIs
  <1>4. /\ \A b \in Buttons : /\ action[b] = [kind |-> action[b].kind, keys |-> action[b].keys,
                                    pressed |-> action[b].pressed, strayed |-> action[b].strayed]
                              /\ action[b].pressed \in BOOLEAN /\ action[b].strayed \in BOOLEAN
                              /\ action[b].pressed => action[b].kind \in Remembers
        /\ action = [b \in Buttons |-> action[b]]
    BY DEF ButtonInv, ButtonsOK
  <1>5. /\ action' = [b \in Buttons |-> action'[b]]
        /\ \A b \in Buttons : b # its => action'[b] = action[b]
        /\ action'[its] = [kind |-> was.kind, keys |-> was.keys, pressed |-> FALSE,
                              strayed |-> FALSE]
    <2>1. /\ action' = [b \in Buttons |-> action'[b]]
          /\ \A b \in Buttons : b # its => action'[b] = action[b]
          /\ action'[its] = [[was EXCEPT !.pressed = FALSE] EXCEPT !.strayed = FALSE]
      BY <1>1, <1>2, <1>4
    <2>2. was = [kind |-> was.kind, keys |-> was.keys, pressed |-> was.pressed, strayed |-> was.strayed]
      BY <1>2, <1>4
    <2> QED
      BY <2>1, <2>2
  <1>6. /\ action'[its].kind = was.kind /\ action'[its].keys = was.keys
        /\ action'[its].pressed = FALSE /\ action'[its].strayed = FALSE
    BY <1>5
  <1>7. ButtonsOK'
    <2>1. \A b \in Buttons : /\ action'[b] = [kind |-> action'[b].kind, keys |-> action'[b].keys,
                                   pressed |-> action'[b].pressed, strayed |-> action'[b].strayed]
                             /\ action'[b].pressed \in BOOLEAN /\ action'[b].strayed \in BOOLEAN
                             /\ action'[b].pressed => action'[b].kind \in Remembers
      BY <1>4, <1>5, <1>6
    <2>2. action' = [b \in Buttons |-> [kind |-> action'[b].kind, keys |-> action'[b].keys,
                                       pressed |-> action'[b].pressed, strayed |-> action'[b].strayed]]
      BY <1>5, <2>1
    <2>3. /\ diverted' = [b \in Buttons |-> diverted'[b]] /\ newState' \subseteq Buttons
          /\ \A b, c \in calling' : b = c
      BY <1>1 DEF ButtonInv, ButtonsOK
    <2> QED
      BY <1>3, <2>1, <2>2, <2>3 DEF ButtonsOK
  <1>8. PressedSoFar(report)'
    <2> SUFFICES ASSUME NEW b \in Buttons \ replaced'
                 PROVE  /\ action'[b].kind \in Remembers =>
                              (action'[b].pressed
                                  <=> b \in (IF Pending(report', b) THEN reported' ELSE newState'))
                        /\ ~action'[b].strayed
      BY DEF PressedSoFar, Pending
    <2>1. b # its => b \notin replaced
      BY <1>1
    <2>2. CASE b = its
      BY <1>1, <1>2, <1>3, <1>6, <2>2 DEF ButtonInv, PressedSoFar
    <2>3. CASE b # its
      BY <1>3, <1>5, <2>1, <2>3 DEF ButtonInv, PressedSoFar
    <2> QED
      BY <2>2, <2>3
  <1>9. down' \subseteq Held' \cup orphaned' /\ Held' \subseteq down' \cup lost'
    <2>1. \A b \in Buttons : \A k : b # its => (Holds(b, k)' <=> Holds(b, k))
      BY <1>5 DEF Holds
    <2>2. \A k : ~Holds(its, k)'
      BY <1>6 DEF Holds
    <2>3. \A k : Holds(its, k) => k \in keys
      BY DEF Holds
    <2>4. \A k : k \in HeldByOthers(its) <=> \E b \in Buttons \ {its} : Holds(b, k)
      BY DEF HeldByOthers, Holds
    <2> HIDE DEF keys
    <2>5. \A k : k \in Held' <=> k \in HeldByOthers(its)
      BY <2>1, <2>2, <2>4, HeldIs
    <2>6. \A k : k \in HeldByOthers(its) => k \in Held
      BY <2>4, HeldIs
    <2>7. \A k : k \in Held => k \in HeldByOthers(its) \/ k \in keys
      BY <2>3, <2>4, HeldIs
    <2> QED
      BY <1>1, <2>5, <2>6, <2>7 DEF ButtonInv
  <1>10. DivertedAsNeeded'
    <2>1. \A b \in Buttons : action'[b].kind = action[b].kind
      BY <1>2, <1>5, <1>6
    <2> QED
      BY <1>1, <2>1, SameKinds DEF ButtonInv
  <1> QED
    BY <1>3, <1>7, <1>8, <1>9, <1>10 DEF ButtonInv


\* An action is asked whether it is pressed.
LEMMA ButtonAsked ==
    ASSUME ButtonInv, askPressed
    PROVE  ButtonInv'
  <1>0. PICK its : its = Button
    OBVIOUS
  <1>1. /\ report # << >> /\ Head(report).do = "ask" /\ ~Flips(Head(report))
        /\ report' = (IF action[its].pressed THEN Each("move", {its}) ELSE << >>) \o Tail(report)
        /\ UNCHANGED <<newState, action, reported, diverted, calling, switching, down, replaced,
                       orphaned, lost, unsettled>>
    BY <1>0 DEF askPressed, ReportStep, Flips
  <1>2. /\ its \in Buttons /\ 1 \in DOMAIN report /\ Head(report) = report[1]
        /\ Tail(report) \in Seq(ButtonSteps) /\ ReportOK(Tail(report))
        /\ \A b \in Buttons : Pending(Tail(report), b) <=> Pending(report, b)
    BY <1>0, <1>1, AfterStep
  <1>3. newState = reported
    BY <1>1, <1>2 DEF ButtonInv, ReportOK
  <1>4. CASE ~action[its].pressed
    <2>1. report' = Tail(report)
      BY <1>1, <1>2, <1>4
    <2>2. ButtonsOK'
      BY <1>1, <1>2, <2>1 DEF ButtonInv, ButtonsOK
    <2>3. ReportOK(report)'
      BY <1>1, <1>2, <2>1 DEF ReportOK
    <2>4. PressedSoFar(report)'
      BY <1>1, <1>3 DEF ButtonInv, PressedSoFar
    <2>5. Held' = Held /\ DivertedAsNeeded'
      BY <1>1 DEF Held, ButtonInv, DivertedAsNeeded
    <2> QED
      BY <1>1, <1>3, <2>2, <2>3, <2>4, <2>5 DEF ButtonInv
  <1>5. CASE action[its].pressed
    <2> DEFINE moving == Each("move", {its})
    <2>1. /\ moving \in Seq([do : {"move"}, of : {its}])
          /\ \A n \in DOMAIN moving : moving[n].of = its /\ moving[n].do = "move"
      <3>1. IsFiniteSet({its}) /\ {its} \subseteq Nat
        BY <1>2, FS_Singleton, ControlsAssumption
      <3> QED
        BY <3>1, EachIs
    <2>2. [do : {"move"}, of : {its}] \subseteq ButtonSteps
      BY <1>2 DEF ButtonSteps
    <2>3. moving \in Seq(ButtonSteps)
      <3>1. ASSUME NEW S, S \subseteq ButtonSteps, NEW s \in Seq(S) PROVE s \in Seq(ButtonSteps)
        BY <3>1
      <3> QED
        BY <2>1, <2>2, <3>1
    <2>4. report' = moving \o Tail(report)
      BY <1>1, <1>5
    <2> HIDE DEF moving
    <2>5. /\ report' \in Seq(ButtonSteps)
          /\ \A n \in DOMAIN report' : \/ n \in DOMAIN moving /\ report'[n] = moving[n]
                                       \/ /\ n - Len(moving) \in DOMAIN Tail(report)
                                          /\ report'[n] = Tail(report)[n - Len(moving)]
      BY <1>2, <2>3, <2>4
    <2>6. \A n \in DOMAIN Tail(report) : ~Flips(Tail(report)[n])
      BY <1>2, <1>3 DEF ReportOK, Flips
    <2>7. \A n \in DOMAIN report' : /\ ~Flips(report'[n])
                                    /\ report'[n].do = "move" =>
                                           report'[n].of \in replaced \/ action[report'[n].of].pressed
      <3>1. \A n \in DOMAIN Tail(report) : Tail(report)[n].do = "move" =>
                Tail(report)[n].of \in replaced \/ action[Tail(report)[n].of].pressed
        BY <1>2 DEF ReportOK
      <3>2. \A n \in DOMAIN moving : ~Flips(moving[n])
        BY <2>1 DEF Flips
      <3> QED
        BY <1>5, <2>1, <2>5, <2>6, <3>1, <3>2
    <2>8. ButtonsOK'
      BY <1>1, <2>5, Zenon DEF ButtonInv, ButtonsOK
    <2>9. ReportOK(report)'
      BY <1>1, <1>3, <2>7 DEF ReportOK, Flips
    <2>10. PressedSoFar(report)'
      BY <1>1, <1>3 DEF ButtonInv, PressedSoFar
    <2>11. Held' = Held /\ DivertedAsNeeded'
      BY <1>1 DEF Held, ButtonInv, DivertedAsNeeded
    <2> QED
      BY <1>1, <1>3, <2>8, <2>9, <2>10, <2>11 DEF ButtonInv
  <1> QED
    BY <1>4, <1>5

\* An action is moved.
LEMMA ButtonMoved ==
    ASSUME ButtonInv, moveButton
    PROVE  ButtonInv'
  <1>0. PICK its : its = Button
    OBVIOUS
  <1> DEFINE was == action[its]
             astray == was.strayed \/ ~was.pressed
  <1>1. /\ report # << >> /\ Head(report).do = "move" /\ ~Flips(Head(report)) /\ Onward
        /\ \/ action' = [action EXCEPT ![its].strayed = @ \/ ~was.pressed]
           \/ action' = action
        /\ UNCHANGED <<newState, diverted, calling, switching, down, replaced,
                       orphaned, lost, unsettled>>
    BY <1>0 DEF moveButton, ReportStep, Flips
  <1>2. /\ its \in Buttons /\ 1 \in DOMAIN report /\ Head(report) = report[1] /\ report[1].of = its
        /\ Tail(report) \in Seq(ButtonSteps) /\ ReportOK(Tail(report))
        /\ \A b \in Buttons : Pending(Tail(report), b) <=> Pending(report, b)
    BY <1>0, <1>1, AfterStep DEF Button
  <1>3. newState = reported /\ report' = Tail(report) /\ reported' = reported
    BY <1>1, <1>2 DEF ButtonInv, ReportOK, Onward
  <1>4. its \in replaced \/ was.pressed
    BY <1>1, <1>2 DEF ButtonInv, ReportOK
  <1>5. /\ \A b \in Buttons : /\ action[b] = [kind |-> action[b].kind, keys |-> action[b].keys,
                                    pressed |-> action[b].pressed, strayed |-> action[b].strayed]
                              /\ action[b].pressed \in BOOLEAN /\ action[b].strayed \in BOOLEAN
                              /\ action[b].pressed => action[b].kind \in Remembers
        /\ action = [b \in Buttons |-> action[b]]
    BY DEF ButtonInv, ButtonsOK
  <1>6. /\ action' = [b \in Buttons |-> action'[b]]
        /\ \A b \in Buttons : b # its => action'[b] = action[b]
        /\ \/ action'[its] = was
           \/ action'[its] = [kind |-> was.kind, keys |-> was.keys, pressed |-> was.pressed,
                              strayed |-> astray]
    BY <1>1, <1>2, <1>5
  <1>7. \A b \in Buttons : /\ action'[b].kind = action[b].kind /\ action'[b].keys = action[b].keys
                           /\ action'[b].pressed = action[b].pressed
                           /\ b # its \/ was.pressed => action'[b].strayed = action[b].strayed
    BY <1>5, <1>6
  <1>8. ButtonsOK'
    <2>1. \A b \in Buttons : /\ action'[b] = [kind |-> action'[b].kind, keys |-> action'[b].keys,
                                   pressed |-> action'[b].pressed, strayed |-> action'[b].strayed]
                             /\ action'[b].pressed \in BOOLEAN /\ action'[b].strayed \in BOOLEAN
      <3>1. \A b \in Buttons : b # its => action'[b] = action[b]
        BY <1>6
      <3>2. astray \in BOOLEAN /\ was.pressed \in BOOLEAN /\ was.strayed \in BOOLEAN
        BY <1>2, <1>5
      <3> HIDE DEF astray
      <3>3. CASE action'[its] = was
        BY <1>5, <3>1, <3>3
      <3>4. CASE action'[its] = [kind |-> was.kind, keys |-> was.keys, pressed |-> was.pressed,
                                 strayed |-> astray]
        BY <1>5, <3>1, <3>2, <3>4
      <3> QED
        BY <1>6, <3>3, <3>4
    <2>2. \A b \in Buttons : action'[b].pressed => action'[b].kind \in Remembers
      BY <1>5, <1>7
    <2> QED
      BY <1>1, <1>2, <1>3, <1>6, <2>1, <2>2 DEF ButtonInv, ButtonsOK
  <1>9. ReportOK(report)'
    <2>1. \A n \in DOMAIN Tail(report) : Tail(report)[n].of \in Buttons
      <3>1. \A s \in Seq(ButtonSteps) : \A n \in DOMAIN s : s[n] \in ButtonSteps
        OBVIOUS
      <3>2. \A step \in ButtonSteps : step.of \in Buttons
        BY DEF ButtonSteps
      <3> QED
        BY <1>2, <3>1, <3>2
    <2>2. \A n \in DOMAIN Tail(report) : Tail(report)[n].do = "move" =>
              Tail(report)[n].of \in replaced' \/ action'[Tail(report)[n].of].pressed
      BY <1>1, <1>2, <1>7, <2>1 DEF ReportOK
    <2> QED
      BY <1>1, <1>2, <1>3, <2>2 DEF ReportOK
  <1>10. PressedSoFar(report)'
    BY <1>1, <1>3, <1>4, <1>7 DEF ButtonInv, PressedSoFar
  <1>11. Held' = Held
    <2>1. \A b \in Buttons : \A k : Holds(b, k)' <=> Holds(b, k)
      BY <1>7 DEF Holds
    <2>2. \A k : k \in Held' <=> k \in Held
      BY <2>1, HeldIs
    <2> QED
      BY <2>2
  <1>12. DivertedAsNeeded'
    BY <1>1, <1>7, SameKinds DEF ButtonInv
  <1> QED
    BY <1>1, <1>3, <1>8, <1>9, <1>10, <1>11, <1>12 DEF ButtonInv


\* Actions are replaced: what they hold is left to the keys of actions that are gone.
LEMMA Replaced ==
    ASSUME ButtonInv, NEW set \in SUBSET Buttons, NEW entry, Replace(set, entry),
           UNCHANGED <<reported, report, newState, diverted>>, \A b, c \in calling' : b = c
    PROVE  /\ ButtonsOK' /\ ReportOK(report)' /\ PressedSoFar(report)'
           /\ down' \subseteq Held' \cup orphaned' /\ Held' \subseteq down' \cup lost'
           /\ \A b \in Buttons \ set : action'[b] = action[b]
  <1>1. /\ action' = [b \in Buttons |-> IF b \in set THEN Act(entry[b]) ELSE action[b]]
        /\ down' = down \/ down' = {}
        /\ replaced' = replaced \cup (set \cap (reported \cup newState))
        /\ orphaned' = (orphaned \cup UNION {KeysHeld(b) : b \in set}) \cap down'
        /\ lost' = lost \cup (down \ down')
    BY DEF Replace, Register
  <1>2. /\ \A b \in Buttons \ set : action'[b] = action[b]
        /\ \A b \in set : action'[b] = Act(entry[b])
        /\ action' = [b \in Buttons |-> action'[b]]
    BY <1>1
  <1>3. \A b \in set : /\ action'[b].pressed = FALSE /\ action'[b].strayed = FALSE
                       /\ action'[b] = [kind |-> action'[b].kind, keys |-> action'[b].keys,
                                        pressed |-> FALSE, strayed |-> FALSE]
    <2> SUFFICES ASSUME NEW b \in set
                 PROVE  /\ action'[b].pressed = FALSE /\ action'[b].strayed = FALSE
                        /\ action'[b] = [kind |-> action'[b].kind, keys |-> action'[b].keys,
                                         pressed |-> FALSE, strayed |-> FALSE]
      BY Zenon
    <2> DEFINE e == entry[b]
    <2>1. action'[b] = [kind |-> e.kind, keys |-> e.keys, pressed |-> FALSE, strayed |-> FALSE]
      BY <1>2 DEF Act
    <2> HIDE DEF e
    <2> QED
      BY <2>1
  <1>4. /\ \A b \in Buttons : /\ action[b] = [kind |-> action[b].kind, keys |-> action[b].keys,
                                    pressed |-> action[b].pressed, strayed |-> action[b].strayed]
                              /\ action[b].pressed \in BOOLEAN /\ action[b].strayed \in BOOLEAN
                              /\ action[b].pressed => action[b].kind \in Remembers
        /\ action = [b \in Buttons |-> action[b]]
    BY DEF ButtonInv, ButtonsOK
  <1>5. ButtonsOK'
    <2>1. \A b \in set : /\ action'[b] = [kind |-> action'[b].kind, keys |-> action'[b].keys,
                               pressed |-> action'[b].pressed, strayed |-> action'[b].strayed]
                         /\ action'[b].pressed \in BOOLEAN /\ action'[b].strayed \in BOOLEAN
                         /\ action'[b].pressed => action'[b].kind \in Remembers
      BY <1>3
    <2>2. \A b \in Buttons \ set :
              /\ action'[b] = [kind |-> action'[b].kind, keys |-> action'[b].keys,
                               pressed |-> action'[b].pressed, strayed |-> action'[b].strayed]
              /\ action'[b].pressed \in BOOLEAN /\ action'[b].strayed \in BOOLEAN
              /\ action'[b].pressed => action'[b].kind \in Remembers
      BY <1>2, <1>4
    <2> QED
      BY <1>2, <2>1, <2>2 DEF ButtonInv, ButtonsOK
  <1>6. ReportOK(report)'
    <2>1. ASSUME NEW n \in DOMAIN report, report[n].do = "move"
          PROVE  report[n].of \in replaced' \/ action'[report[n].of].pressed
      <3>1. report[n].of \in replaced \/ action[report[n].of].pressed
        BY <2>1 DEF ButtonInv, ReportOK
      <3>2. newState = reported /\ ~Flips(report[n])
        BY <2>1 DEF ButtonInv, ReportOK, Flips
      <3>3. report[n].of \in Buttons
        <4>1. \A s \in Seq(ButtonSteps) : \A m \in DOMAIN s : s[m] \in ButtonSteps
          OBVIOUS
        <4>2. \A step \in ButtonSteps : step.of \in Buttons
          BY DEF ButtonSteps
        <4> QED
          BY <4>1, <4>2 DEF ButtonInv, ButtonsOK
      <3>4. CASE report[n].of \in replaced
        BY <1>1, <3>4
      <3>5. CASE report[n].of \notin replaced
        <4>1. report[n].of \in reported
          BY <1>4, <3>1, <3>2, <3>3, <3>5 DEF ButtonInv, PressedSoFar
        <4> QED
          BY <1>1, <1>2, <3>1, <3>3, <4>1
      <3> QED
        BY <3>4, <3>5
    <2> QED
      BY <2>1 DEF ButtonInv, ReportOK
  <1>7. PressedSoFar(report)'
    <2> SUFFICES ASSUME NEW b \in Buttons \ replaced'
                 PROVE  /\ action'[b].kind \in Remembers =>
                              (action'[b].pressed
                                  <=> b \in (IF Pending(report, b) THEN reported ELSE newState))
                        /\ ~action'[b].strayed
      BY DEF PressedSoFar, Pending
    <2>1. b \notin replaced /\ (b \in set => b \notin reported /\ b \notin newState)
      BY <1>1
    <2>2. CASE b \in set
      BY <1>3, <2>1, <2>2
    <2>3. CASE b \notin set
      BY <1>2, <2>1, <2>3 DEF ButtonInv, PressedSoFar
    <2> QED
      BY <2>2, <2>3
  <1>8. down' \subseteq Held' \cup orphaned' /\ Held' \subseteq down' \cup lost'
    <2>1. \A b \in Buttons \ set : \A k : Holds(b, k)' <=> Holds(b, k)
      BY <1>2 DEF Holds
    <2>2. \A b \in set : \A k : ~Holds(b, k)'
      BY <1>3 DEF Holds
    <2>3. \A b \in set : \A k : Holds(b, k) /\ k \in down => k \in KeysHeld(b)
      BY DEF Holds, KeysHeld
    <2>4. \A k : k \in Held' => k \in Held
      BY <2>1, <2>2, HeldIs
    <2>5. \A k : k \in Held /\ k \in down => k \in Held' \/ \E b \in set : k \in KeysHeld(b)
      BY <2>1, <2>3, HeldIs
    <2>6. down' \subseteq Held' \cup orphaned'
      <3> SUFFICES ASSUME NEW k \in down', k \notin Held' PROVE k \in orphaned'
        OBVIOUS
      <3>1. k \in down
        BY <1>1
      <3>2. k \in orphaned \/ k \in UNION {KeysHeld(b) : b \in set}
        BY <2>5, <3>1 DEF ButtonInv
      <3> QED
        BY <1>1, <3>2
    <2>7. Held' \subseteq down' \cup lost'
      BY <1>1, <2>4 DEF ButtonInv
    <2> QED
      BY <2>6, <2>7
  <1> QED
    BY <1>2, <1>5, <1>6, <1>7, <1>8

\* The bus replaces an action.
LEMMA ActionSet ==
    ASSUME ButtonInv, NEW b \in Buttons, NEW kind, setButtonAction(b, kind)
    PROVE  ButtonInv'
  <1>1. UNCHANGED <<reported, report, newState, diverted, switching>> /\ calling = {}
    BY DEF setButtonAction, Changes
  <1>2. /\ \E entry : Replace({b}, entry)
        /\ \/ calling' = {b} /\ unsettled' = unsettled
           \/ calling' = {} /\ unsettled' = unsettled \cup {b}
    <2>1. CASE kind \in ActionKinds
      <3> DEFINE made == [c \in {b} |-> Entry(kind, {})]
      <3>1. Replace({b}, made) /\ calling' = {b} /\ unsettled' = unsettled
        BY <2>1 DEF setButtonAction
      <3> HIDE DEF made
      <3> QED
        BY <3>1
    <2>2. CASE kind \notin ActionKinds
      <3> DEFINE made == [c \in {b} |-> Entry("Default", {})]
      <3>1. /\ Replace({b}, made)
            /\ calling' = calling /\ unsettled' = unsettled \cup {b}
        BY <2>2 DEF setButtonAction
      <3> HIDE DEF made
      <3> QED
        BY <1>1, <3>1
    <2> QED
      BY <2>1, <2>2
  <1>3. PICK entry : Replace({b}, entry)
    BY <1>2
  <1>4. {b} \in SUBSET Buttons /\ \A c, d \in calling' : c = d
    BY <1>2
  <1>5. /\ ButtonsOK' /\ ReportOK(report)' /\ PressedSoFar(report)'
        /\ down' \subseteq Held' \cup orphaned' /\ Held' \subseteq down' \cup lost'
        /\ \A c \in Buttons \ {b} : action'[c] = action[c]
    BY <1>1, <1>3, <1>4, Replaced
  <1>6. DivertedAsNeeded'
    <2> SUFFICES ASSUME NEW c \in Buttons, c \notin calling' \cup switching' \cup unsettled'
                 PROVE  diverted'[c] = reprogFlags(action'[c])
      BY DEF DivertedAsNeeded, reprogFlags
    <2>1. c # b /\ c \notin calling \cup switching \cup unsettled
      BY <1>1, <1>2
    <2> QED
      BY <1>1, <1>5, <2>1 DEF ButtonInv, DivertedAsNeeded
  <1> QED
    BY <1>1, <1>5, <1>6 DEF ButtonInv

\* The worker switches to another profile.
LEMMA ProfileSet ==
    ASSUME ButtonInv, NEW p, setButtonProfile(p)
    PROVE  ButtonInv'
  <1>1. /\ UNCHANGED <<reported, report, newState, diverted, calling, unsettled>>
        /\ Replace(Buttons, profilesOf[p]) /\ switching' = Buttons
    BY DEF setButtonProfile, Changes
  <1>2. \A b, c \in calling' : b = c
    BY <1>1 DEF ButtonInv, ButtonsOK
  <1>3. /\ ButtonsOK' /\ ReportOK(report)' /\ PressedSoFar(report)'
        /\ down' \subseteq Held' \cup orphaned' /\ Held' \subseteq down' \cup lost'
    BY <1>1, <1>2, Replaced
  <1>4. DivertedAsNeeded'
    BY <1>1 DEF DivertedAsNeeded
  <1> QED
    BY <1>1, <1>3, <1>4 DEF ButtonInv

\* The bus sets the keys of an action.
LEMMA KeysSet ==
    ASSUME ButtonInv, NEW b \in Buttons, NEW keys, setKeys(b, keys)
    PROVE  ButtonInv'
  <1> DEFINE was == action[b]
             let == IF was.pressed THEN was.keys ELSE {}
  <1>1. /\ was.kind = "Keypress" /\ action' = [action EXCEPT ![b].keys = keys]
        /\ down' = down \ let \/ down' = {}
        /\ orphaned' = (orphaned \ let) \cap down'
        /\ lost' = (lost \cup (down \ down')) \cup (IF was.pressed THEN keys ELSE {})
        /\ UNCHANGED <<reported, report, newState, diverted, calling, switching, replaced, unsettled>>
    BY DEF setKeys, Changes
  <1>2. /\ \A c \in Buttons : /\ action[c] = [kind |-> action[c].kind, keys |-> action[c].keys,
                                    pressed |-> action[c].pressed, strayed |-> action[c].strayed]
                              /\ action[c].pressed \in BOOLEAN /\ action[c].strayed \in BOOLEAN
                              /\ action[c].pressed => action[c].kind \in Remembers
        /\ action = [c \in Buttons |-> action[c]]
    BY DEF ButtonInv, ButtonsOK
  <1>3. /\ action' = [c \in Buttons |-> action'[c]]
        /\ \A c \in Buttons : c # b => action'[c] = action[c]
        /\ action'[b] = [kind |-> was.kind, keys |-> keys, pressed |-> was.pressed,
                         strayed |-> was.strayed]
    BY <1>1, <1>2
  <1>4. /\ action'[b].kind = was.kind /\ action'[b].keys = keys
        /\ action'[b].pressed = was.pressed /\ action'[b].strayed = was.strayed
    BY <1>3
  <1>5. \A c \in Buttons : /\ action'[c].kind = action[c].kind /\ action'[c].pressed = action[c].pressed
                           /\ action'[c].strayed = action[c].strayed
    BY <1>3, <1>4
  <1>6. ButtonsOK'
    <2>1. \A c \in Buttons : action'[c] = [kind |-> action'[c].kind, keys |-> action'[c].keys,
                                   pressed |-> action'[c].pressed, strayed |-> action'[c].strayed]
      BY <1>2, <1>3, <1>4
    <2>2. \A c \in Buttons : /\ action'[c].pressed \in BOOLEAN /\ action'[c].strayed \in BOOLEAN
                             /\ action'[c].pressed => action'[c].kind \in Remembers
      BY <1>2, <1>5
    <2> QED
      BY <1>1, <1>3, <2>1, <2>2, Zenon DEF ButtonInv, ButtonsOK
  <1>7. ReportOK(report)'
    <2>1. \A n \in DOMAIN report : report[n].of \in Buttons
      <3>1. \A s \in Seq(ButtonSteps) : \A n \in DOMAIN s : s[n] \in ButtonSteps
        OBVIOUS
      <3>2. \A step \in ButtonSteps : step.of \in Buttons
        BY DEF ButtonSteps
      <3> QED
        BY <3>1, <3>2 DEF ButtonInv, ButtonsOK
    <2>2. \A n \in DOMAIN report : report[n].do = "move" =>
              report[n].of \in replaced' \/ action'[report[n].of].pressed
      BY <1>1, <1>5, <2>1 DEF ButtonInv, ReportOK
    <2> QED
      BY <1>1, <2>2 DEF ButtonInv, ReportOK
  <1>8. PressedSoFar(report)'
    BY <1>1, <1>5 DEF ButtonInv, PressedSoFar, Pending
  <1>9. down' \subseteq Held' \cup orphaned' /\ Held' \subseteq down' \cup lost'
    <2>1. \A c \in Buttons \ {b} : \A k : Holds(c, k)' <=> Holds(c, k)
      BY <1>3 DEF Holds
    <2>2. \A k : /\ Holds(b, k)' => was.pressed /\ k \in keys
                 /\ Holds(b, k) => k \in let
      BY <1>4 DEF Holds
    <2> HIDE DEF let
    <2>3. \A k : k \in Held' => k \in Held \/ (was.pressed /\ k \in keys)
      BY <2>1, <2>2, HeldIs
    <2>4. \A k : k \in Held /\ k \notin let => k \in Held'
      BY <2>1, <2>2, HeldIs
    <2>5. down' \subseteq Held' \cup orphaned'
      BY <1>1, <2>4 DEF ButtonInv
    <2>6. Held' \subseteq down' \cup lost'
      BY <1>1, <2>3 DEF ButtonInv
    <2> QED
      BY <2>5, <2>6
  <1>10. DivertedAsNeeded'
    BY <1>1, <1>5, SameKinds DEF ButtonInv
  <1> QED
    BY <1>1, <1>6, <1>7, <1>8, <1>9, <1>10 DEF ButtonInv

\* What configures leaves buttons, keys and reports alone.
LEMMA OnlyDiverts ==
    ASSUME ButtonInv, UNCHANGED <<action, reported, report, newState, down, replaced, orphaned, lost>>,
           \A b, c \in calling' : b = c, diverted' = [b \in Buttons |-> diverted'[b]],
           DivertedAsNeeded'
    PROVE  ButtonInv'
  <1>1. ButtonsOK'
    BY DEF ButtonInv, ButtonsOK
  <1>2. ReportOK(report)' /\ PressedSoFar(report)' /\ Held' = Held
    BY DEF ButtonInv, ReportOK, PressedSoFar, Pending, Held
  <1> QED
    BY <1>1, <1>2 DEF ButtonInv


\* A device that was reset, and each transfer that configures a control.
LEMMA ControlsConfigured ==
    ASSUME ButtonInv,
           resetAndConfigure \/ \E done \in BOOLEAN : configureCalled(done) \/ configureSwitched(done)
    PROVE  ButtonInv'
  <1>0. /\ diverted = [b \in Buttons |-> diverted[b]] /\ DivertedAsNeeded
        /\ \A b, c \in calling : b = c
    BY DEF ButtonInv, ButtonsOK
  <1>1. CASE resetAndConfigure
    <2>1. /\ UNCHANGED <<action, reported, report, newState, down, replaced, orphaned, lost, calling>>
          /\ diverted' = [b \in Buttons |-> "no"] /\ switching' = Buttons
      BY <1>1 DEF resetAndConfigure, Changes
    <2>2. DivertedAsNeeded'
      BY <2>1 DEF DivertedAsNeeded
    <2>3. diverted' = [b \in Buttons |-> diverted'[b]]
      BY <2>1
    <2> QED
      BY <1>0, <2>1, <2>2, <2>3, OnlyDiverts
  <1>2. ASSUME NEW b, NEW done \in BOOLEAN, configureButton(b, done)
        PROVE  /\ UNCHANGED <<action, reported, report, newState, down, replaced, orphaned, lost>>
               /\ diverted' = [c \in Buttons |-> diverted'[c]]
               /\ \A c \in Buttons : c # b => diverted'[c] = diverted[c]
               /\ done /\ b \in Buttons => diverted'[b] = reprogFlags(action[b])
               /\ ~done => diverted' = diverted
    BY <1>0, <1>2 DEF configureButton
  <1>3. ASSUME NEW done \in BOOLEAN, configureCalled(done) PROVE ButtonInv'
    <2>1. PICK b \in calling :
              /\ configureButton(b, done) /\ calling' = {} /\ switching' = switching
              /\ unsettled' = IF done THEN unsettled \ {b} ELSE unsettled \cup {b}
      BY <1>3 DEF configureCalled
    <2>2. calling \subseteq {b}
      BY <1>0
    <2>3. DivertedAsNeeded'
      <3> SUFFICES ASSUME NEW c \in Buttons, c \notin calling' \cup switching' \cup unsettled'
                   PROVE  diverted'[c] = reprogFlags(action'[c])
        BY DEF DivertedAsNeeded, reprogFlags
      <3>1. CASE c = b
        BY <1>2, <2>1, <3>1
      <3>2. CASE c # b
        BY <1>0, <1>2, <2>1, <2>2, <3>2 DEF DivertedAsNeeded
      <3> QED
        BY <3>1, <3>2
    <2> QED
      BY <1>2, <2>1, <2>3, OnlyDiverts
  <1>4. ASSUME NEW done \in BOOLEAN, configureSwitched(done) PROVE ButtonInv'
    <2>1. PICK b : /\ configureButton(b, done) /\ calling' = calling
                   /\ switching' = IF done THEN switching \ {b} ELSE {}
                   /\ unsettled' = IF done THEN unsettled \ {b} ELSE unsettled \cup switching
      BY <1>4 DEF configureSwitched
    <2>2. DivertedAsNeeded'
      <3> SUFFICES ASSUME NEW c \in Buttons, c \notin calling' \cup switching' \cup unsettled'
                   PROVE  diverted'[c] = reprogFlags(action'[c])
        BY DEF DivertedAsNeeded, reprogFlags
      <3>1. CASE done /\ c = b
        BY <1>2, <2>1, <3>1
      <3>2. CASE done /\ c # b
        BY <1>0, <1>2, <2>1, <3>2 DEF DivertedAsNeeded
      <3>3. CASE ~done
        BY <1>0, <1>2, <2>1, <3>3 DEF DivertedAsNeeded
      <3> QED
        BY <3>1, <3>2, <3>3
    <2> QED
      BY <1>0, <1>2, <2>1, <2>2, OnlyDiverts
  <1> QED
    BY <1>1, <1>3, <1>4

\* Every step keeps the invariant.
LEMMA ButtonsStep ==
    ASSUME ButtonInv, [ButtonNext]_buttonVars
    PROVE  ButtonInv'
  <1>1. CASE \E state \in SUBSET Buttons : _buttonEvent(state)
    BY <1>1, ButtonReport
  <1>2. CASE divertedRawXYEvent \/ pressButton \/ releaseButton \/ askPressed \/ moveButton
    BY <1>2, MovementReport, ButtonPressed, ButtonReleased, ButtonAsked, ButtonMoved
  <1>3. CASE \E b \in Buttons : \/ \E kind \in ActionKinds \cup {"unknown"} : setButtonAction(b, kind)
                                \/ \E keys \in NewKeys : setKeys(b, keys)
    BY <1>3, ActionSet, KeysSet
  <1>4. CASE \E p \in DOMAIN profilesOf : setButtonProfile(p)
    BY <1>4, ProfileSet
  <1>5. CASE resetAndConfigure \/ \E done \in BOOLEAN : configureCalled(done) \/ configureSwitched(done)
    BY <1>5, ControlsConfigured
  <1>6. CASE UNCHANGED buttonVars
    <2>1. UNCHANGED <<action, reported, report, newState, diverted, calling, switching, down,
                      replaced, orphaned, lost, unsettled>>
      BY <1>6 DEF buttonVars
    <2>2. \A b, c \in calling' : b = c
      BY <2>1 DEF ButtonInv, ButtonsOK
    <2>3. diverted' = [b \in Buttons |-> diverted'[b]]
      BY <2>1 DEF ButtonInv, ButtonsOK
    <2>4. DivertedAsNeeded'
      BY <2>1, SameKinds DEF ButtonInv
    <2> QED
      BY <2>1, <2>2, <2>3, <2>4, OnlyDiverts
  <1> QED
    BY <1>1, <1>2, <1>3, <1>4, <1>5, <1>6 DEF ButtonNext

\* The three of a button always agree: between reports an action knows whether its
\* button is pressed, the keys that are down are those of pressed actions and each
\* control is diverted as its action needs, however the reader's steps, the bus'
\* changes and the worker's switches interleave (RemapButton.cpp,
\* KeypressAction.cpp).
THEOREM ButtonsAlwaysAgree == ButtonSpec => []ButtonsAgree
  <1>1. ButtonInv => ButtonsAgree
    <2> SUFFICES ASSUME ButtonInv PROVE ButtonsAgree
      OBVIOUS
    <2>1. PressedIsReported
      BY DEF ButtonInv, PressedSoFar, PressedIsReported
    <2>2. KeysAreHeld
      BY DEF ButtonInv, KeysAreHeld, Held
    <2> QED
      BY <2>1, <2>2 DEF ButtonInv, ButtonsAgree
  <1> QED
    BY <1>1, ButtonsInitially, ButtonsStep, PTL DEF ButtonSpec

-----------------------------------------------------------------------------
(* The configuration file                                                   *)

\* A profile that a save can write: no wrong type is kept of what was loaded.
ProfileKept(p) ==
    /\ p = [dpi |-> p.dpi, presets |-> p.presets]
    /\ p.dpi # "other"
    /\ \A l \in p.presets : LoadList(l) = l

\* A device that a save can write: names, and what makes it a device again or
\* a profile alone.
DeviceKept(d) ==
    /\ d = [kind |-> d.kind, default |-> d.default, profiles |-> d.profiles]
    /\ d.profiles = [s \in DOMAIN d.profiles |-> d.profiles[s]]
    /\ IsFiniteSet(DOMAIN d.profiles) /\ "missing" \notin DOMAIN d.profiles
    /\ \A s \in DOMAIN d.profiles : ProfileKept(d.profiles[s])
    /\ d.kind = "device" => d.default # "missing"
    /\ d.kind # "device" => /\ d.kind = "profile" /\ d.default = FirstSection
                            /\ DOMAIN d.profiles = {FirstSection}

\* Settings of the daemon that a save can write.
Kept(m) ==
    /\ m = [devices |-> m.devices, ignore |-> m.ignore]
    /\ m.devices = [n \in DOMAIN m.devices |-> m.devices[n]]
    /\ IsFiniteSet(DOMAIN m.devices) /\ "missing" \notin DOMAIN m.devices
    /\ \A n \in DOMAIN m.devices : DeviceKept(m.devices[n])

\* A device that was added is one in the settings.
AddedAreDevices ==
    \A n \in added : n \in DOMAIN memory.devices /\ memory.devices[n].kind = "device"

\* What a save took from memory is what its file says, while it is written in
\* the settings that are written to it.
FileInv ==
    /\ Kept(memory) /\ Kept(Load(tree)) /\ Kept(Load(file))
    /\ AddedAreDevices
    /\ process \notin {"on", "writing"} => added = {}
    /\ process = "writing" => \A m \in written : Load(tree) = m
    /\ ~torn => \A m \in written : Load(file) = m

\* The elements up to and with i.
UpTo(S, i) == {j \in S : j <= i}

\* Every rank of a finite set of numbers is the rank of an element.
LEMMA RankThere ==
    ASSUME NEW S, S \subseteq Nat, IsFiniteSet(S), NEW k \in 1 .. Cardinality(S)
    PROVE  \E i \in S : Cardinality(UpTo(S, i)) = k
  <1> DEFINE C    == Cardinality(S)
             rank == [i \in S |-> Cardinality(UpTo(S, i))]
  <1>1. C \in Nat
    BY FS_CardinalityType
  <1>2. \A i \in S : IsFiniteSet(UpTo(S, i)) /\ Cardinality(UpTo(S, i)) \in 1 .. C
    <2> TAKE i \in S
    <2>1. UpTo(S, i) \in SUBSET S /\ UpTo(S, i) # {}
      <3>1. i <= i
        OBVIOUS
      <3> QED
        BY <3>1, Zenon DEF UpTo
    <2>2. IsFiniteSet(UpTo(S, i)) /\ Cardinality(UpTo(S, i)) <= C
      BY <2>1, FS_Subset
    <2>3. Cardinality(UpTo(S, i)) \in Nat /\ Cardinality(UpTo(S, i)) # 0
      BY <2>1, <2>2, FS_CardinalityType, FS_EmptySet
    <2> QED
      BY <1>1, <2>2, <2>3
  <1>3. \A i, j \in S : i < j => Cardinality(UpTo(S, i)) # Cardinality(UpTo(S, j))
    <2> SUFFICES ASSUME NEW i \in S, NEW j \in S, i < j
                 PROVE  Cardinality(UpTo(S, i)) # Cardinality(UpTo(S, j))
      OBVIOUS
    <2>1. UpTo(S, i) \in SUBSET UpTo(S, j) /\ j \in UpTo(S, j) /\ j \notin UpTo(S, i)
      <3>1. j <= j /\ ~(j <= i) /\ (\A z \in S : z <= i => z <= j)
        OBVIOUS
      <3> QED
        BY <3>1, Zenon DEF UpTo
    <2> QED
      BY <1>2, <2>1, FS_Subset
  <1>4. rank \in Injection(S, 1 .. C)
    <2>1. rank \in [S -> 1 .. C]
      BY <1>2
    <2>2. ASSUME NEW i \in S, NEW j \in S, rank[i] = rank[j] PROVE i = j
      <3>1. i \in Nat /\ j \in Nat /\ ~(i < j) /\ ~(j < i)
        BY <1>3, <2>2
      <3> QED
        BY <3>1
    <2> QED
      BY <2>1, <2>2 DEF Injection, IsInjective
  <1>5. IsFiniteSet(1 .. C) /\ Cardinality(1 .. C) = C
    BY <1>1, FS_Interval
  <1>6. rank \in Surjection(S, 1 .. C)
    BY <1>4, <1>5, FS_Injection
  <1> QED
    BY <1>6 DEF Surjection

\* A list without a wrong element is kept as it is.
LEMMA GoodListStays ==
    ASSUME NEW n \in Nat, NEW l, l = [k \in 1 .. n |-> l[k]], \A k \in 1 .. n : l[k] # "bad"
    PROVE  LoadList(l) = l
  <1> DEFINE good == {i \in DOMAIN l : l[i] # "bad"}
  <1>1. DOMAIN l = 1 .. n
    OBVIOUS
  <1>2. good = 1 .. n
    BY <1>1
  <1>3. Cardinality(good) = n
    <2> HIDE DEF good
    <2> QED
      BY <1>2, FS_Interval
  <1>4. \A i \in 1 .. n : Cardinality({j \in good : j <= i}) = i
    <2> TAKE i \in 1 .. n
    <2>1. {j \in good : j <= i} = 1 .. i
      BY <1>2
    <2>2. Cardinality(1 .. i) = i
      BY FS_Interval
    <2> QED
      BY <2>1, <2>2
  <1>5. \A k \in 1 .. n : (CHOOSE i \in good : Cardinality({j \in good : j <= i}) = k) = k
    BY <1>2, <1>4
  <1>6. LoadList(l) = [k \in 1 .. Cardinality(good) |->
                          l[CHOOSE i \in good : Cardinality({j \in good : j <= i}) = k]]
    BY DEF LoadList
  <1> HIDE DEF good
  <1>7. [k \in 1 .. Cardinality(good) |->
            l[CHOOSE i \in good : Cardinality({j \in good : j <= i}) = k]] = [k \in 1 .. n |-> l[k]]
    BY <1>3, <1>5
  <1> QED
    BY <1>6, <1>7

\* What is loaded of a list is what is loaded of that.
LEMMA LoadedListStays ==
    ASSUME NEW T, NEW l \in Seq(T)
    PROVE  LoadList(LoadList(l)) = LoadList(l)
  <1> DEFINE good == {i \in DOMAIN l : l[i] # "bad"}
             n    == Cardinality(good)
             pick(k) == CHOOSE i \in good : Cardinality({j \in good : j <= i}) = k
  <1>1. good \subseteq 1 .. Len(l) /\ good \subseteq Nat
    OBVIOUS
  <1>2. IsFiniteSet(good)
    BY <1>1, FS_Interval, FS_Subset
  <1>3. n \in Nat
    BY <1>2, FS_CardinalityType
  <1>4. \A k \in 1 .. n : pick(k) \in good
    <2> TAKE k \in 1 .. n
    <2>1. \E i \in good : Cardinality({j \in good : j <= i}) = k
      <3> HIDE DEF good
      <3> QED
        BY <1>1, <1>2, RankThere DEF UpTo
    <2> QED
      BY <2>1
  <1>5. LoadList(l) = [k \in 1 .. n |-> l[pick(k)]]
    BY DEF LoadList
  <1>6. \A k \in 1 .. n : l[pick(k)] # "bad"
    BY <1>4
  <1> HIDE DEF n, pick
  <1>7. LoadList(l) = [k \in 1 .. n |-> LoadList(l)[k]] /\ (\A k \in 1 .. n : LoadList(l)[k] # "bad")
    BY <1>5, <1>6
  <1> QED
    BY <1>3, <1>7, GoodListStays

\* What is loaded of a profile can be saved.
LEMMA LoadedProfileKept ==
    ASSUME NEW e, NEW T, e.presets \subseteq Seq(T)
    PROVE  ProfileKept(LoadProfile(e))
  <1>1. LoadDpi(e.dpi) # "other"
    BY DEF LoadDpi
  <1>2. \A l \in {LoadList(z) : z \in e.presets} : LoadList(l) = l
    BY LoadedListStays
  <1> QED
    BY <1>1, <1>2 DEF ProfileKept, LoadProfile

\* A profile that can be saved is what its entry is loaded as.
LEMMA KeptProfileLoaded ==
    ASSUME NEW p, ProfileKept(p), NEW s
    PROVE  LoadProfile(SaveProfile(s, p)) = p
  <1>1. {LoadList(l) : l \in p.presets} = p.presets
    BY DEF ProfileKept
  <1>2. LoadDpi(p.dpi) = p.dpi
    BY DEF ProfileKept, LoadDpi
  <1> QED
    BY <1>1, <1>2 DEF ProfileKept, LoadProfile, SaveProfile

-----------------------------------------------------------------------------
\* The first entry of a name is one of the entries.
LEMMA FirstThere ==
    ASSUME NEW T, NEW l \in Seq(T), NEW n, \E i \in DOMAIN l : l[i].name = n
    PROVE  FirstOf(l, n) \in T
  <1> DEFINE S == {i \in DOMAIN l : l[i].name = n}
  <1>1. S \subseteq Nat /\ S \subseteq 1 .. Len(l) /\ S # {}
    OBVIOUS
  <1>2. Min(S) \in S
    BY <1>1, Least
  <1>3. Min(S) \in 1 .. Len(l)
    BY <1>1, <1>2
  <1> QED
    BY <1>3 DEF FirstOf

\* The names in a list are finitely many.
LEMMA NamesFinite ==
    ASSUME NEW T, NEW l \in Seq(T)
    PROVE  IsFiniteSet(NamesIn(l))
  <1> DEFINE f == [i \in 1 .. Len(l) |-> l[i].name]
             R == {l[i].name : i \in DOMAIN l}
  <1>1. f \in Surjection(1 .. Len(l), R)
    <2>1. f \in [1 .. Len(l) -> R]
      OBVIOUS
    <2>2. \A z \in R : \E i \in 1 .. Len(l) : f[i] = z
      OBVIOUS
    <2> QED
      BY <2>1, <2>2 DEF Surjection
  <1>2. IsFiniteSet(1 .. Len(l))
    BY FS_Interval
  <1>3. IsFiniteSet(R)
    BY <1>1, <1>2, FS_Surjection
  <1> QED
    BY <1>3, FS_RemoveElement DEF NamesIn

\* The entries S of a map e from finitely many names N.
EntriesOf(S, e, N) ==
    IsFiniteSet(N) /\ S = {e[n] : n \in N} /\ (\A n \in N : e[n].name = n)

\* A map that is saved as a list is what the list is loaded as: every name is
\* in it once, with its entry.
LEMMA SavedMap ==
    ASSUME NEW N, NEW e, NEW S, EntriesOf(S, e, N)
    PROVE  /\ {SaveMap(S)[i].name : i \in DOMAIN SaveMap(S)} = N
           /\ \A n \in N : FirstOf(SaveMap(S), n) = e[n]
  <1> DEFINE f == [n \in N |-> e[n]]
             C == Cardinality(S)
             q == SaveMap(S)
  <1> USE DEF EntriesOf
  <1>1. f \in Surjection(N, S)
    <2>1. f \in [N -> S]
      OBVIOUS
    <2>2. \A z \in S : \E n \in N : f[n] = z
      OBVIOUS
    <2> QED
      BY <2>1, <2>2 DEF Surjection
  <1>2. IsFiniteSet(S)
    BY <1>1, FS_Surjection
  <1>3. C \in Nat /\ (\E g \in [1 .. C -> S] : IsInjective(g))
    BY <1>2, FS_CardinalityType DEF ExistsBijection, Bijection, Injection
  <1>4. q \in [1 .. C -> S] /\ IsInjective(q)
    BY <1>3 DEF SaveMap, SetToSeq
  <1>5. q \in Injection(1 .. C, S)
    BY <1>4 DEF Injection
  <1>6. Cardinality(1 .. C) = C
    BY <1>3, FS_Interval
  <1>7. q \in Surjection(1 .. C, S)
    BY <1>2, <1>5, <1>6, FS_Injection
  <1>8. DOMAIN q = 1 .. C
    BY <1>4
  <1> HIDE DEF f, q
  <1>9. {q[i].name : i \in DOMAIN q} = N
    <2>1. \A i \in 1 .. C : q[i].name \in N
      BY <1>4
    <2>2. \A n \in N : \E i \in 1 .. C : q[i].name = n
      <3> TAKE n \in N
      <3>1. PICK i \in 1 .. C : q[i] = e[n]
        BY <1>7 DEF Surjection
      <3> QED
        BY <3>1
    <2> QED
      BY <1>8, <2>1, <2>2
  <1>10. \A n \in N : FirstOf(q, n) = e[n]
    <2> TAKE n \in N
    <2>1. PICK k \in 1 .. C : q[k] = e[n]
      BY <1>7 DEF Surjection
    <2>2. ASSUME NEW i \in 1 .. C, q[i].name = n PROVE i = k
      <3>1. q[i] = e[n]
        BY <1>4, <2>2
      <3> QED
        BY <1>4, <1>8, <2>1, <3>1 DEF IsInjective
    <2>3. {i \in DOMAIN q : q[i].name = n} = {k}
      BY <1>8, <2>1, <2>2
    <2>4. k \in Nat /\ Min({k}) = k
      BY <1>3 DEF Min
    <2> QED
      BY <2>1, <2>3, <2>4 DEF FirstOf
  <1> QED
    BY <1>9, <1>10 DEF q

\* A device that can be saved is what its entry is loaded as.
LEMMA KeptDeviceLoaded ==
    ASSUME NEW d, DeviceKept(d), NEW n
    PROVE  LoadEntry(SaveEntry(n, d)) = d /\ SaveEntry(n, d).name = n
  <1> DEFINE N == DOMAIN d.profiles
  <1>1. CASE d.kind = "device"
    <2> DEFINE e == [s \in N |-> SaveProfile(s, d.profiles[s])]
               S == {SaveProfile(s, d.profiles[s]) : s \in N}
               q == SaveMap(S)
    <2>1. IsFiniteSet(N) /\ "missing" \notin N /\ d.default # "missing"
      BY <1>1 DEF DeviceKept
    <2>2. EntriesOf(S, e, N)
      BY <2>1 DEF SaveProfile, EntriesOf
    <2>3. {q[i].name : i \in DOMAIN q} = N /\ (\A s \in N : FirstOf(q, s) = e[s])
      <3> HIDE DEF e, S, N
      <3> QED
        BY <2>2, SavedMap
    <2>4. NamesIn(q) = N
      BY <2>1, <2>3 DEF NamesIn
    <2>5. \A s \in N : LoadProfile(FirstOf(q, s)) = d.profiles[s]
      BY <2>3, KeptProfileLoaded DEF DeviceKept
    <2>6. SaveEntry(n, d) = [name |-> n, default |-> d.default, profiles |-> {q},
                             dpi |-> "unset", presets |-> {}]
      BY <1>1 DEF SaveEntry
    <2> HIDE DEF q
    <2>7. LoadEntry(SaveEntry(n, d)) =
              [kind |-> "device", default |-> d.default,
               profiles |-> [s \in NamesIn(q) |-> LoadProfile(FirstOf(q, s))]]
      BY <2>1, <2>6 DEF LoadEntry, IsDevice
    <2>8. [s \in NamesIn(q) |-> LoadProfile(FirstOf(q, s))] = d.profiles
      BY <2>4, <2>5 DEF DeviceKept
    <2> QED
      BY <1>1, <2>6, <2>7, <2>8 DEF DeviceKept
  <1>2. CASE d.kind # "device"
    <2>1. N = {FirstSection} /\ d.kind = "profile" /\ d.default = FirstSection
      BY <1>2 DEF DeviceKept
    <2> DEFINE e == SaveProfile(n, d.profiles[FirstSection])
    <2>2. SaveEntry(n, d) = e /\ e.default = "missing" /\ e.name = n
      BY <1>2 DEF SaveEntry, SaveProfile
    <2>3. LoadProfile(e) = d.profiles[FirstSection]
      BY <2>1, KeptProfileLoaded DEF DeviceKept
    <2> HIDE DEF e
    <2>4. LoadEntry(e) = [kind |-> "profile", default |-> FirstSection,
                          profiles |-> [s \in {FirstSection} |-> LoadProfile(e)]]
      BY <2>2 DEF LoadEntry, IsDevice
    <2>5. [s \in {FirstSection} |-> LoadProfile(e)] = d.profiles
      BY <2>1, <2>3 DEF DeviceKept
    <2> QED
      BY <2>1, <2>2, <2>4, <2>5 DEF DeviceKept
  <1> QED
    BY <1>1, <1>2

\* Settings that can be saved are what is loaded of what they are saved as.
LEMMA KeptLoaded ==
    ASSUME NEW m, Kept(m), NEW old, NEW g
    PROVE  Load([devices |-> SaveDevices(old, m), ignore |-> g]) = [devices |-> m.devices, ignore |-> g]
  <1> DEFINE N == DOMAIN m.devices
             e == [n \in N |-> SaveEntry(n, m.devices[n])]
             S == {SaveEntry(n, m.devices[n]) : n \in N}
             q == SaveMap(S)
             f == [devices |-> {q}, ignore |-> g]
  <1>1. IsFiniteSet(N) /\ "missing" \notin N
    BY DEF Kept
  <1>2. \A n \in N : LoadEntry(e[n]) = m.devices[n] /\ e[n].name = n
    BY KeptDeviceLoaded DEF Kept
  <1>3. S = {e[n] : n \in N}
    OBVIOUS
  <1>4. {q[i].name : i \in DOMAIN q} = N /\ (\A n \in N : FirstOf(q, n) = e[n])
    <2>1. EntriesOf(S, e, N)
      BY <1>1, <1>2, <1>3 DEF EntriesOf
    <2> HIDE DEF e, S, N
    <2> QED
      BY <2>1, SavedMap
  <1>5. SaveDevices(old, m) = {q}
    BY DEF SaveDevices, Entries
  <1> HIDE DEF q
  <1>6. {z.name : z \in UNION {ToSet(z) : z \in f.devices}} \ {"missing"} = N
    <2>1. UNION {ToSet(z) : z \in f.devices} = {q[i] : i \in DOMAIN q}
      BY DEF ToSet
    <2> HIDE DEF f
    <2> QED
      BY <1>1, <1>4, <2>1
  <1>7. (IF f.devices = {} THEN <<>> ELSE CHOOSE z \in f.devices : TRUE) = q
    OBVIOUS
  <1>8. Load(f) = [devices |-> [n \in N |-> LoadEntry(FirstOf(q, n))], ignore |-> g]
    BY <1>6, <1>7 DEF Load
  <1>9. [n \in N |-> LoadEntry(FirstOf(q, n))] = m.devices
    BY <1>2, <1>4 DEF Kept
  <1> QED
    BY <1>5, <1>8, <1>9

\* What is loaded of an entry of a file can be saved.
LEMMA LoadedEntryKept ==
    ASSUME NEW e \in FileEntries
    PROVE  DeviceKept(LoadEntry(e))
  <1>1. CASE IsDevice(e)
    <2> DEFINE l == CHOOSE z \in e.profiles : TRUE
               P == [n \in NamesIn(l) |-> LoadProfile(FirstOf(l, n))]
    <2>1. l \in Seq(FileSections)
      BY <1>1 DEF IsDevice, FileEntries
    <2>2. LoadEntry(e) = [kind |-> "device", default |-> e.default, profiles |-> P]
      BY <1>1 DEF LoadEntry
    <2>3. e.default # "missing"
      BY <1>1 DEF IsDevice
    <2> HIDE DEF l
    <2>4. IsFiniteSet(NamesIn(l)) /\ "missing" \notin NamesIn(l)
      BY <2>1, NamesFinite DEF NamesIn
    <2>5. \A n \in NamesIn(l) : ProfileKept(LoadProfile(FirstOf(l, n)))
      <3> TAKE n \in NamesIn(l)
      <3>1. FirstOf(l, n) \in FileSections
        BY <2>1, FirstThere DEF NamesIn
      <3> QED
        BY <3>1, LoadedProfileKept DEF FileSections
    <2> QED
      BY <2>2, <2>3, <2>4, <2>5 DEF DeviceKept
  <1>2. CASE ~IsDevice(e)
    <2>1. LoadEntry(e) = [kind |-> "profile", default |-> FirstSection,
                          profiles |-> [n \in {FirstSection} |-> LoadProfile(e)]]
      BY <1>2 DEF LoadEntry
    <2>2. ProfileKept(LoadProfile(e))
      BY LoadedProfileKept DEF FileEntries
    <2>3. IsFiniteSet({FirstSection}) /\ "missing" \notin {FirstSection}
      BY FS_Singleton, SectionAssumption
    <2> QED
      BY <2>1, <2>2, <2>3 DEF DeviceKept
  <1> QED
    BY <1>1, <1>2

\* What is loaded of a file that a user wrote can be saved.
LEMMA LoadedKept ==
    ASSUME NEW f, f.devices \subseteq Seq(FileEntries), \A z, w \in f.devices : z = w
    PROVE  Kept(Load(f))
  <1> DEFINE q == IF f.devices = {} THEN <<>> ELSE CHOOSE z \in f.devices : TRUE
             L == UNION {ToSet(z) : z \in f.devices}
  <1>1. q \in Seq(FileEntries)
    OBVIOUS
  <1>2. L = {q[i] : i \in DOMAIN q}
    <2>1. CASE f.devices = {}
      BY <2>1
    <2>2. CASE f.devices # {}
      <3>1. f.devices = {q}
        BY <2>2
      <3>2. L = ToSet(q)
        <4> HIDE DEF q
        <4> QED
          BY <3>1
      <3> QED
        BY <3>2 DEF ToSet
    <2> QED
      BY <2>1, <2>2
  <1> HIDE DEF q
  <1>3. {e.name : e \in L} \ {"missing"} = NamesIn(q)
    <2> HIDE DEF L
    <2> QED
      BY <1>2 DEF NamesIn
  <1>4. Load(f) = [devices |-> [n \in NamesIn(q) |-> LoadEntry(FirstOf(q, n))], ignore |-> f.ignore]
    BY <1>3 DEF Load, q
  <1>5. IsFiniteSet(NamesIn(q)) /\ "missing" \notin NamesIn(q)
    BY <1>1, NamesFinite DEF NamesIn
  <1>6. \A n \in NamesIn(q) : DeviceKept(LoadEntry(FirstOf(q, n)))
    <2> TAKE n \in NamesIn(q)
    <2>1. FirstOf(q, n) \in FileEntries
      BY <1>1, FirstThere DEF NamesIn
    <2> QED
      BY <2>1, LoadedEntryKept
  <1> QED
    BY <1>4, <1>5, <1>6 DEF Kept

-----------------------------------------------------------------------------
\* What is loaded without a file can be saved.
LEMMA NothingKept == Kept(Load(NoFile))
  BY LoadedKept DEF NoFile

\* A device that is put in settings that can be saved.
LEMMA PutKept ==
    ASSUME Kept(memory), NEW n, n # "missing", NEW d, DeviceKept(d), Put(n, d)
    PROVE  /\ Kept(memory')
           /\ DOMAIN memory'.devices = DOMAIN memory.devices \cup {n}
           /\ memory'.devices[n] = d
           /\ \A z \in DOMAIN memory.devices \ {n} : memory'.devices[z] = memory.devices[z]
  <1> DEFINE D == DOMAIN memory.devices
             E == [z \in D \cup {n} |-> IF z = n THEN d ELSE memory.devices[z]]
  <1>1. memory' = [devices |-> E, ignore |-> memory.ignore]
    BY DEF Put, Kept
  <1>2. IsFiniteSet(D \cup {n}) /\ "missing" \notin D \cup {n}
    BY FS_AddElement DEF Kept
  <1>3. \A z \in D \cup {n} : DeviceKept(E[z])
    BY DEF Kept
  <1>4. Kept(memory')
    BY <1>1, <1>2, <1>3 DEF Kept
  <1> QED
    BY <1>1, <1>4

\* A profile that is set in a device that can be saved.
LEMMA WithProfileKept ==
    ASSUME NEW d, DeviceKept(d), d.kind = "device", NEW s, s # "missing", NEW p, ProfileKept(p)
    PROVE  DeviceKept(WithProfile(d, s, p)) /\ WithProfile(d, s, p).kind = "device"
  <1> DEFINE D == DOMAIN d.profiles
             P == [z \in D \cup {s} |-> IF z = s THEN p ELSE d.profiles[z]]
  <1>1. WithProfile(d, s, p) = [kind |-> d.kind, default |-> d.default, profiles |-> P]
    BY DEF WithProfile, DeviceKept
  <1>2. IsFiniteSet(D \cup {s}) /\ "missing" \notin D \cup {s}
    BY FS_AddElement DEF DeviceKept
  <1>3. \A z \in D \cup {s} : ProfileKept(P[z])
    BY DEF DeviceKept
  <1> QED
    BY <1>1, <1>2, <1>3 DEF DeviceKept

LEMMA NewKept == ProfileKept(NewProfile) /\ DeviceKept(NewDevice) /\ NewDevice.kind = "device"
  <1>1. ProfileKept(NewProfile)
    BY DEF ProfileKept, NewProfile
  <1>2. IsFiniteSet({FirstSection})
    BY FS_Singleton
  <1> QED
    BY <1>1, <1>2, SectionAssumption DEF DeviceKept, NewDevice

\* What is put by an edit of a device that was added.
LEMMA EditKept ==
    ASSUME FileInv, NEW n \in added, NEW d, Put(n, d), DeviceKept(d), d.kind = "device",
           n # "missing", UNCHANGED <<file, torn, tree, written, added>>,
           process' = process, process \in {"on", "writing"}
    PROVE  FileInv'
  <1>1. Kept(memory') /\ AddedAreDevices'
    BY PutKept DEF FileInv, AddedAreDevices
  <1> QED
    BY <1>1 DEF FileInv

\* The device of an added name.
LEMMA AddedKept ==
    ASSUME FileInv, NEW n \in added
    PROVE  DeviceKept(memory.devices[n]) /\ memory.devices[n].kind = "device"
  BY DEF FileInv, AddedAreDevices, Kept

LEMMA InitFileInv == FileInit => FileInv
  <1> SUFFICES ASSUME FileInit PROVE FileInv
    OBVIOUS
  <1>1. Kept(Load(NoFile))
    BY NothingKept
  <1>2. Kept(Load(file))
    BY HandwrittenAssumption, LoadedKept DEF FileInit
  <1> QED
    BY <1>1, <1>2 DEF FileInit, FileInv, AddedAreDevices

LEMMA ReadFileInv == FileInv /\ ReadFile => FileInv'
  <1> SUFFICES ASSUME FileInv, ReadFile PROVE FileInv'
    OBVIOUS
  <1>1. Kept(Load(NoFile))
    BY NothingKept
  <1>2. added = {}
    BY DEF FileInv, ReadFile
  <1>3. process' \in {"on", "refused"} /\ UNCHANGED <<file, torn, written, added>>
    BY DEF ReadFile
  <1>4. tree' \in {file, NoFile, tree}
    BY DEF ReadFile
  <1>5. memory' \in {Load(tree'), memory}
    BY DEF ReadFile
  <1>6. Kept(Load(tree')) /\ Kept(memory')
    BY <1>1, <1>4, <1>5 DEF FileInv
  <1> QED
    BY <1>2, <1>3, <1>6 DEF FileInv, AddedAreDevices

LEMMA GetConfigInv ==
    ASSUME FileInv, NEW n \in Models, GetConfig(n)
    PROVE  FileInv'
  <1> DEFINE known == n \in DOMAIN memory.devices /\ DOMAIN memory.devices[n].profiles # {}
             d == IF known THEN [memory.devices[n] EXCEPT !.kind = "device"] ELSE NewDevice
             e == IF d.default \in DOMAIN d.profiles THEN d ELSE WithProfile(d, d.default, NewProfile)
  <1>1. n # "missing"
    BY SectionAssumption
  <1>2. DeviceKept(d) /\ d.kind = "device"
    <2>1. CASE known
      <3>1. DeviceKept(memory.devices[n])
        BY <2>1 DEF FileInv, Kept
      <3>2. d = [kind |-> "device", default |-> memory.devices[n].default,
                 profiles |-> memory.devices[n].profiles]
        BY <2>1, <3>1 DEF DeviceKept
      <3>3. memory.devices[n].default # "missing"
        BY <3>1, SectionAssumption DEF DeviceKept
      <3> HIDE DEF d
      <3> QED
        BY <3>1, <3>2, <3>3 DEF DeviceKept
    <2>2. CASE ~known
      BY <2>2, NewKept
    <2> QED
      BY <2>1, <2>2
  <1>3. Put(n, e)
    BY DEF GetConfig
  <1> HIDE DEF d
  <1>4. DeviceKept(e) /\ e.kind = "device"
    <2>1. d.default # "missing"
      BY <1>2 DEF DeviceKept
    <2> QED
      BY <1>2, <2>1, NewKept, WithProfileKept
  <1> HIDE DEF e
  <1>5. Kept(memory') /\ AddedAreDevices'
    <2>1. added' = added \cup {n}
      BY DEF GetConfig
    <2>2. /\ Kept(memory') /\ DOMAIN memory'.devices = DOMAIN memory.devices \cup {n}
          /\ memory'.devices[n] = e
          /\ \A z \in DOMAIN memory.devices \ {n} : memory'.devices[z] = memory.devices[z]
      BY <1>1, <1>3, <1>4, PutKept DEF FileInv
    <2> QED
      BY <1>4, <2>1, <2>2 DEF FileInv, AddedAreDevices
  <1>6. UNCHANGED <<file, torn, tree, written, process>> /\ process \in {"on", "writing"}
    BY DEF GetConfig
  <1> QED
    BY <1>5, <1>6 DEF FileInv

LEMMA PresetsKept ==
    ASSUME NEW p, ProfileKept(p), NEW L, \A l \in L : LoadList(l) = l
    PROVE  ProfileKept([p EXCEPT !.presets = L])
  <1>1. [p EXCEPT !.presets = L] = [dpi |-> p.dpi, presets |-> L]
    BY DEF ProfileKept
  <1> QED
    BY <1>1 DEF ProfileKept

\* The edits of profiles.
LEMMA ProfileEditInv ==
    ASSUME FileInv, NEW n \in Models, NEW s \in Sections,
           \/ SetDpi(n, s)
           \/ \E l \in {<<>>, <<"400">>} : SetPresets(n, s, l)
           \/ InsertProfile(n, s) \/ ClearProfile(n, s)
    PROVE  FileInv'
  <1> DEFINE d == memory.devices[n]
  <1>1. n # "missing" /\ s # "missing"
    BY SectionAssumption
  <1>2. /\ n \in added /\ UNCHANGED <<file, torn, tree, written, added>>
        /\ process' = process /\ process \in {"on", "writing"}
    BY DEF SetDpi, SetPresets, InsertProfile, ClearProfile, EditDevice
  <1>3. DeviceKept(d) /\ d.kind = "device"
    BY <1>2, AddedKept
  <1>4. \E p : ProfileKept(p) /\ Put(n, WithProfile(d, s, p))
    <2>1. CASE SetDpi(n, s)
      <3> DEFINE p == [d.profiles[s] EXCEPT !.dpi = "list"]
      <3>1. ProfileKept(d.profiles[s])
        BY <1>3, <2>1 DEF SetDpi, DeviceKept
      <3>2. ProfileKept(p)
        BY <3>1 DEF ProfileKept
      <3> QED
        BY <2>1, <3>2 DEF SetDpi
    <2>2. ASSUME NEW l \in {<<>>, <<"400">>}, SetPresets(n, s, l)
          PROVE  \E p : ProfileKept(p) /\ Put(n, WithProfile(d, s, p))
      <3> DEFINE p == [d.profiles[s] EXCEPT !.presets = IF l = <<>> THEN {} ELSE {l}]
      <3>1. ProfileKept(d.profiles[s])
        BY <1>3, <2>2 DEF SetPresets, DeviceKept
      <3>2. LoadList(<<"400">>) = <<"400">>
        <4>1. <<"400">> = [k \in 1 .. 1 |-> <<"400">>[k]] /\ (\A k \in 1 .. 1 : <<"400">>[k] # "bad")
          OBVIOUS
        <4> QED
          BY <4>1, GoodListStays
      <3>3. \A z \in (IF l = <<>> THEN {} ELSE {l}) : LoadList(z) = z
        BY <3>2
      <3>4. ProfileKept(p)
        BY <3>1, <3>3, PresetsKept
      <3> QED
        BY <2>2, <3>4 DEF SetPresets
    <2>3. CASE InsertProfile(n, s) \/ ClearProfile(n, s)
      BY <2>3, NewKept DEF InsertProfile, ClearProfile
    <2> QED
      BY <2>1, <2>2, <2>3
  <1>5. PICK p : ProfileKept(p) /\ Put(n, WithProfile(d, s, p))
    BY <1>4
  <1>6. DeviceKept(WithProfile(d, s, p)) /\ WithProfile(d, s, p).kind = "device"
    BY <1>1, <1>3, <1>5, WithProfileKept
  <1> QED
    BY <1>1, <1>2, <1>5, <1>6, EditKept

LEMMA EraseProfileInv ==
    ASSUME FileInv, NEW n \in Models, NEW s \in Sections, EraseProfile(n, s)
    PROVE  FileInv'
  <1> DEFINE d == memory.devices[n]
             e == [d EXCEPT !.profiles = [z \in DOMAIN d.profiles \ {s} |-> d.profiles[z]]]
  <1>1. n # "missing"
    BY SectionAssumption
  <1>2. /\ n \in added /\ UNCHANGED <<file, torn, tree, written, added>>
        /\ process' = process /\ process \in {"on", "writing"}
    BY DEF EraseProfile, EditDevice
  <1>3. DeviceKept(d) /\ d.kind = "device"
    BY <1>2, AddedKept
  <1>4. IsFiniteSet(DOMAIN d.profiles \ {s})
    BY <1>3, FS_RemoveElement DEF DeviceKept
  <1>5. e = [kind |-> d.kind, default |-> d.default,
             profiles |-> [z \in DOMAIN d.profiles \ {s} |-> d.profiles[z]]]
    BY <1>3 DEF DeviceKept
  <1>6. Put(n, e)
    BY DEF EraseProfile
  <1> HIDE DEF e
  <1>7. DeviceKept(e) /\ e.kind = "device"
    BY <1>3, <1>4, <1>5 DEF DeviceKept
  <1> QED
    BY <1>1, <1>2, <1>6, <1>7, EditKept

LEMMA SetDefaultInv ==
    ASSUME FileInv, NEW n \in Models, NEW s \in Sections, SetDefault(n, s)
    PROVE  FileInv'
  <1> DEFINE d == memory.devices[n]
             e == [d EXCEPT !.default = s]
  <1>1. n # "missing" /\ s # "missing"
    BY SectionAssumption
  <1>2. /\ n \in added /\ UNCHANGED <<file, torn, tree, written, added>>
        /\ process' = process /\ process \in {"on", "writing"}
    BY DEF SetDefault, EditDevice
  <1>3. DeviceKept(d) /\ d.kind = "device"
    BY <1>2, AddedKept
  <1>4. e = [kind |-> d.kind, default |-> s, profiles |-> d.profiles]
    BY <1>3 DEF DeviceKept
  <1>5. Put(n, e)
    BY DEF SetDefault
  <1> HIDE DEF e
  <1>6. DeviceKept(e) /\ e.kind = "device"
    BY <1>1, <1>3, <1>4 DEF DeviceKept
  <1> QED
    BY <1>1, <1>2, <1>5, <1>6, EditKept

LEMMA SaveInv == FileInv /\ Save => FileInv'
  <1> SUFFICES ASSUME FileInv, Save PROVE FileInv'
    OBVIOUS
  <1>1. PICK g : /\ tree' = [devices |-> SaveDevices(tree, memory), ignore |-> g]
                 /\ process' = "writing" => g = memory.ignore
    BY DEF Save
  <1>2. Load(tree') = [devices |-> memory.devices, ignore |-> g]
    BY <1>1, KeptLoaded DEF FileInv
  <1>3. Kept(Load(tree'))
    BY <1>2 DEF FileInv, Kept
  <1>4. process' = "writing" => Load(tree') = memory
    BY <1>1, <1>2 DEF FileInv, Kept
  <1>5. UNCHANGED <<file, memory, added>> /\ process \in {"on"} /\ process' \in {"on", "writing"}
    BY DEF Save
  <1>6. \/ process' = "writing" /\ torn' = TRUE /\ written' = {memory}
        \/ process' = "on" /\ UNCHANGED <<torn, written>>
    BY DEF Save
  <1>7. AddedAreDevices'
    BY <1>5 DEF FileInv, AddedAreDevices
  <1> QED
    BY <1>3, <1>4, <1>5, <1>6, <1>7 DEF FileInv

LEMMA NextFileInv == FileInv /\ [FileNext]_fileVars => FileInv'
  <1> SUFFICES ASSUME FileInv, [FileNext]_fileVars PROVE FileInv'
    OBVIOUS
  <1>1. CASE ReadFile
    BY <1>1, ReadFileInv
  <1>2. CASE Save
    BY <1>2, SaveInv
  <1>3. CASE Written
    BY <1>3 DEF Written, FileInv, AddedAreDevices
  <1>4. CASE Stop
    <2>1. Kept(Load(NoFile))
      BY NothingKept
    <2> QED
      BY <1>4, <2>1 DEF Stop, FileInv, AddedAreDevices
  <1>5. ASSUME NEW n \in Models, GetConfig(n) PROVE FileInv'
    BY <1>5, GetConfigInv
  <1>6. ASSUME NEW n \in Models, NEW s \in Sections,
               \/ SetDpi(n, s)
               \/ \E l \in {<<>>, <<"400">>} : SetPresets(n, s, l)
               \/ InsertProfile(n, s) \/ ClearProfile(n, s)
        PROVE  FileInv'
    BY <1>6, ProfileEditInv
  <1>7. ASSUME NEW n \in Models, NEW s \in Sections, EraseProfile(n, s) PROVE FileInv'
    BY <1>7, EraseProfileInv
  <1>8. ASSUME NEW n \in Models, NEW s \in Sections, SetDefault(n, s) PROVE FileInv'
    BY <1>8, SetDefaultInv
  <1>9. CASE UNCHANGED fileVars
    BY <1>9 DEF fileVars, FileInv, AddedAreDevices
  <1> QED
    BY <1>1, <1>2, <1>3, <1>4, <1>5, <1>6, <1>7, <1>8, <1>9 DEF FileNext

(***************************************************************************)
(* A start loads what the last save wrote, for any names, any file that a  *)
(* user wrote and any number of edits, saves and starts: save and the      *)
(* constructor of Configuration.cpp, the get and set of config/types.h.    *)
(***************************************************************************)
THEOREM SavedLoaded == FileSpec => SavedIsLoaded
  <1> DEFINE Loads == process = "off" /\ process' = "on" /\ ~torn => \A m \in written : memory' = m
  <1>1. FileInv /\ [FileNext]_fileVars => [Loads]_fileVars
    <2> SUFFICES ASSUME FileInv, FileNext, process = "off", process' = "on", ~torn,
                        NEW m \in written
                 PROVE  memory' = m
      OBVIOUS
    <2>1. ReadFile
      BY DEF FileNext, Save, Written, Stop, GetConfig, SetDpi, SetPresets, InsertProfile,
             ClearProfile, EraseProfile, SetDefault, EditDevice
    <2>2. memory' = Load(file)
      BY <2>1 DEF ReadFile
    <2> QED
      BY <2>2 DEF FileInv
  <1>2. FileInit => FileInv
    BY InitFileInv
  <1>3. FileInv /\ [FileNext]_fileVars => FileInv'
    BY NextFileInv
  <1> QED
    BY <1>1, <1>2, <1>3, PTL DEF FileSpec, SavedIsLoaded
=============================================================================
