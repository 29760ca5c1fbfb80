---------------------------- MODULE GestureKinds ----------------------------
(***************************************************************************)
(* The five kinds of gesture (logid/actions/gesture): what press, move and *)
(* release do to one, and what it then does to the virtual input or to its *)
(* action. A button's gesture action and the two wheels are built of them. *)
(* An optional setting is a set with at most one member.                   *)
(***************************************************************************)
EXTENDS Integers

CONSTANTS DefaultThreshold, DefaultInterval, \* config::defaults
          HiResCodes, \* codes of the high resolution axes
          Detent      \* high resolution units to a step of the wheel

ASSUME DetentAssumption == Detent \in Nat \ {0}
ASSUME DefaultsAssumption == {DefaultThreshold, DefaultInterval} \subseteq Int

Kinds       == {"Axis", "OnInterval", "OnRelease", "OnThreshold", "None"}
Set(o, default) == IF o = {} THEN default ELSE CHOOSE v \in o : TRUE

\* A gesture just made; "bound" says that its configuration has an action (or
\* an axis), "action" that it holds one. "ran" counts the runs of its action,
\* "moved" and "steps" what it sent to its axis and to the axis of low
\* resolution, since it was pressed.
Gesture(kind) ==
    [kind |-> kind, threshold |-> {}, interval |-> {}, factor |-> 1,
     scale |-> 1, bound |-> FALSE, action |-> FALSE, axis |-> 0, passes |-> 0, done |-> FALSE,
     rest |-> 0, ran |-> 0, moved |-> 0, steps |-> 0]

Threshold(g)    == Set(g.threshold, DefaultThreshold)
metThreshold(g) == g.axis >= Threshold(g)
Interval(g)     == Set(g.interval, DefaultInterval)
wheelCompatibility(g) == g.kind \in {"Axis", "OnInterval", "None"}

\* "init" starts a wheel's gesture at its threshold.
Press(g, init) ==
    [g EXCEPT !.axis = IF init THEN Threshold(g) ELSE 0,
              !.passes = 0, !.done = FALSE, !.rest = 0,
              !.ran = 0, !.moved = 0, !.steps = 0]

Run(g) == IF g.action THEN [g EXCEPT !.ran = @ + 1] ELSE g

Release(g, primary) ==
    CASE g.kind = "OnRelease"   -> IF metThreshold(g) /\ primary THEN Run(g) ELSE g
      [] g.kind = "OnThreshold" -> [g EXCEPT !.done = FALSE]
      [] OTHER                  -> g

\* The low resolution axis is looked up by the movement, not by the code of
\* the axis: getLowResAxis(axis).
Truncated(a, b) == IF a >= 0 THEN a \div b ELSE -((-a) \div b)
LowRes(g, by) ==
    LET rest == g.rest + by
        step == IF Truncated(rest, Detent) # 0 THEN Truncated(rest, Detent)
                ELSE IF rest > 0 THEN 1 ELSE -1
    IN  IF 2 * rest >= Detent \/ 2 * rest <= -Detent
        THEN [g EXCEPT !.rest = rest - step * Detent, !.steps = @ + step]
        ELSE [g EXCEPT !.rest = rest]

MoveAxis(g, by) ==
    LET past  == g.axis + by
        share == IF g.axis < Threshold(g) THEN past - Threshold(g) ELSE by
        sent  == share * g.factor * g.scale
        moved == [g EXCEPT !.axis = past, !.moved = @ + sent]
    IN  IF ~g.action THEN g
        ELSE IF past <= Threshold(g) THEN [g EXCEPT !.axis = past]
        ELSE IF by \in HiResCodes THEN LowRes(moved, sent)
        ELSE moved

MoveInterval(g, by) ==
    LET axis  == g.axis + by
        count == (axis - Threshold(g)) \div Interval(g)
        there == [g EXCEPT !.axis = axis, !.passes = count]
    IN  IF Interval(g) <= 0 THEN g
        ELSE IF axis < Threshold(g) THEN [g EXCEPT !.axis = axis]
        ELSE IF count > g.passes THEN Run(there)
        ELSE there

MoveThreshold(g, by) ==
    LET there == [g EXCEPT !.axis = @ + by]
    IN  IF ~g.done /\ metThreshold(there) THEN [Run(there) EXCEPT !.done = TRUE]
        ELSE there

Move(g, by) ==
    CASE g.kind = "Axis"        -> MoveAxis(g, by)
      [] g.kind = "OnInterval"  -> MoveInterval(g, by)
      [] g.kind = "OnThreshold" -> MoveThreshold(g, by)
      [] OTHER                  -> [g EXCEPT !.axis = @ + by]

\* Without an axis, or with an interval that is not positive, a gesture does
\* not even count how far it is moved.
Deaf(g) == \/ g.kind = "Axis" /\ ~g.action
           \/ g.kind = "OnInterval" /\ Interval(g) <= 0

\* The setters of the bus; 0 resets.
Optional(v)           == IF v = 0 THEN {} ELSE {v}
SetThreshold(g, v)    == [g EXCEPT !.threshold = Optional(v)]
SetInterval(g, v)     == [g EXCEPT !.interval = Optional(v)]
\* setMultiplier also scales what is multiplied already; the hires multiplier
\* comes on top when the axis has a low resolution.
SetMultiplier(g, v, hires) == [g EXCEPT !.factor = v, !.scale = v * hires]
=============================================================================
