---------------------------- MODULE GestureAction ----------------------------
(***************************************************************************)
(* The gesture action of a button (logid/actions/GestureAction.cpp). The   *)
(* reader of the device presses, moves and releases it, one event after    *)
(* the other; meanwhile the bus may replace the gesture of a direction,    *)
(* which waits for the event, or retune one, which does not: the threshold *)
(* of a gesture has a lock of its own, so that it may change between two   *)
(* looks at it while the button is released.                               *)
(***************************************************************************)
EXTENDS GestureKinds, Sequences, FiniteSets, SequencesExt

CONSTANTS Layouts,    \* what the configuration may give: directions to kinds
          Moves,      \* movements along an axis in one event
          Reach,      \* bound: how far the pointer goes
          Thresholds, \* values the bus may set; 0 resets
          Intervals,
          Factors,    \* multipliers the bus may set
          MaxEvents,  \* bound: movements in a behaviour
          MaxTuning   \* bound: calls of the bus in a behaviour

ASSUME TuningAssumption ==
    /\ Moves \cup Thresholds \cup Intervals \cup Factors \subseteq Int
    /\ {Reach, MaxEvents, MaxTuning} \subseteq Nat

VARIABLES pressed,  \* _pressed
          x, y,     \* _x, _y
          gestures, \* _gestures: a function from some directions
          todo,     \* steps that are left of a release
          met,      \* its threshold_met
          events,   \* movements so far
          tuning,   \* calls of the bus so far
          remade,   \* history: directions whose gesture was replaced, or had its
                    \* axis or interval set, since the press
          crossed,  \* history: an event crossed the horizontal axis
          runs,     \* history: actions this release has run
          retuned   \* history: directions retuned during this release

gestureVars == <<pressed, x, y, gestures, todo, met, events, tuning, remade,
                 crossed, runs, retuned>>

\* In the order of the map.
Directions == <<"none", "up", "down", "left", "right">>

ASSUME LayoutAssumption ==
    \A layout \in Layouts : /\ DOMAIN layout \subseteq ToSet(Directions)
                            /\ \A d \in DOMAIN layout : layout[d] \in Kinds

GestureTypeOK ==
    /\ pressed \in BOOLEAN /\ met \in BOOLEAN /\ crossed \in BOOLEAN
    /\ x \in -Reach .. Reach /\ y \in -Reach .. Reach
    /\ DOMAIN gestures \cup remade \cup retuned \subseteq ToSet(Directions)
    /\ \A d \in DOMAIN gestures : gestures[d].kind \in Kinds
    /\ \A n \in 1 .. Len(todo) : todo[n].of \in DOMAIN gestures
    /\ events \in 0 .. MaxEvents /\ tuning \in 0 .. MaxTuning

\* The gesture of "none" has the threshold 0, once it is made.
Threshold0(d, g) == IF d = "none" THEN [g EXCEPT !.threshold = {0}] ELSE g

GestureInit ==
    /\ \E layout \in Layouts :
           gestures = [d \in DOMAIN layout |->
                          Threshold0(d, [Gesture(layout[d]) EXCEPT !.bound = TRUE, !.action = TRUE])]
    /\ pressed = FALSE /\ x = 0 /\ y = 0 /\ todo = << >> /\ met = FALSE
    /\ events = 0 /\ tuning = 0 /\ remade = {} /\ crossed = FALSE
    /\ runs = 0 /\ retuned = {}

toDirection(a, b) ==
    IF a >= 0 /\ b >= 0 THEN IF a >= b THEN "right" ELSE "down"
    ELSE IF a < 0 /\ b >= 0 THEN IF -a <= b THEN "down" ELSE "left"
    ELSE IF a <= 0 THEN IF a <= b THEN "left" ELSE "up"
    ELSE IF a <= -b THEN "up" ELSE "right"

(***************************************************************************)
(* Events of the device.                                                   *)
(***************************************************************************)

press ==
    /\ ~pressed /\ todo = << >>
    /\ pressed' = TRUE /\ x' = 0 /\ y' = 0
    /\ gestures' = [d \in DOMAIN gestures |-> Press(gestures[d], FALSE)]
    /\ remade' = {} /\ crossed' = FALSE /\ runs' = 0 /\ retuned' = {}
    /\ UNCHANGED <<todo, met, events, tuning>>

\* Mutant: the direction that is entered gets the whole movement.
SharesCarried(from, to) ==
    IF from < 0 /\ to >= 0 THEN [neg |-> from, pos |-> to - from]
    ELSE IF from > 0 /\ to <= 0 THEN [neg |-> from - to, pos |-> -from]
    ELSE IF to < 0 THEN [neg |-> from - to, pos |-> 0]
    ELSE [neg |-> 0, pos |-> to - from]

\* What an event that takes a coordinate from "from" to "to" gives to the
\* gesture of its negative direction and to that of its positive direction.
Shares(from, to) ==
    IF from < 0 /\ to >= 0 THEN [neg |-> from, pos |-> to]
    ELSE IF from > 0 /\ to <= 0 THEN [neg |-> -to, pos |-> -from]
    ELSE IF to < 0 THEN [neg |-> from - to, pos |-> 0]
    ELSE [neg |-> 0, pos |-> to - from]

\* Along y the two signs of a crossing are mistaken for each other: what is
\* called up is down.
SharesY(from, to) ==
    IF from > 0 /\ to <= 0 THEN [neg |-> from, pos |-> to]
    ELSE IF from < 0 /\ to >= 0 THEN [neg |-> -to, pos |-> -from]
    ELSE Shares(from, to)

move(dx, dy) ==
    /\ pressed /\ todo = << >> /\ events < MaxEvents
    /\ x + dx \in -Reach .. Reach /\ y + dy \in -Reach .. Reach
    /\ LET sx    == Shares(x, x + dx)
           sy    == SharesY(y, y + dy)
           by(d) == CASE d = "left" -> sx.neg [] d = "right" -> sx.pos
                      [] d = "up"   -> sy.neg [] d = "down"  -> sy.pos
                      [] OTHER      -> 0
       IN  gestures' = [d \in DOMAIN gestures |->
                           IF by(d) = 0 THEN gestures[d] ELSE Move(gestures[d], by(d))]
    /\ x' = x + dx /\ y' = y + dy /\ events' = events + 1
    /\ crossed' = (crossed \/ (dy # 0 /\ y * (y + dy) <= 0 /\ y # 0))
    /\ UNCHANGED <<pressed, todo, met, tuning, remade, runs, retuned>>

(***************************************************************************)
(* The release looks at the direction the pointer went in, then at the     *)
(* others until one has met its threshold, and last at "none". Each look   *)
(* and each release of a gesture takes its lock.                           *)
(***************************************************************************)

Look(d, primary) == [do |-> "look", of |-> d, primary |-> primary]
\* Mutant: each gesture that is let go of may run its action.
LetEach(d, primary) == [do |-> "release", of |-> d, primary |-> TRUE]
Let(d, primary) == [do |-> "release", of |-> d, primary |-> primary]

release ==
    /\ pressed /\ todo = << >>
    /\ pressed' = FALSE /\ met' = FALSE
    /\ LET d        == toDirection(x, y)
           Has(e)   == IF e \in DOMAIN gestures THEN <<Look(e, TRUE)>> ELSE << >>
           Other(e) == IF e \in DOMAIN gestures \ {d} THEN <<Look(e, FALSE)>> ELSE << >>
       IN  todo' = Has(d) \o Other("up") \o Other("down") \o Other("left") \o Other("right")
                          \o Has("none")
    /\ runs' = 0 /\ retuned' = {}
    /\ UNCHANGED <<x, y, gestures, events, tuning, remade, crossed>>

\* metThreshold() of the next gesture decides how it is released. One that is
\* not primary and has not met its threshold is not released at all, unless
\* another has.
releaseLooks ==
    /\ todo # << >> /\ Head(todo).do = "look"
    /\ LET d == Head(todo).of
           m == metThreshold(gestures[d])
       IN  \/ /\ d = "none" /\ todo' = <<Let(d, ~met)>> /\ UNCHANGED met
           \/ /\ d # "none" /\ Head(todo).primary
              /\ met' = m /\ todo' = <<Let(d, TRUE)>> \o Tail(todo)
           \/ /\ d # "none" /\ ~Head(todo).primary /\ met
              /\ todo' = <<Let(d, FALSE)>> \o Tail(todo) /\ UNCHANGED met
           \/ /\ d # "none" /\ ~Head(todo).primary /\ ~met
              /\ met' = m
              /\ todo' = (IF m THEN <<Let(d, TRUE)>> ELSE << >>) \o Tail(todo)
    /\ UNCHANGED <<pressed, x, y, gestures, events, tuning, remade, crossed,
                   runs, retuned>>

releaseGesture ==
    /\ todo # << >> /\ Head(todo).do = "release"
    /\ LET d == Head(todo).of
       IN  /\ gestures' = [gestures EXCEPT ![d] = Release(@, Head(todo).primary)]
           /\ runs' = runs + (gestures'[d].ran - gestures[d].ran)
    /\ todo' = Tail(todo)
    /\ UNCHANGED <<pressed, x, y, met, events, tuning, remade, crossed, retuned>>

(***************************************************************************)
(* Calls of the bus.                                                       *)
(***************************************************************************)

Tunes == tuning < MaxTuning /\ tuning' = tuning + 1
      /\ UNCHANGED <<pressed, x, y, todo, met, events, crossed, runs>>

\* setGesture waits for the event to end. A gesture that is replaced while
\* the button is held is released first. A kind the daemon does not know is
\* refused, and the configured gesture is made anew.
setGesture(d, kind) ==
    /\ Tunes /\ todo = << >>
    /\ LET old == IF d \in DOMAIN gestures THEN gestures[d] ELSE Gesture("None")
           let == IF pressed THEN Release(old, toDirection(x, y) = d) ELSE old
           new == IF kind \in Kinds \ {"OnThreshold"}
                  THEN Threshold0(d, Gesture(kind))
                  ELSE [Gesture(old.kind) EXCEPT !.threshold = old.threshold,
                           !.interval = old.interval, !.factor = old.factor,
                           !.bound = old.bound, !.action = old.bound]
       IN  gestures' = [e \in DOMAIN gestures \cup {d} |->
                           IF e = d THEN [new EXCEPT !.ran = let.ran, !.moved = let.moved,
                                                     !.steps = let.steps]
                           ELSE gestures[e]]
    /\ remade' = IF pressed THEN remade \cup {d} ELSE remade
    /\ UNCHANGED retuned

setThreshold(d, v) ==
    /\ Tunes /\ d \in DOMAIN gestures /\ gestures[d].kind # "None"
    /\ gestures' = [gestures EXCEPT ![d] = SetThreshold(@, v)]
    /\ retuned' = IF todo = << >> THEN retuned ELSE retuned \cup {d}
    /\ UNCHANGED remade

\* No axis, or an interval below one, makes a gesture deaf.
setInterval(d, v) ==
    /\ Tunes /\ d \in DOMAIN gestures /\ gestures[d].kind = "OnInterval"
    /\ gestures' = [gestures EXCEPT ![d] = SetInterval(@, v)]
    /\ remade' = IF pressed THEN remade \cup {d} ELSE remade
    /\ UNCHANGED retuned

setAxis(d, some) ==
    /\ Tunes /\ d \in DOMAIN gestures /\ gestures[d].kind = "Axis"
    /\ gestures' = [gestures EXCEPT ![d].bound = some, ![d].action = some]
    /\ remade' = IF pressed THEN remade \cup {d} ELSE remade
    /\ UNCHANGED retuned

setMultiplier(d, v) ==
    /\ Tunes /\ d \in DOMAIN gestures /\ gestures[d].kind = "Axis"
    /\ gestures' = [gestures EXCEPT ![d] = SetMultiplier(@, v, 1)]
    /\ UNCHANGED <<remade, retuned>>

\* An action the daemon does not know is refused: what was there is made
\* again, except in a threshold gesture, which is left without.
setAction(d, known) ==
    /\ Tunes /\ d \in DOMAIN gestures
    /\ gestures[d].kind \in {"OnInterval", "OnRelease", "OnThreshold"}
    /\ gestures' = [gestures EXCEPT
           ![d].bound = @ \/ known,
           ![d].action = known \/ (gestures[d].kind # "OnThreshold" /\ gestures[d].bound)]
    /\ UNCHANGED <<remade, retuned>>

GestureNext ==
    \/ press \/ release \/ releaseLooks \/ releaseGesture
    \/ \E dx, dy \in Moves : move(dx, dy)
    \/ \E d \in ToSet(Directions) :
           \/ \E kind \in Kinds : setGesture(d, kind)
           \/ \E v \in Thresholds : setThreshold(d, v)
           \/ \E v \in Intervals : setInterval(d, v)
           \/ \E v \in Factors : setMultiplier(d, v)
           \/ \E some \in BOOLEAN : setAxis(d, some) \/ setAction(d, some)

GestureSpec == GestureInit /\ [][GestureNext]_gestureVars

(***************************************************************************)
(* Properties.                                                             *)
(***************************************************************************)

Toward(d) == CASE d = "left" -> -x [] d = "right" -> x
               [] d = "up"   -> -y [] d = "down"  -> y
AxisIs(d) == d \in DOMAIN gestures \ remade /\ ~Deaf(gestures[d]) =>
                 gestures[d].axis = IF Toward(d) > 0 THEN Toward(d) ELSE 0

\* While the button is held, a gesture that was there when it was pressed has
\* gone as far as the pointer has gone in its direction, however the pointer
\* turns: along x always, along y as long as no single event crosses the
\* origin.
AxisIsDistance ==
    pressed => /\ AxisIs("left") /\ AxisIs("right")
               /\ ~crossed => AxisIs("up") /\ AxisIs("down")

\* A release runs one action at most: the first met threshold silences the
\* other gestures, unless the threshold of a gesture is changed between the
\* two looks at it.
OneRunPerRelease == retuned = {} => runs <= 1
=============================================================================
