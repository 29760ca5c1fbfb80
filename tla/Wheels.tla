------------------------------- MODULE Wheels -------------------------------
(***************************************************************************)
(* The two wheels of a device (logid/features/HiresScroll.cpp and          *)
(* ThumbWheel.cpp): what an event of a wheel does to the gestures of its   *)
(* directions and to the actions of the thumb wheel, and how the bus and a *)
(* switch of the profile replace them. The lock of the configuration makes *)
(* each of these one step.                                                 *)
(***************************************************************************)
EXTENDS GestureKinds, FiniteSets

CONSTANTS WheelLayouts, \* what a profile may give: directions to kinds
          Turns,        \* movements of a wheel in one event
          MaxTurns,     \* bound: events in a behaviour
          MaxWheelCalls \* bound: calls of the bus and switches of the profile

ASSUME WheelAssumption ==
    /\ Turns \subseteq Int
    /\ \A layout \in WheelLayouts : \A d \in DOMAIN layout : layout[d] \in Kinds

VARIABLES scroll,   \* gestures of the wheel, a function from "up" and "down"
          nodes,    \* directions whose node the feature still has
          last,     \* _last_direction
          thumb,    \* gestures of the thumb wheel, from "left" and "right"
          sensors,  \* "proxy", "touch": [on, action, held]
          turns,    \* events so far
          wheelCalls, \* calls so far
          loose,    \* history: gestures whose configuration was destroyed
          swapped,  \* history: sensors whose action was replaced while on
          crashed   \* a gesture was to be made in a node that is gone

wheelVars == <<scroll, nodes, last, thumb, sensors, turns, wheelCalls, loose,
               swapped, crashed>>

Sensors == {"proxy", "touch"}

WheelTypeOK ==
    /\ DOMAIN scroll \cup nodes \cup loose \subseteq {"up", "down"}
    /\ DOMAIN thumb \subseteq {"left", "right"} /\ last \in {-1, 0, 1}
    /\ \A d \in DOMAIN thumb : wheelCompatibility(thumb[d])
    /\ sensors \in [Sensors -> [on : BOOLEAN, action : BOOLEAN, held : BOOLEAN]]
    /\ swapped \subseteq Sensors /\ crashed \in BOOLEAN

\* _makeConfig of the wheel starts its gestures and takes any kind; that of
\* the thumb wheel leaves out those that are not for wheels.
Bound(kind) == [Gesture(kind) EXCEPT !.bound = TRUE, !.action = TRUE]
ScrollOf(layout) == [d \in DOMAIN layout \cap {"up", "down"} |->
                        Press(Bound(layout[d]), TRUE)]
ThumbOf(layout) == [d \in {e \in DOMAIN layout \cap {"left", "right"} :
                               wheelCompatibility(Bound(layout[e]))} |-> Bound(layout[d])]
With(fun, d, g) == [e \in DOMAIN fun \cup {d} |-> IF e = d THEN g ELSE fun[e]]
Without(fun, d) == [e \in DOMAIN fun \ {d} |-> fun[e]]

WheelInit ==
    /\ \E layout \in WheelLayouts :
           /\ scroll = ScrollOf(layout)
           /\ thumb = [d \in DOMAIN ThumbOf(layout) |-> Press(ThumbOf(layout)[d], TRUE)]
    /\ nodes = {"up", "down"} /\ last = 0
    /\ sensors \in [Sensors -> {[on |-> FALSE, action |-> a, held |-> FALSE] : a \in BOOLEAN}]
    /\ turns = 0 /\ wheelCalls = 0 /\ loose = {} /\ swapped = {} /\ crashed = FALSE

(***************************************************************************)
(* Events.                                                                 *)
(***************************************************************************)

Turned == turns < MaxTurns /\ turns' = turns + 1 /\ ~crashed
       /\ UNCHANGED <<nodes, wheelCalls, loose, crashed>>

\* Mutant: a gesture the wheel turns away from is released and not started.
RestartLess(fun, d) == IF d \in DOMAIN fun THEN [fun EXCEPT ![d] = Release(@, FALSE)]
                       ELSE fun
Restart(fun, d) == IF d \in DOMAIN fun
                   THEN [fun EXCEPT ![d] = Press(Release(@, FALSE), TRUE)] ELSE fun
Turn(fun, d, by) == IF d \in DOMAIN fun THEN [fun EXCEPT ![d] = Move(@, by)] ELSE fun

\* _handleScroll: after a pause of a second both gestures start anew, and
\* when the wheel turns back the one it has left does.
handleScroll(by, paused) ==
    /\ Turned
    /\ LET rested == IF paused THEN Restart(Restart(scroll, "up"), "down") ELSE scroll
           before == IF paused THEN 0 ELSE last
       IN  \/ /\ by > 0 /\ last' = 1
              /\ scroll' = Turn(IF before = -1 THEN Restart(rested, "down") ELSE rested,
                                "up", by)
           \/ /\ by < 0 /\ last' = -1
              /\ scroll' = Turn(IF before = 1 THEN Restart(rested, "up") ELSE rested,
                                "down", -by)
           \/ by = 0 /\ last' = before /\ scroll' = rested
    /\ UNCHANGED <<thumb, sensors, swapped>>

\* A sensor that changes presses or releases its action.
Sense(s, on) == IF s.on = on THEN s
                ELSE [s EXCEPT !.on = on, !.held = on /\ s.action]

Everywhere(fun, Op(_)) == [d \in DOMAIN fun |-> Op(fun[d])]
ThumbTurned(by, status) ==
    LET Begin(g)  == IF status = "start" THEN Press(g, TRUE) ELSE g
        End(g)    == IF status = "stop" THEN Release(g, FALSE) ELSE g
        begun     == Everywhere(thumb, Begin)
        d         == IF by > 0 THEN "right" ELSE "left"
        size      == IF by > 0 THEN by ELSE -by
        turned    == IF by # 0 /\ d \in DOMAIN begun
                     THEN [begun EXCEPT ![d] = Move(Press(@, TRUE), size)] ELSE begun
    IN  Everywhere(turned, End)

\* _handleEvent: each event that turns the wheel starts its gesture anew.
handleThumb(by, status, on) ==
    /\ Turned
    /\ sensors' = [s \in Sensors |-> Sense(sensors[s], on[s])]
    /\ swapped' = {s \in swapped : on[s] = sensors[s].on}
    /\ thumb' = IF status = "inactive" THEN thumb ELSE ThumbTurned(by, status)
    /\ UNCHANGED <<scroll, last>>

(***************************************************************************)
(* Calls of the bus, and the profile.                                      *)
(***************************************************************************)

WheelCalled == wheelCalls < MaxWheelCalls /\ wheelCalls' = wheelCalls + 1
            /\ ~crashed /\ UNCHANGED <<last, turns>>

\* SetUp and SetDown. A kind that is not for wheels is refused after it was
\* made: it stays, its configuration is destroyed and its node given up, so
\* that there is none for the next.
setScroll(d, kind) ==
    /\ WheelCalled
    /\ IF d \notin nodes
       THEN crashed' = TRUE /\ UNCHANGED <<scroll, nodes, loose>>
       ELSE LET new == Gesture(kind)
            IN  /\ scroll' = With(scroll, d, IF wheelCompatibility(new)
                                             THEN Press(new, TRUE) ELSE new)
                /\ nodes' = IF wheelCompatibility(new) THEN nodes ELSE nodes \ {d}
                /\ loose' = IF wheelCompatibility(new) THEN loose \ {d} ELSE loose \cup {d}
                /\ UNCHANGED crashed
    /\ UNCHANGED <<thumb, sensors, swapped>>

\* SetLeft and SetRight: a kind that is not for wheels leaves no gesture.
setThumb(d, kind) ==
    /\ WheelCalled
    /\ thumb' = IF wheelCompatibility(Gesture(kind))
                THEN With(thumb, d, Press(Gesture(kind), TRUE)) ELSE Without(thumb, d)
    /\ UNCHANGED <<scroll, nodes, sensors, loose, swapped, crashed>>

\* SetProxy and SetTouch: nothing releases the action that is replaced.
setSensor(s, action) ==
    /\ WheelCalled
    /\ sensors' = [sensors EXCEPT ![s].action = action, ![s].held = FALSE]
    /\ swapped' = IF sensors[s].on THEN swapped \cup {s} ELSE swapped
    /\ UNCHANGED <<scroll, nodes, thumb, loose, crashed>>

setWheelProfile(layout, action) ==
    /\ WheelCalled
    /\ scroll' = ScrollOf(layout) /\ thumb' = ThumbOf(layout) /\ loose' = {}
    /\ sensors' = [s \in Sensors |-> [sensors[s] EXCEPT !.action = action, !.held = FALSE]]
    /\ swapped' = swapped \cup {s \in Sensors : sensors[s].on}
    /\ UNCHANGED <<nodes, crashed>>

WheelNext ==
    \/ \E by \in Turns : \/ \E paused \in BOOLEAN : handleScroll(by, paused)
                         \/ \E status \in {"inactive", "start", "active", "stop"},
                               on \in [Sensors -> BOOLEAN] : handleThumb(by, status, on)
    \/ \E kind \in Kinds \ {"OnThreshold"} :
           \/ \E d \in {"up", "down"} : setScroll(d, kind)
           \/ \E d \in {"left", "right"} : setThumb(d, kind)
    \/ \E action \in BOOLEAN : \/ \E s \in Sensors : setSensor(s, action)
                               \/ \E layout \in WheelLayouts : setWheelProfile(layout, action)

WheelSpec == WheelInit /\ [][WheelNext]_wheelVars

(***************************************************************************)
(* Properties.                                                             *)
(***************************************************************************)

AtRest(d) == d \in DOMAIN scroll =>
                 scroll[d].ran = 0 /\ scroll[d].moved = 0 /\ scroll[d].passes = 0

\* The gesture the wheel does not turn towards has done nothing since it was
\* started, so that turning to and fro never adds up; a gesture that is not
\* for wheels gets there from the configuration or is the rest of a refused
\* call, and only such a call lets the daemon crash.
WheelStartsAnew ==
    /\ last # 1 => AtRest("up")
    /\ last # -1 => AtRest("down")
    /\ crashed => nodes # {"up", "down"}
    /\ \A d \in loose : d \in DOMAIN scroll \ nodes

\* An action of the thumb wheel is held only while its sensor is on, and all
\* the while, unless it was replaced meanwhile: then the new one is not held,
\* and the old one was never released.
HeldWhileSensed ==
    \A s \in Sensors :
        /\ sensors[s].held => sensors[s].on /\ sensors[s].action
        /\ sensors[s].on /\ sensors[s].action /\ ~sensors[s].held => s \in swapped

\* Both: what a wheel sets in motion is bounded by its turn and its touch, also
\* when gestures and actions are replaced meanwhile.
WheelsAgree == WheelStartsAnew /\ HeldWhileSensed
=============================================================================
