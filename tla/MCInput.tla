------------------------------- MODULE MCInput -------------------------------
(***************************************************************************)
(* The input side of a device: the gestures of a button, those of the      *)
(* wheels, the buttons and the settings their actions change. They share   *)
(* what a gesture is and the device they belong to, but no state, so that  *)
(* a behaviour exercises one: its focus.                                   *)
(***************************************************************************)
EXTENDS GestureAction, Wheels, RemapButton, Settings
VARIABLE focus

MCMoves == {-3, 0, 2}
MCIntervals == {-1, 1}
MCTurns == {-1, 0, 3}
MCLayouts == {
    [d \in {"up", "down", "none"} |-> "OnRelease"],
    [d \in {"left", "right"} |-> IF d = "left" THEN "OnInterval" ELSE "Axis"],
    [d \in {"down", "left", "none"} |-> IF d = "none" THEN "None" ELSE "OnThreshold"]}
MCWheelLayouts == {
    [d \in {"up", "left"} |-> "Axis"],
    [d \in {"up", "down", "right"} |-> IF d = "up" THEN "OnInterval" ELSE "OnThreshold"]}

MCProfiles == <<
    [b \in Buttons |-> IF b = 1 THEN Entry("Gesture", {}) ELSE Entry("Keypress", {1, 2})],
    [b \in Buttons |-> Entry("Keypress", {1, 3})]>>

Choice(bits, on, threshold0, kind, values) ==
    [wheel |-> bits, on |-> on, threshold |-> threshold0,
     dpi |-> [kind |-> kind, values |-> values]]
MCGiven == {
    Choice([b \in {"hires"} |-> TRUE], {TRUE}, {0}, "one", <<18>>),
    Choice([b \in {"target"} |-> TRUE], {}, {5}, "list", <<9, 6>>)}
MCBits == {"hires", "target"}
MCDpiLists == <<[values |-> {2, 9}, step |-> 0], [values |-> {2, 10}, step |-> 4]>>
MCIncrements == {-4}

inputVars == <<focus, gestureVars, wheelVars, buttonVars, settingVars>>

\* What is not in focus starts in one state.
InputInit ==
    /\ focus \in {"gestures", "wheels", "buttons", "settings"}
    /\ GestureInit /\ WheelInit /\ ButtonInit /\ SettingInit
    /\ focus # "gestures" => DOMAIN gestures = {"left", "right"}
    /\ focus # "wheels" => DOMAIN thumb = {"left"} /\ \A s \in Sensors : sensors[s].action
    /\ profile = 1
    /\ focus # "settings" => conf.on = {}

InputNext ==
    \/ /\ focus = "gestures" /\ GestureNext
       /\ UNCHANGED <<focus, wheelVars, buttonVars, settingVars>>
    \/ /\ focus = "wheels" /\ WheelNext
       /\ UNCHANGED <<focus, gestureVars, buttonVars, settingVars>>
    \/ /\ focus = "buttons" /\ ButtonNext
       /\ UNCHANGED <<focus, gestureVars, wheelVars, settingVars>>
    \/ /\ focus = "settings" /\ SettingNext
       /\ UNCHANGED <<focus, gestureVars, wheelVars, buttonVars>>

InputSpec == InputInit /\ [][InputNext]_inputVars

\* What tells two states of a focus apart.
view == <<focus, CASE focus = "gestures" -> gestureVars [] focus = "wheels" -> wheelVars
                   [] focus = "buttons" -> buttonVars [] OTHER -> settingVars>>

InputTypeOK == GestureTypeOK /\ WheelTypeOK /\ ButtonTypeOK /\ SettingTypeOK
=============================================================================
