------------------------------- MODULE MCGui -------------------------------
(***************************************************************************)
(* The GUI: the connection and its list, the settings of a device, its     *)
(* profiles, a button and a direction of its gestures. They share only the *)
(* order of the bus, so that a behaviour exercises one of them: its focus. *)
(* Another focus is the file that their saves go to.                       *)
(***************************************************************************)
EXTENDS DaemonConnection, DeviceController, ProfilesModel, ButtonsModel,
        GestureModel, ConfigFile
CONSTANTS n1, n2, n3, n4
VARIABLE focus

ButtonTypes  == <<"Keypress", "ChangeHost", "ToggleSmartShift", "Gesture">>
GestureModes == <<"OnInterval", "OnRelease", "None">>

Bare(d, l) == [name |-> "mouse", default |-> "missing", profiles |-> {}, dpi |-> d, presets |-> l]
Whole(d, l) == [Bare("800", {}) EXCEPT !.default = d, !.profiles = {l}]
Section(n, d) == [Bare(d, {}) EXCEPT !.name = n]

\* A device as in logid.example.cfg, with errors, and without devices; with
\* profiles, a name twice and one missing; without its default profile.
GuiFiles == {
    [devices |-> {}, ignore |-> {}],
    [devices |-> {<<Bare("800", {<<"400", "bad">>})>>}, ignore |-> {{"1"}}],
    [devices |-> {<<Bare("other", {})>>}, ignore |-> {}],
    [devices |-> {<<Whole("work", <<Section("default", "list"), Section("default", "800"),
                                    Section("missing", "800")>>),
                    Bare("800", {})>>}, ignore |-> {{}}],
    [devices |-> {<<Whole("default", <<Section("default", "800"), Section("work", "other")>>)>>},
     ignore |-> {}],
    [devices |-> {<<Whole("missing", <<Section("work", "800")>>)>>}, ignore |-> {}]}

guiAll == <<focus, connVars, controllerVars, profileVars, buttonVars, gestureVars, fileVars>>

GuiInit ==
    /\ focus \in {"list", "settings", "profiles", "button", "gesture", "file"}
    /\ ConnInit /\ ControllerInit /\ ProfileInit /\ ButtonInit /\ GestureInit
    /\ FileInit
    /\ focus # "list" => up /\ allowed /\ listed = {}
    /\ profiles = IF focus = "profiles" THEN Names \ {n4} ELSE {Standard}
    /\ focus # "button" => bound = "None"
    /\ focus # "gesture" => gesture.mode = ""
    /\ focus # "file" => file = NoFile

Only(part, vs) == focus = part /\ UNCHANGED <<focus, vs>>

GuiNext ==
    \/ Only("list", <<controllerVars, profileVars, buttonVars, gestureVars, fileVars>>) /\ ConnNext
    \/ Only("settings", <<connVars, profileVars, buttonVars, gestureVars, fileVars>>) /\ ControllerNext
    \/ Only("profiles", <<connVars, controllerVars, buttonVars, gestureVars, fileVars>>) /\ ProfileNext
    \/ Only("button", <<connVars, controllerVars, profileVars, gestureVars, fileVars>>) /\ ButtonNext
    \/ Only("gesture", <<connVars, controllerVars, profileVars, buttonVars, fileVars>>) /\ GestureNext
    \/ Only("file", <<connVars, controllerVars, profileVars, buttonVars, gestureVars>>) /\ FileNext

\* What tells two states of a focus apart.
guiView == <<focus, CASE focus = "list" -> connVars [] focus = "settings" -> controllerVars
                      [] focus = "profiles" -> profileVars [] focus = "button" -> buttonVars
                      [] focus = "gesture" -> gestureVars [] OTHER -> fileVars>>

GuiSpec == GuiInit /\ [][GuiNext]_guiAll

(***************************************************************************)
(* An editor of the device page, the row of a button or the panel of a     *)
(* direction, shows what the daemon has bound once every call is answered. *)
(* The exceptions are named in the two parts, RowIsBinding (ButtonsModel)  *)
(* and PanelIsGesture (GestureModel).                                      *)
(***************************************************************************)
EditorsTellTruth == RowIsBinding /\ PanelIsGesture

(***************************************************************************)
(* The values and the profiles that the device page shows are the daemon's *)
(* once every call is answered: ValuesAreDaemons (DeviceController) and    *)
(* ProfilesAreDaemons (ProfilesModel), with the exceptions named there.    *)
(***************************************************************************)
PageIsDaemons == ValuesAreDaemons /\ ProfilesAreDaemons
=============================================================================
