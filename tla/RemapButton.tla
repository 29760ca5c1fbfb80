----------------------------- MODULE RemapButton -----------------------------
(***************************************************************************)
(* The buttons of a device (logid/features/RemapButton.cpp), what their    *)
(* actions do to the virtual input (actions/KeypressAction.cpp,            *)
(* InputDevice.cpp) and what the device is told of each control. Three     *)
(* threads meet here: the reader presses, moves and releases what the      *)
(* device reports, the bus replaces one action at a time, and a worker     *)
(* switches the profile or configures a device that was reset.             *)
(***************************************************************************)
EXTENDS Naturals, Sequences, FiniteSets

CONSTANTS Buttons,     \* control numbers, in the order of the map
          Divertable,  \* controls with TemporaryDivertable
          RawXY,       \* controls with RawXY
          Keys,        \* key codes
          Profiles,    \* [profile -> [Buttons -> what is configured]]
          NewKeys,     \* lists of keys the bus may set
          MaxReports,  \* bound: reports of buttons or movement
          MaxChanges   \* bound: calls of the bus, switches and resets

ASSUME ControlsAssumption ==
    Buttons \subseteq Nat /\ IsFiniteSet(Buttons) /\ RawXY \subseteq Divertable

VARIABLES profile, profilesOf, \* the active profile, and the configurations
          action,    \* _action: kind, _keys, _pressed, and whether the
                     \* pointer moved it while it was not pressed
          reported,  \* _pressed_buttons
          report,    \* steps left of the reader's report
          newState,   \* the new_state of that report
          firstMove, \* _first_move
          diverted,  \* what the device was told last
          calling,   \* buttons the bus has replaced and will configure
          switching, \* buttons the worker will configure
          registered, down, \* the virtual input: known keys, keys held
          reports, changes,
          replaced,  \* history: pressed buttons whose action was replaced
          orphaned,  \* history: keys held by an action that is gone
          lost,      \* history: keys of a pressed action that came up
          unsettled  \* history: controls not told: refused or failed

buttonVars == <<profile, profilesOf, action, reported, report, newState, firstMove,
                diverted, calling, switching, registered, down, reports,
                changes, replaced, orphaned, lost, unsettled>>

\* "None" stands for every action that only notes that it is pressed (and
\* queues a task, see Settings); ChangeHost and ChangeProfile act when they
\* are released and note nothing: "OnLetGo".
ActionKinds == {"Default", "None", "Keypress", "Gesture", "OnLetGo"}
Remembers   == {"None", "Keypress", "Gesture"}

Entry(kind, keys) == [kind |-> kind, keys |-> keys]
Act(entry) == [kind |-> entry.kind, keys |-> entry.keys, pressed |-> FALSE, strayed |-> FALSE]

ButtonTypeOK ==
    /\ profile \in DOMAIN profilesOf
    /\ \A b \in Buttons : /\ action[b].kind \in ActionKinds /\ action[b].keys \subseteq registered
                          /\ action[b].pressed => action[b].kind \in Remembers
    /\ reported \cup newState \cup calling \cup switching \cup replaced \cup unsettled
           \subseteq Buttons
    /\ down \cup orphaned \cup lost \subseteq registered /\ registered \subseteq Keys
    /\ diverted \in [Buttons -> {"no", "buttons", "movement"}]

reprogFlags(a) == CASE a.kind = "Default" -> "no"
                    [] a.kind = "Gesture" -> "movement"
                    [] OTHER              -> "buttons"

ButtonInit ==
    /\ profilesOf = Profiles /\ profile \in DOMAIN Profiles
    /\ action = [b \in Buttons |-> Act(Profiles[profile][b])]
    /\ registered = UNION {Profiles[profile][b].keys : b \in Buttons}
    /\ diverted = [b \in Buttons |-> reprogFlags(action[b])]
    /\ reported = {} /\ report = << >> /\ newState = {}
    /\ firstMove = [b \in Buttons |-> FALSE]
    /\ calling = {} /\ switching = {} /\ down = {} /\ reports = 0 /\ changes = 0
    /\ replaced = {} /\ orphaned = {} /\ lost = {} /\ unsettled = {}

(***************************************************************************)
(* The reader.                                                             *)
(***************************************************************************)

NewReport == /\ report = << >> /\ reports < MaxReports /\ reports' = reports + 1
         /\ UNCHANGED <<profile, profilesOf, action, reported, firstMove, diverted,
                        calling, switching, registered, down, changes, replaced,
                        orphaned, lost, unsettled>>

\* A step for each control, in the order of the map.
Rank(b, set)  == Cardinality({c \in set : c <= b})
Each(do, set) == [n \in 1 .. Cardinality(set) |->
                     [do |-> do, of |-> CHOOSE b \in set : Rank(b, set) = n]]

\* A report names the controls that are pressed: the new ones are pressed,
\* then those that are missing are released.
_buttonEvent(state) ==
    /\ NewReport /\ state # reported
    /\ report' = Each("press", state \ reported) \o Each("release", reported \ state)
    /\ newState' = state

divertedRawXYEvent ==
    /\ NewReport /\ UNCHANGED newState /\ \E b \in Buttons : diverted[b] = "movement"
    /\ report' = Each("ask", Buttons)

ReportStep(do) == /\ report # << >> /\ Head(report).do = do
            /\ UNCHANGED <<profile, profilesOf, diverted, calling, switching, registered,
                           reports, changes, unsettled, newState>>
Button == Head(report).of
Onward == /\ report' = Tail(report)
          /\ reported' = IF report' = << >> THEN newState ELSE reported

\* Keys that a pressed action other than that of b has down.
HeldByOthers(b) == UNION {action[c].keys : c \in {e \in Buttons \ {b} :
                              action[e].kind = "Keypress" /\ action[e].pressed}}

pressButton ==
    /\ ReportStep("press") /\ Onward
    /\ firstMove' = [firstMove EXCEPT ![Button] = TRUE]
    /\ action' = [action EXCEPT ![Button].pressed = @ \/ action[Button].kind \in Remembers]
    /\ LET keys == IF action[Button].kind = "Keypress" THEN action[Button].keys ELSE {}
       IN  down' = down \cup keys /\ lost' = lost \ keys
    /\ UNCHANGED <<replaced, orphaned>>

releaseButton ==
    /\ ReportStep("release") /\ Onward
    /\ action' = [action EXCEPT ![Button].pressed = FALSE, ![Button].strayed = FALSE]
    /\ LET keys == IF action[Button].kind = "Keypress" THEN action[Button].keys ELSE {}
       IN  /\ down' = down \ keys /\ orphaned' = orphaned \ keys
           /\ lost' = (lost \ keys) \cup (keys \cap HeldByOthers(Button))
    /\ replaced' = replaced \ {Button}
    /\ UNCHANGED firstMove

\* Mutant: the button is moved whether it is pressed or not.
askNothing ==
    /\ ReportStep("ask") /\ report' = Each("move", {Button}) \o Tail(report)
    /\ UNCHANGED <<action, reported, firstMove, down, replaced, orphaned, lost>>

\* pressed() and move() take the lock of the action one after the other. The
\* first movement after a press is dropped.
askPressed ==
    /\ ReportStep("ask")
    /\ report' = (IF action[Button].pressed THEN Each("move", {Button}) ELSE << >>)
                 \o Tail(report)
    /\ UNCHANGED <<action, reported, firstMove, down, replaced, orphaned, lost>>

moveButton ==
    /\ ReportStep("move") /\ Onward
    /\ IF action[Button].kind # "Default" /\ ~firstMove[Button]
       THEN /\ action' = [action EXCEPT ![Button].strayed = @ \/ ~action[Button].pressed]
            /\ UNCHANGED firstMove
       ELSE firstMove' = [firstMove EXCEPT ![Button] = FALSE] /\ UNCHANGED action
    /\ UNCHANGED <<down, replaced, orphaned, lost>>

(***************************************************************************)
(* What replaces actions.                                                  *)
(***************************************************************************)

Changes == changes < MaxChanges /\ changes' = changes + 1
        /\ UNCHANGED <<reported, report, newState, firstMove, reports>>

\* A key that is new to the virtual input has it destroyed and made again,
\* which lets go of every key that is held.
Register(keys) ==
    /\ registered' = registered \cup keys
    /\ down' = IF keys \subseteq registered THEN down ELSE {}

\* The actions of some buttons are destroyed, without a release, and made
\* from their configuration.
KeysHeld(b) == IF action[b].kind = "Keypress" /\ action[b].pressed THEN action[b].keys \cap down
           ELSE {}
Replace(set, entry) ==
    /\ action' = [b \in Buttons |-> IF b \in set THEN Act(entry[b]) ELSE action[b]]
    /\ Register(UNION {entry[b].keys : b \in set})
    /\ replaced' = replaced \cup (set \cap (reported \cup newState))
    /\ orphaned' = (orphaned \cup UNION {KeysHeld(b) : b \in set}) \cap down'
    /\ lost' = lost \cup (down \ down')

\* SetAction: the action is replaced under its lock and the control
\* configured after that. A type the daemon does not know leaves the
\* configuration, but no action, and the control as it was.
setButtonAction(b, kind) ==
    /\ Changes /\ b \in Divertable /\ calling = {}
    /\ kind = "Gesture" => b \in RawXY
    /\ LET entry == Entry(kind, {})
       IN  IF kind \in ActionKinds
           THEN /\ Replace({b}, [c \in {b} |-> entry])
                /\ profilesOf' = [profilesOf EXCEPT ![profile][b] = entry]
                /\ calling' = {b} /\ UNCHANGED unsettled
           ELSE /\ Replace({b}, [c \in {b} |-> Entry("Default", {})])
                /\ unsettled' = unsettled \cup {b} /\ UNCHANGED <<profilesOf, calling>>
    /\ UNCHANGED <<profile, diverted, switching>>

\* SetKeys lets go of the keys it replaces, if the action is pressed.
setKeys(b, keys) ==
    /\ Changes /\ action[b].kind = "Keypress" /\ calling = {}
    /\ LET let == IF action[b].pressed THEN action[b].keys ELSE {}
       IN  /\ registered' = registered \cup keys
           /\ down' = IF keys \subseteq registered THEN down \ let ELSE {}
           /\ orphaned' = (orphaned \ let) \cap down'
           /\ lost' = (lost \cup (down \ down')) \cup (IF action[b].pressed THEN keys ELSE {})
    /\ action' = [action EXCEPT ![b].keys = keys]
    /\ profilesOf' = [profilesOf EXCEPT ![profile][b].keys = keys]
    /\ UNCHANGED <<profile, diverted, calling, switching, replaced, unsettled>>

\* setProfile waits for the reader's report, but not for one of movement, and
\* may come between pressed() and move(); configure follows, unlocked.
Moving == \A n \in 1 .. Len(report) : report[n].do \in {"ask", "move"}
setButtonProfile(p) ==
    /\ Changes /\ switching = {} /\ Moving
    /\ profile' = p /\ Replace(Buttons, profilesOf[p])
    /\ switching' = Buttons
    /\ UNCHANGED <<profilesOf, diverted, calling, unsettled>>

\* A device that was off has forgotten what it was told.
resetAndConfigure ==
    /\ Changes /\ switching = {}
    /\ diverted' = [b \in Buttons |-> "no"] /\ switching' = Buttons
    /\ UNCHANGED <<profile, profilesOf, action, calling, registered, down, replaced,
                   orphaned, lost, unsettled>>

\* The transfer is made under the lock of the action. One that fails ends
\* the call, or the configuration of the buttons that are left.
configureButton(b, done) ==
    /\ diverted' = IF done THEN [diverted EXCEPT ![b] = reprogFlags(action[b])] ELSE diverted
    /\ UNCHANGED <<profile, profilesOf, action, reported, report, newState, firstMove,
                   registered, down, reports, changes, replaced, orphaned, lost>>

configureCalled(done) == \E b \in calling :
    /\ configureButton(b, done) /\ calling' = {} /\ UNCHANGED switching
    /\ unsettled' = IF done THEN unsettled \ {b} ELSE unsettled \cup {b}

configureSwitched(done) ==
    /\ switching # {} /\ UNCHANGED calling
    /\ LET b == CHOOSE b \in switching : \A c \in switching : b <= c
       IN  /\ configureButton(b, done)
           /\ switching' = IF done THEN switching \ {b} ELSE {}
           /\ unsettled' = IF done THEN unsettled \ {b} ELSE unsettled \cup switching

ButtonNext ==
    \/ \E state \in SUBSET Buttons : _buttonEvent(state)
    \/ divertedRawXYEvent \/ pressButton \/ releaseButton \/ askPressed \/ moveButton
    \/ \E b \in Buttons : \/ \E kind \in ActionKinds \cup {"unknown"} : setButtonAction(b, kind)
                          \/ \E keys \in NewKeys : setKeys(b, keys)
    \/ \E p \in DOMAIN profilesOf : setButtonProfile(p)
    \/ resetAndConfigure
    \/ \E done \in BOOLEAN : configureCalled(done) \/ configureSwitched(done)

ButtonSpec == ButtonInit /\ [][ButtonNext]_buttonVars

(***************************************************************************)
(* Properties.                                                             *)
(***************************************************************************)

\* Between two reports, an action knows it is pressed just when its button
\* is, and the pointer never moves one that is not; except an action that
\* came while its button was pressed.
PressedIsReported ==
    report = << >> =>
        \A b \in Buttons \ replaced :
            /\ action[b].kind \in Remembers => (action[b].pressed <=> b \in reported)
            /\ ~action[b].strayed

\* Between two reports, every key that is down belongs to an action that is
\* pressed, or to one that was replaced while it was; and every key of a
\* pressed action is down, unless the virtual input was made anew since, the
\* keys were set since, or another button with that key was released.
KeysAreHeld ==
    report = << >> =>
        LET held == UNION {action[b].keys : b \in {c \in Buttons :
                               action[c].kind = "Keypress" /\ action[c].pressed}}
        IN  down \subseteq held \cup orphaned /\ held \subseteq down \cup lost

\* When no configuration is on its way, the device diverts a control as its
\* action needs it, unless a type was refused or a transfer failed.
DivertedAsNeeded ==
    \A b \in Buttons \ (calling \cup switching \cup unsettled) :
        diverted[b] = reprogFlags(action[b])

\* The three of a button: its action, its keys and its control agree, however
\* reports, calls and profile switches interleave.
ButtonsAgree == PressedIsReported /\ KeysAreHeld /\ DivertedAsNeeded
=============================================================================
