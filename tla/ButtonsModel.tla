---------------------------- MODULE ButtonsModel ----------------------------
(***************************************************************************)
(* Reassigning a button in the GUI (logiops-gui/ButtonsModel.cpp). An edit *)
(* is two calls: SetAction makes the daemon build the action, and only its *)
(* success lets the second set the action's parameter. The row shows the   *)
(* intent at once; the daemon is then read back by asking for the          *)
(* interface of one type of action after the other.                        *)
(*                                                                         *)
(* One remappable button: rows share nothing. The bus keeps the order of   *)
(* the calls and of the replies; the daemon is the code of                 *)
(* features/RemapButton.cpp as far as an answer shows it.                  *)
(***************************************************************************)
EXTENDS Naturals, Sequences, FiniteSets

CONSTANTS ActionTypes, \* kActionTypes without "None": the order of probes
          Parametric,  \* those that take a parameter
          Params,      \* parameters an edit may give
          MaxEdits     \* bound: edits in a behaviour

VARIABLES bound,    \* type of the action the button has, or "None"
          param,    \* its parameter, or 0 as made
          btnCalls, \* calls on their way to the daemon
          btnMail,  \* replies on their way to the GUI
          shown,    \* currentActionType of the row, or "absent"
          edits,    \* edits so far
          accepted, \* history: the last edit the daemon took
          misread   \* history: what may have left the row wrong

buttonVars == <<bound, param, btnCalls, btnMail, shown, edits, accepted, misread>>

Types    == {ActionTypes[n] : n \in 1 .. Len(ActionTypes)}
Untyped  == {"None", "Default"}  \* no action: swallowed, or handled natively
ASSUME ActionTypesAssumption ==
    /\ ActionTypes \in Seq(STRING) /\ ActionTypes # << >>
    /\ Types \cap Untyped = {} /\ Parametric \subseteq Types
Present(t) == IF t \in Untyped THEN "None" ELSE t
Edit     == [type : Types \cup Untyped, value : Params \cup {0}]

SetActionCall(e)  == [op |-> "SetAction", edit |-> e]
SetParamCall(e)   == [op |-> "SetParam", edit |-> e]
ProbeCall(n)      == [op |-> "GetAll", at |-> n]

ButtonTypeOK ==
    /\ bound \in Types \cup {"None"} /\ param \in Params \cup {0}
    /\ shown \in Types \cup Untyped \cup {"absent"} /\ edits \in 0 .. MaxEdits
    /\ accepted \in Edit
    /\ misread \subseteq {"refused", "halfway", "untaken", "unanswered", "overlap"}

\* The constructor has called enumerate().
ButtonInit ==
    /\ bound \in Types \cup {"None"} /\ param = 0
    /\ btnCalls = <<[op |-> "Enumerate"]>> /\ btnMail = << >>
    /\ shown = "absent" /\ edits = 0
    /\ accepted = [type |-> bound, value |-> 0] /\ misread = {}

(***************************************************************************)
(* The daemon answers the next call.                                       *)
(***************************************************************************)

Reply(call, ok) == btnMail' = Append(btnMail, [call |-> call, ok |-> ok])

\* setAction of the button: it may be refused, and it may fail when the
\* device is configured, after the action was replaced. What went wrong with
\* the parameter of an earlier action is past then.
AnswerSetAction(call) ==
    /\ call.op = "SetAction"
    /\ \/ /\ bound' = Present(call.edit.type) /\ param' = 0
          /\ accepted' = [type |-> bound', value |-> call.edit.value]
          /\ \/ Reply(call, TRUE) /\ misread' = misread \ {"halfway", "untaken"}
             \/ Reply(call, FALSE) /\ misread' = (misread \ {"untaken"}) \cup {"halfway"}
       \/ Reply(call, FALSE) /\ UNCHANGED <<bound, param, accepted, misread>>

\* The interface of the type may be gone. Where it is there the setter may
\* throw or be refused for the type of its argument (SetChange is sent an int
\* where the daemon takes an int16), or the answer may be late.
AnswerSetParam(call) ==
    /\ call.op = "SetParam"
    /\ \/ /\ bound = call.edit.type /\ param' = call.edit.value
          /\ \E ok \in BOOLEAN : Reply(call, ok)
          /\ misread' = misread \ {"untaken"}
       \/ /\ Reply(call, FALSE) /\ UNCHANGED param
          /\ misread' = IF bound = call.edit.type THEN misread \cup {"untaken"}
                        ELSE misread
    /\ UNCHANGED <<bound, accepted>>

\* A read that the daemon does not answer in time looks like an absent
\* interface.
AnswerProbe(call) ==
    /\ call.op = "GetAll"
    /\ \/ Reply(call, bound = ActionTypes[call.at]) /\ UNCHANGED misread
       \/ /\ bound = ActionTypes[call.at] /\ Reply(call, FALSE)
          /\ misread' = misread \cup {"unanswered"}
    /\ UNCHANGED <<bound, param, accepted>>

AnswerEnumerate(call) ==
    /\ call.op = "Enumerate"
    /\ \E ok \in BOOLEAN : Reply(call, ok)
    /\ UNCHANGED <<bound, param, accepted, misread>>

ButtonAnswered ==
    /\ btnCalls # << >> /\ btnCalls' = Tail(btnCalls)
    /\ LET call == Head(btnCalls)
       IN  \/ AnswerSetAction(call) \/ AnswerSetParam(call)
           \/ AnswerProbe(call) \/ AnswerEnumerate(call)
    /\ UNCHANGED <<shown, edits>>

(***************************************************************************)
(* The GUI.                                                                *)
(***************************************************************************)

Send(call) == btnCalls' = Append(btnCalls, call)

ReadingBack == \E n \in 1 .. Len(btnCalls) : btnCalls[n].op = "GetAll"
ReadReturns == \E n \in 1 .. Len(btnMail) : btnMail[n].call.op = "GetAll"

\* The public setters: SetAction, then the optimistic row. What follows the
\* reply of SetAction is chained to it; what went wrong with the row before is
\* past, unless an earlier edit is being read back.
EditButton(e) ==
    /\ edits < MaxEdits /\ edits' = edits + 1
    /\ shown # "absent"
    /\ Send(SetActionCall(e))
    /\ shown' = e.type
    /\ misread' = IF ReadingBack \/ ReadReturns THEN misread \cup {"overlap"}
                  ELSE misread \ {"overlap", "refused", "unanswered"}
    /\ UNCHANGED <<bound, param, btnMail, accepted>>

setAction(t) == t \in Types \ Parametric /\ EditButton([type |-> t, value |-> 0])
setParametric(t, v) == t \in Parametric /\ EditButton([type |-> t, value |-> v])
restoreDefault == EditButton([type |-> "Default", value |-> 0])
clearAction == EditButton([type |-> "None", value |-> 0])

\* performParamCall fires when SetAction succeeded; the others read back.
SetActionReplied(call, ok) ==
    /\ call.op = "SetAction"
    /\ \/ /\ call.edit.type \notin Parametric
          /\ Send(ProbeCall(1)) /\ UNCHANGED misread
       \/ /\ call.edit.type \in Parametric /\ ok
          /\ Send(SetParamCall(call.edit)) /\ UNCHANGED misread
       \/ /\ call.edit.type \in Parametric /\ ~ok
          /\ misread' = misread \cup {"refused"} /\ UNCHANGED btnCalls
    /\ UNCHANGED shown

SetParamReplied(call) ==
    call.op = "SetParam" /\ Send(ProbeCall(1)) /\ UNCHANGED <<shown, misread>>

\* doReconcile: the first type whose interface answers is the row's; when
\* none does, the row is "None" unless it says "Default" already.
TypeProbed(call, ok) ==
    /\ call.op = "GetAll"
    /\ \/ ok /\ shown' = ActionTypes[call.at] /\ UNCHANGED btnCalls
       \/ /\ ~ok /\ call.at < Len(ActionTypes)
          /\ Send(ProbeCall(call.at + 1)) /\ UNCHANGED shown
       \/ /\ ~ok /\ call.at = Len(ActionTypes)
          /\ shown' = IF shown \in Untyped THEN shown ELSE "None"
          /\ UNCHANGED btnCalls
    /\ UNCHANGED misread

\* The rows are read with blocking calls while the reply is handled: the type
\* whose probe is answered, and a probe that fails looks like no action.
RowsEnumerated(call, ok) ==
    /\ call.op = "Enumerate"
    /\ \/ ok /\ shown' = bound /\ UNCHANGED misread
       \/ ok /\ bound # "None" /\ shown' = "None" /\ misread' = misread \cup {"unanswered"}
       \/ ~ok /\ UNCHANGED <<shown, misread>>
    /\ UNCHANGED btnCalls

ButtonReplied ==
    /\ btnMail # << >> /\ btnMail' = Tail(btnMail)
    /\ LET m == Head(btnMail)
       IN  \/ SetActionReplied(m.call, m.ok) \/ SetParamReplied(m.call)
           \/ TypeProbed(m.call, m.ok) \/ RowsEnumerated(m.call, m.ok)
    /\ UNCHANGED <<bound, param, edits, accepted>>

ButtonNext ==
    \/ \E t \in Types : setAction(t) \/ \E v \in Params : setParametric(t, v)
    \/ restoreDefault \/ clearAction
    \/ ButtonAnswered
    \/ ButtonReplied

ButtonSpec == ButtonInit /\ [][ButtonNext]_buttonVars

ButtonQuiet == btnCalls = << >> /\ btnMail = << >>

\* Once every call is answered the row names the action the daemon has, unless
\* SetAction of a parametric type failed (nothing reads back then), a read was
\* not answered, or the last edit was made while the read-back of an earlier one
\* was under way (it goes on from the type it has come to, may end last, and
\* then shows "None"). And the parameter is that of the last edit whose action
\* the daemon made, never that of an older one, unless that edit failed after
\* its action was made or its parameter was not taken (nothing reads the
\* parameter back).
RowIsBinding ==
    ButtonQuiet =>
        /\ misread \subseteq {"halfway", "untaken"} /\ shown # "absent" =>
               Present(shown) = bound
        /\ accepted.type = bound
        /\ misread \cap {"halfway", "untaken"} = {} => accepted.value = param
=============================================================================
