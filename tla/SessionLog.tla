----------------------------- MODULE SessionLog -----------------------------
(***************************************************************************)
(* The session log of crates/nanus-domain/src/session.rs and the decisions *)
(* crates/nanus-domain/src/agent.rs takes from it.                         *)
(*                                                                         *)
(* A log is a sequence of events.  An event keeps the fields the loop's    *)
(* control depends on: which turn or step it frames, which calls it names, *)
(* which model it is attributed to.  Text is present or absent, arguments  *)
(* and contents are left out.                                              *)
(***************************************************************************)
EXTENDS Naturals, Sequences, FiniteSets, FiniteSetsExt, Subsequences

(***************************************************************************)
(* The events.  A call is a record [id, tool].                             *)
(***************************************************************************)
TurnStart(t)   == [type |-> "TurnStart", turn |-> t]
TurnEnd(t, r)  == [type |-> "TurnEnd", turn |-> t, reason |-> r]
StepStart(t, s) == [type |-> "StepStart", turn |-> t, step |-> s]
StepEnd(t, s)  == [type |-> "StepEnd", turn |-> t, step |-> s]
UserMessage    == [type |-> "UserMessage"]
GoalChange     == [type |-> "GoalChange"]
ToolCall(c)    == [type |-> "ToolCall", id |-> c.id, tool |-> c.tool]
ToolResult(i)  == [type |-> "ToolResult", id |-> i]
AssistantMessage(text, calls, cut, model) ==
    [type |-> "AssistantMessage", text |-> text, calls |-> calls,
     interrupted |-> cut, model |-> model]

Reasons  == {"Completed", "MaxSteps", "MaxTokens", "Error", "Interrupted"}
Outcomes == {"FinalAnswer", "ToolCalls", "MaxTokens", "Error", "Interrupted"}

-----------------------------------------------------------------------------
(***************************************************************************)
(* Queries on a log.                                                       *)
(***************************************************************************)
Positions(log, kind) == {i \in DOMAIN log : log[i].type = kind}

\* The last position holding an event of this kind; 0 when there is none.
LastOf(log, kind) == Max({0} \cup Positions(log, kind))

CurrentTurn(log) ==
    LET last == LastOf(log, "TurnStart") IN IF last = 0 THEN 0 ELSE log[last].turn

StepsInTurn(log, t) ==
    Cardinality({i \in Positions(log, "StepStart") : log[i].turn = t})

\* The scan pushes a call unless it is open already and a result removes it,
\* so a call is open exactly when no result follows its last announcement.
OpenToolCalls(log) ==
    {log[i].id : i \in {i \in Positions(log, "ToolCall") :
        \A j \in Positions(log, "ToolResult") : j > i => log[j].id # log[i].id}}

-----------------------------------------------------------------------------
(***************************************************************************)
(* The fold that replays a log to a model.  `answered' is every id some    *)
(* result in the whole log carries, wherever it stands.                    *)
(***************************************************************************)
Answered(log) == {log[i].id : i \in Positions(log, "ToolResult")}

Skipped == [role |-> "none"]

\* Wrong: the calls nothing answers travel too.
FoldAssistantWhole(e, answered) ==
    IF e.text \/ e.calls # <<>> THEN [role |-> "assistant", calls |-> e.calls] ELSE Skipped

FoldAssistant(e, answered) ==
    LET survivors == {e.calls[k] : k \in {k \in DOMAIN e.calls : e.calls[k].id \in answered}}
        calls == Only(e.calls, survivors)
    IN  IF e.text \/ calls # <<>>
        THEN [role |-> "assistant", calls |-> calls]
        ELSE Skipped

FoldEvent(e, answered) ==
    CASE e.type = "UserMessage"      -> [role |-> "user"]
      [] e.type = "AssistantMessage" -> FoldAssistant(e, answered)
      [] e.type = "ToolResult"       -> [role |-> "tool", id |-> e.id]
      [] OTHER                       -> Skipped

DeriveMessages(log) ==
    LET folded == [i \in DOMAIN log |-> FoldEvent(log[i], Answered(log))]
    IN  Only(folded, {folded[i] : i \in DOMAIN log} \ {Skipped})

-----------------------------------------------------------------------------
(***************************************************************************)
(* The turn machine: a function of the budget, the log and the outcome of  *)
(* the step that just ran.                                                 *)
(***************************************************************************)
\* Wrong: an interruption goes on like a tool step.
TerminalUnlessCut(outcome) == outcome \in {"Error", "MaxTokens"}

TerminalOutcome(outcome) == outcome \in {"Interrupted", "Error", "MaxTokens"}

\* Wrong: an answer closes the turn whatever is owed.
DecideAnswerFirst(log, outcome, budget) ==
    CASE TerminalOutcome(outcome)                     -> outcome
      [] outcome = "FinalAnswer"                      -> "Completed"
      [] StepsInTurn(log, CurrentTurn(log)) >= budget -> "MaxSteps"
      [] OTHER                                        -> "Continue"

\* Wrong: one step more than the budget.
DecideOneOver(log, outcome, budget) ==
    IF TerminalOutcome(outcome) THEN outcome
    ELSE IF StepsInTurn(log, CurrentTurn(log)) > budget THEN "MaxSteps"
    ELSE IF outcome = "FinalAnswer" /\ OpenToolCalls(log) = {} THEN "Completed"
    ELSE "Continue"

Decide(log, outcome, budget) ==
    IF TerminalOutcome(outcome) THEN outcome
    ELSE IF StepsInTurn(log, CurrentTurn(log)) >= budget THEN "MaxSteps"
    ELSE IF outcome = "FinalAnswer" /\ OpenToolCalls(log) = {} THEN "Completed"
    ELSE "Continue"
=============================================================================
