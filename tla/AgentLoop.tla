----------------------------- MODULE AgentLoop ------------------------------
(***************************************************************************)
(* One runner serving one session: AgentRunner::run_turn and               *)
(* run_turn_with_control of crates/nanus-bundle/src/agent_loop.rs, with    *)
(* agent_loop/{stream,dispatch,admission,records,selection}.rs.            *)
(*                                                                         *)
(* The loop is one future on a single-threaded executor.  `pc' names the   *)
(* point it stands at; Awaiting are the points where it is suspended and   *)
(* other code of the host runs: the model stream, the host's tool policy,  *)
(* the person asked for an approval, the tools in flight.  Only there can  *)
(* a host change the selection or the approval state, or drop the future.  *)
(* A stop may be signalled anywhere: its token may belong to another       *)
(* thread, and the loop's own callbacks into the host may set it.          *)
(***************************************************************************)
EXTENDS SessionLog, Integers

CONSTANTS
    MaxSteps,      \* AgentConfig::max_steps_per_turn
    MaxParallel,   \* AgentConfig::max_parallel_tools
    Tools,         \* the names a model may call
    Registered,    \* those the registry accepts
    GoalTools,     \* those the loop runs itself
    Contained,     \* those whose access the sandbox mode permits
    Safe,          \* those that `permitted' exempts: not destructive
    Models,        \* the models a host may select
    Features,      \* what the host wired: see FeatureNames
    HostPolicies,  \* the approval states the host moves between
    CanAbandon,    \* whether the host may drop a turn's future
    ReusedIds,     \* the call ids a provider may hand out again
    MaxTurns,      \* bound: turns explored
    MaxCalls       \* bound: calls in one model response

FeatureNames == {"control", "policy", "approver", "admission", "records"}
Policies == {"PerCall", "Permitted", "AllCalls"}

ASSUME BudgetAssumption   == MaxSteps \in Nat \ {0}
ASSUME ParallelAssumption == MaxParallel \in Nat \ {0}
ASSUME ToolAssumption ==
    Registered \subseteq Tools /\ GoalTools \subseteq Tools /\ Registered \cap GoalTools = {}
ASSUME FeatureAssumption  == Features \subseteq FeatureNames /\ CanAbandon \in BOOLEAN
ASSUME PolicyAssumption   == HostPolicies \subseteq Policies
ASSUME ModelAssumption    == "none" \notin Models
ASSUME IdAssumption       == ReusedIds \subseteq Nat

VARIABLES
    log,        \* the session's events
    pc,         \* where the turn's future stands
    stop,       \* the signals raised for this turn: "progress", "control"
    request,    \* the ChatRequest in flight: its model and its messages
    assembled,  \* Assembled: the response as streamed so far
    batch,      \* run_tools: calls, results, the call at the gate, the chunk in flight
    outcome,    \* what the step came to
    lease,      \* who owes the admission port: "none", "unreserved", "reserved"
    selection,  \* model in force, model pending behind a hold, whether a hold is out
    approval,   \* the approval state in force
    approved,   \* the tools approved for every session
    wanted,     \* history: the model the host last selected
    ledger      \* history: batches opened, released unreserved, retired by their lease

vars == <<log, pc, stop, request, assembled, batch, outcome, lease, selection,
          approval, approved, wanted, ledger>>

Awaiting == {"stream", "policy", "ask", "run"}
Points == Awaiting \cup
    {"idle", "loop", "begin", "record", "gate", "reserve", "goals", "chunk", "start",
     "endstep", "decide"}

None == "none"
Held == "admission" \in Features \/ "records" \in Features
Cancelled == stop # {}                    \* is_cancelled: either source
ControlCancelled == "control" \in stop    \* control.is_some_and(is_cancelled)
Signals == {"progress"} \cup (Features \cap {"control"})

NoRequest == [model |-> None, messages |-> <<>>]
NoResponse == [text |-> FALSE, calls |-> <<>>, finish |-> "Stop", interrupted |-> FALSE]
NoBatch == [calls |-> <<>>, results |-> <<>>, at |-> 0, chunk |-> {}]

\* What a call has come to.  "none" is a call the gate has not refused.
Settled == {"ran", "failed", "denied", "refused", "interrupted"}
CallStates == {"none", "running"} \cup Settled

Init ==
    /\ log = <<>>
    /\ pc = "idle"
    /\ stop = {}
    /\ request = NoRequest
    /\ assembled = NoResponse
    /\ batch = NoBatch
    /\ outcome = None
    /\ lease = "none"
    /\ \E m \in Models : selection = [model |-> m, pending |-> None, held |-> FALSE]
                         /\ wanted = m
    /\ approval \in HostPolicies
    /\ approved = {}
    /\ ledger = [opened |-> 0, released |-> 0, retired |-> 0]

settings == <<selection, approval, approved, wanted>>
admission == <<lease, ledger>>

-----------------------------------------------------------------------------
(***************************************************************************)
(* RAII: what dropping the step's selection hold and the batch's guard or  *)
(* lease does, on return and on an abandoned future alike.                 *)
(***************************************************************************)
\* Wrong: the hold is let go and what was queued behind it is forgotten.
HoldLosesPending(s) == [s EXCEPT !.held = FALSE, !.pending = None]

DropHold(s) ==
    [model   |-> IF s.held /\ s.pending # None THEN s.pending ELSE s.model,
     pending |-> None,
     held    |-> FALSE]

\* Wrong: nothing is given back.
DropNothing(kind, account) == account

DropLease(kind, account) ==
    CASE kind = "unreserved" -> [account EXCEPT !.released = @ + 1]
      [] kind = "reserved"   -> [account EXCEPT !.retired = @ + 1]
      [] OTHER               -> account

\* The turn's future is gone, with everything it owned.
ReturnToHost ==
    /\ pc' = "idle"
    /\ stop' = {}
    /\ outcome' = None

-----------------------------------------------------------------------------
(***************************************************************************)
(* run_controlled and drive_turn.                                          *)
(***************************************************************************)
\* A turn is started, perhaps under a control that was cancelled already.
\* With record admission the reservation may be refused, or is not asked for
\* under a stop: the session is then left as it was, which is no step here.
StartTurn ==
    /\ pc = "idle"
    /\ CurrentTurn(log) < MaxTurns
    /\ stop' \in {{}} \cup {{s} : s \in Signals}
    /\ "records" \in Features => stop' = {}
    /\ log' = log \o <<TurnStart(CurrentTurn(log) + 1), UserMessage>>
    /\ pc' = "loop"
    /\ UNCHANGED <<request, assembled, batch, outcome, admission, settings>>

\* The head of drive_turn's loop.
LoopTop ==
    /\ pc = "loop"
    /\ IF Cancelled
       THEN pc' = "decide" /\ outcome' = "Interrupted"
       ELSE pc' = "begin" /\ outcome' = None
    /\ UNCHANGED <<log, stop, request, assembled, batch, admission, settings>>

EndTurn(reason) == log' = Append(log, TurnEnd(CurrentTurn(log), reason))

\* decide after a step, and the record that closes the turn.  The host that
\* reserves records may refuse the closing one: the turn is then left open.
DecideTurn ==
    /\ pc = "decide"
    /\ LET verdict == Decide(log, outcome, MaxSteps)
       IN  \/ /\ verdict = "Continue"
              /\ pc' = "loop"
              /\ outcome' = None
              /\ UNCHANGED <<log, stop>>
           \/ /\ verdict # "Continue"
              /\ EndTurn(verdict)
              /\ ReturnToHost
           \/ /\ verdict # "Continue"
              /\ "records" \in Features
              /\ UNCHANGED log
              /\ ReturnToHost
    /\ UNCHANGED <<request, assembled, batch, admission, settings>>

-----------------------------------------------------------------------------
(***************************************************************************)
(* run_step: the hold, the opening record, the request.                    *)
(***************************************************************************)
ThisStep == StepsInTurn(log, CurrentTurn(log)) + 1
BuildRequest(l) == [model |-> selection.model, messages |-> DeriveMessages(l)]
Opened == Append(log, StepStart(CurrentTurn(log), ThisStep))
Took(s) == [s EXCEPT !.held = Held]

\* Without record admission the step is opened before the request is fitted,
\* and a request that cannot be fitted closes it again.
BeginStep ==
    /\ pc = "begin"
    /\ "records" \notin Features
    /\ \/ /\ log' = Opened
          /\ request' = BuildRequest(log')
          /\ selection' = Took(selection)
          /\ pc' = "stream"
          /\ UNCHANGED outcome
       \/ /\ log' = Append(Opened, StepEnd(CurrentTurn(log), ThisStep))
          /\ outcome' = "Error"
          /\ pc' = "decide"
          /\ UNCHANGED <<request, selection>>
    /\ UNCHANGED <<stop, assembled, batch, admission, approval, approved, wanted>>

\* With it the request is fitted and the step reserved before anything is
\* written; either may fail, and the stop is looked at once more.
BeginReservedStep ==
    /\ pc = "begin"
    /\ "records" \in Features
    /\ \/ /\ log' = Opened
          /\ selection' = Took(selection)
          /\ IF Cancelled
             THEN pc' = "endstep" /\ outcome' = "Interrupted" /\ UNCHANGED request
             ELSE pc' = "stream" /\ request' = BuildRequest(log) /\ UNCHANGED outcome
       \/ /\ outcome' = "Error"
          /\ pc' = "decide"
          /\ UNCHANGED <<log, request, selection>>
    /\ UNCHANGED <<stop, assembled, batch, admission, approval, approved, wanted>>

\* Wrong: the step's failure or interruption is returned before its closing record.
EndStepUnlessCut ==
    /\ pc = "endstep"
    /\ log' = IF outcome = "Interrupted" THEN log
              ELSE Append(log, StepEnd(CurrentTurn(log), StepsInTurn(log, CurrentTurn(log))))
    /\ UNCHANGED outcome
    /\ pc' = "decide"
    /\ request' = NoRequest
    /\ selection' = DropHold(selection)
    /\ UNCHANGED <<stop, assembled, batch, admission, approval, approved, wanted>>

\* end_step_records, then the hold is dropped with run_step's frame.  A refused
\* closing record is an error that replaces the step's own outcome.
EndStep ==
    /\ pc = "endstep"
    /\ \/ /\ log' = Append(log, StepEnd(CurrentTurn(log), StepsInTurn(log, CurrentTurn(log))))
          /\ UNCHANGED outcome
       \/ /\ "records" \in Features
          /\ outcome' = "Error"
          /\ UNCHANGED log
    /\ pc' = "decide"
    /\ request' = NoRequest
    /\ selection' = DropHold(selection)
    /\ UNCHANGED <<stop, assembled, batch, admission, approval, approved, wanted>>

-----------------------------------------------------------------------------
(***************************************************************************)
(* consume_stream and append_model_records.                                *)
(***************************************************************************)
Interrupt(a) == [a EXCEPT !.interrupted = TRUE, !.calls = <<>>]

\* Ids are opaque, so one never seen before may as well be the next number.
FreshId == 1 + Cardinality(Positions(log, "ToolCall")) + Len(assembled.calls)
CallIds == {FreshId} \cup ReusedIds

\* An event taken from the stream: words, the start of a call, the finish reason.
\* A call never named is dropped when the stream settles, so it is no event here.
StreamEvent ==
    /\ pc = "stream"
    /\ ~Cancelled
    /\ \/ /\ ~assembled.text
          /\ assembled' = [assembled EXCEPT !.text = TRUE]
       \/ /\ Len(assembled.calls) < MaxCalls
          /\ \E i \in CallIds, t \in Tools :
                assembled' = [assembled EXCEPT !.calls = Append(@, [id |-> i, tool |-> t])]
       \/ /\ assembled.finish = "Stop"
          /\ assembled' = [assembled EXCEPT !.finish = "Length"]
    /\ UNCHANGED <<log, pc, stop, request, batch, outcome, admission, settings>>

\* The provider's error event, or an image the model cannot take: nothing is kept.
StreamFails ==
    /\ pc = "stream"
    /\ ~Cancelled
    /\ outcome' = "Error"
    /\ assembled' = NoResponse
    /\ pc' = "endstep"
    /\ UNCHANGED <<log, stop, request, batch, admission, settings>>

\* The end of the stream.
StreamEnds ==
    /\ pc = "stream"
    /\ ~ControlCancelled
    /\ pc' = "record"
    /\ UNCHANGED <<log, stop, request, assembled, batch, outcome, admission, settings>>

\* A progress-only stop is heard when the stream next yields an event.
StreamStopped ==
    /\ pc = "stream"
    /\ Cancelled
    /\ assembled' = Interrupt(assembled)
    /\ pc' = "record"
    /\ UNCHANGED <<log, stop, request, batch, outcome, admission, settings>>

\* The last look at the stop, before anything the model asked for can run.
Response == IF Cancelled THEN Interrupt(assembled) ELSE assembled

Recorded ==
    AssistantMessage(Response.text, Response.calls, Response.interrupted, selection.model)

RecordAnswer ==
    /\ pc = "record"
    /\ Response.interrupted \/ Response.calls = <<>>
    /\ log' = Append(log, Recorded)
    /\ outcome' = IF Response.interrupted THEN "Interrupted"
                  ELSE IF Response.finish = "Length" THEN "MaxTokens" ELSE "FinalAnswer"
    /\ assembled' = NoResponse
    /\ pc' = "endstep"
    /\ UNCHANGED <<stop, request, batch, admission, settings>>

\* Every call is written down before any is gated, behind the guard that
\* hands the batch back to the admission port until it is reserved.
RecordCalls ==
    /\ pc = "record"
    /\ ~Response.interrupted /\ Response.calls # <<>>
    /\ LET calls == Response.calls
       IN  /\ log' = Append(log, Recorded) \o [i \in DOMAIN calls |-> ToolCall(calls[i])]
           /\ batch' = [calls |-> calls, results |-> [i \in DOMAIN calls |-> "none"],
                        at |-> 1, chunk |-> {}]
    /\ lease' = IF "admission" \in Features THEN "unreserved" ELSE "none"
    /\ ledger' = IF "admission" \in Features
                 THEN [ledger EXCEPT !.opened = @ + 1] ELSE ledger
    /\ assembled' = NoResponse
    /\ pc' = "gate"
    /\ UNCHANGED <<stop, request, outcome, settings>>

\* validate_model refuses the record, or the replay block does not match it.
RecordRefused ==
    /\ pc = "record"
    /\ outcome' = "Error"
    /\ assembled' = NoResponse
    /\ pc' = "endstep"
    /\ UNCHANGED <<log, stop, request, batch, admission, settings>>

-----------------------------------------------------------------------------
(***************************************************************************)
(* gate_batch and gate: the calls are decided one at a time, in order.     *)
(***************************************************************************)
Calls == DOMAIN batch.calls
Here == batch.at
Tool(i) == batch.calls[i].tool
Settle(b, i, result) == [b EXCEPT !.results[i] = result]
PastGate(b) == [b EXCEPT !.at = @ + 1]
AtGate(b) == IF b.at <= Len(b.calls) THEN "gate" ELSE "reserve"

\* The gate's answer for the call at it: "none" lets it through.
Gated(result) ==
    /\ batch' = PastGate(Settle(batch, Here, result))
    /\ pc' = AtGate(batch')

\* What grants an exception without asking anyone, read when it is needed.
Exempt(tool) ==
    \/ tool \in Contained
    \/ approval = "AllCalls"
    \/ approval = "Permitted" /\ tool \in Safe
    \/ tool \in approved

\* The stock gate: the sandbox, the approval state, then a person.  With
\* nobody to ask the answer is Unavailable, which denies.
StockGate ==
    IF Exempt(Tool(Here)) THEN Gated("none")
    ELSE IF "approver" \in Features THEN pc' = "ask" /\ UNCHANGED batch
    ELSE Gated("denied")

GateCall ==
    /\ pc = "gate"
    /\ CASE Cancelled                        -> Gated("interrupted")
         [] ~Cancelled /\ Tool(Here) \in GoalTools -> Gated("none")
         [] ~Cancelled /\ Tool(Here) \notin GoalTools \cup Registered -> Gated("failed")
         [] ~Cancelled /\ Tool(Here) \in Registered ->
                IF "policy" \in Features THEN pc' = "policy" /\ UNCHANGED batch
                ELSE StockGate
    /\ UNCHANGED <<log, stop, request, assembled, outcome, admission, settings>>

\* The host's policy allows this call once, denies it, fails, or defers.
PolicyDecides ==
    /\ pc = "policy"
    /\ ~ControlCancelled
    /\ Gated("none") \/ Gated("failed") \/ StockGate
    /\ UNCHANGED <<log, stop, request, assembled, outcome, admission, settings>>

PersonAnswers ==
    /\ pc = "ask"
    /\ ~ControlCancelled
    /\ Gated("none") \/ Gated("denied")
    /\ UNCHANGED <<log, stop, request, assembled, outcome, admission, settings>>

\* Wrong: only the wait for the host's policy is raced with the control.
PolicyWoken ==
    /\ pc = "policy"
    /\ ControlCancelled
    /\ Gated("interrupted")
    /\ UNCHANGED <<log, stop, request, assembled, outcome, admission, settings>>

\* The control wakes the gate out of either wait.
GateWoken ==
    /\ pc \in {"policy", "ask"}
    /\ ControlCancelled
    /\ Gated("interrupted")
    /\ UNCHANGED <<log, stop, request, assembled, outcome, admission, settings>>

-----------------------------------------------------------------------------
(***************************************************************************)
(* reserve_batch, admit_batch and append_results.                          *)
(***************************************************************************)
\* Wrong: a call the gate denied is taken up again.
OpenOrDenied == {i \in Calls : batch.results[i] \in {"none", "denied"}}

Open == {i \in Calls : batch.results[i] = "none"}

\* Wrong: only the calls that ran are answered.
ResultsOfRuns ==
    LET Ran(i) == batch.results[i] = "ran"
        order  == SelectSeq([i \in Calls |-> i], Ran)
    IN  [k \in DOMAIN order |-> ToolResult(batch.calls[order[k]].id)]

\* A result for every call, in call order.
Results == [i \in Calls |-> ToolResult(batch.calls[i].id)]

LeaveBatch ==
    /\ batch' = NoBatch
    /\ ledger' = DropLease(lease, ledger)
    /\ lease' = "none"
    /\ pc' = "endstep"

NoReservation ==
    /\ pc = "reserve"
    /\ "admission" \notin Features
    /\ pc' = "goals"
    /\ UNCHANGED <<log, stop, request, assembled, batch, outcome, admission, settings>>

\* The batch is reserved; each open call may still be refused its room.
Reserved ==
    /\ pc = "reserve"
    /\ "admission" \in Features
    /\ lease' = "reserved"
    /\ \E refused \in SUBSET Open :
          batch' = [batch EXCEPT !.results =
              [i \in Calls |-> IF i \in refused THEN "refused" ELSE batch.results[i]]]
    /\ pc' = "goals"
    /\ UNCHANGED <<log, stop, request, assembled, outcome, ledger, settings>>

\* It is not: every open call is refused, and the step fails.
ReserveFails ==
    /\ pc = "reserve"
    /\ "admission" \in Features
    /\ log' = log \o Results
    /\ outcome' = "Error"
    /\ LeaveBatch
    /\ UNCHANGED <<stop, request, assembled, settings>>

-----------------------------------------------------------------------------
(***************************************************************************)
(* execute_permitted: goal calls one by one, then the registry's in chunks *)
(* of at most MaxParallel.                                                 *)
(***************************************************************************)
OpenGoals == {i \in Open : Tool(i) \in GoalTools}

\* A goal call runs here and may record a change; a lease may refuse it.
RunGoal ==
    /\ pc = "goals"
    /\ OpenGoals # {}
    /\ LET i == Min(OpenGoals)
       IN  IF Cancelled
           THEN batch' = Settle(batch, i, "interrupted") /\ UNCHANGED log
           ELSE \/ /\ "admission" \in Features
                   /\ batch' = Settle(batch, i, "refused")
                   /\ UNCHANGED log
                \/ /\ batch' = Settle(batch, i, "ran")
                   /\ log' \in {log, Append(log, GoalChange)}
    /\ UNCHANGED <<pc, stop, request, assembled, outcome, admission, settings>>

GoalsDone ==
    /\ pc = "goals"
    /\ OpenGoals = {}
    /\ pc' = "chunk"
    /\ UNCHANGED <<log, stop, request, assembled, batch, outcome, admission, settings>>

NextChunk == {i \in Open : Cardinality({j \in Open : j < i}) < MaxParallel}

\* Wrong: the stop is not looked at between chunks.
BeginChunkUnchecked ==
    /\ pc = "chunk"
    /\ Open # {}
    /\ batch' = [batch EXCEPT !.chunk = NextChunk]
    /\ pc' = "start"
    /\ UNCHANGED <<log, stop, request, assembled, outcome, admission, settings>>

\* The next chunk is dispatched, or answered whole under a stop.
BeginChunk ==
    /\ pc = "chunk"
    /\ Open # {}
    /\ IF Cancelled
       THEN /\ batch' = [batch EXCEPT !.results =
                  [i \in Calls |-> IF i \in NextChunk THEN "interrupted" ELSE batch.results[i]]]
            /\ UNCHANGED pc
       ELSE /\ batch' = [batch EXCEPT !.chunk = NextChunk]
            /\ pc' = "start"
    /\ UNCHANGED <<log, stop, request, assembled, outcome, admission, settings>>

Unstarted == {i \in batch.chunk : batch.results[i] = "none"}
Running   == {i \in batch.chunk : batch.results[i] = "running"}

\* The first poll of a chunk's futures, in order: each looks at the control,
\* asks the lease, and starts its tool.
StartCall ==
    /\ pc = "start"
    /\ Unstarted # {}
    /\ LET i == Min(Unstarted)
       IN  IF ControlCancelled
           THEN batch' = Settle(batch, i, "interrupted")
           ELSE \/ batch' = Settle(batch, i, "running")
                \/ "admission" \in Features /\ batch' = Settle(batch, i, "refused")
    /\ UNCHANGED <<log, pc, stop, request, assembled, outcome, admission, settings>>

ChunkStarted ==
    /\ pc = "start"
    /\ Unstarted = {}
    /\ pc' = "run"
    /\ UNCHANGED <<log, stop, request, assembled, batch, outcome, admission, settings>>

\* A tool finishes; the control is polled before the work, so not under one.
ToolFinishes ==
    /\ pc = "run"
    /\ ~ControlCancelled
    /\ \E i \in Running : batch' = Settle(batch, i, "ran")
    /\ UNCHANGED <<log, pc, stop, request, assembled, outcome, admission, settings>>

\* The control drops the work in flight, and every call of it is answered.
ToolsWoken ==
    /\ pc = "run"
    /\ ControlCancelled
    /\ Running # {}
    /\ batch' = [batch EXCEPT !.results =
           [i \in Calls |-> IF i \in Running THEN "interrupted" ELSE batch.results[i]]]
    /\ UNCHANGED <<log, pc, stop, request, assembled, outcome, admission, settings>>

ChunkFinished ==
    /\ pc = "run"
    /\ Running = {}
    /\ batch' = [batch EXCEPT !.chunk = {}]
    /\ pc' = "chunk"
    /\ UNCHANGED <<log, stop, request, assembled, outcome, admission, settings>>

\* Every call has its result: they are appended in call order and the next
\* request is committed under the lease, which may fail.
AnswerCalls ==
    /\ pc = "chunk"
    /\ Open = {}
    /\ log' = log \o Results
    /\ \/ outcome' = IF Cancelled THEN "Interrupted" ELSE "ToolCalls"
       \/ lease = "reserved" /\ outcome' = "Error"
    /\ LeaveBatch
    /\ UNCHANGED <<stop, request, assembled, settings>>

-----------------------------------------------------------------------------
(***************************************************************************)
(* The host, between turns and wherever the turn waits.                    *)
(***************************************************************************)
HostRuns == pc \in Awaiting \cup {"idle"}
loopState == <<log, pc, stop, request, assembled, batch, outcome, lease, ledger>>

\* Wrong: the queue behind a hold is skipped.
SetModelNow(s, m) == [s EXCEPT !.model = m]

SelectModel(s, m) == IF s.held THEN [s EXCEPT !.pending = m] ELSE [s EXCEPT !.model = m]

SetModel(m) ==
    /\ HostRuns
    /\ selection' = SelectModel(selection, m)
    /\ wanted' = m
    /\ UNCHANGED <<loopState, approval, approved>>

SetApproval(p) ==
    /\ HostRuns
    /\ approval' = p
    /\ UNCHANGED <<loopState, selection, approved, wanted>>

\* Wrong: any name is kept.
ApproveAnything(t) ==
    /\ HostRuns
    /\ approved' = approved \cup {t}
    /\ UNCHANGED <<loopState, selection, approval, wanted>>

\* approve_tool refuses a name the registry does not hold.
ApproveTool(t) ==
    /\ HostRuns
    /\ t \in Registered
    /\ approved' = approved \cup {t}
    /\ UNCHANGED <<loopState, selection, approval, wanted>>

Stop(s) ==
    /\ pc # "idle"
    /\ stop' = stop \cup {s}
    /\ UNCHANGED <<log, pc, request, assembled, batch, outcome, admission, settings>>

\* The host drops the turn's future where it waits.  The session keeps what
\* was appended; the hold and the batch's guard or lease are dropped.
Abandon ==
    /\ CanAbandon
    /\ pc \in Awaiting
    /\ ReturnToHost
    /\ request' = NoRequest
    /\ assembled' = NoResponse
    /\ batch' = NoBatch
    /\ selection' = DropHold(selection)
    /\ ledger' = DropLease(lease, ledger)
    /\ lease' = "none"
    /\ UNCHANGED <<log, approval, approved, wanted>>

-----------------------------------------------------------------------------
\* What the loop does by itself, without waiting for anyone.
Internal ==
    \/ LoopTop \/ DecideTurn \/ BeginStep \/ BeginReservedStep \/ EndStep
    \/ RecordAnswer \/ RecordCalls \/ RecordRefused
    \/ GateCall \/ NoReservation \/ Reserved \/ ReserveFails
    \/ RunGoal \/ GoalsDone \/ BeginChunk \/ StartCall \/ ChunkStarted
    \/ ChunkFinished \/ AnswerCalls

\* What a raised control wakes.
Woken == GateWoken \/ ToolsWoken \/ (ControlCancelled /\ StreamStopped)

\* What the model, the host's policy, the person and the tools owe it.
Answers == StreamEnds \/ StreamStopped \/ PolicyDecides \/ PersonAnswers \/ ToolFinishes

Host ==
    \/ StartTurn \/ Abandon
    \/ \E m \in Models : SetModel(m)
    \/ \E p \in HostPolicies : SetApproval(p)
    \/ \E t \in Tools : ApproveTool(t)
    \/ \E s \in Signals : Stop(s)

Next == Internal \/ Woken \/ Answers \/ StreamEvent \/ StreamFails \/ Host

Spec == Init /\ [][Next]_vars

\* The executor polls a future that can make progress, and the control wakes it.
PolledSpec == Spec /\ WF_vars(Internal) /\ WF_vars(Woken)

-----------------------------------------------------------------------------
(***************************************************************************)
(* Types.                                                                  *)
(***************************************************************************)
Call == [id : Nat, tool : Tools]

Assembled == [text : BOOLEAN, calls : Seq(Call), finish : {"Stop", "Length"},
              interrupted : BOOLEAN]

ToolCalls   == [type : {"ToolCall"}, id : Nat, tool : Tools]
ToolResults == [type : {"ToolResult"}, id : Nat]

Event ==
    [type : {"TurnStart"}, turn : Nat]
    \cup [type : {"TurnEnd"}, turn : Nat, reason : Reasons]
    \cup [type : {"StepStart", "StepEnd"}, turn : Nat, step : Nat]
    \cup [type : {"UserMessage", "GoalChange"}]
    \cup ToolCalls
    \cup ToolResults
    \cup [type : {"AssistantMessage"}, text : BOOLEAN, calls : Seq(Call),
          interrupted : BOOLEAN, model : Models]

LogOK == log \in Seq(Event)

LoopOK ==
    /\ pc \in Points
    /\ stop \subseteq Signals
    /\ request.model \in Models \cup {None}
    /\ assembled \in Assembled
    /\ outcome \in Outcomes \cup {None}

BatchOK ==
    /\ batch = [calls |-> batch.calls, results |-> batch.results,
                at |-> batch.at, chunk |-> batch.chunk]
    /\ batch.calls \in Seq(Call)
    /\ batch.results \in [Calls -> CallStates]
    /\ batch.at \in 0..Len(batch.calls) + 1
    /\ batch.chunk \subseteq Calls

GateOK == pc \in {"gate", "policy", "ask"} => batch.at \in Calls

HostOK ==
    /\ lease \in {"none", "unreserved", "reserved"}
    /\ selection \in [model : Models, pending : Models \cup {None}, held : BOOLEAN]
    /\ approval \in Policies
    /\ approved \subseteq Registered
    /\ wanted \in Models
    /\ ledger \in [opened : Nat, released : Nat, retired : Nat]

\* Every variable keeps its type, and the batch's calls, results and cursor
\* agree: the results answer the calls one for one, a chunk is part of them and
\* the gate stands at one of them (gate_batch's and execute_permitted's
\* assertions on their lengths).
TypeOK == LogOK /\ LoopOK /\ BatchOK /\ GateOK /\ HostOK

-----------------------------------------------------------------------------
(***************************************************************************)
(* The log.                                                                *)
(***************************************************************************)
\* The events from position i to the next response or the next turn.
Following(i) ==
    LET ends == {j \in DOMAIN log : j > i /\ log[j].type \in {"AssistantMessage", "TurnStart"}}
    IN  SubSeq(log, i + 1, Min(ends \cup {Len(log) + 1}) - 1)

\* The ids of those of them that are calls, or results, in order.
Ids(events, S) == [k \in DOMAIN Only(events, S) |-> Only(events, S)[k].id]

\* The turn position i stands in was closed by its own closing record.
InClosedTurn(i) ==
    \E j \in Positions(log, "TurnEnd") :
        /\ j > i
        /\ \A k \in Positions(log, "TurnStart") : ~(i < k /\ k < j)

\* When a turn is closed, every call of every response in it was written down
\* and answered exactly once, in the order the model made them, whatever the
\* gate, the admission port, the parallel tools and the stops did (run_tools,
\* append_results, refuse_unanswered).
CallsAnsweredInOrder ==
    \A i \in Positions(log, "AssistantMessage") : InClosedTurn(i) =>
        LET asked == [k \in DOMAIN log[i].calls |-> log[i].calls[k].id]
        IN  /\ Ids(Following(i), ToolCalls) = asked
            /\ Ids(Following(i), ToolResults) = asked

\* A message list a provider accepts: each assistant message is followed by one
\* result for each of its calls, in order, and no result stands elsewhere.
Paired(messages) ==
    \A i \in DOMAIN messages :
        /\ messages[i].role = "assistant" =>
            \A k \in DOMAIN messages[i].calls :
                /\ i + k \in DOMAIN messages
                /\ messages[i + k] = [role |-> "tool", id |-> messages[i].calls[k].id]
        /\ messages[i].role = "tool" =>
            \E j \in 1..(i - 1) :
                /\ messages[j].role = "assistant"
                /\ i - j \in DOMAIN messages[j].calls

\* Every request sent is one a provider accepts, also after turns that were
\* abandoned while their calls were out (fold_assistant's reason to exist).
RequestsPaired == Paired(request.messages)

\* Turns and steps are framed: a turn is closed once and by its own number, its
\* steps are numbered from one without a gap, and a step is left open only in a
\* turn that was abandoned or that closed with an error.
Framed ==
    /\ \A i \in Positions(log, "TurnEnd") :
        LET before == {k \in Positions(log, "TurnStart") : k < i}
        IN  /\ before # {}
            /\ log[Max(before)].turn = log[i].turn
            /\ \A j \in Positions(log, "TurnEnd") : j # i => log[j].turn # log[i].turn
    /\ \A i \in Positions(log, "StepStart") :
        /\ log[i].step = 1 + Cardinality({k \in Positions(log, "StepStart") :
                                k < i /\ log[k].turn = log[i].turn})
        /\ \A j \in Positions(log, "TurnEnd") :
            log[j].turn = log[i].turn /\ log[j].reason # "Error" =>
                \E k \in Positions(log, "StepEnd") :
                    i < k /\ k < j /\ log[k].turn = log[i].turn /\ log[k].step = log[i].step

\* No turn takes more steps than its budget, however earlier turns were left
\* (TurnMachine::decide).
WithinBudget == \A t \in 1..CurrentTurn(log) : StepsInTurn(log, t) <= MaxSteps

\* A turn said to be complete ended in an answer: its last response was heard
\* out, called nothing, and nothing in the log was owed a result.
CompletedIsDone ==
    \A i \in Positions(log, "TurnEnd") : log[i].reason = "Completed" =>
        LET before == SubSeq(log, 1, i - 1)
            last   == LastOf(before, "AssistantMessage")
        IN  /\ last > LastOf(before, "TurnStart")
            /\ log[last].calls = <<>>
            /\ ~log[last].interrupted
            /\ OpenToolCalls(before) = {}

\* What the machine calls owed is owed by the turn it decides about ("Returns the
\* tool calls the current turn still owes results for", TurnMachine in agent.rs).
OwedByThisTurn ==
    pc = "decide" =>
        OpenToolCalls(log) \subseteq
            {log[i].id : i \in {i \in Positions(log, "ToolCall") : i > LastOf(log, "TurnStart")}}

-----------------------------------------------------------------------------
(***************************************************************************)
(* Steps the loop may never take.                                          *)
(***************************************************************************)
Starts == {i \in Calls : batch.results[i] = "none" /\ batch'.results[i] \in {"running", "ran"}}

\* Once stopped the loop opens no step, dispatches no further chunk and runs no
\* goal call; and no tool starts under a cancelled control, though the rest of
\* a chunk may under a progress-only stop.  The one step excepted is the one
\* whose check came just before the stop.
StopHolds ==
    [][/\ Cancelled /\ pc # "begin" =>
            Cardinality(Positions(log', "StepStart")) = Cardinality(Positions(log, "StepStart"))
       /\ Cancelled => batch'.chunk \subseteq batch.chunk
       /\ Cancelled /\ pc # "start" => batch.calls # batch'.calls \/ Starts = {}
       /\ ControlCancelled => batch.calls # batch'.calls \/ Starts = {}]_vars

\* What the gate, the admission port or an interruption has settled stays
\* settled: no later phase of the batch runs that call or answers it anew.
SettledStays ==
    [][batch.calls # <<>> /\ batch'.calls = batch.calls =>
        \A i \in Calls :
            batch.results[i] \in Settled => batch'.results[i] = batch.results[i]]_vars

\* The log is only ever appended to.
Grew == Len(log') > Len(log)

\* A response is attributed to the model its request named ("The model id the
\* request named", session.rs).
RecordNamesRequestedModel ==
    [][Grew /\ log'[Len(log) + 1].type = "AssistantMessage" =>
        log'[Len(log) + 1].model = request.model]_vars

-----------------------------------------------------------------------------
(***************************************************************************)
(* Tools in flight, the admission port, the selection.                     *)
(***************************************************************************)
\* Every batch proposed under the admission port is given back exactly once:
\* released unreserved or retired by its lease, never both and never neither,
\* also when the reservation fails or the future is dropped.
BatchesGivenBack ==
    ledger.opened =
        ledger.released + ledger.retired + (IF lease = "none" THEN 0 ELSE 1)

\* While a hold is out the model in force is the one the request in flight
\* named; with none out, it is the last one the host selected, so a choice made
\* in the middle of a held step is neither early nor lost.
SelectionLands ==
    /\ selection.held /\ pc \in {"stream", "record"} => selection.model = request.model
    /\ ~selection.held => selection.model = wanted /\ selection.pending = None
    /\ selection.held => wanted \in {selection.model, selection.pending}

-----------------------------------------------------------------------------
(***************************************************************************)
(* Liveness.                                                               *)
(***************************************************************************)
\* A cancelled control ends the turn, though the model, the policy, the person
\* and the tools it waits for never answer.
ControlEndsTurn == (pc # "idle" /\ ControlCancelled) ~> (pc = "idle")

\* A turn ends if whoever it waits for answers in the end: the budget closes it
\* (TurnMachine::decide).
TurnEnds == WF_vars(Answers) => ((pc # "idle") ~> (pc = "idle"))
=============================================================================
