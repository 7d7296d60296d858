-------------------------- MODULE AgentLoopProofs ---------------------------
(***************************************************************************)
(* What holds of AgentLoop for every budget, every set of tools and models *)
(* and every combination of features: its types, what the admission port   *)
(* is given back, what a selection comes to, how many steps a turn takes,  *)
(* what a stop forbids and a settlement keeps, and what the log says: how  *)
(* turns and steps are framed, which turns are complete, that every call   *)
(* of a closed turn is answered in order, and, where no id is given to two *)
(* calls, that every request is one a provider accepts.  They rest on what *)
(* the queries of SessionLog return and what appending an event does to    *)
(* them, which comes first.                                                *)
(***************************************************************************)
EXTENDS AgentLoop, SubsequencesProofs, FiniteSetTheorems, WellFoundedInduction, TLAPS

-----------------------------------------------------------------------------
(***************************************************************************)
(* The log's queries.                                                      *)
(***************************************************************************)
\* A set of naturals that is not empty has a least element.
LEMMA LeastNatural ==
    ASSUME NEW T, T \subseteq Nat, T # {}
    PROVE  \E x \in T : \A y \in T : x <= y
<1>1. PICK x \in T : \A y \in T : ~ (<<y, x>> \in OpToRel(<, Nat))
  BY WFMin, NatLessThanWellFounded
<1>2. \A y \in T : ~ (y < x)
  BY <1>1 DEF OpToRel
<1> QED
  BY <1>2

\* A bounded set of naturals that is not empty has a greatest element, which is
\* what Max denotes.
LEMMA MaxIsGreatest ==
    ASSUME NEW n \in Nat, NEW S, S \subseteq 0..n, S # {}
    PROVE  Max(S) \in S /\ \A y \in S : Max(S) >= y
<1> DEFINE Above == {k \in Nat : \A y \in S : k >= y}
<1>1. n \in Above
  OBVIOUS
<1>2. PICK m \in Above : \A k \in Above : m <= k
  <2>1. Above \subseteq Nat /\ Above # {}
    BY <1>1
  <2> HIDE DEF Above
  <2> QED
    BY <2>1, LeastNatural
<1>3. m \in S
  <2> SUFFICES ASSUME m \notin S PROVE FALSE
    OBVIOUS
  <2>1. PICK s \in S : TRUE
    OBVIOUS
  <2>2. m - 1 \in Nat /\ \A y \in S : m - 1 >= y
    BY <2>1
  <2> QED
    BY <1>2, <2>2
<1>4. \E x \in S : \A y \in S : x >= y
  BY <1>3
<1> QED
  BY <1>4 DEF Max

-----------------------------------------------------------------------------
\* The frames of a log carry the numbers of their turns.
Numbered(events) ==
    \A i \in DOMAIN events : events[i].type = "TurnStart" => events[i].turn \in Nat

\* The last event of a kind stands at a position of that kind, or nowhere.
LEMMA LastOfIsLast ==
    ASSUME NEW E, NEW events \in Seq(E), NEW kind
    PROVE  /\ LastOf(events, kind) \in Nat
           /\ LastOf(events, kind) # 0 => LastOf(events, kind) \in Positions(events, kind)
           /\ \A i \in Positions(events, kind) : i <= LastOf(events, kind)
<1>1. {0} \cup Positions(events, kind) \subseteq 0..Len(events)
  BY DEF Positions
<1>2. {0} \cup Positions(events, kind) # {}
  OBVIOUS
<1>3. Len(events) \in Nat
  OBVIOUS
<1>4. /\ LastOf(events, kind) \in {0} \cup Positions(events, kind)
      /\ \A y \in {0} \cup Positions(events, kind) : LastOf(events, kind) >= y
  BY ONLY <1>1, <1>2, <1>3, MaxIsGreatest DEF LastOf
<1>5. LastOf(events, kind) \in 0..Len(events)
  BY <1>1, <1>4
<1>6. \A i \in Positions(events, kind) : i \in 0..Len(events)
  BY <1>1
<1> QED
  BY <1>3, <1>4, <1>5, <1>6

\* Only one position can be the last of its kind.
LEMMA LastOfUnique ==
    ASSUME NEW E, NEW events \in Seq(E), NEW kind,
           NEW p \in Positions(events, kind), \A i \in Positions(events, kind) : i <= p
    PROVE  LastOf(events, kind) = p
<1>1. p \in Nat \ {0} /\ \A i \in Positions(events, kind) : i \in Nat
  BY DEF Positions
<1>2. LastOf(events, kind) # 0
  BY <1>1, LastOfIsLast
<1> QED
  BY <1>1, <1>2, LastOfIsLast

\* The current turn is a number.
LEMMA CurrentTurnIsNat ==
    ASSUME NEW E, NEW events \in Seq(E), Numbered(events)
    PROVE  CurrentTurn(events) \in Nat
<1>1. LastOf(events, "TurnStart") # 0 =>
        LastOf(events, "TurnStart") \in Positions(events, "TurnStart")
  BY LastOfIsLast
<1> QED
  BY <1>1 DEF CurrentTurn, Positions, Numbered

\* The positions of the steps a turn has started.
StepsOf(events, t) == {i \in Positions(events, "StepStart") : events[i].turn = t}

\* A turn has started finitely many steps.
LEMMA StepsAreFinite ==
    ASSUME NEW E, NEW events \in Seq(E), NEW t
    PROVE  /\ IsFiniteSet(StepsOf(events, t))
           /\ StepsInTurn(events, t) = Cardinality(StepsOf(events, t))
           /\ StepsInTurn(events, t) \in Nat
<1>1. StepsOf(events, t) \in SUBSET (1..Len(events))
  BY DEF StepsOf, Positions
<1>2. IsFiniteSet(1..Len(events))
  <2>1. 1 \in Int /\ Len(events) \in Int
    OBVIOUS
  <2> QED
    BY <2>1, FS_Interval
<1>3. IsFiniteSet(StepsOf(events, t))
  BY ONLY <1>1, <1>2, FS_Subset
<1>4. StepsInTurn(events, t) = Cardinality(StepsOf(events, t))
  BY DEF StepsInTurn, StepsOf
<1> QED
  BY <1>3, <1>4, FS_CardinalityType

-----------------------------------------------------------------------------
\* Appending events that start no turn leaves the current turn.
LEMMA TurnKept ==
    ASSUME NEW E, NEW events \in Seq(E), NEW more \in Seq(E),
           \A i \in DOMAIN more : more[i].type # "TurnStart"
    PROVE  /\ CurrentTurn(events \o more) = CurrentTurn(events)
           /\ Numbered(events) => Numbered(events \o more)
<1> DEFINE new == events \o more
<1>1. /\ new \in Seq(E) /\ Len(new) = Len(events) + Len(more)
      /\ \A i \in 1..Len(events) : new[i] = events[i]
      /\ \A i \in 1..Len(new) : i > Len(events) => new[i] = more[i - Len(events)]
                                                /\ i - Len(events) \in DOMAIN more
  OBVIOUS
<1>2. Positions(new, "TurnStart") = Positions(events, "TurnStart")
  BY <1>1 DEF Positions
<1>3. LastOf(new, "TurnStart") = LastOf(events, "TurnStart")
  BY <1>2 DEF LastOf
<1>4. LastOf(events, "TurnStart") # 0 => LastOf(events, "TurnStart") \in 1..Len(events)
  BY LastOfIsLast DEF Positions
<1>5. CurrentTurn(new) = CurrentTurn(events)
  BY <1>1, <1>3, <1>4 DEF CurrentTurn
<1>6. Numbered(events) => Numbered(new)
  BY <1>1 DEF Numbered
<1> QED
  BY <1>5, <1>6

\* Appending a turn's start makes it the current one.
LEMMA TurnStarted ==
    ASSUME NEW E, NEW events \in Seq(E), Numbered(events), NEW t \in Nat, TurnStart(t) \in E
    PROVE  /\ CurrentTurn(Append(events, TurnStart(t))) = t
           /\ Numbered(Append(events, TurnStart(t)))
<1> DEFINE new == Append(events, TurnStart(t))
<1>1. /\ new \in Seq(E) /\ Len(new) = Len(events) + 1 /\ new[Len(new)] = TurnStart(t)
      /\ \A i \in 1..Len(events) : new[i] = events[i]
  OBVIOUS
<1>2. Len(new) \in Positions(new, "TurnStart")
  BY <1>1 DEF Positions, TurnStart
<1>3. \A i \in Positions(new, "TurnStart") : i <= Len(new)
  BY <1>1 DEF Positions
<1>4. LastOf(new, "TurnStart") = Len(new)
  BY <1>1, <1>2, <1>3, LastOfUnique
<1>5. CurrentTurn(new) = t
  BY <1>1, <1>4 DEF CurrentTurn, TurnStart
<1>6. Numbered(new)
  BY <1>1 DEF Numbered, TurnStart
<1> QED
  BY <1>5, <1>6

\* Appending events that start no step of a turn leaves its count.
LEMMA StepsKept ==
    ASSUME NEW E, NEW events \in Seq(E), NEW more \in Seq(E), NEW t,
           \A i \in DOMAIN more : more[i].type = "StepStart" => more[i].turn # t
    PROVE  StepsInTurn(events \o more, t) = StepsInTurn(events, t)
<1> DEFINE new == events \o more
<1>1. /\ new \in Seq(E) /\ Len(new) = Len(events) + Len(more)
      /\ \A i \in 1..Len(events) : new[i] = events[i]
      /\ \A i \in 1..Len(new) : i > Len(events) => new[i] = more[i - Len(events)]
                                                /\ i - Len(events) \in DOMAIN more
  OBVIOUS
<1>2. StepsOf(new, t) = StepsOf(events, t)
  BY <1>1 DEF StepsOf, Positions
<1> QED
  BY <1>1, <1>2, StepsAreFinite

\* Appending a step's start counts one more for its turn.
LEMMA StepCounted ==
    ASSUME NEW E, NEW events \in Seq(E), NEW t, NEW s, StepStart(t, s) \in E
    PROVE  StepsInTurn(Append(events, StepStart(t, s)), t) = StepsInTurn(events, t) + 1
<1> DEFINE new == Append(events, StepStart(t, s))
<1>1. /\ new \in Seq(E) /\ Len(new) = Len(events) + 1 /\ new[Len(new)] = StepStart(t, s)
      /\ \A i \in 1..Len(events) : new[i] = events[i]
  OBVIOUS
<1>2. StepsOf(new, t) = StepsOf(events, t) \cup {Len(new)}
  BY <1>1 DEF StepsOf, Positions, StepStart
<1>3. Len(new) \notin StepsOf(events, t)
  BY <1>1 DEF StepsOf, Positions
<1>4. IsFiniteSet(StepsOf(events, t)) /\ Cardinality(StepsOf(events, t)) \in Nat
  BY StepsAreFinite, FS_CardinalityType
<1>5. Cardinality(StepsOf(new, t)) = Cardinality(StepsOf(events, t)) + 1
  BY <1>2, <1>3, <1>4, FS_AddElement
<1> QED
  BY <1>1, <1>5, StepsAreFinite

-----------------------------------------------------------------------------
(***************************************************************************)
(* Types.                                                                  *)
(***************************************************************************)
\* What the loop writes is an event.
LEMMA EventTypes ==
    /\ \A t \in Nat : TurnStart(t) \in Event
    /\ \A t \in Nat, r \in Reasons : TurnEnd(t, r) \in Event
    /\ \A t \in Nat, n \in Nat : StepStart(t, n) \in Event /\ StepEnd(t, n) \in Event
    /\ UserMessage \in Event /\ GoalChange \in Event
    /\ \A c \in Call : ToolCall(c) \in Event
    /\ \A i \in Nat : ToolResult(i) \in Event
    /\ \A text \in BOOLEAN, calls \in Seq(Call), cut \in BOOLEAN, m \in Models :
          AssistantMessage(text, calls, cut, m) \in Event
BY DEF Event, ToolCalls, ToolResults, Call, TurnStart, TurnEnd, StepStart, StepEnd, UserMessage,
       GoalChange, ToolCall, ToolResult, AssistantMessage

\* A typed log numbers its turns and its steps.
LEMMA LogNumbers ==
    ASSUME log \in Seq(Event)
    PROVE  /\ Numbered(log)
           /\ CurrentTurn(log) \in Nat
           /\ \A t : StepsInTurn(log, t) \in Nat
           /\ ThisStep \in Nat
<1>1. Numbered(log)
  BY DEF Event, ToolCalls, ToolResults, Numbered
<1>2. CurrentTurn(log) \in Nat
  BY <1>1, CurrentTurnIsNat
<1>3. \A t : StepsInTurn(log, t) \in Nat
  BY StepsAreFinite
<1> QED
  BY <1>1, <1>2, <1>3 DEF ThisStep

\* Every decision that closes a turn is a reason.
LEMMA DecideTypes ==
    ASSUME NEW l, NEW o
    PROVE  Decide(l, o, MaxSteps) \in Reasons \cup {"Continue"}
BY DEF Decide, TerminalOutcome, Reasons

\* A family of values over the positions of a sequence is a sequence of them.
LEMMA MappedSequence ==
    ASSUME NEW S, NEW R, NEW seq \in Seq(S), NEW f \in [DOMAIN seq -> R]
    PROVE  f \in Seq(R) /\ Len(f) = Len(seq) /\ DOMAIN f = DOMAIN seq
OBVIOUS

\* An idle turn holds no batch, no response and no request.
LEMMA RestTypes ==
    /\ batch = NoBatch => BatchOK
    /\ NoResponse \in Assembled
    /\ NoRequest.model = None
<1>1. ASSUME batch = NoBatch PROVE BatchOK
  <2>1. batch.calls = <<>> /\ batch.results = <<>> /\ batch.at = 0 /\ batch.chunk = {}
    BY <1>1 DEF NoBatch
  <2>2. batch.results \in [Calls -> CallStates]
    BY <2>1 DEF Calls
  <2>3. batch = [calls |-> batch.calls, results |-> batch.results,
                 at |-> batch.at, chunk |-> batch.chunk]
    BY <1>1, <2>1 DEF NoBatch
  <2> QED
    BY <2>1, <2>2, <2>3 DEF BatchOK
<1> QED
  BY <1>1 DEF NoResponse, NoRequest, Assembled

\* The initial states are typed.
LEMMA InitTypes == Init => TypeOK
<1> SUFFICES ASSUME Init PROVE TypeOK
  OBVIOUS
<1>1. LogOK
  BY DEF Init, LogOK
<1>2. LoopOK
  BY RestTypes DEF Init, LoopOK, Points, Awaiting
<1>3. BatchOK
  BY RestTypes DEF Init
<1>4. GateOK
  BY DEF Init, GateOK
<1>5. HostOK
  BY PolicyAssumption DEF Init, HostOK
<1> QED
  BY <1>1, <1>2, <1>3, <1>4, <1>5 DEF TypeOK

-----------------------------------------------------------------------------
\* The batch's shape survives what the phases do to it.
LEMMA BatchKept == BatchOK /\ UNCHANGED batch => BatchOK'
BY DEF BatchOK, Calls

LEMMA BatchResults ==
    ASSUME BatchOK, NEW f \in [Calls -> CallStates], batch' = [batch EXCEPT !.results = f]
    PROVE  BatchOK' /\ Calls' = Calls /\ batch'.at = batch.at /\ batch'.results = f
<1>1. batch = [calls |-> batch.calls, results |-> batch.results,
               at |-> batch.at, chunk |-> batch.chunk]
  BY DEF BatchOK
<1>2. batch' = [calls |-> batch.calls, results |-> f, at |-> batch.at, chunk |-> batch.chunk]
  BY <1>1
<1> QED
  BY <1>2 DEF BatchOK, Calls

LEMMA BatchSettled ==
    ASSUME BatchOK, NEW i \in Calls, NEW r \in CallStates, batch' = Settle(batch, i, r)
    PROVE  BatchOK' /\ batch'.at = batch.at
<1> DEFINE f == [batch.results EXCEPT ![i] = r]
<1>1. f \in [Calls -> CallStates]
  BY DEF BatchOK
<1>2. batch' = [batch EXCEPT !.results = f]
  BY DEF Settle
<1> QED
  BY <1>1, <1>2, BatchResults

LEMMA BatchChunk ==
    ASSUME BatchOK, NEW c, c \subseteq Calls, batch' = [batch EXCEPT !.chunk = c]
    PROVE  BatchOK'
<1>1. batch = [calls |-> batch.calls, results |-> batch.results,
               at |-> batch.at, chunk |-> batch.chunk]
  BY DEF BatchOK
<1>2. batch' = [calls |-> batch.calls, results |-> batch.results,
                at |-> batch.at, chunk |-> c]
  BY <1>1
<1> QED
  BY <1>2 DEF BatchOK, Calls

\* The gate's answer leaves it at the next call, or the batch past it.
LEMMA GateMoves ==
    ASSUME BatchOK, batch.at \in Calls, NEW r \in CallStates, Gated(r)
    PROVE  BatchOK' /\ GateOK' /\ pc' \in Points
<1> DEFINE f == [batch.results EXCEPT ![Here] = r]
<1>1. batch = [calls |-> batch.calls, results |-> batch.results,
               at |-> batch.at, chunk |-> batch.chunk]
  BY DEF BatchOK
<1>2. batch' = [calls |-> batch.calls, results |-> f, at |-> batch.at + 1,
                chunk |-> batch.chunk]
  BY <1>1 DEF Gated, PastGate, Settle
<1>3. f \in [Calls -> CallStates]
  BY DEF BatchOK
<1>4. batch.calls \in Seq(Call) /\ Calls = 1..Len(batch.calls) /\ batch.at \in 1..Len(batch.calls)
  BY DEF BatchOK, Calls
<1>5. BatchOK'
  <2>1. /\ batch'.calls = batch.calls /\ batch'.results = f
        /\ batch'.at = batch.at + 1 /\ batch'.chunk = batch.chunk
        /\ batch' = [calls |-> batch'.calls, results |-> batch'.results,
                     at |-> batch'.at, chunk |-> batch'.chunk]
    BY <1>2
  <2>2. Calls' = Calls /\ batch'.calls \in Seq(Call) /\ batch'.chunk \subseteq Calls'
    BY <2>1, <1>4 DEF BatchOK, Calls
  <2>3. batch'.results \in [Calls' -> CallStates]
    BY <2>1, <2>2, <1>3
  <2>4. batch'.at \in 0..Len(batch'.calls) + 1
    BY <2>1, <1>4
  <2> QED
    BY <2>1, <2>2, <2>3, <2>4 DEF BatchOK
<1>6. pc' = IF batch.at + 1 <= Len(batch.calls) THEN "gate" ELSE "reserve"
  BY <1>2 DEF Gated, AtGate
<1>7. GateOK'
  BY <1>2, <1>4, <1>6 DEF GateOK, Calls
<1> QED
  BY <1>5, <1>6, <1>7 DEF Points

LEMMA BatchLeft == LeaveBatch => BatchOK' /\ pc' = "endstep" /\ lease' = "none"
<1> SUFFICES ASSUME LeaveBatch PROVE BatchOK'
  BY DEF LeaveBatch
<1>1. batch' = NoBatch
  BY DEF LeaveBatch
<1>2. /\ batch'.calls = <<>> /\ batch'.at = 0 /\ batch'.chunk = {}
      /\ batch'.results = <<>>
      /\ batch' = [calls |-> batch'.calls, results |-> batch'.results,
                   at |-> batch'.at, chunk |-> batch'.chunk]
  BY <1>1 DEF NoBatch
<1>3. batch'.results \in [Calls' -> CallStates]
  BY <1>2 DEF Calls
<1> QED
  BY <1>2, <1>3 DEF BatchOK

\* What is dropped keeps its type.
LEMMA HoldDropped ==
    ASSUME NEW s \in [model : Models, pending : Models \cup {None}, held : BOOLEAN]
    PROVE  DropHold(s) \in [model : Models, pending : Models \cup {None}, held : BOOLEAN]
BY DEF DropHold

LEMMA LeaseDropped ==
    ASSUME NEW a \in [opened : Nat, released : Nat, retired : Nat], NEW k
    PROVE  DropLease(k, a) \in [opened : Nat, released : Nat, retired : Nat]
BY DEF DropLease

\* The results of a batch are events, one for each call.
LEMMA ResultsAreEvents ==
    ASSUME BatchOK
    PROVE  /\ Results \in Seq(Event)
           /\ \A i \in DOMAIN Results : Results[i].type = "ToolResult"
<1>1. batch.calls \in Seq(Call) /\ Calls = DOMAIN batch.calls
  BY DEF BatchOK, Calls
<1>2. \A i \in Calls : batch.calls[i] \in Call
  BY <1>1
<1>3. \A i \in Calls : ToolResult(batch.calls[i].id) \in Event
  BY <1>2, EventTypes DEF Call
<1>4. Results \in [DOMAIN batch.calls -> Event]
  BY <1>1, <1>3 DEF Results
<1>5. Results \in Seq(Event) /\ DOMAIN Results = Calls
  BY <1>1, <1>4, MappedSequence
<1> QED
  BY <1>5 DEF Results, ToolResult

-----------------------------------------------------------------------------
\* The host's types survive where the loop leaves them alone.
LEMMA HostKept == HostOK /\ UNCHANGED <<admission, settings>> => HostOK'
BY DEF HostOK, admission, settings

\* A log that grew by events is a log.
LEMMA LogGrown ==
    ASSUME LogOK, NEW more \in Seq(Event), log' = log \o more
    PROVE  LogOK'
BY DEF LogOK

LEMMA LogAppended ==
    ASSUME LogOK, NEW e \in Event, log' = Append(log, e)
    PROVE  LogOK'
BY DEF LogOK

\* Opening the turn, deciding after a step and closing it keep the types.
LEMMA TurnTypes == TypeOK /\ (StartTurn \/ LoopTop \/ DecideTurn) => TypeOK'
<1> SUFFICES ASSUME TypeOK, StartTurn \/ LoopTop \/ DecideTurn PROVE TypeOK'
  OBVIOUS
<1> USE DEF TypeOK
<1>1. CurrentTurn(log) \in Nat
  BY LogNumbers DEF LogOK
<1>2. BatchOK'
  BY BatchKept DEF StartTurn, LoopTop, DecideTurn
<1>3. HostOK'
  BY HostKept DEF StartTurn, LoopTop, DecideTurn
<1>4. CASE StartTurn
  <2>1. <<TurnStart(CurrentTurn(log) + 1), UserMessage>> \in Seq(Event)
    BY <1>1, EventTypes
  <2>2. LogOK'
    BY <1>4, <2>1, LogGrown DEF StartTurn
  <2>3. LoopOK' /\ GateOK'
    BY <1>4 DEF StartTurn, LoopOK, GateOK, Points
  <2> QED
    BY <1>2, <1>3, <2>2, <2>3
<1>5. CASE LoopTop
  <2>1. LogOK'
    BY <1>5 DEF LoopTop, LogOK
  <2>2. LoopOK' /\ GateOK'
    BY <1>5 DEF LoopTop, LoopOK, GateOK, Points, Outcomes
  <2> QED
    BY <1>2, <1>3, <2>1, <2>2
<1>6. CASE DecideTurn
  <2>1. LogOK'
    <3>1. \A r \in Reasons : TurnEnd(CurrentTurn(log), r) \in Event
      BY <1>1, EventTypes
    <3>2. log' = log \/ \E r \in Reasons : log' = Append(log, TurnEnd(CurrentTurn(log), r))
      BY <1>6, DecideTypes DEF DecideTurn, EndTurn
    <3> QED
      BY <3>1, <3>2 DEF LogOK
  <2>2. LoopOK' /\ GateOK'
    BY <1>6 DEF DecideTurn, ReturnToHost, LoopOK, GateOK, Points
  <2> QED
    BY <1>2, <1>3, <2>1, <2>2
<1> QED
  BY <1>4, <1>5, <1>6

\* Opening and closing a step keep the types.
LEMMA StepTypes == TypeOK /\ (BeginStep \/ BeginReservedStep \/ EndStep) => TypeOK'
<1> SUFFICES ASSUME TypeOK, BeginStep \/ BeginReservedStep \/ EndStep PROVE TypeOK'
  OBVIOUS
<1> USE DEF TypeOK
<1>1. /\ CurrentTurn(log) \in Nat /\ ThisStep \in Nat
      /\ StepsInTurn(log, CurrentTurn(log)) \in Nat
  BY LogNumbers DEF LogOK
<1>2. /\ StepStart(CurrentTurn(log), ThisStep) \in Event
      /\ StepEnd(CurrentTurn(log), ThisStep) \in Event
      /\ StepEnd(CurrentTurn(log), StepsInTurn(log, CurrentTurn(log))) \in Event
  BY <1>1, EventTypes
<1>3. Opened \in Seq(Event) /\ Append(Opened, StepEnd(CurrentTurn(log), ThisStep)) \in Seq(Event)
  BY <1>2 DEF Opened, LogOK
<1>4. LogOK'
  <2>1. \/ log' = log
        \/ log' = Opened
        \/ log' = Append(Opened, StepEnd(CurrentTurn(log), ThisStep))
        \/ log' = Append(log, StepEnd(CurrentTurn(log), StepsInTurn(log, CurrentTurn(log))))
    BY DEF BeginStep, BeginReservedStep, EndStep
  <2> HIDE DEF TypeOK
  <2>2. log \in Seq(Event)
    BY DEF TypeOK, LogOK
  <2>3. Append(log, StepEnd(CurrentTurn(log), StepsInTurn(log, CurrentTurn(log)))) \in Seq(Event)
    BY ONLY <1>2, <2>2
  <2> QED
    BY <1>3, <2>1, <2>2, <2>3 DEF LogOK
<1>5. BatchOK'
  BY BatchKept DEF BeginStep, BeginReservedStep, EndStep
<1>6. GateOK'
  BY DEF BeginStep, BeginReservedStep, EndStep, GateOK
<1>7. \A l : BuildRequest(l).model \in Models
  BY DEF BuildRequest, HostOK
<1>8. /\ Took(selection) \in [model : Models, pending : Models \cup {None}, held : BOOLEAN]
      /\ DropHold(selection) \in [model : Models, pending : Models \cup {None}, held : BOOLEAN]
  BY HoldDropped DEF Took, HostOK, Held
<1>9. HostOK'
  BY <1>8 DEF BeginStep, BeginReservedStep, EndStep, HostOK, admission
<1>10. LoopOK'
  <2>1. assembled' = assembled /\ stop' = stop
    BY DEF BeginStep, BeginReservedStep, EndStep
  <2>2. request'.model \in Models \cup {None}
    BY <1>7, RestTypes DEF BeginStep, BeginReservedStep, EndStep, LoopOK
  <2>3. outcome' \in Outcomes \cup {None}
    BY DEF BeginStep, BeginReservedStep, EndStep, LoopOK, Outcomes
  <2>4. pc' \in Points
    BY DEF BeginStep, BeginReservedStep, EndStep, Points, Awaiting
  <2> QED
    BY <2>1, <2>2, <2>3, <2>4 DEF LoopOK
<1> QED
  BY <1>4, <1>5, <1>6, <1>9, <1>10

\* What a response grows by keeps its type.
LEMMA ResponseGrows ==
    ASSUME NEW a \in Assembled, NEW c \in Call
    PROVE  /\ [a EXCEPT !.text = TRUE] \in Assembled
           /\ [a EXCEPT !.calls = Append(@, c)] \in Assembled
           /\ [a EXCEPT !.finish = "Length"] \in Assembled
<1>1. Append(a.calls, c) \in Seq(Call)
  BY DEF Assembled
<1> QED
  BY <1>1 DEF Assembled

LEMMA ResponseCut == \A a \in Assembled : Interrupt(a) \in Assembled
<1>1. <<>> \in Seq(Call)
  OBVIOUS
<1> QED
  BY <1>1 DEF Assembled, Interrupt

\* Streaming keeps the types.
LEMMA StreamTypes ==
    TypeOK /\ (StreamEvent \/ StreamFails \/ StreamEnds \/ StreamStopped) => TypeOK'
<1> SUFFICES ASSUME TypeOK, StreamEvent \/ StreamFails \/ StreamEnds \/ StreamStopped
             PROVE TypeOK'
  OBVIOUS
<1> USE DEF TypeOK
<1>1. LogOK' /\ GateOK'
  BY DEF StreamEvent, StreamFails, StreamEnds, StreamStopped, LogOK, GateOK
<1>2. BatchOK' /\ HostOK'
  BY BatchKept, HostKept DEF StreamEvent, StreamFails, StreamEnds, StreamStopped
<1>3. CallIds \subseteq Nat
  <2>1. Positions(log, "ToolCall") \in SUBSET (1..Len(log)) /\ 1 \in Int /\ Len(log) \in Int
    BY DEF Positions, LogOK
  <2>2. Cardinality(Positions(log, "ToolCall")) \in Nat
    BY <2>1, FS_Interval, FS_Subset, FS_CardinalityType
  <2>3. FreshId \in Nat
    BY <2>2 DEF FreshId, LoopOK
  <2> QED
    BY <2>3, IdAssumption DEF CallIds
<1>4. assembled' \in Assembled
  <2>1. assembled \in Assembled
    BY DEF LoopOK
  <2>2. CASE StreamEvent
    <3>1. CASE assembled' = [assembled EXCEPT !.text = TRUE]
      BY <2>1, <3>1 DEF Assembled
    <3>2. CASE assembled' = [assembled EXCEPT !.finish = "Length"]
      BY <2>1, <3>2 DEF Assembled
    <3>3. ASSUME NEW i \in CallIds, NEW t \in Tools,
                 assembled' = [assembled EXCEPT !.calls = Append(@, [id |-> i, tool |-> t])]
          PROVE  assembled' \in Assembled
      <4>1. [id |-> i, tool |-> t] \in Call
        BY <1>3 DEF Call
      <4> QED
        BY <2>1, <3>3, <4>1, ResponseGrows
    <3> QED
      BY <2>2, <3>1, <3>2, <3>3 DEF StreamEvent
  <2>3. CASE StreamFails \/ StreamEnds \/ StreamStopped
    BY <2>1, <2>3, RestTypes, ResponseCut DEF StreamFails, StreamEnds, StreamStopped
  <2> QED
    BY <2>2, <2>3
<1>5. LoopOK'
  BY <1>4 DEF StreamEvent, StreamFails, StreamEnds, StreamStopped, LoopOK, Points, Awaiting,
             Outcomes
<1> QED
  BY <1>1, <1>2, <1>5

\* Recording a response keeps the types.
LEMMA RecordTypes == TypeOK /\ (RecordAnswer \/ RecordCalls \/ RecordRefused) => TypeOK'
<1> SUFFICES ASSUME TypeOK, RecordAnswer \/ RecordCalls \/ RecordRefused PROVE TypeOK'
  OBVIOUS
<1>1. LogOK /\ LoopOK /\ BatchOK /\ GateOK /\ HostOK
  BY DEF TypeOK
<1>2. Response \in Assembled
  BY <1>1, ResponseCut DEF Response, LoopOK
<1>3. Response.text \in BOOLEAN /\ Response.calls \in Seq(Call) /\ Response.interrupted \in BOOLEAN
  BY <1>2 DEF Assembled
<1>4. Recorded \in Event
  BY <1>1, <1>3, EventTypes DEF Recorded, HostOK
<1>5. CASE RecordAnswer
  <2>1. LogOK'
    BY <1>1, <1>4, <1>5, LogAppended DEF RecordAnswer
  <2>2. LoopOK'
    BY <1>1, <1>5, RestTypes DEF RecordAnswer, LoopOK, Points, Outcomes
  <2>3. BatchOK' /\ GateOK' /\ HostOK'
    BY <1>1, <1>5, BatchKept, HostKept DEF RecordAnswer, GateOK
  <2> QED
    BY <2>1, <2>2, <2>3 DEF TypeOK
<1>6. CASE RecordRefused
  <2>1. LogOK'
    BY <1>1, <1>6 DEF RecordRefused, LogOK
  <2>2. LoopOK'
    BY <1>1, <1>6, RestTypes DEF RecordRefused, LoopOK, Points, Outcomes
  <2>3. BatchOK' /\ GateOK' /\ HostOK'
    BY <1>1, <1>6, BatchKept, HostKept DEF RecordRefused, GateOK
  <2> QED
    BY <2>1, <2>2, <2>3 DEF TypeOK
<1>7. CASE RecordCalls
  <2> DEFINE calls == Response.calls
             announced == [i \in DOMAIN calls |-> ToolCall(calls[i])]
  <2>1. calls \in Seq(Call) /\ calls # <<>>
    BY <1>3, <1>7 DEF RecordCalls
  <2>2. \A i \in DOMAIN calls : ToolCall(calls[i]) \in Event
    BY <2>1, EventTypes
  <2>3. announced \in Seq(Event)
    <3>1. announced \in [DOMAIN calls -> Event]
      BY <2>2
    <3> HIDE DEF announced, calls
    <3> QED
      BY <2>1, <3>1, MappedSequence
  <2>4. LogOK'
    <3>1. log' = Append(log, Recorded) \o announced
      BY <1>7 DEF RecordCalls
    <3>2. Append(log, Recorded) \in Seq(Event)
      BY <1>1, <1>4 DEF LogOK
    <3> HIDE DEF announced
    <3> QED
      BY <2>3, <3>1, <3>2 DEF LogOK
  <2>5. batch' = [calls |-> calls, results |-> [i \in DOMAIN calls |-> "none"],
                  at |-> 1, chunk |-> {}]
    BY <1>7 DEF RecordCalls
  <2>6. BatchOK' /\ GateOK'
    <3>1. Calls' = DOMAIN calls /\ DOMAIN calls = 1..Len(calls) /\ Len(calls) \in Nat \ {0}
      BY <2>1, <2>5 DEF Calls
    <3>2. [i \in DOMAIN calls |-> "none"] \in [Calls' -> CallStates]
      BY <3>1 DEF CallStates
    <3> HIDE DEF calls
    <3> QED
      BY <2>1, <2>5, <3>1, <3>2 DEF BatchOK, GateOK
  <2>7. LoopOK'
    BY <1>1, <1>7, RestTypes DEF RecordCalls, LoopOK, Points
  <2>8. HostOK'
    <3>1. [ledger EXCEPT !.opened = @ + 1] \in [opened : Nat, released : Nat, retired : Nat]
      BY <1>1 DEF HostOK
    <3>2. ledger' \in [opened : Nat, released : Nat, retired : Nat]
      BY <1>1, <1>7, <3>1 DEF RecordCalls, HostOK
    <3>3. lease' \in {"none", "unreserved", "reserved"} /\ UNCHANGED settings
      BY <1>7 DEF RecordCalls
    <3> QED
      BY <1>1, <3>2, <3>3 DEF HostOK, settings
  <2> QED
    BY <2>4, <2>6, <2>7, <2>8 DEF TypeOK
<1> QED
  BY <1>5, <1>6, <1>7

\* Gating the calls keeps the types.
LEMMA GateTypes == TypeOK /\ (GateCall \/ PolicyDecides \/ PersonAnswers \/ GateWoken) => TypeOK'
<1> SUFFICES ASSUME TypeOK, GateCall \/ PolicyDecides \/ PersonAnswers \/ GateWoken
             PROVE TypeOK'
  OBVIOUS
<1>1. LogOK /\ LoopOK /\ BatchOK /\ GateOK /\ HostOK
  BY DEF TypeOK
<1>2. batch.at \in Calls
  BY <1>1 DEF GateOK, GateCall, PolicyDecides, PersonAnswers, GateWoken
<1>3. ASSUME NEW r \in CallStates, Gated(r) PROVE BatchOK' /\ GateOK' /\ pc' \in Points
  BY <1>1, <1>2, <1>3, GateMoves
<1>4. ASSUME NEW p \in {"policy", "ask"}, pc' = p, UNCHANGED batch
      PROVE  BatchOK' /\ GateOK' /\ pc' \in Points
  <2>1. BatchOK' /\ Calls' = Calls
    BY <1>1, <1>4, BatchKept DEF Calls
  <2> QED
    BY <1>2, <1>4, <2>1 DEF GateOK, Points, Awaiting
<1>5. StockGate => BatchOK' /\ GateOK' /\ pc' \in Points
  BY <1>3, <1>4 DEF StockGate, CallStates, Settled
<1>6. BatchOK' /\ GateOK' /\ pc' \in Points
  BY <1>3, <1>4, <1>5 DEF GateCall, PolicyDecides, PersonAnswers, GateWoken, CallStates, Settled
<1>7. /\ UNCHANGED <<log, stop, request, assembled, outcome, admission, settings>>
  BY DEF GateCall, PolicyDecides, PersonAnswers, GateWoken
<1>8. LogOK' /\ LoopOK' /\ HostOK'
  BY <1>1, <1>6, <1>7, HostKept DEF LogOK, LoopOK
<1> QED
  BY <1>6, <1>8 DEF TypeOK

\* Reserving the batch, or failing to, keeps the types.
LEMMA ReserveTypes ==
    TypeOK /\ (NoReservation \/ Reserved \/ ReserveFails \/ AnswerCalls) => TypeOK'
<1> SUFFICES ASSUME TypeOK, NoReservation \/ Reserved \/ ReserveFails \/ AnswerCalls
             PROVE TypeOK'
  OBVIOUS
<1>1. LogOK /\ LoopOK /\ BatchOK /\ GateOK /\ HostOK
  BY DEF TypeOK
<1>2. CASE NoReservation
  BY <1>1, <1>2, BatchKept, HostKept DEF NoReservation, TypeOK, LogOK, LoopOK, GateOK, Points
<1>3. CASE Reserved
  <2>1. PICK refused \in SUBSET Open :
          batch' = [batch EXCEPT !.results =
              [i \in Calls |-> IF i \in refused THEN "refused" ELSE batch.results[i]]]
    BY <1>3 DEF Reserved
  <2>2. [i \in Calls |-> IF i \in refused THEN "refused" ELSE batch.results[i]]
            \in [Calls -> CallStates]
    BY <1>1 DEF BatchOK, CallStates, Settled
  <2>3. BatchOK'
    BY <1>1, <2>1, <2>2, BatchResults
  <2>4. LogOK' /\ LoopOK' /\ GateOK'
    BY <1>1, <1>3 DEF Reserved, LogOK, LoopOK, GateOK, Points
  <2>5. HostOK'
    BY <1>1, <1>3 DEF Reserved, HostOK, settings
  <2> QED
    BY <2>3, <2>4, <2>5 DEF TypeOK
<1>4. CASE ReserveFails \/ AnswerCalls
  <2>1. LeaveBatch /\ log' = log \o Results
    BY <1>4 DEF ReserveFails, AnswerCalls
  <2>2. LogOK'
    BY <1>1, <2>1, ResultsAreEvents, LogGrown
  <2>3. BatchOK' /\ GateOK' /\ pc' \in Points
    BY <2>1, BatchLeft DEF GateOK, Points
  <2>4. outcome' \in Outcomes \cup {None}
    BY <1>4 DEF ReserveFails, AnswerCalls, Outcomes
  <2>5. LoopOK'
    BY <1>1, <1>4, <2>3, <2>4 DEF ReserveFails, AnswerCalls, LoopOK
  <2>6. ledger' \in [opened : Nat, released : Nat, retired : Nat]
    BY <1>1, <2>1, LeaseDropped DEF LeaveBatch, HostOK
  <2>7. HostOK'
    BY <1>1, <1>4, <2>1, <2>6 DEF ReserveFails, AnswerCalls, LeaveBatch, HostOK, settings
  <2> QED
    BY <2>2, <2>3, <2>5, <2>7 DEF TypeOK
<1> QED
  BY <1>2, <1>3, <1>4

\* Dispatching the calls keeps the types.
Dispatches ==
    \/ RunGoal \/ GoalsDone \/ BeginChunk \/ StartCall \/ ChunkStarted
    \/ ToolFinishes \/ ToolsWoken \/ ChunkFinished

LEMMA FirstOfSome ==
    ASSUME BatchOK, NEW S, S \subseteq Calls, S # {}
    PROVE  Min(S) \in S
<1>1. Calls \subseteq Nat
  BY DEF BatchOK, Calls
<1>2. PICK x \in S : \A y \in S : x <= y
  <2>1. S \subseteq Nat /\ S # {}
    BY <1>1
  <2> QED
    BY <2>1, LeastNatural
<1> QED
  BY <1>2 DEF Min

LEMMA DispatchTypes == TypeOK /\ Dispatches => TypeOK'
<1> SUFFICES ASSUME TypeOK, Dispatches PROVE TypeOK'
  OBVIOUS
<1>1. LogOK /\ LoopOK /\ BatchOK /\ GateOK /\ HostOK
  BY DEF TypeOK
<1>2. UNCHANGED <<stop, request, assembled, outcome, admission, settings>>
  BY DEF Dispatches, RunGoal, GoalsDone, BeginChunk, StartCall, ChunkStarted,
         ToolFinishes, ToolsWoken, ChunkFinished
<1>3. pc' \in Points /\ pc' \notin {"gate", "policy", "ask"}
  BY DEF Dispatches, RunGoal, GoalsDone, BeginChunk, StartCall, ChunkStarted,
         ToolFinishes, ToolsWoken, ChunkFinished, Points, Awaiting
<1>4. LoopOK' /\ GateOK' /\ HostOK'
  BY <1>1, <1>2, <1>3, HostKept DEF LoopOK, GateOK
<1>5. LogOK'
  <2>1. log' = log \/ log' = Append(log, GoalChange)
    BY DEF Dispatches, RunGoal, GoalsDone, BeginChunk, StartCall, ChunkStarted,
           ToolFinishes, ToolsWoken, ChunkFinished
  <2> QED
    BY <1>1, <2>1, EventTypes DEF LogOK
<1>6. CASE RunGoal
  <2>1. Min(OpenGoals) \in Calls
    BY <1>1, <1>6, FirstOfSome DEF RunGoal, OpenGoals, Open
  <2>2. \E r \in CallStates : batch' = Settle(batch, Min(OpenGoals), r)
    BY <1>6 DEF RunGoal, CallStates, Settled
  <2> QED
    BY <1>1, <1>4, <1>5, <2>1, <2>2, BatchSettled DEF TypeOK
<1>7. CASE StartCall
  <2>1. Min(Unstarted) \in Calls
    BY <1>1, <1>7, FirstOfSome DEF StartCall, Unstarted, BatchOK
  <2>2. \E r \in CallStates : batch' = Settle(batch, Min(Unstarted), r)
    BY <1>7 DEF StartCall, CallStates, Settled
  <2> QED
    BY <1>1, <1>4, <1>5, <2>1, <2>2, BatchSettled DEF TypeOK
<1>8. CASE ToolFinishes
  <2>1. PICK i \in Running : batch' = Settle(batch, i, "ran")
    BY <1>8 DEF ToolFinishes
  <2>2. i \in Calls
    BY <1>1, <2>1 DEF Running, BatchOK
  <2> QED
    BY <1>1, <1>4, <1>5, <2>1, <2>2, BatchSettled DEF TypeOK, CallStates, Settled
<1>9. CASE BeginChunk
  <2>1. NextChunk \subseteq Calls
    BY DEF NextChunk, Open
  <2>2. [i \in Calls |-> IF i \in NextChunk THEN "interrupted" ELSE batch.results[i]]
            \in [Calls -> CallStates]
    BY <1>1 DEF BatchOK, CallStates, Settled
  <2>3. BatchOK'
    BY <1>1, <1>9, <2>1, <2>2, BatchResults, BatchChunk DEF BeginChunk
  <2> QED
    BY <1>4, <1>5, <2>3 DEF TypeOK
<1>10. CASE ToolsWoken
  <2>1. [i \in Calls |-> IF i \in Running THEN "interrupted" ELSE batch.results[i]]
            \in [Calls -> CallStates]
    BY <1>1 DEF BatchOK, CallStates, Settled
  <2>2. BatchOK'
    BY <1>1, <1>10, <2>1, BatchResults DEF ToolsWoken
  <2> QED
    BY <1>4, <1>5, <2>2 DEF TypeOK
<1>11. CASE ChunkFinished
  <2>1. BatchOK'
    BY <1>1, <1>11, BatchChunk DEF ChunkFinished
  <2> QED
    BY <1>4, <1>5, <2>1 DEF TypeOK
<1>12. CASE GoalsDone \/ ChunkStarted
  <2>1. BatchOK'
    BY <1>1, <1>12, BatchKept DEF GoalsDone, ChunkStarted
  <2> QED
    BY <1>4, <1>5, <2>1 DEF TypeOK
<1> QED
  BY <1>6, <1>7, <1>8, <1>9, <1>10, <1>11, <1>12 DEF Dispatches

\* What the host does keeps the types.
HostActs ==
    \/ \E m \in Models : SetModel(m)
    \/ \E p \in HostPolicies : SetApproval(p)
    \/ \E t \in Tools : ApproveTool(t)
    \/ \E s \in Signals : Stop(s)

LEMMA HostTypes == TypeOK /\ (HostActs \/ Abandon) => TypeOK'
<1> SUFFICES ASSUME TypeOK, HostActs \/ Abandon PROVE TypeOK'
  OBVIOUS
<1>1. LogOK /\ LoopOK /\ BatchOK /\ GateOK /\ HostOK
  BY DEF TypeOK
<1>2. ASSUME UNCHANGED loopState PROVE LogOK' /\ LoopOK' /\ BatchOK' /\ GateOK'
  BY <1>1, <1>2, BatchKept DEF loopState, LogOK, LoopOK, GateOK, Calls
<1>3. ASSUME NEW m \in Models, SetModel(m) PROVE TypeOK'
  <2>1. selection' \in [model : Models, pending : Models \cup {None}, held : BOOLEAN]
    BY <1>1, <1>3 DEF SetModel, SelectModel, HostOK
  <2>2. HostOK'
    BY <1>1, <1>3, <2>1 DEF SetModel, HostOK, loopState
  <2> QED
    BY <1>2, <1>3, <2>2 DEF SetModel, TypeOK
<1>4. ASSUME NEW p \in HostPolicies, SetApproval(p) PROVE TypeOK'
  <2>1. HostOK'
    BY <1>1, <1>4, PolicyAssumption DEF SetApproval, HostOK, loopState
  <2> QED
    BY <1>2, <1>4, <2>1 DEF SetApproval, TypeOK
<1>5. ASSUME NEW t \in Tools, ApproveTool(t) PROVE TypeOK'
  <2>1. HostOK'
    BY <1>1, <1>5 DEF ApproveTool, HostOK, loopState
  <2> QED
    BY <1>2, <1>5, <2>1 DEF ApproveTool, TypeOK
<1>6. ASSUME NEW s \in Signals, Stop(s) PROVE TypeOK'
  <2>1. LogOK' /\ LoopOK' /\ GateOK'
    BY <1>1, <1>6 DEF Stop, LogOK, LoopOK, GateOK, Calls
  <2>2. BatchOK' /\ HostOK'
    BY <1>1, <1>6, BatchKept, HostKept DEF Stop
  <2> QED
    BY <2>1, <2>2 DEF TypeOK
<1>7. CASE Abandon
  <2>1. LogOK' /\ GateOK'
    BY <1>1, <1>7 DEF Abandon, ReturnToHost, LogOK, GateOK
  <2>2. LoopOK'
    BY <1>1, <1>7, RestTypes DEF Abandon, ReturnToHost, LoopOK, Points
  <2>3. BatchOK'
    <3>1. batch' = NoBatch
      BY <1>7 DEF Abandon
    <3>2. batch'.calls = <<>> /\ batch'.at = 0 /\ batch'.chunk = {} /\ batch'.results = <<>>
          /\ batch' = [calls |-> batch'.calls, results |-> batch'.results,
                       at |-> batch'.at, chunk |-> batch'.chunk]
      BY <3>1 DEF NoBatch
    <3>3. batch'.results \in [Calls' -> CallStates]
      BY <3>2 DEF Calls
    <3> QED
      BY <3>2, <3>3 DEF BatchOK
  <2>4. /\ selection' \in [model : Models, pending : Models \cup {None}, held : BOOLEAN]
        /\ ledger' \in [opened : Nat, released : Nat, retired : Nat]
    BY <1>1, <1>7, HoldDropped, LeaseDropped DEF Abandon, HostOK
  <2>5. HostOK'
    BY <1>1, <1>7, <2>4 DEF Abandon, HostOK
  <2> QED
    BY <2>1, <2>2, <2>3, <2>5 DEF TypeOK
<1> QED
  BY <1>3, <1>4, <1>5, <1>6, <1>7 DEF HostActs

\* A step that changes nothing keeps the types.
LEMMA StutterTypes == TypeOK /\ UNCHANGED vars => TypeOK'
<1> SUFFICES ASSUME TypeOK, UNCHANGED vars PROVE TypeOK'
  OBVIOUS
<1>1. LogOK' /\ LoopOK' /\ GateOK' /\ HostOK'
  BY DEF TypeOK, LogOK, LoopOK, GateOK, HostOK, Calls, vars
<1>2. BatchOK'
  BY BatchKept DEF TypeOK, vars
<1> QED
  BY <1>1, <1>2 DEF TypeOK

\* Every step keeps the types.
LEMMA TypesKept == TypeOK /\ [Next]_vars => TypeOK'
<1> SUFFICES ASSUME TypeOK, [Next]_vars PROVE TypeOK'
  OBVIOUS
<1>1. CASE StartTurn \/ LoopTop \/ DecideTurn
  BY <1>1, TurnTypes
<1>2. CASE BeginStep \/ BeginReservedStep \/ EndStep
  BY <1>2, StepTypes
<1>3. CASE StreamEvent \/ StreamFails \/ StreamEnds \/ StreamStopped
  BY <1>3, StreamTypes
<1>4. CASE RecordAnswer \/ RecordCalls \/ RecordRefused
  BY <1>4, RecordTypes
<1>5. CASE GateCall \/ PolicyDecides \/ PersonAnswers \/ GateWoken
  BY <1>5, GateTypes
<1>6. CASE NoReservation \/ Reserved \/ ReserveFails \/ AnswerCalls
  BY <1>6, ReserveTypes
<1>7. CASE Dispatches
  BY <1>7, DispatchTypes
<1>8. CASE HostActs \/ Abandon
  BY <1>8, HostTypes
<1>9. CASE UNCHANGED vars
  BY <1>9, StutterTypes
<1> QED
  BY <1>1, <1>2, <1>3, <1>4, <1>5, <1>6, <1>7, <1>8, <1>9
     DEF Next, Internal, Woken, Answers, Host, Dispatches, HostActs

\* Every variable keeps its type, and a batch's calls, results, chunk and gate
\* position agree, whatever the host, the model and the tools do.
THEOREM TypesHold == Spec => []TypeOK
<1>1. Init => TypeOK
  BY InitTypes
<1>2. TypeOK /\ [Next]_vars => TypeOK'
  BY TypesKept
<1> QED
  BY <1>1, <1>2, PTL DEF Spec

-----------------------------------------------------------------------------
(***************************************************************************)
(* The admission port.                                                     *)
(***************************************************************************)
BeforeLease == {"gate", "policy", "ask", "reserve"}
UnderLease  == {"goals", "chunk", "start", "run"}

\* The guard stands from the recording of the calls to the reservation, the
\* lease from there to the results, and neither anywhere else.
LeaseStands ==
    lease = IF "admission" \notin Features THEN "none"
            ELSE IF pc \in BeforeLease THEN "unreserved"
            ELSE IF pc \in UnderLease THEN "reserved"
            ELSE "none"

GivenBackInv == TypeOK /\ LeaseStands /\ BatchesGivenBack

LEMMA GivenBackInit == Init => LeaseStands /\ BatchesGivenBack
BY DEF Init, LeaseStands, BatchesGivenBack, BeforeLease, UnderLease

\* The gate only moves among the points before the reservation.
LEMMA GateStays ==
    ASSUME NEW r, Gated(r)
    PROVE  pc' \in {"gate", "reserve"}
BY DEF Gated, AtGate

\* A step of the batch that touches neither the guard nor the account.
LEMMA LeaseKept ==
    ASSUME GivenBackInv, UNCHANGED admission,
           \/ pc' \in BeforeLease /\ pc \in BeforeLease
           \/ pc' \in UnderLease /\ pc \in UnderLease
           \/ pc' \notin BeforeLease \cup UnderLease /\ pc \notin BeforeLease \cup UnderLease
    PROVE  LeaseStands' /\ BatchesGivenBack'
BY DEF GivenBackInv, LeaseStands, BatchesGivenBack, admission, BeforeLease, UnderLease

\* Leaving a batch, or dropping the future, settles what is owed.
LEMMA LeaseSettled ==
    ASSUME GivenBackInv, ledger' = DropLease(lease, ledger), lease' = "none",
           pc' \notin BeforeLease \cup UnderLease
    PROVE  LeaseStands' /\ BatchesGivenBack'
<1>1. lease \in {"none", "unreserved", "reserved"}
      /\ ledger \in [opened : Nat, released : Nat, retired : Nat]
  BY DEF GivenBackInv, TypeOK, HostOK
<1>2. LeaseStands'
  BY DEF LeaseStands
<1>3. BatchesGivenBack'
  BY <1>1 DEF GivenBackInv, BatchesGivenBack, DropLease
<1> QED
  BY <1>2, <1>3

LEMMA GivenBackKept == GivenBackInv /\ [Next]_vars => LeaseStands' /\ BatchesGivenBack'
<1> SUFFICES ASSUME GivenBackInv, [Next]_vars PROVE LeaseStands' /\ BatchesGivenBack'
  OBVIOUS
<1> USE DEF BeforeLease, UnderLease
<1>1. lease \in {"none", "unreserved", "reserved"}
      /\ ledger \in [opened : Nat, released : Nat, retired : Nat]
  BY DEF GivenBackInv, TypeOK, HostOK
<1>2. CASE StartTurn \/ LoopTop \/ DecideTurn \/ BeginStep \/ BeginReservedStep \/ EndStep
           \/ StreamEvent \/ StreamFails \/ StreamEnds \/ StreamStopped
           \/ RecordAnswer \/ RecordRefused
  BY <1>2, LeaseKept DEF StartTurn, LoopTop, DecideTurn, ReturnToHost, BeginStep,
     BeginReservedStep, EndStep, StreamEvent, StreamFails, StreamEnds, StreamStopped,
     RecordAnswer, RecordRefused
<1>3. CASE RecordCalls
  <2>1. lease = "none" /\ pc' = "gate"
    BY <1>3 DEF RecordCalls, GivenBackInv, LeaseStands
  <2>2. LeaseStands'
    BY <1>3, <2>1 DEF RecordCalls, LeaseStands
  <2>3. BatchesGivenBack'
    BY <1>1, <1>3, <2>1 DEF RecordCalls, GivenBackInv, BatchesGivenBack
  <2> QED
    BY <2>2, <2>3
<1>4. CASE GateCall \/ PolicyDecides \/ PersonAnswers \/ GateWoken
  <2>1. pc \in BeforeLease /\ UNCHANGED admission
    BY <1>4 DEF GateCall, PolicyDecides, PersonAnswers, GateWoken
  <2>2. pc' \in BeforeLease
    BY <1>4, GateStays DEF GateCall, PolicyDecides, PersonAnswers, GateWoken, StockGate
  <2> QED
    BY <2>1, <2>2, LeaseKept
<1>5. CASE Reserved
  <2>1. lease = "unreserved"
    BY <1>5 DEF Reserved, GivenBackInv, LeaseStands
  <2> QED
    BY <1>5, <2>1 DEF Reserved, GivenBackInv, LeaseStands, BatchesGivenBack
<1>6. CASE NoReservation
  BY <1>6 DEF NoReservation, GivenBackInv, LeaseStands, BatchesGivenBack, admission
<1>7. CASE ReserveFails \/ AnswerCalls \/ Abandon
  BY <1>7, LeaseSettled DEF ReserveFails, AnswerCalls, LeaveBatch, Abandon, ReturnToHost
<1>8. CASE Dispatches
  BY <1>8, LeaseKept DEF Dispatches, RunGoal, GoalsDone, BeginChunk, StartCall, ChunkStarted,
     ToolFinishes, ToolsWoken, ChunkFinished
<1>9. CASE HostActs \/ UNCHANGED vars
  BY <1>9, LeaseKept DEF HostActs, SetModel, SetApproval, ApproveTool, Stop, loopState, vars,
     admission
<1> QED
  BY <1>2, <1>3, <1>4, <1>5, <1>6, <1>7, <1>8, <1>9
     DEF Next, Internal, Woken, Answers, Host, Dispatches, HostActs

\* Every batch proposed under the admission port is given back exactly once,
\* whatever the gate, the reservation, the stops and an abandoned future do.
THEOREM EveryBatchGivenBack == Spec => []BatchesGivenBack
<1>1. Init => GivenBackInv
  BY InitTypes, GivenBackInit DEF GivenBackInv
<1>2. GivenBackInv /\ [Next]_vars => GivenBackInv'
  BY TypesKept, GivenBackKept DEF GivenBackInv
<1>3. GivenBackInv => BatchesGivenBack
  BY DEF GivenBackInv
<1> QED
  BY <1>1, <1>2, <1>3, PTL DEF Spec

-----------------------------------------------------------------------------
(***************************************************************************)
(* The selection.                                                          *)
(***************************************************************************)
StepPoints == {"stream", "record", "endstep"} \cup BeforeLease \cup UnderLease

\* A hold is out only inside a step, and what waits behind it is what the host
\* wants.
HoldStands ==
    /\ selection.held => pc \in StepPoints
    /\ selection.held /\ selection.pending # None => selection.pending = wanted

SelectionInv == TypeOK /\ HoldStands /\ SelectionLands

LEMMA SelectionInit == Init => HoldStands /\ SelectionLands
BY DEF Init, HoldStands, SelectionLands

\* A step that leaves the selection alone, and neither leaves a step under a
\* hold nor comes back to its request.
LEMMA SelectionKept ==
    ASSUME SelectionInv, UNCHANGED <<selection, wanted>>,
           selection.held => pc' \in StepPoints,
           selection.held /\ pc' \in {"stream", "record"} =>
               pc \in {"stream", "record"} /\ request' = request
    PROVE  HoldStands' /\ SelectionLands'
BY DEF SelectionInv, HoldStands, SelectionLands

\* Dropping the hold puts what was queued behind it in force.
LEMMA SelectionDropped ==
    ASSUME SelectionInv, selection' = DropHold(selection), UNCHANGED wanted
    PROVE  HoldStands' /\ SelectionLands'
<1>1. /\ selection \in [model : Models, pending : Models \cup {None}, held : BOOLEAN]
      /\ wanted \in Models /\ None \notin Models
  BY ModelAssumption DEF SelectionInv, TypeOK, HostOK, None
<1>2. selection'.held = FALSE /\ selection'.pending = None
  BY DEF DropHold
<1>3. selection'.model = wanted
  BY <1>1 DEF DropHold, SelectionInv, HoldStands, SelectionLands
<1> QED
  BY <1>2, <1>3 DEF HoldStands, SelectionLands

LEMMA SelectionSteps == SelectionInv /\ [Next]_vars => HoldStands' /\ SelectionLands'
<1> SUFFICES ASSUME SelectionInv, [Next]_vars PROVE HoldStands' /\ SelectionLands'
  OBVIOUS
<1> USE DEF StepPoints, BeforeLease, UnderLease
<1>1. /\ selection \in [model : Models, pending : Models \cup {None}, held : BOOLEAN]
      /\ wanted \in Models /\ None \notin Models
  BY ModelAssumption DEF SelectionInv, TypeOK, HostOK, None
<1>2. CASE StartTurn \/ LoopTop \/ DecideTurn
  <2>1. ~selection.held /\ UNCHANGED <<selection, wanted>>
    BY <1>2 DEF StartTurn, LoopTop, DecideTurn, SelectionInv, HoldStands, settings
  <2> QED
    BY <2>1, SelectionKept
<1>3. CASE BeginStep \/ BeginReservedStep
  <2>1. ~selection.held /\ selection.model = wanted /\ selection.pending = None
    BY <1>3 DEF BeginStep, BeginReservedStep, SelectionInv, HoldStands, SelectionLands
  <2>2. /\ wanted' = wanted
        /\ \/ selection' = selection
           \/ /\ selection' = [selection EXCEPT !.held = Held]
              /\ pc' \in {"stream", "endstep"}
              /\ pc' = "stream" => request'.model = selection.model
    BY <1>3 DEF BeginStep, BeginReservedStep, BuildRequest, Took
  <2>3. CASE selection' = selection
    BY <2>1, <2>2, <2>3, SelectionKept
  <2>4. CASE /\ selection' = [selection EXCEPT !.held = Held]
             /\ pc' \in {"stream", "endstep"}
             /\ pc' = "stream" => request'.model = selection.model
    BY <1>1, <2>1, <2>2, <2>4 DEF HoldStands, SelectionLands
  <2> QED
    BY <2>2, <2>3, <2>4
<1>4. CASE EndStep \/ Abandon
  BY <1>4, SelectionDropped DEF EndStep, Abandon
<1>5. CASE \/ StreamEvent \/ StreamFails \/ StreamEnds \/ StreamStopped
           \/ RecordAnswer \/ RecordCalls \/ RecordRefused
  BY <1>5, SelectionKept DEF StreamEvent, StreamFails, StreamEnds, StreamStopped,
     RecordAnswer, RecordCalls, RecordRefused, settings
<1>6. CASE GateCall \/ PolicyDecides \/ PersonAnswers \/ GateWoken
  <2>1. pc' \in BeforeLease /\ UNCHANGED <<selection, wanted>>
    BY <1>6, GateStays DEF GateCall, PolicyDecides, PersonAnswers, GateWoken, StockGate,
       settings
  <2> QED
    BY <2>1, SelectionKept
<1>7. CASE NoReservation \/ Reserved \/ ReserveFails \/ AnswerCalls
  BY <1>7, SelectionKept DEF NoReservation, Reserved, ReserveFails, AnswerCalls, LeaveBatch,
     settings
<1>8. CASE Dispatches
  BY <1>8, SelectionKept DEF Dispatches, RunGoal, GoalsDone, BeginChunk, StartCall,
     ChunkStarted, ToolFinishes, ToolsWoken, ChunkFinished, settings
<1>9. ASSUME NEW m \in Models, SetModel(m) PROVE HoldStands' /\ SelectionLands'
  <2>1. pc' = pc /\ request' = request /\ wanted' = m
    BY <1>9 DEF SetModel, loopState
  <2>2. CASE selection.held
    <3>1. selection' = [selection EXCEPT !.pending = m]
      BY <1>9, <2>2 DEF SetModel, SelectModel
    <3> QED
      BY <1>1, <2>1, <2>2, <3>1 DEF SelectionInv, HoldStands, SelectionLands
  <2>3. CASE ~selection.held
    <3>1. selection' = [selection EXCEPT !.model = m]
      BY <1>9, <2>3 DEF SetModel, SelectModel
    <3> QED
      BY <1>1, <2>1, <2>3, <3>1 DEF SelectionInv, HoldStands, SelectionLands
  <2> QED
    BY <2>2, <2>3
<1>10. CASE \/ \E p \in HostPolicies : SetApproval(p)
            \/ \E t \in Tools : ApproveTool(t)
            \/ \E s \in Signals : Stop(s)
            \/ UNCHANGED vars
  <2>1. UNCHANGED <<selection, wanted, pc, request>>
    BY <1>10 DEF SetApproval, ApproveTool, Stop, loopState, settings, vars
  <2> QED
    BY <2>1, SelectionKept DEF SelectionInv, HoldStands
<1> QED
  BY <1>2, <1>3, <1>4, <1>5, <1>6, <1>7, <1>8, <1>9, <1>10
     DEF Next, Internal, Woken, Answers, Host, Dispatches

\* A model selected while a step holds the selection is neither put in force
\* before the step is over nor lost when it is, or when its future is dropped.
THEOREM EverySelectionLands == Spec => []SelectionLands
<1>1. Init => SelectionInv
  BY InitTypes, SelectionInit DEF SelectionInv
<1>2. SelectionInv /\ [Next]_vars => SelectionInv'
  BY TypesKept, SelectionSteps DEF SelectionInv
<1>3. SelectionInv => SelectionLands
  BY DEF SelectionInv
<1> QED
  BY <1>1, <1>2, <1>3, PTL DEF Spec

-----------------------------------------------------------------------------
(***************************************************************************)
(* The step budget.                                                        *)
(***************************************************************************)
\* No turn has more steps than the budget, and one yet to come has none.
StepsBounded(l) ==
    \A t \in Nat : /\ StepsInTurn(l, t) <= MaxSteps
                   /\ t > CurrentTurn(l) => StepsInTurn(l, t) = 0

\* Where the loop may open another step, the turn has room for one.
RoomLeft == pc \in {"loop", "begin"} => StepsInTurn(log, CurrentTurn(log)) < MaxSteps

BudgetInv == TypeOK /\ StepsBounded(log) /\ RoomLeft

\* Two logs in which the same turn is current and every turn has as many steps.
SameCounts(l, k) ==
    CurrentTurn(k) = CurrentTurn(l) /\ \A t \in Nat : StepsInTurn(k, t) = StepsInTurn(l, t)

\* Only a turn's or a step's start counts.
LEMMA QuietGrowth ==
    ASSUME NEW l \in Seq(Event), NEW more \in Seq(Event),
           \A i \in DOMAIN more : more[i].type \notin {"TurnStart", "StepStart"}
    PROVE  l \o more \in Seq(Event) /\ SameCounts(l, l \o more)
<1>1. CurrentTurn(l \o more) = CurrentTurn(l)
  BY TurnKept
<1>2. \A t \in Nat : StepsInTurn(l \o more, t) = StepsInTurn(l, t)
  BY StepsKept
<1> QED
  BY <1>1, <1>2 DEF SameCounts

LEMMA QuietEvent ==
    ASSUME NEW l \in Seq(Event), NEW e \in Event, e.type \notin {"TurnStart", "StepStart"}
    PROVE  Append(l, e) \in Seq(Event) /\ SameCounts(l, Append(l, e))
<1>1. /\ <<e>> \in Seq(Event) /\ Append(l, e) = l \o <<e>>
      /\ \A i \in DOMAIN <<e>> : <<e>>[i].type \notin {"TurnStart", "StepStart"}
  OBVIOUS
<1> QED
  BY <1>1, QuietGrowth

\* An event that is no step of a turn leaves its count.
LEMMA StepElsewhere ==
    ASSUME NEW l \in Seq(Event), NEW e \in Event, NEW t,
           e.type = "StepStart" => e.turn # t
    PROVE  StepsInTurn(Append(l, e), t) = StepsInTurn(l, t)
<1> DEFINE more == <<e>>
<1>1. more \in Seq(Event) /\ Append(l, e) = l \o more
  OBVIOUS
<1>2. \A i \in DOMAIN more : more[i].type = "StepStart" => more[i].turn # t
  OBVIOUS
<1> HIDE DEF more
<1> QED
  BY <1>1, <1>2, StepsKept

\* A log with the same counts is within the budget too.
LEMMA CountsKeepBudget ==
    ASSUME NEW l, NEW k, SameCounts(l, k), StepsBounded(l)
    PROVE  StepsBounded(k)
BY DEF SameCounts, StepsBounded

LEMMA BudgetInit == Init => StepsBounded(log) /\ RoomLeft
<1> SUFFICES ASSUME Init PROVE StepsBounded(log) /\ RoomLeft
  OBVIOUS
<1>1. \A t \in Nat : {i \in Positions(log, "StepStart") : log[i].turn = t} = {}
  BY DEF Init, Positions
<1>2. \A t \in Nat : StepsInTurn(log, t) = 0
  BY <1>1, FS_EmptySet DEF StepsInTurn
<1> QED
  BY <1>2, BudgetAssumption DEF Init, StepsBounded, RoomLeft

\* Opening a turn: it has no step yet.
LEMMA TurnHasRoom == BudgetInv /\ StartTurn => StepsBounded(log') /\ RoomLeft'
<1> SUFFICES ASSUME BudgetInv, StartTurn PROVE StepsBounded(log') /\ RoomLeft'
  OBVIOUS
<1> DEFINE turn == CurrentTurn(log) + 1
           started == Append(log, TurnStart(turn))
<1>1. log \in Seq(Event)
  BY DEF BudgetInv, TypeOK, LogOK
<1>2. Numbered(log) /\ CurrentTurn(log) \in Nat /\ \A t : StepsInTurn(log, t) \in Nat
  BY <1>1, LogNumbers
<1>3. TurnStart(turn) \in Event /\ started \in Seq(Event)
  BY <1>1, <1>2, EventTypes
<1>4. CurrentTurn(started) = turn
  BY <1>1, <1>2, <1>3, TurnStarted
<1>5. \A t \in Nat : StepsInTurn(started, t) = StepsInTurn(log, t)
  BY <1>1, <1>3, StepElsewhere DEF TurnStart
<1>6. log' = Append(started, UserMessage)
  BY <1>1, <1>3 DEF StartTurn
<1>7. SameCounts(started, log')
  BY <1>3, <1>6, EventTypes, QuietEvent DEF UserMessage
<1> HIDE DEF started
<1>8. StepsInTurn(log, turn) = 0
  BY <1>2 DEF BudgetInv, StepsBounded
<1>9. StepsBounded(started)
  BY <1>2, <1>4, <1>5 DEF BudgetInv, StepsBounded
<1>10. CurrentTurn(log') = turn /\ StepsInTurn(log', turn) = 0
  BY <1>2, <1>4, <1>5, <1>7, <1>8 DEF SameCounts
<1> QED
  BY <1>7, <1>9, <1>10, CountsKeepBudget, BudgetAssumption DEF RoomLeft

\* Opening a step: the turn had room for it.
LEMMA StepHasRoom ==
    BudgetInv /\ (BeginStep \/ BeginReservedStep) => StepsBounded(log') /\ RoomLeft'
<1> SUFFICES ASSUME BudgetInv, BeginStep \/ BeginReservedStep
             PROVE StepsBounded(log') /\ RoomLeft'
  OBVIOUS
<1> DEFINE turn == CurrentTurn(log)
<1>1. log \in Seq(Event)
  BY DEF BudgetInv, TypeOK, LogOK
<1>2. turn \in Nat /\ ThisStep \in Nat /\ \A t : StepsInTurn(log, t) \in Nat
  BY <1>1, LogNumbers
<1>3. StepStart(turn, ThisStep) \in Event /\ StepEnd(turn, ThisStep) \in Event
  BY <1>2, EventTypes
<1>4. StepsInTurn(log, turn) < MaxSteps
  BY DEF BudgetInv, RoomLeft, BeginStep, BeginReservedStep
<1>5. Opened \in Seq(Event) /\ StepsInTurn(Opened, turn) = StepsInTurn(log, turn) + 1
  BY <1>1, <1>3, StepCounted DEF Opened
<1>6. /\ <<StepStart(turn, ThisStep)>> \in Seq(Event)
      /\ Opened = log \o <<StepStart(turn, ThisStep)>>
      /\ \A i \in DOMAIN <<StepStart(turn, ThisStep)>> :
            /\ <<StepStart(turn, ThisStep)>>[i].type = "StepStart"
            /\ <<StepStart(turn, ThisStep)>>[i].turn = turn
  BY <1>1, <1>3 DEF Opened, StepStart
<1>7. CurrentTurn(Opened) = turn
  BY <1>1, <1>6, TurnKept
<1>8. \A t \in Nat : t # turn => StepsInTurn(Opened, t) = StepsInTurn(log, t)
  BY <1>1, <1>3, StepElsewhere DEF Opened, StepStart
<1>9. StepsBounded(Opened)
  <2> SUFFICES ASSUME NEW t \in Nat
               PROVE  /\ StepsInTurn(Opened, t) <= MaxSteps
                      /\ t > CurrentTurn(Opened) => StepsInTurn(Opened, t) = 0
    BY DEF StepsBounded
  <2>1. CASE t = turn
    BY <1>2, <1>4, <1>5, <1>7, <2>1, BudgetAssumption
  <2>2. CASE t # turn
    BY <1>7, <1>8, <2>2 DEF BudgetInv, StepsBounded
  <2> QED
    BY <2>1, <2>2
<1>10. SameCounts(Opened, Append(Opened, StepEnd(turn, ThisStep)))
  BY <1>3, <1>5, QuietEvent DEF StepEnd
<1>11. StepsBounded(log')
  <2>1. log' \in {log, Opened, Append(Opened, StepEnd(turn, ThisStep))}
    BY DEF BeginStep, BeginReservedStep
  <2> QED
    BY <1>9, <1>10, <2>1, CountsKeepBudget DEF BudgetInv
<1>12. RoomLeft'
  BY DEF RoomLeft, BeginStep, BeginReservedStep
<1> QED
  BY <1>11, <1>12

\* Every other event a step writes leaves the counts.
LEMMA OtherwiseQuiet ==
    ASSUME TypeOK, StepsBounded(log),
           \/ DecideTurn \/ EndStep \/ RecordAnswer \/ RecordCalls
           \/ ReserveFails \/ AnswerCalls \/ Dispatches
    PROVE  StepsBounded(log')
<1>1. log \in Seq(Event) /\ LogOK /\ LoopOK /\ BatchOK /\ HostOK
  BY DEF TypeOK, LogOK
<1>2. CurrentTurn(log) \in Nat /\ \A t : StepsInTurn(log, t) \in Nat
  BY <1>1, LogNumbers
<1>3. ASSUME NEW e \in Event, e.type \notin {"TurnStart", "StepStart"}, log' = Append(log, e)
      PROVE  StepsBounded(log')
  BY <1>1, <1>3, QuietEvent, CountsKeepBudget
<1>4. CASE DecideTurn
  <2>1. log' = log \/ \E r \in Reasons : log' = Append(log, TurnEnd(CurrentTurn(log), r))
    BY <1>4, DecideTypes DEF DecideTurn, EndTurn
  <2>2. \A r \in Reasons : /\ TurnEnd(CurrentTurn(log), r) \in Event
                           /\ TurnEnd(CurrentTurn(log), r).type = "TurnEnd"
    BY <1>2, EventTypes DEF TurnEnd
  <2> QED
    BY <1>3, <2>1, <2>2
<1>5. CASE EndStep
  <2> DEFINE e == StepEnd(CurrentTurn(log), StepsInTurn(log, CurrentTurn(log)))
  <2>1. log' = log \/ log' = Append(log, e)
    BY <1>5 DEF EndStep
  <2>2. e \in Event /\ e.type = "StepEnd"
    BY <1>2, EventTypes DEF StepEnd
  <2> HIDE DEF e
  <2> QED
    BY <1>3, <2>1, <2>2
<1>6. Recorded \in Event /\ Recorded.type = "AssistantMessage" /\ Response.calls \in Seq(Call)
  <2>1. Response \in Assembled
    BY <1>1, ResponseCut DEF Response, LoopOK
  <2>2. /\ Response.text \in BOOLEAN /\ Response.calls \in Seq(Call)
        /\ Response.interrupted \in BOOLEAN
    BY <2>1 DEF Assembled
  <2> QED
    BY <1>1, <2>2, EventTypes DEF Recorded, HostOK, AssistantMessage
<1>7. CASE RecordAnswer
  BY <1>3, <1>6, <1>7 DEF RecordAnswer
<1>8. CASE RecordCalls
  <2> DEFINE calls == Response.calls
             announced == [i \in DOMAIN calls |-> ToolCall(calls[i])]
  <2>1. announced \in Seq(Event) /\ \A i \in DOMAIN announced : announced[i].type = "ToolCall"
    <3>1. \A i \in DOMAIN calls : ToolCall(calls[i]) \in Event
      BY <1>6, EventTypes
    <3>2. announced \in [DOMAIN calls -> Event]
      BY <3>1
    <3> QED
      BY <1>6, <3>2, MappedSequence DEF ToolCall
  <2>2. log' = Append(log, Recorded) \o announced
    BY <1>8 DEF RecordCalls
  <2>3. Append(log, Recorded) \in Seq(Event) /\ StepsBounded(Append(log, Recorded))
    BY <1>1, <1>6, QuietEvent, CountsKeepBudget
  <2> HIDE DEF announced
  <2> QED
    BY <2>1, <2>2, <2>3, QuietGrowth, CountsKeepBudget
<1>9. CASE ReserveFails \/ AnswerCalls
  <2>1. log' = log \o Results
    BY <1>9 DEF ReserveFails, AnswerCalls
  <2> QED
    BY <1>1, <2>1, ResultsAreEvents, QuietGrowth, CountsKeepBudget
<1>10. CASE Dispatches
  <2>1. log' = log \/ log' = Append(log, GoalChange)
    BY <1>10 DEF Dispatches, RunGoal, GoalsDone, BeginChunk, StartCall, ChunkStarted,
       ToolFinishes, ToolsWoken, ChunkFinished
  <2> QED
    BY <1>3, <2>1, EventTypes DEF GoalChange
<1> QED
  BY <1>4, <1>5, <1>7, <1>8, <1>9, <1>10

LEMMA BudgetSteps == BudgetInv /\ [Next]_vars => StepsBounded(log') /\ RoomLeft'
<1> SUFFICES ASSUME BudgetInv, [Next]_vars PROVE StepsBounded(log') /\ RoomLeft'
  OBVIOUS
<1>1. TypeOK /\ StepsBounded(log) /\ RoomLeft
  BY DEF BudgetInv
<1>2. log \in Seq(Event) /\ CurrentTurn(log) \in Nat /\ \A t : StepsInTurn(log, t) \in Nat
  BY <1>1, LogNumbers DEF TypeOK, LogOK
<1>3. CASE StartTurn
  BY <1>3, TurnHasRoom
<1>4. CASE BeginStep \/ BeginReservedStep
  BY <1>4, StepHasRoom
<1>5. CASE DecideTurn
  <2>1. pc' = "loop" => log' = log /\ Decide(log, outcome, MaxSteps) = "Continue"
    BY <1>5 DEF DecideTurn, ReturnToHost
  <2>2. Decide(log, outcome, MaxSteps) = "Continue" =>
            ~(StepsInTurn(log, CurrentTurn(log)) >= MaxSteps)
    BY DEF Decide, TerminalOutcome
  <2>3. pc' # "begin"
    BY <1>5 DEF DecideTurn, ReturnToHost
  <2>4. RoomLeft'
    BY <1>2, <2>1, <2>2, <2>3, BudgetAssumption DEF RoomLeft
  <2> QED
    BY <1>1, <1>5, <2>4, OtherwiseQuiet
<1>6. CASE \/ EndStep \/ RecordAnswer \/ RecordCalls \/ ReserveFails \/ AnswerCalls
           \/ Dispatches
  <2>1. pc' \notin {"loop", "begin"}
    BY <1>6 DEF EndStep, RecordAnswer, RecordCalls, ReserveFails, AnswerCalls, LeaveBatch,
       Dispatches, RunGoal, GoalsDone, BeginChunk, StartCall, ChunkStarted, ToolFinishes,
       ToolsWoken, ChunkFinished
  <2> QED
    BY <1>1, <1>6, <2>1, OtherwiseQuiet DEF RoomLeft
<1>7. CASE \/ StreamEvent \/ StreamFails \/ StreamEnds \/ StreamStopped \/ RecordRefused
           \/ NoReservation \/ Reserved \/ Abandon
  BY <1>1, <1>7 DEF StreamEvent, StreamFails, StreamEnds, StreamStopped, RecordRefused,
     NoReservation, Reserved, Abandon, ReturnToHost, RoomLeft
<1>8. CASE GateCall \/ PolicyDecides \/ PersonAnswers \/ GateWoken
  <2>1. log' = log /\ pc' \in {"gate", "policy", "ask", "reserve"}
    BY <1>8, GateStays DEF GateCall, PolicyDecides, PersonAnswers, GateWoken, StockGate
  <2> QED
    BY <1>1, <2>1 DEF RoomLeft
<1>9. CASE LoopTop \/ HostActs \/ UNCHANGED vars
  <2>1. log' = log /\ (pc' = pc \/ pc = "loop")
    BY <1>9 DEF LoopTop, HostActs, SetModel, SetApproval, ApproveTool, Stop, loopState, vars
  <2> QED
    BY <1>1, <2>1 DEF RoomLeft
<1> QED
  BY <1>3, <1>4, <1>5, <1>6, <1>7, <1>8, <1>9
     DEF Next, Internal, Woken, Answers, Host, Dispatches, HostActs

\* No turn takes more steps than its budget, also after turns that were dropped
\* or that a refused record left open.
THEOREM StepsWithinBudget == Spec => []WithinBudget
<1>1. Init => BudgetInv
  BY InitTypes, BudgetInit DEF BudgetInv
<1>2. BudgetInv /\ [Next]_vars => BudgetInv'
  BY TypesKept, BudgetSteps DEF BudgetInv, StepsBounded, RoomLeft
<1>3. BudgetInv => WithinBudget
  <2>1. TypeOK => CurrentTurn(log) \in Nat
    BY LogNumbers DEF TypeOK, LogOK
  <2> QED
    BY <2>1 DEF BudgetInv, StepsBounded, WithinBudget
<1> QED
  BY <1>1, <1>2, <1>3, PTL DEF Spec

-----------------------------------------------------------------------------
(***************************************************************************)
(* The batch: what is settled stays settled, and what a stop forbids.      *)
(***************************************************************************)
\* A batch stands from the recording of its calls to their results and nowhere
\* else, and the calls the gate has not come to are undecided.
BatchStands ==
    /\ pc \notin BeforeLease \cup UnderLease => batch = NoBatch
    /\ pc \in {"gate", "policy", "ask"} =>
        \A i \in Calls : i >= batch.at => batch.results[i] = "none"

BatchInv == TypeOK /\ BatchStands

LEMMA BatchInit == Init => BatchStands
BY DEF Init, BatchStands

\* What one call is settled to, and nothing else of the batch.
LEMMA OneSettled ==
    ASSUME BatchOK, NEW i, NEW r, batch' = Settle(batch, i, r)
    PROVE  /\ batch'.calls = batch.calls /\ batch'.chunk = batch.chunk
           /\ batch'.at = batch.at /\ batch'.results = [batch.results EXCEPT ![i] = r]
<1>1. batch = [calls |-> batch.calls, results |-> batch.results,
               at |-> batch.at, chunk |-> batch.chunk]
  BY DEF BatchOK
<1> QED
  BY <1>1 DEF Settle

\* The gate settles the call at it and moves on.
LEMMA GateSettles ==
    ASSUME BatchOK, NEW r, Gated(r)
    PROVE  /\ batch'.calls = batch.calls /\ batch'.chunk = batch.chunk
           /\ batch'.at = batch.at + 1
           /\ batch'.results = [batch.results EXCEPT ![batch.at] = r]
<1>1. batch = [calls |-> batch.calls, results |-> batch.results,
               at |-> batch.at, chunk |-> batch.chunk]
  BY DEF BatchOK
<1> QED
  BY <1>1 DEF Gated, PastGate, Settle, Here

\* All the results at once, or the chunk alone.
LEMMA ManySettled ==
    ASSUME BatchOK, NEW f, batch' = [batch EXCEPT !.results = f]
    PROVE  /\ batch'.calls = batch.calls /\ batch'.chunk = batch.chunk
           /\ batch'.at = batch.at /\ batch'.results = f
<1>1. batch = [calls |-> batch.calls, results |-> batch.results,
               at |-> batch.at, chunk |-> batch.chunk]
  BY DEF BatchOK
<1> QED
  BY <1>1

LEMMA ChunkSet ==
    ASSUME BatchOK, NEW c, batch' = [batch EXCEPT !.chunk = c]
    PROVE  /\ batch'.calls = batch.calls /\ batch'.chunk = c
           /\ batch'.at = batch.at /\ batch'.results = batch.results
<1>1. batch = [calls |-> batch.calls, results |-> batch.results,
               at |-> batch.at, chunk |-> batch.chunk]
  BY DEF BatchOK
<1> QED
  BY <1>1

\* The gate's actions: an answer for the call at it, or a wait.
GateActs == GateCall \/ PolicyDecides \/ PersonAnswers \/ GateWoken

LEMMA GateAnswers ==
    ASSUME TypeOK, GateActs
    PROVE  /\ pc \in {"gate", "policy", "ask"} /\ batch.at \in Calls
           /\ \/ batch' = batch /\ pc' \in {"policy", "ask"}
              \/ \E r \in {"none", "failed", "denied", "interrupted"} : Gated(r)
<1>1. pc \in {"gate", "policy", "ask"}
  BY DEF GateActs, GateCall, PolicyDecides, PersonAnswers, GateWoken
<1>2. batch.at \in Calls
  BY <1>1 DEF TypeOK, GateOK
<1>3. \/ Gated("interrupted") \/ Gated("none") \/ Gated("failed") \/ Gated("denied")
      \/ pc' = "policy" /\ batch' = batch
      \/ StockGate
  <2>1. CASE GateCall
    BY <2>1, Zenon DEF GateCall
  <2>2. CASE PolicyDecides \/ PersonAnswers \/ GateWoken
    BY <2>2 DEF PolicyDecides, PersonAnswers, GateWoken
  <2> QED
    BY <2>1, <2>2 DEF GateActs
<1>4. StockGate => Gated("none") \/ Gated("denied") \/ (pc' = "ask" /\ batch' = batch)
  BY DEF StockGate
<1> QED
  BY <1>1, <1>2, <1>3, <1>4

LEMMA BatchKeeps == BatchInv /\ [Next]_vars => BatchStands'
<1> SUFFICES ASSUME BatchInv, [Next]_vars PROVE BatchStands'
  OBVIOUS
<1> USE DEF BeforeLease, UnderLease
<1>1. BatchOK /\ BatchStands
  BY DEF BatchInv, TypeOK
<1>2. CASE StartTurn \/ LoopTop \/ DecideTurn \/ BeginStep \/ BeginReservedStep \/ EndStep
           \/ StreamEvent \/ StreamFails \/ StreamEnds \/ StreamStopped
           \/ RecordAnswer \/ RecordRefused
  <2>1. batch' = batch /\ pc \notin BeforeLease \cup UnderLease
        /\ pc' \notin BeforeLease \cup UnderLease
    BY <1>2 DEF StartTurn, LoopTop, DecideTurn, ReturnToHost, BeginStep,
       BeginReservedStep, EndStep, StreamEvent, StreamFails, StreamEnds, StreamStopped,
       RecordAnswer, RecordRefused
  <2> QED
    BY <1>1, <2>1 DEF BatchStands
<1>3. CASE RecordCalls
  <2>1. PICK calls : batch' = [calls |-> calls, results |-> [i \in DOMAIN calls |-> "none"],
                               at |-> 1, chunk |-> {}]
    BY <1>3 DEF RecordCalls
  <2>2. pc' = "gate"
    BY <1>3 DEF RecordCalls
  <2> QED
    BY <2>1, <2>2 DEF BatchStands, Calls
<1>4. CASE GateActs
  <2>1. CASE batch' = batch /\ pc' \in {"policy", "ask"}
    BY <1>1, <1>4, <2>1, GateAnswers DEF BatchStands, BatchInv, Calls
  <2>2. ASSUME NEW r, Gated(r) PROVE BatchStands'
    <3>1. pc' \in {"gate", "reserve"}
      BY <2>2, GateStays
    <3>2. /\ batch'.calls = batch.calls /\ batch'.at = batch.at + 1
          /\ batch'.results = [batch.results EXCEPT ![batch.at] = r]
      BY <1>1, <2>2, GateSettles
    <3>3. batch.at \in Nat /\ Calls \subseteq Nat /\ DOMAIN batch.results = Calls
      BY <1>1 DEF BatchOK, Calls
    <3>4. \A i \in Calls : i >= batch.at => batch.results[i] = "none"
      BY <1>1, <1>4, GateAnswers DEF BatchStands, BatchInv
    <3>5. \A i \in Calls : i >= batch.at + 1 => batch'.results[i] = "none"
      BY <3>2, <3>3, <3>4
    <3> QED
      BY <3>1, <3>2, <3>5 DEF BatchStands, Calls
  <2> QED
    BY <1>4, <2>1, <2>2, GateAnswers DEF BatchInv
<1>5. CASE NoReservation \/ Reserved \/ Dispatches
  <2>1. pc' \in UnderLease
    BY <1>5 DEF NoReservation, Reserved, Dispatches, RunGoal, GoalsDone, BeginChunk, StartCall,
       ChunkStarted, ToolFinishes, ToolsWoken, ChunkFinished
  <2> QED
    BY <2>1 DEF BatchStands
<1>6. CASE ReserveFails \/ AnswerCalls \/ Abandon
  <2>1. batch' = NoBatch /\ pc' \in {"idle", "endstep"}
    BY <1>6 DEF ReserveFails, AnswerCalls, LeaveBatch, Abandon, ReturnToHost
  <2> QED
    BY <2>1 DEF BatchStands
<1>7. CASE HostActs \/ UNCHANGED vars
  <2>1. batch' = batch /\ pc' = pc
    BY <1>7 DEF HostActs, SetModel, SetApproval, ApproveTool, Stop, loopState, vars
  <2> QED
    BY <1>1, <2>1 DEF BatchStands, Calls
<1> QED
  BY <1>2, <1>3, <1>4, <1>5, <1>6, <1>7
     DEF Next, Internal, Woken, Answers, Host, Dispatches, HostActs, GateActs

-----------------------------------------------------------------------------
\* What a step may do to the results: nothing that is settled is unsettled.
SettledKept ==
    batch.calls # <<>> /\ batch'.calls = batch.calls =>
        \A i \in Calls :
            batch.results[i] \in Settled => batch'.results[i] = batch.results[i]

\* What a step may do to the batch once the loop is stopped.
BatchStopped ==
    /\ Cancelled => batch'.chunk \subseteq batch.chunk
    /\ Cancelled /\ pc # "start" => batch.calls # batch'.calls \/ Starts = {}
    /\ ControlCancelled => batch.calls # batch'.calls \/ Starts = {}

\* Settling one undecided or running call, to something that is no start unless
\* the loop is not stopped.
LEMMA SettlingIsSound ==
    ASSUME BatchOK, NEW i \in Calls, NEW r,
           batch'.calls = batch.calls, batch'.chunk = batch.chunk,
           batch'.results = [batch.results EXCEPT ![i] = r],
           batch.results[i] \notin Settled,
           \/ r \notin {"running", "ran"}
           \/ batch.results[i] # "none"
           \/ ~ControlCancelled /\ (Cancelled => pc = "start")
    PROVE  SettledKept /\ BatchStopped
<1>1. DOMAIN batch.results = Calls
  BY DEF BatchOK
<1>2. \A j \in Calls : j # i => batch'.results[j] = batch.results[j]
  BY <1>1
<1>3. batch'.results[i] = r
  BY <1>1
<1>4. SettledKept
  BY <1>2 DEF SettledKept
<1>5. CASE r \notin {"running", "ran"} \/ batch.results[i] # "none"
  <2>1. Starts = {}
    BY <1>2, <1>3, <1>5 DEF Starts
  <2> QED
    BY <1>4, <2>1 DEF BatchStopped
<1>6. CASE ~ControlCancelled /\ (Cancelled => pc = "start")
  BY <1>4, <1>6 DEF BatchStopped
<1> QED
  BY <1>5, <1>6

LEMMA SettleIsSound ==
    ASSUME BatchOK, NEW i \in Calls, NEW r, batch' = Settle(batch, i, r),
           batch.results[i] \in {"none", "running"},
           \/ r \in {"interrupted", "refused"}
           \/ batch.results[i] # "none"
           \/ ~ControlCancelled /\ (Cancelled => pc = "start")
    PROVE  SettledKept /\ BatchStopped
<1>1. /\ batch'.calls = batch.calls /\ batch'.chunk = batch.chunk
      /\ batch'.results = [batch.results EXCEPT ![i] = r]
  BY OneSettled
<1>2. batch.results[i] \notin Settled
  BY DEF Settled
<1> QED
  BY <1>1, <1>2, SettlingIsSound

\* Settling a set of them to something that is no start.
LEMMA SettlingManyIsSound ==
    ASSUME BatchOK, NEW S, NEW r, r \in {"interrupted", "refused"},
           batch' = [batch EXCEPT !.results =
                [i \in Calls |-> IF i \in S THEN r ELSE batch.results[i]]],
           \A i \in S : batch.results[i] \in {"none", "running"}
    PROVE  SettledKept /\ BatchStopped
<1> DEFINE f == [i \in Calls |-> IF i \in S THEN r ELSE batch.results[i]]
<1>1. batch'.calls = batch.calls /\ batch'.chunk = batch.chunk /\ batch'.results = f
  BY ManySettled
<1>2. \A i \in Calls : f[i] = IF i \in S THEN r ELSE batch.results[i]
  OBVIOUS
<1>3. \A i \in S : batch.results[i] \notin Settled
  BY DEF Settled
<1> HIDE DEF f
<1>4. SettledKept
  BY <1>1, <1>2, <1>3 DEF SettledKept
<1>5. Starts = {}
  BY <1>1, <1>2 DEF Starts
<1> QED
  BY <1>1, <1>4, <1>5 DEF BatchStopped

\* Leaving the results alone and dispatching nothing more.
LEMMA QuietIsSound ==
    ASSUME batch'.chunk \subseteq batch.chunk \/ ~Cancelled,
           batch'.calls = batch.calls => batch'.results = batch.results
    PROVE  SettledKept /\ BatchStopped
<1>1. batch'.calls = batch.calls => Starts = {}
  BY DEF Starts
<1>2. ControlCancelled => Cancelled
  BY DEF ControlCancelled, Cancelled
<1>3. SettledKept
  BY DEF SettledKept
<1> QED
  BY <1>1, <1>2, <1>3 DEF BatchStopped

\* Dispatching the calls starts none under a stop and unsettles none.
LEMMA DispatchIsSound == BatchInv /\ Dispatches => SettledKept /\ BatchStopped
<1> SUFFICES ASSUME BatchInv, Dispatches PROVE SettledKept /\ BatchStopped
  OBVIOUS
<1>1. BatchOK /\ batch.chunk \subseteq Calls
  BY DEF BatchInv, TypeOK, BatchOK
<1>2. ControlCancelled => Cancelled
  BY DEF ControlCancelled, Cancelled
<1>3. CASE RunGoal
  <2>1. PICK i : i = Min(OpenGoals)
    OBVIOUS
  <2>2. i \in Calls /\ batch.results[i] = "none"
    <3>1. i \in OpenGoals
      BY <1>1, <1>3, <2>1, FirstOfSome DEF RunGoal, OpenGoals, Open
    <3> QED
      BY <3>1 DEF OpenGoals, Open
  <2>3. \/ batch' = Settle(batch, i, "interrupted")
        \/ batch' = Settle(batch, i, "refused")
        \/ ~Cancelled /\ batch' = Settle(batch, i, "ran")
    BY <1>3, <2>1 DEF RunGoal
  <2>4. CASE batch' = Settle(batch, i, "interrupted")
    BY <1>1, <2>2, <2>4, SettleIsSound
  <2>5. CASE batch' = Settle(batch, i, "refused")
    BY <1>1, <2>2, <2>5, SettleIsSound
  <2>6. CASE ~Cancelled /\ batch' = Settle(batch, i, "ran")
    BY <1>1, <1>2, <2>2, <2>6, SettleIsSound
  <2> QED
    BY <2>3, <2>4, <2>5, <2>6
<1>4. CASE StartCall
  <2>1. PICK i : i = Min(Unstarted)
    OBVIOUS
  <2>2. i \in Calls /\ batch.results[i] = "none" /\ pc = "start"
    <3>1. i \in Unstarted
      BY <1>1, <1>4, <2>1, FirstOfSome DEF StartCall, Unstarted
    <3> QED
      BY <1>1, <1>4, <3>1 DEF Unstarted, StartCall
  <2>3. \/ batch' = Settle(batch, i, "interrupted")
        \/ batch' = Settle(batch, i, "refused")
        \/ ~ControlCancelled /\ batch' = Settle(batch, i, "running")
    BY <1>4, <2>1 DEF StartCall
  <2>4. CASE batch' = Settle(batch, i, "interrupted")
    BY <1>1, <2>2, <2>4, SettleIsSound
  <2>5. CASE batch' = Settle(batch, i, "refused")
    BY <1>1, <2>2, <2>5, SettleIsSound
  <2>6. CASE ~ControlCancelled /\ batch' = Settle(batch, i, "running")
    BY <1>1, <2>2, <2>6, SettleIsSound
  <2> QED
    BY <2>3, <2>4, <2>5, <2>6
<1>5. CASE ToolFinishes
  <2>1. PICK i \in Running : batch' = Settle(batch, i, "ran")
    BY <1>5 DEF ToolFinishes
  <2>2. i \in Calls /\ batch.results[i] = "running"
    BY <1>1, <2>1 DEF Running
  <2> QED
    BY <1>1, <2>1, <2>2, SettleIsSound
<1>6. CASE ToolsWoken
  <2>1. batch' = [batch EXCEPT !.results =
            [i \in Calls |-> IF i \in Running THEN "interrupted" ELSE batch.results[i]]]
    BY <1>6 DEF ToolsWoken
  <2>2. \A i \in Running : batch.results[i] \in {"none", "running"}
    BY DEF Running
  <2> QED
    BY <1>1, <2>1, <2>2, SettlingManyIsSound
<1>7. CASE BeginChunk
  <2>1. CASE Cancelled
    <3>1. batch' = [batch EXCEPT !.results =
              [i \in Calls |-> IF i \in NextChunk THEN "interrupted" ELSE batch.results[i]]]
      BY <1>7, <2>1 DEF BeginChunk
    <3>2. \A i \in NextChunk : batch.results[i] \in {"none", "running"}
      BY DEF NextChunk, Open
    <3> QED
      BY <1>1, <3>1, <3>2, SettlingManyIsSound
  <2>2. CASE ~Cancelled
    <3>1. batch' = [batch EXCEPT !.chunk = NextChunk]
      BY <1>7, <2>2 DEF BeginChunk
    <3> QED
      BY <1>1, <2>2, <3>1, ChunkSet, QuietIsSound
  <2> QED
    BY <2>1, <2>2
<1>8. CASE ChunkFinished
  <2>1. batch' = [batch EXCEPT !.chunk = {}]
    BY <1>8 DEF ChunkFinished
  <2> QED
    BY <1>1, <2>1, ChunkSet, QuietIsSound
<1>9. CASE GoalsDone \/ ChunkStarted
  BY <1>9, QuietIsSound DEF GoalsDone, ChunkStarted
<1> QED
  BY <1>3, <1>4, <1>5, <1>6, <1>7, <1>8, <1>9 DEF Dispatches

\* So does every other step.
LEMMA BatchIsSound == BatchInv /\ [Next]_vars => SettledKept /\ BatchStopped
<1> SUFFICES ASSUME BatchInv, [Next]_vars PROVE SettledKept /\ BatchStopped
  OBVIOUS
<1>1. BatchOK /\ BatchStands
  BY DEF BatchInv, TypeOK
<1>2. CASE \/ StartTurn \/ LoopTop \/ DecideTurn \/ BeginStep \/ BeginReservedStep \/ EndStep
           \/ StreamEvent \/ StreamFails \/ StreamEnds \/ StreamStopped
           \/ RecordAnswer \/ RecordRefused \/ NoReservation \/ HostActs \/ UNCHANGED vars
  <2>1. batch' = batch
    BY <1>2 DEF StartTurn, LoopTop, DecideTurn, ReturnToHost, BeginStep,
       BeginReservedStep, EndStep, StreamEvent, StreamFails, StreamEnds, StreamStopped,
       RecordAnswer, RecordRefused, NoReservation, HostActs, SetModel, SetApproval,
       ApproveTool, Stop, loopState, vars
  <2> QED
    BY <2>1, QuietIsSound
<1>3. CASE RecordCalls
  <2>1. batch.calls = <<>>
    BY <1>1, <1>3 DEF RecordCalls, BatchStands, BeforeLease, UnderLease, NoBatch
  <2>2. batch'.calls = Response.calls /\ Response.calls # <<>> /\ batch'.chunk = {}
    BY <1>3 DEF RecordCalls
  <2> QED
    BY <2>1, <2>2, QuietIsSound
<1>4. CASE GateActs
  <2>1. CASE batch' = batch
    BY <2>1, QuietIsSound
  <2>2. ASSUME NEW r \in {"none", "failed", "denied", "interrupted"}, Gated(r)
        PROVE  SettledKept /\ BatchStopped
    <3>1. batch.at \in Calls /\ batch.at \in Nat /\ batch.results[batch.at] = "none"
      BY <1>1, <1>4, GateAnswers DEF BatchInv, BatchStands, BatchOK
    <3>2. r \notin {"running", "ran"} /\ batch.results[batch.at] \notin Settled
      BY <3>1 DEF Settled
    <3> QED
      BY <1>1, <2>2, <3>1, <3>2, GateSettles, SettlingIsSound
  <2> QED
    BY <1>4, <2>1, <2>2, GateAnswers DEF BatchInv
<1>5. CASE Reserved
  <2>1. PICK S \in SUBSET Open : batch' = [batch EXCEPT !.results =
            [i \in Calls |-> IF i \in S THEN "refused" ELSE batch.results[i]]]
    BY <1>5 DEF Reserved
  <2>2. \A i \in S : batch.results[i] \in {"none", "running"}
    BY DEF Open
  <2> QED
    BY <1>1, <2>1, <2>2, SettlingManyIsSound
<1>6. CASE ReserveFails \/ AnswerCalls \/ Abandon
  <2>1. batch'.calls = <<>> /\ batch'.results = <<>> /\ batch'.chunk = {}
    BY <1>6 DEF ReserveFails, AnswerCalls, LeaveBatch, Abandon, ReturnToHost, NoBatch
  <2>2. batch.calls = <<>> => batch.results = <<>>
    BY <1>1 DEF BatchOK, Calls
  <2> QED
    BY <2>1, <2>2, QuietIsSound
<1>7. CASE Dispatches
  BY <1>7, DispatchIsSound
<1> QED
  BY <1>2, <1>3, <1>4, <1>5, <1>6, <1>7
     DEF Next, Internal, Woken, Answers, Host, Dispatches, HostActs, GateActs

\* What the gate, the admission port or an interruption has settled stays
\* settled: no later phase of the batch runs that call or answers it anew.
THEOREM SettledStaysAlways == Spec => SettledStays
<1>1. Init => BatchInv
  BY InitTypes, BatchInit DEF BatchInv
<1>2. BatchInv /\ [Next]_vars => BatchInv'
  BY TypesKept, BatchKeeps DEF BatchInv
<1>3. BatchInv /\ [Next]_vars =>
        [batch.calls # <<>> /\ batch'.calls = batch.calls =>
            \A i \in Calls :
                batch.results[i] \in Settled => batch'.results[i] = batch.results[i]]_vars
  BY BatchIsSound DEF SettledKept
<1> QED
  BY <1>1, <1>2, <1>3, PTL DEF Spec, SettledStays

-----------------------------------------------------------------------------
(***************************************************************************)
(* What is written, and by which actions.                                  *)
(***************************************************************************)
\* The actions that frame turns and steps.
Frames == StartTurn \/ BeginStep \/ BeginReservedStep \/ EndStep \/ DecideTurn

\* The events of a step's body.
Body == {"AssistantMessage", "ToolCall", "ToolResult", "GoalChange"}

\* Events the loop appends inside a step: a response only first, and only where
\* one is recorded.
BodyOnly(more) ==
    \A i \in DOMAIN more :
        /\ more[i].type \in Body
        /\ more[i].type = "AssistantMessage" =>
            i = 1 /\ (RecordAnswer \/ RecordCalls) /\ more[1] = Recorded

LEMMA NothingWritten ==
    log \in Seq(Event) => log = log \o <<>> /\ <<>> \in Seq(Event) /\ BodyOnly(<<>>)
BY DEF BodyOnly

LEMMA OneWritten ==
    ASSUME log \in Seq(Event), NEW e \in Event, e.type \in Body,
           e.type = "AssistantMessage" => (RecordAnswer \/ RecordCalls) /\ e = Recorded
    PROVE  <<e>> \in Seq(Event) /\ Append(log, e) = log \o <<e>> /\ BodyOnly(<<e>>)
<1>1. DOMAIN <<e>> = {1} /\ <<e>>[1] = e
  OBVIOUS
<1> QED
  BY <1>1 DEF BodyOnly

\* The response that is recorded is an event.
LEMMA RecordedIsEvent ==
    ASSUME TypeOK
    PROVE  /\ Recorded \in Event /\ Recorded.type = "AssistantMessage"
           /\ Response.calls \in Seq(Call) /\ Recorded.calls = Response.calls
           /\ Recorded.interrupted = Response.interrupted /\ Recorded.model = selection.model
<1>1. LoopOK /\ HostOK
  BY DEF TypeOK
<1>2. Response \in Assembled
  BY <1>1, ResponseCut DEF Response, LoopOK
<1>3. /\ Response.text \in BOOLEAN /\ Response.calls \in Seq(Call)
      /\ Response.interrupted \in BOOLEAN /\ selection.model \in Models
  BY <1>1, <1>2 DEF Assembled, HostOK
<1> QED
  BY <1>3, EventTypes DEF Recorded, AssistantMessage

\* The calls of a response, announced behind it.
LEMMA CallsWritten ==
    ASSUME TypeOK, RecordCalls
    PROVE  \E more \in Seq(Event) : log' = log \o more /\ BodyOnly(more)
<1> DEFINE calls == Response.calls
           announced == [i \in DOMAIN calls |-> ToolCall(calls[i])]
           more == <<Recorded>> \o announced
<1>1. log \in Seq(Event) /\ Recorded \in Event /\ calls \in Seq(Call)
  BY RecordedIsEvent DEF TypeOK, LogOK
<1>2. announced \in Seq(Event) /\ \A i \in DOMAIN announced : announced[i].type = "ToolCall"
  <2>1. \A i \in DOMAIN calls : ToolCall(calls[i]) \in Event
    BY <1>1, EventTypes
  <2>2. announced \in [DOMAIN calls -> Event]
    BY <2>1
  <2> QED
    BY <1>1, <2>2, MappedSequence DEF ToolCall
<1>3. log' = Append(log, Recorded) \o announced
  BY DEF RecordCalls
<1> HIDE DEF announced
<1>4. log' = log \o more /\ more \in Seq(Event)
  BY <1>1, <1>2, <1>3
<1>5. \A i \in DOMAIN more : (i = 1 /\ more[i] = Recorded)
                             \/ (i - 1 \in DOMAIN announced /\ more[i] = announced[i - 1])
  BY <1>1, <1>2
<1>6. more[1] = Recorded
  BY <1>1, <1>2
<1> HIDE DEF more
<1>7. BodyOnly(more)
  <2> SUFFICES ASSUME NEW i \in DOMAIN more
               PROVE  /\ more[i].type \in Body
                      /\ more[i].type = "AssistantMessage" => i = 1
    BY <1>6 DEF BodyOnly
  <2>1. CASE i = 1 /\ more[i] = Recorded
    BY <2>1, RecordedIsEvent DEF Body
  <2>2. CASE i - 1 \in DOMAIN announced /\ more[i] = announced[i - 1]
    BY <1>2, <2>2 DEF Body
  <2> QED
    BY <1>5, <2>1, <2>2
<1> QED
  BY <1>4, <1>7

\* What the actions that frame nothing write.
LEMMA OtherWrites ==
    ASSUME TypeOK, [Next]_vars
    PROVE  Frames \/ \E more \in Seq(Event) : log' = log \o more /\ BodyOnly(more)
<1>1. log \in Seq(Event) /\ BatchOK
  BY DEF TypeOK, LogOK
<1>2. CASE log' = log
  BY <1>1, <1>2, NothingWritten
<1>3. ASSUME NEW e \in Event, log' = Append(log, e), e.type \in Body,
             e.type = "AssistantMessage" => (RecordAnswer \/ RecordCalls) /\ e = Recorded
      PROVE  \E more \in Seq(Event) : log' = log \o more /\ BodyOnly(more)
  BY <1>1, <1>3, OneWritten
<1>4. CASE RecordAnswer
  <2>1. log' = Append(log, Recorded)
    BY <1>4 DEF RecordAnswer
  <2> QED
    BY <1>3, <1>4, <2>1, RecordedIsEvent DEF Body
<1>5. CASE RecordCalls
  BY <1>5, CallsWritten
<1>6. CASE ReserveFails \/ AnswerCalls
  <2>1. log' = log \o Results
    BY <1>6 DEF ReserveFails, AnswerCalls
  <2>2. BodyOnly(Results)
    BY <1>1, ResultsAreEvents DEF BodyOnly, Body
  <2> QED
    BY <1>1, <2>1, <2>2, ResultsAreEvents
<1>7. CASE Dispatches
  <2>1. log' = log \/ log' = Append(log, GoalChange)
    BY <1>7 DEF Dispatches, RunGoal, GoalsDone, BeginChunk, StartCall, ChunkStarted,
       ToolFinishes, ToolsWoken, ChunkFinished
  <2>2. GoalChange \in Event /\ GoalChange.type = "GoalChange"
    BY EventTypes DEF GoalChange
  <2> QED
    BY <1>2, <1>3, <2>1, <2>2 DEF Body
<1>8. CASE \/ LoopTop \/ StreamEvent \/ StreamFails \/ StreamEnds \/ StreamStopped
           \/ RecordRefused \/ NoReservation \/ Reserved \/ GateActs \/ Abandon
           \/ HostActs \/ UNCHANGED vars
  <2>1. log' = log
    BY <1>8 DEF LoopTop, StreamEvent, StreamFails, StreamEnds, StreamStopped, RecordRefused,
       NoReservation, Reserved, GateActs, GateCall, PolicyDecides, PersonAnswers, GateWoken,
       Abandon, HostActs, SetModel, SetApproval, ApproveTool, Stop, loopState, vars
  <2> QED
    BY <1>2, <2>1
<1> QED
  BY <1>4, <1>5, <1>6, <1>7, <1>8
     DEF Next, Internal, Woken, Answers, Host, Dispatches, HostActs, GateActs, Frames

\* Appending events none of which is of a kind leaves that kind's positions.
LEMMA PositionsKept ==
    ASSUME NEW E, NEW events \in Seq(E), NEW more \in Seq(E), NEW kind,
           \A i \in DOMAIN more : more[i].type # kind
    PROVE  Positions(events \o more, kind) = Positions(events, kind)
<1> DEFINE new == events \o more
<1>1. /\ new \in Seq(E) /\ Len(new) = Len(events) + Len(more)
      /\ \A i \in 1..Len(events) : new[i] = events[i]
      /\ \A i \in 1..Len(new) : i > Len(events) => new[i] = more[i - Len(events)]
                                                /\ i - Len(events) \in DOMAIN more
  OBVIOUS
<1> QED
  BY <1>1 DEF Positions

\* No action but those that open a step writes a step's start.
LEMMA NoStepOpened ==
    ASSUME TypeOK, [Next]_vars, pc # "begin"
    PROVE  Positions(log', "StepStart") = Positions(log, "StepStart")
<1>1. log \in Seq(Event) /\ CurrentTurn(log) \in Nat /\ \A t : StepsInTurn(log, t) \in Nat
  BY LogNumbers DEF TypeOK, LogOK
<1>2. ASSUME NEW more \in Seq(Event), log' = log \o more,
             \A i \in DOMAIN more : more[i].type # "StepStart"
      PROVE  Positions(log', "StepStart") = Positions(log, "StepStart")
  BY <1>1, <1>2, PositionsKept
<1>3. ASSUME NEW e \in Event, log' = Append(log, e), e.type # "StepStart"
      PROVE  Positions(log', "StepStart") = Positions(log, "StepStart")
  <2>1. <<e>> \in Seq(Event) /\ log' = log \o <<e>> /\ DOMAIN <<e>> = {1} /\ <<e>>[1] = e
    BY <1>1, <1>3
  <2> QED
    BY <1>2, <1>3, <2>1
<1>4. CASE StartTurn
  <2> DEFINE start == TurnStart(CurrentTurn(log) + 1)
             more == <<start, UserMessage>>
  <2>1. start \in Event /\ UserMessage \in Event /\ start.type = "TurnStart"
        /\ UserMessage.type = "UserMessage" /\ log' = log \o more
    BY <1>1, <1>4, EventTypes DEF StartTurn, TurnStart, UserMessage
  <2> HIDE DEF start
  <2>2. more \in Seq(Event) /\ \A i \in DOMAIN more : more[i].type # "StepStart"
    BY <2>1
  <2> HIDE DEF more
  <2> QED
    BY <1>2, <2>1, <2>2
<1>5. CASE EndStep
  <2> DEFINE e == StepEnd(CurrentTurn(log), StepsInTurn(log, CurrentTurn(log)))
  <2>1. log' = log \/ log' = Append(log, e)
    BY <1>5 DEF EndStep
  <2>2. e \in Event /\ e.type = "StepEnd"
    BY <1>1, EventTypes DEF StepEnd
  <2> HIDE DEF e
  <2> QED
    BY <1>3, <2>1, <2>2
<1>6. CASE DecideTurn
  <2>1. log' = log \/ \E r \in Reasons : log' = Append(log, TurnEnd(CurrentTurn(log), r))
    BY <1>6, DecideTypes DEF DecideTurn, EndTurn
  <2>2. \A r \in Reasons : /\ TurnEnd(CurrentTurn(log), r) \in Event
                           /\ TurnEnd(CurrentTurn(log), r).type = "TurnEnd"
    BY <1>1, EventTypes DEF TurnEnd
  <2> QED
    BY <1>3, <2>1, <2>2
<1>7. ASSUME NEW more \in Seq(Event), log' = log \o more, BodyOnly(more)
      PROVE  Positions(log', "StepStart") = Positions(log, "StepStart")
  BY <1>2, <1>7 DEF BodyOnly, Body
<1>8. ~BeginStep /\ ~BeginReservedStep
  BY DEF BeginStep, BeginReservedStep
<1> QED
  BY <1>4, <1>5, <1>6, <1>7, <1>8, OtherWrites DEF Frames

\* Once stopped the loop opens no step but the one whose check came just before,
\* dispatches no further chunk, runs no goal call, and starts no tool under a
\* cancelled control.
THEOREM StopHoldsAlways == Spec => StopHolds
<1>1. Init => BatchInv
  BY InitTypes, BatchInit DEF BatchInv
<1>2. BatchInv /\ [Next]_vars => BatchInv'
  BY TypesKept, BatchKeeps DEF BatchInv
<1>3. BatchInv /\ [Next]_vars =>
        [/\ Cancelled /\ pc # "begin" =>
                Cardinality(Positions(log', "StepStart")) = Cardinality(Positions(log, "StepStart"))
         /\ Cancelled => batch'.chunk \subseteq batch.chunk
         /\ Cancelled /\ pc # "start" => batch.calls # batch'.calls \/ Starts = {}
         /\ ControlCancelled => batch.calls # batch'.calls \/ Starts = {}]_vars
  BY BatchIsSound, NoStepOpened DEF BatchStopped, BatchInv
<1> QED
  BY <1>1, <1>2, <1>3, PTL DEF Spec, StopHolds

-----------------------------------------------------------------------------
(***************************************************************************)
(* The model a response is attributed to.                                  *)
(***************************************************************************)
\* With a port that holds the selection, the hold is out while a response comes
\* in and is recorded.
HoldIsOut == Held /\ pc \in {"stream", "record"} => selection.held

LEMMA HoldKept ==
    ASSUME SelectionInv, HoldIsOut, [Next]_vars
    PROVE  HoldIsOut'
<1>1. selection \in [model : Models, pending : Models \cup {None}, held : BOOLEAN]
  BY DEF SelectionInv, TypeOK, HostOK
<1>2. CASE BeginStep \/ BeginReservedStep
  <2>1. pc' = "stream" => selection' = [selection EXCEPT !.held = Held]
    BY <1>2 DEF BeginStep, BeginReservedStep, Took
  <2>2. pc' # "record"
    BY <1>2 DEF BeginStep, BeginReservedStep
  <2> QED
    BY <1>1, <2>1, <2>2 DEF HoldIsOut
<1>3. CASE StreamEvent \/ StreamEnds \/ StreamStopped
  BY <1>3 DEF StreamEvent, StreamEnds, StreamStopped, settings, HoldIsOut
<1>4. CASE GateActs
  <2>1. pc' \in {"policy", "ask", "gate", "reserve"}
    BY <1>4, GateAnswers, GateStays DEF SelectionInv
  <2> QED
    BY <2>1 DEF HoldIsOut
<1>5. CASE \/ StartTurn \/ LoopTop \/ DecideTurn \/ EndStep \/ StreamFails \/ RecordAnswer
           \/ RecordCalls \/ RecordRefused \/ NoReservation \/ Reserved \/ ReserveFails
           \/ AnswerCalls \/ Dispatches \/ Abandon
  <2>1. pc' \notin {"stream", "record"}
    BY <1>5 DEF StartTurn, LoopTop, DecideTurn, ReturnToHost, EndStep, StreamFails, RecordAnswer,
       RecordCalls, RecordRefused, NoReservation, Reserved, ReserveFails, AnswerCalls, LeaveBatch,
       Dispatches, RunGoal, GoalsDone, BeginChunk, StartCall, ChunkStarted, ToolFinishes,
       ToolsWoken, ChunkFinished, Abandon
  <2> QED
    BY <2>1 DEF HoldIsOut
<1>6. CASE HostActs \/ UNCHANGED vars
  <2>1. pc' = pc /\ selection'.held = selection.held
    BY <1>1, <1>6 DEF HostActs, SetModel, SelectModel, SetApproval, ApproveTool, Stop, loopState,
       settings, vars
  <2> QED
    BY <2>1 DEF HoldIsOut
<1> QED
  BY <1>2, <1>3, <1>4, <1>5, <1>6
     DEF Next, Internal, Woken, Answers, Host, Dispatches, HostActs, GateActs

\* A response that is recorded names the model in force.
LEMMA ResponseNamesModel ==
    ASSUME TypeOK, [Next]_vars, Grew, log'[Len(log) + 1].type = "AssistantMessage"
    PROVE  pc = "record" /\ log'[Len(log) + 1].model = selection.model
<1>1. log \in Seq(Event) /\ CurrentTurn(log) \in Nat /\ \A t : StepsInTurn(log, t) \in Nat
      /\ ThisStep \in Nat
  BY LogNumbers DEF TypeOK, LogOK
<1>2. ASSUME NEW more \in Seq(Event), log' = log \o more, BodyOnly(more)
      PROVE  pc = "record" /\ log'[Len(log) + 1].model = selection.model
  <2>1. Len(more) > 0 /\ log'[Len(log) + 1] = more[1]
    BY <1>1, <1>2 DEF Grew
  <2>2. (RecordAnswer \/ RecordCalls) /\ more[1] = Recorded
    BY <1>2, <2>1 DEF BodyOnly
  <2> QED
    BY <2>1, <2>2, RecordedIsEvent DEF RecordAnswer, RecordCalls
<1>3. ~Frames
  <2>1. CASE StartTurn
    <3>1. log'[Len(log) + 1] = TurnStart(CurrentTurn(log) + 1)
      <4>1. log' = log \o <<TurnStart(CurrentTurn(log) + 1), UserMessage>>
        BY <2>1 DEF StartTurn
      <4> QED
        BY <1>1, <4>1
    <3> QED
      BY <3>1 DEF TurnStart
  <2>2. CASE BeginStep \/ BeginReservedStep
    <3>1. log'[Len(log) + 1] = StepStart(CurrentTurn(log), ThisStep)
      <4> DEFINE e == StepStart(CurrentTurn(log), ThisStep)
                 f == StepEnd(CurrentTurn(log), ThisStep)
      <4>1. \/ log' = Append(log, e) \/ log' = Append(Append(log, e), f) \/ log' = log
        BY <2>2 DEF BeginStep, BeginReservedStep, Opened
      <4>2. e \in Event /\ f \in Event
        BY <1>1, EventTypes
      <4> HIDE DEF e, f
      <4>3. log' # log
        BY <1>1 DEF Grew
      <4>4. log'[Len(log) + 1] = e
        BY <1>1, <4>1, <4>2, <4>3
      <4> QED
        BY <4>4 DEF e
    <3> QED
      BY <3>1 DEF StepStart
  <2>3. CASE EndStep
    <3>1. log'[Len(log) + 1] = StepEnd(CurrentTurn(log), StepsInTurn(log, CurrentTurn(log)))
      BY <1>1, <2>3 DEF EndStep, Grew
    <3> QED
      BY <3>1 DEF StepEnd
  <2>4. CASE DecideTurn
    <3>1. PICK r : log'[Len(log) + 1] = TurnEnd(CurrentTurn(log), r)
      BY <1>1, <2>4 DEF DecideTurn, EndTurn, Grew
    <3> QED
      BY <3>1 DEF TurnEnd
  <2> QED
    BY <2>1, <2>2, <2>3, <2>4 DEF Frames
<1> QED
  BY <1>2, <1>3, OtherWrites

\* With a port that holds the selection, a response is attributed to the model
\* its request named, whatever the host selects while it streams.
THEOREM RecordNamesRequestedModelAlways ==
    ASSUME Held
    PROVE  Spec => RecordNamesRequestedModel
<1> DEFINE Inv == SelectionInv /\ HoldIsOut
<1>1. Init => Inv
  BY InitTypes, SelectionInit DEF SelectionInv, HoldIsOut, Init
<1>2. Inv /\ [Next]_vars => Inv'
  BY TypesKept, SelectionSteps, HoldKept DEF SelectionInv
<1>3. Inv /\ [Next]_vars =>
        [Grew /\ log'[Len(log) + 1].type = "AssistantMessage" =>
            log'[Len(log) + 1].model = request.model]_vars
  BY ResponseNamesModel DEF SelectionInv, SelectionLands, HoldIsOut
<1> HIDE DEF Inv
<1> QED
  BY <1>1, <1>2, <1>3, PTL DEF Spec, RecordNamesRequestedModel

-----------------------------------------------------------------------------
(***************************************************************************)
(* A turn that is said to be complete.                                     *)
(***************************************************************************)
\* The last response was heard out in this turn and asked for nothing.
AnswerStands(l) ==
    LET last == LastOf(l, "AssistantMessage")
    IN  /\ last > LastOf(l, "TurnStart")
        /\ l[last].calls = <<>>
        /\ ~l[last].interrupted

\* Where a step has come to an answer, the log ends in it.
AnswerIsLast == pc \in {"endstep", "decide"} /\ outcome = "FinalAnswer" => AnswerStands(log)

\* What comes before a record that completes a turn: such an answer, and no call
\* that is owed a result.
DoneBefore(before) == AnswerStands(before) /\ OpenToolCalls(before) = {}

CompletedOf(l) ==
    \A i \in Positions(l, "TurnEnd") :
        l[i].reason = "Completed" => DoneBefore(SubSeq(l, 1, i - 1))

DoneInv == TypeOK /\ AnswerIsLast /\ CompletedOf(log)

\* An event at the end of a log of a kind is the last of it.
LEMMA LastAppended ==
    ASSUME NEW E, NEW l \in Seq(E), NEW e \in E, NEW kind
    PROVE  LastOf(Append(l, e), kind) = IF e.type = kind THEN Len(l) + 1 ELSE LastOf(l, kind)
<1> DEFINE new == Append(l, e)
<1>1. /\ new \in Seq(E) /\ Len(new) = Len(l) + 1 /\ new[Len(l) + 1] = e
      /\ \A i \in 1..Len(l) : new[i] = l[i]
  OBVIOUS
<1>2. CASE e.type = kind
  <2>1. Len(l) + 1 \in Positions(new, kind) /\ \A i \in Positions(new, kind) : i <= Len(l) + 1
    BY <1>1, <1>2 DEF Positions
  <2> QED
    BY <1>1, <1>2, <2>1, LastOfUnique
<1>3. CASE e.type # kind
  <2>1. Positions(new, kind) = Positions(l, kind)
    BY <1>1, <1>3 DEF Positions
  <2> QED
    BY <1>3, <2>1 DEF LastOf
<1> QED
  BY <1>2, <1>3

\* What comes before a position of a log is not changed by what is appended.
LEMMA BeforeKept ==
    ASSUME NEW E, NEW l \in Seq(E), NEW more \in Seq(E), NEW i \in 1..Len(l) + 1
    PROVE  SubSeq(l \o more, 1, i - 1) = SubSeq(l, 1, i - 1)
<1>1. i - 1 \in 0..Len(l)
  OBVIOUS
<1>2. /\ l \o more \in Seq(E) /\ Len(l \o more) = Len(l) + Len(more)
      /\ \A k \in 1..Len(l) : (l \o more)[k] = l[k]
  OBVIOUS
<1> QED
  BY <1>1, <1>2

LEMMA WholeBefore ==
    ASSUME NEW E, NEW l \in Seq(E)
    PROVE  SubSeq(l, 1, (Len(l) + 1) - 1) = l
OBVIOUS

\* The answer such a record speaks of stands where the log itself has it.
LEMMA CompletedMeans == log \in Seq(Event) /\ CompletedOf(log) => CompletedIsDone
<1> SUFFICES ASSUME log \in Seq(Event), CompletedOf(log),
                    NEW i \in Positions(log, "TurnEnd"), log[i].reason = "Completed",
                    NEW before, before = SubSeq(log, 1, i - 1),
                    NEW last, last = LastOf(before, "AssistantMessage")
             PROVE  /\ last > LastOf(before, "TurnStart")
                    /\ log[last].calls = <<>>
                    /\ ~log[last].interrupted
                    /\ OpenToolCalls(before) = {}
  BY Zenon DEF CompletedIsDone
<1>1. /\ last > LastOf(before, "TurnStart") /\ before[last].calls = <<>>
      /\ ~before[last].interrupted /\ OpenToolCalls(before) = {}
  BY DEF CompletedOf, DoneBefore, AnswerStands
<1>2. i \in 1..Len(log)
  BY DEF Positions
<1>3. before \in Seq(Event) /\ Len(before) = i - 1 /\ \A k \in 1..i - 1 : before[k] = log[k]
  BY <1>2
<1>4. /\ LastOf(before, "TurnStart") \in Nat
      /\ last \in Nat /\ (last # 0 => last \in Positions(before, "AssistantMessage"))
  BY <1>3, LastOfIsLast
<1>5. last \in 1..i - 1
  BY <1>1, <1>2, <1>3, <1>4 DEF Positions
<1> QED
  BY <1>1, <1>3, <1>5

\* Appending events none of which completes a turn, or one that does where the
\* answer stands and nothing is owed.
LEMMA CompletedKept ==
    ASSUME log \in Seq(Event), NEW more \in Seq(Event), log' = log \o more, CompletedOf(log),
           \A i \in DOMAIN more :
               more[i].type = "TurnEnd" /\ more[i].reason = "Completed" =>
                   i = 1 /\ DoneBefore(log)
    PROVE  CompletedOf(log')
<1> SUFFICES ASSUME NEW i \in Positions(log', "TurnEnd"), log'[i].reason = "Completed"
             PROVE  DoneBefore(SubSeq(log', 1, i - 1))
  BY DEF CompletedOf
<1>1. log' \in Seq(Event) /\ Len(log') = Len(log) + Len(more)
  OBVIOUS
<1>2. i \in 1..Len(log') /\ log'[i].type = "TurnEnd"
  BY <1>1 DEF Positions
<1>3. CASE i <= Len(log)
  <2>1. log'[i] = log[i] /\ i \in Positions(log, "TurnEnd") /\ i \in 1..Len(log) + 1
    BY <1>1, <1>2, <1>3 DEF Positions
  <2>2. DoneBefore(SubSeq(log, 1, i - 1))
    BY <2>1 DEF CompletedOf
  <2> QED
    BY <2>1, <2>2, BeforeKept
<1>4. CASE i > Len(log)
  <2>1. log'[i] = more[i - Len(log)] /\ i - Len(log) \in DOMAIN more
    BY <1>1, <1>2, <1>4
  <2>2. i - Len(log) = 1 /\ DoneBefore(log)
    BY <1>2, <2>1
  <2>3. i = Len(log) + 1 /\ i \in 1..Len(log) + 1
    BY <1>1, <1>2, <2>2
  <2>4. SubSeq(log', 1, i - 1) = log
    BY <2>3, BeforeKept, WholeBefore
  <2> QED
    BY <2>2, <2>4
<1> QED
  BY <1>1, <1>2, <1>3, <1>4

\* What the actions that frame a turn or a step write.
LEMMA FrameWrites ==
    ASSUME TypeOK, Frames
    PROVE  \/ log' = log
           \/ StartTurn /\ log' = log \o <<TurnStart(CurrentTurn(log) + 1), UserMessage>>
           \/ BeginStep /\ log' = Append(Append(log, StepStart(CurrentTurn(log), ThisStep)),
                                         StepEnd(CurrentTurn(log), ThisStep))
           \/ (BeginStep \/ BeginReservedStep)
                /\ log' = Append(log, StepStart(CurrentTurn(log), ThisStep))
           \/ EndStep /\ log' = Append(log, StepEnd(CurrentTurn(log),
                                                    StepsInTurn(log, CurrentTurn(log))))
           \/ DecideTurn /\ Decide(log, outcome, MaxSteps) \in Reasons
                /\ log' = Append(log, TurnEnd(CurrentTurn(log), Decide(log, outcome, MaxSteps)))
<1>1. CASE StartTurn
  BY <1>1 DEF StartTurn
<1>2. CASE BeginStep
  BY <1>2 DEF BeginStep, Opened
<1>3. CASE BeginReservedStep
  BY <1>3 DEF BeginReservedStep, Opened
<1>4. CASE EndStep
  BY <1>4 DEF EndStep
<1>5. CASE DecideTurn
  <2>1. \/ log' = log
        \/ /\ Decide(log, outcome, MaxSteps) # "Continue"
           /\ log' = Append(log, TurnEnd(CurrentTurn(log), Decide(log, outcome, MaxSteps)))
    BY <1>5 DEF DecideTurn, EndTurn
  <2> QED
    BY <1>5, <2>1, DecideTypes
<1> QED
  BY <1>1, <1>2, <1>3, <1>4, <1>5 DEF Frames

\* Those records are events.
LEMMA FrameTypes ==
    ASSUME TypeOK
    PROVE  /\ TurnStart(CurrentTurn(log) + 1) \in Event /\ UserMessage \in Event
           /\ StepStart(CurrentTurn(log), ThisStep) \in Event
           /\ StepEnd(CurrentTurn(log), ThisStep) \in Event
           /\ StepEnd(CurrentTurn(log), StepsInTurn(log, CurrentTurn(log))) \in Event
           /\ \A r \in Reasons : TurnEnd(CurrentTurn(log), r) \in Event
<1>1. CurrentTurn(log) \in Nat /\ StepsInTurn(log, CurrentTurn(log)) \in Nat /\ ThisStep \in Nat
  BY LogNumbers DEF TypeOK, LogOK
<1> QED
  BY <1>1, EventTypes

LEMMA CompletedSteps == DoneInv /\ [Next]_vars => CompletedOf(log')
<1> SUFFICES ASSUME DoneInv, [Next]_vars PROVE CompletedOf(log')
  OBVIOUS
<1>1. TypeOK /\ log \in Seq(Event) /\ CompletedOf(log)
  BY DEF DoneInv, TypeOK, LogOK
<1>2. ASSUME NEW more \in Seq(Event), log' = log \o more,
             \A i \in DOMAIN more : more[i].type # "TurnEnd"
      PROVE  CompletedOf(log')
  BY <1>1, <1>2, CompletedKept
<1>3. CASE \E more \in Seq(Event) : log' = log \o more /\ BodyOnly(more)
  BY <1>2, <1>3 DEF BodyOnly, Body
<1>4. CASE Frames
  <2>0. ASSUME NEW e \in Event, NEW f \in Event, e.type # "TurnEnd", f.type # "TurnEnd",
               log' = log \o <<e, f>>
        PROVE  CompletedOf(log')
    <3>1. <<e, f>> \in Seq(Event) /\ \A i \in DOMAIN <<e, f>> : <<e, f>>[i].type # "TurnEnd"
      BY <2>0
    <3> QED
      BY <1>2, <2>0, <3>1
  <2>1. CASE log' = log
    BY <1>1, <2>1
  <2>2. CASE log' = log \o <<TurnStart(CurrentTurn(log) + 1), UserMessage>>
    <3> DEFINE e == TurnStart(CurrentTurn(log) + 1)
               f == UserMessage
    <3>1. e \in Event /\ f \in Event /\ e.type # "TurnEnd" /\ f.type # "TurnEnd"
      BY <1>1, FrameTypes DEF TurnStart, UserMessage
    <3>2. log' = log \o <<e, f>>
      BY <2>2
    <3> HIDE DEF e, f
    <3> QED
      BY <2>0, <3>1, <3>2
  <2>3. CASE log' = Append(Append(log, StepStart(CurrentTurn(log), ThisStep)),
                           StepEnd(CurrentTurn(log), ThisStep))
    <3> DEFINE e == StepStart(CurrentTurn(log), ThisStep)
               f == StepEnd(CurrentTurn(log), ThisStep)
    <3>1. e \in Event /\ f \in Event /\ e.type # "TurnEnd" /\ f.type # "TurnEnd"
      BY <1>1, FrameTypes DEF StepStart, StepEnd
    <3>2. log' = Append(Append(log, e), f)
      BY <2>3
    <3> HIDE DEF e, f
    <3>3. log' = log \o <<e, f>>
      BY <1>1, <3>1, <3>2
    <3> QED
      BY <2>0, <3>1, <3>3
  <2>4. ASSUME NEW e \in Event, log' = Append(log, e),
               e.type = "TurnEnd" /\ e.reason = "Completed" => DoneBefore(log)
        PROVE  CompletedOf(log')
    <3>1. log' = log \o <<e>> /\ <<e>> \in Seq(Event)
      BY <1>1, <2>4
    <3>2. \A i \in DOMAIN <<e>> : i = 1 /\ <<e>>[i] = e
      OBVIOUS
    <3> QED
      BY <1>1, <2>4, <3>1, <3>2, CompletedKept
  <2>5. CASE log' = Append(log, StepStart(CurrentTurn(log), ThisStep))
    BY <1>1, <2>4, <2>5, FrameTypes DEF StepStart
  <2>6. CASE log' = Append(log, StepEnd(CurrentTurn(log), StepsInTurn(log, CurrentTurn(log))))
    BY <1>1, <2>4, <2>6, FrameTypes DEF StepEnd
  <2>7. CASE /\ DecideTurn /\ Decide(log, outcome, MaxSteps) \in Reasons
             /\ log' = Append(log, TurnEnd(CurrentTurn(log), Decide(log, outcome, MaxSteps)))
    <3>1. Decide(log, outcome, MaxSteps) = "Completed" =>
              outcome = "FinalAnswer" /\ OpenToolCalls(log) = {}
      BY DEF Decide, TerminalOutcome
    <3>2. Decide(log, outcome, MaxSteps) = "Completed" => DoneBefore(log)
      BY <2>7, <3>1 DEF DecideTurn, DoneInv, AnswerIsLast, DoneBefore
    <3> QED
      BY <1>1, <2>4, <2>7, <3>2, FrameTypes DEF TurnEnd
  <2> QED
    BY <1>1, <1>4, <2>1, <2>2, <2>3, <2>5, <2>6, <2>7, FrameWrites
<1> QED
  BY <1>1, <1>3, <1>4, OtherWrites

LEMMA AnswerSteps == DoneInv /\ [Next]_vars => AnswerIsLast'
<1> SUFFICES ASSUME DoneInv, [Next]_vars PROVE AnswerIsLast'
  OBVIOUS
<1>1. TypeOK /\ log \in Seq(Event) /\ AnswerIsLast
  BY DEF DoneInv, TypeOK, LogOK
<1>2. CASE RecordAnswer
  <2> SUFFICES ASSUME outcome' = "FinalAnswer" PROVE AnswerStands(log')
    BY DEF AnswerIsLast
  <2>1. log' = Append(log, Recorded) /\ ~Response.interrupted /\ Response.calls = <<>>
    BY <1>2 DEF RecordAnswer
  <2>2. Recorded \in Event /\ Recorded.type = "AssistantMessage" /\ Recorded.calls = <<>>
        /\ ~Recorded.interrupted
    BY <1>1, <2>1, RecordedIsEvent
  <2>3. LastOf(log', "AssistantMessage") = Len(log) + 1
    BY <1>1, <2>1, <2>2, LastAppended
  <2>4. LastOf(log', "TurnStart") = LastOf(log, "TurnStart")
    BY <1>1, <2>1, <2>2, LastAppended
  <2>5. LastOf(log, "TurnStart") <= Len(log) /\ LastOf(log, "TurnStart") \in Nat
    BY <1>1, LastOfIsLast DEF Positions
  <2>6. log'[Len(log) + 1] = Recorded
    BY <1>1, <2>1, <2>2
  <2> QED
    BY <1>1, <2>2, <2>3, <2>4, <2>5, <2>6 DEF AnswerStands
<1>3. CASE EndStep
  <2> DEFINE e == StepEnd(CurrentTurn(log), StepsInTurn(log, CurrentTurn(log)))
  <2> SUFFICES ASSUME outcome' = "FinalAnswer" PROVE AnswerStands(log')
    BY DEF AnswerIsLast
  <2>1. log' = Append(log, e) /\ outcome = "FinalAnswer" /\ pc = "endstep"
    BY <1>3 DEF EndStep
  <2>2. e \in Event /\ e.type = "StepEnd"
    BY <1>1, FrameTypes DEF StepEnd
  <2> HIDE DEF e
  <2>3. /\ LastOf(log', "AssistantMessage") = LastOf(log, "AssistantMessage")
        /\ LastOf(log', "TurnStart") = LastOf(log, "TurnStart")
    BY <1>1, <2>1, <2>2, LastAppended
  <2>4. AnswerStands(log)
    BY <1>1, <2>1 DEF AnswerIsLast
  <2>5. /\ LastOf(log, "TurnStart") \in Nat /\ LastOf(log, "AssistantMessage") \in Nat
        /\ LastOf(log, "AssistantMessage") # 0 =>
                LastOf(log, "AssistantMessage") \in Positions(log, "AssistantMessage")
    BY <1>1, LastOfIsLast
  <2>6. LastOf(log, "AssistantMessage") \in 1..Len(log)
    BY <2>4, <2>5 DEF AnswerStands, Positions
  <2>7. log'[LastOf(log, "AssistantMessage")] = log[LastOf(log, "AssistantMessage")]
    BY <1>1, <2>1, <2>2, <2>6
  <2> QED
    BY <2>3, <2>4, <2>7 DEF AnswerStands
<1>4. CASE HostActs \/ UNCHANGED vars
  <2>1. UNCHANGED <<pc, outcome, log>>
    BY <1>4 DEF HostActs, SetModel, SetApproval, ApproveTool, Stop, loopState, vars
  <2> QED
    BY <1>1, <2>1 DEF AnswerIsLast
<1>5. CASE GateActs
  <2>1. pc' \in {"policy", "ask", "gate", "reserve"}
    BY <1>1, <1>5, GateAnswers, GateStays
  <2> QED
    BY <2>1 DEF AnswerIsLast
<1>6. CASE \/ LoopTop \/ BeginStep \/ BeginReservedStep \/ StreamFails \/ RecordRefused
           \/ ReserveFails \/ AnswerCalls
  <2>1. pc' \in {"endstep", "decide"} => outcome' # "FinalAnswer"
    BY <1>6 DEF LoopTop, BeginStep, BeginReservedStep, StreamFails, RecordRefused, ReserveFails,
       AnswerCalls
  <2> QED
    BY <2>1 DEF AnswerIsLast
<1>7. CASE \/ StartTurn \/ DecideTurn \/ StreamEvent \/ StreamEnds \/ StreamStopped
           \/ RecordCalls \/ NoReservation \/ Reserved \/ Dispatches \/ Abandon
  <2>1. pc' \notin {"endstep", "decide"}
    BY <1>7 DEF StartTurn, DecideTurn, ReturnToHost, StreamEvent, StreamEnds, StreamStopped,
       RecordCalls, NoReservation, Reserved, Abandon, Dispatches, RunGoal, GoalsDone, BeginChunk,
       StartCall, ChunkStarted, ToolFinishes, ToolsWoken, ChunkFinished
  <2> QED
    BY <2>1 DEF AnswerIsLast
<1> QED
  BY <1>2, <1>3, <1>4, <1>5, <1>6, <1>7
     DEF Next, Internal, Woken, Answers, Host, Dispatches, HostActs, GateActs

\* A turn said to be complete ended in an answer: its last response was heard
\* out, called nothing, and nothing in the log was owed a result.
THEOREM CompletedIsDoneAlways == Spec => []CompletedIsDone
<1>1. Init => DoneInv
  <2>1. Init => AnswerIsLast /\ CompletedOf(log)
    BY DEF Init, AnswerIsLast, CompletedOf, Positions
  <2> QED
    BY <2>1, InitTypes DEF DoneInv
<1>2. DoneInv /\ [Next]_vars => DoneInv'
  BY TypesKept, AnswerSteps, CompletedSteps DEF DoneInv
<1>3. DoneInv => CompletedIsDone
  BY CompletedMeans DEF DoneInv, TypeOK, LogOK
<1> QED
  BY <1>1, <1>2, <1>3, PTL DEF Spec

-----------------------------------------------------------------------------
(***************************************************************************)
(* The frames of turns and steps.                                          *)
(***************************************************************************)
StartsBefore(l, i) == {k \in Positions(l, "TurnStart") : k < i}
StepsBefore(l, i)  == {k \in Positions(l, "StepStart") : k < i /\ l[k].turn = l[i].turn}

\* A closing record closes the turn opened last before it, and no other does.
TurnsFramed(l) ==
    \A i \in Positions(l, "TurnEnd") :
        /\ StartsBefore(l, i) # {}
        /\ l[Max(StartsBefore(l, i))].turn = l[i].turn
        /\ \A j \in Positions(l, "TurnEnd") : j # i => l[j].turn # l[i].turn

\* The steps of a turn are numbered from one without a gap.
StepsNumbered(l) ==
    \A i \in Positions(l, "StepStart") : l[i].step = 1 + Cardinality(StepsBefore(l, i))

\* Position k holds the end of the step that starts at i.
EndsStep(l, i, k) ==
    k \in Positions(l, "StepEnd") /\ i < k /\ l[k].turn = l[i].turn /\ l[k].step = l[i].step

\* A turn that closed otherwise than with an error ended its steps before.
StepsEnded(l) ==
    \A i \in Positions(l, "StepStart"), j \in Positions(l, "TurnEnd") :
        l[j].turn = l[i].turn /\ l[j].reason # "Error" => \E k : k < j /\ EndsStep(l, i, k)

\* No frame belongs to a turn yet to come.
TurnsBelow(l) ==
    \A i \in Positions(l, "TurnEnd") \cup Positions(l, "StepStart") : l[i].turn <= CurrentTurn(l)

FramesHold(l) == TurnsFramed(l) /\ StepsNumbered(l) /\ StepsEnded(l) /\ TurnsBelow(l)

\* The current turn has been opened and not closed; all its steps have ended, or
\* all but the last.
TurnOpen(l) ==
    /\ LastOf(l, "TurnStart") # 0
    /\ \A j \in Positions(l, "TurnEnd") : l[j].turn # CurrentTurn(l)

StepsClosed(l) ==
    \A i \in Positions(l, "StepStart") :
        l[i].turn = CurrentTurn(l) => \E k : EndsStep(l, i, k)

LastStepOpen(l) ==
    \A i \in Positions(l, "StepStart") :
        l[i].turn = CurrentTurn(l) =>
            l[i].step = StepsInTurn(l, CurrentTurn(l)) \/ \E k : EndsStep(l, i, k)

\* How far the turn's future has come with its frames.
FrameStands ==
    /\ pc # "idle" => TurnOpen(log)
    /\ pc \in {"loop", "begin"} => StepsClosed(log)
    /\ pc = "decide" => outcome = "Error" \/ StepsClosed(log)
    /\ pc \in StepPoints => LastStepOpen(log)

FramedInv == TypeOK /\ FramesHold(log) /\ FrameStands

-----------------------------------------------------------------------------
FrameKinds == {"TurnStart", "TurnEnd", "StepStart", "StepEnd"}

\* Two logs whose frames stand at the same positions and are the same.
SameFrames(l, k) ==
    /\ \A kind \in FrameKinds : Positions(k, kind) = Positions(l, kind)
    /\ \A i \in DOMAIN l : k[i] = l[i]

\* What such logs have in common.
LEMMA FramesCarry ==
    ASSUME NEW l \in Seq(Event), NEW k \in Seq(Event), SameFrames(l, k)
    PROVE  /\ FramesHold(l) => FramesHold(k)
           /\ TurnOpen(l) => TurnOpen(k)
           /\ StepsClosed(l) => StepsClosed(k)
           /\ LastStepOpen(l) => LastStepOpen(k)
<1>1. \A kind \in FrameKinds : /\ Positions(k, kind) = Positions(l, kind)
                               /\ \A i \in Positions(l, kind) : k[i] = l[i]
  BY DEF SameFrames, Positions
<1>2. /\ \A i \in Positions(l, "TurnStart") : k[i] = l[i]
      /\ \A i \in Positions(l, "TurnEnd") : k[i] = l[i]
      /\ \A i \in Positions(l, "StepStart") : k[i] = l[i]
      /\ \A i \in Positions(l, "StepEnd") : k[i] = l[i]
      /\ Positions(k, "TurnStart") = Positions(l, "TurnStart")
      /\ Positions(k, "TurnEnd") = Positions(l, "TurnEnd")
      /\ Positions(k, "StepStart") = Positions(l, "StepStart")
      /\ Positions(k, "StepEnd") = Positions(l, "StepEnd")
  BY <1>1 DEF FrameKinds
<1>3. LastOf(k, "TurnStart") = LastOf(l, "TurnStart") /\ CurrentTurn(k) = CurrentTurn(l)
  <2>1. LastOf(k, "TurnStart") = LastOf(l, "TurnStart")
    BY <1>2 DEF LastOf
  <2>2. LastOf(l, "TurnStart") # 0 => LastOf(l, "TurnStart") \in Positions(l, "TurnStart")
    BY LastOfIsLast
  <2> QED
    BY <1>2, <2>1, <2>2 DEF CurrentTurn
<1>4. \A t : StepsInTurn(k, t) = StepsInTurn(l, t)
  <2> SUFFICES ASSUME NEW t PROVE StepsInTurn(k, t) = StepsInTurn(l, t)
    OBVIOUS
  <2>1. StepsOf(k, t) = StepsOf(l, t)
    BY <1>2 DEF StepsOf
  <2> QED
    BY <2>1, StepsAreFinite
<1>5. \A i : StartsBefore(k, i) = StartsBefore(l, i)
  BY <1>2 DEF StartsBefore
<1>6. \A i \in Positions(l, "StepStart") : StepsBefore(k, i) = StepsBefore(l, i)
  BY <1>2 DEF StepsBefore
<1>7. \A i \in Positions(l, "StepStart") : \A j : EndsStep(k, i, j) <=> EndsStep(l, i, j)
  BY <1>2 DEF EndsStep
<1>8. TurnsFramed(l) => TurnsFramed(k)
  <2> SUFFICES ASSUME TurnsFramed(l), NEW i \in Positions(k, "TurnEnd")
               PROVE  /\ StartsBefore(k, i) # {}
                      /\ k[Max(StartsBefore(k, i))].turn = k[i].turn
                      /\ \A j \in Positions(k, "TurnEnd") : j # i => k[j].turn # k[i].turn
    BY DEF TurnsFramed
  <2>1. Max(StartsBefore(l, i)) \in Positions(l, "TurnStart")
    <3>1. StartsBefore(l, i) \subseteq 0..Len(l) /\ Len(l) \in Nat
      BY DEF StartsBefore, Positions
    <3>2. StartsBefore(l, i) # {}
      BY <1>2 DEF TurnsFramed
    <3> QED
      BY <3>1, <3>2, MaxIsGreatest DEF StartsBefore
  <2> QED
    BY <1>2, <1>5, <2>1 DEF TurnsFramed
<1>9. StepsNumbered(l) => StepsNumbered(k)
  BY <1>2, <1>6 DEF StepsNumbered
<1>10. StepsEnded(l) => StepsEnded(k)
  BY <1>2, <1>7 DEF StepsEnded
<1>11. TurnsBelow(l) => TurnsBelow(k)
  BY <1>2, <1>3 DEF TurnsBelow
<1>12. TurnOpen(l) => TurnOpen(k)
  BY <1>2, <1>3 DEF TurnOpen
<1>13. StepsClosed(l) => StepsClosed(k)
  BY <1>2, <1>3, <1>7 DEF StepsClosed
<1>14. LastStepOpen(l) => LastStepOpen(k)
  BY <1>2, <1>3, <1>4, <1>7 DEF LastStepOpen
<1> QED
  BY <1>8, <1>9, <1>10, <1>11, <1>12, <1>13, <1>14 DEF FramesHold

\* Appending events that frame nothing.
LEMMA FramesSame ==
    ASSUME NEW l \in Seq(Event), NEW more \in Seq(Event),
           \A i \in DOMAIN more : more[i].type \notin FrameKinds
    PROVE  l \o more \in Seq(Event) /\ SameFrames(l, l \o more)
<1>1. \A kind \in FrameKinds : \A i \in DOMAIN more : more[i].type # kind
  OBVIOUS
<1>2. \A kind \in FrameKinds : Positions(l \o more, kind) = Positions(l, kind)
  BY <1>1, PositionsKept
<1> QED
  BY <1>2 DEF SameFrames

\* What an appended event changes at the positions of a kind.
Grows(l, e, k, kind) ==
    /\ e.type = kind => Positions(k, kind) = Positions(l, kind) \cup {Len(l) + 1}
    /\ e.type # kind => Positions(k, kind) = Positions(l, kind)
    /\ \A i \in Positions(l, kind) : i \in 1..Len(l) /\ k[i] = l[i]

\* One log is another with one event more.
OneMore(l, e, k) ==
    /\ k \in Seq(Event) /\ Len(l) \in Nat /\ k[Len(l) + 1] = e
    /\ Grows(l, e, k, "TurnStart") /\ Grows(l, e, k, "TurnEnd")
    /\ Grows(l, e, k, "StepStart") /\ Grows(l, e, k, "StepEnd")

LEMMA Appended ==
    ASSUME NEW l \in Seq(Event), NEW e \in Event, NEW k, k = Append(l, e)
    PROVE  OneMore(l, e, k)
<1>1. /\ k \in Seq(Event) /\ Len(l) \in Nat /\ Len(k) = Len(l) + 1 /\ k[Len(l) + 1] = e
      /\ \A i \in 1..Len(l) : k[i] = l[i]
  OBVIOUS
<1>2. ASSUME NEW kind PROVE Grows(l, e, k, kind)
  <2>1. \A i \in Positions(l, kind) : i \in 1..Len(l) /\ k[i] = l[i]
    BY <1>1 DEF Positions
  <2>2. e.type = kind => Positions(k, kind) = Positions(l, kind) \cup {Len(l) + 1}
    BY <1>1 DEF Positions
  <2>3. e.type # kind => Positions(k, kind) = Positions(l, kind)
    BY <1>1 DEF Positions
  <2> QED
    BY <2>1, <2>2, <2>3 DEF Grows
<1> QED
  BY <1>1, <1>2 DEF OneMore

\* What an appended event leaves as it was, of the steps and turns before it.
LEMMA AppendKeeps ==
    ASSUME NEW l \in Seq(Event), NEW e \in Event, NEW k, k = Append(l, e)
    PROVE  /\ \A i \in 1..Len(l) : StartsBefore(k, i) = StartsBefore(l, i)
           /\ \A i \in Positions(l, "StepStart") : StepsBefore(k, i) = StepsBefore(l, i)
           /\ \A i \in Positions(l, "StepStart") : \A j : EndsStep(l, i, j) => EndsStep(k, i, j)
<1>grown. OneMore(l, e, k)
  BY Appended, Zenon
<1>1. /\ Len(l) \in Nat
      /\ \A i \in Positions(l, "TurnStart") : i \in 1..Len(l) /\ k[i] = l[i]
      /\ \A i \in Positions(l, "StepStart") : i \in 1..Len(l) /\ k[i] = l[i]
      /\ \A i \in Positions(l, "StepEnd") : i \in 1..Len(l) /\ k[i] = l[i]
      /\ Positions(l, "TurnStart") \subseteq Positions(k, "TurnStart")
      /\ Positions(k, "TurnStart") \subseteq Positions(l, "TurnStart") \cup {Len(l) + 1}
      /\ Positions(l, "StepStart") \subseteq Positions(k, "StepStart")
      /\ Positions(k, "StepStart") \subseteq Positions(l, "StepStart") \cup {Len(l) + 1}
      /\ Positions(l, "StepEnd") \subseteq Positions(k, "StepEnd")
  BY <1>grown DEF OneMore, Grows
<1>2. \A i \in 1..Len(l) : StartsBefore(k, i) = StartsBefore(l, i)
  BY <1>1 DEF StartsBefore
<1>3. \A i \in Positions(l, "StepStart") : StepsBefore(k, i) = StepsBefore(l, i)
  BY <1>1 DEF StepsBefore
<1>4. \A i \in Positions(l, "StepStart") : \A j : EndsStep(l, i, j) => EndsStep(k, i, j)
  BY <1>1 DEF EndsStep
<1> QED
  BY <1>2, <1>3, <1>4

\* The turns framed before an event that closes none are framed after it.
LEMMA TurnsFramedKept ==
    ASSUME NEW l \in Seq(Event), NEW e \in Event, NEW k, k = Append(l, e),
           TurnsFramed(l), e.type # "TurnEnd"
    PROVE  TurnsFramed(k)
<1>grown. OneMore(l, e, k)
  BY Appended, Zenon
<1>1. /\ Positions(k, "TurnEnd") = Positions(l, "TurnEnd")
      /\ \A i \in Positions(l, "TurnEnd") : i \in 1..Len(l) /\ k[i] = l[i]
      /\ \A i \in Positions(l, "TurnStart") : i \in 1..Len(l) /\ k[i] = l[i]
      /\ Len(l) \in Nat
  BY <1>grown DEF OneMore, Grows
<1> SUFFICES ASSUME NEW i \in Positions(l, "TurnEnd")
             PROVE  /\ StartsBefore(k, i) # {}
                    /\ k[Max(StartsBefore(k, i))].turn = k[i].turn
                    /\ \A j \in Positions(l, "TurnEnd") : j # i => k[j].turn # k[i].turn
  BY ZenonT(30), <1>1 DEF TurnsFramed
<1>2. StartsBefore(k, i) = StartsBefore(l, i) /\ StartsBefore(l, i) # {}
  BY ZenonT(30), <1>1, AppendKeeps DEF TurnsFramed
<1>3. Max(StartsBefore(l, i)) \in Positions(l, "TurnStart")
  <2>1. StartsBefore(l, i) \subseteq 0..Len(l)
    BY <1>1 DEF StartsBefore
  <2> QED
    BY <1>1, <1>2, <2>1, MaxIsGreatest DEF StartsBefore
<1> QED
  BY <1>1, <1>2, <1>3 DEF TurnsFramed

\* The steps numbered before an event that opens none are numbered after it.
LEMMA StepsNumberedKept ==
    ASSUME NEW l \in Seq(Event), NEW e \in Event, NEW k, k = Append(l, e),
           StepsNumbered(l), e.type # "StepStart"
    PROVE  StepsNumbered(k)
<1>grown. OneMore(l, e, k)
  BY Appended, Zenon
<1>1. /\ Positions(k, "StepStart") = Positions(l, "StepStart")
      /\ \A i \in Positions(l, "StepStart") : k[i] = l[i]
  BY <1>grown DEF OneMore, Grows
<1> QED
  BY ZenonT(30), <1>1, AppendKeeps DEF StepsNumbered

\* So are those that ended, behind an event that neither opens nor closes one.
LEMMA StepsEndedKept ==
    ASSUME NEW l \in Seq(Event), NEW e \in Event, NEW k, k = Append(l, e),
           StepsEnded(l), e.type \notin {"StepStart", "TurnEnd"}
    PROVE  StepsEnded(k)
<1>grown. OneMore(l, e, k)
  BY Appended, Zenon
<1>1. /\ Positions(k, "StepStart") = Positions(l, "StepStart")
      /\ Positions(k, "TurnEnd") = Positions(l, "TurnEnd")
      /\ \A i \in Positions(l, "StepStart") : k[i] = l[i]
      /\ \A i \in Positions(l, "TurnEnd") : k[i] = l[i]
  BY <1>grown DEF OneMore, Grows
<1> QED
  BY ZenonT(30), <1>1, AppendKeeps DEF StepsEnded

\* The current turn after an event that opens none.
LEMMA SameTurn ==
    ASSUME NEW l \in Seq(Event), NEW e \in Event, NEW k, k = Append(l, e), e.type # "TurnStart"
    PROVE  CurrentTurn(k) = CurrentTurn(l) /\ LastOf(k, "TurnStart") = LastOf(l, "TurnStart")
<1>1. LastOf(k, "TurnStart") = LastOf(l, "TurnStart")
  BY LastAppended
<1>2. LastOf(l, "TurnStart") # 0 => LastOf(l, "TurnStart") \in Positions(l, "TurnStart")
  BY LastOfIsLast
<1>grown. OneMore(l, e, k)
  BY Appended, Zenon
<1>3. \A i \in Positions(l, "TurnStart") : k[i] = l[i]
  BY <1>grown DEF OneMore, Grows
<1> QED
  BY <1>1, <1>2, <1>3 DEF CurrentTurn

-----------------------------------------------------------------------------
\* Opening a turn.
LEMMA TurnOpens ==
    ASSUME NEW l \in Seq(Event), FramesHold(l),
           NEW t \in Nat, t = CurrentTurn(l) + 1, NEW k, k = Append(l, TurnStart(t))
    PROVE  k \in Seq(Event) /\ FramesHold(k) /\ TurnOpen(k) /\ StepsClosed(k)
<1> DEFINE e == TurnStart(t)
<1>1. e \in Event /\ e.type = "TurnStart"
  BY EventTypes DEF TurnStart
<1>2. Numbered(l)
  BY DEF Event, ToolCalls, ToolResults, Numbered
<1>3. CurrentTurn(k) = t /\ CurrentTurn(l) \in Nat
  BY <1>1, <1>2, TurnStarted, CurrentTurnIsNat
<1>4. k = Append(l, e)
  OBVIOUS
<1> HIDE DEF e
<1>grown. OneMore(l, e, k)
  BY <1>1, <1>4, Appended, Zenon
<1>5. /\ k \in Seq(Event)
      /\ Positions(k, "StepStart") = Positions(l, "StepStart")
      /\ Positions(k, "TurnEnd") = Positions(l, "TurnEnd")
      /\ \A i \in Positions(l, "StepStart") : k[i] = l[i] /\ i \in Nat
      /\ \A i \in Positions(l, "TurnEnd") : k[i] = l[i] /\ i \in Nat
  BY <1>1, <1>4, <1>grown DEF OneMore, Grows
<1>6. ASSUME NEW i, i \in Positions(l, "TurnEnd") \/ i \in Positions(l, "StepStart")
      PROVE  l[i].turn # t /\ l[i].turn <= t
  <2>1. i \in DOMAIN l /\ l[i] \in Event /\ l[i].type \in {"TurnEnd", "StepStart"}
    BY <1>6 DEF Positions
  <2>2. l[i].turn \in Nat
    BY <2>1 DEF Event, ToolCalls, ToolResults
  <2>3. l[i].turn <= CurrentTurn(l)
    BY <1>6 DEF FramesHold, TurnsBelow
  <2> QED
    BY <1>3, <2>2, <2>3
<1>7. TurnsBelow(k)
  BY <1>3, <1>5, <1>6 DEF TurnsBelow
<1>8. LastOf(k, "TurnStart") # 0
  BY <1>1, <1>4, LastAppended
<1>9. TurnOpen(k)
  BY <1>3, <1>5, <1>6, <1>8 DEF TurnOpen
<1>10. StepsClosed(k)
  BY <1>3, <1>5, <1>6 DEF StepsClosed
<1>11. TurnsFramed(k)
  BY <1>1, <1>4, TurnsFramedKept DEF FramesHold
<1>12. StepsNumbered(k) /\ StepsEnded(k)
  BY <1>1, <1>4, StepsNumberedKept, StepsEndedKept DEF FramesHold
<1> QED
  BY <1>5, <1>7, <1>9, <1>10, <1>11, <1>12 DEF FramesHold

\* Opening a step of an open turn whose steps have all ended.
LEMMA StepOpens ==
    ASSUME NEW l \in Seq(Event), FramesHold(l), TurnOpen(l), StepsClosed(l),
           NEW n \in Nat, n = StepsInTurn(l, CurrentTurn(l)) + 1,
           NEW k, k = Append(l, StepStart(CurrentTurn(l), n))
    PROVE  k \in Seq(Event) /\ FramesHold(k) /\ TurnOpen(k) /\ LastStepOpen(k)
<1> DEFINE t == CurrentTurn(l)
           e == StepStart(t, n)
           p == Len(l) + 1
<1>1. t \in Nat /\ StepsInTurn(l, t) \in Nat /\ IsFiniteSet(StepsOf(l, t))
      /\ StepsInTurn(l, t) = Cardinality(StepsOf(l, t))
  BY CurrentTurnIsNat, StepsAreFinite DEF Event, ToolCalls, ToolResults, Numbered
<1>2. e \in Event /\ e.type = "StepStart" /\ e.turn = t /\ e.step = n
  BY <1>1, EventTypes DEF StepStart
<1>3. k = Append(l, e)
  OBVIOUS
<1>4. StepsInTurn(k, t) = StepsInTurn(l, t) + 1
  BY <1>2, StepCounted
<1> HIDE DEF e
<1>grown. OneMore(l, e, k)
  BY <1>2, <1>3, Appended, Zenon
<1>5. /\ k \in Seq(Event) /\ k[p] = e /\ Len(l) \in Nat
      /\ Positions(k, "StepStart") = Positions(l, "StepStart") \cup {p}
      /\ Positions(k, "TurnEnd") = Positions(l, "TurnEnd")
      /\ \A i \in Positions(l, "StepStart") : k[i] = l[i] /\ i \in 1..Len(l)
      /\ \A i \in Positions(l, "TurnEnd") : k[i] = l[i] /\ i \in 1..Len(l)
  BY <1>2, <1>3, <1>grown DEF OneMore, Grows
<1>6. CurrentTurn(k) = t /\ LastOf(k, "TurnStart") = LastOf(l, "TurnStart")
  BY <1>2, <1>3, SameTurn
<1>7. TurnOpen(k)
  BY <1>5, <1>6 DEF TurnOpen
<1>8. TurnsFramed(k)
  BY <1>2, <1>3, TurnsFramedKept DEF FramesHold
<1>9. TurnsBelow(k)
  BY <1>1, <1>2, <1>5, <1>6 DEF TurnsBelow, FramesHold
<1>10. StepsNumbered(k)
  <2>1. StepsBefore(k, p) = StepsOf(l, t)
    BY <1>2, <1>5 DEF StepsBefore, StepsOf
  <2>2. k[p].step = 1 + Cardinality(StepsBefore(k, p))
    BY <1>1, <1>2, <1>5, <2>1
  <2>3. \A i \in Positions(l, "StepStart") : k[i].step = 1 + Cardinality(StepsBefore(k, i))
    BY <1>2, <1>3, <1>5, AppendKeeps DEF StepsNumbered, FramesHold
  <2> QED
    BY <1>5, <2>2, <2>3 DEF StepsNumbered
<1>11. StepsEnded(k)
  <2> SUFFICES ASSUME NEW i \in Positions(k, "StepStart"), NEW j \in Positions(k, "TurnEnd"),
                      k[j].turn = k[i].turn, k[j].reason # "Error"
               PROVE  \E q : q < j /\ EndsStep(k, i, q)
    BY DEF StepsEnded
  <2>1. i # p
    BY <1>2, <1>5 DEF TurnOpen
  <2>2. /\ i \in Positions(l, "StepStart") /\ k[i] = l[i]
        /\ k[j] = l[j] /\ j \in Positions(l, "TurnEnd")
    BY <1>5, <2>1
  <2>3. PICK q : q < j /\ EndsStep(l, i, q)
    BY <2>2 DEF StepsEnded, FramesHold
  <2> QED
    BY <1>2, <1>3, <2>2, <2>3, AppendKeeps
<1>12. LastStepOpen(k)
  <2> SUFFICES ASSUME NEW i \in Positions(k, "StepStart"), k[i].turn = t
               PROVE  k[i].step = StepsInTurn(k, t) \/ \E q : EndsStep(k, i, q)
    BY <1>6 DEF LastStepOpen
  <2>1. CASE i = p
    BY <1>2, <1>4, <1>5, <2>1
  <2>2. CASE i # p
    <3>1. i \in Positions(l, "StepStart") /\ k[i] = l[i]
      BY <1>5, <2>2
    <3>2. PICK q : EndsStep(l, i, q)
      BY <3>1 DEF StepsClosed
    <3> QED
      BY <1>2, <1>3, <3>1, <3>2, AppendKeeps
  <2> QED
    BY <2>1, <2>2
<1> QED
  BY <1>5, <1>7, <1>8, <1>9, <1>10, <1>11, <1>12 DEF FramesHold

\* Ending a step of an open turn: if it is the last one, all have ended.
LEMMA StepEnds ==
    ASSUME NEW l \in Seq(Event), FramesHold(l), TurnOpen(l), NEW n \in Nat,
           NEW k, k = Append(l, StepEnd(CurrentTurn(l), n))
    PROVE  /\ k \in Seq(Event) /\ FramesHold(k) /\ TurnOpen(k)
           /\ LastStepOpen(l) /\ n = StepsInTurn(l, CurrentTurn(l)) => StepsClosed(k)
<1> DEFINE t == CurrentTurn(l)
           e == StepEnd(t, n)
           p == Len(l) + 1
<1>1. t \in Nat
  BY CurrentTurnIsNat DEF Event, ToolCalls, ToolResults, Numbered
<1>2. e \in Event /\ e.type = "StepEnd" /\ e.turn = t /\ e.step = n
  BY <1>1, EventTypes DEF StepEnd
<1>3. k = Append(l, e)
  OBVIOUS
<1> HIDE DEF e
<1>grown. OneMore(l, e, k)
  BY <1>2, <1>3, Appended, Zenon
<1>4. /\ k \in Seq(Event) /\ k[p] = e /\ Len(l) \in Nat
      /\ Positions(k, "StepEnd") = Positions(l, "StepEnd") \cup {p}
      /\ Positions(k, "StepStart") = Positions(l, "StepStart")
      /\ Positions(k, "TurnEnd") = Positions(l, "TurnEnd")
      /\ \A i \in Positions(l, "StepStart") : k[i] = l[i] /\ i \in 1..Len(l)
      /\ \A i \in Positions(l, "TurnEnd") : k[i] = l[i] /\ i \in 1..Len(l)
  BY <1>2, <1>3, <1>grown DEF OneMore, Grows
<1>5. CurrentTurn(k) = t /\ LastOf(k, "TurnStart") = LastOf(l, "TurnStart")
  BY <1>2, <1>3, SameTurn
<1>6. TurnOpen(k) /\ TurnsBelow(k)
  BY <1>4, <1>5 DEF TurnOpen, TurnsBelow, FramesHold
<1>7. TurnsFramed(k) /\ StepsNumbered(k) /\ StepsEnded(k)
  BY <1>2, <1>3, TurnsFramedKept, StepsNumberedKept, StepsEndedKept DEF FramesHold
<1>8. ASSUME LastStepOpen(l), n = StepsInTurn(l, t) PROVE StepsClosed(k)
  <2> SUFFICES ASSUME NEW i \in Positions(l, "StepStart"), l[i].turn = t
               PROVE  \E q : EndsStep(k, i, q)
    BY <1>4, <1>5 DEF StepsClosed
  <2>1. CASE l[i].step = n
    <3>1. EndsStep(k, i, p)
      BY <1>2, <1>4, <2>1 DEF EndsStep
    <3> QED
      BY <3>1
  <2>2. CASE \E q : EndsStep(l, i, q)
    BY <1>2, <1>3, <2>2, AppendKeeps
  <2> QED
    BY <1>8, <2>1, <2>2 DEF LastStepOpen
<1> QED
  BY <1>4, <1>6, <1>7, <1>8 DEF FramesHold

\* Closing an open turn, with an error or when its steps have all ended.
LEMMA TurnCloses ==
    ASSUME NEW l \in Seq(Event), FramesHold(l), TurnOpen(l), NEW r \in Reasons,
           r = "Error" \/ StepsClosed(l),
           NEW k, k = Append(l, TurnEnd(CurrentTurn(l), r))
    PROVE  FramesHold(k)
<1> DEFINE t == CurrentTurn(l)
           e == TurnEnd(t, r)
           p == Len(l) + 1
<1>1. t \in Nat
  BY CurrentTurnIsNat DEF Event, ToolCalls, ToolResults, Numbered
<1>2. e \in Event /\ e.type = "TurnEnd" /\ e.turn = t /\ e.reason = r
  BY <1>1, EventTypes DEF TurnEnd
<1>3. k = Append(l, e)
  OBVIOUS
<1> HIDE DEF e
<1>grown. OneMore(l, e, k)
  BY <1>2, <1>3, Appended, Zenon
<1>4. /\ k \in Seq(Event) /\ k[p] = e /\ Len(l) \in Nat
      /\ Positions(k, "TurnEnd") = Positions(l, "TurnEnd") \cup {p}
      /\ Positions(k, "StepStart") = Positions(l, "StepStart")
      /\ Positions(k, "TurnStart") = Positions(l, "TurnStart")
      /\ \A i \in Positions(l, "StepStart") : k[i] = l[i] /\ i \in 1..Len(l)
      /\ \A i \in Positions(l, "TurnEnd") : k[i] = l[i] /\ i \in 1..Len(l)
      /\ \A i \in Positions(l, "TurnStart") : k[i] = l[i] /\ i \in 1..Len(l)
  BY <1>2, <1>3, <1>grown DEF OneMore, Grows
<1>5. CurrentTurn(k) = t
  BY <1>2, <1>3, SameTurn
<1>6. TurnsBelow(k)
  BY <1>1, <1>2, <1>4, <1>5 DEF TurnsBelow, FramesHold
<1>7. StepsNumbered(k)
  BY <1>2, <1>3, StepsNumberedKept DEF FramesHold
<1>8. TurnsFramed(k)
  <2>1. /\ StartsBefore(k, p) = Positions(l, "TurnStart")
        /\ LastOf(l, "TurnStart") \in Positions(l, "TurnStart")
        /\ \A i \in Positions(l, "TurnStart") : i <= LastOf(l, "TurnStart")
    BY <1>4, LastOfIsLast DEF StartsBefore, TurnOpen
  <2>2. Max(StartsBefore(k, p)) = LastOf(l, "TurnStart")
    <3>1. Positions(l, "TurnStart") \subseteq 0..Len(l) /\ Positions(l, "TurnStart") # {}
      BY <1>4, <2>1
    <3>2. /\ Max(Positions(l, "TurnStart")) \in Positions(l, "TurnStart")
          /\ \A y \in Positions(l, "TurnStart") : Max(Positions(l, "TurnStart")) >= y
      BY <1>4, <3>1, MaxIsGreatest
    <3> QED
      BY <1>4, <2>1, <3>2
  <2>3. l[LastOf(l, "TurnStart")].turn = t
    BY DEF CurrentTurn, TurnOpen
  <2>4. /\ StartsBefore(k, p) # {}
        /\ k[Max(StartsBefore(k, p))].turn = k[p].turn
        /\ \A j \in Positions(k, "TurnEnd") : j # p => k[j].turn # k[p].turn
    BY <1>2, <1>4, <2>1, <2>2, <2>3 DEF TurnOpen
  <2>5. ASSUME NEW i \in Positions(l, "TurnEnd")
        PROVE  /\ StartsBefore(k, i) # {}
               /\ k[Max(StartsBefore(k, i))].turn = k[i].turn
               /\ \A j \in Positions(k, "TurnEnd") : j # i => k[j].turn # k[i].turn
    <3>1. StartsBefore(k, i) = StartsBefore(l, i) /\ StartsBefore(l, i) # {}
      BY ZenonT(30), <1>2, <1>3, <1>4, AppendKeeps DEF TurnsFramed, FramesHold
    <3>2. Max(StartsBefore(l, i)) \in Positions(l, "TurnStart")
      <4>1. StartsBefore(l, i) \subseteq 0..Len(l)
        BY <1>4 DEF StartsBefore
      <4> QED
        BY <1>4, <3>1, <4>1, MaxIsGreatest DEF StartsBefore
    <3>3. k[Max(StartsBefore(k, i))].turn = k[i].turn
      BY <1>4, <3>1, <3>2 DEF TurnsFramed, FramesHold
    <3>4. \A j \in Positions(k, "TurnEnd") : j # i => k[j].turn # k[i].turn
      BY <1>2, <1>4 DEF TurnsFramed, FramesHold, TurnOpen
    <3> QED
      BY <3>1, <3>3, <3>4
  <2> QED
    BY ZenonT(30), <1>4, <2>4, <2>5 DEF TurnsFramed
<1>9. StepsEnded(k)
  <2> SUFFICES ASSUME NEW i \in Positions(l, "StepStart"), NEW j \in Positions(k, "TurnEnd"),
                      k[j].turn = k[i].turn, k[j].reason # "Error"
               PROVE  \E q : q < j /\ EndsStep(k, i, q)
    BY <1>4 DEF StepsEnded
  <2>1. CASE j = p
    <3>1. StepsClosed(l) /\ l[i].turn = t
      BY <1>2, <1>4, <2>1
    <3>2. PICK q : EndsStep(l, i, q)
      BY <3>1 DEF StepsClosed
    <3>3. q < p
      BY <1>4, <3>2 DEF EndsStep, Positions
    <3> QED
      BY <1>2, <1>3, <2>1, <3>2, <3>3, AppendKeeps
  <2>2. CASE j # p
    <3>1. j \in Positions(l, "TurnEnd") /\ k[j] = l[j] /\ k[i] = l[i]
      BY <1>4, <2>2
    <3>2. PICK q : q < j /\ EndsStep(l, i, q)
      BY <3>1 DEF StepsEnded, FramesHold
    <3> QED
      BY <1>2, <1>3, <3>2, AppendKeeps
  <2> QED
    BY <2>1, <2>2
<1> QED
  BY <1>6, <1>7, <1>8, <1>9 DEF FramesHold

-----------------------------------------------------------------------------
LEMMA FramedInit == Init => FramesHold(log) /\ FrameStands
<1> SUFFICES ASSUME Init PROVE FramesHold(log) /\ FrameStands
  OBVIOUS
<1>1. \A kind : Positions(log, kind) = {}
  BY DEF Init, Positions
<1>2. FramesHold(log)
  BY <1>1 DEF FramesHold, TurnsFramed, StepsNumbered, StepsEnded, TurnsBelow
<1>3. FrameStands
  BY DEF Init, FrameStands, StepPoints, BeforeLease, UnderLease
<1> QED
  BY <1>2, <1>3

\* The points of a turn inside a step, and those between its steps.
LEMMA PointsSplit ==
    /\ Points = {"idle", "loop", "begin", "decide"} \cup StepPoints
    /\ {"idle", "loop", "begin", "decide"} \cap StepPoints = {}
BY DEF Points, Awaiting, StepPoints, BeforeLease, UnderLease

\* A step that adds no frame and stays inside a step, leaves no turn open or
\* leaves the log as it is.
LEMMA FramesStay ==
    ASSUME FramedInv, NEW more \in Seq(Event), log' = log \o more,
           \A i \in DOMAIN more : more[i].type \notin FrameKinds,
           \/ pc' = "idle"
           \/ pc' \in StepPoints /\ pc \in StepPoints
           \/ pc' = pc /\ outcome' = outcome
    PROVE  FramesHold(log') /\ FrameStands'
<1>1. log \in Seq(Event) /\ FramesHold(log) /\ FrameStands
  BY DEF FramedInv, TypeOK, LogOK
<1>2. log' \in Seq(Event) /\ SameFrames(log, log')
  BY <1>1, FramesSame
<1>3. /\ FramesHold(log')
      /\ TurnOpen(log) => TurnOpen(log')
      /\ StepsClosed(log) => StepsClosed(log')
      /\ LastStepOpen(log) => LastStepOpen(log')
  BY <1>1, <1>2, FramesCarry
<1>4. CASE pc' = "idle"
  BY <1>3, <1>4, PointsSplit DEF FrameStands
<1>5. CASE pc' \in StepPoints /\ pc \in StepPoints
  BY <1>1, <1>3, <1>5, PointsSplit DEF FrameStands
<1>6. CASE pc' = pc /\ outcome' = outcome
  BY <1>1, <1>3, <1>6 DEF FrameStands
<1> QED
  BY <1>4, <1>5, <1>6

\* The actions inside a step.
LEMMA InsideSteps ==
    ASSUME TypeOK, [Next]_vars, ~Frames, ~LoopTop
    PROVE  \/ pc' = "idle"
           \/ pc' \in StepPoints /\ pc \in StepPoints
           \/ pc' = pc /\ outcome' = outcome
<1> USE DEF StepPoints, BeforeLease, UnderLease
<1>1. CASE \/ StreamEvent \/ StreamFails \/ StreamEnds \/ StreamStopped \/ RecordAnswer
           \/ RecordCalls \/ RecordRefused \/ NoReservation \/ Reserved \/ ReserveFails
           \/ AnswerCalls
  BY <1>1 DEF StreamEvent, StreamFails, StreamEnds, StreamStopped, RecordAnswer, RecordCalls,
     RecordRefused, NoReservation, Reserved, ReserveFails, AnswerCalls, LeaveBatch
<1>2. CASE Dispatches
  BY <1>2 DEF Dispatches, RunGoal, GoalsDone, BeginChunk, StartCall, ChunkStarted, ToolFinishes,
     ToolsWoken, ChunkFinished
<1>3. CASE GateActs
  BY <1>3, GateAnswers, GateStays
<1>4. CASE Abandon
  BY <1>4 DEF Abandon, ReturnToHost
<1>5. CASE HostActs \/ UNCHANGED vars
  BY <1>5 DEF HostActs, SetModel, SetApproval, ApproveTool, Stop, loopState, vars
<1> QED
  BY <1>1, <1>2, <1>3, <1>4, <1>5
     DEF Next, Internal, Woken, Answers, Host, Dispatches, HostActs, GateActs, Frames

LEMMA FramedSteps == FramedInv /\ [Next]_vars => FramesHold(log') /\ FrameStands'
<1> SUFFICES ASSUME FramedInv, [Next]_vars PROVE FramesHold(log') /\ FrameStands'
  OBVIOUS
<1>1. TypeOK /\ log \in Seq(Event) /\ FramesHold(log) /\ FrameStands
  BY DEF FramedInv, TypeOK, LogOK
<1>2. CurrentTurn(log) \in Nat /\ StepsInTurn(log, CurrentTurn(log)) \in Nat /\ ThisStep \in Nat
  BY <1>1, LogNumbers
<1>3. CASE ~Frames /\ ~LoopTop
  <2>1. PICK more \in Seq(Event) : log' = log \o more /\ BodyOnly(more)
    BY <1>1, <1>3, OtherWrites
  <2>2. \A i \in DOMAIN more : more[i].type \notin FrameKinds
    BY <2>1 DEF BodyOnly, Body, FrameKinds
  <2> QED
    BY <1>1, <1>3, <2>1, <2>2, InsideSteps, FramesStay
<1>4. CASE LoopTop
  <2>1. log' = log /\ pc = "loop" /\ pc' \in {"decide", "begin"}
    BY <1>4 DEF LoopTop
  <2> QED
    BY <1>1, <2>1, PointsSplit DEF FrameStands
<1>5. CASE StartTurn
  <2> DEFINE t == CurrentTurn(log) + 1
             l == Append(log, TurnStart(t))
  <2>1. l \in Seq(Event) /\ FramesHold(l) /\ TurnOpen(l) /\ StepsClosed(l)
    <3>1. t \in Nat
      BY <1>2
    <3> QED
      BY <1>1, <3>1, TurnOpens, Zenon
  <2>2. UserMessage \in Event /\ UserMessage.type \notin FrameKinds /\ TurnStart(t) \in Event
    BY <1>1, FrameTypes DEF UserMessage, FrameKinds
  <2>3. log' = l \o <<UserMessage>>
    BY <1>1, <1>5, <2>2 DEF StartTurn
  <2> HIDE DEF l
  <2>4. /\ <<UserMessage>> \in Seq(Event)
        /\ \A i \in DOMAIN <<UserMessage>> : <<UserMessage>>[i].type \notin FrameKinds
    BY <2>2
  <2>5. log' \in Seq(Event) /\ SameFrames(l, log')
    BY <2>1, <2>3, <2>4, FramesSame
  <2>6. FramesHold(log') /\ TurnOpen(log') /\ StepsClosed(log')
    BY <2>1, <2>5, FramesCarry
  <2>7. pc' = "loop"
    BY <1>5 DEF StartTurn
  <2> QED
    BY <2>6, <2>7, PointsSplit DEF FrameStands
<1>6. CASE BeginStep \/ BeginReservedStep
  <2> DEFINE l == Append(log, StepStart(CurrentTurn(log), ThisStep))
             m == Append(l, StepEnd(CurrentTurn(l), ThisStep))
  <2>1. TurnOpen(log) /\ StepsClosed(log)
    BY <1>1, <1>6 DEF FrameStands, BeginStep, BeginReservedStep
  <2>2. l \in Seq(Event) /\ FramesHold(l) /\ TurnOpen(l) /\ LastStepOpen(l)
    BY <1>1, <1>2, <2>1, StepOpens DEF ThisStep
  <2>3. CurrentTurn(l) = CurrentTurn(log)
    <3>1. StepStart(CurrentTurn(log), ThisStep) \in Event
          /\ StepStart(CurrentTurn(log), ThisStep).type # "TurnStart"
      BY <1>1, FrameTypes DEF StepStart
    <3> QED
      BY <1>1, <3>1, SameTurn
  <2>4. FramesHold(m) /\ TurnOpen(m)
    BY <1>2, <2>2, StepEnds
  <2>5. \/ log' = l /\ pc' \in {"stream", "endstep"}
        \/ log' = m /\ pc' = "decide" /\ outcome' = "Error"
        \/ log' = log /\ pc' = "decide" /\ outcome' = "Error"
    BY <1>6, <2>3 DEF BeginStep, BeginReservedStep, Opened
  <2> HIDE DEF l, m
  <2>6. CASE log' = l /\ pc' \in {"stream", "endstep"}
    BY <2>2, <2>6 DEF FrameStands
  <2>7. CASE log' = m /\ pc' = "decide" /\ outcome' = "Error"
    BY <2>4, <2>7, PointsSplit DEF FrameStands
  <2>8. CASE log' = log /\ pc' = "decide" /\ outcome' = "Error"
    BY <1>1, <2>1, <2>8, PointsSplit DEF FrameStands
  <2> QED
    BY <2>5, <2>6, <2>7, <2>8
<1>7. CASE EndStep
  <2> DEFINE n == StepsInTurn(log, CurrentTurn(log))
             l == Append(log, StepEnd(CurrentTurn(log), n))
  <2>1. pc = "endstep" /\ pc' = "decide"
    BY <1>7 DEF EndStep
  <2>2. TurnOpen(log) /\ LastStepOpen(log)
    BY <1>1, <2>1 DEF FrameStands, StepPoints
  <2>3. FramesHold(l) /\ TurnOpen(l) /\ StepsClosed(l)
    BY <1>1, <1>2, <2>2, StepEnds
  <2>4. log' = l \/ (log' = log /\ outcome' = "Error")
    BY <1>7 DEF EndStep
  <2> HIDE DEF l
  <2> QED
    BY <1>1, <2>1, <2>2, <2>3, <2>4, PointsSplit DEF FrameStands
<1>8. CASE DecideTurn
  <2> DEFINE v == Decide(log, outcome, MaxSteps)
             l == Append(log, TurnEnd(CurrentTurn(log), v))
  <2>1. pc = "decide" /\ TurnOpen(log) /\ (outcome = "Error" \/ StepsClosed(log))
    BY <1>1, <1>8 DEF DecideTurn, FrameStands
  <2>2. outcome = "Error" => v = "Error"
    BY DEF Decide, TerminalOutcome
  <2>3. v = "Error" \/ StepsClosed(log)
    BY <2>1, <2>2
  <2>4. v \in Reasons => FramesHold(l)
    BY <1>1, <2>1, <2>3, TurnCloses
  <2>5. \/ log' = log /\ pc' = "loop" /\ v = "Continue"
        \/ log' = l /\ pc' = "idle" /\ v \in Reasons
        \/ log' = log /\ pc' = "idle"
    BY <1>8, DecideTypes DEF DecideTurn, EndTurn, ReturnToHost
  <2> HIDE DEF v, l
  <2>6. CASE log' = log /\ pc' = "loop" /\ v = "Continue"
    BY <1>1, <2>1, <2>3, <2>6, PointsSplit DEF FrameStands
  <2>7. CASE log' = l /\ pc' = "idle" /\ v \in Reasons
    BY <2>4, <2>7, PointsSplit DEF FrameStands
  <2>8. CASE log' = log /\ pc' = "idle"
    BY <1>1, <2>8, PointsSplit DEF FrameStands
  <2> QED
    BY <2>5, <2>6, <2>7, <2>8
<1> QED
  BY <1>3, <1>4, <1>5, <1>6, <1>7, <1>8 DEF Frames

\* Turns and steps are framed: a turn is closed once and by its own number, its
\* steps are numbered from one without a gap, and a step is left open only in a
\* turn that was abandoned or that closed with an error.
THEOREM FramedAlways == Spec => []Framed
<1>1. Init => FramedInv
  BY InitTypes, FramedInit DEF FramedInv
<1>2. FramedInv /\ [Next]_vars => FramedInv'
  BY TypesKept, FramedSteps DEF FramedInv
<1>3. FramedInv => Framed
  <2> SUFFICES ASSUME FramesHold(log) PROVE Framed
    BY DEF FramedInv
  <2>1. \A i \in Positions(log, "TurnEnd") :
            LET before == {k \in Positions(log, "TurnStart") : k < i}
            IN  /\ before # {}
                /\ log[Max(before)].turn = log[i].turn
                /\ \A j \in Positions(log, "TurnEnd") : j # i => log[j].turn # log[i].turn
    BY DEF FramesHold, TurnsFramed, StartsBefore
  <2>2. \A i \in Positions(log, "StepStart") :
            log[i].step = 1 + Cardinality({k \in Positions(log, "StepStart") :
                                k < i /\ log[k].turn = log[i].turn})
    BY DEF FramesHold, StepsNumbered, StepsBefore
  <2>3. \A i \in Positions(log, "StepStart") : \A j \in Positions(log, "TurnEnd") :
            log[j].turn = log[i].turn /\ log[j].reason # "Error" =>
                \E k \in Positions(log, "StepEnd") :
                    i < k /\ k < j /\ log[k].turn = log[i].turn /\ log[k].step = log[i].step
    BY DEF FramesHold, StepsEnded, EndsStep
  <2> QED
    BY <2>1, <2>2, <2>3 DEF Framed
<1> QED
  BY <1>1, <1>2, <1>3, PTL DEF Spec

-----------------------------------------------------------------------------
(***************************************************************************)
(* The calls of a response and their results.                              *)
(***************************************************************************)
Breaks(e) == e.type \in {"AssistantMessage", "TurnStart"}

\* Following(i) of any log.
FollowingIn(l, i) ==
    LET ends == {j \in DOMAIN l : j > i /\ l[j].type \in {"AssistantMessage", "TurnStart"}}
    IN  SubSeq(l, i + 1, Min(ends \cup {Len(l) + 1}) - 1)

\* Where the events that follow position i end: at the next response or turn, or
\* with the log.
EndAt(l, i, p) ==
    /\ p \in i + 1..Len(l) + 1
    /\ \A j \in i + 1..p - 1 : ~Breaks(l[j])
    /\ p <= Len(l) => Breaks(l[p])

LEMMA EndFound ==
    ASSUME NEW l \in Seq(Event), NEW i \in 0..Len(l)
    PROVE  \E p : EndAt(l, i, p)
<1> DEFINE T == {j \in DOMAIN l : j > i /\ Breaks(l[j])} \cup {Len(l) + 1}
<1>1. T \subseteq Nat /\ T # {} /\ Len(l) \in Nat /\ i \in 0..Len(l)
  OBVIOUS
<1>2. PICK p \in T : \A j \in T : p <= j
  BY <1>1, LeastNatural
<1>3. p \in i + 1..Len(l) + 1
  BY <1>1
<1>4. ASSUME NEW j \in i + 1..p - 1 PROVE ~Breaks(l[j])
  <2>1. j \in DOMAIN l /\ j > i /\ ~(p <= j)
    BY <1>1, <1>3
  <2> QED
    BY <1>2, <2>1
<1>5. p <= Len(l) => Breaks(l[p])
  BY <1>1
<1> QED
  BY <1>3, <1>4, <1>5 DEF EndAt

LEMMA FollowingEnds ==
    ASSUME NEW l \in Seq(Event), NEW i \in 0..Len(l), NEW p, EndAt(l, i, p)
    PROVE  FollowingIn(l, i) = SubSeq(l, i + 1, p - 1)
<1> DEFINE T == {j \in DOMAIN l : j > i /\ l[j].type \in {"AssistantMessage", "TurnStart"}}
                    \cup {Len(l) + 1}
<1>1. Len(l) \in Nat /\ i \in 0..Len(l) /\ p \in i + 1..Len(l) + 1
  BY DEF EndAt
<1>2. p \in T
  BY <1>1 DEF EndAt, Breaks
<1>3. \A j \in T : j \in Nat /\ p <= j
  <2> SUFFICES ASSUME NEW j \in T PROVE j \in Nat /\ p <= j
    OBVIOUS
  <2>1. CASE j = Len(l) + 1
    BY <1>1, <2>1
  <2>2. CASE j \in 1..Len(l) /\ j > i /\ Breaks(l[j])
    BY <1>1, <2>2 DEF EndAt
  <2> QED
    BY <1>1, <2>1, <2>2 DEF Breaks
<1>4. Min(T) = p
  <2>1. \A x \in T : (\A y \in T : x <= y) => x = p
    BY <1>1, <1>2, <1>3
  <2> HIDE DEF T
  <2>2. Min(T) \in T /\ \A y \in T : Min(T) <= y
    BY <1>2, <1>3 DEF Min
  <2> QED
    BY <2>1, <2>2
<1> QED
  BY <1>4 DEF FollowingIn

\* What follows position i is a list of events.
LEMMA FollowingTypes ==
    ASSUME NEW l \in Seq(Event), NEW i \in 0..Len(l)
    PROVE  FollowingIn(l, i) \in Seq(Event)
<1>1. PICK p : EndAt(l, i, p)
  BY EndFound
<1>2. p \in i + 1..Len(l) + 1 /\ i \in Nat
  BY <1>1 DEF EndAt
<1>3. SubSeq(l, i + 1, p - 1) \in Seq(Event)
  BY <1>2
<1> QED
  BY <1>1, <1>3, FollowingEnds

\* A piece of a list is a piece of the list grown, up to its end or beyond it.
LEMMA PieceKept ==
    ASSUME NEW A, NEW s \in Seq(A), NEW more \in Seq(A),
           NEW a \in Nat \ {0}, NEW b \in Nat, b <= Len(s)
    PROVE  SubSeq(s \o more, a, b) = SubSeq(s, a, b)
OBVIOUS

LEMMA PieceGrown ==
    ASSUME NEW A, NEW s \in Seq(A), NEW more \in Seq(A), NEW a \in 1..Len(s) + 1
    PROVE  SubSeq(s \o more, a, Len(s \o more)) = SubSeq(s, a, Len(s)) \o more
<1> DEFINE k == s \o more
           left == SubSeq(k, a, Len(k))
           piece == SubSeq(s, a, Len(s))
           right == piece \o more
<1>1. /\ k \in Seq(A) /\ Len(k) = Len(s) + Len(more) /\ Len(s) \in Nat /\ Len(more) \in Nat
      /\ a \in Nat /\ a >= 1 /\ a <= Len(s) + 1
      /\ \A j \in 1..Len(k) : k[j] = IF j <= Len(s) THEN s[j] ELSE more[j - Len(s)]
  OBVIOUS
<1> HIDE DEF k
<1>2. /\ left \in Seq(A) /\ Len(left) = Len(k) - a + 1
      /\ \A j \in 1..Len(left) : left[j] = k[a + j - 1]
  BY <1>1
<1>3. /\ piece \in Seq(A) /\ Len(piece) = Len(s) - a + 1
      /\ \A j \in 1..Len(piece) : piece[j] = s[a + j - 1]
  BY <1>1
<1> HIDE DEF left, piece
<1>4. /\ right \in Seq(A) /\ Len(right) = Len(piece) + Len(more)
      /\ \A j \in 1..Len(right) :
            right[j] = IF j <= Len(piece) THEN piece[j] ELSE more[j - Len(piece)]
  BY <1>3
<1> HIDE DEF right
<1>5. Len(left) = Len(right)
  BY <1>1, <1>2, <1>3, <1>4
<1>6. ASSUME NEW j \in 1..Len(left) PROVE left[j] = right[j]
  <2>1. left[j] = k[a + j - 1] /\ a + j - 1 \in 1..Len(k) /\ j \in 1..Len(right)
    BY <1>1, <1>2, <1>5
  <2>2. CASE a + j - 1 <= Len(s)
    <3>1. left[j] = s[a + j - 1]
      BY <1>1, <2>1, <2>2
    <3>2. j \in 1..Len(piece)
      BY SMTT(30), <1>1, <1>3, <2>1, <2>2
    <3>3. piece[j] = s[a + j - 1] /\ j <= Len(piece)
      BY <1>3, <3>2
    <3>4. right[j] = piece[j]
      BY <1>4, <2>1, <3>3
    <3> QED
      BY <3>1, <3>3, <3>4
  <2>3. CASE ~(a + j - 1 <= Len(s))
    <3>1. left[j] = more[a + j - 1 - Len(s)]
      BY SMTT(30), <1>1, <2>1, <2>3
    <3>2. ~(j <= Len(piece)) /\ j - Len(piece) = a + j - 1 - Len(s)
      BY <1>1, <1>3, <2>1, <2>3
    <3>3. right[j] = more[a + j - 1 - Len(s)]
      BY <1>4, <2>1, <3>2
    <3> QED
      BY <3>1, <3>3
  <2> QED
    BY <2>2, <2>3
<1>7. left = right
  BY <1>2, <1>4, <1>5, <1>6, SeqEqual
<1> QED
  BY <1>7 DEF k, left, right, piece

\* A log that grows keeps what follows position i where that has ended already,
\* or ends with the first event that is new.
LEMMA FollowingKept ==
    ASSUME NEW l \in Seq(Event), NEW i \in 0..Len(l), NEW more \in Seq(Event),
           NEW p, EndAt(l, i, p),
           p <= Len(l) \/ (Len(more) > 0 /\ Breaks(more[1]))
    PROVE  FollowingIn(l \o more, i) = FollowingIn(l, i)
<1> DEFINE k == l \o more
<1>1. /\ k \in Seq(Event) /\ Len(k) = Len(l) + Len(more) /\ Len(l) \in Nat /\ Len(more) \in Nat
      /\ \A j \in 1..Len(l) : k[j] = l[j]
      /\ Len(more) > 0 => k[Len(l) + 1] = more[1]
      /\ i \in 0..Len(k) /\ i \in 0..Len(l)
  OBVIOUS
<1>2. p \in i + 1..Len(l) + 1
  BY DEF EndAt
<1> HIDE DEF k
<1>3. EndAt(k, i, p)
  <2>1. p \in i + 1..Len(k) + 1
    BY <1>1, <1>2
  <2>2. \A j \in i + 1..p - 1 : ~Breaks(k[j])
    <3>1. ASSUME NEW j \in i + 1..p - 1 PROVE k[j] = l[j]
      <4>1. j \in 1..Len(l)
        BY <1>1, <1>2
      <4> QED
        BY <1>1, <4>1
    <3> QED
      BY <3>1 DEF EndAt
  <2>3. Breaks(k[p])
    <3>1. CASE p <= Len(l)
      BY <1>1, <1>2, <3>1 DEF EndAt
    <3>2. CASE ~(p <= Len(l))
      <4>1. p = Len(l) + 1
        BY <1>1, <1>2, <3>2
      <4> QED
        BY <1>1, <3>2, <4>1
    <3> QED
      BY <3>1, <3>2
  <2> QED
    BY <2>1, <2>2, <2>3 DEF EndAt
<1>4. SubSeq(k, i + 1, p - 1) = SubSeq(l, i + 1, p - 1)
  <2>1. i + 1 \in Nat \ {0} /\ p - 1 \in Nat /\ p - 1 <= Len(l)
    BY <1>1, <1>2
  <2> QED
    BY <2>1, PieceKept DEF k
<1>5. FollowingIn(l, i) = SubSeq(l, i + 1, p - 1)
  BY FollowingEnds
<1>6. FollowingIn(k, i) = SubSeq(k, i + 1, p - 1)
  BY <1>1, <1>3, FollowingEnds
<1> QED
  BY <1>4, <1>5, <1>6 DEF k

\* One that grows by other events has them follow where nothing has ended.
LEMMA FollowingGrown ==
    ASSUME NEW l \in Seq(Event), NEW i \in 0..Len(l), NEW more \in Seq(Event),
           EndAt(l, i, Len(l) + 1), \A j \in DOMAIN more : ~Breaks(more[j])
    PROVE  FollowingIn(l \o more, i) = FollowingIn(l, i) \o more
<1> DEFINE k == l \o more
<1>1. /\ k \in Seq(Event) /\ Len(k) = Len(l) + Len(more) /\ Len(l) \in Nat /\ Len(more) \in Nat
      /\ \A j \in 1..Len(l) : k[j] = l[j]
      /\ \A j \in 1..Len(k) : j > Len(l) => k[j] = more[j - Len(l)] /\ j - Len(l) \in DOMAIN more
      /\ i \in 0..Len(k) /\ i \in 0..Len(l)
  OBVIOUS
<1>2. SubSeq(k, i + 1, Len(k)) = SubSeq(l, i + 1, Len(l)) \o more
  <2>1. i + 1 \in 1..Len(l) + 1
    BY <1>1
  <2> QED
    BY <2>1, PieceGrown
<1> HIDE DEF k
<1>3. EndAt(k, i, Len(k) + 1)
  <2>1. Len(k) + 1 \in i + 1..Len(k) + 1
    BY <1>1
  <2>2. ASSUME NEW j \in i + 1..(Len(k) + 1) - 1 PROVE ~Breaks(k[j])
    <3>1. CASE j <= Len(l)
      <4>1. j \in i + 1..(Len(l) + 1) - 1 /\ k[j] = l[j]
        BY <1>1, <3>1
      <4> QED
        BY <4>1 DEF EndAt
    <3>2. CASE j > Len(l)
      BY <1>1, <3>2
    <3> QED
      BY <1>1, <3>1, <3>2
  <2>3. ~(Len(k) + 1 <= Len(k))
    BY <1>1
  <2> QED
    BY <2>1, <2>2, <2>3 DEF EndAt
<1>4. FollowingIn(l, i) = SubSeq(l, i + 1, (Len(l) + 1) - 1)
  BY FollowingEnds
<1>5. FollowingIn(k, i) = SubSeq(k, i + 1, (Len(k) + 1) - 1)
  BY <1>1, <1>3, FollowingEnds
<1>6. (Len(l) + 1) - 1 = Len(l) /\ (Len(k) + 1) - 1 = Len(k)
  BY <1>1
<1> QED
  BY <1>2, <1>4, <1>5, <1>6 DEF k

\* The last response of the current turn has not been followed to an end, the
\* others have.
LEMMA LastIsOpen ==
    ASSUME NEW l \in Seq(Event), NEW i \in Positions(l, "AssistantMessage")
    PROVE  /\ i = LastOf(l, "AssistantMessage") /\ i > LastOf(l, "TurnStart") =>
                EndAt(l, i, Len(l) + 1)
           /\ i # LastOf(l, "AssistantMessage") => \E p : EndAt(l, i, p) /\ p <= Len(l)
<1>1. i \in 1..Len(l) /\ Len(l) \in Nat
  BY DEF Positions
<1>2. /\ \A j \in Positions(l, "AssistantMessage") : j <= LastOf(l, "AssistantMessage")
      /\ \A j \in Positions(l, "TurnStart") : j <= LastOf(l, "TurnStart")
      /\ LastOf(l, "AssistantMessage") \in Nat /\ LastOf(l, "TurnStart") \in Nat
      /\ LastOf(l, "AssistantMessage") # 0 =>
            LastOf(l, "AssistantMessage") \in Positions(l, "AssistantMessage")
  BY LastOfIsLast
<1>3. ASSUME i = LastOf(l, "AssistantMessage"), i > LastOf(l, "TurnStart")
      PROVE  EndAt(l, i, Len(l) + 1)
  <2>1. ASSUME NEW j \in i + 1..(Len(l) + 1) - 1 PROVE ~Breaks(l[j])
    <3>1. j \in 1..Len(l) /\ j > i
      BY <1>1
    <3>2. j \notin Positions(l, "AssistantMessage") /\ j \notin Positions(l, "TurnStart")
      BY <1>2, <1>3, <3>1
    <3> QED
      BY <3>1, <3>2 DEF Positions, Breaks
  <2>2. Len(l) + 1 \in i + 1..Len(l) + 1 /\ ~(Len(l) + 1 <= Len(l))
    BY <1>1
  <2> QED
    BY <2>1, <2>2 DEF EndAt
<1>4. ASSUME i # LastOf(l, "AssistantMessage")
      PROVE  \E p : EndAt(l, i, p) /\ p <= Len(l)
  <2>1. PICK p : EndAt(l, i, p)
    BY <1>1, EndFound
  <2>2. p \in i + 1..Len(l) + 1
    BY <2>1 DEF EndAt
  <2>3. PICK q : q = LastOf(l, "AssistantMessage")
    OBVIOUS
  <2>4. q \in 1..Len(l) /\ q > i /\ Breaks(l[q])
    <3>1. q >= i /\ q # 0 /\ q \in Nat
      BY <1>1, <1>2, <2>3
    <3>2. q \in Positions(l, "AssistantMessage")
      BY <1>2, <2>3, <3>1
    <3> QED
      BY <1>1, <1>4, <2>3, <3>1, <3>2 DEF Positions, Breaks
  <2>5. ~(p = Len(l) + 1)
    <3>1. ASSUME p = Len(l) + 1 PROVE FALSE
      <4>1. q \in i + 1..p - 1
        BY <1>1, <2>4, <3>1
      <4> QED
        BY <2>1, <2>4, <4>1 DEF EndAt
    <3> QED
      BY <3>1
  <2>6. p <= Len(l)
    BY <1>1, <2>2, <2>5
  <2> QED
    BY <2>1, <2>6
<1> QED
  BY <1>3, <1>4

\* The calls of a response by their ids; whether those and their results follow
\* it in order; whether the calls do and no result does yet.
Asked(calls) == [k \in DOMAIN calls |-> calls[k].id]

AnsweredAt(l, i) ==
    /\ Ids(FollowingIn(l, i), ToolCalls) = Asked(l[i].calls)
    /\ Ids(FollowingIn(l, i), ToolResults) = Asked(l[i].calls)

AnnouncedAt(l, i, calls) ==
    /\ l[i].calls = calls
    /\ Ids(FollowingIn(l, i), ToolCalls) = Asked(calls)
    /\ Only(FollowingIn(l, i), ToolResults) = <<>>

ClosedAt(l, i) ==
    \E j \in Positions(l, "TurnEnd") :
        j > i /\ \A k \in Positions(l, "TurnStart") : ~(i < k /\ k < j)

\* What follows a response is no longer added to once another response or a turn
\* has begun, or does.
LEMMA EndedCarries ==
    ASSUME NEW l \in Seq(Event), NEW i \in Positions(l, "AssistantMessage"),
           NEW more \in Seq(Event),
           (Len(more) > 0 /\ Breaks(more[1])) \/ i # LastOf(l, "AssistantMessage")
    PROVE  FollowingIn(l \o more, i) = FollowingIn(l, i)
<1>1. i \in 0..Len(l)
  BY DEF Positions
<1>2. PICK p : EndAt(l, i, p)
  BY <1>1, EndFound
<1>3. CASE Len(more) > 0 /\ Breaks(more[1])
  BY <1>1, <1>2, <1>3, FollowingKept
<1>4. CASE i # LastOf(l, "AssistantMessage")
  <2>1. PICK q : EndAt(l, i, q) /\ q <= Len(l)
    BY <1>4, LastIsOpen
  <2> QED
    BY <1>1, <2>1, FollowingKept
<1> QED
  BY <1>3, <1>4

\* What it has of a kind is not, where nothing of that kind is written.
LEMMA QuietCarries ==
    ASSUME NEW l \in Seq(Event), NEW i \in 0..Len(l), NEW S, NEW more \in Seq(Event),
           \A j \in DOMAIN more : ~Breaks(more[j]) /\ more[j] \notin S
    PROVE  Only(FollowingIn(l \o more, i), S) = Only(FollowingIn(l, i), S)
<1>1. PICK p : EndAt(l, i, p)
  BY EndFound
<1>2. CASE p <= Len(l)
  <2>1. FollowingIn(l \o more, i) = FollowingIn(l, i)
    BY <1>1, <1>2, FollowingKept
  <2> QED
    BY <2>1
<1>3. CASE ~(p <= Len(l))
  <2>1. p = Len(l) + 1
    BY <1>1, <1>3 DEF EndAt
  <2>2. FollowingIn(l \o more, i) = FollowingIn(l, i) \o more
    BY <1>1, <2>1, FollowingGrown
  <2>3. more \in Seq(Event \ S)
    OBVIOUS
  <2>4. PICK f \in Seq(Event) : f = FollowingIn(l, i)
    BY FollowingTypes
  <2>5. Only(f \o more, S) = Only(f, S)
    BY <2>3, OnlyNone
  <2> QED
    BY <2>2, <2>4, <2>5
<1> QED
  BY <1>2, <1>3

\* Nothing follows the last event.
LEMMA NothingFollows ==
    ASSUME NEW l \in Seq(Event), Len(l) > 0
    PROVE  FollowingIn(l, Len(l)) = <<>>
<1>1. EndAt(l, Len(l), Len(l) + 1)
  BY DEF EndAt
<1>2. Len(l) \in DOMAIN l /\ SubSeq(l, Len(l) + 1, (Len(l) + 1) - 1) = <<>>
  OBVIOUS
<1> QED
  BY <1>1, <1>2, FollowingEnds

\* Writing neither a call, a result, a response nor a frame of a turn leaves the
\* responses, what follows them, and what is closed.
LEMMA QuietLeaves ==
    ASSUME NEW l \in Seq(Event), NEW more \in Seq(Event), NEW k, k = l \o more,
           \A j \in DOMAIN more :
               more[j].type \notin {"AssistantMessage", "TurnStart", "ToolCall", "ToolResult"}
    PROVE  /\ Positions(k, "AssistantMessage") = Positions(l, "AssistantMessage")
           /\ LastOf(k, "AssistantMessage") = LastOf(l, "AssistantMessage")
           /\ Positions(k, "TurnStart") = Positions(l, "TurnStart")
           /\ LastOf(k, "TurnStart") = LastOf(l, "TurnStart")
           /\ \A i \in Positions(l, "AssistantMessage") :
                /\ AnsweredAt(l, i) => AnsweredAt(k, i)
                /\ \A calls : AnnouncedAt(l, i, calls) => AnnouncedAt(k, i, calls)
<1>1. /\ Positions(k, "AssistantMessage") = Positions(l, "AssistantMessage")
      /\ Positions(k, "TurnStart") = Positions(l, "TurnStart")
  BY PositionsKept
<1>2. ASSUME NEW i \in Positions(l, "AssistantMessage")
      PROVE  /\ AnsweredAt(l, i) => AnsweredAt(k, i)
             /\ \A calls : AnnouncedAt(l, i, calls) => AnnouncedAt(k, i, calls)
  <2>1. i \in DOMAIN l /\ k[i] = l[i]
    BY DEF Positions
  <2>2. \A j \in DOMAIN more : ~Breaks(more[j]) /\ more[j] \notin ToolCalls
                               /\ more[j] \notin ToolResults
    BY DEF Breaks, ToolCalls, ToolResults
  <2>3. /\ Only(FollowingIn(k, i), ToolCalls) = Only(FollowingIn(l, i), ToolCalls)
        /\ Only(FollowingIn(k, i), ToolResults) = Only(FollowingIn(l, i), ToolResults)
    BY <2>1, <2>2, QuietCarries
  <2> QED
    BY <2>1, <2>3 DEF AnsweredAt, AnnouncedAt, Ids
<1> QED
  BY <1>1, <1>2 DEF LastOf

\* A response that is written is the last, and what came before it stands.
WrittenAt(k, l, r) ==
    /\ k \in Seq(Event) /\ Len(k) = Len(l) + 1 /\ k[Len(k)] = r
    /\ Positions(k, "AssistantMessage") = Positions(l, "AssistantMessage") \cup {Len(k)}
    /\ LastOf(k, "AssistantMessage") = Len(k)
    /\ LastOf(k, "TurnStart") = LastOf(l, "TurnStart")
    /\ LastOf(k, "TurnStart") < Len(k)
    /\ FollowingIn(k, Len(k)) = <<>>
    /\ \A i \in Positions(l, "AssistantMessage") :
         k[i] = l[i] /\ FollowingIn(k, i) = FollowingIn(l, i) /\ i \in 1..Len(l)
    /\ \A i \in Positions(k, "AssistantMessage") :
         ClosedAt(k, i) => i \in Positions(l, "AssistantMessage") /\ ClosedAt(l, i)

LEMMA ResponseWritten ==
    ASSUME NEW l \in Seq(Event), NEW r \in Event, r.type = "AssistantMessage",
           NEW k, k = Append(l, r)
    PROVE  WrittenAt(k, l, r)
<1>1. /\ k \in Seq(Event) /\ Len(k) = Len(l) + 1 /\ k[Len(k)] = r /\ Len(l) \in Nat
      /\ \A i \in 1..Len(l) : k[i] = l[i]
  OBVIOUS
<1>2. Positions(k, "AssistantMessage") = Positions(l, "AssistantMessage") \cup {Len(k)}
  BY <1>1 DEF Positions
<1>3. /\ Positions(k, "TurnStart") = Positions(l, "TurnStart")
      /\ Positions(k, "TurnEnd") = Positions(l, "TurnEnd")
  BY <1>1 DEF Positions
<1>4. LastOf(k, "AssistantMessage") = Len(k) /\ LastOf(k, "TurnStart") = LastOf(l, "TurnStart")
  BY <1>1, LastAppended
<1>5. LastOf(k, "TurnStart") < Len(k)
  <2>1. LastOf(l, "TurnStart") \in Nat /\ LastOf(l, "TurnStart") <= Len(l)
    BY <1>1, LastOfIsLast DEF Positions
  <2> QED
    BY <1>1, <1>4, <2>1
<1>6. FollowingIn(k, Len(k)) = <<>>
  <2>1. k \in Seq(Event) /\ Len(k) > 0
    BY <1>1
  <2> QED
    BY <2>1, NothingFollows
<1>7. ASSUME NEW i \in Positions(l, "AssistantMessage")
      PROVE  k[i] = l[i] /\ FollowingIn(k, i) = FollowingIn(l, i) /\ i \in 1..Len(l)
  <2>1. k = l \o <<r>> /\ <<r>> \in Seq(Event) /\ Len(<<r>>) > 0 /\ <<r>>[1] = r
    OBVIOUS
  <2>2. Breaks(<<r>>[1])
    BY <2>1 DEF Breaks
  <2>3. FollowingIn(k, i) = FollowingIn(l, i)
    BY <2>1, <2>2, EndedCarries
  <2> QED
    BY <1>1, <2>3 DEF Positions
<1>8. ASSUME NEW i \in Positions(k, "AssistantMessage"), ClosedAt(k, i)
      PROVE  i \in Positions(l, "AssistantMessage") /\ ClosedAt(l, i)
  <2>1. ClosedAt(l, i)
    BY <1>3, <1>8 DEF ClosedAt
  <2>2. i # Len(k)
    BY <1>1, <2>1 DEF ClosedAt, Positions
  <2> QED
    BY <1>2, <2>1, <2>2
<1> QED
  BY <1>1, <1>2, <1>4, <1>5, <1>6, <1>7, <1>8 DEF WrittenAt

-----------------------------------------------------------------------------
\* Where the calls of the last response wait for their results.
Waiting == BeforeLease \cup UnderLease

\* Every response of a closed turn is answered; so is every response of the turn
\* that runs, but the last while its batch is out: its calls are the batch's, they
\* are announced, and no result of them is written.
AnswersStand ==
    /\ \A i \in Positions(log, "AssistantMessage") : ClosedAt(log, i) => AnsweredAt(log, i)
    /\ pc # "idle" =>
        \A i \in Positions(log, "AssistantMessage") :
            i > LastOf(log, "TurnStart") =>
                \/ AnsweredAt(log, i)
                \/ pc \in Waiting /\ i = LastOf(log, "AssistantMessage")
    /\ pc \in Waiting =>
        /\ LastOf(log, "AssistantMessage") > LastOf(log, "TurnStart")
        /\ AnnouncedAt(log, LastOf(log, "AssistantMessage"), batch.calls)

\* A response that was cut short asks for nothing.
CutAsksNothing == assembled.interrupted => assembled.calls = <<>> /\ pc = "record"

AnswersInv == TypeOK /\ AnswersStand /\ CutAsksNothing

LEMMA AnswersMean == AnswersStand => CallsAnsweredInOrder
<1> SUFFICES ASSUME AnswersStand, NEW i \in Positions(log, "AssistantMessage"), InClosedTurn(i)
             PROVE  /\ Ids(Following(i), ToolCalls) = Asked(log[i].calls)
                    /\ Ids(Following(i), ToolResults) = Asked(log[i].calls)
  BY DEF CallsAnsweredInOrder, Asked
<1>1. ClosedAt(log, i)
  BY DEF InClosedTurn, ClosedAt
<1>2. Following(i) = FollowingIn(log, i)
  BY DEF Following, FollowingIn
<1> QED
  BY <1>1, <1>2 DEF AnswersStand, AnsweredAt

\* What a cut response is recorded as, and what another step leaves of it.
LEMMA CutSteps == AnswersInv /\ [Next]_vars => CutAsksNothing'
<1> SUFFICES ASSUME AnswersInv, [Next]_vars PROVE CutAsksNothing'
  OBVIOUS
<1>1. CutAsksNothing /\ TypeOK /\ assembled \in Assembled
  BY DEF AnswersInv, TypeOK, LoopOK
<1>2. CASE StreamStopped
  <2>1. assembled' = Interrupt(assembled) /\ pc' = "record"
    BY <1>2 DEF StreamStopped
  <2>2. assembled'.calls = <<>>
    BY <1>1, <2>1 DEF Interrupt, Assembled
  <2> QED
    BY <2>1, <2>2 DEF CutAsksNothing
<1>3. CASE StreamEvent
  <2>1. assembled'.interrupted = assembled.interrupted /\ pc = "stream"
    <3>1. \/ assembled' = [assembled EXCEPT !.text = TRUE]
          \/ \E c : assembled' = [assembled EXCEPT !.calls = Append(@, c)]
          \/ assembled' = [assembled EXCEPT !.finish = "Length"]
      BY <1>3 DEF StreamEvent
    <3> QED
      BY <1>1, <1>3, <3>1 DEF StreamEvent, Assembled
  <2> QED
    BY <1>1, <2>1 DEF CutAsksNothing
<1>4. CASE StreamFails \/ RecordAnswer \/ RecordCalls \/ RecordRefused \/ Abandon
  <2>1. assembled' = NoResponse
    BY <1>4 DEF StreamFails, RecordAnswer, RecordCalls, RecordRefused, Abandon
  <2> QED
    BY <2>1 DEF NoResponse, CutAsksNothing
<1>5. CASE StreamEnds
  <2>1. assembled' = assembled /\ pc' = "record"
    BY <1>5 DEF StreamEnds
  <2> QED
    BY <1>1, <2>1 DEF CutAsksNothing
<1>6. CASE HostActs \/ UNCHANGED vars
  <2>1. assembled' = assembled /\ pc' = pc
    BY <1>6 DEF HostActs, SetModel, SetApproval, ApproveTool, Stop, loopState, vars
  <2> QED
    BY <1>1, <2>1 DEF CutAsksNothing
<1>7. CASE \/ StartTurn \/ LoopTop \/ DecideTurn \/ BeginStep \/ BeginReservedStep \/ EndStep
           \/ NoReservation \/ Reserved \/ ReserveFails \/ AnswerCalls \/ Dispatches \/ GateActs
  <2>1. assembled' = assembled /\ pc # "record"
    BY <1>7 DEF StartTurn, LoopTop, DecideTurn, BeginStep, BeginReservedStep, EndStep,
       NoReservation, Reserved, ReserveFails, AnswerCalls, Dispatches, RunGoal, GoalsDone,
       BeginChunk, StartCall, ChunkStarted, ToolFinishes, ToolsWoken, ChunkFinished,
       GateActs, GateCall, PolicyDecides, PersonAnswers, GateWoken
  <2> QED
    BY <1>1, <2>1 DEF CutAsksNothing
<1> QED
  BY <1>2, <1>3, <1>4, <1>5, <1>6, <1>7
     DEF Next, Internal, Woken, Answers, Host, Dispatches, HostActs, GateActs

\* A step that writes nothing of the responses and opens and closes no turn: the
\* points it moves between are both at the batch, or it leaves none, or the turn.
LEMMA AnswersQuiet ==
    ASSUME AnswersInv, NEW more \in Seq(Event), log' = log \o more,
           \A j \in DOMAIN more :
               more[j].type \notin {"AssistantMessage", "TurnStart", "TurnEnd",
                                    "ToolCall", "ToolResult"},
           pc = "idle" => pc' = "idle",
           pc' \in Waiting => pc \in Waiting /\ batch'.calls = batch.calls,
           pc \in Waiting => pc' \in Waiting \cup {"idle"}
    PROVE  AnswersStand'
<1>1. log \in Seq(Event) /\ AnswersStand
  BY DEF AnswersInv, TypeOK, LogOK
<1>2. /\ Positions(log', "AssistantMessage") = Positions(log, "AssistantMessage")
      /\ LastOf(log', "AssistantMessage") = LastOf(log, "AssistantMessage")
      /\ Positions(log', "TurnStart") = Positions(log, "TurnStart")
      /\ LastOf(log', "TurnStart") = LastOf(log, "TurnStart")
      /\ \A i \in Positions(log, "AssistantMessage") :
            /\ AnsweredAt(log, i) => AnsweredAt(log', i)
            /\ \A calls : AnnouncedAt(log, i, calls) => AnnouncedAt(log', i, calls)
  <2>1. \A j \in DOMAIN more :
            more[j].type \notin {"AssistantMessage", "TurnStart", "ToolCall", "ToolResult"}
    OBVIOUS
  <2> QED
    BY <1>1, <2>1, QuietLeaves, Zenon
<1>3. Positions(log', "TurnEnd") = Positions(log, "TurnEnd")
  BY <1>1, PositionsKept
<1>4. ASSUME NEW i \in Positions(log', "AssistantMessage"), ClosedAt(log', i)
      PROVE  AnsweredAt(log', i)
  <2>1. ClosedAt(log, i)
    BY <1>2, <1>3, <1>4 DEF ClosedAt
  <2> QED
    BY <1>1, <1>2, <1>4, <2>1 DEF AnswersStand
<1>5. ASSUME pc' # "idle", NEW i \in Positions(log', "AssistantMessage"),
             i > LastOf(log', "TurnStart")
      PROVE  \/ AnsweredAt(log', i)
             \/ pc' \in Waiting /\ i = LastOf(log', "AssistantMessage")
  <2>1. AnsweredAt(log, i) \/ (pc \in Waiting /\ i = LastOf(log, "AssistantMessage"))
    BY <1>1, <1>2, <1>5 DEF AnswersStand
  <2> QED
    BY <1>2, <1>5, <2>1
<1>6. ASSUME pc' \in Waiting
      PROVE  /\ LastOf(log', "AssistantMessage") > LastOf(log', "TurnStart")
             /\ AnnouncedAt(log', LastOf(log', "AssistantMessage"), batch'.calls)
  <2>1. /\ LastOf(log, "AssistantMessage") > LastOf(log, "TurnStart")
        /\ AnnouncedAt(log, LastOf(log, "AssistantMessage"), batch.calls)
    BY <1>1, <1>6 DEF AnswersStand
  <2>2. LastOf(log, "AssistantMessage") \in Positions(log, "AssistantMessage")
    BY <1>1, <2>1, LastOfIsLast
  <2> QED
    BY <1>2, <1>6, <2>1, <2>2
<1> QED
  BY <1>4, <1>5, <1>6 DEF AnswersStand, Waiting

\* Two lists, one behind the other.
LEMMA TwoLists ==
    ASSUME NEW A, NEW s \in Seq(A), NEW more \in Seq(A), Len(more) > 0
    PROVE  /\ s \o more \in Seq(A) /\ (s \o more)[Len(s) + 1] = more[1]
           /\ Len(s \o more) = Len(s) + Len(more) /\ Len(s) \in Nat
           /\ \A i \in 1..Len(s) : (s \o more)[i] = s[i]
OBVIOUS

\* Opening a turn ends what follows the last response and leaves every turn as
\* closed as it was.
LEMMA TurnAnswers == AnswersInv /\ StartTurn => AnswersStand'
<1> SUFFICES ASSUME AnswersInv, StartTurn PROVE AnswersStand'
  OBVIOUS
<1> DEFINE e == TurnStart(CurrentTurn(log) + 1)
           more == <<e, UserMessage>>
<1>1. TypeOK /\ log \in Seq(Event) /\ AnswersStand
  BY DEF AnswersInv, TypeOK, LogOK
<1>2. /\ e \in Event /\ e.type = "TurnStart"
      /\ UserMessage \in Event /\ UserMessage.type = "UserMessage"
  BY <1>1, FrameTypes DEF TurnStart, UserMessage
<1>3. log' = log \o more /\ pc' = "loop"
  BY DEF StartTurn
<1> HIDE DEF e
<1>4. /\ more \in Seq(Event) /\ Len(more) = 2 /\ more[1] = e
      /\ \A j \in DOMAIN more : more[j].type \notin {"AssistantMessage", "TurnEnd"}
  BY <1>2
<1> HIDE DEF more
<1>5. /\ log' \in Seq(Event) /\ Len(log) \in Nat /\ log'[Len(log) + 1] = e
      /\ Len(log') = Len(log) + 2
      /\ \A i \in 1..Len(log) : log'[i] = log[i]
  <2>1. more \in Seq(Event) /\ Len(more) > 0
    BY <1>4
  <2>2. /\ log \o more \in Seq(Event) /\ (log \o more)[Len(log) + 1] = more[1]
        /\ Len(log \o more) = Len(log) + Len(more) /\ Len(log) \in Nat
        /\ \A i \in 1..Len(log) : (log \o more)[i] = log[i]
    BY <1>1, <2>1, TwoLists
  <2> QED
    BY <1>3, <1>4, <2>2
<1>6. /\ Positions(log', "AssistantMessage") = Positions(log, "AssistantMessage")
      /\ Positions(log', "TurnEnd") = Positions(log, "TurnEnd")
  BY <1>1, <1>3, <1>4, PositionsKept
<1>7. /\ Positions(log, "TurnStart") \subseteq Positions(log', "TurnStart")
      /\ Len(log) + 1 \in Positions(log', "TurnStart")
  BY <1>2, <1>5 DEF Positions
<1>8. ASSUME NEW i \in Positions(log', "AssistantMessage"), ClosedAt(log', i)
      PROVE  AnsweredAt(log', i)
  <2>1. ClosedAt(log, i)
    BY <1>6, <1>7, <1>8 DEF ClosedAt
  <2>2. AnsweredAt(log, i)
    BY <1>1, <1>6, <1>8, <2>1 DEF AnswersStand
  <2>3. Breaks(more[1]) /\ Len(more) > 0
    BY <1>2, <1>4 DEF Breaks
  <2>4. FollowingIn(log', i) = FollowingIn(log, i)
    BY <1>1, <1>3, <1>4, <1>6, <1>8, <2>3, EndedCarries
  <2>5. log'[i] = log[i]
    BY <1>5, <1>6, <1>8 DEF Positions
  <2> QED
    BY <2>2, <2>4, <2>5 DEF AnsweredAt
<1>9. \A i \in Positions(log', "AssistantMessage") : ~(i > LastOf(log', "TurnStart"))
  <2>1. LastOf(log', "TurnStart") >= Len(log) + 1 /\ LastOf(log', "TurnStart") \in Nat
    BY <1>5, <1>7, LastOfIsLast
  <2> QED
    BY <1>5, <1>6, <2>1 DEF Positions
<1> QED
  BY <1>3, <1>8, <1>9 DEF AnswersStand, BeforeLease, UnderLease, Waiting

\* Closing a turn closes one in which every response is answered.
LEMMA CloseAnswers ==
    ASSUME AnswersInv, pc = "decide", pc' = "idle",
           NEW e \in Event, e.type = "TurnEnd", log' = Append(log, e)
    PROVE  AnswersStand'
<1>1. log \in Seq(Event) /\ AnswersStand
  BY DEF AnswersInv, TypeOK, LogOK
<1>2. /\ log' = log \o <<e>> /\ <<e>> \in Seq(Event)
      /\ \A j \in DOMAIN <<e>> : <<e>>[j] = e
  BY <1>1
<1>3. /\ Positions(log', "AssistantMessage") = Positions(log, "AssistantMessage")
      /\ Positions(log', "TurnStart") = Positions(log, "TurnStart")
      /\ \A i \in Positions(log, "AssistantMessage") :
            AnsweredAt(log, i) => AnsweredAt(log', i)
  <2>1. \A j \in DOMAIN <<e>> :
            <<e>>[j].type \notin {"AssistantMessage", "TurnStart", "ToolCall", "ToolResult"}
    BY <1>2
  <2> QED
    BY <1>1, <1>2, <2>1, QuietLeaves, Zenon
<1>4. Positions(log', "TurnEnd") \subseteq Positions(log, "TurnEnd") \cup {Len(log) + 1}
  BY <1>1 DEF Positions
<1>5. ASSUME NEW i \in Positions(log', "AssistantMessage"), ClosedAt(log', i)
      PROVE  AnsweredAt(log', i)
  <2>1. PICK j \in Positions(log', "TurnEnd") :
            j > i /\ \A k \in Positions(log, "TurnStart") : ~(i < k /\ k < j)
    BY <1>3, <1>5 DEF ClosedAt
  <2>2. CASE j \in Positions(log, "TurnEnd")
    <3>1. ClosedAt(log, i)
      BY <2>1, <2>2 DEF ClosedAt
    <3> QED
      BY <1>1, <1>3, <1>5, <3>1 DEF AnswersStand
  <2>3. CASE j = Len(log) + 1
    <3>1. PICK q : q = LastOf(log, "TurnStart")
      OBVIOUS
    <3>2. q \in Nat /\ (q # 0 => q \in Positions(log, "TurnStart"))
      BY <1>1, <3>1, LastOfIsLast
    <3>3. i \in 1..Len(log) /\ log[i].type = "AssistantMessage"
      BY <1>3, <1>5 DEF Positions
    <3>4. i > q
      <4>1. CASE q = 0
        BY <3>3, <4>1
      <4>2. CASE q \in Positions(log, "TurnStart")
        <5>1. q \in 1..Len(log) /\ q # i
          BY <3>3, <4>2 DEF Positions
        <5>2. ~(i < q /\ q < j)
          BY <2>1, <4>2
        <5> QED
          BY <2>3, <3>3, <5>1, <5>2
      <4> QED
        BY <3>2, <4>1, <4>2
    <3>5. AnsweredAt(log, i)
      BY <1>1, <1>3, <1>5, <3>1, <3>4 DEF AnswersStand, BeforeLease, UnderLease, Waiting
    <3> QED
      BY <1>3, <1>5, <3>5
  <2> QED
    BY <1>4, <2>1, <2>2, <2>3
<1> QED
  BY <1>5 DEF AnswersStand, BeforeLease, UnderLease, Waiting

\* A response that asks for nothing is answered by nothing.
LEMMA AnswerAnswers == AnswersInv /\ RecordAnswer => AnswersStand'
<1> SUFFICES ASSUME AnswersInv, RecordAnswer PROVE AnswersStand'
  OBVIOUS
<1>1. TypeOK /\ log \in Seq(Event) /\ AnswersStand /\ CutAsksNothing
  BY DEF AnswersInv, TypeOK, LogOK
<1>2. log' = Append(log, Recorded) /\ pc = "record" /\ pc' = "endstep"
      /\ (Response.interrupted \/ Response.calls = <<>>)
  BY DEF RecordAnswer
<1>3. Response.calls = <<>>
  <2>1. CASE Cancelled
    <3>1. assembled \in Assembled /\ Response = Interrupt(assembled)
      BY <1>1, <2>1 DEF TypeOK, LoopOK, Response
    <3> QED
      BY <3>1 DEF Interrupt, Assembled
  <2>2. CASE ~Cancelled
    BY <1>1, <1>2, <2>2 DEF Response, CutAsksNothing
  <2> QED
    BY <2>1, <2>2
<1>4. Recorded \in Event /\ Recorded.type = "AssistantMessage" /\ Recorded.calls = <<>>
  BY <1>1, <1>3, RecordedIsEvent
<1>5. /\ Len(log') = Len(log) + 1 /\ log'[Len(log')] = Recorded
      /\ Positions(log', "AssistantMessage") =
            Positions(log, "AssistantMessage") \cup {Len(log')}
      /\ LastOf(log', "TurnStart") = LastOf(log, "TurnStart")
      /\ FollowingIn(log', Len(log')) = <<>>
      /\ \A i \in Positions(log, "AssistantMessage") :
            log'[i] = log[i] /\ FollowingIn(log', i) = FollowingIn(log, i)
      /\ \A i \in Positions(log', "AssistantMessage") :
            ClosedAt(log', i) => i \in Positions(log, "AssistantMessage") /\ ClosedAt(log, i)
  <2>1. WrittenAt(log', log, Recorded)
    BY <1>1, <1>2, <1>4, ResponseWritten
  <2> QED
    BY <2>1 DEF WrittenAt
<1>6. AnsweredAt(log', Len(log'))
  BY <1>4, <1>5, OnlyEmpty DEF AnsweredAt, Ids, Asked
<1>7. \A i \in Positions(log, "AssistantMessage") : AnsweredAt(log, i) => AnsweredAt(log', i)
  BY <1>5 DEF AnsweredAt
<1> QED
  BY <1>1, <1>2, <1>5, <1>6, <1>7 DEF AnswersStand, BeforeLease, UnderLease, Waiting

\* The calls of a response, announced right behind it.
LEMMA CallsAnswers == AnswersInv /\ RecordCalls => AnswersStand'
<1> SUFFICES ASSUME AnswersInv, RecordCalls PROVE AnswersStand'
  OBVIOUS
<1> DEFINE calls == Response.calls
           announced == [i \in DOMAIN calls |-> ToolCall(calls[i])]
           k == Append(log, Recorded)
<1>1. TypeOK /\ log \in Seq(Event) /\ AnswersStand
  BY DEF AnswersInv, TypeOK, LogOK
<1>2. /\ log' = k \o announced /\ pc = "record" /\ pc' = "gate" /\ batch'.calls = calls
  BY DEF RecordCalls
<1>3. /\ Recorded \in Event /\ Recorded.type = "AssistantMessage"
      /\ Recorded.calls = calls /\ calls \in Seq(Call)
  BY <1>1, RecordedIsEvent
<1>4. /\ announced \in Seq(Event \cap ToolCalls) /\ announced \in Seq(Event \ ToolResults)
      /\ announced \in Seq(Event) /\ DOMAIN announced = DOMAIN calls
      /\ \A j \in DOMAIN announced : announced[j].type = "ToolCall"
      /\ \A j \in DOMAIN announced : announced[j].id = calls[j].id
  <2>1. \A i \in DOMAIN calls : /\ ToolCall(calls[i]) \in Event \cap ToolCalls
                                /\ ToolCall(calls[i]) \in Event \ ToolResults
    <3>1. \A i \in DOMAIN calls : calls[i] \in Call
      BY <1>3
    <3> QED
      BY <3>1, EventTypes DEF ToolCall, ToolCalls, ToolResults, Call
  <2>2. /\ announced \in [DOMAIN calls -> Event \cap ToolCalls]
        /\ announced \in [DOMAIN calls -> Event \ ToolResults]
    BY <2>1
  <2>3. announced \in Seq(Event \cap ToolCalls) /\ announced \in Seq(Event \ ToolResults)
        /\ DOMAIN announced = DOMAIN calls
    BY <1>3, <2>2, MappedSequence
  <2>4. announced \in Seq(Event)
    BY <2>3
  <2>5. \A j \in DOMAIN calls : announced[j] = ToolCall(calls[j])
    OBVIOUS
  <2> QED
    BY <2>3, <2>4, <2>5 DEF ToolCall
<1> HIDE DEF announced, calls
<1>5. k = Append(log, Recorded)
  OBVIOUS
<1> HIDE DEF k
<1>6. /\ k \in Seq(Event) /\ Len(k) = Len(log) + 1 /\ k[Len(k)] = Recorded
      /\ Positions(k, "AssistantMessage") = Positions(log, "AssistantMessage") \cup {Len(k)}
      /\ LastOf(k, "AssistantMessage") = Len(k)
      /\ LastOf(k, "TurnStart") = LastOf(log, "TurnStart")
      /\ LastOf(k, "TurnStart") < Len(k)
      /\ FollowingIn(k, Len(k)) = <<>>
      /\ \A i \in Positions(log, "AssistantMessage") :
            k[i] = log[i] /\ FollowingIn(k, i) = FollowingIn(log, i) /\ i \in 1..Len(log)
      /\ \A i \in Positions(k, "AssistantMessage") :
            ClosedAt(k, i) => i \in Positions(log, "AssistantMessage") /\ ClosedAt(log, i)
  <2>1. WrittenAt(k, log, Recorded)
    BY <1>1, <1>3, <1>5, ResponseWritten
  <2> QED
    BY <2>1 DEF WrittenAt
<1>7. /\ Positions(log', "AssistantMessage") = Positions(k, "AssistantMessage")
      /\ Positions(log', "TurnStart") = Positions(k, "TurnStart")
      /\ Positions(log', "TurnEnd") = Positions(k, "TurnEnd")
  <2>1. /\ log' = k \o announced /\ k \in Seq(Event) /\ announced \in Seq(Event)
        /\ \A j \in DOMAIN announced :
              announced[j].type \notin {"AssistantMessage", "TurnStart", "TurnEnd"}
    BY <1>2, <1>4, <1>6
  <2> QED
    BY <2>1, PositionsKept
<1>8. /\ LastOf(log', "AssistantMessage") = Len(k)
      /\ LastOf(log', "TurnStart") = LastOf(log, "TurnStart")
  BY <1>6, <1>7 DEF LastOf
<1>9. ASSUME NEW i \in Positions(log, "AssistantMessage"), AnsweredAt(log, i)
      PROVE  AnsweredAt(log', i)
  <2>1. i \in Positions(k, "AssistantMessage") /\ i # LastOf(k, "AssistantMessage")
    BY <1>1, <1>6
  <2>2. FollowingIn(log', i) = FollowingIn(log, i)
    BY <1>2, <1>4, <1>6, <2>1, EndedCarries
  <2>3. log'[i] = log[i]
    BY <1>1, <1>2, <1>4, <1>6
  <2> QED
    BY <1>9, <2>2, <2>3 DEF AnsweredAt
<1>10. \A i \in Positions(log', "AssistantMessage") :
            ClosedAt(log', i) => i \in Positions(log, "AssistantMessage") /\ ClosedAt(log, i)
  BY <1>6, <1>7 DEF ClosedAt
<1>11. AnnouncedAt(log', Len(k), calls)
  <2>1. FollowingIn(log', Len(k)) = announced
    <3>1. Len(k) \in DOMAIN k /\ EndAt(k, Len(k), Len(k) + 1)
      BY <1>1, <1>6 DEF EndAt
    <3>2. \A j \in DOMAIN announced : ~Breaks(announced[j])
      BY <1>4 DEF Breaks
    <3>3. FollowingIn(log', Len(k)) = FollowingIn(k, Len(k)) \o announced
      BY SMTT(30), <1>2, <1>4, <1>6, <3>1, <3>2, FollowingGrown
    <3>4. <<>> \o announced = announced
      BY <1>4
    <3> QED
      BY <1>6, <3>3, <3>4
  <2>2. <<>> \in Seq(Event) /\ <<>> \o announced = announced
    BY <1>4
  <2>3. Only(announced, ToolCalls) = announced
    <3>1. announced \in Seq(Event \cap ToolCalls)
      BY <1>4
    <3>2. PICK none \in Seq(Event) : none = <<>>
      BY <2>2
    <3>3. Only(none \o announced, ToolCalls) = Only(none, ToolCalls) \o announced
      BY <3>1, OnlyAll
    <3> QED
      BY <2>2, <3>2, <3>3, OnlyEmpty
  <2>4. Only(announced, ToolResults) = <<>>
    <3>1. announced \in Seq(Event \ ToolResults)
      BY <1>4
    <3>2. PICK none \in Seq(Event) : none = <<>>
      BY <2>2
    <3>3. Only(none \o announced, ToolResults) = Only(none, ToolResults)
      BY <3>1, OnlyNone
    <3> QED
      BY <2>2, <3>2, <3>3, OnlyEmpty
  <2>5. Ids(announced, ToolCalls) = Asked(calls)
    BY <1>4, <2>3 DEF Ids, Asked
  <2>6. log'[Len(k)].calls = calls
    BY <1>1, <1>2, <1>3, <1>4, <1>6
  <2> QED
    BY <2>1, <2>4, <2>5, <2>6 DEF AnnouncedAt
<1>12. pc' \in Waiting /\ pc \notin Waiting /\ pc # "idle"
  BY <1>2 DEF Waiting, BeforeLease, UnderLease
<1>13. ASSUME NEW i \in Positions(log', "AssistantMessage"), i > LastOf(log', "TurnStart")
       PROVE  AnsweredAt(log', i) \/ i = LastOf(log', "AssistantMessage")
  BY <1>1, <1>6, <1>7, <1>8, <1>9, <1>12, <1>13 DEF AnswersStand
<1>14. LastOf(log', "AssistantMessage") > LastOf(log', "TurnStart")
  BY <1>1, <1>6, <1>8, LastOfIsLast
<1>15. \A i \in Positions(log', "AssistantMessage") : ClosedAt(log', i) => AnsweredAt(log', i)
  BY <1>1, <1>9, <1>10 DEF AnswersStand
<1>16. AnnouncedAt(log', LastOf(log', "AssistantMessage"), batch'.calls)
  BY <1>2, <1>8, <1>11
<1> QED
  BY <1>12, <1>13, <1>14, <1>15, <1>16 DEF AnswersStand, Waiting

\* The results of a batch, one for each of its calls.
LEMMA ResultsAnswer == AnswersInv /\ (ReserveFails \/ AnswerCalls) => AnswersStand'
<1> SUFFICES ASSUME AnswersInv, ReserveFails \/ AnswerCalls PROVE AnswersStand'
  OBVIOUS
<1>1. BatchOK /\ log \in Seq(Event) /\ AnswersStand
  BY DEF AnswersInv, TypeOK, LogOK
<1>2. log' = log \o Results /\ pc \in Waiting /\ pc' = "endstep"
  BY DEF ReserveFails, AnswerCalls, LeaveBatch, Waiting, BeforeLease, UnderLease
<1>3. Results \in Seq(Event) /\ \A j \in DOMAIN Results : Results[j].type = "ToolResult"
  BY <1>1, ResultsAreEvents
<1>4. /\ DOMAIN Results = DOMAIN batch.calls
      /\ \A j \in DOMAIN Results : Results[j].id = batch.calls[j].id
  BY DEF Results, ToolResult, Calls
<1>5. Results \in Seq(Event \cap ToolResults) /\ Results \in Seq(Event \ ToolCalls)
  <2>1. \A j \in DOMAIN Results : Results[j] \in Event /\ Results[j] \in ToolResults
                                  /\ Results[j] \notin ToolCalls
    BY <1>3 DEF Event, ToolResults, ToolCalls
  <2> QED
    BY <1>3, <2>1
<1> DEFINE q == LastOf(log, "AssistantMessage")
<1>6. q > LastOf(log, "TurnStart") /\ AnnouncedAt(log, q, batch.calls)
  BY <1>1, <1>2 DEF AnswersStand
<1>7. q \in Positions(log, "AssistantMessage") /\ q \in DOMAIN log /\ q \in 0..Len(log)
  BY <1>1, <1>6, LastOfIsLast DEF Positions
<1>8. /\ Positions(log', "AssistantMessage") = Positions(log, "AssistantMessage")
      /\ Positions(log', "TurnStart") = Positions(log, "TurnStart")
      /\ Positions(log', "TurnEnd") = Positions(log, "TurnEnd")
  BY <1>1, <1>2, <1>3, PositionsKept
<1>9. LastOf(log', "TurnStart") = LastOf(log, "TurnStart")
  BY <1>8 DEF LastOf
<1>10. AnsweredAt(log', q)
  <2>1. EndAt(log, q, Len(log) + 1)
    BY <1>1, <1>6, <1>7, LastIsOpen
  <2>2. \A j \in DOMAIN Results : ~Breaks(Results[j])
    BY <1>3 DEF Breaks
  <2>3. PICK f \in Seq(Event) : f = FollowingIn(log, q)
    BY <1>1, <1>7, FollowingTypes
  <2> HIDE DEF q
  <2>4. FollowingIn(log', q) = f \o Results
    BY <1>1, <1>2, <1>3, <1>7, <2>1, <2>2, <2>3, FollowingGrown
  <2>5. Only(f \o Results, ToolCalls) = Only(f, ToolCalls)
    BY <1>5, OnlyNone
  <2>6. Only(f \o Results, ToolResults) = <<>> \o Results
    BY <1>5, <1>6, <2>3, OnlyAll DEF AnnouncedAt
  <2>7. <<>> \o Results = Results
    BY <1>3
  <2>8. log'[q] = log[q]
    BY <1>1, <1>2, <1>3, <1>7
  <2>9. Ids(f \o Results, ToolResults) = Asked(batch.calls)
    BY <1>4, <2>6, <2>7 DEF Ids, Asked
  <2>10. Ids(f \o Results, ToolCalls) = Asked(batch.calls)
    BY <1>6, <2>3, <2>5 DEF Ids, AnnouncedAt
  <2> QED
    BY <1>6, <2>4, <2>8, <2>9, <2>10 DEF AnsweredAt, AnnouncedAt
<1>11. ASSUME NEW i \in Positions(log, "AssistantMessage"), i # q, AnsweredAt(log, i)
       PROVE  AnsweredAt(log', i)
  <2>1. FollowingIn(log', i) = FollowingIn(log, i)
    BY <1>1, <1>2, <1>3, <1>11, EndedCarries
  <2>2. log'[i] = log[i]
    BY <1>1, <1>2, <1>3 DEF Positions
  <2> QED
    BY <1>11, <2>1, <2>2 DEF AnsweredAt
<1> HIDE DEF q
<1>12. ASSUME NEW i \in Positions(log', "AssistantMessage"), ClosedAt(log', i)
       PROVE  AnsweredAt(log', i)
  <2>1. ClosedAt(log, i)
    BY <1>8, <1>12 DEF ClosedAt
  <2> QED
    BY <1>1, <1>8, <1>10, <1>11, <1>12, <2>1 DEF AnswersStand
<1>13. ASSUME NEW i \in Positions(log', "AssistantMessage"), i > LastOf(log', "TurnStart")
       PROVE  AnsweredAt(log', i)
  <2>1. pc # "idle"
    BY <1>2 DEF Waiting, BeforeLease, UnderLease
  <2>2. AnsweredAt(log, i) \/ i = q
    BY <1>1, <1>8, <1>9, <1>13, <2>1 DEF AnswersStand, q
  <2> QED
    BY <1>8, <1>10, <1>11, <1>13, <2>2
<1> QED
  BY <1>2, <1>12, <1>13 DEF AnswersStand, Waiting, BeforeLease, UnderLease

LEMMA AnswersKeep == AnswersInv /\ [Next]_vars => AnswersStand'
<1> SUFFICES ASSUME AnswersInv, [Next]_vars PROVE AnswersStand'
  OBVIOUS
<1>1. TypeOK /\ log \in Seq(Event) /\ BatchOK
  BY DEF AnswersInv, TypeOK, LogOK
<1> DEFINE Quiet(e) == e.type \notin {"AssistantMessage", "TurnStart", "TurnEnd",
                                      "ToolCall", "ToolResult"}
           Moves == /\ pc = "idle" => pc' = "idle"
                    /\ pc' \in Waiting => pc \in Waiting /\ batch'.calls = batch.calls
                    /\ pc \in Waiting => pc' \in Waiting \cup {"idle"}
<1>2. ASSUME Moves, log' = log PROVE AnswersStand'
  <2>1. log' = log \o <<>> /\ <<>> \in Seq(Event)
    BY <1>1, <1>2
  <2>2. \A j \in DOMAIN <<>> : Quiet(<<>>[j])
    OBVIOUS
  <2> QED
    BY <1>2, <2>1, <2>2, AnswersQuiet
<1>3. ASSUME Moves, NEW e \in Event, Quiet(e), log' = Append(log, e) PROVE AnswersStand'
  <2>1. log' = log \o <<e>> /\ <<e>> \in Seq(Event) /\ \A j \in DOMAIN <<e>> : <<e>>[j] = e
    BY <1>1, <1>3
  <2> QED
    BY <1>3, <2>1, AnswersQuiet
<1>4. ASSUME Moves, NEW e \in Event, Quiet(e), NEW f \in Event, Quiet(f),
             log' = Append(Append(log, e), f)
      PROVE  AnswersStand'
  <2>1. log' = log \o <<e, f>> /\ <<e, f>> \in Seq(Event)
    BY <1>1, <1>4
  <2>2. \A j \in DOMAIN <<e, f>> : Quiet(<<e, f>>[j])
    BY <1>4
  <2> QED
    BY <1>4, <2>1, <2>2, AnswersQuiet
<1> USE DEF Waiting, BeforeLease, UnderLease
<1>5. CASE BeginStep \/ BeginReservedStep \/ EndStep
  <2>1. Moves
    BY <1>5 DEF BeginStep, BeginReservedStep, EndStep
  <2>2. \/ log' = log
        \/ log' = Append(Append(log, StepStart(CurrentTurn(log), ThisStep)),
                         StepEnd(CurrentTurn(log), ThisStep))
        \/ log' = Append(log, StepStart(CurrentTurn(log), ThisStep))
        \/ log' = Append(log, StepEnd(CurrentTurn(log), StepsInTurn(log, CurrentTurn(log))))
    BY <1>5 DEF BeginStep, BeginReservedStep, EndStep, Opened
  <2>3. /\ Quiet(StepStart(CurrentTurn(log), ThisStep))
        /\ Quiet(StepEnd(CurrentTurn(log), ThisStep))
        /\ Quiet(StepEnd(CurrentTurn(log), StepsInTurn(log, CurrentTurn(log))))
    BY DEF StepStart, StepEnd
  <2> HIDE DEF Quiet, Moves
  <2> QED
    BY <1>1, <1>2, <1>3, <1>4, <2>1, <2>2, <2>3, FrameTypes
<1>6. CASE DecideTurn
  <2>1. CASE pc' = "loop" /\ log' = log
    BY <1>2, <1>6, <2>1 DEF DecideTurn
  <2>2. CASE pc' = "idle" /\ log' = log
    BY <1>2, <1>6, <2>2 DEF DecideTurn
  <2>3. ASSUME pc' = "idle", NEW r \in Reasons, log' = Append(log, TurnEnd(CurrentTurn(log), r))
        PROVE  AnswersStand'
    <3>1. /\ TurnEnd(CurrentTurn(log), r) \in Event
          /\ TurnEnd(CurrentTurn(log), r).type = "TurnEnd"
      BY <1>1, FrameTypes DEF TurnEnd
    <3> QED
      BY <1>6, <2>3, <3>1, CloseAnswers DEF DecideTurn
  <2>4. \/ pc' = "loop" /\ log' = log
        \/ pc' = "idle" /\ log' = log
        \/ pc' = "idle" /\ \E r \in Reasons : log' = Append(log, TurnEnd(CurrentTurn(log), r))
    BY <1>6, DecideTypes DEF DecideTurn, EndTurn, ReturnToHost
  <2> QED
    BY <2>1, <2>2, <2>3, <2>4
<1>7. CASE RunGoal
  <2>1. log' = log \/ log' = Append(log, GoalChange)
    BY <1>7 DEF RunGoal
  <2>2. \E i, r : batch' = Settle(batch, i, r)
    BY <1>7 DEF RunGoal
  <2>3. Moves
    <3>1. batch'.calls = batch.calls
      BY <1>1, <2>2, OneSettled
    <3> QED
      BY <1>7, <3>1 DEF RunGoal
  <2>4. GoalChange \in Event /\ Quiet(GoalChange)
    BY EventTypes DEF GoalChange
  <2> HIDE DEF Quiet, Moves
  <2> QED
    BY <1>2, <1>3, <2>1, <2>3, <2>4
<1>8. CASE GateActs
  <2>1. pc \in Waiting /\ log' = log
    BY <1>1, <1>8, GateAnswers DEF GateActs, GateCall, PolicyDecides, PersonAnswers, GateWoken
  <2>2. pc' \in Waiting /\ batch'.calls = batch.calls
    BY <1>1, <1>8, GateAnswers, GateStays, GateSettles
  <2> QED
    BY <1>2, <2>1, <2>2
<1>9. CASE StartCall \/ ToolFinishes
  <2>1. \E i, r : batch' = Settle(batch, i, r)
    BY <1>9 DEF StartCall, ToolFinishes
  <2>2. batch'.calls = batch.calls
    BY <1>1, <2>1, OneSettled
  <2> QED
    BY <1>2, <1>9, <2>2 DEF StartCall, ToolFinishes
<1>10. CASE Reserved \/ BeginChunk \/ ToolsWoken \/ ChunkFinished
  <2>1. \/ \E f : batch' = [batch EXCEPT !.results = f]
        \/ \E c : batch' = [batch EXCEPT !.chunk = c]
    BY <1>10 DEF Reserved, BeginChunk, ToolsWoken, ChunkFinished
  <2>2. batch'.calls = batch.calls
    BY <1>1, <2>1, ManySettled, ChunkSet
  <2>3. pc \in Waiting /\ pc' \in Waiting /\ log' = log
    BY <1>10 DEF Reserved, BeginChunk, ToolsWoken, ChunkFinished
  <2> QED
    BY <1>2, <2>2, <2>3
<1>11. CASE \/ LoopTop \/ StreamEvent \/ StreamFails \/ StreamEnds \/ StreamStopped
            \/ RecordRefused \/ NoReservation \/ GoalsDone \/ ChunkStarted \/ Abandon
            \/ HostActs \/ UNCHANGED vars
  <2>1. log' = log
    BY <1>11 DEF LoopTop, StreamEvent, StreamFails, StreamEnds, StreamStopped, RecordRefused,
       NoReservation, GoalsDone, ChunkStarted, Abandon, HostActs, SetModel, SetApproval,
       ApproveTool, Stop, loopState, vars
  <2>2. Moves
    BY <1>11 DEF LoopTop, StreamEvent, StreamFails, StreamEnds, StreamStopped, RecordRefused,
       NoReservation, GoalsDone, ChunkStarted, Abandon, ReturnToHost, Awaiting, HostActs,
       SetModel, SetApproval, ApproveTool, Stop, loopState, vars
  <2> QED
    BY <1>2, <2>1, <2>2
<1> QED
  BY <1>5, <1>6, <1>7, <1>8, <1>9, <1>10, <1>11, TurnAnswers, AnswerAnswers, CallsAnswers,
     ResultsAnswer
     DEF Next, Internal, Woken, Answers, Host, HostActs, GateActs

\* When a turn is closed, every call of every response in it was written down and
\* answered exactly once, in the order the model made them.
THEOREM CallsAnsweredInOrderAlways == Spec => []CallsAnsweredInOrder
<1>1. Init => AnswersInv
  <2>1. Init => AnswersStand /\ CutAsksNothing
    BY DEF Init, AnswersStand, CutAsksNothing, Positions, NoResponse, Waiting, BeforeLease,
       UnderLease
  <2> QED
    BY <2>1, InitTypes DEF AnswersInv
<1>2. AnswersInv /\ [Next]_vars => AnswersInv'
  BY TypesKept, CutSteps, AnswersKeep DEF AnswersInv
<1>3. AnswersInv => CallsAnsweredInOrder
  BY AnswersMean DEF AnswersInv
<1> QED
  BY <1>1, <1>2, <1>3, PTL DEF Spec

-----------------------------------------------------------------------------
(***************************************************************************)
(* The messages a log is replayed to.                                      *)
(***************************************************************************)
Message ==
    {Skipped} \cup [role : {"user"}] \cup [role : {"assistant"}, calls : Seq(Call)]
    \cup [role : {"tool"}, id : Nat]

Sent == {m \in Message : m # Skipped}

\* A log folded under a set of answered ids, and the messages that leaves.
Folded(l, answered)   == [i \in DOMAIN l |-> FoldEvent(l[i], answered)]
Messages(l, answered) == Only(Folded(l, answered), Sent)

IdsOf(calls) == {calls[k].id : k \in DOMAIN calls}
Bare == [role |-> "assistant", calls |-> <<>>]
Answering(calls) == [k \in DOMAIN calls |-> [role |-> "tool", id |-> calls[k].id]]

LEMMA CallsFolded ==
    ASSUME NEW e \in Event, e.type = "AssistantMessage", NEW answered
    PROVE  /\ FoldAssistant(e, answered) \in Message
           /\ IdsOf(e.calls) \cap answered = {} =>
                FoldAssistant(e, answered) = IF e.text THEN Bare ELSE Skipped
           /\ IdsOf(e.calls) \subseteq answered /\ e.calls # <<>> =>
                FoldAssistant(e, answered) = [role |-> "assistant", calls |-> e.calls]
           /\ \A others : IdsOf(e.calls) \cap answered = IdsOf(e.calls) \cap others =>
                FoldAssistant(e, answered) = FoldAssistant(e, others)
<1>1. e.calls \in Seq(Call)
  BY DEF Event, ToolCalls, ToolResults
<1> DEFINE Survivors(ids) == {e.calls[k] : k \in {k \in DOMAIN e.calls : e.calls[k].id \in ids}}
<1>2. \A ids : FoldAssistant(e, ids) =
            IF e.text \/ Only(e.calls, Survivors(ids)) # <<>>
            THEN [role |-> "assistant", calls |-> Only(e.calls, Survivors(ids))] ELSE Skipped
  BY DEF FoldAssistant
<1>3. Only(e.calls, Survivors(answered)) \in Seq(Call)
  <2>1. Takes(Only(e.calls, Survivors(answered)), e.calls, Survivors(answered), Call)
    BY <1>1, OnlyTakes
  <2> QED
    BY <2>1 DEF Takes
<1>4. FoldAssistant(e, answered) \in Message
  BY <1>2, <1>3 DEF Message
<1>5. ASSUME IdsOf(e.calls) \cap answered = {}
      PROVE  FoldAssistant(e, answered) = IF e.text THEN Bare ELSE Skipped
  <2>1. \A k \in DOMAIN e.calls : e.calls[k] \notin Survivors(answered)
    BY <1>5 DEF IdsOf
  <2>2. Only(e.calls, Survivors(answered)) = <<>>
    BY <1>1, <2>1, OnlyOthers
  <2> QED
    BY <1>2, <2>2 DEF Bare
<1>6. ASSUME IdsOf(e.calls) \subseteq answered, e.calls # <<>>
      PROVE  FoldAssistant(e, answered) = [role |-> "assistant", calls |-> e.calls]
  <2>1. \A k \in DOMAIN e.calls : e.calls[k] \in Survivors(answered)
    BY <1>6 DEF IdsOf
  <2>2. Only(e.calls, Survivors(answered)) = e.calls
    BY <1>1, <2>1, OnlyWhole
  <2> QED
    BY <1>2, <1>6, <2>2
<1>7. ASSUME NEW others, IdsOf(e.calls) \cap answered = IdsOf(e.calls) \cap others
      PROVE  FoldAssistant(e, answered) = FoldAssistant(e, others)
  <2>1. \A k \in DOMAIN e.calls : e.calls[k].id \in answered <=> e.calls[k].id \in others
    BY <1>7 DEF IdsOf
  <2>2. Survivors(answered) = Survivors(others)
    BY <2>1
  <2> QED
    BY <1>2, <2>2
<1> QED
  BY <1>4, <1>5, <1>6, <1>7

\* What each kind of event is folded to.
LEMMA EventFolded ==
    ASSUME NEW e \in Event, NEW answered
    PROVE  /\ FoldEvent(e, answered) \in Message
           /\ e.type = "UserMessage" => FoldEvent(e, answered) = [role |-> "user"]
           /\ e.type = "AssistantMessage" => FoldEvent(e, answered) = FoldAssistant(e, answered)
           /\ e.type = "ToolResult" => FoldEvent(e, answered) = [role |-> "tool", id |-> e.id]
           /\ e.type \notin {"UserMessage", "AssistantMessage", "ToolResult"} =>
                FoldEvent(e, answered) = Skipped
<1>1. e.type = "UserMessage" => FoldEvent(e, answered) = [role |-> "user"]
  BY DEF FoldEvent
<1>2. e.type = "AssistantMessage" => FoldEvent(e, answered) = FoldAssistant(e, answered)
  BY DEF FoldEvent
<1>3. e.type = "ToolResult" => FoldEvent(e, answered) = [role |-> "tool", id |-> e.id]
  BY DEF FoldEvent
<1>4. e.type \notin {"UserMessage", "AssistantMessage", "ToolResult"} =>
            FoldEvent(e, answered) = Skipped
  BY DEF FoldEvent
<1>5. e.type = "ToolResult" => e.id \in Nat
  BY DEF Event, ToolCalls, ToolResults
<1>6. FoldEvent(e, answered) \in Message
  <2>1. CASE e.type = "AssistantMessage"
    BY <1>2, <2>1, CallsFolded
  <2>2. CASE e.type \in {"UserMessage", "ToolResult"}
    BY <1>1, <1>3, <1>5, <2>2 DEF Message
  <2>3. CASE e.type \notin {"UserMessage", "AssistantMessage", "ToolResult"}
    BY <1>4, <2>3 DEF Message
  <2> QED
    BY <2>1, <2>2, <2>3
<1> QED
  BY <1>1, <1>2, <1>3, <1>4, <1>6

LEMMA SkippedApart ==
    /\ Skipped \notin Sent /\ Bare \in Sent /\ [role |-> "user"] \in Sent
    /\ \A i \in Nat : [role |-> "tool", id |-> i] \in Sent
    /\ \A calls \in Seq(Call) : [role |-> "assistant", calls |-> calls] \in Sent
BY DEF Sent, Message, Skipped, Bare

LEMMA FoldedTypes ==
    ASSUME NEW l \in Seq(Event), NEW answered
    PROVE  Folded(l, answered) \in Seq(Message) /\ Messages(l, answered) \in Seq(Sent)
<1>1. \A i \in DOMAIN l : FoldEvent(l[i], answered) \in Message
  BY EventFolded
<1>2. Folded(l, answered) \in [DOMAIN l -> Message]
  BY <1>1 DEF Folded
<1>3. Folded(l, answered) \in Seq(Message)
  BY <1>2, MappedSequence
<1>4. PICK o : o = Messages(l, answered)
  OBVIOUS
<1>5. o \in Seq(Message) /\ \A i \in DOMAIN o : o[i] \in Sent
  BY <1>3, <1>4, OnlyTakes DEF Messages, Takes
<1>6. o \in Seq(Sent)
  BY <1>5
<1> QED
  BY <1>3, <1>4, <1>6

\* They are what derive_messages makes of the log.
LEMMA DerivedAre ==
    ASSUME NEW l \in Seq(Event)
    PROVE  DeriveMessages(l) = Messages(l, Answered(l))
<1> DEFINE f == Folded(l, Answered(l))
           S == {f[i] : i \in DOMAIN l} \ {Skipped}
<1>1. f \in Seq(Message) /\ DOMAIN f = DOMAIN l
  BY FoldedTypes DEF Folded
<1>2. DeriveMessages(l) = Only(f, S)
  BY DEF DeriveMessages, Folded
<1>3. \A k \in DOMAIN f : f[k] \in S <=> f[k] \in Sent
  BY <1>1 DEF Sent
<1> HIDE DEF f, S
<1>4. Only(f, S) = Only(f, Sent)
  BY <1>1, <1>3, OnlyAgree
<1> QED
  BY <1>2, <1>4 DEF Messages, f

LEMMA TwoListsAre ==
    ASSUME NEW A, NEW f \in Seq(A), NEW g \in Seq(A)
    PROVE  /\ f \o g \in Seq(A) /\ Len(f \o g) = Len(f) + Len(g)
           /\ \A j \in 1..Len(f \o g) :
                (f \o g)[j] = IF j <= Len(f) THEN f[j] ELSE g[j - Len(f)]
OBVIOUS

\* A log in two pieces is folded piece by piece.
LEMMA FoldedPieces ==
    ASSUME NEW l \in Seq(Event), NEW more \in Seq(Event), NEW answered
    PROVE  /\ Folded(l \o more, answered) = Folded(l, answered) \o Folded(more, answered)
           /\ DOMAIN Folded(more, answered) = DOMAIN more
<1> DEFINE f == Folded(l, answered)
           g == Folded(more, answered)
           k == l \o more
           h == Folded(k, answered)
           r == f \o g
<1>1. /\ k \in Seq(Event) /\ Len(k) = Len(l) + Len(more) /\ Len(l) \in Nat /\ Len(more) \in Nat
      /\ \A j \in 1..Len(k) : k[j] = IF j <= Len(l) THEN l[j] ELSE more[j - Len(l)]
  OBVIOUS
<1>2. /\ f \in Seq(Message) /\ g \in Seq(Message) /\ h \in Seq(Message)
      /\ Len(f) = Len(l) /\ Len(g) = Len(more) /\ Len(h) = Len(k)
      /\ \A j \in 1..Len(l) : f[j] = FoldEvent(l[j], answered)
      /\ \A j \in 1..Len(more) : g[j] = FoldEvent(more[j], answered)
      /\ \A j \in 1..Len(k) : h[j] = FoldEvent(k[j], answered)
  <2>1. k \in Seq(Event)
    BY <1>1
  <2>2. ASSUME NEW s \in Seq(Event)
        PROVE  /\ Folded(s, answered) \in Seq(Message) /\ Len(Folded(s, answered)) = Len(s)
               /\ \A j \in 1..Len(s) : Folded(s, answered)[j] = FoldEvent(s[j], answered)
    <3>1. Folded(s, answered) \in Seq(Message)
      BY FoldedTypes
    <3>2. DOMAIN Folded(s, answered) = 1..Len(s)
      BY DEF Folded
    <3> QED
      BY <3>1, <3>2 DEF Folded
  <2> HIDE DEF k
  <2> QED
    BY <2>1, <2>2
<1> HIDE DEF k, f, g, h
<1>3. /\ r \in Seq(Message) /\ Len(r) = Len(f) + Len(g)
      /\ \A j \in 1..Len(r) : r[j] = IF j <= Len(f) THEN f[j] ELSE g[j - Len(f)]
  <2>1. f \in Seq(Message) /\ g \in Seq(Message)
    BY <1>2
  <2> QED
    BY ONLY <2>1, TwoListsAre, Zenon
<1> HIDE DEF r
<1>4. ASSUME NEW j \in 1..Len(h) PROVE h[j] = r[j]
  <2>1. j \in 1..Len(r) /\ j \in 1..Len(k) /\ h[j] = FoldEvent(k[j], answered)
    BY <1>1, <1>2, <1>3
  <2>2. CASE j <= Len(l)
    <3>1. j \in 1..Len(l) /\ k[j] = l[j]
      BY <1>1, <2>1, <2>2
    <3> QED
      BY <1>2, <1>3, <2>1, <2>2, <3>1
  <2>3. CASE ~(j <= Len(l))
    <3>1. j - Len(l) \in 1..Len(more) /\ k[j] = more[j - Len(l)]
      BY <1>1, <2>1, <2>3
    <3> QED
      BY <1>2, <1>3, <2>1, <2>3, <3>1
  <2> QED
    BY <1>1, <2>1, <2>2, <2>3
<1>5. h = r
  BY <1>1, <1>2, <1>3, <1>4, SeqEqual
<1> QED
  BY <1>2, <1>5 DEF r, h, k, f, g

\* Events that are not sent add no message.
LEMMA MessagesQuiet ==
    ASSUME NEW l \in Seq(Event), NEW more \in Seq(Event), NEW answered,
           \A j \in DOMAIN more : FoldEvent(more[j], answered) = Skipped
    PROVE  Messages(l \o more, answered) = Messages(l, answered)
<1>1. PICK f \in Seq(Message) : f = Folded(l, answered)
  BY FoldedTypes
<1>2. PICK g \in Seq(Message) : g = Folded(more, answered)
  BY FoldedTypes
<1>3. \A j \in DOMAIN g : g[j] \notin Sent
  BY <1>2, SkippedApart DEF Folded
<1>4. g \in Seq(Message \ Sent)
  BY <1>3
<1>5. Only(f \o g, Sent) = Only(f, Sent)
  BY <1>4, OnlyNone
<1>6. Folded(l \o more, answered) = f \o g
  BY <1>1, <1>2, FoldedPieces
<1> QED
  BY <1>1, <1>5, <1>6 DEF Messages

LEMMA SentAll ==
    ASSUME NEW f \in Seq(Message), NEW g \in Seq(Message \cap Sent)
    PROVE  Only(f \o g, Sent) = Only(f, Sent) \o g
BY OnlyAll

\* Events that are sent add one each.
LEMMA MessagesMore ==
    ASSUME NEW l \in Seq(Event), NEW more \in Seq(Event), NEW answered,
           \A j \in DOMAIN more : FoldEvent(more[j], answered) \in Sent
    PROVE  Messages(l \o more, answered) = Messages(l, answered) \o Folded(more, answered)
<1>1. PICK f \in Seq(Message) : f = Folded(l, answered)
  BY FoldedTypes
<1>2. PICK g \in Seq(Message) : g = Folded(more, answered)
  BY FoldedTypes
<1>3. \A j \in DOMAIN g : g[j] \in Sent
  BY <1>2 DEF Folded
<1>4. g \in Seq(Message \cap Sent)
  <2>1. \A j \in 1..Len(g) : g[j] \in Message \cap Sent
    BY <1>3
  <2> QED
    BY <2>1
<1>5. Only(f \o g, Sent) = Only(f, Sent) \o g
  <2>1. PICK h \in Seq(Message \cap Sent) : h = g
    BY <1>4
  <2> QED
    BY <2>1, SentAll
<1>6. Folded(l \o more, answered) = f \o g
  BY <1>1, <1>2, FoldedPieces
<1> QED
  BY <1>1, <1>2, <1>5, <1>6 DEF Messages

LEMMA MessagesOne ==
    ASSUME NEW l \in Seq(Event), NEW e \in Event, NEW answered
    PROVE  Messages(Append(l, e), answered) =
             IF FoldEvent(e, answered) = Skipped THEN Messages(l, answered)
             ELSE Append(Messages(l, answered), FoldEvent(e, answered))
<1> DEFINE more == <<e>>
<1>1. /\ more \in Seq(Event) /\ Append(l, e) = l \o more
      /\ DOMAIN more = {1} /\ more[1] = e
  OBVIOUS
<1>2. CASE FoldEvent(e, answered) = Skipped
  <2>1. \A j \in DOMAIN more : FoldEvent(more[j], answered) = Skipped
    BY <1>1, <1>2
  <2> HIDE DEF more
  <2>2. Messages(l \o more, answered) = Messages(l, answered)
    BY <1>1, <2>1, MessagesQuiet
  <2> QED
    BY <1>1, <1>2, <2>2
<1>3. CASE FoldEvent(e, answered) # Skipped
  <2>1. FoldEvent(e, answered) \in Sent
    BY <1>3, EventFolded DEF Sent
  <2>2. Messages(l \o more, answered) = Messages(l, answered) \o Folded(more, answered)
    BY ZenonT(30), <1>1, <2>1, MessagesMore
  <2>3. Folded(more, answered) = <<FoldEvent(e, answered)>>
    BY <1>1 DEF Folded
  <2>4. PICK o \in Seq(Sent) : o = Messages(l, answered)
    BY FoldedTypes
  <2>5. o \o <<FoldEvent(e, answered)>> = Append(o, FoldEvent(e, answered))
    BY <2>1
  <2> QED
    BY <1>1, <1>3, <2>2, <2>3, <2>4, <2>5
<1> QED
  BY <1>2, <1>3

\* The answered ids matter for the calls of the responses alone.
LEMMA MessagesSame ==
    ASSUME NEW l \in Seq(Event), NEW answered, NEW others,
           \A i \in Positions(l, "AssistantMessage") :
               IdsOf(l[i].calls) \cap answered = IdsOf(l[i].calls) \cap others
    PROVE  Messages(l, answered) = Messages(l, others)
<1>1. ASSUME NEW i \in DOMAIN l PROVE FoldEvent(l[i], answered) = FoldEvent(l[i], others)
  <2>1. l[i] \in Event
    OBVIOUS
  <2>2. CASE l[i].type = "AssistantMessage"
    <3>1. IdsOf(l[i].calls) \cap answered = IdsOf(l[i].calls) \cap others
      BY <2>2 DEF Positions
    <3> QED
      BY <2>1, <2>2, <3>1, CallsFolded, EventFolded
  <2>3. CASE l[i].type # "AssistantMessage"
    BY <2>1, <2>3 DEF FoldEvent
  <2> QED
    BY <2>2, <2>3
<1>2. Folded(l, answered) = Folded(l, others)
  BY <1>1 DEF Folded
<1> QED
  BY <1>2 DEF Messages

-----------------------------------------------------------------------------
(***************************************************************************)
(* Message lists a provider accepts.                                       *)
(***************************************************************************)
PairedAt(s, i) ==
    /\ s[i].role = "assistant" =>
        \A k \in DOMAIN s[i].calls :
            /\ i + k \in DOMAIN s
            /\ s[i + k] = [role |-> "tool", id |-> s[i].calls[k].id]
    /\ s[i].role = "tool" =>
        \E j \in 1..(i - 1) : s[j].role = "assistant" /\ i - j \in DOMAIN s[j].calls

LEMMA PairedIs == \A s : Paired(s) <=> \A i \in DOMAIN s : PairedAt(s, i)
BY DEF Paired, PairedAt

\* What is paired in a list is in a list that goes on.
LEMMA PairedOn ==
    ASSUME NEW s \in Seq(Sent), NEW r \in Seq(Sent), Len(s) <= Len(r),
           \A j \in 1..Len(s) : r[j] = s[j],
           NEW i \in DOMAIN s, PairedAt(s, i)
    PROVE  PairedAt(r, i)
<1>1. i \in 1..Len(s) /\ Len(s) \in Nat /\ Len(r) \in Nat /\ r[i] = s[i]
  OBVIOUS
<1>2. ASSUME s[i].role = "assistant", NEW k \in DOMAIN s[i].calls
      PROVE  i + k \in DOMAIN r /\ r[i + k] = [role |-> "tool", id |-> s[i].calls[k].id]
  <2>1. i + k \in 1..Len(s) /\ s[i + k] = [role |-> "tool", id |-> s[i].calls[k].id]
    BY <1>2 DEF PairedAt
  <2>2. i + k \in 1..Len(r) /\ r[i + k] = s[i + k]
    BY <1>1, <2>1
  <2> QED
    BY <2>1, <2>2
<1>3. ASSUME s[i].role = "tool"
      PROVE  \E j \in 1..(i - 1) : r[j].role = "assistant" /\ i - j \in DOMAIN r[j].calls
  <2>1. PICK j \in 1..(i - 1) : s[j].role = "assistant" /\ i - j \in DOMAIN s[j].calls
    BY <1>3 DEF PairedAt
  <2>2. r[j] = s[j]
    BY <1>1
  <2> QED
    BY <2>1, <2>2
<1> QED
  BY <1>1, <1>2, <1>3 DEF PairedAt

\* A prompt, or a response that calls nothing, may come next.
LEMMA PairedOne ==
    ASSUME NEW s \in Seq(Sent), Paired(s), NEW m \in {[role |-> "user"], Bare}
    PROVE  Append(s, m) \in Seq(Sent) /\ Paired(Append(s, m))
<1> DEFINE r == Append(s, m)
<1>1. /\ r \in Seq(Sent) /\ Len(r) = Len(s) + 1 /\ Len(s) \in Nat /\ r[Len(s) + 1] = m
      /\ \A j \in 1..Len(s) : r[j] = s[j]
  <2>1. m \in Sent
    BY SkippedApart
  <2> QED
    BY <2>1
<1> HIDE DEF r
<1>2. ASSUME NEW i \in 1..Len(r) PROVE PairedAt(r, i)
  <2>1. CASE i \in 1..Len(s)
    <3>1. PairedAt(s, i)
      BY <2>1, PairedIs
    <3> QED
      BY <1>1, <2>1, <3>1, PairedOn
  <2>2. CASE i = Len(s) + 1
    BY <1>1, <2>2 DEF PairedAt, Bare
  <2> QED
    BY <1>1, <2>1, <2>2
<1>3. \A i \in DOMAIN r : PairedAt(r, i)
  BY <1>1, <1>2
<1>4. Paired(r)
  BY ONLY <1>3, PairedIs, Zenon
<1> QED
  BY <1>1, <1>4 DEF r

\* Nothing before such a response is owed what comes behind it.
LEMMA PairedBack ==
    ASSUME NEW s \in Seq(Sent), Paired(Append(s, Bare))
    PROVE  Paired(s)
<1> DEFINE r == Append(s, Bare)
<1>1. /\ Len(r) = Len(s) + 1 /\ Len(s) \in Nat /\ r[Len(s) + 1] = Bare
      /\ \A j \in 1..Len(s) : r[j] = s[j]
      /\ DOMAIN r = 1..Len(s) + 1
  BY SkippedApart
<1> HIDE DEF r
<1>2. ASSUME NEW i \in 1..Len(s) PROVE PairedAt(s, i)
  <2>1. PairedAt(r, i) /\ r[i] = s[i]
    <3>1. Paired(r)
      BY DEF r
    <3>2. i \in DOMAIN r
      BY <1>1
    <3>3. PairedAt(r, i)
      BY ONLY <3>1, <3>2, PairedIs, Zenon
    <3> QED
      BY <1>1, <3>3
  <2>2. ASSUME s[i].role = "assistant", NEW k \in DOMAIN s[i].calls
        PROVE  i + k \in DOMAIN s /\ s[i + k] = [role |-> "tool", id |-> s[i].calls[k].id]
    <3>1. i + k \in 1..Len(s) + 1 /\ r[i + k] = [role |-> "tool", id |-> s[i].calls[k].id]
      BY <1>1, <2>1, <2>2 DEF PairedAt
    <3>2. i + k # Len(s) + 1
      BY <1>1, <3>1 DEF Bare
    <3>3. i + k \in 1..Len(s)
      BY <1>1, <3>1, <3>2
    <3> QED
      BY <1>1, <3>1, <3>3
  <2>3. ASSUME s[i].role = "tool"
        PROVE  \E j \in 1..(i - 1) : s[j].role = "assistant" /\ i - j \in DOMAIN s[j].calls
    <3>1. PICK j \in 1..(i - 1) : r[j].role = "assistant" /\ i - j \in DOMAIN r[j].calls
      BY <2>1, <2>3 DEF PairedAt
    <3>2. r[j] = s[j]
      BY <1>1
    <3> QED
      BY <3>1, <3>2
  <2> QED
    BY <2>2, <2>3 DEF PairedAt
<1> QED
  BY <1>2, PairedIs

\* A response may come next with the results of its calls.
LEMMA PairedBatch ==
    ASSUME NEW s \in Seq(Sent), Paired(s), NEW calls \in Seq(Call)
    PROVE  Paired(Append(s, [role |-> "assistant", calls |-> calls]) \o Answering(calls))
<1> DEFINE m == [role |-> "assistant", calls |-> calls]
           u == Append(s, m)
           g == Answering(calls)
           r == u \o g
<1>1. m \in Sent /\ m.role = "assistant" /\ m.calls = calls
  BY SkippedApart
<1> HIDE DEF m
<1>2. u \in Seq(Sent) /\ Len(u) = Len(s) + 1 /\ Len(s) \in Nat /\ u[Len(s) + 1] = m
      /\ \A j \in 1..Len(s) : u[j] = s[j]
  BY <1>1
<1>3. /\ g \in Seq(Sent) /\ Len(g) = Len(calls) /\ Len(calls) \in Nat
      /\ \A j \in 1..Len(calls) : g[j] = [role |-> "tool", id |-> calls[j].id]
  <2>1. \A k \in DOMAIN calls : [role |-> "tool", id |-> calls[k].id] \in Sent
    <3>1. ASSUME NEW k \in DOMAIN calls PROVE calls[k].id \in Nat
      <4>1. calls[k] \in Call
        OBVIOUS
      <4> QED
        BY ONLY <4>1 DEF Call
    <3> QED
      BY <3>1, SkippedApart
  <2>2. g \in [DOMAIN calls -> Sent]
    BY <2>1 DEF Answering
  <2> QED
    BY <2>2, MappedSequence DEF Answering
<1> HIDE DEF u, g
<1>4. /\ r \in Seq(Sent) /\ Len(r) = Len(u) + Len(g)
      /\ \A j \in 1..Len(r) : r[j] = IF j <= Len(u) THEN u[j] ELSE g[j - Len(u)]
  <2>1. u \in Seq(Sent) /\ g \in Seq(Sent)
    BY <1>2, <1>3
  <2> QED
    BY ONLY <2>1, TwoListsAre, Zenon
<1> HIDE DEF r
<1>5. DOMAIN r = 1..Len(s) + 1 + Len(calls)
  BY <1>2, <1>3, <1>4
<1>6. r[Len(s) + 1] = m /\ \A j \in 1..Len(s) : r[j] = s[j]
  BY <1>2, <1>3, <1>4
<1>7. \A k \in 1..Len(calls) :
            r[Len(s) + 1 + k] = [role |-> "tool", id |-> calls[k].id]
  <2> SUFFICES ASSUME NEW k \in 1..Len(calls)
               PROVE  r[Len(s) + 1 + k] = [role |-> "tool", id |-> calls[k].id]
    OBVIOUS
  <2>1. Len(s) + 1 + k \in 1..Len(r) /\ ~(Len(s) + 1 + k <= Len(u))
        /\ Len(s) + 1 + k - Len(u) = k
    BY <1>2, <1>3, <1>4
  <2>2. r[Len(s) + 1 + k] = g[k]
    BY <1>4, <2>1
  <2> QED
    BY <1>3, <2>2
<1>8. ASSUME NEW i \in DOMAIN r PROVE PairedAt(r, i)
  <2>1. CASE i \in 1..Len(s)
    <3>1. PairedAt(s, i)
      BY <2>1, PairedIs
    <3>2. Len(s) <= Len(r)
      BY <1>2, <1>3, <1>4
    <3> QED
      BY <1>4, <1>6, <2>1, <3>1, <3>2, PairedOn
  <2>2. CASE i = Len(s) + 1
    <3>1. \A k \in DOMAIN calls :
            i + k \in DOMAIN r /\ r[i + k] = [role |-> "tool", id |-> calls[k].id]
      <4> SUFFICES ASSUME NEW k \in DOMAIN calls
                   PROVE  i + k \in DOMAIN r
                          /\ r[i + k] = [role |-> "tool", id |-> calls[k].id]
        OBVIOUS
      <4>1. k \in 1..Len(calls) /\ Len(s) \in Nat /\ Len(calls) \in Nat
        OBVIOUS
      <4>2. i + k \in 1..Len(s) + 1 + Len(calls)
        BY <2>2, <4>1
      <4> QED
        BY <1>5, <1>7, <2>2, <4>1, <4>2
    <3> QED
      BY <1>1, <1>6, <2>2, <3>1 DEF PairedAt
  <2>3. CASE i > Len(s) + 1
    <3>1. i - (Len(s) + 1) \in DOMAIN calls /\ Len(s) + 1 \in 1..(i - 1)
      BY <1>2, <1>3, <1>5, <2>3
    <3>2. r[i].role = "tool"
      <4>1. PICK k \in 1..Len(calls) : Len(s) + 1 + k = i
        <5>1. i - (Len(s) + 1) \in 1..Len(calls) /\ Len(s) + 1 + (i - (Len(s) + 1)) = i
          BY <1>2, <1>3, <1>5, <2>3
        <5> QED
          BY <5>1
      <4>2. r[Len(s) + 1 + k] = [role |-> "tool", id |-> calls[k].id]
        BY <1>7
      <4> QED
        BY <4>1, <4>2
    <3> QED
      BY <1>1, <1>6, <3>1, <3>2 DEF PairedAt
  <2> QED
    BY <1>2, <1>3, <1>5, <2>1, <2>2, <2>3
<1> QED
  BY <1>8, PairedIs DEF r, u, g, m

-----------------------------------------------------------------------------
(***************************************************************************)
(* Ids.                                                                    *)
(***************************************************************************)
\* Two pieces of a log, their positions, and what they answer.
LEMMA PositionsPieces ==
    ASSUME NEW l \in Seq(Event), NEW more \in Seq(Event), NEW kind
    PROVE  /\ Positions(l \o more, kind) =
                Positions(l, kind) \cup {Len(l) + j : j \in Positions(more, kind)}
           /\ \A i \in Positions(l, kind) : i \in 1..Len(l)
           /\ \A j \in Positions(more, kind) : j \in 1..Len(more)
<1> DEFINE k == l \o more
<1>1. /\ k \in Seq(Event) /\ Len(k) = Len(l) + Len(more) /\ Len(l) \in Nat /\ Len(more) \in Nat
      /\ \A j \in 1..Len(l) : k[j] = l[j]
      /\ \A j \in 1..Len(more) : k[Len(l) + j] = more[j]
  OBVIOUS
<1> HIDE DEF k
<1>2. ASSUME NEW i \in Positions(k, kind)
      PROVE  i \in Positions(l, kind) \cup {Len(l) + j : j \in Positions(more, kind)}
  <2>1. i \in 1..Len(l) + Len(more) /\ k[i].type = kind
    BY <1>1, <1>2 DEF Positions
  <2>2. CASE i <= Len(l)
    BY <1>1, <2>1, <2>2 DEF Positions
  <2>3. CASE ~(i <= Len(l))
    <3>1. PICK j \in 1..Len(more) : i = Len(l) + j
      <4>1. i - Len(l) \in 1..Len(more) /\ i = Len(l) + (i - Len(l))
        BY <1>1, <2>1, <2>3
      <4> QED
        BY <4>1
    <3>2. j \in Positions(more, kind)
      BY <1>1, <2>1, <3>1 DEF Positions
    <3> QED
      BY <3>1, <3>2
  <2> QED
    BY <1>1, <2>1, <2>2, <2>3
<1>3. ASSUME NEW i \in Positions(l, kind) PROVE i \in Positions(k, kind) /\ i \in 1..Len(l)
  BY <1>1 DEF Positions
<1>4. ASSUME NEW j \in Positions(more, kind)
      PROVE  Len(l) + j \in Positions(k, kind) /\ j \in 1..Len(more)
  <2>1. j \in 1..Len(more) /\ more[j].type = kind
    BY DEF Positions
  <2>2. Len(l) + j \in 1..Len(k) /\ k[Len(l) + j].type = kind
    BY <1>1, <2>1
  <2> QED
    BY <1>1, <2>1, <2>2 DEF Positions
<1> QED
  BY <1>2, <1>3, <1>4 DEF k

LEMMA AnsweredPieces ==
    ASSUME NEW l \in Seq(Event), NEW more \in Seq(Event)
    PROVE  Answered(l \o more) = Answered(l) \cup Answered(more)
<1> DEFINE k == l \o more
<1>1. /\ \A j \in 1..Len(l) : k[j] = l[j]
      /\ \A j \in 1..Len(more) : k[Len(l) + j] = more[j]
  OBVIOUS
<1>2. /\ Positions(k, "ToolResult") =
            Positions(l, "ToolResult") \cup {Len(l) + j : j \in Positions(more, "ToolResult")}
      /\ \A i \in Positions(l, "ToolResult") : i \in 1..Len(l)
      /\ \A j \in Positions(more, "ToolResult") : j \in 1..Len(more)
  BY PositionsPieces
<1> HIDE DEF k
<1>3. ASSUME NEW i \in Positions(k, "ToolResult") PROVE k[i].id \in Answered(l) \cup Answered(more)
  BY ZenonT(30), <1>1, <1>2 DEF Answered
<1>4. ASSUME NEW i \in Positions(l, "ToolResult") PROVE l[i].id \in Answered(k)
  BY <1>1, <1>2 DEF Answered
<1>5. ASSUME NEW j \in Positions(more, "ToolResult") PROVE more[j].id \in Answered(k)
  <2>1. Len(l) + j \in Positions(k, "ToolResult") /\ k[Len(l) + j] = more[j]
    BY <1>1, <1>2
  <2> QED
    BY <2>1 DEF Answered
<1> QED
  BY <1>3, <1>4, <1>5 DEF Answered, k

\* How many calls a log announces.
CallCount(l) == Cardinality(Positions(l, "ToolCall"))

LEMMA CallsCounted ==
    ASSUME NEW l \in Seq(Event), NEW more \in Seq(Event)
    PROVE  /\ CallCount(l) \in Nat /\ CallCount(l \o more) \in Nat
           /\ CallCount(l) <= CallCount(l \o more)
           /\ (\A j \in DOMAIN more : more[j].type # "ToolCall") =>
                CallCount(l \o more) = CallCount(l)
           /\ (\A j \in DOMAIN more : more[j].type = "ToolCall") =>
                CallCount(l \o more) = CallCount(l) + Len(more)
<1>1. ASSUME NEW s \in Seq(Event)
      PROVE  IsFiniteSet(Positions(s, "ToolCall")) /\ Positions(s, "ToolCall") \subseteq 1..Len(s)
  <2>1. 1 \in Int /\ Len(s) \in Int
    OBVIOUS
  <2>2. IsFiniteSet(1..Len(s))
    BY <2>1, FS_Interval
  <2>3. Positions(s, "ToolCall") \in SUBSET (1..Len(s))
    BY DEF Positions
  <2> QED
    BY ONLY <2>2, <2>3, FS_Subset
<1> DEFINE P == Positions(l, "ToolCall")
           Q == {Len(l) + j : j \in Positions(more, "ToolCall")}
           R == Positions(l \o more, "ToolCall")
<1>2. l \o more \in Seq(Event) /\ Len(l) \in Nat /\ Len(more) \in Nat
  OBVIOUS
<1>3. R = P \cup Q
  BY PositionsPieces
<1>4. IsFiniteSet(P) /\ IsFiniteSet(R)
  BY <1>1, <1>2
<1>5. CallCount(l) = Cardinality(P) /\ CallCount(l \o more) = Cardinality(R)
  BY DEF CallCount
<1>6. ASSUME \A j \in DOMAIN more : more[j].type # "ToolCall"
      PROVE  R = P
  BY <1>6, PositionsKept
<1>7. ASSUME \A j \in DOMAIN more : more[j].type = "ToolCall"
      PROVE  Cardinality(R) = Cardinality(P) + Len(more)
  <2>1. Positions(more, "ToolCall") = 1..Len(more)
    BY <1>7 DEF Positions
  <2>2. Q = Len(l) + 1 .. Len(l) + Len(more)
    <3>1. \A i \in Len(l) + 1 .. Len(l) + Len(more) :
              i - Len(l) \in 1..Len(more) /\ i = Len(l) + (i - Len(l))
      BY <1>2
    <3>2. \A j \in 1..Len(more) : Len(l) + j \in Len(l) + 1 .. Len(l) + Len(more)
      BY <1>2
    <3> QED
      BY <2>1, <3>1, <3>2
  <2>3. /\ IsFiniteSet(Len(l) + 1 .. Len(l) + Len(more))
        /\ Cardinality(Len(l) + 1 .. Len(l) + Len(more)) = Len(more)
    <3>1. Len(l) + 1 \in Int /\ Len(l) + Len(more) \in Int
      BY <1>2
    <3>2. IF Len(l) + 1 > Len(l) + Len(more)
          THEN Len(more) = 0 ELSE (Len(l) + Len(more)) - (Len(l) + 1) + 1 = Len(more)
      BY <1>2
    <3> QED
      BY <3>1, <3>2, FS_Interval
  <2>4. P \subseteq 1..Len(l)
    BY <1>1
  <2>5. P \cap Q = {}
    BY <1>2, <2>2, <2>4
  <2> HIDE DEF P, Q
  <2>6. P \cap Q = {} /\ IsFiniteSet(P) /\ IsFiniteSet(Q) /\ Cardinality(Q) = Len(more)
    BY <1>4, <2>2, <2>3, <2>5
  <2>7. Cardinality(P \cup Q) = Cardinality(P) + Cardinality(Q) - Cardinality(P \cap Q)
    BY <2>6, FS_Union
  <2>8. Cardinality({}) = 0
    BY FS_EmptySet
  <2>9. Cardinality(P) \in Nat
    BY <2>6, FS_CardinalityType
  <2> HIDE DEF R
  <2>10. Cardinality(P \cap Q) = 0
    BY <2>6, <2>8
  <2>11. Cardinality(R) = Cardinality(P \cup Q)
    BY <1>3
  <2> QED
    BY <1>2, <2>6, <2>7, <2>9, <2>10, <2>11
<1> HIDE DEF P, Q, R
<1>8. Cardinality(P) \in Nat /\ Cardinality(R) \in Nat
  BY <1>4, FS_CardinalityType
<1>9. Cardinality(P) <= Cardinality(R)
  <2>1. P \in SUBSET R
    BY <1>3
  <2> QED
    BY <1>4, <2>1, FS_Subset
<1> QED
  BY <1>5, <1>6, <1>7, <1>8, <1>9

\* No id of a call of a response, and none that is answered, is more than the
\* number of calls announced.
Counted(l) ==
    /\ \A i \in Positions(l, "AssistantMessage") :
            \A id \in IdsOf(l[i].calls) : id <= CallCount(l)
    /\ \A id \in Answered(l) : id <= CallCount(l)

LEMMA IdsAreNumbers ==
    ASSUME NEW l \in Seq(Event)
    PROVE  /\ \A i \in Positions(l, "AssistantMessage") :
                l[i].calls \in Seq(Call) /\ IdsOf(l[i].calls) \subseteq Nat
           /\ Answered(l) \subseteq Nat
<1>1. ASSUME NEW calls \in Seq(Call) PROVE IdsOf(calls) \subseteq Nat
  <2>1. ASSUME NEW k \in DOMAIN calls PROVE calls[k].id \in Nat
    <3>1. calls[k] \in Call
      OBVIOUS
    <3> QED
      BY ONLY <3>1 DEF Call
  <2> QED
    BY <2>1 DEF IdsOf
<1>2. ASSUME NEW i \in Positions(l, "AssistantMessage") PROVE l[i].calls \in Seq(Call)
  <2>1. l[i] \in Event /\ l[i].type = "AssistantMessage"
    BY DEF Positions
  <2> QED
    BY ONLY <2>1 DEF Event, ToolCalls, ToolResults
<1>3. ASSUME NEW i \in Positions(l, "ToolResult") PROVE l[i].id \in Nat
  <2>1. l[i] \in Event /\ l[i].type = "ToolResult"
    BY DEF Positions
  <2> QED
    BY ONLY <2>1 DEF Event, ToolCalls, ToolResults
<1> QED
  BY <1>1, <1>2, <1>3 DEF Answered

\* They stay counted where the log grows, if what is new is.
LEMMA CountedKept ==
    ASSUME NEW l \in Seq(Event), Counted(l), NEW more \in Seq(Event),
           \A j \in Positions(more, "AssistantMessage") :
               \A id \in IdsOf(more[j].calls) : id <= CallCount(l \o more),
           \A id \in Answered(more) : id <= CallCount(l \o more)
    PROVE  Counted(l \o more)
<1> DEFINE k == l \o more
<1>1. /\ CallCount(l) \in Nat /\ CallCount(k) \in Nat /\ CallCount(l) <= CallCount(k)
  BY CallsCounted
<1>2. /\ Positions(k, "AssistantMessage") =
            Positions(l, "AssistantMessage")
            \cup {Len(l) + j : j \in Positions(more, "AssistantMessage")}
      /\ \A i \in Positions(l, "AssistantMessage") : i \in 1..Len(l)
      /\ \A j \in Positions(more, "AssistantMessage") : j \in 1..Len(more)
  BY PositionsPieces
<1>3. /\ \A j \in 1..Len(l) : k[j] = l[j]
      /\ \A j \in 1..Len(more) : k[Len(l) + j] = more[j]
  OBVIOUS
<1>4. Answered(k) = Answered(l) \cup Answered(more)
  BY AnsweredPieces
<1> HIDE DEF k
<1>5. ASSUME NEW i \in Positions(l, "AssistantMessage"), NEW id \in IdsOf(k[i].calls)
      PROVE  id <= CallCount(k)
  <2>1. k[i] = l[i]
    BY <1>2, <1>3
  <2>2. id \in Nat /\ id <= CallCount(l)
    BY <1>5, <2>1, IdsAreNumbers DEF Counted
  <2> QED
    BY <1>1, <2>2
<1>6. ASSUME NEW j \in Positions(more, "AssistantMessage"),
             NEW id \in IdsOf(k[Len(l) + j].calls)
      PROVE  id <= CallCount(k)
  <2>1. k[Len(l) + j] = more[j]
    BY <1>2, <1>3
  <2> QED
    BY <1>6, <2>1 DEF k
<1>7. ASSUME NEW id \in Answered(l) PROVE id <= CallCount(k)
  <2>1. id \in Nat /\ id <= CallCount(l)
    BY IdsAreNumbers DEF Counted
  <2> QED
    BY <1>1, <2>1
<1>8. ASSUME NEW id \in Answered(more) PROVE id <= CallCount(k)
  BY DEF k
<1>9. ASSUME NEW i \in Positions(k, "AssistantMessage"), NEW id \in IdsOf(k[i].calls)
      PROVE  id <= CallCount(k)
  <2>1. CASE i \in Positions(l, "AssistantMessage")
    BY <1>5, <1>9, <2>1
  <2>2. ASSUME NEW j \in Positions(more, "AssistantMessage"), i = Len(l) + j
        PROVE  id <= CallCount(k)
    BY <1>6, <1>9, <2>2
  <2> QED
    BY <1>2, <2>1, <2>2
<1>10. \A id \in Answered(k) : id <= CallCount(k)
  BY <1>4, <1>7, <1>8
<1> QED
  BY <1>9, <1>10 DEF Counted, k

\* A response whose calls nothing answers yet and no other response has, with
\* nothing but announcements and changes of the goal behind it.
OwedOnly(l, q) ==
    /\ l[q].calls # <<>>
    /\ IdsOf(l[q].calls) \cap Answered(l) = {}
    /\ \A i \in Positions(l, "AssistantMessage") :
            i # q => IdsOf(l[i].calls) \cap IdsOf(l[q].calls) = {}
    /\ \A j \in DOMAIN l : j > q => l[j].type \in {"ToolCall", "GoalChange"}

\* Events that are not sent and announce nothing.
Unsent(more) ==
    \A j \in DOMAIN more :
        more[j].type \notin {"UserMessage", "AssistantMessage", "ToolCall", "ToolResult"}

LEMMA UnsentLeaves ==
    ASSUME NEW l \in Seq(Event), NEW more \in Seq(Event), Unsent(more)
    PROVE  /\ DeriveMessages(l \o more) = DeriveMessages(l)
           /\ CallCount(l \o more) = CallCount(l)
           /\ Counted(l) => Counted(l \o more)
<1>1. /\ Positions(more, "AssistantMessage") = {}
      /\ Positions(more, "ToolResult") = {} /\ Answered(more) = {}
  BY DEF Unsent, Positions, Answered
<1>2. Answered(l \o more) = Answered(l)
  <2>1. Answered(l \o more) = Answered(l) \cup Answered(more)
    BY AnsweredPieces
  <2> QED
    BY <1>1, <2>1
<1>3. ASSUME NEW j \in DOMAIN more PROVE FoldEvent(more[j], Answered(l)) = Skipped
  <2>1. more[j] \in Event
    OBVIOUS
  <2>2. more[j].type \notin {"UserMessage", "AssistantMessage", "ToolResult"}
    BY DEF Unsent
  <2> QED
    BY <2>1, <2>2, EventFolded
<1>4. Messages(l \o more, Answered(l)) = Messages(l, Answered(l))
  BY <1>3, MessagesQuiet
<1>5. l \o more \in Seq(Event)
  OBVIOUS
<1>6. DeriveMessages(l \o more) = DeriveMessages(l)
  BY <1>2, <1>4, <1>5, DerivedAre
<1>7. CallCount(l \o more) = CallCount(l)
  BY CallsCounted DEF Unsent
<1>8. Counted(l) => Counted(l \o more)
  BY <1>1, CountedKept
<1> QED
  BY <1>6, <1>7, <1>8

\* A change of the goal leaves what is owed.
LEMMA OwedKept ==
    ASSUME NEW l \in Seq(Event), NEW q \in Positions(l, "AssistantMessage"), OwedOnly(l, q)
    PROVE  OwedOnly(Append(l, GoalChange), q)
<1> DEFINE more == <<GoalChange>>
           k == l \o more
<1>1. more \in Seq(Event) /\ DOMAIN more = {1} /\ more[1].type = "GoalChange"
      /\ k = Append(l, GoalChange)
  BY EventTypes DEF GoalChange
<1>2. Positions(k, "AssistantMessage") = Positions(l, "AssistantMessage")
  BY <1>1, PositionsKept
<1>3. Answered(more) = {}
  <2>1. Positions(more, "ToolResult") = {}
    BY <1>1 DEF Positions
  <2> QED
    BY <2>1 DEF Answered
<1>4. Answered(k) = Answered(l)
  <2>1. Answered(k) = Answered(l) \cup Answered(more)
    BY <1>1, AnsweredPieces
  <2> QED
    BY <1>3, <2>1
<1>5. /\ Len(k) = Len(l) + 1 /\ Len(l) \in Nat /\ k[Len(l) + 1].type = "GoalChange"
      /\ DOMAIN k = 1..Len(k) /\ DOMAIN l = 1..Len(l)
      /\ \A j \in 1..Len(l) : k[j] = l[j]
  BY <1>1
<1> HIDE DEF k, more
<1>6. \A i \in Positions(l, "AssistantMessage") : k[i] = l[i]
  BY <1>5 DEF Positions
<1>7. ASSUME NEW j \in DOMAIN k, j > q PROVE k[j].type \in {"ToolCall", "GoalChange"}
  BY <1>5, <1>7 DEF OwedOnly
<1>8. OwedOnly(k, q)
  BY <1>2, <1>4, <1>6, <1>7 DEF OwedOnly
<1> QED
  BY <1>1, <1>8

\* A log cut at one of its events.
LEMMA CutAt ==
    ASSUME NEW l \in Seq(Event), NEW q \in DOMAIN l
    PROVE  \E back \in Seq(Event), front \in Seq(Event) :
                /\ l = Append(back, l[q]) \o front
                /\ Len(back) = q - 1 /\ \A i \in 1..q - 1 : back[i] = l[i]
                /\ \A j \in DOMAIN front : q + j \in DOMAIN l /\ front[j] = l[q + j]
<1>1. q \in 1..Len(l) /\ Len(l) \in Nat
  OBVIOUS
<1> DEFINE back == SubSeq(l, 1, q - 1)
           front == SubSeq(l, q + 1, Len(l))
           b == Append(back, l[q])
           k == b \o front
<1>2. /\ back \in Seq(Event) /\ Len(back) = q - 1 /\ \A i \in 1..q - 1 : back[i] = l[i]
  BY <1>1
<1>3. /\ front \in Seq(Event) /\ Len(front) = Len(l) - q
      /\ \A j \in 1..Len(l) - q : front[j] = l[q + j]
  BY <1>1
<1> HIDE DEF back, front
<1>4. /\ b \in Seq(Event) /\ Len(b) = q /\ \A i \in 1..q : b[i] = l[i]
  BY <1>1, <1>2
<1> HIDE DEF b
<1>5. /\ k \in Seq(Event) /\ Len(k) = Len(l)
      /\ \A i \in 1..Len(k) : k[i] = IF i <= q THEN b[i] ELSE front[i - q]
  BY SMTT(30), <1>1, <1>3, <1>4
<1> HIDE DEF k
<1>6. ASSUME NEW i \in 1..Len(k) PROVE k[i] = l[i]
  <2>1. CASE i <= q
    BY <1>1, <1>4, <1>5, <2>1
  <2>2. CASE ~(i <= q)
    <3>1. i - q \in 1..Len(l) - q /\ q + (i - q) = i
      <4>1. i \in 1..Len(l)
        BY <1>5
      <4> QED
        BY <1>1, <2>2, <4>1
    <3> QED
      BY <1>3, <1>5, <2>2, <3>1
  <2> QED
    BY <2>1, <2>2
<1>7. k = l
  BY <1>5, <1>6, SeqEqual
<1>8. \A j \in DOMAIN front : q + j \in DOMAIN l /\ front[j] = l[q + j]
  BY <1>1, <1>3
<1> QED
  BY <1>2, <1>3, <1>7, <1>8 DEF k, b

-----------------------------------------------------------------------------
(***************************************************************************)
(* What a log that grows is replayed to.                                   *)
(***************************************************************************)
\* An event that is no result and is left out, or sent as a prompt or a bare
\* response, keeps the messages paired.
LEMMA OnePaired ==
    ASSUME NEW l \in Seq(Event), NEW e \in Event, e.type # "ToolResult",
           Paired(DeriveMessages(l)),
           FoldEvent(e, Answered(l)) \in {Skipped, Bare, [role |-> "user"]}
    PROVE  /\ Append(l, e) \in Seq(Event)
           /\ Answered(Append(l, e)) = Answered(l)
           /\ Paired(DeriveMessages(Append(l, e)))
<1> DEFINE m == FoldEvent(e, Answered(l))
<1>1. <<e>> \in Seq(Event) /\ Append(l, e) = l \o <<e>> /\ Append(l, e) \in Seq(Event)
      /\ DOMAIN <<e>> = {1} /\ <<e>>[1] = e
  OBVIOUS
<1>2. Answered(Append(l, e)) = Answered(l)
  <2>1. Positions(<<e>>, "ToolResult") = {}
    BY <1>1 DEF Positions
  <2>2. Answered(<<e>>) = {}
    BY <2>1 DEF Answered
  <2>3. Answered(l \o <<e>>) = Answered(l) \cup Answered(<<e>>)
    BY <1>1, AnsweredPieces
  <2> QED
    BY <1>1, <2>2, <2>3
<1>3. PICK o \in Seq(Sent) : o = Messages(l, Answered(l))
  BY FoldedTypes
<1>4. Messages(Append(l, e), Answered(l)) = IF m = Skipped THEN o ELSE Append(o, m)
  BY <1>3, MessagesOne
<1>5. DeriveMessages(Append(l, e)) = Messages(Append(l, e), Answered(l))
  BY <1>1, <1>2, DerivedAre
<1>6. Paired(o)
  BY <1>3, DerivedAre
<1>7. m # Skipped => Paired(Append(o, m))
  BY <1>6, PairedOne
<1> HIDE DEF m
<1> QED
  BY <1>1, <1>2, <1>4, <1>5, <1>6, <1>7

\* A prompt.
LEMMA PromptPaired ==
    ASSUME NEW l \in Seq(Event), Paired(DeriveMessages(l))
    PROVE  Paired(DeriveMessages(Append(l, UserMessage)))
<1>1. UserMessage \in Event /\ UserMessage.type = "UserMessage"
  BY EventTypes DEF UserMessage
<1>2. FoldEvent(UserMessage, Answered(l)) = [role |-> "user"]
  BY <1>1, EventFolded
<1> QED
  BY <1>1, <1>2, OnePaired

\* A response none of whose calls is answered.
LEMMA ResponsePaired ==
    ASSUME NEW l \in Seq(Event), NEW r \in Event, r.type = "AssistantMessage",
           IdsOf(r.calls) \cap Answered(l) = {}, Paired(DeriveMessages(l))
    PROVE  /\ Append(l, r) \in Seq(Event)
           /\ Answered(Append(l, r)) = Answered(l)
           /\ Paired(DeriveMessages(Append(l, r)))
<1>1. FoldEvent(r, Answered(l)) = FoldAssistant(r, Answered(l))
  BY EventFolded
<1>2. FoldAssistant(r, Answered(l)) = IF r.text THEN Bare ELSE Skipped
  BY CallsFolded
<1> QED
  BY <1>1, <1>2, OnePaired

\* Announcements.
LEMMA AnnouncedPaired ==
    ASSUME NEW l \in Seq(Event), NEW more \in Seq(Event), Paired(DeriveMessages(l)),
           \A j \in DOMAIN more : more[j].type = "ToolCall"
    PROVE  Answered(l \o more) = Answered(l) /\ Paired(DeriveMessages(l \o more))
<1>1. Positions(more, "ToolResult") = {}
  BY DEF Positions
<1>2. Answered(more) = {}
  BY <1>1 DEF Answered
<1>3. Answered(l \o more) = Answered(l)
  <2>1. Answered(l \o more) = Answered(l) \cup Answered(more)
    BY AnsweredPieces
  <2> QED
    BY <1>2, <2>1
<1>4. ASSUME NEW j \in DOMAIN more PROVE FoldEvent(more[j], Answered(l)) = Skipped
  <2>1. more[j] \in Event /\ more[j].type \notin {"UserMessage", "AssistantMessage", "ToolResult"}
    OBVIOUS
  <2> QED
    BY <2>1, EventFolded
<1>5. Messages(l \o more, Answered(l)) = Messages(l, Answered(l))
  BY <1>4, MessagesQuiet
<1>6. l \o more \in Seq(Event)
  OBVIOUS
<1> QED
  BY <1>3, <1>5, <1>6, DerivedAre

\* The results of the calls that are owed: the response that asked is now sent
\* with all of its calls, and the results behind it.
LEMMA ResultsPaired ==
    ASSUME NEW l \in Seq(Event), NEW q \in Positions(l, "AssistantMessage"), OwedOnly(l, q),
           Paired(DeriveMessages(l)), NEW results \in Seq(Event),
           DOMAIN results = DOMAIN l[q].calls,
           \A k \in DOMAIN results : results[k] = ToolResult(l[q].calls[k].id)
    PROVE  /\ Answered(results) = IdsOf(l[q].calls)
           /\ Paired(DeriveMessages(l \o results))
<1> DEFINE e == l[q]
           A == Answered(l)
           B == A \cup IdsOf(e.calls)
<1>1. q \in DOMAIN l /\ e \in Event /\ e.type = "AssistantMessage" /\ e.calls \in Seq(Call)
  BY IdsAreNumbers DEF Positions
<1>2. e.calls # <<>> /\ IdsOf(e.calls) \cap A = {}
  BY DEF OwedOnly
<1>3. Answered(results) = IdsOf(e.calls)
  <2>1. ASSUME NEW k \in DOMAIN results
        PROVE  results[k].type = "ToolResult" /\ results[k].id = l[q].calls[k].id
    <3>1. results[k] = ToolResult(l[q].calls[k].id)
      OBVIOUS
    <3> QED
      BY ONLY <3>1 DEF ToolResult
  <2>2. Positions(results, "ToolResult") = DOMAIN results
    BY <2>1 DEF Positions
  <2>3. {results[k].id : k \in DOMAIN results} = {l[q].calls[k].id : k \in DOMAIN l[q].calls}
    BY <2>1
  <2> QED
    BY <2>2, <2>3 DEF Answered, IdsOf
<1>4. PICK back \in Seq(Event), front \in Seq(Event) :
            /\ l = Append(back, e) \o front
            /\ Len(back) = q - 1 /\ \A i \in 1..q - 1 : back[i] = l[i]
            /\ \A j \in DOMAIN front : q + j \in DOMAIN l /\ front[j] = l[q + j]
  BY <1>1, CutAt
<1>5. Append(back, e) \in Seq(Event) /\ l \o results \in Seq(Event) /\ q \in Nat
  BY <1>1
<1>6. ASSUME NEW j \in DOMAIN front, NEW answered
      PROVE  FoldEvent(front[j], answered) = Skipped
  <2>1. q + j \in DOMAIN l /\ q + j > q
    BY <1>4, <1>5
  <2>2. front[j] \in Event /\ front[j].type \in {"ToolCall", "GoalChange"}
    BY <1>4, <2>1 DEF OwedOnly
  <2> QED
    BY <2>2, EventFolded
<1>7. ASSUME NEW answered PROVE Messages(l, answered) = Messages(Append(back, e), answered)
  <2>1. PICK b \in Seq(Event) : b = Append(back, e)
    BY <1>5
  <2>2. \A j \in DOMAIN front : FoldEvent(front[j], answered) = Skipped
    BY <1>6
  <2>3. Messages(b \o front, answered) = Messages(b, answered)
    BY <2>2, MessagesQuiet
  <2> QED
    BY <1>4, <2>1, <2>3
<1>8. Messages(back, A) = Messages(back, B)
  <2>1. ASSUME NEW i \in Positions(back, "AssistantMessage")
        PROVE  IdsOf(back[i].calls) \cap A = IdsOf(back[i].calls) \cap B
    <3>1. i \in 1..q - 1 /\ back[i] = l[i] /\ back[i].type = "AssistantMessage"
      BY <1>4 DEF Positions
    <3>2. i \in Positions(l, "AssistantMessage") /\ i # q
      BY <1>1, <3>1 DEF Positions
    <3>3. IdsOf(back[i].calls) \cap IdsOf(e.calls) = {}
      BY <3>1, <3>2 DEF OwedOnly
    <3> QED
      BY <3>3
  <2> HIDE DEF A, B
  <2> QED
    BY <2>1, MessagesSame
<1>9. PICK o \in Seq(Sent) : o = Messages(back, A)
  BY FoldedTypes
<1> HIDE DEF e
<1>10. Paired(o)
  <2>1. FoldEvent(e, A) = IF e.text THEN Bare ELSE Skipped
    <3>1. FoldEvent(e, A) = FoldAssistant(e, A)
      BY <1>1, EventFolded
    <3> QED
      BY <1>1, <1>2, <3>1, CallsFolded
  <2>2. Messages(Append(back, e), A) =
            IF FoldEvent(e, A) = Skipped THEN o ELSE Append(o, FoldEvent(e, A))
    BY <1>1, <1>9, MessagesOne
  <2>3. Paired(Messages(Append(back, e), A))
    BY <1>7, DerivedAre
  <2>4. Bare # Skipped
    BY SkippedApart
  <2> HIDE DEF A
  <2>5. CASE e.text
    <3>1. Paired(Append(o, Bare))
      BY <2>1, <2>2, <2>3, <2>4, <2>5
    <3> QED
      BY <3>1, PairedBack
  <2>6. CASE ~e.text
    BY <2>1, <2>2, <2>3, <2>6
  <2> QED
    BY <2>5, <2>6
<1>11. Messages(l, B) = Append(o, [role |-> "assistant", calls |-> e.calls])
  <2>1. FoldEvent(e, B) = [role |-> "assistant", calls |-> e.calls]
    <3>1. FoldEvent(e, B) = FoldAssistant(e, B)
      BY <1>1, EventFolded
    <3>2. IdsOf(e.calls) \subseteq B
      OBVIOUS
    <3> QED
      BY <1>1, <1>2, <3>1, <3>2, CallsFolded
  <2>2. FoldEvent(e, B) # Skipped
    BY <1>1, <2>1, SkippedApart DEF Sent
  <2> HIDE DEF A, B
  <2>3. Messages(Append(back, e), B) = Append(o, FoldEvent(e, B))
    <3>1. Messages(back, B) = o
      BY <1>8, <1>9
    <3>2. Messages(Append(back, e), B) =
              IF FoldEvent(e, B) = Skipped THEN Messages(back, B)
              ELSE Append(Messages(back, B), FoldEvent(e, B))
      BY <1>1, MessagesOne
    <3> QED
      BY <2>2, <3>1, <3>2
  <2> QED
    BY <1>7, <2>1, <2>3
<1>12. Folded(results, B) = Answering(e.calls)
  <2>1. ASSUME NEW k \in DOMAIN results
        PROVE  FoldEvent(results[k], B) = [role |-> "tool", id |-> e.calls[k].id]
    <3>1. results[k] \in Event /\ results[k] = ToolResult(e.calls[k].id)
      BY DEF e
    <3>2. results[k].type = "ToolResult" /\ results[k].id = e.calls[k].id
      BY <3>1 DEF ToolResult
    <3> QED
      BY <3>1, <3>2, EventFolded
  <2>2. DOMAIN results = DOMAIN e.calls
    BY DEF e
  <2> HIDE DEF B
  <2> QED
    BY <2>1, <2>2 DEF Folded, Answering
<1>13. Messages(l \o results, B) = Messages(l, B) \o Answering(e.calls)
  <2>1. ASSUME NEW k \in DOMAIN results PROVE FoldEvent(results[k], B) \in Sent
    <3>1. results[k] \in Event /\ results[k] = ToolResult(e.calls[k].id)
      BY DEF e
    <3>2. results[k].type = "ToolResult"
      BY <3>1 DEF ToolResult
    <3>3. FoldEvent(results[k], B) = [role |-> "tool", id |-> results[k].id]
      BY <3>1, <3>2, EventFolded
    <3>4. results[k].id \in Nat
      BY ONLY <3>1, <3>2 DEF Event, ToolCalls, ToolResults
    <3> QED
      BY <3>3, <3>4, SkippedApart
  <2> HIDE DEF B
  <2> QED
    BY <1>12, <2>1, MessagesMore
<1>14. Answered(l \o results) = B
  BY <1>3, AnsweredPieces DEF e
<1>15. DeriveMessages(l \o results) = Messages(l, B) \o Answering(e.calls)
  BY <1>5, <1>13, <1>14, DerivedAre
<1>16. Paired(Append(o, [role |-> "assistant", calls |-> e.calls]) \o Answering(e.calls))
  BY <1>1, <1>10, PairedBatch
<1> QED
  BY <1>3, <1>11, <1>15, <1>16 DEF e

\* A response with its announcements: its calls are new, and all that is owed.
LEMMA CallsReplay ==
    ASSUME NEW l \in Seq(Event), Counted(l), Paired(DeriveMessages(l)),
           NEW r \in Event, r.type = "AssistantMessage", r.calls # <<>>,
           \A k \in DOMAIN r.calls : r.calls[k].id = CallCount(l) + k,
           NEW announced \in Seq(Event), Len(announced) = Len(r.calls),
           \A j \in DOMAIN announced : announced[j].type = "ToolCall",
           NEW n, n = Append(l, r) \o announced
    PROVE  /\ Counted(n) /\ Paired(DeriveMessages(n))
           /\ LastOf(n, "AssistantMessage") = Len(l) + 1
           /\ OwedOnly(n, Len(l) + 1)
<1> DEFINE k == Append(l, r)
           c == CallCount(l)
<1>1. /\ k \in Seq(Event) /\ Len(k) = Len(l) + 1 /\ k[Len(l) + 1] = r /\ Len(l) \in Nat
      /\ \A i \in 1..Len(l) : k[i] = l[i]
  OBVIOUS
<1>2. r.calls \in Seq(Call) /\ DOMAIN r.calls = 1..Len(r.calls) /\ Len(r.calls) \in Nat
  <2>1. r.calls \in Seq(Call)
    BY ONLY r \in Event, r.type = "AssistantMessage" DEF Event, ToolCalls, ToolResults
  <2> QED
    BY <2>1
<1>3. n = k \o announced
  OBVIOUS
<1> HIDE DEF k
<1>4. /\ n \in Seq(Event) /\ Len(n) = Len(l) + 1 + Len(r.calls)
      /\ \A i \in 1..Len(l) : n[i] = l[i]
      /\ n[Len(l) + 1] = r
      /\ \A j \in 1..Len(r.calls) : n[Len(l) + 1 + j] = announced[j]
      /\ DOMAIN n = 1..(Len(l) + 1 + Len(r.calls))
  <2>1. /\ n \in Seq(Event) /\ Len(n) = Len(k) + Len(announced)
        /\ \A i \in 1..Len(k) : n[i] = k[i]
        /\ \A j \in 1..Len(announced) : n[Len(k) + j] = announced[j]
        /\ DOMAIN n = 1..Len(n)
    <3>1. k \in Seq(Event) /\ announced \in Seq(Event)
      BY <1>1
    <3> QED
      BY ONLY <1>3, <3>1
  <2>2. \A i \in 1..Len(l) : i \in 1..Len(k)
    BY <1>1
  <2>3. Len(l) + 1 \in 1..Len(k)
    BY <1>1
  <2> QED
    BY <1>1, <2>1, <2>2, <2>3
<1>5. c \in Nat /\ CallCount(k) = c /\ CallCount(n) = c + Len(r.calls)
  <2>1. <<r>> \in Seq(Event) /\ k = l \o <<r>> /\ \A j \in DOMAIN <<r>> : <<r>>[j].type # "ToolCall"
    BY DEF k
  <2>2. CallCount(l) \in Nat /\ CallCount(l \o <<r>>) = CallCount(l)
    BY <2>1, CallsCounted
  <2>3. CallCount(k \o announced) = CallCount(k) + Len(announced)
    BY <1>1, CallsCounted
  <2> QED
    BY <1>3, <2>1, <2>2, <2>3
<1> HIDE DEF c
<1>6. \A id \in IdsOf(r.calls) : id \in Nat /\ id > c /\ id <= CallCount(n)
  <2>1. ASSUME NEW j \in DOMAIN r.calls
        PROVE  r.calls[j].id \in Nat /\ r.calls[j].id > c /\ r.calls[j].id <= CallCount(n)
    <3>1. r.calls[j].id = c + j
      BY DEF c
    <3>2. j \in 1..Len(r.calls)
      BY <1>2
    <3> QED
      BY <1>2, <1>5, <3>1, <3>2
  <2> QED
    BY <2>1 DEF IdsOf
<1>7. IdsOf(r.calls) \cap Answered(l) = {}
  <2>1. ASSUME NEW id \in Answered(l) PROVE id \notin IdsOf(r.calls)
    <3>1. id \in Nat /\ id <= c
      BY IdsAreNumbers DEF Counted, c
    <3> QED
      BY <1>5, <1>6, <3>1
  <2> QED
    BY <2>1
<1>8. Answered(k) = Answered(l) /\ Paired(DeriveMessages(k))
  BY <1>7, ResponsePaired DEF k
<1>9. Answered(n) = Answered(l) /\ Paired(DeriveMessages(n))
  BY <1>1, <1>3, <1>8, AnnouncedPaired
<1>10. Positions(n, "AssistantMessage") = Positions(l, "AssistantMessage") \cup {Len(l) + 1}
  <2>1. Positions(k, "AssistantMessage") = Positions(l, "AssistantMessage") \cup {Len(l) + 1}
    BY <1>1 DEF Positions
  <2>2. Positions(k \o announced, "AssistantMessage") = Positions(k, "AssistantMessage")
    BY <1>1, PositionsKept
  <2> QED
    BY <1>3, <2>1, <2>2
<1>11. \A i \in Positions(l, "AssistantMessage") : i \in 1..Len(l) /\ n[i] = l[i]
  BY <1>4 DEF Positions
<1>12. LastOf(n, "AssistantMessage") = Len(l) + 1
  <2>1. \A i \in Positions(n, "AssistantMessage") : i <= Len(l) + 1
    BY <1>1, <1>10, <1>11
  <2>2. PICK p \in Positions(n, "AssistantMessage") :
            p = Len(l) + 1 /\ \A i \in Positions(n, "AssistantMessage") : i <= p
    BY <1>10, <2>1
  <2> QED
    BY ONLY <2>2, <1>4, LastOfUnique
<1>13. \A i \in Positions(l, "AssistantMessage") :
            \A id \in IdsOf(l[i].calls) : id \in Nat /\ id <= c
  BY IdsAreNumbers DEF Counted, c
<1>14. \A id \in Answered(l) : id \in Nat /\ id <= c
  BY IdsAreNumbers DEF Counted, c
<1>15. Counted(n)
  <2>1. ASSUME NEW i \in Positions(n, "AssistantMessage"), NEW id \in IdsOf(n[i].calls)
        PROVE  id <= CallCount(n)
    <3>1. CASE i = Len(l) + 1
      BY <1>4, <1>6, <2>1, <3>1
    <3>2. CASE i \in Positions(l, "AssistantMessage")
      <4>1. id \in Nat /\ id <= c
        BY <1>11, <1>13, <2>1, <3>2
      <4> QED
        BY <1>2, <1>5, <4>1
    <3> QED
      BY <1>10, <2>1, <3>1, <3>2
  <2>2. ASSUME NEW id \in Answered(n) PROVE id <= CallCount(n)
    <3>1. id \in Nat /\ id <= c
      BY <1>9, <1>14, <2>2
    <3> QED
      BY <1>2, <1>5, <3>1
  <2> QED
    BY <2>1, <2>2 DEF Counted
<1>16. OwedOnly(n, Len(l) + 1)
  <2>1. ASSUME NEW i \in Positions(n, "AssistantMessage"), i # Len(l) + 1
        PROVE  IdsOf(n[i].calls) \cap IdsOf(r.calls) = {}
    <3>1. i \in Positions(l, "AssistantMessage")
      BY <1>10, <2>1
    <3>2. ASSUME NEW id \in IdsOf(n[i].calls) PROVE id \notin IdsOf(r.calls)
      <4>1. id \in Nat /\ id <= c
        BY <1>11, <1>13, <3>1, <3>2
      <4> QED
        BY <1>5, <1>6, <4>1
    <3> QED
      BY <3>2
  <2>2. ASSUME NEW j \in DOMAIN n, j > Len(l) + 1 PROVE n[j].type = "ToolCall"
    <3>1. j - (Len(l) + 1) \in 1..Len(r.calls) /\ Len(l) + 1 + (j - (Len(l) + 1)) = j
      <4>1. j \in 1..(Len(l) + 1 + Len(r.calls))
        BY <1>4
      <4> QED
        BY <1>1, <1>2, <2>2, <4>1
    <3>2. PICK i \in 1..Len(r.calls) : Len(l) + 1 + i = j
      BY <3>1
    <3>3. n[j] = announced[i] /\ i \in DOMAIN announced
      BY <1>4, <3>2
    <3> QED
      BY <3>3
  <2> QED
    BY <1>4, <1>7, <1>9, <2>1, <2>2 DEF OwedOnly
<1> QED
  BY <1>9, <1>12, <1>15, <1>16

-----------------------------------------------------------------------------
(***************************************************************************)
(* The requests.                                                           *)
(***************************************************************************)
\* The log names no id beyond the calls it announces, and is replayed to
\* messages a provider accepts.
LogReplays == Counted(log) /\ Paired(DeriveMessages(log))

\* A call drawn from the stream has the number it will be announced by.
IdsDrawn == \A k \in DOMAIN assembled.calls : assembled.calls[k].id = CallCount(log) + k

\* A batch that is out is owed, and its response is the last thing a message is
\* made of.
BatchOwed == pc \in Waiting => OwedOnly(log, LastOf(log, "AssistantMessage"))

ReplayInv == AnswersInv /\ LogReplays /\ IdsDrawn /\ BatchOwed /\ RequestsPaired

\* What a step writes.
LEMMA StepWrites ==
    ASSUME TypeOK, [Next]_vars
    PROVE  \/ StartTurn \/ RecordAnswer \/ RecordCalls \/ ReserveFails \/ AnswerCalls
           \/ \E more \in Seq(Event) : log' = log \o more /\ Unsent(more)
<1>1. log \in Seq(Event)
  BY DEF TypeOK, LogOK
<1>2. CASE log' = log
  <2>1. log = log \o <<>> /\ <<>> \in Seq(Event) /\ Unsent(<<>>)
    BY <1>1 DEF Unsent
  <2> QED
    BY <1>2, <2>1
<1>3. ASSUME NEW e \in Event, log' = Append(log, e),
             e.type \notin {"UserMessage", "AssistantMessage", "ToolCall", "ToolResult"}
      PROVE  \E more \in Seq(Event) : log' = log \o more /\ Unsent(more)
  <2>1. /\ Append(log, e) = log \o <<e>> /\ <<e>> \in Seq(Event)
        /\ \A j \in DOMAIN <<e>> : <<e>>[j] = e
    BY <1>1
  <2>2. Unsent(<<e>>)
    BY <1>3, <2>1 DEF Unsent
  <2> QED
    BY <1>3, <2>1, <2>2
<1>4. ASSUME NEW e \in Event, NEW f \in Event, log' = Append(Append(log, e), f),
             e.type \notin {"UserMessage", "AssistantMessage", "ToolCall", "ToolResult"},
             f.type \notin {"UserMessage", "AssistantMessage", "ToolCall", "ToolResult"}
      PROVE  \E more \in Seq(Event) : log' = log \o more /\ Unsent(more)
  <2>1. /\ Append(Append(log, e), f) = log \o <<e, f>> /\ <<e, f>> \in Seq(Event)
        /\ \A j \in DOMAIN <<e, f>> : <<e, f>>[j] \in {e, f}
    BY <1>1
  <2>2. Unsent(<<e, f>>)
    BY <1>4, <2>1 DEF Unsent
  <2> QED
    BY <1>4, <2>1, <2>2
<1>5. CASE Frames /\ ~StartTurn
  <2>1. /\ StepStart(CurrentTurn(log), ThisStep).type = "StepStart"
        /\ StepEnd(CurrentTurn(log), ThisStep).type = "StepEnd"
        /\ StepEnd(CurrentTurn(log), StepsInTurn(log, CurrentTurn(log))).type = "StepEnd"
        /\ \A r \in Reasons : TurnEnd(CurrentTurn(log), r).type = "TurnEnd"
    BY DEF StepStart, StepEnd, TurnEnd
  <2>2. \/ log' = log
        \/ log' = Append(Append(log, StepStart(CurrentTurn(log), ThisStep)),
                         StepEnd(CurrentTurn(log), ThisStep))
        \/ log' = Append(log, StepStart(CurrentTurn(log), ThisStep))
        \/ log' = Append(log, StepEnd(CurrentTurn(log), StepsInTurn(log, CurrentTurn(log))))
        \/ \E r \in Reasons : log' = Append(log, TurnEnd(CurrentTurn(log), r))
    BY <1>5, FrameWrites
  <2> QED
    BY <1>2, <1>3, <1>4, <2>1, <2>2, FrameTypes
<1>6. CASE Dispatches
  <2>1. log' = log \/ log' = Append(log, GoalChange)
    BY <1>6 DEF Dispatches, RunGoal, GoalsDone, BeginChunk, StartCall, ChunkStarted,
       ToolFinishes, ToolsWoken, ChunkFinished
  <2>2. GoalChange \in Event /\ GoalChange.type = "GoalChange"
    BY EventTypes DEF GoalChange
  <2> QED
    BY <1>2, <1>3, <2>1, <2>2
<1>7. CASE \/ LoopTop \/ StreamEvent \/ StreamFails \/ StreamEnds \/ StreamStopped
           \/ RecordRefused \/ NoReservation \/ Reserved \/ GateActs \/ Abandon
           \/ HostActs \/ UNCHANGED vars
  <2>1. log' = log
    BY <1>7 DEF LoopTop, StreamEvent, StreamFails, StreamEnds, StreamStopped, RecordRefused,
       NoReservation, Reserved, GateActs, GateCall, PolicyDecides, PersonAnswers, GateWoken,
       Abandon, HostActs, SetModel, SetApproval, ApproveTool, Stop, loopState, vars
  <2> QED
    BY <1>2, <2>1
<1> QED
  BY <1>5, <1>6, <1>7
     DEF Next, Internal, Woken, Answers, Host, Dispatches, HostActs, GateActs, Frames

\* A response is recorded without calls or with the calls that were drawn.
LEMMA ResponseAsks ==
    ASSUME TypeOK, CutAsksNothing
    PROVE  /\ RecordAnswer => Response.calls = <<>>
           /\ RecordCalls => Response.calls = assembled.calls
<1>1. assembled \in Assembled
  BY DEF TypeOK, LoopOK
<1>2. CASE Cancelled
  <2>1. Response = Interrupt(assembled)
    BY <1>2 DEF Response
  <2>2. Response.calls = <<>> /\ Response.interrupted = TRUE
    BY <1>1, <2>1 DEF Interrupt, Assembled
  <2> QED
    BY <2>2 DEF RecordCalls
<1>3. CASE ~Cancelled
  <2>1. Response = assembled
    BY <1>3 DEF Response
  <2> QED
    BY <2>1 DEF RecordAnswer, CutAsksNothing
<1> QED
  BY <1>2, <1>3

\* Where a batch is out, a step goes on with it or is the one that records it.
LEMMA WaitingSteps ==
    ASSUME TypeOK, [Next]_vars, pc' \in Waiting
    PROVE  RecordCalls \/ (pc \in Waiting /\ log' \in {log, Append(log, GoalChange)})
<1> USE DEF Waiting, BeforeLease, UnderLease
<1>1. CASE Dispatches
  BY <1>1 DEF Dispatches, RunGoal, GoalsDone, BeginChunk, StartCall, ChunkStarted,
     ToolFinishes, ToolsWoken, ChunkFinished
<1>2. CASE GateActs
  <2>1. pc \in Waiting
    BY <1>2, GateAnswers
  <2>2. log' = log
    BY <1>2 DEF GateActs, GateCall, PolicyDecides, PersonAnswers, GateWoken
  <2> QED
    BY <2>1, <2>2
<1>3. CASE NoReservation \/ Reserved
  BY <1>3 DEF NoReservation, Reserved
<1>4. CASE HostActs \/ UNCHANGED vars
  BY <1>4 DEF HostActs, SetModel, SetApproval, ApproveTool, Stop, loopState, vars
<1>5. CASE \/ StartTurn \/ LoopTop \/ DecideTurn \/ BeginStep \/ BeginReservedStep \/ EndStep
           \/ StreamEvent \/ StreamFails \/ StreamEnds \/ StreamStopped \/ RecordRefused
           \/ RecordAnswer \/ ReserveFails \/ AnswerCalls \/ Abandon
  BY <1>5 DEF StartTurn, LoopTop, DecideTurn, BeginStep, BeginReservedStep, EndStep, StreamEvent,
     StreamFails, StreamEnds, StreamStopped, RecordRefused, RecordAnswer, ReserveFails,
     AnswerCalls, LeaveBatch, Abandon, ReturnToHost
<1> QED
  BY <1>1, <1>2, <1>3, <1>4, <1>5
     DEF Next, Internal, Woken, Answers, Host, Dispatches, HostActs, GateActs

\* What has been drawn from the stream, from one step to the next.
LEMMA DrawnSteps ==
    ASSUME ReusedIds = {}, TypeOK, IdsDrawn, [Next]_vars,
           assembled' = assembled => CallCount(log') = CallCount(log) \/ RecordCalls
    PROVE  IdsDrawn'
<1>1. log \in Seq(Event) /\ assembled \in Assembled
  BY DEF TypeOK, LogOK, LoopOK
<1>2. assembled.calls \in Seq(Call) /\ Len(assembled.calls) \in Nat /\ CallCount(log) \in Nat
  <2>1. assembled.calls \in Seq(Call)
    BY <1>1 DEF Assembled
  <2>2. <<>> \in Seq(Event)
    OBVIOUS
  <2>3. CallCount(log) \in Nat
    BY <1>1, <2>2, CallsCounted
  <2> QED
    BY <2>1, <2>3
<1>3. CASE assembled'.calls = <<>>
  BY <1>3 DEF IdsDrawn
<1>4. ASSUME CallCount(log') = CallCount(log), assembled'.calls = assembled.calls
      PROVE  IdsDrawn'
  BY <1>4 DEF IdsDrawn
<1>5. CASE StreamEvent
  <2>1. log' = log
    BY <1>5 DEF StreamEvent
  <2>2. CASE \/ assembled' = [assembled EXCEPT !.text = TRUE]
             \/ assembled' = [assembled EXCEPT !.finish = "Length"]
    <3>1. assembled'.calls = assembled.calls
      BY <1>1, <2>2 DEF Assembled
    <3> QED
      BY <1>4, <2>1, <3>1
  <2>3. ASSUME NEW t \in Tools,
               assembled' = [assembled EXCEPT !.calls = Append(@, [id |-> FreshId, tool |-> t])]
        PROVE  IdsDrawn'
    <3> DEFINE c == [id |-> FreshId, tool |-> t]
    <3>1. FreshId = CallCount(log) + (Len(assembled.calls) + 1)
      BY <1>2 DEF FreshId, CallCount
    <3>2. assembled'.calls = Append(assembled.calls, c)
      BY <1>1, <2>3 DEF Assembled
    <3>3. c.id = FreshId
      OBVIOUS
    <3> HIDE DEF c
    <3>4. /\ DOMAIN assembled'.calls = 1..Len(assembled.calls) + 1
          /\ \A k \in 1..Len(assembled.calls) : assembled'.calls[k] = assembled.calls[k]
          /\ assembled'.calls[Len(assembled.calls) + 1] = c
      BY <1>2, <3>2
    <3>5. ASSUME NEW k \in 1..Len(assembled.calls) + 1
          PROVE  assembled'.calls[k].id = CallCount(log) + k
      <4>1. CASE k \in 1..Len(assembled.calls)
        <5>1. k \in DOMAIN assembled.calls /\ assembled'.calls[k] = assembled.calls[k]
          BY <1>2, <3>4, <4>1
        <5> QED
          BY <5>1 DEF IdsDrawn
      <4>2. CASE k = Len(assembled.calls) + 1
        BY <3>1, <3>3, <3>4, <4>2
      <4> QED
        BY <1>2, <4>1, <4>2
    <3> QED
      BY <2>1, <3>4, <3>5 DEF IdsDrawn
  <2>4. \/ assembled' = [assembled EXCEPT !.text = TRUE]
        \/ assembled' = [assembled EXCEPT !.finish = "Length"]
        \/ \E t \in Tools :
              assembled' = [assembled EXCEPT !.calls = Append(@, [id |-> FreshId, tool |-> t])]
    <3>1. CallIds = {FreshId}
      BY DEF CallIds
    <3> QED
      BY <1>5, <3>1 DEF StreamEvent
  <2> QED
    BY <2>2, <2>3, <2>4
<1>6. CASE StreamStopped
  <2>1. assembled' = Interrupt(assembled)
    BY <1>6 DEF StreamStopped
  <2>2. assembled'.calls = <<>>
    BY <1>1, <2>1 DEF Interrupt, Assembled
  <2> QED
    BY <1>3, <2>2
<1>7. CASE StreamFails \/ RecordAnswer \/ RecordCalls \/ RecordRefused \/ Abandon
  <2>1. assembled' = NoResponse
    BY <1>7 DEF StreamFails, RecordAnswer, RecordCalls, RecordRefused, Abandon
  <2>2. assembled'.calls = <<>>
    BY <2>1 DEF NoResponse
  <2> QED
    BY <1>3, <2>2
<1>8. CASE assembled' = assembled /\ ~RecordCalls
  BY <1>4, <1>8
<1>9. CASE \/ StartTurn \/ LoopTop \/ DecideTurn \/ BeginStep \/ BeginReservedStep \/ EndStep
           \/ StreamEnds \/ NoReservation \/ Reserved \/ ReserveFails \/ AnswerCalls
           \/ Dispatches \/ GateActs \/ HostActs \/ UNCHANGED vars
  <2>1. assembled' = assembled
    BY <1>9 DEF StartTurn, LoopTop, DecideTurn, BeginStep, BeginReservedStep, EndStep,
       StreamEnds, NoReservation, Reserved, ReserveFails, AnswerCalls, Dispatches, RunGoal,
       GoalsDone, BeginChunk, StartCall, ChunkStarted, ToolFinishes, ToolsWoken, ChunkFinished,
       GateActs, GateCall, PolicyDecides, PersonAnswers, GateWoken, HostActs, SetModel,
       SetApproval, ApproveTool, Stop, loopState, vars
  <2> QED
    BY <1>7, <1>8, <2>1
<1> QED
  BY <1>5, <1>6, <1>7, <1>9
     DEF Next, Internal, Woken, Answers, Host, Dispatches, HostActs, GateActs

\* What a request is built of.
LEMMA RequestBuilt ==
    ASSUME TypeOK, [Next]_vars
    PROVE  \/ request' = request \/ request'.messages = <<>>
           \/ request'.messages = DeriveMessages(log)
           \/ request'.messages = DeriveMessages(log')
<1>1. CASE BeginStep
  <2>1. request' = request \/ request' = BuildRequest(log')
    BY <1>1 DEF BeginStep
  <2> QED
    BY <2>1 DEF BuildRequest
<1>2. CASE BeginReservedStep
  <2>1. request' = request \/ request' = BuildRequest(log)
    BY <1>2 DEF BeginReservedStep
  <2> QED
    BY <2>1 DEF BuildRequest
<1>3. CASE EndStep \/ Abandon
  BY <1>3 DEF EndStep, Abandon, NoRequest
<1>4. CASE \/ StartTurn \/ LoopTop \/ DecideTurn \/ StreamEvent \/ StreamFails \/ StreamEnds
           \/ StreamStopped \/ RecordAnswer \/ RecordCalls \/ RecordRefused
           \/ NoReservation \/ Reserved \/ ReserveFails \/ AnswerCalls
           \/ Dispatches \/ GateActs \/ HostActs \/ UNCHANGED vars
  BY <1>4 DEF StartTurn, LoopTop, DecideTurn, StreamEvent, StreamFails, StreamEnds,
     StreamStopped, RecordAnswer, RecordCalls, RecordRefused, NoReservation, Reserved,
     ReserveFails, AnswerCalls, Dispatches, RunGoal, GoalsDone, BeginChunk, StartCall,
     ChunkStarted, ToolFinishes, ToolsWoken, ChunkFinished, GateActs, GateCall, PolicyDecides,
     PersonAnswers, GateWoken, HostActs, SetModel, SetApproval, ApproveTool, Stop, loopState,
     vars
<1> QED
  BY <1>1, <1>2, <1>3, <1>4
     DEF Next, Internal, Woken, Answers, Host, Dispatches, HostActs, GateActs

-----------------------------------------------------------------------------
\* Opening a turn adds its prompt.
LEMMA StartReplays ==
    ASSUME TypeOK, LogReplays, StartTurn
    PROVE  LogReplays' /\ CallCount(log') = CallCount(log)
<1>1. log \in Seq(Event)
  BY DEF TypeOK, LogOK
<1> DEFINE e == TurnStart(CurrentTurn(log) + 1)
           one == <<e>>
           two == <<UserMessage>>
<1>2. e \in Event /\ e.type = "TurnStart" /\ UserMessage \in Event
      /\ UserMessage.type = "UserMessage"
  BY FrameTypes DEF TurnStart, UserMessage
<1>3. log' = log \o <<e, UserMessage>>
  BY DEF StartTurn
<1> HIDE DEF e
<1>4. /\ one \in Seq(Event) /\ two \in Seq(Event) /\ log \o one \in Seq(Event)
      /\ log' = (log \o one) \o two /\ log' = Append(log \o one, UserMessage)
      /\ DOMAIN one = {1} /\ one[1] = e /\ DOMAIN two = {1} /\ two[1] = UserMessage
  BY <1>1, <1>2, <1>3
<1>5. PICK k \in Seq(Event) : k = log \o one
  BY <1>4
<1>6. Unsent(one)
  BY <1>2, <1>4 DEF Unsent
<1> HIDE DEF one, two
<1>7. /\ DeriveMessages(k) = DeriveMessages(log) /\ CallCount(k) = CallCount(log) /\ Counted(k)
  BY <1>1, <1>4, <1>5, <1>6, UnsentLeaves DEF LogReplays
<1>8. Paired(DeriveMessages(log'))
  BY <1>4, <1>5, <1>7, PromptPaired DEF LogReplays
<1>9. CallCount(k \o two) = CallCount(k)
  <2>1. \A j \in DOMAIN two : two[j].type # "ToolCall"
    BY <1>2, <1>4
  <2> QED
    BY <1>4, <2>1, CallsCounted
<1>10. Counted(k \o two)
  <2>1. Positions(two, "AssistantMessage") = {} /\ Positions(two, "ToolResult") = {}
    BY <1>2, <1>4 DEF Positions
  <2>2. Answered(two) = {}
    BY <2>1 DEF Answered
  <2> QED
    BY <1>4, <1>7, <2>1, <2>2, CountedKept
<1> QED
  BY <1>4, <1>5, <1>7, <1>8, <1>9, <1>10 DEF LogReplays

\* A response without calls adds at most a bare one.
LEMMA AnswerReplays ==
    ASSUME TypeOK, LogReplays, CutAsksNothing, RecordAnswer
    PROVE  LogReplays' /\ CallCount(log') = CallCount(log)
<1>1. log \in Seq(Event) /\ log' = Append(log, Recorded)
  BY DEF TypeOK, LogOK, RecordAnswer
<1>2. Recorded \in Event /\ Recorded.type = "AssistantMessage" /\ Recorded.calls = <<>>
  BY ResponseAsks, RecordedIsEvent
<1>3. IdsOf(Recorded.calls) = {}
  BY <1>2 DEF IdsOf
<1>4. Paired(DeriveMessages(log'))
  <2>1. IdsOf(Recorded.calls) \cap Answered(log) = {}
    BY <1>3
  <2> QED
    BY <1>1, <1>2, <2>1, ResponsePaired DEF LogReplays
<1> DEFINE one == <<Recorded>>
<1>5. /\ one \in Seq(Event) /\ log' = log \o one /\ DOMAIN one = {1} /\ one[1] = Recorded
  BY <1>1, <1>2
<1> HIDE DEF one
<1>6. CallCount(log') = CallCount(log)
  <2>1. \A j \in DOMAIN one : one[j].type # "ToolCall"
    BY <1>2, <1>5
  <2> QED
    BY <1>1, <1>5, <2>1, CallsCounted
<1>7. Counted(log')
  <2>1. \A j \in Positions(one, "AssistantMessage") : IdsOf(one[j].calls) = {}
    BY <1>3, <1>5 DEF Positions
  <2>2. Positions(one, "ToolResult") = {}
    BY <1>2, <1>5 DEF Positions
  <2>3. Answered(one) = {}
    BY <2>2 DEF Answered
  <2> QED
    BY <1>1, <1>5, <2>1, <2>3, CountedKept DEF LogReplays
<1> QED
  BY <1>4, <1>6, <1>7 DEF LogReplays

\* A response with calls is not sent with them before their results are there.
LEMMA CallsReplays ==
    ASSUME TypeOK, LogReplays, CutAsksNothing, IdsDrawn, RecordCalls
    PROVE  LogReplays' /\ OwedOnly(log', LastOf(log', "AssistantMessage"))
<1> DEFINE calls == Response.calls
           announced == [i \in DOMAIN calls |-> ToolCall(calls[i])]
<1>1. log \in Seq(Event) /\ log' = Append(log, Recorded) \o announced /\ calls # <<>>
  BY DEF TypeOK, LogOK, RecordCalls
<1>2. /\ Recorded \in Event /\ Recorded.type = "AssistantMessage"
      /\ Recorded.calls = calls /\ calls \in Seq(Call) /\ calls = assembled.calls
  BY ResponseAsks, RecordedIsEvent
<1>3. announced \in Seq(Event) /\ Len(announced) = Len(calls)
      /\ \A j \in DOMAIN announced : announced[j].type = "ToolCall"
  <2>1. \A i \in DOMAIN calls : ToolCall(calls[i]) \in Event
    BY <1>2, EventTypes
  <2>2. announced \in [DOMAIN calls -> Event]
    BY <2>1
  <2>3. announced \in Seq(Event) /\ Len(announced) = Len(calls)
        /\ DOMAIN announced = DOMAIN calls
    BY <1>2, <2>2, MappedSequence
  <2>4. \A i \in DOMAIN calls : announced[i] = ToolCall(calls[i])
    OBVIOUS
  <2>5. \A c : ToolCall(c).type = "ToolCall"
    BY DEF ToolCall
  <2> HIDE DEF announced
  <2> QED
    BY <2>3, <2>4, <2>5
<1> HIDE DEF announced, calls
<1>4. \A k \in DOMAIN Recorded.calls : Recorded.calls[k].id = CallCount(log) + k
  BY <1>2 DEF IdsDrawn
<1>5. PICK n : n = log'
  OBVIOUS
<1>6. PICK r \in Event : r = Recorded
  BY <1>2
<1>7. /\ Counted(n) /\ Paired(DeriveMessages(n))
      /\ LastOf(n, "AssistantMessage") = Len(log) + 1
      /\ OwedOnly(n, Len(log) + 1)
  <2>1. PICK l \in Seq(Event) : l = log
    BY <1>1
  <2>2. PICK more \in Seq(Event) : more = announced
    BY <1>3
  <2>3. /\ Counted(l) /\ Paired(DeriveMessages(l))
        /\ r.type = "AssistantMessage" /\ r.calls # <<>>
        /\ \A k \in DOMAIN r.calls : r.calls[k].id = CallCount(l) + k
        /\ Len(more) = Len(r.calls) /\ n = Append(l, r) \o more
        /\ \A j \in DOMAIN more : more[j].type = "ToolCall"
    BY <1>1, <1>2, <1>3, <1>4, <1>5, <1>6, <2>1, <2>2 DEF LogReplays
  <2>4. /\ Counted(n) /\ Paired(DeriveMessages(n))
        /\ LastOf(n, "AssistantMessage") = Len(l) + 1
        /\ OwedOnly(n, Len(l) + 1)
    BY ZenonT(30), <2>3, CallsReplay
  <2> QED
    BY <2>1, <2>4
<1> QED
  BY <1>5, <1>7 DEF LogReplays

\* The results complete what the response asked for.
LEMMA ResultsReplay ==
    ASSUME TypeOK, AnswersStand, LogReplays, BatchOwed, ReserveFails \/ AnswerCalls
    PROVE  LogReplays' /\ CallCount(log') = CallCount(log)
<1>1. log \in Seq(Event) /\ BatchOK
  BY DEF TypeOK, LogOK
<1>2. log' = log \o Results /\ pc \in Waiting
  BY DEF ReserveFails, AnswerCalls, Waiting, BeforeLease, UnderLease
<1>3. /\ Results \in Seq(Event) /\ \A i \in DOMAIN Results : Results[i].type = "ToolResult"
      /\ DOMAIN Results = DOMAIN batch.calls
      /\ \A k \in DOMAIN Results : Results[k] = ToolResult(batch.calls[k].id)
  BY <1>1, ResultsAreEvents DEF Results, Calls
<1> DEFINE q == LastOf(log, "AssistantMessage")
<1>4. q > LastOf(log, "TurnStart") /\ log[q].calls = batch.calls
  BY <1>2 DEF AnswersStand, AnnouncedAt
<1>5. q \in Positions(log, "AssistantMessage")
  BY <1>1, <1>4, LastOfIsLast
<1>6. OwedOnly(log, q)
  BY <1>2 DEF BatchOwed
<1> HIDE DEF q
<1>7. PICK results \in Seq(Event) : results = Results
  BY <1>3
<1>8. Answered(results) = IdsOf(log[q].calls) /\ Paired(DeriveMessages(log \o results))
  <2>1. /\ DOMAIN results = DOMAIN log[q].calls
        /\ \A k \in DOMAIN results : results[k] = ToolResult(log[q].calls[k].id)
    BY <1>3, <1>4, <1>7
  <2> QED
    BY <1>1, <1>5, <1>6, <2>1, ResultsPaired DEF LogReplays
<1>9. CallCount(log \o results) = CallCount(log)
  <2>1. \A j \in DOMAIN results : results[j].type # "ToolCall"
    BY <1>3, <1>7
  <2> QED
    BY <1>1, <2>1, CallsCounted
<1>10. Counted(log \o results)
  <2>1. Positions(results, "AssistantMessage") = {}
    BY <1>3, <1>7 DEF Positions
  <2>2. \A id \in Answered(results) : id <= CallCount(log \o results)
    BY <1>5, <1>8, <1>9 DEF LogReplays, Counted
  <2> QED
    BY <1>1, <2>1, <2>2, CountedKept DEF LogReplays
<1> QED
  BY <1>2, <1>7, <1>8, <1>9, <1>10 DEF LogReplays

LEMMA LogReplaysKept ==
    ASSUME ReplayInv, [Next]_vars
    PROVE  /\ LogReplays'
           /\ CallCount(log') = CallCount(log) \/ RecordCalls
           /\ RecordCalls => OwedOnly(log', LastOf(log', "AssistantMessage"))
<1>1. /\ TypeOK /\ log \in Seq(Event) /\ AnswersStand /\ CutAsksNothing /\ LogReplays
      /\ IdsDrawn /\ BatchOwed
  BY DEF ReplayInv, AnswersInv, TypeOK, LogOK
<1>2. ASSUME NEW more \in Seq(Event), log' = log \o more, Unsent(more)
      PROVE  LogReplays' /\ CallCount(log') = CallCount(log)
  <2>1. /\ DeriveMessages(log \o more) = DeriveMessages(log)
        /\ CallCount(log \o more) = CallCount(log) /\ Counted(log \o more)
    BY <1>1, <1>2, UnsentLeaves DEF LogReplays
  <2> QED
    BY <1>1, <1>2, <2>1 DEF LogReplays
<1>3. RecordCalls => LogReplays' /\ OwedOnly(log', LastOf(log', "AssistantMessage"))
  BY <1>1, CallsReplays
<1>4. StartTurn \/ RecordAnswer \/ ReserveFails \/ AnswerCalls =>
        LogReplays' /\ CallCount(log') = CallCount(log)
  BY <1>1, StartReplays, AnswerReplays, ResultsReplay
<1> QED
  BY <1>1, <1>2, <1>3, <1>4, StepWrites

\* What is owed is still owed after a step that leaves the batch out.
LEMMA BatchOwedKept ==
    ASSUME ReplayInv, [Next]_vars
    PROVE  BatchOwed'
<1> SUFFICES ASSUME pc' \in Waiting
             PROVE  OwedOnly(log', LastOf(log', "AssistantMessage"))
  BY DEF BatchOwed, Waiting
<1>1. TypeOK /\ log \in Seq(Event) /\ AnswersStand /\ BatchOwed
  BY DEF ReplayInv, AnswersInv, TypeOK, LogOK
<1>2. CASE RecordCalls
  BY <1>2, LogReplaysKept
<1>3. CASE pc \in Waiting /\ log' \in {log, Append(log, GoalChange)}
  <2> DEFINE q == LastOf(log, "AssistantMessage")
  <2>1. OwedOnly(log, q) /\ q > LastOf(log, "TurnStart")
    BY <1>1, <1>3 DEF BatchOwed, AnswersStand
  <2>2. q \in Positions(log, "AssistantMessage")
    BY <1>1, <2>1, LastOfIsLast
  <2>3. GoalChange \in Event /\ GoalChange.type # "AssistantMessage"
    BY EventTypes DEF GoalChange
  <2>4. LastOf(Append(log, GoalChange), "AssistantMessage") = q
    BY <1>1, <2>3, LastAppended
  <2> HIDE DEF q
  <2>5. OwedOnly(Append(log, GoalChange), q)
    BY <1>1, <2>1, <2>2, OwedKept
  <2> QED
    BY <1>3, <2>1, <2>4, <2>5 DEF q
<1> QED
  BY <1>1, <1>2, <1>3, WaitingSteps

\* Every request is one a provider accepts, where no id is given to two calls:
\* what fold_assistant withholds is sent with its results or not at all, also
\* after turns that were abandoned while their calls were out.
THEOREM RequestsPairedAlways ==
    ASSUME ReusedIds = {}
    PROVE  Spec => []RequestsPaired
<1>1. Init => ReplayInv
  <2> SUFFICES ASSUME Init PROVE ReplayInv
    OBVIOUS
  <2>1. log = <<>> /\ assembled.calls = <<>> /\ request.messages = <<>> /\ pc = "idle"
    BY DEF Init, NoResponse, NoRequest
  <2>2. AnswersInv
    <3>1. AnswersStand /\ CutAsksNothing
      BY DEF Init, AnswersStand, CutAsksNothing, Positions, NoResponse, Waiting, BeforeLease,
         UnderLease
    <3> QED
      BY <3>1, InitTypes DEF AnswersInv
  <2>3. \A kind : Positions(log, kind) = {}
    BY <2>1 DEF Positions
  <2>4. Counted(log)
    BY <2>3 DEF Counted, Answered
  <2>5. DeriveMessages(log) = <<>>
    <3>1. <<>> \in Seq(Event) /\ Folded(<<>>, Answered(<<>>)) = <<>>
      BY DEF Folded
    <3>2. Only(<<>>, Sent) = <<>>
      BY OnlyEmpty
    <3> QED
      BY <2>1, <3>1, <3>2, DerivedAre DEF Messages
  <2>6. Paired(<<>>)
    BY DEF Paired
  <2> QED
    BY <2>1, <2>2, <2>4, <2>5, <2>6
       DEF ReplayInv, LogReplays, IdsDrawn, BatchOwed, RequestsPaired, Waiting, BeforeLease,
           UnderLease
<1>2. ReplayInv /\ [Next]_vars => ReplayInv'
  <2> SUFFICES ASSUME ReplayInv, [Next]_vars PROVE ReplayInv'
    OBVIOUS
  <2>1. AnswersInv /\ TypeOK /\ LogReplays /\ IdsDrawn /\ RequestsPaired
    BY DEF ReplayInv, AnswersInv
  <2>2. AnswersInv'
    BY <2>1, TypesKept, CutSteps, AnswersKeep DEF AnswersInv
  <2>3. LogReplays' /\ (CallCount(log') = CallCount(log) \/ RecordCalls)
    BY LogReplaysKept
  <2>4. IdsDrawn'
    BY <2>1, <2>3, DrawnSteps
  <2>5. RequestsPaired'
    <3>1. Paired(<<>>)
      BY DEF Paired
    <3>2. Paired(DeriveMessages(log)) /\ Paired(DeriveMessages(log')) /\ Paired(request.messages)
      BY <2>1, <2>3 DEF LogReplays, RequestsPaired
    <3>3. Paired(request'.messages)
      BY <2>1, <3>1, <3>2, RequestBuilt
    <3> QED
      BY <3>3 DEF RequestsPaired
  <2> QED
    BY <2>2, <2>3, <2>4, <2>5, BatchOwedKept DEF ReplayInv
<1>3. ReplayInv => RequestsPaired
  BY DEF ReplayInv
<1> QED
  BY <1>1, <1>2, <1>3, PTL DEF Spec
=============================================================================
