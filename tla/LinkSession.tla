---------------------------- MODULE LinkSession -----------------------------
(***************************************************************************)
(* One session an agent holds, the turns that run in it and the            *)
(* connections that watch it: nanus-link/src/server.rs.                    *)
(*                                                                         *)
(* A connection has one queue of frames to its client, with room for a     *)
(* bounded number.  Progress is dropped when there is no room; a prompt,   *)
(* an ending, a question waits for it, two seconds at most, and a client   *)
(* that makes none is detached.  A client that arrives is caught up: it    *)
(* reads the store as far as the frontier and is given the backlog, the    *)
(* frames past it.  Everything between two awaits is one action, because   *)
(* the agent runs on one thread; each wait for room is a place where any   *)
(* other task may run.                                                     *)
(*                                                                         *)
(* What a client has been told is kept as history: `shown`, the frames of  *)
(* the conversation since its last attachment, and `drawn`, whether it     *)
(* believes a turn is running.  Other sessions are only elsewhere, and     *)
(* frames about the agent (its model, its approval state) not modelled.    *)
(***************************************************************************)
EXTENDS Naturals, Sequences, FiniteSets, SequencesExt, Subsequences

CONSTANTS Conn,        \* the connections
          Away,        \* what the client of a connection attached to nothing has seen
          Bodies,      \* which kinds of session: subsets of {"legacy", "managed"}
          MaxTurns,    \* prompts taken
          MaxSteps,    \* steps of a turn
          MaxSaid,     \* frames of the conversation
          MaxMoves     \* attachments, goal changes and clients gone, together

ASSUME BoundsAssumption ==
    /\ Bodies # {} /\ Bodies \subseteq {"legacy", "managed"}
    /\ {MaxTurns, MaxSteps, MaxSaid, MaxMoves} \subseteq Nat
    /\ Conn \cap (1..MaxTurns) = {}
    /\ Away \notin Seq(Nat)

VARIABLES
    body,         \* how the session is written
    said,         \* every frame of the conversation: [turn, step, kind]; the kind is
                  \* prompt, progress or decision
    backlog,      \* Held::turn, the frames the store does not have, by place in said
    records,      \* what the session in memory holds records of, by place in said
    stored,       \* what the store holds up to Held::frontier, by place in said
    withdrawn,    \* frames no record will hold
    at,           \* the bridge: [turn, step, produced]
    busy, stop, quarantined,
    question,     \* whether an approval question is open
    viewers,      \* Held::viewers: [id, conn], in order of attachment
    watching,     \* the viewer id a connection attached under, 0 for none
    nextViewer,
    pc,           \* where the task serving each connection is
    task,         \* where the task of each turn is
    cast,         \* what each task is sending, and to whom it still has to
    wait,         \* who waits for room in each queue, in order
    closed,       \* connections whose client has gone
    shown, drawn, \* what each client was told
    moves         \* what clients did of what MaxMoves bounds

session == <<body, said, backlog, records, stored, withdrawn, at, busy, stop, quarantined, question>>
queues  == <<wait, shown, drawn>>
vars == <<session, queues, viewers, watching, nextViewer, pc, task, cast, closed, moves>>

Turn  == 1..MaxTurns
Actor == Conn \cup Turn
Nobody == [what |-> "nothing", item |-> 0, left |-> <<>>, late |-> {}]

Init ==
    /\ body \in Bodies
    /\ said = <<>> /\ backlog = <<>> /\ records = {} /\ stored = {} /\ withdrawn = {}
    /\ at = [turn |-> 0, step |-> 0, produced |-> TRUE]
    /\ busy = FALSE /\ stop = FALSE /\ quarantined = FALSE /\ question = FALSE
    /\ viewers = <<>> /\ watching = [c \in Conn |-> 0] /\ nextViewer = 1
    /\ pc = [c \in Conn |-> "reading"] /\ task = [t \in Turn |-> "none"]
    /\ cast = [x \in Actor |-> Nobody]
    /\ wait = [c \in Conn |-> <<>>]
    /\ closed = [c \in Conn |-> FALSE]
    /\ shown = [c \in Conn |-> Away] /\ drawn = [c \in Conn |-> "idle"]
    /\ moves = 0

-----------------------------------------------------------------------------
(* The queue of a connection.  It holds 256 frames (FRAME_BUFFER); how many *)
(* are in it is not modelled, so room may come and go at any moment.       *)

IsWatching(id) == \E i \in DOMAIN viewers : viewers[i].id = id

\* The connection is still sent the session's frames.
Following(c) == watching[c] # 0 /\ IsWatching(watching[c])

\* There may be room to be had without waiting: none is promised to a waiter.
MayFit(c) == ~closed[c] /\ wait[c] = <<>>

\* What a client makes of a frame.
Draws(c, what) ==
    CASE what \in {"prompt", "progress"} -> "turn"
      [] what = "ending" -> "idle"
      [] OTHER -> drawn[c]

\* What a client has seen once it is shown one more thing.
Seeing(c, item) ==
    IF item = 0 THEN shown[c] ELSE IF shown[c] = Away THEN <<item>> ELSE Append(shown[c], item)

\* The viewers but the one c attached as.
Staying(c) == {v \in ToSet(viewers) : v.id # watching[c]}

\* As Leave, but an open question is left to whoever comes next: a plausible
\* bug, for the mutants.
LeaveAsked(c) ==
    /\ viewers' = Only(viewers, Staying(c))
    /\ watching' = [watching EXCEPT ![c] = 0]
    /\ shown' = [shown EXCEPT ![c] = Away] /\ drawn' = [drawn EXCEPT ![c] = "idle"]
    /\ UNCHANGED question

\* Connection c lets the session go: with the last one an open question goes
\* too.  What its client saw of it is not what it will see when it is back.
Leave(c) ==
    /\ viewers' = Only(viewers, Staying(c))
    /\ question' = (question /\ viewers' # <<>>)
    /\ watching' = [watching EXCEPT ![c] = 0]
    /\ shown' = [shown EXCEPT ![c] = Away] /\ drawn' = [drawn EXCEPT ![c] = "idle"]

-----------------------------------------------------------------------------
(* A frame on its way to the viewers the list was read with.               *)

\* Task x starts sending; `to` are the viewers it has to reach.
Sending(x, what, item, to) ==
    cast' = [cast EXCEPT ![x] = [what |-> what, item |-> item, left |-> to, late |-> {}]]

Others(c) == Only(viewers, ToSet(viewers) \ {[id |-> watching[c], conn |-> c]})

\* Every task is at one of its awaits: what follows the last viewer of a frame
\* runs on before anything else does.
AtAwaits == \A x \in Actor : cast[x].what = "nothing" \/ cast[x].left # <<>>

Receiver(x)  == Head(cast[x].left)
\* A fact about the session is only for who still watches it.
Addressed(x) == IsWatching(Receiver(x).id)

Queued(x) == cast[x].left # <<>> /\ \E i \in DOMAIN wait[Receiver(x).conn] : wait[Receiver(x).conn][i] = x
Onward(x, late) == cast' = [cast EXCEPT ![x].left = Tail(@), ![x].late = late]
Frozen == UNCHANGED <<session, viewers, watching, nextViewer, pc, task, closed, moves>>

\* As Put, but the viewer is not asked about again: a plausible bug, for the mutants.
PutUnasked(x, c) ==
    /\ shown' = [shown EXCEPT ![c] = Seeing(c, cast[x].item)]
    /\ drawn' = [drawn EXCEPT ![c] = Draws(c, cast[x].what)]

\* The frame is put in c's queue if its viewer is still there when the room is.
Put(x, c) ==
    IF Addressed(x)
    THEN /\ shown' = [shown EXCEPT ![c] = Seeing(c, cast[x].item)]
         /\ drawn' = [drawn EXCEPT ![c] = Draws(c, cast[x].what)]
    ELSE UNCHANGED <<shown, drawn>>

\* The next viewer left before its turn came, or has room, or is waited for.
Reach(x) ==
    /\ AtAwaits /\ cast[x].left # <<>> /\ ~Queued(x)
    /\ LET c == Receiver(x).conn IN
       \/ /\ ~Addressed(x)
          /\ Onward(x, cast[x].late) /\ UNCHANGED queues
       \/ /\ Addressed(x) /\ MayFit(c)
          /\ Put(x, c) /\ Onward(x, cast[x].late) /\ UNCHANGED wait
       \/ /\ Addressed(x) /\ ~closed[c]
          /\ wait' = [wait EXCEPT ![c] = Append(@, x)]
          /\ UNCHANGED <<cast, shown, drawn>>
       \/ /\ Addressed(x) /\ closed[c]
          /\ Onward(x, cast[x].late \cup {Receiver(x).id}) /\ UNCHANGED queues
    /\ Frozen

\* There is room: the viewer is asked about again with the room in hand.
Granted(x) ==
    /\ AtAwaits /\ Queued(x)
    /\ LET c == Receiver(x).conn IN
       /\ ~closed[c] /\ Head(wait[c]) = x
       /\ wait' = [wait EXCEPT ![c] = Tail(@)]
       /\ Put(x, c)
    /\ Onward(x, cast[x].late)
    /\ Frozen

\* As GaveUp, but the viewer stays: a plausible bug, for the mutants.
GaveUpKept(x) ==
    /\ AtAwaits /\ Queued(x)
    /\ wait' = [wait EXCEPT ![Receiver(x).conn] = Remove(@, x)]
    /\ Onward(x, cast[x].late)
    /\ UNCHANGED <<shown, drawn>> /\ Frozen

\* There is none within the time, or the client has gone.
GaveUp(x) ==
    /\ AtAwaits /\ Queued(x)
    /\ wait' = [wait EXCEPT ![Receiver(x).conn] = Remove(@, x)]
    /\ Onward(x, cast[x].late \cup {Receiver(x).id})
    /\ UNCHANGED <<shown, drawn>> /\ Frozen

\* Every viewer was reached or given up, and the late ones are detached: what
\* the task does next.
Reached(x) ==
    /\ cast[x].what # "nothing" /\ cast[x].left = <<>>
    /\ viewers' = Only(viewers, {v \in ToSet(viewers) : v.id \notin cast[x].late})
    /\ CASE cast[x].what = "prompt" ->      \* start_turn spawns the turn
              /\ task' = [task EXCEPT ![at.turn] = "spawned"]
              /\ pc' = [pc EXCEPT ![x] = "reading"]
              /\ cast' = [cast EXCEPT ![x] = Nobody] /\ UNCHANGED <<busy, question>>
         [] cast[x].what = "question" ->    \* decide waits, unless it reached nobody
              /\ question' = (question /\ viewers' # <<>>)
              /\ task' = [task EXCEPT ![x] = IF viewers' = <<>> THEN "stream" ELSE "waiting"]
              /\ cast' = [cast EXCEPT ![x] = Nobody] /\ UNCHANGED <<busy, pc>>
         [] cast[x].what = "ending" ->
              /\ task' = [task EXCEPT ![x] = "done"]
              /\ cast' = [cast EXCEPT ![x] = Nobody] /\ UNCHANGED <<busy, question, pc>>
         [] cast[x].what = "checkpoint" ->  \* apply_goal: released, then told
              /\ busy' = FALSE
              /\ Sending(x, "goal", 0, viewers') /\ UNCHANGED <<question, pc, task>>
         [] OTHER ->
              /\ pc' = [pc EXCEPT ![x] = "reading"]
              /\ cast' = [cast EXCEPT ![x] = Nobody] /\ UNCHANGED <<busy, question, task>>
    /\ UNCHANGED <<body, said, backlog, records, stored, withdrawn, at, stop, quarantined>>
    /\ UNCHANGED <<queues, watching, nextViewer, closed, moves>>

-----------------------------------------------------------------------------
(* A frame of the conversation: kept in the backlog and offered to every   *)
(* viewer, who loses it when there is no room.                             *)

Gone(v) == closed[v.conn]
Offered == {v.conn : v \in {v \in ToSet(viewers) : MayFit(v.conn)}}

\* Broadcast::push: a frame is said, and the viewers who are found to have
\* gone are dropped.
Say(kind) ==
    /\ Len(said) < MaxSaid
    /\ said' = Append(said, [turn |-> at.turn, step |-> at'.step, kind |-> kind])
    /\ \E C \in SUBSET Offered :
          /\ shown' = [c \in Conn |-> IF c \in C THEN Seeing(c, Len(said')) ELSE shown[c]]
          /\ drawn' = [c \in Conn |-> IF c \in C THEN "turn" ELSE drawn[c]]
    /\ viewers' = Only(viewers, {v \in ToSet(viewers) : ~Gone(v)})
    /\ UNCHANGED wait

Silent == UNCHANGED <<said, queues, viewers>>

\* The frames of the step in progress.
OfStep == {n \in DOMAIN said : said[n].turn = at.turn /\ said[n].step = at.step}

\* Held::checkpointed: what is left of the backlog when a checkpoint is taken.
Before(n) == said[n].turn < at.turn \/ (said[n].turn = at.turn /\ said[n].step < at.step)
Here(n)   == said[n].turn = at.turn /\ said[n].step = at.step
RetiredWhole == Only(backlog, {n \in DOMAIN said : ~(Before(n) \/ Here(n))})
Retired == Only(backlog, {n \in DOMAIN said : ~(Before(n) \/ (Here(n) /\ at.produced))})

-----------------------------------------------------------------------------
(* The task of a turn.                                                     *)

Kept == UNCHANGED <<body, watching, nextViewer, pc, wait, closed, moves>>
Idling == UNCHANGED <<stop, quarantined>>
Goes(t, there) == task' = [task EXCEPT ![t] = there]

\* The prompt is recorded, or the loop refuses the turn before it is.
Admit(t) ==
    /\ AtAwaits /\ task[t] = "spawned"
    /\ LET prompt == {n \in OfStep : said[n].kind = "prompt"} IN
       \/ records' = records \cup prompt /\ Goes(t, "top") /\ UNCHANGED withdrawn
       \/ withdrawn' = withdrawn \cup prompt /\ Goes(t, "refused") /\ UNCHANGED records
    /\ UNCHANGED <<said, backlog, stored, at, busy, question, queues, viewers, cast>> /\ Kept /\ Idling

\* A step starts and says its number; a turn asked to stop ends instead.
StepStart(t) ==
    /\ AtAwaits /\ task[t] = "top" /\ ~stop /\ at.step < MaxSteps
    /\ at' = [at EXCEPT !.step = @ + 1, !.produced = FALSE]
    /\ Say("progress") /\ backlog' = Append(backlog, Len(said'))
    /\ Goes(t, IF body = "managed" THEN "intent" ELSE "stream")
    /\ UNCHANGED <<records, stored, withdrawn, busy, question, cast>> /\ Kept /\ Idling

Stopped(t) ==
    /\ AtAwaits /\ task[t] = "top" /\ (stop \/ at.step = MaxSteps \/ Len(said) = MaxSaid)
    /\ Goes(t, "closing")
    /\ UNCHANGED <<said, backlog, records, stored, withdrawn, at, busy, question, queues, viewers, cast>>
    /\ Kept /\ Idling

\* Before anything is sent the session so far is checkpointed with the intent.
\* An automatic fit is a decision too, but an accepted one draws nothing.
Intent(t) ==
    /\ AtAwaits /\ task[t] = "intent"
    /\ \/ /\ Silent /\ stored' = records /\ backlog' = Retired
          /\ \E fit \in BOOLEAN : at' = [at EXCEPT !.produced = fit]
          /\ Goes(t, "stream") /\ UNCHANGED <<records, withdrawn>>
       \/ /\ withdrawn' = withdrawn \cup (OfStep \ records) /\ Goes(t, "closing")
          /\ Silent /\ UNCHANGED <<records, stored, backlog, at>>
    /\ UNCHANGED <<busy, question, cast>> /\ Kept /\ Idling

\* Text, reasoning, a call started or finished, usage, a changed goal.
Produce(t) ==
    /\ AtAwaits /\ task[t] = "stream"
    /\ at' = [at EXCEPT !.produced = TRUE]
    /\ Say("progress") /\ backlog' = Append(backlog, Len(said'))
    /\ UNCHANGED <<records, stored, withdrawn, busy, question, cast, task>> /\ Kept /\ Idling

\* LinkApprover::decide.  Nobody watching is a denial, at once.
Ask(t) ==
    /\ AtAwaits /\ task[t] = "stream" /\ at.produced /\ viewers # <<>>
    /\ question' = TRUE
    /\ Sending(t, "question", 0, viewers) /\ Goes(t, "asking")
    /\ UNCHANGED <<said, backlog, records, stored, withdrawn, at, busy, queues, viewers>> /\ Kept /\ Idling

\* The question was answered, or abandoned.
Decided(t) ==
    /\ AtAwaits /\ task[t] = "waiting" /\ ~question
    /\ Goes(t, "stream")
    /\ UNCHANGED <<said, backlog, records, stored, withdrawn, at, busy, question, queues, viewers, cast>>
    /\ Kept /\ Idling

\* The step is recorded.  A managed step that staged a proposal is
\* checkpointed too, and the decision said once the store holds its record; a
\* commit that is refused leaves the turn one way out.
Settle(t) ==
    /\ AtAwaits /\ task[t] = "stream"
    /\ LET held == records \cup OfStep IN
       \/ /\ \E on \in {"top", "closing"} : Goes(t, on)
          /\ records' = held
          /\ Silent /\ UNCHANGED <<stored, backlog, at>>
       \/ /\ body = "managed" /\ at.produced
          /\ \/ /\ at' = at /\ Say("decision")
                /\ records' = held \cup {Len(said')} /\ stored' = records'
                /\ backlog' = Append(Retired, Len(said')) /\ Goes(t, "top")
             \/ records' = held /\ Goes(t, "closing") /\ Silent /\ UNCHANGED <<stored, backlog, at>>
    /\ UNCHANGED <<withdrawn, busy, question, cast>> /\ Kept /\ Idling

\* The stream fails: no record holds what it had said.
StreamFails(t) ==
    /\ AtAwaits /\ task[t] = "stream"
    /\ withdrawn' = withdrawn \cup (OfStep \ records) /\ Goes(t, "closing")
    /\ UNCHANGED <<said, backlog, records, stored, at, busy, question, queues, viewers, cast>> /\ Kept /\ Idling

\* run_turn ends: open questions are abandoned, the session is saved or is
\* not, it is free, and everyone watching is to be told.  A managed turn
\* refused at its start attempts no save.
Close(t) ==
    /\ AtAwaits /\ task[t] \in {"closing", "refused"}
    /\ question' = FALSE
    /\ \/ /\ task[t] = "closing" \/ body = "legacy"
          /\ stored' = records /\ backlog' = <<>> /\ UNCHANGED quarantined
       \/ /\ UNCHANGED <<stored, backlog>>
          /\ quarantined' \in {quarantined, body = "managed"}
    /\ busy' = FALSE
    /\ Sending(t, "ending", 0, viewers) /\ Goes(t, "ending")
    /\ UNCHANGED <<body, said, records, withdrawn, at, stop, queues, viewers, watching, nextViewer, pc, closed, moves>>

-----------------------------------------------------------------------------
(* The task that serves a connection, one request at a time.  A request    *)
(* that is refused changes nothing: one from a connection that fell        *)
(* behind, whatever it is, and a prompt to a session that is taken or      *)
(* that takes no more turns.  The wait for room of a reply to the          *)
(* connection's own client is part of the time it takes to ask again.      *)

\* It is reading, its client is there, and it has not been detached.
Heard(c) == AtAwaits /\ pc[c] = "reading" /\ ~closed[c] /\ (watching[c] # 0 => Following(c))
Turning  == UNCHANGED <<body, records, withdrawn>>
NoNews   == UNCHANGED <<said, backlog, stored, at>>

\* The places in N, in the order they were said.
InOrder(N) == Only([n \in DOMAIN said |-> n], N)

\* What a client reads on joining: the store through the frontier, then the
\* backlog; a decision the log already drew is not drawn again.
CatchUp ==
    InOrder(stored) \o
    Only(backlog, {n \in DOMAIN said : said[n].kind # "decision" \/ n \notin stored})

\* new, attach: the connection lets its session go, and opens this one or
\* goes elsewhere.
Release(c, there) ==
    /\ Heard(c) /\ (there = "elsewhere" => watching[c] # 0)
    /\ IF there = "here" THEN moves < MaxMoves /\ moves' = moves + 1 ELSE UNCHANGED moves
    /\ Leave(c)
    /\ pc' = [pc EXCEPT ![c] = IF there = "here" THEN "opening" ELSE "reading"]
    /\ NoNews /\ Turning /\ UNCHANGED <<busy, stop, quarantined, wait, nextViewer, task, cast, closed>>

\* The region of attach that does not wait: the backlog and the mark are
\* read, the viewer registered, the reply and the batch queued.  A queue
\* without room for both takes the registration back.
Attach(c) ==
    /\ AtAwaits /\ pc[c] = "opening"
    /\ \/ /\ MayFit(c)
          /\ viewers' = Append(viewers, [id |-> nextViewer, conn |-> c])
          /\ watching' = [watching EXCEPT ![c] = nextViewer]
          /\ shown' = [shown EXCEPT ![c] = CatchUp]
          /\ drawn' = [drawn EXCEPT ![c] = IF ~busy THEN "idle"
                         ELSE IF \E d \in Conn : pc[d] = "goal" THEN "reserved" ELSE "turn"]
          /\ UNCHANGED question
       \/ /\ question' = (question /\ viewers # <<>>)
          /\ UNCHANGED <<viewers, watching, shown, drawn>>
    /\ pc' = [pc EXCEPT ![c] = "reading"]
    /\ nextViewer' = nextViewer + 1
    /\ NoNews /\ Turning /\ UNCHANGED <<busy, stop, quarantined, wait, task, cast, closed, moves>>

\* start_turn: the session is taken, the prompt kept for those who come
\* later, and sent to everyone watching but the client that typed it.
Prompt(c) ==
    /\ Heard(c) /\ watching[c] # 0 /\ ~busy /\ ~quarantined
    /\ at.turn < MaxTurns /\ Len(said) < MaxSaid
    /\ busy' = TRUE /\ stop' = FALSE
    /\ at' = [turn |-> at.turn + 1, step |-> 0, produced |-> TRUE]
    /\ said' = Append(said, [turn |-> at'.turn, step |-> 0, kind |-> "prompt"])
    /\ backlog' = Append(backlog, Len(said'))
    /\ shown' = [shown EXCEPT ![c] = Seeing(c, Len(said'))]
    /\ drawn' = [drawn EXCEPT ![c] = "turn"]
    /\ Sending(c, "prompt", Len(said'), Others(c))
    /\ pc' = [pc EXCEPT ![c] = "prompting"]
    /\ Turning /\ UNCHANGED <<stored, quarantined, question, wait, viewers, watching, nextViewer, task, closed, moves>>

\* Whatever is running is asked to stop, and the call it waits about denied.
Interrupt(c) ==
    /\ Heard(c) /\ watching[c] # 0 /\ busy
    /\ stop' = TRUE /\ question' = FALSE
    /\ NoNews /\ Turning
    /\ UNCHANGED <<busy, quarantined, queues, viewers, watching, nextViewer, pc, task, cast, closed, moves>>

\* The first answer settles the question.
Answer(c) ==
    /\ Heard(c) /\ watching[c] # 0 /\ question
    /\ question' = FALSE
    /\ NoNews /\ Turning
    /\ UNCHANGED <<busy, stop, quarantined, queues, viewers, watching, nextViewer, pc, task, cast, closed, moves>>

\* As GoalReserve, but the session is found idle and not reserved: a plausible
\* bug, for the mutants.
GoalUnreserved(c) ==
    /\ Heard(c) /\ watching[c] # 0 /\ ~busy /\ moves < MaxMoves
    /\ moves' = moves + 1
    /\ pc' = [pc EXCEPT ![c] = "goal"]
    /\ NoNews /\ Turning /\ UNCHANGED <<busy, stop, quarantined, question, queues, viewers, watching, nextViewer, task, cast, closed>>

\* apply_goal: an idle session is reserved while the change is saved.
GoalReserve(c) ==
    /\ Heard(c) /\ watching[c] # 0 /\ ~busy /\ moves < MaxMoves
    /\ busy' = TRUE /\ moves' = moves + 1
    /\ pc' = [pc EXCEPT ![c] = "goal"]
    /\ NoNews /\ Turning /\ UNCHANGED <<stop, quarantined, question, queues, viewers, watching, nextViewer, task, cast, closed>>

\* The change is saved, whole: the backlog is what the store does not have.
\* A managed session's checkpoint is announced before the session is free.
GoalSaved(c) ==
    /\ AtAwaits /\ pc[c] = "goal" /\ cast[c] = Nobody
    /\ stored' = records /\ backlog' = <<>>
    /\ IF body = "managed"
       THEN Sending(c, "checkpoint", 0, viewers) /\ UNCHANGED busy
       ELSE Sending(c, "goal", 0, viewers) /\ busy' = FALSE
    /\ UNCHANGED <<body, said, records, withdrawn, at, stop, quarantined, question>>
    /\ UNCHANGED <<queues, viewers, watching, nextViewer, pc, task, closed, moves>>

GoalRefused(c) ==
    /\ AtAwaits /\ pc[c] = "goal" /\ cast[c] = Nobody
    /\ busy' = FALSE
    /\ quarantined' \in {quarantined, body = "managed"}
    /\ pc' = [pc EXCEPT ![c] = "reading"]
    /\ NoNews /\ Turning
    /\ UNCHANGED <<stop, question, queues, viewers, watching, nextViewer, task, cast, closed, moves>>

\* The client goes: nothing more is written to it.
HangUp(c) ==
    /\ AtAwaits /\ ~closed[c] /\ moves < MaxMoves /\ moves' = moves + 1
    /\ closed' = [closed EXCEPT ![c] = TRUE]
    /\ UNCHANGED <<session, queues, viewers, watching, nextViewer, pc, task, cast>>

\* Its connection finds out when it reads.
HungUp(c) ==
    /\ AtAwaits /\ pc[c] = "reading" /\ closed[c]
    /\ Leave(c)
    /\ pc' = [pc EXCEPT ![c] = "gone"]
    /\ NoNews /\ Turning /\ UNCHANGED <<busy, stop, quarantined, wait, nextViewer, task, cast, closed, moves>>

-----------------------------------------------------------------------------
Serving(c) ==
    \/ Attach(c) \/ GoalSaved(c) \/ GoalRefused(c) \/ HungUp(c)

Requested(c) ==
    \/ \E there \in {"here", "elsewhere"} : Release(c, there)
    \/ Prompt(c) \/ Interrupt(c) \/ Answer(c)
    \/ GoalReserve(c)

Turns(t) ==
    \/ Admit(t) \/ StepStart(t) \/ Stopped(t) \/ Intent(t) \/ Produce(t) \/ Ask(t)
    \/ Decided(t) \/ Settle(t) \/ StreamFails(t) \/ Close(t)

Next ==
    \/ \E x \in Actor : Reach(x) \/ Granted(x) \/ GaveUp(x) \/ Reached(x)
    \/ \E t \in Turn : Turns(t)
    \/ \E c \in Conn : Serving(c) \/ Requested(c) \/ HangUp(c)

Spec == Init /\ [][Next]_vars

-----------------------------------------------------------------------------
\* The session is used by one task at a time, and is busy exactly while one
\* uses it: a second mutable borrow aborts the agent (Reserved, run_turn).
Users ==
    {t \in Turn : task[t] \in {"spawned", "top", "intent", "stream", "asking", "waiting", "closing", "refused"}}
    \cup {c \in Conn : pc[c] = "prompting"}
    \cup {c \in Conn : pc[c] = "goal" /\ cast[c].what \in {"nothing", "checkpoint"}}
OneBorrower == Cardinality(Users) <= 1 /\ (busy <=> Users # {})

\* Once no turn runs and nothing is on its way, no client that is still sent
\* the session's frames believes a turn is running (broadcast_end).
Quiet == ~busy /\ \A x \in Actor : cast[x].what # "ending"
EndIsTold == Quiet => \A c \in Conn : Following(c) /\ ~closed[c] => drawn[c] # "turn"

\* The agent's own word for it: a session said to be busy has a turn running
\* whose end will be told (SessionInfo::busy).
BusyEnds == Quiet => \A c \in Conn : Following(c) /\ ~closed[c] => drawn[c] = "idle"

\* A turn waits for an answer only while somebody can still settle it: a
\* client that is there to answer, or a connection whose going takes the
\* question with it (Held::unview, LinkApprover).
AskedIsAttended ==
    \A t \in Turn : task[t] = "waiting" /\ question => \E c \in Conn : watching[c] # 0

\* No frame of the conversation reaches a connection that does not watch the
\* session: its queue is one queue whatever it watches (broadcast_awaited).
OwnFramesOnly ==
    [][\A c \in Conn : shown'[c] \notin {shown[c], Away} => Following(c) \/ Following(c)']_vars

\* The clients are told the conversation as Transcript promises.
T == INSTANCE Transcript WITH
        Client <- Conn,
        said <- [n \in DOMAIN said |-> IF said[n].kind = "prompt" THEN "prompt" ELSE "progress"],
        seen <- [c \in Conn |-> IF Following(c) THEN shown[c] ELSE Away]
ToldInOrder == T!Spec
=============================================================================
