# nanus: verification of the core

TLA+ specifications of the parts of nanus that run concurrently, fail half-way
or are used in an order nobody wrote a test for, the TLC configurations that
check them on small instances, and proofs that TLAPS checks for every value of
the constants.

| module | what it is |
| --- | --- |
| `SessionLog` | the events of a session and what is decided from them: turn counts, unanswered calls, the replay to a model, the turn machine |
| `AgentLoop` | one runner serving one session: a turn from the prompt to its closing record |
| `ManagedTurn` | a managed session's turns and drafts, and the checkpoints they are saved by |
| `Kernel` | the plugin context: mounting, the sweep, unloading, shutdown |
| `Store` | the session store: processes that open, claim, save, name and delete over one directory tree |
| `Archive` | the archive of captured output: quota, leases, sinks, publication, collection |
| `LinkRegistry` | agents that hold sessions open for clients, over one store |
| `LinkSession` | one held session, the turns that run in it and the connections that watch it |
| `Transcript` | what an agent promises the clients of a session; `LinkSession` implements it |
| `MCAgentLoop`, `MCKernel`, `MCManagedTurn`, `MCStore`, `MCArchive`, `MCLinkRegistry`, `MCLinkSession` | the small instances TLC checks |
| `Subsequences` | `Only`: what a filter, retain or drain loop leaves of a list |
| `SubsequencesProofs` | `OnlyTakes`, for lists of every length |
| `AgentLoopProofs` | the log's queries; `TypesHold`, `EveryBatchGivenBack`, `EverySelectionLands`, `StepsWithinBudget`; what a stop forbids and what is settled (`StopHoldsAlways`, `SettledStaysAlways`, `RecordNamesRequestedModelAlways`); the log (`FramedAlways`, `CompletedIsDoneAlways`, `CallsAnsweredInOrderAlways`) and the requests folded out of it (`RequestsPairedAlways`) |
| `KernelProofs` | `NoTraceAlways`, `ShutdownInOrderAlways`, `BorrowedResolvesAlways`, `SupplierIsOlderAlways`, `SweepSettlesAlways` |
| `StoreProofs` | `StoreTypes`, `OneHolderAlways`, `HeldStaysAlways`, `StrayHasCleanerAlways` |
| `ManagedTurnProofs` | `TypesHold`, `WrittenAheadAlways`, `EndingsWholeAlways`, `AnswerIsSavedAlways`, `DiskOnlyGrowsAlways` |
| `ArchiveProofs` | `PublishedKeptAlways`, `CaptureKeptAlways`, and, with lemmas on sums, `QuotaHoldsAlways` |
| `LinkRegistryProofs` | `ClaimHasHolderAlways`, `InUseIsKeptAlways`, `OneWriterWhileHeld`, `OneClientOneWriter` |
| `LinkSessionProofs` | `SessionHasOneBorrower`, `EveryEndIsTold`, `QuestionIsAttended`, `FramesAreOnesOwn`, `ConversationIsTold` |

`AgentLoop` EXTENDS `SessionLog`; the loop changes the log only by appending to
it and decides only through its operators. The others stand alone and meet in
what each takes of the other as one step:

- `LinkRegistry` knows which sessions an agent holds and takes a turn as one step
  (`Prompt`, `EndTurn`); `LinkSession` opens up one of them, with the turn as the
  sequence of frames it sends and the saves it makes.
- `LinkRegistry`, `LinkSession` and `ManagedTurn` take a store operation as one
  step; `Store` is that operation, one file operation at a time, and
  `ManagedTurn` the checkpoint.
- `Archive` takes a claim as one step, as `Store` shows it, and of a managed turn
  only what it publishes (`Publish` is the checkpoint of `ManagedTurn`).
- `AgentLoop` is the turn of a legacy session without a store; `ManagedTurn` is
  the turn of a managed one, whose stream and tools are one step (`Reply`).
- The kernel has done its work before a turn starts and does the rest after the
  last one.

## The system

nanus is an agent harness. A *plugin kernel* composes adapters and services; an
*agent loop* takes a prompt through a model and its tools and writes everything
to a *session log*; a *store* keeps the logs as files; an *agent process* holds
sessions open and serves clients over a *link*; the *terminal interface* and the
*command line* are its clients.

### Session log and turn machine (`nanus-domain/src/{session,agent}.rs`)

- State: the list of events of a session. Nothing else is kept: which turn is
  current, how many steps it took, what is owed are all folds of the list.
- Operations: append; the queries; `derive_messages`, which replays the log to a
  model and leaves out the calls no result answers; `TurnMachine::decide`.
- Used by the loop at each step, and by the link for listings and frontiers.
- Hard: a log may end anywhere, since a turn's future can be dropped; the next
  turn is decided from what the last one left.
- Correct if: every request is a message list a provider accepts
  (`RequestsPaired`), turns and steps are framed (`Framed`), the budget binds
  whatever was left behind (`WithinBudget`), a completed turn owes nothing
  (`CompletedIsDone`).

### Agent loop (`nanus-bundle/src/agent_loop.rs` and `agent_loop/*.rs`)

- State: one future: the point it is suspended at, the request in flight, the
  response assembled so far, the batch of calls with their results, the guards
  it owns (`Hold`, `Unreserved`, the lease); beside it the runner's cells: the
  selected model, the approval state, the approved tools.
- Operations: start a turn; the host's `set_model`, `set_approval`,
  `approve_tool`, a stop through `Progress` or `TurnControl`, dropping the future.
- Interacts with the model (a stream), the host's policy, a person, the tools,
  and two admission ports, one for records and one for batches.
- Hard: all of those act while the loop waits; a stop may come anywhere; the
  future may be dropped with guards out.
- Correct if: a closed turn answered every call once and in order
  (`CallsAnsweredInOrder`), a stop holds (`StopHolds`), what is settled is not
  run (`SettledStays`), a batch is given back exactly once
  (`BatchesGivenBack`), a selection is neither early nor lost
  (`SelectionLands`, `RecordNamesRequestedModel`), a turn ends (`TurnEnds`,
  `ControlEndsTurn`).

### Managed context (`nanus-bundle/src/agent_loop/managed.rs` and `managed/`, `checkpoint.rs`, `nanus-domain/src/context/managed/`)

- State: the session in memory; what the last commit left on disk (its
  identity); the commit in hand, and whether the turn may still write
  (`Halt`: running, unsaved, spent, frozen).
- Operations: a turn, a handoff draft, recovery of what a dead process left, and
  `commit`, through which all of them write.
- Interacts with the store (`checkpoint`, compared and extended under the
  claim), with the record-admission port, and with whoever ran the turn, who
  reads the file again when an outcome is unknown.
- Hard: a commit that landed may be reported as unknown and may not be readable;
  a turn refused a commit still has to end; a restart finds a turn open, an
  intent without an outcome, a draft's request sent.
- Correct if: what is sent is written down before (`WrittenAhead`), the file
  only grows (`DiskOnlyGrows`), a stored ending closes all it opened
  (`EndingsWhole`), an answer reported is an answer stored (`AnswerIsSaved`).

### Plugin kernel (`nanus-kernel/src/*.rs`)

- State: the records of the plugins with their state and disposer, the registry
  of services, the withdrawals parked by a sweep.
- Operations: `start`, `refresh`, `unload`, `shutdown`, and what hooks call.
- Hard: cascades. A withdrawal makes others stale, whose withdrawal makes others
  stale; all of it re-enters `refresh`, which runs once at a time.
- Correct if: what an active plugin requires resolves at every moment of it
  (`BorrowedResolves`, `SupplierIsOlder`), a sweep ends at a fixed point
  (`SweepSettles`), nothing is left behind (`NoTrace`), shutdown follows the
  activations back (`ShutdownInOrder`), every call returns (`CallsReturn`).

### Link registry (`nanus-link/src/server.rs`)

- State: for each agent the map of held sessions with their claims, viewers and
  running turn; for each connection the session it watches.
- Operations: `Attach`, `New`, `Prompt` and the end of a connection; a turn's
  end; eviction; the agent's end.
- Interacts with the store (claims, loads, saves) and, through it, with other
  agents.
- Hard: between any two awaits of a connection others run; a session may be let
  go, claimed elsewhere or saved in between.
- Correct if: no two copies of a session are written by (`OneWriter`), claims do
  not outlive holders (`ClaimHasHolder`), sessions in use stay (`InUseIsKept`),
  what a client watches is what its agent holds (`WatchedIsHeld`).

### Link session (same file, `server/context.rs`, `server/maintenance.rs`)

- State: a held session's viewers, the backlog of the running turn with the
  frontier it continues from, the open question, `busy`, `stop` and the
  quarantine; for each connection its queue of frames.
- Operations: attach and leave, prompt, interrupt, answer, goal changes; a
  turn's frames, its saves or checkpoints (which clear the backlog), its end.
- Hard: a client that attaches must see each frame once, in the log or in the
  backlog or live; a frame that must arrive waits for slow clients, and while it
  waits they leave, come back, or attach elsewhere; the last client to go must
  not leave a question open.
- Correct if: the session is used by one task at a time (`OneBorrower`), clients
  are told the conversation in order (`ToldInOrder`) and no other
  (`OwnFramesOnly`), they learn that a turn ended (`EndIsTold`), a question has
  someone to settle it (`AskedIsAttended`), and busy means busy with a turn
  (`BusyEnds`).

### Session store (`nanus-adapter-store/src/store.rs`, `store/{retire,checkpoint}.rs`)

- State: files: a log per session, a lock file, a name, a marker for a retired
  id, a trash directory; in memory the locks taken and the identities written.
- Operations: save, load, lock, release, name, checkpoint, delete, and what
  opening the store finishes.
- Hard: several processes, a crash between any two file operations, a save that
  races a deletion, a lock whose file lies in a directory that is moved away.
- Correct if: a session has one holder (`OneHolder`), a held session is moved
  only while its holder deletes it, by the holder or by a late write that undoes
  itself (`HeldStays`), a deletion once marked is finished (`DeletedGoes`) and
  what a late write makes again is cleared up (`StrayHasCleaner`), nothing
  recorded is lost (`NothingOverwritten`).

### Artifact archive (`nanus-adapter-store/src/store/{archive,sink,gc}.rs`, as used by `nanus-bundle/src/agent_loop/managed/tools.rs`, `tools/bash.rs`, `capture.rs`)

- State: files: a marker for each reservation, locked while its lease or one of
  its sinks is left; an object for each captured stream (staged, then sealed);
  the quota lock. In memory the sinks, and the receipts the broker keeps until
  the turn publishes them. Nobody keeps what is used: it is measured each time.
- Operations: reserve for a call, take and discard its lease, write, seal,
  verify and publish, collect.
- Hard: what is measured is written to meanwhile; the output's task outlives the
  turn that wanted it; a write or rename that passed its deadline lands later; a
  collection runs beside all of it, in another process; a process may die.
- Correct if: what a log publishes stays as its receipt says (`PublishedKept`),
  no file is taken from a sink (`CaptureKept`), the quotas hold (`QuotaHolds`).

### Everything else

Context projection and compaction: pure functions of
sizes. Provider adapters, tools, local adapters, secrets, configuration,
composition, protocol and transport: the environment of the modelled parts, or
input and output without shared state. The command line is one of `Store`'s
processes and one of `ManagedTurn`'s hosts; the terminal interface is
`LinkSession`'s client, in what it believes of a turn (`drawn`). `PROJECT.json` lists each
of them with its files.

## How the models correspond to the code

**AgentLoop.** A value of `pc` is a point of the future: `stream`, `policy`,
`ask`, `run` are awaits, where the host's other code runs; the rest are places
between them. One action is what the loop does from one point to the next:
`StartTurn`, `LoopTop`, `DecideTurn` are `run_controlled` and `drive_turn`;
`BeginStep`, `BeginReservedStep`, `EndStep` the framing records with or without
the record-admission port; `StreamEvent`, `StreamEnds`, `StreamFails`,
`StreamStopped` the consumption of a response; `RecordAnswer`, `RecordCalls`,
`RecordRefused` its record; `GateCall`, `PolicyDecides`, `PersonAnswers`,
`GateWoken` the gate, one call at a time; `NoReservation`, `Reserved`,
`ReserveFails` the batch's admission; `RunGoal`, `BeginChunk`, `StartCall`,
`ToolFinishes`, `ToolsWoken`, `ChunkFinished`, `AnswerCalls` its execution.
`DropHold` and `DropLease` are the two `Drop` implementations, applied wherever
the code leaves their scope and in `Abandon`. `ledger` and `wanted` are history:
they record what happened and influence nothing.

A call is an id with a tool, a response is whether it has text, its calls, its
finish reason and whether it was cut; arguments and contents are left out.

**Kernel.** Everything runs on one thread to the end, so a step is one hook, one
reverted effect or one pass over the records. `todo` is the list a pass works
through, read before it starts as in the code, so a hook that changes the
records meanwhile is seen too late exactly when it is there. A service key is a
name with its type.

**LinkRegistry.** A *copy* is one `Held`: it lives while the registry, a
connection or a turn refers to it (`Drop` is the last reference going, and the
claim's `Drop` with it). `held[a]` is the map in the order of `touched`. A
connection's `pc` is the await it stands at: `loading` (the store is asked),
`holding` (loaded, the name is read), `attaching` (held, the name is refreshed),
`watching`. The two look-ups of `open_reference` before the load are one step.
A store operation is atomic; a log is the set of turns in it.

**Store.** One action is one step between two places where another process can
act: a look at the marker, a `create_dir_all`, a temporary file, a rename, a
`flock`, a move to the trash. `op[p]` is where process `p` stands in its
operation. The lock file lies inside the session's directory, so a lock is on a
directory and not on its path: directories are numbered as they are made, and a
write whose directory was moved meanwhile fails or lands in another one, as the
kernel of the system decides it. `Crash` and `Exit` let go of a process's locks
because the system closes its files. `Does` says what each
process is for. `ClaimlessSaves` lets a process save through a handle it no
longer has a claim for, which `save` does not forbid.

**ManagedTurn.** A log is a sequence of records; a record is its kind, the
request it is about and the turn that wrote it. `commit` is five steps: the
checks (`CommitHalted`, `Admit`), the rename (`Install`, or `NotCommitted`), the
acknowledgement, an outcome reported as unknown after or before the rename
(`OutcomeUnknown`), and the reading back (`Reconcile`, `ReconcileFails`). Each
caller goes on where `OnAck` and `Failed` say. `Prepare`, `Reserve`, `Send`,
`Reply`, `EndStep`, `Settle`, `Propose`, `Stepped`, `Ending`, `Return` are a
managed turn; `Draft` and `DraftSend` a handoff draft; `Recover` what both begin
with; `Doubt` what the link reads after a turn that could not know. `job` is the
number of the turn or draft, by which the records of two writers differ.

**Archive.** A capture is one granted reservation; its lease is `filed` with the
broker, `taken` by the call or gone; its marker is `locked`, `left` by a dead
process or `absent`. Where a listing is read in one step its files are looked at
later, so a rename in between hides a file and its size is that of the moment.
`Reserve`, `TakeLock`, `List`, `Measure`, `Mark`, `Make`, `Refuse` are `reserve`;
`TakeLease` and `DropLease` the call; `Write`, `WriteFails`, `FinishFailed`,
`Discard`, `Seal`, `SealFails` a sink under the shell's archive task; `Verify` and
`Publish` are `publish_captures` and its checkpoint; `Collect`, `CheckLease`,
`Remove`, `Collected` a collection. `Release` ends a turn, wherever it waits:
what runs on a thread of its own runs on for nobody (`gone`). `Land` is an
operation its sink gave up on; `overran` remembers that one landed after its
reservation was given back, and influences nothing.

**LinkSession.** The agent runs on one thread, so what stands between two awaits
is one action, and each wait for room in a queue is a place where any other task
may run. A queue's length is left out: room may come and go (`MayFit`), and who
waits is in `wait`. `cast[x]` is what task `x` is sending and to whom it still
has to; `Reach`, `Granted`, `GaveUp` and `Reached` are `broadcast_awaited`, the
two-second wait, the detaching of who was late, and what the task does next.
`Say` is `Broadcast::push`. `Admit` to `Close` are the turn; `Release`,
`Attach`, `Prompt`, `Interrupt`, `Answer`, `GoalReserve`, `GoalSaved`,
`GoalRefused`, `HungUp` a connection's requests, `HangUp` a client that goes.
`shown` and `drawn` are history: what each client was shown since it joined, and
whether it believes a turn is running, drawn as the terminal interface draws it.

**Transcript.** A conversation is a sequence of things said; a client joins at
any time and is shown all that stands, misses at most progress, and is shown no
later thing over a prompt it missed. In the mapping a client that is detached has
left, whether it knows or not, and everything that is no prompt is progress.

## What is checked

| run | question | instance | result |
| --- | --- | --- | --- |
| `AgentLoop_batch` | are calls gated, stopped and answered as they must be, and the guards of both ports balanced on every path | 1 step, 3 calls, 2 parallel, a tool and a goal call, 2 models; policy, approval state, person, refusals, stops, dropped futures | `TypeOK CallsAnsweredInOrder BatchesGivenBack SelectionLands StopHolds SettledStays RecordNamesRequestedModel` hold |
| `AgentLoop_turns` | what does a turn leave to the next, and does it end | 2 turns of 2 steps, stops, dropped futures | `RequestsPaired Framed WithinBudget CompletedIsDone ControlEndsTurn TurnEnds` hold |
| `AgentLoop_stale_debt` | is what a turn owes its own | 2 turns | `OwedByThisTurn` is violated |
| `Kernel_sweeps` | do cascades keep what is borrowed, is anything left behind, does every call return | every wiring of 3 plugins over 2 services; failing hooks, hooks that unload others, a duplicate id | `NoTrace ShutdownInOrder BorrowedResolves SupplierIsOlder SweepSettles CallsReturn` hold |
| `Store_races` | does a claim mean what it says, is a deletion final | an agent, a command line and a process that only opens; 1 session, 2 crashes | `TypeOK OneHolder StrayHasCleaner HeldStays DeletedGoes` hold |
| `Store_stale_turn` | can a recorded turn be lost | 2 processes that read, claim, run | `NothingOverwritten` is violated |
| `Managed_turns` | what can a restart and a client rely on | an agent and a command line, 2 turns or drafts, 2 faults | `TypeOK WrittenAhead EndingsWhole AnswerIsSaved DiskOnlyGrows` hold |
| `Archive_quota` | do the archive's files survive what runs beside them, and do the quotas hold | 2 processes, each with turns of its own session, one collecting the other's; room for one reservation, 2 captures, 1 crash | `PublishedKept CaptureKept QuotaHolds` hold |
| `Link_shared` | does the registry keep its promises between agents | an agent of 2 clients with room for every session, an agent of 1 client with room for one | `OneWriter ClaimHasHolder InUseIsKept` hold |
| `Link_orphan` | the same for two clients without room | 1 agent, 2 sessions, room for one | `WatchedIsHeld` is violated |
| `Session_stream` | what is each client told | 2 connections around one turn, both kinds of session | `OneBorrower EndIsTold AskedIsAttended OwnFramesOnly ToldInOrder` hold |
| `Session_reserved` | does busy mean that a turn runs | the same, 2 frames | `BusyEnds` is violated |

Deadlock is checked except in the two runs of `LinkSession`, where the bounds on
turns and on what clients do leave a state in which everyone has gone; in the
other models some host action is always possible.

What the violated properties mean is in `PROJECT.json` under "findings", each
with the sentence of the repository it contradicts:

- The calls a turn owes are those of the whole log. An abandoned turn's
  unanswered call keeps every later turn from completing: its final answer is
  taken for one more step, until the budget ends it.
- `nanus run` loads a session before it claims it. What another process records
  in between is gone with the next save.
- A session just held has no viewer until the attachment has read its name, and
  the next hold on a full registry may let it go. Its client then follows a copy
  the agent does not hold; another client gets a second one, and the first to be
  dropped releases the claim of both.
- An idle session is reserved for a goal change with the flag that says a turn is
  running. A client that attaches meanwhile believes one is, and nothing tells
  it otherwise once the change is saved.

More disagreements and sharp edges are in the models and not asked of a run:

- Without the admission port a selection takes effect at once, and a response is
  recorded under the model selected when it *ends*; so
  `RecordNamesRequestedModel` is checked with the port.
- Whether a call was answered is asked of ids alone, over the whole log:
  `RequestsPaired` is checked where a provider does not use an id again.
- An unmount hook that unloads another plugin takes that plugin's services from
  consumers still active: the nested sweep returns at once. `BorrowedResolves` is
  stated where hooks do not unload; `docs/roadmap.md` promises it without that
  condition. A plugin whose `init` fails has no record, where `plugin.rs` says it
  is left `Failed`.
- `open_reference` of the agent also loads before it claims, as the command line
  does. A managed body is spared in both: its checkpoint compares identities
  (`DiskOnlyGrows` holds with a host that `LoadsFirst`).
- A connection told to attach again is told so again when it does
  (`server.rs:2311` against `server.rs:2261`); only letting the session go helps.
- Where a reservation refuses the end of a managed step, the step is not settled
  and its intent stays open in a turn that is then closed, against `step.rs:178`.
  `unended` remembers it and `EndingsWhole` is stated without it.
- A viewer dropped because it fell behind does not take the question with it, as
  a connection that leaves does: its connection still may. So `AskedIsAttended`
  counts connections, and not viewers.
- A sink waits one deadline more for a write in flight (`quiesce`) and none for a
  rename, then goes, with its share of the reservation; the operation may land
  later. `sink.rs:36` ("still inside its allowance") and `artifact.rs` of the
  ports ("the sink stays owned until it is quiescent") say otherwise. The quota
  may then be exceeded by what landed, and a collection no longer finds the
  marker; `QuotaHolds` is stated without that case. What is published is spared:
  a receipt exists only of a rename that was awaited.
- The broker keeps the leases and the receipts of a turn that was dropped. A
  receipt of another turn's call with the same id is published only if its
  object is still as it says (`Verify`).
- Two processes that give the same name to two sessions may both find it free:
  the scan and the write are two steps (`NameScan`, `NameRename`).

### Bounds, and why they are enough

- `MaxTurns = 2` of the loop: a turn depends on earlier ones only through the
  log, and what an earlier one can leave (an open step, unanswered calls, a
  closing reason) one turn can leave.
- `MaxSteps = 2`: a step that is the budget's last and one that is not.
- `MaxCalls = 3` with `MaxParallel = 2` in `AgentLoop_batch`: a batch larger than
  a chunk, a last chunk that is not full, a goal call beside registry calls. A
  registry call is one that needs an exception and may get one, so every verdict
  of the gate is open to it; one turn of one step, since what a batch leaves to
  later ones is the log, and `AgentLoop_turns` has that. Ids repeat within a
  batch.
- Three plugins over two keys with every wiring contain each shape of cascade
  two services allow: chains, forks, cycles, rivals for one name; two
  publications by one plugin make a partial mount.
- Three processes over one session in `Store_races`: one to hold, one to race it
  and one to clear up; the sessions meet only in the names. Directories are made
  again as often as the operations do, and two may die: the one that left a
  deletion half done and the one that was finishing it.
- Two hosts and two turns or drafts in `Managed_turns`: one whose remains the
  other has to recover, with two faults, so that what handles a fault may fail
  too. One host takes two steps a turn and one takes one; one claims before it
  reads and one after.
- Two processes and one stream in `Archive_quota`, with both quotas and the cap at
  one byte, which is one reservation: a second one granted is a quota broken.
  Two captures are one to hold the room and one to race it; the collector has
  turns of its own, so that it also reserves, publishes and is measured.
- Two agents, one with two clients: every race between connections of one
  process and between processes has two parties. Room for one session makes
  every hold evict; room for all makes none.
- Two connections and one turn of one step in `Session_stream`: who types and
  who watches; three frames are a prompt, the step's number and one thing said
  in it (or, managed, a decision); three moves let a client come back twice, or
  change a goal and hang up. A second turn meets the first only in the backlog,
  which every save empties.

A run with an agent that evicts *and* has two clients is not among the passing
ones, because that is where `Link_orphan` breaks what they assert.

### Fairness

`AgentLoop_turns` uses `PolledSpec`: weak fairness of the loop's own steps (the
executor polls a future that can go on) and of the steps a raised control wakes
(`until_cancelled` selects on it). `ControlEndsTurn` needs nothing else.
`TurnEnds` assumes in addition, inside the property, that the model, the policy,
the person and the tools answer, since nothing in the code makes them.
`Kernel_sweeps` uses `CalledSpec`: weak fairness of the kernel's steps, which
are synchronous code. `Store_races` uses `FairSpec`: an operation that began goes
on (it is straight-line code on a blocking thread, with no wait in it), and a
process that is not running is started again some day; the second is what "the
next opening finishes it" means and is not the code's doing. The other runs
check safety and assume nothing.

## What is proved

Of the agent loop, over any number of turns, steps, calls, tools and models, for every
combination of features, from the named assumptions on the constants:

- `TypesHold`: `Spec => []TypeOK`. `TypeOK` is inductive as it stands, because it
  ties the batch together: results answer the calls one for one, the gate's
  cursor stands at a call. One lemma per phase of the loop.
- `EveryBatchGivenBack`: `Spec => []BatchesGivenBack`. The invariant only counts,
  and a count says nothing of a guard in the wrong place; `GivenBackInv` adds
  where each stands: no guard outside a batch, the unreserved guard before the
  reservation, the lease after it (`LeaseStands`).
- `EverySelectionLands`: `Spec => []SelectionLands`. `SelectionInv` adds that a
  hold stands only at the points of a step and that none is out where no port
  was wired (`HoldStands`): otherwise the step that ends could leave it.
- `StepsWithinBudget`: `Spec => []WithinBudget`. The step a turn is about to open
  must have room: `BudgetInv` adds that wherever a step may begin the current
  turn has fewer than the budget (`RoomLeft`) and counts turns that have not
  started (`StepsBounded`). The module's first lemmas say how an append changes
  the counts: an event that opens neither a turn nor a step changes none.
- `SettledStaysAlways` and `StopHoldsAlways`: `Spec => SettledStays` and
  `Spec => StopHolds`, steps the loop never takes. Both need to know where a batch
  is: `BatchInv` adds that none stands outside the points from the recording of
  its calls to their results, and that the calls the gate has not come to are
  undecided (`BatchStands`); else a gate could decide anew what is settled.
- `RecordNamesRequestedModelAlways`: the same of the model a response is recorded
  under, with `Held` as a hypothesis: where neither port is wired the code records
  the model in force when the response ends. That the hold is out from the
  request to the record is `HoldIsOut`.
- `FramedAlways`: `Spec => []Framed`. Of a log alone: what closes a turn names the
  turn opened last and no other closing record does, steps are numbered from one,
  and every step of a turn closed without an error is closed (`FramesHold`). To
  keep it a step has to know which of the last turn and the last step are open
  where the loop stands, also with a turn that was abandoned or whose closing
  record was refused behind it (`FrameStands`).
- `CompletedIsDoneAlways`: `Spec => []CompletedIsDone`. Where a step has come to an
  answer, the log of the present turn ends in it (`AnswerIsLast`).
- `CallsAnsweredInOrderAlways`: `Spec => []CallsAnsweredInOrder`. What follows a
  response is over once another response or a turn begins (`FollowingKept`) and
  else grows with the log (`FollowingGrown`). `AnswersStand` says that all
  responses of closed turns and of the present turn are answered, but the last
  one while its batch is out: that one's calls are the batch's, announced, with
  no result written. A response that was cut short has no calls
  (`CutAsksNothing`). The ids of the events of a kind are `Only`, as below.
- `RequestsPairedAlways`: `ReusedIds = {}` implies `Spec => []RequestsPaired`. The
  hypothesis is about providers, not about the loop: none gives an id a second
  time. (Where one does, after an abandoned turn, the request is not paired: see
  under findings.) A request is folded out of the whole log, so the induction is
  over appended events: what each does to the messages that were replayed before
  it. Most add one message at the end or none. A recorded response changes the
  log's own past by nothing, since its calls have new ids; a result changes it
  most, because the call it answers, withheld until now, appears before it.
  `LogReplays` says that the log replays to paired messages wherever the loop
  stands and that ids are drawn in order, `IdsDrawn` the same of calls that
  stream and are in no log yet. `BatchOwed` is the strengthening that is needed:
  while a batch is out, none of the last response's calls is answered, no other
  response has one of them, and nothing a message is made of stands after it, so
  the results written then are sent next to the calls they make appear, and make
  no other call appear.

Of the kernel, over any number of plugins and services, any set of wirings, with
hooks that fail or unload others, and calls of the host's in any order, from
`KernelInv`. It says that a sweep goes one way (`Reconciled`). A sweep that
`start` or a refresh begins *grows*: nothing is being withdrawn, what runs has
what it requires, and plugins are only activated. One that an unload or a
withdrawal begins *shrinks*: nobody waits for what is there, and plugins are
only deactivated (it grows where nothing was activated before it, after a start
that a failing init ended). That a withdrawal never makes somebody ready is why: a service
that retires counts as absent at once, so nothing appears until the effects are
taken back, and by then nobody can see them go (`GoesUnseen`). `Owned` says whose
every service is, running or parked; `Called` where a call of the host's is.

- `SweepSettlesAlways`: `Spec => SweepSettles`. Each round but the last mounts
  or deactivates somebody, or fails to, and nobody twice, so the rounds left stay more than
  the plugins that may yet move (`Enough`): the bound of `refresh`, one more than
  there are plugins, is never what ends it.
- `BorrowedResolvesAlways` and `SupplierIsOlderAlways`: parts of `KernelInv`. A
  name is given only to whom nobody else holds it from, and a parked plugin's
  services stay until all it supplied are parked too.
- `ShutdownInOrderAlways`: `Closing` adds that what a shutdown has still to unload
  is exactly what runs, by age, newest first. The newest supplies nobody, since a
  supplier is older than whom it supplies; so its unload leaves nobody stale, and
  the sweep it asks for moves nobody. That the list exists, and has everyone, is
  `NewestFirstExists`, from the ages being different (`Aged`).
- `NoTraceAlways`: `Owned` where nothing is parked and nothing is being unloaded.

Of the store, over any number of processes, sessions, names, turns and crashes:

- `StoreTypes`: `Spec => []TypeOK`, and `OneHolderAlways`: `Spec => []OneHolder`.
  A claim is the lock of one directory, and a session may have had several, so
  two claims do not exclude each other by themselves. `HolderInv` adds that a
  lock is one process's (`Exclusive`), that the locks of a session that is not
  retired are of the directory at its path (`Located`), and that only a retired
  session is ever moved (`Placed`): a claim is taken only after a second look at
  the marker, which is why that look is needed.
- `HeldStaysAlways`: `Spec => HeldStays`. A held directory does move from under
  its holder in one case: while the holder deletes the session, a save that
  renamed its file into the directory just before may see the marker and move
  it first (`UndoMove`), as `retire.rs` says of a save that raced a deletion. The
  theorem says that this is the only case besides the holder's own move. That the
  holder is deleting needs that no directory is numbered twice (`Numbered`), that
  who marks a session has its lock (`Owning`), and therefore that a claim on a
  retired session is of a directory that is gone or that its holder is about to
  move (`Spared`). Who else moves it is settled by `SoleInv`, checked by TLC on
  the instance of `Store_races` before it was proved: an operation has no lock of
  its own of a session held in place (`Sole`), while whoever moves a session
  other than to undo a write needs the lock (`Armed`); and a write about to be
  undone in a held session is in the directory that is held, not in an older one
  (`Written`).
- `StrayHasCleanerAlways`: `Spec => []StrayHasCleaner`. That somebody is about to
  clean up is not inductive: who saves cleans only the directory it wrote in
  (`Tended`), and who finds the lock taken leaves it to the holder, who must be
  deleting (`Deleting`) and not past the move (`Emptied`).

Of managed turns, over any number of hosts, turns, drafts, commits and deaths:

- `DiskOnlyGrowsAlways`: `Spec => DiskOnlyGrows`. A commit compares what is
  stored with what it is about to write in one step and replaces the file in a
  later one. `HostInv` adds that what was compared still stands at the second
  (`Extending`), which holds because every host past loading has the claim and
  nobody else has it (`Claimed`): without the claim two of them could be between
  the two steps, and the later would drop what the earlier stored.
- `TypesHold`, `WrittenAheadAlways`, `EndingsWholeAlways`, `AnswerIsSavedAlways`:
  from `TurnInv`. Memory may be ahead of the disk, but not by an intent or a
  revision (`Stored`), and what a commit is about to write is what its purpose
  says (`Writes`): so a request leaves only behind its record, and an answer is
  returned only for what was acknowledged. That a stored turn which ended has
  nothing open is about every place a process may die at: `Sound` says at each
  place of a turn which of the turn, the step and the request are open, in memory
  and in what is being written, and that whatever replaces the file can be
  recovered, which is where a restart begins. `Budgeted` counts the steps.

Of the archive, over any number of processes, sessions, streams and captures,
under any cap and quotas:

- `CaptureKeptAlways`: `Spec => []CaptureKept`, and `PublishedKeptAlways`: `Spec
  => []PublishedKept`, both from `ArchiveInv`. That a sink has its file is not
  inductive: a sweep could have listed it. `Sparing` says that a sweep which has
  the name of a sink's file has its marker to look at or keeps the name, `Sinks`
  that the marker is locked while the sink is there, and `LockHeld` that no file
  is made between a sweep's listing and its removals. That a receipt's object
  stands needs two more: that nothing late is on its way to it (`Settled`, from
  the sink's last moments on), and that who sweeps and who publishes have the
  session's claim, so the log that was read is the log (`Claimed`, `Receipts`).
  `Making` follows a capture from its marker to its files.
- `QuotaHoldsAlways`: `Spec => []QuotaHolds`, from `QuotaInv`. A measurement takes
  several steps, one archive at a time, while calls of other processes write,
  seal, let go and die; what was measured is soon wrong. It is only ever too
  much. Let an object be due its cap while its capture is locked and its size
  otherwise (`Due`, `Owed`): no step but a grant makes that sum grow, since a
  file that grows is of a locked capture and none exceeds the cap, also with a
  write still to land (`Sized`, `Calm`). `Counting` says at each point of a
  measurement that the sessions measured owe no more than was added up, and
  `Listing` that what was listed covers what is owed now: each locked capture by
  its marker, each other file by the name it has, because a file is renamed only
  under a locked marker. Grants take turns under the quota lock, so one that
  finds room has it (`GrantFits`). A sum is the number of its units (`Sum`), so
  that what is needed of it follows from the library's facts on cardinality:
  that it grows with its terms, that it splits over two sets, and what equal
  terms come to. The streams of a call are assumed finite (they are two).

Of the link's registry, over any number of agents, connections, sessions and
turns, and any bound on what an agent holds:

- `ClaimHasHolderAlways`: `Spec => []ClaimHasHolder`, and `InUseIsKeptAlways`:
  `Spec => InUseIsKept`, from `RegistryInv`: what is held, attached to or about to
  be lives, at the agent that holds it.
- `OneWriterWhileHeld`: `Spec /\ []AttachedIsHeld => []OneWriter`. `OneWriter` by
  itself does not hold: `Link_orphan` shows a client whose copy its agent let go
  of, and a second client that is then given a second copy. The theorem says
  that this is the only way: as long as what every client attaches to is in its
  agent's registry, which is what `hold` promises, a live copy has its session's
  lock and its agent holds it (`WriterInv`), and there is one.
- `OneClientOneWriter`: where an agent serves one client at a time the hypothesis
  holds, `Spec => []OneWriter`, with any number of agents over the store.

Of a session and its clients, over any number of connections, turns, steps,
frames and moves, from one invariant:

- `SessionHasOneBorrower`: who uses the session is one, and it is busy then
  (`Alone`), with what each task sends where it is (`Tasks`).
- `FramesAreOnesOwn`: an attachment has a number nobody had, and a frame is on its
  way only to attachments that were there when it was sent (`Watch`, `Bound`).
- `EveryEndIsTold`: where no turn runs or starts, who believes that one does is
  being told that it ended, or is to be detached (`Ends`).
- `QuestionIsAttended` is inductive with what is above.
- `ConversationIsTold`: `LinkSession` implements `Transcript`, initial states to
  initial states and every step to a step or a stutter. What a client that joins
  is shown is what stands because what stands is in the store or in the backlog,
  the backlog after the store (`Backed`), and what was said is recorded or
  withdrawn but for what the present step says (`Placed`, `Recorded`). That no
  prompt is missed is `Seen`: it was seen, or is on its way, or the client is to
  be detached; and a prompt on its way is the last thing said (`Items`).

Of lists, `OnlyTakes`: what a filter leaves has the list's elements that are in
the set, all of them, in order. `Only` is a recursive function, and the claim
for every length follows from the least length for which it would fail.

Every invariant named here was first checked by TLC on the instance of the
component's run. Four theorems do with a hypothesis, as said: `OneWriterWhileHeld`,
`OneClientOneWriter`, `RecordNamesRequestedModelAlways` and `RequestsPairedAlways`;
the others rest on nothing but the named assumptions on the constants.

Only model-checked: liveness (`ControlEndsTurn`, `TurnEnds`, `CallsReturn`,
`DeletedGoes`), which TLAPS does not do here. Every invariant of a passing run
and every action property is a theorem.

## Not modelled

- Agent loop: images in results and their admission, old messages dropped to
  fit, the effort and the provider (selected like the model), exhaustion of the
  selection's epoch, the validation of a result's content. Usage and timing
  change nothing.
- Managed turns: what a revision contains, how a proposal is compiled, judged
  and refused, policies and resets; the objects a revision refers to are there or
  the commit is refused (`NotCommitted`).
- Kernel: event listeners, two types under one name, hooks of an explicit unload
  that themselves unload.
- Store: listing, resolving a name, symbolic links, bytes of a file that does not
  parse, the remembered identity of a written file (a checkpoint reads it in
  `ManagedTurn`).
- Archive: ranges read from an object, deletion of an archive with its session
  and the trash, digests, a policy's budgets; several reservations by one process
  at a time; a log save dropped in the middle. The roots that are measured hold
  sessions and nothing else.
- Link registry: names and their failures after a hold, handoffs, the references
  a broadcast takes while it runs, and what is in a frame. A refused save is a
  save that did not happen.
- Link session: the length of a queue, frames about the agent (its model, its
  approval state), handoffs and maintenance drafts (`ManagedTurn` has the draft,
  without who watches it), the numbering of frames on the wire.
- Context projection and compaction, the adapters, tools,
  composition, configuration, protocol, terminal interface and the rest of the
  command line: most of the repository's lines are here, and most are functions
  of their input, drawing, or encoding, without a state two actors share.

## Plan

1. The shell's race of output, timeout and kill, as the producer of `Archive`'s
   writes; deletion of an archive, composed with `Store`.
2. `TurnContract`: what a host is promised of a turn (opened, answered, closed
   once), with `AgentLoop` and `ManagedTurn` shown to implement it.
3. Agent-wide frames and a second session in `LinkSession`.
