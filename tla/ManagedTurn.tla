---------------------------- MODULE ManagedTurn ----------------------------
(***************************************************************************)
(* A managed session's turns and the checkpoints they are saved by: crates *)
(* /nanus-bundle/src/agent_loop/managed.rs with managed/step.rs, settle.rs *)
(* and handoff.rs, over crates/nanus-bundle/src/checkpoint.rs, the store's *)
(* store/checkpoint.rs, and the recovery of crates/nanus-domain/src/       *)
(* context/managed/state.rs.                                               *)
(*                                                                         *)
(* Hosts (processes) load one session, claim it, and run turns and drafts  *)
(* on a copy in memory.  A request is written down as an intent before it  *)
(* is sent, and its outcome after.  A commit may be refused, may land and  *)
(* be reported as of unknown outcome, and a host may die at any step.      *)
(***************************************************************************)
EXTENDS Naturals, Sequences, SequencesExt, Subsequences

CONSTANTS
    Host,        \* the processes
    LoadsFirst,  \* those that read the session before they claim it
    StepBudget,  \* the steps a turn may take, as each process is configured
    MaxWork,     \* bounds how many turns and drafts begin
    MaxFaults,   \* bounds how many commits, leases, reads and hosts fail
    Revising,    \* bounds which turns, by number, make or propose one revision
    LeaseRefuses \* whether a record reservation may refuse an ending

ASSUME NoneAssumption == "none" \notin Host /\ LoadsFirst \subseteq Host
ASSUME BoundsAssumption ==
    /\ StepBudget \in [Host -> Nat \ {0}] /\ MaxWork \in Nat /\ MaxFaults \in Nat
    /\ Revising \in Nat
ASSUME LeaseAssumption == LeaseRefuses \in BOOLEAN

VARIABLES
    disk,     \* the session file, as the sequence of its records
    claim,    \* the host with the writer claim, or "none"
    host,     \* what each host has in memory
    sent,     \* the intents whose request was sent
    unended,  \* whether a reservation refused the end of a step or a turn
    work,     \* how many turns and drafts began
    faults    \* how many things failed

vars == <<disk, claim, host, sent, unended, work, faults>>

\* A record: its kind, the request it is about (0 for none), and the turn or
\* draft that wrote it, by which the records of two writers differ.
Rec(kind, id, job) == [is |-> kind, of |-> id, job |-> job]

\* pc: where the host is; log: the session in memory; expected: the identity
\* of the file the next commit replaces; cand: what a commit writes; then:
\* why it is made; halt: whether the turn may still write; job: the turn or
\* draft in hand; id: the request of the step; staged: a proposal waits;
\* steps: taken in this turn; stop: the turn was stopped; result: how the
\* step, then the turn, came out.
Fresh ==
    [pc |-> "idle", log |-> <<>>, expected |-> <<>>, cand |-> <<>>, then |-> "none",
     halt |-> "running", job |-> 0, id |-> 0, staged |-> FALSE, steps |-> 0,
     stop |-> FALSE, result |-> "none"]

Init ==
    /\ disk = <<>> /\ claim = "none"
    /\ host = [h \in Host |-> Fresh]
    /\ sent = {} /\ unended = FALSE
    /\ work = 0 /\ faults = 0

-----------------------------------------------------------------------------
(***************************************************************************)
(* What a log says.                                                        *)
(***************************************************************************)
Has(log, kind, id) == \E r \in Range(log) : r.is = kind /\ r.of = id

\* unmatched_attempts: intents no finished record answers, in log order.
Unmatched(log, kind) ==
    Only(log, {r \in Range(log) : r.is = kind /\ ~Has(log, "finished", r.of)})

LastAt(log, kinds) ==
    LET at == {i \in DOMAIN log : log[i].is \in kinds}
    IN  IF at = {} THEN 0 ELSE CHOOSE i \in at : \A j \in at : j <= i

MayRevise(s) ==
    /\ s.job <= Revising
    /\ \A r \in Range(s.log) : r.job = s.job => r.is \notin {"revision", "refusal"}

TurnOpen(log) == LastAt(log, {"turnStart"}) > LastAt(log, {"turnEnd"})
StepOpen(log) == LastAt(log, {"stepStart"}) > LastAt(log, {"stepEnd", "turnEnd"})

Finished(intents, job) == [i \in DOMAIN intents |-> Rec("finished", intents[i].of, job)]

\* Wrong: an open turn is closed and its intents are left.
RecoveryOfTurn(log, job) ==
    IF TurnOpen(log) THEN <<Rec("recovery", 0, job), Rec("turnEnd", 0, job)>> ELSE <<>>

\* recovery_plan: a draft's intent is closed on its own; an open turn is closed
\* with its step and its intents, as of unknown dispatch.
Recovery(log, job) ==
    LET drafts == Unmatched(log, "draftIntent")
        steps  == Unmatched(log, "intent")
        forDrafts ==
            IF drafts = <<>> THEN <<>>
            ELSE Finished(drafts, job) \o <<Rec("recovery", 0, job)>>
        forTurn ==
            IF ~TurnOpen(log) THEN <<>>
            ELSE (IF StepOpen(log) THEN <<Rec("stepEnd", 0, job)>> ELSE <<>>)
                 \o Finished(steps, job)
                 \o <<Rec("recovery", 0, job), Rec("turnEnd", 0, job)>>
    IN  forDrafts \o forTurn

-----------------------------------------------------------------------------
(***************************************************************************)
(* Committing.                                                             *)
(***************************************************************************)
At(h, pc) == host[h].pc = pc
Fault == faults < MaxFaults /\ faults' = faults + 1

\* A host between turns keeps the session and what it knows of the file.
Rested(s, pc) == [Fresh EXCEPT !.pc = pc, !.log = s.log, !.expected = s.expected]

\* A step of h alone.
Step(h, state) ==
    /\ host' = [host EXCEPT ![h] = state]
    /\ UNCHANGED <<disk, claim, work>>

\* The candidate whose fate is unknown is not forgotten for a later one.
ToCommit(state, then, cand) ==
    [state EXCEPT !.pc = "commit", !.then = then,
                  !.cand = IF state.halt = "frozen" THEN @ ELSE cand]

\* Goes to the step's end with a result, or to the turn's, where only whether
\* it failed still counts.
StepEnds(s, result) == [s EXCEPT !.pc = "stepEnd", !.result = result]
TurnEnds(s, result) ==
    [s EXCEPT !.pc = "ending", !.id = 0, !.steps = 0, !.stop = FALSE, !.staged = FALSE,
              !.result = IF result = "error" THEN "error" ELSE "ended"]

\* Where a caller of commit goes on once the commit is acknowledged.
OnAck ==
    [recoverTurn |-> "turn", recoverDraft |-> "draft", intent |-> "reserve",
     settle |-> "stepped", end |-> "returned", draft |-> "draftSend", drafted |-> "ready"]

\* acknowledged: only then is what was written installed.
Acknowledged(h) ==
    LET s == host[h]
        saved == [s EXCEPT !.pc = OnAck[s.then], !.log = s.cand, !.expected = s.cand,
                           !.cand = <<>>, !.then = "none"]
    IN  IF s.then = "drafted" THEN Rested(saved, "ready") ELSE saved

\* A commit that failed.  The turn ends with an error; of a settlement the
\* effects stay and the revision does not.  A draft whose record is in doubt
\* closes its session.
Failed(h, halt) ==
    LET s == host[h]
        kept == [s EXCEPT !.halt = halt, !.then = "none",
                          !.cand = IF halt = "frozen" THEN @ ELSE <<>>,
                          !.log = IF s.then # "settle" THEN @
                                  ELSE @ \o <<Rec("refusal", s.id, s.job),
                                              Rec("finished", s.id, s.job)>>]
    IN  CASE s.then \in {"intent", "settle"}   -> TurnEnds(kept, "error")
          [] s.then \in {"recoverTurn", "end"} -> [kept EXCEPT !.pc = "returned",
                                                               !.result = "error"]
          [] OTHER -> Rested(s, IF halt = "frozen" THEN "closed" ELSE "ready")

\* refused: one terminal attempt is left, unless this was it.
AfterRefusal(s) == IF s.halt = "running" THEN "unsaved" ELSE s.halt

\* What is in force when a commit is called: it may go on, or is turned down.
MayWrite(s) == s.halt = "running" \/ (s.halt = "unsaved" /\ s.then = "end")

CommitHalted(h) ==
    /\ At(h, "commit") /\ ~MayWrite(host[h])
    /\ Step(h, Failed(h, host[h].halt))
    /\ UNCHANGED <<sent, unended, faults>>

\* Wrong: the identity is enough.
SameIdentity(h) == claim = h /\ disk = host[h].expected

\* checkpoint_blocking's checks: the claim, the identity the commit replaces,
\* and that what is stored comes first in what is written.
Admissible(h) ==
    LET s == host[h]
    IN  claim = h /\ disk = s.expected /\ IsPrefix(disk, s.cand)

Admit(h) ==
    LET s == host[h]
    IN  /\ At(h, "commit") /\ MayWrite(s)
        /\ IF Admissible(h)
           THEN Step(h, [s EXCEPT !.pc = "write",
                                  !.halt = IF @ = "unsaved" THEN "spent" ELSE @])
           ELSE Step(h, Failed(h, AfterRefusal(s)))
        /\ UNCHANGED <<sent, unended, faults>>

\* NotCommitted: a full disk, an object without its proof, a failed rename that
\* left the file as it was.
NotCommitted(h) ==
    /\ At(h, "write") /\ Fault
    /\ Step(h, Failed(h, AfterRefusal(host[h])))
    /\ UNCHANGED <<sent, unended>>

Install(h) ==
    /\ At(h, "write")
    /\ disk' = host[h].cand
    /\ host' = [host EXCEPT ![h].pc = "installed"]
    /\ UNCHANGED <<claim, sent, unended, work, faults>>

Acknowledge(h) ==
    /\ At(h, "installed")
    /\ Step(h, Acknowledged(h))
    /\ UNCHANGED <<sent, unended, faults>>

\* CommitOutcomeUnknown, whether the rename happened or not.
OutcomeUnknown(h) ==
    /\ At(h, "write") \/ At(h, "installed")
    /\ Fault
    /\ Step(h, [host[h] EXCEPT !.pc = "reconcile"])
    /\ UNCHANGED <<sent, unended>>

\* Wrong: what could not be found out is taken for saved.
ReconcileHopeful(h) ==
    /\ At(h, "reconcile")
    /\ Step(h, Acknowledged(h))
    /\ UNCHANGED <<sent, unended, faults>>

\* reconcile: the file is read back, under the claim.
Reconcile(h) ==
    LET s == host[h]
    IN  /\ At(h, "reconcile")
        /\ Step(h, IF disk = s.cand THEN Acknowledged(h)
                   ELSE IF disk = s.expected THEN Failed(h, AfterRefusal(s))
                   ELSE Failed(h, "frozen"))
        /\ UNCHANGED <<sent, unended, faults>>

ReconcileFails(h) ==
    /\ At(h, "reconcile") /\ Fault
    /\ Step(h, Failed(h, "frozen"))
    /\ UNCHANGED <<sent, unended>>

\* settle of the link: the host reads once more, and a session whose file is
\* neither what it holds nor what it replaced takes no further turn.
Doubt(h) ==
    LET s == host[h]
    IN  /\ At(h, "doubt")
        /\ Step(h, IF disk = s.cand /\ IsPrefix(disk, s.log)
                   THEN [Rested(s, "ready") EXCEPT !.expected = disk]
                   ELSE Rested(s, IF disk = s.expected THEN "ready" ELSE "closed"))
        /\ UNCHANGED <<sent, unended, faults>>

\* What could not be read then cannot be read now: the same fault.
DoubtStays(h) ==
    /\ At(h, "doubt")
    /\ Step(h, Rested(host[h], "closed"))
    /\ UNCHANGED <<sent, unended, faults>>

Commit(h) ==
    \/ CommitHalted(h) \/ Admit(h) \/ NotCommitted(h) \/ Install(h) \/ Acknowledge(h)
    \/ OutcomeUnknown(h) \/ Reconcile(h) \/ ReconcileFails(h) \/ Doubt(h) \/ DoubtStays(h)

-----------------------------------------------------------------------------
(***************************************************************************)
(* A process loads a session, claims it, and begins a turn or a draft.     *)
(***************************************************************************)
\* The command line reads the session and claims it after.
Load(h) ==
    /\ At(h, "idle") /\ h \in LoadsFirst
    /\ Step(h, [host[h] EXCEPT !.pc = "loaded", !.log = disk])
    /\ UNCHANGED <<sent, unended, faults>>

\* Whoever has the claim binds: the identity it will replace is what is stored
\* now.  Another holder turns the claim down, and what was read is let go.
Claim(h) ==
    LET s == host[h]
        log == IF h \in LoadsFirst THEN s.log ELSE disk
        claimed == [s EXCEPT !.pc = "ready", !.log = log, !.expected = disk]
    IN  /\ At(h, IF h \in LoadsFirst THEN "loaded" ELSE "idle")
        /\ host' = [host EXCEPT ![h] = IF claim = "none" THEN claimed ELSE Fresh]
        /\ claim' = IF claim = "none" THEN h ELSE claim
        /\ UNCHANGED <<disk, sent, unended, work, faults>>

Begin(h, pc) ==
    /\ At(h, "ready") /\ work < MaxWork
    /\ work' = work + 1
    /\ host' = [host EXCEPT ![h] = [@ EXCEPT !.pc = pc, !.job = work + 1, !.halt = "running",
                                             !.result = "none", !.stop = FALSE]]
    /\ UNCHANGED <<disk, claim, sent, unended, faults>>

BeginTurn(h) == Begin(h, "recoverTurn")
BeginDraft(h) == Begin(h, "recoverDraft")

Recover(h) ==
    LET s == host[h]
        plan == Recovery(s.log, s.job)
    IN  /\ s.pc \in {"recoverTurn", "recoverDraft"}
        /\ Step(h, IF plan = <<>> THEN [s EXCEPT !.pc = OnAck[s.pc]]
                   ELSE ToCommit(s, s.pc, s.log \o plan))
        /\ UNCHANGED <<sent, unended, faults>>

Release(h) ==
    /\ host[h].pc \in {"ready", "closed"}
    /\ claim' = "none"
    /\ host' = [host EXCEPT ![h] = Fresh]
    /\ UNCHANGED <<disk, sent, unended, work, faults>>

\* Wrong: a dead process keeps its claim.
CrashHolding(h) ==
    /\ ~At(h, "idle") /\ Fault
    /\ host' = [host EXCEPT ![h] = Fresh]
    /\ UNCHANGED <<disk, claim, sent, unended, work>>

Crash(h) ==
    /\ ~At(h, "idle") /\ Fault
    /\ claim' = IF claim = h THEN "none" ELSE claim
    /\ host' = [host EXCEPT ![h] = Fresh]
    /\ UNCHANGED <<disk, sent, unended, work>>

-----------------------------------------------------------------------------
(***************************************************************************)
(* A turn.                                                                 *)
(***************************************************************************)
Adds(s, kind) == [s EXCEPT !.log = Append(@, Rec(kind, s.id, s.job))]

StartTurn(h) ==
    LET s == host[h]
        opened == [s EXCEPT !.log = Append(@, Rec("turnStart", 0, s.job))]
    IN  /\ At(h, "turn")
        /\ Step(h, [opened EXCEPT !.pc = "top", !.steps = 0, !.staged = FALSE])
        /\ UNCHANGED <<sent, unended, faults>>

InTurn(h) == host[h].pc \in {"top", "send", "reply", "settle"}

Stop(h) ==
    /\ InTurn(h) /\ ~host[h].stop
    /\ Step(h, [host[h] EXCEPT !.stop = TRUE])
    /\ UNCHANGED <<sent, unended, faults>>

\* The loop's head stops a stopped turn; preparing a step may fail.
TopStopped(h) ==
    /\ At(h, "top") /\ host[h].stop
    /\ Step(h, TurnEnds(host[h], "interrupted"))
    /\ UNCHANGED <<sent, unended, faults>>

PrepareFails(h) ==
    /\ At(h, "top") /\ ~host[h].stop /\ Fault
    /\ Step(h, TurnEnds(host[h], "error"))
    /\ UNCHANGED <<sent, unended>>

\* record_intent: what the last step left, a revision the step makes by
\* itself, and the intent, in one commit.
Prepare(h, auto) ==
    LET s  == host[h]
        id == Len(s.log) + 1
        chosen == IF auto THEN <<Rec("revision", id, s.job), Rec("decision", id, s.job)>>
                  ELSE <<>>
    IN  /\ At(h, "top") /\ ~s.stop
        /\ auto => MayRevise(s)
        /\ Step(h, ToCommit([s EXCEPT !.steps = @ + 1, !.id = id], "intent",
                            s.log \o chosen \o <<Rec("intent", id, s.job)>>))
        /\ UNCHANGED <<sent, unended, faults>>

Reserve(h) ==
    /\ At(h, "reserve")
    /\ Step(h, [Adds(host[h], "stepStart") EXCEPT !.pc = "send"])
    /\ UNCHANGED <<sent, unended, faults>>

\* Admission refuses the step: its intent is finished as refused.
ReserveRefused(h) ==
    /\ At(h, "reserve") /\ LeaseRefuses /\ Fault
    /\ Step(h, TurnEnds(Adds(host[h], "finished"), "error"))
    /\ UNCHANGED <<sent, unended>>

\* perform_managed: a stop is looked for before the request is sent.
Send(h) ==
    /\ At(h, "send")
    /\ IF host[h].stop
       THEN Step(h, StepEnds(host[h], "interrupted")) /\ sent' = sent
       ELSE /\ Step(h, [host[h] EXCEPT !.pc = "reply"])
            /\ sent' = sent \cup {host[h].id}
    /\ UNCHANGED <<unended, faults>>

\* What came back: nothing usable, a reply cut short by a stop, an answer, or
\* calls that ran, of which one may have staged a proposal.
ReplyFailed(h) ==
    /\ At(h, "reply")
    /\ Step(h, StepEnds(host[h], "error"))
    /\ UNCHANGED <<sent, unended, faults>>

Reply(h, result, staged) ==
    /\ At(h, "reply")
    /\ result = "interrupted" => host[h].stop
    /\ staged => result # "final" /\ MayRevise(host[h])
    /\ Step(h, [StepEnds(Adds(host[h], "answer"), result) EXCEPT !.staged = staged])
    /\ UNCHANGED <<sent, unended, faults>>

EndStep(h) ==
    /\ At(h, "stepEnd")
    /\ Step(h, [Adds(host[h], "stepEnd") EXCEPT !.pc = "settle"])
    /\ UNCHANGED <<sent, unended, faults>>

\* The reservation refuses the record: the step is neither ended nor settled.
EndStepRefused(h) ==
    /\ At(h, "stepEnd") /\ LeaseRefuses /\ Fault
    /\ Step(h, TurnEnds(host[h], "error"))
    /\ unended' = TRUE /\ UNCHANGED sent

\* settle: without a proposal the outcome rides with the next commit.
Settle(h) ==
    LET s == host[h]
    IN  /\ At(h, "settle") /\ ~s.staged
        /\ Step(h, [Adds(s, "finished") EXCEPT !.pc = "stepped"])
        /\ UNCHANGED <<sent, unended, faults>>

\* A proposal is accepted only in a step that was not stopped and did not
\* fail, and only a commit puts it in force.
Propose(h, accepted) ==
    LET s == host[h]
        revision == IF accepted THEN <<Rec("revision", s.id, s.job)>> ELSE <<>>
        records  == <<Rec("decision", s.id, s.job), Rec("finished", s.id, s.job)>>
    IN  /\ At(h, "settle") /\ s.staged
        /\ accepted => ~s.stop /\ s.result = "tools"
        /\ Step(h, ToCommit([s EXCEPT !.staged = FALSE], "settle", s.log \o revision \o records))
        /\ UNCHANGED <<sent, unended, faults>>

\* The turn machine: a tool step goes on while the budget lasts.
Stepped(h) ==
    LET s == host[h]
    IN  /\ At(h, "stepped")
        /\ Step(h, IF s.result = "tools" /\ s.steps < StepBudget[h]
                   THEN [s EXCEPT !.pc = "top", !.id = 0, !.result = "none"]
                   ELSE TurnEnds(s, s.result))
        /\ UNCHANGED <<sent, unended, faults>>

Ended(s) == [s EXCEPT !.log = Append(@, Rec("turnEnd", 0, s.job))]

Ending(h) ==
    LET s == Ended(host[h])
    IN  /\ At(h, "ending")
        /\ Step(h, ToCommit(s, "end", s.log))
        /\ UNCHANGED <<sent, unended, faults>>

\* The reservation refuses the turn's end: what there is is committed.
EndingRefused(h) ==
    LET s == [host[h] EXCEPT !.result = "error"]
    IN  /\ At(h, "ending") /\ LeaseRefuses /\ Fault
        /\ Step(h, ToCommit(s, "end", s.log))
        /\ unended' = TRUE /\ UNCHANGED sent

\* The outcome is reported; a turn left in doubt is read back first.
Return(h) ==
    /\ At(h, "returned")
    /\ Step(h, IF host[h].halt = "frozen" THEN [host[h] EXCEPT !.pc = "doubt"]
               ELSE Rested(host[h], "ready"))
    /\ UNCHANGED <<sent, unended, faults>>

-----------------------------------------------------------------------------
(***************************************************************************)
(* A handoff draft: one request outside a turn.                            *)
(***************************************************************************)
Draft(h) ==
    LET s == host[h]
        id == Len(s.log) + 1
    IN  /\ At(h, "draft")
        /\ Step(h, IF TurnOpen(s.log) THEN Rested(s, "ready")
                   ELSE ToCommit([s EXCEPT !.id = id], "draft",
                                 Append(s.log, Rec("draftIntent", id, s.job))))
        /\ UNCHANGED <<sent, unended, faults>>

DraftSend(h) ==
    /\ At(h, "draftSend")
    /\ sent' = sent \cup {host[h].id}
    /\ Step(h, ToCommit(host[h], "drafted",
                        Append(host[h].log, Rec("finished", host[h].id, host[h].job))))
    /\ UNCHANGED <<unended, faults>>

-----------------------------------------------------------------------------
\* What a running host does by itself.
Work(h) ==
    \/ Commit(h) \/ Recover(h) \/ StartTurn(h)
    \/ TopStopped(h) \/ PrepareFails(h) \/ \E auto \in BOOLEAN : Prepare(h, auto)
    \/ Reserve(h) \/ ReserveRefused(h) \/ Send(h) \/ ReplyFailed(h)
    \/ \E result \in {"final", "tools", "interrupted"}, staged \in BOOLEAN :
           Reply(h, result, staged)
    \/ EndStep(h) \/ EndStepRefused(h) \/ Settle(h)
    \/ \E accepted \in BOOLEAN : Propose(h, accepted)
    \/ Stepped(h) \/ Ending(h) \/ EndingRefused(h) \/ Return(h)
    \/ Draft(h) \/ DraftSend(h)

Next ==
    \E h \in Host :
        \/ Work(h) \/ Stop(h)
        \/ Load(h) \/ Claim(h) \/ BeginTurn(h) \/ BeginDraft(h) \/ Release(h) \/ Crash(h)

Spec == Init /\ [][Next]_vars

-----------------------------------------------------------------------------
(***************************************************************************)
(* Properties.                                                             *)
(***************************************************************************)
RecordKinds ==
    {"turnStart", "turnEnd", "stepStart", "stepEnd", "intent", "draftIntent",
     "finished", "answer", "revision", "decision", "refusal", "recovery"}

\* Types: a log holds records, a claim is a host's or nobody's, and a host
\* with the claim is past loading.
TypeOK ==
    /\ Range(disk) \subseteq [is : RecordKinds, of : Nat, job : 0..MaxWork]
    /\ claim \in Host \cup {"none"}
    /\ \A h \in Host :
           /\ host[h].pc \notin {"idle", "loaded"} <=> claim = h
           /\ host[h].steps \in 0..StepBudget[h]
    /\ work \in 0..MaxWork /\ faults \in 0..MaxFaults

\* Nothing is sent, and no revision is in force, before its record is on disk:
\* a restart knows of every request that left the process (record_intent).
WrittenAhead ==
    /\ \A id \in sent : Has(disk, "intent", id) \/ Has(disk, "draftIntent", id)
    /\ \A h \in Host : \A r \in Range(host[h].log) :
           r.is \in {"revision", "intent", "draftIntent"} => r \in Range(disk)

\* What is stored is never changed or dropped, whoever writes and whatever it
\* had in memory (check_extends, the identity compared under the claim).
DiskOnlyGrows == [][IsPrefix(disk, disk')]_disk

\* A stored turn that ended holds no open step and no request without an
\* outcome, unless a reservation refused an ending (settle, recovery_plan).
EndingsWhole ==
    ~unended =>
        /\ ~StepOpen(disk)
        /\ \A i, j \in DOMAIN disk :
               disk[i].is = "intent" /\ disk[j].is = "turnEnd" /\ i < j
                   => \E k \in 1..j : disk[k].is = "finished" /\ disk[k].of = disk[i].of

\* A turn that reports no error is on disk to its last record, its end
\* (run_managed checkpoints the ending before it returns).
AnswerIsSaved ==
    \A h \in Host :
        At(h, "returned") /\ host[h].result # "error"
            => disk = host[h].log /\ ~TurnOpen(disk)
=============================================================================
