------------------------- MODULE ManagedTurnProofs --------------------------
(***************************************************************************)
(* Proofs about ManagedTurn, for any number of hosts, turns, drafts and    *)
(* faults.                                                                 *)
(*                                                                         *)
(* DiskOnlyGrows rests on HostInv.  A commit compares and extends in one   *)
(* step (Admit) and replaces the file in a later one (Install).  What was  *)
(* compared still stands then, because only the host with the claim is     *)
(* past loading (Claimed), so nobody else can be between those steps       *)
(* (Extending).                                                            *)
(*                                                                         *)
(* The invariants of TurnInv speak of memory too: a host may hold records  *)
(* no commit has saved, but none that says what a restart must know        *)
(* (Stored); what a commit writes is what its purpose says (Writes); and   *)
(* at every place of a turn it is known which of a turn, a step and a      *)
(* request are open in memory, and in what is being written (Sound).  Then *)
(* whatever the file is replaced by can be recovered, which is what a      *)
(* restart begins from.                                                    *)
(***************************************************************************)
EXTENDS ManagedTurn, SubsequencesProofs

\* Past loading: with the claim.
Begun(s) == s.pc \notin {"idle", "loaded"}

Committing == {"commit", "write", "installed", "reconcile"}
Purposes   == {"recoverTurn", "recoverDraft", "intent", "settle", "end", "draft", "drafted"}

\* What a host has in memory has every field, and a commit its purpose.
Whole(s) == DOMAIN s = DOMAIN Fresh
Fits(s)  == Whole(s) /\ (s.pc \in Committing => s.then \in Purposes)
Shaped   == DOMAIN host = Host /\ \A h \in Host : Fits(host[h])

Claimed   == \A h \in Host : Begun(host[h]) <=> claim = h
Extending == \A h \in Host : At(h, "write") => IsPrefix(disk, host[h].cand)

HostInv == Shaped /\ Claimed /\ Extending

\* A state a working host may go to from any other: not the one before a rename.
Goes(s) == Fits(s) /\ Begun(s) /\ s.pc # "write"

-----------------------------------------------------------------------------
(***************************************************************************)
(* The states the helpers lead to.                                         *)
(***************************************************************************)
\* A host that calls a commit waits in it, with the purpose it names.
LEMMA ToCommitGoes ==
    ASSUME NEW s, NEW then \in Purposes, NEW cand, Whole(s)
    PROVE  Goes(ToCommit(s, then, cand))
BY DEF Whole, Fresh, ToCommit, Goes, Fits, Begun, Committing, Purposes

\* A step's and a turn's end are places outside any commit.
LEMMA EndsGo ==
    ASSUME NEW s, NEW result, Whole(s)
    PROVE  Goes(StepEnds(s, result)) /\ Goes(TurnEnds(s, result))
BY DEF Whole, Fresh, StepEnds, TurnEnds, Goes, Fits, Begun, Committing

\* A host between turns is outside any commit.
LEMMA RestedGoes ==
    ASSUME NEW s, NEW pc \in {"ready", "closed"}
    PROVE  Goes(Rested(s, pc))
BY DEF Whole, Fresh, Rested, Goes, Fits, Begun, Committing

\* Where a commit goes on is outside any commit.
LEMMA OnAckPlaces ==
    ASSUME NEW then \in Purposes
    PROVE  OnAck[then] \notin {"idle", "loaded"} \cup Committing
<1>1. OnAck["recoverTurn"] = "turn" /\ OnAck["recoverDraft"] = "draft"
  BY DEF OnAck
<1>2. OnAck["intent"] = "reserve" /\ OnAck["settle"] = "stepped"
  BY DEF OnAck
<1>3. OnAck["end"] = "returned" /\ OnAck["draft"] = "draftSend" /\ OnAck["drafted"] = "ready"
  BY DEF OnAck
<1> QED
  BY <1>1, <1>2, <1>3 DEF Purposes, Committing

\* An acknowledged commit goes on where its purpose says.
LEMMA AcknowledgedGoes ==
    ASSUME NEW h, Fits(host[h]), host[h].pc \in Committing
    PROVE  Goes(Acknowledged(h))
<1> DEFINE s == host[h]
           saved == [s EXCEPT !.pc = OnAck[s.then], !.log = s.cand, !.expected = s.cand,
                              !.cand = <<>>, !.then = "none"]
<1>1. OnAck[s.then] \notin {"idle", "loaded"} \cup Committing
  BY OnAckPlaces DEF Fits
<1>2. Goes(saved)
  BY <1>1 DEF Fits, Whole, Fresh, Goes, Begun, Committing
<1>3. Goes(Rested(saved, "ready"))
  BY RestedGoes
<1> QED
  BY <1>2, <1>3 DEF Acknowledged

\* So does one that failed.
LEMMA FailedGoes ==
    ASSUME NEW h, NEW halt, Fits(host[h]), host[h].pc \in Committing
    PROVE  Goes(Failed(h, halt))
<1> DEFINE s == host[h]
           kept == [s EXCEPT !.halt = halt, !.then = "none",
                          !.cand = IF halt = "frozen" THEN @ ELSE <<>>,
                          !.log = IF s.then # "settle" THEN @
                                  ELSE @ \o <<Rec("refusal", s.id, s.job),
                                              Rec("finished", s.id, s.job)>>]
<1>1. Whole(kept)
  BY DEF Fits, Whole
<1>2. Goes(TurnEnds(kept, "error"))
  BY <1>1, EndsGo
<1>3. Goes([kept EXCEPT !.pc = "returned", !.result = "error"])
  <2> HIDE DEF kept
  <2> QED
    BY <1>1 DEF Whole, Fresh, Goes, Fits, Begun, Committing
<1>4. Goes(Rested(s, IF halt = "frozen" THEN "closed" ELSE "ready"))
  BY RestedGoes
<1> QED
  BY <1>2, <1>3, <1>4 DEF Failed

-----------------------------------------------------------------------------
(***************************************************************************)
(* The steps.                                                              *)
(***************************************************************************)
\* A step of a host that has the claim, to a state outside the rename.
LEMMA StepKeeps ==
    ASSUME HostInv, NEW h \in Host, NEW s, Begun(host[h]), Goes(s), Step(h, s)
    PROVE  HostInv'
BY DEF HostInv, Shaped, Claimed, Extending, At, Goes, Fits, Whole, Begun, Step

\* The checks of a commit and its rename.
LEMMA WriteKeeps ==
    ASSUME HostInv, NEW h \in Host, Admit(h) \/ Install(h)
    PROVE  HostInv'
<1> USE DEF HostInv, Shaped
<1>1. CASE Admit(h)
  <2>1. CASE Admissible(h)
    <3> DEFINE s == host[h]
               t == [s EXCEPT !.pc = "write", !.halt = IF @ = "unsaved" THEN "spent" ELSE @]
    <3>1. Fits(t) /\ Begun(t) /\ t.cand = s.cand
      BY <1>1 DEF Admit, At, Fits, Whole, Fresh, Begun, Committing
    <3>2. Begun(s) /\ Step(h, t) /\ IsPrefix(disk, s.cand)
      BY <1>1, <2>1 DEF Admit, Admissible, At, Begun
    <3> HIDE DEF t
    <3> QED
      BY <3>1, <3>2 DEF Step, Claimed, Extending, At, Begun
  <2>2. CASE ~Admissible(h)
    BY <1>1, <2>2, FailedGoes, StepKeeps DEF Admit, At, Begun, Committing
  <2> QED
    BY <2>1, <2>2
<1>2. CASE Install(h)
  BY <1>2 DEF Install, Claimed, Extending, At, Fits, Whole, Fresh, Begun, Committing
<1> QED
  BY <1>1, <1>2

\* Every other step of a commit.
LEMMA CommitKeeps ==
    ASSUME HostInv, NEW h \in Host, Commit(h)
    PROVE  HostInv'
<1> USE DEF HostInv, Shaped, At, Committing, Begun
<1>1. CASE CommitHalted(h) \/ NotCommitted(h) \/ ReconcileFails(h)
  BY <1>1, FailedGoes, StepKeeps DEF CommitHalted, NotCommitted, ReconcileFails
<1>2. CASE Admit(h) \/ Install(h)
  BY <1>2, WriteKeeps
<1>3. CASE Acknowledge(h)
  BY <1>3, AcknowledgedGoes, StepKeeps DEF Acknowledge
<1>4. CASE OutcomeUnknown(h)
  <2>1. Goes([host[h] EXCEPT !.pc = "reconcile"])
    BY <1>4 DEF OutcomeUnknown, Goes, Fits, Whole, Fresh
  <2> QED
    BY <1>4, <2>1, StepKeeps DEF OutcomeUnknown
<1>5. CASE Reconcile(h)
  BY <1>5, AcknowledgedGoes, FailedGoes, StepKeeps DEF Reconcile
<1>6. CASE Doubt(h)
  <2> DEFINE s == host[h]
  <2>1. Goes([Rested(s, "ready") EXCEPT !.expected = disk])
    BY DEF Goes, Fits, Whole, Fresh, Rested
  <2>2. Goes(Rested(s, IF disk = s.expected THEN "ready" ELSE "closed"))
    BY RestedGoes
  <2> QED
    BY <1>6, <2>1, <2>2, StepKeeps DEF Doubt
<1>7. CASE DoubtStays(h)
  BY <1>7, RestedGoes, StepKeeps DEF DoubtStays
<1> QED
  BY <1>1, <1>2, <1>3, <1>4, <1>5, <1>6, <1>7 DEF Commit

\* A process that loads, claims, begins, lets go or dies.
LEMMA HoldingKeeps ==
    ASSUME HostInv, NEW h \in Host,
           Load(h) \/ Claim(h) \/ BeginTurn(h) \/ BeginDraft(h) \/ Release(h) \/ Crash(h)
    PROVE  HostInv'
<1> USE NoneAssumption DEF HostInv, Shaped, At, Begun, Fits, Whole, Fresh
<1>1. CASE Load(h)
  BY <1>1 DEF Load, Step, Claimed, Extending, Committing
<1>2. CASE Claim(h)
  BY <1>2 DEF Claim, Claimed, Extending, Committing
<1>3. CASE BeginTurn(h) \/ BeginDraft(h)
  <2>1. PICK pc \in {"recoverTurn", "recoverDraft"} : Begin(h, pc)
    BY <1>3 DEF BeginTurn, BeginDraft
  <2> DEFINE t == [host[h] EXCEPT !.pc = pc, !.job = work + 1, !.halt = "running",
                                  !.result = "none", !.stop = FALSE]
  <2>2. Fits(t) /\ Begun(t) /\ t.pc # "write"
    BY DEF Committing
  <2>3. host' = [host EXCEPT ![h] = t] /\ UNCHANGED <<disk, claim>> /\ Begun(host[h])
    BY <2>1 DEF Begin
  <2> HIDE DEF t
  <2> QED
    BY <2>2, <2>3 DEF Claimed, Extending
<1>4. CASE Release(h)
  BY <1>4 DEF Release, Claimed, Extending, Committing
<1>5. CASE Crash(h)
  BY <1>5 DEF Crash, Claimed, Extending, Committing
<1> QED
  BY <1>1, <1>2, <1>3, <1>4, <1>5

\* A turn: recovery, the steps, what comes back, and the ending.
LEMMA TurnKeeps ==
    ASSUME HostInv, NEW h \in Host, Work(h) \/ Stop(h), ~Commit(h)
    PROVE  HostInv'
<1> DEFINE s == host[h]
<1>0. Whole(s) /\ Fits(s)
  BY DEF HostInv, Shaped, Fits
<1>s. ASSUME NEW t, Begun(s), Goes(t), Step(h, t) PROVE HostInv'
  BY <1>s, StepKeeps
<1>1. CASE Recover(h)
  <2>0. OnAck[s.pc] \notin {"idle", "loaded"} \cup Committing
    BY <1>1, OnAckPlaces DEF Recover, Purposes
  <2>1. Goes([s EXCEPT !.pc = OnAck[s.pc]])
    BY <1>0, <2>0 DEF Goes, Fits, Whole, Fresh, Begun, Committing
  <2>2. Goes(ToCommit(s, s.pc, s.log \o Recovery(s.log, s.job)))
    BY <1>0, <1>1, ToCommitGoes DEF Recover, Purposes
  <2> QED
    BY <1>1, <1>s, <2>1, <2>2 DEF Recover, Begun
<1>2. CASE StartTurn(h) \/ Stop(h) \/ Reserve(h) \/ EndStep(h) \/ Settle(h) \/ Return(h)
  BY <1>0, <1>2, <1>s, RestedGoes
     DEF StartTurn, Stop, InTurn, Reserve, EndStep, Settle, Return, Adds, At, Goes, Fits, Whole,
         Fresh, Begun, Committing
<1>3. CASE TopStopped(h) \/ PrepareFails(h) \/ EndStepRefused(h) \/ ReplyFailed(h)
  BY <1>0, <1>3, <1>s, EndsGo DEF TopStopped, PrepareFails, EndStepRefused, ReplyFailed, At, Begun
<1>4. CASE \E auto \in BOOLEAN : Prepare(h, auto)
  <2>1. Whole([s EXCEPT !.steps = @ + 1, !.id = Len(s.log) + 1])
    BY <1>0 DEF Whole
  <2>2. "intent" \in Purposes
    BY DEF Purposes
  <2> QED
    BY <1>4, <1>s, <2>1, <2>2, ToCommitGoes DEF Prepare, At, Begun
<1>5. CASE ReserveRefused(h)
  <2>1. Whole(Adds(s, "finished"))
    BY <1>0 DEF Whole, Adds
  <2> QED
    BY <1>5, <1>s, <2>1, EndsGo DEF ReserveRefused, At, Begun
<1>6. CASE Send(h)
  <2>1. Goes([s EXCEPT !.pc = "reply"])
    BY <1>0 DEF Goes, Fits, Whole, Fresh, Begun, Committing
  <2> QED
    BY <1>0, <1>6, <1>s, <2>1, EndsGo DEF Send, At, Begun
<1>7. CASE \E result \in {"final", "tools", "interrupted"}, staged \in BOOLEAN :
             Reply(h, result, staged)
  <2>1. PICK result \in {"final", "tools", "interrupted"}, staged \in BOOLEAN :
          Reply(h, result, staged)
    BY <1>7
  <2>2. Whole(Adds(s, "answer"))
    BY <1>0 DEF Whole, Adds
  <2>3. Goes(StepEnds(Adds(s, "answer"), result))
    BY <2>2, EndsGo
  <2>4. Goes([StepEnds(Adds(s, "answer"), result) EXCEPT !.staged = staged])
    BY <2>3 DEF Goes, Fits, Whole, Fresh, Begun
  <2> QED
    BY <1>s, <2>1, <2>4 DEF Reply, At, Begun
<1>8. CASE \E accepted \in BOOLEAN : Propose(h, accepted)
  <2>1. Whole([s EXCEPT !.staged = FALSE])
    BY <1>0 DEF Whole
  <2>2. "settle" \in Purposes
    BY DEF Purposes
  <2> QED
    BY <1>8, <1>s, <2>1, <2>2, ToCommitGoes DEF Propose, At, Begun
<1>9. CASE Stepped(h)
  <2>1. Goes([s EXCEPT !.pc = "top", !.id = 0, !.result = "none"])
    BY <1>0 DEF Goes, Fits, Whole, Fresh, Begun, Committing
  <2> QED
    BY <1>0, <1>9, <1>s, <2>1, EndsGo DEF Stepped, At, Begun
<1>10. CASE Ending(h) \/ EndingRefused(h)
  <2>1. Whole(Ended(s)) /\ Whole([s EXCEPT !.result = "error"])
    BY <1>0 DEF Whole, Ended
  <2>2. "end" \in Purposes
    BY DEF Purposes
  <2> QED
    BY <1>10, <1>s, <2>1, <2>2, ToCommitGoes DEF Ending, EndingRefused, At, Begun
<1>11. CASE Draft(h)
  <2>1. Whole([s EXCEPT !.id = Len(s.log) + 1])
    BY <1>0 DEF Whole
  <2>2. "draft" \in Purposes
    BY DEF Purposes
  <2> QED
    BY <1>11, <1>s, <2>1, <2>2, ToCommitGoes, RestedGoes DEF Draft, At, Begun
<1>12. CASE DraftSend(h)
  <2>1. "drafted" \in Purposes
    BY DEF Purposes
  <2> QED
    BY <1>0, <1>12, <1>s, <2>1, ToCommitGoes DEF DraftSend, At, Begun
<1> QED
  BY <1>1, <1>2, <1>3, <1>4, <1>5, <1>6, <1>7, <1>8, <1>9, <1>10, <1>11, <1>12 DEF Work

\* The invariant holds from the start, when nobody has anything in memory.
LEMMA HostInvInit == Init => HostInv
BY NoneAssumption DEF Init, HostInv, Shaped, Claimed, Extending, At, Fits, Whole, Fresh, Begun,
                      Committing

\* Every step keeps it.
LEMMA HostInvNext == HostInv /\ [Next]_vars => HostInv'
<1> SUFFICES ASSUME HostInv, [Next]_vars PROVE HostInv'
  OBVIOUS
<1>1. CASE Next
  BY <1>1, CommitKeeps, HoldingKeeps, TurnKeeps DEF Next
<1>2. CASE UNCHANGED vars
  BY <1>2 DEF vars, HostInv, Shaped, Claimed, Extending, At
<1> QED
  BY <1>1, <1>2

\* The claim is one host's, and only it is past loading.
THEOREM HostInvariant == Spec => []HostInv
BY HostInvInit, HostInvNext, PTL DEF Spec

-----------------------------------------------------------------------------
\* Only the rename of a commit changes the file, and it extends it.
LEMMA DiskChanges ==
    ASSUME HostInv, [Next]_vars, disk' # disk
    PROVE  IsPrefix(disk, disk')
<1>1. PICK h \in Host : Work(h) \/ Stop(h) \/ Load(h) \/ Claim(h) \/ BeginTurn(h)
                        \/ BeginDraft(h) \/ Release(h) \/ Crash(h)
  BY DEF Next, vars
<1>2. Work(h)
  BY <1>1 DEF Stop, Load, Claim, BeginTurn, BeginDraft, Begin, Release, Crash, Step
<1>3. Commit(h)
  BY <1>2 DEF Work, Step, Recover, StartTurn, TopStopped, PrepareFails, Prepare, Reserve,
              ReserveRefused, Send, ReplyFailed, Reply, EndStep, EndStepRefused, Settle, Propose,
              Stepped, Ending, EndingRefused, Return, Draft, DraftSend
<1>4. Install(h)
  BY <1>3 DEF Commit, Step, CommitHalted, Admit, NotCommitted, Acknowledge, OutcomeUnknown,
              Reconcile, ReconcileFails, Doubt, DoubtStays
<1> QED
  BY <1>4 DEF HostInv, Extending, Install

\* What is stored is never changed or dropped, by any number of processes.
THEOREM DiskOnlyGrowsAlways == Spec => DiskOnlyGrows
<1>1. HostInv /\ [Next]_vars => [IsPrefix(disk, disk')]_disk
  BY DiskChanges
<1> QED
  BY <1>1, HostInvariant, PTL DEF Spec, DiskOnlyGrows
-----------------------------------------------------------------------------
(***************************************************************************)
(* What the other properties rest on: what a log says of the requests in   *)
(* it, and what a host's memory may hold wherever it stands.               *)
(***************************************************************************)
Record == [is : RecordKinds, of : Nat, job : 0..MaxWork]

Places ==
    {"idle", "loaded", "ready", "closed", "recoverTurn", "recoverDraft", "turn", "draft",
     "draftSend", "top", "commit", "write", "installed", "reconcile", "reserve", "send",
     "reply", "stepEnd", "settle", "stepped", "ending", "returned", "doubt"}

State ==
    [pc : Places, log : Seq(Record), expected : Seq(Record), cand : Seq(Record),
     then : Purposes \cup {"none"}, halt : {"running", "unsaved", "spent", "frozen"},
     job : 0..MaxWork, id : Nat, staged : BOOLEAN, steps : Nat, stop : BOOLEAN,
     result : {"none", "final", "tools", "interrupted", "error", "ended"}]

Typed ==
    /\ host \in [Host -> State] /\ disk \in Seq(Record)
    /\ sent \subseteq Nat /\ unended \in BOOLEAN
    /\ work \in 0..MaxWork /\ faults \in 0..MaxFaults

\* Every request of a log was finished, but perhaps the one named.
Answered(log)       == \A r \in Range(log) : r.is = "intent" => Has(log, "finished", r.of)
AnsweredBut(log, n) ==
    \A r \in Range(log) : r.is = "intent" => r.of = n \/ Has(log, "finished", r.of)

\* A turn ended with every request before its end finished before it.
EndsClean(log) ==
    \A i, j \in DOMAIN log :
        log[i].is = "intent" /\ log[j].is = "turnEnd" /\ i < j
            => \E k \in 1..j : log[k].is = "finished" /\ log[k].of = log[i].of

\* A log a host may have to recover: only an open turn leaves a request.
Recoverable(log) == EndsClean(log) /\ (Answered(log) \/ TurnOpen(log))

\* The records that say what a restart must know.
Weighty == {"intent", "draftIntent", "revision"}

\* No turn takes a step too many.
Budgeted(h, s) == s.steps <= StepBudget[h] /\ (s.pc = "top" => s.steps < StepBudget[h])

\* What a log says of intents and revisions is stored, and where a request is
\* about to be sent its intent is.
Stored(s) ==
    /\ \A r \in Range(s.log) : r.is \in Weighty => r \in Range(disk)
    /\ s.pc \in {"reserve", "send"} => Has(disk, "intent", s.id)
    /\ s.pc = "draftSend" => Has(disk, "draftIntent", s.id)

\* What a commit is about: a request's is the request, an ending's an ending.
Writes(s) ==
    /\ s.pc = "installed" => disk = s.cand
    /\ s.pc \in {"write", "installed", "reconcile"} => s.halt # "frozen"
    /\ s.pc \in Committing /\ s.halt # "frozen" =>
           /\ s.then = "intent" => Has(s.cand, "intent", s.id)
           /\ s.then = "draft" => Has(s.cand, "draftIntent", s.id)
           /\ s.then = "end" /\ s.result # "error" => ~TurnOpen(s.cand)
    /\ s.pc = "returned" /\ s.result # "error" => disk = s.log /\ ~TurnOpen(s.log)

\* How much of a turn is open in memory, and in what a commit writes.
Sound(s) ==
    /\ Recoverable(s.log) /\ Recoverable(s.cand)
    /\ ~StepOpen(s.cand) /\ (s.pc \notin {"send", "reply", "stepEnd"} => ~StepOpen(s.log))
    /\ s.pc \in {"turn", "draft", "top", "stepped", "ending"} => Answered(s.log)
    /\ s.pc \in {"top", "stepped", "ending", "reserve", "send", "reply", "stepEnd", "settle"}
           => TurnOpen(s.log)
    /\ s.pc \in {"reserve", "send", "reply", "stepEnd", "settle"} => AnsweredBut(s.log, s.id)
    /\ s.pc \in Committing =>
           /\ s.then \in {"intent", "end"} => Answered(s.log)
           /\ s.then \in {"intent", "settle"} => TurnOpen(s.log)
           /\ s.then = "settle" => AnsweredBut(s.log, s.id)
    /\ s.pc \in Committing /\ s.halt # "frozen" =>
           /\ s.then \in {"recoverTurn", "recoverDraft", "settle"} => Answered(s.cand)
           /\ s.then \in {"intent", "settle"} => TurnOpen(s.cand)
           /\ s.then = "intent" => AnsweredBut(s.cand, s.id)

\* All of it, where no ending was refused; partial says that one was.
Remembers(h, s, partial) ==
    /\ s \in State /\ Budgeted(h, s) /\ Stored(s) /\ Writes(s)
    /\ ~partial => Sound(s)

TurnInv ==
    /\ Typed
    /\ \A h \in Host : Remembers(h, host[h], unended)
    /\ \A n \in sent : Has(disk, "intent", n) \/ Has(disk, "draftIntent", n)
    /\ ~unended => Recoverable(disk) /\ ~StepOpen(disk)

-----------------------------------------------------------------------------
(***************************************************************************)
(* Records and logs.                                                       *)
(***************************************************************************)
LEMMA RecTyped ==
    ASSUME NEW kind \in RecordKinds, NEW n \in Nat, NEW job \in 0..MaxWork
    PROVE  /\ Rec(kind, n, job) \in Record
           /\ Rec(kind, n, job).is = kind /\ Rec(kind, n, job).of = n
BY DEF Rec, Record

\* What is last of some kinds: nothing, or the last of them.
LEMMA LastOf ==
    ASSUME NEW log \in Seq(Record), NEW kinds
    PROVE  /\ LastAt(log, kinds) \in 0..Len(log)
           /\ LastAt(log, kinds) # 0 => log[LastAt(log, kinds)].is \in kinds
           /\ \A i \in DOMAIN log : log[i].is \in kinds => i <= LastAt(log, kinds)
<1> DEFINE at == {i \in DOMAIN log : log[i].is \in kinds}
<1>1. CASE at = {}
  BY <1>1 DEF LastAt
<1>2. CASE at # {}
  <2> DEFINE gaps == {n \in Nat : Len(log) - n \in at}
  <2>1. Len(log) \in Nat /\ DOMAIN log = 1..Len(log)
    OBVIOUS
  <2>2. PICK k \in at : TRUE
    BY <1>2
  <2>3. Len(log) - k \in gaps
    BY <2>1, <2>2
  <2>4. gaps \in SUBSET Nat /\ gaps # {}
    BY <2>3
  <2>5. PICK n \in gaps : \A m \in gaps : n <= m
    <3> HIDE DEF gaps
    <3> QED
      BY <2>4, Least
  <2>6. \A j \in at : Len(log) - j \in gaps
    BY <2>1
  <2>7. ASSUME NEW j \in at PROVE j <= Len(log) - n
    <3>1. Len(log) - j \in gaps
      BY <2>6
    <3>2. n <= Len(log) - j
      <4> HIDE DEF gaps, at
      <4> QED
        BY <2>5, <3>1
    <3> QED
      BY <2>1, <2>4, <3>2
  <2>8. PICK l : l = LastAt(log, kinds)
    OBVIOUS
  <2>9. l \in at /\ \A j \in at : j <= l
    <3>1. Len(log) - n \in at
      BY <2>5
    <3>2. l = CHOOSE i \in at : \A j \in at : j <= i
      BY <1>2, <2>8 DEF LastAt
    <3> QED
      BY <2>7, <3>1, <3>2
  <2> QED
    BY <2>1, <2>8, <2>9
<1> QED
  BY <1>1, <1>2

\* Something begun with one of some kinds is open: it has not ended since.
Open(log, begins, ends) ==
    \E i \in DOMAIN log :
        log[i].is \in begins /\ \A j \in DOMAIN log : log[j].is \in ends => j < i

\* Open by the last records is open: a beginning no end comes after.
LEMMA OpenMeans ==
    ASSUME NEW log \in Seq(Record), NEW begins, NEW ends, begins \cap ends = {}
    PROVE  LastAt(log, begins) > LastAt(log, ends) <=> Open(log, begins, ends)
<1> DEFINE b == LastAt(log, begins)
           e == LastAt(log, ends)
<1>1. /\ b \in 0..Len(log) /\ (b # 0 => log[b].is \in begins)
      /\ \A i \in DOMAIN log : log[i].is \in begins => i <= b
  BY LastOf
<1>2. /\ e \in 0..Len(log) /\ (e # 0 => log[e].is \in ends)
      /\ \A i \in DOMAIN log : log[i].is \in ends => i <= e
  BY LastOf
<1>3. Len(log) \in Nat /\ DOMAIN log = 1..Len(log)
  OBVIOUS
<1> HIDE DEF b, e
<1>4. ASSUME b > e PROVE Open(log, begins, ends)
  <2>1. b \in DOMAIN log /\ log[b].is \in begins
    BY <1>1, <1>2, <1>3, <1>4
  <2>2. \A j \in DOMAIN log : log[j].is \in ends => j < b
    BY <1>1, <1>2, <1>3, <1>4
  <2> QED
    BY <2>1, <2>2 DEF Open
<1>5. ASSUME Open(log, begins, ends) PROVE b > e
  <2>1. PICK i \in DOMAIN log :
          log[i].is \in begins /\ \A j \in DOMAIN log : log[j].is \in ends => j < i
    BY <1>5 DEF Open
  <2>2. i <= b /\ i \in 1..Len(log)
    BY <1>1, <1>3, <2>1
  <2>3. e # 0 => e < i
    BY <1>2, <1>3, <2>1
  <2> QED
    BY <1>1, <1>2, <2>2, <2>3
<1> QED
  BY <1>4, <1>5 DEF b, e

\* An open turn and an open step.
LEMMA TurnOpenMeans ==
    ASSUME NEW log \in Seq(Record)
    PROVE  TurnOpen(log) <=> Open(log, {"turnStart"}, {"turnEnd"})
BY OpenMeans DEF TurnOpen

\* And a step.
LEMMA StepOpenMeans ==
    ASSUME NEW log \in Seq(Record)
    PROVE  StepOpen(log) <=> Open(log, {"stepStart"}, {"stepEnd", "turnEnd"})
BY OpenMeans DEF StepOpen

\* Where the records of a longer log are.
LEMMA Appended ==
    ASSUME NEW log \in Seq(Record), NEW r \in Record
    PROVE  LET u == Append(log, r)
           IN  /\ u \in Seq(Record) /\ Len(u) \in Nat /\ Len(u) \in DOMAIN u /\ u[Len(u)] = r
               /\ \A i \in DOMAIN log : i \in DOMAIN u /\ u[i] = log[i] /\ i < Len(u) /\ i \in Nat
               /\ \A i \in DOMAIN u : i \in DOMAIN log \/ i = Len(u)
               /\ \A i, j \in DOMAIN u : i < j => i \in DOMAIN log
               /\ \A j \in DOMAIN log : \A k \in 1..j : k \in DOMAIN log /\ k \in DOMAIN u
               /\ \A k \in DOMAIN log : k \in 1..Len(u)
<1> DEFINE u == Append(log, r)
<1>1. /\ u \in Seq(Record) /\ Len(u) \in Nat /\ Len(u) \in DOMAIN u /\ u[Len(u)] = r
      /\ \A i \in DOMAIN log : i \in DOMAIN u /\ u[i] = log[i] /\ i < Len(u) /\ i \in Nat
      /\ \A i \in DOMAIN u : i \in DOMAIN log \/ i = Len(u)
  OBVIOUS
<1>2. DOMAIN log = 1..Len(log) /\ DOMAIN u = 1..Len(u) /\ Len(log) \in Nat /\ Len(u) \in Nat
  OBVIOUS
<1>3. \A i, j \in DOMAIN u : i < j => i \in DOMAIN log
  <2> HIDE DEF u
  <2> QED
    BY <1>1, <1>2
<1>4. /\ \A j \in DOMAIN log : \A k \in 1..j : k \in DOMAIN log /\ k \in DOMAIN u
      /\ \A k \in DOMAIN log : k \in 1..Len(u)
  <2> HIDE DEF u
  <2> QED
    BY <1>1, <1>2
<1> QED
  BY <1>1, <1>3, <1>4

\* What one more record does to what is open.
LEMMA OpenAppend ==
    ASSUME NEW log \in Seq(Record), NEW r \in Record, NEW begins, NEW ends, begins \cap ends = {}
    PROVE  Open(Append(log, r), begins, ends)
               <=> r.is \in begins \/ (Open(log, begins, ends) /\ r.is \notin ends)
<1> DEFINE u == Append(log, r)
<1>1. /\ u \in Seq(Record) /\ Len(u) \in Nat /\ Len(u) \in DOMAIN u /\ u[Len(u)] = r
      /\ \A i \in DOMAIN log : i \in DOMAIN u /\ u[i] = log[i] /\ i < Len(u) /\ i \in Nat
      /\ \A i \in DOMAIN u : i \in DOMAIN log \/ i = Len(u)
  BY Appended
<1> HIDE DEF u
<1>2. ASSUME r.is \in begins PROVE Open(u, begins, ends)
  <2>1. \A j \in DOMAIN u : u[j].is \in ends => j < Len(u)
    BY <1>1, <1>2
  <2> QED
    BY <1>1, <1>2, <2>1 DEF Open
<1>3. ASSUME Open(log, begins, ends), r.is \notin ends PROVE Open(u, begins, ends)
  BY <1>1, <1>3 DEF Open
<1>4. ASSUME Open(u, begins, ends), r.is \notin begins
      PROVE  Open(log, begins, ends) /\ r.is \notin ends
  <2>1. PICK i \in DOMAIN u : u[i].is \in begins /\ \A j \in DOMAIN u : u[j].is \in ends => j < i
    BY <1>4 DEF Open
  <2>2. i \in DOMAIN log
    BY <1>1, <1>4, <2>1
  <2>3. r.is \notin ends
    BY <1>1, <2>1, <2>2
  <2>4. log[i].is \in begins /\ \A j \in DOMAIN log : log[j].is \in ends => j < i
    BY <1>1, <2>1, <2>2
  <2> QED
    BY <2>2, <2>3, <2>4 DEF Open
<1> QED
  BY <1>2, <1>3, <1>4 DEF u

\* What one more record does to what a log says.
LEMMA AppendSays ==
    ASSUME NEW log \in Seq(Record), NEW r \in Record
    PROVE  /\ Append(log, r) \in Seq(Record) /\ Range(Append(log, r)) = Range(log) \cup {r}
           /\ TurnOpen(Append(log, r))
                  <=> r.is = "turnStart" \/ (TurnOpen(log) /\ r.is # "turnEnd")
           /\ StepOpen(Append(log, r))
                  <=> r.is = "stepStart" \/ (StepOpen(log) /\ r.is \notin {"stepEnd", "turnEnd"})
<1>1. Append(log, r) \in Seq(Record)
  OBVIOUS
<1>2. Range(Append(log, r)) = Range(log) \cup {r}
  <2>1. \A i \in DOMAIN Append(log, r) : Append(log, r)[i] \in Range(log) \cup {r}
    BY DEF Range
  <2>2. \A i \in DOMAIN log : i \in DOMAIN Append(log, r) /\ Append(log, r)[i] = log[i]
    OBVIOUS
  <2>3. Len(log) + 1 \in DOMAIN Append(log, r) /\ Append(log, r)[Len(log) + 1] = r
    OBVIOUS
  <2> QED
    BY <2>1, <2>2, <2>3 DEF Range
<1>3. TurnOpen(Append(log, r)) <=> r.is = "turnStart" \/ (TurnOpen(log) /\ r.is # "turnEnd")
  BY ZenonT(30), <1>1, TurnOpenMeans, OpenAppend
<1>4. StepOpen(Append(log, r))
        <=> r.is = "stepStart" \/ (StepOpen(log) /\ r.is \notin {"stepEnd", "turnEnd"})
  <2>1. {"stepStart"} \cap {"stepEnd", "turnEnd"} = {}
    OBVIOUS
  <2> QED
    BY <1>1, <2>1, StepOpenMeans, OpenAppend
<1> QED
  BY <1>1, <1>2, <1>3, <1>4

\* What one more record adds to what a log has.
LEMMA HasAppend ==
    ASSUME NEW log \in Seq(Record), NEW r \in Record, NEW kind, NEW n
    PROVE  Has(Append(log, r), kind, n) <=> Has(log, kind, n) \/ (r.is = kind /\ r.of = n)
<1>1. Range(Append(log, r)) = Range(log) \cup {r}
  BY AppendSays
<1> QED
  BY <1>1 DEF Has

\* No request is left: nor is one by what is no request, and what finishes the
\* one that is left leaves none.
LEMMA AnsweredAppend ==
    ASSUME NEW log \in Seq(Record), NEW r \in Record
    PROVE  /\ Answered(log) /\ r.is # "intent" => Answered(Append(log, r))
           /\ Answered(log) /\ r.is = "intent" => AnsweredBut(Append(log, r), r.of)
           /\ \A n : AnsweredBut(log, n) /\ r.is # "intent" => AnsweredBut(Append(log, r), n)
           /\ AnsweredBut(log, r.of) /\ r.is = "finished" => Answered(Append(log, r))
<1>1. Range(Append(log, r)) = Range(log) \cup {r}
  BY AppendSays
<1>2. \A n : Has(log, "finished", n) => Has(Append(log, r), "finished", n)
  BY HasAppend
<1>3. r.is = "finished" => Has(Append(log, r), "finished", r.of)
  BY HasAppend
<1>4. r.is = "finished" => r.is # "intent"
  OBVIOUS
<1> QED
  BY <1>1, <1>2, <1>3, <1>4 DEF Answered, AnsweredBut

\* A turn may end where no request is left.
LEMMA EndsAppend ==
    ASSUME NEW log \in Seq(Record), NEW r \in Record, EndsClean(log),
           r.is = "turnEnd" => Answered(log)
    PROVE  EndsClean(Append(log, r))
<1> DEFINE u == Append(log, r)
<1>1. /\ u \in Seq(Record) /\ Len(u) \in Nat /\ Len(u) \in DOMAIN u /\ u[Len(u)] = r
      /\ \A i \in DOMAIN log : i \in DOMAIN u /\ u[i] = log[i] /\ i < Len(u) /\ i \in Nat
      /\ \A i \in DOMAIN u : i \in DOMAIN log \/ i = Len(u)
  BY Appended
<1>0. /\ \A i, j \in DOMAIN u : i < j => i \in DOMAIN log
      /\ \A j \in DOMAIN log : \A k \in 1..j : k \in DOMAIN log /\ k \in DOMAIN u
      /\ \A k \in DOMAIN log : k \in 1..Len(u)
  BY Appended
<1> HIDE DEF u
<1> SUFFICES ASSUME NEW i \in DOMAIN u, NEW j \in DOMAIN u,
                    u[i].is = "intent", u[j].is = "turnEnd", i < j
             PROVE  \E k \in 1..j : u[k].is = "finished" /\ u[k].of = u[i].of
  BY DEF EndsClean, u
<1>2. i \in DOMAIN log /\ u[i] = log[i]
  <2>1. i \in DOMAIN log
    BY <1>0
  <2> QED
    BY <1>1, <2>1
<1>3. CASE j \in DOMAIN log
  <2>0. log[i].is = "intent" /\ log[j].is = "turnEnd"
    BY <1>1, <1>2, <1>3
  <2>1. PICK k \in 1..j : log[k].is = "finished" /\ log[k].of = log[i].of
    <3>1. \A m, n \in DOMAIN log :
            log[m].is = "intent" /\ log[n].is = "turnEnd" /\ m < n
                => \E k \in 1..n : log[k].is = "finished" /\ log[k].of = log[m].of
      BY DEF EndsClean
    <3> QED
      BY <1>2, <1>3, <2>0, <3>1
  <2>2. k \in DOMAIN log
    BY <1>0, <1>3
  <2> QED
    BY <1>1, <1>2, <2>1, <2>2
<1>4. CASE j = Len(u)
  <2>1. log[i] \in Range(log)
    BY <1>2 DEF Range
  <2>2. Has(log, "finished", log[i].of)
    BY <1>1, <1>2, <1>4, <2>1 DEF Answered
  <2>3. PICK k \in DOMAIN log : log[k].is = "finished" /\ log[k].of = log[i].of
    BY <2>2 DEF Has, Range
  <2>4. k \in 1..j /\ u[k] = log[k]
    BY <1>0, <1>1, <1>4, <2>3
  <2> QED
    BY <1>2, <2>3, <2>4
<1> QED
  BY <1>1, <1>3, <1>4

\* A log that may have to be recovered stays one.
LEMMA RecoverableAppend ==
    ASSUME NEW log \in Seq(Record), NEW r \in Record, Recoverable(log),
           r.is = "turnEnd" => Answered(log),
           r.is = "intent" => TurnOpen(log)
    PROVE  Recoverable(Append(log, r))
BY EndsAppend, AnsweredAppend, AppendSays DEF Recoverable

\* An empty log, too.
LEMMA EmptySays ==
    /\ <<>> \in Seq(Record) /\ Recoverable(<<>>) /\ ~StepOpen(<<>>) /\ ~TurnOpen(<<>>)
    /\ Answered(<<>>) /\ Range(<<>>) = {}
<1>1. <<>> \in Seq(Record)
  BY EmptySeq
<1>2. Range(<<>>) = {}
  BY DEF Range
<1>3. ~StepOpen(<<>>) /\ ~TurnOpen(<<>>)
  <2>1. DOMAIN <<>> = {}
    OBVIOUS
  <2> QED
    BY <1>1, <2>1, StepOpenMeans, TurnOpenMeans DEF Open
<1>4. Answered(<<>>) /\ EndsClean(<<>>)
  BY <1>2 DEF Answered, EndsClean
<1> QED
  BY <1>1, <1>2, <1>3, <1>4 DEF Recoverable

-----------------------------------------------------------------------------
(***************************************************************************)
(* Recovery.                                                               *)
(***************************************************************************)
\* Where the records of two logs, one after the other, are.
LEMMA Joined ==
    ASSUME NEW log \in Seq(Record), NEW more \in Seq(Record)
    PROVE  LET u == log \o more
           IN  /\ u \in Seq(Record) /\ Len(u) = Len(log) + Len(more)
               /\ \A i \in DOMAIN log : i \in DOMAIN u /\ u[i] = log[i] /\ i <= Len(log)
               /\ \A k \in DOMAIN more : Len(log) + k \in DOMAIN u /\ u[Len(log) + k] = more[k]
               /\ \A i \in DOMAIN u :
                      i \in DOMAIN log \/ \E k \in DOMAIN more : i = Len(log) + k /\ u[i] = more[k]
               /\ DOMAIN log = 1..Len(log) /\ DOMAIN more = 1..Len(more) /\ DOMAIN u = 1..Len(u)
               /\ Len(log) \in Nat /\ Len(more) \in Nat /\ Len(u) \in Nat
<1> DEFINE u == log \o more
<1>1. u \in Seq(Record) /\ Len(u) = Len(log) + Len(more)
  OBVIOUS
<1>2. /\ Len(log) \in Nat /\ Len(more) \in Nat /\ Len(u) \in Nat
      /\ DOMAIN log = 1..Len(log) /\ DOMAIN more = 1..Len(more) /\ DOMAIN u = 1..Len(u)
  BY <1>1
<1>3. \A i \in DOMAIN log : i \in DOMAIN u /\ u[i] = log[i] /\ i <= Len(log)
  OBVIOUS
<1>4. \A k \in DOMAIN more : Len(log) + k \in DOMAIN u /\ u[Len(log) + k] = more[k]
  OBVIOUS
<1>5. \A i \in DOMAIN u : i \in DOMAIN log \/ i - Len(log) \in DOMAIN more
  <2> HIDE DEF u
  <2> QED
    BY <1>1, <1>2
<1>6. \A i \in DOMAIN u :
          i \in DOMAIN log \/ \E k \in DOMAIN more : i = Len(log) + k /\ u[i] = more[k]
  <2> SUFFICES ASSUME NEW i \in DOMAIN u, i - Len(log) \in DOMAIN more
               PROVE  \E k \in DOMAIN more : i = Len(log) + k /\ u[i] = more[k]
    BY <1>5
  <2> HIDE DEF u
  <2>1. i = Len(log) + (i - Len(log))
    BY <1>2
  <2> QED
    BY <1>4, <2>1
<1> QED
  BY <1>1, <1>2, <1>3, <1>4, <1>6

\* What begins nothing, ends a turn at most with its last record, and finishes
\* what was left, mends a log in which no step is open.
LEMMA Mends ==
    ASSUME NEW log \in Seq(Record), NEW more \in Seq(Record), EndsClean(log), ~StepOpen(log),
           \A i \in DOMAIN more : /\ more[i].is \notin {"intent", "turnStart", "stepStart"}
                                  /\ more[i].is = "turnEnd" => i = Len(more),
           \A r \in Range(log) : r.is = "intent" => Has(log \o more, "finished", r.of)
    PROVE  /\ log \o more \in Seq(Record) /\ Answered(log \o more) /\ EndsClean(log \o more)
           /\ ~StepOpen(log \o more)
<1> DEFINE u == log \o more
<1>1. /\ u \in Seq(Record) /\ Len(u) = Len(log) + Len(more)
      /\ \A i \in DOMAIN log : i \in DOMAIN u /\ u[i] = log[i] /\ i <= Len(log)
      /\ \A k \in DOMAIN more : Len(log) + k \in DOMAIN u /\ u[Len(log) + k] = more[k]
      /\ \A i \in DOMAIN u :
             i \in DOMAIN log \/ \E k \in DOMAIN more : i = Len(log) + k /\ u[i] = more[k]
      /\ DOMAIN log = 1..Len(log) /\ DOMAIN more = 1..Len(more) /\ DOMAIN u = 1..Len(u)
      /\ Len(log) \in Nat /\ Len(more) \in Nat /\ Len(u) \in Nat
  BY Joined
<1>0. \A r \in Range(log) : r.is = "intent" => Has(u, "finished", r.of)
  OBVIOUS
<1> HIDE DEF u
<1>2. \A i \in DOMAIN u : u[i].is \in {"intent", "stepStart"} => i \in DOMAIN log
  BY <1>1
<1>3. Answered(u)
  <2> SUFFICES ASSUME NEW i \in DOMAIN u, u[i].is = "intent"
               PROVE  Has(u, "finished", u[i].of)
    BY DEF Answered, Range
  <2>1. i \in DOMAIN log /\ u[i] = log[i]
    BY <1>1, <1>2
  <2>2. log[i] \in Range(log)
    BY <2>1 DEF Range
  <2> QED
    BY <1>0, <2>1, <2>2
<1>4. EndsClean(u)
  <2> SUFFICES ASSUME NEW i \in DOMAIN u, NEW j \in DOMAIN u,
                      u[i].is = "intent", u[j].is = "turnEnd", i < j
               PROVE  \E k \in 1..j : u[k].is = "finished" /\ u[k].of = u[i].of
    BY DEF EndsClean
  <2>1. i \in DOMAIN log /\ u[i] = log[i]
    BY <1>1, <1>2
  <2>2. CASE j \in DOMAIN log
    <3>0. log[i].is = "intent" /\ log[j].is = "turnEnd"
      BY <1>1, <2>1, <2>2
    <3>1. PICK k \in 1..j : log[k].is = "finished" /\ log[k].of = log[i].of
      <4>1. \A m, n \in DOMAIN log :
              log[m].is = "intent" /\ log[n].is = "turnEnd" /\ m < n
                  => \E k \in 1..n : log[k].is = "finished" /\ log[k].of = log[m].of
        BY DEF EndsClean
      <4> QED
        BY <2>1, <2>2, <3>0, <4>1
    <3>2. k \in DOMAIN log
      BY <1>1, <2>2
    <3> QED
      BY <1>1, <2>1, <3>1, <3>2
  <2>3. CASE j \notin DOMAIN log
    <3>1. j = Len(u)
      BY <1>1, <2>3
    <3>2. Has(u, "finished", u[i].of)
      BY <1>3 DEF Answered, Range
    <3>3. PICK k \in DOMAIN u : u[k].is = "finished" /\ u[k].of = u[i].of
      BY <3>2 DEF Has, Range
    <3> QED
      BY <1>1, <3>1, <3>3
  <2> QED
    BY <2>2, <2>3
<1>5. ~StepOpen(u)
  <2> DEFINE ends == {"stepEnd", "turnEnd"}
  <2>1. ~Open(log, {"stepStart"}, ends)
    BY StepOpenMeans
  <2> SUFFICES ASSUME Open(u, {"stepStart"}, ends) PROVE FALSE
    BY <1>1, StepOpenMeans
  <2>2. PICK i \in DOMAIN u : u[i].is = "stepStart" /\ \A j \in DOMAIN u : u[j].is \in ends => j < i
    BY DEF Open
  <2>3. i \in DOMAIN log /\ u[i] = log[i]
    BY <1>1, <1>2, <2>2
  <2>4. \A j \in DOMAIN log : log[j].is \in ends => j < i
    BY <1>1, <2>2
  <2> QED
    BY <2>1, <2>2, <2>3, <2>4 DEF Open
<1> QED
  BY <1>1, <1>3, <1>4, <1>5 DEF u

\* The finished records of a list of intents.
LEMMA FinishedTyped ==
    ASSUME NEW intents \in Seq(Record), NEW job \in 0..MaxWork
    PROVE  /\ Finished(intents, job) \in Seq(Record)
           /\ Len(Finished(intents, job)) = Len(intents)
           /\ \A i \in DOMAIN intents :
                  /\ i \in DOMAIN Finished(intents, job)
                  /\ Finished(intents, job)[i].is = "finished"
                  /\ Finished(intents, job)[i].of = intents[i].of
           /\ \A i \in DOMAIN Finished(intents, job) : Finished(intents, job)[i].is = "finished"
<1> DEFINE f == Finished(intents, job)
<1>1. Len(intents) \in Nat /\ DOMAIN intents = 1..Len(intents)
      /\ \A i \in DOMAIN intents : intents[i] \in Record
  OBVIOUS
<1>2. f = [i \in 1..Len(intents) |-> Rec("finished", intents[i].of, job)]
  BY <1>1 DEF Finished
<1>3. \A i \in 1..Len(intents) :
        /\ Rec("finished", intents[i].of, job) \in Record
        /\ Rec("finished", intents[i].of, job).is = "finished"
        /\ Rec("finished", intents[i].of, job).of = intents[i].of
  BY <1>1 DEF Rec, Record, RecordKinds
<1> HIDE DEF f
<1>4. f \in Seq(Record) /\ Len(f) = Len(intents) /\ DOMAIN f = 1..Len(intents)
  BY <1>1, <1>2, <1>3
<1>5. \A i \in 1..Len(intents) : f[i].is = "finished" /\ f[i].of = intents[i].of
  BY <1>2, <1>3
<1> QED
  BY <1>1, <1>4, <1>5 DEF f

\* The requests of a kind that a log has no outcome of.
LEMMA UnmatchedAre ==
    ASSUME NEW log \in Seq(Record), NEW kind
    PROVE  /\ Unmatched(log, kind) \in Seq(Record)
           /\ \A r \in Range(log) : r.is = kind /\ ~Has(log, "finished", r.of)
                  => \E i \in DOMAIN Unmatched(log, kind) : Unmatched(log, kind)[i] = r
<1> DEFINE S == {r \in Range(log) : r.is = kind /\ ~Has(log, "finished", r.of)}
<1>1. Takes(Unmatched(log, kind), log, S, Record)
  BY OnlyTakes DEF Unmatched
<1> HIDE DEF S
<1>2. Unmatched(log, kind) \in Seq(Record)
  BY <1>1 DEF Takes
<1>3. \A k \in DOMAIN log : log[k] \in S
        => \E i \in DOMAIN Unmatched(log, kind) : Unmatched(log, kind)[i] = log[k]
  BY <1>1 DEF Takes
<1> QED
  BY <1>2, <1>3 DEF S, Range

\* A plan of recovery is a list of records.
LEMMA RecoveryTyped ==
    ASSUME NEW log \in Seq(Record), NEW job \in 0..MaxWork
    PROVE  log \o Recovery(log, job) \in Seq(Record)
<1> DEFINE drafts == Unmatched(log, "draftIntent")
           steps == Unmatched(log, "intent")
           forDrafts == IF drafts = <<>> THEN <<>>
                        ELSE Finished(drafts, job) \o <<Rec("recovery", 0, job)>>
           begin == IF StepOpen(log) THEN <<Rec("stepEnd", 0, job)>> ELSE <<>>
           end == <<Rec("recovery", 0, job), Rec("turnEnd", 0, job)>>
           forTurn == IF ~TurnOpen(log) THEN <<>> ELSE begin \o Finished(steps, job) \o end
<1>1. /\ Rec("recovery", 0, job) \in Record /\ Rec("turnEnd", 0, job) \in Record
      /\ Rec("stepEnd", 0, job) \in Record
  BY RecTyped DEF RecordKinds
<1>2. Finished(drafts, job) \in Seq(Record) /\ Finished(steps, job) \in Seq(Record)
  BY UnmatchedAre, FinishedTyped
<1>3. Recovery(log, job) = forDrafts \o forTurn
  BY DEF Recovery
<1>4. <<>> \in Seq(Record) /\ end \in Seq(Record) /\ <<Rec("stepEnd", 0, job)>> \in Seq(Record)
      /\ <<Rec("recovery", 0, job)>> \in Seq(Record)
  BY <1>1, EmptySeq
<1>5. begin \in Seq(Record)
  BY <1>4
<1>6. forDrafts \in Seq(Record)
  <2>1. Finished(drafts, job) \o <<Rec("recovery", 0, job)>> \in Seq(Record)
    BY <1>2, <1>4
  <2> QED
    BY <1>4, <2>1
<1>7. forTurn \in Seq(Record)
  <2> HIDE DEF begin, end
  <2>1. begin \o Finished(steps, job) \in Seq(Record)
    BY <1>2, <1>5
  <2>2. begin \o Finished(steps, job) \o end \in Seq(Record)
    BY <1>4, <2>1
  <2> QED
    BY <1>4, <2>2
<1> HIDE DEF forDrafts, forTurn
<1> QED
  BY <1>3, <1>6, <1>7

\* Recovery finishes every request of a log and leaves no step open.
LEMMA RecoveryMends ==
    ASSUME NEW log \in Seq(Record), NEW job \in 0..MaxWork, Recoverable(log), ~StepOpen(log)
    PROVE  /\ Recovery(log, job) = <<>> => Answered(log)
           /\ log \o Recovery(log, job) \in Seq(Record)
           /\ Answered(log \o Recovery(log, job)) /\ EndsClean(log \o Recovery(log, job))
           /\ ~StepOpen(log \o Recovery(log, job))
<1> DEFINE drafts == Unmatched(log, "draftIntent")
           steps == Unmatched(log, "intent")
           fd == Finished(drafts, job)
           fs == Finished(steps, job)
           rec == Rec("recovery", 0, job)
           end == Rec("turnEnd", 0, job)
           forDrafts == IF drafts = <<>> THEN <<>> ELSE fd \o <<rec>>
           forTurn == IF TurnOpen(log) THEN fs \o <<rec, end>> ELSE <<>>
           plan == forDrafts \o forTurn
<1>1. Recovery(log, job) = plan
  <2>1. <<>> \in Seq(Record)
    BY EmptySeq
  <2>2. fs \in Seq(Record)
    BY UnmatchedAre, FinishedTyped
  <2>3. <<>> \o fs = fs
    BY <2>1, <2>2
  <2> QED
    BY <2>3 DEF Recovery
<1>2. /\ rec \in Record /\ rec.is = "recovery" /\ end \in Record /\ end.is = "turnEnd"
  BY RecTyped DEF RecordKinds
<1>3. /\ drafts \in Seq(Record) /\ steps \in Seq(Record)
      /\ \A r \in Range(log) : r.is = "intent" /\ ~Has(log, "finished", r.of)
             => \E i \in DOMAIN steps : steps[i] = r
  BY ZenonT(30), UnmatchedAre
<1>4. /\ fd \in Seq(Record) /\ \A i \in DOMAIN fd : fd[i].is = "finished"
  BY <1>3, FinishedTyped
<1>5. /\ fs \in Seq(Record) /\ \A i \in DOMAIN fs : fs[i].is = "finished"
      /\ \A i \in DOMAIN steps : i \in DOMAIN fs /\ fs[i].of = steps[i].of
  BY <1>3, FinishedTyped
<1> HIDE DEF drafts, steps, fd, fs, rec, end
<1>6. /\ forDrafts \in Seq(Record)
      /\ \A i \in DOMAIN forDrafts : forDrafts[i].is \in {"finished", "recovery"}
  <2>1. CASE drafts = <<>>
    <3>1. forDrafts = <<>> /\ DOMAIN forDrafts = {}
      BY <2>1
    <3>2. forDrafts \in Seq(Record)
      BY <3>1, EmptySeq
    <3> QED
      BY <3>1, <3>2
  <2>2. CASE drafts # <<>>
    <3>1. forDrafts = Append(fd, rec)
      BY <1>2, <1>4, <2>2
    <3> HIDE DEF forDrafts
    <3> QED
      BY <1>2, <1>4, <3>1
  <2> QED
    BY <2>1, <2>2
<1>7. CASE TurnOpen(log)
  <2> DEFINE t == fs \o <<rec, end>>
  <2>1. t = Append(Append(fs, rec), end)
    BY <1>2, <1>5
  <2>2. /\ t \in Seq(Record) /\ Len(t) = Len(fs) + 2 /\ Len(fs) \in Nat
        /\ \A i \in DOMAIN fs : i \in DOMAIN t /\ t[i] = fs[i]
        /\ \A i \in DOMAIN t : i \in DOMAIN fs \/ i = Len(fs) + 1 \/ i = Len(fs) + 2
        /\ t[Len(fs) + 1] = rec /\ t[Len(fs) + 2] = end
        /\ Len(fs) + 2 \in DOMAIN t
    BY <1>2, <1>5, <2>1
  <2> HIDE DEF t
  <2>3. \A i \in DOMAIN t : /\ t[i].is \in {"finished", "recovery", "turnEnd"}
                            /\ t[i].is = "turnEnd" => i = Len(t)
    BY <1>2, <1>5, <2>2
  <2>4. plan = forDrafts \o t
    BY <1>7 DEF t
  <2> HIDE DEF plan, forDrafts
  <2>5. /\ plan \in Seq(Record) /\ Len(plan) = Len(forDrafts) + Len(t)
        /\ \A i \in DOMAIN forDrafts : i \in DOMAIN plan /\ plan[i] = forDrafts[i]
        /\ \A k \in DOMAIN t : Len(forDrafts) + k \in DOMAIN plan /\ plan[Len(forDrafts) + k] = t[k]
        /\ \A i \in DOMAIN plan :
               i \in DOMAIN forDrafts
               \/ \E k \in DOMAIN t : i = Len(forDrafts) + k /\ plan[i] = t[k]
    <3>1. LET u == forDrafts \o t
          IN  /\ u \in Seq(Record) /\ Len(u) = Len(forDrafts) + Len(t)
              /\ \A i \in DOMAIN forDrafts : i \in DOMAIN u /\ u[i] = forDrafts[i]
              /\ \A k \in DOMAIN t : Len(forDrafts) + k \in DOMAIN u /\ u[Len(forDrafts) + k] = t[k]
              /\ \A i \in DOMAIN u :
                     i \in DOMAIN forDrafts
                     \/ \E k \in DOMAIN t : i = Len(forDrafts) + k /\ u[i] = t[k]
      BY <1>6, <2>2, Joined
    <3> QED
      BY <2>4, <3>1
  <2>6. \A i \in DOMAIN plan : /\ plan[i].is \notin {"intent", "turnStart", "stepStart"}
                               /\ plan[i].is = "turnEnd" => i = Len(plan)
    <3> SUFFICES ASSUME NEW i \in DOMAIN plan
                 PROVE  /\ plan[i].is \notin {"intent", "turnStart", "stepStart"}
                        /\ plan[i].is = "turnEnd" => i = Len(plan)
      OBVIOUS
    <3>1. CASE i \in DOMAIN forDrafts
      BY <1>6, <2>5, <3>1
    <3>2. CASE \E k \in DOMAIN t : i = Len(forDrafts) + k /\ plan[i] = t[k]
      BY <2>3, <2>5, <3>2
    <3> QED
      BY <2>5, <3>1, <3>2
  <2>7. \A r \in Range(log) : r.is = "intent" => Has(log \o plan, "finished", r.of)
    <3> SUFFICES ASSUME NEW r \in Range(log), r.is = "intent"
                 PROVE  Has(log \o plan, "finished", r.of)
      OBVIOUS
    <3>0. /\ \A i \in DOMAIN log : i \in DOMAIN (log \o plan) /\ (log \o plan)[i] = log[i]
          /\ \A k \in DOMAIN plan : /\ Len(log) + k \in DOMAIN (log \o plan)
                                    /\ (log \o plan)[Len(log) + k] = plan[k]
      BY <2>5, Joined
    <3>1. CASE Has(log, "finished", r.of)
      BY <3>0, <3>1 DEF Has, Range
    <3>2. CASE ~Has(log, "finished", r.of)
      <4>1. PICK i \in DOMAIN steps : steps[i] = r
        BY <1>3, <3>2
      <4>2. i \in DOMAIN t /\ t[i].is = "finished" /\ t[i].of = r.of
        BY <1>5, <2>2, <4>1
      <4>3. PICK k \in DOMAIN plan : plan[k].is = "finished" /\ plan[k].of = r.of
        BY <2>5, <4>2
      <4> QED
        BY <3>0, <4>3 DEF Has, Range
    <3> QED
      BY <3>1, <3>2
  <2>8. plan # <<>>
    BY <2>2, <2>5
  <2> QED
    BY <1>1, <2>5, <2>6, <2>7, <2>8, Mends DEF Recoverable
<1>8. CASE ~TurnOpen(log)
  <2>1. plan = forDrafts
    BY <1>6, <1>8
  <2>2. Answered(log)
    BY <1>8 DEF Recoverable
  <2> HIDE DEF plan, forDrafts
  <2>3. \A i \in DOMAIN plan : /\ plan[i].is \notin {"intent", "turnStart", "stepStart"}
                               /\ plan[i].is = "turnEnd" => i = Len(plan)
    BY <1>6, <2>1
  <2>4. \A r \in Range(log) : r.is = "intent" => Has(log \o plan, "finished", r.of)
    <3>0. \A i \in DOMAIN log : i \in DOMAIN (log \o plan) /\ (log \o plan)[i] = log[i]
      BY <1>6, <2>1, Joined
    <3>1. \A r \in Range(log) : r \in Range(log \o plan)
      BY <3>0 DEF Range
    <3> QED
      BY <2>2, <3>1 DEF Answered, Has
  <2> QED
    BY <1>1, <1>6, <2>1, <2>2, <2>3, <2>4, Mends DEF Recoverable
<1> QED
  BY <1>7, <1>8

-----------------------------------------------------------------------------
(***************************************************************************)
(* What the states that the helpers make remember.                         *)
(***************************************************************************)
\* The helpers of a turn's steps keep what they do not name.
LEMMA AddsKeeps ==
    ASSUME NEW s \in State, NEW kind \in RecordKinds
    PROVE  LET t == Adds(s, kind)
           IN  /\ t \in State /\ t.log = Append(s.log, Rec(kind, s.id, s.job))
               /\ t.pc = s.pc /\ t.cand = s.cand /\ t.then = s.then /\ t.halt = s.halt
               /\ t.id = s.id /\ t.steps = s.steps /\ t.result = s.result /\ t.job = s.job
<1>1. Rec(kind, s.id, s.job) \in Record
  BY RecTyped DEF State
<1>2. Append(s.log, Rec(kind, s.id, s.job)) \in Seq(Record)
  BY <1>1 DEF State
<1> QED
  BY <1>2 DEF Adds, State

\* The step's end, the turn's, and a rest keep the log.
LEMMA StepEndsKeeps ==
    ASSUME NEW s \in State, NEW result \in {"final", "tools", "interrupted", "error"}
    PROVE  LET t == StepEnds(s, result)
           IN  /\ t \in State /\ t.pc = "stepEnd"
               /\ t.log = s.log /\ t.cand = s.cand /\ t.id = s.id /\ t.steps = s.steps
BY DEF StepEnds, State, Places

\* A turn's end forgets the step, and keeps what the log says.
LEMMA TurnEndsKeeps ==
    ASSUME NEW s \in State, NEW result
    PROVE  LET t == TurnEnds(s, result)
           IN  /\ t \in State /\ t.pc = "ending" /\ t.steps = 0
               /\ t.log = s.log /\ t.cand = s.cand
BY ZenonT(30) DEF TurnEnds, State, Places

\* A host at rest has nothing to write.
LEMMA RestedKeeps ==
    ASSUME NEW s \in State, NEW pc \in {"ready", "closed"}
    PROVE  LET t == Rested(s, pc)
           IN  /\ t \in State /\ t.pc = pc /\ t.steps = 0 /\ t.log = s.log /\ t.cand = <<>>
<1>1. <<>> \in Seq(Record) /\ 0 \in 0..MaxWork /\ 0 \in Nat
  BY EmptySays, BoundsAssumption
<1>2. s.log \in Seq(Record) /\ s.expected \in Seq(Record)
  BY DEF State
<1>3. Fresh \in State /\ Fresh.steps = 0 /\ Fresh.cand = <<>>
  BY <1>1 DEF Fresh, State, Places
<1> QED
  BY ZenonT(30), <1>2, <1>3 DEF Rested, State, Places

\* A call of commit keeps the log, and a frozen one its candidate.
LEMMA ToCommitKeeps ==
    ASSUME NEW s \in State, NEW then \in Purposes, NEW cand \in Seq(Record)
    PROVE  LET t == ToCommit(s, then, cand)
           IN  /\ t \in State /\ t.pc = "commit" /\ t.then = then
               /\ t.cand = (IF s.halt = "frozen" THEN s.cand ELSE cand)
               /\ t.log = s.log /\ t.halt = s.halt /\ t.id = s.id /\ t.steps = s.steps
               /\ t.result = s.result
<1>1. PICK c : c = IF s.halt = "frozen" THEN s.cand ELSE cand
  OBVIOUS
<1>2. c \in Seq(Record)
  BY <1>1 DEF State
<1>3. ToCommit(s, then, cand) = [s EXCEPT !.pc = "commit", !.then = then, !.cand = c]
  BY <1>1 DEF ToCommit
<1>4. [s EXCEPT !.pc = "commit", !.then = then, !.cand = c] \in State
  BY <1>2 DEF State, Places
<1> QED
  BY <1>1, <1>3, <1>4 DEF State

\* A log's records of intents and revisions are stored.
Known(log) == \A r \in Range(log) : r.is \in Weighty => r \in Range(disk)

\* One more record, of no weight, leaves it so.
LEMMA KnownAppend ==
    ASSUME NEW log \in Seq(Record), NEW r \in Record, Known(log), r.is \notin Weighty
    PROVE  Known(Append(log, r))
BY AppendSays DEF Known

\* A host between turns.
LEMMA RestedRemembers ==
    ASSUME NEW h \in Host, NEW s \in State, NEW pc \in {"ready", "closed"}, NEW partial,
           Known(s.log), ~partial => Recoverable(s.log) /\ ~StepOpen(s.log)
    PROVE  Remembers(h, Rested(s, pc), partial)
<1> DEFINE t == Rested(s, pc)
<1>1. t \in State /\ t.pc = pc /\ t.steps = 0 /\ t.log = s.log /\ t.cand = <<>>
  BY RestedKeeps
<1> HIDE DEF t
<1>2. Budgeted(h, t)
  BY <1>1, BoundsAssumption DEF Budgeted
<1>3. Stored(t) /\ Writes(t)
  BY <1>1 DEF Stored, Writes, Known, Committing
<1>4. ~partial => Sound(t)
  BY <1>1, EmptySays DEF Sound, Committing
<1> QED
  BY <1>1, <1>2, <1>3, <1>4 DEF Remembers, t

\* A turn about to end.
LEMMA TurnEndsRemembers ==
    ASSUME NEW h \in Host, NEW s \in State, NEW result, NEW partial, Known(s.log),
           ~partial => /\ Recoverable(s.log) /\ ~StepOpen(s.log) /\ Answered(s.log) /\ TurnOpen(s.log)
                       /\ Recoverable(s.cand) /\ ~StepOpen(s.cand)
    PROVE  Remembers(h, TurnEnds(s, result), partial)
<1> DEFINE t == TurnEnds(s, result)
<1>1. t \in State /\ t.pc = "ending" /\ t.steps = 0 /\ t.log = s.log /\ t.cand = s.cand
  BY TurnEndsKeeps
<1> HIDE DEF t
<1>2. Budgeted(h, t)
  BY <1>1, BoundsAssumption DEF Budgeted
<1>3. Stored(t) /\ Writes(t)
  BY <1>1 DEF Stored, Writes, Known, Committing
<1>4. ~partial => Sound(t)
  BY <1>1 DEF Sound, Committing
<1> QED
  BY <1>1, <1>2, <1>3, <1>4 DEF Remembers, t

\* A step about to end.
LEMMA StepEndsRemembers ==
    ASSUME NEW h \in Host, NEW s \in State, NEW partial,
           NEW result \in {"final", "tools", "interrupted", "error"},
           s.steps <= StepBudget[h], Known(s.log),
           ~partial => /\ Recoverable(s.log) /\ AnsweredBut(s.log, s.id) /\ TurnOpen(s.log)
                       /\ Recoverable(s.cand) /\ ~StepOpen(s.cand)
    PROVE  Remembers(h, StepEnds(s, result), partial)
<1> DEFINE t == StepEnds(s, result)
<1>1. /\ t \in State /\ t.pc = "stepEnd"
      /\ t.log = s.log /\ t.cand = s.cand /\ t.id = s.id /\ t.steps = s.steps
  BY StepEndsKeeps
<1> HIDE DEF t
<1>2. Budgeted(h, t)
  BY <1>1 DEF Budgeted
<1>3. Stored(t) /\ Writes(t)
  BY <1>1 DEF Stored, Writes, Known, Committing
<1>4. ~partial => Sound(t)
  BY <1>1 DEF Sound, Committing
<1> QED
  BY <1>1, <1>2, <1>3, <1>4 DEF Remembers, t

\* What a state remembers, item by item.
LEMMA RemembersKnown ==
    ASSUME NEW h, NEW s, NEW partial, Remembers(h, s, partial)
    PROVE  s \in State /\ Known(s.log) /\ s.steps <= StepBudget[h]
BY DEF Remembers, Stored, Known, Budgeted

\* A commit that failed.
LEMMA FailedRemembers ==
    ASSUME NEW h \in Host, NEW partial, Remembers(h, host[h], partial),
           host[h].pc \in Committing, host[h].then \in Purposes,
           NEW halt \in {"running", "unsaved", "spent", "frozen"}
    PROVE  Remembers(h, Failed(h, halt), partial)
<1> DEFINE s == host[h]
           refused == Append(Append(s.log, Rec("refusal", s.id, s.job)), Rec("finished", s.id, s.job))
           log == IF s.then # "settle" THEN s.log ELSE refused
           cand == IF halt = "frozen" THEN s.cand ELSE <<>>
           kept == [s EXCEPT !.halt = halt, !.then = "none", !.cand = cand, !.log = log]
<1>1. s \in State /\ Known(s.log) /\ s.steps <= StepBudget[h]
  BY RemembersKnown
<1>2. /\ Rec("refusal", s.id, s.job) \in Record /\ Rec("refusal", s.id, s.job).is = "refusal"
      /\ Rec("finished", s.id, s.job) \in Record /\ Rec("finished", s.id, s.job).is = "finished"
      /\ Rec("finished", s.id, s.job).of = s.id
  BY <1>1, RecTyped DEF State, RecordKinds
<1>3. /\ Append(s.log, Rec("refusal", s.id, s.job)) \in Seq(Record)
      /\ refused \in Seq(Record)
      /\ refused = s.log \o <<Rec("refusal", s.id, s.job), Rec("finished", s.id, s.job)>>
  BY SMTT(30), <1>1, <1>2 DEF State
<1>4. Known(log)
  <2>1. Known(Append(s.log, Rec("refusal", s.id, s.job)))
    BY <1>1, <1>2, KnownAppend DEF State, Weighty
  <2>2. Known(refused)
    BY <1>2, <1>3, <2>1, KnownAppend DEF Weighty
  <2> QED
    BY <1>1, <2>2
<1>5. ~partial => Recoverable(cand) /\ ~StepOpen(cand)
  BY EmptySays DEF Remembers, Sound
<1>6. ASSUME ~partial
      PROVE  /\ Recoverable(s.log) /\ ~StepOpen(s.log)
             /\ s.then \in {"intent", "settle"}
                    => Recoverable(log) /\ ~StepOpen(log) /\ Answered(log) /\ TurnOpen(log)
  <2>1. Sound(s)
    BY <1>6 DEF Remembers
  <2>2. /\ Recoverable(s.log) /\ ~StepOpen(s.log)
        /\ s.then = "intent" => Answered(s.log) /\ TurnOpen(s.log)
        /\ s.then = "settle" => AnsweredBut(s.log, s.id) /\ TurnOpen(s.log)
    BY <2>1 DEF Sound, Committing
  <2>3. ASSUME s.then = "settle"
        PROVE  Recoverable(refused) /\ ~StepOpen(refused) /\ Answered(refused) /\ TurnOpen(refused)
    <3> DEFINE mid == Append(s.log, Rec("refusal", s.id, s.job))
    <3>1. /\ mid \in Seq(Record) /\ Recoverable(mid) /\ ~StepOpen(mid) /\ TurnOpen(mid)
          /\ AnsweredBut(mid, s.id)
      BY <1>1, <1>2, <1>3, <2>2, <2>3, RecoverableAppend, AppendSays, AnsweredAppend DEF State
    <3> HIDE DEF mid
    <3>2. refused = Append(mid, Rec("finished", s.id, s.job))
      BY DEF mid
    <3> HIDE DEF refused
    <3> QED
      BY <1>2, <3>1, <3>2, RecoverableAppend, AppendSays, AnsweredAppend
  <2> HIDE DEF refused
  <2> QED
    BY <2>2, <2>3
<1>7. /\ kept \in State /\ kept.log = log /\ kept.cand = cand /\ kept.steps = s.steps
      /\ kept.pc = s.pc /\ kept.halt = halt
  <2>1. log \in Seq(Record) /\ cand \in Seq(Record)
    BY <1>1, <1>3, EmptySeq DEF State
  <2> HIDE DEF log, cand
  <2> QED
    BY <1>1, <2>1 DEF State
<1>8. Failed(h, halt) = CASE s.then \in {"intent", "settle"}   -> TurnEnds(kept, "error")
                          [] s.then \in {"recoverTurn", "end"} -> [kept EXCEPT !.pc = "returned",
                                                                               !.result = "error"]
                          [] OTHER -> Rested(s, IF halt = "frozen" THEN "closed" ELSE "ready")
  BY <1>3 DEF Failed
<1> HIDE DEF kept
<1>9. CASE s.then \in {"intent", "settle"}
  <2>1. Failed(h, halt) = TurnEnds(kept, "error")
    BY <1>8, <1>9
  <2>2. ~partial => /\ Recoverable(log) /\ ~StepOpen(log) /\ Answered(log) /\ TurnOpen(log)
                    /\ Recoverable(cand) /\ ~StepOpen(cand)
    BY <1>5, <1>6, <1>9
  <2> HIDE DEF log, cand
  <2> QED
    BY <1>4, <1>7, <2>1, <2>2, TurnEndsRemembers
<1>10. CASE s.then \in {"recoverTurn", "end"}
  <2> DEFINE t == [kept EXCEPT !.pc = "returned", !.result = "error"]
  <2>1. Failed(h, halt) = t
    BY <1>8, <1>10
  <2>2. log = s.log
    BY <1>10
  <2>3. /\ t \in State /\ t.pc = "returned" /\ t.result = "error" /\ t.log = log /\ t.cand = cand
        /\ t.steps = s.steps
    <3> HIDE DEF log, cand
    <3> QED
      BY <1>7 DEF State, Places
  <2> HIDE DEF t
  <2>4. Budgeted(h, t)
    BY <1>1, <2>3 DEF Budgeted
  <2>5. Stored(t) /\ Writes(t)
    BY <1>4, <2>3 DEF Stored, Writes, Known, Committing
  <2>6. ~partial => Sound(t)
    BY <1>5, <1>6, <2>2, <2>3 DEF Sound, Committing
  <2> QED
    BY <2>1, <2>3, <2>4, <2>5, <2>6 DEF Remembers
<1>11. CASE s.then \notin {"intent", "settle", "recoverTurn", "end"}
  <2>1. Failed(h, halt) = Rested(s, IF halt = "frozen" THEN "closed" ELSE "ready")
    BY <1>8, <1>11
  <2>2. ~partial => Recoverable(s.log) /\ ~StepOpen(s.log)
    BY <1>6
  <2> QED
    BY <1>1, <2>1, <2>2, RestedRemembers
<1> QED
  BY <1>9, <1>10, <1>11

\* A commit that was acknowledged, with what it wrote stored.
LEMMA AcknowledgedRemembers ==
    ASSUME NEW h \in Host, NEW partial, Remembers(h, host[h], partial),
           host[h].pc \in {"installed", "reconcile"}, host[h].then \in Purposes, disk = host[h].cand
    PROVE  Remembers(h, Acknowledged(h), partial)
<1> DEFINE s == host[h]
           t == [s EXCEPT !.pc = OnAck[s.then], !.log = s.cand, !.expected = s.cand,
                          !.cand = <<>>, !.then = "none"]
<1>1. s \in State /\ Known(s.log) /\ s.steps <= StepBudget[h]
  BY RemembersKnown
<1>2. /\ s.then = "recoverTurn" => OnAck[s.then] = "turn"
      /\ s.then = "recoverDraft" => OnAck[s.then] = "draft"
      /\ s.then = "intent" => OnAck[s.then] = "reserve"
      /\ s.then = "settle" => OnAck[s.then] = "stepped"
      /\ s.then = "end" => OnAck[s.then] = "returned"
      /\ s.then = "draft" => OnAck[s.then] = "draftSend"
      /\ s.then = "drafted" => OnAck[s.then] = "ready"
  BY DEF OnAck
<1>3. OnAck[s.then] \in {"turn", "draft", "reserve", "stepped", "returned", "draftSend", "ready"}
  BY <1>2 DEF Purposes
<1>4. /\ t \in State /\ t.pc = OnAck[s.then] /\ t.log = s.cand /\ t.cand = <<>> /\ t.then = "none"
      /\ t.id = s.id /\ t.steps = s.steps /\ t.result = s.result /\ t.halt = s.halt
  BY <1>1, <1>3, EmptySeq DEF State, Places
<1> HIDE DEF t
<1>5. /\ s.halt # "frozen" /\ s.pc \in Committing
      /\ s.then = "intent" => Has(s.cand, "intent", s.id)
      /\ s.then = "draft" => Has(s.cand, "draftIntent", s.id)
      /\ s.then = "end" /\ s.result # "error" => ~TurnOpen(s.cand)
  BY DEF Remembers, Writes, Committing
<1>6. ASSUME ~partial
      PROVE  /\ Recoverable(s.cand) /\ ~StepOpen(s.cand)
             /\ s.then \in {"recoverTurn", "recoverDraft", "settle"} => Answered(s.cand)
             /\ s.then \in {"intent", "settle"} => TurnOpen(s.cand)
             /\ s.then = "intent" => AnsweredBut(s.cand, s.id)
  <2>1. Sound(s)
    BY <1>6 DEF Remembers
  <2> QED
    BY <1>5, <2>1 DEF Sound
<1>7. Budgeted(h, t)
  BY <1>1, <1>3, <1>4 DEF Budgeted
<1>8. Stored(t)
  BY <1>2, <1>3, <1>4, <1>5 DEF Stored, Purposes
<1>9. Writes(t)
  BY <1>2, <1>3, <1>4, <1>5 DEF Writes, Purposes, Committing
<1>10. ~partial => Sound(t)
  <2> SUFFICES ASSUME ~partial PROVE Sound(t)
    OBVIOUS
  <2>1. /\ t.pc \in {"turn", "draft"} => s.then \in {"recoverTurn", "recoverDraft"}
        /\ t.pc = "stepped" => s.then = "settle"
        /\ t.pc = "reserve" => s.then = "intent"
    BY <1>2, <1>4 DEF Purposes
  <2>2. /\ t.pc \in {"turn", "draft", "stepped"} => Answered(t.log)
        /\ t.pc \in {"stepped", "reserve"} => TurnOpen(t.log)
        /\ t.pc = "reserve" => AnsweredBut(t.log, t.id)
        /\ Recoverable(t.log) /\ ~StepOpen(t.log)
    BY <1>4, <1>6, <2>1
  <2>3. Recoverable(t.cand) /\ ~StepOpen(t.cand)
    BY <1>4, EmptySays
  <2>4. t.pc \in {"turn", "draft", "reserve", "stepped", "returned", "draftSend", "ready"}
    BY <1>3, <1>4
  <2> QED
    BY <2>2, <2>3, <2>4 DEF Sound, Committing
<1>11. Remembers(h, t, partial)
  BY <1>4, <1>7, <1>8, <1>9, <1>10 DEF Remembers
<1>12. CASE s.then = "drafted"
  <2>1. Acknowledged(h) = Rested(t, "ready")
    BY <1>12 DEF Acknowledged, t
  <2>2. Known(t.log)
    BY <1>11, RemembersKnown
  <2>3. ~partial => Recoverable(t.log) /\ ~StepOpen(t.log)
    BY <1>4, <1>6
  <2> QED
    BY <1>4, <2>1, <2>2, <2>3, RestedRemembers
<1>13. CASE s.then # "drafted"
  <2>1. Acknowledged(h) = t
    BY <1>13 DEF Acknowledged, t
  <2> QED
    BY <1>11, <2>1
<1> QED
  BY <1>12, <1>13

-----------------------------------------------------------------------------
(***************************************************************************)
(* The steps keep what is remembered.                                      *)
(***************************************************************************)
\* A step of one host that leaves what is stored alone.
LEMMA Moves ==
    ASSUME TurnInv, NEW h \in Host, NEW t, Step(h, t), Remembers(h, t, unended'),
           unended' \in BOOLEAN, unended => unended', faults' \in 0..MaxFaults, sent' \subseteq Nat,
           \A n \in sent' : n \in sent \/ Has(disk, "intent", n) \/ Has(disk, "draftIntent", n)
    PROVE  TurnInv'
<1>0. /\ disk' = disk /\ work' = work
      /\ host' = [host EXCEPT ![h] = t]
  BY DEF Step
<1>1. host \in [Host -> State] /\ t \in State
  BY DEF TurnInv, Typed, Remembers
<1>2. host'[h] = t /\ \A g \in Host : g # h => host'[g] = host[g]
  BY <1>0, <1>1
<1>3. Typed'
  BY <1>0, <1>1 DEF TurnInv, Typed
<1>4. ASSUME NEW g \in Host
      PROVE  Remembers(g, host[g], unended)'
  <2>1. Remembers(g, host'[g], unended')
    <3>1. CASE g = h
      BY <1>2, <3>1
    <3>2. CASE g # h
      <4>1. Remembers(g, host[g], unended)
        BY DEF TurnInv
      <4> QED
        BY <1>2, <3>2, <4>1 DEF Remembers
    <3> QED
      BY <3>1, <3>2
  <2> QED
    BY <1>0, <2>1 DEF Remembers, Stored, Writes
<1>5. \A n \in sent' : Has(disk, "intent", n)' \/ Has(disk, "draftIntent", n)'
  BY <1>0 DEF TurnInv, Has
<1>6. ~unended' => Recoverable(disk)' /\ ~StepOpen(disk)'
  <2>1. ~unended' => Recoverable(disk) /\ ~StepOpen(disk)
    BY DEF TurnInv
  <2> QED
    BY <1>0, <2>1
<1> QED
  BY <1>3, <1>4, <1>5, <1>6 DEF TurnInv

\* Such a step where nothing is sent and no ending refused.
LEMMA MovesOn ==
    ASSUME TurnInv, NEW h \in Host, NEW t, Step(h, t), Remembers(h, t, unended),
           UNCHANGED <<sent, unended>>, faults' = faults \/ Fault
    PROVE  TurnInv'
<1>1. /\ sent' = sent /\ unended' = unended /\ unended \in BOOLEAN /\ sent \subseteq Nat
      /\ faults' \in 0..MaxFaults
  BY BoundsAssumption DEF TurnInv, Typed, Fault
<1>2. Remembers(h, t, unended')
  BY <1>1
<1> QED
  BY <1>1, <1>2, Moves

\* What a prefix says is said.
LEMMA PrefixSays ==
    ASSUME NEW a \in Seq(Record), NEW b \in Seq(Record), IsPrefix(a, b)
    PROVE  /\ Range(a) \subseteq Range(b)
           /\ \A kind, n : Has(a, kind, n) => Has(b, kind, n)
<1>1. \A i \in DOMAIN a : i \in DOMAIN b /\ a[i] = b[i]
  <2>1. Len(a) <= Len(b) /\ \A i \in 1..Len(a) : a[i] = b[i]
    BY DEF IsPrefix
  <2> QED
    BY <2>1
<1>2. Range(a) \subseteq Range(b)
  BY <1>1 DEF Range
<1> QED
  BY <1>2 DEF Has

\* The rename: what is stored is what was to be written.
LEMMA InstallKeeps ==
    ASSUME TurnInv, HostInv, NEW h \in Host, Install(h)
    PROVE  TurnInv'
<1> DEFINE s == host[h]
           t == [s EXCEPT !.pc = "installed"]
<1>0. /\ s.pc = "write" /\ disk' = s.cand /\ host' = [host EXCEPT ![h] = t]
      /\ UNCHANGED <<claim, sent, unended, work, faults>>
  BY DEF Install, At, TurnInv, Typed
<1>1. host \in [Host -> State] /\ disk \in Seq(Record) /\ s \in State /\ s.cand \in Seq(Record)
  BY DEF TurnInv, Typed, State
<1>2. IsPrefix(disk, s.cand)
  BY <1>0 DEF HostInv, Extending, At
<1>3. /\ Range(disk) \subseteq Range(disk')
      /\ \A kind, n : Has(disk, kind, n) => Has(disk', kind, n)
  BY <1>0, <1>1, <1>2, PrefixSays
<1>4. t \in State /\ t.pc = "installed" /\ t.log = s.log /\ t.cand = s.cand /\ t.then = s.then
      /\ t.halt = s.halt /\ t.id = s.id /\ t.steps = s.steps /\ t.result = s.result
  BY <1>1 DEF State, Places
<1> HIDE DEF t
<1>5. host'[h] = t /\ \A g \in Host : g # h => host'[g] = host[g]
  BY <1>0, <1>1
<1>6. Remembers(h, s, unended)
  BY DEF TurnInv
<1>7. Remembers(h, host[h], unended)'
  <2>1. Budgeted(h, t)
    BY <1>0, <1>4, <1>6 DEF Remembers, Budgeted
  <2>2. Stored(host[h])'
    BY <1>3, <1>4, <1>5, <1>6 DEF Remembers, Stored
  <2>3. Writes(host[h])'
    <3>1. Writes(s)
      BY <1>6 DEF Remembers
    <3> QED
      BY <1>0, <1>4, <1>5, <3>1 DEF Writes, Committing
  <2>4. ~unended => Sound(t)
    <3>1. ~unended => Sound(s)
      BY <1>6 DEF Remembers
    <3> QED
      BY <1>0, <1>4, <3>1 DEF Sound, Committing
  <2> QED
    BY <1>0, <1>4, <1>5, <2>1, <2>2, <2>3, <2>4 DEF Remembers
<1>8. ASSUME NEW g \in Host, g # h
      PROVE  Remembers(g, host[g], unended)'
  <2>1. Remembers(g, host[g], unended)
    BY DEF TurnInv
  <2>2. host[g].pc \in {"idle", "loaded"}
    BY <1>0, <1>8 DEF HostInv, Claimed, Begun
  <2>3. Stored(host[g])'
    BY <1>3, <1>5, <1>8, <2>1, <2>2 DEF Remembers, Stored
  <2>4. Writes(host[g])'
    BY <1>5, <1>8, <2>2 DEF Writes, Committing
  <2> QED
    BY <1>0, <1>5, <1>8, <2>1, <2>3, <2>4 DEF Remembers
<1>9. Typed'
  BY <1>0, <1>1, <1>4 DEF TurnInv, Typed
<1>10. \A n \in sent' : Has(disk', "intent", n) \/ Has(disk', "draftIntent", n)
  BY <1>0, <1>3 DEF TurnInv
<1>11. ~unended' => Recoverable(disk') /\ ~StepOpen(disk')
  BY <1>0, <1>6 DEF Remembers, Sound
<1>12. \A g \in Host : Remembers(g, host[g], unended)'
  BY <1>7, <1>8
<1> QED
  BY <1>9, <1>10, <1>11, <1>12 DEF TurnInv

\* A host in a commit has its purpose.
LEMMA InCommit ==
    ASSUME TurnInv, HostInv, NEW h \in Host, host[h].pc \in Committing
    PROVE  /\ Remembers(h, host[h], unended) /\ host[h] \in State /\ host[h].then \in Purposes
           /\ host[h].halt \in {"running", "unsaved", "spent", "frozen"}
           /\ AfterRefusal(host[h]) \in {"running", "unsaved", "spent", "frozen"}
<1>1. Remembers(h, host[h], unended) /\ host[h] \in State
  BY DEF TurnInv, Remembers
<1>2. host[h].then \in Purposes
  BY DEF HostInv, Shaped, Fits
<1> QED
  BY <1>1, <1>2 DEF State, AfterRefusal

\* Every step of a commit.
LEMMA CommitRemembers ==
    ASSUME TurnInv, HostInv, NEW h \in Host, Commit(h)
    PROVE  TurnInv'
<1> DEFINE s == host[h]
<1>0. s \in State /\ Remembers(h, s, unended) /\ Known(s.log)
  BY RemembersKnown DEF TurnInv
<1>f. ASSUME s.pc \in Committing, NEW halt \in {"running", "unsaved", "spent", "frozen"},
             Step(h, Failed(h, halt)), UNCHANGED <<sent, unended>>, faults' = faults \/ Fault
      PROVE  TurnInv'
  BY <1>f, InCommit, FailedRemembers, MovesOn
<1>a. ASSUME s.pc \in {"installed", "reconcile"}, disk = s.cand, Step(h, Acknowledged(h)),
             UNCHANGED <<sent, unended, faults>>
      PROVE  TurnInv'
  <2>1. s.pc \in Committing
    BY <1>a DEF Committing
  <2> QED
    BY <1>a, <2>1, InCommit, AcknowledgedRemembers, MovesOn
<1>1. CASE CommitHalted(h)
  <2>1. s.pc \in Committing
    BY <1>1 DEF CommitHalted, At, Committing
  <2> QED
    BY <1>1, <1>f, <2>1, InCommit DEF CommitHalted
<1>2. CASE Admit(h)
  <2>0. s.pc = "commit" /\ s.pc \in Committing /\ MayWrite(s) /\ UNCHANGED <<sent, unended, faults>>
    BY <1>2 DEF Admit, At, Committing
  <2>1. CASE Admissible(h)
    <3> DEFINE halt == IF s.halt = "unsaved" THEN "spent" ELSE s.halt
               t == [s EXCEPT !.pc = "write", !.halt = halt]
    <3>1. Step(h, t)
      BY <1>2, <2>1 DEF Admit
    <3>2. halt \in {"running", "spent"} /\ s.halt # "frozen"
      BY <2>0 DEF MayWrite
    <3> HIDE DEF halt
    <3>3. t \in State /\ t.pc = "write" /\ t.log = s.log /\ t.cand = s.cand /\ t.then = s.then
          /\ t.halt = halt /\ t.id = s.id /\ t.steps = s.steps /\ t.result = s.result
      BY ZenonT(30), <1>0, <3>2 DEF State, Places
    <3> HIDE DEF t
    <3>4. Budgeted(h, t) /\ Stored(t)
      BY <1>0, <3>3 DEF Remembers, Budgeted, Stored
    <3>5. Writes(t)
      <4>1. Writes(s)
        BY <1>0 DEF Remembers
      <4> QED
        BY <2>0, <3>2, <3>3, <4>1 DEF Writes, Committing
    <3>6. ~unended => Sound(t)
      <4>1. ~unended => Sound(s)
        BY <1>0 DEF Remembers
      <4> QED
        BY <2>0, <3>2, <3>3, <4>1 DEF Sound, Committing
    <3>7. Remembers(h, t, unended)
      BY <3>3, <3>4, <3>5, <3>6 DEF Remembers
    <3> QED
      BY <2>0, <3>1, <3>7, MovesOn
  <2>2. CASE ~Admissible(h)
    <3>1. Step(h, Failed(h, AfterRefusal(s)))
      BY <1>2, <2>2 DEF Admit
    <3> QED
      BY <1>f, <2>0, <3>1, InCommit
  <2> QED
    BY <2>1, <2>2
<1>3. CASE NotCommitted(h)
  <2>1. s.pc \in Committing
    BY <1>3 DEF NotCommitted, At, Committing
  <2> QED
    BY <1>3, <1>f, <2>1, InCommit DEF NotCommitted
<1>4. CASE Install(h)
  BY <1>4, InstallKeeps
<1>5. CASE Acknowledge(h)
  <2>1. s.pc = "installed" /\ disk = s.cand
    BY <1>0, <1>5 DEF Acknowledge, At, Remembers, Writes
  <2> QED
    BY <1>5, <1>a, <2>1 DEF Acknowledge
<1>6. CASE OutcomeUnknown(h)
  <2> DEFINE t == [s EXCEPT !.pc = "reconcile"]
  <2>0. s.pc \in {"write", "installed"} /\ Step(h, t) /\ UNCHANGED <<sent, unended>> /\ Fault
    BY <1>6 DEF OutcomeUnknown, At
  <2>3. t \in State /\ t.pc = "reconcile" /\ t.log = s.log /\ t.cand = s.cand /\ t.then = s.then
        /\ t.halt = s.halt /\ t.id = s.id /\ t.steps = s.steps /\ t.result = s.result
    BY <1>0 DEF State, Places
  <2> HIDE DEF t
  <2>4. Budgeted(h, t) /\ Stored(t)
    BY <1>0, <2>3 DEF Remembers, Budgeted, Stored
  <2>5. Writes(t)
    <3>1. Writes(s)
      BY <1>0 DEF Remembers
    <3> QED
      BY <2>0, <2>3, <3>1 DEF Writes, Committing
  <2>6. ~unended => Sound(t)
    <3>1. ~unended => Sound(s)
      BY <1>0 DEF Remembers
    <3> QED
      BY <2>0, <2>3, <3>1 DEF Sound, Committing
  <2>7. Remembers(h, t, unended)
    BY <2>3, <2>4, <2>5, <2>6 DEF Remembers
  <2> QED
    BY <2>0, <2>7, MovesOn
<1>7. CASE Reconcile(h)
  <2>0. s.pc = "reconcile" /\ s.pc \in Committing /\ UNCHANGED <<sent, unended, faults>>
    BY <1>7 DEF Reconcile, At, Committing
  <2>1. CASE disk = s.cand
    <3>1. Step(h, Acknowledged(h))
      BY <1>7, <2>1 DEF Reconcile
    <3> QED
      BY <1>a, <2>0, <2>1, <3>1
  <2>2. CASE disk # s.cand
    <3>1. \/ Step(h, Failed(h, AfterRefusal(s)))
          \/ Step(h, Failed(h, "frozen"))
      BY <1>7, <2>2 DEF Reconcile
    <3> QED
      BY <1>f, <2>0, <3>1, InCommit
  <2> QED
    BY <2>1, <2>2
<1>8. CASE ReconcileFails(h)
  <2>1. s.pc \in Committing
    BY <1>8 DEF ReconcileFails, At, Committing
  <2> QED
    BY <1>8, <1>f, <2>1 DEF ReconcileFails
<1>9. CASE Doubt(h) \/ DoubtStays(h)
  <2>0. s.pc = "doubt" /\ UNCHANGED <<sent, unended, faults>>
    BY <1>9 DEF Doubt, DoubtStays, At
  <2>1. ~unended => Recoverable(s.log) /\ ~StepOpen(s.log)
    BY <1>0, <2>0 DEF Remembers, Sound
  <2>2. \A pc \in {"ready", "closed"} : Remembers(h, Rested(s, pc), unended)
    BY <1>0, <2>1, RestedRemembers
  <2>3. CASE \E pc \in {"ready", "closed"} : Step(h, Rested(s, pc))
    BY <2>0, <2>2, <2>3, MovesOn
  <2>4. CASE Step(h, [Rested(s, "ready") EXCEPT !.expected = disk])
    <3> DEFINE r == Rested(s, "ready")
               t == [r EXCEPT !.expected = disk]
    <3>1. disk \in Seq(Record) /\ Remembers(h, r, unended) /\ r \in State
      BY <2>2 DEF TurnInv, Typed, Remembers
    <3> HIDE DEF r
    <3>2. t \in State /\ t.pc = r.pc /\ t.log = r.log /\ t.cand = r.cand /\ t.then = r.then
          /\ t.halt = r.halt /\ t.id = r.id /\ t.steps = r.steps /\ t.result = r.result
      BY <3>1 DEF State
    <3>3. Step(h, t)
      BY <2>4 DEF r
    <3> HIDE DEF t
    <3>4. Remembers(h, t, unended)
      BY <3>1, <3>2 DEF Remembers, Budgeted, Stored, Writes, Sound
    <3> QED
      BY <2>0, <3>3, <3>4, MovesOn
  <2> QED
    BY <1>9, <2>3, <2>4 DEF Doubt, DoubtStays
<1> QED
  BY <1>1, <1>2, <1>3, <1>4, <1>5, <1>6, <1>7, <1>8, <1>9 DEF Commit

\* A process that loads, claims, begins, lets go or dies.
LEMMA HoldingRemembers ==
    ASSUME TurnInv, HostInv, NEW h \in Host,
           Load(h) \/ Claim(h) \/ BeginTurn(h) \/ BeginDraft(h) \/ Release(h) \/ Crash(h)
    PROVE  TurnInv'
<1> DEFINE s == host[h]
<1>0. /\ s \in State /\ Remembers(h, s, unended) /\ Known(s.log) /\ host \in [Host -> State]
      /\ disk \in Seq(Record) /\ work \in 0..MaxWork /\ MaxWork \in Nat
      /\ ~unended => Recoverable(disk) /\ ~StepOpen(disk)
  BY RemembersKnown, BoundsAssumption DEF TurnInv, Typed
<1>s. ASSUME NEW t \in State, host' = [host EXCEPT ![h] = t], Remembers(h, t, unended),
             disk' = disk, UNCHANGED <<sent, unended>>, work' \in 0..MaxWork, faults' \in 0..MaxFaults
      PROVE  TurnInv'
  <2>1. host'[h] = t /\ \A g \in Host : g # h => host'[g] = host[g]
    BY <1>0, <1>s
  <2>2. Typed'
    BY <1>0, <1>s DEF TurnInv, Typed
  <2>3. ASSUME NEW g \in Host
        PROVE  Remembers(g, host[g], unended)'
    <3>1. Remembers(g, host'[g], unended)
      BY <1>s, <2>1 DEF TurnInv
    <3> QED
      BY <1>s, <3>1 DEF Remembers, Stored, Writes
  <2>4. \A n \in sent' : Has(disk, "intent", n)' \/ Has(disk, "draftIntent", n)'
    BY <1>s DEF TurnInv
  <2>5. ~unended' => Recoverable(disk)' /\ ~StepOpen(disk)'
    BY <1>s DEF TurnInv
  <2> QED
    BY <2>2, <2>3, <2>4, <2>5 DEF TurnInv
<1>f. /\ Fresh \in State /\ Fresh.pc = "idle" /\ Fresh.log = <<>> /\ Fresh.cand = <<>>
      /\ Fresh.steps = 0 /\ Remembers(h, Fresh, unended)
  <2>1. <<>> \in Seq(Record) /\ 0 \in 0..MaxWork /\ 0 \in Nat
    BY <1>0, EmptySays
  <2>2. Fresh \in State /\ Fresh.pc = "idle" /\ Fresh.log = <<>> /\ Fresh.cand = <<>> /\ Fresh.steps = 0
    BY <2>1 DEF Fresh, State, Places
  <2>3. Known(Fresh.log) /\ Recoverable(Fresh.log) /\ ~StepOpen(Fresh.log)
    BY <2>2, EmptySays DEF Known
  <2>4. Budgeted(h, Fresh)
    BY <2>2, BoundsAssumption DEF Budgeted
  <2>5. Stored(Fresh) /\ Writes(Fresh)
    BY <2>2, <2>3 DEF Stored, Writes, Known, Committing
  <2>6. Sound(Fresh)
    BY <2>2, <2>3 DEF Sound, Committing
  <2> QED
    BY <2>2, <2>4, <2>5, <2>6 DEF Remembers
<1>d. Known(disk)
  BY DEF Known
<1>1. CASE Load(h)
  <2> DEFINE t == [s EXCEPT !.pc = "loaded", !.log = disk]
  <2>1. /\ s.pc = "idle" /\ Step(h, t) /\ UNCHANGED <<sent, unended, faults>>
    BY <1>1 DEF Load, At
  <2>2. t \in State /\ t.pc = "loaded" /\ t.log = disk /\ t.cand = s.cand /\ t.steps = s.steps
    BY <1>0 DEF State, Places
  <2> HIDE DEF t
  <2>3. Remembers(h, t, unended)
    <3>1. Budgeted(h, t)
      BY <1>0, <2>1, <2>2 DEF Remembers, Budgeted
    <3>2. Stored(t) /\ Writes(t)
      BY <1>d, <2>2 DEF Stored, Writes, Known, Committing
    <3>3. ~unended => Sound(t)
      BY <1>0, <2>2 DEF Remembers, Sound, Committing
    <3> QED
      BY <2>2, <3>1, <3>2, <3>3 DEF Remembers
  <2> QED
    BY <2>1, <2>3, MovesOn
<1>2. CASE Claim(h)
  <2> DEFINE log == IF h \in LoadsFirst THEN s.log ELSE disk
             t == [s EXCEPT !.pc = "ready", !.log = log, !.expected = disk]
  <2>1. /\ s.pc \in {"idle", "loaded"}
        /\ host' = [host EXCEPT ![h] = IF claim = "none" THEN t ELSE Fresh]
        /\ UNCHANGED <<disk, sent, unended, work, faults>>
    BY <1>2 DEF Claim, At
  <2>2. log \in Seq(Record) /\ Known(log) /\ (~unended => Recoverable(log) /\ ~StepOpen(log))
    <3>1. ~unended => Recoverable(s.log) /\ ~StepOpen(s.log)
      BY <1>0, <2>1 DEF Remembers, Sound
    <3>2. s.log \in Seq(Record)
      BY <1>0 DEF State
    <3> QED
      BY <1>0, <1>d, <3>1, <3>2
  <2> HIDE DEF log
  <2>3. t \in State /\ t.pc = "ready" /\ t.log = log /\ t.cand = s.cand /\ t.steps = s.steps
    BY <1>0, <2>2 DEF State, Places
  <2> HIDE DEF t
  <2>4. Remembers(h, t, unended)
    <3>1. Budgeted(h, t)
      BY <1>0, <2>1, <2>3 DEF Remembers, Budgeted
    <3>2. Stored(t) /\ Writes(t)
      BY <2>2, <2>3 DEF Stored, Writes, Known, Committing
    <3>3. ~unended => Sound(t)
      BY <1>0, <2>2, <2>3 DEF Remembers, Sound, Committing
    <3> QED
      BY <2>3, <3>1, <3>2, <3>3 DEF Remembers
  <2>5. faults \in 0..MaxFaults
    BY DEF TurnInv, Typed
  <2>6. CASE claim = "none"
    BY <1>0, <1>s, <2>1, <2>3, <2>4, <2>5, <2>6
  <2>7. CASE claim # "none"
    BY <1>0, <1>f, <1>s, <2>1, <2>5, <2>7
  <2> QED
    BY <2>6, <2>7
<1>3. CASE BeginTurn(h) \/ BeginDraft(h)
  <2>1. PICK pc \in {"recoverTurn", "recoverDraft"} : Begin(h, pc)
    BY <1>3 DEF BeginTurn, BeginDraft
  <2> DEFINE t == [s EXCEPT !.pc = pc, !.job = work + 1, !.halt = "running",
                            !.result = "none", !.stop = FALSE]
  <2>2. /\ s.pc = "ready" /\ work < MaxWork /\ work' = work + 1 /\ host' = [host EXCEPT ![h] = t]
        /\ UNCHANGED <<disk, claim, sent, unended, faults>>
    BY <2>1 DEF Begin, At
  <2>3. work + 1 \in 0..MaxWork
    BY <1>0, <2>2
  <2>4. t \in State /\ t.pc = pc /\ t.log = s.log /\ t.cand = s.cand /\ t.steps = s.steps
    BY ZenonT(30), <1>0, <2>3 DEF State, Places
  <2> HIDE DEF t
  <2>5. Remembers(h, t, unended)
    <3>1. Budgeted(h, t)
      BY <1>0, <2>4 DEF Remembers, Budgeted
    <3>2. Stored(t) /\ Writes(t)
      BY <1>0, <2>4 DEF Stored, Writes, Known, Committing
    <3>3. ~unended => Sound(t)
      BY <1>0, <2>2, <2>4 DEF Remembers, Sound, Committing
    <3> QED
      BY <2>4, <3>1, <3>2, <3>3 DEF Remembers
  <2>6. faults' \in 0..MaxFaults
    BY <2>2 DEF TurnInv, Typed
  <2> QED
    BY <1>s, <2>2, <2>3, <2>4, <2>5, <2>6
<1>4. CASE Release(h)
  <2>1. faults' \in 0..MaxFaults
    BY <1>4 DEF Release, TurnInv, Typed
  <2> QED
    BY <1>0, <1>4, <1>f, <1>s, <2>1 DEF Release
<1>5. CASE Crash(h)
  <2>1. faults' \in 0..MaxFaults
    BY <1>5, BoundsAssumption DEF Crash, Fault, TurnInv, Typed
  <2> QED
    BY <1>0, <1>5, <1>f, <1>s, <2>1 DEF Crash
<1> QED
  BY <1>1, <1>2, <1>3, <1>4, <1>5

-----------------------------------------------------------------------------
(***************************************************************************)
(* The steps of a turn.                                                    *)
(***************************************************************************)
\* A host that calls a commit, and what the commit is to write.
LEMMA ToCommitRemembers ==
    ASSUME NEW h \in Host, NEW s \in State, NEW then \in Purposes, NEW cand \in Seq(Record),
           NEW partial, Known(s.log), s.steps <= StepBudget[h],
           then = "intent" => Has(cand, "intent", s.id),
           then = "draft" => Has(cand, "draftIntent", s.id),
           then = "end" /\ s.result # "error" => ~TurnOpen(cand),
           ~partial =>
               /\ Recoverable(s.log) /\ ~StepOpen(s.log) /\ Recoverable(cand) /\ ~StepOpen(cand)
               /\ Recoverable(s.cand) /\ ~StepOpen(s.cand)
               /\ then \in {"intent", "end"} => Answered(s.log)
               /\ then \in {"intent", "settle"} => TurnOpen(s.log) /\ TurnOpen(cand)
               /\ then = "settle" => AnsweredBut(s.log, s.id)
               /\ then \in {"recoverTurn", "recoverDraft", "settle"} => Answered(cand)
               /\ then = "intent" => AnsweredBut(cand, s.id)
    PROVE  Remembers(h, ToCommit(s, then, cand), partial)
<1> DEFINE t == ToCommit(s, then, cand)
<1>1. /\ t \in State /\ t.pc = "commit" /\ t.then = then
      /\ t.cand = (IF s.halt = "frozen" THEN s.cand ELSE cand)
      /\ t.log = s.log /\ t.halt = s.halt /\ t.id = s.id /\ t.steps = s.steps
      /\ t.result = s.result
  BY ToCommitKeeps
<1> HIDE DEF t
<1>2. Budgeted(h, t)
  BY <1>1 DEF Budgeted
<1>3. Stored(t)
  BY <1>1 DEF Stored, Known
<1>4. Writes(t)
  BY <1>1 DEF Writes, Committing
<1>5. ASSUME ~partial PROVE Sound(t)
  <2>1. Recoverable(t.log) /\ ~StepOpen(t.log) /\ Recoverable(t.cand) /\ ~StepOpen(t.cand)
    BY <1>1, <1>5
  <2>2. /\ t.then \in {"intent", "end"} => Answered(t.log)
        /\ t.then \in {"intent", "settle"} => TurnOpen(t.log)
        /\ t.then = "settle" => AnsweredBut(t.log, t.id)
    BY <1>1, <1>5
  <2>3. t.halt # "frozen" =>
          /\ t.then \in {"recoverTurn", "recoverDraft", "settle"} => Answered(t.cand)
          /\ t.then \in {"intent", "settle"} => TurnOpen(t.cand)
          /\ t.then = "intent" => AnsweredBut(t.cand, t.id)
    BY <1>1, <1>5
  <2> QED
    BY <1>1, <2>1, <2>2, <2>3 DEF Sound, Committing
<1> QED
  BY <1>1, <1>2, <1>3, <1>4, <1>5 DEF Remembers, t

\* Before a turn or a draft: what recovery makes of the log.
LEMMA RecoverRemembers ==
    ASSUME TurnInv, HostInv, NEW h \in Host, Recover(h)
    PROVE  TurnInv'
<1> DEFINE s == host[h]
           plan == Recovery(s.log, s.job)
<1>0. s \in State /\ Remembers(h, s, unended) /\ Known(s.log) /\ s.steps <= StepBudget[h]
  BY RemembersKnown DEF TurnInv
<1>1. /\ s.pc \in {"recoverTurn", "recoverDraft"} /\ UNCHANGED <<sent, unended, faults>>
      /\ plan = <<>> => Step(h, [s EXCEPT !.pc = OnAck[s.pc]])
      /\ plan # <<>> => Step(h, ToCommit(s, s.pc, s.log \o plan))
  BY DEF Recover
<1>2. s.log \in Seq(Record) /\ s.job \in 0..MaxWork
  BY <1>0 DEF State
<1>3. ASSUME ~unended
      PROVE  /\ Recoverable(s.log) /\ ~StepOpen(s.log) /\ Recoverable(s.cand) /\ ~StepOpen(s.cand)
             /\ plan = <<>> => Answered(s.log)
             /\ Answered(s.log \o plan) /\ Recoverable(s.log \o plan) /\ ~StepOpen(s.log \o plan)
  <2>1. Recoverable(s.log) /\ ~StepOpen(s.log) /\ Recoverable(s.cand) /\ ~StepOpen(s.cand)
    BY <1>0, <1>1, <1>3 DEF Remembers, Sound
  <2> QED
    BY <1>2, <2>1, RecoveryMends DEF Recoverable
<1>4. s.log \o plan \in Seq(Record)
  BY <1>2, RecoveryTyped
<1> HIDE DEF plan
<1>5. CASE plan = <<>>
  <2> DEFINE t == [s EXCEPT !.pc = OnAck[s.pc]]
  <2>1. OnAck[s.pc] \in {"turn", "draft"}
    <3>1. OnAck["recoverTurn"] = "turn" /\ OnAck["recoverDraft"] = "draft"
      BY DEF OnAck
    <3> QED
      BY <1>1, <3>1
  <2>2. t \in State /\ t.pc \in {"turn", "draft"} /\ t.log = s.log /\ t.cand = s.cand /\ t.steps = s.steps
    BY <1>0, <2>1 DEF State, Places
  <2>3. Step(h, t)
    BY <1>1, <1>5
  <2> HIDE DEF t
  <2>4. Budgeted(h, t) /\ Stored(t) /\ Writes(t)
    BY <1>0, <2>2 DEF Budgeted, Stored, Writes, Known, Committing
  <2>5. ~unended => Sound(t)
    BY <1>3, <1>5, <2>2 DEF Sound, Committing
  <2>6. Remembers(h, t, unended)
    BY <2>2, <2>4, <2>5 DEF Remembers
  <2> QED
    BY <1>1, <2>3, <2>6, MovesOn
<1>6. CASE plan # <<>>
  <2>1. Remembers(h, ToCommit(s, s.pc, s.log \o plan), unended)
    BY <1>0, <1>1, <1>3, <1>4, ToCommitRemembers DEF Purposes
  <2> QED
    BY <1>1, <1>6, <2>1, MovesOn
<1> QED
  BY <1>5, <1>6

\* What a host remembers inside a turn.
LEMMA InTurnRemembers ==
    ASSUME TurnInv, NEW h \in Host
    PROVE  LET s == host[h]
           IN  /\ s \in State /\ Remembers(h, s, unended) /\ Known(s.log) /\ s.steps <= StepBudget[h]
               /\ s.log \in Seq(Record) /\ s.id \in Nat /\ s.job \in 0..MaxWork /\ s.steps \in Nat
               /\ unended \in BOOLEAN /\ sent \subseteq Nat
               /\ ~unended => Sound(s)
BY RemembersKnown DEF TurnInv, Typed, Remembers, State

\* One more record in memory, of no weight: what there is to remember of it.
LEMMA AddsSays ==
    ASSUME NEW s \in State, NEW kind \in RecordKinds, Known(s.log), kind \notin Weighty
    PROVE  LET t == Adds(s, kind)
           IN  /\ t \in State /\ Known(t.log)
               /\ t.pc = s.pc /\ t.cand = s.cand /\ t.then = s.then /\ t.halt = s.halt
               /\ t.id = s.id /\ t.steps = s.steps /\ t.result = s.result
               /\ Recoverable(s.log) /\ (kind = "turnEnd" => Answered(s.log)) => Recoverable(t.log)
               /\ TurnOpen(t.log) <=> kind = "turnStart" \/ (TurnOpen(s.log) /\ kind # "turnEnd")
               /\ StepOpen(t.log)
                      <=> kind = "stepStart" \/ (StepOpen(s.log) /\ kind \notin {"stepEnd", "turnEnd"})
               /\ Answered(s.log) => Answered(t.log)
               /\ AnsweredBut(s.log, s.id) => AnsweredBut(t.log, t.id)
               /\ AnsweredBut(s.log, s.id) /\ kind = "finished" => Answered(t.log)
<1> DEFINE t == Adds(s, kind)
           r == Rec(kind, s.id, s.job)
<1>1. /\ t \in State /\ t.log = Append(s.log, r)
      /\ t.pc = s.pc /\ t.cand = s.cand /\ t.then = s.then /\ t.halt = s.halt
      /\ t.id = s.id /\ t.steps = s.steps /\ t.result = s.result
  BY AddsKeeps
<1>2. r \in Record /\ r.is = kind /\ r.of = s.id /\ s.log \in Seq(Record)
  BY RecTyped DEF State
<1> HIDE DEF t, r
<1>3. Known(t.log)
  BY <1>1, <1>2, KnownAppend
<1>4. kind # "intent"
  BY DEF Weighty
<1>5. Recoverable(s.log) /\ (kind = "turnEnd" => Answered(s.log)) => Recoverable(t.log)
  BY <1>1, <1>2, <1>4, RecoverableAppend
<1>6. /\ TurnOpen(t.log) <=> kind = "turnStart" \/ (TurnOpen(s.log) /\ kind # "turnEnd")
      /\ StepOpen(t.log)
             <=> kind = "stepStart" \/ (StepOpen(s.log) /\ kind \notin {"stepEnd", "turnEnd"})
  BY <1>1, <1>2, AppendSays
<1>7. /\ Answered(s.log) => Answered(t.log)
      /\ AnsweredBut(s.log, s.id) => AnsweredBut(t.log, t.id)
      /\ AnsweredBut(s.log, s.id) /\ kind = "finished" => Answered(t.log)
  BY <1>1, <1>2, <1>4, AnsweredAppend
<1> QED
  BY <1>1, <1>3, <1>5, <1>6, <1>7 DEF t

\* The turn is opened.
LEMMA StartTurnRemembers ==
    ASSUME TurnInv, NEW h \in Host, StartTurn(h)
    PROVE  TurnInv'
<1> DEFINE s == host[h]
           log == Append(s.log, Rec("turnStart", 0, s.job))
           t == [[s EXCEPT !.log = log] EXCEPT !.pc = "top", !.steps = 0, !.staged = FALSE]
<1>0. /\ s \in State /\ Known(s.log) /\ s.log \in Seq(Record) /\ s.job \in 0..MaxWork
      /\ ~unended => Sound(s)
  BY InTurnRemembers
<1>1. s.pc = "turn" /\ Step(h, t) /\ UNCHANGED <<sent, unended, faults>>
  BY DEF StartTurn, At
<1>2. Rec("turnStart", 0, s.job) \in Record /\ Rec("turnStart", 0, s.job).is = "turnStart"
  BY <1>0, RecTyped DEF RecordKinds
<1>3. log \in Seq(Record) /\ Known(log) /\ TurnOpen(log)
  BY <1>0, <1>2, KnownAppend, AppendSays DEF Weighty
<1>4. ~unended => Recoverable(log) /\ ~StepOpen(log) /\ Answered(log)
  <2> SUFFICES ASSUME ~unended PROVE Recoverable(log) /\ ~StepOpen(log) /\ Answered(log)
    OBVIOUS
  <2>1. Recoverable(s.log) /\ ~StepOpen(s.log) /\ Answered(s.log)
    BY <1>0, <1>1 DEF Sound
  <2> QED
    BY <1>0, <1>2, <2>1, RecoverableAppend, AppendSays, AnsweredAppend
<1> HIDE DEF log
<1>5. /\ t \in State /\ t.pc = "top" /\ t.log = log /\ t.cand = s.cand /\ t.steps = 0
  BY <1>0, <1>3 DEF State, Places
<1> HIDE DEF t
<1>6. Budgeted(h, t)
  BY <1>5, BoundsAssumption DEF Budgeted
<1>7. Stored(t) /\ Writes(t)
  BY <1>3, <1>5 DEF Stored, Writes, Known, Committing
<1>8. ~unended => Sound(t)
  BY <1>0, <1>3, <1>4, <1>5 DEF Sound, Committing
<1>9. Remembers(h, t, unended)
  BY <1>5, <1>6, <1>7, <1>8 DEF Remembers
<1> QED
  BY <1>1, <1>9, MovesOn

\* A stop is asked for, noticed at the loop's head, or the step is not made.
LEMMA StopRemembers ==
    ASSUME TurnInv, NEW h \in Host, Stop(h) \/ TopStopped(h) \/ PrepareFails(h)
    PROVE  TurnInv'
<1> DEFINE s == host[h]
<1>0. /\ s \in State /\ Known(s.log) /\ Remembers(h, s, unended)
      /\ ~unended => Sound(s)
  BY InTurnRemembers
<1>1. CASE Stop(h)
  <2> DEFINE t == [s EXCEPT !.stop = TRUE]
  <2>1. Step(h, t) /\ UNCHANGED <<sent, unended, faults>>
    BY <1>1 DEF Stop
  <2>2. /\ t \in State /\ t.pc = s.pc /\ t.log = s.log /\ t.cand = s.cand /\ t.then = s.then
        /\ t.halt = s.halt /\ t.id = s.id /\ t.steps = s.steps /\ t.result = s.result
    BY <1>0 DEF State
  <2> HIDE DEF t
  <2>3. Remembers(h, t, unended)
    BY <1>0, <2>2 DEF Remembers, Budgeted, Stored, Writes, Sound
  <2> QED
    BY <2>1, <2>3, MovesOn
<1>2. CASE TopStopped(h) \/ PrepareFails(h)
  <2>1. s.pc = "top" /\ UNCHANGED <<sent, unended>> /\ (faults' = faults \/ Fault)
        /\ (Step(h, TurnEnds(s, "interrupted")) \/ Step(h, TurnEnds(s, "error")))
    BY <1>2 DEF TopStopped, PrepareFails, At
  <2>2. ~unended => /\ Recoverable(s.log) /\ ~StepOpen(s.log) /\ Answered(s.log) /\ TurnOpen(s.log)
                    /\ Recoverable(s.cand) /\ ~StepOpen(s.cand)
    BY <1>0, <2>1 DEF Sound
  <2>3. ASSUME NEW result PROVE Remembers(h, TurnEnds(s, result), unended)
    BY <1>0, <2>2, TurnEndsRemembers
  <2> QED
    BY <2>1, <2>3, MovesOn
<1> QED
  BY <1>1, <1>2

\* Two records joined are two appended.
LEMMA TwoMore ==
    ASSUME NEW log \in Seq(Record), NEW a \in Record, NEW b \in Record
    PROVE  log \o <<a, b>> = Append(Append(log, a), b)
<1> DEFINE u == log \o <<a, b>>
           v == Append(Append(log, a), b)
<1>1. /\ u \in Seq(Record) /\ Len(u) = Len(log) + 2
      /\ \A i \in 1..Len(log) : u[i] = log[i]
      /\ u[Len(log) + 1] = a /\ u[Len(log) + 2] = b
  OBVIOUS
<1>2. /\ v \in Seq(Record) /\ Len(v) = Len(log) + 2
      /\ \A i \in 1..Len(log) : v[i] = log[i]
      /\ v[Len(log) + 1] = a /\ v[Len(log) + 2] = b
  OBVIOUS
<1> HIDE DEF u, v
<1>3. \A i \in 1..Len(u) : u[i] = v[i]
  BY <1>1, <1>2
<1> QED
  <2>1. u = v
    BY <1>1, <1>2, <1>3
  <2> QED
    BY <2>1 DEF u, v

\* A step's intent is to be written, perhaps with a revision.
LEMMA PrepareRemembers ==
    ASSUME TurnInv, NEW h \in Host, NEW auto \in BOOLEAN, Prepare(h, auto)
    PROVE  TurnInv'
<1> DEFINE s == host[h]
           id == Len(s.log) + 1
           p == [s EXCEPT !.steps = s.steps + 1, !.id = id]
           chosen == IF auto THEN <<Rec("revision", id, s.job), Rec("decision", id, s.job)>>
                     ELSE <<>>
           before == IF auto
                     THEN Append(Append(s.log, Rec("revision", id, s.job)), Rec("decision", id, s.job))
                     ELSE s.log
           cand == s.log \o chosen \o <<Rec("intent", id, s.job)>>
<1>0. /\ s \in State /\ Known(s.log) /\ s.log \in Seq(Record) /\ s.job \in 0..MaxWork
      /\ s.steps \in Nat /\ Remembers(h, s, unended) /\ s.steps <= StepBudget[h]
      /\ ~unended => Sound(s)
  BY InTurnRemembers
<1>1. s.pc = "top" /\ Step(h, ToCommit(p, "intent", cand)) /\ UNCHANGED <<sent, unended, faults>>
  BY DEF Prepare, At
<1>2. id \in Nat
  BY <1>0
<1> HIDE DEF id
<1>3. /\ Rec("revision", id, s.job) \in Record /\ Rec("revision", id, s.job).is = "revision"
      /\ Rec("decision", id, s.job) \in Record /\ Rec("decision", id, s.job).is = "decision"
      /\ Rec("intent", id, s.job) \in Record /\ Rec("intent", id, s.job).is = "intent"
      /\ Rec("intent", id, s.job).of = id
  BY <1>0, <1>2, RecTyped DEF RecordKinds
<1>4. before \in Seq(Record) /\ cand = Append(before, Rec("intent", id, s.job))
  <2> DEFINE a == Rec("revision", id, s.job)
             b == Rec("decision", id, s.job)
             c == Rec("intent", id, s.job)
  <2> HIDE DEF a, b, c
  <2>1. CASE auto
    <3>1. before = Append(Append(s.log, a), b) /\ cand = s.log \o <<a, b>> \o <<c>>
      BY <2>1 DEF a, b, c
    <3>2. a \in Record /\ b \in Record /\ c \in Record
      BY <1>3 DEF a, b, c
    <3> HIDE DEF before, cand
    <3>3. s.log \o <<a, b>> = Append(Append(s.log, a), b)
      BY <1>0, <3>2, TwoMore
    <3>4. before \in Seq(Record)
      BY <1>0, <3>1, <3>2
    <3>5. cand = before \o <<c>>
      BY <3>1, <3>3
    <3>6. before \o <<c>> = Append(before, c)
      BY <3>2, <3>4, AppendIsConcat
    <3> QED
      BY <3>4, <3>5, <3>6 DEF c
  <2>2. CASE ~auto
    <3>1. before = s.log /\ cand = s.log \o <<>> \o <<c>>
      BY <2>2 DEF c
    <3> HIDE DEF before, cand
    <3>2. c \in Record
      BY <1>3 DEF c
    <3> QED
      BY <1>0, <3>1, <3>2 DEF c
  <2> QED
    BY <2>1, <2>2
<1>5. ASSUME ~unended
      PROVE  Recoverable(before) /\ ~StepOpen(before) /\ Answered(before) /\ TurnOpen(before)
  <2> DEFINE mid == Append(s.log, Rec("revision", id, s.job))
  <2>1. Recoverable(s.log) /\ ~StepOpen(s.log) /\ Answered(s.log) /\ TurnOpen(s.log)
    BY <1>0, <1>1, <1>5 DEF Sound
  <2>2. /\ mid \in Seq(Record) /\ Recoverable(mid) /\ ~StepOpen(mid) /\ Answered(mid)
        /\ TurnOpen(mid)
    BY <1>0, <1>3, <2>1, RecoverableAppend, AppendSays, AnsweredAppend
  <2>3. CASE auto
    <3>1. before = Append(mid, Rec("decision", id, s.job))
      BY <2>3
    <3> HIDE DEF mid, before
    <3> QED
      BY <1>3, <2>2, <3>1, RecoverableAppend, AppendSays, AnsweredAppend
  <2>4. CASE ~auto
    BY <2>1, <2>4
  <2> QED
    BY <2>3, <2>4
<1> HIDE DEF before, cand
<1>6. cand \in Seq(Record) /\ Has(cand, "intent", id)
  BY <1>3, <1>4, HasAppend
<1>7. ~unended => /\ Recoverable(cand) /\ ~StepOpen(cand) /\ TurnOpen(cand) /\ AnsweredBut(cand, id)
  BY <1>3, <1>4, <1>5, RecoverableAppend, AppendSays, AnsweredAppend
<1>8. s.steps + 1 <= StepBudget[h]
  <2>1. s.steps < StepBudget[h] /\ StepBudget[h] \in Nat
    BY <1>0, <1>1, BoundsAssumption DEF Remembers, Budgeted
  <2> QED
    BY <1>0, <2>1
<1>9. /\ p \in State /\ p.pc = s.pc /\ p.log = s.log /\ p.cand = s.cand /\ p.id = id
      /\ p.steps = s.steps + 1 /\ p.result = s.result
  <2>1. s.steps + 1 \in Nat
    BY <1>0
  <2> QED
    BY <1>0, <1>2, <2>1 DEF State
<1> HIDE DEF p
<1>10. ~unended => /\ Recoverable(s.log) /\ ~StepOpen(s.log) /\ Answered(s.log) /\ TurnOpen(s.log)
                   /\ Recoverable(s.cand) /\ ~StepOpen(s.cand)
  BY <1>0, <1>1 DEF Sound
<1>11. Remembers(h, ToCommit(p, "intent", cand), unended)
  <2>1. "intent" \in Purposes
    BY DEF Purposes
  <2> QED
    BY <1>0, <1>6, <1>7, <1>8, <1>9, <1>10, <2>1, ToCommitRemembers
<1> QED
  BY <1>1, <1>11, MovesOn

\* The step begins, or its reservation refuses it.
LEMMA ReserveRemembers ==
    ASSUME TurnInv, NEW h \in Host, Reserve(h) \/ ReserveRefused(h)
    PROVE  TurnInv'
<1> DEFINE s == host[h]
<1>0. /\ s \in State /\ Known(s.log) /\ s.steps <= StepBudget[h] /\ Remembers(h, s, unended)
      /\ ~unended => Sound(s)
  BY InTurnRemembers
<1>1. s.pc = "reserve" /\ UNCHANGED <<sent, unended>>
  BY DEF Reserve, ReserveRefused, At
<1>2. ~unended => /\ Recoverable(s.log) /\ ~StepOpen(s.log) /\ TurnOpen(s.log) /\ AnsweredBut(s.log, s.id)
                  /\ Recoverable(s.cand) /\ ~StepOpen(s.cand)
  BY <1>0, <1>1 DEF Sound
<1>3. Has(disk, "intent", s.id)
  BY <1>0, <1>1 DEF Remembers, Stored
<1>4. CASE Reserve(h)
  <2> DEFINE a == Adds(s, "stepStart")
             t == [a EXCEPT !.pc = "send"]
  <2>1. Step(h, t) /\ faults' = faults
    BY <1>4 DEF Reserve
  <2>2. "stepStart" \in RecordKinds /\ "stepStart" \notin Weighty
    BY DEF RecordKinds, Weighty
  <2>3. /\ a \in State /\ Known(a.log) /\ a.cand = s.cand /\ a.id = s.id /\ a.steps = s.steps
        /\ ~unended => Recoverable(a.log) /\ TurnOpen(a.log) /\ AnsweredBut(a.log, a.id)
    BY <1>0, <1>2, <2>2, AddsSays
  <2> HIDE DEF a
  <2>4. t \in State /\ t.pc = "send" /\ t.log = a.log /\ t.cand = s.cand /\ t.id = s.id /\ t.steps = s.steps
    BY <2>3 DEF State, Places
  <2> HIDE DEF t
  <2>5. Budgeted(h, t) /\ Stored(t) /\ Writes(t)
    BY <1>0, <1>3, <2>3, <2>4 DEF Budgeted, Stored, Writes, Known, Committing
  <2>6. ~unended => Sound(t)
    BY <1>2, <2>3, <2>4 DEF Sound, Committing
  <2>7. Remembers(h, t, unended)
    BY <2>4, <2>5, <2>6 DEF Remembers
  <2> QED
    BY <1>1, <2>1, <2>7, MovesOn
<1>5. CASE ReserveRefused(h)
  <2> DEFINE a == Adds(s, "finished")
  <2>1. Step(h, TurnEnds(a, "error")) /\ Fault
    BY <1>5 DEF ReserveRefused
  <2>2. "finished" \in RecordKinds /\ "finished" \notin Weighty
    BY DEF RecordKinds, Weighty
  <2>3. /\ a \in State /\ Known(a.log) /\ a.cand = s.cand
        /\ ~unended => Recoverable(a.log) /\ TurnOpen(a.log) /\ Answered(a.log) /\ ~StepOpen(a.log)
    BY <1>0, <1>2, <2>2, AddsSays
  <2> HIDE DEF a
  <2>4. Remembers(h, TurnEnds(a, "error"), unended)
    BY <1>2, <2>3, TurnEndsRemembers
  <2> QED
    BY <1>1, <2>1, <2>4, MovesOn
<1> QED
  BY <1>4, <1>5

\* The request is sent, and what comes back is recorded.
LEMMA SendRemembers ==
    ASSUME TurnInv, NEW h \in Host,
           \/ Send(h) \/ ReplyFailed(h)
           \/ \E result \in {"final", "tools", "interrupted"}, staged \in BOOLEAN :
                  Reply(h, result, staged)
    PROVE  TurnInv'
<1> DEFINE s == host[h]
<1>0. /\ s \in State /\ Known(s.log) /\ s.steps <= StepBudget[h] /\ Remembers(h, s, unended)
      /\ s.id \in Nat /\ sent \subseteq Nat /\ unended \in BOOLEAN
      /\ ~unended => Sound(s)
  BY InTurnRemembers
<1>1. s.pc \in {"send", "reply"} /\ UNCHANGED <<unended, faults>>
  BY DEF Send, ReplyFailed, Reply, At
<1>2. ~unended => /\ Recoverable(s.log) /\ TurnOpen(s.log) /\ AnsweredBut(s.log, s.id)
                  /\ Recoverable(s.cand) /\ ~StepOpen(s.cand)
  BY <1>0, <1>1 DEF Sound
<1>3. \A result \in {"final", "tools", "interrupted", "error"} :
        Remembers(h, StepEnds(s, result), unended)
  BY <1>0, <1>2, StepEndsRemembers
<1>4. CASE Send(h)
  <2>1. CASE s.stop
    <3>1. Step(h, StepEnds(s, "interrupted")) /\ sent' = sent
      BY <1>4, <2>1 DEF Send
    <3> QED
      BY <1>1, <1>3, <3>1, MovesOn
  <2>2. CASE ~s.stop
    <3> DEFINE t == [s EXCEPT !.pc = "reply"]
    <3>1. s.pc = "send" /\ Step(h, t) /\ sent' = sent \cup {s.id}
      BY <1>4, <2>2 DEF Send, At
    <3>2. Has(disk, "intent", s.id)
      BY <1>0, <3>1 DEF Remembers, Stored
    <3>3. t \in State /\ t.pc = "reply" /\ t.log = s.log /\ t.cand = s.cand /\ t.id = s.id
          /\ t.steps = s.steps
      BY <1>0 DEF State, Places
    <3> HIDE DEF t
    <3>4. Budgeted(h, t) /\ Stored(t) /\ Writes(t)
      BY <1>0, <3>3 DEF Budgeted, Stored, Writes, Known, Committing
    <3>5. ~unended => Sound(t)
      BY <1>2, <3>3 DEF Sound, Committing
    <3>6. Remembers(h, t, unended')
      BY <1>1, <3>3, <3>4, <3>5 DEF Remembers
    <3>7. faults' \in 0..MaxFaults
      BY <1>1 DEF TurnInv, Typed
    <3>8. /\ sent' \subseteq Nat
          /\ \A n \in sent' : n \in sent \/ Has(disk, "intent", n) \/ Has(disk, "draftIntent", n)
      BY <1>0, <3>1, <3>2
    <3> QED
      BY <1>0, <1>1, <3>1, <3>6, <3>7, <3>8, Moves
  <2> QED
    BY <2>1, <2>2
<1>5. CASE ReplyFailed(h)
  <2>1. Step(h, StepEnds(s, "error")) /\ sent' = sent
    BY <1>5 DEF ReplyFailed
  <2> QED
    BY <1>1, <1>3, <2>1, MovesOn
<1>6. CASE \E result \in {"final", "tools", "interrupted"}, staged \in BOOLEAN :
             Reply(h, result, staged)
  <2> DEFINE a == Adds(s, "answer")
  <2>1. PICK result \in {"final", "tools", "interrupted"}, staged \in BOOLEAN :
          Step(h, [StepEnds(a, result) EXCEPT !.staged = staged]) /\ sent' = sent
    BY <1>6 DEF Reply
  <2>2. "answer" \in RecordKinds /\ "answer" \notin Weighty
    BY DEF RecordKinds, Weighty
  <2>3. /\ a \in State /\ Known(a.log) /\ a.cand = s.cand /\ a.steps = s.steps
        /\ ~unended => Recoverable(a.log) /\ TurnOpen(a.log) /\ AnsweredBut(a.log, a.id)
    BY <1>0, <1>2, <2>2, AddsSays
  <2> HIDE DEF a
  <2> DEFINE e == StepEnds(a, result)
             t == [e EXCEPT !.staged = staged]
  <2>4. Remembers(h, e, unended)
    BY <1>0, <1>2, <2>3, StepEndsRemembers
  <2>5. e \in State
    BY <2>4 DEF Remembers
  <2> HIDE DEF e
  <2>6. /\ t \in State /\ t.pc = e.pc /\ t.log = e.log /\ t.cand = e.cand /\ t.then = e.then
        /\ t.halt = e.halt /\ t.id = e.id /\ t.steps = e.steps /\ t.result = e.result
    BY <2>5 DEF State
  <2>7. Step(h, t)
    BY <2>1 DEF e
  <2> HIDE DEF t
  <2>8. Remembers(h, t, unended)
    BY <2>4, <2>6 DEF Remembers, Budgeted, Stored, Writes, Sound
  <2> QED
    BY <1>1, <2>1, <2>7, <2>8, MovesOn
<1> QED
  BY <1>4, <1>5, <1>6

\* The step ends, or its reservation refuses it the record.
LEMMA EndStepRemembers ==
    ASSUME TurnInv, NEW h \in Host, EndStep(h) \/ EndStepRefused(h)
    PROVE  TurnInv'
<1> DEFINE s == host[h]
<1>0. /\ s \in State /\ Known(s.log) /\ s.steps <= StepBudget[h] /\ sent \subseteq Nat
      /\ ~unended => Sound(s)
  BY InTurnRemembers
<1>1. s.pc = "stepEnd" /\ UNCHANGED sent
  BY DEF EndStep, EndStepRefused, At
<1>2. ~unended => /\ Recoverable(s.log) /\ TurnOpen(s.log) /\ AnsweredBut(s.log, s.id)
                  /\ Recoverable(s.cand) /\ ~StepOpen(s.cand)
  BY <1>0, <1>1 DEF Sound
<1>3. CASE EndStep(h)
  <2> DEFINE a == Adds(s, "stepEnd")
             t == [a EXCEPT !.pc = "settle"]
  <2>1. Step(h, t) /\ UNCHANGED <<unended, faults>>
    BY <1>3 DEF EndStep
  <2>2. "stepEnd" \in RecordKinds /\ "stepEnd" \notin Weighty
    BY DEF RecordKinds, Weighty
  <2>3. /\ a \in State /\ Known(a.log) /\ a.cand = s.cand /\ a.id = s.id /\ a.steps = s.steps
        /\ ~unended => /\ Recoverable(a.log) /\ TurnOpen(a.log) /\ AnsweredBut(a.log, a.id)
                       /\ ~StepOpen(a.log)
    BY <1>0, <1>2, <2>2, AddsSays
  <2> HIDE DEF a
  <2>4. t \in State /\ t.pc = "settle" /\ t.log = a.log /\ t.cand = s.cand /\ t.id = a.id /\ t.steps = s.steps
    BY <2>3 DEF State, Places
  <2> HIDE DEF t
  <2>5. Budgeted(h, t) /\ Stored(t) /\ Writes(t)
    BY <1>0, <2>3, <2>4 DEF Budgeted, Stored, Writes, Known, Committing
  <2>6. ~unended => Sound(t)
    BY <1>2, <2>3, <2>4 DEF Sound, Committing
  <2>7. Remembers(h, t, unended)
    BY <2>4, <2>5, <2>6 DEF Remembers
  <2> QED
    BY <1>1, <2>1, <2>7, MovesOn
<1>4. CASE EndStepRefused(h)
  <2>1. Step(h, TurnEnds(s, "error")) /\ Fault /\ unended' = TRUE
    BY <1>4 DEF EndStepRefused
  <2>2. Remembers(h, TurnEnds(s, "error"), TRUE)
    BY <1>0, TurnEndsRemembers
  <2>3. faults' \in 0..MaxFaults
    BY <2>1, BoundsAssumption DEF TurnInv, Typed, Fault
  <2> QED
    BY <1>0, <1>1, <2>1, <2>2, <2>3, Moves
<1> QED
  BY <1>3, <1>4

\* Without a proposal the request is finished in memory.
LEMMA SettleRemembers ==
    ASSUME TurnInv, NEW h \in Host, Settle(h)
    PROVE  TurnInv'
<1> DEFINE s == host[h]
           a == Adds(s, "finished")
           t == [a EXCEPT !.pc = "stepped"]
<1>0. /\ s \in State /\ Known(s.log) /\ s.steps <= StepBudget[h]
      /\ ~unended => Sound(s)
  BY InTurnRemembers
<1>1. s.pc = "settle" /\ Step(h, t) /\ UNCHANGED <<sent, unended, faults>>
  BY DEF Settle, At
<1>2. ~unended => /\ Recoverable(s.log) /\ ~StepOpen(s.log) /\ TurnOpen(s.log) /\ AnsweredBut(s.log, s.id)
                  /\ Recoverable(s.cand) /\ ~StepOpen(s.cand)
  BY <1>0, <1>1 DEF Sound
<1>3. "finished" \in RecordKinds /\ "finished" \notin Weighty
  BY DEF RecordKinds, Weighty
<1>4. /\ a \in State /\ Known(a.log) /\ a.cand = s.cand /\ a.id = s.id /\ a.steps = s.steps
      /\ ~unended => Recoverable(a.log) /\ TurnOpen(a.log) /\ Answered(a.log) /\ ~StepOpen(a.log)
  BY <1>0, <1>2, <1>3, AddsSays
<1> HIDE DEF a
<1>5. t \in State /\ t.pc = "stepped" /\ t.log = a.log /\ t.cand = s.cand /\ t.steps = s.steps
  BY <1>4 DEF State, Places
<1> HIDE DEF t
<1>6. Budgeted(h, t) /\ Stored(t) /\ Writes(t)
  BY <1>0, <1>4, <1>5 DEF Budgeted, Stored, Writes, Known, Committing
<1>7. ~unended => Sound(t)
  BY <1>2, <1>4, <1>5 DEF Sound, Committing
<1>8. Remembers(h, t, unended)
  BY <1>5, <1>6, <1>7 DEF Remembers
<1> QED
  BY <1>1, <1>8, MovesOn

\* A proposal is decided: the decision and the outcome go into one commit.
LEMMA ProposeRemembers ==
    ASSUME TurnInv, NEW h \in Host, NEW accepted \in BOOLEAN, Propose(h, accepted)
    PROVE  TurnInv'
<1> DEFINE s == host[h]
           p == [s EXCEPT !.staged = FALSE]
           x == Rec("revision", s.id, s.job)
           y == Rec("decision", s.id, s.job)
           z == Rec("finished", s.id, s.job)
           before == IF accepted THEN Append(s.log, x) ELSE s.log
           cand == s.log \o (IF accepted THEN <<x>> ELSE <<>>) \o <<y, z>>
<1>0. /\ s \in State /\ Known(s.log) /\ s.log \in Seq(Record) /\ s.job \in 0..MaxWork
      /\ s.id \in Nat /\ s.steps <= StepBudget[h]
      /\ ~unended => Sound(s)
  BY InTurnRemembers
<1>1. s.pc = "settle" /\ Step(h, ToCommit(p, "settle", cand)) /\ UNCHANGED <<sent, unended, faults>>
  BY DEF Propose, At
<1>2. /\ x \in Record /\ x.is = "revision" /\ y \in Record /\ y.is = "decision"
      /\ z \in Record /\ z.is = "finished" /\ z.of = s.id
  BY <1>0, RecTyped DEF RecordKinds
<1>3. p \in State /\ p.log = s.log /\ p.cand = s.cand /\ p.id = s.id /\ p.steps = s.steps
  BY <1>0 DEF State
<1> HIDE DEF p, x, y, z
<1>4. before \in Seq(Record) /\ cand = Append(Append(before, y), z)
  <2>1. before \in Seq(Record) /\ cand = before \o <<y, z>>
    <3>1. CASE accepted
      <4>1. before = Append(s.log, x) /\ cand = (s.log \o <<x>>) \o <<y, z>>
        BY <3>1
      <4>2. s.log \o <<x>> = Append(s.log, x)
        BY <1>0, <1>2, AppendIsConcat
      <4> HIDE DEF before, cand
      <4> QED
        BY SMTT(30), <1>0, <1>2, <4>1, <4>2
    <3>2. CASE ~accepted
      BY <1>0, <1>2, <3>2
    <3> QED
      BY <3>1, <3>2
  <2> QED
    BY <1>2, <2>1, TwoMore
<1>5. ~unended => /\ Recoverable(s.log) /\ ~StepOpen(s.log) /\ TurnOpen(s.log) /\ AnsweredBut(s.log, s.id)
                  /\ Recoverable(s.cand) /\ ~StepOpen(s.cand)
  BY <1>0, <1>1 DEF Sound
<1>6. ASSUME ~unended
      PROVE  Recoverable(before) /\ ~StepOpen(before) /\ TurnOpen(before) /\ AnsweredBut(before, s.id)
  <2>1. CASE accepted
    <3>1. before = Append(s.log, x)
      BY <2>1
    <3> HIDE DEF before
    <3> QED
      BY <1>0, <1>2, <1>5, <1>6, <3>1, RecoverableAppend, AppendSays, AnsweredAppend
  <2>2. CASE ~accepted
    BY <1>5, <1>6, <2>2
  <2> QED
    BY <2>1, <2>2
<1> HIDE DEF before, cand
<1> DEFINE mid == Append(before, y)
<1>7. /\ mid \in Seq(Record)
      /\ ~unended => Recoverable(mid) /\ ~StepOpen(mid) /\ TurnOpen(mid) /\ AnsweredBut(mid, s.id)
  BY <1>2, <1>4, <1>6, RecoverableAppend, AppendSays, AnsweredAppend
<1>8. cand = Append(mid, z)
  BY <1>4
<1> HIDE DEF mid
<1>9. /\ cand \in Seq(Record)
      /\ ~unended => Recoverable(cand) /\ ~StepOpen(cand) /\ TurnOpen(cand) /\ Answered(cand)
  BY <1>2, <1>7, <1>8, RecoverableAppend, AppendSays, AnsweredAppend
<1>10. Remembers(h, ToCommit(p, "settle", cand), unended)
  <2>1. "settle" \in Purposes
    BY DEF Purposes
  <2> QED
    BY <1>0, <1>3, <1>5, <1>9, <2>1, ToCommitRemembers
<1> QED
  BY <1>1, <1>10, MovesOn

\* The turn goes on with another step, or to its end.
LEMMA SteppedRemembers ==
    ASSUME TurnInv, NEW h \in Host, Stepped(h)
    PROVE  TurnInv'
<1> DEFINE s == host[h]
           t == [s EXCEPT !.pc = "top", !.id = 0, !.result = "none"]
<1>0. /\ s \in State /\ Known(s.log) /\ s.steps <= StepBudget[h]
      /\ ~unended => Sound(s)
  BY InTurnRemembers
<1>1. s.pc = "stepped" /\ UNCHANGED <<sent, unended, faults>>
      /\ ((s.steps < StepBudget[h] /\ Step(h, t)) \/ Step(h, TurnEnds(s, s.result)))
  BY DEF Stepped, At
<1>2. ~unended => /\ Recoverable(s.log) /\ ~StepOpen(s.log) /\ TurnOpen(s.log) /\ Answered(s.log)
                  /\ Recoverable(s.cand) /\ ~StepOpen(s.cand)
  BY <1>0, <1>1 DEF Sound
<1>3. CASE s.steps < StepBudget[h] /\ Step(h, t)
  <2>1. t \in State /\ t.pc = "top" /\ t.log = s.log /\ t.cand = s.cand /\ t.steps = s.steps
    BY <1>0 DEF State, Places
  <2> HIDE DEF t
  <2>2. Budgeted(h, t) /\ Stored(t) /\ Writes(t)
    BY <1>0, <1>3, <2>1 DEF Budgeted, Stored, Writes, Known, Committing
  <2>3. ~unended => Sound(t)
    BY <1>2, <2>1 DEF Sound, Committing
  <2>4. Remembers(h, t, unended)
    BY <2>1, <2>2, <2>3 DEF Remembers
  <2> QED
    BY <1>1, <1>3, <2>4, MovesOn
<1>4. CASE Step(h, TurnEnds(s, s.result))
  <2>1. Remembers(h, TurnEnds(s, s.result), unended)
    BY <1>0, <1>2, TurnEndsRemembers
  <2> QED
    BY <1>1, <1>4, <2>1, MovesOn
<1> QED
  BY <1>1, <1>3, <1>4

\* The turn's end is written, or its reservation refuses it.
LEMMA EndingRemembers ==
    ASSUME TurnInv, NEW h \in Host, Ending(h) \/ EndingRefused(h)
    PROVE  TurnInv'
<1> DEFINE s == host[h]
<1>0. /\ s \in State /\ Known(s.log) /\ s.log \in Seq(Record) /\ s.job \in 0..MaxWork
      /\ s.steps <= StepBudget[h] /\ sent \subseteq Nat
      /\ ~unended => Sound(s)
  BY InTurnRemembers
<1>1. s.pc = "ending" /\ UNCHANGED sent
  BY DEF Ending, EndingRefused, At
<1>e. "end" \in Purposes
  BY DEF Purposes
<1>2. CASE Ending(h)
  <2> DEFINE r == Rec("turnEnd", 0, s.job)
             log == Append(s.log, r)
             e == [s EXCEPT !.log = log]
  <2>0. Ended(s) = e
    BY DEF Ended
  <2>1. Step(h, ToCommit(e, "end", e.log)) /\ UNCHANGED <<unended, faults>>
    <3>1. Step(h, ToCommit(Ended(s), "end", Ended(s).log)) /\ UNCHANGED <<unended, faults>>
      BY <1>2 DEF Ending
    <3> QED
      BY <2>0, <3>1
  <2>2. r \in Record /\ r.is = "turnEnd"
    <3>1. "turnEnd" \in RecordKinds /\ 0 \in Nat
      BY DEF RecordKinds
    <3> QED
      BY <1>0, <3>1, RecTyped
  <2>3. ~unended => /\ Recoverable(s.log) /\ ~StepOpen(s.log) /\ Answered(s.log)
                    /\ Recoverable(s.cand) /\ ~StepOpen(s.cand)
    BY <1>0, <1>1 DEF Sound
  <2> HIDE DEF r
  <2>4. /\ log \in Seq(Record) /\ Known(log) /\ ~TurnOpen(log)
        /\ ~unended => Recoverable(log) /\ ~StepOpen(log) /\ Answered(log)
    BY <1>0, <2>2, <2>3, KnownAppend, RecoverableAppend, AppendSays, AnsweredAppend DEF Weighty
  <2> HIDE DEF log
  <2>5. e \in State /\ e.log = log /\ e.cand = s.cand /\ e.steps = s.steps
    BY <1>0, <2>4 DEF State
  <2> HIDE DEF e
  <2>6. Remembers(h, ToCommit(e, "end", e.log), unended)
    BY <1>0, <1>e, <2>3, <2>4, <2>5, ToCommitRemembers
  <2> QED
    BY <1>1, <2>1, <2>6, MovesOn
<1>3. CASE EndingRefused(h)
  <2> DEFINE e == [s EXCEPT !.result = "error"]
  <2>1. Step(h, ToCommit(e, "end", e.log)) /\ Fault /\ unended' = TRUE
    BY <1>3 DEF EndingRefused
  <2>2. e \in State /\ e.log = s.log /\ e.result = "error" /\ e.steps = s.steps
    BY <1>0 DEF State
  <2> HIDE DEF e
  <2>3. Remembers(h, ToCommit(e, "end", e.log), TRUE)
    BY <1>0, <1>e, <2>2, ToCommitRemembers
  <2>4. faults' \in 0..MaxFaults
    BY <2>1, BoundsAssumption DEF TurnInv, Typed, Fault
  <2> QED
    BY <1>0, <1>1, <2>1, <2>3, <2>4, Moves
<1> QED
  BY <1>2, <1>3

\* The outcome is reported.
LEMMA ReturnRemembers ==
    ASSUME TurnInv, NEW h \in Host, Return(h)
    PROVE  TurnInv'
<1> DEFINE s == host[h]
           t == [s EXCEPT !.pc = "doubt"]
<1>0. /\ s \in State /\ Known(s.log) /\ s.steps <= StepBudget[h]
      /\ ~unended => Sound(s)
  BY InTurnRemembers
<1>1. /\ s.pc = "returned" /\ UNCHANGED <<sent, unended, faults>>
      /\ Step(h, t) \/ Step(h, Rested(s, "ready"))
  BY DEF Return, At
<1>2. ~unended => /\ Recoverable(s.log) /\ ~StepOpen(s.log)
                  /\ Recoverable(s.cand) /\ ~StepOpen(s.cand)
  BY <1>0, <1>1 DEF Sound
<1>3. CASE Step(h, t)
  <2>1. t \in State /\ t.pc = "doubt" /\ t.log = s.log /\ t.cand = s.cand /\ t.steps = s.steps
    BY <1>0 DEF State, Places
  <2> HIDE DEF t
  <2>2. Budgeted(h, t) /\ Stored(t) /\ Writes(t)
    BY <1>0, <2>1 DEF Budgeted, Stored, Writes, Known, Committing
  <2>3. ~unended => Sound(t)
    BY <1>2, <2>1 DEF Sound, Committing
  <2>4. Remembers(h, t, unended)
    BY <2>1, <2>2, <2>3 DEF Remembers
  <2> QED
    BY <1>1, <1>3, <2>4, MovesOn
<1>4. CASE Step(h, Rested(s, "ready"))
  <2>1. Remembers(h, Rested(s, "ready"), unended)
    BY <1>0, <1>2, RestedRemembers
  <2> QED
    BY <1>1, <1>4, <2>1, MovesOn
<1> QED
  BY <1>1, <1>3, <1>4

\* A draft's request is written down, and sent.
LEMMA DraftRemembers ==
    ASSUME TurnInv, NEW h \in Host, Draft(h) \/ DraftSend(h)
    PROVE  TurnInv'
<1> DEFINE s == host[h]
<1>0. /\ s \in State /\ Known(s.log) /\ s.log \in Seq(Record) /\ s.job \in 0..MaxWork
      /\ s.id \in Nat /\ s.steps <= StepBudget[h] /\ sent \subseteq Nat /\ unended \in BOOLEAN
      /\ ~unended => Sound(s)
  BY InTurnRemembers
<1>1. s.pc \in {"draft", "draftSend"} /\ UNCHANGED <<unended, faults>>
  BY DEF Draft, DraftSend, At
<1>2. ~unended => /\ Recoverable(s.log) /\ ~StepOpen(s.log)
                  /\ Recoverable(s.cand) /\ ~StepOpen(s.cand)
  BY <1>0, <1>1 DEF Sound
<1>3. CASE Draft(h)
  <2> DEFINE id == Len(s.log) + 1
             d == [s EXCEPT !.id = id]
             r == Rec("draftIntent", id, s.job)
             cand == Append(s.log, r)
  <2>1. Step(h, Rested(s, "ready")) \/ Step(h, ToCommit(d, "draft", cand))
    BY <1>3 DEF Draft
  <2>2. UNCHANGED sent
    BY <1>3 DEF Draft
  <2>3. id \in Nat
    BY <1>0
  <2> HIDE DEF id
  <2>4. r \in Record /\ r.is = "draftIntent" /\ r.of = id
    BY <1>0, <2>3, RecTyped DEF RecordKinds
  <2> HIDE DEF r
  <2>5. /\ cand \in Seq(Record) /\ Has(cand, "draftIntent", id)
        /\ ~unended => Recoverable(cand) /\ ~StepOpen(cand)
    BY <1>0, <1>2, <2>4, HasAppend, RecoverableAppend, AppendSays
  <2> HIDE DEF cand
  <2>6. d \in State /\ d.log = s.log /\ d.cand = s.cand /\ d.id = id /\ d.steps = s.steps
    BY <1>0, <2>3 DEF State
  <2> HIDE DEF d
  <2>7. Remembers(h, Rested(s, "ready"), unended)
    BY <1>0, <1>2, RestedRemembers
  <2>8. Remembers(h, ToCommit(d, "draft", cand), unended)
    <3>1. "draft" \in Purposes
      BY DEF Purposes
    <3> QED
      BY <1>0, <1>2, <2>5, <2>6, <3>1, ToCommitRemembers
  <2> QED
    BY <1>1, <2>1, <2>2, <2>7, <2>8, MovesOn
<1>4. CASE DraftSend(h)
  <2> DEFINE r == Rec("finished", s.id, s.job)
             cand == Append(s.log, r)
  <2>1. s.pc = "draftSend" /\ sent' = sent \cup {s.id} /\ Step(h, ToCommit(s, "drafted", cand))
    BY <1>4 DEF DraftSend, At
  <2>2. Has(disk, "draftIntent", s.id)
    BY <2>1, InTurnRemembers DEF Remembers, Stored
  <2>3. r \in Record /\ r.is = "finished"
    BY <1>0, RecTyped DEF RecordKinds
  <2> HIDE DEF r
  <2>4. /\ cand \in Seq(Record)
        /\ ~unended => Recoverable(cand) /\ ~StepOpen(cand)
    BY <1>0, <1>2, <2>3, RecoverableAppend, AppendSays
  <2> HIDE DEF cand
  <2>5. Remembers(h, ToCommit(s, "drafted", cand), unended)
    <3>1. "drafted" \in Purposes
      BY DEF Purposes
    <3> QED
      BY <1>0, <1>2, <2>4, <3>1, ToCommitRemembers
  <2>6. faults' \in 0..MaxFaults
    BY <1>1 DEF TurnInv, Typed
  <2>7. /\ sent' \subseteq Nat
        /\ \A n \in sent' : n \in sent \/ Has(disk, "intent", n) \/ Has(disk, "draftIntent", n)
    BY <1>0, <2>1, <2>2
  <2> QED
    BY <1>0, <1>1, <2>1, <2>5, <2>6, <2>7, Moves
<1> QED
  BY <1>3, <1>4

-----------------------------------------------------------------------------
\* The inductive invariant.
LEMMA TurnInvInit == Init => TurnInv
<1> SUFFICES ASSUME Init PROVE TurnInv
  OBVIOUS
<1>1. /\ disk = <<>> /\ host = [h \in Host |-> Fresh] /\ sent = {} /\ unended = FALSE
      /\ work = 0 /\ faults = 0
  BY DEF Init
<1>2. MaxWork \in Nat /\ 0 \in 0..MaxWork /\ 0 \in 0..MaxFaults /\ <<>> \in Seq(Record)
  BY BoundsAssumption, EmptySays
<1>3. Fresh \in State /\ Fresh.pc = "idle" /\ Fresh.log = <<>> /\ Fresh.cand = <<>> /\ Fresh.steps = 0
  BY <1>2 DEF Fresh, State, Places
<1>4. Typed
  BY <1>1, <1>2, <1>3 DEF Typed
<1>5. ASSUME NEW h \in Host PROVE Remembers(h, Fresh, unended)
  <2>1. Budgeted(h, Fresh)
    BY <1>3, BoundsAssumption DEF Budgeted
  <2>2. Stored(Fresh) /\ Writes(Fresh)
    BY <1>3, EmptySays DEF Stored, Writes, Committing
  <2>3. Sound(Fresh)
    BY <1>3, EmptySays DEF Sound, Committing
  <2> QED
    BY <1>3, <2>1, <2>2, <2>3 DEF Remembers
<1>6. Recoverable(disk) /\ ~StepOpen(disk)
  BY <1>1, EmptySays
<1> QED
  BY <1>1, <1>4, <1>5, <1>6 DEF TurnInv

\* Every step keeps it, given that only one host writes.
LEMMA TurnInvNext == TurnInv /\ HostInv /\ [Next]_vars => TurnInv'
<1> SUFFICES ASSUME TurnInv, HostInv, [Next]_vars PROVE TurnInv'
  OBVIOUS
<1>1. CASE UNCHANGED vars
  <2>1. UNCHANGED <<disk, host, sent, unended, work, faults>>
    BY <1>1 DEF vars
  <2>2. Typed'
    BY <2>1 DEF TurnInv, Typed
  <2>3. ASSUME NEW h \in Host PROVE Remembers(h, host[h], unended)'
    BY <2>1 DEF TurnInv, Remembers, Stored, Writes
  <2>4. \A n \in sent' : Has(disk, "intent", n)' \/ Has(disk, "draftIntent", n)'
    BY <2>1 DEF TurnInv
  <2>5. ~unended' => Recoverable(disk)' /\ ~StepOpen(disk)'
    BY <2>1 DEF TurnInv
  <2> QED
    BY <2>2, <2>3, <2>4, <2>5 DEF TurnInv
<1>2. ASSUME NEW h \in Host,
             \/ Load(h) \/ Claim(h) \/ BeginTurn(h) \/ BeginDraft(h) \/ Release(h) \/ Crash(h)
      PROVE  TurnInv'
  BY <1>2, HoldingRemembers
<1>3. ASSUME NEW h \in Host, Work(h) \/ Stop(h)
      PROVE  TurnInv'
  <2>1. CASE Commit(h)
    BY <2>1, CommitRemembers
  <2>2. CASE Recover(h)
    BY <2>2, RecoverRemembers
  <2>3. CASE StartTurn(h)
    BY <2>3, StartTurnRemembers
  <2>4. CASE Stop(h) \/ TopStopped(h) \/ PrepareFails(h)
    BY <2>4, StopRemembers
  <2>5. CASE \E auto \in BOOLEAN : Prepare(h, auto)
    BY <2>5, PrepareRemembers
  <2>6. CASE Reserve(h) \/ ReserveRefused(h)
    BY <2>6, ReserveRemembers
  <2>7. CASE \/ Send(h) \/ ReplyFailed(h)
             \/ \E result \in {"final", "tools", "interrupted"}, staged \in BOOLEAN :
                    Reply(h, result, staged)
    BY <2>7, SendRemembers
  <2>8. CASE EndStep(h) \/ EndStepRefused(h)
    BY <2>8, EndStepRemembers
  <2>9. CASE Settle(h)
    BY <2>9, SettleRemembers
  <2>10. CASE \E accepted \in BOOLEAN : Propose(h, accepted)
    BY <2>10, ProposeRemembers
  <2>11. CASE Stepped(h)
    BY <2>11, SteppedRemembers
  <2>12. CASE Ending(h) \/ EndingRefused(h)
    BY <2>12, EndingRemembers
  <2>13. CASE Return(h)
    BY <2>13, ReturnRemembers
  <2>14. CASE Draft(h) \/ DraftSend(h)
    BY <2>14, DraftRemembers
  <2> QED
    BY <1>3, <2>1, <2>2, <2>3, <2>4, <2>5, <2>6, <2>7, <2>8, <2>9, <2>10, <2>11, <2>12, <2>13,
       <2>14 DEF Work
<1> QED
  BY <1>1, <1>2, <1>3 DEF Next

\* What every host remembers, and what is stored, holds in every behaviour.
THEOREM TurnInvariant == Spec => [](TurnInv /\ HostInv)
<1>1. Init => TurnInv /\ HostInv
  BY TurnInvInit, HostInvInit
<1>2. (TurnInv /\ HostInv) /\ [Next]_vars => (TurnInv /\ HostInv)'
  BY TurnInvNext, HostInvNext
<1> QED
  BY <1>1, <1>2, PTL DEF Spec

\* The claim is a host's or nobody's.
LEMMA ClaimKept ==
    ASSUME claim \in Host \cup {"none"}, [Next]_vars
    PROVE  claim' \in Host \cup {"none"}
<1>1. CASE UNCHANGED vars
  BY <1>1 DEF vars
<1>2. ASSUME NEW h \in Host, Work(h) \/ Stop(h)
      PROVE  UNCHANGED claim
  <2>1. CASE Commit(h)
    BY <2>1 DEF Commit, CommitHalted, Admit, NotCommitted, Install, Acknowledge, OutcomeUnknown,
                Reconcile, ReconcileFails, Doubt, DoubtStays, Step
  <2>2. CASE ~Commit(h)
    <3>1. CASE \/ Recover(h) \/ StartTurn(h) \/ TopStopped(h) \/ PrepareFails(h) \/ Stop(h)
               \/ \E auto \in BOOLEAN : Prepare(h, auto)
      BY <3>1 DEF Recover, StartTurn, TopStopped, PrepareFails, Stop, Prepare, Step
    <3>2. CASE \/ Reserve(h) \/ ReserveRefused(h) \/ Send(h) \/ ReplyFailed(h)
               \/ \E result \in {"final", "tools", "interrupted"}, staged \in BOOLEAN :
                      Reply(h, result, staged)
      BY <3>2 DEF Reserve, ReserveRefused, Send, ReplyFailed, Reply, Step
    <3>3. CASE \/ EndStep(h) \/ EndStepRefused(h) \/ Settle(h)
               \/ \E accepted \in BOOLEAN : Propose(h, accepted)
      BY <3>3 DEF EndStep, EndStepRefused, Settle, Propose, Step
    <3>4. CASE \/ Stepped(h) \/ Ending(h) \/ EndingRefused(h) \/ Return(h) \/ Draft(h) \/ DraftSend(h)
      BY <3>4 DEF Stepped, Ending, EndingRefused, Return, Draft, DraftSend, Step
    <3> QED
      BY <1>2, <2>2, <3>1, <3>2, <3>3, <3>4 DEF Work
  <2> QED
    BY <2>1, <2>2
<1>3. ASSUME NEW h \in Host,
             \/ Load(h) \/ Claim(h) \/ BeginTurn(h) \/ BeginDraft(h) \/ Release(h) \/ Crash(h)
      PROVE  claim' \in {claim, h, "none"}
  BY <1>3 DEF Load, Claim, BeginTurn, BeginDraft, Begin, Release, Crash, Step
<1> QED
  BY <1>1, <1>2, <1>3 DEF Next

\* A log holds records, the claim is held by a host past loading and by no
\* other, and no turn takes more steps than it is given.
THEOREM TypesHold == Spec => []TypeOK
<1>1. Init => claim \in Host \cup {"none"}
  BY DEF Init
<1>2. (claim \in Host \cup {"none"}) /\ [Next]_vars => (claim \in Host \cup {"none"})'
  BY ClaimKept
<1>3. TurnInv /\ HostInv /\ claim \in Host \cup {"none"} => TypeOK
  <2> SUFFICES ASSUME TurnInv, HostInv, claim \in Host \cup {"none"} PROVE TypeOK
    OBVIOUS
  <2>1. Range(disk) \subseteq [is : RecordKinds, of : Nat, job : 0..MaxWork]
    <3>1. disk \in Seq(Record)
      BY DEF TurnInv, Typed
    <3>2. \A i \in DOMAIN disk : disk[i] \in Record
      BY <3>1
    <3>3. Range(disk) \subseteq Record
      BY <3>2 DEF Range
    <3> QED
      BY <3>3 DEF Record
  <2>2. ASSUME NEW h \in Host
        PROVE  /\ host[h].pc \notin {"idle", "loaded"} <=> claim = h
               /\ host[h].steps \in 0..StepBudget[h]
    <3>1. host[h].pc \notin {"idle", "loaded"} <=> claim = h
      BY DEF HostInv, Claimed, Begun
    <3>2. host[h].steps \in Nat /\ host[h].steps <= StepBudget[h]
      BY InTurnRemembers
    <3>3. StepBudget[h] \in Nat
      BY BoundsAssumption
    <3> QED
      BY <3>1, <3>2, <3>3
  <2> QED
    BY <2>1, <2>2 DEF TypeOK, TurnInv, Typed
<1> QED
  BY <1>1, <1>2, <1>3, TurnInvariant, PTL DEF Spec

\* No request leaves a process, and no revision is in force in one, whose
\* record is not on disk (record_intent commits before the step is sent).
THEOREM WrittenAheadAlways == Spec => []WrittenAhead
<1>1. TurnInv => WrittenAhead
  BY DEF TurnInv, WrittenAhead, Remembers, Stored, Weighty
<1> QED
  BY <1>1, TurnInvariant, PTL

\* A stored turn that ended left no step open and no request unanswered,
\* unless a reservation refused an ending (settle, recovery_plan).
THEOREM EndingsWholeAlways == Spec => []EndingsWhole
<1>1. TurnInv => EndingsWhole
  BY DEF TurnInv, EndingsWhole, Recoverable, EndsClean
<1> QED
  BY <1>1, TurnInvariant, PTL

\* A turn that reports no error is on disk to its end (run_managed).
THEOREM AnswerIsSavedAlways == Spec => []AnswerIsSaved
<1>1. TurnInv => AnswerIsSaved
  BY DEF TurnInv, AnswerIsSaved, Remembers, Writes, At
<1> QED
  BY <1>1, TurnInvariant, PTL
=============================================================================
