------------------------------- MODULE Store -------------------------------
(***************************************************************************)
(* The session store of crates/nanus-adapter-store: store.rs and           *)
(* store/retire.rs.  Several processes share one directory tree; what is   *)
(* on disk is all they share.  One action is one step between two points   *)
(* where the other processes may act: a look at the tree, a rename, a      *)
(* flock.  A process may die at any of them, taking its locks with it.     *)
(*                                                                         *)
(* A session's lock file lies inside its directory, so a lock is on one    *)
(* directory (its inode) and not on a path: directories are numbered as    *)
(* they are made, and a path made again is another directory.  A log is    *)
(* the set of the turns it records.                                        *)
(***************************************************************************)
EXTENDS Naturals, FiniteSets

CONSTANTS
    Proc,          \* the processes
    Does,          \* the commands each process is for: run, name, delete
    Session,       \* session ids
    Name,          \* session names, folded
    None,          \* no log, no name, no session value
    ClaimlessSaves,\* whether a process saves a session it has no claim on
    MaxTurns,      \* bounds how many turns run
    MaxCrashes     \* bounds how many processes die half way

ASSUME NoneAssumption == None \notin Session \cup Name
ASSUME DoesAssumption == Does \in [Proc -> SUBSET {"run", "name", "delete"}]
ASSUME ClaimlessAssumption == ClaimlessSaves \in BOOLEAN
ASSUME BoundsAssumption == MaxTurns \in Nat /\ MaxCrashes \in Nat

VARIABLES
    dir,      \* each session's directory: its number (0: none), log and name
    trash,    \* the directories moved to the trash
    retired,  \* the ids with a retirement marker
    made,     \* how many directories were made
    claim,    \* the directory each process has locked for each session, or 0
    value,    \* the session value each process has in memory
    op,       \* where each process is
    turns,    \* how many turns were run
    crashes   \* how many processes died

vars == <<dir, trash, retired, made, claim, value, op, turns, crashes>>

Absent  == [number |-> 0, log |-> None, name |-> None]
NoValue == [session |-> None, log |-> {}]

\* at: the next step; on: the session; name: the name being recorded;
\* file: the directory locked for this operation alone; dest: the directory
\* a temporary file lies in, or the one being removed; left: the retired ids an
\* opening process has yet to look at.
Idle ==
    [at |-> "idle", on |-> None, name |-> None, file |-> 0, dest |-> 0, left |-> {}]
Dead == [Idle EXCEPT !.at = "dead"]

Init ==
    /\ dir \in [Session -> {[number |-> 1, log |-> {}, name |-> None]}]
    /\ trash = {} /\ retired = {}
    /\ made = [s \in Session |-> 1]
    /\ claim = [p \in Proc |-> [s \in Session |-> 0]]
    /\ value = [p \in Proc |-> NoValue]
    /\ op = [p \in Proc |-> Dead]
    /\ turns = 0 /\ crashes = 0

-----------------------------------------------------------------------------
(***************************************************************************)
(* Steps.                                                                  *)
(***************************************************************************)
Present(s) == dir[s].number # 0

\* The lock of directory d of session s is taken.
Locked(s, d) ==
    \E q \in Proc : claim[q][s] = d \/ (op[q].on = s /\ op[q].file = d)

At(p, step) == op[p].at = step
Begin(p, step, s, n) ==
    /\ At(p, "idle")
    /\ op' = [op EXCEPT ![p] = [Idle EXCEPT !.at = step, !.on = s, !.name = n]]
Go(p, step) == op' = [op EXCEPT ![p].at = step]
Return(p) == op' = [op EXCEPT ![p] = Idle]

\* create_dir_all of a session's directory.
MakeDir(s) ==
    IF Present(s) THEN UNCHANGED <<dir, made>>
    ELSE /\ made' = [made EXCEPT ![s] = @ + 1]
         /\ dir' = [dir EXCEPT ![s] = [Absent EXCEPT !.number = made[s] + 1]]

\* move_to_trash: the whole directory, in one rename.
MoveToTrash(s) ==
    /\ dir' = [dir EXCEPT ![s] = Absent]
    /\ trash' = trash \cup {<<s, dir[s].number>>}

-----------------------------------------------------------------------------
(***************************************************************************)
(* Opening the store, and finishing deletions a crash interrupted.         *)
(***************************************************************************)
Open(p) ==
    /\ At(p, "dead")
    /\ op' = [op EXCEPT ![p] = [Idle EXCEPT !.at = "open", !.left = retired]]
    /\ UNCHANGED <<dir, trash, retired, made, claim, value, turns, crashes>>

\* Wrong: only the trash is seen to.
OpenIgnores(p, s) ==
    /\ At(p, "open") /\ s \in op[p].left
    /\ op' = [op EXCEPT ![p].left = @ \ {s}]
    /\ UNCHANGED <<dir, trash, retired, made, claim, value, turns, crashes>>

\* Wrong: nobody is asked whether they hold what is finished off.
OpenUnasked(p, s) ==
    /\ At(p, "open") /\ s \in op[p].left
    /\ IF Present(s)
       THEN op' = [op EXCEPT ![p] = [@ EXCEPT !.at = "open.move", !.on = s,
                                              !.left = op[p].left \ {s}, !.file = dir[s].number]]
       ELSE op' = [op EXCEPT ![p].left = @ \ {s}]
    /\ UNCHANGED <<dir, trash, retired, made, claim, value, turns, crashes>>

\* The next retired id: skipped unless its directory is there and its lock free.
OpenNext(p, s) ==
    /\ At(p, "open") /\ s \in op[p].left
    /\ IF Present(s) /\ ~Locked(s, dir[s].number)
       THEN op' = [op EXCEPT ![p] = [@ EXCEPT !.at = "open.move", !.on = s,
                                              !.left = op[p].left \ {s}, !.file = dir[s].number]]
       ELSE op' = [op EXCEPT ![p].left = @ \ {s}]
    /\ UNCHANGED <<dir, trash, retired, made, claim, value, turns, crashes>>

\* The directory at the path now is moved, and the lock let go.
OpenMove(p) ==
    /\ At(p, "open.move")
    /\ IF Present(op[p].on) THEN MoveToTrash(op[p].on) ELSE UNCHANGED <<dir, trash>>
    /\ op' = [op EXCEPT ![p] = [@ EXCEPT !.at = "open", !.on = None, !.file = 0]]
    /\ UNCHANGED <<retired, made, claim, value, turns, crashes>>

\* empty_trash: what a live deletion is still removing goes with the rest.
OpenTrash(p) ==
    /\ At(p, "open") /\ op[p].left = {}
    /\ trash' = {}
    /\ Return(p)
    /\ UNCHANGED <<dir, retired, made, claim, value, turns, crashes>>

\* A process ends: the system closes its files, and so lets go of its locks.
Forget(p) ==
    /\ op' = [op EXCEPT ![p] = Dead]
    /\ claim' = [claim EXCEPT ![p] = [s \in Session |-> 0]]
    /\ value' = [value EXCEPT ![p] = NoValue]
    /\ UNCHANGED <<dir, trash, retired, made, turns>>

Exit(p) == At(p, "idle") /\ Forget(p) /\ UNCHANGED crashes

Crash(p) ==
    /\ ~At(p, "idle") /\ ~At(p, "dead") /\ crashes < MaxCrashes
    /\ crashes' = crashes + 1
    /\ Forget(p)

-----------------------------------------------------------------------------
(***************************************************************************)
(* Reading, claiming, running.                                             *)
(***************************************************************************)
\* load: a retired id reads as not found.
Load(p, s) ==
    /\ At(p, "idle") /\ value[p] = NoValue
    /\ s \notin retired /\ dir[s].log # None
    /\ value' = [value EXCEPT ![p] = [session |-> s, log |-> dir[s].log]]
    /\ UNCHANGED <<dir, trash, retired, made, claim, op, turns, crashes>>

LockCheck(p, s) ==
    /\ s \notin retired
    /\ Begin(p, "lock.dir", s, None)
    /\ UNCHANGED <<dir, trash, retired, made, claim, value, turns, crashes>>

LockDir(p) ==
    /\ At(p, "lock.dir")
    /\ MakeDir(op[p].on)
    /\ Go(p, "lock.take")
    /\ UNCHANGED <<trash, retired, claim, value, turns, crashes>>

\* Already this process's: granted again.  Otherwise the lock file is opened,
\* which needs its directory, and locked, which needs it free.
LockTake(p) ==
    LET s == op[p].on
    IN  /\ At(p, "lock.take")
        /\ IF claim[p][s] # 0 \/ ~Present(s) \/ Locked(s, dir[s].number)
           THEN Return(p)
           ELSE op' = [op EXCEPT ![p].at = "lock.again", ![p].file = dir[s].number]
        /\ UNCHANGED <<dir, trash, retired, made, claim, value, turns, crashes>>

\* Wrong: the lock is taken for a claim as soon as it is held.
LockTrusted(p) ==
    /\ At(p, "lock.again")
    /\ claim' = [claim EXCEPT ![p][op[p].on] = op[p].file]
    /\ Return(p)
    /\ UNCHANGED <<dir, trash, retired, made, value, turns, crashes>>

\* Wrong: the lock is kept while what it locks is moved away.
LockKept(p) ==
    /\ At(p, "lock.again")
    /\ IF op[p].on \in retired
       THEN Go(p, "undo") /\ UNCHANGED claim
       ELSE claim' = [claim EXCEPT ![p][op[p].on] = op[p].file] /\ Return(p)
    /\ UNCHANGED <<dir, trash, retired, made, value, turns, crashes>>

\* The marker is looked for again with the lock in hand.
LockAgain(p) ==
    LET s == op[p].on
    IN  /\ At(p, "lock.again")
        /\ IF s \in retired
           THEN /\ op' = [op EXCEPT ![p].at = "undo", ![p].file = 0]
                /\ UNCHANGED claim
           ELSE /\ claim' = [claim EXCEPT ![p][s] = op[p].file]
                /\ Return(p)
        /\ UNCHANGED <<dir, trash, retired, made, value, turns, crashes>>

\* release_lock; the holder is done with the session.
Release(p, s) ==
    /\ At(p, "idle") /\ claim[p][s] # 0
    /\ claim' = [claim EXCEPT ![p][s] = 0]
    /\ value' = [value EXCEPT ![p] = IF @.session = s THEN NoValue ELSE @]
    /\ UNCHANGED <<dir, trash, retired, made, op, turns, crashes>>

\* A turn is run on the value in memory, by a holder or through a stale handle.
Turn(p) ==
    /\ At(p, "idle") /\ value[p] # NoValue /\ turns < MaxTurns
    /\ ClaimlessSaves \/ claim[p][value[p].session] # 0
    /\ turns' = turns + 1
    /\ value' = [value EXCEPT ![p].log = @ \cup {turns + 1}]
    /\ UNCHANGED <<dir, trash, retired, made, claim, op, crashes>>

-----------------------------------------------------------------------------
(***************************************************************************)
(* Writing: a temporary file in the directory, then a rename within it.    *)
(***************************************************************************)
SaveCheck(p) ==
    LET s == value[p].session
    IN  /\ value[p] # NoValue /\ s \notin retired
        /\ ClaimlessSaves \/ claim[p][s] # 0
        /\ Begin(p, "save.dir", s, None)
        /\ UNCHANGED <<dir, trash, retired, made, claim, value, turns, crashes>>

SaveDir(p) ==
    /\ At(p, "save.dir")
    /\ MakeDir(op[p].on)
    /\ Go(p, "save.temp")
    /\ UNCHANGED <<trash, retired, claim, value, turns, crashes>>

\* write_atomic's first half fails when the directory is gone.
Stage(p, next) ==
    LET s == op[p].on
    IN  /\ IF Present(s)
           THEN op' = [op EXCEPT ![p].at = next, ![p].dest = dir[s].number]
           ELSE Return(p)
        /\ UNCHANGED <<dir, trash, retired, made, claim, value, turns, crashes>>

SaveTemp(p) == At(p, "save.temp") /\ Stage(p, "save.rename")

\* The rename fails when the temporary file is not in the directory at the path.
SaveRename(p) ==
    LET s == op[p].on
    IN  /\ At(p, "save.rename")
        /\ IF dir[s].number = op[p].dest
           THEN dir' = [dir EXCEPT ![s].log = value[p].log] /\ Go(p, "save.again")
           ELSE Return(p) /\ UNCHANGED dir
        /\ UNCHANGED <<trash, retired, made, claim, value, turns, crashes>>

\* Wrong: what was written is taken to stay.
SaveTrusted(p) ==
    /\ At(p, "save.again")
    /\ Return(p)
    /\ UNCHANGED <<dir, trash, retired, made, claim, value, turns, crashes>>

\* The marker is looked for again once the log is in place.
SaveAgain(p) ==
    /\ At(p, "save.again")
    /\ IF op[p].on \in retired THEN Go(p, "undo") ELSE Return(p)
    /\ UNCHANGED <<dir, trash, retired, made, claim, value, turns, crashes>>

\* undo_resurrection: what a write made again after a deletion is moved away.
UndoMove(p) ==
    LET s == op[p].on
    IN  /\ At(p, "undo")
        /\ IF Present(s)
           THEN /\ MoveToTrash(s)
                /\ op' = [op EXCEPT ![p].at = "undo.remove", ![p].dest = dir[s].number]
           ELSE Return(p) /\ UNCHANGED <<dir, trash>>
        /\ UNCHANGED <<retired, made, claim, value, turns, crashes>>

NameCheck(p, s, n) ==
    /\ s \notin retired /\ dir[s].log # None
    /\ Begin(p, "name.scan", s, n)
    /\ UNCHANGED <<dir, trash, retired, made, claim, value, turns, crashes>>

\* Every directory is asked for its name, a retired id's too while it lasts.
NameScan(p) ==
    LET s == op[p].on
    IN  /\ At(p, "name.scan")
        /\ IF \E t \in Session \ {s} : dir[t].name = op[p].name
           THEN Return(p) ELSE Go(p, "name.temp")
        /\ UNCHANGED <<dir, trash, retired, made, claim, value, turns, crashes>>

NameTemp(p) == At(p, "name.temp") /\ Stage(p, "name.rename")

NameRename(p) ==
    LET s == op[p].on
    IN  /\ At(p, "name.rename")
        /\ IF dir[s].number = op[p].dest
           THEN dir' = [dir EXCEPT ![s].name = op[p].name] ELSE UNCHANGED dir
        /\ Return(p)
        /\ UNCHANGED <<trash, retired, made, claim, value, turns, crashes>>

-----------------------------------------------------------------------------
(***************************************************************************)
(* Deleting.                                                               *)
(***************************************************************************)
\* An absent directory is no error and retires nothing.
DeleteStat(p, s) ==
    /\ Present(s)
    /\ Begin(p, "delete.own", s, None)
    /\ UNCHANGED <<dir, trash, retired, made, claim, value, turns, crashes>>

\* exclusive: held already, or the lock is taken for the deletion alone.
DeleteOwn(p) ==
    LET s == op[p].on
    IN  /\ At(p, "delete.own")
        /\ IF claim[p][s] # 0 THEN Go(p, "delete.mark")
           ELSE IF ~Present(s) \/ Locked(s, dir[s].number) THEN Return(p)
           ELSE op' = [op EXCEPT ![p].at = "delete.mark", ![p].file = dir[s].number]
        /\ UNCHANGED <<dir, trash, retired, made, claim, value, turns, crashes>>

DeleteMark(p) ==
    /\ At(p, "delete.mark")
    /\ retired' = retired \cup {op[p].on}
    /\ Go(p, "delete.move")
    /\ UNCHANGED <<dir, trash, made, claim, value, turns, crashes>>

\* A racing write may have moved the directory away already.
DeleteMove(p) ==
    LET s == op[p].on
    IN  /\ At(p, "delete.move")
        /\ IF Present(s)
           THEN /\ MoveToTrash(s)
                /\ op' = [op EXCEPT ![p].at = "delete.remove", ![p].dest = dir[s].number]
           ELSE Go(p, "delete.remove") /\ UNCHANGED <<dir, trash>>
        /\ UNCHANGED <<retired, made, claim, value, turns, crashes>>

\* The bytes go, or stay for the next opening.
Discard(p) ==
    \/ trash' = trash \ {<<op[p].on, op[p].dest>>}
    \/ UNCHANGED trash

\* Then a holder's claim ends with its deletion; a lock taken for it is dropped.
DeleteRemove(p) ==
    /\ At(p, "delete.remove")
    /\ Discard(p)
    /\ claim' = [claim EXCEPT ![p][op[p].on] = 0]
    /\ Return(p)
    /\ UNCHANGED <<dir, retired, made, value, turns, crashes>>

UndoRemove(p) ==
    /\ At(p, "undo.remove")
    /\ Discard(p)
    /\ Return(p)
    /\ UNCHANGED <<dir, retired, made, claim, value, turns, crashes>>

-----------------------------------------------------------------------------
\* What a running operation does next.
Resume(p) ==
    \/ \E s \in Session : OpenNext(p, s)
    \/ OpenMove(p) \/ OpenTrash(p)
    \/ LockDir(p) \/ LockTake(p) \/ LockAgain(p)
    \/ SaveDir(p) \/ SaveTemp(p) \/ SaveRename(p) \/ SaveAgain(p)
    \/ UndoMove(p) \/ UndoRemove(p)
    \/ NameScan(p) \/ NameTemp(p) \/ NameRename(p)
    \/ DeleteOwn(p) \/ DeleteMark(p) \/ DeleteMove(p) \/ DeleteRemove(p)

\* What a process may set about.
Start(p) ==
    \/ Open(p) \/ Exit(p) \/ Turn(p) \/ SaveCheck(p)
    \/ \E s \in Session :
        \/ "run" \in Does[p] /\ (Load(p, s) \/ LockCheck(p, s) \/ Release(p, s))
        \/ "delete" \in Does[p] /\ DeleteStat(p, s)
        \/ "name" \in Does[p] /\ \E n \in Name : NameCheck(p, s, n)

Next == \E p \in Proc : Start(p) \/ Resume(p) \/ Crash(p)

Spec == Init /\ [][Next]_vars

\* A running operation goes on, and the store is opened again some day.
FairSpec == Spec /\ \A p \in Proc : WF_vars(Resume(p)) /\ WF_vars(Open(p))

-----------------------------------------------------------------------------
(***************************************************************************)
(* Properties.                                                             *)
(***************************************************************************)
Steps ==
    {"idle", "dead", "open", "open.move", "lock.dir", "lock.take", "lock.again",
     "save.dir", "save.temp", "save.rename", "save.again", "undo", "undo.remove",
     "name.scan", "name.temp", "name.rename",
     "delete.own", "delete.mark", "delete.move", "delete.remove"}

Logs == SUBSET (1..MaxTurns)

\* The steps of an operation that hold a lock of its own.
InHand == {"open.move", "lock.again", "delete.mark", "delete.move", "delete.remove"}

\* Every variable has its type, and an operation has a lock of its own only in
\* the steps that need one ("drop(file)", lock_blocking).
TypeOK ==
    /\ \A p \in Proc : op[p].file # 0 => op[p].at \in InHand
    /\ dir \in [Session -> [number : Nat, log : Logs \cup {None}, name : Name \cup {None}]]
    /\ trash \subseteq Session \X Nat
    /\ retired \subseteq Session
    /\ made \in [Session -> Nat]
    /\ claim \in [Proc -> [Session -> Nat]]
    /\ value \in [Proc -> [session : Session \cup {None}, log : Logs]]
    /\ op \in [Proc -> [at : Steps, on : Session \cup {None}, name : Name \cup {None},
                        file : Nat, dest : Nat, left : SUBSET Session]]
    /\ turns \in 0..MaxTurns /\ crashes \in 0..MaxCrashes

\* At most one process has a session's claim, although the lock is on a
\* directory and a deletion moves it away from under the path ("Two processes
\* that start at the same instant cannot both be first", lock_blocking).
OneHolder ==
    \A p, q \in Proc : \A s \in Session :
        claim[p][s] # 0 /\ claim[q][s] # 0 => p = q

\* A session that is held is moved only once its holder has marked it, by the
\* holder or by one that wrote in the same directory and undoes that ("A save that
\* raced this deletion saw the marker and moved the directory to the trash
\* itself"); no other deletion moves it, nor an opening that finishes one ("under
\* the claim, so a live deleter in another process is not raced", retire.rs).
HeldStays ==
    [][\A p \in Proc : \A s \in Session :
        /\ claim[p][s] # 0 /\ claim[p][s] = dir[s].number
        /\ dir'[s].number # dir[s].number
        => /\ op[p].at = "delete.move" /\ op[p].on = s
           /\ \E q \in Proc :
                /\ op'[q] # op[q] /\ op[q].on = s
                /\ q = p \/ (op[q].at = "undo" /\ op[q].dest = dir[s].number)]_vars

\* Until a process dies, whatever stands at the path of a deleted session has
\* someone under way who will move it ("A stale handle can no longer resurrect
\* what a person deleted", retire.rs).
StrayHasCleaner ==
    crashes = 0 => \A s \in retired : Present(s) =>
        \E p \in Proc : op[p].on = s /\ op[p].at \in
            {"lock.take", "lock.again", "save.temp", "save.rename", "save.again", "undo",
             "open.move", "delete.mark", "delete.move"}

\* A deleted session goes from its path for good, wherever a process died,
\* once the store is opened again ("A crash anywhere leaves a state
\* JsonlStore::new finishes rather than reverses", retire.rs).
DeletedGoes == \A s \in Session : s \in retired ~> [](~Present(s))

\* No save drops a turn the log on disk has ("The claim is what turns that from
\* a silent overwrite into a sentence naming the holder", StorePort::lock).
NothingOverwritten ==
    [][\A s \in Session :
        dir[s].log # None /\ dir'[s].log # None => dir[s].log \subseteq dir'[s].log]_vars
=============================================================================
