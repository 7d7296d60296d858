---------------------------- MODULE StoreProofs ----------------------------
(***************************************************************************)
(* Proofs about Store: the type invariant, that a session has one holder,  *)
(* and that what a stale handle makes of a deleted one is cleaned up, for  *)
(* any number of processes, sessions, turns and crashes.                   *)
(*                                                                         *)
(* OneHolder is not inductive: a claim is the lock of one directory, and   *)
(* a session may have had several.  What makes it so is that a lock is one *)
(* process's (Exclusive), that while a session is not retired its locks    *)
(* are of the one directory at its path (Located), and that only a retired *)
(* session is moved from its path (Placed).  Who moves what a process      *)
(* holds needs more: directories are not numbered twice (Numbered), so a   *)
(* claim on a retired session is of a directory that is gone, or its       *)
(* holder is about to move it (Spared); another deletion or an opening     *)
(* would need the lock (Sole, Armed), and a write that is undone is in     *)
(* this directory and not in an older one (Written).                       *)
(***************************************************************************)
EXTENDS Store, TLAPS

\* An operation is on a session from its first step to its last, a process
\* saves what it loaded, and only a retired session is ever moved away.
Between == {"idle", "dead", "open"}
Moving == {"open.move", "undo", "undo.remove", "delete.move", "delete.remove"}
Loaded == \A p \in Proc : value[p] # NoValue => value[p].session \in Session
Placed ==
    /\ Loaded
    /\ \A p \in Proc :
        /\ op[p].at \notin Between => op[p].on \in Session
        /\ op[p].left \subseteq retired
        /\ op[p].at \in Moving => op[p].on \in retired

\* Process p has the lock of directory d of session s.
HasLock(p, s, d) == claim[p][s] = d \/ (op[p].on = s /\ op[p].file = d)

\* A lock is one process's.
Exclusive ==
    \A p, q \in Proc : \A s \in Session : \A d \in Nat \ {0} :
        HasLock(p, s, d) /\ HasLock(q, s, d) => p = q

\* Until a session is retired, a lock of it is of the directory at its path.
Located ==
    \A p \in Proc : \A s \in Session \ retired : \A d \in Nat \ {0} :
        HasLock(p, s, d) => dir[s].number = d

\* A directory locked or in place is one that was made.
Numbered ==
    \A s \in Session :
        /\ dir[s].number <= made[s]
        /\ \A p \in Proc : claim[p][s] <= made[s] /\ (op[p].on = s => op[p].file <= made[s])

\* A retired session that is still held in place is about to be moved by its holder.
Spared ==
    \A p \in Proc : \A s \in retired :
        claim[p][s] # 0 /\ claim[p][s] = dir[s].number
        => op[p].at = "delete.move" /\ op[p].on = s

\* A session is marked for deletion by a process that has its lock.
Owning ==
    \A p \in Proc :
        op[p].at = "delete.mark" => claim[p][op[p].on] # 0 \/ op[p].file # 0

HolderInv ==
    /\ TypeOK /\ Placed /\ Exclusive /\ Located /\ OneHolder
    /\ Numbered /\ Spared /\ Owning

\* The type invariant in two parts: what an operation's step changes, and the rest.
OpType == [at : Steps, on : Session \cup {None}, name : Name \cup {None},
           file : Nat, dest : Nat, left : SUBSET Session]
OpOK == op \in [Proc -> OpType] /\ \A p \in Proc : op[p].file # 0 => op[p].at \in InHand
DirType == [number : Nat, log : Logs \cup {None}, name : Name \cup {None}]
ValueType == [session : Session \cup {None}, log : Logs]
DiskOK ==
    /\ dir \in [Session -> DirType]
    /\ trash \subseteq Session \X Nat
    /\ retired \subseteq Session
    /\ made \in [Session -> Nat]
MemoryOK ==
    /\ claim \in [Proc -> [Session -> Nat]]
    /\ value \in [Proc -> ValueType]
    /\ turns \in 0..MaxTurns /\ crashes \in 0..MaxCrashes

\* The type invariant is its parts, before a step and after.
LEMMA TypeParts ==
    /\ TypeOK <=> OpOK /\ DiskOK /\ MemoryOK
    /\ TypeOK' <=> OpOK' /\ DiskOK' /\ MemoryOK'
BY DEF TypeOK, OpOK, OpType, DiskOK, MemoryOK, DirType, ValueType

\* The records a process or a session starts from have their types.
LEMMA IdleRecord ==
    Idle \in OpType /\ Idle.at = "idle" /\ Idle.on = None /\ Idle.file = 0 /\ Idle.left = {}
BY DEF Idle, OpType, Steps

LEMMA DeadRecord ==
    Dead \in OpType /\ Dead.at = "dead" /\ Dead.on = None /\ Dead.file = 0 /\ Dead.left = {}
<1>1. "dead" \in Steps BY DEF Steps
<1> QED BY <1>1, IdleRecord DEF Dead, OpType

LEMMA AbsentRecord == Absent \in DirType /\ Absent.number = 0
BY DEF Absent, DirType

LEMMA NoValueRecord == NoValue \in ValueType
BY DEF NoValue, ValueType, Logs

-----------------------------------------------------------------------------
(***************************************************************************)
(* What a step does to an operation.                                       *)
(***************************************************************************)
\* Process p's operation is at step a of session s with lock f, and no other moved.
Sets(p, a, s, f, left) ==
    /\ op' \in [Proc -> OpType]
    /\ op'[p].at = a /\ op'[p].on = s /\ op'[p].file = f /\ op'[p].left = left
    /\ \A q \in Proc \ {p} : op'[q] = op[q]

\* Each form a step has sets an operation so.
LEMMA GoSets ==
    ASSUME OpOK, NEW p \in Proc, NEW step \in Steps, Go(p, step)
    PROVE  Sets(p, step, op[p].on, op[p].file, op[p].left)
BY DEF OpOK, OpType, Go, Sets

LEMMA ReturnSets == ASSUME OpOK, NEW p \in Proc, Return(p) PROVE Sets(p, "idle", None, 0, {})
BY IdleRecord DEF OpOK, Return, Sets

LEMMA BeginSets ==
    ASSUME OpOK, NEW p \in Proc, NEW step \in Steps, NEW s \in Session \cup {None},
           NEW n \in Name \cup {None}, Begin(p, step, s, n)
    PROVE  Sets(p, step, s, 0, {})
<1> DEFINE r == [Idle EXCEPT !.at = step, !.on = s, !.name = n]
<1>1. r \in OpType /\ r.at = step /\ r.on = s /\ r.file = 0 /\ r.left = {}
  BY IdleRecord DEF OpType
<1>2. op' = [op EXCEPT ![p] = r]
  BY DEF Begin
<1> HIDE DEF r
<1> QED BY <1>1, <1>2 DEF OpOK, Sets

\* An operation that takes the lock of the directory at its session's path.
LEMMA TakeSets ==
    ASSUME OpOK, NEW p \in Proc, NEW step \in Steps, NEW f \in Nat,
           op' = [op EXCEPT ![p].at = step, ![p].file = f]
    PROVE  Sets(p, step, op[p].on, f, op[p].left)
BY DEF OpOK, OpType, Sets

LEMMA NextSets ==
    ASSUME OpOK, NEW p \in Proc, NEW s \in Session, NEW f \in Nat,
           op' = [op EXCEPT ![p] = [@ EXCEPT !.at = "open.move", !.on = s,
                                             !.left = op[p].left \ {s}, !.file = f]]
    PROVE  Sets(p, "open.move", s, f, op[p].left \ {s})
<1> DEFINE r == [op[p] EXCEPT !.at = "open.move", !.on = s, !.left = op[p].left \ {s}, !.file = f]
<1>1. "open.move" \in Steps
  BY DEF Steps
<1>2. op[p] \in OpType
  BY DEF OpOK
<1>3. r \in OpType /\ r.at = "open.move" /\ r.on = s /\ r.left = op[p].left \ {s} /\ r.file = f
  BY <1>1, <1>2 DEF OpType
<1>4. op' = [op EXCEPT ![p] = r]
  OBVIOUS
<1> HIDE DEF r
<1> QED BY <1>3, <1>4 DEF OpOK, Sets

\* An operation that notes which directory it writes in or has moved.
LEMMA DestSets ==
    ASSUME OpOK, NEW p \in Proc, NEW step \in Steps, NEW d \in Nat,
           op' = [op EXCEPT ![p].at = step, ![p].dest = d]
    PROVE  Sets(p, step, op[p].on, op[p].file, op[p].left)
BY DEF OpOK, OpType, Sets

\* A step keeps the operations' part of the invariant when what it sets fits.
LEMMA SetsKeep ==
    ASSUME OpOK, Placed, NEW p \in Proc, NEW a, NEW s, NEW f, NEW left,
           Sets(p, a, s, f, left),
           f # 0 => a \in InHand,
           a \notin Between => s \in Session,
           left \subseteq retired',
           a \in Moving => s \in retired',
           retired \subseteq retired', Loaded'
    PROVE  OpOK' /\ Placed'
<1>1. OpOK'
  BY DEF OpOK, Sets
<1>2. Placed'
  BY DEF Placed, Sets
<1> QED BY <1>1, <1>2

\* No lock and no claim is gained, and nothing that is not retired leaves its path.
Quiet ==
    /\ \A q \in Proc : \A s \in Session : \A d \in Nat \ {0} :
        HasLock(q, s, d)' => HasLock(q, s, d)
    /\ \A q \in Proc : \A s \in Session : claim'[q][s] # 0 => claim[q][s] # 0
    /\ retired \subseteq retired'
    /\ \A s \in Session \ retired : dir[s].number # 0 => dir'[s].number = dir[s].number

\* Such a step keeps everything said of locks.
LEMMA QuietKeeps ==
    ASSUME Exclusive, Located, OneHolder, Quiet
    PROVE  Exclusive' /\ Located' /\ OneHolder'
<1>1. Exclusive'
  BY DEF Exclusive, Quiet
<1>2. Located'
  BY DEF Located, Quiet
<1>3. OneHolder'
  BY DEF OneHolder, Quiet
<1> QED BY <1>1, <1>2, <1>3

\* An operation that keeps or drops its lock, its process's claims kept or dropped.
LEMMA SetsQuiet ==
    ASSUME NEW p \in Proc, NEW a, NEW s, NEW f, NEW left, Sets(p, a, s, f, left),
           f = 0 \/ (f = op[p].file /\ s = op[p].on),
           \A q \in Proc : \A t \in Session : claim'[q][t] = claim[q][t] \/ claim'[q][t] = 0,
           retired \subseteq retired',
           \A t \in Session \ retired : dir[t].number # 0 => dir'[t].number = dir[t].number
    PROVE  Quiet
<1>1. ASSUME NEW q \in Proc, NEW t \in Session, NEW d \in Nat \ {0}, HasLock(q, t, d)'
      PROVE  HasLock(q, t, d)
  <2>1. CASE q = p
    BY <1>1, <2>1 DEF Sets, HasLock
  <2>2. CASE q # p
    BY <1>1, <2>2 DEF Sets, HasLock
  <2> QED BY <2>1, <2>2
<1>2. \A q \in Proc : \A t \in Session : claim'[q][t] # 0 => claim[q][t] # 0
  OBVIOUS
<1> QED BY <1>1, <1>2 DEF Quiet

\* An operation that takes the free lock of the directory at its path.
LEMMA TakeKeeps ==
    ASSUME Exclusive, Located, OneHolder, DiskOK, NEW p \in Proc, NEW a, NEW s \in Session, NEW left,
           Sets(p, a, s, dir[s].number, left), Numbered, Spared, Owning,
           op[p].at # "delete.move", Present(s),
           ~Locked(s, dir[s].number), UNCHANGED <<dir, retired, made, claim>>
    PROVE  Exclusive' /\ Located' /\ OneHolder' /\ Numbered' /\ Spared' /\ Owning'
<1> DEFINE here == dir[s].number
<1>1. ASSUME NEW q \in Proc, NEW t \in Session, NEW d \in Nat \ {0}, HasLock(q, t, d)'
      PROVE  HasLock(q, t, d) \/ (q = p /\ t = s /\ d = here)
  <2>1. CASE q = p
    BY <1>1, <2>1 DEF Sets, HasLock
  <2>2. CASE q # p
    BY <1>1, <2>2 DEF Sets, HasLock
  <2> QED BY <2>1, <2>2
<1>2. \A q \in Proc : ~HasLock(q, s, here)
  BY DEF Locked, HasLock
<1>3. Exclusive'
  BY <1>1, <1>2 DEF Exclusive
<1>4. Located'
  BY <1>1 DEF Located
<1>5. OneHolder'
  BY DEF OneHolder
<1>6. Numbered'
  BY DEF Numbered, Sets
<1>7. Spared'
  BY DEF Spared, Sets
<1>8. Owning'
  BY DEF Owning, Sets, Present
<1> QED BY <1>3, <1>4, <1>5, <1>6, <1>7, <1>8

\* Any other step that marks a session for deletion has its claim.
LEMMA OwningKeep ==
    ASSUME Owning, NEW p \in Proc, NEW a, NEW s, NEW f, NEW left, Sets(p, a, s, f, left),
           a = "delete.mark" => claim'[p][s] # 0,
           \A q \in Proc \ {p} : claim'[q] = claim[q]
    PROVE  Owning'
BY DEF Owning, Sets

\* Directories are made with new numbers, or go.
Grows ==
    \A t \in Session :
        /\ made[t] <= made'[t]
        /\ dir'[t].number \in {0, dir[t].number} \cup (made[t] + 1)..made'[t]

\* A step that gains no lock and retires nothing held keeps what is said of numbers.
LEMMA GrowsKeep ==
    ASSUME DiskOK, MemoryOK, OpOK, DiskOK', Numbered, Spared,
           NEW p \in Proc, NEW a, NEW s, NEW f, NEW left, Sets(p, a, s, f, left),
           f = 0 \/ (f = op[p].file /\ s = op[p].on),
           \A q \in Proc : \A t \in Session : claim'[q][t] = claim[q][t] \/ claim'[q][t] = 0,
           Grows,
           \/ op[p].at # "delete.move"
           \/ op[p].on \notin Session
           \/ claim'[p][op[p].on] = 0 \/ dir'[op[p].on].number = 0,
           \A t \in retired' \ retired : \A q \in Proc :
                claim'[q][t] # 0 => q = p /\ a = "delete.move" /\ s = t
    PROVE  Numbered' /\ Spared'
<1>1. ASSUME NEW t \in Session
      PROVE  /\ made[t] \in Nat /\ made'[t] \in Nat /\ dir[t].number \in Nat
             /\ \A q \in Proc : claim[q][t] \in Nat /\ op[q].file \in Nat
  BY DEF DiskOK, DirType, MemoryOK, OpOK, OpType
<1>2. Numbered'
  <2> SUFFICES ASSUME NEW t \in Session
               PROVE  /\ dir'[t].number <= made'[t]
                      /\ \A q \in Proc : claim'[q][t] <= made'[t]
                                         /\ (op'[q].on = t => op'[q].file <= made'[t])
    BY DEF Numbered
  <2>1. dir'[t].number <= made'[t]
    BY <1>1 DEF Numbered, Grows
  <2>2. \A q \in Proc : claim'[q][t] <= made'[t]
    BY <1>1 DEF Numbered, Grows
  <2>3. ASSUME NEW q \in Proc, op'[q].on = t PROVE op'[q].file <= made'[t]
    BY <1>1, <2>3 DEF Numbered, Grows, Sets
  <2> QED BY <2>1, <2>2, <2>3
<1>3. Spared'
  <2> SUFFICES ASSUME NEW q \in Proc, NEW t \in retired',
                      claim'[q][t] # 0, claim'[q][t] = dir'[t].number
               PROVE  op'[q].at = "delete.move" /\ op'[q].on = t
    BY DEF Spared
  <2>1. t \in Session
    BY DEF DiskOK
  <2>2. claim'[q][t] = claim[q][t] /\ dir'[t].number = dir[t].number
    BY <1>1, <2>1 DEF Numbered, Grows
  <2>3. CASE t \in retired
    <3>1. op[q].at = "delete.move" /\ op[q].on = t
      BY <2>2, <2>3 DEF Spared
    <3>2. q # p
      BY <2>1, <3>1
    <3> QED BY <3>1, <3>2 DEF Sets
  <2>4. CASE t \notin retired
    BY <2>4 DEF Sets
  <2> QED BY <2>3, <2>4
<1> QED BY <1>2, <1>3

-----------------------------------------------------------------------------
(***************************************************************************)
(* What a step does to the tree.                                           *)
(***************************************************************************)
\* No directory is made where one is, nor is a session moved by making one.
LEMMA MakeDirOK ==
    ASSUME DiskOK, NEW s \in Session, MakeDir(s), UNCHANGED <<trash, retired>>
    PROVE  DiskOK' /\ Grows /\ \A t \in Session : dir[t].number # 0 => dir'[t].number = dir[t].number
<1>1. CASE Present(s)
  BY <1>1 DEF MakeDir, DiskOK, Grows
<1>2. CASE ~Present(s)
  <2> DEFINE new == [Absent EXCEPT !.number = made[s] + 1]
  <2>1. new \in DirType
    BY AbsentRecord DEF DirType, DiskOK
  <2>2. dir' = [dir EXCEPT ![s] = new] /\ made' = [made EXCEPT ![s] = @ + 1]
    BY <1>2 DEF MakeDir
  <2> HIDE DEF new
  <2>3. DiskOK'
    BY <2>1, <2>2 DEF DiskOK
  <2>4. \A t \in Session : dir[t].number # 0 => dir'[t].number = dir[t].number
    BY <1>2, <2>2 DEF DiskOK, Present
  <2>5. Grows
    <3>1. new.number = made[s] + 1 /\ made[s] \in Nat
      BY AbsentRecord DEF new, DirType, DiskOK
    <3> QED BY <2>2, <3>1 DEF DiskOK, Grows
  <2> QED BY <2>3, <2>4, <2>5
<1> QED BY <1>1, <1>2

\* Only the session moved away leaves its path.
LEMMA MoveToTrashOK ==
    ASSUME DiskOK, NEW s \in Session, MoveToTrash(s), UNCHANGED <<retired, made>>
    PROVE  /\ DiskOK' /\ Grows /\ dir'[s].number = 0
           /\ \A t \in Session \ {s} : dir'[t] = dir[t]
<1>1. dir[s].number \in Nat
  BY DEF DiskOK, DirType
<1> QED BY <1>1, AbsentRecord DEF MoveToTrash, DiskOK, Grows

\* A step that lets everything else be keeps the rest of the type invariant.
LEMMA DiskSame == ASSUME DiskOK, UNCHANGED <<dir, trash, retired, made>> PROVE DiskOK' /\ Grows
BY DEF DiskOK, Grows
LEMMA NumbersSame ==
    ASSUME DiskOK, UNCHANGED made, \A t \in Session : dir'[t].number = dir[t].number PROVE Grows
BY DEF DiskOK, Grows
LEMMA MemorySame == ASSUME MemoryOK, UNCHANGED <<claim, value, turns, crashes>> PROVE MemoryOK'
BY DEF MemoryOK
LEMMA LoadedSame == ASSUME Placed, UNCHANGED value PROVE Loaded'
BY DEF Placed, Loaded

\* The operation of a process is of its type, and on a session once begun.
LEMMA OpFacts ==
    ASSUME HolderInv, NEW p \in Proc
    PROVE  /\ OpOK /\ DiskOK /\ MemoryOK /\ Placed /\ Exclusive /\ Located /\ OneHolder
           /\ Numbered /\ Spared /\ Owning
           /\ op[p].at \in Steps /\ op[p].file \in Nat /\ op[p].left \subseteq retired
           /\ op[p].on \in Session \cup {None}
           /\ op[p].at \notin Between => op[p].on \in Session
           /\ op[p].at \in Moving => op[p].on \in retired
           /\ op[p].file # 0 => op[p].at \in InHand
           /\ \A s \in Session : dir[s].number \in Nat
<1>1. OpOK /\ DiskOK /\ MemoryOK /\ Placed /\ Exclusive /\ Located /\ OneHolder /\ Numbered /\ Spared /\ Owning
  BY TypeParts DEF HolderInv
<1>2. op[p] \in OpType
  BY <1>1 DEF OpOK
<1>3. op[p].at \in Steps /\ op[p].file \in Nat /\ op[p].on \in Session \cup {None}
  BY <1>2 DEF OpType
<1>4. op[p].file # 0 => op[p].at \in InHand
  BY <1>1 DEF OpOK
<1>5. \A s \in Session : dir[s].number \in Nat
  BY <1>1 DEF DiskOK, DirType
<1> QED BY <1>1, <1>3, <1>4, <1>5 DEF Placed

\* The steps by name, so that no leaf need spell out the sets they are in.
LEMMA StepSets ==
    /\ {"idle", "dead", "open", "open.move", "lock.dir", "lock.take", "lock.again",
        "save.dir", "save.temp", "save.rename", "save.again", "undo", "undo.remove",
        "name.scan", "name.temp", "name.rename", "delete.own", "delete.mark",
        "delete.move", "delete.remove"} \subseteq Steps
    /\ {"lock.again", "delete.mark", "open.move", "delete.move", "delete.remove"} \subseteq InHand
    /\ \A a \in {"idle", "dead", "open"} : a \in Between /\ a \notin Moving
    /\ \A a \in {"lock.dir", "lock.take", "lock.again", "save.dir", "save.temp", "save.rename",
                 "save.again", "name.scan", "name.temp", "name.rename", "delete.own",
                 "delete.mark"} : a \notin Between /\ a \notin Moving
    /\ \A a \in {"open.move", "undo", "undo.remove", "delete.move", "delete.remove"} :
        a \in Moving /\ a \notin Between
BY DEF Steps, InHand, Between, Moving

\* A step keeps the invariant, and leaves what is not retired at its path.
Safely ==
    /\ HolderInv'
    /\ \A t \in Session \ retired : dir[t].number # 0 => dir'[t].number = dir[t].number

\* A step that gains no lock keeps the invariant if what it sets fits and its
\* writes have their types.
LEMMA QuietStep ==
    ASSUME HolderInv, NEW p \in Proc, NEW a, NEW s, NEW f, NEW left,
           Sets(p, a, s, f, left),
           f = 0 \/ (f = op[p].file /\ s = op[p].on),
           f # 0 => a \in InHand, a \notin Between => s \in Session,
           left \subseteq retired', a \in Moving => s \in retired',
           DiskOK', MemoryOK', Loaded', Grows,
           \/ op[p].at # "delete.move"
           \/ op[p].on \notin Session
           \/ claim'[p][op[p].on] = 0 \/ dir'[op[p].on].number = 0,
           \A t \in retired' \ retired : \A q \in Proc :
                claim'[q][t] # 0 => q = p /\ a = "delete.move" /\ s = t,
           \A q \in Proc \ {p} : claim'[q] = claim[q],
           \A t \in Session : claim'[p][t] = claim[p][t] \/ claim'[p][t] = 0,
           a = "delete.mark" => claim'[p][s] # 0,
           retired \subseteq retired',
           \A t \in Session \ retired : dir[t].number # 0 => dir'[t].number = dir[t].number
    PROVE  Safely
<1>1. OpOK /\ Placed /\ Exclusive /\ Located /\ OneHolder
  BY OpFacts
<1>2. OpOK' /\ Placed'
  BY <1>1, SetsKeep
<1>3. \A q \in Proc : \A t \in Session : claim'[q][t] = claim[q][t] \/ claim'[q][t] = 0
  OBVIOUS
<1>4. Quiet
  BY <1>3, SetsQuiet
<1>5. Numbered' /\ Spared'
  BY <1>3, OpFacts, GrowsKeep
<1>6. Owning'
  BY OpFacts, OwningKeep
<1> QED BY <1>1, <1>2, <1>4, <1>5, <1>6, QuietKeeps, TypeParts DEF HolderInv, Safely

\* In particular one that leaves the tree and the claims as they were.
LEMMA PlainStep ==
    ASSUME HolderInv, NEW p \in Proc, NEW a, NEW s, NEW f, NEW left,
           Sets(p, a, s, f, left),
           f = 0 \/ (f = op[p].file /\ s = op[p].on),
           f # 0 => a \in InHand, a \notin Between => s \in Session,
           left \subseteq retired, a \in Moving => s \in retired,
           op[p].at # "delete.move", a = "delete.mark" => claim[p][s] # 0,
           UNCHANGED <<dir, trash, retired, made, claim, value, turns, crashes>>
    PROVE  Safely
<1>1. DiskOK' /\ MemoryOK' /\ Loaded' /\ Grows
  BY OpFacts, DiskSame, MemorySame, LoadedSame
<1>2. \A t \in Session \ retired : dir[t].number # 0 => dir'[t].number = dir[t].number
  OBVIOUS
<1> QED BY <1>1, <1>2, QuietStep

\* What begins an operation on a session, and what ends one.
LEMMA BeginStep ==
    ASSUME HolderInv, NEW p \in Proc, NEW s \in Session, NEW n \in Name \cup {None},
           NEW step \in {"save.dir", "name.scan", "delete.own"}, Begin(p, step, s, n),
           UNCHANGED <<dir, trash, retired, made, claim, value, turns, crashes>>
    PROVE  Safely
<1>1. Sets(p, step, s, 0, {})
  BY OpFacts, BeginSets, StepSets
<1> QED BY <1>1, StepSets, PlainStep DEF Begin, At

LEMMA ReturnStep ==
    ASSUME HolderInv, NEW p \in Proc, Return(p),
           op[p].at # "delete.move",
           UNCHANGED <<dir, trash, retired, made, claim, value, turns, crashes>>
    PROVE  Safely
<1>1. Sets(p, "idle", None, 0, {})
  BY OpFacts, ReturnSets
<1> QED BY <1>1, StepSets, PlainStep DEF At

-----------------------------------------------------------------------------
(***************************************************************************)
(* The steps, one lemma for each.                                          *)
(***************************************************************************)
LEMMA OpenStep == ASSUME HolderInv, NEW p \in Proc, Open(p) PROVE Safely
<1> DEFINE r == [Idle EXCEPT !.at = "open", !.left = retired]
<1>1. r \in OpType /\ r.at = "open" /\ r.on = None /\ r.file = 0 /\ r.left = retired
  BY IdleRecord, OpFacts, StepSets DEF OpType, DiskOK
<1>2. op' = [op EXCEPT ![p] = r]
  BY DEF Open
<1> HIDE DEF r
<1>3. Sets(p, "open", None, 0, retired)
  BY <1>1, <1>2, OpFacts DEF OpOK, Sets
<1> QED BY <1>3, StepSets, PlainStep DEF Open, At

LEMMA OpenNextStep == ASSUME HolderInv, NEW p \in Proc, NEW s \in Session, OpenNext(p, s) PROVE Safely
<1> USE OpFacts
<1> DEFINE rest == op[p].left \ {s}
<1>1. CASE Present(s) /\ ~Locked(s, dir[s].number)
  <2>1. op' = [op EXCEPT ![p] = [@ EXCEPT !.at = "open.move", !.on = s,
                                 !.left = op[p].left \ {s}, !.file = dir[s].number]]
    BY <1>1 DEF OpenNext
  <2>2. Sets(p, "open.move", s, dir[s].number, rest)
    BY <2>1, NextSets
  <2>3. DiskOK' /\ MemoryOK' /\ Loaded'
    BY DiskSame, MemorySame, LoadedSame DEF OpenNext
  <2>4. OpOK' /\ Placed'
    BY <2>2, <2>3, SetsKeep, StepSets DEF OpenNext
  <2>5. Exclusive' /\ Located' /\ OneHolder' /\ Numbered' /\ Spared' /\ Owning'
    BY <1>1, <2>2, TakeKeeps DEF OpenNext, At
  <2> QED BY <2>3, <2>4, <2>5, TypeParts DEF HolderInv, Safely, OpenNext
<1>2. CASE ~(Present(s) /\ ~Locked(s, dir[s].number))
  <2>1. op' = [op EXCEPT ![p].left = @ \ {s}]
    BY <1>2 DEF OpenNext
  <2>2. Sets(p, op[p].at, op[p].on, op[p].file, rest)
    BY <2>1 DEF OpOK, OpType, Sets
  <2> QED BY <2>2, PlainStep DEF OpenNext, At
<1> QED BY <1>1, <1>2

LEMMA OpenMoveStep == ASSUME HolderInv, NEW p \in Proc, OpenMove(p) PROVE Safely
<1> DEFINE r == [op[p] EXCEPT !.at = "open", !.on = None, !.file = 0]
<1>1. op[p].on \in Session /\ op[p].on \in retired /\ op[p].left \subseteq retired
  BY OpFacts, StepSets DEF OpenMove, At
<1>2. r \in OpType /\ r.at = "open" /\ r.on = None /\ r.file = 0 /\ r.left = op[p].left
  <2>1. op[p] \in OpType
    BY OpFacts DEF OpOK
  <2> QED BY <2>1, StepSets DEF OpType
<1>3. op' = [op EXCEPT ![p] = r]
  BY DEF OpenMove
<1> HIDE DEF r
<1>4. Sets(p, "open", None, 0, op[p].left)
  BY <1>2, <1>3, OpFacts DEF OpOK, Sets
<1>5. DiskOK' /\ Grows /\ \A t \in Session \ {op[p].on} : dir'[t] = dir[t]
  BY <1>1, OpFacts, MoveToTrashOK, DiskSame DEF OpenMove
<1>6. MemoryOK' /\ Loaded'
  BY OpFacts, MemorySame, LoadedSame DEF OpenMove
<1> QED BY <1>1, <1>4, <1>5, <1>6, QuietStep, StepSets DEF OpenMove, At

LEMMA OpenTrashStep == ASSUME HolderInv, NEW p \in Proc, OpenTrash(p) PROVE Safely
<1>1. Sets(p, "idle", None, 0, {})
  BY OpFacts, ReturnSets DEF OpenTrash
<1>2. DiskOK' /\ MemoryOK' /\ Loaded' /\ Grows
  BY OpFacts, MemorySame, LoadedSame, NumbersSame DEF OpenTrash, DiskOK
<1> QED BY <1>1, <1>2, QuietStep, StepSets DEF OpenTrash, At

\* A process that ends keeps no lock.
LEMMA ForgetStep ==
    ASSUME HolderInv, NEW p \in Proc, Forget(p), crashes' \in 0..MaxCrashes
    PROVE  Safely
<1>1. Sets(p, "dead", None, 0, {})
  BY OpFacts, DeadRecord DEF Forget, OpOK, Sets
<1>2. DiskOK' /\ Grows
  BY OpFacts, DiskSame DEF Forget
<1>3. MemoryOK'
  BY OpFacts, NoValueRecord DEF Forget, MemoryOK
<1>4. Loaded'
  BY OpFacts DEF Forget, Placed, Loaded, MemoryOK
<1>5. (\A q \in Proc \ {p} : claim'[q] = claim[q]) /\ \A t \in Session : claim'[p][t] = 0
  BY OpFacts DEF Forget, MemoryOK
<1> QED BY <1>1, <1>2, <1>3, <1>4, <1>5, QuietStep, StepSets DEF Forget, At

LEMMA LoadStep == ASSUME HolderInv, NEW p \in Proc, NEW s \in Session, Load(p, s) PROVE Safely
<1> DEFINE v == [session |-> s, log |-> dir[s].log]
<1>1. v \in ValueType /\ v.session = s
  BY OpFacts DEF Load, DiskOK, DirType, ValueType
<1>2. value' = [value EXCEPT ![p] = v]
  BY DEF Load
<1> HIDE DEF v
<1>3. MemoryOK' /\ Loaded'
  BY <1>1, <1>2, OpFacts DEF Load, MemoryOK, Placed, Loaded
<1>4. Sets(p, op[p].at, op[p].on, op[p].file, op[p].left)
  BY OpFacts DEF Load, OpOK, Sets
<1>5. DiskOK' /\ Grows
  BY OpFacts, DiskSame DEF Load
<1> QED BY <1>3, <1>4, <1>5, OpFacts, QuietStep DEF Load, At

LEMMA LockCheckStep == ASSUME HolderInv, NEW p \in Proc, NEW s \in Session, LockCheck(p, s) PROVE Safely
<1>1. Sets(p, "lock.dir", s, 0, {})
  BY OpFacts, BeginSets, StepSets DEF LockCheck
<1> QED BY <1>1, StepSets, PlainStep DEF LockCheck, Begin, At

LEMMA LockDirStep == ASSUME HolderInv, NEW p \in Proc, LockDir(p) PROVE Safely
<1>1. op[p].on \in Session /\ op[p].file = 0 /\ op[p].left \subseteq retired
  BY OpFacts DEF LockDir, At, InHand, Between
<1>2. Sets(p, "lock.take", op[p].on, 0, op[p].left)
  BY <1>1, OpFacts, GoSets, StepSets DEF LockDir
<1>3. DiskOK' /\ Grows /\ \A t \in Session : dir[t].number # 0 => dir'[t].number = dir[t].number
  BY <1>1, OpFacts, MakeDirOK DEF LockDir
<1>4. MemoryOK' /\ Loaded'
  BY OpFacts, MemorySame, LoadedSame DEF LockDir
<1> QED BY <1>1, <1>2, <1>3, <1>4, QuietStep, StepSets DEF LockDir, At

LEMMA LockTakeStep == ASSUME HolderInv, NEW p \in Proc, LockTake(p) PROVE Safely
<1> DEFINE s == op[p].on
<1>1. op[p].on \in Session /\ op[p].left \subseteq retired
  BY OpFacts DEF LockTake, At, Between
<1>2. CASE claim[p][s] # 0 \/ ~Present(s) \/ Locked(s, dir[s].number)
  BY <1>2, ReturnStep DEF LockTake, At
<1>3. CASE ~(claim[p][s] # 0 \/ ~Present(s) \/ Locked(s, dir[s].number))
  <2>1. op' = [op EXCEPT ![p].at = "lock.again", ![p].file = dir[s].number]
    BY <1>3 DEF LockTake
  <2>2. Sets(p, "lock.again", s, dir[s].number, op[p].left)
    BY <1>1, <2>1, OpFacts, TakeSets, StepSets
  <2>3. DiskOK' /\ MemoryOK' /\ Loaded'
    BY OpFacts, DiskSame, MemorySame, LoadedSame DEF LockTake
  <2>4. OpOK' /\ Placed'
    BY <1>1, <2>2, <2>3, OpFacts, SetsKeep, StepSets DEF LockTake
  <2>5. Exclusive' /\ Located' /\ OneHolder' /\ Numbered' /\ Spared' /\ Owning'
    BY <1>1, <1>3, <2>2, OpFacts, TakeKeeps DEF LockTake, At
  <2> QED BY <2>3, <2>4, <2>5, TypeParts DEF HolderInv, Safely, LockTake
<1> QED BY <1>2, <1>3

LEMMA LockAgainStep == ASSUME HolderInv, NEW p \in Proc, LockAgain(p) PROVE Safely
<1> DEFINE s == op[p].on
<1>1. s \in Session /\ op[p].left \subseteq retired
  BY OpFacts DEF LockAgain, At, Between
<1>2. CASE s \in retired
  <2>1. op' = [op EXCEPT ![p].at = "undo", ![p].file = 0] /\ UNCHANGED claim
    BY <1>2 DEF LockAgain
  <2>2. Sets(p, "undo", s, 0, op[p].left)
    BY <2>1, OpFacts, TakeSets, StepSets
  <2> QED BY <1>1, <1>2, <2>1, <2>2, PlainStep, StepSets DEF LockAgain, At
<1>3. CASE s \notin retired
  <2>1. claim' = [claim EXCEPT ![p][s] = op[p].file] /\ Return(p)
    BY <1>3 DEF LockAgain
  <2>2. Sets(p, "idle", None, 0, {})
    BY <2>1, OpFacts, ReturnSets
  <2>3. DiskOK' /\ Loaded'
    BY OpFacts, DiskSame, LoadedSame DEF LockAgain
  <2>4. MemoryOK'
    BY <1>1, <2>1, OpFacts DEF LockAgain, MemoryOK
  <2>5. OpOK' /\ Placed'
    BY <2>2, <2>3, OpFacts, SetsKeep, StepSets DEF LockAgain
  <2>6. ASSUME NEW q \in Proc, NEW t \in Session
        PROVE  claim'[q][t] = IF q = p /\ t = s THEN op[p].file ELSE claim[q][t]
    BY <1>1, <2>1, OpFacts DEF MemoryOK
  <2>7. ASSUME NEW q \in Proc, NEW t \in Session, NEW d \in Nat \ {0}, HasLock(q, t, d)'
        PROVE  HasLock(q, t, d)
    <3>1. CASE q = p
      <4>1. claim'[q][t] = d
        BY <2>2, <2>7, <3>1, NoneAssumption DEF HasLock, Sets
      <4> QED BY <2>6, <3>1, <4>1 DEF HasLock
    <3>2. CASE q # p
      BY <2>2, <2>6, <2>7, <3>2 DEF HasLock, Sets
    <3> QED BY <3>1, <3>2
  <2>8. Exclusive' /\ Located'
    BY <2>7, OpFacts DEF Exclusive, Located, LockAgain
  <2>9. OneHolder'
    <3> SUFFICES ASSUME NEW q \in Proc, NEW r \in Proc, NEW t \in Session,
                        claim'[q][t] # 0, claim'[r][t] # 0
                 PROVE  q = r
      BY DEF OneHolder
    <3>1. CASE t = s
      <4>1. PICK d \in Nat \ {0} : d = claim'[q][t]
        BY <2>4 DEF MemoryOK
      <4>2. PICK e \in Nat \ {0} : e = claim'[r][t]
        BY <2>4 DEF MemoryOK
      <4>3. HasLock(q, t, d)' /\ HasLock(r, t, e)'
        BY <4>1, <4>2 DEF HasLock
      <4>4. d = e
        BY <1>3, <2>8, <3>1, <4>3 DEF Located, LockAgain
      <4> QED BY <2>8, <4>3, <4>4 DEF Exclusive
    <3>2. CASE t # s
      BY <2>6, <3>2, OpFacts DEF OneHolder
    <3> QED BY <3>1, <3>2
  <2>10. Numbered'
    <3>1. op[p].file <= made[s] /\ made' = made /\ dir' = dir
      BY <1>1, OpFacts DEF Numbered, LockAgain
    <3>2. \A q \in Proc : \A t \in Session : claim'[q][t] <= made'[t]
      BY <2>6, <3>1, OpFacts DEF Numbered
    <3>3. \A q \in Proc : \A t \in Session : op'[q].on = t => op'[q].file <= made'[t]
      BY <2>2, <3>1, OpFacts, NoneAssumption DEF Numbered, Sets
    <3> QED BY <3>1, <3>2, <3>3, OpFacts DEF Numbered
  <2>11. Spared'
    <3> SUFFICES ASSUME NEW q \in Proc, NEW t \in retired',
                        claim'[q][t] # 0, claim'[q][t] = dir'[t].number
                 PROVE  op'[q].at = "delete.move" /\ op'[q].on = t
      BY DEF Spared
    <3>1. t \in retired /\ t \in Session /\ t # s /\ dir' = dir
      BY <1>3, OpFacts DEF LockAgain, DiskOK
    <3>2. op[q].at = "delete.move" /\ op[q].on = t
      BY <2>6, <3>1, OpFacts DEF Spared
    <3>3. q # p
      BY <3>2 DEF LockAgain, At
    <3> QED BY <2>2, <3>2, <3>3 DEF Sets
  <2>12. Owning'
    BY <2>1, <2>2, OpFacts DEF Owning, Sets, MemoryOK
  <2> QED BY <2>3, <2>4, <2>5, <2>8, <2>9, <2>10, <2>11, <2>12, TypeParts DEF HolderInv, Safely, LockAgain
<1> QED BY <1>2, <1>3

LEMMA ReleaseStep == ASSUME HolderInv, NEW p \in Proc, NEW s \in Session, Release(p, s) PROVE Safely
<1>1. Sets(p, op[p].at, op[p].on, op[p].file, op[p].left)
  BY OpFacts DEF Release, OpOK, Sets
<1>2. MemoryOK' /\ Loaded'
  BY OpFacts, NoValueRecord DEF Release, MemoryOK, Placed, Loaded
<1>3. DiskOK' /\ Grows
  BY OpFacts, DiskSame DEF Release
<1>4. /\ \A q \in Proc \ {p} : claim'[q] = claim[q]
      /\ \A t \in Session : claim'[p][t] = claim[p][t] \/ claim'[p][t] = 0
  BY OpFacts DEF Release, MemoryOK
<1> QED BY <1>1, <1>2, <1>3, <1>4, OpFacts, QuietStep DEF Release, At

LEMMA TurnStep == ASSUME HolderInv, NEW p \in Proc, Turn(p) PROVE Safely
<1>1. Sets(p, op[p].at, op[p].on, op[p].file, op[p].left)
  BY OpFacts DEF Turn, OpOK, Sets
<1>2. value[p] \in ValueType /\ value[p].session \in Session /\ turns \in 0..MaxTurns
  BY OpFacts DEF Turn, MemoryOK, Placed, Loaded
<1> DEFINE v == [value[p] EXCEPT !.log = @ \cup {turns + 1}]
<1>3. v \in ValueType /\ v.session = value[p].session
  <2>1. turns + 1 \in 1..MaxTurns
    BY <1>2, BoundsAssumption DEF Turn
  <2> QED BY <1>2, <2>1 DEF ValueType, Logs
<1>4. value' = [value EXCEPT ![p] = v]
  BY DEF Turn
<1> HIDE DEF v
<1>5. MemoryOK' /\ Loaded'
  <2>1. turns' \in 0..MaxTurns
    BY <1>2, BoundsAssumption DEF Turn
  <2> QED BY <1>2, <1>3, <1>4, <2>1, OpFacts DEF Turn, MemoryOK, Placed, Loaded
<1>6. DiskOK' /\ Grows
  BY OpFacts, DiskSame DEF Turn
<1> QED BY <1>1, <1>5, <1>6, OpFacts, QuietStep DEF Turn, At

LEMMA SaveCheckStep == ASSUME HolderInv, NEW p \in Proc, SaveCheck(p) PROVE Safely
<1>1. value[p].session \in Session
  BY OpFacts DEF SaveCheck, Placed, Loaded
<1> QED BY <1>1, BeginStep DEF SaveCheck

LEMMA SaveDirStep == ASSUME HolderInv, NEW p \in Proc, SaveDir(p) PROVE Safely
<1>1. op[p].on \in Session /\ op[p].file = 0 /\ op[p].left \subseteq retired
  BY OpFacts DEF SaveDir, At, InHand, Between
<1>2. Sets(p, "save.temp", op[p].on, 0, op[p].left)
  BY <1>1, OpFacts, GoSets, StepSets DEF SaveDir
<1>3. DiskOK' /\ Grows /\ \A t \in Session : dir[t].number # 0 => dir'[t].number = dir[t].number
  BY <1>1, OpFacts, MakeDirOK DEF SaveDir
<1>4. MemoryOK' /\ Loaded'
  BY OpFacts, MemorySame, LoadedSame DEF SaveDir
<1> QED BY <1>1, <1>2, <1>3, <1>4, QuietStep, StepSets DEF SaveDir, At

LEMMA StageStep ==
    ASSUME HolderInv, NEW p \in Proc, NEW next \in {"save.rename", "name.rename"},
           op[p].on \in Session, op[p].file = 0, op[p].at # "delete.move", Stage(p, next)
    PROVE  Safely
<1>1. CASE Return(p)
  BY <1>1, ReturnStep DEF Stage, At
<1>2. CASE op' = [op EXCEPT ![p].at = next, ![p].dest = dir[op[p].on].number]
  <2>1. Sets(p, next, op[p].on, 0, op[p].left)
    BY <1>2, OpFacts, DestSets, StepSets
  <2> QED BY <2>1, OpFacts, StepSets, PlainStep DEF Stage, At
<1> QED BY <1>1, <1>2 DEF Stage

LEMMA TempStep == ASSUME HolderInv, NEW p \in Proc, SaveTemp(p) \/ NameTemp(p) PROVE Safely
<1>1. op[p].on \in Session /\ op[p].file = 0
  BY OpFacts DEF SaveTemp, NameTemp, At, InHand, Between
<1> QED BY <1>1, StageStep DEF SaveTemp, NameTemp, At

\* A directory's log or name is written where it is.
LEMMA SaveRenameStep == ASSUME HolderInv, NEW p \in Proc, SaveRename(p) PROVE Safely
<1>1. op[p].on \in Session /\ op[p].file = 0 /\ op[p].left \subseteq retired
  BY OpFacts DEF SaveRename, At, InHand, Between
<1>2. CASE Return(p) /\ UNCHANGED dir
  BY <1>2, ReturnStep DEF SaveRename, At
<1>3. CASE dir' = [dir EXCEPT ![op[p].on].log = value[p].log] /\ Go(p, "save.again")
  <2>1. Sets(p, "save.again", op[p].on, 0, op[p].left)
    BY <1>1, <1>3, OpFacts, GoSets, StepSets
  <2>2. value[p].log \in Logs
    BY OpFacts DEF MemoryOK, ValueType
  <2>3. DiskOK' /\ \A t \in Session : dir'[t].number = dir[t].number
    BY <1>1, <1>3, <2>2, OpFacts DEF SaveRename, DiskOK, DirType
  <2>4. MemoryOK' /\ Loaded'
    BY OpFacts, MemorySame, LoadedSame DEF SaveRename
  <2> QED BY <1>1, <2>1, <2>3, <2>4, OpFacts, NumbersSame, QuietStep, StepSets DEF SaveRename, At
<1> QED BY <1>2, <1>3 DEF SaveRename

LEMMA SaveAgainStep == ASSUME HolderInv, NEW p \in Proc, SaveAgain(p) PROVE Safely
<1>1. op[p].on \in Session /\ op[p].file = 0 /\ op[p].left \subseteq retired
  BY OpFacts DEF SaveAgain, At, InHand, Between
<1>2. CASE Return(p)
  BY <1>2, ReturnStep DEF SaveAgain, At
<1>3. CASE op[p].on \in retired /\ Go(p, "undo")
  <2>1. Sets(p, "undo", op[p].on, 0, op[p].left)
    BY <1>1, <1>3, OpFacts, GoSets, StepSets
  <2> QED BY <1>1, <1>3, <2>1, PlainStep, StepSets DEF SaveAgain, At
<1> QED BY <1>2, <1>3 DEF SaveAgain

LEMMA UndoMoveStep == ASSUME HolderInv, NEW p \in Proc, UndoMove(p) PROVE Safely
<1>1. op[p].on \in Session /\ op[p].on \in retired /\ op[p].file = 0 /\ op[p].left \subseteq retired
  BY OpFacts, StepSets DEF UndoMove, At, InHand
<1>2. CASE Return(p) /\ UNCHANGED <<dir, trash>>
  BY <1>2, ReturnStep DEF UndoMove, At
<1>3. CASE /\ MoveToTrash(op[p].on)
           /\ op' = [op EXCEPT ![p].at = "undo.remove", ![p].dest = dir[op[p].on].number]
  <2>1. Sets(p, "undo.remove", op[p].on, 0, op[p].left)
    BY <1>1, <1>3, OpFacts, DestSets, StepSets
  <2>2. DiskOK' /\ Grows /\ \A t \in Session \ {op[p].on} : dir'[t] = dir[t]
    BY <1>1, <1>3, OpFacts, MoveToTrashOK DEF UndoMove
  <2>3. MemoryOK' /\ Loaded'
    BY OpFacts, MemorySame, LoadedSame DEF UndoMove
  <2> QED BY <1>1, <2>1, <2>2, <2>3, QuietStep, StepSets DEF UndoMove, At
<1> QED BY <1>2, <1>3 DEF UndoMove

LEMMA UndoRemoveStep == ASSUME HolderInv, NEW p \in Proc, UndoRemove(p) PROVE Safely
<1>1. Sets(p, "idle", None, 0, {})
  BY OpFacts, ReturnSets DEF UndoRemove
<1>2. DiskOK' /\ Grows
  BY OpFacts, NumbersSame DEF UndoRemove, Discard, DiskOK
<1>3. MemoryOK' /\ Loaded'
  BY OpFacts, MemorySame, LoadedSame DEF UndoRemove
<1> QED BY <1>1, <1>2, <1>3, QuietStep, StepSets DEF UndoRemove, At

LEMMA NameScanStep == ASSUME HolderInv, NEW p \in Proc, NameScan(p) PROVE Safely
<1>1. op[p].on \in Session /\ op[p].file = 0 /\ op[p].left \subseteq retired
  BY OpFacts DEF NameScan, At, InHand, Between
<1>2. CASE Return(p)
  BY <1>2, ReturnStep DEF NameScan, At
<1>3. CASE Go(p, "name.temp")
  <2>1. Sets(p, "name.temp", op[p].on, 0, op[p].left)
    BY <1>1, <1>3, OpFacts, GoSets, StepSets
  <2> QED BY <1>1, <2>1, PlainStep, StepSets DEF NameScan, At
<1> QED BY <1>2, <1>3 DEF NameScan

LEMMA NameRenameStep == ASSUME HolderInv, NEW p \in Proc, NameRename(p) PROVE Safely
<1>1. op[p].on \in Session /\ op[p].name \in Name \cup {None}
  BY OpFacts DEF NameRename, At, Between, OpOK, OpType
<1>2. Sets(p, "idle", None, 0, {})
  BY OpFacts, ReturnSets DEF NameRename
<1>3. DiskOK' /\ \A t \in Session : dir'[t].number = dir[t].number
  BY <1>1, OpFacts DEF NameRename, DiskOK, DirType
<1>4. MemoryOK' /\ Loaded'
  BY OpFacts, MemorySame, LoadedSame DEF NameRename
<1> QED BY <1>2, <1>3, <1>4, OpFacts, NumbersSame, QuietStep, StepSets DEF NameRename, At

LEMMA DeleteOwnStep == ASSUME HolderInv, NEW p \in Proc, DeleteOwn(p) PROVE Safely
<1> DEFINE s == op[p].on
<1>1. op[p].on \in Session /\ op[p].file = 0 /\ op[p].left \subseteq retired
  BY OpFacts DEF DeleteOwn, At, InHand, Between
<1>2. CASE claim[p][s] # 0
  <2>1. Sets(p, "delete.mark", s, 0, op[p].left)
    BY <1>1, <1>2, OpFacts, GoSets, StepSets DEF DeleteOwn
  <2> QED BY <1>1, <1>2, <2>1, PlainStep, StepSets DEF DeleteOwn, At
<1>3. CASE claim[p][s] = 0 /\ (~Present(s) \/ Locked(s, dir[s].number))
  BY <1>3, ReturnStep DEF DeleteOwn, At
<1>4. CASE claim[p][s] = 0 /\ Present(s) /\ ~Locked(s, dir[s].number)
  <2>1. op' = [op EXCEPT ![p].at = "delete.mark", ![p].file = dir[s].number]
    BY <1>4 DEF DeleteOwn
  <2>2. Sets(p, "delete.mark", s, dir[s].number, op[p].left)
    BY <1>1, <2>1, OpFacts, TakeSets, StepSets
  <2>3. DiskOK' /\ MemoryOK' /\ Loaded'
    BY OpFacts, DiskSame, MemorySame, LoadedSame DEF DeleteOwn
  <2>4. OpOK' /\ Placed'
    BY <1>1, <2>2, <2>3, OpFacts, SetsKeep, StepSets DEF DeleteOwn
  <2>5. Exclusive' /\ Located' /\ OneHolder' /\ Numbered' /\ Spared' /\ Owning'
    BY <1>1, <1>4, <2>2, OpFacts, TakeKeeps DEF DeleteOwn, At
  <2> QED BY <2>3, <2>4, <2>5, TypeParts DEF HolderInv, Safely, DeleteOwn
<1> QED BY <1>2, <1>3, <1>4

LEMMA DeleteMarkStep == ASSUME HolderInv, NEW p \in Proc, DeleteMark(p) PROVE Safely
<1>1. op[p].on \in Session /\ op[p].left \subseteq retired
  BY OpFacts DEF DeleteMark, At, Between
<1>2. Sets(p, "delete.move", op[p].on, op[p].file, op[p].left)
  BY OpFacts, GoSets, StepSets DEF DeleteMark
<1>3. DiskOK' /\ MemoryOK' /\ Loaded' /\ Grows
  BY <1>1, OpFacts, MemorySame, LoadedSame, NumbersSame DEF DeleteMark, DiskOK
<1>4. ASSUME NEW t \in retired' \ retired, NEW q \in Proc, claim'[q][t] # 0
      PROVE  q = p /\ t = op[p].on
  <2>1. t = op[p].on /\ t \in Session \ retired
    BY <1>1, <1>4 DEF DeleteMark
  <2>2. PICK e \in Nat \ {0} : e = claim[q][t]
    BY <1>4, <2>1, OpFacts DEF DeleteMark, MemoryOK
  <2>3. PICK d \in Nat \ {0} : HasLock(p, t, d)
    BY <2>1, OpFacts DEF DeleteMark, At, Owning, HasLock, MemoryOK
  <2>4. HasLock(q, t, e) /\ d = e
    BY <2>1, <2>2, <2>3, OpFacts DEF HasLock, Located
  <2> QED BY <2>1, <2>3, <2>4, OpFacts DEF Exclusive
<1> QED BY <1>1, <1>2, <1>3, <1>4, QuietStep, StepSets DEF DeleteMark, At

LEMMA DeleteMoveStep == ASSUME HolderInv, NEW p \in Proc, DeleteMove(p) PROVE Safely
<1>1. op[p].on \in Session /\ op[p].on \in retired /\ op[p].left \subseteq retired
  BY OpFacts, StepSets DEF DeleteMove, At
<1>2. Sets(p, "delete.remove", op[p].on, op[p].file, op[p].left)
  BY <1>1, OpFacts, GoSets, DestSets, StepSets DEF DeleteMove
<1>3. DiskOK' /\ Grows /\ \A t \in Session \ {op[p].on} : dir'[t] = dir[t]
  BY <1>1, OpFacts, MoveToTrashOK, DiskSame DEF DeleteMove
<1>4. MemoryOK' /\ Loaded'
  BY OpFacts, MemorySame, LoadedSame DEF DeleteMove
<1>5. dir'[op[p].on].number = 0
  BY <1>1, OpFacts, MoveToTrashOK DEF DeleteMove, Present
<1> QED BY <1>1, <1>2, <1>3, <1>4, <1>5, QuietStep, StepSets DEF DeleteMove, At

LEMMA DeleteRemoveStep == ASSUME HolderInv, NEW p \in Proc, DeleteRemove(p) PROVE Safely
<1>1. Sets(p, "idle", None, 0, {}) /\ op[p].on \in Session
  BY OpFacts, ReturnSets DEF DeleteRemove, At, Between
<1>2. DiskOK' /\ Grows
  BY OpFacts, NumbersSame DEF DeleteRemove, Discard, DiskOK
<1>3. MemoryOK' /\ Loaded'
  BY <1>1, OpFacts, LoadedSame DEF DeleteRemove, MemoryOK
<1>4. /\ \A q \in Proc \ {p} : claim'[q] = claim[q]
      /\ \A t \in Session : claim'[p][t] = claim[p][t] \/ claim'[p][t] = 0
  BY <1>1, OpFacts DEF DeleteRemove, MemoryOK
<1> QED BY <1>1, <1>2, <1>3, <1>4, QuietStep, StepSets DEF DeleteRemove, At

-----------------------------------------------------------------------------
(***************************************************************************)
(* The theorems.                                                           *)
(***************************************************************************)
\* At first nobody has done anything.
LEMMA InitHolder == Init => HolderInv
<1> SUFFICES ASSUME Init PROVE HolderInv
  OBVIOUS
<1>1. OpOK
  BY DeadRecord DEF Init, OpOK
<1>2. DiskOK
  BY NoneAssumption DEF Init, DiskOK, DirType, Logs
<1>3. MemoryOK
  BY NoValueRecord, BoundsAssumption DEF Init, MemoryOK
<1>4. Placed
  BY DeadRecord, StepSets DEF Init, Placed, Loaded
<1>5. ASSUME NEW p \in Proc, NEW s \in Session, NEW d \in Nat \ {0}
      PROVE  ~HasLock(p, s, d)
  BY DeadRecord DEF Init, HasLock
<1>6. Exclusive /\ Located /\ OneHolder
  BY <1>5 DEF Init, Exclusive, Located, OneHolder
<1>7. Numbered /\ Spared /\ Owning
  BY DeadRecord DEF Init, Numbered, Spared, Owning
<1> QED BY <1>1, <1>2, <1>3, <1>4, <1>6, <1>7, TypeParts DEF HolderInv

\* What a process may set about keeps the invariant.
LEMMA StartStep == ASSUME HolderInv, NEW p \in Proc, Start(p) PROVE Safely
<1>1. CASE Open(p)
  BY <1>1, OpenStep
<1>2. CASE Exit(p)
  BY <1>2, ForgetStep, OpFacts DEF Exit, MemoryOK
<1>3. CASE Turn(p)
  BY <1>3, TurnStep
<1>4. CASE SaveCheck(p)
  BY <1>4, SaveCheckStep
<1>5. ASSUME NEW s \in Session, Load(p, s) \/ LockCheck(p, s) \/ Release(p, s) PROVE Safely
  BY <1>5, LoadStep, LockCheckStep, ReleaseStep
<1>6. ASSUME NEW s \in Session, DeleteStat(p, s) PROVE Safely
  BY <1>6, BeginStep DEF DeleteStat
<1>7. ASSUME NEW s \in Session, NEW n \in Name, NameCheck(p, s, n) PROVE Safely
  BY <1>7, BeginStep DEF NameCheck
<1> QED BY <1>1, <1>2, <1>3, <1>4, <1>5, <1>6, <1>7 DEF Start

\* So does what a running operation does next.
LEMMA ResumeStep == ASSUME HolderInv, NEW p \in Proc, Resume(p) PROVE Safely
BY OpenNextStep, OpenMoveStep, OpenTrashStep, LockDirStep, LockTakeStep, LockAgainStep,
   SaveDirStep, TempStep, SaveRenameStep, SaveAgainStep, UndoMoveStep, UndoRemoveStep,
   NameScanStep, NameRenameStep, DeleteOwnStep, DeleteMarkStep, DeleteMoveStep,
   DeleteRemoveStep
   DEF Resume

\* And so does every step, one that leaves the store alone included.
LEMMA NextHolder == HolderInv /\ [Next]_vars => Safely
<1> SUFFICES ASSUME HolderInv, [Next]_vars PROVE Safely
  OBVIOUS
<1>1. ASSUME NEW p \in Proc, Start(p) \/ Resume(p) PROVE Safely
  BY <1>1, StartStep, ResumeStep
<1>2. ASSUME NEW p \in Proc, Crash(p) PROVE Safely
  <2>1. crashes' \in 0..MaxCrashes
    BY <1>2, OpFacts, BoundsAssumption DEF Crash, MemoryOK
  <2> QED BY <1>2, <2>1, ForgetStep DEF Crash
<1>3. CASE UNCHANGED vars
  BY <1>3 DEF vars, HolderInv, TypeOK, Placed, Loaded, Exclusive, Located, OneHolder, HasLock,
     Numbered, Spared, Owning, Safely
<1> QED BY <1>1, <1>2, <1>3 DEF Next

\* The invariant holds always.
THEOREM HolderInvariant == Spec => []HolderInv
<1>1. HolderInv /\ [Next]_vars => HolderInv'
  BY NextHolder DEF Safely
<1> QED BY InitHolder, <1>1, PTL DEF Spec

\* Every variable of the store keeps its type, and an operation a lock of its
\* own only in the steps that need one.
THEOREM StoreTypes == Spec => []TypeOK
<1>1. HolderInv => TypeOK
  BY DEF HolderInv
<1> QED BY <1>1, HolderInvariant, PTL

\* At most one process has a session's claim, whatever is deleted, saved again
\* or opened meanwhile, and wherever processes die.
THEOREM OneHolderAlways == Spec => []OneHolder
<1>1. HolderInv => OneHolder
  BY DEF HolderInv
<1> QED BY <1>1, HolderInvariant, PTL

-----------------------------------------------------------------------------
(***************************************************************************)
(* Who moves a session that is held in place.                              *)
(*                                                                         *)
(* Spared says where its holder is.  That no other deletion and no opening *)
(* is about to move it is because either would have the lock (Armed),      *)
(* which the holder has (Sole); and one that is about to undo a write      *)
(* wrote in this directory, and not in an older one (Written).             *)
(***************************************************************************)
Held(s) == \E p \in Proc : claim[p][s] # 0 /\ claim[p][s] = dir[s].number

\* No operation has a lock of its own of a session that is held in place.
Sole == \A s \in Session : Held(s) => \A q \in Proc : op[q].on = s => op[q].file = 0

\* Who moves a session other than to undo a write has its lock, and who writes
\* has a directory to write in.
Armed ==
    \A q \in Proc :
        /\ op[q].at \in {"open.move", "lock.again"} => op[q].file # 0
        /\ op[q].at = "delete.move" => claim[q][op[q].on] # 0 \/ op[q].file # 0
        /\ op[q].at \in {"save.rename", "save.again"} => op[q].dest # 0

\* What was written in a session that was not deleted since, or is held, is in place.
Written ==
    \A q \in Proc : \A s \in Session :
        /\ op[q].at \in {"save.again", "undo"} /\ op[q].on = s
        /\ s \notin retired \/ Held(s)
        => op[q].dest = dir[s].number

SoleInv == Sole /\ Armed /\ Written

\* A step that gives no claim holds nothing it did not hold.
LEMMA HeldSame ==
    ASSUME HolderInv, Grows,
           \A q \in Proc : \A t \in Session : claim'[q][t] = claim[q][t] \/ claim'[q][t] = 0
    PROVE  \A s \in Session : Held(s)' => Held(s) /\ dir'[s].number = dir[s].number
<1> SUFFICES ASSUME NEW s \in Session, Held(s)'
             PROVE  Held(s) /\ dir'[s].number = dir[s].number
  OBVIOUS
<1>1. PICK r \in Proc : claim'[r][s] # 0 /\ claim'[r][s] = dir'[s].number
  BY DEF Held
<1>2. claim'[r][s] = claim[r][s]
  BY <1>1
<1>3. claim[r][s] \in Nat /\ made[s] \in Nat /\ claim[r][s] <= made[s]
  BY OpFacts DEF MemoryOK, DiskOK, Numbered
<1>4. dir'[s].number \in {0, dir[s].number} \cup (made[s] + 1)..made'[s]
  BY DEF Grows
<1>5. dir'[s].number = dir[s].number
  BY <1>1, <1>2, <1>3, <1>4
<1> QED BY <1>1, <1>2, <1>5 DEF Held

\* A step of p keeps what is said of the others, and so all of it when what p
\* comes to fits.
LEMMA SoleStep ==
    ASSUME HolderInv, SoleInv, Safely, NEW p \in Proc,
           \A q \in Proc \ {p} : op'[q] = op[q] /\ claim'[q] = claim[q],
           \A s \in Session : Held(s)' =>
                (Held(s) \/ s \notin retired') /\ dir'[s].number = dir[s].number,
           retired \subseteq retired',
           \A s \in Session : Held(s)' /\ op'[p].on = s => op'[p].file = 0,
           op'[p].at \in {"open.move", "lock.again"} => op'[p].file # 0,
           op'[p].at = "delete.move" => claim'[p][op'[p].on] # 0 \/ op'[p].file # 0,
           op'[p].at \in {"save.rename", "save.again"} => op'[p].dest # 0,
           \A s \in Session :
                /\ op'[p].at \in {"save.again", "undo"} /\ op'[p].on = s
                /\ s \notin retired' \/ Held(s)'
                => op'[p].dest = dir'[s].number
    PROVE  SoleInv'
<1>1. Sole'
  <2> SUFFICES ASSUME NEW s \in Session, Held(s)', NEW q \in Proc \ {p}, op'[q].on = s
               PROVE  op'[q].file = 0
    BY DEF Sole
  <2>1. CASE Held(s)
    BY <2>1 DEF SoleInv, Sole
  <2>2. CASE ~Held(s) /\ op'[q].file # 0
    <3>1. PICK r \in Proc : claim'[r][s] # 0 /\ claim'[r][s] = dir'[s].number
      BY DEF Held
    <3>2. s \notin retired'
      BY <2>2
    <3>3. /\ op'[q].file \in Nat \ {0} /\ claim'[r][s] \in Nat \ {0}
          /\ Located' /\ Exclusive'
      <4>1. OpOK' /\ MemoryOK' /\ Located' /\ Exclusive'
        BY TypeParts DEF Safely, HolderInv
      <4> QED BY <2>2, <3>1, <4>1 DEF OpOK, OpType, MemoryOK
    <3>4. PICK d \in Nat \ {0} : d = op'[q].file
      BY <3>3
    <3>5. HasLock(q, s, d)'
      BY <3>4 DEF HasLock
    <3>6. dir'[s].number = d
      BY <3>2, <3>3, <3>5 DEF Located
    <3>7. HasLock(r, s, d)'
      BY <3>1, <3>6 DEF HasLock
    <3>8. q = r
      BY <3>3, <3>5, <3>7 DEF Exclusive
    <3> QED BY <2>2, <3>1, <3>8 DEF Held
  <2> QED BY <2>1, <2>2
<1>2. Armed'
  BY DEF SoleInv, Armed
<1>3. Written'
  <2> SUFFICES ASSUME NEW q \in Proc \ {p}, NEW s \in Session,
                      op'[q].at \in {"save.again", "undo"}, op'[q].on = s,
                      s \notin retired' \/ Held(s)'
               PROVE  op'[q].dest = dir'[s].number
    BY DEF Written
  <2>1. CASE s \notin retired'
    <3>1. op[q] = op'[q] /\ s \notin retired /\ op[q].dest = dir[s].number
      BY <2>1 DEF SoleInv, Written
    <3>2. op[q].at = "save.again"
      BY <3>1, OpFacts, StepSets
    <3>3. dir[s].number # 0
      BY <3>1, <3>2 DEF SoleInv, Armed
    <3> QED BY <3>1, <3>3 DEF Safely
  <2>2. CASE s \in retired' /\ Held(s)'
    BY <2>2 DEF SoleInv, Written
  <2> QED BY <2>1, <2>2
<1> QED BY <1>1, <1>2, <1>3 DEF SoleInv

\* The steps at which nothing is said of an operation with no lock of its own.
Loose == Steps \ {"open.move", "lock.again", "delete.move", "save.rename", "save.again", "undo"}

LEMMA LooseSteps ==
    {"idle", "dead", "open", "lock.dir", "lock.take", "save.dir", "save.temp", "undo.remove",
     "name.scan", "name.temp", "name.rename", "delete.own", "delete.mark", "delete.remove"}
    \subseteq Loose
BY DEF Loose, Steps

\* A step after which p is at one of those, and which gives no claim.
LEMMA LooseStep ==
    ASSUME HolderInv, SoleInv, Safely, Grows, NEW p \in Proc,
           \A q \in Proc \ {p} : op'[q] = op[q] /\ claim'[q] = claim[q],
           \A t \in Session : claim'[p][t] = claim[p][t] \/ claim'[p][t] = 0,
           retired \subseteq retired',
           op'[p].at \in Loose, op'[p].file = 0
    PROVE  SoleInv'
<1>1. \A s \in Session : Held(s)' => Held(s) /\ dir'[s].number = dir[s].number
  BY HeldSame
<1> QED BY <1>1, SoleStep DEF Loose

LEMMA LooseSets ==
    ASSUME HolderInv, SoleInv, Safely, Grows, NEW p \in Proc, NEW a \in Loose, NEW s, NEW left,
           Sets(p, a, s, 0, left), UNCHANGED <<retired, claim>>
    PROVE  SoleInv'
BY LooseStep DEF Sets

\* A step by which p takes the free lock of the directory in place.
LEMMA TakeSole ==
    ASSUME HolderInv, SoleInv, Safely, NEW p \in Proc, NEW s \in Session, NEW left,
           NEW a \in {"open.move", "lock.again", "delete.mark"},
           Sets(p, a, s, dir[s].number, left), Present(s), ~Locked(s, dir[s].number),
           UNCHANGED <<dir, retired, made, claim>>
    PROVE  SoleInv'
<1>1. \A t \in Session : Held(t)' => Held(t) /\ dir'[t].number = dir[t].number
  BY DEF Held
<1>2. ~Held(s)
  BY DEF Held, Locked
<1> QED BY <1>1, <1>2, SoleStep DEF Sets, Present

\* What a process may set about.
LEMMA StartSole == ASSUME HolderInv, SoleInv, NEW p \in Proc, Start(p) PROVE SoleInv'
<1>0. OpOK /\ DiskOK /\ MemoryOK /\ Safely
  BY OpFacts, StartStep
<1>1. CASE Open(p)
  <2> DEFINE r == [Idle EXCEPT !.at = "open", !.left = retired]
  <2>1. r \in OpType /\ r.at = "open" /\ r.on = None /\ r.file = 0 /\ r.left = retired
    BY <1>0, IdleRecord, StepSets DEF OpType, DiskOK
  <2>2. op' = [op EXCEPT ![p] = r]
    BY <1>1 DEF Open
  <2> HIDE DEF r
  <2>3. Sets(p, "open", None, 0, retired)
    BY <1>0, <2>1, <2>2 DEF OpOK, Sets
  <2>4. Grows
    BY <1>0, <1>1, DiskSame DEF Open
  <2> QED BY <1>0, <1>1, <2>3, <2>4, LooseSteps, LooseSets DEF Open
<1>2. CASE Exit(p)
  <2>1. Sets(p, "dead", None, 0, {})
    BY <1>0, <1>2, DeadRecord DEF Exit, Forget, OpOK, Sets
  <2>2. Grows
    BY <1>0, <1>2, DiskSame DEF Exit, Forget
  <2>3. (\A q \in Proc \ {p} : claim'[q] = claim[q]) /\ \A t \in Session : claim'[p][t] = 0
    BY <1>0, <1>2 DEF Exit, Forget, MemoryOK
  <2> QED BY <1>0, <1>2, <2>1, <2>2, <2>3, LooseSteps, LooseStep DEF Exit, Forget, Sets
<1>3. CASE Turn(p) \/ \E s \in Session : Load(p, s) \/ Release(p, s)
  <2>1. op' = op /\ op[p].at = "idle" /\ UNCHANGED <<dir, trash, retired, made>>
    BY <1>3 DEF Turn, Load, Release, At
  <2>2. op[p].file = 0 /\ Grows
    BY <1>0, <2>1, OpFacts, DiskSame DEF InHand
  <2>3. /\ \A q \in Proc \ {p} : claim'[q] = claim[q]
        /\ \A t \in Session : claim'[p][t] = claim[p][t] \/ claim'[p][t] = 0
    BY <1>0, <1>3 DEF Turn, Load, Release, MemoryOK
  <2> QED BY <1>0, <2>1, <2>2, <2>3, LooseSteps, LooseStep
<1>4. CASE SaveCheck(p) \/ \E s \in Session : LockCheck(p, s) \/ DeleteStat(p, s) \/ \E n \in Name : NameCheck(p, s, n)
  <2>1. PICK step \in {"save.dir", "lock.dir", "delete.own", "name.scan"},
             s \in Session \cup {None}, n \in Name \cup {None} : Begin(p, step, s, n)
    BY <1>4, OpFacts DEF SaveCheck, LockCheck, DeleteStat, NameCheck, Placed, Loaded
  <2>2. Sets(p, step, s, 0, {})
    BY <1>0, <2>1, BeginSets, StepSets
  <2>3. UNCHANGED <<dir, trash, retired, made, claim>>
    BY <1>4 DEF SaveCheck, LockCheck, DeleteStat, NameCheck
  <2>4. Grows
    BY <1>0, <2>3, DiskSame
  <2> QED BY <1>0, <2>1, <2>2, <2>3, <2>4, LooseSteps, LooseSets
<1> QED BY <1>1, <1>2, <1>3, <1>4 DEF Start

\* An operation that ends, and gives no claim up.
LEMMA ReturnSole ==
    ASSUME HolderInv, SoleInv, Safely, Grows, NEW p \in Proc, Return(p), UNCHANGED <<retired, claim>>
    PROVE  SoleInv'
<1>1. Sets(p, "idle", None, 0, {})
  BY OpFacts, ReturnSets
<1> QED BY <1>1, LooseSteps, LooseSets

\* Opening the store.
LEMMA OpeningSole ==
    ASSUME HolderInv, SoleInv, Safely, NEW p \in Proc,
           OpenMove(p) \/ OpenTrash(p) \/ \E s \in Session : OpenNext(p, s)
    PROVE  SoleInv'
<1>0. OpOK /\ DiskOK
  BY OpFacts
<1>1. ASSUME NEW s \in Session, OpenNext(p, s) PROVE SoleInv'
  <2>1. CASE Present(s) /\ ~Locked(s, dir[s].number)
    <3>1. op' = [op EXCEPT ![p] = [@ EXCEPT !.at = "open.move", !.on = s,
                                   !.left = op[p].left \ {s}, !.file = dir[s].number]]
      BY <1>1, <2>1 DEF OpenNext
    <3>2. Sets(p, "open.move", s, dir[s].number, op[p].left \ {s})
      BY <1>0, <3>1, OpFacts, NextSets
    <3> QED BY <1>1, <2>1, <3>2, TakeSole DEF OpenNext
  <2>2. CASE ~(Present(s) /\ ~Locked(s, dir[s].number))
    <3>1. op' = [op EXCEPT ![p].left = @ \ {s}] /\ op[p].at = "open"
      BY <1>1, <2>2 DEF OpenNext, At
    <3>2. op[p].file = 0
      BY <3>1, OpFacts DEF InHand
    <3>3. Sets(p, "open", op[p].on, 0, op[p].left \ {s})
      BY <1>0, <3>1, <3>2 DEF OpOK, OpType, Sets
    <3>4. UNCHANGED <<dir, trash, retired, made, claim>>
      BY <1>1 DEF OpenNext
    <3>5. Grows
      BY <1>0, <3>4, DiskSame
    <3> QED BY <3>3, <3>4, <3>5, LooseSteps, LooseSets
  <2> QED BY <2>1, <2>2
<1>2. CASE OpenMove(p)
  <2> DEFINE r == [op[p] EXCEPT !.at = "open", !.on = None, !.file = 0]
  <2>1. op[p] \in OpType /\ op[p].on \in Session
    BY <1>0, <1>2, OpFacts, StepSets DEF OpOK, OpenMove, At
  <2>2. r \in OpType /\ r.at = "open" /\ r.on = None /\ r.file = 0 /\ r.left = op[p].left
    BY <2>1, StepSets DEF OpType
  <2>3. op' = [op EXCEPT ![p] = r]
    BY <1>2 DEF OpenMove
  <2> HIDE DEF r
  <2>4. Sets(p, "open", None, 0, op[p].left)
    BY <1>0, <2>2, <2>3 DEF OpOK, Sets
  <2>5. Grows
    BY <1>0, <1>2, <2>1, MoveToTrashOK, DiskSame DEF OpenMove
  <2> QED BY <1>2, <2>4, <2>5, LooseSteps, LooseSets DEF OpenMove
<1>3. CASE OpenTrash(p)
  <2>1. Grows
    BY <1>0, <1>3, NumbersSame DEF OpenTrash
  <2> QED BY <1>3, <2>1, ReturnSole DEF OpenTrash
<1> QED BY <1>1, <1>2, <1>3

\* Claiming.
LEMMA LockingSole ==
    ASSUME HolderInv, SoleInv, Safely, NEW p \in Proc, LockDir(p) \/ LockTake(p) \/ LockAgain(p)
    PROVE  SoleInv'
<1> DEFINE s == op[p].on
<1>0. OpOK /\ DiskOK /\ MemoryOK /\ s \in Session
  BY OpFacts, StepSets DEF LockDir, LockTake, LockAgain, At
<1>1. CASE LockDir(p)
  <2>1. op[p].file = 0
    BY <1>1, OpFacts DEF LockDir, At, InHand
  <2>2. Sets(p, "lock.take", s, 0, op[p].left)
    BY <1>0, <1>1, <2>1, GoSets, StepSets DEF LockDir
  <2>3. Grows
    BY <1>0, <1>1, MakeDirOK DEF LockDir
  <2> QED BY <1>1, <2>2, <2>3, LooseSteps, LooseSets DEF LockDir
<1>2. CASE LockTake(p)
  <2>1. Grows
    BY <1>0, <1>2, DiskSame DEF LockTake
  <2>2. CASE Return(p)
    BY <1>2, <2>1, <2>2, ReturnSole DEF LockTake
  <2>3. CASE ~Return(p)
    <3>1. /\ op' = [op EXCEPT ![p].at = "lock.again", ![p].file = dir[s].number]
          /\ Present(s) /\ ~Locked(s, dir[s].number)
      BY <1>2, <2>3 DEF LockTake
    <3>2. Sets(p, "lock.again", s, dir[s].number, op[p].left)
      BY <1>0, <3>1, OpFacts, TakeSets, StepSets
    <3> QED BY <1>0, <1>2, <3>1, <3>2, TakeSole DEF LockTake
  <2> QED BY <2>2, <2>3
<1>3. CASE LockAgain(p)
  <2>0. op[p].at = "lock.again" /\ UNCHANGED <<dir, trash, retired, made>>
    BY <1>3 DEF LockAgain, At
  <2>1. op[p].file # 0 /\ op[p].file \in Nat /\ Grows
    BY <1>0, <2>0, OpFacts, DiskSame DEF SoleInv, Armed
  <2>2. ~Held(s)
    BY <1>0, <2>1 DEF SoleInv, Sole
  <2>3. CASE s \in retired
    <3>1. op' = [op EXCEPT ![p].at = "undo", ![p].file = 0] /\ UNCHANGED claim
      BY <1>3, <2>3 DEF LockAgain
    <3>2. Sets(p, "undo", s, 0, op[p].left)
      BY <1>0, <3>1, TakeSets, StepSets
    <3>3. \A t \in Session : Held(t)' => Held(t) /\ dir'[t].number = dir[t].number
      BY <2>0, <3>1 DEF Held
    <3> HIDE DEF s
    <3> QED BY <2>0, <2>2, <2>3, <3>1, <3>2, <3>3, SoleStep DEF Sets
  <2>4. CASE s \notin retired
    <3>1. claim' = [claim EXCEPT ![p][s] = op[p].file] /\ Return(p)
      BY <1>3, <2>4 DEF LockAgain
    <3>2. Sets(p, "idle", None, 0, {})
      BY <1>0, <3>1, ReturnSets
    <3>3. \A q \in Proc \ {p} : claim'[q] = claim[q]
      BY <1>0, <3>1 DEF MemoryOK
    <3>4. \A t \in Session \ {s} : claim'[p][t] = claim[p][t]
      BY <1>0, <3>1 DEF MemoryOK
    <3>5. \A t \in Session : Held(t)' => (Held(t) \/ t \notin retired') /\ dir'[t].number = dir[t].number
      BY <2>0, <2>4, <3>3, <3>4 DEF Held
    <3> HIDE DEF s
    <3> QED BY <2>0, <3>2, <3>3, <3>5, SoleStep DEF Sets
  <2> QED BY <2>3, <2>4
<1> QED BY <1>1, <1>2, <1>3

\* Writing.
LEMMA WritingSole ==
    ASSUME HolderInv, SoleInv, Safely, NEW p \in Proc,
           \/ SaveDir(p) \/ SaveTemp(p) \/ SaveRename(p) \/ SaveAgain(p)
           \/ NameScan(p) \/ NameTemp(p) \/ NameRename(p)
    PROVE  SoleInv'
<1> DEFINE s == op[p].on
<1>0. OpOK /\ DiskOK /\ MemoryOK /\ s \in Session
  BY OpFacts, StepSets DEF SaveDir, SaveTemp, SaveRename, SaveAgain, NameScan, NameTemp, NameRename, At
<1>1. op[p].file = 0 /\ UNCHANGED <<retired, claim>>
  BY OpFacts DEF SaveDir, SaveTemp, SaveRename, SaveAgain, NameScan, NameTemp, NameRename, At, Stage, InHand
<1>2. Grows
  <2>1. CASE SaveDir(p)
    BY <1>0, <2>1, MakeDirOK DEF SaveDir
  <2>2. CASE ~SaveDir(p)
    <3>1. UNCHANGED made
      BY <2>2 DEF SaveTemp, SaveRename, SaveAgain, NameScan, NameTemp, NameRename, Stage
    <3>2. \A t \in Session : dir'[t].number = dir[t].number
      BY <1>0, <2>2 DEF SaveTemp, SaveRename, SaveAgain, NameScan, NameTemp, NameRename, Stage, DiskOK, DirType
    <3> QED BY <1>0, <3>1, <3>2, NumbersSame
  <2> QED BY <2>1, <2>2
<1>3. CASE Return(p)
  BY <1>1, <1>2, <1>3, ReturnSole
<1>4. ASSUME NEW a \in {"save.temp", "name.temp"}, Go(p, a) PROVE SoleInv'
  <2>1. Sets(p, a, s, 0, op[p].left)
    BY <1>0, <1>1, <1>4, GoSets, StepSets
  <2> QED BY <1>1, <1>2, <2>1, LooseSteps, LooseSets
<1>5. CASE NameTemp(p) /\ ~Return(p)
  <2>1. op' = [op EXCEPT ![p].at = "name.rename", ![p].dest = dir[s].number]
    BY <1>5 DEF NameTemp, Stage
  <2>2. Sets(p, "name.rename", s, 0, op[p].left)
    BY <1>0, <1>1, <2>1, OpFacts, DestSets, StepSets
  <2> QED BY <1>1, <1>2, <2>2, LooseSteps, LooseSets
<1>6. ASSUME NEW a \in {"save.rename", "save.again", "undo"}, op'[p].at = a, op'[p].on = s,
             op'[p].file = 0, \A q \in Proc \ {p} : op'[q] = op[q],
             a \in {"save.rename", "save.again"} => op'[p].dest # 0,
             /\ a \in {"save.again", "undo"}
             /\ s \notin retired \/ Held(s)
             => op'[p].dest = dir'[s].number
      PROVE  SoleInv'
  <2>1. \A t \in Session : Held(t)' => Held(t) /\ dir'[t].number = dir[t].number
    BY <1>1, <1>2, HeldSame
  <2> HIDE DEF s
  <2> QED BY <1>1, <1>6, <2>1, SoleStep
<1>7. CASE SaveTemp(p) /\ ~Return(p)
  <2>1. op' = [op EXCEPT ![p].at = "save.rename", ![p].dest = dir[s].number] /\ dir[s].number # 0
    BY <1>7 DEF SaveTemp, Stage, Present
  <2> QED BY <1>0, <1>1, <1>6, <2>1 DEF OpOK, OpType
<1>8. CASE SaveRename(p) /\ ~Return(p)
  <2>1. Go(p, "save.again") /\ op[p].dest = dir[s].number /\ op[p].at = "save.rename"
        /\ dir' = [dir EXCEPT ![s].log = value[p].log]
    BY <1>8 DEF SaveRename, At
  <2>2. op[p].dest # 0 /\ dir'[s].number = dir[s].number
    BY <1>0, <2>1 DEF SoleInv, Armed, DiskOK, DirType
  <2> QED BY <1>0, <1>1, <1>6, <2>1, <2>2 DEF Go, OpOK, OpType
<1>9. CASE SaveAgain(p) /\ ~Return(p)
  <2>1. Go(p, "undo") /\ op[p].at = "save.again" /\ UNCHANGED dir
    BY <1>9 DEF SaveAgain, At
  <2>2. s \notin retired \/ Held(s) => op[p].dest = dir[s].number
    BY <1>0, <2>1 DEF SoleInv, Written
  <2> QED BY <1>0, <1>1, <1>6, <2>1, <2>2 DEF Go, OpOK, OpType
<1> QED BY <1>3, <1>4, <1>5, <1>7, <1>8, <1>9 DEF SaveDir, NameScan, NameRename

\* Undoing a write, and deleting.
LEMMA RemovingSole ==
    ASSUME HolderInv, SoleInv, Safely, NEW p \in Proc,
           \/ UndoMove(p) \/ UndoRemove(p)
           \/ DeleteOwn(p) \/ DeleteMark(p) \/ DeleteMove(p) \/ DeleteRemove(p)
    PROVE  SoleInv'
<1> DEFINE s == op[p].on
<1>0. OpOK /\ DiskOK /\ MemoryOK /\ s \in Session
  BY OpFacts, StepSets DEF UndoMove, UndoRemove, DeleteOwn, DeleteMark, DeleteMove, DeleteRemove, At
<1>1. CASE UndoMove(p)
  <2>1. op[p].file = 0 /\ UNCHANGED <<retired, claim, made>>
    BY <1>1, OpFacts DEF UndoMove, At, InHand
  <2>2. CASE Return(p) /\ UNCHANGED <<dir, trash>>
    <3>1. Grows
      BY <1>0, <2>1, <2>2, DiskSame
    <3> QED BY <2>1, <2>2, <3>1, ReturnSole
  <2>3. CASE /\ MoveToTrash(s)
             /\ op' = [op EXCEPT ![p].at = "undo.remove", ![p].dest = dir[s].number]
    <3>1. Grows
      BY <1>0, <2>1, <2>3, MoveToTrashOK
    <3>2. Sets(p, "undo.remove", s, 0, op[p].left)
      BY <1>0, <2>1, <2>3, OpFacts, DestSets, StepSets
    <3> QED BY <2>1, <3>1, <3>2, LooseSteps, LooseSets
  <2> QED BY <1>1, <2>2, <2>3 DEF UndoMove
<1>2. CASE UndoRemove(p)
  <2>1. Grows
    BY <1>0, <1>2, NumbersSame DEF UndoRemove
  <2> QED BY <1>2, <2>1, ReturnSole DEF UndoRemove
<1>3. CASE DeleteOwn(p)
  <2>1. Grows /\ op[p].file = 0
    BY <1>0, <1>3, OpFacts, DiskSame DEF DeleteOwn, At, InHand
  <2>2. CASE Return(p)
    BY <1>3, <2>1, <2>2, ReturnSole DEF DeleteOwn
  <2>3. CASE Go(p, "delete.mark")
    <3>1. Sets(p, "delete.mark", s, 0, op[p].left)
      BY <1>0, <2>1, <2>3, GoSets, StepSets
    <3> QED BY <1>3, <2>1, <3>1, LooseSteps, LooseSets DEF DeleteOwn
  <2>4. CASE ~Return(p) /\ ~Go(p, "delete.mark")
    <3>1. /\ op' = [op EXCEPT ![p].at = "delete.mark", ![p].file = dir[s].number]
          /\ Present(s) /\ ~Locked(s, dir[s].number)
      BY <1>3, <2>4 DEF DeleteOwn
    <3>2. Sets(p, "delete.mark", s, dir[s].number, op[p].left)
      BY <1>0, <3>1, OpFacts, TakeSets, StepSets
    <3> QED BY <1>0, <1>3, <3>1, <3>2, TakeSole DEF DeleteOwn
  <2> QED BY <2>2, <2>3, <2>4
<1>4. CASE DeleteMark(p)
  <2>1. Sets(p, "delete.move", s, op[p].file, op[p].left)
    BY <1>0, <1>4, GoSets, StepSets DEF DeleteMark
  <2>2. /\ UNCHANGED <<dir, made, claim>> /\ retired \subseteq retired'
        /\ claim[p][s] # 0 \/ op[p].file # 0
    BY <1>4, OpFacts DEF DeleteMark, At, Owning
  <2>3. \A t \in Session : Held(t)' => Held(t) /\ dir'[t].number = dir[t].number
    BY <2>2 DEF Held
  <2>4. \A t \in Session : Held(t) /\ s = t => op[p].file = 0
    BY DEF SoleInv, Sole
  <2> HIDE DEF s
  <2> QED BY <2>1, <2>2, <2>3, <2>4, SoleStep DEF Sets
<1>5. CASE DeleteMove(p)
  <2>1. Sets(p, "delete.remove", s, op[p].file, op[p].left)
    BY <1>0, <1>5, OpFacts, GoSets, DestSets, StepSets DEF DeleteMove
  <2>2. Grows /\ dir'[s].number = 0 /\ UNCHANGED <<retired, claim>>
    BY <1>0, <1>5, MoveToTrashOK, DiskSame DEF DeleteMove, Present
  <2>3. \A t \in Session : Held(t)' => Held(t) /\ dir'[t].number = dir[t].number /\ t # s
    <3>1. \A t \in Session : Held(t)' => Held(t) /\ dir'[t].number = dir[t].number
      BY <2>2, HeldSame
    <3>2. \A t \in Session : t = s => ~Held(t)'
      BY <2>2 DEF Held
    <3> QED BY <3>1, <3>2
  <2> HIDE DEF s
  <2> QED BY <2>1, <2>2, <2>3, SoleStep DEF Sets
<1>6. CASE DeleteRemove(p)
  <2>1. Sets(p, "idle", None, 0, {})
    BY <1>0, <1>6, ReturnSets DEF DeleteRemove
  <2>2. Grows
    BY <1>0, <1>6, NumbersSame DEF DeleteRemove
  <2>3. /\ \A q \in Proc \ {p} : claim'[q] = claim[q]
        /\ \A t \in Session : claim'[p][t] = claim[p][t] \/ claim'[p][t] = 0
    BY <1>0, <1>6 DEF DeleteRemove, MemoryOK
  <2> QED BY <1>6, <2>1, <2>2, <2>3, LooseSteps, LooseStep DEF DeleteRemove, Sets
<1> QED BY <1>1, <1>2, <1>3, <1>4, <1>5, <1>6

\* A process that dies.
LEMMA CrashSole == ASSUME HolderInv, SoleInv, Safely, NEW p \in Proc, Crash(p) PROVE SoleInv'
<1>0. OpOK /\ DiskOK /\ MemoryOK
  BY OpFacts
<1>1. Sets(p, "dead", None, 0, {})
  BY <1>0, DeadRecord DEF Crash, Forget, OpOK, Sets
<1>2. Grows
  BY <1>0, DiskSame DEF Crash, Forget
<1>3. (\A q \in Proc \ {p} : claim'[q] = claim[q]) /\ \A t \in Session : claim'[p][t] = 0
  BY <1>0 DEF Crash, Forget, MemoryOK
<1> QED BY <1>1, <1>2, <1>3, LooseSteps, LooseStep DEF Crash, Forget, Sets

\* Every step keeps the invariant.
LEMMA NextSole == HolderInv /\ SoleInv /\ [Next]_vars => SoleInv'
<1> SUFFICES ASSUME HolderInv, SoleInv, [Next]_vars PROVE SoleInv'
  OBVIOUS
<1>0. Safely
  BY NextHolder
<1>1. ASSUME NEW p \in Proc, Start(p) PROVE SoleInv'
  BY <1>1, StartSole
<1>2. ASSUME NEW p \in Proc, Resume(p) PROVE SoleInv'
  BY <1>0, <1>2, OpeningSole, LockingSole, WritingSole, RemovingSole DEF Resume
<1>3. ASSUME NEW p \in Proc, Crash(p) PROVE SoleInv'
  BY <1>0, <1>3, CrashSole
<1>4. CASE UNCHANGED vars
  BY <1>4 DEF vars, SoleInv, Sole, Armed, Written, Held
<1> QED BY <1>1, <1>2, <1>3, <1>4 DEF Next

\* The one who moves a session from its path is at one of four steps.
LEMMA Movers ==
    ASSUME HolderInv, [Next]_vars, NEW s \in Session, dir[s].number # 0,
           dir'[s].number # dir[s].number
    PROVE  \E q \in Proc :
                /\ op[q].on = s /\ op'[q] # op[q]
                /\ op[q].at \in {"open.move", "undo", "delete.move"}
<1>0. \A p \in Proc : OpOK /\ DiskOK /\ (op[p].at \notin Between => op[p].on \in Session)
  BY OpFacts
<1>1. PICK p \in Proc : Start(p) \/ Resume(p) \/ Crash(p)
  BY DEF Next, vars
<1>2. OpOK /\ DiskOK /\ (op[p].at \notin Between => op[p].on \in Session)
  BY <1>0
<1>3. ~Start(p) /\ ~Crash(p)
  BY DEF Start, Open, Exit, Turn, SaveCheck, Load, LockCheck, Release, DeleteStat, NameCheck,
         Crash, Forget
<1>4. ~(LockDir(p) \/ SaveDir(p))
  <2> SUFFICES ASSUME LockDir(p) \/ SaveDir(p) PROVE FALSE
    OBVIOUS
  <2>1. MakeDir(op[p].on) /\ op[p].on \in Session /\ UNCHANGED <<trash, retired>>
    BY <1>2, StepSets DEF LockDir, SaveDir, At
  <2> QED BY <1>2, <2>1, MakeDirOK
<1>5. ~(SaveRename(p) \/ NameRename(p))
  BY <1>2 DEF SaveRename, NameRename, DiskOK, DirType
<1>6. OpenMove(p) \/ UndoMove(p) \/ DeleteMove(p)
  BY <1>1, <1>3, <1>4, <1>5
     DEF Resume, OpenNext, OpenTrash, LockTake, LockAgain, SaveTemp, SaveAgain, Stage, UndoRemove,
         NameScan, NameTemp, DeleteOwn, DeleteMark, DeleteRemove
<1>7. MoveToTrash(op[p].on)
  BY <1>6 DEF OpenMove, UndoMove, DeleteMove
<1>8. op[p].on = s
  BY <1>2, <1>7 DEF MoveToTrash, DiskOK
<1>9. op[p].at \in {"open.move", "undo", "delete.move"}
  BY <1>6 DEF OpenMove, UndoMove, DeleteMove, At
<1>10. op'[p].at # op[p].at
  <2>1. op[p] \in OpType
    BY <1>2 DEF OpOK
  <2>2. CASE OpenMove(p)
    <3>1. [op[p] EXCEPT !.at = "open", !.on = None, !.file = 0].at = "open"
      BY <2>1 DEF OpType
    <3> QED BY <1>2, <2>2, <3>1 DEF OpenMove, At, OpOK
  <2>3. CASE UndoMove(p)
    BY <1>2, <1>8, <2>3 DEF UndoMove, At, OpOK, OpType, Present
  <2>4. CASE DeleteMove(p)
    BY <1>2, <1>8, <2>4 DEF DeleteMove, At, OpOK, OpType, Present
  <2> QED BY <1>6, <2>2, <2>3, <2>4
<1> QED BY <1>8, <1>9, <1>10

\* A session that is held is moved only once its holder has marked it, by the
\* holder or by one that undoes what it wrote in that same directory: by no other
\* deletion, and by no opening that finishes one.
THEOREM HeldStaysAlways == Spec => HeldStays
<1> DEFINE Stays ==
        \A p \in Proc : \A s \in Session :
            /\ claim[p][s] # 0 /\ claim[p][s] = dir[s].number
            /\ dir'[s].number # dir[s].number
            => /\ op[p].at = "delete.move" /\ op[p].on = s
               /\ \E q \in Proc :
                    /\ op'[q] # op[q] /\ op[q].on = s
                    /\ q = p \/ (op[q].at = "undo" /\ op[q].dest = dir[s].number)
<1>1. HolderInv /\ SoleInv /\ [Next]_vars => Stays
  <2> SUFFICES ASSUME HolderInv, SoleInv, [Next]_vars,
                      NEW p \in Proc, NEW s \in Session,
                      claim[p][s] # 0 /\ claim[p][s] = dir[s].number,
                      dir'[s].number # dir[s].number
               PROVE  /\ op[p].at = "delete.move" /\ op[p].on = s
                      /\ \E q \in Proc :
                           /\ op'[q] # op[q] /\ op[q].on = s
                           /\ q = p \/ (op[q].at = "undo" /\ op[q].dest = dir[s].number)
    OBVIOUS
  <2>1. s \in retired
    BY NextHolder DEF Safely
  <2>2. op[p].at = "delete.move" /\ op[p].on = s
    BY <2>1 DEF HolderInv, Spared
  <2>3. PICK q \in Proc :
            /\ op[q].on = s /\ op'[q] # op[q]
            /\ op[q].at \in {"open.move", "undo", "delete.move"}
    BY Movers
  <2>4. Held(s)
    BY DEF Held
  <2>5. op[q].file = 0
    BY <2>3, <2>4 DEF SoleInv, Sole
  <2>6. CASE op[q].at = "undo"
    <3>1. op[q].dest = dir[s].number
      BY <2>3, <2>4, <2>6 DEF SoleInv, Written
    <3> QED BY <2>2, <2>3, <2>6, <3>1
  <2>7. CASE op[q].at = "delete.move"
    <3>1. claim[q][s] # 0
      BY <2>3, <2>5, <2>7 DEF SoleInv, Armed
    <3>2. q = p
      BY <3>1 DEF HolderInv, OneHolder
    <3> QED BY <2>2, <2>3, <3>2
  <2>8. op[q].at # "open.move"
    BY <2>5 DEF SoleInv, Armed
  <2> QED BY <2>3, <2>6, <2>7, <2>8
<1>2. Init => SoleInv
  BY DeadRecord DEF Init, SoleInv, Sole, Armed, Written
<1>3. HolderInv /\ SoleInv /\ [Next]_vars => [Stays]_vars
  BY <1>1
<1> HIDE DEF Stays
<1>4. Spec => [][Stays]_vars
  BY <1>2, <1>3, NextSole, HolderInvariant, PTL DEF Spec
<1> QED BY <1>4 DEF HeldStays, Stays

-----------------------------------------------------------------------------
(***************************************************************************)
(* What stands at the path of a deleted session.                           *)
(*                                                                         *)
(* StrayHasCleaner is not inductive either.  A process that saves cleans   *)
(* up only what it wrote in: the directory it staged its file in may have  *)
(* been moved and made again (Tended).  One that waits for a lock, and     *)
(* finds it taken, leaves the cleaning to who has it: a holder that is     *)
(* deleting (Deleting) and has not moved the directory yet (Emptied).      *)
(***************************************************************************)
\* The steps that lead to the directory at the path being moved, whatever
\* others do, while its session is retired.
Sure ==
    {"lock.take", "lock.again", "save.temp", "save.again", "undo", "open.move",
     "delete.mark", "delete.move"}
Cleans(p, s) ==
    /\ op[p].on = s
    /\ op[p].at \in Sure \/ (op[p].at = "save.rename" /\ op[p].dest = dir[s].number)
Tended == crashes = 0 => \A s \in retired : Present(s) => \E p \in Proc : Cleans(p, s)

\* A claim on a retired session is its deleter's.
Deleting ==
    \A p \in Proc : \A s \in retired :
        claim[p][s] # 0 => op[p].at \in {"delete.move", "delete.remove"} /\ op[p].on = s

\* A directory its deleter removes the bytes of is at no path.
Emptied ==
    \A p \in Proc :
        op[p].at = "delete.remove" /\ op[p].file # 0 => dir[op[p].on].number # op[p].file

TendInv == Deleting /\ Emptied /\ Tended

\* The steps by name.
LEMMA SureSteps ==
    /\ {"lock.take", "lock.again", "save.temp", "save.again", "undo", "open.move",
        "delete.mark", "delete.move"} = Sure
    /\ \A a \in {"idle", "dead", "open", "lock.dir", "save.dir", "save.rename", "undo.remove",
                 "name.scan", "name.temp", "name.rename", "delete.own", "delete.remove"} :
        a \notin Sure
BY DEF Sure

\* A step that retires nothing, moves nothing but to the trash, and leaves the
\* cleaning of what it cleaned to another, if it does not go on with it.
LEMMA TendStep ==
    ASSUME HolderInv, TendInv, NEW p \in Proc,
           \A q \in Proc \ {p} : op'[q] = op[q] /\ claim'[q] = claim[q],
           UNCHANGED <<retired, crashes>>, Grows,
           op[p].at \notin {"delete.move", "delete.remove"}, op'[p].at # "delete.remove",
           \A s \in retired : claim'[p][s] # 0 => claim[p][s] # 0,
           \A s \in Session :
                \/ dir'[s].number \in {0, dir[s].number}
                \/ op'[p].on = s /\ op'[p].at \in Sure,
           \A s \in retired :
                Cleans(p, s) /\ Present(s) /\ dir'[s].number = dir[s].number
                => Cleans(p, s)' \/ \E q \in Proc \ {p} : Cleans(q, s)
    PROVE  TendInv'
<1>1. Deleting'
  BY DEF TendInv, Deleting
<1>2. Emptied'
  <2> SUFFICES ASSUME NEW q \in Proc, op'[q].at = "delete.remove", op'[q].file # 0
               PROVE  dir'[op'[q].on].number # op'[q].file
    BY DEF Emptied
  <2>1. q # p /\ op'[q] = op[q]
    OBVIOUS
  <2>2. op[q].on \in Session /\ op[q].file \in Nat
    BY <2>1, OpFacts, StepSets
  <2>3. op[q].file <= made[op[q].on] /\ made[op[q].on] \in Nat
    <3>1. DiskOK /\ Numbered
      BY OpFacts
    <3> QED BY <2>2, <3>1 DEF DiskOK, Numbered
  <2>4. dir'[op[q].on].number \in {0, dir[op[q].on].number} \cup (made[op[q].on] + 1)..made'[op[q].on]
    BY <2>2 DEF Grows
  <2>5. dir[op[q].on].number # op[q].file
    BY <2>1 DEF TendInv, Emptied
  <2> QED BY <2>1, <2>2, <2>3, <2>4, <2>5
<1>3. Tended'
  <2> SUFFICES ASSUME crashes' = 0, NEW s \in retired', Present(s)'
               PROVE  \E q \in Proc : Cleans(q, s)'
    BY DEF Tended
  <2>0. s \in retired /\ s \in Session
    BY OpFacts DEF DiskOK
  <2>1. CASE dir'[s].number # dir[s].number
    BY <2>0, <2>1 DEF Present, Cleans
  <2>2. CASE dir'[s].number = dir[s].number
    <3>1. PICK q \in Proc : Cleans(q, s)
      BY <2>0, <2>2 DEF TendInv, Tended, Present
    <3>2. Cleans(p, s)' \/ \E r \in Proc \ {p} : Cleans(r, s)
      BY <2>0, <2>2, <3>1 DEF Present
    <3>3. \A r \in Proc \ {p} : Cleans(r, s) => Cleans(r, s)'
      BY <2>2 DEF Cleans
    <3> QED BY <3>2, <3>3
  <2> QED BY <2>1, <2>2
<1> QED BY <1>1, <1>2, <1>3 DEF TendInv

\* One that cleans nothing itself, and leaves the tree and the claims alone.
LEMMA AsideTends ==
    ASSUME HolderInv, TendInv, NEW p \in Proc,
           \A q \in Proc \ {p} : op'[q] = op[q],
           UNCHANGED <<retired, made, crashes>>, \A s \in Session : dir'[s].number = dir[s].number,
           op[p].at \notin Sure \cup {"save.rename", "delete.remove"}, op'[p].at # "delete.remove",
           \A q \in Proc : \A s \in Session : claim'[q][s] = claim[q][s] \/ claim'[q][s] = 0,
           \A q \in Proc \ {p} : claim'[q] = claim[q]
    PROVE  TendInv'
<1>1. DiskOK
  BY OpFacts
<1>2. Grows
  BY <1>1, NumbersSame
<1>3. \A s \in retired : ~Cleans(p, s) /\ s \in Session
  BY <1>1 DEF Cleans, DiskOK
<1> QED BY <1>2, <1>3, SureSteps, TendStep

\* A process whose operation cleans nothing, or begins.
LEMMA AsideSteps ==
    ASSUME HolderInv, TendInv, NEW p \in Proc,
           \/ Open(p) \/ Exit(p) \/ Turn(p) \/ SaveCheck(p)
           \/ OpenTrash(p) \/ UndoRemove(p) \/ NameScan(p) \/ NameTemp(p) \/ NameRename(p) \/ DeleteOwn(p)
           \/ \E s \in Session :
                \/ Load(p, s) \/ LockCheck(p, s) \/ Release(p, s) \/ DeleteStat(p, s) \/ OpenNext(p, s)
                \/ \E n \in Name : NameCheck(p, s, n)
    PROVE  TendInv'
<1>0. OpOK /\ DiskOK /\ MemoryOK
  BY OpFacts
<1>1. /\ \A q \in Proc \ {p} : op'[q] = op[q]
      /\ op'[p].at # "delete.remove"
  <2>1. CASE Turn(p) \/ \E s \in Session : Load(p, s) \/ Release(p, s)
    BY <2>1 DEF Turn, Load, Release, At
  <2>2. CASE Exit(p)
    BY <1>0, <2>2, DeadRecord DEF Exit, Forget, OpOK
  <2>3. CASE Open(p)
    <3> DEFINE r == [Idle EXCEPT !.at = "open", !.left = retired]
    <3>1. r.at = "open"
      BY IdleRecord DEF OpType
    <3>2. op' = [op EXCEPT ![p] = r]
      BY <2>3 DEF Open
    <3> HIDE DEF r
    <3> QED BY <1>0, <3>1, <3>2 DEF OpOK
  <2>4. CASE SaveCheck(p) \/ \E s \in Session : LockCheck(p, s) \/ DeleteStat(p, s) \/ \E n \in Name : NameCheck(p, s, n)
    <3>1. PICK step \in {"save.dir", "lock.dir", "delete.own", "name.scan"},
               s \in Session \cup {None}, n \in Name \cup {None} : Begin(p, step, s, n)
      BY <2>4, OpFacts DEF SaveCheck, LockCheck, DeleteStat, NameCheck, Placed, Loaded
    <3>2. Sets(p, step, s, 0, {})
      BY <1>0, <3>1, BeginSets, StepSets
    <3> QED BY <3>2 DEF Sets
  <2>5. CASE Return(p)
    BY <1>0, <2>5, IdleRecord DEF Return, OpOK
  <2>6. CASE \E s \in Session : OpenNext(p, s)
    BY ZenonT(30), <1>0, <2>6 DEF OpenNext, At, OpOK, OpType
  <2>7. CASE Go(p, "name.temp") \/ Go(p, "delete.mark")
    BY <1>0, <2>7 DEF Go, OpOK, OpType
  <2>8. CASE DeleteOwn(p) /\ ~Return(p) /\ ~Go(p, "delete.mark")
    BY <1>0, <2>8 DEF DeleteOwn, OpOK, OpType
  <2>9. CASE NameTemp(p) /\ ~Return(p)
    BY <1>0, <2>9 DEF NameTemp, Stage, OpOK, OpType
  <2> QED
    BY <2>1, <2>2, <2>3, <2>4, <2>5, <2>6, <2>7, <2>8, <2>9 DEF OpenTrash, UndoRemove, NameScan, NameRename
<1>2. op[p].at \notin Sure \cup {"save.rename", "delete.remove"}
  BY SureSteps
     DEF Open, Exit, Turn, SaveCheck, OpenTrash, UndoRemove, NameScan, NameTemp, NameRename, DeleteOwn,
         Load, LockCheck, Release, DeleteStat, OpenNext, NameCheck, Begin, At
<1>3. UNCHANGED <<retired, made, crashes>>
  BY DEF Open, Exit, Turn, SaveCheck, OpenTrash, UndoRemove, NameScan, NameTemp, NameRename, DeleteOwn,
         Load, LockCheck, Release, DeleteStat, OpenNext, NameCheck, Forget, Stage
<1>4. \A s \in Session : dir'[s].number = dir[s].number
  <2>1. CASE NameRename(p)
    BY <1>0, <2>1 DEF NameRename, DiskOK, DirType
  <2>2. CASE ~NameRename(p)
    BY <2>2 DEF Open, Exit, Turn, SaveCheck, OpenTrash, UndoRemove, NameScan, NameTemp, DeleteOwn,
         Load, LockCheck, Release, DeleteStat, OpenNext, NameCheck, Forget, Stage
  <2> QED BY <2>1, <2>2
<1>5. /\ \A q \in Proc : \A s \in Session : claim'[q][s] = claim[q][s] \/ claim'[q][s] = 0
      /\ \A q \in Proc \ {p} : claim'[q] = claim[q]
  <2>1. CASE UNCHANGED claim
    BY <2>1
  <2>2. CASE Exit(p)
    BY <1>0, <2>2 DEF Exit, Forget, MemoryOK
  <2>3. CASE \E s \in Session : Release(p, s)
    BY <1>0, <2>3 DEF Release, MemoryOK
  <2> QED
    BY <2>1, <2>2, <2>3 DEF Open, Turn, SaveCheck, OpenTrash, UndoRemove, NameScan, NameTemp, NameRename,
         DeleteOwn, Load, LockCheck, DeleteStat, OpenNext, NameCheck, Stage
<1> QED BY <1>1, <1>2, <1>3, <1>4, <1>5, AsideTends

\* One that makes a directory cleans what it made.
LEMMA MakeTends ==
    ASSUME HolderInv, TendInv, NEW p \in Proc, LockDir(p) \/ SaveDir(p)
    PROVE  TendInv'
<1> DEFINE s == op[p].on
<1>0. OpOK /\ DiskOK /\ MemoryOK /\ s \in Session /\ op[p].at \in {"lock.dir", "save.dir"}
  BY OpFacts, StepSets DEF LockDir, SaveDir, At
<1>1. /\ \A q \in Proc \ {p} : op'[q] = op[q]
      /\ op'[p].at \in {"lock.take", "save.temp"} /\ op'[p].on = s
  BY <1>0 DEF LockDir, SaveDir, Go, OpOK, OpType
<1>2. op'[p].at \in Sure /\ op'[p].at # "delete.remove" /\ op[p].at \notin Sure \cup {"save.rename", "delete.remove"}
  BY <1>0, <1>1, SureSteps
<1>3. UNCHANGED <<trash, retired, claim, crashes>> /\ MakeDir(s)
  BY DEF LockDir, SaveDir
<1>4. Grows
  BY <1>0, <1>3, MakeDirOK
<1>5. \A t \in Session : dir'[t].number = dir[t].number \/ t = s
  BY <1>0, <1>3 DEF MakeDir, DiskOK
<1>6. \A t \in retired : ~Cleans(p, t)
  BY <1>2 DEF Cleans
<1> HIDE DEF s
<1> QED BY <1>1, <1>2, <1>3, <1>4, <1>5, <1>6, SureSteps, TendStep

\* What is moved to the trash needs no cleaner.
LEMMA MoveTends ==
    ASSUME HolderInv, TendInv, NEW p \in Proc, OpenMove(p) \/ UndoMove(p)
    PROVE  TendInv'
<1> DEFINE s == op[p].on
<1>0. OpOK /\ DiskOK /\ MemoryOK /\ s \in Session /\ op[p].at \in {"open.move", "undo"}
  BY OpFacts, StepSets DEF OpenMove, UndoMove, At
<1>1. /\ \A q \in Proc \ {p} : op'[q] = op[q]
      /\ op'[p].at # "delete.remove"
  <2>1. CASE Return(p)
    BY <1>0, <2>1, IdleRecord DEF Return, OpOK
  <2>2. CASE ~Return(p) /\ UndoMove(p)
    BY <1>0, <2>2 DEF UndoMove, OpOK, OpType
  <2>3. CASE OpenMove(p)
    <3>1. op[p] \in OpType
      BY <1>0 DEF OpOK
    <3>2. [op[p] EXCEPT !.at = "open", !.on = None, !.file = 0].at = "open"
      BY <3>1 DEF OpType
    <3> QED BY <1>0, <2>3, <3>2 DEF OpenMove, OpOK
  <2> QED BY <2>1, <2>2, <2>3
<1>2. UNCHANGED <<retired, made, claim, crashes>> /\ (MoveToTrash(s) \/ (~Present(s) /\ UNCHANGED <<dir, trash>>))
  BY DEF OpenMove, UndoMove
<1>3. Grows /\ dir'[s].number = 0 /\ \A t \in Session \ {s} : dir'[t] = dir[t]
  <2>1. CASE MoveToTrash(s)
    BY <1>0, <1>2, <2>1, MoveToTrashOK
  <2>2. CASE ~Present(s) /\ UNCHANGED <<dir, trash>>
    BY <1>0, <1>2, <2>2, DiskSame DEF Present
  <2> QED BY <1>2, <2>1, <2>2
<1>4. \A t \in retired : Cleans(p, t) => t = s
  BY DEF Cleans
<1> HIDE DEF s
<1> QED BY <1>0, <1>1, <1>2, <1>3, <1>4, TendStep DEF Present

\* A lock that is taken is its holder's to clean for: a claim on a retired
\* session is its deleter's, and so is the lock of a directory still in place.
LEMMA LockedTends ==
    ASSUME HolderInv, TendInv, NEW p \in Proc, NEW s \in retired, Present(s),
           op[p].at = "lock.take", Locked(s, dir[s].number)
    PROVE  \E q \in Proc \ {p} : Cleans(q, s)
<1>0. DiskOK /\ OpOK /\ s \in Session
  BY OpFacts DEF DiskOK
<1>1. PICK q \in Proc : claim[q][s] = dir[s].number \/ (op[q].on = s /\ op[q].file = dir[s].number)
  BY DEF Locked
<1>2. CASE claim[q][s] = dir[s].number
  <2>1. op[q].at = "delete.move" /\ op[q].on = s
    BY <1>2, OpFacts DEF Spared, Present
  <2> QED BY <2>1, SureSteps DEF Cleans
<1>3. CASE op[q].on = s /\ op[q].file = dir[s].number
  <2>1. op[q].file # 0 /\ op[q].at \in InHand
    BY <1>0, <1>3 DEF Present, OpOK
  <2>2. op[q].at # "delete.remove"
    BY <1>3, <2>1 DEF TendInv, Emptied
  <2>3. op[q].at \in Sure /\ q # p
    BY <1>0, <2>1, <2>2, SureSteps DEF InHand
  <2> QED BY <1>3, <2>3 DEF Cleans
<1> QED BY <1>1, <1>2, <1>3

\* An operation on its way to clean up goes on with it.
LEMMA OnwardTends ==
    ASSUME HolderInv, TendInv, NEW p \in Proc,
           LockTake(p) \/ LockAgain(p) \/ SaveTemp(p) \/ SaveRename(p) \/ SaveAgain(p)
    PROVE  TendInv'
<1> DEFINE s == op[p].on
<1>0. OpOK /\ DiskOK /\ MemoryOK /\ s \in Session /\ op[p] \in OpType
  BY OpFacts, StepSets DEF LockTake, LockAgain, SaveTemp, SaveRename, SaveAgain, At, OpOK
<1>1. op[p].at \in {"lock.take", "lock.again", "save.temp", "save.rename", "save.again"}
  BY DEF LockTake, LockAgain, SaveTemp, SaveRename, SaveAgain, At
<1>2. /\ UNCHANGED <<retired, made, crashes>>
      /\ \A t \in Session : dir'[t].number = dir[t].number
      /\ Grows
  <2>1. UNCHANGED <<retired, made, crashes>>
    BY DEF LockTake, LockAgain, SaveTemp, SaveRename, SaveAgain, Stage
  <2>2. \A t \in Session : dir'[t].number = dir[t].number
    BY <1>0 DEF LockTake, LockAgain, SaveTemp, SaveRename, SaveAgain, Stage, DiskOK, DirType
  <2> QED BY <1>0, <2>1, <2>2, NumbersSame
<1>3. /\ \A q \in Proc \ {p} : claim'[q] = claim[q]
      /\ \A t \in retired : claim'[p][t] # 0 => claim[p][t] # 0
  <2>1. CASE UNCHANGED claim
    BY <2>1
  <2>2. CASE LockAgain(p)
    BY <1>0, <2>2 DEF LockAgain, MemoryOK, DiskOK
  <2> QED BY <2>1, <2>2 DEF LockTake, SaveTemp, SaveRename, SaveAgain, Stage
<1>4. CASE Return(p)
  <2>1. /\ \A q \in Proc \ {p} : op'[q] = op[q]
        /\ op'[p].at = "idle"
    BY <1>0, <1>4, IdleRecord DEF Return, OpOK
  <2>2. ASSUME NEW t \in retired, Cleans(p, t), Present(t)
        PROVE  \E q \in Proc \ {p} : Cleans(q, t)
    <3>0. t = s
      BY <2>2 DEF Cleans
    <3>1. CASE LockTake(p)
      <4>1. claim[p][t] = 0
        BY <3>1 DEF LockTake, At, TendInv, Deleting
      <4>2. Locked(t, dir[t].number)
        <5> SUFFICES ASSUME ~Locked(s, dir[s].number) PROVE FALSE
          BY <3>0
        <5>1. op' = [op EXCEPT ![p].at = "lock.again", ![p].file = dir[s].number]
          BY <2>2, <3>0, <3>1, <4>1 DEF LockTake
        <5>2. op'[p].at = "lock.again"
          BY <1>0, <5>1 DEF OpOK, OpType
        <5> QED BY <2>1, <5>2
      <4> QED BY <2>2, <3>1, <4>2, LockedTends DEF LockTake, At
    <3>2. CASE LockAgain(p)
      <4>1. op' = [op EXCEPT ![p].at = "undo", ![p].file = 0]
        BY <2>2, <3>0, <3>2 DEF LockAgain
      <4>2. op'[p].at = "undo"
        BY <1>0, <4>1 DEF OpOK, OpType
      <4> QED BY <2>1, <4>2
    <3>3. CASE SaveTemp(p)
      <4>1. op' = [op EXCEPT ![p].at = "save.rename", ![p].dest = dir[s].number]
        BY <2>2, <3>0, <3>3 DEF SaveTemp, Stage
      <4>2. op'[p].at = "save.rename"
        BY <1>0, <4>1 DEF OpOK, OpType
      <4> QED BY <2>1, <4>2
    <3>4. CASE SaveRename(p)
      <4>1. op[p].at = "save.rename" /\ "save.rename" \notin Sure
        BY <3>4, SureSteps DEF SaveRename, At
      <4>2. dir[s].number = op[p].dest
        BY <2>2, <3>0, <4>1 DEF Cleans
      <4>3. Go(p, "save.again")
        BY <3>4, <4>2 DEF SaveRename
      <4>4. op'[p].at = "save.again"
        BY <1>0, <4>3 DEF Go, OpOK, OpType
      <4> QED BY <2>1, <4>4
    <3>5. CASE SaveAgain(p)
      <4>1. Go(p, "undo")
        BY <2>2, <3>0, <3>5 DEF SaveAgain
      <4>2. op'[p].at = "undo"
        BY <1>0, <4>1 DEF Go, OpOK, OpType
      <4> QED BY <2>1, <4>2
    <3> QED BY <3>1, <3>2, <3>3, <3>4, <3>5
  <2>3. "idle" # "delete.remove" /\ op[p].at \notin {"delete.move", "delete.remove"}
    BY <1>1
  <2> HIDE DEF s
  <2> QED BY <1>2, <1>3, <2>1, <2>2, <2>3, TendStep
<1>5. CASE ~Return(p)
  <2>1. /\ \A q \in Proc \ {p} : op'[q] = op[q]
        /\ op'[p].on = s
        /\ \/ op'[p].at \in {"lock.again", "undo", "save.again"}
           \/ op'[p].at = "save.rename" /\ op'[p].dest = dir[s].number
    BY <1>0, <1>5 DEF LockTake, LockAgain, SaveTemp, SaveRename, SaveAgain, Stage, Go, OpOK, OpType
  <2>2. \A t \in retired : Cleans(p, t) => Cleans(p, t)'
    <3> SUFFICES ASSUME NEW t \in retired, Cleans(p, t) PROVE Cleans(p, t)'
      OBVIOUS
    <3>1. t = s
      BY DEF Cleans
    <3> QED BY <1>0, <1>2, <2>1, <3>1, SureSteps DEF Cleans
  <2>3. op'[p].at # "delete.remove" /\ op[p].at \notin {"delete.move", "delete.remove"}
    BY <1>1, <2>1
  <2> HIDE DEF s
  <2> QED BY <1>2, <1>3, <2>1, <2>2, <2>3, TendStep
<1> QED BY <1>4, <1>5

\* A deletion: its process has the session's lock from before it is marked
\* until its directory has gone.
LEMMA DeletingTends ==
    ASSUME HolderInv, TendInv, NEW p \in Proc, DeleteMark(p) \/ DeleteMove(p) \/ DeleteRemove(p)
    PROVE  TendInv'
<1> DEFINE s == op[p].on
<1>0. OpOK /\ DiskOK /\ MemoryOK /\ s \in Session /\ op[p] \in OpType /\ op[p].at # "save.rename"
  BY OpFacts, StepSets DEF DeleteMark, DeleteMove, DeleteRemove, At, OpOK
<1>1. \A q \in Proc \ {p} : op'[q] = op[q] /\ claim'[q] = claim[q]
  BY <1>0 DEF DeleteMark, DeleteMove, DeleteRemove, Go, Return, OpOK, MemoryOK
<1>2. \A t \in Session : dir'[t].number \in {0, dir[t].number}
  <2>1. CASE UNCHANGED dir
    BY <2>1
  <2>2. CASE MoveToTrash(s) /\ DeleteMove(p)
    <3>1. UNCHANGED <<retired, made>>
      BY <2>2 DEF DeleteMove
    <3> QED BY <1>0, <2>2, <3>1, MoveToTrashOK
  <2> QED BY <2>1, <2>2 DEF DeleteMark, DeleteMove, DeleteRemove
<1>3. CASE DeleteMark(p)
  <2>1. op'[p].at = "delete.move" /\ op'[p].on = s /\ op[p].at = "delete.mark"
    BY <1>0, <1>3 DEF DeleteMark, At, Go, OpOK, OpType
  <2>2. retired' = retired \cup {s} /\ UNCHANGED <<dir, claim>>
    BY <1>3 DEF DeleteMark
  <2>3. Deleting'
    <3> SUFFICES ASSUME NEW q \in Proc, NEW t \in retired', claim[q][t] # 0
                 PROVE  op'[q].at \in {"delete.move", "delete.remove"} /\ op'[q].on = t
      BY <2>2 DEF Deleting
    <3>1. CASE t \in retired
      BY <1>1, <2>1, <3>1 DEF TendInv, Deleting
    <3>2. CASE t = s /\ s \notin retired
      <4>1. HolderInv'
        BY <1>3, DeleteMarkStep DEF Safely
      <4>2. claim[q][s] = dir[s].number
        BY <1>0, <3>2, OpFacts DEF Located, HasLock, MemoryOK
      <4> QED BY <2>2, <3>2, <4>1, <4>2 DEF HolderInv, Spared
    <3> QED BY <2>2, <3>1, <3>2
  <2>4. Emptied'
    BY <1>1, <2>1, <2>2 DEF TendInv, Emptied
  <2>5. Tended'
    <3> SUFFICES ASSUME crashes' = 0, NEW t \in retired', Present(t)
                 PROVE  \E q \in Proc : Cleans(q, t)'
      BY <2>2 DEF Tended, Present
    <3>1. t = s => Cleans(p, t)'
      BY <2>1, SureSteps DEF Cleans
    <3>2. \A q \in Proc \ {p} : Cleans(q, t) => Cleans(q, t)'
      BY <1>1, <2>2 DEF Cleans
    <3>3. CASE t \in retired
      <4>1. PICK q \in Proc : Cleans(q, t)
        BY <1>3, <3>3 DEF DeleteMark, TendInv, Tended
      <4> QED BY <3>1, <3>2, <4>1 DEF Cleans
    <3> QED BY <2>2, <3>1, <3>3
  <2> QED BY <2>3, <2>4, <2>5 DEF TendInv
<1>4. CASE DeleteMove(p)
  <2>1. op'[p].at = "delete.remove" /\ op'[p].on = s
    BY <1>0, <1>4 DEF DeleteMove, Go, OpOK, OpType
  <2>2. /\ UNCHANGED <<retired, claim, made, crashes>>
        /\ dir'[s].number = 0
        /\ \A t \in Session \ {s} : dir'[t].number = dir[t].number
    <3>1. UNCHANGED <<retired, claim, made, crashes>>
      BY <1>4 DEF DeleteMove
    <3>2. CASE MoveToTrash(s)
      <4>1. UNCHANGED <<retired, made>>
        BY <3>1
      <4>2. dir'[s].number = 0 /\ \A t \in Session \ {s} : dir'[t] = dir[t]
        BY <1>0, <3>2, <4>1, MoveToTrashOK
      <4> QED BY <3>1, <4>2
    <3>3. CASE ~Present(s) /\ UNCHANGED dir
      BY <1>0, <3>1, <3>3 DEF Present
    <3> QED BY <1>4, <3>1, <3>2, <3>3 DEF DeleteMove
  <2>3. Deleting'
    BY <1>1, <2>1, <2>2 DEF TendInv, Deleting
  <2>4. Emptied'
    <3> SUFFICES ASSUME NEW q \in Proc, op'[q].at = "delete.remove", op'[q].file # 0
                 PROVE  dir'[op'[q].on].number # op'[q].file
      BY DEF Emptied
    <3>1. CASE q = p
      BY <2>1, <2>2, <3>1
    <3>2. CASE q # p
      <4>1. op[q].on \in Session /\ dir[op[q].on].number # op[q].file
        BY <1>1, <3>2, OpFacts, StepSets DEF TendInv, Emptied
      <4> QED BY <1>1, <1>2, <3>2, <4>1
    <3> QED BY <3>1, <3>2
  <2>5. Tended'
    <3> SUFFICES ASSUME crashes = 0, NEW t \in retired, Present(t)'
                 PROVE  \E q \in Proc : Cleans(q, t)'
      BY <2>2 DEF Tended
    <3>1. t \in Session /\ t # s
      BY <1>0, <2>2 DEF DiskOK, Present
    <3>2. Present(t)
      BY <2>2, <3>1 DEF Present
    <3>3. PICK q \in Proc : Cleans(q, t)
      BY <3>2 DEF TendInv, Tended
    <3> QED BY <1>1, <2>2, <3>1, <3>3 DEF Cleans
  <2> QED BY <2>3, <2>4, <2>5 DEF TendInv
<1>5. CASE DeleteRemove(p)
  <2>1. op'[p].at = "idle" /\ op[p].at = "delete.remove"
    BY <1>0, <1>5, IdleRecord DEF DeleteRemove, At, Return, OpOK
  <2>2. UNCHANGED <<dir, retired, crashes>> /\ claim'[p] = [claim[p] EXCEPT ![s] = 0]
    BY <1>0, <1>5 DEF DeleteRemove, MemoryOK
  <2>3. Deleting'
    <3> SUFFICES ASSUME NEW q \in Proc, NEW t \in retired, claim'[q][t] # 0
                 PROVE  op'[q].at \in {"delete.move", "delete.remove"} /\ op'[q].on = t
      BY <2>2 DEF Deleting
    <3>1. t \in Session /\ claim[p] \in [Session -> Nat]
      BY <1>0 DEF DiskOK, MemoryOK
    <3>2. CASE q = p
      <4>1. t # s /\ claim[p][t] # 0
        BY <2>2, <3>1, <3>2
      <4> QED BY <4>1 DEF TendInv, Deleting
    <3>3. CASE q # p
      BY <1>1, <3>3 DEF TendInv, Deleting
    <3> QED BY <3>2, <3>3
  <2>4. Emptied'
    BY <1>1, <2>1, <2>2 DEF TendInv, Emptied
  <2>5. Tended'
    BY <1>0, <1>1, <2>1, <2>2, SureSteps DEF TendInv, Tended, Cleans, Present
  <2> QED BY <2>3, <2>4, <2>5 DEF TendInv
<1> QED BY <1>3, <1>4, <1>5

\* Nothing is said of what a process that died was cleaning.
LEMMA CrashTends == ASSUME HolderInv, TendInv, NEW p \in Proc, Crash(p) PROVE TendInv'
<1>0. OpOK /\ MemoryOK
  BY OpFacts
<1>1. /\ op' = [op EXCEPT ![p] = Dead]
      /\ claim' = [claim EXCEPT ![p] = [s \in Session |-> 0]]
      /\ UNCHANGED <<dir, retired>>
  BY DEF Crash, Forget
<1>2. crashes' # 0
  BY <1>0, BoundsAssumption DEF Crash, MemoryOK
<1>3. retired \subseteq Session
  BY OpFacts DEF DiskOK
<1> QED BY <1>0, <1>1, <1>2, <1>3, DeadRecord DEF TendInv, Deleting, Emptied, Tended, OpOK, MemoryOK

\* Every step keeps the invariant.
LEMMA NextTends == HolderInv /\ TendInv /\ [Next]_vars => TendInv'
<1> SUFFICES ASSUME HolderInv, TendInv, [Next]_vars PROVE TendInv'
  OBVIOUS
<1>1. ASSUME NEW p \in Proc, Start(p) PROVE TendInv'
  BY <1>1, AsideSteps DEF Start
<1>2. ASSUME NEW p \in Proc, Resume(p) PROVE TendInv'
  BY <1>2, AsideSteps, MakeTends, MoveTends, OnwardTends, DeletingTends DEF Resume
<1>3. ASSUME NEW p \in Proc, Crash(p) PROVE TendInv'
  BY <1>3, CrashTends
<1>4. CASE UNCHANGED vars
  BY <1>4 DEF vars, TendInv, Deleting, Emptied, Tended, Cleans, Present
<1> QED BY <1>1, <1>2, <1>3, <1>4 DEF Next

\* Until a process dies, whatever a stale handle made of a deleted session has
\* someone under way who will move it, whoever else saves, waits for the lock,
\* deletes or opens the store meanwhile (undo_resurrection, lock_blocking).
THEOREM StrayHasCleanerAlways == Spec => []StrayHasCleaner
<1>1. Init => TendInv
  BY DeadRecord DEF Init, TendInv, Deleting, Emptied, Tended
<1>2. TendInv => StrayHasCleaner
  BY SureSteps DEF TendInv, Tended, Cleans, StrayHasCleaner
<1> QED BY <1>1, <1>2, NextTends, HolderInvariant, PTL DEF Spec
=============================================================================
