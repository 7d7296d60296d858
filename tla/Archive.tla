------------------------------ MODULE Archive -------------------------------
(***************************************************************************)
(* The archive of captured shell output: store/archive.rs, store/sink.rs   *)
(* and store/gc.rs of crates/nanus-adapter-store, as a turn uses them      *)
(* (agent_loop/managed/tools.rs, tools/bash.rs and the archive task of the *)
(* local shell).  Processes claim sessions, reserve quota for a call,      *)
(* write its streams to files, publish in the log what was sealed, and     *)
(* collect what no log publishes.                                          *)
(*                                                                         *)
(* A capture is one call's reservation: a marker file, locked while the    *)
(* lease or a sink is left, and an object for each stream.  What an        *)
(* archive holds is measured from its files.  A directory is listed in one *)
(* step and its files are looked at in later ones.                         *)
(***************************************************************************)
EXTENDS Naturals, FiniteSets

CONSTANTS
    Proc,         \* the processes
    Session,      \* the sessions
    Stream,       \* the streams of a call
    Turns,        \* the sessions each process runs turns of
    Collects,     \* the sessions each process is asked to collect
    None,         \* nobody, no session
    Cap,          \* bytes a stream may retain
    SessionQuota, \* bytes one session's archive may hold
    StoreQuota,   \* bytes all archives may hold
    MaxCaptures,  \* bounds how many reservations are granted
    MaxCrashes    \* bounds how many processes die

ASSUME NoneAssumption == None \notin Proc \cup Session
ASSUME StreamAssumption == IsFiniteSet(Stream)
ASSUME QuotaAssumption ==
    {Cap, SessionQuota, StoreQuota, MaxCaptures, MaxCrashes} \subseteq Nat

VARIABLES
    owner,    \* the process with each session's claim
    capture,  \* each capture's session, process, lease and marker
    object,   \* each object's file: its extension and its size
    sink,     \* each object's sink
    late,     \* the write or rename a sink gave up waiting for
    hand,     \* the receipts each process has and did not publish yet
    log,      \* the receipts the logs publish
    lock,     \* the process with the quota lock
    op,       \* what each process is doing with the archive
    overran,  \* whether a write or a rename landed outside its allowance
    crashes   \* how many processes died

file   == <<object, late>>
making == <<capture, sink>>
book   == <<hand, log>>
vars   == <<owner, making, file, book, lock, op, overran, crashes>>

Capture == 1..MaxCaptures
Object  == Capture \X Stream

\* lease: filed with the broker for the call, taken by it, or none any more;
\* marker: absent, locked by its process, or left behind by a dead one.
Unused == [on |-> None, by |-> None, lease |-> "none", marker |-> "absent"]
NoFile == [ext |-> "none", size |-> 0]

\* on: the session; gone: whoever asked no longer waits; call: the capture that
\* is made; left: the archives yet to be listed; leases, names: what was listed
\* and not looked at; own, total: what was measured; kept: what must not be
\* removed, or is to be published.
Idle ==
    [at |-> "idle", on |-> None, gone |-> FALSE, call |-> 0, left |-> {},
     leases |-> {}, names |-> {}, own |-> 0, total |-> 0, kept |-> {}]

Init ==
    /\ owner = [s \in Session |-> None]
    /\ capture = [c \in Capture |-> Unused]
    /\ object = [o \in Object |-> NoFile]
    /\ sink = [o \in Object |-> "none"]
    /\ late = [o \in Object |-> "none"]
    /\ hand = [p \in Proc |-> {}] /\ log = {}
    /\ lock = None
    /\ op = [p \in Proc |-> Idle]
    /\ overran = FALSE /\ crashes = 0

-----------------------------------------------------------------------------
At(p, step) == op[p].at = step
Go(p, step) == op' = [op EXCEPT ![p].at = step]
Return(p)   == op' = [op EXCEPT ![p] = Idle]

Collecting  == {"sweep.lock", "sweep.list", "sweep.read"}

SessionOf(o) == capture[o[1]].on
Of(c)        == {c} \X Stream
Here(s)      == {o \in Object : SessionOf(o) = s /\ object[o].ext # "none"}
Used         == {c \in Capture : capture[c] # Unused}

\* What the values of a function add up to, as the pairs of an argument and one
\* of its units.
Sum(f)     == Cardinality(UNION {{x} \X (1..f[x]) : x \in DOMAIN f})
Bytes(O)   == Sum([o \in O |-> object[o].size])
Allowance  == Cap * Cardinality(Stream)

\* The bytes found under a name read before: none if the file has another now.
Found(n)   == IF object[n[1]].ext = n[2] THEN object[n[1]].size ELSE 0
Sizes(N)   == Sum([n \in N |-> Found(n)])
Covered(c, N) == {n \in N : n[1] \in Of(c)}

\* dir_usage: a lease at the larger of its reservation and what its objects hold.
Charge(c, N) == LET held == Sizes(Covered(c, N))
                IN  IF held > Allowance THEN held ELSE Allowance

\* Wrong: a reservation charges what was written of it.
UsageWritten(L, N) == Sizes(N)

\* L: the leases and N: the names that were listed.
Usage(L, N) ==
    Sum([c \in L |-> Charge(c, N)])
    + Sizes(N \ UNION {Covered(c, N) : c \in L})

\* Wrong: the sinks have no share of the guard.
GuardOfLease(c, lease, S) == IF lease # "none" THEN capture[c].marker ELSE "absent"

\* Drop of LeaseGuard, once neither the lease nor a sink is left.
Guard(c, lease, S) ==
    IF lease # "none" \/ \E o \in Of(c) : S[o] # "none" THEN capture[c].marker ELSE "absent"

\* A sink is gone.
DropSink(o) ==
    /\ sink' = [sink EXCEPT ![o] = "none"]
    /\ capture' = [capture EXCEPT ![o[1]].marker =
                       Guard(o[1], capture[o[1]].lease, [sink EXCEPT ![o] = "none"])]

-----------------------------------------------------------------------------
(***************************************************************************)
(* The claim of a session, with which a turn begins and ends.              *)
(***************************************************************************)
Claim(p, s) ==
    /\ s \in Turns[p] /\ owner[s] = None
    /\ owner' = [owner EXCEPT ![s] = p]
    /\ UNCHANGED <<making, file, book, lock, op, overran, crashes>>

\* The claim goes with the turn, which is over or dropped wherever it waits.  A
\* reservation runs on, on its own thread, for nobody; a running call loses its
\* lease and not its sinks; what the broker has stays there.
Release(p, s) ==
    /\ owner[s] = p /\ ~(op[p].on = s /\ op[p].at \in Collecting)
    /\ owner' = [owner EXCEPT ![s] = None]
    /\ op' = IF op[p].on # s THEN op
             ELSE IF At(p, "publish") THEN [op EXCEPT ![p] = Idle]
             ELSE [op EXCEPT ![p].gone = TRUE]
    /\ capture' = [c \in Capture |->
           IF capture[c].on = s /\ capture[c].by = p /\ capture[c].lease = "taken"
           THEN [capture[c] EXCEPT !.lease = "none", !.marker = Guard(c, "none", sink)]
           ELSE capture[c]]
    /\ UNCHANGED <<sink, file, book, lock, overran, crashes>>

-----------------------------------------------------------------------------
(***************************************************************************)
(* reserve: the checks, then everything else under the quota lock, on a    *)
(* thread of its own.                                                      *)
(***************************************************************************)
Reserve(p, s) ==
    /\ At(p, "idle") /\ owner[s] = p
    /\ op' = [op EXCEPT ![p] = [Idle EXCEPT !.at = "lock", !.on = s]]
    /\ UNCHANGED <<owner, making, file, book, lock, overran, crashes>>

TakeLock(p) ==
    /\ lock = None /\ lock' = p
    /\ \/ At(p, "lock") /\ Go(p, "own.list")
       \/ At(p, "sweep.lock") /\ Go(p, "sweep.list")
    /\ UNCHANGED <<owner, making, file, book, overran, crashes>>

\* Half a second of tries is over.
LockTimesOut(p) ==
    /\ lock # None
    /\ \/ At(p, "lock") /\ UNCHANGED owner
       \/ At(p, "sweep.lock") /\ owner' = [owner EXCEPT ![op[p].on] = None]
    /\ Return(p)
    /\ UNCHANGED <<making, file, book, lock, overran, crashes>>

Markers(s) == {c \in Capture : capture[c].on = s /\ capture[c].marker # "absent"}
Names(s)   == {<<o, object[o].ext>> : o \in Here(s)}

\* read_dir of an archive: the call's own, then each under both roots, its own
\* once more; or the one that is swept.
Listed(p, s, step) ==
    op' = [op EXCEPT ![p].at = step, ![p].left = @ \ {s},
                     ![p].leases = Markers(s), ![p].names = Names(s)]

List(p, s) ==
    /\ \/ At(p, "own.list") /\ s = op[p].on /\ Listed(p, s, "own.read")
       \/ At(p, "all.list") /\ s \in op[p].left /\ Listed(p, s, "all.read")
       \/ At(p, "sweep.list") /\ s = op[p].on /\ Listed(p, s, "sweep.read")
    /\ UNCHANGED <<owner, making, file, book, lock, overran, crashes>>

\* What was listed is measured.
Measure(p) ==
    LET usage == Usage(op[p].leases, op[p].names)
        read  == [op[p] EXCEPT !.leases = {}, !.names = {}]
    IN  /\ op' = [op EXCEPT ![p] =
               CASE At(p, "own.read") ->
                      [read EXCEPT !.at = "all.list", !.left = Session, !.own = usage]
                 [] At(p, "all.read") /\ op[p].left # {} ->
                      [read EXCEPT !.at = "all.list", !.total = @ + usage]
                 [] OTHER ->
                      [read EXCEPT !.at = "grant", !.total = @ + usage]]
        /\ At(p, "own.read") \/ At(p, "all.read")
        /\ UNCHANGED <<owner, making, file, book, lock, overran, crashes>>

Within(p) ==
    /\ op[p].own + Allowance <= SessionQuota
    /\ op[p].total + Allowance <= StoreQuota

\* The marker, locked from its creation.
Mark(p, c) ==
    /\ At(p, "grant") /\ Within(p)
    /\ c \notin Used /\ \A d \in Capture : d < c => d \in Used
    /\ capture' = [capture EXCEPT ![c] =
           [on |-> op[p].on, by |-> p, lease |-> "none", marker |-> "locked"]]
    /\ op' = [op EXCEPT ![p].at = "make", ![p].call = c]
    /\ UNCHANGED <<owner, sink, file, book, lock, overran, crashes>>

\* The staging files; and the lease with its sinks, dropped at once if nobody
\* waits for them any more: the files stay.
Make(p, c) ==
    /\ At(p, "make") /\ c = op[p].call
    /\ object' = [o \in Object |->
           IF o \in Of(c) THEN [ext |-> "partial", size |-> 0] ELSE object[o]]
    /\ IF op[p].gone
       THEN capture' = [capture EXCEPT ![c].marker = "absent"] /\ UNCHANGED sink
       ELSE /\ capture' = [capture EXCEPT ![c].lease = "filed"]
            /\ sink' = [o \in Object |-> IF o \in Of(c) THEN "open" ELSE sink[o]]
    /\ lock' = None
    /\ Return(p)
    /\ UNCHANGED <<owner, late, book, overran, crashes>>

\* Over a quota, or a file could not be made and the marker goes with its guard.
Refuse(p) ==
    /\ \/ At(p, "grant") /\ UNCHANGED capture
       \/ At(p, "make") /\ capture' = [capture EXCEPT ![op[p].call].marker = "absent"]
    /\ lock' = None
    /\ Return(p)
    /\ UNCHANGED <<owner, sink, file, book, overran, crashes>>

-----------------------------------------------------------------------------
(***************************************************************************)
(* FileSink, as the archive task of the shell drives it: whoever wanted    *)
(* the output may have gone.                                               *)
(***************************************************************************)
InTurn(c) == capture[c].on # None /\ owner[capture[c].on] = capture[c].by
Working(o) == sink[o] = "open" /\ capture[o[1]].lease # "filed"

\* The call's command starts, and its sinks are the shell's.
TakeLease(c) ==
    /\ capture[c].lease = "filed" /\ InTurn(c)
    /\ capture' = [capture EXCEPT ![c].lease = "taken"]
    /\ UNCHANGED <<owner, sink, file, book, lock, op, overran, crashes>>

\* The call has its output and lets go; or it never ran, and its lease is
\* discarded with sinks nothing was written to.
DropLease(c) ==
    /\ InTurn(c)
    /\ \/ /\ capture[c].lease = "taken"
          /\ capture' = [capture EXCEPT ![c].lease = "none",
                                        ![c].marker = Guard(c, "none", sink)]
          /\ UNCHANGED <<sink, object>>
       \/ /\ capture[c].lease = "filed"
          /\ capture' = [capture EXCEPT ![c].lease = "none", ![c].marker = "absent"]
          /\ sink' = [o \in Object |-> IF o \in Of(c) THEN "none" ELSE sink[o]]
          /\ object' = [o \in Object |-> IF o \in Of(c) THEN NoFile ELSE object[o]]
    /\ UNCHANGED <<owner, late, book, lock, op, overran, crashes>>

\* One byte stands for a staged buffer; beyond the cap nothing is retained.
Write(o) ==
    /\ Working(o) /\ object[o].size < Cap
    /\ object' = [object EXCEPT ![o].size = @ + 1]
    /\ UNCHANGED <<owner, making, late, book, lock, op, overran, crashes>>

\* A write fails, or passes its deadline with its bytes on their way.
WriteFails(o, l) ==
    /\ Working(o) /\ object[o].size < Cap
    /\ sink' = [sink EXCEPT ![o] = "failed"]
    /\ late' = [late EXCEPT ![o] = l]
    /\ UNCHANGED <<owner, capture, object, book, lock, op, overran, crashes>>

\* finish of a failed sink: it waits once more, for one deadline.
FinishFailed(o) ==
    /\ sink[o] = "failed"
    /\ DropSink(o)
    /\ UNCHANGED <<owner, file, book, lock, op, overran, crashes>>

\* Nothing was written: the staging file goes with the sink.
Discard(o) ==
    /\ Working(o) /\ object[o].size = 0
    /\ object' = [object EXCEPT ![o] = NoFile]
    /\ DropSink(o)
    /\ UNCHANGED <<owner, late, book, lock, op, overran, crashes>>

\* Synced and renamed.  The receipt reaches the turn if that still waits.
Seal(o, told) ==
    LET c == o[1]
    IN  /\ Working(o)
        /\ told => capture[c].lease = "taken"
        /\ object' = [object EXCEPT ![o].ext = "raw"]
        /\ DropSink(o)
        /\ hand' = [hand EXCEPT ![capture[c].by] =
               IF told THEN @ \cup {[object |-> o, bytes |-> object[o].size]} ELSE @]
        /\ UNCHANGED <<owner, late, log, lock, op, overran, crashes>>

\* The sync or the rename fails, or the rename passes its deadline.
SealFails(o, l) ==
    /\ Working(o)
    /\ late' = [late EXCEPT ![o] = l]
    /\ DropSink(o)
    /\ UNCHANGED <<owner, object, book, lock, op, overran, crashes>>

\* What was late happens: to the open file, linked or not; or to the name.
Land(o) ==
    /\ late[o] # "none"
    /\ late' = [late EXCEPT ![o] = "none"]
    /\ object' = IF object[o].ext = "none" THEN object
                 ELSE IF late[o] = "write" THEN [object EXCEPT ![o].size = @ + 1]
                 ELSE [object EXCEPT ![o].ext = "raw"]
    /\ overran' = (overran \/ capture[o[1]].marker # "locked")
    /\ UNCHANGED <<owner, making, book, lock, op, crashes>>

-----------------------------------------------------------------------------
(***************************************************************************)
(* publish_captures, and the checkpoint that acknowledges it.              *)
(***************************************************************************)
Intact(r) == object[r.object] = [ext |-> "raw", size |-> r.bytes]

\* A receipt the broker has of a call with this id, of this turn or of one that
\* was dropped: published if the object is there as it says.
Verify(p, r) ==
    /\ At(p, "idle") /\ r \in hand[p]
    /\ InTurn(r.object[1]) /\ capture[r.object[1]].lease = "none"
    /\ hand' = [hand EXCEPT ![p] = @ \ {r}]
    /\ op' = [op EXCEPT ![p] = IF Intact(r)
                               THEN [Idle EXCEPT !.at = "publish", !.kept = {r},
                                                 !.on = SessionOf(r.object)]
                               ELSE Idle]
    /\ UNCHANGED <<owner, making, file, log, lock, overran, crashes>>

Publish(p) ==
    /\ At(p, "publish") /\ owner[op[p].on] = p
    /\ log' = log \cup op[p].kept
    /\ Return(p)
    /\ UNCHANGED <<owner, making, file, hand, lock, overran, crashes>>

-----------------------------------------------------------------------------
(***************************************************************************)
(* collect_garbage: under the claim and then the quota lock.               *)
(***************************************************************************)
Published(s) == {<<r.object, "raw">> : r \in {q \in log : SessionOf(q.object) = s}}

\* Wrong: a session in use is collected too.
CollectInUse(p, s) ==
    /\ At(p, "idle") /\ s \in Collects[p]
    /\ op' = [op EXCEPT ![p] = [Idle EXCEPT !.at = "sweep.lock", !.on = s,
                                            !.kept = Published(s)]]
    /\ UNCHANGED <<owner, making, file, book, lock, overran, crashes>>

\* The claim is taken and under it, so that it stands still, the log is read.
Collect(p, s) ==
    /\ At(p, "idle") /\ s \in Collects[p] /\ owner[s] = None
    /\ owner' = [owner EXCEPT ![s] = p]
    /\ op' = [op EXCEPT ![p] = [Idle EXCEPT !.at = "sweep.lock", !.on = s,
                                            !.kept = Published(s)]]
    /\ UNCHANGED <<making, file, book, lock, overran, crashes>>

\* live_lease: a marker that can be locked is a dead process's, and removed; one
\* that cannot, or cannot be opened, protects what it covers.
CheckLease(p, c) ==
    /\ At(p, "sweep.read") /\ c \in op[p].leases
    /\ IF capture[c].marker = "left"
       THEN /\ capture' = [capture EXCEPT ![c].marker = "absent"]
            /\ op' = [op EXCEPT ![p].leases = @ \ {c}]
       ELSE /\ op' = [op EXCEPT ![p].leases = @ \ {c},
                                ![p].kept = @ \cup (Of(c) \X {"partial", "raw"})]
            /\ UNCHANGED capture
    /\ UNCHANGED <<owner, sink, file, book, lock, overran, crashes>>

\* A name that is not kept is removed, if it is still there.
Remove(p, n) ==
    /\ At(p, "sweep.read") /\ op[p].leases = {} /\ n \in op[p].names
    /\ op' = [op EXCEPT ![p].names = @ \ {n}]
    /\ object' = IF n \notin op[p].kept /\ object[n[1]].ext = n[2]
                 THEN [object EXCEPT ![n[1]] = NoFile] ELSE object
    /\ UNCHANGED <<owner, making, late, book, lock, overran, crashes>>

Collected(p) ==
    /\ At(p, "sweep.read") /\ op[p].leases = {} /\ op[p].names = {}
    /\ owner' = [owner EXCEPT ![op[p].on] = None]
    /\ lock' = None
    /\ Return(p)
    /\ UNCHANGED <<making, file, book, overran, crashes>>

-----------------------------------------------------------------------------
(***************************************************************************)
(* A process dies: its locks are free and its markers stay.                *)
(***************************************************************************)
Dies(p) ==
    /\ crashes < MaxCrashes /\ crashes' = crashes + 1
    /\ owner' = [s \in Session |-> IF owner[s] = p THEN None ELSE owner[s]]
    /\ late' = [o \in Object |-> IF capture[o[1]].by = p THEN "none" ELSE late[o]]
    /\ hand' = [hand EXCEPT ![p] = {}]
    /\ lock' = IF lock = p THEN None ELSE lock
    /\ Return(p)
    /\ UNCHANGED <<log, overran>>

Crash(p) ==
    /\ Dies(p)
    /\ capture' = [c \in Capture |->
           IF capture[c].by = p
           THEN [capture[c] EXCEPT !.lease = "none",
                    !.marker = IF @ = "locked" THEN "left" ELSE @]
           ELSE capture[c]]
    /\ sink' = [o \in Object |-> IF capture[o[1]].by = p THEN "none" ELSE sink[o]]
    /\ UNCHANGED object

Next ==
    \/ \E p \in Proc, s \in Session :
         Claim(p, s) \/ Release(p, s) \/ Reserve(p, s) \/ List(p, s) \/ Collect(p, s)
    \/ \E p \in Proc :
         \/ TakeLock(p) \/ LockTimesOut(p) \/ Measure(p) \/ Refuse(p)
         \/ Publish(p) \/ Collected(p) \/ Crash(p)
         \/ \E c \in Capture : Mark(p, c) \/ Make(p, c) \/ CheckLease(p, c)
         \/ \E r \in hand[p] : Verify(p, r)
         \/ \E n \in op[p].names : Remove(p, n)
    \/ \E o \in Object :
         \/ Write(o) \/ FinishFailed(o) \/ Discard(o) \/ Land(o)
         \/ \E l \in {"none", "write"} : WriteFails(o, l)
         \/ \E l \in {"none", "rename"} : SealFails(o, l)
         \/ \E told \in BOOLEAN : Seal(o, told)
    \/ \E c \in Capture : TakeLease(c) \/ DropLease(c)

Spec == Init /\ [][Next]_vars

-----------------------------------------------------------------------------
(***************************************************************************)
(* Properties.                                                             *)
(***************************************************************************)
\* Every object a log publishes is there, finalized, with the bytes its receipt
\* states: no collection, by a process that reads the log while a turn adds to
\* it, and no late write touches it (gc.rs, publish_captures).
PublishedKept == \A r \in log : Intact(r)

\* The file of a sink is there as long as the sink, also when its turn has gone
\* and others claim the session, reserve in it and collect it (LeaseGuard).
CaptureKept == \A o \in Object : sink[o] # "none" => object[o].ext = "partial"

\* What the archives hold stays within both quotas, whatever is reserved, written
\* and collected by whom at once; unless a write or a rename nobody waits for any
\* more lands after its reservation was given back (archive.rs).
QuotaHolds ==
    overran \/ /\ Bytes(Object) <= StoreQuota
               /\ \A s \in Session : Bytes(Here(s)) <= SessionQuota
=============================================================================
