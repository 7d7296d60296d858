--------------------------- MODULE ArchiveProofs ----------------------------
(***************************************************************************)
(* Proofs about Archive: no collection takes the file of a sink, what a    *)
(* log publishes stays as its receipt says, and the quotas hold, for any   *)
(* number of processes, sessions, streams and captures, under any quota.   *)
(*                                                                         *)
(* None is inductive.  A sink is spared because its marker is locked as    *)
(* long as it is there (Sinks), because captures are made and collections  *)
(* swept under one lock (LockHeld), and because a sweep that listed the    *)
(* file also listed the marker (Sparing).  A receipt is spared because its *)
(* object is past every write, also a late one (Settled), and because who  *)
(* publishes and who sweeps both have the session's claim (Claimed).       *)
(* The quotas hold because what is owed, the cap for a locked capture's    *)
(* objects and the size of any other's, falls with every step but a grant  *)
(* (Calm), so what a reservation measured under the lock, a session at a   *)
(* time, is never too little when it is granted (Counting).                *)
(***************************************************************************)
EXTENDS Archive, FiniteSetTheorems, TLAPS

Places ==
    {"idle", "lock", "own.list", "own.read", "all.list", "all.read", "grant", "make", "publish"}
    \cup Collecting
Locked ==
    {"own.list", "own.read", "all.list", "all.read", "grant", "make", "sweep.list", "sweep.read"}

\* What the variables hold.
Files ==
    /\ owner \in [Session -> Proc \cup {None}]
    /\ capture \in [Capture ->
           [on : Session \cup {None}, by : Proc \cup {None},
            lease : {"none", "filed", "taken"}, marker : {"absent", "locked", "left"}]]
    /\ object \in [Object -> [ext : {"none", "partial", "raw"}, size : Nat]]
    /\ sink \in [Object -> {"none", "open", "failed"}]
    /\ late \in [Object -> {"none", "write", "rename"}]
Hands ==
    /\ DOMAIN hand = Proc /\ op = [p \in Proc |-> op[p]]
    /\ \A p \in Proc :
        /\ DOMAIN op[p] = DOMAIN Idle
        /\ op[p].at \in Places /\ op[p].on \in Session \cup {None} /\ op[p].call \in Nat
        /\ op[p].at # "idle" => op[p].on \in Session
Shaped == Files /\ Hands

\* Captures are measured, made and swept under the quota lock.
LockHeld == \A p \in Proc : op[p].at \in Locked => lock = p

\* Who collects a session has its claim; what its log publishes is kept.
Claimed ==
    \A p \in Proc : op[p].at \in Collecting =>
        /\ op[p].on \in Session /\ owner[op[p].on] = p
        /\ Published(op[p].on) \subseteq op[p].kept

\* A capture nobody reserved yet has nothing; the one that is made, a marker.
Blank(c) == \A o \in Of(c) : sink[o] = "none" /\ late[o] = "none"
Making ==
    /\ \A c \in Capture : capture[c].on = None => capture[c] = Unused /\ Blank(c)
    /\ \A p \in Proc : op[p].at = "make" =>
        /\ op[p].call \in Capture /\ Blank(op[p].call)
        /\ capture[op[p].call] =
             [on |-> op[p].on, by |-> p, lease |-> "none", marker |-> "locked"]

\* The files of a capture were made.
Made(c) ==
    /\ c \in Capture /\ capture[c].on # None
    /\ \A p \in Proc : op[p].at = "make" => op[p].call # c

\* A sink has its file and its share of the guard, and waits for no rename.
Sinks ==
    \A o \in Object : sink[o] # "none" =>
        /\ object[o].ext = "partial" /\ capture[o[1]].marker = "locked" /\ Made(o[1])
        /\ late[o] # "rename" /\ (sink[o] = "open" => late[o] = "none")
Filed ==
    \A c \in Capture : capture[c].lease = "filed" => capture[c].marker = "locked" /\ Made(c)

\* A receipt's object is past its writes.
Settled(r) ==
    /\ r.object \in Object /\ Made(r.object[1])
    /\ capture[r.object[1]].lease # "filed"
    /\ sink[r.object] = "none" /\ late[r.object] = "none"

Receipts ==
    /\ \A p \in Proc : \A r \in hand[p] : Settled(r) /\ capture[r.object[1]].by = p
    /\ \A r \in log : Settled(r) /\ Intact(r)
    /\ \A p \in Proc : op[p].at = "publish" =>
        /\ op[p].on \in Session /\ owner[op[p].on] = p
        /\ \A r \in op[p].kept : Settled(r) /\ Intact(r) /\ SessionOf(r.object) = op[p].on

\* A sweep works through one session, and leaves what a sink still has.
Sparing ==
    \A p \in Proc : op[p].at = "sweep.read" =>
        \A n \in op[p].names :
            /\ n[1] \in Object /\ SessionOf(n[1]) = op[p].on
            /\ n = <<n[1], n[2]>>
            /\ sink[n[1]] # "none" /\ n[2] = "partial" => n[1][1] \in op[p].leases \/ n \in op[p].kept

ArchiveInv ==
    Shaped /\ LockHeld /\ Claimed /\ Making /\ Sinks /\ Filed /\ Receipts /\ Sparing

-----------------------------------------------------------------------------
\* An object is one of its capture's.
LEMMA ObjectParts ==
    /\ \A o \in Object : o[1] \in Capture /\ o \in Of(o[1])
    /\ \A c \in Capture : \A o \in Of(c) : o \in Object /\ o[1] = c
BY DEF Object, Of

\* A guard lets go of nothing a sink still needs, and takes nothing.
LEMMA GuardIs ==
    ASSUME NEW c, NEW lease, NEW S
    PROVE  /\ Guard(c, lease, S) \in {"absent", capture[c].marker}
           /\ lease # "none" => Guard(c, lease, S) = capture[c].marker
           /\ \A o \in Of(c) : S[o] # "none" => Guard(c, lease, S) = capture[c].marker
BY DEF Guard

-----------------------------------------------------------------------------
(***************************************************************************)
(* What a call and its sinks do: one made capture changes, and its files.  *)
(***************************************************************************)
\* Objects of other captures stay as they are.
OthersStay(c) ==
    \A o \in Object : o[1] # c =>
        object'[o] = object[o] /\ sink'[o] = sink[o] /\ late'[o] = late[o]

\* The sinks a capture still has stand as Sinks says, with k for the capture.
SinksStand(c, k) ==
    \A o \in Of(c) : sink'[o] # "none" =>
        /\ sink[o] # "none" /\ object'[o].ext = "partial" /\ k.marker = "locked"
        /\ late'[o] # "rename" /\ (sink'[o] = "open" => late'[o] = "none")

\* Objects past their writes stay as they are.
SettledStay(c) ==
    \A o \in Of(c) : capture[c].lease # "filed" /\ sink[o] = "none" /\ late[o] = "none" =>
        object'[o] = object[o] /\ sink'[o] = "none" /\ late'[o] = "none"

\* Only receipts of settled objects are added.
HandsGrow ==
    /\ DOMAIN hand' = Proc
    /\ \A q \in Proc : \A r \in hand'[q] :
         r \in hand[q] \/ (Settled(r)' /\ capture'[r.object[1]].by = q)

\* A capture changes to one of the same call.
SameCall(c, k) ==
    /\ capture' = [capture EXCEPT ![c] = k]
    /\ k.on = capture[c].on /\ k.by = capture[c].by
    /\ k.lease = "filed" => capture[c].lease = "filed" /\ k.marker = "locked"

\* Such a change to a capture's files keeps everything.
LEMMA FileStep ==
    ASSUME ArchiveInv, NEW c \in Capture, Made(c), NEW k,
           UNCHANGED <<owner, lock, op, log>>, Files', SameCall(c, k),
           OthersStay(c), SinksStand(c, k), SettledStay(c), HandsGrow
    PROVE  ArchiveInv'
<1> USE DEF SameCall, OthersStay, SinksStand, SettledStay, HandsGrow
<1>1. /\ \A d \in Capture : capture'[d].on = capture[d].on /\ capture'[d].by = capture[d].by
      /\ \A d \in Capture \ {c} : capture'[d] = capture[d]
      /\ capture'[c] = k
  BY DEF ArchiveInv, Shaped, Files
<1>2. \A d \in Capture : Made(d)' <=> Made(d)
  BY <1>1 DEF Made
<1>3. \A r : Settled(r) => Settled(r)' /\ object'[r.object] = object[r.object]
                           /\ SessionOf(r.object)' = SessionOf(r.object)
                           /\ capture'[r.object[1]].by = capture[r.object[1]].by
  BY <1>1, <1>2, ObjectParts DEF Settled, SessionOf
<1>4. Shaped'
  BY DEF ArchiveInv, Shaped, Hands
<1>5. LockHeld'
  BY DEF ArchiveInv, LockHeld
<1>6. Claimed'
  <2>1. \A r \in log : SessionOf(r.object)' = SessionOf(r.object)
    BY <1>3 DEF ArchiveInv, Receipts
  <2>2. \A s : Published(s)' = Published(s)
    BY <2>1 DEF Published
  <2> QED
    BY <2>2 DEF ArchiveInv, Claimed
<1>7. Making'
  <2>1. \A d \in Capture \ {c} : Blank(d) => Blank(d)'
    BY ObjectParts DEF Blank
  <2> QED
    BY <1>1, <2>1 DEF ArchiveInv, Making, Made
<1>8. Sinks'
  <2> SUFFICES ASSUME NEW o \in Object, sink'[o] # "none"
               PROVE  /\ object'[o].ext = "partial" /\ capture'[o[1]].marker = "locked"
                      /\ Made(o[1])'
                      /\ late'[o] # "rename" /\ (sink'[o] = "open" => late'[o] = "none")
    BY DEF Sinks
  <2> QED
    BY <1>1, <1>2, ObjectParts DEF ArchiveInv, Sinks
<1>9. Filed'
  BY <1>1, <1>2 DEF ArchiveInv, Filed
<1>10. Receipts'
  <2>1. \A r : Settled(r) /\ Intact(r) => Intact(r)'
    BY <1>3 DEF Intact
  <2>2. \A q \in Proc : \A r \in hand'[q] : Settled(r)' /\ capture'[r.object[1]].by = q
    BY <1>3 DEF ArchiveInv, Receipts
  <2> QED
    BY <1>3, <2>1, <2>2 DEF ArchiveInv, Receipts
<1>11. Sparing'
  <2>1. \A o \in Object : SessionOf(o)' = SessionOf(o) /\ (sink'[o] # "none" => sink[o] # "none")
    BY <1>1, ObjectParts DEF SessionOf
  <2> QED
    BY <2>1 DEF ArchiveInv, Sparing
<1> QED
  BY <1>4, <1>5, <1>6, <1>7, <1>8, <1>9, <1>10, <1>11 DEF ArchiveInv

\* What has a lease, a sink or something late was made.
LEMMA MadeFacts ==
    ASSUME ArchiveInv
    PROVE  /\ \A c \in Capture : capture[c].lease # "none" => Made(c)
           /\ \A o \in Object : sink[o] # "none" \/ late[o] # "none" => Made(o[1])
<1>1. \A c \in Capture : ~Made(c) => Blank(c) /\ capture[c].lease = "none"
  <2> SUFFICES ASSUME NEW c \in Capture, ~Made(c)
               PROVE  Blank(c) /\ capture[c].lease = "none"
    OBVIOUS
  <2>1. CASE capture[c].on = None
    BY <2>1 DEF ArchiveInv, Making, Unused
  <2>2. CASE capture[c].on # None
    <3>1. PICK p \in Proc : op[p].at = "make" /\ op[p].call = c
      BY <2>2 DEF Made
    <3>2. Blank(op[p].call)
      BY <3>1 DEF ArchiveInv, Making
    <3>3. capture[c] = [on |-> op[p].on, by |-> p, lease |-> "none", marker |-> "locked"]
      BY <3>1 DEF ArchiveInv, Making
    <3>4. capture[c].lease = "none"
      BY <3>3
    <3> QED
      BY <3>1, <3>2, <3>4
  <2> QED
    BY <2>1, <2>2
<1> QED
  BY <1>1, ObjectParts DEF Blank

\* The command starts with its lease.
LEMMA TakeLeaseKeeps == ASSUME ArchiveInv, NEW c \in Capture, TakeLease(c) PROVE ArchiveInv'
<1> DEFINE k == [capture[c] EXCEPT !.lease = "taken"]
<1>1. /\ capture' = [capture EXCEPT ![c] = k]
      /\ UNCHANGED <<owner, sink, object, late, hand, log, lock, op>>
  BY DEF TakeLease, file, book
<1>2. Made(c)
  BY MadeFacts DEF TakeLease
<1>3. k.on = capture[c].on /\ k.by = capture[c].by /\ k.lease = "taken" /\ k.marker = capture[c].marker
  BY DEF ArchiveInv, Shaped, Files
<1>4. Files' /\ DOMAIN hand' = Proc
  <2>1. Files'
    BY ZenonT(30), <1>1 DEF ArchiveInv, Shaped, Files
  <2> QED
    BY <1>1, <2>1 DEF ArchiveInv, Shaped, Hands
<1>5. \A o \in Of(c) : sink[o] # "none" =>
          /\ object[o].ext = "partial" /\ k.marker = "locked"
          /\ late[o] # "rename" /\ (sink[o] = "open" => late[o] = "none")
  BY <1>3, ObjectParts DEF ArchiveInv, Sinks
<1> HIDE DEF k
<1> QED
  BY <1>1, <1>2, <1>3, <1>4, <1>5, FileStep DEF SameCall, OthersStay, SinksStand, SettledStay, HandsGrow

\* The call lets go of its lease, or it is discarded with its files.
LEMMA DropLeaseKeeps == ASSUME ArchiveInv, NEW c \in Capture, DropLease(c) PROVE ArchiveInv'
<1>1. UNCHANGED <<owner, late, hand, log, lock, op>>
  BY DEF DropLease, book
<1>2. Made(c)
  BY MadeFacts DEF DropLease
<1>3. CASE capture[c].lease = "taken"
  <2> DEFINE k == [capture[c] EXCEPT !.lease = "none", !.marker = Guard(c, "none", sink)]
  <2>1. capture' = [capture EXCEPT ![c] = k] /\ UNCHANGED <<sink, object>>
    BY <1>3 DEF DropLease
  <2>2. k.on = capture[c].on /\ k.by = capture[c].by /\ k.lease = "none"
        /\ k.marker = Guard(c, "none", sink)
    BY DEF ArchiveInv, Shaped, Files
  <2>3. k \in [on : Session \cup {None}, by : Proc \cup {None},
               lease : {"none", "filed", "taken"}, marker : {"absent", "locked", "left"}]
    <3>1. Guard(c, "none", sink) \in {"absent", capture[c].marker}
      BY GuardIs
    <3>2. capture[c] \in [on : Session \cup {None}, by : Proc \cup {None},
                         lease : {"none", "filed", "taken"}, marker : {"absent", "locked", "left"}]
      BY DEF ArchiveInv, Shaped, Files
    <3> QED
      BY <3>1, <3>2
  <2>4. \A o \in Of(c) : sink[o] # "none" =>
            /\ object[o].ext = "partial" /\ k.marker = "locked"
            /\ late[o] # "rename" /\ (sink[o] = "open" => late[o] = "none")
    BY <2>2, GuardIs, ObjectParts DEF ArchiveInv, Sinks
  <2> HIDE DEF k
  <2>5. Files' /\ DOMAIN hand' = Proc
    BY <1>1, <2>1, <2>3 DEF ArchiveInv, Shaped, Files, Hands
  <2> QED
    BY <1>1, <1>2, <2>1, <2>2, <2>4, <2>5, FileStep
       DEF SameCall, OthersStay, SinksStand, SettledStay, HandsGrow
<1>4. CASE capture[c].lease = "filed"
  <2> DEFINE k == [capture[c] EXCEPT !.lease = "none", !.marker = "absent"]
  <2>1. /\ capture' = [capture EXCEPT ![c] = k]
        /\ sink' = [o \in Object |-> IF o \in Of(c) THEN "none" ELSE sink[o]]
        /\ object' = [o \in Object |-> IF o \in Of(c) THEN NoFile ELSE object[o]]
    BY <1>4 DEF DropLease
  <2>2. k.on = capture[c].on /\ k.by = capture[c].by /\ k.lease = "none"
        /\ k \in [on : Session \cup {None}, by : Proc \cup {None},
                  lease : {"none", "filed", "taken"}, marker : {"absent", "locked", "left"}]
    BY ZenonT(30) DEF ArchiveInv, Shaped, Files
  <2> HIDE DEF k
  <2>3. Files' /\ DOMAIN hand' = Proc
    BY <1>1, <2>1, <2>2 DEF ArchiveInv, Shaped, Files, Hands, NoFile
  <2>4. \A o \in Object : o[1] # c => object'[o] = object[o] /\ sink'[o] = sink[o]
    BY <2>1, ObjectParts
  <2>5. \A o \in Of(c) : sink'[o] = "none"
    BY <2>1, ObjectParts
  <2> QED
    BY <1>1, <1>2, <1>4, <2>1, <2>2, <2>3, <2>4, <2>5, FileStep
       DEF SameCall, OthersStay, SinksStand, SettledStay, HandsGrow
<1> QED
  BY <1>3, <1>4 DEF DropLease

\* A sink writes, or fails to.
LEMMA WriteKeeps ==
    ASSUME ArchiveInv, NEW o \in Object,
           Write(o) \/ \E l \in {"none", "write"} : WriteFails(o, l)
    PROVE  ArchiveInv'
<1> DEFINE c == o[1]
<1>0. c \in Capture /\ sink[o] = "open" /\ late[o] = "none" /\ Made(c)
  BY ObjectParts, MadeFacts DEF Write, WriteFails, Working, ArchiveInv, Sinks
<1>1. UNCHANGED <<owner, capture, hand, log, lock, op>>
  BY DEF Write, WriteFails, making, book
<1>2. capture' = [capture EXCEPT ![c] = capture[c]] /\ DOMAIN hand' = Proc
  BY <1>0, <1>1 DEF ArchiveInv, Shaped, Files, Hands
<1>3. /\ \A x \in Object \ {o} : object'[x] = object[x] /\ sink'[x] = sink[x] /\ late'[x] = late[x]
      /\ object'[o].ext = object[o].ext /\ sink'[o] \in {"open", "failed"}
      /\ late'[o] \in {"none", "write"} /\ (sink'[o] = "open" => late'[o] = "none")
      /\ Files'
  <2>1. CASE Write(o)
    BY <1>0, <1>1, <2>1 DEF Write, making, ArchiveInv, Shaped, Files
  <2>2. CASE \E l \in {"none", "write"} : WriteFails(o, l)
    BY <1>0, <1>1, <2>2 DEF WriteFails, making, ArchiveInv, Shaped, Files
  <2> QED
    BY <2>1, <2>2
<1>4. SinksStand(c, capture[c])
  BY <1>0, <1>3, ObjectParts DEF ArchiveInv, Sinks, SinksStand
<1>5. SameCall(c, capture[c])
  BY <1>0, <1>2 DEF ArchiveInv, Filed, SameCall
<1>6. OthersStay(c)
  BY <1>3 DEF OthersStay
<1>7. SettledStay(c)
  BY <1>0, <1>3, ObjectParts DEF SettledStay
<1>8. HandsGrow
  BY <1>1, <1>2 DEF HandsGrow
<1>9. Files' /\ UNCHANGED <<owner, lock, op, log>>
  BY <1>1, <1>3
<1> HIDE DEF c
<1> QED
  BY <1>0, <1>4, <1>5, <1>6, <1>7, <1>8, <1>9, FileStep

\* A sink goes: with its file sealed, removed, or left as it is.
LEMMA SinkGoes ==
    ASSUME ArchiveInv, NEW o \in Object, sink[o] # "none", DropSink(o), Files',
           UNCHANGED <<owner, log, lock, op>>,
           \A x \in Object \ {o} : object'[x] = object[x] /\ late'[x] = late[x],
           DOMAIN hand' = Proc,
           \A q \in Proc : \A r \in hand'[q] :
               r \in hand[q]
               \/ /\ r.object = o /\ capture[o[1]].by = q
                  /\ capture[o[1]].lease # "filed" /\ late'[o] = "none"
    PROVE  ArchiveInv'
<1> DEFINE c == o[1]
           S == [sink EXCEPT ![o] = "none"]
           g == Guard(c, capture[c].lease, S)
           k == [capture[c] EXCEPT !.marker = g]
<1>0. c \in Capture /\ Made(c) /\ capture[c].marker = "locked" /\ o \in Of(c)
  BY ObjectParts, MadeFacts DEF ArchiveInv, Sinks
<1>1. capture' = [capture EXCEPT ![c] = k] /\ sink' = S
  BY DEF DropSink
<1>2. /\ k.on = capture[c].on /\ k.by = capture[c].by /\ k.lease = capture[c].lease
      /\ k.marker = g
  BY <1>0 DEF ArchiveInv, Shaped, Files
<1> HIDE DEF k
<1>3. /\ capture[c].lease # "none" => g = "locked"
      /\ \A x \in Of(c) : S[x] # "none" => g = "locked"
  <2> HIDE DEF S
  <2> QED
    BY <1>0, GuardIs
<1>4. S[o] = "none" /\ \A x \in Object \ {o} : S[x] = sink[x]
  BY DEF ArchiveInv, Shaped, Files
<1> HIDE DEF S, g
<1>5. SinksStand(c, k)
  BY <1>0, <1>1, <1>2, <1>3, <1>4, ObjectParts DEF ArchiveInv, Sinks, SinksStand
<1>6. OthersStay(c)
  BY <1>1, <1>4 DEF OthersStay
<1>7. SettledStay(c)
  BY <1>1, <1>4, ObjectParts DEF SettledStay
<1>8. SameCall(c, k)
  BY <1>0, <1>1, <1>2, <1>3 DEF ArchiveInv, Filed, SameCall
<1>9. Made(c)' /\ capture'[c] = k
  BY <1>0, <1>1, <1>2 DEF Made, ArchiveInv, Shaped, Files
<1>10. HandsGrow
  BY <1>1, <1>2, <1>4, <1>9 DEF Settled, HandsGrow
<1> HIDE DEF c
<1> QED
  BY <1>0, <1>5, <1>6, <1>7, <1>8, <1>10, FileStep

\* The ways a sink goes, all with the guard's share.
LEMMA SinkGoesKeeps ==
    ASSUME ArchiveInv, NEW o \in Object,
           \/ FinishFailed(o) \/ Discard(o)
           \/ \E told \in BOOLEAN : Seal(o, told)
           \/ \E l \in {"none", "rename"} : SealFails(o, l)
    PROVE  ArchiveInv'
<1>1. sink[o] # "none" /\ DropSink(o) /\ UNCHANGED <<owner, log, lock, op>>
  BY DEF FinishFailed, Discard, Seal, SealFails, Working, file, book
<1>2. /\ capture' \in [Capture ->
           [on : Session \cup {None}, by : Proc \cup {None},
            lease : {"none", "filed", "taken"}, marker : {"absent", "locked", "left"}]]
      /\ sink' \in [Object -> {"none", "open", "failed"}]
      /\ owner' \in [Session -> Proc \cup {None}]
  <2> DEFINE g == Guard(o[1], capture[o[1]].lease, [sink EXCEPT ![o] = "none"])
  <2>1. g \in {"absent", capture[o[1]].marker} /\ o[1] \in Capture
    BY GuardIs, ObjectParts
  <2>2. capture' = [capture EXCEPT ![o[1]].marker = g]
    BY <1>1 DEF DropSink
  <2> HIDE DEF g
  <2> QED
    BY SMTT(30), <1>1, <2>1, <2>2 DEF DropSink, ArchiveInv, Shaped, Files
<1>3. DOMAIN hand = Proc
  BY DEF ArchiveInv, Shaped, Hands
<1>4. CASE FinishFailed(o)
  <2>1. UNCHANGED <<object, late, hand>>
    BY <1>4 DEF FinishFailed, file, book
  <2>2. Files'
    BY <1>2, <2>1 DEF ArchiveInv, Shaped, Files
  <2> QED
    BY <1>1, <1>3, <2>1, <2>2, SinkGoes
<1>5. CASE Discard(o)
  <2>1. UNCHANGED <<late, hand>> /\ object' = [object EXCEPT ![o] = NoFile]
    BY <1>5 DEF Discard, book
  <2>2. Files' /\ \A x \in Object \ {o} : object'[x] = object[x]
    BY <1>2, <2>1 DEF ArchiveInv, Shaped, Files, NoFile
  <2> QED
    BY <1>1, <1>3, <2>1, <2>2, SinkGoes
<1>6. CASE \E l \in {"none", "rename"} : SealFails(o, l)
  <2>1. PICK l \in {"none", "rename"} : SealFails(o, l)
    BY <1>6
  <2>2. UNCHANGED <<object, hand>> /\ late' = [late EXCEPT ![o] = l]
    BY <2>1 DEF SealFails, book
  <2>3. Files' /\ \A x \in Object \ {o} : late'[x] = late[x]
    BY <1>2, <2>2 DEF ArchiveInv, Shaped, Files
  <2> QED
    BY <1>1, <1>3, <2>2, <2>3, SinkGoes
<1>7. CASE \E told \in BOOLEAN : Seal(o, told)
  <2>1. PICK told \in BOOLEAN : Seal(o, told)
    BY <1>7
  <2>2. object' = [object EXCEPT ![o].ext = "raw"] /\ UNCHANGED late
    BY <2>1 DEF Seal
  <2>3. Files' /\ \A x \in Object \ {o} : object'[x] = object[x]
    BY <1>2, <2>2 DEF ArchiveInv, Shaped, Files
  <2>4. capture[o[1]].lease # "filed" /\ late[o] = "none"
    BY <2>1 DEF Seal, Working, ArchiveInv, Sinks
  <2> DEFINE r == [object |-> o, bytes |-> object[o].size]
             q == capture[o[1]].by
  <2>5. /\ DOMAIN hand' = Proc
        /\ \A p \in Proc : hand'[p] = hand[p] \/ (p = q /\ hand'[p] = hand[p] \cup {r})
    BY <1>3, <2>1 DEF Seal
  <2>6. r.object = o
    OBVIOUS
  <2> HIDE DEF r, q
  <2>7. \A p \in Proc : \A x \in hand'[p] : x \in hand[p] \/ (x.object = o /\ q = p)
    BY <2>5, <2>6
  <2> QED
    BY <1>1, <2>2, <2>3, <2>4, <2>5, <2>7, SinkGoes DEF q
<1> QED
  BY <1>4, <1>5, <1>6, <1>7

\* What was late lands: on no sink's name, and on no receipt's object.
LEMMA LandKeeps == ASSUME ArchiveInv, NEW o \in Object, Land(o) PROVE ArchiveInv'
<1> DEFINE c == o[1]
<1>0. c \in Capture /\ Made(c) /\ late[o] # "none"
  BY ObjectParts, MadeFacts DEF Land
<1>1. UNCHANGED <<owner, capture, sink, hand, log, lock, op>> /\ late' = [late EXCEPT ![o] = "none"]
  BY DEF Land, making, book
<1>2. /\ \A x \in Object \ {o} : object'[x] = object[x]
      /\ object' \in [Object -> [ext : {"none", "partial", "raw"}, size : Nat]]
      /\ late[o] = "write" => object'[o].ext = object[o].ext
  <2>1. CASE object' = object
    BY <2>1 DEF ArchiveInv, Shaped, Files
  <2>2. CASE object' = [object EXCEPT ![o].size = @ + 1]
    BY <2>2 DEF ArchiveInv, Shaped, Files
  <2>3. CASE late[o] # "write" /\ object' = [object EXCEPT ![o].ext = "raw"]
    BY <2>3 DEF ArchiveInv, Shaped, Files
  <2> QED
    BY <2>1, <2>2, <2>3 DEF Land
<1>3. late' \in [Object -> {"none", "write", "rename"}] /\ late'[o] = "none"
      /\ \A x \in Object \ {o} : late'[x] = late[x]
  BY <1>1 DEF ArchiveInv, Shaped, Files
<1>4. Files'
  BY <1>1, <1>2, <1>3 DEF ArchiveInv, Shaped, Files
<1>5. SameCall(c, capture[c])
  BY <1>0, <1>1 DEF ArchiveInv, Shaped, Files, Filed, SameCall
<1>6. OthersStay(c)
  BY <1>1, <1>2, <1>3 DEF OthersStay
<1>7. SettledStay(c)
  BY <1>0, <1>1, <1>2, <1>3, ObjectParts DEF SettledStay
<1>8. SinksStand(c, capture[c])
  <2>1. sink[o] # "none" => late[o] = "write"
    BY <1>0 DEF ArchiveInv, Sinks, Shaped, Files
  <2> QED
    BY <1>0, <1>1, <1>2, <1>3, <2>1, ObjectParts DEF ArchiveInv, Sinks, SinksStand
<1>9. HandsGrow /\ UNCHANGED <<owner, lock, op, log>>
  BY <1>1 DEF ArchiveInv, Shaped, Hands, HandsGrow
<1> HIDE DEF c
<1> QED
  BY <1>0, <1>4, <1>5, <1>6, <1>7, <1>8, <1>9, FileStep

-----------------------------------------------------------------------------
(***************************************************************************)
(* What a process does without touching a file.                            *)
(***************************************************************************)
\* What a process may go on to.
Proper(p, t) ==
    /\ DOMAIN t = DOMAIN Idle
    /\ t.at \in Places /\ t.on \in Session \cup {None} /\ t.call \in Nat
    /\ t.at # "idle" => t.on \in Session
    /\ t.at = "make" => op[p].at = "make" /\ t.call = op[p].call /\ t.on = op[p].on
    /\ t.at \in Locked => lock' = p
    /\ t.at \in Collecting =>
         t.on \in Session /\ owner'[t.on] = p /\ Published(t.on) \subseteq t.kept
    /\ t.at = "publish" =>
         /\ t.on \in Session /\ owner'[t.on] = p
         /\ \A r \in t.kept : Settled(r) /\ Intact(r) /\ SessionOf(r.object) = t.on
    /\ t.at = "sweep.read" =>
         \A n \in t.names :
            /\ n[1] \in Object /\ SessionOf(n[1]) = t.on
            /\ n = <<n[1], n[2]>>
            /\ sink[n[1]] # "none" /\ n[2] = "partial" => n[1][1] \in t.leases \/ n \in t.kept

\* What the others have of the lock and of the claims is theirs.
OthersHold(p) ==
    /\ owner' \in [Session -> Proc \cup {None}]
    /\ \A q \in Proc \ {p} :
        /\ op[q].at \in Locked => lock' = q
        /\ op[q].at \in Collecting \cup {"publish"} => owner'[op[q].on] = q

\* Such a step leaves everything else as it was.
LEMMA OpStep ==
    ASSUME ArchiveInv, NEW p \in Proc, NEW t,
           UNCHANGED <<capture, object, sink, late>>, log' = log,
           op' = [op EXCEPT ![p] = t], Proper(p, t), OthersHold(p),
           DOMAIN hand' = Proc, \A q \in Proc : hand'[q] \subseteq hand[q]
    PROVE  ArchiveInv'
<1>1. op'[p] = t /\ \A q \in Proc \ {p} : op'[q] = op[q]
  BY DEF ArchiveInv, Shaped, Hands
<1>2. DOMAIN op' = Proc
  BY DEF ArchiveInv, Shaped, Hands
<1>3. /\ \A c : Made(c) => Made(c)'
      /\ \A r : Settled(r) => Settled(r)'
      /\ \A r : Intact(r)' = Intact(r)
      /\ \A o : SessionOf(o)' = SessionOf(o)
      /\ \A s : Published(s)' = Published(s)
  <2>1. \A c : Made(c) => Made(c)'
    BY <1>1 DEF Made, Proper
  <2>2. \A o : SessionOf(o)' = SessionOf(o)
    BY DEF SessionOf
  <2>3. \A s : Published(s)' = Published(s)
    BY <2>2 DEF Published
  <2> QED
    BY <2>1, <2>2, <2>3 DEF Settled, Intact
<1>4. Shaped'
  BY <1>1, <1>2 DEF ArchiveInv, Shaped, Files, Hands, Proper, OthersHold
<1>5. LockHeld'
  BY <1>1 DEF ArchiveInv, LockHeld, Proper, OthersHold
<1>6. Claimed'
  BY <1>1, <1>3 DEF ArchiveInv, Claimed, Proper, OthersHold
<1>7. Making'
  <2>1. \A c : Blank(c)' = Blank(c)
    BY DEF Blank
  <2> QED
    BY <1>1, <2>1 DEF ArchiveInv, Making, Proper
<1>8. Sinks' /\ Filed'
  BY <1>3 DEF ArchiveInv, Sinks, Filed
<1>9. Receipts'
  BY <1>1, <1>3 DEF ArchiveInv, Receipts, Proper, OthersHold
<1>10. Sparing'
  BY <1>1, <1>3 DEF ArchiveInv, Sparing, Proper
<1> QED
  BY <1>4, <1>5, <1>6, <1>7, <1>8, <1>9, <1>10 DEF ArchiveInv

\* Nobody who holds something loses it where only free things are taken, or
\* things are given back by who had them.
LEMMA HoldFacts ==
    ASSUME ArchiveInv, NEW p \in Proc,
           owner' \in [Session -> Proc \cup {None}],
           lock' = lock \/ lock = None \/ op[p].at \in Locked,
           \A s \in Session : owner'[s] = owner[s] \/ owner[s] = None \/ owner[s] = p
    PROVE  OthersHold(p)
<1>1. \A q \in Proc \ {p} : op[q].at \in Locked => lock' = q
  BY NoneAssumption DEF ArchiveInv, LockHeld
<1>2. \A q \in Proc \ {p} : op[q].at \in Collecting \cup {"publish"} =>
          op[q].on \in Session /\ owner[op[q].on] = q
  BY DEF ArchiveInv, Claimed, Receipts
<1>3. \A q \in Proc \ {p} : op[q].at \in Collecting \cup {"publish"} => owner'[op[q].on] = q
  BY <1>2, NoneAssumption
<1> QED
  BY <1>1, <1>3 DEF OthersHold

\* An idle process is one that may be.
LEMMA IdleProper == \A p : Proper(p, Idle)
BY DEF Proper, Idle, Places, Locked, Collecting

\* A session nobody has is claimed.
LEMMA ClaimKeeps == ASSUME ArchiveInv, NEW p \in Proc, NEW s \in Session, Claim(p, s) PROVE ArchiveInv'
<1>1. /\ op' = [op EXCEPT ![p] = op[p]] /\ owner' = [owner EXCEPT ![s] = p]
      /\ UNCHANGED <<capture, object, sink, late, hand, log, lock, op>>
  BY DEF Claim, making, file, book, ArchiveInv, Shaped, Hands
<1>2. owner' \in [Session -> Proc \cup {None}]
      /\ \A x \in Session : owner'[x] = owner[x] \/ owner[x] = None
  BY <1>1 DEF Claim, ArchiveInv, Shaped, Files
<1>3. OthersHold(p)
  BY <1>1, <1>2, HoldFacts
<1>4. Proper(p, op[p])
  <2>1. op[p].at \in Collecting \cup {"publish"} => op[p].on \in Session /\ owner[op[p].on] = p
    BY DEF ArchiveInv, Claimed, Receipts
  <2>2. op[p].at \in Collecting \cup {"publish"} => owner'[op[p].on] = p
    BY <1>2, <2>1, NoneAssumption
  <2> QED
    BY <1>1, <2>1, <2>2
       DEF Proper, ArchiveInv, Shaped, Hands, LockHeld, Claimed, Receipts, Sparing
<1>5. DOMAIN hand' = Proc /\ \A q \in Proc : hand'[q] \subseteq hand[q]
  BY <1>1 DEF ArchiveInv, Shaped, Hands
<1> QED
  BY <1>1, <1>3, <1>4, <1>5, OpStep

\* A step of p's operation that touches no file and no claim.
LEMMA PlainStep ==
    ASSUME ArchiveInv, NEW p \in Proc, NEW t,
           UNCHANGED <<owner, capture, object, sink, late, hand, log>>,
           lock' = lock \/ lock = None \/ op[p].at \in Locked,
           op' = [op EXCEPT ![p] = t], Proper(p, t)
    PROVE  ArchiveInv'
<1>1. owner' \in [Session -> Proc \cup {None}] /\ \A s \in Session : owner'[s] = owner[s]
  BY DEF ArchiveInv, Shaped, Files
<1>2. OthersHold(p)
  BY <1>1, HoldFacts
<1>3. DOMAIN hand' = Proc /\ \A q \in Proc : hand'[q] \subseteq hand[q]
  BY DEF ArchiveInv, Shaped, Hands
<1> QED
  BY <1>2, <1>3, OpStep

\* A reservation is asked for, gets the lock, measures, and is refused.
LEMMA ReserveKeeps ==
    ASSUME ArchiveInv, NEW p \in Proc,
           \/ \E s \in Session : Reserve(p, s)
           \/ TakeLock(p) \/ Measure(p) \/ (Refuse(p) /\ At(p, "grant"))
    PROVE  ArchiveInv'
<1> USE DEF At
<1>0. /\ op[p].at \in Places /\ DOMAIN op[p] = DOMAIN Idle
      /\ op[p].on \in Session \cup {None} /\ op[p].call \in Nat
      /\ op[p].at # "idle" => op[p].on \in Session
  BY DEF ArchiveInv, Shaped, Hands
<1>1. CASE \E s \in Session : Reserve(p, s)
  <2>1. PICK s \in Session : Reserve(p, s)
    BY <1>1
  <2> DEFINE t == [Idle EXCEPT !.at = "lock", !.on = s]
  <2>2. Proper(p, t)
    BY DEF Proper, Idle, Places, Locked, Collecting
  <2> HIDE DEF t
  <2>3. op' = [op EXCEPT ![p] = t] /\ UNCHANGED <<owner, capture, object, sink, late, hand, log, lock>>
    BY <2>1 DEF Reserve, making, file, book, t
  <2> QED
    BY <2>2, <2>3, PlainStep
<1>2. CASE TakeLock(p)
  <2> DEFINE t(step) == [op[p] EXCEPT !.at = step]
  <2>1. lock = None /\ lock' = p /\ UNCHANGED <<owner, capture, object, sink, late, hand, log>>
    BY <1>2 DEF TakeLock, making, file, book
  <2>2. PICK step \in {"own.list", "sweep.list"} :
          /\ op' = [op EXCEPT ![p] = t(step)]
          /\ op[p].at = (IF step = "own.list" THEN "lock" ELSE "sweep.lock")
    BY <1>2 DEF TakeLock, Go
  <2>3. Proper(p, t(step))
    <3>1. /\ DOMAIN t(step) = DOMAIN Idle /\ t(step).at = step
          /\ t(step).on = op[p].on /\ t(step).call = op[p].call /\ t(step).kept = op[p].kept
      BY <1>0 DEF Idle
    <3>2. step = "sweep.list" =>
            op[p].on \in Session /\ owner[op[p].on] = p /\ Published(op[p].on) \subseteq op[p].kept
      BY <2>2 DEF ArchiveInv, Claimed, Collecting
    <3> HIDE DEF t
    <3> QED
      BY <1>0, <2>1, <2>2, <3>1, <3>2 DEF Proper, Places, Locked, Collecting
  <2> HIDE DEF t
  <2> QED
    BY <2>1, <2>2, <2>3, PlainStep
<1>3. CASE Measure(p)
  <2>1. PICK t : /\ op' = [op EXCEPT ![p] = t] /\ DOMAIN t = DOMAIN Idle
                 /\ t.at \in {"all.list", "grant"} /\ t.on = op[p].on /\ t.call = op[p].call
    <3> DEFINE usage == Usage(op[p].leases, op[p].names)
               read  == [op[p] EXCEPT !.leases = {}, !.names = {}]
               t == CASE At(p, "own.read") ->
                           [read EXCEPT !.at = "all.list", !.left = Session, !.own = usage]
                      [] At(p, "all.read") /\ op[p].left # {} ->
                           [read EXCEPT !.at = "all.list", !.total = read.total + usage]
                      [] OTHER ->
                           [read EXCEPT !.at = "grant", !.total = read.total + usage]
    <3>1. DOMAIN read = DOMAIN Idle /\ read.on = op[p].on /\ read.call = op[p].call
      BY <1>0 DEF Idle
    <3>2. op' = [op EXCEPT ![p] = t]
      BY <1>3 DEF Measure
    <3>3. /\ DOMAIN t = DOMAIN Idle /\ t.at \in {"all.list", "grant"}
          /\ t.on = op[p].on /\ t.call = op[p].call
      <4> HIDE DEF usage, read
      <4> QED
        BY <3>1 DEF Idle
    <3> HIDE DEF t
    <3> QED
      BY <3>2, <3>3
  <2>2. /\ UNCHANGED <<owner, capture, object, sink, late, hand, log, lock>>
        /\ op[p].at \in {"own.read", "all.read"}
    BY <1>3 DEF Measure, making, file, book
  <2>3. lock' = p
    BY <2>2 DEF ArchiveInv, LockHeld, Locked
  <2>4. Proper(p, t)
    BY <1>0, <2>1, <2>2, <2>3 DEF Proper, Places, Locked, Collecting
  <2> QED
    BY <2>1, <2>2, <2>4, PlainStep
<1>4. CASE Refuse(p) /\ At(p, "grant")
  <2>1. /\ op' = [op EXCEPT ![p] = Idle] /\ op[p].at \in Locked
        /\ UNCHANGED <<owner, capture, object, sink, late, hand, log>>
    BY <1>4 DEF Refuse, Return, file, book, Locked
  <2> QED
    BY <2>1, IdleProper, PlainStep
<1> QED
  BY <1>1, <1>2, <1>3, <1>4

\* A listing has every name and every marker of its archive.
LEMMA ListKeeps == ASSUME ArchiveInv, NEW p \in Proc, NEW s \in Session, List(p, s) PROVE ArchiveInv'
<1> USE DEF At
<1>0. /\ op[p].at \in Places /\ DOMAIN op[p] = DOMAIN Idle
      /\ op[p].on \in Session \cup {None} /\ op[p].call \in Nat
      /\ op[p].at # "idle" => op[p].on \in Session
  BY DEF ArchiveInv, Shaped, Hands
<1>1. /\ UNCHANGED <<owner, capture, object, sink, late, hand, log, lock>>
      /\ op[p].at \in Locked
  BY DEF List, making, file, book, Locked
<1> DEFINE t(step) == [op[p] EXCEPT !.at = step, !.left = op[p].left \ {s},
                                    !.leases = Markers(s), !.names = Names(s)]
<1>2. PICK step \in {"own.read", "all.read", "sweep.read"} :
        /\ op' = [op EXCEPT ![p] = t(step)]
        /\ step = "sweep.read" => op[p].at = "sweep.list" /\ s = op[p].on
  BY DEF List, Listed
<1>3. /\ DOMAIN t(step) = DOMAIN Idle /\ t(step).at = step
      /\ t(step).on = op[p].on /\ t(step).call = op[p].call /\ t(step).kept = op[p].kept
      /\ t(step).leases = Markers(s) /\ t(step).names = Names(s)
  BY <1>0 DEF Idle
<1>4. step = "sweep.read" =>
        op[p].on \in Session /\ owner[op[p].on] = p /\ Published(op[p].on) \subseteq op[p].kept
  BY <1>2 DEF ArchiveInv, Claimed, Collecting
<1>5. \A n \in Names(s) :
        /\ n[1] \in Object /\ SessionOf(n[1]) = s
        /\ n = <<n[1], n[2]>>
        /\ sink[n[1]] # "none" => n[1][1] \in Markers(s)
  <2> SUFFICES ASSUME NEW o \in Here(s)
               PROVE  /\ o \in Object /\ SessionOf(o) = s
                      /\ sink[o] # "none" => o[1] \in Markers(s)
    BY DEF Names
  <2> QED
    BY ObjectParts DEF Here, Markers, SessionOf, ArchiveInv, Sinks
<1>6. lock' = p
  BY <1>1 DEF ArchiveInv, LockHeld
<1> HIDE DEF t
<1>7. Proper(p, t(step))
  BY <1>0, <1>1, <1>2, <1>3, <1>4, <1>5, <1>6 DEF Proper, Places, Locked, Collecting
<1> QED
  BY <1>1, <1>2, <1>7, PlainStep

\* A lock that is not free in time ends an operation.
LEMMA LockTimesOutKeeps == ASSUME ArchiveInv, NEW p \in Proc, LockTimesOut(p) PROVE ArchiveInv'
<1>1. /\ op' = [op EXCEPT ![p] = Idle]
      /\ UNCHANGED <<capture, object, sink, late, hand, log, lock>>
  BY DEF LockTimesOut, Return, making, file, book
<1>2. owner' \in [Session -> Proc \cup {None}]
      /\ \A s \in Session : owner'[s] = owner[s] \/ owner[s] = p
  BY DEF LockTimesOut, At, ArchiveInv, Shaped, Files, Claimed, Collecting
<1>3. OthersHold(p)
  BY <1>1, <1>2, HoldFacts
<1>4. DOMAIN hand' = Proc /\ \A q \in Proc : hand'[q] \subseteq hand[q]
  BY <1>1 DEF ArchiveInv, Shaped, Hands
<1> QED
  BY <1>1, <1>3, <1>4, IdleProper, OpStep

\* A collection begins with the claim and what the log publishes.
LEMMA CollectKeeps == ASSUME ArchiveInv, NEW p \in Proc, NEW s \in Session, Collect(p, s) PROVE ArchiveInv'
<1> DEFINE t == [Idle EXCEPT !.at = "sweep.lock", !.on = s, !.kept = Published(s)]
<1>1. /\ op' = [op EXCEPT ![p] = t] /\ owner' = [owner EXCEPT ![s] = p] /\ owner[s] = None
      /\ UNCHANGED <<capture, object, sink, late, hand, log, lock>>
  BY DEF Collect, making, file, book
<1>2. owner' \in [Session -> Proc \cup {None}] /\ owner'[s] = p
      /\ \A x \in Session : owner'[x] = owner[x] \/ owner[x] = None
  BY <1>1 DEF ArchiveInv, Shaped, Files
<1>3. OthersHold(p)
  BY <1>1, <1>2, HoldFacts
<1>4. Proper(p, t)
  BY <1>2 DEF Proper, Idle, Places, Locked, Collecting
<1>5. DOMAIN hand' = Proc /\ \A q \in Proc : hand'[q] \subseteq hand[q]
  BY <1>1 DEF ArchiveInv, Shaped, Hands
<1> HIDE DEF t
<1> QED
  BY <1>1, <1>3, <1>4, <1>5, OpStep

\* A collection ends, and gives back its claim and the lock.
LEMMA CollectedKeeps == ASSUME ArchiveInv, NEW p \in Proc, Collected(p) PROVE ArchiveInv'
<1>1. /\ op' = [op EXCEPT ![p] = Idle] /\ owner' = [owner EXCEPT ![op[p].on] = None]
      /\ UNCHANGED <<capture, object, sink, late, hand, log>> /\ op[p].at = "sweep.read"
  BY DEF Collected, Return, At, making, file, book
<1>2. owner[op[p].on] = p
  BY <1>1 DEF ArchiveInv, Claimed, Collecting
<1>3. owner' \in [Session -> Proc \cup {None}]
      /\ \A s \in Session : owner'[s] = owner[s] \/ owner[s] = p
  BY <1>1, <1>2 DEF ArchiveInv, Shaped, Files
<1>4. OthersHold(p)
  BY <1>1, <1>3, HoldFacts DEF Locked
<1>5. DOMAIN hand' = Proc /\ \A q \in Proc : hand'[q] \subseteq hand[q]
  BY <1>1 DEF ArchiveInv, Shaped, Hands
<1> QED
  BY <1>1, <1>4, <1>5, IdleProper, OpStep

\* A receipt is looked at again before it is published.
LEMMA VerifyKeeps ==
    ASSUME ArchiveInv, NEW p \in Proc, NEW r \in hand[p], Verify(p, r) PROVE ArchiveInv'
<1> DEFINE t == [Idle EXCEPT !.at = "publish", !.kept = {r}, !.on = SessionOf(r.object)]
           c == r.object[1]
<1>1. /\ UNCHANGED <<owner, capture, object, sink, late, log, lock>>
      /\ hand' = [hand EXCEPT ![p] = @ \ {r}] /\ InTurn(c)
      /\ op' = [op EXCEPT ![p] = IF Intact(r) THEN t ELSE Idle]
  BY DEF Verify, making, file
<1>2. Settled(r) /\ capture[c].by = p
  BY DEF ArchiveInv, Receipts
<1>3. SessionOf(r.object) \in Session /\ owner[SessionOf(r.object)] = p
  BY <1>1, <1>2 DEF SessionOf, InTurn, Settled, Made, ArchiveInv, Shaped, Files
<1>4. Intact(r) => Proper(p, t)
  <2>1. /\ t.at = "publish" /\ t.kept = {r} /\ t.on = SessionOf(r.object) /\ t.call = 0
        /\ DOMAIN t = DOMAIN Idle
    BY DEF Idle
  <2> HIDE DEF t, c
  <2> QED
    BY <1>1, <1>2, <1>3, <2>1 DEF Proper, Places, Locked, Collecting
<1>5. owner' \in [Session -> Proc \cup {None}] /\ \A s \in Session : owner'[s] = owner[s]
  BY <1>1 DEF ArchiveInv, Shaped, Files
<1>6. OthersHold(p)
  BY <1>1, <1>5, HoldFacts
<1>7. DOMAIN hand' = Proc /\ \A q \in Proc : hand'[q] \subseteq hand[q]
  BY <1>1 DEF ArchiveInv, Shaped, Hands
<1> HIDE DEF t
<1> QED
  BY <1>1, <1>4, <1>6, <1>7, IdleProper, OpStep

-----------------------------------------------------------------------------
(***************************************************************************)
(* Letting go: of leases, sinks, markers and receipts, but of no file.     *)
(***************************************************************************)
Records ==
    [on : Session \cup {None}, by : Proc \cup {None},
     lease : {"none", "filed", "taken"}, marker : {"absent", "locked", "left"}]

\* No capture gains anything, and those that keep a sink or a lease keep the
\* marker with it.
LessHeld ==
    /\ capture' \in [Capture -> Records]
    /\ sink' \in [Object -> {"none", "open", "failed"}]
    /\ late' \in [Object -> {"none", "write", "rename"}]
    /\ \A d \in Capture :
        /\ capture'[d].on = capture[d].on /\ capture'[d].by = capture[d].by
        /\ capture'[d].lease \in {capture[d].lease, "none"}
        /\ capture'[d].lease = "filed" => capture'[d].marker = "locked"
        /\ capture[d].on = None => capture'[d] = capture[d]
    /\ \A o \in Object :
        /\ sink'[o] \in {sink[o], "none"} /\ late'[o] \in {late[o], "none"}
        /\ sink'[o] # "none" => capture'[o[1]].marker = "locked"
    /\ \A q \in Proc : op'[q].at = "make" => capture'[op'[q].call] = capture[op'[q].call]

\* Letting go takes nothing from who keeps it.
LEMMA LetGo ==
    ASSUME ArchiveInv, NEW p \in Proc, NEW t,
           UNCHANGED object, log' = log, LessHeld,
           op' = [op EXCEPT ![p] = t], Proper(p, t), OthersHold(p),
           DOMAIN hand' = Proc, \A q \in Proc : hand'[q] \subseteq hand[q]
    PROVE  ArchiveInv'
<1>1. op'[p] = t /\ \A q \in Proc \ {p} : op'[q] = op[q]
  BY DEF ArchiveInv, Shaped, Hands
<1>2. \A c : Made(c) => Made(c)'
  BY <1>1 DEF Made, Proper, LessHeld
<1>3. \A o \in Object : SessionOf(o)' = SessionOf(o)
  BY ObjectParts DEF SessionOf, LessHeld
<1>4. /\ \A r : Intact(r)' = Intact(r)
      /\ \A r : Settled(r) => /\ Settled(r)' /\ SessionOf(r.object)' = SessionOf(r.object)
                              /\ capture'[r.object[1]].by = capture[r.object[1]].by
  BY <1>2, <1>3 DEF Settled, Intact, Made, LessHeld
<1>5. \A s : Published(s)' = Published(s)
  <2>1. \A r \in log : SessionOf(r.object)' = SessionOf(r.object)
    BY <1>4 DEF ArchiveInv, Receipts
  <2> QED
    BY <2>1 DEF Published
<1>6. Shaped'
  <2>1. Files'
    BY DEF ArchiveInv, Shaped, Files, LessHeld, Records, OthersHold
  <2> QED
    BY <1>1, <2>1 DEF ArchiveInv, Shaped, Hands, Proper
<1>7. LockHeld'
  BY <1>1 DEF ArchiveInv, LockHeld, Proper, OthersHold
<1>8. Claimed'
  BY <1>1, <1>5 DEF ArchiveInv, Claimed, Proper, OthersHold
<1>9. Making'
  <2>1. \A c \in Capture : Blank(c) => Blank(c)'
    BY ObjectParts DEF Blank, LessHeld
  <2>2. \A q \in Proc : op'[q].at = "make" =>
            op[q].at = "make" /\ op'[q].call = op[q].call /\ op'[q].on = op[q].on
    BY <1>1 DEF Proper
  <2>3. \A c \in Capture : capture'[c].on = None => capture'[c] = Unused /\ Blank(c)'
    BY <2>1 DEF ArchiveInv, Making, LessHeld
  <2> QED
    BY <2>1, <2>2, <2>3 DEF ArchiveInv, Making, LessHeld
<1>10. Sinks'
  BY <1>2 DEF ArchiveInv, Sinks, LessHeld
<1>11. Filed'
  BY <1>2 DEF ArchiveInv, Filed, LessHeld
<1>12. Receipts'
  <2>1. \A q \in Proc : \A r \in hand'[q] : Settled(r)' /\ capture'[r.object[1]].by = q
    BY <1>4 DEF ArchiveInv, Receipts
  <2> QED
    BY <1>1, <1>4, <2>1 DEF ArchiveInv, Receipts, Proper, OthersHold
<1>13. Sparing'
  BY <1>1, <1>3 DEF ArchiveInv, Sparing, Proper, LessHeld
<1> QED
  BY <1>6, <1>7, <1>8, <1>9, <1>10, <1>11, <1>12, <1>13 DEF ArchiveInv

\* What is known of a capture while it is made.
LEMMA CallFacts ==
    ASSUME ArchiveInv, NEW q \in Proc, op[q].at = "make"
    PROVE  LET c == op[q].call IN
           /\ c \in Capture /\ Blank(c)
           /\ capture[c].on = op[q].on /\ capture[c].by = q
           /\ capture[c].lease = "none" /\ capture[c].marker = "locked"
<1>1. /\ op[q].call \in Capture /\ Blank(op[q].call)
      /\ capture[op[q].call] = [on |-> op[q].on, by |-> q, lease |-> "none", marker |-> "locked"]
  BY DEF ArchiveInv, Making
<1> QED
  BY <1>1

\* A turn is over or dropped: its leases go, its sinks keep their markers.
LEMMA ReleaseKeeps == ASSUME ArchiveInv, NEW p \in Proc, NEW s \in Session, Release(p, s) PROVE ArchiveInv'
<1>1. /\ owner' = [owner EXCEPT ![s] = None] /\ owner[s] = p
      /\ UNCHANGED <<sink, object, late, hand, log, lock>>
      /\ ~(op[p].on = s /\ op[p].at \in Collecting)
  BY DEF Release, At, file, book
<1>2. capture' \in [Capture -> Records]
      /\ \A c \in Capture :
            \/ capture'[c] = capture[c]
            \/ /\ capture[c].lease = "taken" /\ capture[c].on = s
               /\ capture'[c].on = capture[c].on /\ capture'[c].by = capture[c].by
               /\ capture'[c].lease = "none"
               /\ \A o \in Of(c) : sink[o] # "none" => capture'[c].marker = capture[c].marker
  <2> DEFINE Drops(c) == capture[c].on = s /\ capture[c].by = p /\ capture[c].lease = "taken"
             g(c) == Guard(c, "none", sink)
  <2>1. capture' = [c \in Capture |->
           IF Drops(c) THEN [capture[c] EXCEPT !.lease = "none", !.marker = g(c)] ELSE capture[c]]
    BY DEF Release
  <2>2. \A c \in Capture : /\ g(c) \in {"absent", capture[c].marker}
                           /\ \A o \in Of(c) : sink[o] # "none" => g(c) = capture[c].marker
    BY GuardIs
  <2>3. capture \in [Capture -> Records]
    BY DEF ArchiveInv, Shaped, Files, Records
  <2> HIDE DEF g
  <2> QED
    BY ZenonT(30), <2>1, <2>2, <2>3 DEF Records
<1>3. LessHeld
  <2>1. \A c \in Capture : capture[c].on = None => capture'[c] = capture[c]
    BY <1>2, NoneAssumption
  <2>2. \A o \in Object : sink'[o] # "none" => capture'[o[1]].marker = "locked"
    BY <1>1, <1>2, ObjectParts DEF ArchiveInv, Sinks
  <2>3. \A c \in Capture : /\ capture'[c].on = capture[c].on /\ capture'[c].by = capture[c].by
                           /\ capture'[c].lease \in {capture[c].lease, "none"}
                           /\ capture'[c].lease = "filed" => capture'[c].marker = "locked"
    BY <1>2 DEF ArchiveInv, Filed
  <2>4. \A q \in Proc : op[q].at = "make" => capture'[op[q].call] = capture[op[q].call]
    BY <1>2, CallFacts
  <2>5. \A q \in Proc : op'[q].at = "make" => op[q].at = "make" /\ op'[q].call = op[q].call
    BY DEF Release, At, Idle, ArchiveInv, Shaped, Hands
  <2>6. /\ sink' \in [Object -> {"none", "open", "failed"}]
        /\ late' \in [Object -> {"none", "write", "rename"}]
    BY <1>1 DEF ArchiveInv, Shaped, Files
  <2>7. \A q \in Proc : op'[q].at = "make" => capture'[op'[q].call] = capture[op'[q].call]
    BY <2>4, <2>5
  <2> QED
    BY <1>1, <1>2, <2>1, <2>2, <2>3, <2>6, <2>7 DEF LessHeld
<1>4. /\ owner' \in [Session -> Proc \cup {None}]
      /\ \A x \in Session : owner'[x] = owner[x] \/ owner[x] = p
      /\ \A x \in Session \ {s} : owner'[x] = owner[x]
  BY <1>1 DEF ArchiveInv, Shaped, Files
<1>5. OthersHold(p)
  BY <1>1, <1>4, HoldFacts
<1>6. DOMAIN hand' = Proc /\ \A q \in Proc : hand'[q] \subseteq hand[q]
  BY <1>1 DEF ArchiveInv, Shaped, Hands
<1>7. CASE op[p].on = s /\ op[p].at = "publish"
  <2>1. op' = [op EXCEPT ![p] = Idle]
    BY <1>7 DEF Release, At
  <2> QED
    BY <1>1, <1>3, <1>5, <1>6, <2>1, IdleProper, LetGo
<1>8. CASE ~(op[p].on = s /\ op[p].at = "publish")
  <2> DEFINE t == IF op[p].on = s THEN [op[p] EXCEPT !.gone = TRUE] ELSE op[p]
  <2>1. op' = [op EXCEPT ![p] = t]
    BY <1>8 DEF Release, At, ArchiveInv, Shaped, Hands
  <2>2. /\ DOMAIN t = DOMAIN Idle /\ t.at = op[p].at /\ t.on = op[p].on /\ t.call = op[p].call
        /\ t.kept = op[p].kept /\ t.names = op[p].names /\ t.leases = op[p].leases
    BY DEF ArchiveInv, Shaped, Hands, Idle
  <2>3. op[p].at \in Collecting \cup {"publish"} =>
          op[p].on \in Session /\ owner'[op[p].on] = p
    BY <1>1, <1>4, <1>8 DEF ArchiveInv, Claimed, Receipts
  <2> HIDE DEF t
  <2>4. Proper(p, t)
    BY <1>1, <2>2, <2>3 DEF Proper, ArchiveInv, Shaped, Hands, LockHeld, Claimed, Receipts, Sparing
  <2> QED
    BY <1>1, <1>3, <1>5, <1>6, <2>1, <2>4, LetGo
<1> QED
  BY <1>7, <1>8

\* A process dies: what it had is let go, and its markers are left.
LEMMA CrashKeeps == ASSUME ArchiveInv, NEW p \in Proc, Crash(p) PROVE ArchiveInv'
<1>1. /\ owner' = [s \in Session |-> IF owner[s] = p THEN None ELSE owner[s]]
      /\ late' = [o \in Object |-> IF capture[o[1]].by = p THEN "none" ELSE late[o]]
      /\ sink' = [o \in Object |-> IF capture[o[1]].by = p THEN "none" ELSE sink[o]]
      /\ hand' = [hand EXCEPT ![p] = {}]
      /\ lock' = IF lock = p THEN None ELSE lock
      /\ op' = [op EXCEPT ![p] = Idle]
      /\ UNCHANGED <<object, log>>
  BY DEF Crash, Dies, Return
<1>2. capture' \in [Capture -> Records]
      /\ \A c \in Capture :
            IF capture[c].by = p
            THEN /\ capture'[c].on = capture[c].on /\ capture'[c].by = p
                 /\ capture'[c].lease = "none"
            ELSE capture'[c] = capture[c]
  <2>1. capture \in [Capture -> Records]
    BY DEF ArchiveInv, Shaped, Files, Records
  <2> QED
    BY <2>1 DEF Crash, Records
<1>3. \A c \in Capture : capture[c].on = None => capture[c].by # p
  BY NoneAssumption DEF ArchiveInv, Making, Unused
<1>4. LessHeld
  <2>1. \A o \in Object : sink'[o] # "none" => capture'[o[1]].marker = "locked"
    BY <1>1, <1>2, ObjectParts DEF ArchiveInv, Sinks
  <2>2. \A c \in Capture : /\ capture'[c].on = capture[c].on /\ capture'[c].by = capture[c].by
                           /\ capture'[c].lease \in {capture[c].lease, "none"}
                           /\ capture'[c].lease = "filed" => capture'[c].marker = "locked"
                           /\ capture[c].on = None => capture'[c] = capture[c]
    BY <1>2, <1>3 DEF ArchiveInv, Filed
  <2>3. \A q \in Proc : op'[q].at = "make" => q # p /\ op'[q] = op[q]
    BY <1>1 DEF Idle, ArchiveInv, Shaped, Hands
  <2>4. \A q \in Proc : op'[q].at = "make" => capture'[op'[q].call] = capture[op'[q].call]
    BY <1>2, <2>3, CallFacts
  <2>5. /\ sink' \in [Object -> {"none", "open", "failed"}]
        /\ late' \in [Object -> {"none", "write", "rename"}]
        /\ \A o \in Object : sink'[o] \in {sink[o], "none"} /\ late'[o] \in {late[o], "none"}
    BY <1>1 DEF ArchiveInv, Shaped, Files
  <2> QED
    BY <1>2, <2>1, <2>2, <2>3, <2>4, <2>5 DEF LessHeld
<1>5. owner' \in [Session -> Proc \cup {None}]
      /\ \A s \in Session : owner'[s] = owner[s] \/ owner[s] = p
  BY <1>1 DEF ArchiveInv, Shaped, Files
<1>6. OthersHold(p)
  <2>1. \A q \in Proc \ {p} : op[q].at \in Locked => lock' = q
    BY <1>1 DEF ArchiveInv, LockHeld
  <2>2. \A q \in Proc \ {p} : op[q].at \in Collecting \cup {"publish"} =>
            op[q].on \in Session /\ owner[op[q].on] = q
    BY DEF ArchiveInv, Claimed, Receipts
  <2> QED
    BY <1>5, <2>1, <2>2 DEF OthersHold
<1>7. DOMAIN hand' = Proc /\ \A q \in Proc : hand'[q] \subseteq hand[q]
  BY <1>1 DEF ArchiveInv, Shaped, Hands
<1> QED
  BY <1>1, <1>4, <1>6, <1>7, IdleProper, LetGo

\* A capture's files could not be made, and its marker goes.
LEMMA RefuseMakeKeeps ==
    ASSUME ArchiveInv, NEW p \in Proc, Refuse(p), ~At(p, "grant") PROVE ArchiveInv'
<1>0. PICK c : c = op[p].call
  OBVIOUS
<1>1. /\ capture' = [capture EXCEPT ![c].marker = "absent"] /\ op[p].at = "make"
      /\ op' = [op EXCEPT ![p] = Idle] /\ lock' = None
      /\ UNCHANGED <<owner, sink, object, late, hand, log>>
  BY <1>0 DEF Refuse, Return, At, file, book
<1>2. /\ c \in Capture /\ Blank(c) /\ capture[c].lease = "none" /\ capture[c].marker = "locked"
      /\ lock = p
  BY <1>0, <1>1, CallFacts DEF ArchiveInv, LockHeld, Locked
<1>3. /\ capture' \in [Capture -> Records]
      /\ \A d \in Capture \ {c} : capture'[d] = capture[d]
      /\ capture'[c].on = capture[c].on /\ capture'[c].by = capture[c].by /\ capture'[c].lease = "none"
  <2>1. capture \in [Capture -> Records]
    BY DEF ArchiveInv, Shaped, Files, Records
  <2> QED
    BY <1>1, <1>2, <2>1 DEF Records
<1>4. LessHeld
  <2>1. \A q \in Proc : op'[q].at # "make"
    BY <1>1, <1>2 DEF Idle, ArchiveInv, Shaped, Hands, LockHeld, Locked
  <2>2. capture[c].on # None
    BY <1>2 DEF ArchiveInv, Making, Unused
  <2>3. \A o \in Object : sink'[o] # "none" => capture'[o[1]].marker = "locked"
    BY <1>1, <1>2, <1>3, ObjectParts DEF ArchiveInv, Sinks, Blank
  <2>4. /\ sink' \in [Object -> {"none", "open", "failed"}]
        /\ late' \in [Object -> {"none", "write", "rename"}]
    BY <1>1 DEF ArchiveInv, Shaped, Files
  <2>5. \A d \in Capture : capture'[d].lease = "filed" => capture'[d].marker = "locked"
    <3> SUFFICES ASSUME NEW d \in Capture, capture'[d].lease = "filed"
                 PROVE  capture'[d].marker = "locked"
      OBVIOUS
    <3>1. d # c
      BY <1>3
    <3>2. capture'[d] = capture[d]
      BY <1>3, <3>1
    <3> QED
      BY <3>2 DEF ArchiveInv, Filed
  <2> QED
    BY <1>1, <1>2, <1>3, <2>1, <2>2, <2>3, <2>4, <2>5 DEF LessHeld
<1>5. owner' \in [Session -> Proc \cup {None}] /\ \A s \in Session : owner'[s] = owner[s]
  BY <1>1 DEF ArchiveInv, Shaped, Files
<1>6. OthersHold(p)
  BY <1>1, <1>5, HoldFacts DEF Locked
<1>7. DOMAIN hand' = Proc /\ \A q \in Proc : hand'[q] \subseteq hand[q]
  BY <1>1 DEF ArchiveInv, Shaped, Hands
<1> QED
  BY <1>1, <1>4, <1>6, <1>7, IdleProper, LetGo

\* A sweep looks at a marker: one left behind goes, another protects its files.
LEMMA CheckLeaseKeeps ==
    ASSUME ArchiveInv, NEW p \in Proc, NEW c \in Capture, CheckLease(p, c) PROVE ArchiveInv'
<1>1. /\ UNCHANGED <<owner, sink, object, late, hand, log, lock>>
      /\ op[p].at = "sweep.read" /\ c \in op[p].leases
  BY DEF CheckLease, At, file, book
<1>2. owner' \in [Session -> Proc \cup {None}] /\ \A s \in Session : owner'[s] = owner[s]
  BY <1>1 DEF ArchiveInv, Shaped, Files
<1>3. OthersHold(p)
  BY <1>1, <1>2, HoldFacts
<1>4. DOMAIN hand' = Proc /\ \A q \in Proc : hand'[q] \subseteq hand[q]
  BY <1>1 DEF ArchiveInv, Shaped, Hands
<1>5. /\ capture \in [Capture -> Records] /\ sink \in [Object -> {"none", "open", "failed"}]
      /\ late \in [Object -> {"none", "write", "rename"}]
      /\ DOMAIN op[p] = DOMAIN Idle /\ op[p].on \in Session \cup {None} /\ op[p].call \in Nat
  BY DEF ArchiveInv, Shaped, Files, Hands, Records
<1>6. /\ lock' = p /\ op[p].on \in Session /\ owner'[op[p].on] = p
      /\ Published(op[p].on) \subseteq op[p].kept
  BY <1>1 DEF ArchiveInv, LockHeld, Claimed, Locked, Collecting
<1>7. CASE capture[c].marker = "left"
  <2> DEFINE t == [op[p] EXCEPT !.leases = @ \ {c}]
  <2>1. capture' = [capture EXCEPT ![c].marker = "absent"] /\ op' = [op EXCEPT ![p] = t]
    BY <1>7 DEF CheckLease
  <2>2. /\ DOMAIN t = DOMAIN Idle /\ t.at = "sweep.read" /\ t.on = op[p].on /\ t.call = op[p].call
        /\ t.kept = op[p].kept /\ t.names = op[p].names /\ t.leases = op[p].leases \ {c}
    BY <1>1, <1>5 DEF Idle
  <2> HIDE DEF t
  <2>3. \A o \in Of(c) : sink[o] = "none"
    BY <1>7, ObjectParts DEF ArchiveInv, Sinks
  <2>4. Proper(p, t)
    <3>1. \A n \in op[p].names :
            /\ n[1] \in Object /\ SessionOf(n[1]) = op[p].on
            /\ n = <<n[1], n[2]>>
            /\ sink[n[1]] # "none" /\ n[2] = "partial" =>
                 n[1][1] \in op[p].leases \ {c} \/ n \in op[p].kept
      BY <1>1, <2>3, ObjectParts DEF ArchiveInv, Sparing
    <3> QED
      BY <1>5, <1>6, <2>2, <3>1 DEF Proper, Places, Locked, Collecting
  <2>5. LessHeld
    <3>1. \A q \in Proc : op'[q].at = "make" => q # p /\ op'[q] = op[q]
      BY <2>1, <2>2 DEF ArchiveInv, Shaped, Hands
    <3>2. \A q \in Proc : op'[q].at = "make" => capture'[op'[q].call] = capture[op'[q].call]
      BY <1>5, <1>7, <2>1, <3>1, CallFacts
    <3>3. /\ capture' \in [Capture -> Records] /\ capture[c].on # None
          /\ \A d \in Capture \ {c} : capture'[d] = capture[d]
          /\ capture'[c].on = capture[c].on /\ capture'[c].by = capture[c].by
          /\ capture'[c].lease = capture[c].lease
      BY <1>5, <1>7, <2>1 DEF Records, ArchiveInv, Making, Unused
    <3>4. \A d \in Capture : capture[d].lease = "filed" => d # c /\ capture[d].marker = "locked"
      BY <1>7 DEF ArchiveInv, Filed
    <3>5. \A o \in Object : sink[o] # "none" => o[1] # c /\ capture[o[1]].marker = "locked"
      BY <1>7 DEF ArchiveInv, Sinks
    <3>6. \A o \in Object : sink'[o] # "none" => capture'[o[1]].marker = "locked"
      BY <1>1, <3>3, <3>5, ObjectParts
    <3>7. \A d \in Capture : /\ capture'[d].on = capture[d].on /\ capture'[d].by = capture[d].by
                             /\ capture'[d].lease = capture[d].lease
                             /\ capture'[d].lease = "filed" => capture'[d].marker = "locked"
                             /\ capture[d].on = None => capture'[d] = capture[d]
      BY <3>3, <3>4
    <3> QED
      BY <1>1, <1>5, <3>1, <3>2, <3>3, <3>6, <3>7 DEF LessHeld
  <2> QED
    BY <1>1, <1>3, <1>4, <2>1, <2>4, <2>5, LetGo
<1>8. CASE capture[c].marker # "left"
  <2> DEFINE k == op[p].kept \cup (Of(c) \X {"partial", "raw"})
             t == [op[p] EXCEPT !.leases = @ \ {c}, !.kept = k]
  <2>1. op' = [op EXCEPT ![p] = t] /\ UNCHANGED capture
    BY <1>8 DEF CheckLease
  <2>2. /\ DOMAIN t = DOMAIN Idle /\ t.at = "sweep.read" /\ t.on = op[p].on /\ t.call = op[p].call
        /\ t.kept = k /\ t.names = op[p].names /\ t.leases = op[p].leases \ {c}
    BY <1>1, <1>5 DEF Idle
  <2> HIDE DEF t
  <2>3. op[p].kept \subseteq k /\ \A o \in Of(c) : <<o, "partial">> \in k
    OBVIOUS
  <2> HIDE DEF k
  <2>4. Proper(p, t)
    <3>1. \A n \in op[p].names :
            /\ n[1] \in Object /\ SessionOf(n[1]) = op[p].on
            /\ n = <<n[1], n[2]>>
            /\ sink[n[1]] # "none" /\ n[2] = "partial" =>
                 n[1][1] \in op[p].leases \/ n \in op[p].kept
      BY <1>1 DEF ArchiveInv, Sparing
    <3>2. \A n \in op[p].names :
            sink[n[1]] # "none" /\ n[2] = "partial" => n[1][1] \in op[p].leases \ {c} \/ n \in k
      <4> SUFFICES ASSUME NEW n \in op[p].names, sink[n[1]] # "none", n[2] = "partial",
                          n[1][1] = c
                   PROVE  n \in k
        BY <2>3, <3>1
      <4>1. n[1] \in Of(c) /\ n = <<n[1], "partial">>
        BY <3>1, ObjectParts
      <4> QED
        BY <2>3, <4>1
    <3> QED
      BY <1>5, <1>6, <2>2, <2>3, <3>1, <3>2 DEF Proper, Places, Locked, Collecting
  <2> QED
    BY <1>1, <1>2, <2>1, <2>4, PlainStep
<1> QED
  BY <1>7, <1>8

-----------------------------------------------------------------------------
(***************************************************************************)
(* Publishing, removing, and making a capture.                             *)
(***************************************************************************)
\* Sessions whose claims a publisher and a collector have are different ones.
LEMMA ClaimsApart ==
    ASSUME ArchiveInv, NEW p \in Proc, NEW q \in Proc,
           op[p].at = "publish", op[q].at \in Collecting
    PROVE  op[p].on # op[q].on
BY DEF ArchiveInv, Receipts, Claimed, Collecting

\* The log is saved with a receipt that was verified under the same claim.
LEMMA PublishKeeps == ASSUME ArchiveInv, NEW p \in Proc, Publish(p) PROVE ArchiveInv'
<1>1. /\ op[p].at = "publish" /\ log' = log \cup op[p].kept /\ op' = [op EXCEPT ![p] = Idle]
      /\ UNCHANGED <<owner, capture, object, sink, late, hand, lock>>
  BY DEF Publish, Return, At, making, file
<1>2. /\ op'[p] = Idle /\ \A q \in Proc \ {p} : op'[q] = op[q]
      /\ op' = [q \in Proc |-> op'[q]]
  BY <1>1 DEF ArchiveInv, Shaped, Hands
<1>3. Idle.at = "idle" /\ Idle.on = None /\ Idle.call = 0
  BY DEF Idle
<1>4. \A q \in Proc : op'[q].at # "idle" => q # p /\ op'[q] = op[q]
  BY <1>2, <1>3
<1>5. /\ \A c : Made(c) => Made(c)'
      /\ \A r : Settled(r) => Settled(r)'
      /\ \A r : Intact(r)' = Intact(r)
      /\ \A o : SessionOf(o)' = SessionOf(o)
  <2>1. \A c : Made(c) => Made(c)'
    BY <1>1, <1>4 DEF Made
  <2> QED
    BY <1>1, <2>1 DEF Settled, Intact, SessionOf
<1>6. Shaped'
  BY <1>1, <1>2, <1>3 DEF ArchiveInv, Shaped, Files, Hands, Places
<1>7. LockHeld'
  BY <1>1, <1>4 DEF ArchiveInv, LockHeld, Locked
<1>8. Claimed'
  <2>1. \A q \in Proc : op'[q].at \in Collecting => op'[q] = op[q] /\ op[q].at \in Collecting
    BY <1>4 DEF Collecting
  <2>2. \A r \in op[p].kept : SessionOf(r.object) = op[p].on
    BY <1>1 DEF ArchiveInv, Receipts
  <2>3. \A s : s # op[p].on => Published(s)' = Published(s)
    <3> SUFFICES ASSUME NEW s, s # op[p].on
                 PROVE  Published(s)' = Published(s)
      OBVIOUS
    <3>1. \A r \in op[p].kept : SessionOf(r.object) # s
      BY <2>2
    <3>2. {r \in log' : SessionOf(r.object)' = s} = {r \in log : SessionOf(r.object) = s}
      BY <1>1, <1>5, <3>1
    <3> QED
      BY <3>2 DEF Published
  <2>4. \A q \in Proc : op'[q].at \in Collecting => op[q].on # op[p].on
    BY <1>1, <2>1, ClaimsApart
  <2> QED
    BY <1>1, <2>1, <2>3, <2>4 DEF ArchiveInv, Claimed
<1>9. Making'
  <2>1. \A c : Blank(c)' = Blank(c)
    BY <1>1 DEF Blank
  <2> QED
    BY <1>1, <1>4, <2>1 DEF ArchiveInv, Making
<1>10. Sinks' /\ Filed'
  BY <1>1, <1>5 DEF ArchiveInv, Sinks, Filed
<1>11. Receipts'
  <2>1. \A r \in log' : Settled(r)' /\ Intact(r)'
    BY <1>1, <1>5 DEF ArchiveInv, Receipts
  <2> QED
    BY <1>1, <1>4, <1>5, <2>1 DEF ArchiveInv, Receipts
<1>12. Sparing'
  BY <1>1, <1>4, <1>5 DEF ArchiveInv, Sparing
<1> QED
  BY <1>6, <1>7, <1>8, <1>9, <1>10, <1>11, <1>12 DEF ArchiveInv

\* What a sweep removes is no sink's file and nothing a log publishes, or is
\* about to.
LEMMA RemoveKeeps ==
    ASSUME ArchiveInv, NEW p \in Proc, NEW n \in op[p].names, Remove(p, n) PROVE ArchiveInv'
<1> DEFINE t == [op[p] EXCEPT !.names = @ \ {n}]
<1>1. /\ op[p].at = "sweep.read" /\ op[p].leases = {} /\ op' = [op EXCEPT ![p] = t]
      /\ UNCHANGED <<owner, capture, sink, late, hand, log, lock>>
      /\ \/ object' = object
         \/ /\ n \notin op[p].kept /\ object[n[1]].ext = n[2]
            /\ object' = [object EXCEPT ![n[1]] = NoFile]
  BY DEF Remove, At, making, book
<1>2. /\ t.at = op[p].at /\ t.on = op[p].on /\ t.call = op[p].call /\ DOMAIN t = DOMAIN Idle
      /\ t.kept = op[p].kept /\ t.leases = op[p].leases /\ t.names \subseteq op[p].names
  BY DEF ArchiveInv, Shaped, Hands, Idle
<1> HIDE DEF t
<1>3. /\ op' = [q \in Proc |-> op'[q]]
      /\ \A q \in Proc :
            /\ op'[q].at = op[q].at /\ op'[q].on = op[q].on /\ op'[q].call = op[q].call
            /\ DOMAIN op'[q] = DOMAIN Idle /\ op'[q].kept = op[q].kept
            /\ op'[q].leases = op[q].leases /\ op'[q].names \subseteq op[q].names
  BY <1>1, <1>2 DEF ArchiveInv, Shaped, Hands
<1>4. /\ n[1] \in Object /\ SessionOf(n[1]) = op[p].on /\ n = <<n[1], n[2]>>
      /\ sink[n[1]] # "none" /\ n[2] = "partial" => n \in op[p].kept
  BY <1>1 DEF ArchiveInv, Sparing
<1>5. op[p].on \in Session /\ owner[op[p].on] = p /\ Published(op[p].on) \subseteq op[p].kept
  BY <1>1 DEF ArchiveInv, Claimed, Collecting
<1>6. \A o \in Object : sink[o] # "none" => object'[o] = object[o]
  BY <1>1, <1>4 DEF ArchiveInv, Sinks, Shaped, Files
<1>7. \A r \in log : object'[r.object] = object[r.object]
  <2> SUFFICES ASSUME NEW r \in log, r.object = n[1], object[n[1]].ext = n[2]
               PROVE  n \in op[p].kept
    BY <1>1, <1>4 DEF ArchiveInv, Receipts, Settled, Shaped, Files
  <2>1. object[r.object] = [ext |-> "raw", size |-> r.bytes]
    BY DEF ArchiveInv, Receipts, Intact
  <2>2. n[2] = "raw"
    BY <2>1
  <2>3. n = <<r.object, "raw">> /\ SessionOf(r.object) = op[p].on
    BY <1>4, <2>2
  <2>4. n \in Published(op[p].on)
    BY <2>3 DEF Published
  <2> QED
    BY <1>5, <2>4
<1>8. \A q \in Proc : op[q].at = "publish" =>
          \A r \in op[q].kept : object'[r.object] = object[r.object]
  <2> SUFFICES ASSUME NEW q \in Proc, op[q].at = "publish", NEW r \in op[q].kept
               PROVE  r.object # n[1]
    BY <1>1, <1>4 DEF ArchiveInv, Receipts, Settled, Shaped, Files
  <2>1. SessionOf(r.object) = op[q].on
    BY DEF ArchiveInv, Receipts
  <2> QED
    BY <1>1, <1>4, <2>1, ClaimsApart DEF Collecting
<1>9. /\ \A c : Made(c)' = Made(c)
      /\ \A r : Settled(r)' = Settled(r)
      /\ \A o : SessionOf(o)' = SessionOf(o)
      /\ \A s : Published(s)' = Published(s)
      /\ \A c : Blank(c)' = Blank(c)
  <2>1. \A c : Made(c)' = Made(c)
    BY <1>1, <1>3 DEF Made
  <2>2. \A o : SessionOf(o)' = SessionOf(o)
    BY <1>1 DEF SessionOf
  <2> QED
    BY <1>1, <2>1, <2>2 DEF Settled, Published, Blank
<1>10. Shaped'
  BY <1>1, <1>3 DEF ArchiveInv, Shaped, Files, Hands, NoFile
<1>11. LockHeld'
  BY <1>1, <1>3 DEF ArchiveInv, LockHeld
<1>12. Claimed'
  BY <1>1, <1>3, <1>9 DEF ArchiveInv, Claimed
<1>13. Making'
  BY <1>1, <1>3, <1>9 DEF ArchiveInv, Making
<1>14. Sinks' /\ Filed'
  BY <1>1, <1>6, <1>9 DEF ArchiveInv, Sinks, Filed
<1>15. Receipts'
  BY <1>1, <1>3, <1>7, <1>8, <1>9 DEF ArchiveInv, Receipts, Intact
<1>16. Sparing'
  BY <1>1, <1>3, <1>9 DEF ArchiveInv, Sparing
<1> QED
  BY <1>10, <1>11, <1>12, <1>13, <1>14, <1>15, <1>16 DEF ArchiveInv

\* The captures before the one that is made, or is yet to be, are as they were.
LEMMA Older ==
    ASSUME ArchiveInv, NEW c \in Capture, ~Made(c),
           \A d \in Capture \ {c} : capture'[d] = capture[d],
           \A o \in Object : o[1] # c =>
               object'[o] = object[o] /\ sink'[o] = sink[o] /\ late'[o] = late[o],
           \A d : Made(d) => Made(d)'
    PROVE  /\ \A r : Settled(r) =>
                /\ Settled(r)' /\ SessionOf(r.object)' = SessionOf(r.object)
                /\ capture'[r.object[1]] = capture[r.object[1]]
           /\ \A r : Settled(r) /\ Intact(r) => Intact(r)'
<1> SUFFICES ASSUME NEW r, Settled(r)
             PROVE  /\ Settled(r)' /\ SessionOf(r.object)' = SessionOf(r.object)
                    /\ capture'[r.object[1]] = capture[r.object[1]]
                    /\ Intact(r) => Intact(r)'
  OBVIOUS
<1>1. r.object \in Object /\ r.object[1] \in Capture /\ r.object[1] # c
  BY ObjectParts DEF Settled
<1>2. capture'[r.object[1]] = capture[r.object[1]] /\ object'[r.object] = object[r.object]
      /\ sink'[r.object] = sink[r.object] /\ late'[r.object] = late[r.object]
  BY <1>1
<1> QED
  BY <1>1, <1>2 DEF Settled, SessionOf, Intact

\* Under the lock a marker is made for a capture that is nobody's.
LEMMA MarkKeeps ==
    ASSUME ArchiveInv, NEW p \in Proc, NEW c \in Capture, Mark(p, c) PROVE ArchiveInv'
<1> DEFINE k == [on |-> op[p].on, by |-> p, lease |-> "none", marker |-> "locked"]
           t == [op[p] EXCEPT !.at = "make", !.call = c]
<1>1. /\ op[p].at = "grant" /\ capture[c] = Unused
      /\ capture' = [capture EXCEPT ![c] = k] /\ op' = [op EXCEPT ![p] = t]
      /\ UNCHANGED <<owner, sink, object, late, hand, log, lock>>
  BY DEF Mark, At, Used, file, book
<1>2. /\ op[p].on \in Session /\ lock = p /\ DOMAIN op[p] = DOMAIN Idle
      /\ op' = [q \in Proc |-> op'[q]]
  BY <1>1 DEF ArchiveInv, Shaped, Hands, LockHeld, Locked
<1>3. t.at = "make" /\ t.on = op[p].on /\ t.call = c /\ DOMAIN t = DOMAIN Idle
  BY <1>2 DEF Idle
<1>4. k.on = op[p].on /\ k.by = p /\ k.lease = "none" /\ k.marker = "locked"
  OBVIOUS
<1>5. k \in Records
  BY <1>2 DEF Records
<1>6. c \in Nat
  BY DEF Capture
<1>7. capture[c].on = None /\ Blank(c) /\ ~Made(c)
  BY <1>1 DEF ArchiveInv, Making, Made, Unused
<1>8. k = [on |-> t.on, by |-> p, lease |-> "none", marker |-> "locked"]
  BY <1>3
<1> HIDE DEF k, t
<1>9. capture'[c] = k /\ \A d \in Capture \ {c} : capture'[d] = capture[d]
  BY <1>1 DEF ArchiveInv, Shaped, Files
<1>10. op'[p] = t /\ \A q \in Proc \ {p} : op'[q] = op[q] /\ op[q].at \notin Locked
  BY <1>1, <1>2 DEF ArchiveInv, Shaped, Hands, LockHeld
<1>11. \A d : Made(d) => Made(d)'
  <2> SUFFICES ASSUME NEW d, Made(d) PROVE Made(d)'
    OBVIOUS
  <2>1. d \in Capture \ {c} /\ capture'[d] = capture[d]
    BY <1>7, <1>9 DEF Made
  <2>2. \A q \in Proc : op'[q].at = "make" => op'[q].call # d
    BY <1>3, <1>10, <2>1 DEF Locked
  <2> QED
    BY <2>1, <2>2 DEF Made
<1>12. /\ \A r : Settled(r) =>
             /\ Settled(r)' /\ SessionOf(r.object)' = SessionOf(r.object)
             /\ capture'[r.object[1]] = capture[r.object[1]]
       /\ \A r : Settled(r) /\ Intact(r) => Intact(r)'
  BY <1>1, <1>7, <1>9, <1>11, Older
<1>13. Shaped'
  <2>1. Files'
    BY <1>1, <1>5 DEF ArchiveInv, Shaped, Files, Records
  <2> QED
    BY <1>1, <1>2, <1>3, <1>6, <1>10, <2>1 DEF ArchiveInv, Shaped, Hands, Places
<1>14. LockHeld'
  BY <1>1, <1>2, <1>10 DEF ArchiveInv, LockHeld
<1>15. Claimed'
  <2>1. \A s : Published(s)' = Published(s)
    BY <1>1, <1>12 DEF ArchiveInv, Receipts, Published
  <2> QED
    BY <1>1, <1>3, <1>10, <2>1 DEF ArchiveInv, Claimed, Collecting
<1>16. Making'
  <2>1. \A d : Blank(d)' = Blank(d)
    BY <1>1 DEF Blank
  <2>2. \A d \in Capture : capture'[d].on = None => capture'[d] = Unused /\ Blank(d)'
    BY <1>2, <1>4, <1>9, <2>1, NoneAssumption DEF ArchiveInv, Making
  <2>3. \A q \in Proc : op'[q].at = "make" => q = p
    BY <1>10 DEF Locked
  <2> QED
    BY <1>3, <1>7, <1>8, <1>9, <1>10, <2>1, <2>2, <2>3 DEF Making
<1>17. Sinks' /\ Filed'
  <2>1. \A o \in Object : sink[o] # "none" => o[1] # c
    BY <1>7, ObjectParts DEF Blank
  <2>2. Sinks'
    BY <1>1, <1>9, <1>11, <2>1, ObjectParts DEF ArchiveInv, Sinks
  <2>3. Filed'
    BY <1>4, <1>9, <1>11 DEF ArchiveInv, Filed
  <2> QED
    BY <2>2, <2>3
<1>18. Receipts'
  BY <1>1, <1>3, <1>10, <1>12 DEF ArchiveInv, Receipts
<1>19. Sparing'
  BY <1>3, <1>10 DEF ArchiveInv, Sparing, Locked
<1> QED
  BY <1>13, <1>14, <1>15, <1>16, <1>17, <1>18, <1>19 DEF ArchiveInv

\* The files are made while no sweep runs, for whoever asked or for nobody.
LEMMA MakeKeeps ==
    ASSUME ArchiveInv, NEW p \in Proc, NEW c \in Capture, Make(p, c) PROVE ArchiveInv'
<1>1. /\ op[p].at = "make" /\ c = op[p].call
      /\ object' = [o \in Object |->
             IF o \in Of(c) THEN [ext |-> "partial", size |-> 0] ELSE object[o]]
      /\ lock' = None /\ op' = [op EXCEPT ![p] = Idle]
      /\ UNCHANGED <<owner, late, hand, log>>
  BY DEF Make, At, Return, book
<1>2. /\ Blank(c) /\ capture[c].lease = "none" /\ capture[c].marker = "locked" /\ lock = p
      /\ capture[c].on # None /\ ~Made(c)
  BY <1>1, CallFacts DEF ArchiveInv, LockHeld, Locked, Making, Unused, Made
<1>3. /\ Idle.at = "idle" /\ Idle.on = None /\ Idle.call = 0
      /\ op'[p] = Idle /\ op' = [q \in Proc |-> op'[q]]
      /\ \A q \in Proc \ {p} : op'[q] = op[q] /\ op[q].at \notin Locked
  BY <1>1, <1>2 DEF ArchiveInv, Shaped, Hands, LockHeld, Idle
<1>4. /\ capture' \in [Capture -> Records]
      /\ \A d \in Capture \ {c} : capture'[d] = capture[d]
      /\ capture'[c].on = capture[c].on /\ capture'[c].by = capture[c].by
      /\ capture'[c].lease = "filed" => capture'[c].marker = "locked"
  <2>1. capture \in [Capture -> Records]
    BY DEF ArchiveInv, Shaped, Files, Records
  <2> QED
    BY <1>2, <2>1 DEF Make, Records
<1>5. /\ sink' \in [Object -> {"none", "open", "failed"}]
      /\ \A o \in Object \ Of(c) : sink'[o] = sink[o]
      /\ \A o \in Of(c) : sink'[o] # "none" => capture'[c].marker = "locked"
  <2>1. CASE op[p].gone
    BY <1>2, <2>1, ObjectParts DEF Make, ArchiveInv, Shaped, Files, Blank
  <2>2. CASE ~op[p].gone
    <3>1. /\ capture' = [capture EXCEPT ![c].lease = "filed"]
          /\ sink' = [o \in Object |-> IF o \in Of(c) THEN "open" ELSE sink[o]]
      BY <2>2 DEF Make
    <3>2. capture'[c].marker = "locked"
      BY <1>2, <3>1 DEF ArchiveInv, Shaped, Files
    <3> QED
      BY <3>1, <3>2 DEF ArchiveInv, Shaped, Files
  <2> QED
    BY <2>1, <2>2
<1>6. /\ object' \in [Object -> [ext : {"none", "partial", "raw"}, size : Nat]]
      /\ \A o \in Object \ Of(c) : object'[o] = object[o]
      /\ \A o \in Of(c) : object'[o].ext = "partial"
  BY <1>1, ObjectParts DEF ArchiveInv, Shaped, Files
<1>7. \A o \in Object : o[1] # c =>
          object'[o] = object[o] /\ sink'[o] = sink[o] /\ late'[o] = late[o]
  BY <1>1, <1>5, <1>6, ObjectParts
<1>8. /\ \A d : Made(d) => Made(d)'
      /\ Made(c)'
  <2>1. \A q \in Proc : op'[q].at # "make"
    BY <1>3 DEF Locked
  <2> QED
    BY <1>2, <1>4, <2>1 DEF Made
<1>9. /\ \A r : Settled(r) =>
            /\ Settled(r)' /\ SessionOf(r.object)' = SessionOf(r.object)
            /\ capture'[r.object[1]] = capture[r.object[1]]
      /\ \A r : Settled(r) /\ Intact(r) => Intact(r)'
  BY <1>2, <1>4, <1>7, <1>8, Older
<1>10. \A d \in Capture : capture'[d].on = capture[d].on
  BY <1>4
<1>11. Shaped'
  <2>1. Files'
    BY <1>1, <1>4, <1>5, <1>6 DEF ArchiveInv, Shaped, Files, Records
  <2>2. \A q \in Proc : op'[q] = Idle \/ op'[q] = op[q]
    BY <1>3
  <2> QED
    BY <1>1, <1>3, <2>1, <2>2 DEF ArchiveInv, Shaped, Hands, Places
<1>12. LockHeld'
  BY <1>3 DEF LockHeld, Locked
<1>13. Claimed'
  <2>1. \A s : Published(s)' = Published(s)
    BY <1>1, <1>9 DEF ArchiveInv, Receipts, Published
  <2> QED
    BY <1>1, <1>3, <2>1 DEF ArchiveInv, Claimed, Collecting
<1>14. Making'
  <2>1. \A d \in Capture \ {c} : Blank(d) => Blank(d)'
    BY <1>7, ObjectParts DEF Blank
  <2>2. \A q \in Proc : op'[q].at # "make"
    BY <1>3 DEF Locked
  <2> QED
    BY <1>2, <1>4, <2>1, <2>2 DEF ArchiveInv, Making
<1>15. Sinks'
  <2> SUFFICES ASSUME NEW o \in Object, sink'[o] # "none"
               PROVE  /\ object'[o].ext = "partial" /\ capture'[o[1]].marker = "locked"
                      /\ Made(o[1])'
                      /\ late'[o] # "rename" /\ (sink'[o] = "open" => late'[o] = "none")
    BY DEF Sinks
  <2>1. CASE o[1] = c
    <3>1. o \in Of(c) /\ late'[o] = "none"
      BY <1>1, <1>2, <2>1, ObjectParts DEF Blank
    <3> QED
      BY <1>5, <1>6, <1>8, <2>1, <3>1
  <2>2. CASE o[1] # c
    BY <1>4, <1>7, <1>8, <2>2, ObjectParts DEF ArchiveInv, Sinks
  <2> QED
    BY <2>1, <2>2
<1>16. Filed'
  BY <1>4, <1>8 DEF ArchiveInv, Filed
<1>17. Receipts'
  BY <1>1, <1>3, <1>9 DEF ArchiveInv, Receipts
<1>18. Sparing'
  BY <1>3 DEF Sparing, Locked
<1> QED
  BY <1>11, <1>12, <1>13, <1>14, <1>15, <1>16, <1>17, <1>18 DEF ArchiveInv

-----------------------------------------------------------------------------
(***************************************************************************)
(* The invariant, and what it is for.                                      *)
(***************************************************************************)
\* Nothing is reserved, claimed, published or done at first.
LEMMA ArchiveInvInit == Init => ArchiveInv
<1> SUFFICES ASSUME Init PROVE ArchiveInv
  OBVIOUS
<1>1. /\ \A p \in Proc : op[p] = Idle /\ hand[p] = {}
      /\ \A c \in Capture : capture[c] = Unused
      /\ \A o \in Object : object[o] = NoFile /\ sink[o] = "none" /\ late[o] = "none"
  BY DEF Init
<1>2. Idle.at = "idle" /\ Idle.on = None /\ Idle.call = 0
  BY DEF Idle
<1>3. Shaped
  BY <1>1, <1>2 DEF Init, Shaped, Files, Hands, Places, Unused, NoFile
<1>4. LockHeld /\ Claimed /\ Sparing
  BY <1>1, <1>2 DEF LockHeld, Claimed, Sparing, Locked, Collecting
<1>5. Making
  BY <1>1, <1>2, ObjectParts DEF Making, Blank
<1>6. Sinks /\ Filed
  BY <1>1 DEF Sinks, Filed, Unused
<1>7. Receipts
  BY <1>1, <1>2 DEF Init, Receipts
<1> QED
  BY <1>3, <1>4, <1>5, <1>6, <1>7 DEF ArchiveInv

\* Every step keeps the invariant.
LEMMA ArchiveInvNext == ArchiveInv /\ [Next]_vars => ArchiveInv'
<1> SUFFICES ASSUME ArchiveInv, [Next]_vars PROVE ArchiveInv'
  OBVIOUS
<1>1. ASSUME NEW p \in Proc, NEW s \in Session,
             Claim(p, s) \/ Release(p, s) \/ Reserve(p, s) \/ List(p, s) \/ Collect(p, s)
      PROVE  ArchiveInv'
  BY <1>1, ClaimKeeps, ReleaseKeeps, ReserveKeeps, ListKeeps, CollectKeeps
<1>2. ASSUME NEW p \in Proc, TakeLock(p) \/ LockTimesOut(p) \/ Measure(p) \/ Refuse(p)
      PROVE  ArchiveInv'
  BY <1>2, ReserveKeeps, LockTimesOutKeeps, RefuseMakeKeeps
<1>3. ASSUME NEW p \in Proc, Publish(p) \/ Collected(p) \/ Crash(p)
      PROVE  ArchiveInv'
  BY <1>3, PublishKeeps, CollectedKeeps, CrashKeeps
<1>4. ASSUME NEW p \in Proc, NEW c \in Capture, Mark(p, c) \/ Make(p, c) \/ CheckLease(p, c)
      PROVE  ArchiveInv'
  BY <1>4, MarkKeeps, MakeKeeps, CheckLeaseKeeps
<1>5. ASSUME NEW p \in Proc, NEW r \in hand[p], Verify(p, r)
      PROVE  ArchiveInv'
  BY <1>5, VerifyKeeps
<1>6. ASSUME NEW p \in Proc, NEW n \in op[p].names, Remove(p, n)
      PROVE  ArchiveInv'
  BY <1>6, RemoveKeeps
<1>7. ASSUME NEW o \in Object,
             \/ Write(o) \/ FinishFailed(o) \/ Discard(o) \/ Land(o)
             \/ \E l \in {"none", "write"} : WriteFails(o, l)
             \/ \E l \in {"none", "rename"} : SealFails(o, l)
             \/ \E told \in BOOLEAN : Seal(o, told)
      PROVE  ArchiveInv'
  BY <1>7, WriteKeeps, SinkGoesKeeps, LandKeeps
<1>8. ASSUME NEW c \in Capture, TakeLease(c) \/ DropLease(c)
      PROVE  ArchiveInv'
  BY <1>8, TakeLeaseKeeps, DropLeaseKeeps
<1>9. ASSUME UNCHANGED vars PROVE ArchiveInv'
  <2>1. UNCHANGED <<owner, capture, object, sink, late, hand, log, lock, op>>
    BY <1>9 DEF vars, making, file, book
  <2> QED
    BY <2>1 DEF ArchiveInv, Shaped, Files, Hands, LockHeld, Claimed, Making, Blank, Made,
                Sinks, Filed, Settled, Receipts, Intact, Sparing, Published, SessionOf
<1> QED
  BY <1>1, <1>2, <1>3, <1>4, <1>5, <1>6, <1>7, <1>8, <1>9 DEF Next

\* The lock, the claims, the markers and the receipts hold together, always.
THEOREM ArchiveInvariant == Spec => []ArchiveInv
BY ArchiveInvInit, ArchiveInvNext, PTL DEF Spec

\* Every object a log publishes is there, finalized, with the bytes its receipt
\* states, whatever is collected and whatever write was late.
THEOREM PublishedKeptAlways == Spec => []PublishedKept
<1>1. ArchiveInv => PublishedKept
  BY DEF ArchiveInv, Receipts, PublishedKept
<1> QED
  BY <1>1, ArchiveInvariant, PTL

\* The file of a sink is there as long as the sink is, also when its turn has
\* gone and others claim the session, reserve in it and collect it.
THEOREM CaptureKeptAlways == Spec => []CaptureKept
<1>1. ArchiveInv => CaptureKept
  BY DEF ArchiveInv, Sinks, CaptureKept
<1> QED
  BY <1>1, ArchiveInvariant, PTL

-----------------------------------------------------------------------------
(***************************************************************************)
(* What functions on finite sets add up to.                                *)
(***************************************************************************)
Units(f) == UNION {{x} \X (1..f[x]) : x \in DOMAIN f}

LEMMA UnitsAre ==
    ASSUME NEW S, NEW f \in [S -> Nat]
    PROVE  /\ Sum(f) = Cardinality(Units(f))
           /\ \A x \in S : \A k \in 1..f[x] : <<x, k>> \in Units(f)
           /\ \A u \in Units(f) : u = <<u[1], u[2]>> /\ u[1] \in S /\ u[2] \in 1..f[u[1]]
<1>1. DOMAIN f = S
  OBVIOUS
<1>2. Units(f) = UNION {{x} \X (1..f[x]) : x \in S}
  BY <1>1 DEF Units
<1>3. ASSUME NEW u \in Units(f)
      PROVE  u = <<u[1], u[2]>> /\ u[1] \in S /\ u[2] \in 1..f[u[1]]
  <2>1. PICK x \in S : u \in {x} \X (1..f[x])
    BY <1>2
  <2> QED
    BY <2>1
<1>4. ASSUME NEW x \in S, NEW k \in 1..f[x]
      PROVE  <<x, k>> \in Units(f)
  <2>1. <<x, k>> \in {x} \X (1..f[x])
    OBVIOUS
  <2> QED
    BY <1>2, <2>1
<1> QED
  BY <1>3, <1>4 DEF Sum, Units

\* A sum over a finite set is a natural number.
LEMMA SumFinite ==
    ASSUME NEW S, IsFiniteSet(S), NEW f \in [S -> Nat]
    PROVE  IsFiniteSet(Units(f)) /\ Sum(f) \in Nat
<1> DEFINE of == [x \in S |-> {x} \X (1..f[x])]
           T == {{x} \X (1..f[x]) : x \in S}
<1>1. of \in Surjection(S, T)
  BY DEF Surjection
<1>2. IsFiniteSet(T)
  <2> HIDE DEF of, T
  <2> QED
    BY <1>1, FS_Surjection
<1>3. ASSUME NEW t \in T PROVE IsFiniteSet(t)
  <2>1. PICK x \in S : t = {x} \X (1..f[x])
    OBVIOUS
  <2>2. IsFiniteSet({x}) /\ IsFiniteSet(1..f[x])
    <3>1. f[x] \in Int /\ 1 \in Int
      OBVIOUS
    <3> QED
      BY <3>1, FS_Singleton, FS_Interval
  <2> QED
    BY <2>1, <2>2, FS_Product
<1>4. Units(f) = UNION T
  <2>1. DOMAIN f = S
    OBVIOUS
  <2> QED
    BY <2>1 DEF Units
<1> HIDE DEF T
<1>5. IsFiniteSet(UNION T)
  BY <1>2, <1>3, FS_UNION
<1> QED
  BY <1>4, <1>5, UnitsAre, FS_CardinalityType

\* A sum over parts of two sets is at most the two sums, where each term is at
\* most the one it is put in for, or nothing.
LEMMA SumSplits ==
    ASSUME NEW S, NEW A, NEW B, IsFiniteSet(A), IsFiniteSet(B),
           NEW h \in [S -> Nat], NEW f \in [A -> Nat], NEW g \in [B -> Nat],
           \A x \in S : \/ x \in A /\ h[x] <= f[x]
                        \/ x \in B /\ h[x] <= g[x]
                        \/ h[x] = 0
    PROVE  Sum(h) <= Sum(f) + Sum(g)
<1>1. Units(h) \subseteq Units(f) \cup Units(g)
  <2> SUFFICES ASSUME NEW u \in Units(h)
               PROVE  u \in Units(f) \cup Units(g)
    OBVIOUS
  <2>1. u = <<u[1], u[2]>> /\ u[1] \in S /\ u[2] \in 1..h[u[1]]
    BY UnitsAre
  <2>2. h[u[1]] \in Nat
    BY <2>1
  <2>3. h[u[1]] # 0
    BY <2>1, <2>2
  <2>4. CASE u[1] \in A /\ h[u[1]] <= f[u[1]]
    <3>1. f[u[1]] \in Nat
      BY <2>4
    <3>2. u[2] \in 1..f[u[1]]
      BY <2>1, <2>2, <2>4, <3>1
    <3> QED
      BY <2>1, <2>4, <3>2, UnitsAre
  <2>5. CASE u[1] \in B /\ h[u[1]] <= g[u[1]]
    <3>1. g[u[1]] \in Nat
      BY <2>5
    <3>2. u[2] \in 1..g[u[1]]
      BY <2>1, <2>2, <2>5, <3>1
    <3> QED
      BY <2>1, <2>5, <3>2, UnitsAre
  <2> QED
    BY <2>1, <2>3, <2>4, <2>5
<1>2. IsFiniteSet(Units(f)) /\ IsFiniteSet(Units(g))
  BY SumFinite
<1>3. /\ IsFiniteSet(Units(f) \cup Units(g))
      /\ Cardinality(Units(f) \cup Units(g))
           = Cardinality(Units(f)) + Cardinality(Units(g)) - Cardinality(Units(f) \cap Units(g))
  BY <1>2, FS_Union
<1>4. IsFiniteSet(Units(f) \cap Units(g)) /\ IsFiniteSet(Units(h))
      /\ Cardinality(Units(h)) <= Cardinality(Units(f) \cup Units(g))
  <2>1. Units(f) \cap Units(g) \in SUBSET Units(f) /\ Units(h) \in SUBSET (Units(f) \cup Units(g))
    BY <1>1
  <2> QED
    BY <1>2, <1>3, <2>1, FS_Subset
<1>5. /\ Cardinality(Units(f)) \in Nat /\ Cardinality(Units(g)) \in Nat
      /\ Cardinality(Units(f) \cap Units(g)) \in Nat /\ Cardinality(Units(h)) \in Nat
  BY <1>2, <1>4, FS_CardinalityType
<1>6. Sum(h) = Cardinality(Units(h)) /\ Sum(f) = Cardinality(Units(f)) /\ Sum(g) = Cardinality(Units(g))
  BY UnitsAre
<1> QED
  BY <1>3, <1>4, <1>5, <1>6

\* With one set: a sum grows with its terms and with its set.
LEMMA SumGrows ==
    ASSUME NEW S, NEW A, IsFiniteSet(A), NEW h \in [S -> Nat], NEW f \in [A -> Nat],
           \A x \in S : (x \in A /\ h[x] <= f[x]) \/ h[x] = 0
    PROVE  Sum(h) <= Sum(f)
<1> DEFINE B == {}
           g == [x \in B |-> 0]
<1>1. g \in [B -> Nat] /\ IsFiniteSet(B)
  BY FS_EmptySet
<1>2. Units(g) = {}
  BY DEF Units
<1>3. Sum(g) = 0
  BY <1>1, <1>2, UnitsAre, FS_EmptySet
<1> HIDE DEF g, B
<1>4. Sum(h) <= Sum(f) + Sum(g)
  BY <1>1, SumSplits
<1>5. Sum(f) \in Nat
  BY SumFinite
<1>6. IsFiniteSet(Units(h))
  <2>1. Units(h) \subseteq Units(f)
    <3> SUFFICES ASSUME NEW u \in Units(h) PROVE u \in Units(f)
      OBVIOUS
    <3>1. u = <<u[1], u[2]>> /\ u[1] \in S /\ u[2] \in 1..h[u[1]]
      BY UnitsAre
    <3>2. u[1] \in A /\ h[u[1]] <= f[u[1]] /\ h[u[1]] \in Nat /\ f[u[1]] \in Nat
      BY <3>1
    <3>3. u[2] \in 1..f[u[1]]
      BY <3>1, <3>2
    <3> QED
      BY <3>1, <3>2, <3>3, UnitsAre
  <2>2. IsFiniteSet(Units(f)) /\ Units(h) \in SUBSET Units(f)
    BY <2>1, SumFinite
  <2> QED
    BY <2>2, FS_Subset
<1>7. Sum(h) \in Nat
  BY <1>6, UnitsAre, FS_CardinalityType
<1> QED
  BY <1>3, <1>4, <1>5, <1>7

\* A sum is at most another where each term has one of its own there.
LEMMA SumRenamed ==
    ASSUME NEW S, NEW A, IsFiniteSet(A), NEW h \in [S -> Nat], NEW f \in [A -> Nat],
           NEW m \in Injection(S, A), \A x \in S : h[x] <= f[m[x]]
    PROVE  Sum(h) <= Sum(f)
<1> DEFINE n == [u \in Units(h) |-> <<m[u[1]], u[2]>>]
<1>1. \A x \in S : m[x] \in A
  BY DEF Injection
<1>2. \A x \in S : \A y \in S : m[x] = m[y] => x = y
  BY DEF Injection, IsInjective
<1>3. \A u \in Units(h) : n[u] \in Units(f)
  <2> SUFFICES ASSUME NEW u \in Units(h) PROVE <<m[u[1]], u[2]>> \in Units(f)
    OBVIOUS
  <2>1. u = <<u[1], u[2]>> /\ u[1] \in S /\ u[2] \in 1..h[u[1]]
    BY UnitsAre
  <2>2. m[u[1]] \in A /\ h[u[1]] <= f[m[u[1]]] /\ h[u[1]] \in Nat /\ f[m[u[1]]] \in Nat
    BY <1>1, <2>1
  <2>3. u[2] \in 1..f[m[u[1]]]
    BY <2>1, <2>2
  <2> QED
    BY <2>2, <2>3, UnitsAre
<1>4. \A u \in Units(h) : \A v \in Units(h) : n[u] = n[v] => u = v
  <2> SUFFICES ASSUME NEW u \in Units(h), NEW v \in Units(h), m[u[1]] = m[v[1]], u[2] = v[2]
               PROVE  u = v
    OBVIOUS
  <2>1. u = <<u[1], u[2]>> /\ u[1] \in S /\ v = <<v[1], v[2]>> /\ v[1] \in S
    BY UnitsAre
  <2>2. u[1] = v[1]
    BY <1>2, <2>1
  <2> QED
    BY <2>1, <2>2
<1>5. n \in Injection(Units(h), Units(f))
  BY <1>3, <1>4 DEF Injection, IsInjective
<1> HIDE DEF n
<1>6. IsFiniteSet(Units(f))
  BY SumFinite
<1>7. Cardinality(Units(h)) <= Cardinality(Units(f))
  BY <1>5, <1>6, FS_Injection
<1> QED
  BY <1>7, UnitsAre

\* A sum of equal terms.
LEMMA SumConstant ==
    ASSUME NEW S, IsFiniteSet(S), NEW n \in Nat, NEW f \in [S -> Nat], \A x \in S : f[x] = n
    PROVE  Sum(f) = Cardinality(S) * n
<1>1. Units(f) = S \X (1..n)
  <2>1. ASSUME NEW u \in Units(f) PROVE u \in S \X (1..n)
    <3>1. u = <<u[1], u[2]>> /\ u[1] \in S /\ u[2] \in 1..f[u[1]]
      BY UnitsAre
    <3> QED
      BY <3>1
  <2>2. ASSUME NEW u \in S \X (1..n) PROVE u \in Units(f)
    <3>1. u = <<u[1], u[2]>> /\ u[1] \in S /\ u[2] \in 1..f[u[1]]
      OBVIOUS
    <3> QED
      BY <3>1, UnitsAre
  <2> QED
    BY <2>1, <2>2
<1>2. IsFiniteSet(1..n) /\ Cardinality(1..n) = n
  <2>1. 1 \in Int /\ n \in Int
    OBVIOUS
  <2>2. IsFiniteSet(1..n) /\ Cardinality(1..n) = IF 1 > n THEN 0 ELSE n - 1 + 1
    BY <2>1, FS_Interval
  <2> QED
    BY <2>2
<1>3. Cardinality(S \X (1..n)) = Cardinality(S) * Cardinality(1..n)
  BY <1>2, FS_Product
<1> QED
  BY <1>1, <1>2, <1>3, UnitsAre

-----------------------------------------------------------------------------
(***************************************************************************)
(* The quotas.  A capture whose marker is locked counts with all it may    *)
(* retain, any other with what it holds.  That sum only falls, but when a  *)
(* reservation is granted; so what was measured of it is never too little. *)
(***************************************************************************)
Due(o)  == IF capture[o[1]].marker = "locked" THEN Cap ELSE object[o].size
Owed(C) == Sum([o \in C \X Stream |-> Due(o)])
On(S)   == {c \in Capture : capture[c].on \in S}

\* No file is larger than a stream may be, also with what is still to land.
Sized ==
    \A o \in Object :
        /\ object[o].size <= Cap
        /\ late[o] = "write" => object[o].size < Cap
        /\ object[o].ext = "none" \/ capture[o[1]].on = None => object[o].size = 0

\* What an operation has listed and added up.
Counts ==
    \A p \in Proc :
        /\ op[p].own \in Nat /\ op[p].total \in Nat
        /\ op[p].leases \subseteq Capture /\ op[p].names \subseteq Object \X {"partial", "raw"}

\* A listing covers every reservation of the session and every file.
Listing(p, s) ==
    /\ s \in Session
    /\ \A c \in Capture : capture[c].on = s /\ capture[c].marker = "locked" => c \in op[p].leases
    /\ \A o \in Object : SessionOf(o) = s /\ object[o].ext # "none" =>
            o[1] \in op[p].leases \/ <<o, object[o].ext>> \in op[p].names

\* What was added up is no less than what is owed.
Counting(p) ==
    /\ At(p, "own.read") => Listing(p, op[p].on)
    /\ At(p, "all.read") => \E s \in Session \ op[p].left :
            Listing(p, s) /\ Owed(On((Session \ op[p].left) \ {s})) <= op[p].total
    /\ op[p].at \in {"all.list", "all.read", "grant"} => Owed(On({op[p].on})) <= op[p].own
    /\ At(p, "all.list") => Owed(On(Session \ op[p].left)) <= op[p].total
    /\ At(p, "grant") => Owed(On(Session)) <= op[p].total

Granted ==
    /\ \A s \in Session : Owed(On({s})) <= SessionQuota
    /\ Owed(On(Session)) <= StoreQuota

QuotaInv ==
    ArchiveInv /\ Sized /\ Counts /\ (overran \/ (Granted /\ \A p \in Proc : Counting(p)))

-----------------------------------------------------------------------------
(***************************************************************************)
(* What is owed.                                                           *)
(***************************************************************************)
\* A stream's cap is a number, and there are so many streams.
LEMMA Numbers ==
    /\ Cap \in Nat /\ SessionQuota \in Nat /\ StoreQuota \in Nat
    /\ IsFiniteSet(Stream) /\ Cardinality(Stream) \in Nat /\ Allowance \in Nat
    /\ IsFiniteSet(Capture)
<1>1. Cap \in Nat /\ SessionQuota \in Nat /\ StoreQuota \in Nat /\ MaxCaptures \in Nat
  BY QuotaAssumption
<1>2. IsFiniteSet(Stream) /\ Cardinality(Stream) \in Nat
  BY StreamAssumption, FS_CardinalityType
<1>3. IsFiniteSet(Capture)
  <2>1. 1 \in Int /\ MaxCaptures \in Int
    BY <1>1
  <2> QED
    BY <2>1, FS_Interval DEF Capture
<1> QED
  BY <1>1, <1>2, <1>3 DEF Allowance

\* The objects of captures.
LEMMA FilesOf ==
    ASSUME NEW C \in SUBSET Capture
    PROVE  /\ IsFiniteSet(C) /\ IsFiniteSet(C \X Stream) /\ C \X Stream \subseteq Object
           /\ \A o \in Object : o \in C \X Stream <=> o[1] \in C
<1>1. IsFiniteSet(C)
  BY Numbers, FS_Subset
<1> QED
  BY <1>1, Numbers, FS_Product DEF Object

\* A locked capture counts with its cap, which is the most an object holds.
LEMMA DueIs ==
    ASSUME Shaped, Sized, NEW o \in Object
    PROVE  /\ Due(o) \in Nat /\ Due(o) <= Cap /\ object[o].size \in Nat /\ object[o].size <= Due(o)
           /\ capture[o[1]].marker # "locked" => Due(o) = object[o].size
<1>1. object[o].size \in Nat /\ object[o].size <= Cap
  BY DEF Shaped, Files, Sized
<1> QED
  BY <1>1, Numbers DEF Due

\* What captures owe is a sum.
LEMMA OwedIs ==
    ASSUME Shaped, Sized, NEW C \in SUBSET Capture
    PROVE  /\ [o \in C \X Stream |-> Due(o)] \in [C \X Stream -> Nat]
           /\ Owed(C) \in Nat
<1>1. [o \in C \X Stream |-> Due(o)] \in [C \X Stream -> Nat]
  BY FilesOf, DueIs
<1> QED
  BY <1>1, FilesOf, SumFinite DEF Owed

\* Captures together owe no more than apart, and none owe nothing.
LEMMA OwedTogether ==
    ASSUME Shaped, Sized, NEW C \in SUBSET Capture, NEW D \in SUBSET Capture
    PROVE  Owed(C \cup D) <= Owed(C) + Owed(D)
<1> DEFINE h == [o \in (C \cup D) \X Stream |-> Due(o)]
           f == [o \in C \X Stream |-> Due(o)]
           g == [o \in D \X Stream |-> Due(o)]
<1>1. h \in [(C \cup D) \X Stream -> Nat] /\ f \in [C \X Stream -> Nat] /\ g \in [D \X Stream -> Nat]
  <2>1. C \cup D \in SUBSET Capture
    OBVIOUS
  <2> QED
    BY <2>1, OwedIs
<1>2. IsFiniteSet(C \X Stream) /\ IsFiniteSet(D \X Stream)
  BY FilesOf
<1>3. \A o \in (C \cup D) \X Stream :
        \/ o \in C \X Stream /\ h[o] <= f[o]
        \/ o \in D \X Stream /\ h[o] <= g[o]
  <2> SUFFICES ASSUME NEW o \in (C \cup D) \X Stream
               PROVE  \/ o \in C \X Stream /\ h[o] <= f[o]
                      \/ o \in D \X Stream /\ h[o] <= g[o]
    OBVIOUS
  <2>1. Due(o) \in Nat
    BY <1>1
  <2> QED
    BY <2>1
<1> HIDE DEF h, f, g
<1>4. Sum(h) <= Sum(f) + Sum(g)
  BY ZenonT(30), <1>1, <1>2, <1>3, SumSplits
<1> QED
  BY <1>4 DEF h, f, g, Owed

LEMMA OwedOfNone == Owed({}) = 0
<1> DEFINE f == [o \in {} \X Stream |-> Due(o)]
<1>1. {} \X Stream = {}
  OBVIOUS
<1>2. Units(f) = {} /\ f \in [{} -> Nat]
  BY <1>1 DEF Units
<1>3. Sum(f) = 0
  <2> HIDE DEF f
  <2> QED
    BY <1>2, UnitsAre, FS_EmptySet
<1> QED
  BY <1>3 DEF Owed

\* The caps of the streams of captures are their allowances.
LEMMA Caps ==
    ASSUME NEW C \in SUBSET Capture
    PROVE  /\ [o \in C \X Stream |-> Cap] \in [C \X Stream -> Nat]
           /\ Sum([o \in C \X Stream |-> Cap]) = Cardinality(C) * Allowance
<1> DEFINE f == [o \in C \X Stream |-> Cap]
<1>1. f \in [C \X Stream -> Nat] /\ \A o \in C \X Stream : f[o] = Cap
  BY Numbers
<1>2. IsFiniteSet(C) /\ IsFiniteSet(C \X Stream)
  BY FilesOf
<1> HIDE DEF f
<1>3. Sum(f) = Cardinality(C \X Stream) * Cap
  BY <1>1, <1>2, Numbers, SumConstant
<1>4. Cardinality(C \X Stream) = Cardinality(C) * Cardinality(Stream)
  BY <1>2, Numbers, FS_Product
<1>5. Cardinality(C) \in Nat
  BY <1>2, FS_CardinalityType
<1>6. \A a \in Nat : \A b \in Nat : \A c \in Nat : (a * b) * c = a * (c * b)
  OBVIOUS
<1>7. Sum(f) = Cardinality(C) * (Cap * Cardinality(Stream))
  BY <1>3, <1>4, <1>5, <1>6, Numbers
<1> QED
  BY <1>1, <1>7 DEF f, Allowance

-----------------------------------------------------------------------------
(***************************************************************************)
(* What a step that grants nothing does to it.                             *)
(***************************************************************************)
\* No capture changes its session or is locked anew, no file of one that is not
\* locked grows, and none gets a name but while its capture is locked.
Calm ==
    /\ \A c \in Capture :
        /\ capture'[c].on = capture[c].on
        /\ capture'[c].marker = "locked" => capture[c].marker = "locked"
    /\ \A o \in Object : capture[o[1]].marker # "locked" =>
        /\ object'[o].size <= object[o].size
        /\ object'[o].ext # "none" => object'[o].ext = object[o].ext

\* What is owed falls.
LEMMA OwedFalls ==
    ASSUME Shaped, Sized, Shaped', Sized', Calm, NEW S
    PROVE  /\ On(S)' = On(S) /\ Owed(On(S)) \in Nat /\ Owed(On(S))' \in Nat
           /\ Owed(On(S))' <= Owed(On(S))
<1> DEFINE D == On(S) \X Stream
           h == [o \in D |-> Due(o)']
           f == [o \in D |-> Due(o)]
<1>1. On(S)' = On(S)
  BY DEF Calm, On
<1>2. On(S) \in SUBSET Capture
  BY DEF On
<1>3. D \subseteq Object /\ IsFiniteSet(D)
  BY <1>2, FilesOf
<1>4. ASSUME NEW o \in Object
      PROVE  Due(o) \in Nat /\ Due(o)' \in Nat /\ Due(o)' <= Due(o)
  <2>1. Due(o) \in Nat /\ Due(o) <= Cap /\ object[o].size <= Due(o)
    BY DueIs
  <2>2. Due(o)' \in Nat /\ object'[o].size \in Nat /\ object'[o].size <= Cap
    <3>1. object'[o].size \in Nat
      BY DEF Shaped, Files
    <3>2. object'[o].size <= Cap
      BY DEF Sized
    <3> QED
      BY <3>1, <3>2, Numbers DEF Due
  <2>3. CASE capture[o[1]].marker = "locked"
    BY <2>1, <2>2, <2>3, Numbers DEF Due
  <2>4. CASE capture[o[1]].marker # "locked"
    <3>1. capture'[o[1]].marker # "locked"
      BY <2>4, ObjectParts DEF Calm
    <3>2. object'[o].size <= object[o].size
      BY <2>4 DEF Calm
    <3> QED
      BY <2>1, <2>2, <2>4, <3>1, <3>2 DEF Due
  <2> QED
    BY <2>3, <2>4
<1>5. h \in [D -> Nat] /\ f \in [D -> Nat] /\ \A o \in D : o \in D /\ h[o] <= f[o]
  BY <1>3, <1>4
<1>6. Owed(On(S))' = Sum(h)
  BY <1>1 DEF Owed, Sum
<1>7. Owed(On(S)) = Sum(f)
  BY DEF Owed
<1> HIDE DEF h, f, D
<1>8. Sum(h) <= Sum(f) /\ Sum(h) \in Nat /\ Sum(f) \in Nat
  BY <1>3, <1>5, SumGrows, SumFinite
<1> QED
  BY <1>1, <1>6, <1>7, <1>8

\* What an operation counts with stays as it is.
Same(p) ==
    /\ op'[p].at = op[p].at /\ op'[p].on = op[p].on /\ op'[p].left = op[p].left
    /\ op'[p].leases = op[p].leases /\ op'[p].names = op[p].names
    /\ op'[p].own = op[p].own /\ op'[p].total = op[p].total

\* A listing covers what is left of what it covered.
LEMMA ListingStays ==
    ASSUME Shaped, Calm, NEW p \in Proc, NEW s, Listing(p, s),
           op'[p].leases = op[p].leases, op'[p].names = op[p].names
    PROVE  Listing(p, s)'
<1>1. ASSUME NEW c \in Capture, capture'[c].on = s, capture'[c].marker = "locked"
      PROVE  c \in op'[p].leases
  BY <1>1 DEF Calm, Listing
<1>2. ASSUME NEW o \in Object, capture'[o[1]].on = s, object'[o].ext # "none"
      PROVE  o[1] \in op'[p].leases \/ <<o, object'[o].ext>> \in op'[p].names
  <2>1. o[1] \in Capture /\ capture[o[1]].on = s
    BY <1>2, ObjectParts DEF Calm
  <2>2. CASE capture[o[1]].marker = "locked"
    BY <2>1, <2>2 DEF Listing
  <2>3. CASE capture[o[1]].marker # "locked"
    <3>1. object'[o].ext = object[o].ext
      BY <1>2, <2>3 DEF Calm
    <3> QED
      BY <1>2, <2>1, <3>1 DEF Listing, SessionOf
  <2> QED
    BY <2>2, <2>3
<1> QED
  BY <1>1, <1>2 DEF Listing, SessionOf

\* So does what was added up.
LEMMA CountingStays ==
    ASSUME Shaped, Sized, Counts, Shaped', Sized', Calm, NEW p \in Proc, Same(p), Counting(p)
    PROVE  Counting(p)'
<1> USE DEF Same, At
<1>1. ASSUME NEW S, NEW n \in Nat, Owed(On(S)) <= n
      PROVE  Owed(On(S))' <= n
  BY <1>1, OwedFalls
<1>2. op[p].own \in Nat /\ op[p].total \in Nat
  BY DEF Counts
<1>3. op[p].at = "own.read" => Listing(p, op[p].on)'
  BY ListingStays DEF Counting
<1>4. ASSUME op[p].at = "all.read"
      PROVE  \E s \in Session \ op[p].left :
                 Listing(p, s)' /\ Owed(On((Session \ op[p].left) \ {s}))' <= op[p].total
  <2>1. PICK s \in Session \ op[p].left :
            Listing(p, s) /\ Owed(On((Session \ op[p].left) \ {s})) <= op[p].total
    BY <1>4 DEF Counting
  <2>2. Listing(p, s)'
    BY <2>1, ListingStays
  <2>3. Owed(On((Session \ op[p].left) \ {s}))' <= op[p].total
    BY <1>1, <1>2, <2>1
  <2> QED
    BY <2>2, <2>3
<1>5. ASSUME op[p].at \in {"all.list", "all.read", "grant"}
      PROVE  Owed(On({op[p].on}))' <= op[p].own
  BY <1>1, <1>2, <1>5 DEF Counting
<1>6. ASSUME op[p].at = "all.list"
      PROVE  Owed(On(Session \ op[p].left))' <= op[p].total
  BY <1>1, <1>2, <1>6 DEF Counting
<1>7. ASSUME op[p].at = "grant"
      PROVE  Owed(On(Session))' <= op[p].total
  BY <1>1, <1>2, <1>7 DEF Counting
<1> QED
  BY <1>3, <1>4, <1>5, <1>6, <1>7 DEF Counting

-----------------------------------------------------------------------------
(***************************************************************************)
(* What is measured, and what is granted.                                  *)
(***************************************************************************)
\* The bytes of names that were listed are a sum.
LEMMA SizesAre ==
    ASSUME Shaped, NEW N \in SUBSET (Object \X {"partial", "raw"})
    PROVE  /\ IsFiniteSet(N) /\ Sizes(N) \in Nat
           /\ [n \in N |-> Found(n)] \in [N -> Nat]
<1>1. IsFiniteSet(Object)
  BY Numbers, FS_Product DEF Object
<1>2. IsFiniteSet({"partial", "raw"})
  <2>1. {"partial", "raw"} = {"partial"} \cup {"raw"}
    OBVIOUS
  <2>2. IsFiniteSet({"partial"})
    BY FS_Singleton
  <2>3. IsFiniteSet({"partial"} \cup {"raw"})
    BY <2>2, FS_AddElement
  <2> QED
    BY <2>1, <2>3
<1>3. IsFiniteSet(N)
  BY <1>1, <1>2, FS_Product, FS_Subset
<1>4. ASSUME NEW n \in N PROVE Found(n) \in Nat
  <2>1. n[1] \in Object
    OBVIOUS
  <2>2. object[n[1]].size \in Nat
    BY <2>1 DEF Shaped, Files
  <2> QED
    BY <2>2 DEF Found
<1>5. [n \in N |-> Found(n)] \in [N -> Nat]
  BY <1>4
<1> QED
  BY <1>3, <1>5, SumFinite DEF Sizes

\* A usage is a sum, in which a lease counts with no less than its allowance.
LEMMA UsageIs ==
    ASSUME Shaped, NEW L \in SUBSET Capture, NEW N \in SUBSET (Object \X {"partial", "raw"})
    PROVE  /\ Usage(L, N) \in Nat
           /\ \A c \in L : Charge(c, N) \in Nat /\ Allowance <= Charge(c, N)
<1> DEFINE k == [c \in L |-> Charge(c, N)]
           M == N \ UNION {Covered(c, N) : c \in L}
<1>1. ASSUME NEW c \in L PROVE Charge(c, N) \in Nat /\ Allowance <= Charge(c, N)
  <2>1. Covered(c, N) \in SUBSET (Object \X {"partial", "raw"})
    BY DEF Covered
  <2>2. Sizes(Covered(c, N)) \in Nat
    BY <2>1, SizesAre
  <2> QED
    BY <2>2, Numbers DEF Charge
<1>2. k \in [L -> Nat] /\ IsFiniteSet(L)
  BY <1>1, FilesOf
<1>3. Sum(k) \in Nat
  <2> HIDE DEF k
  <2> QED
    BY <1>2, SumFinite
<1>4. M \in SUBSET (Object \X {"partial", "raw"})
  OBVIOUS
<1>5. Sizes(M) \in Nat
  <2> HIDE DEF M
  <2> QED
    BY <1>4, SizesAre
<1>6. Usage(L, N) = Sum(k) + Sizes(M)
  BY DEF Usage
<1> QED
  BY <1>1, <1>3, <1>5, <1>6

\* The usage measured from a listing that covers a session is no less than what
\* the session owes: its reservations are in it with their allowance, and every
\* other file by the name it still has.
LEMMA MeasuredEnough ==
    ASSUME Shaped, Sized, Counts, NEW p \in Proc, NEW s, Listing(p, s)
    PROVE  LET usage == Usage(op[p].leases, op[p].names)
           IN  usage \in Nat /\ Owed(On({s})) <= usage
<1> DEFINE L == op[p].leases
           N == op[p].names
           C == On({s})
           A == L \X Stream
           B == {o \in Object : o[1] \in C /\ o[1] \notin L /\ object[o].ext # "none"}
           M == N \ UNION {Covered(c, N) : c \in L}
           h == [o \in C \X Stream |-> Due(o)]
           a == [o \in A |-> Cap]
           b == [o \in B |-> object[o].size]
           k == [c \in L |-> Charge(c, N)]
           l == [c \in L |-> Allowance]
           f == [n \in M |-> Found(n)]
<1>1. L \in SUBSET Capture /\ N \in SUBSET (Object \X {"partial", "raw"}) /\ C \in SUBSET Capture
  BY DEF Counts, On
<1>2. M \in SUBSET (Object \X {"partial", "raw"})
  BY <1>1
<1>3. IsFiniteSet(L) /\ IsFiniteSet(A) /\ A \subseteq Object /\ C \X Stream \subseteq Object
  BY <1>1, FilesOf
<1>4. IsFiniteSet(B)
  <2>1. IsFiniteSet(Object) /\ B \in SUBSET Object
    BY Numbers, FS_Product DEF Object
  <2> QED
    BY <2>1, FS_Subset
<1>5. ASSUME NEW c \in L PROVE Charge(c, N) \in Nat /\ Allowance <= Charge(c, N)
  BY <1>1, UsageIs
<1>6. k \in [L -> Nat] /\ l \in [L -> Nat] /\ \A c \in L : c \in L /\ l[c] <= k[c] /\ l[c] = Allowance
  BY <1>5, Numbers
<1>7. Usage(L, N) = Sum(k) + Sum(f)
  BY DEF Usage, Sizes
<1>8. f \in [M -> Nat] /\ IsFiniteSet(M) /\ Sum(f) \in Nat
  <2> HIDE DEF M
  <2> QED
    BY <1>2, SizesAre DEF Sizes
<1>9. Sum(k) \in Nat /\ Sum(l) <= Sum(k)
  <2> HIDE DEF k, l, L
  <2> QED
    BY <1>3, <1>6, SumFinite, SumGrows
<1>10. a \in [A -> Nat] /\ Sum(a) = Sum(l)
  <2>1. a \in [A -> Nat] /\ Sum(a) = Cardinality(L) * Allowance
    BY <1>1, Caps
  <2>2. Sum(l) = Cardinality(L) * Allowance
    <3> HIDE DEF l, L
    <3> QED
      BY <1>3, <1>6, Numbers, SumConstant
  <2> QED
    BY <2>1, <2>2
<1>11. b \in [B -> Nat] /\ \A o \in B : object[o].size \in Nat
  BY DueIs
<1>12. Sum(b) <= Sum(f)
  <2> DEFINE m == [o \in B |-> <<o, object[o].ext>>]
  <2>1. ASSUME NEW o \in B
        PROVE  m[o] \in M /\ Found(m[o]) = object[o].size
    <3>1. o \in Object /\ o[1] \in C /\ o[1] \notin L /\ object[o].ext # "none"
      OBVIOUS
    <3>2. capture[o[1]].on = s
      BY <3>1 DEF On
    <3>3. m[o] = <<o, object[o].ext>> /\ m[o] \in N
      BY <3>1, <3>2 DEF Listing, SessionOf
    <3>4. \A c \in L : m[o] \notin Covered(c, N)
      <4> SUFFICES ASSUME NEW c \in L, m[o] \in Covered(c, N) PROVE FALSE
        OBVIOUS
      <4>1. m[o][1] = o /\ m[o][1] \in Of(c)
        BY <3>3 DEF Covered
      <4>2. o[1] = c
        BY <1>1, <4>1, ObjectParts
      <4> QED
        BY <3>1, <4>2
    <3>5. Found(m[o]) = object[o].size
      BY <3>3 DEF Found
    <3> QED
      BY <3>3, <3>4, <3>5
  <2>2. \A x \in B : \A y \in B : m[x] = m[y] => x = y
    OBVIOUS
  <2>3. DOMAIN m = B /\ m = [o \in B |-> m[o]]
    OBVIOUS
  <2>4. ASSUME NEW o \in B PROVE b[o] <= f[m[o]]
    <3>1. b[o] = object[o].size /\ object[o].size \in Nat
      BY <1>11
    <3>2. m[o] \in M /\ Found(m[o]) = object[o].size
      BY <2>1
    <3>3. \A n \in M : f[n] = Found(n)
      OBVIOUS
    <3> HIDE DEF b, f, m, M
    <3> QED
      BY <3>1, <3>2, <3>3
  <2> HIDE DEF m, B, M, b, f
  <2>5. m \in Injection(B, M)
    BY <2>1, <2>2, <2>3 DEF Injection, IsInjective
  <2> QED
    BY <1>8, <1>11, <2>4, <2>5, SumRenamed
<1>13. h \in [C \X Stream -> Nat]
  BY <1>1, OwedIs
<1>14. ASSUME NEW o \in C \X Stream
       PROVE  \/ o \in A /\ h[o] <= a[o]
              \/ o \in B /\ h[o] <= b[o]
              \/ h[o] = 0
  <2>1. o \in Object /\ o[1] \in C /\ h[o] = Due(o) /\ Due(o) \in Nat /\ Due(o) <= Cap
    BY <1>3, DueIs
  <2>2. CASE o[1] \in L
    <3>1. o \in A
      BY <1>1, <2>1, <2>2, FilesOf
    <3> QED
      BY <2>1, <3>1
  <2>3. CASE o[1] \notin L
    <3>1. capture[o[1]].on = s /\ o[1] \in Capture
      BY <2>1 DEF On
    <3>2. capture[o[1]].marker # "locked"
      BY <2>3, <3>1 DEF Listing
    <3>3. Due(o) = object[o].size
      BY <2>1, <3>2, DueIs
    <3>4. CASE object[o].ext = "none"
      BY <2>1, <3>3, <3>4 DEF Sized
    <3>5. CASE object[o].ext # "none"
      BY <2>1, <2>3, <3>3, <3>5
    <3> QED
      BY <3>4, <3>5
  <2> QED
    BY <2>2, <2>3
<1>15. Owed(C) = Sum(h) /\ Owed(C) \in Nat
  <2> HIDE DEF C
  <2> QED
    BY <1>1, OwedIs DEF Owed
<1>16. Sum(b) \in Nat /\ Sum(a) \in Nat
  <2> HIDE DEF A, B, a, b
  <2> QED
    BY <1>3, <1>4, <1>10, <1>11, SumFinite
<1> HIDE DEF L, N, C, A, B, M, h, a, b, k, l, f
<1>17. Sum(h) <= Sum(a) + Sum(b)
  <2> DEFINE D == C \X Stream
  <2>1. h \in [D -> Nat] /\ a \in [A -> Nat] /\ b \in [B -> Nat] /\ IsFiniteSet(A) /\ IsFiniteSet(B)
    BY <1>3, <1>4, <1>10, <1>11, <1>13
  <2>2. \A o \in D :
            (o \in A /\ h[o] <= a[o]) \/ (o \in B /\ h[o] <= b[o]) \/ h[o] = 0
    BY <1>14
  <2> HIDE DEF D
  <2> QED
    BY ONLY <2>1, <2>2, SumSplits
<1>18. Usage(L, N) \in Nat /\ Owed(C) <= Usage(L, N)
  BY <1>7, <1>8, <1>9, <1>10, <1>12, <1>15, <1>16, <1>17
<1> QED
  BY <1>18 DEF L, N, C

\* What is owed within the quotas is what the archives hold within them.
LEMMA GrantedHolds ==
    ASSUME Shaped, Sized, Granted
    PROVE  /\ Bytes(Object) <= StoreQuota
           /\ \A s \in Session : Bytes(Here(s)) <= SessionQuota
<1>1. ASSUME NEW S, NEW O \in SUBSET Object,
             \A o \in O : o[1] \in On(S) \/ object[o].size = 0
      PROVE  Bytes(O) \in Nat /\ Owed(On(S)) \in Nat /\ Bytes(O) <= Owed(On(S))
  <2> DEFINE D == On(S) \X Stream
             h == [o \in O |-> object[o].size]
             f == [o \in D |-> Due(o)]
  <2>1. On(S) \in SUBSET Capture
    BY DEF On
  <2>2. IsFiniteSet(D) /\ D \subseteq Object /\ f \in [D -> Nat] /\ Owed(On(S)) \in Nat
        /\ \A o \in Object : o[1] \in On(S) => o \in D
    BY <2>1, FilesOf, OwedIs
  <2>3. \A o \in Object : object[o].size \in Nat /\ Due(o) \in Nat /\ object[o].size <= Due(o)
    BY DueIs
  <2>4. h \in [O -> Nat] /\ \A o \in O : (o \in D /\ h[o] <= f[o]) \/ h[o] = 0
    <3>1. ASSUME NEW o \in O PROVE (o \in D /\ h[o] <= f[o]) \/ h[o] = 0
      <4>1. o \in Object /\ h[o] = object[o].size
        OBVIOUS
      <4>2. CASE o[1] \in On(S)
        BY <2>2, <2>3, <4>1, <4>2
      <4>3. CASE object[o].size = 0
        BY <4>1, <4>3
      <4> QED
        BY <1>1, <4>2, <4>3
    <3>2. h \in [O -> Nat]
      BY <2>3
    <3> QED
      BY <3>1, <3>2
  <2>5. Bytes(O) = Sum(h) /\ Owed(On(S)) = Sum(f)
    BY DEF Bytes, Owed
  <2>6. IsFiniteSet(O)
    <3>1. IsFiniteSet(Object)
      BY Numbers, FS_Product DEF Object
    <3> QED
      BY <3>1, FS_Subset
  <2> HIDE DEF D, h, f
  <2>7. Sum(h) <= Sum(f) /\ Sum(h) \in Nat
    BY <2>2, <2>4, <2>6, SumGrows, SumFinite
  <2> QED
    BY <2>2, <2>5, <2>7
<1>2. Bytes(Object) <= StoreQuota
  <2>1. \A o \in Object : o[1] \in On(Session) \/ object[o].size = 0
    <3> SUFFICES ASSUME NEW o \in Object, o[1] \notin On(Session) PROVE object[o].size = 0
      OBVIOUS
    <3>1. o[1] \in Capture /\ capture[o[1]].on \in Session \cup {None}
      BY ObjectParts DEF Shaped, Files
    <3>2. capture[o[1]].on = None
      BY <3>1 DEF On
    <3> QED
      BY <3>2 DEF Sized
  <2>2. Bytes(Object) \in Nat /\ Owed(On(Session)) \in Nat /\ Bytes(Object) <= Owed(On(Session))
    BY <1>1, <2>1
  <2> QED
    BY <2>2, Numbers DEF Granted
<1>3. ASSUME NEW s \in Session PROVE Bytes(Here(s)) <= SessionQuota
  <2>1. Here(s) \in SUBSET Object /\ \A o \in Here(s) : o[1] \in On({s})
    BY ObjectParts DEF Here, On, SessionOf
  <2>2. Bytes(Here(s)) \in Nat /\ Owed(On({s})) \in Nat /\ Bytes(Here(s)) <= Owed(On({s}))
    BY <1>1, <2>1
  <2> QED
    BY <2>2, Numbers DEF Granted
<1> QED
  BY <1>2, <1>3

\* A reservation adds its allowance to what is owed.
LEMMA OwedRises ==
    ASSUME ArchiveInv, Sized, Shaped', NEW p \in Proc, NEW c \in Capture, Mark(p, c),
           NEW S \in SUBSET Session
    PROVE  /\ Owed(On(S)) \in Nat /\ Owed(On(S))' \in Nat
           /\ Owed(On(S))' <= Owed(On(S)) + Allowance
           /\ op[p].on \notin S => Owed(On(S))' <= Owed(On(S))
<1> DEFINE C == On(S)
           E == On(S)'
           h == [o \in E \X Stream |-> Due(o)']
           f == [o \in C \X Stream |-> Due(o)]
           g == [o \in {c} \X Stream |-> Cap]
<1>1. Shaped
  BY DEF ArchiveInv
<1>2. UNCHANGED object /\ capture[c] = Unused
      /\ capture' = [capture EXCEPT ![c] =
             [on |-> op[p].on, by |-> p, lease |-> "none", marker |-> "locked"]]
  BY DEF Mark, file, Used
<1>3. /\ capture'[c].on = op[p].on /\ capture'[c].marker = "locked"
      /\ \A d \in Capture \ {c} : capture'[d] = capture[d]
  BY <1>1, <1>2 DEF Shaped, Files
<1>4. capture[c].on = None /\ None \notin S
  BY <1>2, NoneAssumption DEF Unused
<1>5. C \in SUBSET Capture /\ E \in SUBSET Capture /\ {c} \in SUBSET Capture
  BY DEF On
<1>6. c \notin C /\ E \subseteq C \cup {c} /\ (op[p].on \notin S => E \subseteq C)
  BY <1>3, <1>4 DEF On
<1>7. \A o \in Object : o[1] # c => Due(o)' = Due(o)
  BY <1>2, <1>3, ObjectParts DEF Due
<1>8. \A o \in Object : o[1] = c => Due(o)' = Cap
  BY <1>3 DEF Due
<1>9. \A o \in Object : Due(o) \in Nat /\ Due(o)' \in Nat
  BY <1>1, <1>7, <1>8, DueIs, Numbers
<1>10. /\ IsFiniteSet(C \X Stream) /\ IsFiniteSet({c} \X Stream) /\ IsFiniteSet(E \X Stream)
       /\ C \X Stream \subseteq Object /\ {c} \X Stream \subseteq Object /\ E \X Stream \subseteq Object
       /\ \A o \in Object : o \in C \X Stream <=> o[1] \in C
       /\ \A o \in Object : o \in {c} \X Stream <=> o[1] \in {c}
       /\ \A o \in Object : o \in E \X Stream <=> o[1] \in E
  BY <1>5, FilesOf
<1>11. h \in [E \X Stream -> Nat] /\ f \in [C \X Stream -> Nat] /\ g \in [{c} \X Stream -> Nat]
  BY <1>9, <1>10, Numbers
<1>12. ASSUME NEW o \in E \X Stream
       PROVE  \/ o \in C \X Stream /\ h[o] <= f[o]
              \/ o \in {c} \X Stream /\ h[o] <= g[o] /\ op[p].on \in S
  <2>1. o \in Object /\ o[1] \in E /\ h[o] = Due(o)' /\ Due(o)' \in Nat
    BY <1>9, <1>10
  <2>2. CASE o[1] = c
    <3>1. o \in {c} \X Stream /\ op[p].on \in S
      BY <1>3, <1>6, <1>10, <2>1, <2>2
    <3> QED
      BY <1>8, <2>1, <2>2, <3>1
  <2>3. CASE o[1] # c
    <3>1. o \in C \X Stream
      BY <1>6, <1>10, <2>1, <2>3
    <3> QED
      BY <1>7, <2>1, <2>3, <3>1
  <2> QED
    BY <2>2, <2>3
<1>13. Sum(g) = Allowance
  <2>1. Sum(g) = Cardinality({c}) * Allowance
    BY <1>5, Caps
  <2>2. Cardinality({c}) = 1
    BY FS_Singleton
  <2> QED
    BY <2>1, <2>2, Numbers
<1>14. Owed(On(S)) = Sum(f) /\ Owed(On(S))' = Sum(h)
  BY DEF Owed, Sum
<1> HIDE DEF C, E, h, f, g
<1>15. Sum(h) <= Sum(f) + Sum(g) /\ Sum(h) \in Nat /\ Sum(f) \in Nat
  <2>1. \A o \in E \X Stream :
          \/ o \in C \X Stream /\ h[o] <= f[o]
          \/ o \in {c} \X Stream /\ h[o] <= g[o]
          \/ h[o] = 0
    BY <1>12
  <2>2. Sum(h) <= Sum(f) + Sum(g)
    <3> DEFINE D == E \X Stream
               F == C \X Stream
               G == {c} \X Stream
    <3>1. /\ h \in [D -> Nat] /\ f \in [F -> Nat] /\ g \in [G -> Nat]
          /\ IsFiniteSet(F) /\ IsFiniteSet(G)
      BY <1>10, <1>11
    <3>2. \A o \in D :
            (o \in F /\ h[o] <= f[o]) \/ (o \in G /\ h[o] <= g[o]) \/ h[o] = 0
      BY <2>1
    <3> HIDE DEF D, F, G
    <3> QED
      BY ONLY <3>1, <3>2, SumSplits
  <2> QED
    BY <1>10, <1>11, <2>2, SumFinite
<1>16. op[p].on \notin S => Sum(h) <= Sum(f)
  <2> SUFFICES ASSUME op[p].on \notin S PROVE Sum(h) <= Sum(f)
    OBVIOUS
  <2>1. \A o \in E \X Stream : (o \in C \X Stream /\ h[o] <= f[o]) \/ h[o] = 0
    BY <1>12
  <2> QED
    BY <1>10, <1>11, <2>1, SumGrows
<1> QED
  BY <1>13, <1>14, <1>15, <1>16

-----------------------------------------------------------------------------
(***************************************************************************)
(* The steps.                                                              *)
(***************************************************************************)
\* What a step may do to a capture, and to a file, when it grants nothing.
Stays(c) ==
    /\ capture'[c].on = capture[c].on
    /\ capture'[c].marker = "locked" => capture[c].marker = "locked"
Kept(o) ==
    /\ object'[o] = object[o]
    /\ late'[o] = "write" => late[o] = "write" \/ object[o].size < Cap
Grown(o) ==
    /\ object'[o].size <= Cap /\ object'[o].ext # "none" /\ late'[o] # "write"
    /\ capture[o[1]].on # None /\ (capture[o[1]].marker = "locked" \/ overran')
Gone(o) == object'[o] = NoFile /\ (late'[o] = "write" => late[o] = "write")
Quiet ==
    /\ \A c \in Capture : Stays(c)
    /\ \A o \in Object : Kept(o) \/ Grown(o) \/ Gone(o)

LEMMA QuietStep ==
    ASSUME Shaped, Sized, Quiet
    PROVE  Sized' /\ (overran' \/ Calm)
<1>1. \A o \in Object : o[1] \in Capture /\ object[o].size \in Nat
  BY ObjectParts DEF Shaped, Files
<1>2. NoFile.ext = "none" /\ NoFile.size = 0
  BY DEF NoFile
<1>3. Sized'
  <2> SUFFICES ASSUME NEW o \in Object
               PROVE  /\ object'[o].size <= Cap
                      /\ late'[o] = "write" => object'[o].size < Cap
                      /\ object'[o].ext = "none" \/ capture'[o[1]].on = None => object'[o].size = 0
    BY DEF Sized
  <2>1. /\ object[o].size <= Cap
        /\ late[o] = "write" => object[o].size < Cap
        /\ object[o].ext = "none" \/ capture[o[1]].on = None => object[o].size = 0
    BY DEF Sized
  <2>2. capture'[o[1]].on = capture[o[1]].on
    BY <1>1 DEF Quiet, Stays
  <2>3. CASE Kept(o)
    BY <2>1, <2>2, <2>3 DEF Kept
  <2>4. CASE Grown(o)
    BY <2>2, <2>4 DEF Grown
  <2>5. CASE Gone(o)
    BY <1>1, <1>2, <2>1, <2>5, Numbers DEF Gone
  <2> QED
    BY <2>3, <2>4, <2>5 DEF Quiet
<1>4. ASSUME ~overran' PROVE Calm
  <2>1. ASSUME NEW o \in Object, capture[o[1]].marker # "locked"
        PROVE  /\ object'[o].size <= object[o].size
               /\ object'[o].ext # "none" => object'[o].ext = object[o].ext
    <3>1. ~Grown(o)
      BY <1>4, <2>1 DEF Grown
    <3>2. CASE Kept(o)
      BY <1>1, <3>2 DEF Kept
    <3>3. CASE Gone(o)
      BY <1>1, <1>2, <3>3 DEF Gone
    <3> QED
      BY <3>1, <3>2, <3>3 DEF Quiet
  <2> QED
    BY <2>1 DEF Calm, Quiet, Stays
<1> QED
  BY <1>3, <1>4

\* Nothing happens to what is not touched.
LEMMA Untouched ==
    /\ UNCHANGED capture => \A c \in Capture : Stays(c)
    /\ UNCHANGED <<object, late>> => \A o \in Object : Kept(o)
    /\ \A o \in Object : object'[o] = object[o] /\ late'[o] = late[o] => Kept(o)
    /\ \A c \in Capture : capture'[c] = capture[c] => Stays(c)
BY DEF Stays, Kept

\* A marker that a guard gives is no new lock.
LEMMA GuardStays ==
    ASSUME NEW c, NEW lease, NEW S, Guard(c, lease, S) = "locked"
    PROVE  capture[c].marker = "locked"
BY GuardIs

LEMMA DropSinkStays ==
    ASSUME ArchiveInv, NEW o \in Object, DropSink(o)
    PROVE  \A c \in Capture : Stays(c)
<1> DEFINE g == Guard(o[1], capture[o[1]].lease, [sink EXCEPT ![o] = "none"])
<1>1. capture' = [capture EXCEPT ![o[1]].marker = g]
  BY DEF DropSink
<1>2. g = "locked" => capture[o[1]].marker = "locked"
  BY GuardStays
<1> HIDE DEF g
<1>3. o[1] \in Capture
  BY ObjectParts
<1>4. ASSUME NEW c \in Capture PROVE Stays(c)
  <2>1. CASE c = o[1]
    BY <1>1, <1>2, <1>3, <2>1 DEF Stays, ArchiveInv, Shaped, Files
  <2>2. CASE c # o[1]
    <3>1. capture'[c] = capture[c]
      BY <1>1, <1>3, <2>2 DEF ArchiveInv, Shaped, Files
    <3> QED
      BY <3>1 DEF Stays
  <2> QED
    BY <2>1, <2>2
<1> QED
  BY <1>4

\* A sink's capture is locked, and was made.
LEMMA SinkFacts ==
    ASSUME ArchiveInv, NEW o \in Object
    PROVE  /\ sink[o] # "none" => capture[o[1]].marker = "locked" /\ object[o].ext = "partial"
           /\ sink[o] # "none" \/ late[o] # "none" => capture[o[1]].on # None
           /\ sink[o] = "open" => late[o] = "none"
BY MadeFacts DEF ArchiveInv, Sinks, Made

\* What sinks and calls do.
LEMMA FilesQuiet ==
    ASSUME ArchiveInv, Sized, NEW o \in Object,
           \/ Write(o) \/ FinishFailed(o) \/ Discard(o) \/ Land(o)
           \/ \E l \in {"none", "write"} : WriteFails(o, l)
           \/ \E l \in {"none", "rename"} : SealFails(o, l)
           \/ \E told \in BOOLEAN : Seal(o, told)
    PROVE  Quiet
<1>1. /\ object[o].size \in Nat /\ object[o].size <= Cap
      /\ late[o] = "write" => object[o].size < Cap
      /\ object \in [Object -> [ext : {"none", "partial", "raw"}, size : Nat]]
      /\ late \in [Object -> {"none", "write", "rename"}]
  BY DEF Sized, ArchiveInv, Shaped, Files
<1>2. ASSUME \A x \in Object \ {o} : object'[x] = object[x] /\ late'[x] = late[x],
             Kept(o) \/ Grown(o) \/ Gone(o)
      PROVE  \A x \in Object : Kept(x) \/ Grown(x) \/ Gone(x)
  BY <1>2, Untouched
<1>3. CASE Write(o)
  <2>1. /\ UNCHANGED <<capture, late>> /\ object[o].size < Cap /\ sink[o] = "open"
        /\ object' = [object EXCEPT ![o].size = @ + 1]
    BY <1>3 DEF Write, Working, making
  <2>2. object'[o].size = object[o].size + 1 /\ object'[o].ext = object[o].ext
        /\ \A x \in Object \ {o} : object'[x] = object[x]
    BY <1>1, <2>1
  <2>3. Grown(o)
    BY <1>1, <2>1, <2>2, SinkFacts, Numbers DEF Grown
  <2> QED
    BY <1>2, <2>1, <2>2, <2>3, Untouched DEF Quiet
<1>4. CASE FinishFailed(o)
  <2>1. UNCHANGED <<object, late>> /\ DropSink(o)
    BY <1>4 DEF FinishFailed, file
  <2> QED
    BY <2>1, Untouched, DropSinkStays DEF Quiet
<1>5. CASE Discard(o)
  <2>1. UNCHANGED late /\ object' = [object EXCEPT ![o] = NoFile] /\ DropSink(o)
    BY <1>5 DEF Discard
  <2>2. Gone(o) /\ \A x \in Object \ {o} : object'[x] = object[x]
    BY <1>1, <2>1 DEF Gone
  <2> QED
    BY <1>2, <2>1, <2>2, DropSinkStays DEF Quiet
<1>6. CASE \E told \in BOOLEAN : Seal(o, told)
  <2>1. /\ UNCHANGED late /\ sink[o] = "open" /\ DropSink(o)
        /\ object' = [object EXCEPT ![o].ext = "raw"]
    BY <1>6 DEF Seal, Working
  <2>2. object'[o].size = object[o].size /\ object'[o].ext = "raw"
        /\ \A x \in Object \ {o} : object'[x] = object[x]
    BY <1>1, <2>1
  <2>3. Grown(o)
    BY <1>1, <2>1, <2>2, SinkFacts DEF Grown
  <2> QED
    BY <1>2, <2>1, <2>2, <2>3, DropSinkStays DEF Quiet
<1>7. CASE \E l \in {"none", "write"} : WriteFails(o, l)
  <2>1. PICK l \in {"none", "write"} : WriteFails(o, l)
    BY <1>7
  <2>2. UNCHANGED <<capture, object>> /\ object[o].size < Cap /\ late' = [late EXCEPT ![o] = l]
    BY <2>1 DEF WriteFails
  <2>3. Kept(o) /\ \A x \in Object \ {o} : late'[x] = late[x]
    BY <1>1, <2>2 DEF Kept
  <2> QED
    BY <1>2, <2>2, <2>3, Untouched DEF Quiet
<1>8. CASE \E l \in {"none", "rename"} : SealFails(o, l)
  <2>1. PICK l \in {"none", "rename"} : SealFails(o, l)
    BY <1>8
  <2>2. UNCHANGED object /\ DropSink(o) /\ late' = [late EXCEPT ![o] = l]
    BY <2>1 DEF SealFails
  <2>3. Kept(o) /\ \A x \in Object \ {o} : late'[x] = late[x]
    BY <1>1, <2>2 DEF Kept
  <2> QED
    BY <1>2, <2>2, <2>3, DropSinkStays DEF Quiet
<1>9. CASE Land(o)
  <2>1. /\ UNCHANGED capture /\ late[o] # "none" /\ late' = [late EXCEPT ![o] = "none"]
        /\ overran' = (overran \/ capture[o[1]].marker # "locked")
        /\ object' = IF object[o].ext = "none" THEN object
                     ELSE IF late[o] = "write" THEN [object EXCEPT ![o].size = @ + 1]
                     ELSE [object EXCEPT ![o].ext = "raw"]
    BY <1>9 DEF Land, making
  <2>2. late'[o] = "none" /\ \A x \in Object \ {o} : late'[x] = late[x]
    BY <1>1, <2>1
  <2>3. capture[o[1]].on # None /\ (capture[o[1]].marker = "locked" \/ overran')
    BY <2>1, SinkFacts
  <2>4. CASE object[o].ext = "none"
    <3>1. UNCHANGED object
      BY <2>1, <2>4
    <3>2. Kept(o)
      BY <2>2, <3>1 DEF Kept
    <3> QED
      BY <1>2, <2>1, <2>2, <3>1, <3>2, Untouched DEF Quiet
  <2>5. CASE object[o].ext # "none" /\ late[o] = "write"
    <3>1. object' = [object EXCEPT ![o].size = @ + 1]
      BY <2>1, <2>5
    <3>2. object'[o].size = object[o].size + 1 /\ object'[o].ext = object[o].ext
          /\ \A x \in Object \ {o} : object'[x] = object[x]
      BY <1>1, <3>1
    <3>3. Grown(o)
      BY <1>1, <2>2, <2>3, <2>5, <3>2, Numbers DEF Grown
    <3> QED
      BY <1>2, <2>1, <2>2, <3>2, <3>3, Untouched DEF Quiet
  <2>6. CASE object[o].ext # "none" /\ late[o] # "write"
    <3>1. object' = [object EXCEPT ![o].ext = "raw"]
      BY <2>1, <2>6
    <3>2. object'[o].size = object[o].size /\ object'[o].ext = "raw"
          /\ \A x \in Object \ {o} : object'[x] = object[x]
      BY <1>1, <3>1
    <3>3. Grown(o)
      BY <1>1, <2>2, <2>3, <3>2 DEF Grown
    <3> QED
      BY <1>2, <2>1, <2>2, <3>2, <3>3, Untouched DEF Quiet
  <2> QED
    BY <2>4, <2>5, <2>6
<1> QED
  BY <1>3, <1>4, <1>5, <1>6, <1>7, <1>8, <1>9

\* What is done to captures.
LEMMA CapturesQuiet ==
    ASSUME ArchiveInv, Sized,
           \/ \E c \in Capture : TakeLease(c) \/ DropLease(c)
           \/ \E p \in Proc, s \in Session : Release(p, s)
           \/ \E p \in Proc : Refuse(p) \/ Crash(p)
           \/ \E p \in Proc, c \in Capture : Make(p, c) \/ CheckLease(p, c)
           \/ \E p \in Proc : \E n \in op[p].names : Remove(p, n)
    PROVE  Quiet
<1>1. /\ object \in [Object -> [ext : {"none", "partial", "raw"}, size : Nat]]
      /\ late \in [Object -> {"none", "write", "rename"}]
      /\ capture \in [Capture ->
             [on : Session \cup {None}, by : Proc \cup {None},
              lease : {"none", "filed", "taken"}, marker : {"absent", "locked", "left"}]]
  BY DEF ArchiveInv, Shaped, Files
<1>2. ASSUME NEW c \in Capture, TakeLease(c) PROVE Quiet
  <2>1. capture' = [capture EXCEPT ![c].lease = "taken"] /\ UNCHANGED <<object, late>>
    BY <1>2 DEF TakeLease, file
  <2>2. \A d \in Capture : Stays(d)
    BY <1>1, <2>1 DEF Stays
  <2> QED
    BY <2>1, <2>2, Untouched DEF Quiet
<1>3. ASSUME NEW c \in Capture, DropLease(c) PROVE Quiet
  <2>1. CASE capture[c].lease = "taken"
    <3> DEFINE g == Guard(c, "none", sink)
    <3>1. capture' = [capture EXCEPT ![c].lease = "none", ![c].marker = g] /\ UNCHANGED <<object, late>>
      BY <1>3, <2>1 DEF DropLease
    <3>2. g = "locked" => capture[c].marker = "locked"
      BY GuardStays
    <3> HIDE DEF g
    <3>3. \A d \in Capture : Stays(d)
      BY <1>1, <3>1, <3>2 DEF Stays
    <3> QED
      BY <3>1, <3>3, Untouched DEF Quiet
  <2>2. CASE capture[c].lease = "filed"
    <3>1. /\ capture' = [capture EXCEPT ![c].lease = "none", ![c].marker = "absent"]
          /\ object' = [o \in Object |-> IF o \in Of(c) THEN NoFile ELSE object[o]]
          /\ UNCHANGED late
      BY <1>3, <2>2 DEF DropLease
    <3>2. \A d \in Capture : Stays(d)
      BY <1>1, <3>1 DEF Stays
    <3>3. \A o \in Object : Kept(o) \/ Gone(o)
      BY <3>1 DEF Kept, Gone
    <3> QED
      BY <3>2, <3>3 DEF Quiet
  <2> QED
    BY <1>3, <2>1, <2>2 DEF DropLease
<1>4. ASSUME NEW p \in Proc, NEW s \in Session, Release(p, s) PROVE Quiet
  <2>1. /\ UNCHANGED <<object, late>>
        /\ capture' = [c \in Capture |->
               IF capture[c].on = s /\ capture[c].by = p /\ capture[c].lease = "taken"
               THEN [capture[c] EXCEPT !.lease = "none", !.marker = Guard(c, "none", sink)]
               ELSE capture[c]]
    BY <1>4 DEF Release, file
  <2>2. ASSUME NEW c \in Capture PROVE Stays(c)
    <3> DEFINE g == Guard(c, "none", sink)
    <3>1. capture'[c] = capture[c]
          \/ capture'[c] = [capture[c] EXCEPT !.lease = "none", !.marker = g]
      BY <2>1
    <3>2. g = "locked" => capture[c].marker = "locked"
      BY GuardStays
    <3> HIDE DEF g
    <3> QED
      BY <1>1, <3>1, <3>2 DEF Stays
  <2> QED
    BY <2>1, <2>2, Untouched DEF Quiet
<1>5. ASSUME NEW p \in Proc, Refuse(p) PROVE Quiet
  <2>1. UNCHANGED <<object, late>>
        /\ (UNCHANGED capture \/ capture' = [capture EXCEPT ![op[p].call].marker = "absent"])
    BY <1>5 DEF Refuse, file
  <2>2. \A d \in Capture : Stays(d)
    BY <1>1, <2>1 DEF Stays
  <2> QED
    BY <2>1, <2>2, Untouched DEF Quiet
<1>6. ASSUME NEW p \in Proc, Crash(p) PROVE Quiet
  <2>1. /\ UNCHANGED object
        /\ late' = [o \in Object |-> IF capture[o[1]].by = p THEN "none" ELSE late[o]]
        /\ capture' = [c \in Capture |->
               IF capture[c].by = p
               THEN [capture[c] EXCEPT !.lease = "none",
                        !.marker = IF @ = "locked" THEN "left" ELSE @]
               ELSE capture[c]]
    BY <1>6 DEF Crash, Dies
  <2>2. \A d \in Capture : Stays(d)
    BY ZenonT(30), <1>1, <2>1 DEF Stays
  <2>3. \A o \in Object : Kept(o)
    BY <2>1 DEF Kept
  <2> QED
    BY <2>2, <2>3 DEF Quiet
<1>7. ASSUME NEW p \in Proc, NEW c \in Capture, Make(p, c) PROVE Quiet
  <2>1. /\ UNCHANGED late
        /\ object' = [o \in Object |->
               IF o \in Of(c) THEN [ext |-> "partial", size |-> 0] ELSE object[o]]
        /\ \/ capture' = [capture EXCEPT ![c].marker = "absent"]
           \/ capture' = [capture EXCEPT ![c].lease = "filed"]
    BY <1>7 DEF Make
  <2>2. capture[c].marker = "locked" /\ capture[c].on = op[p].on /\ Blank(c)
    <3>1. op[p].at = "make" /\ op[p].call = c
      BY <1>7 DEF Make, At
    <3>2. Blank(c)
      BY <3>1 DEF ArchiveInv, Making
    <3>3. capture[c] = [on |-> op[p].on, by |-> p, lease |-> "none", marker |-> "locked"]
      BY <3>1 DEF ArchiveInv, Making
    <3> QED
      BY <3>2, <3>3
  <2>3. op[p].on \in Session
    BY <1>7 DEF Make, At, ArchiveInv, Shaped, Hands
  <2>4. \A d \in Capture : Stays(d)
    BY <1>1, <2>1 DEF Stays
  <2>5. ASSUME NEW o \in Object PROVE Kept(o) \/ Grown(o)
    <3>1. CASE o \in Of(c)
      <4>1. o[1] = c /\ late[o] = "none"
        BY <2>2, <3>1, ObjectParts DEF Blank
      <4>2. object'[o].size = 0 /\ object'[o].ext = "partial"
        BY <2>1, <3>1
      <4>3. capture[o[1]].on # None
        BY <2>2, <2>3, <4>1, NoneAssumption
      <4> QED
        BY <2>1, <2>2, <4>1, <4>2, <4>3, Numbers DEF Grown
    <3>2. CASE o \notin Of(c)
      BY <2>1, <3>2 DEF Kept
    <3> QED
      BY <3>1, <3>2
  <2> QED
    BY <2>4, <2>5 DEF Quiet
<1>8. ASSUME NEW p \in Proc, NEW c \in Capture, CheckLease(p, c) PROVE Quiet
  <2>1. UNCHANGED <<object, late>>
        /\ (UNCHANGED capture \/ capture' = [capture EXCEPT ![c].marker = "absent"])
    BY <1>8 DEF CheckLease, file
  <2>2. \A d \in Capture : Stays(d)
    BY <1>1, <2>1 DEF Stays
  <2> QED
    BY <2>1, <2>2, Untouched DEF Quiet
<1>9. ASSUME NEW p \in Proc, NEW n \in op[p].names, Remove(p, n) PROVE Quiet
  <2>1. /\ UNCHANGED <<capture, late>>
        /\ object' = object \/ object' = [object EXCEPT ![n[1]] = NoFile]
    BY <1>9 DEF Remove, making
  <2>2. \A o \in Object : Kept(o) \/ Gone(o)
    BY <1>1, <2>1 DEF Kept, Gone
  <2> QED
    BY <2>1, <2>2, Untouched DEF Quiet
<1> QED
  BY <1>2, <1>3, <1>4, <1>5, <1>6, <1>7, <1>8, <1>9

\* Every step but a grant is quiet.
LEMMA NextQuiet ==
    ASSUME ArchiveInv, Sized, [Next]_vars
    PROVE  Quiet \/ \E p \in Proc, c \in Capture : Mark(p, c)
<1>1. ASSUME UNCHANGED <<capture, object, late>> PROVE Quiet
  BY <1>1, Untouched DEF Quiet
<1>2. ASSUME NEW p \in Proc, NEW s \in Session,
             Claim(p, s) \/ Reserve(p, s) \/ List(p, s) \/ Collect(p, s)
      PROVE  Quiet
  BY <1>1, <1>2 DEF Claim, Reserve, List, Collect, making, file
<1>3. ASSUME NEW p \in Proc,
             TakeLock(p) \/ LockTimesOut(p) \/ Measure(p) \/ Publish(p) \/ Collected(p)
      PROVE  Quiet
  BY <1>1, <1>3 DEF TakeLock, LockTimesOut, Measure, Publish, Collected, making, file
<1>4. ASSUME NEW p \in Proc, NEW r \in hand[p], Verify(p, r) PROVE Quiet
  BY <1>1, <1>4 DEF Verify, making, file
<1>5. ASSUME UNCHANGED vars PROVE Quiet
  BY <1>1, <1>5 DEF vars, making, file
<1> QED
  BY <1>2, <1>3, <1>4, <1>5, FilesQuiet, CapturesQuiet DEF Next

-----------------------------------------------------------------------------
(***************************************************************************)
(* What operations count with.                                             *)
(***************************************************************************)
Measuring == {"own.read", "all.list", "all.read", "grant"}

\* What an operation does with what it counted is to list, to measure, or to end.
LEMMA OpSteps ==
    ASSUME Shaped, [Next]_vars, NEW q \in Proc
    PROVE  \/ Same(q) \/ Measure(q)
           \/ \E s \in Session : List(q, s)
           \/ op'[q].at \notin Measuring
              /\ op'[q].own \in {op[q].own, 0} /\ op'[q].total \in {op[q].total, 0}
              /\ op'[q].leases \subseteq op[q].leases /\ op'[q].names \subseteq op[q].names
<1> DEFINE Ends == /\ op'[q].at \notin Measuring
                   /\ op'[q].own \in {op[q].own, 0} /\ op'[q].total \in {op[q].total, 0}
                   /\ op'[q].leases \subseteq op[q].leases /\ op'[q].names \subseteq op[q].names
<1>1. /\ DOMAIN op = Proc /\ op = [p \in Proc |-> op[p]]
      /\ \A p \in Proc : DOMAIN op[p] = DOMAIN Idle
      /\ DOMAIN Idle = {"at", "on", "gone", "call", "left", "leases", "names", "own", "total", "kept"}
  BY DEF Shaped, Hands, Idle
<1>2. /\ Idle.at = "idle" /\ Idle.own = 0 /\ Idle.total = 0 /\ Idle.leases = {} /\ Idle.names = {}
  BY DEF Idle
<1>3. ASSUME op'[q] = op[q] PROVE Same(q)
  BY <1>3 DEF Same
<1>4. ASSUME op'[q] = Idle PROVE Ends
  BY <1>2, <1>4 DEF Measuring
<1>5. ASSUME NEW p \in Proc, \A x \in Proc \ {p} : op'[x] = op[x], p = q => Same(q) \/ Ends
      PROVE  Same(q) \/ Ends
  BY <1>3, <1>5
<1> HIDE DEF Ends
<1>6. ASSUME NEW p \in Proc, Return(p) PROVE Same(q) \/ Ends
  <2>1. op'[p] = Idle /\ \A x \in Proc \ {p} : op'[x] = op[x]
    BY <1>1, <1>6 DEF Return
  <2> QED
    BY <1>4, <1>5, <2>1
<1>7. ASSUME UNCHANGED op PROVE Same(q)
  BY <1>7 DEF Same
<1>8. ASSUME NEW p \in Proc, NEW s \in Session, Claim(p, s) \/ Reserve(p, s) \/ Collect(p, s)
      PROVE  Same(q) \/ Ends
  <2>1. CASE Claim(p, s)
    BY <1>7, <2>1 DEF Claim
  <2>2. CASE Reserve(p, s)
    <3>1. op' = [op EXCEPT ![p] = [Idle EXCEPT !.at = "lock", !.on = s]]
      BY <2>2 DEF Reserve
    <3>2. /\ op'[p].at = "lock" /\ op'[p].own = 0 /\ op'[p].total = 0
          /\ op'[p].leases = {} /\ op'[p].names = {}
          /\ \A x \in Proc \ {p} : op'[x] = op[x]
      BY <1>1, <3>1 DEF Idle
    <3> QED
      BY <1>5, <3>2 DEF Ends, Measuring
  <2>3. CASE Collect(p, s)
    <3> DEFINE kept == Published(s)
    <3>1. op' = [op EXCEPT ![p] = [Idle EXCEPT !.at = "sweep.lock", !.on = s, !.kept = kept]]
      BY <2>3 DEF Collect
    <3> HIDE DEF kept
    <3>2. /\ op'[p].at = "sweep.lock" /\ op'[p].own = 0 /\ op'[p].total = 0
          /\ op'[p].leases = {} /\ op'[p].names = {}
          /\ \A x \in Proc \ {p} : op'[x] = op[x]
      BY <1>1, <3>1 DEF Idle
    <3> QED
      BY <1>5, <3>2 DEF Ends, Measuring
  <2> QED
    BY <1>8, <2>1, <2>2, <2>3
<1>9. ASSUME NEW p \in Proc, NEW s \in Session, Release(p, s) PROVE Same(q) \/ Ends
  <2>1. \/ UNCHANGED op \/ op' = [op EXCEPT ![p] = Idle]
        \/ op' = [op EXCEPT ![p].gone = TRUE]
    BY <1>9 DEF Release
  <2>2. CASE UNCHANGED op
    BY <1>7, <2>2
  <2>3. CASE op' = [op EXCEPT ![p] = Idle]
    BY <1>6, <2>3 DEF Return
  <2>4. CASE op' = [op EXCEPT ![p].gone = TRUE]
    BY <1>1, <2>4 DEF Same
  <2> QED
    BY <2>1, <2>2, <2>3, <2>4
<1>10. ASSUME NEW p \in Proc, TakeLock(p) PROVE Same(q) \/ Ends
  <2>1. PICK step \in {"own.list", "sweep.list"} : op' = [op EXCEPT ![p].at = step]
    BY <1>10 DEF TakeLock, Go
  <2>2. /\ op'[p].at = step /\ op'[p].own = op[p].own /\ op'[p].total = op[p].total
        /\ op'[p].leases = op[p].leases /\ op'[p].names = op[p].names
        /\ \A x \in Proc \ {p} : op'[x] = op[x]
    BY <1>1, <2>1
  <2> QED
    BY <1>5, <2>2 DEF Ends, Measuring
<1>11. ASSUME NEW p \in Proc, LockTimesOut(p) \/ Refuse(p) \/ Publish(p) \/ Collected(p) \/ Crash(p)
       PROVE  Same(q) \/ Ends
  BY <1>6, <1>11 DEF LockTimesOut, Refuse, Publish, Collected, Crash, Dies
<1>12. ASSUME NEW p \in Proc, NEW c \in Capture, Mark(p, c) PROVE Same(q) \/ Ends
  <2>1. op' = [op EXCEPT ![p].at = "make", ![p].call = c]
    BY <1>12 DEF Mark
  <2>2. /\ op'[p].at = "make" /\ op'[p].own = op[p].own /\ op'[p].total = op[p].total
        /\ op'[p].leases = op[p].leases /\ op'[p].names = op[p].names
        /\ \A x \in Proc \ {p} : op'[x] = op[x]
    BY <1>1, <2>1
  <2> QED
    BY <1>5, <2>2 DEF Ends, Measuring
<1>13. ASSUME NEW p \in Proc, NEW c \in Capture, Make(p, c) PROVE Same(q) \/ Ends
  BY <1>6, <1>13 DEF Make
<1>14. ASSUME NEW p \in Proc, NEW c \in Capture, CheckLease(p, c) PROVE Same(q) \/ Ends
  <2> DEFINE kept == op[p].kept \cup (Of(c) \X {"partial", "raw"})
  <2>1. /\ op[p].at = "sweep.read"
        /\ \/ op' = [op EXCEPT ![p].leases = @ \ {c}]
           \/ op' = [op EXCEPT ![p].leases = @ \ {c}, ![p].kept = kept]
    BY <1>14 DEF CheckLease, At
  <2> HIDE DEF kept
  <2>2. /\ op'[p].at = "sweep.read" /\ op'[p].own = op[p].own /\ op'[p].total = op[p].total
        /\ op'[p].leases = op[p].leases \ {c} /\ op'[p].names = op[p].names
        /\ \A x \in Proc \ {p} : op'[x] = op[x]
    BY <1>1, <2>1
  <2> QED
    BY <1>5, <2>2 DEF Ends, Measuring
<1>15. ASSUME NEW p \in Proc, NEW n \in op[p].names, Remove(p, n) PROVE Same(q) \/ Ends
  <2>1. op[p].at = "sweep.read" /\ op' = [op EXCEPT ![p].names = @ \ {n}]
    BY <1>15 DEF Remove, At
  <2>2. /\ op'[p].at = "sweep.read" /\ op'[p].own = op[p].own /\ op'[p].total = op[p].total
        /\ op'[p].leases = op[p].leases /\ op'[p].names = op[p].names \ {n}
        /\ \A x \in Proc \ {p} : op'[x] = op[x]
    BY <1>1, <2>1
  <2> QED
    BY <1>5, <2>2 DEF Ends, Measuring
<1>16. ASSUME NEW p \in Proc, NEW r \in hand[p], Verify(p, r) PROVE Same(q) \/ Ends
  <2> DEFINE on == SessionOf(r.object)
  <2>1. \/ op' = [op EXCEPT ![p] = Idle]
        \/ op' = [op EXCEPT ![p] = [Idle EXCEPT !.at = "publish", !.kept = {r}, !.on = on]]
    BY <1>16 DEF Verify
  <2> HIDE DEF on
  <2>2. CASE op' = [op EXCEPT ![p] = Idle]
    BY <1>6, <2>2 DEF Return
  <2>3. CASE op' = [op EXCEPT ![p] = [Idle EXCEPT !.at = "publish", !.kept = {r}, !.on = on]]
    <3>1. /\ op'[p].at = "publish" /\ op'[p].own = 0 /\ op'[p].total = 0
          /\ op'[p].leases = {} /\ op'[p].names = {}
          /\ \A x \in Proc \ {p} : op'[x] = op[x]
      BY <1>1, <2>3 DEF Idle
    <3> QED
      BY <1>5, <3>1 DEF Ends, Measuring
  <2> QED
    BY <2>1, <2>2, <2>3
<1>17. ASSUME NEW o \in Object,
             \/ Write(o) \/ FinishFailed(o) \/ Discard(o) \/ Land(o)
             \/ \E l \in {"none", "write"} : WriteFails(o, l)
             \/ \E l \in {"none", "rename"} : SealFails(o, l)
             \/ \E told \in BOOLEAN : Seal(o, told)
       PROVE  Same(q)
  BY <1>7, <1>17 DEF Write, FinishFailed, Discard, Land, WriteFails, SealFails, Seal
<1>18. ASSUME NEW c \in Capture, TakeLease(c) \/ DropLease(c) PROVE Same(q)
  BY <1>7, <1>18 DEF TakeLease, DropLease
<1>19. ASSUME UNCHANGED vars PROVE Same(q)
  BY <1>7, <1>19 DEF vars
<1>20. ASSUME NEW p \in Proc, Measure(p) PROVE Same(q) \/ Measure(q)
  <2>1. \A x \in Proc \ {p} : op'[x] = op[x]
    BY <1>1, <1>20 DEF Measure
  <2> QED
    BY <1>3, <1>20, <2>1
<1>21. ASSUME NEW p \in Proc, NEW s \in Session, List(p, s)
       PROVE  Same(q) \/ \E x \in Session : List(q, x)
  <2>1. \A x \in Proc \ {p} : op'[x] = op[x]
    BY <1>1, <1>21 DEF List, Listed
  <2> QED
    BY <1>3, <1>21, <2>1
<1>22. Same(q) \/ Measure(q) \/ (\E s \in Session : List(q, s)) \/ Ends
  BY <1>8, <1>9, <1>10, <1>11, <1>12, <1>13, <1>14, <1>15, <1>16, <1>17, <1>18, <1>19, <1>20, <1>21
     DEF Next
<1> QED
  BY <1>22 DEF Ends

\* A listing is of what is there.
LEMMA ListCounts ==
    ASSUME Shaped, Sized, Counts, NEW p \in Proc, NEW s \in Session, List(p, s)
    PROVE  /\ op'[p].own = op[p].own /\ op'[p].total = op[p].total /\ op'[p].on = op[p].on
           /\ op'[p].left = op[p].left \ {s}
           /\ op'[p].leases = Markers(s) /\ op'[p].names = Names(s)
           /\ \/ op[p].at = "own.list" /\ s = op[p].on /\ op'[p].at = "own.read"
              \/ op[p].at = "all.list" /\ s \in op[p].left /\ op'[p].at = "all.read"
              \/ op'[p].at = "sweep.read"
           /\ Markers(s) \subseteq Capture /\ Names(s) \subseteq Object \X {"partial", "raw"}
<1>1. /\ DOMAIN op = Proc /\ DOMAIN op[p] = DOMAIN Idle
      /\ DOMAIN Idle = {"at", "on", "gone", "call", "left", "leases", "names", "own", "total", "kept"}
  BY DEF Shaped, Hands, Idle
<1>2. PICK step \in {"own.read", "all.read", "sweep.read"} :
        /\ Listed(p, s, step)
        /\ \/ op[p].at = "own.list" /\ s = op[p].on /\ step = "own.read"
           \/ op[p].at = "all.list" /\ s \in op[p].left /\ step = "all.read"
           \/ step = "sweep.read"
  BY DEF List, At
<1>3. /\ op'[p].own = op[p].own /\ op'[p].total = op[p].total /\ op'[p].on = op[p].on
      /\ op'[p].left = op[p].left \ {s} /\ op'[p].at = step
      /\ op'[p].leases = Markers(s) /\ op'[p].names = Names(s)
  BY <1>1, <1>2 DEF Listed
<1>4. Markers(s) \subseteq Capture
  BY DEF Markers
<1>5. Names(s) \subseteq Object \X {"partial", "raw"}
  <2>1. \A o \in Here(s) : o \in Object /\ object[o].ext \in {"partial", "raw"}
    BY DEF Here, Shaped, Files
  <2> QED
    BY <2>1 DEF Names
<1> QED
  BY <1>2, <1>3, <1>4, <1>5

LEMMA ListCounting ==
    ASSUME ArchiveInv, Sized, Counts, ArchiveInv', Sized', Calm,
           NEW p \in Proc, NEW s \in Session, List(p, s), Counting(p)
    PROVE  Counting(p)'
<1>1. Shaped /\ Shaped'
  BY DEF ArchiveInv
<1>2. UNCHANGED <<capture, object>>
  BY DEF List, making, file
<1>3. /\ op'[p].own = op[p].own /\ op'[p].total = op[p].total /\ op'[p].on = op[p].on
      /\ op'[p].left = op[p].left \ {s}
      /\ op'[p].leases = Markers(s) /\ op'[p].names = Names(s)
      /\ \/ op[p].at = "own.list" /\ s = op[p].on /\ op'[p].at = "own.read"
         \/ op[p].at = "all.list" /\ s \in op[p].left /\ op'[p].at = "all.read"
         \/ op'[p].at = "sweep.read"
  BY <1>1, ListCounts
<1>4. Listing(p, s)'
  <2>1. ASSUME NEW c \in Capture, capture[c].on = s, capture[c].marker = "locked"
        PROVE  c \in Markers(s)
    BY <2>1 DEF Markers
  <2>2. ASSUME NEW o \in Object, capture[o[1]].on = s, object[o].ext # "none"
        PROVE  <<o, object[o].ext>> \in Names(s)
    BY <2>2 DEF Names, Here, SessionOf
  <2> QED
    BY <1>2, <1>3, <2>1, <2>2 DEF Listing, SessionOf
<1>5. op[p].own \in Nat /\ op[p].total \in Nat
  BY DEF Counts
<1>6. ASSUME NEW S, NEW n \in Nat, Owed(On(S)) <= n
      PROVE  Owed(On(S))' <= n
  BY <1>1, <1>6, OwedFalls
<1>7. CASE op'[p].at = "own.read"
  <2>1. op'[p].on = s
    BY <1>3, <1>7
  <2> QED
    BY <1>4, <1>7, <2>1 DEF Counting, At
<1>8. CASE op'[p].at = "all.read"
  <2>1. op[p].at = "all.list" /\ s \in op[p].left
    BY <1>3, <1>8
  <2>2. PICK x, l : x = op[p].on /\ l = op[p].left
    OBVIOUS
  <2>3. op'[p].on = x /\ op'[p].left = l \ {s} /\ op'[p].own = op[p].own /\ op'[p].total = op[p].total
    BY <1>3, <2>2
  <2>4. Owed(On({x})) <= op[p].own /\ Owed(On(Session \ l)) <= op[p].total
    BY <2>1, <2>2 DEF Counting, At
  <2>5. Owed(On({x}))' <= op[p].own
    BY <1>5, <1>6, <2>4
  <2>6. Owed(On(Session \ l))' <= op[p].total
    BY <1>5, <1>6, <2>4
  <2>7. (Session \ (l \ {s})) \ {s} = Session \ l /\ s \in Session \ (l \ {s})
    BY <2>1, <2>2
  <2>8. Owed(On((Session \ (l \ {s})) \ {s}))' <= op[p].total
    BY <2>6, <2>7
  <2> QED
    BY <1>4, <1>8, <2>3, <2>5, <2>7, <2>8 DEF Counting, At
<1>9. CASE op'[p].at = "sweep.read"
  BY <1>9 DEF Counting, At
<1> QED
  BY <1>3, <1>7, <1>8, <1>9

\* What is measured is added up.
LEMMA MeasureCounts ==
    ASSUME Shaped, NEW p \in Proc, Measure(p)
    PROVE  LET usage == Usage(op[p].leases, op[p].names)
           IN  /\ op'[p].on = op[p].on /\ op'[p].leases = {} /\ op'[p].names = {}
               /\ \/ /\ op[p].at = "own.read" /\ op'[p].at = "all.list" /\ op'[p].left = Session
                     /\ op'[p].own = usage /\ op'[p].total = op[p].total
                  \/ /\ op[p].at = "all.read" /\ op[p].left # {}
                     /\ op'[p].at = "all.list" /\ op'[p].left = op[p].left
                     /\ op'[p].own = op[p].own /\ op'[p].total = op[p].total + usage
                  \/ /\ op[p].at = "all.read" /\ op[p].left = {}
                     /\ op'[p].at = "grant" /\ op'[p].left = op[p].left
                     /\ op'[p].own = op[p].own /\ op'[p].total = op[p].total + usage
<1> DEFINE usage == Usage(op[p].leases, op[p].names)
           read  == [op[p] EXCEPT !.leases = {}, !.names = {}]
<1>1. /\ DOMAIN op = Proc /\ DOMAIN op[p] = DOMAIN Idle
      /\ DOMAIN Idle = {"at", "on", "gone", "call", "left", "leases", "names", "own", "total", "kept"}
  BY DEF Shaped, Hands, Idle
<1>2. /\ op[p].at = "own.read" \/ op[p].at = "all.read"
      /\ op' = [op EXCEPT ![p] =
           CASE op[p].at = "own.read" ->
                  [read EXCEPT !.at = "all.list", !.left = Session, !.own = usage]
             [] op[p].at = "all.read" /\ op[p].left # {} ->
                  [read EXCEPT !.at = "all.list", !.total = @ + usage]
             [] OTHER ->
                  [read EXCEPT !.at = "grant", !.total = @ + usage]]
  BY DEF Measure, At
<1> HIDE DEF usage
<1>3. CASE op[p].at = "own.read"
  <2>1. op'[p] = [read EXCEPT !.at = "all.list", !.left = Session, !.own = usage]
    BY <1>1, <1>2, <1>3
  <2> QED
    BY <1>1, <1>3, <2>1 DEF usage
<1>4. CASE op[p].at = "all.read" /\ op[p].left # {}
  <2>1. op'[p] = [read EXCEPT !.at = "all.list", !.total = @ + usage]
    BY <1>1, <1>2, <1>4
  <2> QED
    BY <1>1, <1>4, <2>1 DEF usage
<1>5. CASE op[p].at = "all.read" /\ op[p].left = {}
  <2>1. op'[p] = [read EXCEPT !.at = "grant", !.total = @ + usage]
    BY <1>1, <1>2, <1>5
  <2> QED
    BY <1>1, <1>5, <2>1 DEF usage
<1> QED
  BY <1>2, <1>3, <1>4, <1>5

LEMMA MeasureCounting ==
    ASSUME ArchiveInv, Sized, Counts, ArchiveInv', Sized', Calm,
           NEW p \in Proc, Measure(p), Counting(p)
    PROVE  Counting(p)'
<1> DEFINE usage == Usage(op[p].leases, op[p].names)
<1>1. Shaped /\ Shaped'
  BY DEF ArchiveInv
<1>2. op'[p].on = op[p].on
      /\ \/ /\ op[p].at = "own.read" /\ op'[p].at = "all.list" /\ op'[p].left = Session
            /\ op'[p].own = usage /\ op'[p].total = op[p].total
         \/ /\ op[p].at = "all.read" /\ op[p].left # {}
            /\ op'[p].at = "all.list" /\ op'[p].left = op[p].left
            /\ op'[p].own = op[p].own /\ op'[p].total = op[p].total + usage
         \/ /\ op[p].at = "all.read" /\ op[p].left = {}
            /\ op'[p].at = "grant" /\ op'[p].left = op[p].left
            /\ op'[p].own = op[p].own /\ op'[p].total = op[p].total + usage
  BY <1>1, MeasureCounts
<1>3. ASSUME NEW s, Listing(p, s) PROVE usage \in Nat /\ Owed(On({s})) <= usage
  BY <1>1, <1>3, MeasuredEnough
<1> HIDE DEF usage
<1>4. op[p].own \in Nat /\ op[p].total \in Nat
  BY DEF Counts
<1>5. ASSUME NEW S, NEW n \in Nat, Owed(On(S)) <= n
      PROVE  Owed(On(S))' <= n
  BY <1>1, <1>5, OwedFalls
<1>6. PICK x, l : x = op[p].on /\ l = op[p].left
  OBVIOUS
<1>7. CASE op[p].at = "own.read"
  <2>1. op'[p].at = "all.list" /\ op'[p].on = x /\ op'[p].left = Session
        /\ op'[p].own = usage /\ op'[p].total = op[p].total
    BY <1>2, <1>6, <1>7
  <2>2. Listing(p, x)
    BY <1>6, <1>7 DEF Counting, At
  <2>3. Owed(On({x}))' <= usage
    BY <1>3, <1>5, <2>2
  <2>4. Owed(On(Session \ Session)) <= op[p].total
    <3>1. On(Session \ Session) = {}
      <4>1. \A c \in Capture : capture[c].on \notin Session \ Session
        OBVIOUS
      <4> QED
        BY <4>1 DEF On
    <3> QED
      BY <1>4, <3>1, OwedOfNone
  <2>5. Owed(On(Session \ Session))' <= op[p].total
    BY <1>4, <1>5, <2>4
  <2> QED
    BY <2>1, <2>3, <2>5 DEF Counting, At
<1>8. CASE op[p].at = "all.read"
  <2>1. PICK s \in Session \ l : Listing(p, s) /\ Owed(On((Session \ l) \ {s})) <= op[p].total
    BY <1>6, <1>8 DEF Counting, At
  <2> DEFINE S == Session \ l
  <2>2. usage \in Nat /\ Owed(On({s})) <= usage
    BY <1>3, <2>1
  <2>3. On(S) = On(S \ {s}) \cup On({s})
    BY <2>1 DEF On
  <2>4. Owed(On(S)) <= Owed(On(S \ {s})) + Owed(On({s}))
    <3>1. On(S \ {s}) \in SUBSET Capture /\ On({s}) \in SUBSET Capture
      BY DEF On
    <3> HIDE DEF S
    <3> QED
      BY <1>1, <2>3, <3>1, OwedTogether
  <2>5. Owed(On(S)) \in Nat /\ Owed(On(S \ {s})) \in Nat /\ Owed(On({s})) \in Nat
    <3>1. On(S) \in SUBSET Capture /\ On(S \ {s}) \in SUBSET Capture /\ On({s}) \in SUBSET Capture
      BY DEF On
    <3> HIDE DEF S
    <3> QED
      BY <1>1, <3>1, OwedIs
  <2>6. Owed(On(S)) <= op[p].total + usage /\ op[p].total + usage \in Nat
    BY <1>4, <2>1, <2>2, <2>4, <2>5
  <2>7. Owed(On(S))' <= op[p].total + usage
    <3> HIDE DEF S
    <3> QED
      BY <1>5, <2>6
  <2>8. Owed(On({x}))' <= op[p].own
    <3>1. Owed(On({x})) <= op[p].own
      BY <1>6, <1>8 DEF Counting
    <3> QED
      BY <1>4, <1>5, <3>1
  <2>9. /\ op'[p].on = x /\ op'[p].left = l
        /\ op'[p].own = op[p].own /\ op'[p].total = op[p].total + usage
        /\ op'[p].at = "all.list" \/ (op'[p].at = "grant" /\ l = {})
    BY <1>2, <1>6, <1>8
  <2>10. CASE op'[p].at = "all.list"
    BY <2>7, <2>8, <2>9, <2>10 DEF Counting, At
  <2>11. CASE op'[p].at = "grant" /\ l = {}
    <3>1. Session \ l = Session
      BY <2>11
    <3>2. Owed(On(Session))' <= op[p].total + usage
      BY <2>7, <3>1
    <3> QED
      BY <2>8, <2>9, <2>11, <3>2 DEF Counting, At
  <2> QED
    BY <2>9, <2>10, <2>11
<1> QED
  BY <1>2, <1>7, <1>8

\* What an operation has counted stays numbers, captures and names.
LEMMA CountsKept ==
    ASSUME ArchiveInv, Sized, Counts, [Next]_vars
    PROVE  Counts'
<1>1. Shaped
  BY DEF ArchiveInv
<1> SUFFICES ASSUME NEW q \in Proc
             PROVE  /\ op'[q].own \in Nat /\ op'[q].total \in Nat
                    /\ op'[q].leases \subseteq Capture
                    /\ op'[q].names \subseteq Object \X {"partial", "raw"}
  BY DEF Counts
<1>2. /\ op[q].own \in Nat /\ op[q].total \in Nat
      /\ op[q].leases \subseteq Capture /\ op[q].names \subseteq Object \X {"partial", "raw"}
  BY DEF Counts
<1>3. CASE Same(q)
  BY <1>2, <1>3 DEF Same
<1>4. CASE Measure(q)
  <2> DEFINE usage == Usage(op[q].leases, op[q].names)
  <2>1. /\ op'[q].leases = {} /\ op'[q].names = {}
        /\ op'[q].own \in {op[q].own, usage} /\ op'[q].total \in {op[q].total, op[q].total + usage}
    BY <1>1, <1>4, MeasureCounts
  <2>2. usage \in Nat
    BY <1>1, <1>2, UsageIs
  <2> QED
    BY <1>2, <2>1, <2>2
<1>5. CASE \E s \in Session : List(q, s)
  BY <1>1, <1>2, <1>5, ListCounts
<1>6. CASE /\ op'[q].own \in {op[q].own, 0} /\ op'[q].total \in {op[q].total, 0}
           /\ op'[q].leases \subseteq op[q].leases /\ op'[q].names \subseteq op[q].names
  BY <1>2, <1>6
<1> QED
  BY <1>1, <1>3, <1>4, <1>5, <1>6, OpSteps

\* A step that grants nothing leaves what was granted and what was counted.
LEMMA CalmKeeps ==
    ASSUME QuotaInv, [Next]_vars, ArchiveInv', Sized', Calm, ~overran
    PROVE  Granted' /\ \A q \in Proc : Counting(q)'
<1>1. Shaped /\ Sized /\ Counts /\ Shaped' /\ Granted /\ \A q \in Proc : Counting(q)
  BY DEF QuotaInv, ArchiveInv
<1>2. ASSUME NEW S, NEW n \in Nat, Owed(On(S)) <= n
      PROVE  Owed(On(S))' <= n
  BY <1>1, <1>2, OwedFalls
<1>3. Granted'
  BY <1>1, <1>2, Numbers DEF Granted
<1>4. ASSUME NEW q \in Proc PROVE Counting(q)'
  <2>1. CASE Same(q)
    BY <1>1, <2>1, CountingStays
  <2>2. CASE Measure(q)
    BY <1>1, <2>2, MeasureCounting DEF QuotaInv
  <2>3. CASE \E s \in Session : List(q, s)
    BY <1>1, <2>3, ListCounting DEF QuotaInv
  <2>4. CASE op'[q].at \notin Measuring
    BY <2>4 DEF Measuring, Counting, At
  <2> QED
    BY <1>1, <2>1, <2>2, <2>3, <2>4, OpSteps
<1> QED
  BY <1>3, <1>4

\* A reservation touches no file.
LEMMA MarkSized ==
    ASSUME ArchiveInv, Sized, NEW p \in Proc, NEW c \in Capture, Mark(p, c)
    PROVE  Sized'
<1>1. Shaped
  BY DEF ArchiveInv
<1>2. /\ op[p].at = "grant" /\ UNCHANGED <<object, late>>
      /\ capture' = [capture EXCEPT ![c] =
             [on |-> op[p].on, by |-> p, lease |-> "none", marker |-> "locked"]]
  BY DEF Mark, At, file
<1>3. op[p].on \in Session
  BY <1>1, <1>2 DEF Shaped, Hands
<1> SUFFICES ASSUME NEW o \in Object
             PROVE  /\ object'[o].size <= Cap
                    /\ late'[o] = "write" => object'[o].size < Cap
                    /\ object'[o].ext = "none" \/ capture'[o[1]].on = None => object'[o].size = 0
  BY DEF Sized
<1>4. capture'[o[1]].on = None => capture[o[1]].on = None
  <2>1. o[1] \in Capture
    BY ObjectParts
  <2>2. CASE o[1] = c
    BY <1>1, <1>2, <1>3, <2>2, NoneAssumption DEF Shaped, Files
  <2>3. CASE o[1] # c
    BY <1>1, <1>2, <2>1, <2>3 DEF Shaped, Files
  <2> QED
    BY <2>2, <2>3
<1> QED
  BY <1>2, <1>4 DEF Sized

\* A reservation that is granted fits: what was measured under the lock is no
\* less than what is owed, and nobody else measures.
LEMMA GrantFits ==
    ASSUME QuotaInv, [Next]_vars, ArchiveInv', ~overran,
           NEW p \in Proc, NEW c \in Capture, Mark(p, c)
    PROVE  Sized' /\ Granted' /\ \A q \in Proc : Counting(q)'
<1>1. ArchiveInv /\ Shaped /\ Sized /\ Counts /\ Shaped' /\ Granted /\ Counting(p)
  BY DEF QuotaInv, ArchiveInv
<1>2. op[p].at = "grant" /\ Within(p) /\ UNCHANGED <<object, late>> /\ capture[c] = Unused
      /\ capture' = [capture EXCEPT ![c] =
             [on |-> op[p].on, by |-> p, lease |-> "none", marker |-> "locked"]]
      /\ op' = [op EXCEPT ![p].at = "make", ![p].call = c]
  BY DEF Mark, At, file, Used
<1>3. PICK s \in Session : s = op[p].on
  BY <1>1, <1>2 DEF Shaped, Hands
<1>4. /\ Owed(On({s})) <= op[p].own /\ op[p].own + Allowance <= SessionQuota
      /\ Owed(On(Session)) <= op[p].total /\ op[p].total + Allowance <= StoreQuota
      /\ op[p].own \in Nat /\ op[p].total \in Nat
  BY <1>1, <1>2, <1>3 DEF Counting, At, Within, Counts
<1>5. ASSUME NEW S \in SUBSET Session
      PROVE  /\ Owed(On(S)) \in Nat /\ Owed(On(S))' \in Nat
             /\ Owed(On(S))' <= Owed(On(S)) + Allowance
             /\ s \notin S => Owed(On(S))' <= Owed(On(S))
  BY <1>1, <1>3, OwedRises
<1>6. Granted'
  <2>1. Owed(On(Session))' <= StoreQuota
    <3>1. Session \in SUBSET Session
      OBVIOUS
    <3> QED
      BY <1>4, <1>5, <3>1, Numbers
  <2>2. ASSUME NEW t \in Session PROVE Owed(On({t}))' <= SessionQuota
    <3>1. {t} \in SUBSET Session
      OBVIOUS
    <3>2. CASE t = s
      BY <1>4, <1>5, <3>1, <3>2, Numbers
    <3>3. CASE t # s
      <4>1. Owed(On({t})) <= SessionQuota
        BY <1>1 DEF Granted
      <4> QED
        BY <1>5, <3>1, <3>3, <4>1, Numbers
    <3> QED
      BY <3>2, <3>3
  <2> QED
    BY <2>1, <2>2 DEF Granted
<1>7. Sized'
  BY <1>1, MarkSized
<1>8. ASSUME NEW q \in Proc PROVE Counting(q)'
  <2>1. CASE q = p
    <3>1. DOMAIN op = Proc /\ DOMAIN op[p] = DOMAIN Idle /\ "at" \in DOMAIN Idle
      BY <1>1 DEF Shaped, Hands, Idle
    <3>2. op'[p].at = "make"
      BY <1>2, <3>1
    <3> QED
      BY <2>1, <3>2 DEF Counting, At
  <2>2. CASE q # p
    <3>1. op'[q] = op[q]
      BY <1>1, <1>2, <2>2 DEF Shaped, Hands
    <3>2. op[q].at \notin Locked
      <4>1. lock = p
        BY <1>1, <1>2 DEF ArchiveInv, LockHeld, Locked
      <4> QED
        BY <1>1, <2>2, <4>1 DEF ArchiveInv, LockHeld
    <3>3. op'[q].at \notin Measuring
      BY <3>1, <3>2 DEF Locked, Measuring
    <3> QED
      BY <3>3 DEF Measuring, Counting, At
  <2> QED
    BY <2>1, <2>2
<1> QED
  BY <1>6, <1>7, <1>8

\* Only what lands late can overrun.
LEMMA OverranStays ==
    ASSUME [Next]_vars
    PROVE  overran' = overran \/ \E o \in Object : Land(o)
<1>1. ASSUME NEW p \in Proc, NEW s \in Session,
             Claim(p, s) \/ Release(p, s) \/ Reserve(p, s) \/ List(p, s) \/ Collect(p, s)
      PROVE  overran' = overran
  BY <1>1 DEF Claim, Release, Reserve, List, Collect
<1>2. ASSUME NEW p \in Proc,
             \/ TakeLock(p) \/ LockTimesOut(p) \/ Measure(p) \/ Refuse(p)
             \/ Publish(p) \/ Collected(p) \/ Crash(p)
      PROVE  overran' = overran
  BY <1>2 DEF TakeLock, LockTimesOut, Measure, Refuse, Publish, Collected, Crash, Dies
<1>3. ASSUME NEW p \in Proc, NEW c \in Capture, Mark(p, c) \/ Make(p, c) \/ CheckLease(p, c)
      PROVE  overran' = overran
  BY <1>3 DEF Mark, Make, CheckLease
<1>4. ASSUME NEW p \in Proc, NEW r \in hand[p], Verify(p, r) PROVE overran' = overran
  BY <1>4 DEF Verify
<1>5. ASSUME NEW p \in Proc, NEW n \in op[p].names, Remove(p, n) PROVE overran' = overran
  BY <1>5 DEF Remove
<1>6. ASSUME NEW o \in Object,
             \/ Write(o) \/ FinishFailed(o) \/ Discard(o)
             \/ \E l \in {"none", "write"} : WriteFails(o, l)
             \/ \E l \in {"none", "rename"} : SealFails(o, l)
             \/ \E told \in BOOLEAN : Seal(o, told)
      PROVE  overran' = overran
  BY <1>6 DEF Write, FinishFailed, Discard, WriteFails, SealFails, Seal
<1>7. ASSUME NEW c \in Capture, TakeLease(c) \/ DropLease(c) PROVE overran' = overran
  BY <1>7 DEF TakeLease, DropLease
<1>8. ASSUME UNCHANGED vars PROVE overran' = overran
  BY <1>8 DEF vars
<1> QED
  BY <1>1, <1>2, <1>3, <1>4, <1>5, <1>6, <1>7, <1>8 DEF Next

\* Nothing is owed or counted at first.
LEMMA QuotaInvInit == Init => QuotaInv
<1> SUFFICES ASSUME Init PROVE QuotaInv
  OBVIOUS
<1>1. ArchiveInv
  BY ArchiveInvInit
<1>2. /\ \A p \in Proc : op[p] = Idle
      /\ \A c \in Capture : capture[c] = Unused
      /\ \A o \in Object : object[o] = NoFile /\ late[o] = "none"
  BY DEF Init
<1>3. /\ Idle.at = "idle" /\ Idle.own = 0 /\ Idle.total = 0 /\ Idle.leases = {} /\ Idle.names = {}
      /\ NoFile.size = 0 /\ Unused.on = None
  BY DEF Idle, NoFile, Unused
<1>4. Sized /\ Counts
  BY <1>2, <1>3, Numbers DEF Sized, Counts
<1>5. \A p \in Proc : Counting(p)
  BY <1>2, <1>3 DEF Counting, At
<1>6. ASSUME NEW S \in SUBSET Session PROVE Owed(On(S)) = 0
  <2>1. On(S) = {}
    BY <1>2, <1>3, NoneAssumption DEF On
  <2> QED
    BY <2>1, OwedOfNone
<1>7. Granted
  <2>1. Owed(On(Session)) = 0
    BY <1>6
  <2>2. \A s \in Session : Owed(On({s})) = 0
    BY <1>6
  <2> QED
    BY <2>1, <2>2, Numbers DEF Granted
<1> QED
  BY <1>1, <1>4, <1>5, <1>7 DEF QuotaInv

LEMMA QuotaInvNext == QuotaInv /\ [Next]_vars => QuotaInv'
<1> SUFFICES ASSUME QuotaInv, [Next]_vars PROVE QuotaInv'
  OBVIOUS
<1>1. ArchiveInv /\ Shaped /\ Sized /\ Counts
  BY DEF QuotaInv, ArchiveInv
<1>2. ArchiveInv'
  BY <1>1, ArchiveInvNext
<1>3. Counts'
  BY <1>1, CountsKept
<1>4. overran => overran'
  <2>1. overran' = overran \/ \E o \in Object : Land(o)
    BY OverranStays
  <2> QED
    BY <2>1 DEF Land
<1>5. CASE Quiet
  <2>1. Sized' /\ (overran' \/ Calm)
    BY <1>1, <1>5, QuietStep
  <2> QED
    BY <1>2, <1>3, <1>4, <2>1, CalmKeeps DEF QuotaInv
<1>6. CASE \E p \in Proc, c \in Capture : Mark(p, c)
  <2>1. PICK p \in Proc, c \in Capture : Mark(p, c)
    BY <1>6
  <2>2. CASE overran
    <3>1. Sized'
      BY <1>1, <1>2, <2>1, MarkSized
    <3> QED
      BY <1>2, <1>3, <1>4, <2>2, <3>1 DEF QuotaInv
  <2>3. CASE ~overran
    BY <1>2, <1>3, <2>1, <2>3, GrantFits DEF QuotaInv
  <2> QED
    BY <2>2, <2>3
<1> QED
  BY <1>1, <1>5, <1>6, NextQuiet

\* What the archives hold stays within both quotas, whatever is reserved, written
\* and collected by whom at once, unless a write or a rename landed after its
\* reservation was given back.
THEOREM QuotaHoldsAlways == Spec => []QuotaHolds
<1>1. QuotaInv => QuotaHolds
  BY GrantedHolds DEF QuotaInv, ArchiveInv, QuotaHolds
<1> QED
  BY <1>1, QuotaInvInit, QuotaInvNext, PTL DEF Spec
=============================================================================
