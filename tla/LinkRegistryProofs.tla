------------------------- MODULE LinkRegistryProofs -------------------------
(***************************************************************************)
(* Proofs about LinkRegistry, for any number of agents, connections,       *)
(* sessions and turns, and any bound on what an agent holds.               *)
(*                                                                         *)
(* That a lock has its holder, and that what is in use is kept, hold       *)
(* without a condition (RegistryInv).  That a session has one copy does    *)
(* not: an agent may let go of a session a client is just being attached   *)
(* to, and load it again beside the copy that client has.  It is shown to  *)
(* be the only way: as long as every client that attaches, or has, finds   *)
(* its copy in the registry, no session has two (WriterInv).               *)
(***************************************************************************)
EXTENDS LinkRegistry, SubsequencesProofs

\* A copy, a connection and what is stored, of the values they take.
CopyState ==
    [session : Sessions \cup {None}, at : Agents \cup {None}, log : SUBSET Nat, turn : Nat]
ConnState ==
    [pc : {"idle", "loading", "holding", "attaching", "watching"},
     session : Sessions \cup {None}, log : SUBSET Nat, copy : Copies \cup {None}]

\* A copy that lives is of a session, at an agent.
Loaded(i) == copy[i] # Gone => copy[i].session \in Sessions /\ copy[i].at \in Agents

\* Where a connection stands says what it refers to.
Placed(c) ==
    /\ conn[c].pc \in {"loading", "holding", "attaching", "watching"} => conn[c].session \in Sessions
    /\ conn[c].pc \in {"attaching", "watching"} <=> conn[c].copy # None

Typed ==
    /\ stored \in [Sessions -> [known : BOOLEAN, turns : SUBSET Nat]]
    /\ claim \in [Sessions -> Agents \cup {None}]
    /\ copy \in [Copies -> CopyState] /\ \A i \in Copies : Loaded(i)
    /\ held \in [Agents -> Seq(Copies)]
    /\ conn \in [Conns -> ConnState] /\ \A c \in Conns : Placed(c)
    /\ turns \in Nat

\* What an agent holds lives, in that agent.
HeldLives == \A a \in Agents : \A i \in Range(held[a]) : copy[i] # Gone /\ copy[i].at = a

\* And so does what a client attached to, or is about to.
ConnLives ==
    \A c \in Conns : conn[c].copy # None =>
        copy[conn[c].copy] # Gone /\ copy[conn[c].copy].at = AgentOf[c]

RegistryInv == Typed /\ HeldLives /\ ConnLives /\ ClaimHasHolder

\* What a client was given, and has attached to or is about to, is in its
\* agent's registry.  hold means it to be; Link_orphan shows that it may not.
AttachedIsHeld ==
    \A c \in Conns : conn[c].pc \in {"attaching", "watching"} =>
        conn[c].copy \in Range(held[AgentOf[c]])

\* A copy that lives has its session's lock, and its agent holds it.
CopyIsClaimed == \A i \in Live : claim[copy[i].session] = copy[i].at
LiveIsHeld    == \A i \in Live : i \in Range(held[copy[i].at])

WriterInv == RegistryInv /\ OneWriter /\ CopyIsClaimed /\ LiveIsHeld

-----------------------------------------------------------------------------
(***************************************************************************)
(* The lists of what is held.                                              *)
(***************************************************************************)
\* The value that stands for no agent, session or copy is none of them.
LEMMA NoneApart == None \notin Agents /\ None \notin Sessions /\ None \notin Copies
BY NoneAssumption DEF None

\* A filtered registry is a registry of what is in both.
LEMMA OnlyHas ==
    ASSUME NEW q \in Seq(Copies), NEW S
    PROVE  Only(q, S) \in Seq(Copies) /\ Range(Only(q, S)) = Range(q) \cap S
<1> DEFINE o == Only(q, S)
<1>1. Takes(o, q, S, Copies)
  BY OnlyTakes
<1> HIDE DEF o
<1>2. /\ o \in Seq(Copies)
      /\ \A i \in DOMAIN o : o[i] \in S /\ \E k \in DOMAIN q : q[k] = o[i]
      /\ \A k \in DOMAIN q : q[k] \in S => \E i \in DOMAIN o : o[i] = q[k]
  BY <1>1 DEF Takes
<1>3. Range(o) = Range(q) \cap S
  BY <1>2 DEF Range
<1> QED
  BY <1>2, <1>3 DEF o

\* One more in a registry.
LEMMA AppendHas ==
    ASSUME NEW q \in Seq(Copies), NEW i \in Copies
    PROVE  Append(q, i) \in Seq(Copies) /\ Range(Append(q, i)) = Range(q) \cup {i}
<1> DEFINE u == Append(q, i)
<1>1. /\ u \in Seq(Copies) /\ DOMAIN u = 1..(Len(q) + 1) /\ DOMAIN q = 1..Len(q) /\ Len(q) \in Nat
      /\ u[Len(q) + 1] = i /\ \A k \in 1..Len(q) : u[k] = q[k]
  OBVIOUS
<1> HIDE DEF u
<1>2. Range(u) = Range(q) \cup {i}
  <2>1. ASSUME NEW x \in Range(u) PROVE x \in Range(q) \cup {i}
    BY <1>1 DEF Range
  <2>2. ASSUME NEW x \in Range(q) \cup {i} PROVE x \in Range(u)
    <3>1. Len(q) + 1 \in DOMAIN u /\ \A k \in DOMAIN q : k \in DOMAIN u
      BY <1>1
    <3> QED
      BY <1>1, <2>2, <3>1 DEF Range
  <2> QED
    BY <2>1, <2>2
<1> QED
  BY <1>1, <1>2 DEF u

\* Only what nobody uses is let go (evict_idle).
LEMMA EvictKeeps ==
    ASSUME NEW a, held[a] \in Seq(Copies)
    PROVE  /\ EvictIdle(a) \in Seq(Copies) /\ Range(EvictIdle(a)) \subseteq Range(held[a])
           /\ \A i \in Range(held[a]) : InUse(i) => i \in Range(EvictIdle(a))
<1> DEFINE idle == Only(held[a], {i \in Copies : ~InUse(i)})
           let_go == {idle[k] : k \in {n \in DOMAIN idle : HeldMax[a] + n < Len(held[a]) + 2}}
<1>1. idle \in Seq(Copies) /\ Range(idle) = Range(held[a]) \cap {i \in Copies : ~InUse(i)}
  BY OnlyHas
<1>2. EvictIdle(a) = Only(held[a], Copies \ let_go)
  BY DEF EvictIdle
<1> HIDE DEF idle
<1>3. let_go \subseteq Range(idle)
  BY DEF Range
<1> HIDE DEF let_go
<1>4. /\ EvictIdle(a) \in Seq(Copies)
      /\ Range(EvictIdle(a)) = Range(held[a]) \cap (Copies \ let_go)
  BY <1>2, OnlyHas
<1>5. Range(held[a]) \subseteq Copies
  BY DEF Range
<1> QED
  BY <1>1, <1>3, <1>4, <1>5

\* To touch a copy changes the order it will be let go in, and nothing else.
LEMMA TouchKeeps ==
    ASSUME held \in [Agents -> Seq(Copies)], NEW i
    PROVE  /\ Touch(i) \in [Agents -> Seq(Copies)]
           /\ \A a \in Agents : Range(Touch(i)[a]) = Range(held[a])
<1>1. ASSUME NEW a \in Agents
      PROVE  Touch(i)[a] \in Seq(Copies) /\ Range(Touch(i)[a]) = Range(held[a])
  <2>0. held[a] \in Seq(Copies)
    OBVIOUS
  <2>1. Touch(i)[a] = IF i \in Range(held[a]) THEN Append(Only(held[a], Copies \ {i}), i) ELSE held[a]
    BY DEF Touch
  <2>2. CASE i \in Range(held[a])
    <3>1. i \in Copies /\ Range(held[a]) \subseteq Copies
      BY <2>0, <2>2 DEF Range
    <3> DEFINE q == Only(held[a], Copies \ {i})
    <3>2. q \in Seq(Copies) /\ Range(q) = Range(held[a]) \cap (Copies \ {i})
      BY <2>0, OnlyHas
    <3>3. Touch(i)[a] = Append(q, i)
      BY <2>1, <2>2
    <3> HIDE DEF q
    <3>4. Append(q, i) \in Seq(Copies) /\ Range(Append(q, i)) = Range(q) \cup {i}
      BY <3>1, <3>2, AppendHas
    <3> QED
      BY <2>2, <3>1, <3>2, <3>3, <3>4
  <2>3. CASE i \notin Range(held[a])
    BY <2>0, <2>1, <2>3
  <2> QED
    BY <2>2, <2>3
<1>2. Touch(i) \in [Agents -> Seq(Copies)]
  <2>1. Touch(i) = [a \in Agents |-> Touch(i)[a]]
    BY DEF Touch
  <2> QED
    BY <1>1, <2>1
<1> QED
  BY <1>1, <1>2

-----------------------------------------------------------------------------
(***************************************************************************)
(* What a drop leaves.                                                     *)
(***************************************************************************)
\* Something refers to the copy, as it will stand.
Kept(copies, i) ==
    \/ \E a \in Agents : i \in Range(held'[a])
    \/ \E c \in Conns : conn'[c].copy = i
    \/ copies[i].turn # 0

\* What a step that drops does to the copies and the locks.
LEMMA DropSays ==
    ASSUME NEW copies, NEW claims, Drop(copies, claims)
    PROVE  /\ copy' = [i \in Copies |-> IF Kept(copies, i) THEN copies[i] ELSE Gone]
           /\ \A i \in Copies : /\ Kept(copies, i) => copy'[i] = copies[i]
                                /\ ~Kept(copies, i) => copy'[i] = Gone
           /\ claim' = [s \in Sessions |->
                 IF \E i \in Copies : /\ ~Kept(copies, i) /\ copies[i].session = s
                                      /\ copies[i].at = claims[s]
                 THEN None ELSE claims[s]]
BY DEF Drop, Kept

\* A lock is let go only with the last reference to the copy it was taken for.
LEMMA DropClaims ==
    ASSUME NEW copies, NEW claims, claims \in [Sessions -> Agents \cup {None}],
           Drop(copies, claims),
           \A s \in Sessions : claims[s] # None =>
               \E i \in Copies : copies[i].session = s /\ copies[i].at = claims[s]
    PROVE  claim' \in [Sessions -> Agents \cup {None}] /\ ClaimHasHolder'
<1>1. \A i \in Copies : Kept(copies, i) => copy'[i] = copies[i]
  BY DropSays
<1>2. claim' = [s \in Sessions |->
                 IF \E i \in Copies : /\ ~Kept(copies, i) /\ copies[i].session = s
                                      /\ copies[i].at = claims[s]
                 THEN None ELSE claims[s]]
  BY DropSays
<1>3. claim' \in [Sessions -> Agents \cup {None}]
  BY <1>2
<1>4. ASSUME NEW s \in Sessions, claim'[s] # None
      PROVE  \E i \in Copies : copy'[i] # Gone /\ copy'[i].session = s /\ copy'[i].at = claim'[s]
  <2>1. /\ claim'[s] = claims[s]
        /\ ~\E i \in Copies : ~Kept(copies, i) /\ copies[i].session = s /\ copies[i].at = claims[s]
    BY <1>2, <1>4
  <2>2. PICK i \in Copies : copies[i].session = s /\ copies[i].at = claims[s]
    BY <1>4, <2>1
  <2>3. copy'[i] = copies[i]
    BY <1>1, <2>1, <2>2
  <2>4. copy'[i] # Gone
    BY <2>2, <2>3, NoneApart DEF Gone
  <2> QED
    BY <2>1, <2>2, <2>3, <2>4
<1> QED
  BY <1>3, <1>4 DEF ClaimHasHolder, Live

\* And the copies it leaves are as they were, or gone.
LEMMA DropTypes ==
    ASSUME NEW copies \in [Copies -> CopyState], NEW claims, Drop(copies, claims),
           \A i \in Copies : copies[i] # Gone => copies[i].session \in Sessions /\ copies[i].at \in Agents
    PROVE  copy' \in [Copies -> CopyState] /\ \A i \in Copies : Loaded(i)'
<1>1. Gone \in CopyState
  BY DEF Gone, CopyState
<1>2. copy' = [i \in Copies |-> IF Kept(copies, i) THEN copies[i] ELSE Gone]
  BY DropSays
<1>3. copy' \in [Copies -> CopyState]
  BY <1>1, <1>2
<1>4. ASSUME NEW i \in Copies PROVE Loaded(i)'
  <2>1. copy'[i] = copies[i] \/ copy'[i] = Gone
    BY <1>2
  <2> QED
    BY <2>1 DEF Loaded
<1> QED
  BY <1>3, <1>4

-----------------------------------------------------------------------------
(***************************************************************************)
(* What holds of every agent.                                              *)
(***************************************************************************)
StoredTyped == stored \in [Sessions -> [known : BOOLEAN, turns : SUBSET Nat]]
ConnsTyped  == conn \in [Conns -> ConnState] /\ \A c \in Conns : Placed(c)

\* A step that drops what is no longer referred to.
LEMMA Dropping ==
    ASSUME NEW copies \in [Copies -> CopyState], NEW claims \in [Sessions -> Agents \cup {None}],
           \A i \in Copies : copies[i] # Gone => copies[i].session \in Sessions /\ copies[i].at \in Agents,
           \A s \in Sessions : claims[s] # None =>
               \E i \in Copies : copies[i].session = s /\ copies[i].at = claims[s],
           held' \in [Agents -> Seq(Copies)],
           \A a \in Agents : \A i \in Range(held'[a]) : copies[i] # Gone /\ copies[i].at = a,
           \A c \in Conns : conn'[c].copy # None =>
               copies[conn'[c].copy] # Gone /\ copies[conn'[c].copy].at = AgentOf[c],
           StoredTyped', ConnsTyped', turns' \in Nat, Drop(copies, claims)
    PROVE  RegistryInv'
<1>1. claim' \in [Sessions -> Agents \cup {None}] /\ ClaimHasHolder'
  BY DropClaims
<1>2. copy' \in [Copies -> CopyState] /\ \A i \in Copies : Loaded(i)'
  BY DropTypes
<1>3. HeldLives'
  <2> SUFFICES ASSUME NEW a \in Agents, NEW i \in Range(held'[a])
               PROVE  copy'[i] # Gone /\ copy'[i].at = a
    BY DEF HeldLives
  <2>1. i \in Copies /\ Kept(copies, i)
    BY DEF Kept, Range
  <2>2. copy'[i] = copies[i]
    BY <2>1, DropSays
  <2> QED
    BY <2>2
<1>4. ConnLives'
  <2> SUFFICES ASSUME NEW c \in Conns, conn'[c].copy # None
               PROVE  copy'[conn'[c].copy] # Gone /\ copy'[conn'[c].copy].at = AgentOf[c]
    BY DEF ConnLives
  <2>1. conn'[c].copy \in Copies /\ Kept(copies, conn'[c].copy)
    BY DEF ConnsTyped, ConnState, Kept
  <2>2. copy'[conn'[c].copy] = copies[conn'[c].copy]
    BY <2>1, DropSays
  <2> QED
    BY <2>2
<1> QED
  BY <1>1, <1>2, <1>3, <1>4 DEF RegistryInv, Typed, StoredTyped, ConnsTyped

\* The invariant, part by part.
LEMMA Parts ==
    ASSUME RegistryInv
    PROVE  /\ copy \in [Copies -> CopyState] /\ claim \in [Sessions -> Agents \cup {None}]
           /\ \A i \in Copies : copy[i] # Gone => copy[i].session \in Sessions /\ copy[i].at \in Agents
           /\ \A s \in Sessions : claim[s] # None =>
                  \E i \in Copies : copy[i].session = s /\ copy[i].at = claim[s]
           /\ held \in [Agents -> Seq(Copies)]
           /\ \A a \in Agents : \A i \in Range(held[a]) : i \in Copies /\ copy[i] # Gone /\ copy[i].at = a
           /\ \A c \in Conns : conn[c].copy # None =>
                  /\ conn[c].copy \in Copies
                  /\ copy[conn[c].copy] # Gone /\ copy[conn[c].copy].at = AgentOf[c]
           /\ StoredTyped /\ ConnsTyped /\ turns \in Nat
<1>1. Typed /\ HeldLives /\ ConnLives /\ ClaimHasHolder
  BY DEF RegistryInv
<1>2. \A a \in Agents : Range(held[a]) \subseteq Copies
  BY <1>1 DEF Typed, Range
<1>3. \A i \in Copies : copy[i] # Gone => copy[i].session \in Sessions /\ copy[i].at \in Agents
  BY <1>1 DEF Typed, Loaded
<1>4. \A s \in Sessions : claim[s] # None =>
          \E i \in Copies : copy[i].session = s /\ copy[i].at = claim[s]
  BY <1>1 DEF ClaimHasHolder, Live
<1>5. \A a \in Agents : \A i \in Range(held[a]) : i \in Copies /\ copy[i] # Gone /\ copy[i].at = a
  BY <1>1, <1>2 DEF HeldLives
<1>6. \A c \in Conns : conn[c].copy # None =>
          /\ conn[c].copy \in Copies
          /\ copy[conn[c].copy] # Gone /\ copy[conn[c].copy].at = AgentOf[c]
  BY <1>1 DEF ConnLives, Typed, ConnState
<1> QED
  BY <1>1, <1>3, <1>4, <1>5, <1>6 DEF Typed, StoredTyped, ConnsTyped

\* The types of the tables alone, for the steps that need no more.
LEMMA Tables == ASSUME RegistryInv PROVE StoredTyped /\ ConnsTyped /\ turns \in Nat
BY Parts

\* What nobody refers to is dropped, and nothing is loaded.
LEMMA LettingGo ==
    ASSUME RegistryInv, Drop(copy, claim), held' \in [Agents -> Seq(Copies)],
           \A a \in Agents : Range(held'[a]) = Range(held[a]),
           \A c \in Conns : conn'[c].copy # None =>
               copy[conn'[c].copy] # Gone /\ copy[conn'[c].copy].at = AgentOf[c],
           StoredTyped', ConnsTyped', turns' = turns
    PROVE  RegistryInv'
<1>1. /\ copy \in [Copies -> CopyState] /\ claim \in [Sessions -> Agents \cup {None}]
      /\ \A i \in Copies : copy[i] # Gone => copy[i].session \in Sessions /\ copy[i].at \in Agents
  BY Parts
<1>2. \A s \in Sessions : claim[s] # None => \E i \in Copies : copy[i].session = s /\ copy[i].at = claim[s]
  BY Parts
<1>3. \A a \in Agents : \A i \in Range(held'[a]) : copy[i] # Gone /\ copy[i].at = a
  BY Parts
<1>4. turns' \in Nat
  BY Tables
<1> QED
  BY <1>1, <1>2, <1>3, <1>4, Dropping

\* One connection goes where it may stand.
LEMMA ConnGoes ==
    ASSUME ConnsTyped, NEW c \in Conns, NEW d \in ConnState, conn' = [conn EXCEPT ![c] = d],
           d.pc \in {"loading", "holding", "attaching", "watching"} => d.session \in Sessions,
           d.pc \in {"attaching", "watching"} <=> d.copy # None
    PROVE  ConnsTyped'
<1>1. conn' \in [Conns -> ConnState]
  BY DEF ConnsTyped
<1>2. ASSUME NEW e \in Conns PROVE Placed(e)'
  <2>1. conn'[e] = IF e = c THEN d ELSE conn[e]
    BY DEF ConnsTyped
  <2> QED
    BY <2>1 DEF Placed, ConnsTyped
<1> QED
  BY <1>1, <1>2 DEF ConnsTyped

\* A connection that refers to nothing.
LEMMA UnattachedStands ==
    /\ Unattached \in ConnState /\ Unattached.pc = "idle" /\ Unattached.copy = None
BY DEF Unattached, ConnState

\* And every connection still points at a copy of its agent.
LEMMA ConnPoints ==
    ASSUME RegistryInv, NEW c \in Conns, NEW d, conn' = [conn EXCEPT ![c] = d],
           d.copy # None => copy[d.copy] # Gone /\ copy[d.copy].at = AgentOf[c]
    PROVE  \A e \in Conns : conn'[e].copy # None =>
               copy[conn'[e].copy] # Gone /\ copy[conn'[e].copy].at = AgentOf[e]
<1>1. ASSUME NEW e \in Conns, conn'[e].copy # None
      PROVE  copy[conn'[e].copy] # Gone /\ copy[conn'[e].copy].at = AgentOf[e]
  <2>1. conn'[e] = IF e = c THEN d ELSE conn[e]
    BY Parts DEF ConnsTyped
  <2> QED
    BY <1>1, <2>1, Parts
<1> QED
  BY <1>1

\* A copy an agent holds of a session, where it holds one.
LEMMA HeldOfIs ==
    ASSUME RegistryInv, NEW a \in Agents, NEW s, HeldOf(a, s) # {}
    PROVE  LET i == CHOOSE j \in HeldOf(a, s) : TRUE
           IN  /\ i \in Copies /\ i \in Range(held[a]) /\ i # None
               /\ copy[i] # Gone /\ copy[i].at = a
<1> DEFINE i == CHOOSE j \in HeldOf(a, s) : TRUE
<1>1. i \in HeldOf(a, s)
  OBVIOUS
<1>2. i \in Range(held[a])
  BY <1>1 DEF HeldOf
<1> QED
  BY <1>2, Parts, NoneApart

\* A connection asks for a session, or for a new one, attaches or hangs up.
LEMMA AskKeeps ==
    ASSUME RegistryInv, NEW c \in Conns, NEW s \in Sessions, Ask(c, s)
    PROVE  RegistryInv'
<1> DEFINE a == AgentOf[c]
           i == CHOOSE j \in HeldOf(a, s) : TRUE
           d == IF HeldOf(a, s) = {}
                THEN [pc |-> "loading", session |-> s, log |-> {}, copy |-> None]
                ELSE [pc |-> "attaching", session |-> s, log |-> {}, copy |-> i]
<1>1. conn' = [conn EXCEPT ![c] = d] /\ UNCHANGED <<stored, held, behind, turns>> /\ Drop(copy, claim)
  BY DEF Ask
<1>2. a \in Agents
  BY AgentOfAssumption
<1>3. HeldOf(a, s) # {} => i \in Copies /\ i # None /\ copy[i] # Gone /\ copy[i].at = a
  BY <1>2, HeldOfIs
<1>a. a = AgentOf[c]
  OBVIOUS
<1> HIDE DEF a, i
<1>4. /\ d \in ConnState /\ d.session \in Sessions
      /\ d.pc \in {"attaching", "watching"} <=> d.copy # None
      /\ d.copy # None => d.copy = i /\ HeldOf(a, s) # {}
  BY <1>3 DEF ConnState
<1> HIDE DEF d
<1>7. \A e \in Conns : conn'[e].copy # None =>
          copy[conn'[e].copy] # Gone /\ copy[conn'[e].copy].at = AgentOf[e]
  BY <1>1, <1>3, <1>4, <1>a, ConnPoints
<1>5. ConnsTyped'
  BY <1>1, <1>4, Tables, ConnGoes
<1>6. StoredTyped'
  BY <1>1, Tables DEF StoredTyped
<1>h. /\ held' \in [Agents -> Seq(Copies)] /\ turns' = turns
      /\ \A b \in Agents : Range(held'[b]) = Range(held[b])
  BY <1>1, Parts
<1> QED
  BY <1>1, <1>5, <1>6, <1>7, <1>h, LettingGo

\* It asks for a new one.
LEMMA AskNewKeeps ==
    ASSUME RegistryInv, NEW c \in Conns, NEW s \in Sessions, NEW named \in BOOLEAN, AskNew(c, s, named)
    PROVE  RegistryInv'
<1> DEFINE d == [pc |-> "holding", session |-> s, log |-> {}, copy |-> None]
<1>1. /\ conn' = [conn EXCEPT ![c] = d] /\ UNCHANGED <<held, behind, turns>> /\ Drop(copy, claim)
      /\ stored' = IF named THEN [stored EXCEPT ![s] = Log({})] ELSE stored
  BY DEF AskNew
<1>2. d \in ConnState /\ d.session \in Sessions /\ d.pc = "holding" /\ d.copy = None
  BY DEF ConnState
<1> HIDE DEF d
<1>3. ConnsTyped'
  BY <1>1, <1>2, Tables, ConnGoes
<1>4. Log({}) \in [known : BOOLEAN, turns : SUBSET Nat]
  BY DEF Log
<1>5. StoredTyped'
  BY <1>1, <1>4, Tables DEF StoredTyped
<1>6. \A e \in Conns : conn'[e].copy # None =>
          copy[conn'[e].copy] # Gone /\ copy[conn'[e].copy].at = AgentOf[e]
  BY <1>1, <1>2, ConnPoints
<1>h. /\ held' \in [Agents -> Seq(Copies)] /\ turns' = turns
      /\ \A b \in Agents : Range(held'[b]) = Range(held[b])
  BY <1>1, Parts
<1> QED
  BY <1>1, <1>3, <1>5, <1>6, <1>h, LettingGo

\* It attaches to what it was given, or its queue is full.
LEMMA AttachKeeps ==
    ASSUME RegistryInv, NEW c \in Conns, Attach(c)
    PROVE  RegistryInv'
<1> DEFINE d == [conn[c] EXCEPT !.pc = "watching"]
<1>1. /\ conn[c].pc = "attaching" /\ held' = Touch(conn[c].copy)
      /\ conn' = [conn EXCEPT ![c] = d] \/ conn' = [conn EXCEPT ![c] = Unattached]
      /\ UNCHANGED <<stored, behind, turns>> /\ Drop(copy, claim)
  BY DEF Attach
<1>2. conn[c] \in ConnState /\ Placed(c)
  BY Parts DEF ConnsTyped
<1>3. /\ d \in ConnState /\ d.pc = "watching" /\ d.session \in Sessions
      /\ d.copy # None /\ d.copy = conn[c].copy
  BY <1>1, <1>2 DEF ConnState, Placed
<1> HIDE DEF d
<1>4. ConnsTyped'
  <2>1. CASE conn' = [conn EXCEPT ![c] = d]
    BY <1>3, <2>1, Tables, ConnGoes
  <2>2. CASE conn' = [conn EXCEPT ![c] = Unattached]
    BY <2>2, Tables, ConnGoes, UnattachedStands
  <2> QED
    BY <1>1, <2>1, <2>2
<1>5. StoredTyped'
  BY <1>1, Tables DEF StoredTyped
<1>6. /\ held' \in [Agents -> Seq(Copies)] /\ turns' = turns
      /\ \A a \in Agents : Range(held'[a]) = Range(held[a])
  BY <1>1, Parts, TouchKeeps
<1>7. \A e \in Conns : conn'[e].copy # None =>
          copy[conn'[e].copy] # Gone /\ copy[conn'[e].copy].at = AgentOf[e]
  <2>1. CASE conn' = [conn EXCEPT ![c] = d]
    BY <1>3, <2>1, Parts, ConnPoints
  <2>2. CASE conn' = [conn EXCEPT ![c] = Unattached]
    BY <2>2, ConnPoints, UnattachedStands
  <2> QED
    BY <1>1, <2>1, <2>2
<1> QED
  BY <1>1, <1>4, <1>5, <1>6, <1>7, LettingGo

\* It hangs up.
LEMMA HangUpKeeps ==
    ASSUME RegistryInv, NEW c \in Conns, HangUp(c)
    PROVE  RegistryInv'
<1>1. /\ conn' = [conn EXCEPT ![c] = Unattached]
      /\ UNCHANGED <<stored, held, turns>> /\ Drop(copy, claim)
  BY DEF HangUp
<1>2. ConnsTyped'
  BY <1>1, Tables, ConnGoes, UnattachedStands
<1>3. StoredTyped'
  BY <1>1, Tables DEF StoredTyped
<1>4. \A e \in Conns : conn'[e].copy # None =>
          copy[conn'[e].copy] # Gone /\ copy[conn'[e].copy].at = AgentOf[e]
  BY <1>1, ConnPoints, UnattachedStands
<1>h. /\ held' \in [Agents -> Seq(Copies)] /\ turns' = turns
      /\ \A b \in Agents : Range(held'[b]) = Range(held[b])
  BY <1>1, Parts
<1> QED
  BY <1>1, <1>2, <1>3, <1>4, <1>h, LettingGo

\* A copy read before is held, with its session's lock.
LEMMA HoldSays ==
    ASSUME RegistryInv, NEW c \in Conns, Hold(c)
    PROVE  \E i \in Copies :
             LET a == AgentOf[c]
                 s == conn[c].session
                 copies == [copy EXCEPT ![i] = [session |-> s, at |-> a, log |-> conn[c].log, turn |-> 0]]
                 d == [conn[c] EXCEPT !.pc = "attaching", !.log = {}, !.copy = i]
             IN  /\ copy[i] = Gone /\ a \in Agents /\ s \in Sessions /\ i # None
                 /\ conn[c].pc = "holding" /\ conn[c] \in ConnState
                 /\ HeldOf(a, s) = {} /\ claim[s] \in {None, a}
                 /\ held' = [held EXCEPT ![a] = Append(EvictIdle(a), i)]
                 /\ conn' = [conn EXCEPT ![c] = d] /\ UNCHANGED <<stored, behind, turns>>
                 /\ Drop(copies, [claim EXCEPT ![s] = a])
<1> DEFINE i == CHOOSE n \in Copies : copy[n] = Gone
<1>1. Live # Copies
  BY DEF Hold, Insert
<1>2. i \in Copies /\ copy[i] = Gone
  <2>1. \E n \in Copies : copy[n] = Gone
    BY <1>1 DEF Live
  <2> QED
    BY <2>1
<1>3. AgentOf[c] \in Agents
  BY AgentOfAssumption
<1>4. conn[c] \in ConnState /\ conn[c].pc = "holding" /\ conn[c].session \in Sessions
  BY Parts DEF ConnsTyped, Placed, Hold
<1>5. i # None
  BY <1>2, NoneApart
<1>6. /\ HeldOf(AgentOf[c], conn[c].session) = {} /\ claim[conn[c].session] \in {None, AgentOf[c]}
      /\ held' = [held EXCEPT ![AgentOf[c]] = Append(EvictIdle(AgentOf[c]), i)]
      /\ conn' = [conn EXCEPT ![c] = [conn[c] EXCEPT !.pc = "attaching", !.log = {}, !.copy = i]]
      /\ UNCHANGED <<stored, behind, turns>>
      /\ Drop([copy EXCEPT ![i] = [session |-> conn[c].session, at |-> AgentOf[c],
                                   log |-> conn[c].log, turn |-> 0]],
              [claim EXCEPT ![conn[c].session] = AgentOf[c]])
  BY DEF Hold, Insert
<1> HIDE DEF i
<1> QED
  BY <1>2, <1>3, <1>4, <1>5, <1>6

\* Nothing is disturbed by a copy more: its lock has it as a holder.
LEMMA HoldKeeps ==
    ASSUME RegistryInv, NEW c \in Conns, Hold(c)
    PROVE  RegistryInv'
<1> DEFINE a == AgentOf[c]
           s == conn[c].session
<1>1. PICK i \in Copies :
        /\ copy[i] = Gone /\ a \in Agents /\ s \in Sessions /\ i # None
        /\ conn[c].pc = "holding" /\ conn[c] \in ConnState
        /\ held' = [held EXCEPT ![a] = Append(EvictIdle(a), i)]
        /\ conn' = [conn EXCEPT ![c] = [conn[c] EXCEPT !.pc = "attaching", !.log = {}, !.copy = i]]
        /\ UNCHANGED <<stored, behind, turns>>
        /\ Drop([copy EXCEPT ![i] = [session |-> s, at |-> a, log |-> conn[c].log, turn |-> 0]],
                [claim EXCEPT ![s] = a])
  BY HoldSays
<1> DEFINE new == [session |-> s, at |-> a, log |-> conn[c].log, turn |-> 0]
           copies == [copy EXCEPT ![i] = new]
           claims == [claim EXCEPT ![s] = a]
           d == [conn[c] EXCEPT !.pc = "attaching", !.log = {}, !.copy = i]
<1>2. new \in CopyState /\ new.session = s /\ new.at = a
  BY <1>1 DEF CopyState, ConnState
<1>3. d \in ConnState /\ d.pc = "attaching" /\ d.session = s /\ d.copy = i
  BY <1>1 DEF ConnState
<1>4. Drop(copies, claims) /\ conn' = [conn EXCEPT ![c] = d]
  BY <1>1
<1>a. a = AgentOf[c]
  OBVIOUS
<1> HIDE DEF a, s, new, d
<1>5. /\ copies \in [Copies -> CopyState] /\ copies[i] = new /\ copies[i] # Gone
      /\ \A j \in Copies : j # i => copies[j] = copy[j]
  <2>1. new # Gone
    BY <1>1, <1>2, NoneApart DEF Gone
  <2> QED
    BY <1>2, <2>1, Parts
<1>6. claims \in [Sessions -> Agents \cup {None}] /\ claims[s] = a /\ \A t \in Sessions : t # s => claims[t] = claim[t]
  BY <1>1, Parts
<1> HIDE DEF copies, claims
<1>7. \A j \in Copies : copies[j] # Gone => copies[j].session \in Sessions /\ copies[j].at \in Agents
  BY <1>1, <1>2, <1>5, Parts
<1>8. ASSUME NEW t \in Sessions, claims[t] # None
      PROVE  \E j \in Copies : copies[j].session = t /\ copies[j].at = claims[t]
  <2>1. CASE t = s
    BY <1>2, <1>5, <1>6, <2>1
  <2>2. CASE t # s
    <3>1. PICK j \in Copies : copy[j].session = t /\ copy[j].at = claim[t]
      BY <1>6, <1>8, <2>2, Parts
    <3>2. j # i
      BY <1>1, <3>1, NoneApart DEF Gone
    <3> QED
      BY <1>5, <1>6, <2>2, <3>1, <3>2
  <2> QED
    BY <2>1, <2>2
<1>9. /\ held' \in [Agents -> Seq(Copies)]
      /\ \A b \in Agents : \A j \in Range(held'[b]) : copies[j] # Gone /\ copies[j].at = b
  <2>1. held \in [Agents -> Seq(Copies)] /\ held[a] \in Seq(Copies)
    BY <1>1, Parts
  <2>2. EvictIdle(a) \in Seq(Copies) /\ Range(EvictIdle(a)) \subseteq Range(held[a])
    BY <2>1, EvictKeeps
  <2>3. /\ Append(EvictIdle(a), i) \in Seq(Copies)
        /\ Range(Append(EvictIdle(a), i)) = Range(EvictIdle(a)) \cup {i}
    BY <2>2, AppendHas
  <2>4. held' \in [Agents -> Seq(Copies)]
    BY <1>1, <2>1, <2>3
  <2>5. ASSUME NEW b \in Agents, NEW j \in Range(held'[b])
        PROVE  copies[j] # Gone /\ copies[j].at = b
    <3>1. CASE b = a /\ j = i
      BY <1>2, <1>5, <3>1
    <3>2. CASE ~(b = a /\ j = i)
      <4>1. j \in Range(held[b])
        BY <1>1, <2>1, <2>2, <2>3, <2>5, <3>2
      <4>2. j \in Copies /\ copy[j] # Gone /\ copy[j].at = b
        BY <4>1, Parts
      <4>3. j # i
        BY <1>1, <4>2
      <4> QED
        BY <1>5, <4>2, <4>3
    <3> QED
      BY <3>1, <3>2
  <2> QED
    BY <2>4, <2>5
<1>10. ConnsTyped'
  BY <1>1, <1>3, <1>4, Tables, ConnGoes
<1>11. StoredTyped' /\ turns' \in Nat
  BY <1>1, Tables DEF StoredTyped
<1>12. ASSUME NEW e \in Conns, conn'[e].copy # None
       PROVE  copies[conn'[e].copy] # Gone /\ copies[conn'[e].copy].at = AgentOf[e]
  <2>1. conn'[e] = IF e = c THEN d ELSE conn[e]
    BY <1>4, Parts DEF ConnsTyped
  <2>2. CASE e = c
    BY <1>a, <1>2, <1>3, <1>5, <2>1, <2>2
  <2>3. CASE e # c
    <3>1. conn[e].copy \in Copies /\ copy[conn[e].copy] # Gone /\ copy[conn[e].copy].at = AgentOf[e]
      BY <1>12, <2>1, <2>3, Parts
    <3>2. conn[e].copy # i
      BY <1>1, <3>1
    <3> QED
      BY <1>5, <2>1, <2>3, <3>1, <3>2
  <2> QED
    BY <2>2, <2>3
<1> QED
  BY <1>4, <1>5, <1>6, <1>7, <1>8, <1>9, <1>10, <1>11, <1>12, Dropping

\* A connection's step that leaves the registry alone.
LEMMA ConnKeeps ==
    ASSUME RegistryInv, NEW c \in Conns,
           Load(c) \/ HoldExisting(c) \/ HoldRefused(c) \/ FallBehind(c)
    PROVE  RegistryInv'
<1>1. UNCHANGED <<stored, claim, copy, held, turns>>
  BY DEF Load, HoldExisting, HoldRefused, FallBehind
<1>2. ConnsTyped' /\ ConnLives'
  <2>1. conn[c] \in ConnState /\ Placed(c) /\ ConnsTyped /\ StoredTyped
    BY Parts DEF ConnsTyped
  <2>2. CASE Load(c)
    <3> DEFINE d == [conn[c] EXCEPT !.pc = "holding", !.log = stored[conn[c].session].turns]
    <3>1. conn[c].session \in Sessions /\ conn[c].copy = None
      BY <2>1, <2>2 DEF Load, Placed
    <3>2. stored[conn[c].session].turns \in SUBSET Nat
      BY <2>1, <3>1 DEF StoredTyped
    <3>3. d \in ConnState /\ d.pc = "holding" /\ d.session \in Sessions /\ d.copy = None
      BY <2>1, <3>1, <3>2 DEF ConnState
    <3>4. conn' = [conn EXCEPT ![c] = d] \/ conn' = [conn EXCEPT ![c] = Unattached]
      BY <2>2 DEF Load
    <3> HIDE DEF d
    <3>5. CASE conn' = [conn EXCEPT ![c] = d]
      BY <1>1, <2>1, <3>3, <3>5, ConnGoes, ConnPoints DEF ConnLives
    <3>6. CASE conn' = [conn EXCEPT ![c] = Unattached]
      BY <1>1, <2>1, <3>6, ConnGoes, ConnPoints, UnattachedStands DEF ConnLives
    <3> QED
      BY <3>4, <3>5, <3>6
  <2>3. CASE HoldExisting(c)
    <3> DEFINE i == CHOOSE j \in HeldOf(AgentOf[c], conn[c].session) : TRUE
               d == [conn[c] EXCEPT !.pc = "attaching", !.log = {}, !.copy = i]
    <3>1. HeldOf(AgentOf[c], conn[c].session) # {} /\ conn' = [conn EXCEPT ![c] = d]
      BY <2>3 DEF HoldExisting
    <3>2. i \in Copies /\ i # None /\ copy[i] # Gone /\ copy[i].at = AgentOf[c]
      BY <3>1, HeldOfIs, AgentOfAssumption
    <3>3. conn[c].session \in Sessions
      BY <2>1, <2>3 DEF HoldExisting, Placed
    <3> HIDE DEF i
    <3>4. /\ d \in ConnState /\ d.pc = "attaching" /\ d.session \in Sessions
          /\ d.copy # None /\ d.copy = i
      BY <2>1, <3>2, <3>3 DEF ConnState
    <3> HIDE DEF d
    <3> QED
      BY <1>1, <2>1, <3>1, <3>2, <3>4, ConnGoes, ConnPoints DEF ConnLives
  <2>4. CASE HoldRefused(c)
    <3>1. conn' = [conn EXCEPT ![c] = Unattached]
      BY <2>4 DEF HoldRefused
    <3> QED
      BY <1>1, <2>1, <3>1, ConnGoes, ConnPoints, UnattachedStands DEF ConnLives
  <2>5. CASE FallBehind(c)
    <3>1. UNCHANGED conn
      BY <2>5 DEF FallBehind
    <3>2. ConnLives
      BY DEF RegistryInv
    <3> QED
      BY <1>1, <2>1, <3>1, <3>2 DEF ConnsTyped, Placed, ConnLives
  <2> QED
    BY <2>2, <2>3, <2>4, <2>5
<1> QED
  BY <1>1, <1>2 DEF RegistryInv, Typed, Loaded, HeldLives, ClaimHasHolder, Live, ConnsTyped

\* A turn begins.
LEMMA PromptKeeps ==
    ASSUME RegistryInv, NEW c \in Conns, Prompt(c)
    PROVE  RegistryInv'
<1> DEFINE i == conn[c].copy
           new == [copy[i] EXCEPT !.turn = turns + 1]
<1>1. /\ conn[c].pc = "watching" /\ turns' = turns + 1 /\ held' = Touch(i)
      /\ copy' = [copy EXCEPT ![i] = new]
      /\ UNCHANGED <<stored, claim, conn, behind>>
  BY DEF Prompt
<1>2. i \in Copies /\ copy[i] # Gone
  <2>1. i # None
    BY <1>1, Parts DEF ConnsTyped, Placed
  <2> QED
    BY <2>1, Parts
<1>3. turns' \in Nat
  BY <1>1, Parts
<1>4. /\ new \in CopyState /\ new.session = copy[i].session /\ new.at = copy[i].at
      /\ copy[i].session \in Sessions /\ copy[i].at \in Agents
  <2>1. turns + 1 \in Nat /\ copy[i] \in CopyState
    BY <1>2, Parts
  <2>2. copy[i].session \in Sessions /\ copy[i].at \in Agents
    BY <1>2, Parts
  <2> QED
    BY <2>1, <2>2 DEF CopyState
<1>5. new # Gone
  BY <1>4, NoneApart DEF Gone
<1> HIDE DEF i, new
<1>6. copy' \in [Copies -> CopyState] /\ copy'[i] = new /\ \A j \in Copies : j # i => copy'[j] = copy[j]
  BY <1>1, <1>2, <1>4, Parts
<1>7. \A j \in Copies : /\ copy[j] # Gone => copy'[j] # Gone
                        /\ copy'[j].session = copy[j].session /\ copy'[j].at = copy[j].at
                        /\ copy'[j] # Gone => copy[j] # Gone
  BY <1>2, <1>4, <1>5, <1>6
<1>8. /\ held' \in [Agents -> Seq(Copies)]
      /\ \A a \in Agents : Range(held'[a]) = Range(held[a])
  BY <1>1, Parts, TouchKeeps
<1>9. Typed'
  <2>1. \A j \in Copies : Loaded(j)'
    BY <1>7, Parts DEF Loaded
  <2>2. \A d \in Conns : Placed(d)'
    BY <1>1, Parts DEF ConnsTyped, Placed
  <2> QED
    BY <1>1, <1>3, <1>6, <1>8, <2>1, <2>2, Parts DEF Typed, StoredTyped, ConnsTyped
<1>10. HeldLives' /\ ConnLives'
  BY <1>1, <1>7, <1>8, Parts DEF HeldLives, ConnLives
<1>11. ClaimHasHolder'
  <2> SUFFICES ASSUME NEW s \in Sessions, claim'[s] # None
               PROVE  \E j \in Copies : copy'[j] # Gone /\ copy'[j].session = s /\ copy'[j].at = claim'[s]
    BY DEF ClaimHasHolder, Live
  <2>1. PICK j \in Copies : copy[j] # Gone /\ copy[j].session = s /\ copy[j].at = claim[s]
    BY <1>1 DEF RegistryInv, ClaimHasHolder, Live
  <2> QED
    BY <1>1, <1>7, <2>1
<1> QED
  BY <1>9, <1>10, <1>11 DEF RegistryInv

\* A turn ends: its copy has it, whether the store does or not.
LEMMA EndTurnSays ==
    ASSUME RegistryInv, NEW i \in Copies, EndTurn(i)
    PROVE  \E new \in CopyState :
             /\ new.session = copy[i].session /\ new.at = copy[i].at /\ new.turn = 0
             /\ copy[i] # Gone /\ new # Gone /\ StoredTyped'
             /\ UNCHANGED <<held, conn, behind, turns>> /\ Drop([copy EXCEPT ![i] = new], claim)
<1> DEFINE log == copy[i].log \cup {copy[i].turn}
           new == [[copy[i] EXCEPT !.turn = 0] EXCEPT !.log = log]
<1>1. /\ copy[i].turn # 0
      /\ stored' = [stored EXCEPT ![copy[i].session] = Log(log)] \/ UNCHANGED stored
      /\ UNCHANGED <<held, conn, behind, turns>>
      /\ Drop([copy EXCEPT ![i].turn = 0, ![i].log = log], claim)
  BY DEF EndTurn
<1>2. copy[i] # Gone
  BY <1>1 DEF Gone
<1>3. /\ copy[i] \in CopyState /\ log \in SUBSET Nat
      /\ copy[i].session \in Sessions /\ copy[i].at \in Agents
  BY <1>2, Parts DEF CopyState
<1>4. StoredTyped'
  <2>1. Log(log) \in [known : BOOLEAN, turns : SUBSET Nat]
    BY <1>3 DEF Log
  <2>2. stored \in [Sessions -> [known : BOOLEAN, turns : SUBSET Nat]]
    BY Tables DEF StoredTyped
  <2> HIDE DEF log
  <2> QED
    BY <1>1, <1>3, <2>1, <2>2 DEF StoredTyped
<1>5. [copy EXCEPT ![i].turn = 0, ![i].log = log] = [copy EXCEPT ![i] = new]
  BY <1>3, Parts DEF CopyState
<1>6. /\ new \in CopyState /\ new.session = copy[i].session /\ new.at = copy[i].at
      /\ new.turn = 0
  BY <1>3 DEF CopyState
<1> HIDE DEF log, new
<1>7. new # Gone
  BY <1>3, <1>6, NoneApart DEF Gone
<1> QED
  BY <1>1, <1>2, <1>4, <1>5, <1>6, <1>7

\* And the copy that had it is dropped where that was all it was kept for.
LEMMA EndTurnKeeps ==
    ASSUME RegistryInv, NEW i \in Copies, EndTurn(i)
    PROVE  RegistryInv'
<1>1. PICK new \in CopyState :
        /\ new.session = copy[i].session /\ new.at = copy[i].at
        /\ copy[i] # Gone /\ new # Gone /\ StoredTyped'
        /\ UNCHANGED <<held, conn, behind, turns>> /\ Drop([copy EXCEPT ![i] = new], claim)
  BY EndTurnSays
<1> DEFINE copies == [copy EXCEPT ![i] = new]
<1>2. /\ copies \in [Copies -> CopyState]
      /\ \A j \in Copies : /\ copies[j] = Gone <=> copy[j] = Gone
                           /\ copies[j].session = copy[j].session /\ copies[j].at = copy[j].at
  BY <1>1, Parts
<1>3. Drop(copies, claim)
  BY <1>1
<1> HIDE DEF copies
<1>4. \A j \in Copies : copies[j] # Gone => copies[j].session \in Sessions /\ copies[j].at \in Agents
  BY <1>2, Parts
<1>5. \A s \in Sessions : claim[s] # None => \E j \in Copies : copies[j].session = s /\ copies[j].at = claim[s]
  BY <1>2, Parts
<1>6. /\ held' \in [Agents -> Seq(Copies)]
      /\ \A a \in Agents : \A j \in Range(held'[a]) : copies[j] # Gone /\ copies[j].at = a
  BY <1>1, <1>2, Parts
<1>7. \A c \in Conns : conn'[c].copy # None =>
          copies[conn'[c].copy] # Gone /\ copies[conn'[c].copy].at = AgentOf[c]
  BY <1>1, <1>2, Parts
<1>8. ConnsTyped' /\ turns' \in Nat
  BY <1>1, Parts DEF ConnsTyped, Placed
<1>9. claim \in [Sessions -> Agents \cup {None}]
  BY Parts
<1> QED
  BY <1>1, <1>2, <1>3, <1>4, <1>5, <1>6, <1>7, <1>8, <1>9, Dropping

\* An agent goes, with its copies, its connections and its locks.
LEMMA StopKeeps ==
    ASSUME RegistryInv, NEW a \in Agents, Stop(a)
    PROVE  RegistryInv'
<1>1. /\ conn' = [c \in Conns |-> IF AgentOf[c] = a THEN Unattached ELSE conn[c]]
      /\ held' = [held EXCEPT ![a] = <<>>]
      /\ copy' = [i \in Copies |-> IF copy[i].at = a THEN Gone ELSE copy[i]]
      /\ claim' = [s \in Sessions |-> IF claim[s] = a THEN None ELSE claim[s]]
      /\ UNCHANGED <<stored, turns>>
  BY DEF Stop
<1>2. copy' \in [Copies -> CopyState] /\ \A i \in Copies : Loaded(i)'
  <2>1. Gone \in CopyState
    BY DEF Gone, CopyState
  <2> QED
    BY <1>1, <2>1, Parts DEF Loaded
<1>3. claim' \in [Sessions -> Agents \cup {None}]
  BY <1>1, Parts
<1>4. /\ held' \in [Agents -> Seq(Copies)]
      /\ Range(held'[a]) = {} /\ \A b \in Agents : b # a => held'[b] = held[b]
  <2>1. <<>> \in Seq(Copies) /\ Range(<<>>) = {}
    BY DEF Range
  <2> QED
    BY <1>1, <2>1, Parts
<1>5. ConnsTyped'
  <2>1. conn' \in [Conns -> ConnState]
    BY <1>1, Parts, UnattachedStands DEF ConnsTyped
  <2>2. ASSUME NEW c \in Conns PROVE Placed(c)'
    <3>1. conn'[c] = Unattached \/ conn'[c] = conn[c]
      BY <1>1
    <3> QED
      BY <3>1, Parts, UnattachedStands DEF Placed, ConnsTyped
  <2> QED
    BY <2>1, <2>2 DEF ConnsTyped
<1>6. HeldLives'
  <2> SUFFICES ASSUME NEW b \in Agents, NEW i \in Range(held'[b])
               PROVE  copy'[i] # Gone /\ copy'[i].at = b
    BY DEF HeldLives
  <2>1. b # a /\ i \in Range(held[b])
    BY <1>4
  <2> QED
    BY <1>1, <2>1, Parts
<1>7. ConnLives'
  <2> SUFFICES ASSUME NEW c \in Conns, conn'[c].copy # None
               PROVE  copy'[conn'[c].copy] # Gone /\ copy'[conn'[c].copy].at = AgentOf[c]
    BY DEF ConnLives
  <2>1. AgentOf[c] # a /\ conn'[c] = conn[c]
    BY <1>1, UnattachedStands
  <2> QED
    BY <1>1, <2>1, Parts
<1>8. ClaimHasHolder'
  <2> SUFFICES ASSUME NEW s \in Sessions, claim'[s] # None
               PROVE  \E j \in Copies : copy'[j] # Gone /\ copy'[j].session = s /\ copy'[j].at = claim'[s]
    BY DEF ClaimHasHolder, Live
  <2>1. claim[s] # None /\ claim[s] # a /\ claim'[s] = claim[s]
    BY <1>1
  <2>2. PICK j \in Copies : copy[j] # Gone /\ copy[j].session = s /\ copy[j].at = claim[s]
    BY <2>1 DEF RegistryInv, ClaimHasHolder, Live
  <2> QED
    BY <1>1, <2>1, <2>2
<1> QED
  BY <1>1, <1>2, <1>3, <1>4, <1>5, <1>6, <1>7, <1>8, Parts DEF RegistryInv, Typed, StoredTyped, ConnsTyped

\* A store with its sessions, and no agent at work on them.
LEMMA RegistryInvInit == Init => RegistryInv
<1> SUFFICES ASSUME Init PROVE RegistryInv
  OBVIOUS
<1>1. /\ stored = [s \in Sessions |-> IF s \in Recorded THEN Log({}) ELSE NoLog]
      /\ claim = [s \in Sessions |-> None] /\ copy = [i \in Copies |-> Gone]
      /\ held = [a \in Agents |-> <<>>] /\ conn = [c \in Conns |-> Unattached] /\ turns = 0
  BY DEF Init
<1>2. Log({}) \in [known : BOOLEAN, turns : SUBSET Nat] /\ NoLog \in [known : BOOLEAN, turns : SUBSET Nat]
  BY DEF Log, NoLog
<1>3. Gone \in CopyState /\ Unattached \in ConnState /\ <<>> \in Seq(Copies) /\ Range(<<>>) = {}
  BY UnattachedStands DEF Gone, CopyState, Range
<1>4. Typed
  BY <1>1, <1>2, <1>3, UnattachedStands DEF Typed, Loaded, Placed
<1>5. HeldLives /\ ConnLives
  BY <1>1, <1>3, UnattachedStands DEF HeldLives, ConnLives
<1>6. ClaimHasHolder
  BY <1>1 DEF ClaimHasHolder
<1> QED
  BY <1>4, <1>5, <1>6 DEF RegistryInv

\* One step for each action.
LEMMA RegistryInvNext == RegistryInv /\ [Next]_vars => RegistryInv'
<1> SUFFICES ASSUME RegistryInv, [Next]_vars PROVE RegistryInv'
  OBVIOUS
<1>1. CASE UNCHANGED vars
  BY <1>1 DEF vars, RegistryInv, Typed, Loaded, Placed, HeldLives, ConnLives, ClaimHasHolder, Live
<1>2. ASSUME NEW c \in Conns, NEW s \in Sessions, Ask(c, s) PROVE RegistryInv'
  BY <1>2, AskKeeps
<1>3. ASSUME NEW c \in Conns, NEW s \in Sessions, NEW named \in BOOLEAN, AskNew(c, s, named) PROVE RegistryInv'
  BY <1>3, AskNewKeeps
<1>4. ASSUME NEW c \in Conns, Load(c) \/ HoldExisting(c) \/ HoldRefused(c) \/ FallBehind(c) PROVE RegistryInv'
  BY <1>4, ConnKeeps
<1>5. ASSUME NEW c \in Conns, Hold(c) PROVE RegistryInv'
  BY <1>5, HoldKeeps
<1>6. ASSUME NEW c \in Conns, Attach(c) PROVE RegistryInv'
  BY <1>6, AttachKeeps
<1>7. ASSUME NEW c \in Conns, HangUp(c) PROVE RegistryInv'
  BY <1>7, HangUpKeeps
<1>8. ASSUME NEW c \in Conns, Prompt(c) PROVE RegistryInv'
  BY <1>8, PromptKeeps
<1>9. ASSUME NEW i \in Copies, EndTurn(i) PROVE RegistryInv'
  BY <1>9, EndTurnKeeps
<1>10. ASSUME NEW a \in Agents, Stop(a) PROVE RegistryInv'
  BY <1>10, StopKeeps
<1> QED
  BY <1>1, <1>2, <1>3, <1>4, <1>5, <1>6, <1>7, <1>8, <1>9, <1>10 DEF Next

\* The registries, the copies and the locks are of one another in every
\* reachable state.
THEOREM RegistryInvariant == Spec => []RegistryInv
BY RegistryInvInit, RegistryInvNext, PTL DEF Spec

\* A lock is never left without a copy it is for: whatever was let go, ended,
\* hung up or killed, the next writer is not refused by a claim nobody uses
\* (the Drop of Claim).
THEOREM ClaimHasHolderAlways == Spec => []ClaimHasHolder
<1>1. RegistryInv => ClaimHasHolder
  BY DEF RegistryInv
<1> QED
  BY <1>1, RegistryInvariant, PTL

-----------------------------------------------------------------------------
(***************************************************************************)
(* What is let go.                                                         *)
(***************************************************************************)
\* The registries and the places of clients after each step, and what of the
\* agents' copies stays.
LEMMA InUseStep ==
    ASSUME RegistryInv, [Next]_vars, NEW a \in Agents, NEW i \in Range(held[a]),
           InUse(i), i \notin Range(held'[a])
    PROVE  copy'[i] = Gone
<1>0. i \in Copies /\ copy[i].at = a /\ held \in [Agents -> Seq(Copies)]
  BY Parts
<1>1. held' # held
  OBVIOUS
<1>2. ~UNCHANGED vars
  BY <1>1 DEF vars
<1>3. ASSUME NEW c \in Conns, NEW s \in Sessions,
             Ask(c, s) \/ \E named \in BOOLEAN : AskNew(c, s, named)
      PROVE  UNCHANGED held
  BY <1>3 DEF Ask, AskNew
<1>4. ASSUME NEW c \in Conns,
             Load(c) \/ HoldExisting(c) \/ HoldRefused(c) \/ FallBehind(c) \/ HangUp(c)
      PROVE  UNCHANGED held
  BY <1>4 DEF Load, HoldExisting, HoldRefused, FallBehind, HangUp
<1>5. ASSUME NEW c \in Conns, Attach(c) \/ Prompt(c)
      PROVE  Range(held'[a]) = Range(held[a])
  BY <1>0, <1>5, TouchKeeps DEF Attach, Prompt
<1>6. ASSUME NEW j \in Copies, EndTurn(j)
      PROVE  UNCHANGED held
  BY <1>6 DEF EndTurn
<1>7. ASSUME NEW c \in Conns, Hold(c)
      PROVE  i \in Range(held'[a])
  <2>1. PICK n \in Copies : /\ AgentOf[c] \in Agents
                            /\ held' = [held EXCEPT ![AgentOf[c]] = Append(EvictIdle(AgentOf[c]), n)]
    BY <1>7, HoldSays
  <2>2. CASE AgentOf[c] = a
    <3>1. EvictIdle(a) \in Seq(Copies) /\ i \in Range(EvictIdle(a))
      BY <1>0, EvictKeeps
    <3>2. Range(Append(EvictIdle(a), n)) = Range(EvictIdle(a)) \cup {n}
      BY <3>1, AppendHas
    <3> QED
      BY <1>0, <2>1, <2>2, <3>1, <3>2
  <2>3. CASE AgentOf[c] # a
    BY <1>0, <2>1, <2>3
  <2> QED
    BY <2>2, <2>3
<1>8. PICK b \in Agents : Stop(b)
  BY <1>1, <1>2, <1>3, <1>4, <1>5, <1>6, <1>7 DEF Next
<1>9. b = a
  <2>1. b # a => held'[a] = held[a]
    BY <1>0, <1>8 DEF Stop
  <2> QED
    BY <2>1
<1> QED
  BY <1>0, <1>8, <1>9 DEF Stop

\* A session with a turn running or a client watching is let go only with its
\* agent (evict_idle passes over what is in use, whatever the bound).
THEOREM InUseIsKeptAlways == Spec => InUseIsKept
<1>1. RegistryInv /\ [Next]_vars =>
        [\A a \in Agents : \A i \in Range(held[a]) :
            InUse(i) /\ i \notin Range(held'[a]) => copy'[i] = Gone]_vars
  BY InUseStep
<1> QED
  BY <1>1, RegistryInvariant, PTL DEF Spec, InUseIsKept

-----------------------------------------------------------------------------
(***************************************************************************)
(* One copy of a session, in any process.                                  *)
(***************************************************************************)
\* The stronger invariant, part by part.
LEMMA WriterParts ==
    ASSUME WriterInv
    PROVE  /\ RegistryInv
           /\ \A i, j \in Copies : copy[i] # Gone /\ copy[j] # Gone /\ copy[i].session = copy[j].session
                                      => i = j
           /\ \A i \in Copies : copy[i] # Gone =>
                  claim[copy[i].session] = copy[i].at /\ i \in Range(held[copy[i].at])
BY DEF WriterInv, OneWriter, CopyIsClaimed, LiveIsHeld, Live

\* It is kept where copies are dropped and no two of them were of one session.
LEMMA DropKeepsOne ==
    ASSUME NEW copies \in [Copies -> CopyState], NEW claims \in [Sessions -> Agents \cup {None}],
           RegistryInv', AttachedIsHeld', Drop(copies, claims),
           \A i \in Copies : copies[i] # Gone => copies[i].session \in Sessions,
           \A i, j \in Copies : copies[i] # Gone /\ copies[j] # Gone /\ copies[i].session = copies[j].session
               => i = j,
           \A i \in Copies : copies[i] # Gone => claims[copies[i].session] = copies[i].at,
           \A i \in Copies : copies[i].turn # 0 => i \in Range(held'[copies[i].at])
    PROVE  WriterInv'
<1>1. /\ \A i \in Copies : /\ Kept(copies, i) => copy'[i] = copies[i]
                           /\ ~Kept(copies, i) => copy'[i] = Gone
      /\ claim' = [s \in Sessions |->
                 IF \E i \in Copies : /\ ~Kept(copies, i) /\ copies[i].session = s
                                      /\ copies[i].at = claims[s]
                 THEN None ELSE claims[s]]
  BY DropSays
<1>2. \A i \in Copies : copy'[i] # Gone => Kept(copies, i) /\ copy'[i] = copies[i]
  BY <1>1
<1>3. OneWriter'
  BY <1>2 DEF OneWriter, Live
<1>4. CopyIsClaimed'
  <2> SUFFICES ASSUME NEW i \in Copies, copy'[i] # Gone
               PROVE  claim'[copy'[i].session] = copy'[i].at
    BY DEF CopyIsClaimed, Live
  <2> DEFINE s == copies[i].session
  <2>1. Kept(copies, i) /\ copy'[i] = copies[i] /\ s \in Sessions /\ claims[s] = copies[i].at
    BY <1>2
  <2>2. ~\E j \in Copies : ~Kept(copies, j) /\ copies[j].session = s /\ copies[j].at = claims[s]
    <3> SUFFICES ASSUME NEW j \in Copies, ~Kept(copies, j), copies[j].session = s PROVE FALSE
      OBVIOUS
    <3>1. copies[j] # Gone
      BY <2>1, NoneApart DEF Gone
    <3> QED
      BY <2>1, <3>1, <1>2
  <2> QED
    BY <1>1, <2>1, <2>2
<1>5. LiveIsHeld'
  <2> SUFFICES ASSUME NEW i \in Copies, copy'[i] # Gone
               PROVE  i \in Range(held'[copy'[i].at])
    BY DEF LiveIsHeld, Live
  <2>1. Kept(copies, i) /\ copy'[i] = copies[i]
    BY <1>2
  <2>2. CASE \E a \in Agents : i \in Range(held'[a])
    BY <2>2 DEF RegistryInv, HeldLives
  <2>3. CASE \E c \in Conns : conn'[c].copy = i
    <3>1. PICK c \in Conns : conn'[c].copy = i
      BY <2>3
    <3>2. i # None
      BY NoneApart
    <3>3. conn'[c].pc \in {"attaching", "watching"}
      BY <3>1, <3>2 DEF RegistryInv, Typed, Placed
    <3>4. i \in Range(held'[AgentOf[c]]) /\ AgentOf[c] \in Agents
      BY <3>1, <3>3, AgentOfAssumption DEF AttachedIsHeld
    <3> QED
      BY <3>4 DEF RegistryInv, HeldLives
  <2>4. CASE copies[i].turn # 0
    BY <2>1, <2>4
  <2> QED
    BY <2>1, <2>2, <2>3, <2>4 DEF Kept
<1> QED
  BY <1>3, <1>4, <1>5 DEF WriterInv

\* A session that is held has no copy yet: its lock was free, or its agent's,
\* and then a copy of it would be among those the agent holds.
LEMMA HoldKeepsOne ==
    ASSUME WriterInv, RegistryInv', AttachedIsHeld', NEW c \in Conns, Hold(c)
    PROVE  WriterInv'
<1> DEFINE a == AgentOf[c]
           s == conn[c].session
<1>0. RegistryInv
  BY WriterParts
<1>1. PICK i \in Copies :
        /\ copy[i] = Gone /\ a \in Agents /\ s \in Sessions
        /\ HeldOf(a, s) = {} /\ claim[s] \in {None, a} /\ conn[c] \in ConnState
        /\ held' = [held EXCEPT ![a] = Append(EvictIdle(a), i)]
        /\ Drop([copy EXCEPT ![i] = [session |-> s, at |-> a, log |-> conn[c].log, turn |-> 0]],
                [claim EXCEPT ![s] = a])
  BY <1>0, HoldSays
<1> DEFINE new == [session |-> s, at |-> a, log |-> conn[c].log, turn |-> 0]
           copies == [copy EXCEPT ![i] = new]
           claims == [claim EXCEPT ![s] = a]
<1>2. new \in CopyState /\ new.session = s /\ new.at = a /\ new.turn = 0
  BY <1>1 DEF CopyState, ConnState
<1>3. Drop(copies, claims)
  BY <1>1
<1> HIDE DEF a, s, new
<1>4. /\ copies \in [Copies -> CopyState] /\ copies[i] = new
      /\ \A j \in Copies : j # i => copies[j] = copy[j]
  BY <1>0, <1>2, Parts
<1>5. claims \in [Sessions -> Agents \cup {None}] /\ claims[s] = a /\ \A t \in Sessions : t # s => claims[t] = claim[t]
  BY <1>0, <1>1, Parts
<1> HIDE DEF copies, claims
<1>6. ASSUME NEW j \in Copies, copy[j] # Gone PROVE copy[j].session # s
  <2> SUFFICES ASSUME copy[j].session = s PROVE FALSE
    OBVIOUS
  <2>1. claim[s] = copy[j].at /\ j \in Range(held[copy[j].at])
    BY <1>6, WriterParts
  <2>2. copy[j].at \in Agents
    BY <1>0, <1>6, Parts
  <2>3. copy[j].at = a
    BY <1>1, <2>1, <2>2, NoneApart
  <2> QED
    BY <1>1, <2>1, <2>3 DEF HeldOf
<1>7. \A j \in Copies : copies[j] # Gone => copies[j].session \in Sessions
  BY <1>0, <1>1, <1>2, <1>4, Parts
<1>8. \A j, k \in Copies : copies[j] # Gone /\ copies[k] # Gone /\ copies[j].session = copies[k].session
          => j = k
  <2> SUFFICES ASSUME NEW j \in Copies, NEW k \in Copies, copies[j] # Gone, copies[k] # Gone,
                      copies[j].session = copies[k].session
               PROVE  j = k
    OBVIOUS
  <2>1. CASE j # i /\ k # i
    BY <1>4, <2>1, WriterParts
  <2>2. CASE j = i /\ k # i
    BY <1>2, <1>4, <1>6, <2>2
  <2>3. CASE j # i /\ k = i
    BY <1>2, <1>4, <1>6, <2>3
  <2> QED
    BY <2>1, <2>2, <2>3
<1>9. \A j \in Copies : copies[j] # Gone => claims[copies[j].session] = copies[j].at
  <2> SUFFICES ASSUME NEW j \in Copies, copies[j] # Gone
               PROVE  claims[copies[j].session] = copies[j].at
    OBVIOUS
  <2>1. CASE j = i
    BY <1>2, <1>4, <1>5, <2>1
  <2>2. CASE j # i
    <3>1. copies[j] = copy[j] /\ copy[j].session # s /\ claim[copy[j].session] = copy[j].at
      BY <1>4, <1>6, <2>2, WriterParts
    <3>2. copy[j].session \in Sessions
      BY <1>0, <2>2, <3>1, Parts
    <3> QED
      BY <1>5, <3>1, <3>2
  <2> QED
    BY <2>1, <2>2
<1>10. \A j \in Copies : copies[j].turn # 0 => j \in Range(held'[copies[j].at])
  <2> SUFFICES ASSUME NEW j \in Copies, copies[j].turn # 0
               PROVE  j \in Range(held'[copies[j].at])
    OBVIOUS
  <2>1. j # i /\ copies[j] = copy[j]
    BY <1>2, <1>4
  <2>2. copy[j] # Gone /\ InUse(j)
    BY <2>1 DEF Gone, InUse
  <2>3. j \in Range(held[copy[j].at]) /\ copy[j].at \in Agents /\ held \in [Agents -> Seq(Copies)]
    BY <1>0, <2>2, WriterParts, Parts
  <2>4. CASE copy[j].at = a
    <3>1. EvictIdle(a) \in Seq(Copies) /\ j \in Range(EvictIdle(a))
      BY <2>2, <2>3, <2>4, EvictKeeps
    <3>2. Range(Append(EvictIdle(a), i)) = Range(EvictIdle(a)) \cup {i}
      BY <3>1, AppendHas
    <3> QED
      BY <1>1, <2>1, <2>3, <2>4, <3>1, <3>2
  <2>5. CASE copy[j].at # a
    BY <1>1, <2>1, <2>3, <2>5
  <2> QED
    BY <2>4, <2>5
<1> QED
  BY <1>3, <1>4, <1>5, <1>7, <1>8, <1>9, <1>10, DropKeepsOne

\* A step that drops, and holds nothing new.
LEMMA DroppingKeepsOne ==
    ASSUME WriterInv, RegistryInv', AttachedIsHeld', Drop(copy, claim),
           \A a \in Agents : Range(held'[a]) = Range(held[a])
    PROVE  WriterInv'
<1>1. /\ RegistryInv /\ copy \in [Copies -> CopyState] /\ claim \in [Sessions -> Agents \cup {None}]
      /\ \A i \in Copies : copy[i] # Gone => copy[i].session \in Sessions /\ copy[i].at \in Agents
  BY WriterParts, Parts
<1>2. ASSUME NEW i \in Copies, copy[i].turn # 0 PROVE i \in Range(held'[copy[i].at])
  <2>1. copy[i] # Gone
    BY <1>2 DEF Gone
  <2> QED
    BY <1>1, <2>1, WriterParts
<1> QED
  BY <1>1, <1>2, WriterParts, DropKeepsOne

\* A turn that ends leaves a copy to its client or to the registry.
LEMMA EndTurnKeepsOne ==
    ASSUME WriterInv, RegistryInv', AttachedIsHeld', NEW i \in Copies, EndTurn(i)
    PROVE  WriterInv'
<1>0. /\ RegistryInv /\ copy \in [Copies -> CopyState] /\ claim \in [Sessions -> Agents \cup {None}]
      /\ \A j \in Copies : copy[j] # Gone => copy[j].session \in Sessions /\ copy[j].at \in Agents
  BY WriterParts, Parts
<1>1. PICK new \in CopyState :
        /\ new.session = copy[i].session /\ new.at = copy[i].at /\ new.turn = 0
        /\ copy[i] # Gone /\ new # Gone
        /\ UNCHANGED <<held, conn, behind, turns>> /\ Drop([copy EXCEPT ![i] = new], claim)
  BY <1>0, EndTurnSays
<1> DEFINE copies == [copy EXCEPT ![i] = new]
<1>2. /\ copies \in [Copies -> CopyState]
      /\ \A j \in Copies : /\ copies[j] = Gone <=> copy[j] = Gone
                           /\ copies[j].session = copy[j].session /\ copies[j].at = copy[j].at
                           /\ copies[j].turn # 0 => copy[j].turn # 0
  BY <1>0, <1>1
<1>3. Drop(copies, claim)
  BY <1>1
<1> HIDE DEF copies
<1>4. ASSUME NEW j \in Copies, copies[j].turn # 0 PROVE j \in Range(held'[copies[j].at])
  <2>1. copy[j] # Gone
    BY <1>2, <1>4 DEF Gone
  <2> QED
    BY <1>1, <1>2, <2>1, WriterParts
<1>5. \A j, k \in Copies : copies[j] # Gone /\ copies[k] # Gone /\ copies[j].session = copies[k].session
          => j = k
  BY <1>2, WriterParts
<1>6. \A j \in Copies : copies[j] # Gone => /\ copies[j].session \in Sessions
                                            /\ claim[copies[j].session] = copies[j].at
  BY <1>0, <1>2, WriterParts
<1> QED
  BY <1>0, <1>2, <1>3, <1>4, <1>5, <1>6, DropKeepsOne

\* One step for each action, where what is attached to is held before and
\* after it.
LEMMA WriterInvNext ==
    ASSUME WriterInv, RegistryInv', AttachedIsHeld', [Next]_vars
    PROVE  WriterInv'
<1>0. RegistryInv
  BY WriterParts
<1>1. CASE UNCHANGED <<claim, copy, held>>
  BY <1>1, WriterParts DEF WriterInv, OneWriter, CopyIsClaimed, LiveIsHeld, Live
<1>2. CASE UNCHANGED vars
  BY <1>1, <1>2 DEF vars
<1>3. ASSUME NEW c \in Conns, NEW s \in Sessions,
             Ask(c, s) \/ \E named \in BOOLEAN : AskNew(c, s, named)
      PROVE  WriterInv'
  <2>1. Drop(copy, claim) /\ UNCHANGED held
    BY <1>3 DEF Ask, AskNew
  <2> QED
    BY <2>1, DroppingKeepsOne
<1>4. ASSUME NEW c \in Conns,
             Load(c) \/ HoldExisting(c) \/ HoldRefused(c) \/ FallBehind(c)
      PROVE  WriterInv'
  BY <1>1, <1>4 DEF Load, HoldExisting, HoldRefused, FallBehind
<1>5. ASSUME NEW c \in Conns, HangUp(c)
      PROVE  WriterInv'
  <2>1. Drop(copy, claim) /\ UNCHANGED held
    BY <1>5 DEF HangUp
  <2> QED
    BY <2>1, DroppingKeepsOne
<1>6. ASSUME NEW c \in Conns, Attach(c)
      PROVE  WriterInv'
  <2>1. Drop(copy, claim) /\ held' = Touch(conn[c].copy)
    BY <1>6 DEF Attach
  <2>2. \A a \in Agents : Range(held'[a]) = Range(held[a])
    BY <1>0, <2>1, Parts, TouchKeeps
  <2> QED
    BY <2>1, <2>2, DroppingKeepsOne
<1>7. ASSUME NEW c \in Conns, Hold(c)
      PROVE  WriterInv'
  BY <1>7, HoldKeepsOne
<1>8. ASSUME NEW i \in Copies, EndTurn(i)
      PROVE  WriterInv'
  BY <1>8, EndTurnKeepsOne
<1>9. ASSUME NEW c \in Conns, Prompt(c)
      PROVE  WriterInv'
  <2>1. PICK i : /\ UNCHANGED claim /\ held' = Touch(i) /\ copy' = [copy EXCEPT ![i].turn = turns + 1]
                 /\ i = conn[c].copy /\ conn[c].pc = "watching"
    BY <1>9 DEF Prompt
  <2>2. i \in Copies /\ copy[i] # Gone
    <3>1. i # None
      BY <1>0, <2>1, Parts DEF ConnsTyped, Placed
    <3> QED
      BY <1>0, <2>1, <3>1, Parts
  <2>3. \A j \in Copies : /\ copy'[j] # Gone => copy[j] # Gone
                          /\ copy'[j].session = copy[j].session /\ copy'[j].at = copy[j].at
    BY <1>0, <2>1, <2>2, Parts DEF CopyState
  <2>4. \A a \in Agents : Range(held'[a]) = Range(held[a])
    BY <1>0, <2>1, Parts, TouchKeeps
  <2>5. OneWriter'
    BY <2>3, WriterParts DEF OneWriter, Live
  <2>6. CopyIsClaimed'
    BY <2>1, <2>3, WriterParts DEF CopyIsClaimed, Live
  <2>7. LiveIsHeld'
    <3> SUFFICES ASSUME NEW j \in Copies, copy'[j] # Gone
                 PROVE  j \in Range(held'[copy'[j].at])
      BY DEF LiveIsHeld, Live
    <3>1. copy[j] # Gone /\ copy'[j].at = copy[j].at
      BY <2>3
    <3>2. copy[j].at \in Agents /\ j \in Range(held[copy[j].at])
      BY <1>0, <3>1, Parts, WriterParts
    <3> QED
      BY <2>4, <3>1, <3>2
  <2> QED
    BY <2>5, <2>6, <2>7 DEF WriterInv
<1>10. ASSUME NEW a \in Agents, Stop(a)
       PROVE  WriterInv'
  <2>1. /\ copy' = [i \in Copies |-> IF copy[i].at = a THEN Gone ELSE copy[i]]
        /\ claim' = [s \in Sessions |-> IF claim[s] = a THEN None ELSE claim[s]]
        /\ held' = [held EXCEPT ![a] = <<>>]
    BY <1>10 DEF Stop
  <2>2. ASSUME NEW i \in Copies, copy'[i] # Gone
        PROVE  /\ copy[i] # Gone /\ copy'[i] = copy[i] /\ copy[i].at # a
               /\ copy[i].session \in Sessions /\ copy[i].at \in Agents
               /\ claim[copy[i].session] = copy[i].at /\ i \in Range(held[copy[i].at])
    <3>1. copy[i] # Gone /\ copy'[i] = copy[i] /\ copy[i].at # a
      BY <2>1, <2>2
    <3> QED
      BY <1>0, <3>1, Parts, WriterParts
  <2>3. OneWriter'
    BY <2>2, WriterParts DEF OneWriter, Live
  <2>4. CopyIsClaimed'
    BY <2>1, <2>2 DEF CopyIsClaimed, Live
  <2>5. LiveIsHeld'
    BY <1>0, <2>1, <2>2, Parts DEF LiveIsHeld, Live
  <2> QED
    BY <2>3, <2>4, <2>5 DEF WriterInv
<1> QED
  BY <1>2, <1>3, <1>4, <1>5, <1>6, <1>7, <1>8, <1>9, <1>10 DEF Next

\* As long as what every client attaches to is in its agent's registry, no
\* session has two copies in any process: that no two of them write it rests
\* on nothing else, neither on the order in which sessions are asked for,
\* loaded and held, nor on who stops when (hold).
THEOREM OneWriterWhileHeld == Spec /\ []AttachedIsHeld => []OneWriter
<1>1. Init => WriterInv
  <2> SUFFICES ASSUME Init PROVE WriterInv
    OBVIOUS
  <2>1. \A i \in Copies : copy[i] = Gone
    BY DEF Init
  <2>2. Live = {}
    BY <2>1 DEF Live
  <2>3. RegistryInv
    BY RegistryInvInit
  <2> QED
    BY <2>2, <2>3 DEF WriterInv, OneWriter, CopyIsClaimed, LiveIsHeld
<1>2. WriterInv /\ RegistryInv' /\ AttachedIsHeld' /\ [Next]_vars => WriterInv'
  BY WriterInvNext
<1>3. WriterInv => OneWriter
  BY DEF WriterInv
<1> QED
  BY <1>1, <1>2, <1>3, RegistryInvariant, PTL DEF Spec

\* Agents of one client each.
OneClientEach == \A c, d \in Conns : AgentOf[c] = AgentOf[d] => c = d

\* Then what its client attaches to is still in the registry: the client that
\* would have another session loaded in its place is that client.
LEMMA AttachedStaysHeld ==
    ASSUME OneClientEach, RegistryInv, AttachedIsHeld, [Next]_vars
    PROVE  AttachedIsHeld'
<1> SUFFICES ASSUME NEW e \in Conns, conn'[e].pc \in {"attaching", "watching"}
             PROVE  conn'[e].copy \in Range(held'[AgentOf[e]])
  BY DEF AttachedIsHeld
<1>0. /\ AgentOf \in [Conns -> Agents] /\ held \in [Agents -> Seq(Copies)] /\ conn \in [Conns -> ConnState]
      /\ conn[e].pc \in {"attaching", "watching"} => conn[e].copy \in Range(held[AgentOf[e]])
  BY Parts, AgentOfAssumption DEF AttachedIsHeld, ConnsTyped
<1>s. ASSUME conn'[e] = conn[e], Range(held'[AgentOf[e]]) = Range(held[AgentOf[e]])
      PROVE  conn'[e].copy \in Range(held'[AgentOf[e]])
  BY <1>0, <1>s
<1>u. Unattached.pc \notin {"attaching", "watching"}
  BY UnattachedStands
<1>1. CASE UNCHANGED <<held, conn>>
  BY <1>1, <1>s
<1>2. ASSUME NEW c \in Conns, NEW s \in Sessions, Ask(c, s)
      PROVE  conn'[e].copy \in Range(held'[AgentOf[e]])
  <2>1. /\ UNCHANGED held
        /\ conn' = [conn EXCEPT ![c] =
             IF HeldOf(AgentOf[c], s) = {}
             THEN [pc |-> "loading", session |-> s, log |-> {}, copy |-> None]
             ELSE [pc |-> "attaching", session |-> s, log |-> {},
                   copy |-> CHOOSE i \in HeldOf(AgentOf[c], s) : TRUE]]
    BY <1>2 DEF Ask
  <2>2. CASE e = c
    <3>1. HeldOf(AgentOf[c], s) # {}
      BY <1>0, <2>1, <2>2
    <3> DEFINE i == CHOOSE j \in HeldOf(AgentOf[c], s) : TRUE
    <3>2. i \in Range(held[AgentOf[c]])
      BY <1>0, <3>1, HeldOfIs
    <3>3. conn'[e].copy = i
      BY <1>0, <2>1, <2>2, <3>1
    <3> QED
      BY <2>1, <2>2, <3>2, <3>3
  <2>3. CASE e # c
    BY <1>0, <1>s, <2>1, <2>3
  <2> QED
    BY <2>2, <2>3
<1>3. ASSUME NEW c \in Conns, NEW s \in Sessions, NEW named \in BOOLEAN, AskNew(c, s, named)
      PROVE  conn'[e].copy \in Range(held'[AgentOf[e]])
  <2>1. /\ UNCHANGED held
        /\ conn' = [conn EXCEPT ![c] = [pc |-> "holding", session |-> s, log |-> {}, copy |-> None]]
    BY <1>3 DEF AskNew
  <2>2. e # c /\ conn'[e] = conn[e]
    BY <1>0, <2>1
  <2> QED
    BY <1>s, <2>1, <2>2
<1>4. ASSUME NEW c \in Conns, Load(c) \/ HoldRefused(c) \/ HangUp(c)
      PROVE  conn'[e].copy \in Range(held'[AgentOf[e]])
  <2>1. UNCHANGED held /\ (conn'[e] = conn[e] \/ conn'[e].pc \in {"holding", "idle"})
    BY ZenonT(30), <1>0, <1>4, UnattachedStands DEF Load, HoldRefused, HangUp, ConnState
  <2> QED
    BY <1>s, <2>1
<1>5. ASSUME NEW c \in Conns, HoldExisting(c)
      PROVE  conn'[e].copy \in Range(held'[AgentOf[e]])
  <2> DEFINE s == conn[c].session
             i == CHOOSE j \in HeldOf(AgentOf[c], s) : TRUE
  <2>1. /\ UNCHANGED held /\ HeldOf(AgentOf[c], s) # {}
        /\ conn' = [conn EXCEPT ![c] = [conn[c] EXCEPT !.pc = "attaching", !.log = {}, !.copy = i]]
    BY <1>5 DEF HoldExisting
  <2>2. i \in Range(held[AgentOf[c]])
    BY <1>0, <2>1, HeldOfIs
  <2> HIDE DEF i
  <2>3. CASE e = c
    <3>1. conn[c] \in ConnState
      BY <1>0
    <3>2. conn'[c].copy = i
      BY <1>0, <2>1, <3>1 DEF ConnState
    <3> QED
      BY <2>1, <2>2, <2>3, <3>2
  <2>4. CASE e # c
    BY <1>0, <1>s, <2>1, <2>4
  <2> QED
    BY <2>3, <2>4
<1>6. ASSUME NEW c \in Conns, Hold(c)
      PROVE  conn'[e].copy \in Range(held'[AgentOf[e]])
  <2>1. PICK i \in Copies :
          /\ held' = [held EXCEPT ![AgentOf[c]] = Append(EvictIdle(AgentOf[c]), i)]
          /\ conn' = [conn EXCEPT ![c] = [conn[c] EXCEPT !.pc = "attaching", !.log = {}, !.copy = i]]
    BY <1>6, HoldSays
  <2>2. CASE e = c
    <3>1. EvictIdle(AgentOf[c]) \in Seq(Copies)
      BY <1>0, EvictKeeps
    <3>2. i \in Range(held'[AgentOf[c]])
      BY <1>0, <2>1, <3>1, AppendHas
    <3>3. conn[c] \in ConnState
      BY <1>0
    <3>4. conn'[c].copy = i
      BY <1>0, <2>1, <3>3 DEF ConnState
    <3> QED
      BY <2>2, <3>2, <3>4
  <2>3. CASE e # c
    <3>1. AgentOf[e] # AgentOf[c]
      BY <2>3 DEF OneClientEach
    <3> QED
      BY <1>0, <1>s, <2>1, <2>3, <3>1
  <2> QED
    BY <2>2, <2>3
<1>7. ASSUME NEW c \in Conns, Attach(c)
      PROVE  conn'[e].copy \in Range(held'[AgentOf[e]])
  <2>1. /\ conn[c].pc = "attaching" /\ held' = Touch(conn[c].copy)
        /\ conn' = [conn EXCEPT ![c] = [conn[c] EXCEPT !.pc = "watching"]]
           \/ conn' = [conn EXCEPT ![c] = Unattached]
    BY <1>7 DEF Attach
  <2>2. Range(held'[AgentOf[e]]) = Range(held[AgentOf[e]])
    BY <1>0, <2>1, TouchKeeps
  <2>3. conn'[e].copy = conn[e].copy /\ conn[e].pc \in {"attaching", "watching"}
    <3>1. conn[c] \in ConnState
      BY <1>0
    <3>2. CASE e # c
      BY <1>0, <2>1, <3>2
    <3>3. CASE e = c
      <4>1. conn' # [conn EXCEPT ![c] = Unattached]
        BY <1>0, <1>u, <3>3
      <4>2. conn'[c] = [conn[c] EXCEPT !.pc = "watching"]
        BY <1>0, <2>1, <4>1
      <4>3. conn'[c].copy = conn[c].copy
        BY <3>1, <4>2 DEF ConnState
      <4> QED
        BY <2>1, <3>3, <4>3
    <3> QED
      BY <3>2, <3>3
  <2> QED
    BY <1>0, <2>2, <2>3
<1>8. ASSUME NEW c \in Conns, FallBehind(c)
      PROVE  conn'[e].copy \in Range(held'[AgentOf[e]])
  BY <1>1, <1>8 DEF FallBehind
<1>9. ASSUME NEW c \in Conns, Prompt(c)
      PROVE  conn'[e].copy \in Range(held'[AgentOf[e]])
  <2>1. UNCHANGED conn /\ Range(held'[AgentOf[e]]) = Range(held[AgentOf[e]])
    BY <1>0, <1>9, TouchKeeps DEF Prompt
  <2> QED
    BY <1>s, <2>1
<1>10. ASSUME NEW i \in Copies, EndTurn(i)
       PROVE  conn'[e].copy \in Range(held'[AgentOf[e]])
  BY <1>1, <1>10 DEF EndTurn
<1>11. ASSUME NEW a \in Agents, Stop(a)
       PROVE  conn'[e].copy \in Range(held'[AgentOf[e]])
  <2>1. AgentOf[e] # a /\ conn'[e] = conn[e] /\ held'[AgentOf[e]] = held[AgentOf[e]]
    BY <1>0, <1>u, <1>11 DEF Stop
  <2> QED
    BY <1>s, <2>1
<1> QED
  BY <1>1, <1>2, <1>3, <1>4, <1>5, <1>6, <1>7, <1>8, <1>9, <1>10, <1>11 DEF Next, vars

\* Where an agent serves one client, nobody else has it let go of what that
\* client is attaching to, and no session has two copies, however many agents
\* share the store and however few sessions each may hold (hold, evict_idle).
THEOREM OneClientOneWriter == ASSUME OneClientEach PROVE Spec => []OneWriter
<1>1. Init => AttachedIsHeld
  <2> SUFFICES ASSUME Init PROVE AttachedIsHeld
    OBVIOUS
  <2>1. \A c \in Conns : conn[c] = Unattached
    BY DEF Init
  <2> QED
    BY <2>1, UnattachedStands DEF AttachedIsHeld
<1>2. RegistryInv /\ AttachedIsHeld /\ [Next]_vars => AttachedIsHeld'
  BY AttachedStaysHeld
<1> QED
  BY <1>1, <1>2, RegistryInvariant, OneWriterWhileHeld, PTL DEF Spec

=============================================================================
