------------------------- MODULE LinkSessionProofs --------------------------
(***************************************************************************)
(* What holds of a session and the clients that watch it whatever the      *)
(* number of connections, turns, steps, frames and moves: the session has  *)
(* one user at a time, its frames go to those who watch it, an end is      *)
(* told, a question has somebody to settle it, and the clients are told    *)
(* the conversation as Transcript promises.                                *)
(***************************************************************************)
EXTENDS LinkSession, SubsequencesProofs, FiniteSetTheorems

Viewer == [id : Nat, conn : Conn]
Sent   == [what : {"nothing", "prompt", "question", "ending", "goal", "checkpoint"},
           item : Nat, left : Seq(Viewer), late : SUBSET Nat]
Frame  == [turn : Nat, step : Nat, kind : {"prompt", "progress", "decision"}]

\* Tasks of a turn that holds the session, and those whose words may not be
\* recorded yet.
Holding  == {"spawned", "top", "intent", "stream", "asking", "waiting", "closing", "refused"}
Speaking == {"spawned", "intent", "stream", "asking", "waiting"}

Types ==
    /\ body \in {"legacy", "managed"}
    /\ said \in Seq(Frame) /\ backlog \in Seq(Nat)
    /\ at \in [turn : Nat, step : Nat, produced : BOOLEAN]
    /\ busy \in BOOLEAN /\ question \in BOOLEAN
    /\ viewers \in Seq(Viewer) /\ watching \in [Conn -> Nat] /\ nextViewer \in Nat
    /\ pc \in [Conn -> {"reading", "opening", "prompting", "goal", "gone"}]
    /\ task \in [Turn -> Holding \cup {"none", "ending", "done"}]
    /\ cast \in [Actor -> Sent]
    /\ shown \in [Conn -> Seq(Nat) \cup {Away}]
    /\ drawn \in [Conn -> {"idle", "turn", "reserved"}]

\* One holds the session, and it is busy then.
Alone ==
    /\ busy <=> Users # {}
    /\ \A u, v \in Users : u = v

\* What every task sends, and how far the turns are.
Tasks ==
    /\ \A c \in Conn : pc[c] = "prompting" => cast[c].what = "prompt"
    /\ \A c \in Conn : cast[c].what = "prompt" => pc[c] = "prompting"
    /\ \A c \in Conn : cast[c].what \in {"nothing", "prompt", "goal", "checkpoint"}
    /\ \A c \in Conn : cast[c].what \in {"goal", "checkpoint"} => pc[c] = "goal"
    /\ \A t \in Turn : cast[t].what \in {"nothing", "question", "ending"}
    /\ \A t \in Turn : task[t] = "asking" <=> cast[t].what = "question"
    /\ \A t \in Turn : task[t] = "ending" <=> cast[t].what = "ending"
    /\ at.turn <= MaxTurns
    /\ \A t \in Turn : t > at.turn => task[t] = "none"
    /\ \A c \in Conn : pc[c] = "prompting" => at.turn \in Turn /\ task[at.turn] = "none"

Control == Alone /\ Tasks

\* A list of viewers, each once.
Distinct(s) == \A i, j \in DOMAIN s : s[i].id = s[j].id => i = j

\* A viewer's entry is the connection's latest attachment.
Watch ==
    /\ Distinct(viewers)
    /\ \A i \in DOMAIN viewers : viewers[i].id # 0 /\ watching[viewers[i].conn] = viewers[i].id
    /\ \A c \in Conn : watching[c] < nextViewer
    /\ \A c, d \in Conn : watching[c] = watching[d] /\ watching[c] # 0 => c = d
    /\ \A c \in Conn : pc[c] = "opening" => watching[c] = 0

\* So was every viewer a frame is on its way to.
Bound ==
    \A x \in Actor :
       /\ Distinct(cast[x].left)
       /\ \A i \in DOMAIN cast[x].left :
             /\ cast[x].left[i].id < nextViewer
             /\ \A j \in DOMAIN viewers : viewers[j].id = cast[x].left[i].id => viewers[j] = cast[x].left[i]

Prompting == \E c \in Conn : pc[c] = "prompting"

\* Said in the turn's present step, or in an earlier one.
Placed ==
    /\ \A n \in DOMAIN said : Before(n) \/ Here(n)
    /\ \A n, m \in DOMAIN said : Before(n) /\ Here(m) => n < m

\* Whoever holds the session may have said what is not recorded yet; when
\* that is no more than a prompt.
Speaks  == Prompting \/ \E t \in Turn : task[t] \in Speaking
Prompts == Prompting \/ \E t \in Turn : task[t] = "spawned"

\* What was said is recorded or withdrawn, but for what the one who holds the
\* session says just now.
Recorded ==
    /\ stored \subseteq records /\ records \subseteq DOMAIN said /\ withdrawn \subseteq DOMAIN said
    /\ \A n \in DOMAIN said : n \in records \/ n \in withdrawn \/ Here(n)
    /\ Speaks \/ \A n \in DOMAIN said : n \in records \/ n \in withdrawn
    /\ Prompts => \A n \in DOMAIN said : Here(n) => said[n].kind = "prompt"
    /\ \A t \in Turn : task[t] = "intent" => ~at.produced /\ \A n \in records : ~Here(n)

\* What stands is in the store or in the backlog, which comes after it.
Backed ==
    /\ \A n \in DOMAIN said : n \in withdrawn \/ n \in stored \/ \E i \in DOMAIN backlog : backlog[i] = n
    /\ \A i \in DOMAIN backlog : backlog[i] \in DOMAIN said
    /\ \A i, j \in DOMAIN backlog : i < j => backlog[i] < backlog[j]
    /\ \A i \in DOMAIN backlog : \A n \in stored :
          n < backlog[i] \/ (said[backlog[i]].kind = "decision" /\ backlog[i] \in stored)

\* What x sends is still on its way to c, or c is to be detached for it.
ToReach(x, c) ==
    \/ \E i \in DOMAIN cast[x].left : cast[x].left[i].id = watching[c]
    \/ watching[c] \in cast[x].late

\* A prompt on its way is the last thing said, and news to who has not got it.
Items ==
    /\ \A x \in Actor : cast[x].what # "prompt" => cast[x].item = 0
    /\ \A x \in Actor : cast[x].what = "prompt" => cast[x].item = Len(said) /\ Len(said) # 0
    /\ \A x \in Actor : cast[x].what = "prompt" =>
          \A c \in Conn : Following(c) =>
             \A i \in DOMAIN cast[x].left : cast[x].left[i].id = watching[c] =>
                \A j \in DOMAIN shown[c] : shown[c][j] < cast[x].item

\* c has seen up to m or past it, or is being sent it.
Covered(c, m) == \E i \in DOMAIN shown[c] : m <= shown[c][i]
Owed(c, m) == \E x \in Conn : cast[x].what = "prompt" /\ cast[x].item = m /\ ToReach(x, c)

Seen ==
    \A c \in Conn : Following(c) =>
       /\ shown[c] \in Seq(Nat)
       /\ \A i \in DOMAIN shown[c] : shown[c][i] \in DOMAIN said
       /\ \A m \in DOMAIN said : said[m].kind = "prompt" =>
             m \in withdrawn \/ Covered(c, m) \/ Owed(c, m)

\* No turn runs or starts.
NoTurn == ~Prompting /\ \A t \in Turn : task[t] \notin Holding

\* Then who believes one runs is being told that it ended.
Ends ==
    NoTurn => \A c \in Conn : Following(c) /\ drawn[c] = "turn" =>
                 \E t \in Turn : cast[t].what = "ending" /\ ToReach(t, c)

IInv ==
    /\ Types /\ Control /\ Watch /\ Bound /\ Placed /\ Recorded /\ Backed
    /\ Items /\ Seen /\ Ends /\ AskedIsAttended

-----------------------------------------------------------------------------
(* Lists of viewers.                                                       *)

\* o is a list of some of the viewers in s, each once.
Among(o, s) ==
    /\ o \in Seq(Viewer) /\ Distinct(o)
    /\ \A i \in DOMAIN o : \E k \in DOMAIN s : s[k] = o[i]

\* A list filtered is such a list, with all that pass.
LEMMA OnlyAmong ==
    ASSUME NEW s \in Seq(Viewer), Distinct(s), NEW S
    PROVE  /\ Among(Only(s, S), s)
           /\ \A i \in DOMAIN Only(s, S) : Only(s, S)[i] \in S
           /\ \A k \in DOMAIN s : s[k] \in S => \E i \in DOMAIN Only(s, S) : Only(s, S)[i] = s[k]
<1>1. PICK o : o = Only(s, S)
  OBVIOUS
<1>2. Takes(o, s, S, Viewer)
  BY <1>1, OnlyTakes
<1>3. /\ o \in Seq(Viewer)
      /\ \A i \in DOMAIN o : o[i] \in S /\ \E k \in DOMAIN s : s[k] = o[i]
      /\ \A k \in DOMAIN s : s[k] \in S => \E i \in DOMAIN o : o[i] = s[k]
      /\ \A i, j \in DOMAIN o : i < j => \E k, l \in DOMAIN s : k < l /\ s[k] = o[i] /\ s[l] = o[j]
  BY <1>2 DEF Takes
<1>4. Distinct(o)
  <2> SUFFICES ASSUME NEW i \in DOMAIN o, NEW j \in DOMAIN o, o[i].id = o[j].id, i # j
               PROVE  FALSE
    BY DEF Distinct
  <2>1. i \in Nat /\ j \in Nat
    BY SMTT(30), <1>3
  <2>2. CASE i < j
    <3>1. PICK k, l \in DOMAIN s : k < l /\ s[k] = o[i] /\ s[l] = o[j]
      BY <1>3, <2>2
    <3>2. k = l
      BY <3>1 DEF Distinct
    <3>3. k \in Nat
      OBVIOUS
    <3> QED
      BY <3>1, <3>2, <3>3
  <2>3. CASE j < i
    <3>1. PICK k, l \in DOMAIN s : k < l /\ s[k] = o[j] /\ s[l] = o[i]
      BY <1>3, <2>3
    <3>2. k = l
      BY <3>1 DEF Distinct
    <3>3. k \in Nat
      OBVIOUS
    <3> QED
      BY <3>1, <3>2, <3>3
  <2> QED
    BY <2>1, <2>2, <2>3
<1> QED
  BY <1>1, <1>3, <1>4 DEF Among

\* What is left of such a list after its first is one too.
LEMMA TailAmong ==
    ASSUME NEW s \in Seq(Viewer), Distinct(s), s # <<>>
    PROVE  /\ Among(Tail(s), s)
           /\ Head(s) = s[1] /\ 1 \in DOMAIN s
           /\ \A i \in DOMAIN Tail(s) : Tail(s)[i].id # Head(s).id
           /\ \A k \in DOMAIN s : s[k] = Head(s) \/ \E i \in DOMAIN Tail(s) : Tail(s)[i] = s[k]
<1>1. /\ Tail(s) \in Seq(Viewer) /\ Len(s) \in Nat /\ Len(s) > 0 /\ DOMAIN s = 1..Len(s)
      /\ DOMAIN Tail(s) = 1..(Len(s) - 1)
      /\ \A i \in 1..(Len(s) - 1) : Tail(s)[i] = s[i + 1]
      /\ Head(s) = s[1]
  OBVIOUS
<1>2. Distinct(Tail(s))
  BY <1>1 DEF Distinct
<1>3. \A i \in DOMAIN Tail(s) : Tail(s)[i].id # s[1].id /\ \E k \in DOMAIN s : s[k] = Tail(s)[i]
  BY <1>1 DEF Distinct
<1>4. \A k \in DOMAIN s : s[k] = s[1] \/ \E i \in DOMAIN Tail(s) : Tail(s)[i] = s[k]
  <2> SUFFICES ASSUME NEW k \in DOMAIN s, k # 1
               PROVE  \E i \in DOMAIN Tail(s) : Tail(s)[i] = s[k]
    OBVIOUS
  <2>1. k - 1 \in 1..(Len(s) - 1) /\ (k - 1) + 1 = k
    BY <1>1
  <2> QED
    BY <1>1, <2>1
<1> QED
  BY <1>1, <1>2, <1>3, <1>4 DEF Among

\* And so is a list itself.
LEMMA SelfAmong == ASSUME NEW s \in Seq(Viewer), Distinct(s) PROVE Among(s, s)
  BY DEF Among

-----------------------------------------------------------------------------
(* What steps do to what the invariant is about.                           *)

\* Between two viewers of a frame nothing moves but the frame.
Stays == UNCHANGED <<session, viewers, watching, nextViewer, pc, task>>

Waits == Stays /\ UNCHANGED <<cast, shown, drawn>>

\* The frame goes on to the next viewer, past one that has left, past one
\* that is to be detached, or past one that has it.
Moves(x, late) ==
    /\ Stays /\ cast[x].left # <<>>
    /\ cast' = [cast EXCEPT ![x] = [what |-> cast[x].what, item |-> cast[x].item,
                                    left |-> Tail(cast[x].left), late |-> late]]
Passes(x) == Moves(x, cast[x].late) /\ ~Addressed(x) /\ UNCHANGED <<shown, drawn>>
Misses(x) == Moves(x, cast[x].late \cup {Receiver(x).id}) /\ UNCHANGED <<shown, drawn>>
Hands(x)  ==
    /\ Moves(x, cast[x].late) /\ Addressed(x)
    /\ shown' = [shown EXCEPT ![Receiver(x).conn] = Seeing(Receiver(x).conn, cast[x].item)]
    /\ drawn' = [drawn EXCEPT ![Receiver(x).conn] = Draws(Receiver(x).conn, cast[x].what)]

\* The next viewer of a frame.
LEMMA ReceiverTyped ==
    ASSUME Types, NEW x \in Actor, cast[x].left # <<>>
    PROVE  /\ Receiver(x) \in Viewer /\ Receiver(x).conn \in Conn /\ Receiver(x).id \in Nat
           /\ Receiver(x) = cast[x].left[1] /\ 1 \in DOMAIN cast[x].left
           /\ Tail(cast[x].left) \in Seq(Viewer)
<1>1. cast[x].left \in Seq(Viewer)
  BY DEF Types, Sent
<1>2. Receiver(x) \in Viewer
  BY <1>1 DEF Receiver
<1>3. /\ Receiver(x) = cast[x].left[1] /\ 1 \in DOMAIN cast[x].left
      /\ Tail(cast[x].left) \in Seq(Viewer)
  BY <1>1 DEF Receiver
<1> QED
  BY <1>2, <1>3 DEF Viewer

\* A record with two fields changed.
LEMMA Moved ==
    ASSUME NEW r \in Sent, NEW a \in Seq(Viewer), NEW b \in SUBSET Nat
    PROVE  [r EXCEPT !.left = a, !.late = b] = [what |-> r.what, item |-> r.item, left |-> a, late |-> b]
<1>1. PICK q : q = [r EXCEPT !.left = a, !.late = b]
  OBVIOUS
<1>2. q \in Sent
  BY <1>1 DEF Sent
<1>3. q.left = a /\ q.late = b /\ q.what = r.what /\ q.item = r.item
  BY <1>1 DEF Sent
<1>4. q = [what |-> q.what, item |-> q.item, left |-> q.left, late |-> q.late]
  BY <1>2 DEF Sent
<1> QED
  BY <1>1, <1>3, <1>4

\* A frame is delivered in those ways.
LEMMA Delivery ==
    ASSUME Types, NEW x \in Actor, Reach(x) \/ Granted(x) \/ GaveUp(x)
    PROVE  Waits \/ Passes(x) \/ Misses(x) \/ Hands(x)
<1>1. cast \in [Actor -> Sent]
  BY DEF Types
<1>2. ASSUME NEW late \in SUBSET Nat, Onward(x, late), cast[x].left # <<>>, Frozen PROVE Moves(x, late)
  <2>1. cast' = [cast EXCEPT ![x].left = Tail(@), ![x].late = late]
    BY <1>2 DEF Onward
  <2>2. PICK r : r = cast[x]
    OBVIOUS
  <2>3. [r EXCEPT !.left = Tail(r.left), !.late = late]
           = [what |-> r.what, item |-> r.item, left |-> Tail(r.left), late |-> late]
    <3>1. Tail(r.left) \in Seq(Viewer)
      BY <1>2, <2>2, ReceiverTyped
    <3> QED
      <4>1. r \in Sent
        BY <1>1, <2>2
      <4>2. late \in SUBSET Nat
        BY <1>2
      <4> QED
        BY <3>1, <4>1, <4>2, Moved
  <2>4. cast' = [cast EXCEPT ![x] = [r EXCEPT !.left = Tail(r.left), !.late = late]]
    BY <1>1, <2>1, <2>2
  <2>5. UNCHANGED <<session, viewers, watching, nextViewer, pc, task>>
    BY <1>2 DEF Frozen
  <2> QED
    BY <1>2, <2>2, <2>3, <2>4, <2>5 DEF Moves, Stays
<1>0. cast[x].late \in SUBSET Nat /\ (cast[x].left # <<>> => cast[x].late \cup {Receiver(x).id} \in SUBSET Nat)
  BY <1>1, ReceiverTyped DEF Sent
<1>3. CASE Reach(x)
  <2>1. cast[x].left # <<>> /\ Frozen
    BY <1>3 DEF Reach
  <2>2. \/ ~Addressed(x) /\ Onward(x, cast[x].late) /\ UNCHANGED <<shown, drawn>>
        \/ Addressed(x) /\ Put(x, Receiver(x).conn) /\ Onward(x, cast[x].late)
        \/ UNCHANGED <<cast, shown, drawn>>
        \/ Onward(x, cast[x].late \cup {Receiver(x).id}) /\ UNCHANGED <<shown, drawn>>
    BY <1>3 DEF Reach, queues
  <2> QED
    BY <1>0, <1>2, <2>1, <2>2 DEF Waits, Passes, Misses, Hands, Put, Stays, Frozen
<1>4. CASE Granted(x)
  <2>1. cast[x].left # <<>> /\ Frozen /\ Put(x, Receiver(x).conn) /\ Onward(x, cast[x].late)
    BY <1>4 DEF Granted, Queued
  <2> QED
    BY <1>0, <1>2, <2>1 DEF Passes, Hands, Put
<1>5. CASE GaveUp(x)
  <2>1. /\ cast[x].left # <<>> /\ Frozen /\ UNCHANGED <<shown, drawn>>
        /\ Onward(x, cast[x].late \cup {Receiver(x).id})
    BY <1>5 DEF GaveUp, Queued
  <2> QED
    BY <1>0, <1>2, <2>1 DEF Misses
<1> QED
  BY <1>3, <1>4, <1>5

\* What a client has seen is a list of places, or nothing.
LEMMA SeeingTyped ==
    ASSUME Types, NEW c \in Conn, NEW n \in Nat
    PROVE  /\ Seeing(c, n) \in Seq(Nat) \cup {Away}
           /\ shown[c] \in Seq(Nat) => Seeing(c, n) \in Seq(Nat)
           /\ shown[c] \in Seq(Nat) /\ n # 0 => Seeing(c, n) = Append(shown[c], n)
  BY BoundsAssumption DEF Types, Seeing

\* A frame is the last thing said.
LEMMA Appended ==
    ASSUME Types, NEW f \in Frame, said' = Append(said, f)
    PROVE  /\ said' \in Seq(Frame)
           /\ Len(said') = Len(said) + 1 /\ Len(said') \in Nat /\ Len(said) \in Nat
           /\ DOMAIN said = 1..Len(said) /\ DOMAIN said' = 1..(Len(said) + 1)
           /\ \A n \in DOMAIN said : said'[n] = said[n]
           /\ said'[Len(said) + 1] = f
  BY DEF Types

\* Saying it.
LEMMA Says ==
    ASSUME Types, NEW kind \in {"progress", "decision"}, Say(kind), at' \in [turn : Nat, step : Nat, produced : BOOLEAN]
    PROVE  /\ [turn |-> at.turn, step |-> at'.step, kind |-> kind] \in Frame
           /\ said' = Append(said, [turn |-> at.turn, step |-> at'.step, kind |-> kind])
           /\ shown' \in [Conn -> Seq(Nat) \cup {Away}]
           /\ drawn' \in [Conn -> {"idle", "turn", "reserved"}]
           /\ viewers' = Only(viewers, {v \in ToSet(viewers) : ~Gone(v)})
           /\ viewers' \in Seq(Viewer)
<1>1. [turn |-> at.turn, step |-> at'.step, kind |-> kind] \in Frame
  BY DEF Types, Frame
<1>2. said' = Append(said, [turn |-> at.turn, step |-> at'.step, kind |-> kind])
  BY DEF Say
<1>3. Len(said') \in Nat
  BY <1>1, <1>2, Appended
<1>4. shown' \in [Conn -> Seq(Nat) \cup {Away}]
  <2>1. PICK C \in SUBSET Offered : shown' = [c \in Conn |-> IF c \in C THEN Seeing(c, Len(said')) ELSE shown[c]]
    BY DEF Say
  <2> QED
    BY <1>3, <2>1, SeeingTyped DEF Types
<1>5. drawn' \in [Conn -> {"idle", "turn", "reserved"}]
  BY DEF Say, Types
<1>6. viewers' = Only(viewers, {v \in ToSet(viewers) : ~Gone(v)})
  BY DEF Say
<1>7. viewers' \in Seq(Viewer)
  BY <1>6, OnlyTakes DEF Takes, Types
<1> QED
  BY <1>1, <1>2, <1>4, <1>5, <1>6, <1>7

\* What Only takes of a list has its type.
LEMMA OnlyTyped == ASSUME NEW A, NEW s \in Seq(A), NEW S PROVE Only(s, S) \in Seq(A)
  BY OnlyTakes DEF Takes

-----------------------------------------------------------------------------
(* Types.                                                                  *)

\* What a client that joins reads is a list of places.
LEMMA CatchUpTyped == ASSUME Types PROVE CatchUp \in Seq(Nat)
<1>1. [n \in DOMAIN said |-> n] \in Seq(Nat)
  BY DEF Types
<1>2. InOrder(stored) \in Seq(Nat)
  BY <1>1, OnlyTyped DEF InOrder
<1>3. Only(backlog, {n \in DOMAIN said : said[n].kind # "decision" \/ n \notin stored}) \in Seq(Nat)
  BY OnlyTyped DEF Types
<1> QED
  BY <1>2, <1>3 DEF CatchUp

\* Types are kept.
LEMMA TypesStep == Types /\ Next => Types'
<1> SUFFICES ASSUME Types, Next PROVE Types'
  OBVIOUS
<1>1. ASSUME NEW x \in Actor, Reach(x) \/ Granted(x) \/ GaveUp(x)
      PROVE  Types'
  <2>1. /\ cast[x] \in Sent /\ cast[x].item \in Nat /\ cast[x].what \in {"nothing", "prompt", "question", "ending", "goal", "checkpoint"}
        /\ cast[x].late \in SUBSET Nat
    BY DEF Types, Sent
  <2>2. ASSUME NEW late \in SUBSET Nat, Moves(x, late) PROVE cast' \in [Actor -> Sent]
    <3>1. Tail(cast[x].left) \in Seq(Viewer)
      BY <2>2, ReceiverTyped DEF Moves
    <3>2. [what |-> cast[x].what, item |-> cast[x].item, left |-> Tail(cast[x].left), late |-> late] \in Sent
      BY <2>1, <2>2, <3>1 DEF Sent
    <3> QED
      BY <2>2, <3>2 DEF Types, Moves
  <2>3. CASE Waits
    BY <2>3 DEF Types, Waits, Stays, session
  <2>4. CASE Passes(x)
    <3>1. cast' \in [Actor -> Sent]
      BY <2>1, <2>2, <2>4 DEF Passes
    <3> QED
      BY <2>4, <3>1 DEF Types, Passes, Moves, Stays, session
  <2>5. CASE Misses(x)
    <3>1. cast[x].late \cup {Receiver(x).id} \in SUBSET Nat
      BY <2>1, <2>5, ReceiverTyped DEF Misses, Moves
    <3>2. cast' \in [Actor -> Sent]
      BY <2>2, <2>5, <3>1 DEF Misses
    <3> QED
      BY <2>5, <3>2 DEF Types, Misses, Moves, Stays, session
  <2>6. CASE Hands(x)
    <3>1. cast' \in [Actor -> Sent]
      BY <2>1, <2>2, <2>6 DEF Hands
    <3>2. Receiver(x).conn \in Conn
      BY <2>6, ReceiverTyped DEF Hands, Moves
    <3>3. Seeing(Receiver(x).conn, cast[x].item) \in Seq(Nat) \cup {Away}
      BY <2>1, <3>2, SeeingTyped
    <3>4. Draws(Receiver(x).conn, cast[x].what) \in {"idle", "turn", "reserved"}
      BY <3>2 DEF Types, Draws
    <3>5. /\ shown' \in [Conn -> Seq(Nat) \cup {Away}]
          /\ drawn' \in [Conn -> {"idle", "turn", "reserved"}]
      BY <2>6, <3>2, <3>3, <3>4 DEF Types, Hands
    <3> QED
      BY <2>6, <3>1, <3>5 DEF Types, Hands, Moves, Stays, session
  <2> QED
    BY <1>1, <2>3, <2>4, <2>5, <2>6, Delivery
<1>2. ASSUME NEW x \in Actor, Reached(x)
      PROVE  Types'
  <2>1. viewers' \in Seq(Viewer)
    BY <1>2, OnlyTyped DEF Types, Reached
  <2>2. Nobody \in Sent /\ [what |-> "goal", item |-> 0, left |-> viewers', late |-> {}] \in Sent
    BY <2>1 DEF Sent, Nobody
  <2>3. cast' \in [Actor -> Sent]
    BY <1>2, <2>2 DEF Types, Reached, Sending
  <2>4. /\ task' \in [Turn -> Holding \cup {"none", "ending", "done"}]
        /\ pc' \in [Conn -> {"reading", "opening", "prompting", "goal", "gone"}]
        /\ busy' \in BOOLEAN /\ question' \in BOOLEAN
    BY <1>2 DEF Types, Reached, Holding
  <2> QED
    BY <1>2, <2>1, <2>3, <2>4 DEF Types, Reached, queues
<1>3. ASSUME NEW t \in Turn, Admit(t) \/ Stopped(t) \/ Decided(t) \/ StreamFails(t)
      PROVE  Types'
  BY <1>3 DEF Types, Holding, Goes, Kept, Idling, Silent, queues, Admit, Stopped, Decided, StreamFails
<1>4. ASSUME NEW t \in Turn, StepStart(t)
      PROVE  Types'
  <2>1. at' \in [turn : Nat, step : Nat, produced : BOOLEAN]
    <3>1. at.step \in Nat /\ at.step + 1 \in Nat /\ at \in [turn : Nat, step : Nat, produced : BOOLEAN]
      BY DEF Types
    <3>2. at' = [at EXCEPT !.step = at.step + 1, !.produced = FALSE]
      BY <1>4 DEF StepStart
    <3> QED
      BY <3>1, <3>2
  <2>2. Say("progress")
    BY <1>4 DEF StepStart
  <2>3. /\ said' \in Seq(Frame) /\ viewers' \in Seq(Viewer) /\ Len(said') \in Nat
        /\ shown' \in [Conn -> Seq(Nat) \cup {Away}] /\ drawn' \in [Conn -> {"idle", "turn", "reserved"}]
    BY <2>1, <2>2, Says, Appended
  <2>4. backlog' \in Seq(Nat)
    BY <1>4, <2>3 DEF Types, StepStart
  <2> QED
    BY <1>4, <2>1, <2>3, <2>4 DEF Types, Holding, StepStart, Goes, Kept, Idling
<1>5. ASSUME NEW t \in Turn, Intent(t)
      PROVE  Types'
  <2>1. backlog' \in Seq(Nat)
    BY <1>5, OnlyTyped DEF Types, Intent, Retired
  <2> QED
    BY <1>5, <2>1 DEF Types, Holding, Intent, Silent, queues, Goes, Kept, Idling
<1>6. ASSUME NEW t \in Turn, Produce(t)
      PROVE  Types'
  <2>1. at' \in [turn : Nat, step : Nat, produced : BOOLEAN]
    BY <1>6 DEF Types, Produce
  <2>2. Say("progress")
    BY <1>6 DEF Produce
  <2>3. /\ said' \in Seq(Frame) /\ viewers' \in Seq(Viewer) /\ Len(said') \in Nat
        /\ shown' \in [Conn -> Seq(Nat) \cup {Away}] /\ drawn' \in [Conn -> {"idle", "turn", "reserved"}]
    BY <2>1, <2>2, Says, Appended
  <2>4. backlog' \in Seq(Nat)
    BY <1>6, <2>3 DEF Types, Produce
  <2> QED
    BY <1>6, <2>1, <2>3, <2>4 DEF Types, Holding, Produce, Goes, Kept, Idling
<1>7. ASSUME NEW t \in Turn, Ask(t) \/ Close(t)
      PROVE  Types'
  <2>1. \A what \in {"question", "ending"} : [what |-> what, item |-> 0, left |-> viewers, late |-> {}] \in Sent
    BY DEF Types, Sent
  <2>2. cast' \in [Actor -> Sent]
    BY <1>7, <2>1 DEF Types, Actor, Ask, Close, Sending
  <2>3. CASE Ask(t)
    BY <2>2, <2>3 DEF Types, Holding, Ask, queues, Goes, Kept, Idling
  <2>4. CASE Close(t)
    <3>0. (backlog' = <<>> \/ backlog' = backlog) /\ task' = [task EXCEPT ![t] = "ending"]
      BY <2>4 DEF Close, Goes
    <3>1. backlog' \in Seq(Nat)
      <4>1. backlog \in Seq(Nat) /\ <<>> \in Seq(Nat)
        BY EmptySeq DEF Types
      <4> QED
        BY <3>0, <4>1
    <3>3. task' \in [Turn -> Holding \cup {"none", "ending", "done"}]
      BY <3>0 DEF Types
    <3>2. /\ UNCHANGED <<body, said, at, viewers, watching, nextViewer, pc, shown, drawn>>
          /\ busy' = FALSE /\ question' = FALSE
      BY <2>4 DEF Close, queues
    <3> QED
      BY <2>2, <3>1, <3>2, <3>3 DEF Types
  <2> QED
    BY <1>7, <2>3, <2>4
<1>8. ASSUME NEW t \in Turn, Settle(t)
      PROVE  Types'
  <2>1. CASE Silent /\ UNCHANGED <<backlog, at>>
    BY <1>8, <2>1 DEF Types, Holding, Settle, Silent, queues, Goes, Kept, Idling
  <2>2. CASE at' = at /\ Say("decision") /\ backlog' = Append(Retired, Len(said')) /\ Goes(t, "top")
    <3>1. at' \in [turn : Nat, step : Nat, produced : BOOLEAN]
      BY <2>2 DEF Types
    <3>2. /\ said' \in Seq(Frame) /\ viewers' \in Seq(Viewer) /\ Len(said') \in Nat
          /\ shown' \in [Conn -> Seq(Nat) \cup {Away}] /\ drawn' \in [Conn -> {"idle", "turn", "reserved"}]
      BY <2>2, <3>1, Says, Appended
    <3>3. Retired \in Seq(Nat)
      BY OnlyTyped DEF Types, Retired
    <3>4. backlog' \in Seq(Nat)
      BY <2>2, <3>2, <3>3
    <3> QED
      BY <1>8, <2>2, <3>1, <3>2, <3>4 DEF Types, Holding, Settle, Goes, Kept, Idling
  <2> QED
    BY <1>8, <2>1, <2>2 DEF Settle
<1>9. ASSUME NEW c \in Conn, Attach(c)
      PROVE  Types'
  <2>1. CatchUp \in Seq(Nat)
    BY CatchUpTyped
  <2>2. [id |-> nextViewer, conn |-> c] \in Viewer
    BY DEF Types, Viewer
  <2>0. nextViewer' \in Nat /\ question' \in BOOLEAN /\ pc' \in [Conn -> {"reading", "opening", "prompting", "goal", "gone"}]
    <3>1. nextViewer' \in Nat
      BY <1>9 DEF Types, Attach
    <3>2. question' \in BOOLEAN
      BY <1>9 DEF Types, Attach
    <3>3. pc' \in [Conn -> {"reading", "opening", "prompting", "goal", "gone"}]
      BY <1>9 DEF Types, Attach
    <3> QED
      BY <3>1, <3>2, <3>3
  <2>3. CASE MayFit(c) /\ viewers' = Append(viewers, [id |-> nextViewer, conn |-> c])
    <3>1. viewers' \in Seq(Viewer)
      BY <2>2, <2>3 DEF Types
    <3>2. /\ watching' \in [Conn -> Nat] /\ shown' \in [Conn -> Seq(Nat) \cup {Away}]
          /\ drawn' \in [Conn -> {"idle", "turn", "reserved"}]
      <4>1. /\ watching' = [watching EXCEPT ![c] = nextViewer]
            /\ shown' = [shown EXCEPT ![c] = CatchUp]
            /\ \E d \in {"idle", "turn", "reserved"} : drawn' = [drawn EXCEPT ![c] = d]
        <5>1. viewers' # viewers
          <6>1. Len(viewers') = Len(viewers) + 1 /\ Len(viewers) \in Nat
            BY <2>2, <2>3 DEF Types
          <6> QED
            BY <6>1
        <5> QED
          BY <1>9, <5>1 DEF Attach
      <4> QED
        BY <2>1, <4>1 DEF Types
    <3> QED
      BY <1>9, <2>0, <3>1, <3>2 DEF Types, Attach, NoNews, Turning
  <2>4. CASE UNCHANGED <<viewers, watching, shown, drawn>>
    <3> QED
      BY <1>9, <2>0, <2>4 DEF Types, Attach, NoNews, Turning
  <2> QED
    BY <1>9, <2>3, <2>4 DEF Attach
<1>10. ASSUME NEW c \in Conn, GoalSaved(c)
      PROVE  Types'
  <2>1. \A what \in {"checkpoint", "goal"} : [what |-> what, item |-> 0, left |-> viewers, late |-> {}] \in Sent
    BY DEF Types, Sent
  <2>2. cast' \in [Actor -> Sent]
    <3>1. \E what \in {"checkpoint", "goal"} :
             cast' = [cast EXCEPT ![c] = [what |-> what, item |-> 0, left |-> viewers, late |-> {}]]
      BY <1>10 DEF GoalSaved, Sending
    <3> QED
      BY ZenonT(30), <2>1, <3>1 DEF Types
  <2>3. backlog' \in Seq(Nat)
    BY <1>10, EmptySeq DEF Types, GoalSaved
  <2>5. busy' \in BOOLEAN
    BY <1>10 DEF Types, GoalSaved
  <2>4. UNCHANGED <<body, said, at, question, viewers, watching, nextViewer, pc, task, shown, drawn>>
    BY <1>10 DEF GoalSaved, queues
  <2> QED
    BY <2>2, <2>3, <2>4, <2>5 DEF Types
<1>11. ASSUME NEW c \in Conn,
             GoalRefused(c) \/ Interrupt(c) \/ Answer(c) \/ GoalReserve(c) \/ HangUp(c)
      PROVE  Types'
  BY <1>11 DEF Types, NoNews, Turning, session, queues, GoalRefused, Interrupt, Answer, GoalReserve, HangUp
<1>12. ASSUME NEW c \in Conn, NEW there \in {"here", "elsewhere"}, Release(c, there)
      PROVE  Types'
  <2>1. viewers' \in Seq(Viewer)
    BY <1>12, OnlyTyped DEF Types, Release, Leave
  <2> QED
    BY <1>12, <2>1 DEF Types, Release, Leave, NoNews, Turning
<1>13. ASSUME NEW c \in Conn, HungUp(c)
      PROVE  Types'
  <2>1. viewers' \in Seq(Viewer)
    BY <1>13, OnlyTyped DEF Types, HungUp, Leave
  <2> QED
    BY <1>13, <2>1 DEF Types, HungUp, Leave, NoNews, Turning
<1>14. ASSUME NEW c \in Conn, Prompt(c)
      PROVE  Types'
  <2>1. /\ at' \in [turn : Nat, step : Nat, produced : BOOLEAN]
        /\ [turn |-> at'.turn, step |-> 0, kind |-> "prompt"] \in Frame
    BY <1>14 DEF Types, Prompt, Frame
  <2>2. said' \in Seq(Frame) /\ Len(said') \in Nat
    BY <1>14, <2>1, Appended DEF Prompt
  <2>3. backlog' \in Seq(Nat)
    BY <1>14, <2>2 DEF Types, Prompt
  <2>4. Seeing(c, Len(said')) \in Seq(Nat) \cup {Away}
    BY <2>2, SeeingTyped
  <2>5. Others(c) \in Seq(Viewer)
    BY OnlyTyped DEF Types, Others
  <2>6. [what |-> "prompt", item |-> Len(said'), left |-> Others(c), late |-> {}] \in Sent
    BY <2>2, <2>5 DEF Sent
  <2>7. cast' \in [Actor -> Sent]
    BY <1>14, <2>6 DEF Types, Prompt, Sending
  <2>8. /\ shown' \in [Conn -> Seq(Nat) \cup {Away}] /\ drawn' \in [Conn -> {"idle", "turn", "reserved"}]
    BY <1>14, <2>4 DEF Types, Prompt
  <2> QED
    BY <1>14, <2>1, <2>2, <2>3, <2>7, <2>8 DEF Types, Prompt, Turning
<1> QED
  BY <1>1, <1>2, <1>3, <1>4, <1>5, <1>6, <1>7, <1>8, <1>9, <1>10, <1>11, <1>12, <1>13, <1>14 DEF Next, Turns, Serving, Requested

-----------------------------------------------------------------------------
(* Who holds the session.                                                  *)

\* A turn at work goes from one of its tasks to another and sends nothing that
\* is waited for.
Works(t) ==
    /\ task[t] \in {"spawned", "top", "intent", "stream", "waiting"}
    /\ \E there \in {"top", "intent", "stream", "closing", "refused"} : task' = [task EXCEPT ![t] = there]
    /\ UNCHANGED <<pc, cast, busy, question, watching, nextViewer>>
    /\ at'.turn = at.turn

\* What the steps of a turn between its sends have in common.
LEMMA Working ==
    ASSUME Types, NEW t \in Turn,
           \/ Admit(t) \/ StepStart(t) \/ Stopped(t) \/ Intent(t) \/ Produce(t)
           \/ Decided(t) \/ Settle(t) \/ StreamFails(t)
    PROVE  Works(t)
<1>1. CASE Admit(t) \/ Stopped(t) \/ Decided(t) \/ StreamFails(t)
  BY <1>1 DEF Admit, Stopped, Decided, StreamFails, Works, Kept, Goes
<1>2. CASE StepStart(t)
  <2>1. at'.turn = at.turn
    BY <1>2 DEF StepStart, Types
  <2>2. \E there \in {"intent", "stream"} : task' = [task EXCEPT ![t] = there]
    BY <1>2 DEF StepStart, Goes
  <2> QED
    BY <1>2, <2>1, <2>2 DEF StepStart, Works, Kept
<1>3. CASE Intent(t)
  <2>1. at'.turn = at.turn
    BY <1>3 DEF Intent, Types
  <2> QED
    BY <1>3, <2>1 DEF Intent, Works, Kept, Goes
<1>4. CASE Produce(t)
  <2>1. at'.turn = at.turn
    BY <1>4 DEF Produce, Types
  <2>2. task' = [task EXCEPT ![t] = "stream"]
    BY <1>4 DEF Produce, Types
  <2> QED
    BY <1>4, <2>1, <2>2 DEF Produce, Works, Kept
<1>5. CASE Settle(t)
  <2>1. at' = at
    BY <1>5 DEF Settle
  <2>2. \E there \in {"top", "closing"} : task' = [task EXCEPT ![t] = there]
    BY <1>5 DEF Settle, Goes
  <2> QED
    BY <1>5, <2>1, <2>2 DEF Settle, Works, Kept
<1> QED
  BY <1>1, <1>2, <1>3, <1>4, <1>5

\* Connections are not turns.
LEMMA Apart ==
    /\ \A c \in Conn, t \in Turn : c # t
    /\ \A c \in Conn : c \in Actor
    /\ \A t \in Turn : t \in Actor
  BY BoundsAssumption DEF Turn, Actor

\* A task that starts sending, or is done with it, and the others.
LEMMA Starts ==
    ASSUME Types, NEW x \in Actor, NEW what, NEW item, NEW to, Sending(x, what, item, to)
    PROVE  /\ cast'[x].what = what /\ cast'[x].item = item /\ cast'[x].left = to /\ cast'[x].late = {}
           /\ \A y \in Actor : y # x => cast'[y] = cast[y]
<1>1. /\ cast'[x] = [what |-> what, item |-> item, left |-> to, late |-> {}]
      /\ \A y \in Actor : y # x => cast'[y] = cast[y]
  BY DEF Types, Sending
<1> QED
  BY <1>1

\* A task that has sent what it had to send sends nothing.
LEMMA Rests ==
    ASSUME Types, NEW x \in Actor, cast' = [cast EXCEPT ![x] = Nobody]
    PROVE  /\ cast'[x].what = "nothing" /\ cast'[x].item = 0 /\ cast'[x].left = <<>> /\ cast'[x].late = {}
           /\ \A y \in Actor : y # x => cast'[y] = cast[y]
<1>1. cast'[x] = Nobody /\ \A y \in Actor : y # x => cast'[y] = cast[y]
  BY DEF Types
<1> QED
  BY <1>1 DEF Nobody

\* Who uses the session.
LEMMA UsersAre ==
    \A u : u \in Users <=>
       \/ u \in Turn /\ task[u] \in Holding
       \/ u \in Conn /\ pc[u] = "prompting"
       \/ u \in Conn /\ pc[u] = "goal" /\ cast[u].what \in {"nothing", "checkpoint"}
  BY DEF Users, Holding

\* So the session has one user, or none, after a step.
LEMMA AloneSame == ASSUME Alone, busy' = busy, \A u : u \in Users' <=> u \in Users PROVE Alone'
<1>1. Users' = Users
  OBVIOUS
<1> QED
  BY <1>1 DEF Alone

\* Busy, and one task is what keeps the session so.
LEMMA AloneOne == ASSUME NEW w, busy', \A u : u \in Users' <=> u = w PROVE Alone'
<1>1. Users' = {w}
  OBVIOUS
<1> QED
  BY <1>1 DEF Alone

\* Not busy, and no task holds the session.
LEMMA AloneNone == ASSUME ~busy', \A u : u \notin Users' PROVE Alone'
<1>1. Users' = {}
  OBVIOUS
<1> QED
  BY <1>1 DEF Alone

\* What one task sends, and where it is, is no matter of the others.
LEMMA TasksLocal ==
    ASSUME Types, Tasks, NEW x \in Actor, at'.turn = at.turn,
           \A y \in Actor : y # x => cast'[y] = cast[y],
           \A c \in Conn : c # x => pc'[c] = pc[c],
           \A t \in Turn : t # x => task'[t] = task[t],
           x \in Conn => /\ cast'[x].what \in {"nothing", "goal", "checkpoint"}
                         /\ cast'[x].what \in {"goal", "checkpoint"} => pc'[x] = "goal"
                         /\ pc'[x] # "prompting",
           x \in Turn => /\ cast'[x].what \in {"nothing", "question", "ending"}
                         /\ task'[x] = "asking" <=> cast'[x].what = "question"
                         /\ task'[x] = "ending" <=> cast'[x].what = "ending"
                         /\ task[x] # "none"
    PROVE  Tasks'
<1>1. \A c \in Conn : c # x => cast'[c] = cast[c] /\ pc'[c] = pc[c]
  BY Apart
<1>2. \A t \in Turn : t # x => cast'[t] = cast[t] /\ task'[t] = task[t]
  BY Apart
<1>3. /\ \A c \in Conn : pc'[c] = "prompting" => cast'[c].what = "prompt"
      /\ \A c \in Conn : cast'[c].what = "prompt" => pc'[c] = "prompting"
  BY <1>1 DEF Tasks
<1>4. /\ \A c \in Conn : cast'[c].what \in {"nothing", "prompt", "goal", "checkpoint"}
      /\ \A c \in Conn : cast'[c].what \in {"goal", "checkpoint"} => pc'[c] = "goal"
  BY <1>1 DEF Tasks
<1>5. \A t \in Turn : cast'[t].what \in {"nothing", "question", "ending"}
  BY <1>2 DEF Tasks
<1>6. /\ \A t \in Turn : task'[t] = "asking" <=> cast'[t].what = "question"
      /\ \A t \in Turn : task'[t] = "ending" <=> cast'[t].what = "ending"
  BY <1>2 DEF Tasks
<1>7. \A t \in Turn : t > at.turn => task'[t] = "none"
  BY <1>2 DEF Tasks
<1>8. \A c \in Conn : pc'[c] = "prompting" => at.turn \in Turn /\ task'[at.turn] = "none"
  BY <1>1, <1>2 DEF Tasks
<1>9. at'.turn <= MaxTurns
  BY DEF Tasks
<1> QED
  BY <1>3, <1>4, <1>5, <1>6, <1>7, <1>8, <1>9 DEF Tasks

\* Nor is what is not of the tasks.
LEMMA TasksSame ==
    ASSUME Tasks, at'.turn = at.turn, pc' = pc, task' = task, \A y \in Actor : cast'[y].what = cast[y].what
    PROVE  Tasks'
<1>1. /\ \A c \in Conn : cast'[c].what = cast[c].what
      /\ \A t \in Turn : cast'[t].what = cast[t].what
  BY Apart
<1>2. /\ \A c \in Conn : pc'[c] = "prompting" => cast'[c].what = "prompt"
      /\ \A c \in Conn : cast'[c].what = "prompt" => pc'[c] = "prompting"
      /\ \A c \in Conn : cast'[c].what \in {"nothing", "prompt", "goal", "checkpoint"}
      /\ \A c \in Conn : cast'[c].what \in {"goal", "checkpoint"} => pc'[c] = "goal"
  BY <1>1 DEF Tasks
<1>3. /\ \A t \in Turn : cast'[t].what \in {"nothing", "question", "ending"}
      /\ \A t \in Turn : task'[t] = "asking" <=> cast'[t].what = "question"
      /\ \A t \in Turn : task'[t] = "ending" <=> cast'[t].what = "ending"
  BY <1>1 DEF Tasks
<1>4. /\ at'.turn <= MaxTurns
      /\ \A t \in Turn : t > at'.turn => task'[t] = "none"
      /\ \A c \in Conn : pc'[c] = "prompting" => at'.turn \in Turn /\ task'[at'.turn] = "none"
  BY DEF Tasks
<1> QED
  BY <1>2, <1>3, <1>4 DEF Tasks

\* One holds it at a time.
LEMMA ControlStep == Types /\ Alone /\ Tasks /\ Next => Alone' /\ Tasks'
<1> SUFFICES ASSUME Types /\ Alone /\ Tasks, Next PROVE Alone' /\ Tasks'
  OBVIOUS
<1>1. ASSUME NEW x \in Actor, Reach(x) \/ Granted(x) \/ GaveUp(x)
      PROVE  Alone' /\ Tasks'
  <2>1. /\ UNCHANGED <<pc, task, busy, at>>
        /\ \A y \in Actor : cast'[y].what = cast[y].what
    <3>1. UNCHANGED <<pc, task, busy, at>>
      BY <1>1, Delivery DEF Waits, Passes, Misses, Hands, Moves, Stays, session
    <3>2. CASE UNCHANGED cast
      BY <3>1, <3>2
    <3>3. CASE \E late : Moves(x, late)
      <4>1. PICK late : Moves(x, late)
        BY <3>3
      <4>2. /\ cast'[x] = [what |-> cast[x].what, item |-> cast[x].item, left |-> Tail(cast[x].left), late |-> late]
            /\ \A y \in Actor : y # x => cast'[y] = cast[y]
        BY <4>1 DEF Moves, Types
      <4>3. cast'[x].what = cast[x].what
        BY <4>2
      <4> QED
        BY <3>1, <4>2, <4>3
    <3> QED
      BY <1>1, <3>2, <3>3, Delivery DEF Waits, Passes, Misses, Hands
  <2>2. Users' = Users
    BY <2>1, Apart DEF Users
  <2>18. Alone'
    BY <2>1, <2>2, AloneSame, AloneOne, AloneNone
  <2>19. Tasks'
    BY <2>1, TasksSame
  <2> QED
    BY <2>18, <2>19
<1>2. ASSUME NEW x \in Actor, Reached(x)
      PROVE  Alone' /\ Tasks'
  <2>0. x \in Turn \/ x \in Conn
    BY DEF Actor
  <2>1. CASE cast[x].what = "prompt"
    <3>1. x \in Conn /\ pc[x] = "prompting" /\ at.turn \in Turn /\ task[at.turn] = "none"
      BY <2>0, <2>1 DEF Tasks
    <3>2. /\ task' = [task EXCEPT ![at.turn] = "spawned"] /\ pc' = [pc EXCEPT ![x] = "reading"]
          /\ cast'[x].what = "nothing"
          /\ \A y \in Actor : y # x => cast'[y] = cast[y]
          /\ UNCHANGED <<busy, at>>
      BY <1>2, <2>1, Rests DEF Reached
    <3>3. x \in Users /\ \A u \in Users : u = x
      BY <3>1, UsersAre DEF Alone
    <3>4. \A u : u \in Users' <=> u = at.turn
      BY <3>1, <3>2, <3>3, UsersAre, Apart DEF Users, Holding, Nobody, Types
    <3>5. busy
      BY <3>3 DEF Alone
    <3>18. Alone'
      BY <3>1, <3>2, <3>4, <3>5, AloneSame, AloneOne, AloneNone
    <3>19. Tasks'
      <4>1. \A c \in Conn : c # x => cast'[c] = cast[c] /\ pc'[c] = pc[c]
        BY <3>2, Apart DEF Types
      <4>2. \A t \in Turn : cast'[t] = cast[t]
        BY <3>1, <3>2, Apart
      <4>3. \A t \in Turn : t # at.turn => task'[t] = task[t]
        BY <3>2 DEF Types
      <4>4. task'[at.turn] = "spawned" /\ pc'[x] = "reading" /\ at' = at
        BY <3>1, <3>2 DEF Types
      <4>5. /\ \A c \in Conn : pc'[c] = "prompting" => cast'[c].what = "prompt"
            /\ \A c \in Conn : cast'[c].what = "prompt" => pc'[c] = "prompting"
        BY <3>2, <4>1, <4>4 DEF Tasks
      <4>6. /\ \A c \in Conn : cast'[c].what \in {"nothing", "prompt", "goal", "checkpoint"}
            /\ \A c \in Conn : cast'[c].what \in {"goal", "checkpoint"} => pc'[c] = "goal"
        BY <3>2, <4>1, <4>4 DEF Tasks
      <4>7. \A c \in Conn : pc'[c] # "prompting"
        <5>1. \A c \in Conn : pc[c] = "prompting" => c = x
          BY <3>3, UsersAre
        <5> QED
          BY <4>1, <4>4, <5>1
      <4>8. /\ \A t \in Turn : task'[t] = "asking" <=> cast'[t].what = "question"
            /\ \A t \in Turn : task'[t] = "ending" <=> cast'[t].what = "ending"
        BY <3>1, <4>2, <4>3, <4>4 DEF Tasks
      <4>9. \A t \in Turn : t > at.turn => task'[t] = "none"
        BY <4>3 DEF Tasks, Types, Turn
      <4>10. \A t \in Turn : cast'[t].what \in {"nothing", "question", "ending"}
        BY <4>2 DEF Tasks
      <4>11. at'.turn <= MaxTurns
        BY <4>4 DEF Tasks
      <4> QED
        BY <4>4, <4>5, <4>6, <4>7, <4>8, <4>9, <4>10, <4>11 DEF Tasks
    <3> QED
      BY <3>18, <3>19
  <2>2. CASE cast[x].what = "question"
    <3>1. x \in Turn /\ task[x] = "asking"
      BY <2>0, <2>2 DEF Tasks
    <3>2. /\ \E there \in {"stream", "waiting"} : task' = [task EXCEPT ![x] = there]
          /\ cast'[x].what = "nothing"
          /\ \A y \in Actor : y # x => cast'[y] = cast[y]
          /\ UNCHANGED <<busy, at, pc>>
      BY <1>2, <2>2, Rests DEF Reached
    <3>3. \A u : u \in Users' <=> u \in Users
      BY <3>1, <3>2, UsersAre, Apart DEF Users, Holding, Nobody, Types
    <3>18. Alone'
      BY <3>1, <3>2, <3>3, AloneSame, AloneOne, AloneNone
    <3>19. Tasks'
      BY <3>1, <3>2, <3>3, Apart, TasksLocal DEF Types
    <3> QED
      BY <3>18, <3>19
  <2>3. CASE cast[x].what = "ending"
    <3>1. x \in Turn /\ task[x] = "ending"
      BY <2>0, <2>3 DEF Tasks
    <3>2. /\ task' = [task EXCEPT ![x] = "done"]
          /\ cast'[x].what = "nothing"
          /\ \A y \in Actor : y # x => cast'[y] = cast[y]
          /\ UNCHANGED <<busy, at, pc>>
      BY <1>2, <2>3, Rests DEF Reached
    <3>3. \A u : u \in Users' <=> u \in Users
      BY <3>1, <3>2, UsersAre, Apart DEF Users, Holding, Nobody, Types
    <3>18. Alone'
      BY <3>1, <3>2, <3>3, AloneSame, AloneOne, AloneNone
    <3>19. Tasks'
      BY <3>1, <3>2, <3>3, Apart, TasksLocal DEF Types
    <3> QED
      BY <3>18, <3>19
  <2>4. CASE cast[x].what = "checkpoint"
    <3>1. x \in Conn /\ pc[x] = "goal"
      BY <2>0, <2>4 DEF Tasks
    <3>2. /\ busy' = FALSE /\ UNCHANGED <<at, pc, task>>
          /\ cast'[x].what = "goal"
          /\ \A y \in Actor : y # x => cast'[y] = cast[y]
      BY <1>2, <2>4, Starts DEF Reached
    <3>3. x \in Users /\ \A u \in Users : u = x
      BY <2>4, <3>1, UsersAre DEF Alone
    <3>4. \A u : u \notin Users'
      BY <3>1, <3>2, <3>3, UsersAre, Apart DEF Users, Holding, Types
    <3>18. Alone'
      BY <3>1, <3>2, <3>4, AloneSame, AloneOne, AloneNone
    <3>19. Tasks'
      BY <3>1, <3>2, <3>4, Apart, TasksLocal DEF Types
    <3> QED
      BY <3>18, <3>19
  <2>5. CASE cast[x].what = "goal"
    <3>1. x \in Conn /\ pc[x] = "goal"
      BY <2>0, <2>5 DEF Tasks
    <3>2. /\ pc' = [pc EXCEPT ![x] = "reading"]
          /\ cast'[x].what = "nothing"
          /\ \A y \in Actor : y # x => cast'[y] = cast[y]
          /\ UNCHANGED <<busy, at, task>>
      BY <1>2, <2>5, Rests DEF Reached
    <3>3. \A u : u \in Users' <=> u \in Users
      BY <2>5, <3>1, <3>2, UsersAre, Apart DEF Users, Holding, Nobody, Types
    <3>18. Alone'
      BY <3>1, <3>2, <3>3, AloneSame, AloneOne, AloneNone
    <3>19. Tasks'
      BY <3>1, <3>2, <3>3, Apart, TasksLocal DEF Types
    <3> QED
      BY <3>18, <3>19
  <2> QED
    BY <1>2, <2>0, <2>1, <2>2, <2>3, <2>4, <2>5 DEF Tasks, Reached
<1>3. ASSUME NEW t \in Turn,
             Admit(t) \/ StepStart(t) \/ Stopped(t) \/ Intent(t) \/ Produce(t)
             \/ Decided(t) \/ Settle(t) \/ StreamFails(t)
      PROVE  Alone' /\ Tasks'
  <2>1. Works(t)
    BY <1>3, Working
  <2>2. PICK there \in {"top", "intent", "stream", "closing", "refused"} : task' = [task EXCEPT ![t] = there]
    BY <2>1 DEF Works
  <2>3. task[t] \in {"spawned", "top", "intent", "stream", "waiting"} /\ UNCHANGED <<pc, cast, busy>> /\ at'.turn = at.turn
    BY <2>1 DEF Works
  <2>4. \A u : u \in Users' <=> u \in Users
    BY <2>2, <2>3, UsersAre, Apart DEF Users, Holding, Types
  <2>18. Alone'
    BY <2>2, <2>3, <2>4, AloneSame, AloneOne, AloneNone
  <2>19. Tasks'
    <3>1. cast[t].what = "nothing"
      BY <2>3 DEF Tasks
    <3> QED
      BY <2>2, <2>3, <3>1, Apart, TasksLocal DEF Types
  <2> QED
    BY <2>18, <2>19
<1>4. ASSUME NEW t \in Turn, Ask(t)
      PROVE  Alone' /\ Tasks'
  <2>1. /\ task[t] = "stream" /\ task' = [task EXCEPT ![t] = "asking"]
        /\ cast'[t].what = "question"
        /\ \A y \in Actor : y # t => cast'[y] = cast[y]
        /\ UNCHANGED <<pc, busy, at>>
    BY <1>4, Apart, Starts DEF Ask, Goes, Kept
  <2>2. \A u : u \in Users' <=> u \in Users
    BY <2>1, UsersAre, Apart DEF Users, Holding, Types
  <2>18. Alone'
    BY <2>1, <2>2, AloneSame, AloneOne, AloneNone
  <2>19. Tasks'
    BY <2>1, <2>2, Apart, TasksLocal DEF Types
  <2> QED
    BY <2>18, <2>19
<1>5. ASSUME NEW t \in Turn, Close(t)
      PROVE  Alone' /\ Tasks'
  <2>1. /\ task[t] \in {"closing", "refused"} /\ task' = [task EXCEPT ![t] = "ending"]
        /\ cast'[t].what = "ending"
        /\ \A y \in Actor : y # t => cast'[y] = cast[y]
        /\ busy' = FALSE /\ UNCHANGED <<pc, at>>
    BY <1>5, Apart, Starts DEF Close, Goes
  <2>2. t \in Users /\ \A u \in Users : u = t
    BY <2>1, UsersAre DEF Alone, Holding
  <2>3. \A u : u \notin Users'
    BY <2>1, <2>2, UsersAre, Apart DEF Users, Holding, Types
  <2>18. Alone'
    BY <2>1, <2>3, AloneSame, AloneOne, AloneNone
  <2>19. Tasks'
    BY <2>1, <2>3, Apart, TasksLocal DEF Types
  <2> QED
    BY <2>18, <2>19
<1>6. ASSUME NEW c \in Conn, Attach(c) \/ HungUp(c)
      PROVE  Alone' /\ Tasks'
  <2>1. /\ pc[c] \in {"opening", "reading"}
        /\ \E there \in {"reading", "gone"} : pc' = [pc EXCEPT ![c] = there]
        /\ UNCHANGED <<task, cast, busy, at>>
    BY <1>6 DEF Attach, HungUp, NoNews
  <2>2. \A u : u \in Users' <=> u \in Users
    BY <2>1, UsersAre, Apart DEF Users, Types
  <2>18. Alone'
    BY <2>1, <2>2, AloneSame, AloneOne, AloneNone
  <2>19. Tasks'
    <3>1. cast[c].what = "nothing"
      BY <2>1 DEF Tasks
    <3>2. pc'[c] \in {"reading", "gone", "opening"} /\ \A d \in Conn : d # c => pc'[d] = pc[d]
      BY <2>1 DEF Types
    <3> QED
      BY <2>1, <3>1, <3>2, Apart, TasksLocal
  <2> QED
    BY <2>18, <2>19
<1>7. ASSUME NEW c \in Conn, NEW there \in {"here", "elsewhere"}, Release(c, there)
      PROVE  Alone' /\ Tasks'
  <2>1. /\ pc[c] = "reading"
        /\ \E to \in {"opening", "reading"} : pc' = [pc EXCEPT ![c] = to]
        /\ UNCHANGED <<task, cast, busy, at>>
    BY <1>7 DEF Release, Heard, NoNews
  <2>2. \A u : u \in Users' <=> u \in Users
    BY <2>1, UsersAre, Apart DEF Users, Types
  <2>18. Alone'
    BY <2>1, <2>2, AloneSame, AloneOne, AloneNone
  <2>19. Tasks'
    <3>1. cast[c].what = "nothing"
      BY <2>1 DEF Tasks
    <3>2. pc'[c] \in {"reading", "gone", "opening"} /\ \A d \in Conn : d # c => pc'[d] = pc[d]
      BY <2>1 DEF Types
    <3> QED
      BY <2>1, <3>1, <3>2, Apart, TasksLocal
  <2> QED
    BY <2>18, <2>19
<1>8. ASSUME NEW c \in Conn, GoalSaved(c)
      PROVE  Alone' /\ Tasks'
  <2>1. /\ pc[c] = "goal" /\ cast[c].what = "nothing"
        /\ \/ busy' = FALSE /\ cast'[c].what = "goal"
           \/ busy' = busy /\ cast'[c].what = "checkpoint"
        /\ \A y \in Actor : y # c => cast'[y] = cast[y]
        /\ UNCHANGED <<task, pc, at>>
    BY <1>8, Apart, Starts DEF GoalSaved, Nobody
  <2>2. c \in Users /\ \A u \in Users : u = c
    BY <2>1, UsersAre DEF Alone
  <2>3. CASE busy' = FALSE /\ cast'[c].what = "goal"
    <3>1. \A u : u \notin Users'
      BY <2>1, <2>2, <2>3, UsersAre, Apart DEF Users, Holding, Types
    <3>18. Alone'
      BY <2>1, <2>3, <3>1, AloneSame, AloneOne, AloneNone
    <3>19. Tasks'
      BY <2>1, <2>3, <3>1, Apart, TasksLocal DEF Types
    <3> QED
      BY <3>18, <3>19
  <2>4. CASE busy' = busy /\ cast'[c].what = "checkpoint"
    <3>1. \A u : u \in Users' <=> u \in Users
      BY <2>1, <2>4, UsersAre, Apart DEF Users, Holding, Types
    <3>18. Alone'
      BY <2>1, <2>4, <3>1, AloneSame, AloneOne, AloneNone
    <3>19. Tasks'
      BY <2>1, <2>4, <3>1, Apart, TasksLocal DEF Types
    <3> QED
      BY <3>18, <3>19
  <2> QED
    BY <2>1, <2>3, <2>4
<1>9. ASSUME NEW c \in Conn, GoalRefused(c)
      PROVE  Alone' /\ Tasks'
  <2>1. /\ pc[c] = "goal" /\ cast[c].what = "nothing" /\ busy' = FALSE
        /\ pc' = [pc EXCEPT ![c] = "reading"] /\ UNCHANGED <<task, cast, at>>
    BY <1>9 DEF GoalRefused, NoNews, Nobody
  <2>2. c \in Users /\ \A u \in Users : u = c
    BY <2>1, UsersAre DEF Alone
  <2>3. \A u : u \notin Users'
    BY <2>1, <2>2, UsersAre, Apart DEF Users, Holding, Types
  <2>18. Alone'
    BY <2>1, <2>3, AloneSame, AloneOne, AloneNone
  <2>19. Tasks'
    BY <2>1, <2>3, Apart, TasksLocal DEF Types
  <2> QED
    BY <2>18, <2>19
<1>10. ASSUME NEW c \in Conn, GoalReserve(c)
      PROVE  Alone' /\ Tasks'
  <2>1. /\ pc[c] = "reading" /\ ~busy /\ busy' = TRUE
        /\ pc' = [pc EXCEPT ![c] = "goal"] /\ UNCHANGED <<task, cast, at>>
    BY <1>10 DEF GoalReserve, Heard, NoNews
  <2>2. cast[c].what = "nothing" /\ Users = {}
    BY <2>1 DEF Alone, Tasks
  <2>3. \A u : u \in Users' <=> u = c
    BY <2>1, <2>2, UsersAre, Apart DEF Users, Holding, Types
  <2>18. Alone'
    BY <2>1, <2>2, <2>3, AloneSame, AloneOne, AloneNone
  <2>19. Tasks'
    BY <2>1, <2>2, <2>3, Apart, TasksLocal DEF Types
  <2> QED
    BY <2>18, <2>19
<1>11. ASSUME NEW c \in Conn, Prompt(c)
      PROVE  Alone' /\ Tasks'
  <2>1. /\ pc[c] = "reading" /\ ~busy /\ busy' = TRUE
        /\ at'.turn = at.turn + 1 /\ at.turn < MaxTurns
        /\ cast'[c].what = "prompt"
        /\ \A y \in Actor : y # c => cast'[y] = cast[y]
        /\ pc' = [pc EXCEPT ![c] = "prompting"] /\ UNCHANGED task
    BY <1>11, Apart, Starts DEF Prompt, Heard
  <2>2. Users = {} /\ at.turn \in Nat /\ MaxTurns \in Nat
    BY <2>1, BoundsAssumption DEF Alone, Types
  <2>3. \A u : u \in Users' <=> u = c
    BY <2>1, <2>2, UsersAre, Apart DEF Users, Holding, Types
  <2>4. at'.turn \in Turn /\ task[at'.turn] = "none" /\ at'.turn <= MaxTurns
    BY <2>1, <2>2 DEF Tasks, Turn
  <2>5. \A t \in Turn : t > at'.turn => t > at.turn
    BY <2>1, <2>2 DEF Turn
  <2>6. \A d \in Conn : pc'[d] = "prompting" => at'.turn \in Turn /\ task'[at'.turn] = "none"
    BY <2>1, <2>4
  <2>7. \A d \in Conn : d # c => cast'[d] = cast[d] /\ pc'[d] = pc[d]
    BY <2>1, Apart DEF Types
  <2>8. cast'[c].what = "prompt" /\ pc'[c] = "prompting"
    BY <2>1, Apart DEF Types
  <2>9. \A t \in Turn : cast'[t] = cast[t]
    BY <2>1, Apart DEF Types
  <2>18. Alone'
    BY <2>1, <2>3, <2>4, <2>5, <2>6, <2>7, <2>8, <2>9, AloneSame, AloneOne, AloneNone
  <2>19. Tasks'
    <3>1. /\ \A d \in Conn : pc'[d] = "prompting" => cast'[d].what = "prompt"
          /\ \A d \in Conn : cast'[d].what = "prompt" => pc'[d] = "prompting"
          /\ \A d \in Conn : cast'[d].what \in {"nothing", "prompt", "goal", "checkpoint"}
          /\ \A d \in Conn : cast'[d].what \in {"goal", "checkpoint"} => pc'[d] = "goal"
      BY <2>7, <2>8 DEF Tasks
    <3>2. /\ \A t \in Turn : cast'[t].what \in {"nothing", "question", "ending"}
          /\ \A t \in Turn : task'[t] = "asking" <=> cast'[t].what = "question"
          /\ \A t \in Turn : task'[t] = "ending" <=> cast'[t].what = "ending"
      BY <2>1, <2>9 DEF Tasks
    <3>3. \A t \in Turn : t > at'.turn => task'[t] = "none"
      BY <2>1, <2>5 DEF Tasks
    <3> QED
      BY <2>4, <2>6, <3>1, <3>2, <3>3 DEF Tasks
  <2> QED
    BY <2>18, <2>19
<1>12. ASSUME NEW c \in Conn, Interrupt(c) \/ Answer(c) \/ HangUp(c)
      PROVE  Alone' /\ Tasks'
  <2>1. UNCHANGED <<pc, task, cast, busy, at>>
    BY <1>12 DEF Interrupt, Answer, HangUp, NoNews, session
  <2>18. Alone'
    BY <2>1 DEF Alone, Users
  <2>19. Tasks'
    BY <2>1, TasksSame
  <2> QED
    BY <2>18, <2>19
<1> QED
  BY <1>1, <1>2, <1>3, <1>4, <1>5, <1>6, <1>7, <1>8, <1>9, <1>10, <1>11, <1>12 DEF Next, Turns, Serving, Requested

-----------------------------------------------------------------------------
(* Who watches, and whom frames are sent to.                               *)

\* Nobody new watches, and a frame is on its way to no other than before or
\* than who watches.
Fewer ==
    /\ Among(viewers', viewers) /\ nextViewer' = nextViewer
    /\ \A x \in Actor : Among(cast'[x].left, cast[x].left) \/ Among(cast'[x].left, viewers)

\* Nobody is among anyone.
LEMMA NoneAmong == \A s : Among(<<>>, s)
<1>1. <<>> \in Seq(Viewer)
  BY EmptySeq
<1> QED
  BY <1>1 DEF Among, Distinct

\* An entry's connection and number.
LEMMA EntryTyped == ASSUME NEW s \in Seq(Viewer), NEW i \in DOMAIN s PROVE s[i].conn \in Conn /\ s[i].id \in Nat
<1>1. s[i] \in Viewer
  OBVIOUS
<1> QED
  BY <1>1 DEF Viewer

\* Every entry of a list of viewers is a connection with a number.
LEMMA EntriesTyped ==
    ASSUME Types
    PROVE  /\ \A i \in DOMAIN viewers : viewers[i].conn \in Conn /\ viewers[i].id \in Nat
           /\ \A x \in Actor : \A i \in DOMAIN cast[x].left : cast[x].left[i].conn \in Conn /\ cast[x].left[i].id \in Nat
<1>1. viewers \in Seq(Viewer) /\ \A x \in Actor : cast[x].left \in Seq(Viewer)
  BY DEF Types, Sent
<1> QED
  BY <1>1, EntryTyped

\* Lists are their own when nothing is sent or received.
LEMMA StillAmong ==
    ASSUME Types, Watch, Bound
    PROVE  /\ Among(viewers, viewers)
           /\ \A x \in Actor : cast'[x].left = cast[x].left => Among(cast'[x].left, cast[x].left)
           /\ \A S : Among(Only(viewers, S), viewers)
<1>1. viewers \in Seq(Viewer) /\ Distinct(viewers)
  BY DEF Types, Watch
<1>2. \A x \in Actor : cast[x].left \in Seq(Viewer) /\ Distinct(cast[x].left)
  BY DEF Types, Bound, Sent
<1> QED
  BY <1>1, <1>2, SelfAmong, OnlyAmong

\* Only an attachment adds a viewer.
LEMMA FewerOrOneMore == Types /\ Watch /\ Bound /\ Next => Fewer \/ \E d \in Conn : Attach(d)
<1> SUFFICES ASSUME Types /\ Watch /\ Bound, Next PROVE Fewer \/ \E d \in Conn : Attach(d)
  OBVIOUS
<1>1. ASSUME NEW x \in Actor, Reach(x) \/ Granted(x) \/ GaveUp(x)
      PROVE  Fewer \/ \E d \in Conn : Attach(d)
  <2>1. viewers' = viewers /\ nextViewer' = nextViewer
    BY <1>1, Delivery DEF Waits, Passes, Misses, Hands, Moves, Stays
  <2>2. CASE UNCHANGED cast
    BY <2>1, <2>2, StillAmong DEF Fewer
  <2>3. CASE \E late : Moves(x, late)
    <3>1. PICK late : Moves(x, late)
      BY <2>3
    <3>2. /\ cast'[x] = [what |-> cast[x].what, item |-> cast[x].item, left |-> Tail(cast[x].left), late |-> late]
          /\ \A y \in Actor : y # x => cast'[y] = cast[y]
      BY <3>1 DEF Moves, Types
    <3>3. cast'[x].left = Tail(cast[x].left) /\ cast[x].left # <<>>
      BY <3>1, <3>2 DEF Moves
    <3>4. cast[x].left \in Seq(Viewer) /\ Distinct(cast[x].left)
      BY DEF Types, Bound, Sent
    <3>5. Among(cast'[x].left, cast[x].left)
      BY <3>3, <3>4, TailAmong
    <3> QED
      BY <2>1, <3>2, <3>5, StillAmong DEF Fewer
  <2> QED
    BY <1>1, <2>2, <2>3, Delivery DEF Waits, Passes, Misses, Hands
<1>2. ASSUME NEW x \in Actor, Reached(x)
      PROVE  Fewer \/ \E d \in Conn : Attach(d)
  <2>1. Among(viewers', viewers) /\ nextViewer' = nextViewer
    BY <1>2, StillAmong DEF Reached
  <2>2. CASE cast' = [cast EXCEPT ![x] = Nobody]
    BY <2>1, <2>2, Rests, NoneAmong, StillAmong DEF Fewer
  <2>3. CASE Sending(x, "goal", 0, viewers')
    BY <2>1, <2>3, Starts, StillAmong DEF Fewer
  <2> QED
    BY <1>2, <2>2, <2>3 DEF Reached
<1>3. ASSUME NEW t \in Turn,
             Admit(t) \/ Stopped(t) \/ Intent(t) \/ Decided(t) \/ StreamFails(t)
      PROVE  Fewer \/ \E d \in Conn : Attach(d)
  <2>1. UNCHANGED <<viewers, nextViewer, cast>>
    BY <1>3 DEF Admit, Stopped, Intent, Decided, StreamFails, Silent, Kept
  <2> QED
    BY <2>1, StillAmong DEF Fewer
<1>4. ASSUME NEW t \in Turn, StepStart(t) \/ Produce(t) \/ Settle(t)
      PROVE  Fewer \/ \E d \in Conn : Attach(d)
  <2>1. UNCHANGED <<nextViewer, cast>>
    BY <1>4 DEF StepStart, Produce, Settle, Kept
  <2>2. viewers' = viewers \/ \E S : viewers' = Only(viewers, S)
    BY <1>4 DEF StepStart, Produce, Settle, Silent, Say
  <2> QED
    BY <2>1, <2>2, StillAmong DEF Fewer
<1>5. ASSUME NEW t \in Turn, Ask(t) \/ Close(t)
      PROVE  Fewer \/ \E d \in Conn : Attach(d)
  <2>1. /\ UNCHANGED <<viewers, nextViewer>>
        /\ \E what : Sending(t, what, 0, viewers)
    BY <1>5 DEF Ask, Close, Kept
  <2> QED
    BY <2>1, Apart, Starts, StillAmong DEF Fewer
<1>6. ASSUME NEW c \in Conn, GoalSaved(c)
      PROVE  Fewer \/ \E d \in Conn : Attach(d)
  <2>1. /\ UNCHANGED <<viewers, nextViewer>>
        /\ \E what : Sending(c, what, 0, viewers)
    BY <1>6 DEF GoalSaved
  <2> QED
    BY <2>1, Apart, Starts, StillAmong DEF Fewer
<1>7. ASSUME NEW c \in Conn, Prompt(c)
      PROVE  Fewer \/ \E d \in Conn : Attach(d)
  <2>1. /\ UNCHANGED <<viewers, nextViewer>>
        /\ Sending(c, "prompt", Len(said'), Others(c))
    BY <1>7 DEF Prompt
  <2>2. Among(Others(c), viewers)
    BY StillAmong DEF Others
  <2> QED
    BY <2>1, <2>2, Apart, Starts, StillAmong DEF Fewer
<1>8. ASSUME NEW c \in Conn,
             GoalRefused(c) \/ Interrupt(c) \/ Answer(c) \/ GoalReserve(c) \/ HangUp(c)
      PROVE  Fewer \/ \E d \in Conn : Attach(d)
  <2>1. UNCHANGED <<viewers, nextViewer, cast>>
    BY <1>8 DEF GoalRefused, Interrupt, Answer, GoalReserve, HangUp
  <2> QED
    BY <2>1, StillAmong DEF Fewer
<1>9. ASSUME NEW c \in Conn, HungUp(c)
      PROVE  Fewer \/ \E d \in Conn : Attach(d)
  <2>1. UNCHANGED <<nextViewer, cast>> /\ viewers' = Only(viewers, Staying(c))
    BY <1>9 DEF HungUp, Leave
  <2> QED
    BY <2>1, StillAmong DEF Fewer
<1>10. ASSUME NEW c \in Conn, NEW there \in {"here", "elsewhere"}, Release(c, there)
      PROVE  Fewer \/ \E d \in Conn : Attach(d)
  <2>1. UNCHANGED <<nextViewer, cast>> /\ viewers' = Only(viewers, Staying(c))
    BY <1>10 DEF Release, Leave
  <2> QED
    BY <2>1, StillAmong DEF Fewer
<1>11. ASSUME NEW c \in Conn, Attach(c)
      PROVE  Fewer \/ \E d \in Conn : Attach(d)

  BY <1>11
<1> QED
  BY <1>1, <1>2, <1>3, <1>4, <1>5, <1>6, <1>7, <1>8, <1>9, <1>10, <1>11 DEF Next, Turns, Serving, Requested

\* An attachment is refused, or has a number nobody had.
LEMMA Attaching ==
    ASSUME Types, NEW c \in Conn, Attach(c)
    PROVE  /\ pc[c] = "opening" /\ nextViewer' = nextViewer + 1 /\ cast' = cast
           /\ pc' = [pc EXCEPT ![c] = "reading"]
           /\ \/ UNCHANGED <<viewers, watching, shown, drawn>>
              \/ /\ viewers' \in Seq(Viewer) /\ Len(viewers) \in Nat
                 /\ DOMAIN viewers' = DOMAIN viewers \cup {Len(viewers) + 1}
                 /\ DOMAIN viewers = 1..Len(viewers)
                 /\ \A i \in DOMAIN viewers : viewers'[i] = viewers[i]
                 /\ viewers'[Len(viewers) + 1] = [id |-> nextViewer, conn |-> c]
                 /\ viewers'[Len(viewers) + 1].id = nextViewer /\ viewers'[Len(viewers) + 1].conn = c
                 /\ watching' = [watching EXCEPT ![c] = nextViewer]
                 /\ shown' = [shown EXCEPT ![c] = CatchUp]
                 /\ drawn' = [drawn EXCEPT ![c] = IF ~busy THEN "idle"
                         ELSE IF \E d \in Conn : pc[d] = "goal" THEN "reserved" ELSE "turn"]
<1>1. /\ pc[c] = "opening" /\ nextViewer' = nextViewer + 1 /\ cast' = cast
      /\ pc' = [pc EXCEPT ![c] = "reading"]
  BY DEF Attach
<1>2. CASE UNCHANGED <<viewers, watching, shown, drawn>>
  BY <1>1, <1>2
<1>3. CASE /\ viewers' = Append(viewers, [id |-> nextViewer, conn |-> c])
           /\ watching' = [watching EXCEPT ![c] = nextViewer]
           /\ shown' = [shown EXCEPT ![c] = CatchUp]
           /\ drawn' = [drawn EXCEPT ![c] = IF ~busy THEN "idle"
                         ELSE IF \E d \in Conn : pc[d] = "goal" THEN "reserved" ELSE "turn"]
  <2>1. PICK v : v = [id |-> nextViewer, conn |-> c]
    OBVIOUS
  <2>2. v \in Viewer /\ v.id = nextViewer /\ v.conn = c
    BY <2>1 DEF Types, Viewer
  <2>3. /\ viewers' \in Seq(Viewer) /\ Len(viewers) \in Nat
        /\ DOMAIN viewers' = DOMAIN viewers \cup {Len(viewers) + 1}
        /\ DOMAIN viewers = 1..Len(viewers)
        /\ \A i \in DOMAIN viewers : viewers'[i] = viewers[i]
        /\ viewers'[Len(viewers) + 1] = v
    BY <1>3, <2>1, <2>2 DEF Types
  <2> QED
    BY <1>1, <1>3, <2>1, <2>2, <2>3
<1> QED
  BY <1>2, <1>3 DEF Attach

\* With no new viewer the entries stay what they are.
LEMMA WatchFewer ==
    ASSUME Types, Watch, Fewer, watching' = watching,
           \A c \in Conn : pc'[c] = "opening" => pc[c] = "opening"
    PROVE  Watch'
<1>1. Distinct(viewers') /\ \A i \in DOMAIN viewers' : \E k \in DOMAIN viewers : viewers[k] = viewers'[i]
  BY DEF Fewer, Among
<1>2. \A i \in DOMAIN viewers' : viewers'[i].id # 0 /\ watching[viewers'[i].conn] = viewers'[i].id
  BY <1>1 DEF Watch
<1>3. nextViewer' = nextViewer
  BY DEF Fewer
<1> QED
  BY <1>1, <1>2, <1>3 DEF Watch

\* Nor when one goes.
LEMMA WatchLeave ==
    ASSUME Types, Watch, NEW c \in Conn, Leave(c), nextViewer' = nextViewer,
           \A d \in Conn : pc'[d] = "opening" => d = c \/ pc[d] = "opening"
    PROVE  Watch'
<1>1. viewers' = Only(viewers, Staying(c)) /\ watching' = [watching EXCEPT ![c] = 0]
  BY DEF Leave
<1>2. viewers \in Seq(Viewer) /\ Distinct(viewers)
  BY DEF Types, Watch
<1>3. Among(viewers', viewers) /\ \A i \in DOMAIN viewers' : viewers'[i] \in Staying(c)
  BY <1>1, <1>2, OnlyAmong
<1>4. \A i \in DOMAIN viewers' : viewers'[i].id # 0 /\ watching'[viewers'[i].conn] = viewers'[i].id
  <2> SUFFICES ASSUME NEW i \in DOMAIN viewers'
               PROVE  viewers'[i].id # 0 /\ watching'[viewers'[i].conn] = viewers'[i].id
    OBVIOUS
  <2>1. PICK k \in DOMAIN viewers : viewers[k] = viewers'[i]
    BY <1>3 DEF Among
  <2>2. viewers[k].conn \in Conn
    BY EntriesTyped
  <2>3. viewers[k].id # 0 /\ watching[viewers[k].conn] = viewers[k].id /\ viewers[k].id # watching[c]
    BY <1>3, <2>1 DEF Watch, Staying
  <2> QED
    BY <1>1, <2>1, <2>2, <2>3 DEF Types
<1>5. watching'[c] = 0 /\ \A d \in Conn : d # c => watching'[d] = watching[d]
  BY <1>1 DEF Types
<1>6. nextViewer \in Nat /\ \A d \in Conn : watching[d] \in Nat
  BY DEF Types
<1>7. \A d \in Conn : watching'[d] < nextViewer
  BY <1>5, <1>6 DEF Watch
<1>8. \A d, e \in Conn : watching'[d] = watching'[e] /\ watching'[d] # 0 => d = e
  BY <1>5 DEF Watch
<1>9. \A d \in Conn : pc'[d] = "opening" => watching'[d] = 0
  BY <1>5 DEF Watch
<1>10. Distinct(viewers')
  BY <1>3 DEF Among
<1> QED
  BY <1>4, <1>7, <1>8, <1>9, <1>10 DEF Watch

\* And one that comes is a new one.
LEMMA WatchAttach ==
    ASSUME Types, Watch, NEW c \in Conn, Attach(c)
    PROVE  Watch'
<1>1. /\ pc[c] = "opening" /\ nextViewer' = nextViewer + 1
      /\ \A d \in Conn : pc'[d] = "opening" => d # c /\ pc[d] = "opening"
  <2>1. pc[c] = "opening" /\ nextViewer' = nextViewer + 1 /\ pc' = [pc EXCEPT ![c] = "reading"]
    BY Attaching
  <2> QED
    BY <2>1 DEF Types
<1>2. nextViewer \in Nat /\ \A d \in Conn : watching[d] \in Nat
  BY DEF Types
<1>3. CASE UNCHANGED <<viewers, watching>>
  BY <1>1, <1>2, <1>3 DEF Watch, Distinct
<1>4. CASE /\ DOMAIN viewers' = DOMAIN viewers \cup {Len(viewers) + 1}
           /\ \A i \in DOMAIN viewers : viewers'[i] = viewers[i]
           /\ viewers'[Len(viewers) + 1].id = nextViewer /\ viewers'[Len(viewers) + 1].conn = c
           /\ watching' = [watching EXCEPT ![c] = nextViewer]
  <2>1. watching[c] = 0
    BY <1>1 DEF Watch
  <2>2. watching'[c] = nextViewer /\ \A d \in Conn : d # c => watching'[d] = watching[d]
    BY <1>4 DEF Types
  <2>3. \A i \in DOMAIN viewers : viewers[i].conn \in Conn /\ viewers[i].id # 0 /\ watching[viewers[i].conn] = viewers[i].id
    BY EntriesTyped DEF Watch
  <2>4. \A i \in DOMAIN viewers : viewers[i].id < nextViewer /\ viewers[i].conn # c /\ viewers[i].id # nextViewer
    BY <1>2, <2>1, <2>3 DEF Watch
  <2>5. 0 < nextViewer
    BY <1>2, <2>1 DEF Watch
  <2>6. \A i \in DOMAIN viewers' : viewers'[i].id # 0 /\ watching'[viewers'[i].conn] = viewers'[i].id
    BY <1>4, <2>2, <2>3, <2>4, <2>5
  <2>7. Distinct(viewers')
    BY <1>4, <2>4 DEF Watch, Distinct
  <2>8. \A d \in Conn : watching'[d] < nextViewer'
    BY <1>1, <1>2, <2>2 DEF Watch
  <2>9. \A d, e \in Conn : watching'[d] = watching'[e] /\ watching'[d] # 0 => d = e
    <3>1. \A d \in Conn : watching[d] # nextViewer
      BY <1>2 DEF Watch
    <3> QED
      BY <2>2, <3>1 DEF Watch
  <2>10. \A d \in Conn : pc'[d] = "opening" => watching'[d] = 0
    BY <1>1, <2>2 DEF Watch
  <2> QED
    BY <2>6, <2>7, <2>8, <2>9, <2>10 DEF Watch
<1> QED
  BY <1>3, <1>4, Attaching

\* So a viewer's entry is always its connection's latest attachment.
LEMMA WatchStep == Types /\ Watch /\ Bound /\ Next => Watch'
<1> SUFFICES ASSUME Types /\ Watch /\ Bound, Next PROVE Watch'
  OBVIOUS
<1>0. Fewer \/ \E d \in Conn : Attach(d)
  BY FewerOrOneMore
<1>1. ASSUME NEW x \in Actor, Reach(x) \/ Granted(x) \/ GaveUp(x)
      PROVE  Watch'
  <2>1. UNCHANGED <<watching, pc>>
    BY <1>1, Delivery DEF Waits, Passes, Misses, Hands, Moves, Stays
  <2> QED
    BY <2>1, <1>0, WatchFewer, WatchAttach
<1>2. ASSUME NEW x \in Actor, Reached(x)
      PROVE  Watch'
  <2>1. UNCHANGED watching /\ \A c \in Conn : pc'[c] = "opening" => pc[c] = "opening"
    BY <1>2 DEF Types, Reached
  <2> QED
    BY <2>1, <1>0, WatchFewer, WatchAttach
<1>3. ASSUME NEW t \in Turn,
             Admit(t) \/ StepStart(t) \/ Stopped(t) \/ Intent(t) \/ Produce(t)
             \/ Ask(t) \/ Decided(t) \/ Settle(t) \/ StreamFails(t) \/ Close(t)
      PROVE  Watch'
  <2>1. UNCHANGED <<watching, pc>>
    BY <1>3 DEF Admit, StepStart, Stopped, Intent, Produce, Ask, Decided, Settle, StreamFails, Close, Kept
  <2> QED
    BY <2>1, <1>0, WatchFewer, WatchAttach
<1>4. ASSUME NEW c \in Conn,
             GoalSaved(c) \/ GoalRefused(c) \/ Prompt(c) \/ Interrupt(c) \/ Answer(c)
             \/ GoalReserve(c) \/ HangUp(c)
      PROVE  Watch'
  <2>1. UNCHANGED watching /\ \A d \in Conn : pc'[d] = "opening" => pc[d] = "opening"
    BY <1>4 DEF Types, GoalSaved, GoalRefused, Prompt, Interrupt, Answer, GoalReserve, HangUp
  <2> QED
    BY <2>1, <1>0, WatchFewer, WatchAttach
<1>5. ASSUME NEW c \in Conn, Attach(c)
      PROVE  Watch'
  BY <1>5, WatchAttach
<1>6. ASSUME NEW c \in Conn, HungUp(c)
      PROVE  Watch'
  <2>1. Leave(c) /\ nextViewer' = nextViewer /\ \A d \in Conn : pc'[d] = "opening" => d = c \/ pc[d] = "opening"
    BY <1>6 DEF HungUp, Types
  <2> QED
    BY <2>1, WatchLeave
<1>7. ASSUME NEW c \in Conn, NEW there \in {"here", "elsewhere"}, Release(c, there)
      PROVE  Watch'
  <2>1. Leave(c) /\ nextViewer' = nextViewer /\ \A d \in Conn : pc'[d] = "opening" => d = c \/ pc[d] = "opening"
    BY <1>7 DEF Release, Types
  <2> QED
    BY <2>1, WatchLeave
<1> QED
  BY <1>1, <1>2, <1>3, <1>4, <1>5, <1>6, <1>7 DEF Next, Turns, Serving, Requested

\* And so is what a frame is on its way to, of the attachments there were.
LEMMA BoundStep == Types /\ Watch /\ Bound /\ Next => Bound'
<1> SUFFICES ASSUME Types, Watch, Bound, Next PROVE Bound'
  OBVIOUS
<1>1. CASE Fewer
  <2>1. /\ Distinct(viewers) /\ Among(viewers', viewers) /\ nextViewer' = nextViewer
        /\ \A j \in DOMAIN viewers' : \E k \in DOMAIN viewers : viewers[k] = viewers'[j]
    BY <1>1 DEF Fewer, Among, Watch
  <2>2. \A k \in DOMAIN viewers : viewers[k].id < nextViewer
    BY EntriesTyped DEF Watch
  <2> SUFFICES ASSUME NEW x \in Actor
               PROVE  /\ Distinct(cast'[x].left)
                      /\ \A i \in DOMAIN cast'[x].left :
                            /\ cast'[x].left[i].id < nextViewer'
                            /\ \A j \in DOMAIN viewers' :
                                  viewers'[j].id = cast'[x].left[i].id => viewers'[j] = cast'[x].left[i]
    BY DEF Bound
  <2>3. CASE Among(cast'[x].left, cast[x].left)
    BY <2>1, <2>3 DEF Among, Bound
  <2>4. CASE Among(cast'[x].left, viewers)
    <3>1. Distinct(cast'[x].left) /\ \A i \in DOMAIN cast'[x].left : \E k \in DOMAIN viewers : viewers[k] = cast'[x].left[i]
      BY <2>4 DEF Among
    <3> QED
      BY <2>1, <2>2, <3>1 DEF Distinct
  <2> QED
    BY <1>1, <2>3, <2>4 DEF Fewer
<1>2. ASSUME NEW c \in Conn, Attach(c) PROVE Bound'
  <2>1. nextViewer \in Nat /\ nextViewer' = nextViewer + 1 /\ cast' = cast
    <3>1. nextViewer \in Nat
      BY DEF Types
    <3> QED
      BY <1>2, <3>1, Attaching
  <2>2. \A x \in Actor : \A i \in DOMAIN cast[x].left : cast[x].left[i].id \in Nat
    BY EntriesTyped
  <2>3. \A j \in DOMAIN viewers' : viewers'[j].id = nextViewer \/ \E k \in DOMAIN viewers : viewers[k] = viewers'[j]
    <3>1. CASE viewers' = viewers
      BY <3>1
    <3>2. CASE /\ DOMAIN viewers' = DOMAIN viewers \cup {Len(viewers) + 1}
               /\ \A i \in DOMAIN viewers : viewers'[i] = viewers[i]
               /\ viewers'[Len(viewers) + 1].id = nextViewer
      BY <3>2
    <3> QED
      BY <1>2, <3>1, <3>2, Attaching
  <2> QED
    BY <2>1, <2>2, <2>3 DEF Bound
<1> QED
  BY <1>1, <1>2, FewerOrOneMore

-----------------------------------------------------------------------------
(* What was said, and what of it is kept.                                  *)

\* A turn that holds the session is the one user of it.
LEMMA TurnAlone ==
    ASSUME Types, Alone, NEW t \in Turn, task[t] \in Holding
    PROVE  /\ busy /\ ~Prompting
           /\ \A u \in Turn : u # t => task[u] \notin Holding
           /\ \A c \in Conn : pc[c] = "goal" => cast[c].what \notin {"nothing", "checkpoint"}
<1>1. t \in Users /\ \A u \in Users : u = t
  BY UsersAre DEF Alone
<1>2. busy
  BY <1>1 DEF Alone
<1> QED
  BY <1>1, <1>2, UsersAre, Apart DEF Prompting

\* So is a connection that does.
LEMMA ConnAlone ==
    ASSUME Types, Alone, NEW c \in Conn,
           pc[c] = "prompting" \/ (pc[c] = "goal" /\ cast[c].what \in {"nothing", "checkpoint"})
    PROVE  /\ busy
           /\ \A t \in Turn : task[t] \notin Holding
           /\ \A d \in Conn : pc[d] = "prompting" => d = c
<1>1. c \in Users /\ \A u \in Users : u = c
  BY UsersAre DEF Alone
<1>2. busy
  BY <1>1 DEF Alone
<1> QED
  BY <1>1, <1>2, UsersAre, Apart

\* A session that is free has none.
LEMMA NobodyThere ==
    ASSUME Types, Alone, ~busy
    PROVE  NoTurn
<1>1. Users = {}
  BY DEF Alone
<1> QED
  BY <1>1, UsersAre DEF NoTurn, Prompting

\* What is said where the turn is comes after all that was said before.
LEMMA PlacedSaid ==
    ASSUME Types, Placed, NEW f \in Frame, said' = Append(said, f),
           at' \in [turn : Nat, step : Nat, produced : BOOLEAN], f.turn = at'.turn, f.step = at'.step,
           \/ at'.turn = at.turn /\ at'.step = at.step
           \/ at'.turn = at.turn /\ at'.step = at.step + 1
           \/ at'.turn = at.turn + 1 /\ at'.step = 0
    PROVE  /\ Placed'
           /\ \A n \in DOMAIN said' : n \in DOMAIN said \/ (n = Len(said') /\ Here(n)')
           /\ \A n \in DOMAIN said : Here(n)' => Here(n) /\ at'.turn = at.turn /\ at'.step = at.step
           /\ \A n \in DOMAIN said : at'.turn = at.turn /\ at'.step = at.step => (Here(n) => Here(n)')
<1>1. /\ DOMAIN said = 1..Len(said) /\ DOMAIN said' = 1..(Len(said) + 1) /\ Len(said) \in Nat
      /\ \A n \in DOMAIN said : said'[n] = said[n]
      /\ said'[Len(said) + 1] = f /\ Len(said') = Len(said) + 1
  BY Appended
<1>2. /\ at.turn \in Nat /\ at.step \in Nat /\ at'.turn \in Nat /\ at'.step \in Nat
      /\ \A n \in DOMAIN said : said[n].turn \in Nat /\ said[n].step \in Nat
  <2>1. \A n \in DOMAIN said : said[n] \in Frame
    BY DEF Types
  <2> QED
    BY <2>1 DEF Types, Frame
<1>3. \A n \in DOMAIN said : Here(n)' => Here(n) /\ at'.turn = at.turn /\ at'.step = at.step
  BY <1>1, <1>2 DEF Placed, Here, Before
<1>4. \A n \in DOMAIN said : at'.turn = at.turn /\ at'.step = at.step => (Here(n) => Here(n)')
  BY <1>1 DEF Here
<1>5. \A n \in DOMAIN said' : n \in DOMAIN said \/ (n = Len(said') /\ Here(n)')
  BY <1>1 DEF Here
<1>6. \A n \in DOMAIN said : Before(n)' \/ Here(n)'
  BY SMTT(30), <1>1, <1>2 DEF Placed, Here, Before
<1>7. \A n \in DOMAIN said, m \in DOMAIN said : Before(n)' /\ Here(m)' => n < m
  <2> SUFFICES ASSUME NEW n \in DOMAIN said, NEW m \in DOMAIN said, Before(n)', Here(m)'
               PROVE  n < m
    OBVIOUS
  <2>1. Here(m) /\ at'.turn = at.turn /\ at'.step = at.step
    BY <1>3
  <2>2. Before(n)
    BY <1>1, <2>1 DEF Before
  <2> QED
    BY <2>1, <2>2 DEF Placed
<1>8. \A n \in DOMAIN said' : n = Len(said') => ~Before(n)'
  <2>1. said'[Len(said')].turn = at'.turn /\ said'[Len(said')].step = at'.step
    BY <1>1
  <2> QED
    BY <1>2, <2>1 DEF Before
<1>9. Placed'
  <2>1. \A n \in DOMAIN said' : Before(n)' \/ Here(n)'
    BY <1>5, <1>6
  <2>2. \A n \in DOMAIN said', m \in DOMAIN said' : Before(n)' /\ Here(m)' => n < m
    <3> SUFFICES ASSUME NEW n \in DOMAIN said', NEW m \in DOMAIN said', Before(n)', Here(m)'
                 PROVE  n < m
      OBVIOUS
    <3>1. n \in DOMAIN said
      BY <1>5, <1>8
    <3>2. CASE m \in DOMAIN said
      BY <1>7, <3>1, <3>2
    <3>3. CASE m = Len(said')
      BY <1>1, <3>1, <3>3
    <3> QED
      BY <1>5, <3>2, <3>3
  <2> QED
    BY <2>1, <2>2 DEF Placed
<1> QED
  BY <1>3, <1>4, <1>5, <1>9

\* Saying something in a turn, and where that is.
LEMMA SaysPlaced ==
    ASSUME Types, Placed, NEW kind \in {"progress", "decision"}, Say(kind),
           at' \in [turn : Nat, step : Nat, produced : BOOLEAN], at'.turn = at.turn,
           at'.step = at.step \/ at'.step = at.step + 1
    PROVE  \E f \in Frame :
              /\ said' = Append(said, f) /\ f.turn = at'.turn /\ f.step = at'.step /\ f.kind = kind
              /\ Placed'
              /\ \A n \in DOMAIN said' : n \in DOMAIN said \/ (n = Len(said') /\ Here(n)')
              /\ \A n \in DOMAIN said : Here(n)' => Here(n) /\ at'.turn = at.turn /\ at'.step = at.step
              /\ \A n \in DOMAIN said : at'.turn = at.turn /\ at'.step = at.step => (Here(n) => Here(n)')
<1>1. PICK f : f = [turn |-> at.turn, step |-> at'.step, kind |-> kind]
  OBVIOUS
<1>2. f \in Frame /\ said' = Append(said, f)
  BY <1>1, Says
<1>3. f.turn = at'.turn /\ f.step = at'.step /\ f.kind = kind
  BY <1>1
<1> QED
  BY <1>2, <1>3, PlacedSaid

\* Nothing is said and the turn is where it was.
LEMMA PlacedSame == ASSUME Placed, UNCHANGED <<said, at>> PROVE Placed'
  BY DEF Placed, Before, Here

\* Everything said was said in the turn's present step, or before all of that.
LEMMA PlacedStep == Types /\ Types' /\ Placed /\ Next => Placed'
<1> SUFFICES ASSUME Types /\ Types' /\ Placed, Next PROVE Placed'
  OBVIOUS
<1>1. ASSUME NEW x \in Actor, Reach(x) \/ Granted(x) \/ GaveUp(x)
      PROVE  Placed'
  <2>1. UNCHANGED <<said, at>>
    BY <1>1, Delivery DEF Waits, Passes, Misses, Hands, Moves, Stays, session
  <2> QED
    BY <2>1, PlacedSame
<1>2. ASSUME NEW x \in Actor, Reached(x)
      PROVE  Placed'
  <2>1. UNCHANGED <<said, at>>
    BY <1>2 DEF Reached
  <2> QED
    BY <2>1, PlacedSame
<1>3. ASSUME NEW t \in Turn,
             Admit(t) \/ Stopped(t) \/ Ask(t) \/ Decided(t) \/ StreamFails(t)
             \/ Close(t)
      PROVE  Placed'
  <2>1. UNCHANGED <<said, at>>
    BY <1>3 DEF Admit, Stopped, Ask, Decided, StreamFails, Close
  <2> QED
    BY <2>1, PlacedSame
<1>4. ASSUME NEW t \in Turn, StepStart(t)
      PROVE  Placed'
  <2>1. at'.turn = at.turn /\ at'.step = at.step + 1 /\ Say("progress")
    BY <1>4 DEF StepStart, Types
  <2>2. at' \in [turn : Nat, step : Nat, produced : BOOLEAN]
    BY DEF Types
  <2> QED
    BY <2>1, <2>2, SaysPlaced
<1>5. ASSUME NEW t \in Turn, Intent(t)
      PROVE  Placed'
  <2>1. said' = said /\ at'.turn = at.turn /\ at'.step = at.step
    BY <1>5 DEF Intent, Silent, Types
  <2> QED
    BY <2>1 DEF Placed, Before, Here
<1>6. ASSUME NEW t \in Turn, Produce(t)
      PROVE  Placed'
  <2>1. at'.turn = at.turn /\ at'.step = at.step /\ Say("progress")
    BY <1>6 DEF Produce, Types
  <2>2. at' \in [turn : Nat, step : Nat, produced : BOOLEAN]
    BY DEF Types
  <2> QED
    BY <2>1, <2>2, SaysPlaced
<1>7. ASSUME NEW t \in Turn, Settle(t)
      PROVE  Placed'
  <2>1. at' = at
    BY <1>7 DEF Settle
  <2>2. at' \in [turn : Nat, step : Nat, produced : BOOLEAN]
    BY DEF Types
  <2>3. CASE Say("decision")
    BY <2>1, <2>2, <2>3, SaysPlaced
  <2>4. CASE said' = said
    BY <2>1, <2>4, PlacedSame
  <2> QED
    BY <1>7, <2>3, <2>4 DEF Settle, Silent
<1>8. ASSUME NEW c \in Conn, Prompt(c)
      PROVE  Placed'
  <2>1. PICK f : f = [turn |-> at'.turn, step |-> 0, kind |-> "prompt"]
    OBVIOUS
  <2>2. said' = Append(said, f) /\ f.turn = at'.turn /\ f.step = 0 /\ at'.turn = at.turn + 1 /\ at'.step = 0
    BY <1>8, <2>1 DEF Prompt
  <2>3. at' \in [turn : Nat, step : Nat, produced : BOOLEAN]
    BY DEF Types
  <2>4. f \in Frame
    BY <2>1, <2>3 DEF Frame
  <2> QED
    BY <2>2, <2>3, <2>4, PlacedSaid
<1>9. ASSUME NEW c \in Conn,
             Attach(c) \/ GoalSaved(c) \/ GoalRefused(c) \/ HungUp(c) \/ Interrupt(c)
             \/ Answer(c) \/ GoalReserve(c) \/ HangUp(c)
      PROVE  Placed'
  <2>1. UNCHANGED <<said, at>>
    BY <1>9 DEF Attach, GoalSaved, GoalRefused, HungUp, Interrupt, Answer, GoalReserve, HangUp, NoNews, session
  <2> QED
    BY <2>1, PlacedSame
<1>10. ASSUME NEW c \in Conn, NEW there \in {"here", "elsewhere"}, Release(c, there)
      PROVE  Placed'
  <2>1. UNCHANGED <<said, at>>
    BY <1>10 DEF Release, NoNews
  <2> QED
    BY <2>1, PlacedSame
<1> QED
  BY <1>1, <1>2, <1>3, <1>4, <1>5, <1>6, <1>7, <1>8, <1>9, <1>10 DEF Next, Turns, Serving, Requested

\* Nothing new is said, or recorded: what there is stays what it is while the
\* session goes from one task to another that may be speaking, too.
LEMMA RecordedTasks ==
    ASSUME Recorded, UNCHANGED <<said, records, withdrawn, at>>, stored' = stored \/ stored' = records,
           \A t \in Turn : task'[t] = "intent" => task[t] = "intent",
           Prompts' => Prompts, Speaks => Speaks'
    PROVE  Recorded'
<1>1. /\ stored' \subseteq records' /\ records' \subseteq DOMAIN said' /\ withdrawn' \subseteq DOMAIN said'
  BY DEF Recorded
<1>2. \A n \in DOMAIN said' : n \in records' \/ n \in withdrawn' \/ Here(n)'
  BY DEF Recorded, Here
<1>3. Speaks' \/ \A n \in DOMAIN said' : n \in records' \/ n \in withdrawn'
  BY DEF Recorded
<1>4. Prompts' => \A n \in DOMAIN said' : Here(n)' => said'[n].kind = "prompt"
  BY DEF Recorded, Here
<1>5. \A t \in Turn : task'[t] = "intent" => ~at'.produced /\ \A n \in records' : ~Here(n)'
  BY DEF Recorded, Here
<1> QED
  BY <1>1, <1>2, <1>3, <1>4, <1>5 DEF Recorded

\* The one turn at work has everything that was said recorded or withdrawn.
LEMMA RecordedAll ==
    ASSUME Types, Types', Alone, NEW t \in Turn, task[t] \in Holding, Works(t),
           task'[t] \notin {"spawned", "intent"}, at' = at, said' = said,
           records' \subseteq DOMAIN said, stored' \subseteq records', withdrawn' \subseteq DOMAIN said,
           \A n \in DOMAIN said : n \in records' \/ n \in withdrawn'
    PROVE  Recorded'
<1>1. ~Prompting /\ \A u \in Turn : u # t => task[u] \notin Holding
  BY TurnAlone
<1>2. pc' = pc /\ \A u \in Turn : u # t => task'[u] = task[u]
  BY DEF Works, Types
<1>3. ~Prompts' /\ \A u \in Turn : task'[u] # "intent"
  BY <1>1, <1>2 DEF Prompts, Prompting, Holding
<1> QED
  BY <1>3 DEF Recorded

\* The one turn at work, in its stream, says something more.
LEMMA RecordedSaid ==
    ASSUME Types, Types', Alone, NEW t \in Turn, task[t] \in Holding, Works(t),
           task'[t] \in {"intent", "stream", "top"},
           said' \in Seq(Frame), DOMAIN said \subseteq DOMAIN said',
           records' \subseteq DOMAIN said', stored' \subseteq records', withdrawn' \subseteq DOMAIN said',
           \A n \in DOMAIN said' : n \in records' \/ n \in withdrawn' \/ (Here(n)' /\ task'[t] # "top"),
           task'[t] = "intent" => ~at'.produced /\ \A n \in records' : ~Here(n)'
    PROVE  Recorded'
<1>1. ~Prompting /\ \A u \in Turn : u # t => task[u] \notin Holding
  BY TurnAlone
<1>2. pc' = pc /\ \A u \in Turn : u # t => task'[u] = task[u]
  BY DEF Works, Types
<1>3. ~Prompts' /\ \A u \in Turn : task'[u] = "intent" => u = t
  BY <1>1, <1>2 DEF Prompts, Prompting, Holding
<1>4. task'[t] # "top" => Speaks'
  BY DEF Speaks, Speaking
<1> QED
  BY <1>3, <1>4 DEF Recorded

\* What was said is recorded or withdrawn in time.
LEMMA RecordedStep == Types /\ Types' /\ Alone /\ Tasks /\ Placed /\ Recorded /\ Next => Recorded'
<1> SUFFICES ASSUME Types /\ Types' /\ Alone /\ Tasks /\ Placed /\ Recorded, Next PROVE Recorded'
  OBVIOUS
<1>1. ASSUME NEW x \in Actor, Reach(x) \/ Granted(x) \/ GaveUp(x)
      PROVE  Recorded'
  <2>1. UNCHANGED <<said, records, withdrawn, at, stored, task, pc>>
    BY <1>1, Delivery DEF Waits, Passes, Misses, Hands, Moves, Stays, session
  <2> QED
    BY <2>1, RecordedTasks DEF Prompts, Speaks, Prompting
<1>2. ASSUME NEW x \in Actor, Reached(x)
      PROVE  Recorded'
  <2>0. UNCHANGED <<said, records, withdrawn, at, stored>> /\ (x \in Turn \/ x \in Conn)
    BY <1>2 DEF Reached, Actor
  <2>1. CASE cast[x].what = "prompt"
    <3>1. x \in Conn /\ pc[x] = "prompting" /\ at.turn \in Turn /\ Prompting
      BY <2>0, <2>1 DEF Tasks, Prompting
    <3>2. /\ task'[at.turn] = "spawned" /\ \A t \in Turn : t # at.turn => task'[t] = task[t]
      BY <1>2, <2>1, <3>1 DEF Reached, Types
    <3>3. Prompts /\ Speaks'
      BY <3>1, <3>2 DEF Prompts, Speaks, Speaking
    <3> QED
      BY <2>0, <3>1, <3>2, <3>3, RecordedTasks
  <2>2. CASE cast[x].what = "question"
    <3>1. x \in Turn /\ task[x] = "asking" /\ pc' = pc
      BY <1>2, <2>0, <2>2 DEF Tasks, Reached
    <3>2. /\ task'[x] \in {"stream", "waiting"} /\ \A t \in Turn : t # x => task'[t] = task[t]
      BY <1>2, <2>2, <3>1 DEF Reached, Types
    <3>3. Speaks'
      BY <3>1, <3>2 DEF Speaks, Speaking
    <3>4. Prompts' => Prompts
      BY <3>1, <3>2 DEF Prompts, Prompting
    <3> QED
      BY <2>0, <3>1, <3>2, <3>3, <3>4, RecordedTasks
  <2>3. CASE cast[x].what = "ending"
    <3>1. x \in Turn /\ task[x] = "ending" /\ pc' = pc
      BY <1>2, <2>0, <2>3 DEF Tasks, Reached
    <3>2. /\ task'[x] = "done" /\ \A t \in Turn : t # x => task'[t] = task[t]
      BY <1>2, <2>3, <3>1 DEF Reached, Types
    <3>3. Speaks => Speaks'
      BY <3>1, <3>2 DEF Speaks, Speaking, Prompting
    <3>4. Prompts' => Prompts
      BY <3>1, <3>2 DEF Prompts, Prompting
    <3> QED
      BY <2>0, <3>1, <3>2, <3>3, <3>4, RecordedTasks
  <2>4. CASE cast[x].what = "checkpoint"
    <3>1. UNCHANGED <<pc, task>>
      BY <1>2, <2>4 DEF Reached
    <3> QED
      BY <2>0, <3>1, RecordedTasks DEF Prompts, Speaks, Prompting
  <2>5. CASE cast[x].what = "goal"
    <3>1. x \in Conn /\ pc[x] = "goal" /\ task' = task /\ pc' = [pc EXCEPT ![x] = "reading"]
      BY <1>2, <2>0, <2>5 DEF Tasks, Reached
    <3>2. Prompting' <=> Prompting
      BY <3>1 DEF Prompting, Types
    <3> QED
      BY <2>0, <3>1, <3>2, RecordedTasks DEF Prompts, Speaks
  <2> QED
    BY <1>2, <2>0, <2>1, <2>2, <2>3, <2>4, <2>5 DEF Tasks, Reached
<1>3. ASSUME NEW t \in Turn, Admit(t)
      PROVE  Recorded'
  <2>1. /\ task[t] = "spawned" /\ UNCHANGED <<said, at, stored>> /\ Works(t)
        /\ task'[t] \in {"top", "refused"}
        /\ \/ records' = records \cup {n \in OfStep : said[n].kind = "prompt"} /\ withdrawn' = withdrawn
           \/ withdrawn' = withdrawn \cup {n \in OfStep : said[n].kind = "prompt"} /\ records' = records
    BY <1>3, Working DEF Admit, Goes, Types
  <2>2. \A n \in DOMAIN said : Here(n) => n \in {m \in OfStep : said[m].kind = "prompt"}
    BY <2>1 DEF Recorded, Prompts, OfStep, Here
  <2>3. /\ records' \subseteq DOMAIN said /\ stored' \subseteq records' /\ withdrawn' \subseteq DOMAIN said
    BY <2>1 DEF Recorded, OfStep
  <2>4. \A n \in DOMAIN said : n \in records' \/ n \in withdrawn'
    BY <2>1, <2>2 DEF Recorded
  <2> QED
    BY <2>1, <2>3, <2>4, RecordedAll DEF Holding
<1>4. ASSUME NEW t \in Turn, StepStart(t)
      PROVE  Recorded'
  <2>1. /\ task[t] = "top" /\ Works(t) /\ task'[t] \in {"intent", "stream"}
        /\ UNCHANGED <<records, stored, withdrawn>>
    BY <1>4, Working DEF StepStart, Goes, Types
  <2>2. at'.turn = at.turn /\ at'.step = at.step + 1 /\ ~at'.produced /\ Say("progress")
    BY <1>4 DEF StepStart, Types
  <2>3. at' \in [turn : Nat, step : Nat, produced : BOOLEAN]
    BY DEF Types
  <2>4. PICK f \in Frame :
              /\ said' = Append(said, f)
              /\ \A n \in DOMAIN said' : n \in DOMAIN said \/ (n = Len(said') /\ Here(n)')
              /\ \A n \in DOMAIN said : Here(n)' => Here(n) /\ at'.turn = at.turn /\ at'.step = at.step
    BY <2>2, <2>3, SaysPlaced
  <2>5. \A n \in DOMAIN said : ~Here(n)'
    <3>1. at.step \in Nat
      BY DEF Types
    <3> QED
      BY <2>2, <2>4, <3>1
  <2>6. \A n \in DOMAIN said : n \in records \/ n \in withdrawn
    <3>1. ~Speaks
      BY <2>1, TurnAlone DEF Speaks, Speaking, Holding
    <3> QED
      BY <3>1 DEF Recorded
  <2>7. DOMAIN said \subseteq DOMAIN said' /\ said' \in Seq(Frame)
    BY <2>4, Appended
  <2>8. /\ records' \subseteq DOMAIN said /\ stored' \subseteq records' /\ withdrawn' \subseteq DOMAIN said
    BY <2>1 DEF Recorded
  <2>9. \A n \in DOMAIN said' : n \in records' \/ n \in withdrawn' \/ (Here(n)' /\ task'[t] # "top")
    BY <2>1, <2>4, <2>6
  <2> QED
    BY <2>1, <2>2, <2>5, <2>7, <2>8, <2>9, RecordedSaid DEF Holding
<1>5. ASSUME NEW t \in Turn, Stopped(t)
      PROVE  Recorded'
  <2>1. /\ task[t] = "top" /\ Works(t) /\ task'[t] = "closing"
        /\ UNCHANGED <<said, at, records, stored, withdrawn>>
    BY <1>5, Working DEF Stopped, Goes, Types
  <2>2. ~Speaks
    BY <2>1, TurnAlone DEF Speaks, Speaking, Holding
  <2> QED
    BY <2>1, <2>2, RecordedAll DEF Recorded, Holding
<1>6. ASSUME NEW t \in Turn, Intent(t)
      PROVE  Recorded'
  <2>1. task[t] = "intent" /\ Works(t) /\ said' = said /\ records' = records
    BY <1>6, Working DEF Intent, Silent
  <2>2. CASE stored' = records /\ Goes(t, "stream") /\ withdrawn' = withdrawn
    <3>1. at'.turn = at.turn /\ at'.step = at.step
      BY <1>6 DEF Intent, Types
    <3>2. task'[t] = "stream"
      BY <2>2 DEF Goes, Types
    <3>3. \A n \in DOMAIN said' : n \in records' \/ n \in withdrawn' \/ (Here(n)' /\ task'[t] # "top")
      BY <2>1, <2>2, <3>1, <3>2 DEF Recorded, Here
    <3>4. /\ records' \subseteq DOMAIN said' /\ stored' \subseteq records' /\ withdrawn' \subseteq DOMAIN said'
          /\ said' \in Seq(Frame) /\ DOMAIN said \subseteq DOMAIN said'
      BY <2>1, <2>2 DEF Recorded, Types
    <3> QED
      BY <2>1, <3>2, <3>3, <3>4, RecordedSaid DEF Holding
  <2>3. CASE withdrawn' = withdrawn \cup (OfStep \ records) /\ Goes(t, "closing") /\ stored' = stored /\ at' = at
    <3>1. task'[t] = "closing"
      BY <2>3 DEF Goes, Types
    <3>2. \A n \in DOMAIN said : n \in records' \/ n \in withdrawn'
      BY <2>1, <2>3 DEF Recorded, OfStep, Here
    <3>3. /\ records' \subseteq DOMAIN said /\ stored' \subseteq records' /\ withdrawn' \subseteq DOMAIN said
      BY <2>1, <2>3 DEF Recorded, OfStep
    <3> QED
      BY <2>1, <2>3, <3>1, <3>2, <3>3, RecordedAll DEF Holding
  <2> QED
    BY <1>6, <2>2, <2>3 DEF Intent
<1>7. ASSUME NEW t \in Turn, Produce(t)
      PROVE  Recorded'
  <2>1. /\ task[t] = "stream" /\ Works(t) /\ task'[t] = "stream"
        /\ UNCHANGED <<records, stored, withdrawn>>
    BY <1>7, Working DEF Produce
  <2>2. at'.turn = at.turn /\ at'.step = at.step /\ Say("progress")
    BY <1>7 DEF Produce, Types
  <2>3. at' \in [turn : Nat, step : Nat, produced : BOOLEAN]
    BY DEF Types
  <2>4. PICK f \in Frame :
              /\ said' = Append(said, f)
              /\ \A n \in DOMAIN said' : n \in DOMAIN said \/ (n = Len(said') /\ Here(n)')
              /\ \A n \in DOMAIN said : at'.turn = at.turn /\ at'.step = at.step => (Here(n) => Here(n)')
    BY <2>2, <2>3, SaysPlaced
  <2>7. DOMAIN said \subseteq DOMAIN said' /\ said' \in Seq(Frame)
    BY <2>4, Appended
  <2>8. /\ records' \subseteq DOMAIN said /\ stored' \subseteq records' /\ withdrawn' \subseteq DOMAIN said
    BY <2>1 DEF Recorded
  <2>9. \A n \in DOMAIN said' : n \in records' \/ n \in withdrawn' \/ (Here(n)' /\ task'[t] # "top")
    BY <2>1, <2>2, <2>4 DEF Recorded
  <2> QED
    BY <2>1, <2>7, <2>8, <2>9, RecordedSaid DEF Holding
<1>8. ASSUME NEW t \in Turn, Ask(t) \/ Decided(t)
      PROVE  Recorded'
  <2>1. /\ task[t] \in {"stream", "waiting"} /\ task'[t] \in {"asking", "stream"}
        /\ \A u \in Turn : u # t => task'[u] = task[u]
        /\ UNCHANGED <<said, records, withdrawn, at, stored, pc>>
    BY <1>8 DEF Ask, Decided, Goes, Kept, Types
  <2>2. Speaks'
    BY <2>1 DEF Speaks, Speaking
  <2>3. Prompts' => Prompts
    BY <2>1 DEF Prompts, Prompting
  <2> QED
    BY <2>1, <2>2, <2>3, RecordedTasks
<1>9. ASSUME NEW t \in Turn, Settle(t)
      PROVE  Recorded'
  <2>1. /\ task[t] = "stream" /\ Works(t) /\ task'[t] \in {"top", "closing"} /\ withdrawn' = withdrawn /\ at' = at
    BY ZenonT(30), <1>9, Working DEF Settle, Goes, Types
  <2>2. CASE records' = records \cup OfStep /\ said' = said /\ stored' = stored
    <3>2. \A n \in DOMAIN said : n \in records' \/ n \in withdrawn'
      BY <2>1, <2>2 DEF Recorded, OfStep, Here
    <3>3. /\ records' \subseteq DOMAIN said /\ stored' \subseteq records' /\ withdrawn' \subseteq DOMAIN said
      BY <2>1, <2>2 DEF Recorded, OfStep
    <3> QED
      BY <2>1, <2>2, <3>2, <3>3, RecordedAll DEF Holding
  <2>3. CASE /\ Say("decision") /\ records' = (records \cup OfStep) \cup {Len(said')}
             /\ stored' = records' /\ Goes(t, "top")
    <3>1. task'[t] = "top"
      BY <2>3 DEF Goes, Types
    <3>2. PICK f \in Frame : said' = Append(said, f)
      BY <2>1, <2>3, SaysPlaced DEF Types
    <3>3. /\ DOMAIN said = 1..Len(said) /\ DOMAIN said' = 1..(Len(said) + 1) /\ Len(said) \in Nat
          /\ Len(said') = Len(said) + 1 /\ said' \in Seq(Frame)
      BY <3>2, Appended
    <3>4. \A n \in DOMAIN said' : n \in DOMAIN said \/ n = Len(said')
      BY <3>3
    <3>5. \A n \in DOMAIN said' : n \in records' \/ n \in withdrawn'
      BY <2>1, <2>3, <3>4 DEF Recorded, OfStep, Here
    <3>6. /\ records' \subseteq DOMAIN said' /\ stored' \subseteq records' /\ withdrawn' \subseteq DOMAIN said'
          /\ DOMAIN said \subseteq DOMAIN said'
      <4>1. DOMAIN said \subseteq DOMAIN said' /\ Len(said') \in DOMAIN said'
        BY <3>3
      <4> QED
        BY <2>1, <2>3, <4>1 DEF Recorded, OfStep
    <3> QED
      BY <2>1, <3>1, <3>3, <3>5, <3>6, RecordedSaid DEF Holding
  <2> QED
    BY <1>9, <2>2, <2>3 DEF Settle, Silent
<1>10. ASSUME NEW t \in Turn, StreamFails(t)
      PROVE  Recorded'
  <2>1. /\ task[t] = "stream" /\ Works(t) /\ task'[t] = "closing"
        /\ UNCHANGED <<said, at, records, stored>> /\ withdrawn' = withdrawn \cup (OfStep \ records)
    BY <1>10, Working DEF StreamFails, Goes, Types
  <2>2. \A n \in DOMAIN said : n \in records' \/ n \in withdrawn'
    BY <2>1 DEF Recorded, OfStep, Here
  <2>3. /\ records' \subseteq DOMAIN said /\ stored' \subseteq records' /\ withdrawn' \subseteq DOMAIN said
    BY <2>1 DEF Recorded, OfStep
  <2> QED
    BY <2>1, <2>2, <2>3, RecordedAll DEF Holding
<1>11. ASSUME NEW t \in Turn, Close(t)
      PROVE  Recorded'
  <2>1. /\ task[t] \in {"closing", "refused"} /\ task'[t] = "ending"
        /\ \A u \in Turn : u # t => task'[u] = task[u]
        /\ UNCHANGED <<said, records, withdrawn, at, pc>> /\ (stored' = records \/ stored' = stored)
    BY <1>11 DEF Close, Goes, Types
  <2>2. Speaks => Speaks'
    BY <2>1 DEF Speaks, Speaking, Prompting
  <2>3. Prompts' => Prompts
    BY <2>1 DEF Prompts, Prompting
  <2> QED
    BY <2>1, <2>2, <2>3, RecordedTasks
<1>12. ASSUME NEW c \in Conn, GoalSaved(c)
      PROVE  Recorded'
  <2>1. UNCHANGED <<said, records, withdrawn, at, task, pc>> /\ stored' = records
    BY <1>12 DEF GoalSaved
  <2> QED
    BY <2>1, RecordedTasks DEF Prompts, Speaks, Prompting
<1>13. ASSUME NEW c \in Conn, Interrupt(c) \/ Answer(c) \/ HangUp(c)
      PROVE  Recorded'
  <2>1. UNCHANGED <<said, records, withdrawn, at, stored, task, pc>>
    BY <1>13 DEF Interrupt, Answer, HangUp, NoNews, Turning, session
  <2> QED
    BY <2>1, RecordedTasks DEF Prompts, Speaks, Prompting
<1>14. ASSUME NEW c \in Conn, Attach(c) \/ GoalRefused(c) \/ HungUp(c) \/ GoalReserve(c)
      PROVE  Recorded'
  <2>1. /\ UNCHANGED <<said, records, withdrawn, at, stored, task>>
        /\ pc[c] # "prompting" /\ \E there \in {"reading", "gone", "goal"} : pc' = [pc EXCEPT ![c] = there]
    BY <1>14 DEF Attach, GoalRefused, HungUp, GoalReserve, Heard, NoNews, Turning
  <2>2. Prompting' <=> Prompting
    BY <2>1 DEF Prompting, Types
  <2> QED
    BY <2>1, <2>2, RecordedTasks DEF Prompts, Speaks
<1>15. ASSUME NEW c \in Conn, NEW there \in {"here", "elsewhere"}, Release(c, there)
      PROVE  Recorded'
  <2>1. /\ UNCHANGED <<said, records, withdrawn, at, stored, task>>
        /\ pc[c] # "prompting" /\ \E to \in {"reading", "opening"} : pc' = [pc EXCEPT ![c] = to]
    BY <1>15 DEF Release, Heard, NoNews, Turning
  <2>2. Prompting' <=> Prompting
    BY <2>1 DEF Prompting, Types
  <2> QED
    BY <2>1, <2>2, RecordedTasks DEF Prompts, Speaks
<1>16. ASSUME NEW c \in Conn, Prompt(c)
      PROVE  Recorded'
  <2>1. PICK f : f = [turn |-> at'.turn, step |-> 0, kind |-> "prompt"]
    OBVIOUS
  <2>2. /\ said' = Append(said, f) /\ f.turn = at'.turn /\ f.step = 0 /\ f.kind = "prompt"
        /\ at'.turn = at.turn + 1 /\ at'.step = 0 /\ ~busy /\ task' = task /\ pc' = [pc EXCEPT ![c] = "prompting"]
        /\ UNCHANGED <<records, stored, withdrawn>>
    BY <1>16, <2>1 DEF Prompt, Turning
  <2>3. at' \in [turn : Nat, step : Nat, produced : BOOLEAN] /\ at.turn \in Nat
    BY DEF Types
  <2>4. f \in Frame
    BY <2>1, <2>3 DEF Frame
  <2>5. /\ \A n \in DOMAIN said' : n \in DOMAIN said \/ (n = Len(said') /\ Here(n)')
        /\ \A n \in DOMAIN said : Here(n)' => at'.turn = at.turn
    BY <2>2, <2>3, <2>4, PlacedSaid
  <2>6. \A n \in DOMAIN said : ~Here(n)'
    BY <2>2, <2>3, <2>5
  <2>7. /\ DOMAIN said \subseteq DOMAIN said' /\ Len(said') = Len(said) + 1 /\ said'[Len(said) + 1] = f
    BY <2>2, <2>4, Appended
  <2>8. NoTurn
    BY <2>2, NobodyThere
  <2>9. \A n \in DOMAIN said : n \in records \/ n \in withdrawn
    BY <2>8 DEF Recorded, NoTurn, Speaks, Speaking, Holding
  <2>10. Speaks'
    BY <2>2 DEF Speaks, Prompting, Types
  <2>11. \A t \in Turn : task'[t] # "intent"
    BY <2>2, <2>8 DEF NoTurn, Holding
  <2>12. \A n \in DOMAIN said' : Here(n)' => said'[n].kind = "prompt"
    BY <2>2, <2>5, <2>6, <2>7
  <2>13. /\ stored' \subseteq records' /\ records' \subseteq DOMAIN said' /\ withdrawn' \subseteq DOMAIN said'
    BY <2>2, <2>7 DEF Recorded
  <2> QED
    BY <2>2, <2>5, <2>9, <2>10, <2>11, <2>12, <2>13 DEF Recorded
<1> QED
  BY <1>1, <1>2, <1>3, <1>4, <1>5, <1>6, <1>7, <1>8, <1>9, <1>10, <1>11, <1>12, <1>13, <1>14, <1>15, <1>16 DEF Next, Turns, Serving, Requested

-----------------------------------------------------------------------------
(* The store and the backlog.                                              *)

Rising(s) == \A i, j \in DOMAIN s : i < j => s[i] < s[j]

\* What is taken of a list of places in order is in order.
LEMMA OnlyRising ==
    ASSUME NEW s \in Seq(Nat), Rising(s), NEW S
    PROVE  /\ Only(s, S) \in Seq(Nat) /\ Rising(Only(s, S))
           /\ \A i \in DOMAIN Only(s, S) : Only(s, S)[i] \in S /\ \E k \in DOMAIN s : s[k] = Only(s, S)[i]
           /\ \A k \in DOMAIN s : s[k] \in S => \E i \in DOMAIN Only(s, S) : Only(s, S)[i] = s[k]
<1>1. PICK o : o = Only(s, S)
  OBVIOUS
<1>2. Takes(o, s, S, Nat)
  BY <1>1, OnlyTakes
<1>3. /\ o \in Seq(Nat)
      /\ \A i \in DOMAIN o : o[i] \in S /\ \E k \in DOMAIN s : s[k] = o[i]
      /\ \A k \in DOMAIN s : s[k] \in S => \E i \in DOMAIN o : o[i] = s[k]
      /\ \A i, j \in DOMAIN o : i < j => \E k, l \in DOMAIN s : k < l /\ s[k] = o[i] /\ s[l] = o[j]
  BY <1>2 DEF Takes
<1>4. Rising(o)
  BY <1>3 DEF Rising
<1> QED
  BY <1>1, <1>3, <1>4

\* A later place goes at the end of such a list.
LEMMA AppendRising ==
    ASSUME NEW s \in Seq(Nat), Rising(s), NEW n \in Nat, \A i \in DOMAIN s : s[i] < n
    PROVE  /\ Append(s, n) \in Seq(Nat) /\ Rising(Append(s, n))
           /\ \A i \in DOMAIN Append(s, n) : Append(s, n)[i] = n \/ \E k \in DOMAIN s : s[k] = Append(s, n)[i]
           /\ \A k \in DOMAIN s : \E i \in DOMAIN Append(s, n) : Append(s, n)[i] = s[k]
           /\ \E i \in DOMAIN Append(s, n) : Append(s, n)[i] = n
<1>1. PICK o : o = Append(s, n)
  OBVIOUS
<1>2. /\ o \in Seq(Nat) /\ DOMAIN o = 1..(Len(s) + 1) /\ DOMAIN s = 1..Len(s) /\ Len(s) \in Nat
      /\ o[Len(s) + 1] = n /\ \A i \in DOMAIN s : o[i] = s[i]
  BY <1>1
<1>3. \A i \in DOMAIN o : i \in DOMAIN s \/ i = Len(s) + 1
  BY <1>2
<1>4. Rising(o)
  <2> SUFFICES ASSUME NEW i \in DOMAIN o, NEW j \in DOMAIN o, i < j PROVE o[i] < o[j]
    BY DEF Rising
  <2>1. i \in DOMAIN s
    BY <1>2
  <2>2. CASE j \in DOMAIN s
    BY <1>2, <2>1, <2>2 DEF Rising
  <2>3. CASE j = Len(s) + 1
    BY <1>2, <2>1, <2>3
  <2> QED
    BY <1>3, <2>2, <2>3
<1>5. /\ \A i \in DOMAIN o : o[i] = n \/ \E k \in DOMAIN s : s[k] = o[i]
      /\ \A k \in DOMAIN s : \E i \in DOMAIN o : o[i] = s[k]
      /\ \E i \in DOMAIN o : o[i] = n
  <2>1. Len(s) + 1 \in DOMAIN o /\ \A k \in DOMAIN s : k \in DOMAIN o
    BY <1>2
  <2> QED
    BY <1>2, <1>3, <2>1
<1> QED
  BY <1>1, <1>2, <1>4, <1>5

\* The backlog and the store are left alone.
LEMMA BackedSame ==
    ASSUME Backed, UNCHANGED <<said, backlog, stored>>, withdrawn \subseteq withdrawn'
    PROVE  Backed'
  BY DEF Backed

\* What is said goes to the backlog.
LEMMA BackedSaid ==
    ASSUME Types, Recorded, Backed, NEW f \in Frame, said' = Append(said, f),
           backlog' = Append(backlog, Len(said')), UNCHANGED <<stored, withdrawn>>
    PROVE  Backed'
<1>1. /\ DOMAIN said = 1..Len(said) /\ DOMAIN said' = 1..(Len(said) + 1) /\ Len(said) \in Nat
      /\ Len(said') = Len(said) + 1 /\ \A n \in DOMAIN said : said'[n] = said[n]
  BY Appended
<1>2. backlog \in Seq(Nat) /\ Rising(backlog) /\ \A i \in DOMAIN backlog : backlog[i] \in DOMAIN said
  BY DEF Types, Backed, Rising
<1>3. \A i \in DOMAIN backlog : backlog[i] < Len(said') /\ Len(said') \in Nat
  BY <1>1, <1>2
<1>4. /\ backlog' \in Seq(Nat) /\ Rising(backlog')
      /\ \A i \in DOMAIN backlog' : backlog'[i] = Len(said') \/ \E k \in DOMAIN backlog : backlog[k] = backlog'[i]
      /\ \A k \in DOMAIN backlog : \E i \in DOMAIN backlog' : backlog'[i] = backlog[k]
      /\ \E i \in DOMAIN backlog' : backlog'[i] = Len(said')
  BY <1>1, <1>2, <1>3, AppendRising
<1>5. \A n \in DOMAIN said' : n \in DOMAIN said \/ n = Len(said')
  BY <1>1
<1>6. \A n \in DOMAIN said' : n \in withdrawn' \/ n \in stored' \/ \E i \in DOMAIN backlog' : backlog'[i] = n
  <2> SUFFICES ASSUME NEW n \in DOMAIN said'
               PROVE  n \in withdrawn' \/ n \in stored' \/ \E i \in DOMAIN backlog' : backlog'[i] = n
    OBVIOUS
  <2>1. CASE n = Len(said')
    BY <1>4, <2>1
  <2>2. CASE n \in DOMAIN said
    <3>1. n \in withdrawn \/ n \in stored \/ \E k \in DOMAIN backlog : backlog[k] = n
      BY <2>2 DEF Backed
    <3>2. CASE \E k \in DOMAIN backlog : backlog[k] = n
      <4>1. PICK k \in DOMAIN backlog : backlog[k] = n
        BY <3>2
      <4>2. \E i \in DOMAIN backlog' : backlog'[i] = backlog[k]
        BY <1>4
      <4> QED
        BY <4>1, <4>2
    <3> QED
      BY <3>1, <3>2
  <2> QED
    BY <1>5, <2>1, <2>2
<1>7. \A i \in DOMAIN backlog' : backlog'[i] \in DOMAIN said'
  BY <1>1, <1>2, <1>4
<1>8. \A i \in DOMAIN backlog' : \A n \in stored' :
          n < backlog'[i] \/ (said'[backlog'[i]].kind = "decision" /\ backlog'[i] \in stored')
  <2> SUFFICES ASSUME NEW i \in DOMAIN backlog', NEW n \in stored'
               PROVE  n < backlog'[i] \/ (said'[backlog'[i]].kind = "decision" /\ backlog'[i] \in stored')
    OBVIOUS
  <2>1. n \in DOMAIN said
    BY DEF Recorded
  <2>2. CASE backlog'[i] = Len(said')
    BY <1>1, <2>1, <2>2
  <2>3. CASE \E k \in DOMAIN backlog : backlog[k] = backlog'[i]
    BY <1>1, <1>2, <2>3 DEF Backed
  <2> QED
    BY <1>4, <2>2, <2>3
<1> QED
  BY <1>4, <1>6, <1>7, <1>8 DEF Backed, Rising

\* All of it is saved.
LEMMA BackedSaved ==
    ASSUME Recorded, ~Speaks, stored' = records, backlog' = <<>>, UNCHANGED <<said, withdrawn>>
    PROVE  Backed'
<1>1. \A n \in DOMAIN said : n \in withdrawn \/ n \in records
  BY DEF Recorded
<1> QED
  BY <1>1 DEF Backed

\* What stands is in the store, or in the backlog after it.
LEMMA BackedStep == Types /\ Types' /\ Alone /\ Placed /\ Recorded /\ Backed /\ Next => Backed'
<1> SUFFICES ASSUME Types /\ Types' /\ Alone /\ Placed /\ Recorded /\ Backed, Next PROVE Backed'
  OBVIOUS
<1>1. ASSUME NEW x \in Actor, Reach(x) \/ Granted(x) \/ GaveUp(x)
      PROVE  Backed'
  <2>1. UNCHANGED <<said, backlog, stored>> /\ withdrawn \subseteq withdrawn'
    BY <1>1, Delivery DEF Waits, Passes, Misses, Hands, Moves, Stays, session
  <2> QED
    BY <2>1, BackedSame
<1>2. ASSUME NEW x \in Actor, Reached(x)
      PROVE  Backed'
  <2>1. UNCHANGED <<said, backlog, stored>> /\ withdrawn \subseteq withdrawn'
    BY <1>2 DEF Reached
  <2> QED
    BY <2>1, BackedSame
<1>3. ASSUME NEW t \in Turn,
             Admit(t) \/ Stopped(t) \/ Ask(t) \/ Decided(t) \/ StreamFails(t)
      PROVE  Backed'
  <2>1. UNCHANGED <<said, backlog, stored>> /\ withdrawn \subseteq withdrawn'
    BY <1>3 DEF Admit, Stopped, Ask, Decided, StreamFails
  <2> QED
    BY <2>1, BackedSame
<1>4. ASSUME NEW t \in Turn, StepStart(t)
      PROVE  Backed'
  <2>1. Say("progress") /\ backlog' = Append(backlog, Len(said')) /\ UNCHANGED <<stored, withdrawn>>
    BY <1>4 DEF StepStart
  <2>2. at' \in [turn : Nat, step : Nat, produced : BOOLEAN]
    BY DEF Types
  <2> QED
    BY <2>1, <2>2, Says, BackedSaid
<1>5. ASSUME NEW t \in Turn, Produce(t)
      PROVE  Backed'
  <2>1. Say("progress") /\ backlog' = Append(backlog, Len(said')) /\ UNCHANGED <<stored, withdrawn>>
    BY <1>5 DEF Produce
  <2>2. at' \in [turn : Nat, step : Nat, produced : BOOLEAN]
    BY DEF Types
  <2> QED
    BY <2>1, <2>2, Says, BackedSaid
<1>6. ASSUME NEW t \in Turn, Intent(t)
      PROVE  Backed'
  <2>1. CASE stored' = records /\ backlog' = Retired /\ UNCHANGED <<said, withdrawn>>
    <3>1. ~at.produced /\ \A n \in records : ~Here(n)
      BY <1>6 DEF Intent, Recorded
    <3>2. PICK S : S = {n \in DOMAIN said : ~(Before(n) \/ (Here(n) /\ at.produced))}
      OBVIOUS
    <3>3. \A n : n \in S <=> n \in DOMAIN said /\ Here(n)
      BY <3>1, <3>2 DEF Placed, Before, Here, Types
    <3>4. backlog \in Seq(Nat) /\ Rising(backlog)
      BY DEF Types, Backed, Rising
    <3>5. /\ backlog' \in Seq(Nat) /\ Rising(backlog')
          /\ \A i \in DOMAIN backlog' : backlog'[i] \in S
          /\ \A k \in DOMAIN backlog : backlog[k] \in S => \E i \in DOMAIN backlog' : backlog'[i] = backlog[k]
      BY ZenonT(30), <2>1, <3>2, <3>4, OnlyRising DEF Retired
    <3>6. \A n \in DOMAIN said : n \in withdrawn \/ n \in records \/ \E i \in DOMAIN backlog' : backlog'[i] = n
      BY <3>3, <3>5 DEF Backed, Recorded
    <3>7. \A i \in DOMAIN backlog' : backlog'[i] \in DOMAIN said /\ \A n \in records : n < backlog'[i]
      BY <3>1, <3>3, <3>5 DEF Placed, Recorded
    <3> QED
      BY <2>1, <3>5, <3>6, <3>7 DEF Backed, Rising
  <2>2. CASE UNCHANGED <<said, backlog, stored>> /\ withdrawn \subseteq withdrawn'
    BY <2>2, BackedSame
  <2> QED
    BY <1>6, <2>1, <2>2 DEF Intent, Silent
<1>7. ASSUME NEW t \in Turn, Settle(t)
      PROVE  Backed'
  <2>1. CASE UNCHANGED <<said, backlog, stored>> /\ withdrawn' = withdrawn
    BY <2>1, BackedSame
  <2>2. CASE /\ at' = at /\ Say("decision") /\ at.produced /\ withdrawn' = withdrawn
             /\ records' = (records \cup OfStep) \cup {Len(said')} /\ stored' = records'
             /\ backlog' = Append(Retired, Len(said'))
    <3>1. PICK f \in Frame :
              /\ said' = Append(said, f) /\ f.kind = "decision"
              /\ \A n \in DOMAIN said' : n \in DOMAIN said \/ n = Len(said')
      BY <2>2, SaysPlaced DEF Types
    <3>2. /\ DOMAIN said = 1..Len(said) /\ DOMAIN said' = 1..(Len(said) + 1) /\ Len(said) \in Nat
          /\ Len(said') = Len(said) + 1 /\ said'[Len(said) + 1] = f
      BY <3>1, Appended
    <3>3. PICK S : S = {n \in DOMAIN said : ~(Before(n) \/ (Here(n) /\ at.produced))}
      OBVIOUS
    <3>4. \A n : n \notin S
      BY <2>2, <3>3 DEF Placed
    <3>5. backlog \in Seq(Nat) /\ Rising(backlog)
      BY DEF Types, Backed, Rising
    <3>6. Retired = Only(backlog, S)
      BY <3>3 DEF Retired
    <3>7. Retired \in Seq(Nat) /\ \A i \in DOMAIN Retired : Retired[i] \in S
      BY <3>5, <3>6, OnlyRising
    <3>8. Retired = <<>>
      BY <3>4, <3>7
    <3>9. Len(backlog') = 1 /\ DOMAIN backlog' = {1} /\ backlog'[1] = Len(said')
      BY <2>2, <3>8
    <3>10. \A n \in DOMAIN said : n \in withdrawn \/ n \in stored'
      BY <2>2 DEF Recorded, OfStep, Here
    <3>11. Len(said') \in stored' /\ said'[Len(said')].kind = "decision" /\ Len(said') \in DOMAIN said'
      BY <2>2, <3>1, <3>2
    <3> QED
      BY <2>2, <3>1, <3>9, <3>10, <3>11 DEF Backed
  <2> QED
    BY <1>7, <2>1, <2>2 DEF Settle, Silent
<1>8. ASSUME NEW t \in Turn, Close(t)
      PROVE  Backed'
  <2>1. CASE UNCHANGED <<said, backlog, stored>> /\ withdrawn' = withdrawn
    BY <2>1, BackedSame
  <2>2. CASE stored' = records /\ backlog' = <<>> /\ UNCHANGED <<said, withdrawn>>
    <3>1. task[t] \in {"closing", "refused"}
      BY <1>8 DEF Close
    <3>2. ~Speaks
      BY <3>1, TurnAlone DEF Speaks, Speaking, Holding
    <3> QED
      BY <2>2, <3>2, BackedSaved
  <2> QED
    BY <1>8, <2>1, <2>2 DEF Close
<1>9. ASSUME NEW c \in Conn, GoalSaved(c)
      PROVE  Backed'
  <2>1. /\ pc[c] = "goal" /\ cast[c].what = "nothing"
        /\ stored' = records /\ backlog' = <<>> /\ UNCHANGED <<said, withdrawn>>
    BY <1>9 DEF GoalSaved, Nobody
  <2>2. ~Speaks
    BY <2>1, ConnAlone DEF Speaks, Speaking, Holding, Prompting
  <2> QED
    BY <2>1, <2>2, BackedSaved
<1>10. ASSUME NEW c \in Conn,
             Attach(c) \/ GoalRefused(c) \/ HungUp(c) \/ Interrupt(c) \/ Answer(c)
             \/ GoalReserve(c) \/ HangUp(c)
      PROVE  Backed'
  <2>1. UNCHANGED <<said, backlog, stored>> /\ withdrawn \subseteq withdrawn'
    BY <1>10 DEF Attach, GoalRefused, HungUp, Interrupt, Answer, GoalReserve, HangUp, NoNews, Turning, session
  <2> QED
    BY <2>1, BackedSame
<1>11. ASSUME NEW c \in Conn, NEW there \in {"here", "elsewhere"}, Release(c, there)
      PROVE  Backed'
  <2>1. UNCHANGED <<said, backlog, stored>> /\ withdrawn \subseteq withdrawn'
    BY <1>11 DEF Release, NoNews, Turning
  <2> QED
    BY <2>1, BackedSame
<1>12. ASSUME NEW c \in Conn, Prompt(c)
      PROVE  Backed'
  <2>1. PICK f : f = [turn |-> at'.turn, step |-> 0, kind |-> "prompt"]
    OBVIOUS
  <2>2. /\ said' = Append(said, f) /\ backlog' = Append(backlog, Len(said')) /\ UNCHANGED <<stored, withdrawn>>
    BY <1>12, <2>1 DEF Prompt, Turning
  <2>3. f \in Frame
    BY <2>1 DEF Frame, Types
  <2> QED
    BY <2>2, <2>3, BackedSaid
<1> QED
  BY <1>1, <1>2, <1>3, <1>4, <1>5, <1>6, <1>7, <1>8, <1>9, <1>10, <1>11, <1>12 DEF Next, Turns, Serving, Requested

-----------------------------------------------------------------------------
(* Who is sent the session's frames.                                       *)

\* Whoever follows has an entry of its own.
LEMMA FollowerEntry ==
    ASSUME Types, Watch, NEW c \in Conn, Following(c)
    PROVE  \E i \in DOMAIN viewers : viewers[i].id = watching[c] /\ viewers[i].conn = c
<1>1. PICK i \in DOMAIN viewers : viewers[i].id = watching[c]
  BY DEF Following, IsWatching
<1>2. viewers[i].conn \in Conn /\ watching[viewers[i].conn] = watching[c] /\ watching[c] # 0
  BY <1>1, EntriesTyped DEF Watch
<1>3. viewers[i].conn = c
  BY <1>2 DEF Watch
<1> QED
  BY <1>1, <1>3

\* A viewer's entry is of one that follows.
LEMMA EntryFollows ==
    ASSUME Types, Watch, NEW i \in DOMAIN viewers
    PROVE  /\ viewers[i].conn \in Conn /\ Following(viewers[i].conn)
           /\ watching[viewers[i].conn] = viewers[i].id
  BY EntriesTyped DEF Watch, Following, IsWatching

\* A frame is handed to one that follows.
LEMMA ReceiverFollows ==
    ASSUME Types, Watch, Bound, NEW x \in Actor, cast[x].left # <<>>, Addressed(x)
    PROVE  Following(Receiver(x).conn) /\ watching[Receiver(x).conn] = Receiver(x).id
<1>1. PICK j \in DOMAIN viewers : viewers[j].id = Receiver(x).id
  BY DEF Addressed, IsWatching
<1>2. 1 \in DOMAIN cast[x].left /\ Receiver(x) = cast[x].left[1]
  BY ReceiverTyped
<1>3. viewers[j] = Receiver(x)
  BY <1>1, <1>2 DEF Bound
<1> QED
  BY <1>3, EntryFollows

\* With no new viewer nobody new follows.
LEMMA FollowFewer ==
    ASSUME Fewer, watching' = watching
    PROVE  \A c \in Conn : Following(c)' => Following(c)
<1>1. \A i \in DOMAIN viewers' : \E k \in DOMAIN viewers : viewers[k] = viewers'[i]
  BY DEF Fewer, Among
<1> QED
  BY <1>1 DEF Following, IsWatching

\* One that leaves follows no more, and nothing changes for the rest.
LEMMA FollowLeave ==
    ASSUME Types, Watch, NEW c \in Conn, Leave(c)
    PROVE  \A d \in Conn : Following(d)' =>
              /\ d # c /\ Following(d)
              /\ watching'[d] = watching[d] /\ shown'[d] = shown[d] /\ drawn'[d] = drawn[d]
<1>1. /\ watching'[c] = 0
      /\ \A d \in Conn : d # c => watching'[d] = watching[d] /\ shown'[d] = shown[d] /\ drawn'[d] = drawn[d]
  BY DEF Leave, Types
<1>2. \A i \in DOMAIN viewers' : \E k \in DOMAIN viewers : viewers[k] = viewers'[i]
  BY OnlyAmong DEF Leave, Among, Types, Watch
<1> QED
  BY <1>1, <1>2 DEF Following, IsWatching

\* One that comes has read what there is.
LEMMA FollowAttach ==
    ASSUME Types, Watch, NEW c \in Conn, Attach(c)
    PROVE  \A d \in Conn : Following(d)' =>
              \/ Following(d) /\ watching'[d] = watching[d] /\ shown'[d] = shown[d] /\ drawn'[d] = drawn[d]
              \/ /\ d = c /\ watching'[d] = nextViewer /\ shown'[d] = CatchUp
                 /\ drawn'[d] = IF ~busy THEN "idle"
                                ELSE IF \E e \in Conn : pc[e] = "goal" THEN "reserved" ELSE "turn"
<1>1. CASE UNCHANGED <<viewers, watching, shown, drawn>>
  BY <1>1 DEF Following, IsWatching
<1>2. CASE /\ DOMAIN viewers' = DOMAIN viewers \cup {Len(viewers) + 1}
           /\ \A i \in DOMAIN viewers : viewers'[i] = viewers[i]
           /\ viewers'[Len(viewers) + 1].id = nextViewer
           /\ watching' = [watching EXCEPT ![c] = nextViewer]
           /\ shown' = [shown EXCEPT ![c] = CatchUp]
           /\ drawn' = [drawn EXCEPT ![c] = IF ~busy THEN "idle"
                         ELSE IF \E d \in Conn : pc[d] = "goal" THEN "reserved" ELSE "turn"]
  <2>1. /\ watching'[c] = nextViewer /\ shown'[c] = CatchUp
        /\ drawn'[c] = IF ~busy THEN "idle"
                       ELSE IF \E d \in Conn : pc[d] = "goal" THEN "reserved" ELSE "turn"
    BY <1>2 DEF Types
  <2>2. \A d \in Conn : d # c => watching'[d] = watching[d] /\ shown'[d] = shown[d] /\ drawn'[d] = drawn[d]
    BY <1>2 DEF Types
  <2>3. nextViewer \in Nat /\ \A d \in Conn : watching[d] < nextViewer /\ watching[d] \in Nat
    BY DEF Types, Watch
  <2>4. \A d \in Conn : d # c /\ Following(d)' => Following(d)
    BY <1>2, <2>2, <2>3 DEF Following, IsWatching
  <2> QED
    BY <2>1, <2>2, <2>4
<1> QED
  BY <1>1, <1>2, Attaching

\* A frame handed on goes to the next of its viewers, and is one of the others'.
LEMMA MovesLeft ==
    ASSUME Types, Bound, NEW x \in Actor, NEW late, Moves(x, late)
    PROVE  /\ cast'[x].what = cast[x].what /\ cast'[x].item = cast[x].item /\ cast'[x].late = late
           /\ cast'[x].left = Tail(cast[x].left)
           /\ \A y \in Actor : y # x => cast'[y] = cast[y]
           /\ \A i \in DOMAIN cast'[x].left :
                 cast'[x].left[i].id # Receiver(x).id /\ \E k \in DOMAIN cast[x].left : cast[x].left[k] = cast'[x].left[i]
           /\ \A k \in DOMAIN cast[x].left :
                 cast[x].left[k] = Receiver(x) \/ \E i \in DOMAIN cast'[x].left : cast'[x].left[i] = cast[x].left[k]
<1>1. /\ cast'[x] = [what |-> cast[x].what, item |-> cast[x].item, left |-> Tail(cast[x].left), late |-> late]
      /\ \A y \in Actor : y # x => cast'[y] = cast[y]
      /\ cast[x].left # <<>>
  BY DEF Moves, Types
<1>2. cast[x].left \in Seq(Viewer) /\ Distinct(cast[x].left)
  BY DEF Types, Bound, Sent
<1>3. /\ \A i \in DOMAIN Tail(cast[x].left) : Tail(cast[x].left)[i].id # Receiver(x).id
      /\ \A i \in DOMAIN Tail(cast[x].left) : \E k \in DOMAIN cast[x].left : cast[x].left[k] = Tail(cast[x].left)[i]
      /\ \A k \in DOMAIN cast[x].left :
           cast[x].left[k] = Receiver(x) \/ \E i \in DOMAIN Tail(cast[x].left) : Tail(cast[x].left)[i] = cast[x].left[k]
  BY <1>1, <1>2, TailAmong DEF Among, Receiver
<1>4. /\ cast'[x].what = cast[x].what /\ cast'[x].item = cast[x].item /\ cast'[x].late = late
      /\ cast'[x].left = Tail(cast[x].left)
  BY <1>1
<1> QED
  BY <1>1, <1>3, <1>4

-----------------------------------------------------------------------------
(* The prompt on its way.                                                  *)

\* One prompt is on its way at a time, from the one who holds the session.
LEMMA PromptAlone ==
    ASSUME Types, Alone, Tasks, NEW x \in Actor, cast[x].what = "prompt"
    PROVE  /\ x \in Conn /\ pc[x] = "prompting" /\ busy
           /\ \A t \in Turn : task[t] \notin Holding
           /\ \A y \in Actor : cast[y].what = "prompt" => y = x
<1>1. \A y \in Actor : cast[y].what = "prompt" => y \in Conn /\ pc[y] = "prompting"
  BY DEF Tasks, Actor
<1> QED
  BY <1>1, ConnAlone

\* No more is on its way, and nobody was shown more.
LEMMA ItemsLess ==
    ASSUME Items, said' = said,
           \A x \in Actor : cast'[x].what # "prompt" => cast'[x].item = 0,
           \A x \in Actor : cast'[x].what = "prompt" =>
              /\ cast[x].what = "prompt" /\ cast'[x].item = cast[x].item
              /\ \A i \in DOMAIN cast'[x].left : \E k \in DOMAIN cast[x].left : cast[x].left[k] = cast'[x].left[i],
           \A c \in Conn : Following(c)' =>
              \/ Following(c) /\ watching'[c] = watching[c] /\ shown'[c] = shown[c]
              \/ \A x \in Actor : cast'[x].what = "prompt" =>
                    \A i \in DOMAIN cast'[x].left : cast'[x].left[i].id # watching'[c]
    PROVE  Items'
<1>1. \A x \in Actor : cast'[x].what = "prompt" => cast'[x].item = Len(said') /\ Len(said') # 0
  BY DEF Items
<1>2. ASSUME NEW x \in Actor, cast'[x].what = "prompt", NEW c \in Conn, Following(c)',
             NEW i \in DOMAIN cast'[x].left, cast'[x].left[i].id = watching'[c], NEW j \in DOMAIN shown'[c]
      PROVE  shown'[c][j] < cast'[x].item
  <2>1. Following(c) /\ watching'[c] = watching[c] /\ shown'[c] = shown[c]
    BY <1>2
  <2>2. PICK k \in DOMAIN cast[x].left : cast[x].left[k] = cast'[x].left[i]
    BY <1>2
  <2> QED
    BY <1>2, <2>1, <2>2 DEF Items
<1> QED
  BY <1>1, <1>2 DEF Items

\* Nothing is on its way that is news.
LEMMA ItemsNone ==
    ASSUME Items, UNCHANGED cast, \A x \in Actor : cast[x].what # "prompt"
    PROVE  Items'
  BY DEF Items

\* It is the last thing said, and news to those it is to reach.
LEMMA ItemsStep == Types /\ Alone /\ Tasks /\ Watch /\ Bound /\ Items /\ Seen /\ Next => Items'
<1> SUFFICES ASSUME Types /\ Alone /\ Tasks /\ Watch /\ Bound /\ Items /\ Seen, Next PROVE Items'
  OBVIOUS
<1>1. ASSUME NEW x \in Actor, Reach(x) \/ Granted(x) \/ GaveUp(x)
      PROVE  Items'
  <2>1. UNCHANGED <<said, viewers, watching>> /\ \A c \in Conn : Following(c)' <=> Following(c)
    BY <1>1, Delivery DEF Waits, Passes, Misses, Hands, Moves, Stays, session, Following, IsWatching
  <2>2. CASE Waits
    <3>1. UNCHANGED <<cast, shown>>
      BY <2>2 DEF Waits
    <3> QED
      BY <2>1, <3>1, ItemsLess DEF Items
  <2>3. ASSUME NEW late, Moves(x, late), UNCHANGED shown PROVE Items'
    BY <2>1, <2>3, MovesLeft, ItemsLess DEF Items
  <2>4. CASE Hands(x)
    <3>1. /\ Moves(x, cast[x].late) /\ Addressed(x) /\ cast[x].left # <<>>
          /\ shown' = [shown EXCEPT ![Receiver(x).conn] = Seeing(Receiver(x).conn, cast[x].item)]
      BY <2>4 DEF Hands, Moves
    <3>2. CASE cast[x].what # "prompt"
      <4>1. cast[x].item = 0
        BY <3>2 DEF Items
      <4>2. shown' = shown
        BY <3>1, <4>1 DEF Seeing, Types
      <4> QED
        BY <2>3, <3>1, <4>2
    <3>3. CASE cast[x].what = "prompt"
      <4>1. \A y \in Actor : cast'[y].what = "prompt" => y = x
        BY <3>1, <3>3, PromptAlone, MovesLeft
      <4>2. watching[Receiver(x).conn] = Receiver(x).id
        BY <3>1, ReceiverFollows
      <4>3. \A i \in DOMAIN cast'[x].left : cast'[x].left[i].id # watching'[Receiver(x).conn]
        BY <2>1, <3>1, <4>2, MovesLeft
      <4>4. \A c \in Conn : c # Receiver(x).conn => shown'[c] = shown[c]
        BY <3>1 DEF Types
      <4>5. \A c \in Conn : Following(c)' =>
              \/ Following(c) /\ watching'[c] = watching[c] /\ shown'[c] = shown[c]
              \/ \A y \in Actor : cast'[y].what = "prompt" =>
                    \A i \in DOMAIN cast'[y].left : cast'[y].left[i].id # watching'[c]
        BY <2>1, <4>1, <4>3, <4>4
      <4>6. \A y \in Actor : cast'[y].what # "prompt" => cast'[y].item = 0
        BY <3>1, MovesLeft DEF Items
      <4>7. \A y \in Actor : cast'[y].what = "prompt" =>
              /\ cast[y].what = "prompt" /\ cast'[y].item = cast[y].item
              /\ \A i \in DOMAIN cast'[y].left : \E k \in DOMAIN cast[y].left : cast[y].left[k] = cast'[y].left[i]
        BY <3>1, <3>3, <4>1, MovesLeft
      <4> QED
        BY <2>1, <4>5, <4>6, <4>7, ItemsLess
    <3> QED
      BY <3>2, <3>3
  <2> QED
    BY <1>1, <2>2, <2>3, <2>4, Delivery DEF Passes, Misses
<1>2. ASSUME NEW x \in Actor, Reached(x)
      PROVE  Items'
  <2>1. /\ said' = said /\ watching' = watching /\ shown' = shown
        /\ \A c \in Conn : Following(c)' => Following(c)
    <3>1. said' = said /\ watching' = watching /\ shown' = shown
      BY <1>2 DEF Reached, queues
    <3>2. \A i \in DOMAIN viewers' : \E k \in DOMAIN viewers : viewers[k] = viewers'[i]
      BY <1>2, StillAmong DEF Reached, Among
    <3> QED
      BY <3>1, <3>2 DEF Following, IsWatching
  <2>2. /\ cast'[x].what # "prompt" /\ cast'[x].item = 0
        /\ \A y \in Actor : y # x => cast'[y] = cast[y]
    <3>1. cast' = [cast EXCEPT ![x] = Nobody] \/ Sending(x, "goal", 0, viewers')
      BY <1>2 DEF Reached
    <3> QED
      BY <3>1, Rests, Starts
  <2>3. \A y \in Actor : cast'[y].what # "prompt" => cast'[y].item = 0
    BY <2>2 DEF Items
  <2> QED
    BY <2>1, <2>2, <2>3, ItemsLess
<1>3. ASSUME NEW t \in Turn,
             Admit(t) \/ Stopped(t) \/ Intent(t) \/ Decided(t) \/ StreamFails(t)
      PROVE  Items'
  <2>1. UNCHANGED <<said, watching, cast, shown, viewers>>
    BY <1>3 DEF Admit, Stopped, Intent, Decided, StreamFails, Kept, Silent, queues
  <2>2. \A c \in Conn : Following(c)' => Following(c)
    BY <2>1 DEF Following, IsWatching
  <2> QED
    BY <2>1, <2>2, ItemsLess DEF Items
<1>4. ASSUME NEW c \in Conn,
             GoalRefused(c) \/ Interrupt(c) \/ Answer(c) \/ GoalReserve(c) \/ HangUp(c)
      PROVE  Items'
  <2>1. UNCHANGED <<said, watching, cast, shown, viewers>>
    BY <1>4 DEF GoalRefused, Interrupt, Answer, GoalReserve, HangUp, NoNews, Turning, queues, session
  <2>2. \A d \in Conn : Following(d)' => Following(d)
    BY <2>1 DEF Following, IsWatching
  <2> QED
    BY <2>1, <2>2, ItemsLess DEF Items
<1>5. ASSUME NEW t \in Turn, StepStart(t) \/ Produce(t) \/ Settle(t)
      PROVE  Items'
  <2>1. task[t] \in Holding /\ UNCHANGED cast
    BY <1>5 DEF StepStart, Produce, Settle, Holding
  <2>2. \A x \in Actor : cast[x].what # "prompt"
    BY <2>1, PromptAlone
  <2> QED
    BY <2>1, <2>2, ItemsNone
<1>6. ASSUME NEW t \in Turn, Ask(t) \/ Close(t)
      PROVE  Items'
  <2>1. /\ UNCHANGED <<said, watching, shown, viewers>>
        /\ \E what \in {"question", "ending", "goal", "checkpoint"} : Sending(t, what, 0, viewers)
    BY <1>6 DEF Ask, Close, Kept, queues
  <2>2. \A d \in Conn : Following(d)' => Following(d)
    BY <2>1 DEF Following, IsWatching
  <2>3. /\ cast'[t].what # "prompt" /\ cast'[t].item = 0
        /\ \A y \in Actor : y # t => cast'[y] = cast[y]
    BY <2>1, Starts, Apart
  <2>4. \A y \in Actor : cast'[y].what # "prompt" => cast'[y].item = 0
    BY <2>3 DEF Items
  <2> QED
    BY <2>1, <2>2, <2>3, <2>4, ItemsLess
<1>7. ASSUME NEW c \in Conn, GoalSaved(c)
      PROVE  Items'
  <2>1. /\ UNCHANGED <<said, watching, shown, viewers>>
        /\ \E what \in {"question", "ending", "goal", "checkpoint"} : Sending(c, what, 0, viewers)
    BY <1>7 DEF GoalSaved, Kept, queues
  <2>2. \A d \in Conn : Following(d)' => Following(d)
    BY <2>1 DEF Following, IsWatching
  <2>3. /\ cast'[c].what # "prompt" /\ cast'[c].item = 0
        /\ \A y \in Actor : y # c => cast'[y] = cast[y]
    BY <2>1, Starts, Apart
  <2>4. \A y \in Actor : cast'[y].what # "prompt" => cast'[y].item = 0
    BY <2>3 DEF Items
  <2> QED
    BY <2>1, <2>2, <2>3, <2>4, ItemsLess
<1>8. ASSUME NEW c \in Conn, HungUp(c)
      PROVE  Items'
  <2>1. Leave(c) /\ UNCHANGED <<said, cast>>
    BY <1>8 DEF HungUp, NoNews
  <2>2. \A d \in Conn : Following(d)' => Following(d) /\ watching'[d] = watching[d] /\ shown'[d] = shown[d]
    BY <2>1, FollowLeave
  <2> QED
    BY <2>1, <2>2, ItemsLess DEF Items
<1>9. ASSUME NEW c \in Conn, NEW there \in {"here", "elsewhere"}, Release(c, there)
      PROVE  Items'
  <2>1. Leave(c) /\ UNCHANGED <<said, cast>>
    BY <1>9 DEF Release, NoNews
  <2>2. \A d \in Conn : Following(d)' => Following(d) /\ watching'[d] = watching[d] /\ shown'[d] = shown[d]
    BY <2>1, FollowLeave
  <2> QED
    BY <2>1, <2>2, ItemsLess DEF Items
<1>10. ASSUME NEW c \in Conn, Attach(c)
      PROVE  Items'
  <2>1. UNCHANGED <<said, cast>>
    BY <1>10 DEF Attach, NoNews
  <2>2. \A d \in Conn : Following(d)' =>
           \/ Following(d) /\ watching'[d] = watching[d] /\ shown'[d] = shown[d]
           \/ watching'[d] = nextViewer
    BY <1>10, FollowAttach
  <2>3. \A x \in Actor : \A i \in DOMAIN cast[x].left : cast[x].left[i].id # nextViewer
    <3>1. nextViewer \in Nat
      BY DEF Types
    <3> QED
      BY <3>1, EntriesTyped DEF Bound
  <2> QED
    BY <2>1, <2>2, <2>3, ItemsLess DEF Items
<1>11. ASSUME NEW c \in Conn, Prompt(c)
      PROVE  Items'
  <2>1. /\ ~busy /\ UNCHANGED <<viewers, watching>> /\ watching[c] # 0
        /\ Sending(c, "prompt", Len(said'), Others(c))
        /\ shown' = [shown EXCEPT ![c] = Seeing(c, Len(said'))]
    BY <1>11 DEF Prompt
  <2>2. /\ cast'[c].what = "prompt" /\ cast'[c].item = Len(said') /\ cast'[c].left = Others(c)
        /\ \A y \in Actor : y # c => cast'[y] = cast[y]
    BY <2>1, Starts, Apart
  <2>3. \A y \in Actor : y # c => cast'[y].what # "prompt" /\ cast'[y].item = 0
    <3>1. \A y \in Actor : cast[y].what # "prompt"
      BY <2>1, PromptAlone
    <3> QED
      BY <2>2, <3>1 DEF Items
  <2>4. Len(said) \in Nat /\ Len(said') = Len(said) + 1 /\ DOMAIN said = 1..Len(said)
    <3>1. PICK f : f = [turn |-> at'.turn, step |-> 0, kind |-> "prompt"]
      OBVIOUS
    <3>2. said' = Append(said, f)
      BY <1>11, <3>1 DEF Prompt
    <3>3. f \in Frame
      <4>1. at' = [turn |-> at.turn + 1, step |-> 0, produced |-> TRUE]
        BY <1>11 DEF Prompt
      <4>2. at'.turn \in Nat
        BY <4>1 DEF Types
      <4> QED
        BY <3>1, <4>2 DEF Frame
    <3> QED
      BY <3>2, <3>3, Appended
  <2>5. ASSUME NEW d \in Conn, Following(d)', NEW i \in DOMAIN cast'[c].left, cast'[c].left[i].id = watching'[d],
               NEW j \in DOMAIN shown'[d]
        PROVE  shown'[d][j] < cast'[c].item
    <3>1. Following(d)
      BY <2>1, <2>5 DEF Following, IsWatching
    <3>2. PICK v : v = cast'[c].left[i]
      OBVIOUS
    <3>3. /\ \E k \in DOMAIN viewers : viewers[k] = v
          /\ v \in ToSet(viewers) \ {[id |-> watching[c], conn |-> c]}
      BY SMTT(30), <2>2, <3>2, OnlyAmong DEF Others, Among, Types, Watch
    <3>4. PICK k \in DOMAIN viewers : viewers[k] = v
      BY <3>3
    <3>5. v \in Viewer /\ v.id = watching[v.conn] /\ v.id = watching[d] /\ v.id # 0 /\ v.conn \in Conn
      <4>1. v \in Viewer
        BY <3>4 DEF Types
      <4> QED
        BY <2>1, <2>5, <3>2, <3>4, <4>1, EntryFollows DEF Watch
    <3>6. v.conn = d
      BY <3>5 DEF Watch
    <3>7. v = [id |-> watching[d], conn |-> d]
      BY <3>5, <3>6 DEF Viewer
    <3>8. d # c
      BY <3>3, <3>7
    <3>9. shown'[d] = shown[d]
      BY <2>1, <3>8 DEF Types
    <3>10. shown[d][j] \in DOMAIN said
      BY <2>5, <3>1, <3>9 DEF Seen
    <3> QED
      BY <2>2, <2>4, <3>9, <3>10
  <2> QED
    BY <2>2, <2>3, <2>4, <2>5 DEF Items
<1> QED
  BY <1>1, <1>2, <1>3, <1>4, <1>5, <1>6, <1>7, <1>8, <1>9, <1>10, <1>11 DEF Next, Turns, Serving, Requested

-----------------------------------------------------------------------------
(* What a client has been shown.                                           *)

\* o is s, and t after it.
Joins(o, s, t) == o = s \o t

\* What it holds is of the one or of the other.
LEMMA Joined ==
    ASSUME NEW s \in Seq(Nat), NEW t \in Seq(Nat), NEW o, Joins(o, s, t)
    PROVE  /\ o \in Seq(Nat) /\ Len(s) \in Nat
           /\ \A i \in DOMAIN o : \/ i \in DOMAIN s /\ o[i] = s[i]
                                  \/ i \notin DOMAIN s /\ i - Len(s) \in DOMAIN t /\ o[i] = t[i - Len(s)]
           /\ \A k \in DOMAIN s : k \in DOMAIN o /\ o[k] = s[k]
           /\ \A k \in DOMAIN t : Len(s) + k \in DOMAIN o /\ o[Len(s) + k] = t[k]
<1>1. /\ o \in Seq(Nat) /\ Len(s) \in Nat /\ Len(t) \in Nat
      /\ DOMAIN s = 1..Len(s) /\ DOMAIN t = 1..Len(t) /\ DOMAIN o = 1..(Len(s) + Len(t))
      /\ \A i \in DOMAIN o : o[i] = IF i <= Len(s) THEN s[i] ELSE t[i - Len(s)]
  BY DEF Joins
<1>2. \A i \in DOMAIN o : \/ i \in DOMAIN s /\ o[i] = s[i]
                          \/ i \notin DOMAIN s /\ i - Len(s) \in DOMAIN t /\ o[i] = t[i - Len(s)]
  BY <1>1
<1>3. \A k \in DOMAIN s : k \in DOMAIN o /\ o[k] = s[k]
  BY <1>1
<1>4. ASSUME NEW k \in DOMAIN t PROVE Len(s) + k \in DOMAIN o /\ o[Len(s) + k] = t[k]
  <2>1. Len(s) + k \in DOMAIN o /\ ~(Len(s) + k <= Len(s)) /\ (Len(s) + k) - Len(s) = k
    BY SMTT(30), <1>1
  <2>2. o[Len(s) + k] = t[(Len(s) + k) - Len(s)]
    BY <1>1, <2>1
  <2> QED
    BY <2>1, <2>2
<1> QED
  BY <1>1, <1>2, <1>3, <1>4

\* Two lists in order, the second after the first, are one.
LEMMA JoinRising ==
    ASSUME NEW s \in Seq(Nat), NEW t \in Seq(Nat), Rising(s), Rising(t),
           \A i \in DOMAIN s : \A j \in DOMAIN t : s[i] < t[j], NEW o, Joins(o, s, t)
    PROVE  Rising(o)
<1> SUFFICES ASSUME NEW i \in DOMAIN o, NEW j \in DOMAIN o, i < j PROVE o[i] < o[j]
  BY DEF Rising
<1>1. /\ i \in Nat /\ j \in Nat /\ Len(s) \in Nat /\ DOMAIN s = 1..Len(s)
      /\ i \in DOMAIN s \/ j \notin DOMAIN s
  <2>1. i \in Nat /\ j \in Nat /\ i >= 1
    BY Joined
  <2> QED
    BY <2>1
<1>2. CASE j \in DOMAIN s
  <2>1. i \in DOMAIN s
    BY <1>1, <1>2
  <2>2. o[i] = s[i] /\ o[j] = s[j]
    BY <1>2, <2>1, Joined
  <2> QED
    BY <1>2, <2>1, <2>2 DEF Rising
<1>3. CASE i \in DOMAIN s /\ j \notin DOMAIN s
  <2>1. j - Len(s) \in DOMAIN t /\ o[i] = s[i] /\ o[j] = t[j - Len(s)]
    BY <1>3, Joined
  <2> QED
    BY <1>3, <2>1
<1>4. CASE i \notin DOMAIN s /\ j \notin DOMAIN s
  <2>1. /\ i - Len(s) \in DOMAIN t /\ j - Len(s) \in DOMAIN t
        /\ o[i] = t[i - Len(s)] /\ o[j] = t[j - Len(s)]
    BY <1>4, Joined
  <2>2. i - Len(s) < j - Len(s)
    BY <1>1
  <2> QED
    BY <2>1, <2>2 DEF Rising
<1> QED
  BY <1>1, <1>2, <1>3, <1>4

\* A client that comes reads, in order, all that stands.
LEMMA CatchesUp ==
    ASSUME Types, Recorded, Backed
    PROVE  /\ CatchUp \in Seq(Nat) /\ Rising(CatchUp)
           /\ \A i \in DOMAIN CatchUp : CatchUp[i] \in DOMAIN said
           /\ \A n \in DOMAIN said \ withdrawn : \E i \in DOMAIN CatchUp : CatchUp[i] = n
<1>1. PICK all : all = [n \in DOMAIN said |-> n]
  OBVIOUS
<1>2. all \in Seq(Nat) /\ Rising(all) /\ DOMAIN all = DOMAIN said /\ \A n \in DOMAIN said : all[n] = n
  <2>1. said \in Seq(Frame) /\ DOMAIN said = 1..Len(said) /\ Len(said) \in Nat
    BY DEF Types
  <2>2. all = [n \in 1..Len(said) |-> n]
    BY <1>1, <2>1
  <2>3. all \in Seq(Nat)
    BY <2>1, <2>2
  <2> QED
    BY <1>1, <2>3 DEF Rising
<1>3. PICK s : s = InOrder(stored)
  OBVIOUS
<1>4. /\ s \in Seq(Nat) /\ Rising(s) /\ \A i \in DOMAIN s : s[i] \in stored
      /\ \A n \in stored : \E i \in DOMAIN s : s[i] = n
  <2>1. s = Only(all, stored)
    BY <1>1, <1>3 DEF InOrder
  <2>2. stored \subseteq DOMAIN all
    BY <1>2 DEF Recorded
  <2>3. /\ s \in Seq(Nat) /\ Rising(s) /\ \A i \in DOMAIN s : s[i] \in stored
        /\ \A k \in DOMAIN all : all[k] \in stored => \E i \in DOMAIN s : s[i] = all[k]
    BY <1>2, <2>1, OnlyRising
  <2> QED
    BY <1>2, <2>2, <2>3
<1>5. PICK S : S = {n \in DOMAIN said : said[n].kind # "decision" \/ n \notin stored}
  OBVIOUS
<1>6. PICK t : t = Only(backlog, S)
  OBVIOUS
<1>7. backlog \in Seq(Nat) /\ Rising(backlog)
  BY DEF Types, Backed, Rising
<1>8. /\ t \in Seq(Nat) /\ Rising(t)
      /\ \A i \in DOMAIN t : t[i] \in S /\ \E k \in DOMAIN backlog : backlog[k] = t[i]
      /\ \A k \in DOMAIN backlog : backlog[k] \in S => \E i \in DOMAIN t : t[i] = backlog[k]
  BY <1>6, <1>7, OnlyRising
<1>9. \A i \in DOMAIN s : \A j \in DOMAIN t : s[i] < t[j]
  BY SMTT(30), <1>4, <1>5, <1>8 DEF Backed
<1>10. CatchUp = s \o t
  BY <1>3, <1>5, <1>6 DEF CatchUp
<1>11. /\ CatchUp \in Seq(Nat) /\ Rising(CatchUp)
       /\ \A i \in DOMAIN CatchUp :
             (\E k \in DOMAIN s : s[k] = CatchUp[i]) \/ \E k \in DOMAIN t : t[k] = CatchUp[i]
       /\ \A k \in DOMAIN s : \E i \in DOMAIN CatchUp : CatchUp[i] = s[k]
       /\ \A k \in DOMAIN t : \E i \in DOMAIN CatchUp : CatchUp[i] = t[k]
  <2>1. PICK o : Joins(o, s, t)
    BY DEF Joins
  <2>2. /\ o \in Seq(Nat) /\ Rising(o)
        /\ \A i \in DOMAIN o : (\E k \in DOMAIN s : s[k] = o[i]) \/ \E k \in DOMAIN t : t[k] = o[i]
        /\ \A k \in DOMAIN s : \E i \in DOMAIN o : o[i] = s[k]
        /\ \A k \in DOMAIN t : \E i \in DOMAIN o : o[i] = t[k]
    <3>1. /\ s \in Seq(Nat) /\ t \in Seq(Nat) /\ Rising(s) /\ Rising(t)
          /\ \A i \in DOMAIN s : \A j \in DOMAIN t : s[i] < t[j]
      BY <1>4, <1>8, <1>9
    <3>2. Rising(o)
      BY <2>1, <3>1, JoinRising
    <3>3. /\ o \in Seq(Nat)
          /\ \A i \in DOMAIN o : \/ i \in DOMAIN s /\ o[i] = s[i]
                                 \/ i - Len(s) \in DOMAIN t /\ o[i] = t[i - Len(s)]
          /\ \A k \in DOMAIN s : k \in DOMAIN o /\ o[k] = s[k]
          /\ \A k \in DOMAIN t : Len(s) + k \in DOMAIN o /\ o[Len(s) + k] = t[k]
      BY <2>1, <3>1, Joined
    <3> QED
      BY <3>2, <3>3
  <2>3. CatchUp = o
    BY <1>10, <2>1 DEF Joins
  <2> QED
    BY <2>2, <2>3
<1>12. \A i \in DOMAIN CatchUp : CatchUp[i] \in DOMAIN said
  <2>1. stored \subseteq DOMAIN said /\ S \subseteq DOMAIN said
    BY <1>5 DEF Recorded
  <2> QED
    BY <1>4, <1>8, <1>11, <2>1
<1>13. ASSUME NEW n \in DOMAIN said \ withdrawn PROVE \E i \in DOMAIN CatchUp : CatchUp[i] = n
  <2>1. CASE n \in stored
    BY <1>4, <1>11, <2>1
  <2>2. CASE n \notin stored
    <3>1. n \in S
      BY <1>5, <2>2
    <3>2. \E k \in DOMAIN backlog : backlog[k] = n
      BY <2>2 DEF Backed
    <3>3. \E k \in DOMAIN t : t[k] = n
      BY <1>8, <3>1, <3>2
    <3> QED
      BY <1>11, <3>3
  <2> QED
    BY <2>1, <2>2
<1> QED
  BY <1>11, <1>12, <1>13

\* One thing more shown covers what was covered, and itself.
LEMMA CoversMore ==
    ASSUME NEW c \in Conn, shown[c] \in Seq(Nat), NEW n \in Nat, shown'[c] = Append(shown[c], n)
    PROVE  /\ shown'[c] \in Seq(Nat)
           /\ \A i \in DOMAIN shown'[c] : shown'[c][i] = n \/ \E k \in DOMAIN shown[c] : shown[c][k] = shown'[c][i]
           /\ \A m : Covered(c, m) => Covered(c, m)'
           /\ Covered(c, n)'
<1>1. PICK s : s = shown[c]
  OBVIOUS
<1>2. PICK o : o = shown'[c]
  OBVIOUS
<1>3. s \in Seq(Nat) /\ o = Append(s, n)
  BY <1>1, <1>2
<1>4. /\ o \in Seq(Nat) /\ DOMAIN o = 1..(Len(s) + 1) /\ DOMAIN s = 1..Len(s) /\ Len(s) \in Nat
      /\ o[Len(s) + 1] = n /\ \A i \in DOMAIN s : o[i] = s[i]
  BY <1>3
<1>5. \A i \in DOMAIN o : i \in DOMAIN s \/ i = Len(s) + 1
  BY <1>4
<1>6. \A i \in DOMAIN s : i \in DOMAIN o
  BY <1>4
<1>7. Len(s) + 1 \in DOMAIN o /\ n <= n
  BY <1>4
<1> QED
  BY <1>1, <1>2, <1>4, <1>5, <1>6, <1>7 DEF Covered

\* What one is being sent is a matter of that frame and of who it watches as.
LEMMA OwedSame ==
    ASSUME NEW c \in Conn, watching'[c] = watching[c],
           \A x \in Conn : cast[x].what = "prompt" => cast'[x] = cast[x]
    PROVE  \A m : Owed(c, m) => Owed(c, m)'
  BY DEF Owed, ToReach

\* With nothing more said nothing more is owed.
LEMMA SeenLess ==
    ASSUME Seen, said' = said, withdrawn \subseteq withdrawn',
           \A c \in Conn : Following(c)' => Following(c) /\ shown'[c] = shown[c],
           \A c \in Conn : Following(c)' => \A m : Owed(c, m) => Owed(c, m)'
    PROVE  Seen'
<1>1. \A c \in Conn : Following(c)' => \A m : Covered(c, m) => Covered(c, m)'
  BY DEF Covered
<1> QED
  BY <1>1 DEF Seen

\* Progress and decisions are owed to nobody.
LEMMA SeenSaid ==
    ASSUME Types, Seen, NEW kind \in {"progress", "decision"}, Say(kind), UNCHANGED <<watching, cast, withdrawn>>,
           at' \in [turn : Nat, step : Nat, produced : BOOLEAN]
    PROVE  Seen'
<1>1. PICK f \in Frame : said' = Append(said, f) /\ f.kind = kind
  <2>1. PICK f : f = [turn |-> at.turn, step |-> at'.step, kind |-> kind]
    OBVIOUS
  <2>2. f \in Frame /\ said' = Append(said, f)
    BY <2>1, Says
  <2> QED
    BY <2>1, <2>2
<1>2. /\ DOMAIN said = 1..Len(said) /\ DOMAIN said' = 1..(Len(said) + 1) /\ Len(said) \in Nat
      /\ Len(said') = Len(said) + 1 /\ Len(said') \in Nat /\ \A n \in DOMAIN said : said'[n] = said[n]
      /\ said'[Len(said) + 1].kind = kind
  BY <1>1, Appended
<1>3. PICK C \in SUBSET Offered : shown' = [c \in Conn |-> IF c \in C THEN Seeing(c, Len(said')) ELSE shown[c]]
  BY DEF Say
<1>4. \A c \in Conn : Following(c)' => Following(c)
  <2>1. viewers' = Only(viewers, {v \in ToSet(viewers) : ~Gone(v)})
    BY DEF Say
  <2>2. viewers \in Seq(Viewer)
    BY DEF Types
  <2>3. \A i \in DOMAIN viewers' : \E k \in DOMAIN viewers : viewers[k] = viewers'[i]
    <3>1. Takes(viewers', viewers, {v \in ToSet(viewers) : ~Gone(v)}, Viewer)
      BY <2>1, <2>2, OnlyTakes
    <3> QED
      BY <3>1 DEF Takes
  <2> QED
    BY <2>3 DEF Following, IsWatching
<1> SUFFICES ASSUME NEW c \in Conn, Following(c)'
             PROVE  /\ shown'[c] \in Seq(Nat)
                    /\ \A i \in DOMAIN shown'[c] : shown'[c][i] \in DOMAIN said'
                    /\ \A m \in DOMAIN said' : said'[m].kind = "prompt" =>
                          m \in withdrawn' \/ Covered(c, m)' \/ Owed(c, m)'
  BY DEF Seen
<1>5. /\ Following(c) /\ shown[c] \in Seq(Nat) /\ \A i \in DOMAIN shown[c] : shown[c][i] \in DOMAIN said
      /\ \A m \in DOMAIN said : said[m].kind = "prompt" => m \in withdrawn \/ Covered(c, m) \/ Owed(c, m)
  BY <1>4 DEF Seen
<1>6. \A m : Owed(c, m) => Owed(c, m)'
  BY OwedSame
<1>7. shown'[c] = shown[c] \/ shown'[c] = Append(shown[c], Len(said'))
  <2>1. shown[c] # Away /\ Len(said') # 0
    BY <1>2, <1>5, BoundsAssumption
  <2>2. Seeing(c, Len(said')) = Append(shown[c], Len(said'))
    BY <2>1 DEF Seeing
  <2> QED
    BY <1>3, <2>2
<1>8. /\ shown'[c] \in Seq(Nat)
      /\ \A i \in DOMAIN shown'[c] : shown'[c][i] = Len(said') \/ \E k \in DOMAIN shown[c] : shown[c][k] = shown'[c][i]
      /\ \A m : Covered(c, m) => Covered(c, m)'
  <2>1. CASE shown'[c] = shown[c]
    BY <1>5, <2>1 DEF Covered
  <2>2. CASE shown'[c] = Append(shown[c], Len(said'))
    BY <1>2, <1>5, <2>2, CoversMore
  <2> QED
    BY <1>7, <2>1, <2>2
<1>9. \A i \in DOMAIN shown'[c] : shown'[c][i] \in DOMAIN said'
  <2>1. Len(said') \in DOMAIN said' /\ \A n \in DOMAIN said : n \in DOMAIN said'
    BY <1>2
  <2> QED
    BY <1>5, <1>8, <2>1
<1>10. \A m \in DOMAIN said' : said'[m].kind = "prompt" => m \in DOMAIN said /\ said[m].kind = "prompt"
  BY <1>2
<1> QED
  BY <1>5, <1>6, <1>8, <1>9, <1>10

\* Nobody is shown a later thing over a prompt: it has it, or is being sent it.
LEMMA SeenStep == Types /\ Types' /\ Alone /\ Tasks /\ Watch /\ Bound /\ Recorded /\ Backed /\ Items /\ Seen /\ Next => Seen'
<1> SUFFICES ASSUME Types /\ Types' /\ Alone /\ Tasks /\ Watch /\ Bound /\ Recorded /\ Backed /\ Items /\ Seen, Next PROVE Seen'
  OBVIOUS
<1>1. ASSUME NEW x \in Actor, Reach(x) \/ Granted(x) \/ GaveUp(x)
      PROVE  Seen'
  <2>1. UNCHANGED <<said, withdrawn, viewers, watching>> /\ \A c \in Conn : Following(c)' <=> Following(c)
    BY <1>1, Delivery DEF Waits, Passes, Misses, Hands, Moves, Stays, session, Following, IsWatching
  <2>2. CASE Waits
    <3>1. UNCHANGED <<cast, shown>>
      BY <2>2 DEF Waits
    <3> QED
      BY <2>1, <3>1, OwedSame, SeenLess
  <2>3. ASSUME NEW late, Moves(x, late), cast[x].late \subseteq late,
               NEW c \in Conn, NEW m, Owed(c, m),
               watching[c] = Receiver(x).id => cast[x].what # "prompt" \/ watching[c] \in late
        PROVE  Owed(c, m)'
    <3>1. PICK y \in Conn : cast[y].what = "prompt" /\ cast[y].item = m /\ ToReach(y, c)
      BY <2>3 DEF Owed
    <3>2. y \in Actor
      BY Apart
    <3>3. CASE y # x
      <4>1. cast'[y] = cast[y]
        BY <2>3, <3>2, <3>3, MovesLeft
      <4> QED
        BY <2>1, <3>1, <4>1 DEF Owed, ToReach
    <3>4. CASE y = x
      <4>1. cast'[x].what = "prompt" /\ cast'[x].item = m /\ cast'[x].late = late
        BY <2>3, <3>1, <3>4, MovesLeft
      <4>2. CASE watching[c] \in late
        BY <2>1, <3>1, <3>4, <4>1, <4>2 DEF Owed, ToReach
      <4>3. CASE watching[c] \notin late
        <5>1. PICK k \in DOMAIN cast[x].left : cast[x].left[k].id = watching[c]
          BY <2>3, <3>1, <3>4, <4>3 DEF ToReach
        <5>2. \E i \in DOMAIN cast'[x].left : cast'[x].left[i] = cast[x].left[k]
          BY <2>3, <3>1, <3>4, <4>3, <5>1, MovesLeft
        <5> QED
          BY <2>1, <3>1, <3>4, <4>1, <5>1, <5>2 DEF Owed, ToReach
      <4> QED
        BY <4>2, <4>3
    <3> QED
      BY <3>3, <3>4
  <2>4. CASE Passes(x)
    <3>1. \A c \in Conn : Following(c) => watching[c] # Receiver(x).id
      BY <2>4 DEF Passes, Addressed, Following
    <3>2. \A c \in Conn : Following(c)' => \A m : Owed(c, m) => Owed(c, m)'
      BY <2>1, <2>3, <2>4, <3>1 DEF Passes
    <3> QED
      BY <2>1, <2>4, <3>2, SeenLess DEF Passes
  <2>5. CASE Misses(x)
    <3>1. \A c \in Conn : Following(c)' => \A m : Owed(c, m) => Owed(c, m)'
      BY <2>1, <2>3, <2>5 DEF Misses
    <3> QED
      BY <2>1, <2>5, <3>1, SeenLess DEF Misses
  <2>6. CASE Hands(x)
    <3>1. /\ Moves(x, cast[x].late) /\ Addressed(x) /\ cast[x].left # <<>>
          /\ shown' = [shown EXCEPT ![Receiver(x).conn] = Seeing(Receiver(x).conn, cast[x].item)]
      BY <2>6 DEF Hands, Moves
    <3>2. CASE cast[x].what # "prompt"
      <4>1. cast[x].item = 0
        BY <3>2 DEF Items
      <4>2. shown' = shown
        BY <3>1, <4>1 DEF Seeing, Types
      <4>3. \A c \in Conn : Following(c)' => \A m : Owed(c, m) => Owed(c, m)'
        BY <2>3, <3>1, <3>2
      <4> QED
        BY <2>1, <4>2, <4>3, SeenLess
    <3>3. CASE cast[x].what = "prompt"
      <4>1. cast[x].item = Len(said) /\ Len(said) # 0 /\ Len(said) \in DOMAIN said /\ Len(said) \in Nat
        BY <3>3 DEF Items, Types
      <4>2. Following(Receiver(x).conn) /\ watching[Receiver(x).conn] = Receiver(x).id /\ Receiver(x).conn \in Conn
        BY <3>1, ReceiverFollows, ReceiverTyped
      <4>3. ASSUME NEW c \in Conn, Following(c)', c # Receiver(x).conn
            PROVE  Following(c) /\ shown'[c] = shown[c] /\ \A m : Owed(c, m) => Owed(c, m)'
        <5>1. Following(c) /\ shown'[c] = shown[c]
          BY <2>1, <3>1, <4>3 DEF Types
        <5>2. watching[c] # Receiver(x).id
          BY <4>2, <4>3, <5>1 DEF Watch, Following
        <5> QED
          BY <2>3, <3>1, <5>1, <5>2
      <4>4. ASSUME NEW c \in Conn, c = Receiver(x).conn
            PROVE  /\ shown[c] \in Seq(Nat) /\ shown'[c] = Append(shown[c], Len(said))
                   /\ \A m : Owed(c, m) => m = Len(said)
        <5>1. shown[c] \in Seq(Nat)
          BY <4>2, <4>4 DEF Seen
        <5>2. shown'[c] = Seeing(c, cast[x].item)
          BY <3>1, <4>4 DEF Types
        <5>3. shown'[c] = Append(shown[c], Len(said))
          BY <4>1, <5>1, <5>2, SeeingTyped
        <5>4. \A m : Owed(c, m) => m = Len(said)
          BY Apart DEF Owed, Items
        <5> QED
          BY <5>1, <5>3, <5>4
      <4> SUFFICES ASSUME NEW c \in Conn, Following(c)'
                   PROVE  /\ shown'[c] \in Seq(Nat)
                          /\ \A i \in DOMAIN shown'[c] : shown'[c][i] \in DOMAIN said'
                          /\ \A m \in DOMAIN said' : said'[m].kind = "prompt" =>
                                m \in withdrawn' \/ Covered(c, m)' \/ Owed(c, m)'
        BY DEF Seen
      <4>5. /\ Following(c) /\ shown[c] \in Seq(Nat) /\ \A i \in DOMAIN shown[c] : shown[c][i] \in DOMAIN said
            /\ \A m \in DOMAIN said : said[m].kind = "prompt" => m \in withdrawn \/ Covered(c, m) \/ Owed(c, m)
        BY <2>1 DEF Seen
      <4>6. CASE c # Receiver(x).conn
        BY <2>1, <4>3, <4>5, <4>6 DEF Covered
      <4>7. CASE c = Receiver(x).conn
        <5>1. /\ shown'[c] \in Seq(Nat)
              /\ \A i \in DOMAIN shown'[c] : shown'[c][i] = Len(said) \/ \E k \in DOMAIN shown[c] : shown[c][k] = shown'[c][i]
              /\ \A m : Covered(c, m) => Covered(c, m)'
              /\ Covered(c, Len(said))'
          <6>1. shown'[c] = Append(shown[c], Len(said))
            BY <4>4, <4>7
          <6>2. ASSUME NEW n, n = Len(said), n \in Nat
                PROVE  /\ shown'[c] \in Seq(Nat)
                       /\ \A i \in DOMAIN shown'[c] : shown'[c][i] = n \/ \E k \in DOMAIN shown[c] : shown[c][k] = shown'[c][i]
                       /\ \A m : Covered(c, m) => Covered(c, m)'
                       /\ Covered(c, n)'
            BY <4>5, <6>1, <6>2, CoversMore
          <6>3. \A n : n = Len(said) => Covered(c, n)'
            BY <4>1, <6>2
          <6>4. Covered(c, Len(said))'
            BY <2>1, <6>3 DEF Covered
          <6> QED
            BY <4>1, <6>2, <6>4
        <5>2. \A i \in DOMAIN shown'[c] : shown'[c][i] \in DOMAIN said'
          BY <2>1, <4>1, <4>5, <5>1
        <5>3. \A m \in DOMAIN said' : said'[m].kind = "prompt" => m \in withdrawn' \/ Covered(c, m)'
          <6> SUFFICES ASSUME NEW m \in DOMAIN said', said'[m].kind = "prompt", m \notin withdrawn'
                       PROVE  Covered(c, m)'
            OBVIOUS
          <6>1. Covered(c, m) \/ Owed(c, m)
            BY <2>1, <4>5
          <6>2. CASE Owed(c, m)
            <7>1. m = Len(said)
              BY <4>4, <4>7, <6>2
            <7> QED
              BY <2>1, <5>1, <7>1 DEF Covered
          <6> QED
            BY <5>1, <6>1, <6>2
        <5> QED
          BY <5>1, <5>2, <5>3
      <4> QED
        BY <4>6, <4>7
    <3> QED
      BY <3>2, <3>3
  <2> QED
    BY <1>1, <2>2, <2>4, <2>5, <2>6, Delivery
<1>2. ASSUME NEW x \in Actor, Reached(x)
      PROVE  Seen'
  <2>1. /\ said' = said /\ withdrawn' = withdrawn /\ watching' = watching /\ shown' = shown
        /\ cast[x].left = <<>> /\ viewers' = Only(viewers, {v \in ToSet(viewers) : v.id \notin cast[x].late})
    BY <1>2 DEF Reached, queues
  <2>2. ASSUME NEW c \in Conn, Following(c)'
        PROVE  Following(c) /\ watching[c] \notin cast[x].late
    <3>1. PICK i \in DOMAIN viewers' : viewers'[i].id = watching[c] /\ watching[c] # 0
      BY <2>1, <2>2 DEF Following, IsWatching
    <3>2. /\ viewers'[i] \in {v \in ToSet(viewers) : v.id \notin cast[x].late}
          /\ \E k \in DOMAIN viewers : viewers[k] = viewers'[i]
      <4>1. PICK S : S = {v \in ToSet(viewers) : v.id \notin cast[x].late}
        OBVIOUS
      <4>2. viewers' = Only(viewers, S) /\ viewers \in Seq(Viewer) /\ Distinct(viewers)
        BY <2>1, <4>1 DEF Types, Watch
      <4>3. viewers'[i] \in S /\ \E k \in DOMAIN viewers : viewers[k] = viewers'[i]
        BY <3>1, <4>2, OnlyAmong DEF Among
      <4> QED
        BY <4>1, <4>3
    <3> QED
      BY <3>1, <3>2 DEF Following, IsWatching
  <2>3. \A y \in Actor : y # x => cast'[y] = cast[y]
    <3>1. cast' = [cast EXCEPT ![x] = Nobody] \/ Sending(x, "goal", 0, viewers')
      BY <1>2 DEF Reached
    <3> QED
      BY <3>1, Rests, Starts
  <2>4. ASSUME NEW c \in Conn, Following(c)', NEW m, Owed(c, m)
        PROVE  Owed(c, m)'
    <3>1. PICK y \in Conn : cast[y].what = "prompt" /\ cast[y].item = m /\ ToReach(y, c)
      BY <2>4 DEF Owed
    <3>2. y # x
      BY <2>1, <2>2, <2>4, <3>1 DEF ToReach
    <3>3. cast'[y] = cast[y]
      BY <2>3, <3>2, Apart
    <3> QED
      BY <2>1, <3>1, <3>3 DEF Owed, ToReach
  <2> QED
    BY <2>1, <2>2, <2>4, SeenLess
<1>3. ASSUME NEW t \in Turn,
             Admit(t) \/ Stopped(t) \/ Intent(t) \/ Decided(t) \/ StreamFails(t)
      PROVE  Seen'
  <2>1. UNCHANGED <<said, watching, cast, shown, viewers>> /\ withdrawn \subseteq withdrawn'
    BY <1>3 DEF Admit, Stopped, Intent, Decided, StreamFails, Kept, Silent, queues
  <2>2. \A c \in Conn : Following(c)' => Following(c)
    BY <2>1 DEF Following, IsWatching
  <2> QED
    BY <2>1, <2>2, OwedSame, SeenLess
<1>4. ASSUME NEW c \in Conn,
             GoalRefused(c) \/ Interrupt(c) \/ Answer(c) \/ GoalReserve(c) \/ HangUp(c)
      PROVE  Seen'
  <2>1. UNCHANGED <<said, watching, cast, shown, viewers>> /\ withdrawn \subseteq withdrawn'
    BY <1>4 DEF GoalRefused, Interrupt, Answer, GoalReserve, HangUp, NoNews, Turning, queues, session
  <2>2. \A d \in Conn : Following(d)' => Following(d)
    BY <2>1 DEF Following, IsWatching
  <2> QED
    BY <2>1, <2>2, OwedSame, SeenLess
<1>5. ASSUME NEW t \in Turn, StepStart(t) \/ Produce(t)
      PROVE  Seen'
  <2>1. Say("progress") /\ UNCHANGED <<watching, cast, withdrawn>>
    BY <1>5 DEF StepStart, Produce, Kept
  <2>2. at' \in [turn : Nat, step : Nat, produced : BOOLEAN]
    BY DEF Types
  <2> QED
    BY <2>1, <2>2, SeenSaid
<1>6. ASSUME NEW t \in Turn, Settle(t)
      PROVE  Seen'
  <2>1. UNCHANGED <<watching, cast, withdrawn>>
    BY <1>6 DEF Settle, Kept
  <2>2. CASE Say("decision")
    <3>1. at' \in [turn : Nat, step : Nat, produced : BOOLEAN]
      BY DEF Types
    <3> QED
      BY <2>1, <2>2, <3>1, SeenSaid
  <2>3. CASE Silent
    <3>1. UNCHANGED <<said, watching, cast, shown, viewers>> /\ withdrawn \subseteq withdrawn'
      BY <2>1, <2>3 DEF Silent, queues
    <3>2. \A c \in Conn : Following(c)' => Following(c)
      BY <3>1 DEF Following, IsWatching
    <3> QED
      BY <3>1, <3>2, OwedSame, SeenLess
  <2> QED
    BY <1>6, <2>2, <2>3 DEF Settle
<1>7. ASSUME NEW t \in Turn, Ask(t) \/ Close(t)
      PROVE  Seen'
  <2>1. /\ UNCHANGED <<said, withdrawn, watching, shown, viewers>>
        /\ \E what : Sending(t, what, 0, viewers)
    BY <1>7 DEF Ask, Close, Kept, queues
  <2>2. \A d \in Conn : Following(d)' => Following(d)
    BY <2>1 DEF Following, IsWatching
  <2>3. \A y \in Conn : cast'[y] = cast[y]
    BY <2>1, Starts, Apart
  <2> QED
    BY <2>1, <2>2, <2>3, OwedSame, SeenLess
<1>8. ASSUME NEW c \in Conn, GoalSaved(c)
      PROVE  Seen'
  <2>1. /\ UNCHANGED <<said, withdrawn, watching, shown, viewers>>
        /\ \E what : Sending(c, what, 0, viewers)
        /\ cast[c].what = "nothing"
    BY <1>8 DEF GoalSaved, queues, Nobody
  <2>2. \A d \in Conn : Following(d)' => Following(d)
    BY <2>1 DEF Following, IsWatching
  <2>3. \A y \in Conn : cast[y].what = "prompt" => cast'[y] = cast[y]
    BY <2>1, Starts, Apart
  <2> QED
    BY <2>1, <2>2, <2>3, OwedSame, SeenLess
<1>9. ASSUME NEW c \in Conn, HungUp(c)
      PROVE  Seen'
  <2>1. Leave(c) /\ UNCHANGED <<said, cast, withdrawn>>
    BY <1>9 DEF HungUp, NoNews, Turning
  <2>2. \A d \in Conn : Following(d)' => Following(d) /\ watching'[d] = watching[d] /\ shown'[d] = shown[d]
    BY <2>1, FollowLeave
  <2> QED
    BY <2>1, <2>2, OwedSame, SeenLess
<1>10. ASSUME NEW c \in Conn, NEW there \in {"here", "elsewhere"}, Release(c, there)
      PROVE  Seen'
  <2>1. Leave(c) /\ UNCHANGED <<said, cast, withdrawn>>
    BY <1>10 DEF Release, NoNews, Turning
  <2>2. \A d \in Conn : Following(d)' => Following(d) /\ watching'[d] = watching[d] /\ shown'[d] = shown[d]
    BY <2>1, FollowLeave
  <2> QED
    BY <2>1, <2>2, OwedSame, SeenLess
<1>11. ASSUME NEW c \in Conn, Attach(c)
      PROVE  Seen'
  <2>1. UNCHANGED <<said, cast, withdrawn>>
    BY <1>11 DEF Attach, NoNews, Turning
  <2> SUFFICES ASSUME NEW d \in Conn, Following(d)'
               PROVE  /\ shown'[d] \in Seq(Nat)
                      /\ \A i \in DOMAIN shown'[d] : shown'[d][i] \in DOMAIN said'
                      /\ \A m \in DOMAIN said' : said'[m].kind = "prompt" =>
                            m \in withdrawn' \/ Covered(d, m)' \/ Owed(d, m)'
    BY DEF Seen
  <2>2. CASE Following(d) /\ watching'[d] = watching[d] /\ shown'[d] = shown[d]
    <3>1. /\ \A m : Owed(d, m) => Owed(d, m)'
          /\ \A m : Covered(d, m) => Covered(d, m)'
      BY <2>1, <2>2, OwedSame DEF Covered
    <3> QED
      BY <2>1, <2>2, <3>1 DEF Seen
  <2>3. CASE shown'[d] = CatchUp
    <3>1. /\ shown'[d] \in Seq(Nat)
          /\ \A i \in DOMAIN shown'[d] : shown'[d][i] \in DOMAIN said
          /\ \A n \in DOMAIN said \ withdrawn : \E i \in DOMAIN shown'[d] : shown'[d][i] = n
      BY <2>3, CatchesUp
    <3>2. \A m \in DOMAIN said : m <= m
      BY DEF Types
    <3>3. \A m \in DOMAIN said : m \in withdrawn \/ Covered(d, m)'
      BY <3>1, <3>2 DEF Covered
    <3> QED
      BY <2>1, <3>1, <3>3
  <2> QED
    BY <1>11, <2>2, <2>3, FollowAttach
<1>12. ASSUME NEW c \in Conn, Prompt(c)
      PROVE  Seen'
  <2>1. /\ ~busy /\ UNCHANGED <<viewers, watching, withdrawn>> /\ watching[c] # 0 /\ Following(c)
        /\ Sending(c, "prompt", Len(said'), Others(c))
        /\ shown' = [shown EXCEPT ![c] = Seeing(c, Len(said'))]
    BY <1>12 DEF Prompt, Turning, Heard
  <2>2. /\ cast'[c].what = "prompt" /\ cast'[c].item = Len(said') /\ cast'[c].left = Others(c)
    BY <2>1, Starts, Apart
  <2>3. PICK f \in Frame : said' = Append(said, f) /\ f.kind = "prompt"
    <3>1. PICK f : f = [turn |-> at'.turn, step |-> 0, kind |-> "prompt"]
      OBVIOUS
    <3>2. said' = Append(said, f)
      BY <1>12, <3>1 DEF Prompt
    <3>3. f \in Frame
      <4>1. at' = [turn |-> at.turn + 1, step |-> 0, produced |-> TRUE]
        BY <1>12 DEF Prompt
      <4>2. at'.turn \in Nat
        BY <4>1 DEF Types
      <4> QED
        BY <3>1, <4>2 DEF Frame
    <3> QED
      BY <3>1, <3>2, <3>3
  <2>4. /\ DOMAIN said = 1..Len(said) /\ DOMAIN said' = 1..(Len(said) + 1) /\ Len(said) \in Nat
        /\ Len(said') = Len(said) + 1 /\ Len(said') \in Nat /\ \A n \in DOMAIN said : said'[n] = said[n]
    BY <2>3, Appended
  <2>5. \A n \in DOMAIN said' : n \in DOMAIN said \/ n = Len(said')
    BY <2>4
  <2> SUFFICES ASSUME NEW d \in Conn, Following(d)'
               PROVE  /\ shown'[d] \in Seq(Nat)
                      /\ \A i \in DOMAIN shown'[d] : shown'[d][i] \in DOMAIN said'
                      /\ \A m \in DOMAIN said' : said'[m].kind = "prompt" =>
                            m \in withdrawn' \/ Covered(d, m)' \/ Owed(d, m)'
    BY DEF Seen
  <2>6. Following(d) /\ watching'[d] = watching[d]
    BY <2>1 DEF Following, IsWatching
  <2>7. \A m : ~Owed(d, m)
    BY <2>1, PromptAlone, Apart DEF Owed
  <2>8. /\ shown[d] \in Seq(Nat) /\ \A i \in DOMAIN shown[d] : shown[d][i] \in DOMAIN said
        /\ \A m \in DOMAIN said : said[m].kind = "prompt" => m \in withdrawn \/ Covered(d, m)
    BY <2>6, <2>7 DEF Seen
  <2>9. CASE d = c
    <3>1. shown'[c] = Append(shown[c], Len(said'))
      <4>1. shown'[c] = Seeing(c, Len(said'))
        BY <2>1 DEF Types
      <4> QED
        <5>1. shown[c] # Away /\ Len(said') # 0
          BY <2>4, <2>8, <2>9, BoundsAssumption
        <5> QED
          BY <4>1, <5>1 DEF Seeing
    <3>2. /\ shown'[c] \in Seq(Nat)
          /\ \A i \in DOMAIN shown'[c] : shown'[c][i] = Len(said') \/ \E k \in DOMAIN shown[c] : shown[c][k] = shown'[c][i]
          /\ \A m : Covered(c, m) => Covered(c, m)'
          /\ \A n : n = Len(said') => Covered(c, n)'
      <4>1. ASSUME NEW n, n = Len(said'), n \in Nat
            PROVE  /\ shown'[c] \in Seq(Nat)
                   /\ \A i \in DOMAIN shown'[c] : shown'[c][i] = n \/ \E k \in DOMAIN shown[c] : shown[c][k] = shown'[c][i]
                   /\ \A m : Covered(c, m) => Covered(c, m)'
                   /\ Covered(c, n)'
        BY <2>8, <2>9, <3>1, <4>1, CoversMore
      <4> QED
        BY <2>4, <4>1
    <3>3. \A i \in DOMAIN shown'[c] : shown'[c][i] \in DOMAIN said'
      BY SMTT(30), <2>4, <2>8, <2>9, <3>2
    <3>4. \A m \in DOMAIN said' : said'[m].kind = "prompt" => m \in withdrawn' \/ Covered(c, m)'
      BY <2>1, <2>4, <2>5, <2>8, <2>9, <3>2
    <3> QED
      BY <2>9, <3>2, <3>3, <3>4
  <2>10. CASE d # c
    <3>1. shown'[d] = shown[d]
      BY <2>1, <2>10 DEF Types
    <3>2. \A m : Covered(d, m) => Covered(d, m)'
      BY <3>1 DEF Covered
    <3>3. ToReach(c, d)'
      <4>1. PICK i \in DOMAIN viewers : viewers[i].id = watching[d] /\ viewers[i].conn = d
        BY <2>6, FollowerEntry
      <4>2. viewers[i] \in ToSet(viewers) \ {[id |-> watching[c], conn |-> c]}
        <5>1. viewers[i] # [id |-> watching[c], conn |-> c]
          BY <2>10, <4>1
        <5> QED
          BY <5>1 DEF ToSet
      <4>3. \E j \in DOMAIN Others(c) : Others(c)[j] = viewers[i]
        <5>1. PICK S : S = ToSet(viewers) \ {[id |-> watching[c], conn |-> c]}
          OBVIOUS
        <5>2. Others(c) = Only(viewers, S) /\ viewers \in Seq(Viewer) /\ Distinct(viewers)
          BY <5>1 DEF Others, Types, Watch
        <5>3. viewers[i] \in S
          BY <4>2, <5>1
        <5> QED
          BY <5>2, <5>3, OnlyAmong
      <4> QED
        BY <2>2, <2>6, <4>1, <4>3 DEF ToReach
    <3>4. \A n : n = Len(said') => Owed(d, n)'
      BY <2>2, <3>3 DEF Owed
    <3>5. \A i \in DOMAIN shown'[d] : shown'[d][i] \in DOMAIN said'
      BY <2>4, <2>8, <3>1
    <3>6. \A m \in DOMAIN said' : said'[m].kind = "prompt" => m \in withdrawn' \/ Covered(d, m)' \/ Owed(d, m)'
      BY <2>1, <2>4, <2>5, <2>8, <3>2, <3>4
    <3> QED
      BY <2>8, <3>1, <3>5, <3>6
  <2> QED
    BY <2>9, <2>10
<1> QED
  BY <1>1, <1>2, <1>3, <1>4, <1>5, <1>6, <1>7, <1>8, <1>9, <1>10, <1>11, <1>12 DEF Next, Turns, Serving, Requested

-----------------------------------------------------------------------------
(* The end of a turn, and who settles a question.                          *)

\* A frame that goes on still reaches whom it was to reach, but for the one it
\* is handed to.
LEMMA ReachesStill ==
    ASSUME Types, Bound, NEW x \in Actor, NEW late, Moves(x, late), cast[x].late \subseteq late,
           NEW y \in Actor, NEW c \in Conn, ToReach(y, c),
           watching[c] = Receiver(x).id => y # x \/ watching[c] \in late
    PROVE  cast'[y].what = cast[y].what /\ ToReach(y, c)'
<1>0. watching' = watching
  BY DEF Moves, Stays
<1>1. CASE y # x
  <2>1. cast'[y] = cast[y]
    BY <1>1, MovesLeft
  <2> QED
    BY <1>0, <2>1 DEF ToReach
<1>2. CASE y = x
  <2>1. cast'[x].what = cast[x].what /\ cast'[x].late = late
    BY <1>2, MovesLeft
  <2>2. CASE watching[c] \in late
    BY <1>0, <1>2, <2>1, <2>2 DEF ToReach
  <2>3. CASE watching[c] \notin late
    <3>1. PICK k \in DOMAIN cast[x].left : cast[x].left[k].id = watching[c]
      BY <1>2, <2>3 DEF ToReach
    <3>2. \E i \in DOMAIN cast'[x].left : cast'[x].left[i] = cast[x].left[k]
      BY <1>2, <2>3, <3>1, MovesLeft
    <3> QED
      BY <1>0, <1>2, <2>1, <3>1, <3>2 DEF ToReach
  <2> QED
    BY <2>2, <2>3
<1> QED
  BY <1>1, <1>2

\* Nobody new believes that a turn runs, and who does is told still.
LEMMA EndsLess ==
    ASSUME Ends, NoTurn' => NoTurn,
           NoTurn' => \A c \in Conn : Following(c)' =>
              drawn'[c] # "turn" \/ (Following(c) /\ drawn'[c] = drawn[c]),
           NoTurn' => \A c \in Conn : Following(c)' /\ drawn'[c] = "turn" =>
              \A t \in Turn : cast[t].what = "ending" /\ ToReach(t, c) => cast'[t].what = "ending" /\ ToReach(t, c)'
    PROVE  Ends'
<1> SUFFICES ASSUME NoTurn', NEW c \in Conn, Following(c)', drawn'[c] = "turn"
             PROVE  \E t \in Turn : cast'[t].what = "ending" /\ ToReach(t, c)'
  BY DEF Ends
<1>1. Following(c) /\ drawn[c] = "turn"
  OBVIOUS
<1>2. PICK t \in Turn : cast[t].what = "ending" /\ ToReach(t, c)
  BY <1>1 DEF Ends
<1>3. cast'[t].what = "ending" /\ ToReach(t, c)'
  BY <1>2
<1> QED
  BY <1>3

\* A turn that is at work is a turn.
LEMMA EndsNot == ASSUME NEW t \in Turn, task'[t] \in Holding PROVE Ends'
  BY DEF Ends, NoTurn

\* So a client that believes a turn runs is told when none does.
LEMMA EndsStep == Types /\ Alone /\ Tasks /\ Watch /\ Bound /\ Ends /\ Next => Ends'
<1> SUFFICES ASSUME Types /\ Alone /\ Tasks /\ Watch /\ Bound /\ Ends, Next PROVE Ends'
  OBVIOUS
<1>1. ASSUME NEW x \in Actor, Reach(x) \/ Granted(x) \/ GaveUp(x)
      PROVE  Ends'
  <2>1. UNCHANGED <<pc, task, viewers, watching>>
    BY <1>1, Delivery DEF Waits, Passes, Misses, Hands, Moves, Stays, session
  <2>2. /\ NoTurn' <=> NoTurn
        /\ \A c \in Conn : Following(c)' <=> Following(c)
    BY <2>1 DEF NoTurn, Prompting, Following, IsWatching
  <2>3. CASE Waits
    <3>1. UNCHANGED <<cast, drawn>>
      BY <2>3 DEF Waits
    <3>2. \A c \in Conn : \A t \in Turn : ToReach(t, c) => ToReach(t, c)'
      BY <2>1, <3>1 DEF ToReach
    <3> QED
      BY <2>2, <3>1, <3>2, EndsLess
  <2>4. CASE Passes(x)
    <3>1. \A c \in Conn : Following(c) => watching[c] # Receiver(x).id
      BY <2>4 DEF Passes, Addressed, Following
    <3>2. \A c \in Conn : Following(c) => \A t \in Turn : ToReach(t, c) => cast'[t].what = cast[t].what /\ ToReach(t, c)'
      BY <2>4, <3>1, ReachesStill, Apart DEF Passes
    <3> QED
      BY <2>2, <2>4, <3>2, EndsLess DEF Passes
  <2>5. CASE Misses(x)
    <3>1. \A c \in Conn : \A t \in Turn : ToReach(t, c) => cast'[t].what = cast[t].what /\ ToReach(t, c)'
      BY <2>5, ReachesStill, Apart DEF Misses
    <3> QED
      BY <2>2, <2>5, <3>1, EndsLess DEF Misses
  <2>6. CASE Hands(x)
    <3>1. /\ Moves(x, cast[x].late) /\ Addressed(x) /\ cast[x].left # <<>>
          /\ drawn' = [drawn EXCEPT ![Receiver(x).conn] = Draws(Receiver(x).conn, cast[x].what)]
      BY <2>6 DEF Hands, Moves
    <3>2. /\ Receiver(x).conn \in Conn /\ Following(Receiver(x).conn)
          /\ watching[Receiver(x).conn] = Receiver(x).id /\ Receiver(x).id # 0
      <4>1. Receiver(x).conn \in Conn /\ Following(Receiver(x).conn) /\ watching[Receiver(x).conn] = Receiver(x).id
        BY <3>1, ReceiverFollows, ReceiverTyped
      <4> QED
        BY <4>1 DEF Following
    <3>3. NoTurn => cast[x].what # "prompt"
      BY PromptAlone DEF NoTurn, Prompting
    <3>4. cast[x].what # "progress"
      BY DEF Types, Sent
    <3>5. \A c \in Conn : c # Receiver(x).conn => drawn'[c] = drawn[c]
      BY <3>1 DEF Types
    <3>6. drawn'[Receiver(x).conn] = Draws(Receiver(x).conn, cast[x].what)
      BY <3>1, <3>2 DEF Types
    <3>7. NoTurn /\ cast[x].what # "ending" => drawn'[Receiver(x).conn] = drawn[Receiver(x).conn]
      BY <3>3, <3>4, <3>6 DEF Draws
    <3>8. cast[x].what = "ending" => drawn'[Receiver(x).conn] = "idle"
      BY <3>6 DEF Draws
    <3>9. \A c \in Conn : c # Receiver(x).conn /\ Following(c) => watching[c] # Receiver(x).id
      BY <3>2 DEF Watch
    <3>10. NoTurn' => \A c \in Conn : Following(c)' =>
              drawn'[c] # "turn" \/ (Following(c) /\ drawn'[c] = drawn[c])
      BY <2>2, <3>5, <3>7, <3>8
    <3>11. ASSUME NEW c \in Conn, Following(c), drawn'[c] = "turn", NEW t \in Turn, cast[t].what = "ending", ToReach(t, c)
           PROVE  cast'[t].what = "ending" /\ ToReach(t, c)'
      <4>1. watching[c] = Receiver(x).id => t # x
        BY <3>8, <3>9, <3>11
      <4> QED
        BY <3>1, <3>11, <4>1, ReachesStill, Apart
    <3> QED
      BY <2>2, <3>10, <3>11, EndsLess
  <2> QED
    BY <1>1, <2>3, <2>4, <2>5, <2>6, Delivery
<1>2. ASSUME NEW x \in Actor, Reached(x)
      PROVE  Ends'
  <2>1. /\ watching' = watching /\ drawn' = drawn
        /\ cast[x].left = <<>> /\ viewers' = Only(viewers, {v \in ToSet(viewers) : v.id \notin cast[x].late})
    BY <1>2 DEF Reached, queues
  <2>2. ASSUME NEW c \in Conn, Following(c)'
        PROVE  Following(c) /\ watching[c] \notin cast[x].late
    <3>1. PICK i \in DOMAIN viewers' : viewers'[i].id = watching[c] /\ watching[c] # 0
      BY <2>1, <2>2 DEF Following, IsWatching
    <3>2. PICK S : S = {v \in ToSet(viewers) : v.id \notin cast[x].late}
      OBVIOUS
    <3>3. viewers' = Only(viewers, S) /\ viewers \in Seq(Viewer) /\ Distinct(viewers)
      BY <2>1, <3>2 DEF Types, Watch
    <3>4. viewers'[i] \in S /\ \E k \in DOMAIN viewers : viewers[k] = viewers'[i]
      BY <3>1, <3>3, OnlyAmong DEF Among
    <3> QED
      BY <3>1, <3>2, <3>4 DEF Following, IsWatching
  <2>3. \A y \in Actor : y # x => cast'[y] = cast[y]
    <3>1. cast' = [cast EXCEPT ![x] = Nobody] \/ Sending(x, "goal", 0, viewers')
      BY <1>2 DEF Reached
    <3> QED
      BY <3>1, Rests, Starts
  <2>4. ASSUME NEW c \in Conn, Following(c)', NEW t \in Turn, cast[t].what = "ending", ToReach(t, c)
        PROVE  cast'[t].what = "ending" /\ ToReach(t, c)'
    <3>1. t # x
      BY <2>1, <2>2, <2>4 DEF ToReach
    <3>2. cast'[t] = cast[t]
      BY <2>3, <3>1, Apart
    <3> QED
      BY <2>1, <2>4, <3>2 DEF ToReach
  <2>5. CASE NoTurn' => NoTurn
    BY <2>1, <2>2, <2>4, <2>5, EndsLess
  <2>6. CASE cast[x].what = "prompt"
    <3>1. at.turn \in Turn /\ task' = [task EXCEPT ![at.turn] = "spawned"]
      BY <1>2, <2>6, PromptAlone DEF Reached, Tasks
    <3>2. task'[at.turn] \in Holding
      BY <3>1 DEF Types, Holding
    <3> QED
      BY <3>1, <3>2 DEF Ends, NoTurn
  <2>7. CASE cast[x].what = "question"
    <3>1. x \in Turn
      BY <2>7 DEF Actor, Tasks
    <3>2. task'[x] \in Holding
      BY <1>2, <2>7, <3>1 DEF Reached, Types, Holding
    <3> QED
      BY <3>1, <3>2, EndsNot
  <2>8. CASE cast[x].what = "ending"
    <3>1. x \in Turn /\ task[x] = "ending" /\ task' = [task EXCEPT ![x] = "done"] /\ pc' = pc
      BY <1>2, <2>8 DEF Reached, Actor, Tasks
    <3>2. NoTurn' => NoTurn
      BY <3>1 DEF NoTurn, Prompting, Holding, Types
    <3> QED
      BY <2>5, <3>2
  <2>9. CASE cast[x].what \in {"goal", "checkpoint"}
    <3>1. x \in Conn /\ pc[x] = "goal"
      BY <2>9 DEF Actor, Tasks
    <3>2. task' = task /\ (pc' = pc \/ pc' = [pc EXCEPT ![x] = "reading"])
      BY <1>2, <2>9 DEF Reached
    <3>3. NoTurn' => NoTurn
      BY <3>1, <3>2 DEF NoTurn, Prompting, Types
    <3> QED
      BY <2>5, <3>3
  <2>10. cast[x].what \in {"prompt", "question", "ending", "goal", "checkpoint"}
    BY <1>2 DEF Reached, Types, Sent
  <2> QED
    BY <2>6, <2>7, <2>8, <2>9, <2>10
<1>3. ASSUME NEW t \in Turn,
             Admit(t) \/ StepStart(t) \/ Stopped(t) \/ Intent(t) \/ Produce(t)
             \/ Decided(t) \/ Settle(t) \/ StreamFails(t)
      PROVE  Ends'
  <2>1. \E there \in {"top", "intent", "stream", "closing", "refused"} : task' = [task EXCEPT ![t] = there]
    BY <1>3, Working DEF Works
  <2>2. task'[t] \in Holding
    BY <2>1 DEF Types, Holding
  <2> QED
    BY <2>2, EndsNot
<1>4. ASSUME NEW t \in Turn, Ask(t)
      PROVE  Ends'
  <2>1. task'[t] \in Holding
    BY <1>4 DEF Ask, Goes, Types, Holding
  <2> QED
    BY <2>1, EndsNot
<1>5. ASSUME NEW t \in Turn, Close(t)
      PROVE  Ends'
  <2>1. Sending(t, "ending", 0, viewers) /\ UNCHANGED <<viewers, watching>>
    BY <1>5 DEF Close
  <2>2. cast'[t].what = "ending" /\ cast'[t].left = viewers
    BY <2>1, Starts, Apart
  <2>3. ASSUME NEW c \in Conn, Following(c)' PROVE ToReach(t, c)'
    <3>1. Following(c)
      BY <2>1, <2>3 DEF Following, IsWatching
    <3>2. \E i \in DOMAIN viewers : viewers[i].id = watching[c]
      BY <3>1, FollowerEntry
    <3> QED
      BY <2>1, <2>2, <3>2 DEF ToReach
  <2> QED
    BY <2>2, <2>3 DEF Ends
<1>6. ASSUME NEW c \in Conn, GoalSaved(c)
      PROVE  Ends'
  <2>1. /\ UNCHANGED <<pc, task, viewers, watching, drawn>>
        /\ \E what : Sending(c, what, 0, viewers)
    BY <1>6 DEF GoalSaved, queues
  <2>2. /\ NoTurn' => NoTurn
        /\ \A d \in Conn : Following(d)' => Following(d)
    BY <2>1 DEF NoTurn, Prompting, Following, IsWatching
  <2>3. \A t \in Turn : cast'[t] = cast[t]
    BY <2>1, Starts, Apart
  <2>4. \A d \in Conn : \A t \in Turn : ToReach(t, d) => ToReach(t, d)'
    BY <2>1, <2>3 DEF ToReach
  <2> QED
    BY <2>1, <2>2, <2>3, <2>4, EndsLess
<1>7. ASSUME NEW c \in Conn,
             GoalRefused(c) \/ Interrupt(c) \/ Answer(c) \/ GoalReserve(c) \/ HangUp(c)
      PROVE  Ends'
  <2>1. UNCHANGED <<task, viewers, watching, cast, drawn>>
    BY <1>7 DEF GoalRefused, Interrupt, Answer, GoalReserve, HangUp, queues
  <2>2. \A d \in Conn : pc[d] = "prompting" => pc'[d] = "prompting"
    BY <1>7 DEF GoalRefused, Interrupt, Answer, GoalReserve, HangUp, Heard, Types
  <2>3. /\ NoTurn' => NoTurn
        /\ \A d \in Conn : Following(d)' => Following(d)
    BY <2>1, <2>2 DEF NoTurn, Prompting, Following, IsWatching
  <2>4. \A d \in Conn : \A t \in Turn : ToReach(t, d) => ToReach(t, d)'
    BY <2>1 DEF ToReach
  <2> QED
    BY <2>1, <2>3, <2>4, EndsLess
<1>8. ASSUME NEW c \in Conn, HungUp(c)
      PROVE  Ends'
  <2>1. Leave(c) /\ UNCHANGED <<task, cast>> /\ \A d \in Conn : pc[d] = "prompting" => pc'[d] = "prompting"
    BY <1>8 DEF HungUp, Heard, Types
  <2>2. \A d \in Conn : Following(d)' => Following(d) /\ watching'[d] = watching[d] /\ drawn'[d] = drawn[d]
    BY <2>1, FollowLeave
  <2>3. NoTurn' => NoTurn
    BY <2>1 DEF NoTurn, Prompting
  <2>4. \A d \in Conn : Following(d)' => \A t \in Turn : ToReach(t, d) => ToReach(t, d)'
    BY <2>1, <2>2 DEF ToReach
  <2> QED
    BY <2>1, <2>2, <2>3, <2>4, EndsLess
<1>9. ASSUME NEW c \in Conn, NEW there \in {"here", "elsewhere"}, Release(c, there)
      PROVE  Ends'
  <2>1. Leave(c) /\ UNCHANGED <<task, cast>> /\ \A d \in Conn : pc[d] = "prompting" => pc'[d] = "prompting"
    BY <1>9 DEF Release, Heard, Types
  <2>2. \A d \in Conn : Following(d)' => Following(d) /\ watching'[d] = watching[d] /\ drawn'[d] = drawn[d]
    BY <2>1, FollowLeave
  <2>3. NoTurn' => NoTurn
    BY <2>1 DEF NoTurn, Prompting
  <2>4. \A d \in Conn : Following(d)' => \A t \in Turn : ToReach(t, d) => ToReach(t, d)'
    BY <2>1, <2>2 DEF ToReach
  <2> QED
    BY <2>1, <2>2, <2>3, <2>4, EndsLess
<1>10. ASSUME NEW c \in Conn, Attach(c)
      PROVE  Ends'
  <2>1. UNCHANGED <<task, cast>>
    BY <1>10 DEF Attach
  <2>2. \A d \in Conn : pc[d] = "prompting" => pc'[d] = "prompting"
    BY ZenonT(30), <1>10, Attaching DEF Types
  <2>3. NoTurn' => NoTurn
    BY <2>1, <2>2 DEF NoTurn, Prompting
  <2>4. NoTurn /\ busy => \E d \in Conn : pc[d] = "goal"
    BY UsersAre DEF NoTurn, Prompting, Alone
  <2>5. \A d \in Conn : Following(d)' =>
           \/ Following(d) /\ watching'[d] = watching[d] /\ drawn'[d] = drawn[d]
           \/ NoTurn => drawn'[d] # "turn"
    BY <1>10, <2>4, FollowAttach
  <2> SUFFICES ASSUME NoTurn', NEW d \in Conn, Following(d)', drawn'[d] = "turn"
               PROVE  \E t \in Turn : cast'[t].what = "ending" /\ ToReach(t, d)'
    BY DEF Ends
  <2>6. Following(d) /\ watching'[d] = watching[d] /\ drawn[d] = "turn" /\ NoTurn
    BY <2>3, <2>5
  <2>7. PICK t \in Turn : cast[t].what = "ending" /\ ToReach(t, d)
    BY <2>6 DEF Ends
  <2>8. cast'[t].what = "ending" /\ ToReach(t, d)'
    BY <2>1, <2>6, <2>7 DEF ToReach
  <2> QED
    BY <2>8
<1>11. ASSUME NEW c \in Conn, Prompt(c)
      PROVE  Ends'
  <2>1. pc'[c] = "prompting"
    BY <1>11 DEF Prompt, Types
  <2> QED
    BY <2>1 DEF Ends, NoTurn, Prompting
<1> QED
  BY <1>1, <1>2, <1>3, <1>4, <1>5, <1>6, <1>7, <1>8, <1>9, <1>10, <1>11 DEF Next, Turns, Serving, Requested

\* The question is settled already, or somebody may still settle it.
LEMMA AskedLess ==
    ASSUME AskedIsAttended, watching' = watching, question' => question,
           \A t \in Turn : task'[t] = "waiting" => task[t] = "waiting"
    PROVE  AskedIsAttended'
  BY DEF AskedIsAttended

\* A question somebody views is attended.
LEMMA AskedViewed ==
    ASSUME Types', Watch', viewers' # <<>>
    PROVE  AskedIsAttended'
<1>1. viewers' \in Seq(Viewer)
  BY DEF Types
<1>2. 1 \in DOMAIN viewers'
  BY <1>1
<1>3. viewers'[1].conn \in Conn
  BY <1>1, <1>2, EntryTyped
<1>4. watching'[viewers'[1].conn] # 0
  BY <1>2 DEF Watch
<1> QED
  BY <1>3, <1>4 DEF AskedIsAttended

\* No question needs nobody.
LEMMA AskedSettled == ASSUME ~question' PROVE AskedIsAttended'
  BY DEF AskedIsAttended

\* A turn that waits for an answer waits for somebody.
LEMMA AskedStep == Types /\ Types' /\ Alone /\ Tasks /\ Watch' /\ AskedIsAttended /\ Next => AskedIsAttended'
<1> SUFFICES ASSUME Types /\ Types' /\ Alone /\ Tasks /\ Watch' /\ AskedIsAttended, Next PROVE AskedIsAttended'
  OBVIOUS
<1>1. ASSUME NEW x \in Actor, Reach(x) \/ Granted(x) \/ GaveUp(x)
      PROVE  AskedIsAttended'
  <2>1. watching' = watching /\ question' = question /\ task' = task
    BY <1>1, Delivery DEF Waits, Passes, Misses, Hands, Moves, Stays, session
  <2> QED
    BY <2>1, AskedLess
<1>2. ASSUME NEW x \in Actor, Reached(x)
      PROVE  AskedIsAttended'
  <2>1. CASE cast[x].what = "question"
    <3>1. question' = (question /\ viewers' # <<>>)
      BY <1>2, <2>1 DEF Reached
    <3> QED
      BY <3>1, AskedViewed, AskedSettled
  <2>2. CASE cast[x].what # "question"
    <3>1. /\ watching' = watching /\ question' = question
          /\ \/ task' = task
             \/ \E u : task' = [task EXCEPT ![u] = "spawned"]
             \/ \E u : task' = [task EXCEPT ![u] = "done"]
      BY <1>2, <2>2 DEF Reached
    <3>2. \A t \in Turn : task'[t] = "waiting" => task[t] = "waiting"
      BY <3>1 DEF Types
    <3> QED
      BY <3>1, <3>2, AskedLess
  <2> QED
    BY <2>1, <2>2
<1>3. ASSUME NEW t \in Turn,
             Admit(t) \/ StepStart(t) \/ Stopped(t) \/ Intent(t) \/ Produce(t)
             \/ Decided(t) \/ Settle(t) \/ StreamFails(t)
      PROVE  AskedIsAttended'
  <2>1. \E there \in {"top", "intent", "stream", "closing", "refused"} : task' = [task EXCEPT ![t] = there]
    BY <1>3, Working DEF Works
  <2>2. watching' = watching /\ question' = question
    BY <1>3, Working DEF Works
  <2>3. \A u \in Turn : task'[u] = "waiting" => task[u] = "waiting"
    BY <2>1 DEF Types
  <2> QED
    BY <2>2, <2>3, AskedLess
<1>4. ASSUME NEW t \in Turn, Ask(t)
      PROVE  AskedIsAttended'
  <2>1. task[t] \in Holding /\ task'[t] = "asking" /\ \A u \in Turn : u # t => task'[u] = task[u]
    BY <1>4 DEF Ask, Goes, Types, Holding
  <2>2. \A u \in Turn : task'[u] # "waiting"
    BY <2>1, TurnAlone DEF Holding
  <2> QED
    BY <2>2 DEF AskedIsAttended
<1>5. ASSUME NEW t \in Turn, Close(t)
      PROVE  AskedIsAttended'
  <2>1. ~question'
    BY <1>5 DEF Close
  <2> QED
    BY <2>1, AskedSettled
<1>6. ASSUME NEW c \in Conn, GoalSaved(c) \/ GoalRefused(c) \/ GoalReserve(c) \/ HangUp(c)
      PROVE  AskedIsAttended'
  <2>1. watching' = watching /\ question' = question /\ task' = task
    BY <1>6 DEF GoalSaved, GoalRefused, GoalReserve, HangUp, session
  <2> QED
    BY <2>1, AskedLess
<1>7. ASSUME NEW c \in Conn, Interrupt(c) \/ Answer(c)
      PROVE  AskedIsAttended'
  <2>1. ~question'
    BY <1>7 DEF Interrupt, Answer
  <2> QED
    BY <2>1, AskedSettled
<1>8. ASSUME NEW c \in Conn, Prompt(c)
      PROVE  AskedIsAttended'
  <2>1. watching' = watching /\ question' = question /\ task' = task
    BY <1>8 DEF Prompt
  <2> QED
    BY <2>1, AskedLess
<1>9. ASSUME NEW c \in Conn, HungUp(c)
      PROVE  AskedIsAttended'
  <2>1. question' = (question /\ viewers' # <<>>)
    BY <1>9 DEF HungUp, Leave
  <2> QED
    BY <2>1, AskedViewed, AskedSettled
<1>10. ASSUME NEW c \in Conn, NEW there \in {"here", "elsewhere"}, Release(c, there)
      PROVE  AskedIsAttended'
  <2>1. question' = (question /\ viewers' # <<>>)
    BY <1>10 DEF Release, Leave
  <2> QED
    BY <2>1, AskedViewed, AskedSettled
<1>11. ASSUME NEW c \in Conn, Attach(c)
      PROVE  AskedIsAttended'
  <2>1. CASE viewers' # <<>>
    BY <2>1, AskedViewed
  <2>2. CASE viewers' = <<>>
    <3>1. \A v : viewers' # Append(viewers, v)
      <4>1. Len(viewers) \in Nat /\ Len(viewers') = 0 /\ \A v : Len(Append(viewers, v)) = Len(viewers) + 1
        BY <2>2 DEF Types
      <4> QED
        BY <4>1
    <3>2. question' = (question /\ viewers # <<>>) /\ viewers' = viewers
      BY <1>11, <3>1 DEF Attach
    <3>3. ~question'
      BY <2>2, <3>2
    <3> QED
      BY <3>3, AskedSettled
  <2> QED
    BY <2>1, <2>2
<1> QED
  BY <1>1, <1>2, <1>3, <1>4, <1>5, <1>6, <1>7, <1>8, <1>9, <1>10, <1>11 DEF Next, Turns, Serving, Requested

-----------------------------------------------------------------------------
(* The invariant.                                                          *)

\* The invariant holds of a session that was just opened,
LEMMA InitInv == Init => IInv
<1> SUFFICES ASSUME Init PROVE IInv
  OBVIOUS
<1>1. <<>> \in Seq(Viewer) /\ <<>> \in Seq(Frame) /\ <<>> \in Seq(Nat)
  BY EmptySeq
<1>2. \A x \in Actor : cast[x] = Nobody
  BY DEF Init
<1>3. \A x \in Actor : cast[x].what = "nothing" /\ cast[x].item = 0 /\ cast[x].left = <<>> /\ cast[x].late = {}
  BY <1>2 DEF Nobody
<1>4. Types
  <2>1. Nobody \in Sent
    BY <1>1 DEF Nobody, Sent
  <2>2. body \in {"legacy", "managed"}
    BY BoundsAssumption DEF Init
  <2>3. /\ cast \in [Actor -> Sent]
        /\ shown \in [Conn -> Seq(Nat) \cup {Away}]
        /\ drawn \in [Conn -> {"idle", "turn", "reserved"}]
    BY <2>1 DEF Init
  <2>4. /\ pc \in [Conn -> {"reading", "opening", "prompting", "goal", "gone"}]
        /\ task \in [Turn -> Holding \cup {"none", "ending", "done"}]
        /\ watching \in [Conn -> Nat] /\ nextViewer \in Nat
    BY DEF Init
  <2>5. at \in [turn : Nat, step : Nat, produced : BOOLEAN]
    BY DEF Init
  <2>6. said \in Seq(Frame) /\ backlog \in Seq(Nat) /\ viewers \in Seq(Viewer) /\ busy \in BOOLEAN /\ question \in BOOLEAN
    BY <1>1 DEF Init
  <2> QED
    BY <2>2, <2>3, <2>4, <2>5, <2>6 DEF Types
<1>5. /\ \A t \in Turn : task[t] = "none"
      /\ \A c \in Conn : pc[c] = "reading" /\ watching[c] = 0
      /\ ~busy /\ at.turn = 0 /\ nextViewer = 1 /\ ~question
  BY DEF Init
<1>6. Alone
  <2>1. \A u : u \notin Users
    BY <1>5, UsersAre DEF Holding
  <2> QED
    BY <1>5, <2>1 DEF Alone
<1>7. Tasks
  <2>1. 0 <= MaxTurns
    BY BoundsAssumption
  <2> QED
    BY <1>3, <1>5, <2>1, Apart DEF Tasks
<1>8. /\ DOMAIN viewers = {} /\ DOMAIN said = {} /\ DOMAIN backlog = {}
      /\ stored = {} /\ records = {} /\ withdrawn = {}
  BY DEF Init
<1>9. Watch
  BY <1>5, <1>8 DEF Watch, Distinct
<1>10. Bound
  BY <1>3 DEF Bound, Distinct
<1>11. Placed
  BY <1>8 DEF Placed
<1>12. Recorded
  BY <1>5, <1>8 DEF Recorded
<1>13. Backed
  BY <1>8 DEF Backed
<1>14. Items
  BY <1>3 DEF Items
<1>15. \A c \in Conn : ~Following(c)
  BY <1>5 DEF Following
<1>16. Seen /\ Ends
  BY <1>15 DEF Seen, Ends
<1>17. AskedIsAttended
  BY <1>5 DEF AskedIsAttended
<1> QED
  BY <1>4, <1>6, <1>7, <1>9, <1>10, <1>11, <1>12, <1>13, <1>14, <1>16, <1>17 DEF IInv, Control

\* every step of its tasks and connections keeps it,
LEMMA NextInv == IInv /\ Next => IInv'
<1> SUFFICES ASSUME Types, Alone, Tasks, Watch, Bound, Placed, Recorded, Backed, Items, Seen, Ends,
                    AskedIsAttended, Next
             PROVE  IInv'
  BY DEF IInv, Control
<1>1. Types'
  BY TypesStep
<1>2. Alone' /\ Tasks'
  BY ControlStep
<1>3. Watch' /\ Bound'
  BY WatchStep, BoundStep
<1>4. Placed' /\ Recorded' /\ Backed'
  BY <1>1, PlacedStep, RecordedStep, BackedStep
<1>5. Items' /\ Seen'
  BY <1>1, ItemsStep, SeenStep
<1>6. Ends'
  BY EndsStep
<1>7. AskedIsAttended'
  BY <1>1, <1>3, AskedStep
<1> QED
  BY <1>1, <1>2, <1>3, <1>4, <1>5, <1>6, <1>7 DEF IInv, Control

\* and so does what changes nothing of it.
LEMMA StutterInv == IInv /\ UNCHANGED vars => IInv'
<1> SUFFICES ASSUME IInv, UNCHANGED vars PROVE IInv'
  OBVIOUS
<1>1. /\ UNCHANGED <<body, said, backlog, records, stored, withdrawn, at, busy, stop, quarantined, question>>
      /\ UNCHANGED <<wait, shown, drawn, viewers, watching, nextViewer, pc, task, cast, closed, moves>>
  BY DEF vars, session, queues
<1>2. Types' /\ Tasks' /\ Watch' /\ Bound'
  BY <1>1 DEF IInv, Control, Types, Tasks, Watch, Bound
<1>3. Alone'
  BY <1>1 DEF IInv, Control, Alone, Users
<1>4. Placed' /\ Recorded' /\ Backed'
  BY <1>1 DEF IInv, Placed, Recorded, Backed, Here, Before, Speaks, Prompts, Prompting
<1>5. /\ \A c \in Conn : Following(c)' <=> Following(c)
      /\ \A c \in Conn : \A x : ToReach(x, c)' <=> ToReach(x, c)
  BY <1>1 DEF Following, IsWatching, ToReach
<1>6. Items'
  BY <1>1, <1>5 DEF IInv, Items
<1>7. Seen'
  <2>1. \A c \in Conn : \A m : (Covered(c, m)' <=> Covered(c, m)) /\ (Owed(c, m)' <=> Owed(c, m))
    BY <1>1, <1>5 DEF Covered, Owed
  <2> QED
    BY <1>1, <1>5, <2>1 DEF IInv, Seen
<1>8. Ends' /\ AskedIsAttended'
  BY <1>1, <1>5 DEF IInv, Ends, NoTurn, Prompting, AskedIsAttended
<1> QED
  BY <1>2, <1>3, <1>4, <1>6, <1>7, <1>8 DEF IInv, Control

\* The invariant holds in every reachable state.
THEOREM Invariance == Spec => []IInv
<1>1. IInv /\ [Next]_vars => IInv'
  BY NextInv, StutterInv
<1> QED
  BY InitInv, <1>1, PTL DEF Spec

-----------------------------------------------------------------------------
(* What the session promises.                                              *)

\* One task at a time borrows the session, and it is busy exactly then: no
\* order of awaits aborts the agent with a second borrow.
THEOREM SessionHasOneBorrower == Spec => []OneBorrower
<1>1. IInv => OneBorrower
  <2> SUFFICES ASSUME Alone PROVE OneBorrower
    BY DEF IInv, Control
  <2>1. CASE Users = {}
    <3>1. Cardinality(Users) = 0
      BY <2>1, FS_EmptySet
    <3> QED
      BY <3>1 DEF OneBorrower, Alone
  <2>2. CASE Users # {}
    <3>1. PICK u : Users = {u}
      BY <2>2 DEF Alone
    <3>2. Cardinality(Users) = 1
      BY <3>1, FS_Singleton
    <3> QED
      BY <3>2 DEF OneBorrower, Alone
  <2> QED
    BY <2>1, <2>2
<1> QED
  BY <1>1, Invariance, PTL

\* Once no turn runs and no ending is on its way no client that is sent the
\* session's frames believes one runs, however the frames were waited for,
\* given up and handed on.
THEOREM EveryEndIsTold == Spec => []EndIsTold
<1>1. IInv => EndIsTold
  <2> SUFFICES ASSUME Types, Alone, Ends, Quiet, NEW c \in Conn, Following(c)
               PROVE  drawn[c] # "turn"
    BY DEF IInv, Control, EndIsTold
  <2>1. NoTurn
    BY NobodyThere DEF Quiet
  <2>2. \A t \in Turn : cast[t].what # "ending"
    BY Apart DEF Quiet
  <2> QED
    BY <2>1, <2>2 DEF Ends
<1> QED
  BY <1>1, Invariance, PTL

\* A turn waits for an answer only while a connection watches that can give
\* it, or takes the question with it when it goes.
THEOREM QuestionIsAttended == Spec => []AskedIsAttended
<1>1. IInv => AskedIsAttended
  BY DEF IInv
<1> QED
  BY <1>1, Invariance, PTL

\* A connection's queue is given a frame of the conversation only while the
\* connection watches the session, or as it comes to.
THEOREM FramesAreOnesOwn == Spec => OwnFramesOnly
<1>1. ASSUME Types, Watch, Bound, Next, NEW c \in Conn, shown'[c] \notin {shown[c], Away}
      PROVE  Following(c) \/ Following(c)'
  <2>1. ASSUME NEW x \in Actor, Reach(x) \/ Granted(x) \/ GaveUp(x) \/ Reached(x) PROVE Following(c)
    <3>1. CASE Hands(x)
      <4>1. /\ Addressed(x) /\ cast[x].left # <<>>
            /\ shown' = [shown EXCEPT ![Receiver(x).conn] = Seeing(Receiver(x).conn, cast[x].item)]
        BY <3>1 DEF Hands, Moves
      <4>2. c = Receiver(x).conn
        BY <1>1, <4>1 DEF Types
      <4> QED
        BY <1>1, <4>1, <4>2, ReceiverFollows
    <3>2. CASE shown' = shown
      BY <1>1, <3>2
    <3> QED
      BY <1>1, <2>1, <3>1, <3>2, Delivery DEF Waits, Passes, Misses, Reached, queues
  <2>2. ASSUME NEW t \in Turn, Turns(t) PROVE Following(c)
    <3>1. CASE shown' = shown
      BY <1>1, <3>1
    <3>2. ASSUME NEW kind, Say(kind) PROVE Following(c)
      <4>1. PICK C \in SUBSET Offered : shown' = [d \in Conn |-> IF d \in C THEN Seeing(d, Len(said')) ELSE shown[d]]
        BY <3>2 DEF Say
      <4>2. c \in Offered
        BY <1>1, <4>1 DEF Types
      <4>3. PICK i \in DOMAIN viewers : viewers[i].conn = c
        BY <4>2 DEF Offered, ToSet
      <4> QED
        BY <1>1, <4>3, EntryFollows
    <3> QED
      BY <2>2, <3>1, <3>2 DEF Turns, Admit, StepStart, Stopped, Intent, Produce, Ask, Decided, Settle,
         StreamFails, Close, Silent, queues
  <2>3. ASSUME NEW d \in Conn, Attach(d) PROVE Following(c) \/ Following(c)'
    <3>1. CASE shown' = shown
      BY <1>1, <3>1
    <3>2. CASE /\ DOMAIN viewers' = DOMAIN viewers \cup {Len(viewers) + 1}
               /\ viewers'[Len(viewers) + 1].id = nextViewer
               /\ watching' = [watching EXCEPT ![d] = nextViewer]
               /\ shown' = [shown EXCEPT ![d] = CatchUp]
      <4>1. c = d /\ watching'[c] = nextViewer
        BY <1>1, <3>2 DEF Types
      <4>2. watching[c] < nextViewer /\ watching[c] \in Nat /\ nextViewer \in Nat
        BY <1>1 DEF Watch, Types
      <4> QED
        BY <3>2, <4>1, <4>2 DEF Following, IsWatching
    <3> QED
      BY <1>1, <2>3, <3>1, <3>2, Attaching
  <2>4. ASSUME NEW d \in Conn, Prompt(d) PROVE Following(c)
    <3>1. Following(d) /\ shown' = [shown EXCEPT ![d] = Seeing(d, Len(said'))]
      BY <2>4 DEF Prompt, Heard
    <3> QED
      BY <1>1, <3>1 DEF Types
  <2>5. ASSUME NEW d \in Conn, Leave(d) PROVE Following(c)
    BY <1>1, <2>5 DEF Leave, Types
  <2>6. ASSUME NEW d \in Conn, GoalSaved(d) \/ GoalRefused(d) \/ Interrupt(d) \/ Answer(d) \/ GoalReserve(d) \/ HangUp(d)
        PROVE  Following(c)
    BY <1>1, <2>6 DEF GoalSaved, GoalRefused, Interrupt, Answer, GoalReserve, HangUp, queues
  <2> QED
    BY <1>1, <2>1, <2>2, <2>3, <2>4, <2>5, <2>6 DEF Next, Serving, Requested, HungUp, Release
<1>2. ASSUME UNCHANGED vars, NEW c \in Conn PROVE shown'[c] = shown[c]
  BY <1>2 DEF vars, queues
<1>3. IInv /\ [Next]_vars =>
         [\A c \in Conn : shown'[c] \notin {shown[c], Away} => Following(c) \/ Following(c)']_vars
  BY <1>1, <1>2 DEF IInv
<1> QED
  BY <1>3, Invariance, PTL DEF Spec, OwnFramesOnly

-----------------------------------------------------------------------------
(* The clients are told the conversation as Transcript promises.           *)

\* The conversation, and what each client was shown, as Transcript has them.
Talk == [n \in DOMAIN said |-> IF said[n].kind = "prompt" THEN "prompt" ELSE "progress"]
Told == [c \in Conn |-> IF Following(c) THEN shown[c] ELSE Away]

\* A step of Transcript, or none.
Tells == T!Next \/ UNCHANGED <<Talk, withdrawn, Told>>

\* What the conversation is once one thing more is said.
LEMMA TalkMore ==
    ASSUME Types, NEW f \in Frame, said' = Append(said, f)
    PROVE  /\ Talk' = Append(Talk, IF f.kind = "prompt" THEN "prompt" ELSE "progress")
           /\ Len(Talk') = Len(said') /\ DOMAIN Talk' = DOMAIN said' /\ DOMAIN Talk = DOMAIN said
           /\ \A n \in DOMAIN said : Talk'[n] = "prompt" => said[n].kind = "prompt"
<1>1. /\ DOMAIN said = 1..Len(said) /\ DOMAIN said' = 1..(Len(said) + 1) /\ Len(said) \in Nat
      /\ Len(said') = Len(said) + 1 /\ \A n \in DOMAIN said : said'[n] = said[n]
      /\ said'[Len(said) + 1] = f
  BY Appended
<1>2. PICK g : g = [n \in 1..Len(said) |-> IF said[n].kind = "prompt" THEN "prompt" ELSE "progress"]
  OBVIOUS
<1>3. PICK h : h = [n \in 1..(Len(said) + 1) |-> IF said'[n].kind = "prompt" THEN "prompt" ELSE "progress"]
  OBVIOUS
<1>4. Talk = g /\ Talk' = h
  BY <1>1, <1>2, <1>3 DEF Talk
<1>5. /\ g \in Seq({"prompt", "progress"}) /\ Len(g) = Len(said) /\ DOMAIN g = 1..Len(said)
      /\ h \in Seq({"prompt", "progress"}) /\ Len(h) = Len(said) + 1 /\ DOMAIN h = 1..(Len(said) + 1)
  <2>1. g \in [1..Len(said) -> {"prompt", "progress"}]
    BY <1>2
  <2>2. h \in [1..(Len(said) + 1) -> {"prompt", "progress"}]
    BY <1>3
  <2> QED
    BY <1>1, <2>1, <2>2
<1>6. \A n \in 1..Len(said) : h[n] = g[n]
  BY <1>1, <1>2, <1>3
<1>7. h[Len(said) + 1] = IF f.kind = "prompt" THEN "prompt" ELSE "progress"
  BY <1>1, <1>3
<1>8. h = Append(g, IF f.kind = "prompt" THEN "prompt" ELSE "progress")
  <2>1. PICK k \in {"prompt", "progress"} : k = IF f.kind = "prompt" THEN "prompt" ELSE "progress"
    OBVIOUS
  <2>2. h = Append(g, k)
    BY <1>1, <1>5, <1>6, <1>7, <2>1
  <2> QED
    BY <2>1, <2>2
<1>9. \A n \in DOMAIN said : h[n] = "prompt" => said[n].kind = "prompt"
  BY <1>1, <1>3
<1> QED
  BY <1>1, <1>4, <1>5, <1>8, <1>9

\* A client that has seen or is owed every prompt may be shown what is said next.
LEMMA MayBeShown ==
    ASSUME Types, Seen, NEW f \in Frame, said' = Append(said, f), NEW c \in Conn, Following(c),
           \A m : ~Owed(c, m), withdrawn' = withdrawn
    PROVE  T!MayFollow(shown[c], Len(Talk'), Talk')
<1>1. /\ DOMAIN said = 1..Len(said) /\ Len(said) \in Nat /\ Len(said') = Len(said) + 1
  BY Appended
<1>2. /\ shown[c] \in Seq(Nat) /\ \A i \in DOMAIN shown[c] : shown[c][i] \in DOMAIN said
      /\ \A m \in DOMAIN said : said[m].kind = "prompt" => m \in withdrawn \/ \E i \in DOMAIN shown[c] : m <= shown[c][i]
  BY DEF Seen, Covered
<1>3. /\ Len(Talk') = Len(said) + 1
      /\ \A n \in DOMAIN said : Talk'[n] = "prompt" => said[n].kind = "prompt"
  BY <1>1, TalkMore
<1>4. \A i \in DOMAIN shown[c] : shown[c][i] < Len(Talk')
  BY <1>1, <1>2, <1>3
<1>5. \A m \in 1..(Len(Talk') - 1) : m \in DOMAIN said
  BY <1>1, <1>3
<1>6. \A m \in 1..(Len(Talk') - 1) :
         Talk'[m] # "prompt" \/ m \in withdrawn \/ \E i \in DOMAIN shown[c] : m <= shown[c][i]
  BY <1>2, <1>3, <1>5
<1> QED
  BY <1>4, <1>6 DEF T!MayFollow

\* Nothing is said and nobody is shown more: some have left, if anything.
LEMMA TellsLess ==
    ASSUME said' = said, withdrawn' = withdrawn,
           \A c \in Conn : Following(c)' => Following(c) /\ shown'[c] = shown[c]
    PROVE  Tells
<1>1. Talk' = Talk
  BY DEF Talk
<1>2. PICK C \in SUBSET Conn : C = {c \in Conn : ~Following(c)'}
  OBVIOUS
<1>3. Told' = [c \in Conn |-> IF c \in C THEN Away ELSE Told[c]]
  BY <1>2 DEF Told
<1>4. T!Leave(C)
  BY <1>1, <1>3 DEF T!Leave, Talk, Told
<1> QED
  BY <1>4 DEF Tells, T!Next

\* What no record will hold is withdrawn.
LEMMA TellsWithdrawn ==
    ASSUME UNCHANGED <<said, shown, viewers, watching>>, NEW W \in SUBSET DOMAIN said, withdrawn' = withdrawn \cup W
    PROVE  Tells
<1>1. Talk' = Talk /\ Told' = Told
  BY DEF Talk, Told, Following, IsWatching
<1>2. T!Withdraw(W)
  BY <1>1 DEF T!Withdraw, Talk, Told
<1>3. DOMAIN Talk = DOMAIN said
  BY DEF Talk
<1> QED
  BY <1>2, <1>3 DEF Tells, T!Next, Talk

\* Something is said to some of those who follow, and some have gone.
LEMMA TellsSaid ==
    ASSUME Types, Seen, NEW f \in Frame, said' = Append(said, f), withdrawn' = withdrawn,
           NEW C \in SUBSET Conn,
           \A c \in Conn : Following(c)' => Following(c),
           \A c \in Conn : Following(c)' /\ c \in C => shown'[c] = Append(shown[c], Len(said')),
           \A c \in Conn : Following(c)' /\ c \notin C => shown'[c] = shown[c],
           \A c \in Conn : \A m : ~Owed(c, m)
    PROVE  Tells
<1>1. PICK kind \in {"prompt", "progress"} : kind = IF f.kind = "prompt" THEN "prompt" ELSE "progress"
  OBVIOUS
<1>2. Talk' = Append(Talk, kind) /\ Len(Talk') = Len(said')
  BY <1>1, TalkMore
<1>3. \A c \in Conn : Told[c] # Away <=> Following(c)
  BY BoundsAssumption DEF Told, Seen
<1>4. PICK gone : gone = {c \in Conn : Following(c) /\ ~Following(c)'}
  OBVIOUS
<1>5. PICK D : D = {c \in C : Following(c)'}
  OBVIOUS
<1>6. /\ gone \in SUBSET {c \in Conn : Told[c] # Away}
      /\ D \in SUBSET ({c \in Conn : Told[c] # Away} \ gone)
  BY <1>3, <1>4, <1>5
<1>7. \A c \in D : T!MayFollow(Told[c], Len(Talk'), Talk')
  <2> SUFFICES ASSUME NEW c \in D PROVE T!MayFollow(Told[c], Len(Talk'), Talk')
    OBVIOUS
  <2>1. c \in Conn /\ Following(c)
    BY <1>5
  <2>2. T!MayFollow(shown[c], Len(Talk'), Talk')
    BY <2>1, MayBeShown
  <2>3. Told[c] = shown[c]
    BY <2>1 DEF Told
  <2> QED
    BY <2>2, <2>3
<1>8. Told' = [c \in Conn |-> IF c \in D THEN Append(Told[c], Len(Talk'))
                              ELSE IF c \in gone THEN Away ELSE Told[c]]
  <2>1. Told' = [c \in Conn |-> IF Following(c)' THEN shown'[c] ELSE Away]
    BY DEF Told
  <2>2. ASSUME NEW c \in Conn
        PROVE  (IF Following(c)' THEN shown'[c] ELSE Away)
                 = IF c \in D THEN Append(Told[c], Len(Talk')) ELSE IF c \in gone THEN Away ELSE Told[c]
    <3>1. CASE c \in D
      <4>1. Following(c)' /\ Following(c) /\ shown'[c] = Append(shown[c], Len(said'))
        BY <1>5, <3>1
      <4>2. Told[c] = shown[c]
        BY <4>1 DEF Told
      <4> QED
        BY <1>2, <3>1, <4>1, <4>2
    <3>2. CASE c \notin D /\ Following(c)'
      <4>1. Following(c) /\ shown'[c] = shown[c] /\ c \notin gone
        BY <1>4, <1>5, <3>2
      <4>2. Told[c] = shown[c]
        BY <4>1 DEF Told
      <4> QED
        BY <3>2, <4>1, <4>2
    <3>3. CASE ~Following(c)'
      <4>1. c \notin D /\ (c \in gone \/ ~Following(c))
        BY <1>4, <1>5, <3>3
      <4>2. ~Following(c) => Told[c] = Away
        BY DEF Told
      <4> QED
        BY <3>3, <4>1, <4>2
    <3> QED
      BY <3>1, <3>2, <3>3
  <2> QED
    BY <2>1, <2>2
<1>9. \E g \in SUBSET {c \in Conn : Told[c] # Away} : \E E \in SUBSET ({c \in Conn : Told[c] # Away} \ g) :
         /\ \A c \in E : T!MayFollow(Told[c], Len(Talk'), Talk')
         /\ Told' = [c \in Conn |-> IF c \in E THEN Append(Told[c], Len(Talk'))
                                    ELSE IF c \in g THEN Away ELSE Told[c]]
  BY <1>6, <1>7, <1>8
<1>10. T!Say(kind)
  BY <1>2, <1>9, Zenon DEF T!Say, Talk, Told
<1> QED
  BY <1>10 DEF Tells, T!Next

\* So is a step of a turn that says something.
LEMMA TellsProgress ==
    ASSUME Types, Types', Alone, Tasks, Watch, Seen, NEW kind \in {"progress", "decision"}, Say(kind),
           UNCHANGED <<watching, withdrawn>>, NEW t \in Turn, task[t] \in Holding
    PROVE  Tells
<1>1. PICK f \in Frame : said' = Append(said, f)
  <2>1. at' \in [turn : Nat, step : Nat, produced : BOOLEAN]
    BY DEF Types
  <2> QED
    BY <2>1, Says
<1>2. PICK C \in SUBSET Offered : shown' = [c \in Conn |-> IF c \in C THEN Seeing(c, Len(said')) ELSE shown[c]]
  BY DEF Say
<1>3. \A c \in Conn : Following(c)' => Following(c)
  <2>1. viewers' = Only(viewers, {v \in ToSet(viewers) : ~Gone(v)})
    BY DEF Say
  <2>2. \A i \in DOMAIN viewers' : \E k \in DOMAIN viewers : viewers[k] = viewers'[i]
    <3>1. Takes(viewers', viewers, {v \in ToSet(viewers) : ~Gone(v)}, Viewer)
      BY <2>1, OnlyTakes DEF Types
    <3> QED
      BY <3>1 DEF Takes
  <2> QED
    BY <2>2 DEF Following, IsWatching
<1>4. PICK D \in SUBSET Conn : D = {c \in Conn : c \in C}
  OBVIOUS
<1>5. ASSUME NEW c \in Conn, Following(c)', c \in D
      PROVE  shown'[c] = Append(shown[c], Len(said'))
  <2>1. shown[c] # Away
    BY <1>3, <1>5, BoundsAssumption DEF Seen
  <2>2. Len(said') # 0
    BY <1>1, Appended
  <2>3. Seeing(c, Len(said')) = Append(shown[c], Len(said'))
    BY <2>1, <2>2 DEF Seeing
  <2> QED
    BY <1>2, <1>4, <1>5, <2>3
<1>6. \A c \in Conn : Following(c)' /\ c \notin D => shown'[c] = shown[c]
  BY <1>2, <1>4
<1>7. \A c \in Conn : \A m : ~Owed(c, m)
  BY TurnAlone, PromptAlone, Apart DEF Owed
<1> QED
  BY <1>1, <1>3, <1>5, <1>6, <1>7, TellsSaid

\* Every step is one of Transcript's, or none.
LEMMA TellsStep == Types /\ Types' /\ Alone /\ Tasks /\ Watch /\ Bound /\ Recorded /\ Backed /\ Items /\ Seen /\ Next => Tells
<1> SUFFICES ASSUME Types /\ Types' /\ Alone /\ Tasks /\ Watch /\ Bound /\ Recorded /\ Backed /\ Items /\ Seen, Next PROVE Tells
  OBVIOUS
<1>1. ASSUME NEW x \in Actor, Reach(x) \/ Granted(x) \/ GaveUp(x)
      PROVE  Tells
  <2>1. UNCHANGED <<said, withdrawn, viewers, watching>> /\ \A c \in Conn : Following(c)' <=> Following(c)
    BY <1>1, Delivery DEF Waits, Passes, Misses, Hands, Moves, Stays, session, Following, IsWatching
  <2>2. CASE shown' = shown
    BY <2>1, <2>2, TellsLess
  <2>3. CASE Hands(x)
    <3>1. /\ Addressed(x) /\ cast[x].left # <<>>
          /\ shown' = [shown EXCEPT ![Receiver(x).conn] = Seeing(Receiver(x).conn, cast[x].item)]
      BY <2>3 DEF Hands, Moves
    <3>2. CASE cast[x].what # "prompt"
      <4>1. cast[x].item = 0
        BY <3>2 DEF Items
      <4>2. shown' = shown
        BY <3>1, <4>1 DEF Seeing, Types
      <4> QED
        BY <2>2, <4>2
    <3>3. CASE cast[x].what = "prompt"
      <4>1. PICK c \in Conn : c = Receiver(x).conn /\ Following(c) /\ watching[c] = Receiver(x).id
        BY <3>1, ReceiverFollows, ReceiverTyped
      <4>2. PICK n : n = cast[x].item
        OBVIOUS
      <4>3. n = Len(said) /\ Len(said) # 0 /\ n \in DOMAIN said /\ n \in Nat
        BY <3>3, <4>2 DEF Items, Types
      <4>4. /\ shown[c] \in Seq(Nat)
            /\ \A m \in DOMAIN said : said[m].kind = "prompt" =>
                  m \in withdrawn \/ Covered(c, m) \/ Owed(c, m)
        BY <4>1 DEF Seen
      <4>5. \A j \in DOMAIN shown[c] : shown[c][j] < n
        <5>1. 1 \in DOMAIN cast[x].left /\ cast[x].left[1].id = watching[c]
          BY <3>1, <4>1, ReceiverTyped
        <5> QED
          BY <3>3, <4>1, <4>2, <5>1 DEF Items
      <4>6. \A m : Owed(c, m) => m = n
        BY <4>3, Apart DEF Owed, Items
      <4>7. \A m \in 1..(n - 1) : Talk[m] # "prompt" \/ m \in withdrawn \/ \E i \in DOMAIN shown[c] : m <= shown[c][i]
        <5> SUFFICES ASSUME NEW m \in 1..(n - 1), Talk[m] = "prompt", m \notin withdrawn
                     PROVE  \E i \in DOMAIN shown[c] : m <= shown[c][i]
          OBVIOUS
        <5>1. m \in DOMAIN said /\ m # n
          BY <4>3 DEF Types
        <5>2. said[m].kind = "prompt"
          BY <5>1 DEF Talk
        <5> QED
          BY <4>4, <4>6, <5>1, <5>2 DEF Covered
      <4>8. T!MayFollow(shown[c], n, Talk)
        BY <4>5, <4>7 DEF T!MayFollow
      <4>9. Told[c] = shown[c] /\ shown[c] # Away
        BY <4>1, <4>4, BoundsAssumption DEF Told
      <4>10. shown' = [shown EXCEPT ![c] = Append(shown[c], n)]
        <5>1. Seeing(c, n) = Append(shown[c], n)
          BY <4>3, <4>9 DEF Seeing
        <5> QED
          BY <3>1, <4>1, <4>2, <5>1
      <4>11. Told' = [Told EXCEPT ![c] = Append(Told[c], n)]
        <5>1. ASSUME NEW d \in Conn
              PROVE  (IF Following(d)' THEN shown'[d] ELSE Away)
                        = IF d = c THEN Append(Told[c], n) ELSE Told[d]
          <6>1. CASE d = c
            BY <2>1, <4>1, <4>9, <4>10, <6>1 DEF Types
          <6>2. CASE d # c
            BY <2>1, <4>10, <6>2 DEF Types, Told
          <6> QED
            BY <6>1, <6>2
        <5>2. Told' = [d \in Conn |-> IF Following(d)' THEN shown'[d] ELSE Away]
          BY DEF Told
        <5>3. [Told EXCEPT ![c] = Append(Told[c], n)] = [d \in Conn |-> IF d = c THEN Append(Told[c], n) ELSE Told[d]]
          BY DEF Told
        <5> QED
          BY <5>1, <5>2, <5>3
      <4>12. Talk' = Talk /\ withdrawn' = withdrawn
        BY <2>1 DEF Talk
      <4>13. T!MayFollow(Told[c], n, Talk) /\ Told[c] # Away
        BY <4>8, <4>9
      <4>14. T!Show(c, n)
        BY <4>11, <4>12, <4>13 DEF T!Show, Talk, Told
      <4>15. n \in DOMAIN Talk
        BY <4>3 DEF Talk
      <4> QED
        BY <4>14, <4>15 DEF Tells, T!Next, Talk
    <3> QED
      BY <3>2, <3>3
  <2> QED
    BY <1>1, <2>2, <2>3, Delivery DEF Waits, Passes, Misses
<1>2. ASSUME NEW x \in Actor, Reached(x)
      PROVE  Tells
  <2>1. said' = said /\ withdrawn' = withdrawn /\ watching' = watching /\ shown' = shown
    BY <1>2 DEF Reached, queues
  <2>2. \A i \in DOMAIN viewers' : \E k \in DOMAIN viewers : viewers[k] = viewers'[i]
    BY <1>2, StillAmong DEF Reached, Among
  <2> QED
    BY <2>1, <2>2, TellsLess DEF Following, IsWatching
<1>3. ASSUME NEW t \in Turn, Admit(t)
      PROVE  Tells
  <2>1. UNCHANGED <<said, shown, viewers, watching>>
    BY <1>3 DEF Admit, Kept, queues
  <2>2. withdrawn' = withdrawn \/ \E W \in SUBSET DOMAIN said : withdrawn' = withdrawn \cup W
    BY <1>3 DEF Admit, OfStep
  <2> QED
    BY <2>1, <2>2, TellsWithdrawn, TellsLess DEF Following, IsWatching
<1>4. ASSUME NEW t \in Turn, Intent(t) \/ StreamFails(t)
      PROVE  Tells
  <2>1. UNCHANGED <<said, shown, viewers, watching>>
    BY <1>4 DEF Intent, StreamFails, Silent, Kept, queues
  <2>2. withdrawn' = withdrawn \/ \E W \in SUBSET DOMAIN said : withdrawn' = withdrawn \cup W
    BY <1>4 DEF Intent, StreamFails, OfStep
  <2> QED
    BY <2>1, <2>2, TellsWithdrawn, TellsLess DEF Following, IsWatching
<1>5. ASSUME NEW t \in Turn, Stopped(t) \/ Ask(t) \/ Decided(t) \/ Close(t)
      PROVE  Tells
  <2>1. UNCHANGED <<said, withdrawn, watching, shown, viewers>>
    BY <1>5 DEF Stopped, Ask, Decided, Close, Kept, queues
  <2> QED
    BY <2>1, TellsLess DEF Following, IsWatching
<1>6. ASSUME NEW c \in Conn,
             GoalSaved(c) \/ GoalRefused(c) \/ Interrupt(c) \/ Answer(c)
             \/ GoalReserve(c) \/ HangUp(c)
      PROVE  Tells
  <2>1. UNCHANGED <<said, withdrawn, watching, shown, viewers>>
    BY <1>6 DEF GoalSaved, GoalRefused, Interrupt, Answer, GoalReserve, HangUp, NoNews, Turning, queues, session
  <2> QED
    BY <2>1, TellsLess DEF Following, IsWatching
<1>7. ASSUME NEW t \in Turn, StepStart(t) \/ Produce(t)
      PROVE  Tells
  <2>1. Say("progress") /\ UNCHANGED <<watching, withdrawn>> /\ task[t] \in Holding
    BY <1>7 DEF StepStart, Produce, Kept, Holding
  <2> QED
    BY <2>1, TellsProgress
<1>8. ASSUME NEW t \in Turn, Settle(t)
      PROVE  Tells
  <2>1. UNCHANGED <<watching, withdrawn>> /\ task[t] \in Holding
    BY <1>8 DEF Settle, Kept, Holding
  <2>2. CASE Say("decision")
    BY <2>1, <2>2, TellsProgress
  <2>3. CASE Silent
    BY <2>1, <2>3, TellsLess DEF Silent, queues, Following, IsWatching
  <2> QED
    BY <1>8, <2>2, <2>3 DEF Settle
<1>9. ASSUME NEW c \in Conn, HungUp(c)
      PROVE  Tells
  <2>1. Leave(c) /\ said' = said /\ withdrawn' = withdrawn
    BY <1>9 DEF HungUp, NoNews, Turning
  <2>2. \A d \in Conn : Following(d)' => Following(d) /\ shown'[d] = shown[d]
    BY <2>1, FollowLeave
  <2> QED
    BY <2>1, <2>2, TellsLess
<1>10. ASSUME NEW c \in Conn, NEW there \in {"here", "elsewhere"}, Release(c, there)
      PROVE  Tells
  <2>1. Leave(c) /\ said' = said /\ withdrawn' = withdrawn
    BY <1>10 DEF Release, NoNews, Turning
  <2>2. \A d \in Conn : Following(d)' => Following(d) /\ shown'[d] = shown[d]
    BY <2>1, FollowLeave
  <2> QED
    BY <2>1, <2>2, TellsLess
<1>11. ASSUME NEW c \in Conn, Attach(c)
      PROVE  Tells
  <2>1. said' = said /\ withdrawn' = withdrawn
    BY <1>11 DEF Attach, NoNews, Turning
  <2>2. \A d \in Conn : Following(d)' =>
           \/ Following(d) /\ watching'[d] = watching[d] /\ shown'[d] = shown[d]
           \/ d = c /\ shown'[d] = CatchUp
    BY <1>11, FollowAttach
  <2>3. ~Following(c)
    BY <1>11, Attaching DEF Watch, Following
  <2>4. CASE ~Following(c)'
    BY <2>1, <2>2, <2>4, TellsLess
  <2>5. CASE Following(c)'
    <3>1. shown'[c] = CatchUp
      BY <2>2, <2>3, <2>5
    <3>2. /\ CatchUp \in Seq(Nat) /\ Rising(CatchUp)
          /\ \A i \in DOMAIN CatchUp : CatchUp[i] \in DOMAIN said
          /\ \A n \in DOMAIN said \ withdrawn : \E i \in DOMAIN CatchUp : CatchUp[i] = n
      BY CatchesUp
    <3>3. PICK s : s = CatchUp
      OBVIOUS
    <3>4. DOMAIN Talk = DOMAIN said
      BY DEF Talk
    <3>5. T!CaughtUp(s)
      <4>1. /\ \A i, j \in DOMAIN s : i < j => s[i] < s[j]
            /\ \A i \in DOMAIN s : s[i] \in DOMAIN Talk
            /\ \A n \in DOMAIN Talk \ withdrawn : \E i \in DOMAIN s : s[i] = n
        BY <3>2, <3>3, <3>4 DEF Rising
      <4> QED
        BY <4>1 DEF T!CaughtUp, Talk
    <3>6. Told'[c] = s /\ s # Away /\ Told[c] = Away
      BY <2>3, <2>5, <3>1, <3>2, <3>3, BoundsAssumption DEF Told
    <3>7. \A d \in Conn \ {c} : Told'[d] = Told[d]
      <4> SUFFICES ASSUME NEW d \in Conn, d # c PROVE Told'[d] = Told[d]
        OBVIOUS
      <4>1. Following(d)' => Following(d) /\ shown'[d] = shown[d]
        BY <2>2
      <4>2. Following(d) => Following(d)'
        <5>1. /\ UNCHANGED <<viewers, watching>>
              \/ /\ DOMAIN viewers' = DOMAIN viewers \cup {Len(viewers) + 1}
                 /\ \A i \in DOMAIN viewers : viewers'[i] = viewers[i]
                 /\ watching' = [watching EXCEPT ![c] = nextViewer]
          BY <1>11, Attaching
        <5>2. watching'[d] = watching[d]
          BY <5>1 DEF Types
        <5> QED
          BY <5>1, <5>2 DEF Following, IsWatching
      <4> QED
        BY <4>1, <4>2 DEF Told
    <3>8. Talk' = Talk
      BY <2>1 DEF Talk
    <3>9. Told[c] = Away /\ Told'[c] # Away /\ T!CaughtUp(Told'[c])
      BY <3>5, <3>6
    <3>10. T!Join(c)
      BY <2>1, <3>7, <3>8, <3>9 DEF T!Join, Talk, Told
    <3> QED
      BY <3>10 DEF Tells, T!Next
  <2> QED
    BY <2>4, <2>5
<1>12. ASSUME NEW c \in Conn, Prompt(c)
      PROVE  Tells
  <2>1. /\ ~busy /\ UNCHANGED <<viewers, watching>> /\ Following(c) /\ withdrawn' = withdrawn
        /\ shown' = [shown EXCEPT ![c] = Seeing(c, Len(said'))]
    BY <1>12 DEF Prompt, Heard, Turning
  <2>2. PICK f \in Frame : said' = Append(said, f)
    <3>1. PICK f : f = [turn |-> at'.turn, step |-> 0, kind |-> "prompt"]
      OBVIOUS
    <3>2. said' = Append(said, f)
      BY <1>12, <3>1 DEF Prompt
    <3>3. f \in Frame
      BY <3>1 DEF Frame, Types
    <3> QED
      BY <3>2, <3>3
  <2>3. \A d \in Conn : Following(d)' => Following(d)
    BY <2>1 DEF Following, IsWatching
  <2>4. shown'[c] = Append(shown[c], Len(said'))
    <3>1. shown[c] # Away
      BY <2>1, BoundsAssumption DEF Seen
    <3>2. Len(said') # 0
      BY <2>2, Appended
    <3>3. Seeing(c, Len(said')) = Append(shown[c], Len(said'))
      BY <3>1, <3>2 DEF Seeing
    <3> QED
      BY <2>1, <3>3 DEF Types
  <2>5. \A d \in Conn : d \notin {c} => shown'[d] = shown[d]
    BY <2>1 DEF Types
  <2>6. \A d \in Conn : \A m : ~Owed(d, m)
    BY <2>1, PromptAlone, Apart DEF Owed
  <2>7. {c} \in SUBSET Conn /\ \A d \in Conn : d \in {c} => shown'[d] = Append(shown[d], Len(said'))
    BY <2>4
  <2> QED
    BY <2>1, <2>2, <2>3, <2>5, <2>6, <2>7, TellsSaid
<1> QED
  BY <1>1, <1>2, <1>3, <1>4, <1>5, <1>6, <1>7, <1>8, <1>9, <1>10, <1>11, <1>12 DEF Next, Turns, Serving, Requested

\* The clients are told the conversation in order, each thing at most once and
\* no later thing over a prompt, and whoever comes reads all that stands:
\* whatever room the queues have, whoever leaves and comes back, and whatever
\* is withdrawn.
THEOREM ConversationIsTold == Spec => ToldInOrder
<1>1. Init => T!Init
  <2> SUFFICES ASSUME Init PROVE T!Init
    OBVIOUS
  <2>1. said = <<>> /\ withdrawn = {} /\ \A c \in Conn : watching[c] = 0
    BY DEF Init
  <2>2. Talk = <<>>
    BY <2>1 DEF Talk
  <2>3. Told = [c \in Conn |-> Away]
    BY <2>1 DEF Told, Following
  <2> QED
    BY <2>1, <2>2, <2>3 DEF T!Init, Talk, Told
<1>2. IInv /\ IInv' /\ [Next]_vars => [T!Next]_(T!vars)
  <2> SUFFICES ASSUME IInv, IInv', [Next]_vars PROVE [T!Next]_(T!vars)
    OBVIOUS
  <2>1. Tells
    <3>1. CASE Next
      BY <3>1, TellsStep DEF IInv, Control
    <3>2. CASE UNCHANGED vars
      <4>1. UNCHANGED <<said, withdrawn, shown, viewers, watching>>
        BY <3>2 DEF vars, session, queues
      <4> QED
        BY <4>1, TellsLess DEF Following, IsWatching
    <3> QED
      BY <3>1, <3>2
  <2> QED
    BY <2>1 DEF Tells, T!vars, Talk, Told
<1> QED
  BY <1>1, <1>2, Invariance, PTL DEF Spec, ToldInOrder, T!Spec
=============================================================================
