------------------------- MODULE SubsequencesProofs -------------------------
(***************************************************************************)
(* What a filter over a list leaves, for lists of every length: its        *)
(* elements are those of the list that are in the set, in the order of the *)
(* list, at positions that OnlyTakes gives.  Only is a recursive function  *)
(* over the length, and what it computes is shown for every length by the  *)
(* least number for which it would fail.                                   *)
(***************************************************************************)
EXTENDS Subsequences, TLAPS, WellFoundedInduction, SequenceTheorems

\* A set of numbers that is not empty has a least one.
LEMMA Least ==
    ASSUME NEW T \in SUBSET Nat, T # {}
    PROVE  \E n \in T : \A m \in T : n <= m
<1>1. PICK n \in T : \A m \in T : <<m, n>> \notin OpToRel(<, Nat)
  BY NatLessThanWellFounded, WFMin
<1>2. \A m \in T : ~(m < n)
  BY <1>1 DEF OpToRel
<1> QED
  BY <1>2

\* A set with the empty sequence that appending does not leave has every sequence.
LEMMA Inductive ==
    ASSUME NEW A, NEW T, <<>> \in T,
           \A s \in Seq(A) : \A e \in A : s \in T => Append(s, e) \in T
    PROVE  Seq(A) \subseteq T
<1> DEFINE Bad == {n \in Nat : \E s \in Seq(A) : Len(s) = n /\ s \notin T}
<1>1. CASE Bad = {}
  BY <1>1
<1>2. CASE Bad # {}
  <2>1. PICK n \in Bad : \A m \in Bad : n <= m
    BY <1>2, Least
  <2>2. PICK s \in Seq(A) : Len(s) = n /\ s \notin T
    BY <2>1
  <2>3. PICK r \in Seq(A), e \in A : s = Append(r, e)
    BY <2>2, SequenceEmptyOrAppend
  <2>4. Len(r) \in Nat /\ Len(r) < n
    BY <2>2, <2>3
  <2>5. r \in T
    BY <2>1, <2>4
  <2> QED
    BY <2>2, <2>3, <2>5
<1> QED
  BY <1>1, <1>2

-----------------------------------------------------------------------------
\* What Only computes on the way through s.
Through(g, s, S, n) ==
    g = [i \in 0..n |->
            IF i = 0 THEN <<>>
            ELSE IF s[i] \in S THEN Append(g[i - 1], s[i]) ELSE g[i - 1]]

\* It can be computed.
LEMMA ThroughExists == ASSUME NEW s, NEW S PROVE \A n \in Nat : \E g : Through(g, s, S, n)
<1> DEFINE T == {n \in Nat : ~\E g : Through(g, s, S, n)}
<1> SUFFICES ASSUME T # {} PROVE FALSE
  OBVIOUS
<1>1. PICK n \in T : \A m \in T : n <= m
  BY Least
<1>2. n \in Nat /\ ~\E g : Through(g, s, S, n)
  OBVIOUS
<1>3. CASE n = 0
  <2>1. Through([i \in 0..0 |-> <<>>], s, S, 0)
    BY DEF Through
  <2> QED
    BY <1>2, <1>3, <2>1
<1>4. CASE n # 0
  <2>1. n - 1 \in Nat /\ n - 1 \notin T
    BY <1>1, <1>2, <1>4
  <2>2. PICK g : Through(g, s, S, n - 1)
    BY <2>1
  <2> DEFINE last == IF s[n] \in S THEN Append(g[n - 1], s[n]) ELSE g[n - 1]
             h == [i \in 0..n |-> IF i = n THEN last ELSE g[i]]
  <2>3. Through(h, s, S, n)
    <3>1. g = [i \in 0..(n - 1) |->
            IF i = 0 THEN <<>>
            ELSE IF s[i] \in S THEN Append(g[i - 1], s[i]) ELSE g[i - 1]]
      BY <2>2 DEF Through
    <3>2. \A i \in 0..n : h[i] = IF i = 0 THEN <<>>
            ELSE IF s[i] \in S THEN Append(h[i - 1], s[i]) ELSE h[i - 1]
      <4> SUFFICES ASSUME NEW i \in 0..n
                   PROVE  h[i] = IF i = 0 THEN <<>>
                             ELSE IF s[i] \in S THEN Append(h[i - 1], s[i]) ELSE h[i - 1]
        OBVIOUS
      <4>1. CASE i = n
        <5>1. h[n] = last /\ h[n - 1] = g[n - 1]
          BY <1>2, <1>4
        <5> QED
          BY <1>4, <4>1, <5>1
      <4>2. CASE i # n
        <5>1. i \in 0..(n - 1) /\ h[i] = g[i]
          BY <1>2, <4>2
        <5>2. i # 0 => i - 1 \in 0..n /\ i - 1 # n /\ h[i - 1] = g[i - 1]
          BY <1>2, <4>2
        <5> HIDE DEF h
        <5> QED
          BY <3>1, <5>1, <5>2
      <4> QED
        BY <4>1, <4>2
    <3>3. h = [i \in 0..n |-> h[i]]
      OBVIOUS
    <3> HIDE DEF h
    <3> QED
      BY <3>2, <3>3 DEF Through
  <2> QED
    BY <1>2, <2>3
<1> QED
  BY <1>3, <1>4

\* It can be computed in one way, which depends on nothing later.
LEMMA ThroughAgrees ==
    ASSUME NEW s, NEW r, NEW S, NEW m \in Nat, NEW n \in Nat, m <= n,
           \A i \in 1..m : s[i] = r[i],
           NEW g, Through(g, s, S, m), NEW h, Through(h, r, S, n)
    PROVE  g[m] = h[m]
<1> DEFINE T == {i \in 0..m : g[i] # h[i]}
<1>1. \A i \in 0..m : g[i] = IF i = 0 THEN <<>>
            ELSE IF s[i] \in S THEN Append(g[i - 1], s[i]) ELSE g[i - 1]
  BY DEF Through
<1>2. \A i \in 0..m : h[i] = IF i = 0 THEN <<>>
            ELSE IF r[i] \in S THEN Append(h[i - 1], r[i]) ELSE h[i - 1]
  <2>1. \A i \in 0..n : h[i] = IF i = 0 THEN <<>>
            ELSE IF r[i] \in S THEN Append(h[i - 1], r[i]) ELSE h[i - 1]
    BY DEF Through
  <2> QED
    BY <2>1
<1>3. CASE T = {}
  BY <1>3
<1>4. CASE T # {}
  <2>0. T \in SUBSET Nat
    OBVIOUS
  <2>1. PICK i \in T : \A k \in T : i <= k
    <3> HIDE DEF T
    <3> QED
      BY <1>4, <2>0, Least
  <2>2. i \in 0..m /\ g[i] # h[i]
    OBVIOUS
  <2>3. i # 0
    BY <1>1, <1>2, <2>2
  <2>4. i - 1 \in 0..m /\ i - 1 \notin T
    BY <2>1, <2>2, <2>3
  <2>5. g[i - 1] = h[i - 1]
    BY <2>4
  <2>6. s[i] = r[i]
    BY <2>2, <2>3
  <2> HIDE DEF T
  <2> QED
    BY <1>1, <1>2, <2>2, <2>3, <2>5, <2>6
<1> QED
  BY <1>3, <1>4

\* Only computes it to the end.
LEMMA OnlyThrough ==
    ASSUME NEW s, NEW S, Len(s) \in Nat
    PROVE  \E g : Through(g, s, S, Len(s)) /\ Only(s, S) = g[Len(s)]
<1>1. PICK f : f = (CHOOSE g : Through(g, s, S, Len(s)))
  OBVIOUS
<1>2. Through(f, s, S, Len(s))
  BY <1>1, ThroughExists
<1>3. Only(s, S) = f[Len(s)]
  BY <1>1 DEF Only, Through
<1> QED
  BY <1>2, <1>3

\* Of nothing, nothing.
LEMMA OnlyEmpty == \A S : Only(<<>>, S) = <<>>
<1> SUFFICES ASSUME NEW S PROVE Only(<<>>, S) = <<>>
  OBVIOUS
<1>1. PICK g : Through(g, <<>>, S, 0) /\ Only(<<>>, S) = g[0]
  BY OnlyThrough
<1> QED
  BY <1>1 DEF Through

\* What is appended is taken last, or not.
LEMMA OnlyAppend ==
    ASSUME NEW A, NEW s \in Seq(A), NEW e \in A, NEW S
    PROVE  Only(Append(s, e), S) = IF e \in S THEN Append(Only(s, S), e) ELSE Only(s, S)
<1> DEFINE r == Append(s, e)
           n == Len(s)
<1>1. /\ n \in Nat /\ Len(r) = n + 1 /\ r[n + 1] = e
      /\ \A i \in 1..n : s[i] = r[i]
  OBVIOUS
<1>2. PICK g : Through(g, s, S, n) /\ Only(s, S) = g[n]
  BY <1>1, OnlyThrough
<1> HIDE DEF r, n
<1>3. PICK h : Through(h, r, S, n + 1) /\ Only(r, S) = h[n + 1]
  BY <1>1, OnlyThrough
<1>4. g[n] = h[n]
  BY <1>1, <1>2, <1>3, ThroughAgrees
<1>5. h[n + 1] = IF e \in S THEN Append(h[n], e) ELSE h[n]
  <2>1. \A i \in 0..(n + 1) : h[i] = IF i = 0 THEN <<>>
            ELSE IF r[i] \in S THEN Append(h[i - 1], r[i]) ELSE h[i - 1]
    BY <1>3 DEF Through
  <2>2. n + 1 \in 0..(n + 1) /\ n + 1 # 0 /\ (n + 1) - 1 = n
    BY <1>1
  <2> QED
    BY <1>1, <2>1, <2>2
<1> QED
  BY <1>2, <1>3, <1>4, <1>5 DEF r

-----------------------------------------------------------------------------
\* o is what s has of S, all of it, in its order.
Takes(o, s, S, A) ==
    /\ o \in Seq(A)
    /\ \A i \in DOMAIN o : o[i] \in S /\ \E k \in DOMAIN s : s[k] = o[i]
    /\ \A k \in DOMAIN s : s[k] \in S => \E i \in DOMAIN o : o[i] = s[k]
    /\ \A i, j \in DOMAIN o : i < j =>
          \E k, l \in DOMAIN s : k < l /\ s[k] = o[i] /\ s[l] = o[j]

\* So it is for what is appended to both, or to one.
LEMMA TakesAppend ==
    ASSUME NEW A, NEW o, NEW s \in Seq(A), NEW S, NEW e \in A, Takes(o, s, S, A)
    PROVE  Takes(IF e \in S THEN Append(o, e) ELSE o, Append(s, e), S, A)
<1> DEFINE u == Append(s, e)
           v == Append(o, e)
<1>1. /\ o \in Seq(A)
      /\ \A i \in DOMAIN o : o[i] \in S /\ \E k \in DOMAIN s : s[k] = o[i]
      /\ \A k \in DOMAIN s : s[k] \in S => \E i \in DOMAIN o : o[i] = s[k]
      /\ \A i, j \in DOMAIN o : i < j =>
            \E k, l \in DOMAIN s : k < l /\ s[k] = o[i] /\ s[l] = o[j]
  BY DEF Takes
<1>2. /\ u \in Seq(A) /\ DOMAIN s \subseteq DOMAIN u /\ Len(u) \in DOMAIN u
      /\ u[Len(u)] = e
      /\ \A k \in DOMAIN s : u[k] = s[k] /\ k < Len(u)
      /\ \A k \in DOMAIN u : k \in DOMAIN s \/ k = Len(u)
  OBVIOUS
<1>3. /\ v \in Seq(A) /\ DOMAIN o \subseteq DOMAIN v /\ Len(v) \in DOMAIN v
      /\ v[Len(v)] = e
      /\ \A k \in DOMAIN o : v[k] = o[k] /\ k < Len(v) /\ k \in Nat
      /\ \A k \in DOMAIN v : k \in DOMAIN o \/ k = Len(v)
      /\ Len(v) \in Nat
  BY <1>1
<1> HIDE DEF u, v
<1>4. CASE e \notin S
  <2>1. Takes(o, u, S, A)
    BY <1>1, <1>2, <1>4 DEF Takes
  <2> QED
    BY <1>4, <2>1 DEF u
<1>5. CASE e \in S
  <2>1. \A i \in DOMAIN v : v[i] \in S /\ \E k \in DOMAIN u : u[k] = v[i]
    <3> SUFFICES ASSUME NEW i \in DOMAIN v
                 PROVE  v[i] \in S /\ \E k \in DOMAIN u : u[k] = v[i]
      OBVIOUS
    <3>1. CASE i \in DOMAIN o
      BY <1>1, <1>2, <1>3, <3>1
    <3>2. CASE i = Len(v)
      BY <1>2, <1>3, <1>5, <3>2
    <3> QED
      BY <1>3, <3>1, <3>2
  <2>2. \A k \in DOMAIN u : u[k] \in S => \E i \in DOMAIN v : v[i] = u[k]
    BY <1>1, <1>2, <1>3
  <2>3. \A i, j \in DOMAIN v : i < j =>
            \E k, l \in DOMAIN u : k < l /\ u[k] = v[i] /\ u[l] = v[j]
    <3> SUFFICES ASSUME NEW i \in DOMAIN v, NEW j \in DOMAIN v, i < j
                 PROVE  \E k, l \in DOMAIN u : k < l /\ u[k] = v[i] /\ u[l] = v[j]
      OBVIOUS
    <3>1. i \in DOMAIN o
      BY <1>3
    <3>2. CASE j \in DOMAIN o
      BY <1>1, <1>2, <1>3, <3>1, <3>2
    <3>3. CASE j = Len(v)
      BY <1>1, <1>2, <1>3, <3>1, <3>3
    <3> QED
      BY <1>3, <3>2, <3>3
  <2>4. Takes(v, u, S, A)
    BY <1>3, <2>1, <2>2, <2>3 DEF Takes
  <2> QED
    BY <1>5, <2>4 DEF u, v
<1> QED
  BY <1>4, <1>5

\* That is what Only takes.
THEOREM OnlyTakes == ASSUME NEW A, NEW s \in Seq(A), NEW S PROVE Takes(Only(s, S), s, S, A)
<1> DEFINE T == {r \in Seq(A) : Takes(Only(r, S), r, S, A)}
<1>1. <<>> \in T
  <2>1. Takes(<<>>, <<>>, S, A)
    BY DEF Takes
  <2> QED
    BY <2>1, OnlyEmpty
<1>2. ASSUME NEW r \in Seq(A), NEW e \in A, r \in T
      PROVE  Append(r, e) \in T
  <2>1. Takes(Only(r, S), r, S, A)
    BY <1>2
  <2>2. Only(Append(r, e), S) = IF e \in S THEN Append(Only(r, S), e) ELSE Only(r, S)
    BY OnlyAppend
  <2>3. Takes(IF e \in S THEN Append(Only(r, S), e) ELSE Only(r, S), Append(r, e), S, A)
    BY <2>1, TakesAppend
  <2>4. Takes(Only(Append(r, e), S), Append(r, e), S, A)
    BY <2>2, <2>3
  <2> QED
    BY <2>4
<1> HIDE DEF T
<1>3. Seq(A) \subseteq T
  BY <1>1, <1>2, Inductive
<1> QED
  BY <1>3 DEF T

-----------------------------------------------------------------------------
\* Nothing is taken of what is appended when none of it is in the set.
LEMMA OnlyNone ==
    ASSUME NEW A, NEW s \in Seq(A), NEW S, NEW more \in Seq(A \ S)
    PROVE  Only(s \o more, S) = Only(s, S)
<1> DEFINE T == {r \in Seq(A \ S) : Only(s \o r, S) = Only(s, S)}
<1>1. <<>> \in T
  <2>1. s \o <<>> = s
    OBVIOUS
  <2> QED
    BY <2>1
<1>2. ASSUME NEW r \in Seq(A \ S), NEW e \in A \ S, r \in T
      PROVE  Append(r, e) \in T
  <2>1. s \o r \in Seq(A) /\ s \o Append(r, e) = Append(s \o r, e) /\ Append(r, e) \in Seq(A \ S)
    OBVIOUS
  <2>2. Only(Append(s \o r, e), S) = Only(s \o r, S)
    BY <2>1, OnlyAppend
  <2> QED
    BY <1>2, <2>1, <2>2
<1> HIDE DEF T
<1>3. Seq(A \ S) \subseteq T
  BY <1>1, <1>2, Inductive
<1> QED
  BY <1>3 DEF T

\* Appending to the second of two lists appends to both.
LEMMA ConcatAppend ==
    ASSUME NEW A, NEW o \in Seq(A), NEW r \in Seq(A), NEW e \in A
    PROVE  o \o Append(r, e) = Append(o \o r, e)
OBVIOUS

\* All of it is when all of it is.
LEMMA OnlyAll ==
    ASSUME NEW A, NEW s \in Seq(A), NEW S, NEW more \in Seq(A \cap S)
    PROVE  Only(s \o more, S) = Only(s, S) \o more
<1>1. PICK o \in Seq(A) : o = Only(s, S)
  BY OnlyTakes DEF Takes
<1> DEFINE T == {r \in Seq(A \cap S) : Only(s \o r, S) = o \o r}
<1>2. <<>> \in T
  <2>1. s \o <<>> = s /\ o \o <<>> = o
    OBVIOUS
  <2> QED
    BY <1>1, <2>1
<1>3. ASSUME NEW r \in Seq(A \cap S), NEW e \in A \cap S, r \in T
      PROVE  Append(r, e) \in T
  <2>1. s \o r \in Seq(A) /\ s \o Append(r, e) = Append(s \o r, e) /\ Append(r, e) \in Seq(A \cap S)
    OBVIOUS
  <2>2. Only(Append(s \o r, e), S) = Append(Only(s \o r, S), e)
    BY <2>1, OnlyAppend
  <2>3. o \o Append(r, e) = Append(o \o r, e)
    <3>1. r \in Seq(A) /\ e \in A
      OBVIOUS
    <3> QED
      BY <3>1, ConcatAppend
  <2> QED
    BY <1>3, <2>1, <2>2, <2>3
<1> HIDE DEF T
<1>4. Seq(A \cap S) \subseteq T
  BY <1>2, <1>3, Inductive
<1> QED
  BY <1>1, <1>4 DEF T

-----------------------------------------------------------------------------
\* Sets that agree on what a list holds pick the same of it.
LEMMA OnlyAgree ==
    ASSUME NEW A, NEW s \in Seq(A), NEW S, NEW R, \A k \in DOMAIN s : s[k] \in S <=> s[k] \in R
    PROVE  Only(s, S) = Only(s, R)
<1> DEFINE Agree(r) == \A k \in DOMAIN r : r[k] \in S <=> r[k] \in R
           T == {r \in Seq(A) : Agree(r) => Only(r, S) = Only(r, R)}
<1>1. <<>> \in T
  BY OnlyEmpty
<1>2. ASSUME NEW r \in Seq(A), NEW e \in A, r \in T PROVE Append(r, e) \in T
  <2>0. Append(r, e) \in Seq(A) /\ (Agree(r) => Only(r, S) = Only(r, R))
    BY <1>2
  <2>1. /\ Len(r) + 1 \in DOMAIN Append(r, e) /\ Append(r, e)[Len(r) + 1] = e
        /\ \A k \in DOMAIN r : k \in DOMAIN Append(r, e) /\ Append(r, e)[k] = r[k]
    OBVIOUS
  <2>2. ASSUME Agree(Append(r, e)) PROVE Only(Append(r, e), S) = Only(Append(r, e), R)
    <3>1. Append(r, e)[Len(r) + 1] \in S <=> Append(r, e)[Len(r) + 1] \in R
      BY <2>1, <2>2
    <3>2. \A k \in DOMAIN r : Append(r, e)[k] \in S <=> Append(r, e)[k] \in R
      BY <2>1, <2>2
    <3>3. Agree(r) /\ (e \in S <=> e \in R)
      BY <2>1, <3>1, <3>2
    <3>4. Only(r, S) = Only(r, R)
      BY <2>0, <3>3
    <3>5. /\ Only(Append(r, e), S) = IF e \in S THEN Append(Only(r, S), e) ELSE Only(r, S)
          /\ Only(Append(r, e), R) = IF e \in R THEN Append(Only(r, R), e) ELSE Only(r, R)
      BY OnlyAppend
    <3> QED
      BY <3>3, <3>4, <3>5
  <2> QED
    BY <2>0, <2>2
<1> HIDE DEF T
<1>3. Seq(A) \subseteq T
  BY <1>1, <1>2, Inductive
<1> QED
  BY <1>3 DEF T

\* Of what is in the set, all; of nothing, nothing.
LEMMA OnlyWhole ==
    ASSUME NEW A, NEW s \in Seq(A), NEW S, \A k \in DOMAIN s : s[k] \in S
    PROVE  Only(s, S) = s
<1> DEFINE B == {a \in A : a \in S}
           T == {r \in Seq(B) : Only(r, S) = r}
<1>1. <<>> \in T
  BY OnlyEmpty
<1>2. ASSUME NEW r \in Seq(B), NEW e \in B, r \in T PROVE Append(r, e) \in T
  <2>1. r \in Seq(A) /\ e \in A /\ e \in S /\ Append(r, e) \in Seq(B) /\ Only(r, S) = r
    BY <1>2
  <2>2. Only(Append(r, e), S) = Append(r, e)
    BY <2>1, OnlyAppend
  <2> QED
    BY <2>1, <2>2
<1>3. s \in Seq(B)
  <2>1. \A k \in 1..Len(s) : s[k] \in B
    OBVIOUS
  <2> QED
    BY <2>1
<1> HIDE DEF T
<1>4. Seq(B) \subseteq T
  BY <1>1, <1>2, Inductive
<1> QED
  BY <1>3, <1>4 DEF T

LEMMA OnlyOthers ==
    ASSUME NEW A, NEW s \in Seq(A), NEW S, \A k \in DOMAIN s : s[k] \notin S
    PROVE  Only(s, S) = <<>>
<1>0. s \in Seq(A \ S)
  OBVIOUS
<1>1. <<>> \in Seq(A) /\ <<>> \o s = s
  OBVIOUS
<1>2. Only(<<>> \o s, S) = Only(<<>>, S)
  <2>1. PICK none \in Seq(A) : none = <<>>
    BY <1>1
  <2>2. Only(none \o s, S) = Only(none, S)
    BY <1>0, OnlyNone
  <2> QED
    BY <2>1, <2>2
<1> QED
  BY <1>1, <1>2, OnlyEmpty
=============================================================================
