---------------------------- MODULE KernelProofs ----------------------------
(***************************************************************************)
(* Proofs about Kernel, for any number of plugins and services, any        *)
(* wiring, hooks that fail or unload other plugins, and calls of the       *)
(* host's in any order.                                                    *)
(*                                                                         *)
(* What carries them is that a sweep goes one way.  It grows: nothing is   *)
(* being withdrawn, so what runs keeps what it requires and plugins are    *)
(* only activated (Growing).  Or it shrinks: a capability went away and    *)
(* nobody waits for one that is there, so plugins are only deactivated     *)
(* (Shrinking).  A sweep that did both could activate a plugin again whose *)
(* withdrawal is parked, and then take back what it just published.        *)
(***************************************************************************)
EXTENDS Kernel, SubsequencesProofs, FiniteSetTheorems

States == {"none", "Pending", "Active", "Failed", "Unloaded"}
Places == {"idle", "mount", "ready", "stale", "withdraw", "revert", "close"}
Sweeping == {"ready", "stale", "withdraw"}
Slot == [provider : Plugins \cup {None}, retiring : BOOLEAN]

\* No element twice.
Distinct(s) == \A i, j \in DOMAIN s : s[i] = s[j] => i = j

Tables ==
    /\ plugins \in Seq(Plugins) /\ state \in [Plugins -> States]
    /\ activated \in [Plugins -> Nat] /\ activations \in Nat
    /\ effects \in [Plugins -> Seq(Keys)] /\ services \in [Keys -> Slot]
    /\ withdrawals \subseteq Plugins
Course ==
    /\ wiring \in Wirings /\ staged \in Seq(Plugins)
    /\ pc \in Places /\ todo \in Seq(Plugins) /\ moved \in BOOLEAN /\ rounds \in Nat
    /\ target \in Plugins \cup {None} /\ disposer \in Seq(Keys)
    /\ closing \in [under : BOOLEAN, left : Seq(Plugins)]

\* The list of the plugins has each of them once.
Listed == Distinct(plugins) /\ \A p \in Plugins : p \in Range(plugins) <=> state[p] # "none"

\* What a call under way has still to do, and only a call.
Called ==
    /\ pc \in {"idle", "mount", "close"} => target = None
    /\ target = None => disposer = <<>>
    /\ pc = "revert" => target # None
    /\ target # None => state[target] = "Unloaded"
    /\ pc \notin Sweeping => withdrawals = {}
    /\ pc = "close" => closing.under
    /\ pc \in {"idle", "mount"} => ~closing.under
    /\ pc \in Sweeping /\ closing.under => target # None
    /\ pc = "mount" => started
    /\ ~started => plugins = <<>>

\* A service is an active plugin's, with an effect to take it back, or is being
\* withdrawn with the plugin that published it.
Owned ==
    /\ \A k \in Keys :
        LET p == services[k].provider
        IN  IF p = None THEN ~services[k].retiring
            ELSE \/ state[p] = "Active" /\ ~services[k].retiring /\ k \in Range(effects[p])
                 \/ services[k].retiring /\ p \in withdrawals \cup {target}
    /\ \A p \in Plugins : \A k \in Range(effects[p]) :
        state[p] = "Active" /\ services[k].provider = p

WithdrawnOnes == \A p \in withdrawals : state[p] \in {"Pending", "Unloaded"}

\* Activations are numbered as they happen.
Aged ==
    /\ \A p \in Plugins : activated[p] <= activations
    /\ \A p, q \in Plugins :
        state[p] = "Active" /\ state[q] = "Active" /\ activated[p] = activated[q] => p = q

\* Nobody waits for what is there, and nobody runs without what it requires.
NobodyReady == \A p \in Plugins : state[p] = "Pending" => ~Satisfied(p)
NobodyStale == \A p \in Plugins : state[p] = "Active" => Satisfied(p)
Settled == NobodyReady /\ NobodyStale

\* Nothing was ever activated, since the start or the last shutdown.
Fresh == (\A p \in Plugins : state[p] # "Active") /\ \A k \in Keys : services[k] = NoSlot

Those(s) == {p \in Plugins : state[p] = s}

\* The rounds left are more than the plugins that may yet move.
Enough(s) == rounds >= Cardinality(Those(s)) + (IF moved THEN 2 ELSE 1)

Growing ==
    /\ withdrawals = {} /\ NobodyStale /\ Enough("Pending")
    /\ \A k \in Keys : ~services[k].retiring
    /\ pc = "ready" =>
        /\ Distinct(todo)
        /\ \A p \in Range(todo) : state[p] = "Pending" /\ Satisfied(p)
        /\ ~moved => \A p \in Plugins : state[p] = "Pending" /\ Satisfied(p) => p \in Range(todo)
    /\ pc = "stale" => todo = <<>> /\ (~moved => NobodyReady)

Shrinking ==
    /\ NobodyReady /\ Enough("Active")
    /\ pc = "ready" => todo = <<>>
    /\ pc = "stale" =>
        /\ Distinct(todo)
        /\ \A p \in Range(todo) :
            /\ ~Satisfied(p) /\ p # target
            /\ state[p] = "Active" \/ (state[p] = "Unloaded" /\ moved /\ wiring.unloads)
        /\ ~moved => \A p \in Plugins : state[p] = "Active" /\ ~Satisfied(p) => p \in Range(todo)

\* Where the call is says how far the plugins and the services agree.
Reconciled ==
    /\ pc \in {"ready", "stale"} => Growing \/ Shrinking
    /\ pc \in {"withdraw", "revert"} => Settled
    /\ pc \in {"idle", "close"} => NobodyStale /\ (NobodyReady \/ Fresh)
    /\ pc = "mount" => Fresh

\* A shutdown is of the active plugins, newest first, and moves nobody else.
Closing ==
    closing.under =>
        /\ withdrawals = {} /\ NobodyStale
        /\ pc \in {"ready", "stale"} => NobodyReady /\ todo = <<>> /\ ~moved
        /\ Range(closing.left) = Those("Active")
        /\ \A i, j \in DOMAIN closing.left :
            i < j => activated[closing.left[i]] > activated[closing.left[j]]

KernelInv ==
    /\ Tables /\ Course /\ Listed /\ Called /\ Owned /\ WithdrawnOnes /\ Aged
    /\ Reconciled /\ Closing /\ SupplierIsOlder /\ BorrowedResolves

-----------------------------------------------------------------------------
(***************************************************************************)
(* Lists of plugins.                                                       *)
(***************************************************************************)
\* The value that stands for no plugin is none.
LEMMA NoneApart == None \notin Plugins
BY NoneAssumption DEF None

\* What a wiring says is of plugins and keys.
LEMMA WiringIs ==
    ASSUME wiring \in Wirings
    PROVE  /\ wiring.requires \in [Plugins -> SUBSET Keys]
           /\ wiring.provides \in [Plugins -> Seq(Keys)]
           /\ wiring.declared \in Seq(Plugins)
           /\ wiring.fails \in BOOLEAN /\ wiring.unloads \in BOOLEAN
BY WiringAssumption

\* A filtered list has what is in both, as often as before.
LEMMA OnlyHas ==
    ASSUME NEW q \in Seq(Plugins), NEW S
    PROVE  /\ Only(q, S) \in Seq(Plugins) /\ Range(Only(q, S)) = Range(q) \cap S
           /\ Distinct(q) => Distinct(Only(q, S))
<1> DEFINE o == Only(q, S)
<1>1. Takes(o, q, S, Plugins)
  BY OnlyTakes
<1> HIDE DEF o
<1>2. /\ o \in Seq(Plugins)
      /\ \A i \in DOMAIN o : o[i] \in S /\ \E k \in DOMAIN q : q[k] = o[i]
      /\ \A k \in DOMAIN q : q[k] \in S => \E i \in DOMAIN o : o[i] = q[k]
      /\ \A i, j \in DOMAIN o : i < j =>
            \E k, l \in DOMAIN q : k < l /\ q[k] = o[i] /\ q[l] = o[j]
  BY <1>1 DEF Takes
<1>3. Range(o) = Range(q) \cap S
  BY <1>2 DEF Range
<1>4. ASSUME Distinct(q) PROVE Distinct(o)
  <2> SUFFICES ASSUME NEW i \in DOMAIN o, NEW j \in DOMAIN o, o[i] = o[j], i # j PROVE FALSE
    BY DEF Distinct
  <2>0. i \in Nat /\ j \in Nat /\ \A k \in DOMAIN q : k \in Nat
    <3>1. DOMAIN o = 1..Len(o) /\ DOMAIN q = 1..Len(q)
      BY <1>2
    <3> QED
      BY <3>1
  <2>1. CASE i < j
    BY <1>2, <1>4, <2>0, <2>1 DEF Distinct
  <2>2. CASE j < i
    BY <1>2, <1>4, <2>0, <2>2 DEF Distinct
  <2> QED
    BY <2>0, <2>1, <2>2
<1> QED
  BY <1>2, <1>3, <1>4 DEF o

\* One more at the end.
LEMMA AppendHas ==
    ASSUME NEW q \in Seq(Plugins), NEW p \in Plugins
    PROVE  /\ Append(q, p) \in Seq(Plugins) /\ Range(Append(q, p)) = Range(q) \cup {p}
           /\ Distinct(q) /\ p \notin Range(q) => Distinct(Append(q, p))
<1> DEFINE u == Append(q, p)
<1>1. /\ u \in Seq(Plugins) /\ DOMAIN u = 1..(Len(q) + 1) /\ DOMAIN q = 1..Len(q) /\ Len(q) \in Nat
      /\ u[Len(q) + 1] = p /\ \A k \in 1..Len(q) : u[k] = q[k]
  OBVIOUS
<1> HIDE DEF u
<1>2. Range(u) = Range(q) \cup {p}
  <2>1. ASSUME NEW x \in Range(u) PROVE x \in Range(q) \cup {p}
    BY <1>1 DEF Range
  <2>2. ASSUME NEW x \in Range(q) \cup {p} PROVE x \in Range(u)
    <3>1. Len(q) + 1 \in DOMAIN u /\ \A k \in DOMAIN q : k \in DOMAIN u
      BY <1>1
    <3> QED
      BY <1>1, <2>2, <3>1 DEF Range
  <2> QED
    BY <2>1, <2>2
<1>3. ASSUME Distinct(q), p \notin Range(q) PROVE Distinct(u)
  <2>1. \A k \in DOMAIN q : q[k] # p
    BY <1>3 DEF Range
  <2> QED
    BY <1>1, <1>3, <2>1 DEF Distinct
<1> QED
  BY <1>1, <1>2, <1>3 DEF u

\* The head, and the rest.
LEMMA TailHas ==
    ASSUME NEW q \in Seq(Plugins), q # <<>>
    PROVE  /\ Head(q) \in Plugins /\ Tail(q) \in Seq(Plugins)
           /\ Range(q) = Range(Tail(q)) \cup {Head(q)}
           /\ Distinct(q) => Distinct(Tail(q)) /\ Head(q) \notin Range(Tail(q))
<1> DEFINE u == Tail(q)
<1>1. /\ u \in Seq(Plugins) /\ Len(q) \in Nat \ {0} /\ DOMAIN u = 1..(Len(q) - 1) /\ DOMAIN q = 1..Len(q)
      /\ Head(q) = q[1] /\ Head(q) \in Plugins /\ \A k \in 1..(Len(q) - 1) : u[k] = q[k + 1]
  OBVIOUS
<1> HIDE DEF u
<1>2. Range(q) = Range(u) \cup {Head(q)}
  <2>1. ASSUME NEW x \in Range(u) \cup {Head(q)} PROVE x \in Range(q)
    <3>1. 1 \in DOMAIN q /\ \A k \in DOMAIN u : k + 1 \in DOMAIN q
      BY <1>1
    <3> QED
      BY <1>1, <2>1, <3>1 DEF Range
  <2>2. ASSUME NEW k \in DOMAIN q PROVE q[k] \in Range(u) \cup {Head(q)}
    <3>1. CASE k = 1
      BY <1>1, <3>1
    <3>2. CASE k # 1
      <4>1. k - 1 \in DOMAIN u /\ u[k - 1] = q[k]
        BY <1>1, <3>2
      <4> QED
        BY <4>1 DEF Range
    <3> QED
      BY <3>1, <3>2
  <2> QED
    BY <2>1, <2>2 DEF Range
<1>3. ASSUME Distinct(q) PROVE Distinct(u) /\ Head(q) \notin Range(u)
  <2>1. Distinct(u)
    <3> SUFFICES ASSUME NEW i \in DOMAIN u, NEW j \in DOMAIN u, u[i] = u[j] PROVE i = j
      BY DEF Distinct
    <3>1. i + 1 \in DOMAIN q /\ j + 1 \in DOMAIN q /\ q[i + 1] = q[j + 1] /\ i \in Nat /\ j \in Nat
      BY <1>1
    <3>2. i + 1 = j + 1
      BY <1>3, <3>1 DEF Distinct
    <3> QED
      BY <3>1, <3>2
  <2>2. ASSUME NEW i \in DOMAIN u, u[i] = Head(q) PROVE FALSE
    <3>1. i + 1 \in DOMAIN q /\ 1 \in DOMAIN q /\ q[i + 1] = q[1] /\ i \in Nat /\ i # 0
      BY <1>1, <2>2
    <3>2. i + 1 = 1
      BY <1>3, <3>1 DEF Distinct
    <3> QED
      BY <3>1, <3>2
  <2> QED
    BY <2>1, <2>2 DEF Range
<1> QED
  BY <1>1, <1>2, <1>3 DEF u

\* A list of nothing is empty.
LEMMA EmptyHas == ASSUME NEW q \in Seq(Plugins) PROVE Range(q) = {} <=> q = <<>>
<1>1. ASSUME q # <<>> PROVE q[1] \in Range(q)
  <2>1. 1 \in DOMAIN q
    BY <1>1
  <2> QED
    BY <2>1 DEF Range
<1>2. Range(<<>>) = {}
  BY DEF Range
<1> QED
  BY <1>1, <1>2

\* What is picked from a list that has each plugin of a kind once.
LEMMA PickedIs ==
    ASSUME NEW q \in Seq(Plugins), Distinct(q), NEW T \in SUBSET Plugins, T \subseteq Range(q)
    PROVE  Only(q, T) \in Seq(Plugins) /\ Distinct(Only(q, T)) /\ Range(Only(q, T)) = T
BY OnlyHas

\* No more plugins of a kind than the list is long.
LEMMA CountIs ==
    ASSUME NEW q \in Seq(Plugins), NEW T \in SUBSET Plugins, T \subseteq Range(q)
    PROVE  IsFiniteSet(T) /\ Cardinality(T) \in Nat /\ Cardinality(T) <= Len(q)
<1>0. Len(q) \in Nat /\ DOMAIN q = 1..Len(q)
  OBVIOUS
<1>1. q \in Surjection(1..Len(q), Range(q))
  BY <1>0 DEF Surjection, Range
<1>2. IsFiniteSet(1..Len(q)) /\ Cardinality(1..Len(q)) = Len(q)
  BY <1>0, FS_Interval
<1>3. IsFiniteSet(Range(q)) /\ Cardinality(Range(q)) <= Len(q)
  BY <1>1, <1>2, FS_Surjection
<1>4. IsFiniteSet(T) /\ Cardinality(T) <= Cardinality(Range(q))
  BY <1>3, FS_Subset
<1>5. Cardinality(T) \in Nat /\ Cardinality(Range(q)) \in Nat
  BY <1>3, <1>4, FS_CardinalityType
<1> QED
  BY <1>0, <1>3, <1>4, <1>5

-----------------------------------------------------------------------------
(***************************************************************************)
(* What a step leaves as it was.                                           *)
(***************************************************************************)
\* The invariant, part by part.
LEMMA Parts ==
    ASSUME KernelInv
    PROVE  /\ Tables /\ Course /\ Listed /\ Called /\ Owned /\ WithdrawnOnes /\ Aged
           /\ Reconciled /\ Closing /\ SupplierIsOlder /\ BorrowedResolves
BY DEF KernelInv

\* And what every step may rely on.
LEMMA Types ==
    ASSUME KernelInv
    PROVE  /\ plugins \in Seq(Plugins) /\ state \in [Plugins -> States]
           /\ activated \in [Plugins -> Nat] /\ activations \in Nat
           /\ effects \in [Plugins -> Seq(Keys)] /\ services \in [Keys -> Slot]
           /\ withdrawals \subseteq Plugins
           /\ wiring.requires \in [Plugins -> SUBSET Keys] /\ wiring.provides \in [Plugins -> Seq(Keys)]
           /\ pc \in Places /\ todo \in Seq(Plugins) /\ moved \in BOOLEAN /\ rounds \in Nat
           /\ target \in Plugins \cup {None} /\ disposer \in Seq(Keys)
           /\ closing \in [under : BOOLEAN, left : Seq(Plugins)]
<1>1. Tables /\ Course
  BY Parts
<1> QED
  BY <1>1, WiringIs DEF Tables, Course

\* The list and the ages of plugins that keep their records.
LEMMA ListedSame == ASSUME Listed, UNCHANGED <<plugins, state>> PROVE Listed'
BY DEF Listed, Distinct

\* And the ages, where nobody is activated.
LEMMA AgedSame ==
    ASSUME Aged, UNCHANGED <<activated, activations>>,
           \A p \in Plugins : state'[p] = "Active" => state[p] = "Active"
    PROVE  Aged'
BY DEF Aged

\* Nothing comes to be there, or nothing goes.
Less == \A k \in Keys : Contains(k)' => Contains(k)
More == \A k \in Keys : Contains(k) => Contains(k)'

\* Where nothing comes to be there, nobody comes to wait for what is there.
LEMMA ReadySame ==
    ASSUME NobodyReady, Less, UNCHANGED wiring, wiring.requires \in [Plugins -> SUBSET Keys],
           \A p \in Plugins : state'[p] = "Pending" => state[p] = "Pending" \/ ~Satisfied(p)
    PROVE  NobodyReady'
BY DEF NobodyReady, Less, Satisfied

\* Where nothing goes, nobody comes to run without what it requires.
LEMMA StaleSame ==
    ASSUME NobodyStale, More, UNCHANGED wiring, wiring.requires \in [Plugins -> SUBSET Keys],
           \A p \in Plugins : state'[p] = "Active" => state[p] = "Active"
    PROVE  NobodyStale'
BY DEF NobodyStale, More, Satisfied

\* Where nothing is published, a supplier is the one it was or nobody.
LEMMA SupplierSame ==
    ASSUME SupplierIsOlder, UNCHANGED <<wiring, activated>>, wiring.requires \in [Plugins -> SUBSET Keys],
           \A p \in Plugins : state'[p] = "Active" => state[p] = "Active",
           \A k \in Keys : services'[k].provider \in {services[k].provider, None}
    PROVE  SupplierIsOlder'
BY DEF SupplierIsOlder

\* What runs on what is there can hand it back.
LEMMA ServedResolves ==
    (wiring.requires \in [Plugins -> SUBSET Keys] /\ NobodyStale) => BorrowedResolves
BY DEF NobodyStale, BorrowedResolves, Satisfied, Contains

\* Where nothing runs and nothing is published, nobody is stale.
LEMMA FreshServes == Fresh => NobodyStale
BY DEF Fresh, NobodyStale

-----------------------------------------------------------------------------
(***************************************************************************)
(* A sweep begins.                                                         *)
(***************************************************************************)
\* It visits those that wait for what is there, with a round for each plugin.
LEMMA SweepBegins ==
    ASSUME Tables', Listed', BeginSweep
    PROVE  /\ pc' = "ready" /\ todo' \in Seq(Plugins) /\ Distinct(todo') /\ moved' = FALSE
           /\ Range(todo') = {p \in Plugins : state'[p] = "Pending" /\ Satisfied(p)'}
           /\ rounds' \in Nat /\ Enough("Active")' /\ Enough("Pending")'
<1>1. /\ plugins' \in Seq(Plugins) /\ Distinct(plugins')
      /\ \A p \in Plugins : p \in Range(plugins') <=> state'[p] # "none"
  BY DEF Tables, Listed, Distinct
<1>2. /\ pc' = "ready" /\ moved' = FALSE /\ rounds' = Len(plugins') + 1
      /\ todo' = Only(plugins', {p \in Plugins : state'[p] = "Pending" /\ Satisfied(p)'})
  BY DEF BeginSweep, Ready, RoundsMax
<1> DEFINE T == {p \in Plugins : state'[p] = "Pending" /\ Satisfied(p)'}
<1>3. T \subseteq Range(plugins') /\ T \in SUBSET Plugins
  BY <1>1
<1> HIDE DEF T
<1>4. Only(plugins', T) \in Seq(Plugins) /\ Distinct(Only(plugins', T)) /\ Range(Only(plugins', T)) = T
  BY <1>1, <1>3, PickedIs
<1>5. ASSUME NEW s \in {"Active", "Pending"}
      PROVE  rounds' >= Cardinality({p \in Plugins : state'[p] = s}) + (IF moved' THEN 2 ELSE 1)
  <2> DEFINE U == {p \in Plugins : state'[p] = s}
  <2>1. U \subseteq Range(plugins') /\ U \in SUBSET Plugins
    BY <1>1
  <2> HIDE DEF U
  <2>2. Cardinality(U) \in Nat /\ Cardinality(U) <= Len(plugins')
    BY <1>1, <2>1, CountIs
  <2>3. Len(plugins') \in Nat
    BY <1>1
  <2>4. rounds' >= Cardinality(U) + (IF moved' THEN 2 ELSE 1)
    BY <1>2, <2>2, <2>3
  <2> QED
    BY <2>4 DEF U
<1>6. Enough("Active")' /\ Enough("Pending")'
  BY <1>5 DEF Enough, Those
<1>7. todo' = Only(plugins', T)
  BY <1>2 DEF T
<1>8. rounds' \in Nat
  BY <1>1, <1>2
<1> QED
  BY <1>2, <1>4, <1>6, <1>7, <1>8 DEF T

\* Where nobody waits for what is there, it shrinks.
LEMMA SweepShrinks ==
    ASSUME Tables', Listed', BeginSweep, NobodyReady'
    PROVE  /\ pc' = "ready" /\ todo' \in Seq(Plugins) /\ moved' = FALSE /\ rounds' \in Nat /\ todo' = <<>>
           /\ Shrinking' /\ Reconciled'
<1>1. /\ pc' = "ready" /\ todo' \in Seq(Plugins) /\ Distinct(todo') /\ moved' = FALSE
      /\ Range(todo') = {p \in Plugins : state'[p] = "Pending" /\ Satisfied(p)'}
      /\ rounds' \in Nat /\ Enough("Active")'
  BY SweepBegins
<1>2. \A p \in Plugins : state'[p] = "Pending" => ~Satisfied(p)'
  BY DEF NobodyReady
<1>3. todo' = <<>>
  BY <1>1, <1>2, EmptyHas
<1>4. Shrinking'
  BY <1>1, <1>3 DEF Shrinking
<1>5. Reconciled'
  BY <1>1, <1>4 DEF Reconciled
<1> QED
  BY <1>1, <1>3, <1>4, <1>5

\* Where nothing is going away, it grows.
LEMMA SweepGrows ==
    ASSUME Tables', Listed', BeginSweep, NobodyStale', withdrawals' = {},
           \A k \in Keys : ~services'[k].retiring
    PROVE  /\ pc' = "ready" /\ todo' \in Seq(Plugins) /\ moved' = FALSE /\ rounds' \in Nat
           /\ Growing' /\ Reconciled'
<1>1. /\ pc' = "ready" /\ todo' \in Seq(Plugins) /\ Distinct(todo') /\ moved' = FALSE
      /\ Range(todo') = {p \in Plugins : state'[p] = "Pending" /\ Satisfied(p)'}
      /\ rounds' \in Nat /\ Enough("Pending")'
  BY SweepBegins
<1>2. \A p \in Range(todo') : state'[p] = "Pending" /\ Satisfied(p)'
  BY <1>1
<1>3. \A p \in Plugins : state'[p] = "Pending" /\ Satisfied(p)' => p \in Range(todo')
  BY <1>1
<1>4. Growing'
  BY <1>1, <1>2, <1>3 DEF Growing, Distinct
<1>5. Reconciled'
  BY <1>1, <1>4 DEF Reconciled
<1> QED
  BY <1>1, <1>4, <1>5

\* Nobody stale after a step, so what is borrowed after it can be handed back.
LEMMA ServedAfter ==
    ASSUME Tables', Course', NobodyStale' PROVE BorrowedResolves'
<1>1. wiring'.requires \in [Plugins -> SUBSET Keys]
  BY WiringAssumption DEF Course
<1> QED
  BY <1>1 DEF NobodyStale, BorrowedResolves, Satisfied, Contains

\* Where nothing runs and nothing is published.
LEMMA FreshAfter ==
    ASSUME Fresh' PROVE NobodyStale' /\ SupplierIsOlder'
BY DEF Fresh, NobodyStale, SupplierIsOlder

\* Everything, part by part.
LEMMA Whole ==
    ASSUME Tables', Course', Listed', Called', Owned', WithdrawnOnes', Aged',
           Reconciled', Closing', SupplierIsOlder', BorrowedResolves'
    PROVE  KernelInv'
BY DEF KernelInv

\* The code starts with nothing.
LEMMA InitKernel == ASSUME Init PROVE KernelInv
<1>1. wiring \in Wirings /\ staged \in Seq(Plugins)
  BY WiringAssumption DEF Init
<1>2. Tables
  BY DEF Init, Tables, States, Slot, NoSlot, None
<1>3. Course
  <2>1. pc = "idle" /\ todo = <<>> /\ moved = FALSE /\ rounds = 0 /\ target = None /\ disposer = <<>>
        /\ closing = [under |-> FALSE, left |-> <<>>]
    BY DEF Init, Open
  <2>2. closing \in [under : BOOLEAN, left : Seq(Plugins)] /\ todo \in Seq(Plugins) /\ disposer \in Seq(Keys)
    BY <2>1
  <2>3. pc \in Places
    BY <2>1 DEF Places
  <2> QED
    BY <1>1, <2>1, <2>2, <2>3 DEF Course
<1>4. Listed
  BY EmptyHas DEF Init, Listed, Distinct, Range
<1>5. Called
  BY DEF Init, Called, Sweeping, None, Open
<1>6. Owned
  BY DEF Init, Owned, NoSlot, None, Range
<1>7. WithdrawnOnes /\ Aged
  BY DEF Init, WithdrawnOnes, Aged
<1>8. Fresh
  BY DEF Init, Fresh
<1>9. NobodyStale /\ SupplierIsOlder
  BY <1>8 DEF Fresh, NobodyStale, SupplierIsOlder
<1>10. Reconciled
  BY <1>8, <1>9 DEF Init, Reconciled
<1>11. Closing
  BY DEF Init, Closing, Open
<1>12. BorrowedResolves
  BY <1>8 DEF Fresh, BorrowedResolves
<1> QED
  BY <1>2, <1>3, <1>4, <1>5, <1>6, <1>7, <1>9, <1>10, <1>11, <1>12 DEF KernelInv

-----------------------------------------------------------------------------
(***************************************************************************)
(* start, up to its sweep, and refresh.                                    *)
(***************************************************************************)
\* Before it there is nothing.
LEMMA KernelStart == ASSUME KernelInv, Start PROVE KernelInv'
<1> USE Parts, Types
<1>1. /\ pc = "idle" /\ ~started /\ started' = TRUE /\ pc' = "mount"
      /\ UNCHANGED <<wiring, staged, plugins, state, activated, activations, effects, services,
                     withdrawals, todo, moved, rounds, target, disposer, closing>>
  BY DEF Start, records, registry, sweep, unload
<1>2. plugins = <<>> /\ target = None /\ withdrawals = {} /\ ~closing.under
  BY <1>1 DEF Called, Sweeping
<1>3. \A p \in Plugins : state[p] = "none"
  BY <1>2, EmptyHas DEF Listed
<1>4. \A k \in Keys : services[k] = NoSlot
  <2> SUFFICES ASSUME NEW k \in Keys PROVE services[k] = NoSlot
    OBVIOUS
  <2>1. services[k] \in Slot
    OBVIOUS
  <2>2. services[k].provider = None /\ ~services[k].retiring
    BY <1>2, <1>3, <2>1, NoneApart DEF Owned, Slot
  <2> QED
    BY <2>1, <2>2 DEF Slot, NoSlot
<1>5. Fresh'
  BY <1>1, <1>3, <1>4 DEF Fresh
<1>6. Tables' /\ Course'
  BY <1>1 DEF Tables, Course, Places
<1>7. Listed' /\ Owned' /\ WithdrawnOnes' /\ Aged' /\ SupplierIsOlder' /\ BorrowedResolves'
  BY <1>1 DEF Listed, Distinct, Owned, WithdrawnOnes, Aged, SupplierIsOlder, BorrowedResolves
<1>8. Called'
  BY <1>1, <1>2 DEF Called, Sweeping
<1>9. Reconciled' /\ Closing'
  BY <1>1, <1>2, <1>5 DEF Reconciled, Closing
<1> QED
  BY <1>6, <1>7, <1>8, <1>9, Whole

\* Mounting publishes nothing and activates nobody.
LEMMA KernelMountOne == ASSUME KernelInv, MountOne PROVE KernelInv'
<1> USE Parts, Types
<1>1. /\ pc = "mount" /\ staged # <<>>
      /\ UNCHANGED <<wiring, started, activated, activations, effects, services,
                     withdrawals, todo, moved, rounds, target, disposer, closing>>
  BY DEF MountOne, registry, sweep, unload
<1>2. target = None /\ withdrawals = {} /\ ~closing.under /\ started /\ Fresh /\ staged \in Seq(Plugins)
  BY <1>1 DEF Called, Sweeping, Reconciled, Course
<1> DEFINE h == Head(staged)
<1>3. h \in Plugins /\ Tail(staged) \in Seq(Plugins)
  BY <1>1, <1>2
<1>4. CASE state[h] = "none" /\ Mounted(h)
  <2> HIDE DEF h
  <2>1. /\ plugins' = Append(plugins, h) /\ state' = [state EXCEPT ![h] = "Pending"]
        /\ staged' = Tail(staged) /\ pc' = "mount"
    BY <1>1, <1>4 DEF Mounted, h
  <2>2. /\ \A p \in Plugins : state'[p] = IF p = h THEN "Pending" ELSE state[p]
        /\ state' \in [Plugins -> States]
    BY <1>3, <2>1 DEF States
  <2>3. h \notin Range(plugins)
    BY <1>3, <1>4 DEF Listed
  <2>4. plugins' \in Seq(Plugins) /\ Range(plugins') = Range(plugins) \cup {h} /\ Distinct(plugins')
    BY <1>3, <2>1, <2>3, AppendHas DEF Listed
  <2>5. Listed'
    BY <1>3, <2>2, <2>4 DEF Listed, Distinct
  <2>6. Fresh'
    BY <1>1, <1>2, <2>2 DEF Fresh
  <2>7. Tables'
    BY <1>1, <2>2, <2>4 DEF Tables
  <2>8. Course'
    BY <1>1, <1>3, <2>1 DEF Course
  <2>9. Called'
    BY <1>1, <1>2, <2>1 DEF Called, Sweeping
  <2>10. Owned'
    <3>1. \A p \in Plugins : state[p] # "Active"
      BY <1>2 DEF Fresh
    <3>2. \A p \in Plugins : \A k \in Range(effects[p]) : FALSE
      BY <3>1 DEF Owned
    <3>3. \A k \in Keys : services[k].provider = None /\ ~services[k].retiring
      BY <1>2 DEF Fresh, NoSlot
    <3> QED
      BY <1>1, <3>2, <3>3 DEF Owned
  <2>11. WithdrawnOnes'
    BY <1>1, <1>2 DEF WithdrawnOnes
  <2>12. Aged'
    BY <1>1, <2>2, AgedSame
  <2>13. Reconciled'
    BY <2>1, <2>6 DEF Reconciled
  <2>14. Closing'
    BY <1>1, <1>2 DEF Closing
  <2>15. BorrowedResolves' /\ SupplierIsOlder'
    BY <2>6, <2>7, <2>8, FreshAfter, ServedAfter
  <2> QED
    BY <2>5, <2>7, <2>8, <2>9, <2>10, <2>11, <2>12, <2>13, <2>14, <2>15, Whole
<1>5. CASE staged' = <<>> /\ pc' = "idle" /\ UNCHANGED <<plugins, state>>
  <2>1. Fresh'
    BY <1>1, <1>2, <1>5 DEF Fresh
  <2>2. Tables' /\ Course'
    BY SMTT(30), <1>1, <1>5 DEF Tables, Course, Places
  <2>3. Listed' /\ Owned' /\ WithdrawnOnes' /\ Aged' /\ SupplierIsOlder' /\ BorrowedResolves'
    BY <1>1, <1>5 DEF Listed, Distinct, Owned, WithdrawnOnes, Aged, SupplierIsOlder, BorrowedResolves
  <2>4. Called'
    BY <1>1, <1>2, <1>5 DEF Called, Sweeping
  <2>5. NobodyStale'
    BY <2>1, FreshAfter
  <2>6. Reconciled' /\ Closing'
    BY <1>1, <1>2, <1>5, <2>1, <2>5 DEF Reconciled, Closing
  <2> QED
    BY <2>2, <2>3, <2>4, <2>6, Whole
<1> QED
  BY <1>4, <1>5 DEF MountOne

\* A sweep of the host's begins where nothing is going away.
LEMMA KernelSweepStarts ==
    ASSUME KernelInv, pc \in {"idle", "mount"}, BeginSweep,
           UNCHANGED <<wiring, started, staged, records, registry, unload>>
    PROVE  KernelInv'
<1> USE Parts, Types
<1>1. /\ UNCHANGED <<wiring, started, staged, plugins, state, activated, activations, effects, services,
                     withdrawals, target, disposer, closing>>
  BY DEF records, registry, unload
<1>2. target = None /\ withdrawals = {} /\ ~closing.under
  BY <1>1 DEF Called, Sweeping
<1>3. NobodyStale
  BY FreshServes DEF Reconciled
<1>4. Tables'
  BY <1>1 DEF Tables
<1>5. Listed' /\ Owned' /\ WithdrawnOnes' /\ Aged' /\ SupplierIsOlder' /\ BorrowedResolves'
  BY <1>1 DEF Listed, Distinct, Owned, WithdrawnOnes, Aged, SupplierIsOlder, BorrowedResolves
<1>6. NobodyStale'
  BY <1>1, <1>3 DEF NobodyStale, Satisfied, Contains
<1>7. \A k \in Keys : ~services'[k].retiring
  BY <1>1, <1>2, NoneApart DEF Owned, Slot
<1>8. /\ pc' = "ready" /\ todo' \in Seq(Plugins) /\ moved' = FALSE /\ rounds' \in Nat
      /\ Reconciled'
  BY <1>1, <1>2, <1>4, <1>5, <1>6, <1>7, SweepGrows
<1>9. Course'
  BY <1>1, <1>8 DEF Course, Places
<1>10. Called'
  BY <1>1, <1>2, <1>8 DEF Called, Sweeping
<1>11. Closing'
  BY <1>1, <1>2 DEF Closing
<1> QED
  BY <1>4, <1>5, <1>8, <1>9, <1>10, <1>11, Whole

-----------------------------------------------------------------------------
(***************************************************************************)
(* Activating those that wait for what is there.                           *)
(***************************************************************************)
\* One of a kind less.
LEMMA OneFewer ==
    ASSUME NEW q \in Seq(Plugins), NEW T \in SUBSET Plugins, T \subseteq Range(q), NEW p \in T
    PROVE  /\ Cardinality(T) \in Nat \ {0} /\ Cardinality(T \ {p}) \in Nat
           /\ Cardinality(T \ {p}) = Cardinality(T) - 1
<1>1. IsFiniteSet(T) /\ Cardinality(T) \in Nat
  BY CountIs
<1>2. IsFiniteSet(T \ {p}) /\ Cardinality(T \ {p}) = Cardinality(T) - 1
  BY <1>1, FS_RemoveElement
<1>3. Cardinality(T \ {p}) \in Nat
  BY <1>2, FS_CardinalityType
<1> QED
  BY <1>1, <1>2, <1>3

\* Whom the pass visits, and what is there when it does.
LEMMA GrowingTurn ==
    ASSUME KernelInv, pc = "ready", todo # <<>>
    PROVE  /\ Growing /\ ~closing.under /\ withdrawals = {} /\ NobodyStale
           /\ Head(todo) \in Plugins /\ state[Head(todo)] = "Pending" /\ Satisfied(Head(todo))
           /\ Tail(todo) \in Seq(Plugins) /\ Distinct(Tail(todo)) /\ Head(todo) \notin Range(Tail(todo))
           /\ \A q \in Range(Tail(todo)) : q \in Plugins /\ state[q] = "Pending" /\ Satisfied(q)
           /\ \A k \in Keys : services[k] = NoSlot \/
                /\ services[k].provider \in Plugins /\ state[services[k].provider] = "Active"
                /\ k \in Range(effects[services[k].provider])
           /\ \A k \in Keys : ~services[k].retiring
<1> USE Parts, Types
<1>1. Growing /\ ~closing.under
  <2>1. ~Shrinking
    BY DEF Shrinking
  <2>2. Growing
    BY <2>1 DEF Reconciled
  <2>3. ~closing.under
    BY DEF Closing
  <2> QED
    BY <2>2, <2>3
<1>2. /\ withdrawals = {} /\ NobodyStale /\ Distinct(todo) /\ \A k \in Keys : ~services[k].retiring
      /\ \A p \in Range(todo) : state[p] = "Pending" /\ Satisfied(p)
  BY <1>1 DEF Growing
<1>3. /\ Head(todo) \in Plugins /\ Tail(todo) \in Seq(Plugins)
      /\ Range(todo) = Range(Tail(todo)) \cup {Head(todo)}
      /\ Distinct(Tail(todo)) /\ Head(todo) \notin Range(Tail(todo))
  BY <1>2, TailHas
<1>4. /\ state[Head(todo)] = "Pending" /\ Satisfied(Head(todo))
      /\ \A q \in Range(Tail(todo)) : q \in Plugins /\ state[q] = "Pending" /\ Satisfied(q)
  <2>1. \A q \in Range(Tail(todo)) : q \in Plugins
    BY SMTT(30), <1>3 DEF Range
  <2> QED
    BY <1>2, <1>3, <2>1
<1>5. ASSUME NEW k \in Keys
      PROVE  services[k] = NoSlot \/
                /\ services[k].provider \in Plugins /\ state[services[k].provider] = "Active"
                /\ k \in Range(effects[services[k].provider])
  <2>1. services[k] \in Slot /\ ~services[k].retiring
    BY <1>2
  <2>2. CASE services[k].provider = None
    BY <2>1, <2>2 DEF Slot, NoSlot
  <2>3. CASE services[k].provider # None
    BY <2>1, <2>3 DEF Slot, Owned
  <2> QED
    BY <2>2, <2>3
<1> QED
  BY <1>1, <1>2, <1>3, <1>4, <1>5

\* After the visit it goes on growing, with one less to activate.
LEMMA GrowthKept ==
    ASSUME KernelInv, pc = "ready", todo # <<>>, pc' = "ready", todo' = Tail(todo), moved' = TRUE,
           UNCHANGED <<wiring, rounds, withdrawals>>, NEW s \in {"Active", "Failed"},
           state' = [state EXCEPT ![Head(todo)] = s], More, NobodyStale',
           \A k \in Keys : ~services'[k].retiring
    PROVE  Growing'
<1> USE Parts, Types
<1> DEFINE p == Head(todo)
<1>1. /\ withdrawals = {} /\ p \in Plugins /\ state[p] = "Pending" /\ Growing
      /\ Tail(todo) \in Seq(Plugins) /\ Distinct(Tail(todo)) /\ p \notin Range(Tail(todo))
      /\ \A q \in Range(Tail(todo)) : q \in Plugins /\ state[q] = "Pending" /\ Satisfied(q)
  BY GrowingTurn
<1> HIDE DEF p
<1>2. \A q \in Plugins : state'[q] = IF q = p THEN s ELSE state[q]
  BY <1>1 DEF p
<1>3. \A q \in Range(todo') : state'[q] = "Pending" /\ Satisfied(q)'
  <2>1. \A q \in Plugins : Satisfied(q) => Satisfied(q)'
    BY DEF More, Satisfied
  <2> QED
    BY <1>1, <1>2, <2>1
<1>4. Enough("Pending")'
  <2> DEFINE T == {q \in Plugins : state[q] = "Pending"}
  <2>1. {q \in Plugins : state'[q] = "Pending"} = T \ {p}
    BY <1>1, <1>2
  <2>2. p \in T /\ T \in SUBSET Plugins /\ T \subseteq Range(plugins)
    BY <1>1 DEF Listed
  <2>3. rounds >= Cardinality(T) + (IF moved THEN 2 ELSE 1)
    BY <1>1 DEF Growing, Enough, Those
  <2> HIDE DEF T
  <2>4. Cardinality(T) \in Nat \ {0} /\ Cardinality(T \ {p}) = Cardinality(T) - 1
    BY <2>2, OneFewer
  <2>5. rounds >= Cardinality(T \ {p}) + 2
    BY <2>3, <2>4
  <2> QED
    BY <2>1, <2>5 DEF Enough, Those
<1>5. Distinct(todo')
  BY <1>1
<1> QED
  BY <1>1, <1>3, <1>4, <1>5 DEF Growing, Distinct

\* Nobody's name is taken over, so what runs keeps its suppliers, all of which
\* were activated before the one that starts.
LEMMA KernelActivate == ASSUME KernelInv, Activate PROVE KernelInv'
<1> USE Parts, Types
<1> DEFINE p == Head(todo)
           keys == wiring.provides[p]
<1>0. activations \in Nat /\ \A q \in Plugins : activated[q] \in Nat
  OBVIOUS
<1>1. /\ pc = "ready" /\ todo # <<>> /\ \A k \in Range(keys) : Free(k, p)
      /\ services' = [k \in Keys |-> IF k \in Range(keys)
                              THEN [provider |-> p, retiring |-> FALSE] ELSE services[k]]
      /\ effects' = [effects EXCEPT ![p] = keys]
      /\ state' = [state EXCEPT ![p] = "Active"]
      /\ activations' = activations + 1
      /\ activated' = [activated EXCEPT ![p] = activations + 1]
      /\ todo' = Tail(todo) /\ moved' = TRUE /\ pc' = "ready"
      /\ UNCHANGED <<wiring, started, staged, plugins, withdrawals, rounds, target, disposer, closing>>
  BY DEF Activate, unload
<1>2. /\ Growing /\ ~closing.under /\ withdrawals = {} /\ NobodyStale
      /\ p \in Plugins /\ state[p] = "Pending" /\ Satisfied(p) /\ Tail(todo) \in Seq(Plugins)
      /\ \A k \in Keys : services[k] = NoSlot \/
                /\ services[k].provider \in Plugins /\ state[services[k].provider] = "Active"
                /\ k \in Range(effects[services[k].provider])
      /\ \A k \in Keys : ~services[k].retiring
  BY <1>1, GrowingTurn
<1>3. keys \in Seq(Keys) /\ Range(keys) \subseteq Keys
  BY <1>2 DEF Range
<1>4. /\ \A q \in Plugins : state'[q] = IF q = p THEN "Active" ELSE state[q]
      /\ \A q \in Plugins : effects'[q] = IF q = p THEN keys ELSE effects[q]
      /\ \A q \in Plugins : activated'[q] = IF q = p THEN activations + 1 ELSE activated[q]
      /\ \A k \in Keys : services'[k] = IF k \in Range(keys) THEN [provider |-> p, retiring |-> FALSE]
                                         ELSE services[k]
  BY <1>1, <1>2
<1>41. \A k \in Range(keys) : k \in Keys /\ services[k].provider \in {None, p}
  BY <1>1, <1>3 DEF Free
<1>42. /\ \A k \in Keys : k \in Range(keys) => services'[k].provider = p /\ services'[k].retiring = FALSE
      /\ \A k \in Keys : k \notin Range(keys) => services'[k] = services[k]
  <2> HIDE Parts, Types
  <2> HIDE DEF keys, p
  <2>1. ASSUME NEW k \in Keys, k \in Range(keys)
        PROVE  services'[k].provider = p /\ services'[k].retiring = FALSE
    BY <1>4, <2>1
  <2>2. ASSUME NEW k \in Keys, k \notin Range(keys) PROVE services'[k] = services[k]
    BY <1>4, <2>2
  <2> QED
    BY <2>1, <2>2
<1> HIDE DEF keys, p
<1>5. state' \in [Plugins -> States] /\ effects' \in [Plugins -> Seq(Keys)] /\ activated' \in [Plugins -> Nat]
      /\ services' \in [Keys -> Slot] /\ activations' \in Nat
  <2>1. [provider |-> p, retiring |-> FALSE] \in Slot
    BY <1>2 DEF Slot
  <2>2. services' \in [Keys -> Slot]
    BY <1>1, <2>1
  <2>3. state' \in [Plugins -> States]
    BY <1>1, <1>2 DEF States
  <2>4. effects' \in [Plugins -> Seq(Keys)]
    BY <1>1, <1>2, <1>3
  <2>5. activated' \in [Plugins -> Nat]
    <3>1. activations + 1 \in Nat /\ activated \in [Plugins -> Nat]
      BY <1>0
    <3> QED
      BY <1>1, <1>2, <3>1
  <2>6. activations' \in Nat
    BY <1>0, <1>1
  <2> QED
    BY <2>2, <2>3, <2>4, <2>5, <2>6
<1>6. \A k \in Range(keys) : services[k] = NoSlot
  BY <1>2, <1>41, NoneApart
<1>7. More
  BY <1>2, <1>42, NoneApart DEF More, Contains
<1>8. \A k \in Keys : ~services'[k].retiring
  BY <1>2, <1>42
<1>9. ASSUME NEW q \in Plugins, state[q] = "Active" \/ q = p, NEW k \in wiring.requires[q]
      PROVE  /\ k \in Keys /\ Contains(k)' /\ services'[k] = services[k]
             /\ services[k].provider \in Plugins /\ state[services[k].provider] = "Active"
  <2>1. k \in Keys /\ Contains(k)
    BY <1>2, <1>9 DEF NobodyStale, Satisfied
  <2>2. services[k] # NoSlot
    BY <2>1 DEF Contains, NoSlot
  <2> QED
    BY <1>2, <1>6, <1>42, <1>7, <2>1, <2>2 DEF Contains, More
<1>10. NobodyStale'
  BY <1>4, <1>9, <1>1 DEF NobodyStale, Satisfied
<1> HIDE Parts, Types
<1>11. SupplierIsOlder'
  <2> SUFFICES ASSUME NEW q \in Plugins, state'[q] = "Active", NEW k \in wiring.requires[q]
               PROVE  activated'[services'[k].provider] < activated'[q]
    BY <1>1 DEF SupplierIsOlder
  <2>1. PICK u \in Plugins : /\ services'[k] = services[k] /\ u = services[k].provider
                           /\ state[u] = "Active" /\ u # None /\ u # p
    <3>1. k \in wiring.requires[q] /\ (state[q] = "Active" \/ q = p)
      BY <1>1, <1>4
    <3> QED
      BY <1>2, <1>9, <3>1, NoneApart
  <2>2. activated'[u] = activated[u] /\ activated[u] \in Nat /\ activated[u] <= activations
    BY <1>0, <1>4, <2>1, Parts DEF Aged
  <2>3. CASE q = p
    BY <1>0, <1>4, <2>1, <2>2, <2>3
  <2>4. CASE q # p
    <3>1. state[q] = "Active" /\ k \in wiring.requires[q] /\ activated'[q] = activated[q]
      BY <1>1, <1>4, <2>4
    <3>2. activated[u] < activated[q]
      BY <2>1, <3>1, Parts DEF SupplierIsOlder
    <3> QED
      BY <2>1, <2>2, <3>1, <3>2
  <2> QED
    BY <2>3, <2>4
<1>12. Tables'
  BY <1>1, <1>5, Types DEF Tables
<1>13. Course'
  BY <1>1, <1>2, Parts DEF Course
<1>14. Listed'
  BY <1>1, <1>2, <1>4, Parts DEF Listed, Distinct
<1>15. Called'
  BY <1>1, <1>2, <1>4, NoneApart, Parts DEF Called, Sweeping
<1>16. Owned'
  <2>1. ASSUME NEW k \in Keys
        PROVE  \/ services'[k].provider = None /\ ~services'[k].retiring
               \/ /\ services'[k].provider # None /\ state'[services'[k].provider] = "Active"
                  /\ ~services'[k].retiring /\ k \in Range(effects'[services'[k].provider])
    <3>1. CASE k \in Range(keys)
      <4>1. services'[k].provider = p /\ ~services'[k].retiring /\ state'[p] = "Active" /\ effects'[p] = keys
        BY <1>2, <1>4, <1>42, <3>1
      <4> QED
        BY <1>2, <3>1, <4>1, NoneApart
    <3>2. CASE k \notin Range(keys)
      <4>1. services'[k] = services[k] /\ ~services[k].retiring
        BY <1>2, <1>42, <3>2
      <4>2. CASE services[k] = NoSlot
        BY <4>1, <4>2 DEF NoSlot
      <4>3. CASE services[k] # NoSlot
        <5> DEFINE u == services[k].provider
        <5>1. u \in Plugins /\ state[u] = "Active" /\ k \in Range(effects[u]) /\ u # p /\ u # None
          BY <1>2, <4>3, NoneApart
        <5>2. state'[u] = "Active" /\ effects'[u] = effects[u]
          BY <1>4, <5>1
        <5> QED
          BY <4>1, <5>1, <5>2
      <4> QED
        BY <4>2, <4>3
    <3> QED
      BY <3>1, <3>2
  <2>2. ASSUME NEW q \in Plugins, NEW k \in Range(effects'[q])
        PROVE  state'[q] = "Active" /\ services'[k].provider = q
    <3>1. CASE q = p
      <4>1. effects'[q] = keys /\ state'[q] = "Active"
        BY <1>2, <1>4, <3>1
      <4>2. k \in Range(keys) /\ k \in Keys
        BY <1>3, <2>2, <4>1
      <4> QED
        BY <1>42, <3>1, <4>1, <4>2
    <3>2. CASE q # p
      <4>1. k \in Range(effects[q])
        BY <1>4, <2>2, <3>2
      <4>2. state[q] = "Active" /\ services[k].provider = q /\ k \in Keys
        BY <4>1, Types, Parts DEF Owned, Range
      <4>3. k \notin Range(keys)
        BY <1>6, <4>2, NoneApart DEF NoSlot
      <4> QED
        BY <1>4, <1>42, <3>2, <4>2, <4>3
    <3> QED
      BY <3>1, <3>2
  <2> QED
    BY <2>1, <2>2 DEF Owned
<1>17. WithdrawnOnes'
  BY <1>1, <1>2, Parts DEF WithdrawnOnes
<1>18. Aged'
  <2>1. \A q \in Plugins : activated'[q] <= activations'
    <3> SUFFICES ASSUME NEW q \in Plugins PROVE activated'[q] <= activations + 1
      BY <1>1
    <3>1. activated[q] \in Nat /\ activated[q] <= activations
      BY Parts, Types DEF Aged
    <3> QED
      BY <1>0, <1>4, <3>1
  <2>2. ASSUME NEW q \in Plugins, NEW r \in Plugins, state'[q] = "Active", state'[r] = "Active",
               activated'[q] = activated'[r]
        PROVE  q = r
    <3>1. \A r0 \in Plugins : activated[r0] \in Nat /\ activated[r0] < activations + 1
      <4>1. \A r0 \in Plugins : activated[r0] \in Nat /\ activated[r0] <= activations
        BY Parts, Types DEF Aged
      <4> QED
        BY <1>0, <4>1
    <3>2. CASE q # p /\ r # p
      BY <1>4, <2>2, <3>2, Parts DEF Aged
    <3>3. CASE (q = p /\ r # p) \/ (q # p /\ r = p)
      <4>1. activated'[p] = activations + 1 /\ \A r0 \in Plugins : r0 # p => activated'[r0] < activations + 1
        BY <1>2, <1>4, <3>1
      <4>2. \A r0 \in Plugins : r0 # p => activated'[r0] \in Nat
        BY <1>0, <1>4
      <4> QED
        BY <1>0, <1>2, <2>2, <3>3, <4>1, <4>2
    <3> QED
      BY <3>2, <3>3
  <2> QED
    BY <2>1, <2>2 DEF Aged
<1>19. Growing'
  BY <1>1, <1>7, <1>8, <1>10, GrowthKept DEF p
<1>20. Reconciled'
  BY <1>1, <1>19 DEF Reconciled
<1>21. Closing'
  BY <1>1, <1>2 DEF Closing
<1>22. BorrowedResolves'
  BY <1>10, <1>12, <1>13, ServedAfter
<1> QED
  BY <1>11, <1>12, <1>13, <1>14, <1>15, <1>16, <1>17, <1>18, <1>20, <1>21, <1>22, Whole

\* A mount that fails gives back what it published, which was nobody's.
LEMMA KernelMountFails == ASSUME KernelInv, MountFails PROVE KernelInv'
<1> USE Parts, Types
<1> DEFINE p == Head(todo)
<1>1. /\ pc = "ready" /\ todo # <<>> /\ state' = [state EXCEPT ![p] = "Failed"]
      /\ todo' = Tail(todo) /\ moved' = TRUE /\ pc' = "ready"
      /\ UNCHANGED <<wiring, started, staged, plugins, activated, activations, effects,
                     withdrawals, rounds, target, disposer, closing>>
  BY DEF MountFails, unload
<1>2. /\ ~closing.under /\ withdrawals = {} /\ NobodyStale
      /\ p \in Plugins /\ state[p] = "Pending" /\ Tail(todo) \in Seq(Plugins)
      /\ \A k \in Keys : services[k] = NoSlot \/
                /\ services[k].provider \in Plugins /\ state[services[k].provider] = "Active"
                /\ k \in Range(effects[services[k].provider])
      /\ \A k \in Keys : ~services[k].retiring
  BY <1>1, GrowingTurn
<1>3. services' = services
  <2>1. PICK n \in 0..Len(wiring.provides[p]) :
            /\ FailsAfter(p, n)
            /\ services' = [k \in Keys |-> IF \E i \in 1..n : wiring.provides[p][i] = k
                                           THEN NoSlot ELSE services[k]]
    BY DEF MountFails
  <2>2. \A i \in 1..n : wiring.provides[p][i] \in Keys => services[wiring.provides[p][i]] = NoSlot
    <3>1. \A i \in 1..n : services[wiring.provides[p][i]].provider \in {None, p}
      BY <2>1 DEF FailsAfter, Free
    <3> QED
      BY <1>2, <3>1, NoneApart
  <2>3. \A k \in Keys : services'[k] = services[k]
    BY <2>1, <2>2
  <2>4. DOMAIN services = Keys /\ services = [k \in Keys |-> services[k]]
    OBVIOUS
  <2>5. services' = [k \in Keys |-> services'[k]]
    BY <2>1
  <2>6. [k \in Keys |-> services'[k]] = [k \in Keys |-> services[k]]
    BY <2>3
  <2> QED
    BY <2>4, <2>5, <2>6
<1>4. \A q \in Plugins : state'[q] = IF q = p THEN "Failed" ELSE state[q]
  BY <1>1
<1>5. Tables'
  BY <1>1, <1>3 DEF Tables, States
<1>6. Course'
  BY <1>1, <1>2 DEF Course
<1>7. Listed'
  BY <1>1, <1>2, <1>4 DEF Listed, Distinct
<1>8. Called'
  BY <1>1, <1>2, <1>4, NoneApart DEF Called, Sweeping
<1>9. Owned'
  <2>1. ASSUME NEW k \in Keys, services[k].provider # None
        PROVE  state'[services[k].provider] = "Active" /\ k \in Range(effects[services[k].provider])
    <3> HIDE Parts, Types
    <3>1. services[k] # NoSlot
      BY <2>1 DEF NoSlot
    <3>2. /\ services[k].provider \in Plugins /\ state[services[k].provider] = "Active"
          /\ k \in Range(effects[services[k].provider])
      BY <1>2, <3>1
    <3> QED
      BY <1>2, <1>4, <3>2
  <2>2. \A q \in Plugins : \A k \in Range(effects[q]) : state'[q] = "Active" /\ services[k].provider = q
    BY <1>2, <1>4 DEF Owned
  <2> QED
    BY SMTT(30), <1>1, <1>2, <1>3, <2>1, <2>2 DEF Owned
<1>10. WithdrawnOnes'
  BY <1>1, <1>2 DEF WithdrawnOnes
<1>11. Aged'
  BY <1>1, <1>4, AgedSame
<1>12. More
  BY <1>3 DEF More, Contains
<1>13. NobodyStale'
  BY <1>1, <1>2, <1>4, <1>12, StaleSame
<1>14. SupplierIsOlder'
  BY <1>1, <1>3, <1>4, SupplierSame
<1>15. Growing'
  BY <1>1, <1>2, <1>3, <1>12, <1>13, GrowthKept
<1>16. Reconciled'
  BY <1>1, <1>15 DEF Reconciled
<1>17. Closing'
  BY <1>1, <1>2 DEF Closing
<1>18. BorrowedResolves'
  BY <1>5, <1>6, <1>13, ServedAfter
<1> QED
  BY <1>5, <1>6, <1>7, <1>8, <1>9, <1>10, <1>11, <1>14, <1>16, <1>17, <1>18, Whole

\* The pass over those that wait ends, and the one over the stale begins.
LEMMA KernelReadyDone == ASSUME KernelInv, ReadyDone PROVE KernelInv'
<1> USE Parts, Types
<1>1. /\ pc = "ready" /\ todo = <<>> /\ pc' = "stale"
      /\ todo' = Only(plugins, {p \in Plugins : state[p] = "Active" /\ ~Satisfied(p)})
      /\ UNCHANGED <<wiring, started, staged, plugins, state, activated, activations, effects, services,
                     withdrawals, moved, rounds, target, disposer, closing>>
  BY DEF ReadyDone, Stale, records, registry, unload
<1> DEFINE T == {p \in Plugins : state[p] = "Active" /\ ~Satisfied(p)}
<1>2. T \in SUBSET Plugins /\ T \subseteq Range(plugins) /\ Distinct(plugins)
  BY DEF Listed
<1>3. todo' \in Seq(Plugins) /\ Distinct(todo') /\ Range(todo') = T
  <2> HIDE DEF T
  <2>1. Only(plugins, T) \in Seq(Plugins) /\ Distinct(Only(plugins, T)) /\ Range(Only(plugins, T)) = T
    BY <1>2, PickedIs
  <2> QED
    BY <1>1, <2>1 DEF T
<1>4. /\ Tables' /\ Listed' /\ Owned' /\ WithdrawnOnes' /\ Aged' /\ SupplierIsOlder' /\ BorrowedResolves'
  BY <1>1 DEF Tables, Listed, Distinct, Owned, WithdrawnOnes, Aged, SupplierIsOlder, BorrowedResolves
<1>5. Course'
  BY <1>1, <1>3 DEF Course, Places
<1>6. Called'
  BY <1>1 DEF Called, Sweeping
<1>7. \A p \in Plugins : Satisfied(p)' = Satisfied(p)
  BY <1>1 DEF Satisfied, Contains
<1>8. /\ NobodyReady => NobodyReady'
      /\ NobodyStale => NobodyStale' /\ T = {}
  BY <1>1, <1>7 DEF NobodyReady, NobodyStale
<1>9. NobodyStale => todo' = <<>>
  BY <1>3, <1>8, EmptyHas
<1>10. (Enough("Active") => Enough("Active")') /\ (Enough("Pending") => Enough("Pending")')
  BY <1>1 DEF Enough, Those
<1>11. Growing \/ Shrinking
  BY <1>1 DEF Reconciled
<1>12. ASSUME Growing PROVE Growing'
  <2>1. ~moved => NobodyReady
    <3>1. ASSUME ~moved, NEW p \in Plugins, state[p] = "Pending", Satisfied(p) PROVE FALSE
      <4>1. p \in Range(todo)
        BY <1>1, <1>12, <3>1 DEF Growing
      <4> QED
        BY <1>1, <4>1, EmptyHas
    <3> QED
      BY <3>1 DEF NobodyReady
  <2>2. /\ withdrawals' = {} /\ NobodyStale' /\ Enough("Pending")' /\ todo' = <<>>
        /\ \A k \in Keys : ~services'[k].retiring
    BY <1>1, <1>8, <1>9, <1>10, <1>12 DEF Growing
  <2>3. moved' = moved /\ (~moved' => NobodyReady')
    BY <1>1, <1>8, <2>1
  <2> QED
    BY <1>1, <2>2, <2>3 DEF Growing
<1>13. ASSUME Shrinking PROVE Shrinking'
  <2>1. target # None => target \notin T
    BY DEF Called
  <2>2. \A p \in T : ~Satisfied(p)' /\ p # target' /\ state'[p] = "Active"
    BY <1>1, <1>7, <2>1, NoneApart
  <2>3. \A p \in Plugins : state'[p] = "Active" /\ ~Satisfied(p)' => p \in T
    BY <1>1, <1>7
  <2>4. NobodyReady' /\ Enough("Active")'
    BY <1>8, <1>10, <1>13 DEF Shrinking
  <2> HIDE DEF T
  <2>5. Distinct(todo')
    BY <1>3
  <2> QED
    BY <1>1, <1>3, <2>2, <2>3, <2>4, <2>5 DEF Shrinking, Distinct
<1>14. Reconciled'
  BY <1>1, <1>11, <1>12, <1>13 DEF Reconciled
<1>15. Closing'
  BY <1>1, <1>8, <1>9 DEF Closing, Those, NobodyReady
<1> QED
  BY <1>4, <1>5, <1>6, <1>14, <1>15, Whole

-----------------------------------------------------------------------------
(***************************************************************************)
(* Deactivating those that run without what they require.                  *)
(***************************************************************************)
\* A record that goes to the end of the list is still there once.
LEMMA ListedAgain ==
    ASSUME KernelInv, NEW p \in Plugins, state[p] # "none", NEW s \in {"Pending", "Unloaded"},
           plugins' = Append(Without(p), p), state' = [state EXCEPT ![p] = s]
    PROVE  Listed' /\ plugins' \in Seq(Plugins) /\ started
<1> USE Parts, Types
<1> DEFINE w == Only(plugins, Plugins \ {p})
<1>1. plugins \in Seq(Plugins) /\ Distinct(plugins) /\ p \in Range(plugins)
  BY DEF Listed
<1>2. w \in Seq(Plugins) /\ Range(w) = Range(plugins) \cap (Plugins \ {p}) /\ Distinct(w)
  BY <1>1, OnlyHas
<1>3. plugins' = Append(w, p)
  BY DEF Without
<1> HIDE DEF w
<1>4. plugins' \in Seq(Plugins) /\ Range(plugins') = Range(w) \cup {p} /\ Distinct(plugins')
  BY <1>2, <1>3, AppendHas
<1>5. \A q \in Plugins : q \in Range(plugins') <=> state'[q] # "none"
  <2>1. \A q \in Plugins : state'[q] = IF q = p THEN s ELSE state[q]
    OBVIOUS
  <2> QED
    BY <1>1, <1>2, <1>4, <2>1 DEF Listed
<1>6. started
  BY <1>1, EmptyHas DEF Called
<1> QED
  BY <1>4, <1>5, <1>6 DEF Listed, Distinct

\* A slot that retires is a slot.
LEMMA SlotRetires == ASSUME NEW s \in Slot PROVE [s EXCEPT !.retiring = TRUE] \in Slot
BY DEF Slot

\* Whom the pass visits.
LEMMA ShrinkingTurn ==
    ASSUME KernelInv, pc = "stale", todo # <<>>
    PROVE  /\ Shrinking /\ NobodyReady /\ ~closing.under
           /\ Head(todo) \in Plugins /\ ~Satisfied(Head(todo)) /\ Head(todo) # target
           /\ state[Head(todo)] = "Active" \/ (state[Head(todo)] = "Unloaded" /\ moved /\ wiring.unloads)
           /\ Tail(todo) \in Seq(Plugins) /\ Distinct(Tail(todo)) /\ Head(todo) \notin Range(Tail(todo))
           /\ \A q \in Range(Tail(todo)) :
                /\ q \in Plugins /\ ~Satisfied(q) /\ q # target
                /\ state[q] = "Active" \/ (state[q] = "Unloaded" /\ moved /\ wiring.unloads)
<1> USE Parts, Types
<1>1. Shrinking /\ ~closing.under
  <2>1. ~Growing
    BY DEF Growing
  <2>2. Shrinking
    BY <2>1 DEF Reconciled
  <2>3. ~closing.under
    BY DEF Closing
  <2> QED
    BY <2>2, <2>3
<1>2. /\ NobodyReady /\ Distinct(todo)
      /\ \A p \in Range(todo) :
            /\ ~Satisfied(p) /\ p # target
            /\ state[p] = "Active" \/ (state[p] = "Unloaded" /\ moved /\ wiring.unloads)
  BY <1>1 DEF Shrinking
<1>3. /\ Head(todo) \in Plugins /\ Tail(todo) \in Seq(Plugins)
      /\ Range(todo) = Range(Tail(todo)) \cup {Head(todo)}
      /\ Distinct(Tail(todo)) /\ Head(todo) \notin Range(Tail(todo))
  BY <1>2, TailHas
<1>4. /\ ~Satisfied(Head(todo)) /\ Head(todo) # target
      /\ state[Head(todo)] = "Active" \/ (state[Head(todo)] = "Unloaded" /\ moved /\ wiring.unloads)
  BY <1>2, <1>3
<1>5. \A q \in Range(Tail(todo)) :
                /\ q \in Plugins /\ ~Satisfied(q) /\ q # target
                /\ state[q] = "Active" \/ (state[q] = "Unloaded" /\ moved /\ wiring.unloads)
  <2>1. \A q \in Range(Tail(todo)) : q \in Plugins
    BY SMTT(30), <1>3 DEF Range
  <2> QED
    BY <1>2, <1>3, <2>1
<1> QED
  BY <1>1, <1>2, <1>3, <1>4, <1>5

\* After the visit it goes on shrinking, with one less to deactivate or in a
\* round that had moved already.
LEMMA ShrinkageKept ==
    ASSUME KernelInv, pc = "stale", todo # <<>>, pc' = "stale", todo' = Tail(todo), moved' = TRUE,
           UNCHANGED <<wiring, rounds, target>>, state'[Head(todo)] = "Pending", Less,
           \A q \in Plugins \ {Head(todo)} :
                state'[q] = state[q] \/ (state'[q] = "Unloaded" /\ wiring.unloads)
    PROVE  Shrinking'
<1> USE Parts, Types
<1> DEFINE p == Head(todo)
<1>1. /\ p \in Plugins /\ ~Satisfied(p) /\ Shrinking /\ NobodyReady
      /\ state[p] = "Active" \/ (state[p] = "Unloaded" /\ moved /\ wiring.unloads)
      /\ Tail(todo) \in Seq(Plugins) /\ Distinct(Tail(todo)) /\ p \notin Range(Tail(todo))
      /\ \A q \in Range(Tail(todo)) :
                /\ q \in Plugins /\ ~Satisfied(q) /\ q # target
                /\ state[q] = "Active" \/ (state[q] = "Unloaded" /\ moved /\ wiring.unloads)
  BY ShrinkingTurn
<1>2. /\ state'[p] = "Pending"
      /\ \A q \in Plugins \ {p} : state'[q] = state[q] \/ (state'[q] = "Unloaded" /\ wiring.unloads)
  OBVIOUS
<1> HIDE DEF p
<1>3. \A q \in Plugins : ~Satisfied(q) => ~Satisfied(q)'
  BY DEF Less, Satisfied
<1>4. NobodyReady'
  BY <1>1, <1>2, ReadySame
<1>5. \A q \in Range(todo') :
            /\ ~Satisfied(q)' /\ q # target'
            /\ state'[q] = "Active" \/ (state'[q] = "Unloaded" /\ moved' /\ wiring'.unloads)
  BY <1>1, <1>2, <1>3
<1>6. Enough("Active")'
  <2> DEFINE T == {q \in Plugins : state[q] = "Active"}
             U == {q \in Plugins : state'[q] = "Active"}
  <2>1. U \subseteq T \ {p} /\ T \in SUBSET Plugins /\ T \subseteq Range(plugins) /\ (p \in T \/ moved)
    BY <1>1, <1>2 DEF Listed
  <2>2. rounds >= Cardinality(T) + (IF moved THEN 2 ELSE 1)
    BY <1>1 DEF Shrinking, Enough, Those
  <2> HIDE DEF T, U
  <2>3. IsFiniteSet(T) /\ Cardinality(T) \in Nat
    BY <2>1, CountIs
  <2>4. IsFiniteSet(T \ {p}) /\ Cardinality(T \ {p}) \in Nat /\ Cardinality(T \ {p}) <= Cardinality(T)
    BY <2>3, FS_Subset, FS_CardinalityType
  <2>5. Cardinality(U) <= Cardinality(T \ {p}) /\ Cardinality(U) \in Nat
    BY <2>1, <2>4, FS_Subset, FS_CardinalityType
  <2>6. p \in T => Cardinality(T \ {p}) = Cardinality(T) - 1
    BY <2>1, OneFewer
  <2>7. rounds >= Cardinality(U) + 2
    <3>1. CASE p \in T
      BY SMTT(30), <2>2, <2>3, <2>4, <2>5, <2>6, <3>1
    <3>2. CASE moved
      BY <2>2, <2>3, <2>4, <2>5, <3>2
    <3> QED
      BY <2>1, <3>1, <3>2
  <2> QED
    BY <2>7 DEF U, Enough, Those
<1>7. Distinct(todo')
  BY <1>1
<1> QED
  BY <1>4, <1>5, <1>6, <1>7 DEF Shrinking, Distinct

\* A deactivation takes nothing from the registry.
LEMMA KernelDeactivate == ASSUME KernelInv, Deactivate PROVE KernelInv'
<1> USE Parts, Types
<1> DEFINE p == Head(todo)
<1>1. /\ pc = "stale" /\ todo # <<>> /\ pc' = "stale" /\ todo' = Tail(todo) /\ moved' = TRUE
      /\ plugins' = Append(Without(p), p) /\ withdrawals' = withdrawals \cup {p}
      /\ state' = [state EXCEPT ![p] = "Pending"] /\ effects' = [effects EXCEPT ![p] = <<>>]
      /\ services' = Retire(p)
      /\ UNCHANGED <<wiring, started, staged, activated, activations, rounds, target, disposer, closing>>
  BY DEF Deactivate, Parked, unload
<1>2. /\ NobodyReady /\ ~closing.under /\ p \in Plugins /\ ~Satisfied(p) /\ p # target
      /\ state[p] = "Active" \/ (state[p] = "Unloaded" /\ moved /\ wiring.unloads)
      /\ Tail(todo) \in Seq(Plugins)
  BY <1>1, ShrinkingTurn
<1>3. Listed' /\ plugins' \in Seq(Plugins) /\ started
  BY <1>1, <1>2, ListedAgain
<1>18. Shrinking' \/ ~Less
  BY <1>1, <1>2, ShrinkageKept
<1> HIDE DEF p
<1>4. /\ \A q \in Plugins : state'[q] = IF q = p THEN "Pending" ELSE state[q]
      /\ \A q \in Plugins : effects'[q] = IF q = p THEN <<>> ELSE effects[q]
  BY <1>1, <1>2
<1>5. \A k \in Keys :
        /\ services'[k].provider = services[k].provider
        /\ services'[k].retiring = (services[k].retiring \/ services[k].provider = p)
        /\ services[k].provider # p => services'[k] = services[k]
  BY <1>1 DEF Retire, Slot
<1>6. state' \in [Plugins -> States] /\ effects' \in [Plugins -> Seq(Keys)]
  <2>1. <<>> \in Seq(Keys)
    OBVIOUS
  <2> QED
    BY <1>1, <1>2, <2>1 DEF States
<1>7. services' \in [Keys -> Slot]
  <2>1. services' = [k \in Keys |-> IF services[k].provider = p
                                    THEN [services[k] EXCEPT !.retiring = TRUE] ELSE services[k]]
    BY <1>1 DEF Retire
  <2>2. \A k \in Keys : services[k] \in Slot /\ [services[k] EXCEPT !.retiring = TRUE] \in Slot
    BY SlotRetires
  <2> QED
    BY <2>1, <2>2
<1>8. Tables'
  BY <1>1, <1>2, <1>3, <1>6, <1>7 DEF Tables
<1>9. Course'
  BY <1>1, <1>2 DEF Course
<1>10. Called'
  BY <1>1, <1>2, <1>3, <1>4, NoneApart DEF Called, Sweeping
<1>11. Less
  BY <1>5 DEF Less, Contains
<1>12. WithdrawnOnes'
  <2> SUFFICES ASSUME NEW q \in withdrawals' PROVE state'[q] \in {"Pending", "Unloaded"}
    BY DEF WithdrawnOnes
  <2>1. CASE q = p
    BY <1>2, <1>4, <2>1
  <2>2. CASE q # p
    <3>1. q \in withdrawals /\ q \in Plugins
      BY <1>1, <2>2
    <3> QED
      BY <1>4, <2>2, <3>1 DEF WithdrawnOnes
  <2> QED
    BY <2>1, <2>2
<1>13. Aged'
  BY <1>1, <1>4, AgedSame
<1>14. SupplierIsOlder'
  BY <1>1, <1>4, <1>5, SupplierSame
<1>15. BorrowedResolves'
  BY <1>1, <1>4, <1>5 DEF BorrowedResolves
<1>16. Owned'
  <2>1. ASSUME NEW k \in Keys
        PROVE  IF services'[k].provider = None THEN ~services'[k].retiring
               ELSE \/ /\ state'[services'[k].provider] = "Active" /\ ~services'[k].retiring
                       /\ k \in Range(effects'[services'[k].provider])
                    \/ /\ services'[k].retiring
                       /\ services'[k].provider \in withdrawals' \cup {target'}
    <3> DEFINE u == services[k].provider
    <3>1. u \in Plugins \cup {None}
      BY DEF Slot
    <3>2. IF u = None THEN ~services[k].retiring
          ELSE \/ state[u] = "Active" /\ ~services[k].retiring /\ k \in Range(effects[u])
               \/ services[k].retiring /\ u \in withdrawals \cup {target}
      BY DEF Owned
    <3>3. CASE u = p
      BY <1>1, <1>2, <1>5, <3>3, NoneApart
    <3>4. CASE u # p
      BY <1>1, <1>4, <1>5, <3>1, <3>2, <3>4
    <3> QED
      BY <3>3, <3>4
  <2>2. ASSUME NEW q \in Plugins, NEW k \in Range(effects'[q])
        PROVE  state'[q] = "Active" /\ services'[k].provider = q
    <3>1. q # p
      BY <1>2, <1>4, <2>2 DEF Range
    <3>2. k \in Range(effects[q]) /\ k \in Keys
      BY <1>4, <2>2, <3>1 DEF Range
    <3> QED
      BY <1>4, <1>5, <3>1, <3>2 DEF Owned
  <2> QED
    BY <2>1, <2>2 DEF Owned
<1>17. Reconciled'
  BY <1>1, <1>11, <1>18 DEF Reconciled
<1>19. Closing'
  BY <1>1, <1>2 DEF Closing
<1> QED
  BY <1>3, <1>8, <1>9, <1>10, <1>12, <1>13, <1>14, <1>15, <1>16, <1>17, <1>19, Whole

\* A hook that unloads another takes what that one published, and that alone.
LEMMA KernelDeactivateUnloading ==
    ASSUME KernelInv, NEW r \in Plugins, DeactivateUnloading(r) PROVE KernelInv'
<1> USE Parts, Types
<1> DEFINE p == Head(todo)
<1>1. /\ pc = "stale" /\ todo # <<>> /\ pc' = "stale" /\ todo' = Tail(todo) /\ moved' = TRUE
      /\ wiring.unloads /\ r # p /\ state[r] # "none"
      /\ plugins' = Append(Append(Only(plugins, Plugins \ {r, p}), r), p)
      /\ withdrawals' = withdrawals \cup {p}
      /\ state' = [state EXCEPT ![p] = "Pending", ![r] = "Unloaded"]
      /\ effects' = [effects EXCEPT ![p] = <<>>, ![r] = <<>>]
      /\ services' = [k \in Keys |-> IF services[k].provider = r THEN NoSlot ELSE Retire(p)[k]]
      /\ UNCHANGED <<wiring, started, staged, activated, activations, rounds, target, disposer, closing>>
  BY DEF DeactivateUnloading, unload
<1>2. /\ NobodyReady /\ ~closing.under /\ p \in Plugins /\ ~Satisfied(p) /\ p # target
      /\ state[p] = "Active" \/ (state[p] = "Unloaded" /\ moved /\ wiring.unloads)
      /\ Tail(todo) \in Seq(Plugins)
  BY <1>1, ShrinkingTurn
<1>4. /\ \A q \in Plugins : state'[q] = IF q = p THEN "Pending" ELSE IF q = r THEN "Unloaded" ELSE state[q]
      /\ \A q \in Plugins : effects'[q] = IF q \in {p, r} THEN <<>> ELSE effects[q]
  BY <1>1, <1>2
<1>18. Less => Shrinking'
  <2>1. \A q \in Plugins \ {p} : state'[q] = state[q] \/ (state'[q] = "Unloaded" /\ wiring.unloads)
    BY <1>1, <1>4
  <2>2. state'[p] = "Pending"
    BY <1>2, <1>4
  <2> QED
    BY <1>1, <2>1, <2>2, ShrinkageKept
<1> HIDE DEF p
<1>3. plugins' \in Seq(Plugins) /\ Listed' /\ started
  <2> DEFINE w == Only(plugins, Plugins \ {r, p})
  <2>1. plugins \in Seq(Plugins) /\ Distinct(plugins) /\ p \in Range(plugins) /\ r \in Range(plugins)
    BY <1>1, <1>2 DEF Listed
  <2>2. w \in Seq(Plugins) /\ Range(w) = Range(plugins) \cap (Plugins \ {r, p}) /\ Distinct(w)
    BY <2>1, OnlyHas
  <2> HIDE DEF w
  <2> DEFINE x == Append(w, r)
  <2>3. x \in Seq(Plugins) /\ Range(x) = Range(w) \cup {r} /\ Distinct(x)
    BY <2>2, AppendHas
  <2>4. plugins' = Append(x, p)
    BY <1>1 DEF w
  <2> HIDE DEF x
  <2>5. p \notin Range(x)
    BY <1>1, <2>2, <2>3
  <2>6. plugins' \in Seq(Plugins) /\ Range(plugins') = Range(w) \cup {r, p} /\ Distinct(plugins')
    <3>1. /\ Append(x, p) \in Seq(Plugins) /\ Range(Append(x, p)) = Range(x) \cup {p}
          /\ Distinct(Append(x, p))
      BY <1>2, <2>3, <2>5, AppendHas
    <3> QED
      BY <2>3, <2>4, <3>1
  <2>7. \A q \in Plugins : q \in Range(plugins') <=> state'[q] # "none"
    BY <1>4, <2>1, <2>2, <2>6 DEF Listed
  <2>8. started
    BY <2>1, EmptyHas DEF Called
  <2> QED
    BY <2>6, <2>7, <2>8 DEF Listed, Distinct
<1>5. \A k \in Keys :
        /\ services[k].provider = r => services'[k].provider = None /\ services'[k].retiring = FALSE
        /\ services[k].provider = p =>
            services'[k].provider = p /\ services'[k].retiring = TRUE
        /\ services[k].provider \notin {p, r} => services'[k] = services[k]
  BY <1>1 DEF Retire, Slot, NoSlot
<1>6. state' \in [Plugins -> States] /\ effects' \in [Plugins -> Seq(Keys)]
  <2>1. <<>> \in Seq(Keys)
    OBVIOUS
  <2> QED
    BY <1>1, <1>2, <2>1 DEF States
<1>7. services' \in [Keys -> Slot]
  <2>1. services' = [k \in Keys |-> IF services[k].provider = r THEN NoSlot
                                    ELSE IF services[k].provider = p
                                    THEN [services[k] EXCEPT !.retiring = TRUE] ELSE services[k]]
    BY <1>1 DEF Retire
  <2>2. \A k \in Keys : services[k] \in Slot /\ [services[k] EXCEPT !.retiring = TRUE] \in Slot
    BY SlotRetires
  <2>3. NoSlot \in Slot
    BY DEF NoSlot, Slot
  <2> QED
    BY <2>1, <2>2, <2>3
<1>8. Tables'
  BY <1>1, <1>2, <1>3, <1>6, <1>7 DEF Tables
<1>9. Course'
  BY <1>1, <1>2 DEF Course
<1>10. Called'
  BY <1>1, <1>2, <1>3, <1>4, NoneApart DEF Called, Sweeping
<1>11. Less
  <2> SUFFICES ASSUME NEW k \in Keys, Contains(k)' PROVE Contains(k)
    BY DEF Less
  <2>1. services'[k].provider # None /\ ~services'[k].retiring
    BY DEF Contains
  <2> QED
    BY <1>5, <2>1 DEF Contains
<1>12. WithdrawnOnes'
  <2> SUFFICES ASSUME NEW q \in withdrawals' PROVE state'[q] \in {"Pending", "Unloaded"}
    BY DEF WithdrawnOnes
  <2>1. CASE q = p
    BY <1>2, <1>4, <2>1
  <2>2. CASE q # p
    <3>1. q \in withdrawals /\ q \in Plugins
      BY <1>1, <2>2
    <3> QED
      BY <1>4, <2>2, <3>1 DEF WithdrawnOnes
  <2> QED
    BY <2>1, <2>2
<1>13. Aged'
  BY <1>1, <1>4, AgedSame
<1>14. SupplierIsOlder'
  <2>1. \A k \in Keys : services'[k].provider \in {services[k].provider, None}
    BY <1>5
  <2>2. \A q \in Plugins : state'[q] = "Active" => state[q] = "Active"
    BY <1>4
  <2> QED
    BY <1>1, <2>1, <2>2, SupplierSame
<1>15. BorrowedResolves'
  BY <1>1 DEF BorrowedResolves
<1>16. Owned'
  <2>1. ASSUME NEW k \in Keys
        PROVE  IF services'[k].provider = None THEN ~services'[k].retiring
               ELSE \/ /\ state'[services'[k].provider] = "Active" /\ ~services'[k].retiring
                       /\ k \in Range(effects'[services'[k].provider])
                    \/ /\ services'[k].retiring
                       /\ services'[k].provider \in withdrawals' \cup {target'}
    <3> DEFINE u == services[k].provider
    <3>1. u \in Plugins \cup {None}
      BY DEF Slot
    <3>2. IF u = None THEN ~services[k].retiring
          ELSE \/ state[u] = "Active" /\ ~services[k].retiring /\ k \in Range(effects[u])
               \/ services[k].retiring /\ u \in withdrawals \cup {target}
      BY DEF Owned
    <3>3. CASE u = p
      BY <1>1, <1>2, <1>5, <3>3, NoneApart
    <3>4. CASE u = r
      BY <1>5, <3>4
    <3>5. CASE u \notin {p, r}
      BY <1>1, <1>4, <1>5, <3>1, <3>2, <3>5
    <3> QED
      BY <3>3, <3>4, <3>5
  <2>2. ASSUME NEW q \in Plugins, NEW k \in Range(effects'[q])
        PROVE  state'[q] = "Active" /\ services'[k].provider = q
    <3>1. q \notin {p, r}
      <4>1. ASSUME q \in {p, r} PROVE FALSE
        <5>1. effects'[q] = <<>>
          BY <1>4, <4>1
        <5>2. Range(<<>>) = {}
          BY DEF Range
        <5> QED
          BY <2>2, <5>1, <5>2
      <4> QED
        BY <4>1
    <3>2. k \in Range(effects[q]) /\ k \in Keys
      <4>1. effects'[q] = effects[q]
        BY <1>4, <3>1
      <4>2. k \in Range(effects[q])
        BY <2>2, <4>1
      <4> QED
        BY <4>2 DEF Range
    <3>3. state[q] = "Active" /\ services[k].provider = q
      BY <3>2 DEF Owned
    <3>4. state'[q] = state[q] /\ services'[k] = services[k]
      BY <1>4, <1>5, <3>1, <3>2, <3>3
    <3> QED
      BY <3>3, <3>4
  <2> QED
    BY <2>1, <2>2 DEF Owned
<1>17. Reconciled'
  BY <1>1, <1>11, <1>18 DEF Reconciled
<1>19. Closing'
  BY <1>1, <1>2 DEF Closing
<1> QED
  BY <1>3, <1>8, <1>9, <1>10, <1>12, <1>13, <1>14, <1>15, <1>16, <1>17, <1>19, Whole

-----------------------------------------------------------------------------
(***************************************************************************)
(* A round ends, and the sweep with it.                                    *)
(***************************************************************************)
\* Where nothing moved nothing has changed, and where something did there is a
\* round left to look again.
LEMMA KernelRoundDone == ASSUME KernelInv, RoundDone PROVE KernelInv'
<1> USE Parts, Types
<1>1. /\ pc = "stale" /\ todo = <<>>
      /\ UNCHANGED <<wiring, started, staged, plugins, state, activated, activations, effects, services,
                     withdrawals, target, disposer, closing>>
      /\ \/ /\ moved /\ rounds > 1 /\ pc' = "ready" /\ todo' = Ready /\ moved' = FALSE /\ rounds' = rounds - 1
         \/ ~(moved /\ rounds > 1) /\ pc' = "withdraw" /\ UNCHANGED <<todo, moved, rounds>>
  BY DEF RoundDone, records, registry, unload, sweep
<1>2. Growing \/ Shrinking
  BY <1>1 DEF Reconciled
<1>3. \A s \in {"Pending", "Active"} : Cardinality(Those(s)) \in Nat
  <2> SUFFICES ASSUME NEW s \in {"Pending", "Active"} PROVE Cardinality(Those(s)) \in Nat
    OBVIOUS
  <2>1. Those(s) \in SUBSET Plugins /\ Those(s) \subseteq Range(plugins)
    BY DEF Those, Listed
  <2> QED
    BY <2>1, CountIs
<1>4. Listed' /\ Owned' /\ WithdrawnOnes' /\ Aged' /\ SupplierIsOlder' /\ BorrowedResolves' /\ Tables'
  BY <1>1 DEF Tables, Listed, Distinct, Owned, WithdrawnOnes, Aged, SupplierIsOlder, BorrowedResolves
<1>5. /\ \A p \in Plugins : Satisfied(p)' = Satisfied(p)
      /\ NobodyReady' <=> NobodyReady
      /\ NobodyStale' <=> NobodyStale
  <2>1. \A p \in Plugins : Satisfied(p)' = Satisfied(p)
    BY <1>1 DEF Satisfied, Contains
  <2> QED
    BY <1>1, <2>1 DEF NobodyReady, NobodyStale
<1>6. CASE moved /\ rounds > 1
  <2>1. pc' = "ready" /\ todo' = Ready /\ moved' = FALSE /\ rounds' = rounds - 1 /\ rounds' \in Nat
    <3>1. pc' = "ready" /\ todo' = Ready /\ moved' = FALSE /\ rounds' = rounds - 1
      BY <1>1, <1>6
    <3>2. rounds \in Nat
      OBVIOUS
    <3> QED
      BY <1>6, <3>1, <3>2
  <2> DEFINE T == {p \in Plugins : state[p] = "Pending" /\ Satisfied(p)}
  <2>2. todo' \in Seq(Plugins) /\ Distinct(todo') /\ Range(todo') = T
    <3>1. T \in SUBSET Plugins /\ T \subseteq Range(plugins) /\ Distinct(plugins)
      BY DEF Listed
    <3>2. todo' = Only(plugins, T)
      BY <2>1 DEF Ready
    <3> HIDE DEF T
    <3>3. Only(plugins, T) \in Seq(Plugins) /\ Distinct(Only(plugins, T)) /\ Range(Only(plugins, T)) = T
      BY <3>1, PickedIs
    <3> QED
      BY <3>2, <3>3
  <2>3. \A s \in {"Pending", "Active"} : Enough(s) => Enough(s)'
    <3> SUFFICES ASSUME NEW s \in {"Pending", "Active"}, Enough(s) PROVE Enough(s)'
      OBVIOUS
    <3>1. rounds >= Cardinality(Those(s)) + 2
      BY <1>6 DEF Enough
    <3>2. Those(s)' = Those(s)
      BY <1>1 DEF Those
    <3>3. rounds - 1 >= Cardinality(Those(s)) + 1
      BY <1>3, <3>1
    <3> QED
      BY <2>1, <3>2, <3>3 DEF Enough
  <2>4. ASSUME Growing PROVE Growing'
    <3>1. /\ withdrawals' = {} /\ NobodyStale' /\ Enough("Pending")'
          /\ \A k \in Keys : ~services'[k].retiring
      BY <1>1, <1>5, <2>3, <2>4 DEF Growing
    <3>2. \A p \in Range(todo') : state'[p] = "Pending" /\ Satisfied(p)'
      BY <1>1, <1>5, <2>2
    <3>3. \A p \in Plugins : state'[p] = "Pending" /\ Satisfied(p)' => p \in Range(todo')
      BY <1>1, <1>5, <2>2
    <3> HIDE DEF T
    <3> QED
      BY <2>1, <2>2, <3>1, <3>2, <3>3 DEF Growing, Distinct
  <2>5. ASSUME Shrinking PROVE Shrinking'
    <3>1. NobodyReady' /\ Enough("Active")'
      BY <1>5, <2>3, <2>5 DEF Shrinking
    <3>2. T = {}
      BY <2>5 DEF Shrinking, NobodyReady
    <3>3. todo' = <<>>
      BY <2>2, <3>2, EmptyHas
    <3> QED
      BY <2>1, <3>1, <3>3 DEF Shrinking
  <2> HIDE DEF T
  <2>6. Reconciled'
    BY <1>2, <2>1, <2>4, <2>5 DEF Reconciled
  <2>7. Course'
    BY <1>1, <2>1, <2>2 DEF Course, Places
  <2>8. Called'
    BY <1>1, <2>1 DEF Called, Sweeping
  <2>9. Closing'
    BY <1>1, <1>6 DEF Closing
  <2> QED
    BY <1>4, <2>6, <2>7, <2>8, <2>9, Whole
<1>7. CASE ~(moved /\ rounds > 1)
  <2>1. pc' = "withdraw" /\ UNCHANGED <<todo, moved, rounds>>
    BY <1>1, <1>7
  <2>2. ~moved
    <3> SUFFICES ASSUME moved PROVE FALSE
      OBVIOUS
    <3>1. PICK s \in {"Pending", "Active"} : rounds >= Cardinality(Those(s)) + 2
      BY <1>2 DEF Growing, Shrinking, Enough
    <3> QED
      BY <1>3, <1>7, <3>1
  <2>3. Settled
    <3>1. CASE Growing
      BY <1>1, <2>2, <3>1 DEF Growing, Settled
    <3>2. CASE Shrinking
      <4>1. NobodyReady /\ \A p \in Plugins : state[p] = "Active" /\ ~Satisfied(p) => p \in Range(todo)
        BY <1>1, <2>2, <3>2 DEF Shrinking
      <4> QED
        BY <1>1, <4>1, EmptyHas DEF Settled, NobodyStale
    <3> QED
      BY <1>2, <3>1, <3>2
  <2>4. Reconciled'
    BY <1>5, <2>1, <2>3 DEF Reconciled, Settled
  <2>5. Course'
    BY <1>1, <2>1 DEF Course, Places
  <2>6. Called'
    BY <1>1, <2>1 DEF Called, Sweeping
  <2>7. Closing'
    BY <1>1, <1>5, <2>1 DEF Closing, Those
  <2> QED
    BY <1>4, <2>4, <2>5, <2>6, <2>7, Whole
<1> QED
  BY <1>6, <1>7

\* What was published by plugins that do not run can be taken back, and nobody
\* sees it go: it was retiring.
LEMMA GoesUnseen ==
    ASSUME KernelInv, NEW gone \in SUBSET Plugins, \A p \in gone : state[p] # "Active",
           UNCHANGED <<wiring, plugins, state, activated, activations, effects>>,
           services' \in [Keys -> Slot],
           \A k \in Keys : \/ services'[k] = services[k]
                           \/ services[k].provider \in gone /\ services'[k] = NoSlot,
           \A k \in Keys : services'[k].retiring => services'[k].provider \in withdrawals' \cup {target'}
    PROVE  /\ Listed' /\ Owned' /\ Aged' /\ SupplierIsOlder'
           /\ NobodyStale => NobodyStale'
           /\ NobodyReady => NobodyReady'
           /\ Those("Active")' = Those("Active")
<1> USE Parts, Types
<1>1. \A k \in Keys : services[k].provider \in gone => services[k].retiring
  BY NoneApart DEF Owned
<1>2. Less /\ More
  BY <1>1 DEF Less, More, Contains, NoSlot
<1>3. \A k \in Keys : services'[k].provider \in {services[k].provider, None}
  BY DEF NoSlot
<1>4. Listed' /\ Aged'
  BY ListedSame, AgedSame
<1>5. SupplierIsOlder'
  BY <1>3, SupplierSame
<1>6. (NobodyStale => NobodyStale') /\ (NobodyReady => NobodyReady')
  BY <1>2, StaleSame, ReadySame
<1>7. Owned'
  <2>1. ASSUME NEW k \in Keys
        PROVE  IF services'[k].provider = None THEN ~services'[k].retiring
               ELSE \/ /\ state'[services'[k].provider] = "Active" /\ ~services'[k].retiring
                       /\ k \in Range(effects'[services'[k].provider])
                    \/ /\ services'[k].retiring
                       /\ services'[k].provider \in withdrawals' \cup {target'}
    <3>1. CASE services'[k] = services[k]
      BY <3>1 DEF Owned
    <3>2. CASE services'[k] = NoSlot
      BY <3>2 DEF NoSlot
    <3> QED
      BY <3>1, <3>2
  <2>2. ASSUME NEW q \in Plugins, NEW k \in Range(effects'[q])
        PROVE  state'[q] = "Active" /\ services'[k].provider = q
    <3>1. k \in Range(effects[q]) /\ k \in Keys
      <4>1. k \in Range(effects[q])
        BY <2>2
      <4> QED
        BY <4>1 DEF Range
    <3>2. state[q] = "Active" /\ services[k].provider = q
      BY <3>1 DEF Owned
    <3>3. services'[k] = services[k]
      BY <3>1, <3>2
    <3> QED
      BY <3>2, <3>3
  <2> QED
    BY <2>1, <2>2 DEF Owned
<1>8. Those("Active")' = Those("Active")
  BY DEF Those
<1> QED
  BY <1>4, <1>5, <1>6, <1>7, <1>8

\* The parked effects go where nobody is left that could see them.
LEMMA KernelFinishWithdrawals == ASSUME KernelInv, FinishWithdrawals PROVE KernelInv'
<1> USE Parts, Types
<1>1. /\ pc = "withdraw" /\ withdrawals # {} /\ BeginSweep
      /\ services' = [k \in Keys |-> IF services[k].provider \in withdrawals THEN NoSlot ELSE services[k]]
      /\ withdrawals' = {}
      /\ UNCHANGED <<wiring, started, staged, plugins, state, activated, activations, effects,
                     target, disposer, closing>>
  BY DEF FinishWithdrawals, RemoveOwned, records, unload
<1>2. Settled /\ ~closing.under
  BY <1>1 DEF Reconciled, Closing
<1>3. services' \in [Keys -> Slot]
  <2>1. NoSlot \in Slot
    BY DEF NoSlot, Slot
  <2> QED
    BY <1>1, <2>1
<1>4. \A p \in withdrawals : state[p] # "Active"
  BY DEF WithdrawnOnes
<1>5. \A k \in Keys : services'[k].retiring => services'[k].provider \in withdrawals' \cup {target'}
  <2> SUFFICES ASSUME NEW k \in Keys, services'[k].retiring
               PROVE  services'[k].provider = target
    BY <1>1
  <2>1. services'[k] = services[k] /\ services[k].provider \notin withdrawals
    BY <1>1 DEF NoSlot
  <2> QED
    BY <2>1 DEF Owned
<1>6. /\ Listed' /\ Owned' /\ Aged' /\ SupplierIsOlder' /\ NobodyStale' /\ NobodyReady'
  <2>1. \A k \in Keys : \/ services'[k] = services[k]
                        \/ services[k].provider \in withdrawals /\ services'[k] = NoSlot
    BY <1>1
  <2> QED
    BY <1>1, <1>2, <1>3, <1>4, <1>5, <2>1, GoesUnseen DEF Settled
<1>7. Tables'
  BY <1>1, <1>3 DEF Tables
<1>8. /\ pc' = "ready" /\ todo' \in Seq(Plugins) /\ moved' = FALSE /\ rounds' \in Nat /\ Reconciled'
  BY <1>1, <1>6, <1>7, SweepShrinks
<1>9. Course'
  BY <1>1, <1>8 DEF Course, Places
<1>10. Called'
  BY <1>1, <1>8 DEF Called, Sweeping
<1>11. WithdrawnOnes' /\ Closing'
  BY <1>1, <1>2 DEF WithdrawnOnes, Closing
<1>12. BorrowedResolves'
  BY <1>6, <1>7, <1>9, ServedAfter
<1> QED
  BY <1>6, <1>7, <1>8, <1>9, <1>10, <1>11, <1>12, Whole

\* The sweep ends where it was called from.
LEMMA KernelSwept == ASSUME KernelInv, Swept PROVE KernelInv'
<1> USE Parts, Types
<1>1. /\ pc = "withdraw" /\ withdrawals = {}
      /\ pc' = IF target = None THEN "idle" ELSE "revert"
      /\ UNCHANGED <<wiring, started, staged, plugins, state, activated, activations, effects, services,
                     withdrawals, todo, moved, rounds, target, disposer, closing>>
  BY DEF Swept, records, registry, sweep, unload
<1>2. Listed' /\ Owned' /\ WithdrawnOnes' /\ Aged' /\ SupplierIsOlder' /\ BorrowedResolves' /\ Tables'
  BY <1>1 DEF Tables, Listed, Distinct, Owned, WithdrawnOnes, Aged, SupplierIsOlder, BorrowedResolves
<1>3. Settled /\ Settled' /\ NobodyStale'
  <2>1. Settled
    BY <1>1 DEF Reconciled
  <2> QED
    BY <1>1, <2>1 DEF Settled, NobodyReady, NobodyStale, Satisfied, Contains
<1>4. Reconciled'
  BY <1>1, <1>3 DEF Reconciled, Settled
<1>5. Course'
  BY <1>1 DEF Course, Places
<1>6. Called'
  <2>1. pc' \notin Sweeping /\ pc' # "mount" /\ pc' # "close"
    BY <1>1 DEF Sweeping
  <2>2. closing.under => target # None
    BY <1>1 DEF Called, Sweeping
  <2> QED
    BY <1>1, <2>1, <2>2 DEF Called
<1>7. Closing'
  BY <1>1, <1>3 DEF Closing, Those
<1> QED
  BY <1>2, <1>4, <1>5, <1>6, <1>7, Whole

-----------------------------------------------------------------------------
(***************************************************************************)
(* unload.                                                                 *)
(***************************************************************************)
\* Where a call may begin, what is published is an active plugin's.
LEMMA AtRest ==
    ASSUME KernelInv, pc \in {"idle", "close"}
    PROVE  /\ target = None /\ disposer = <<>> /\ withdrawals = {} /\ NobodyStale /\ (NobodyReady \/ Fresh)
           /\ \A k \in Keys :
                /\ ~services[k].retiring
                /\ services[k].provider # None =>
                    /\ services[k].provider \in Plugins /\ state[services[k].provider] = "Active"
                    /\ k \in Range(effects[services[k].provider])
<1> USE Parts, Types
<1>1. target = None /\ disposer = <<>> /\ withdrawals = {}
  BY DEF Called, Sweeping
<1>2. NobodyStale /\ (NobodyReady \/ Fresh)
  BY DEF Reconciled
<1>3. ASSUME NEW k \in Keys
      PROVE  /\ ~services[k].retiring
             /\ services[k].provider # None =>
                    /\ services[k].provider \in Plugins /\ state[services[k].provider] = "Active"
                    /\ k \in Range(effects[services[k].provider])
  <2>1. services[k].provider \in Plugins \cup {None}
    BY DEF Slot
  <2> QED
    BY <1>1, <2>1, NoneApart DEF Owned
<1> QED
  BY <1>1, <1>2, <1>3

\* What it publishes is retired and waits for its dependents.
LEMMA UnloadBegins ==
    ASSUME KernelInv, pc \in {"idle", "close"}, NEW p \in Plugins, state[p] # "none", BeginUnload(p)
    PROVE  /\ Tables' /\ Listed' /\ Owned' /\ WithdrawnOnes' /\ Aged'
           /\ SupplierIsOlder' /\ BorrowedResolves' /\ Reconciled'
           /\ started' /\ target' = p /\ state'[p] = "Unloaded" /\ pc' = "ready"
           /\ withdrawals' = {} /\ disposer' \in Seq(Keys)
           /\ todo' \in Seq(Plugins) /\ moved' = FALSE /\ rounds' \in Nat
           /\ NobodyReady => NobodyReady' /\ todo' = <<>>
           /\ \A k \in Keys : services[k].provider # p => services'[k] = services[k]
           /\ UNCHANGED <<wiring, staged, activated>>
           /\ \A q \in Plugins : q # p => state'[q] = state[q]
<1> USE Parts, Types
<1>1. /\ plugins' = Append(Without(p), p) /\ state' = [state EXCEPT ![p] = "Unloaded"]
      /\ disposer' = effects[p] /\ effects' = [effects EXCEPT ![p] = <<>>]
      /\ services' = [k \in Keys |-> IF services[k].provider = p
                                     THEN [services[k] EXCEPT !.retiring = TRUE] ELSE services[k]]
      /\ target' = p /\ BeginSweep
      /\ UNCHANGED <<wiring, started, staged, activated, activations, withdrawals>>
  BY DEF BeginUnload, Retire
<1>2. /\ target = None /\ disposer = <<>> /\ withdrawals = {} /\ NobodyStale /\ (NobodyReady \/ Fresh)
      /\ \A k \in Keys :
            /\ ~services[k].retiring
            /\ services[k].provider # None =>
                    /\ services[k].provider \in Plugins /\ state[services[k].provider] = "Active"
                    /\ k \in Range(effects[services[k].provider])
  BY AtRest
<1>3. Listed' /\ plugins' \in Seq(Plugins) /\ started
  BY <1>1, ListedAgain
<1>4. /\ \A q \in Plugins : state'[q] = IF q = p THEN "Unloaded" ELSE state[q]
      /\ \A q \in Plugins : effects'[q] = IF q = p THEN <<>> ELSE effects[q]
  BY <1>1
<1>5. \A k \in Keys :
        /\ services'[k].provider = services[k].provider
        /\ services[k].provider = p => services'[k].retiring = TRUE
        /\ services[k].provider # p => services'[k] = services[k]
  BY <1>1 DEF Slot
<1>6. services' \in [Keys -> Slot]
  <2>1. \A k \in Keys : services[k] \in Slot /\ [services[k] EXCEPT !.retiring = TRUE] \in Slot
    BY SlotRetires
  <2> QED
    BY <1>1, <2>1
<1>7. Tables'
  <2>1. state' \in [Plugins -> States]
    BY <1>1 DEF States
  <2>2. effects' \in [Plugins -> Seq(Keys)]
    <3>1. <<>> \in Seq(Keys)
      OBVIOUS
    <3> QED
      BY <1>1, <3>1
  <2> QED
    BY <1>1, <1>3, <1>6, <2>1, <2>2 DEF Tables
<1>8. Less
  <2> SUFFICES ASSUME NEW k \in Keys, Contains(k)' PROVE Contains(k)
    BY DEF Less
  <2> QED
    BY <1>5 DEF Contains
<1>9. WithdrawnOnes'
  BY <1>1, <1>2 DEF WithdrawnOnes
<1>10. Aged'
  BY <1>1, <1>4, AgedSame
<1>11. SupplierIsOlder'
  <2>1. \A k \in Keys : services'[k].provider \in {services[k].provider, None}
    BY <1>5
  <2>2. \A q \in Plugins : state'[q] = "Active" => state[q] = "Active"
    BY <1>4
  <2> QED
    BY <1>1, <2>1, <2>2, SupplierSame
<1>12. BorrowedResolves'
  BY <1>1, <1>4, <1>5 DEF BorrowedResolves
<1>13. Owned'
  <2>1. ASSUME NEW k \in Keys
        PROVE  IF services'[k].provider = None THEN ~services'[k].retiring
               ELSE \/ /\ state'[services'[k].provider] = "Active" /\ ~services'[k].retiring
                       /\ k \in Range(effects'[services'[k].provider])
                    \/ /\ services'[k].retiring
                       /\ services'[k].provider \in withdrawals' \cup {target'}
    <3>1. CASE services[k].provider = p
      BY <1>1, <1>5, <3>1, NoneApart
    <3>2. CASE services[k].provider # p
      BY <1>2, <1>4, <1>5, <3>2
    <3> QED
      BY <3>1, <3>2
  <2>2. ASSUME NEW q \in Plugins, NEW k \in Range(effects'[q])
        PROVE  state'[q] = "Active" /\ services'[k].provider = q
    <3>1. q # p
      <4>1. ASSUME q = p PROVE FALSE
        <5>1. effects'[q] = <<>>
          BY <1>4, <4>1
        <5>2. Range(<<>>) = {}
          BY DEF Range
        <5> QED
          BY <2>2, <5>1, <5>2
      <4> QED
        BY <4>1
    <3>2. k \in Range(effects[q]) /\ k \in Keys
      <4>1. k \in Range(effects[q])
        BY <1>4, <2>2, <3>1
      <4> QED
        BY <4>1 DEF Range
    <3>3. state[q] = "Active" /\ services[k].provider = q
      BY <3>2 DEF Owned
    <3>4. state'[q] = state[q] /\ services'[k] = services[k]
      BY <1>4, <1>5, <3>1, <3>2, <3>3
    <3> QED
      BY <3>3, <3>4
  <2> QED
    BY <2>1, <2>2 DEF Owned
<1>14. pc' = "ready" /\ todo' \in Seq(Plugins) /\ moved' = FALSE /\ rounds' \in Nat
  BY <1>1, <1>3, <1>7, SweepBegins
<1>15. ASSUME NobodyReady PROVE NobodyReady' /\ todo' = <<>> /\ Reconciled'
  <2>1. NobodyReady'
    <3>1. \A q \in Plugins : state'[q] = "Pending" => state[q] = "Pending" \/ ~Satisfied(q)
      BY <1>4
    <3> QED
      BY <1>1, <1>8, <1>15, <3>1, ReadySame
  <2> QED
    BY <1>1, <1>3, <1>7, <2>1, SweepShrinks
<1>16. ASSUME Fresh PROVE Reconciled'
  <2>1. NobodyStale'
    BY <1>4, <1>16 DEF Fresh, NobodyStale
  <2>2. \A k \in Keys : ~services'[k].retiring
    <3>1. \A k \in Keys : services[k].provider = None /\ ~services[k].retiring
      BY <1>16 DEF Fresh, NoSlot
    <3>2. \A k \in Keys : services'[k] = services[k]
      BY <1>5, <3>1, NoneApart
    <3> QED
      BY <3>1, <3>2
  <2>3. withdrawals' = {}
    BY <1>1, <1>2
  <2> QED
    BY <1>1, <1>3, <1>7, <2>1, <2>2, <2>3, SweepGrows
<1>17. disposer' \in Seq(Keys)
  BY <1>1
<1>18. state'[p] = "Unloaded"
  BY <1>4
<1> QED
  BY <1>1, <1>2, <1>3, <1>4, <1>5, <1>7, <1>9, <1>10, <1>11, <1>12, <1>13, <1>14, <1>15, <1>16, <1>17, <1>18

\* The host unloads one plugin.
LEMMA KernelUnload == ASSUME KernelInv, NEW p \in Plugins, Unload(p) PROVE KernelInv'
<1> USE Parts, Types
<1>1. pc = "idle" /\ state[p] # "none" /\ BeginUnload(p) /\ UNCHANGED closing /\ ~closing.under
  BY DEF Unload, Called
<1>2. /\ Tables' /\ Listed' /\ Owned' /\ WithdrawnOnes' /\ Aged'
      /\ SupplierIsOlder' /\ BorrowedResolves' /\ Reconciled'
      /\ started' /\ target' = p /\ state'[p] = "Unloaded" /\ pc' = "ready"
      /\ withdrawals' = {} /\ disposer' \in Seq(Keys)
      /\ todo' \in Seq(Plugins) /\ moved' = FALSE /\ rounds' \in Nat /\ UNCHANGED <<wiring, staged>>
  BY <1>1, UnloadBegins
<1>3. Course'
  BY <1>1, <1>2 DEF Course, Places
<1>4. Called'
  BY <1>1, <1>2, NoneApart DEF Called, Sweeping
<1>5. Closing'
  BY <1>1 DEF Closing
<1> QED
  BY <1>2, <1>3, <1>4, <1>5, Whole

\* A shutdown unloads the newest, which nobody that runs requires anything of.
LEMMA KernelCloseNext == ASSUME KernelInv, CloseNext PROVE KernelInv'
<1> USE Parts, Types
<1> DEFINE left == closing.left
           p == Head(left)
<1>1. pc = "close" /\ left # <<>> /\ BeginUnload(p) /\ closing' = [closing EXCEPT !.left = Tail(@)]
  BY DEF CloseNext
<1>2. closing.under /\ left \in Seq(Plugins)
  BY <1>1 DEF Called
<1>3. /\ withdrawals = {} /\ NobodyStale /\ Range(left) = Those("Active")
      /\ \A i, j \in DOMAIN left : i < j => activated[left[i]] > activated[left[j]]
  BY <1>2 DEF Closing
<1>4. closing' = [under |-> TRUE, left |-> Tail(left)] /\ closing'.under /\ closing'.left = Tail(left)
  BY <1>1, <1>2
<1> HIDE DEF left
<1> HIDE Parts, Types
<1>41. \A i \in DOMAIN left : left[i] \in Plugins /\ i \in Nat
  BY <1>2
<1> USE Parts, Types
<1>5. /\ Len(left) \in Nat \ {0} /\ DOMAIN left = 1..Len(left) /\ p = left[1] /\ 1 \in DOMAIN left
      /\ DOMAIN Tail(left) = 1..(Len(left) - 1)
      /\ \A i \in DOMAIN Tail(left) : Tail(left)[i] = left[i + 1] /\ i + 1 \in DOMAIN left /\ i \in Nat
  <2>1. Len(left) \in Nat \ {0} /\ DOMAIN left = 1..Len(left) /\ p = left[1]
    BY <1>1, <1>2
  <2>2. DOMAIN Tail(left) = 1..(Len(left) - 1) /\ \A i \in 1..(Len(left) - 1) : Tail(left)[i] = left[i + 1]
    BY <1>1, <1>2
  <2> QED
    BY <2>1, <2>2
<1>6. Distinct(left)
  <2> SUFFICES ASSUME NEW i \in DOMAIN left, NEW j \in DOMAIN left, left[i] = left[j], i < j PROVE FALSE
    <3>1. \A i, j \in DOMAIN left : i = j \/ i < j \/ j < i
      BY <1>41
    <3> QED
      BY <3>1 DEF Distinct
  <2>1. activated[left[i]] > activated[left[j]] /\ activated[left[i]] \in Nat
    BY <1>3, <1>41
  <2> QED
    BY <2>1
<1>7. /\ p \in Plugins /\ Tail(left) \in Seq(Plugins) /\ Range(left) = Range(Tail(left)) \cup {p}
      /\ p \notin Range(Tail(left))
  BY <1>1, <1>2, <1>6, TailHas
<1> HIDE DEF p
<1>8. state[p] = "Active"
  BY <1>3, <1>7 DEF Those
<1>9. \A q \in Plugins : state[q] = "Active" /\ q # p => activated[p] > activated[q]
  <2> SUFFICES ASSUME NEW q \in Plugins, state[q] = "Active", q # p PROVE activated[p] > activated[q]
    OBVIOUS
  <2>1. PICK j \in DOMAIN left : left[j] = q
    BY <1>3 DEF Those, Range
  <2>2. 1 < j
    BY <1>5, <2>1
  <2> QED
    <3>1. activated[left[1]] > activated[left[j]]
      BY <1>3, <1>5, <2>1, <2>2
    <3> QED
      BY <1>5, <2>1, <3>1
<1>10. NobodyReady
  BY <1>1, <1>7, <1>8, AtRest DEF Fresh
<1>11. /\ Tables' /\ Listed' /\ Owned' /\ WithdrawnOnes' /\ Aged'
       /\ SupplierIsOlder' /\ BorrowedResolves' /\ Reconciled'
       /\ started' /\ target' = p /\ state'[p] = "Unloaded" /\ pc' = "ready"
       /\ withdrawals' = {} /\ disposer' \in Seq(Keys)
       /\ todo' \in Seq(Plugins) /\ moved' = FALSE /\ rounds' \in Nat
       /\ NobodyReady' /\ todo' = <<>>
       /\ \A k \in Keys : services[k].provider # p => services'[k] = services[k]
       /\ UNCHANGED <<wiring, staged, activated>>
       /\ \A q \in Plugins : q # p => state'[q] = state[q]
  BY <1>1, <1>7, <1>8, <1>10, UnloadBegins
<1>12. NobodyStale'
  <2> SUFFICES ASSUME NEW q \in Plugins, state'[q] = "Active", NEW k \in wiring.requires[q]
               PROVE  Contains(k)'
    BY <1>11 DEF NobodyStale, Satisfied
  <2>1. q # p /\ state[q] = "Active"
    BY <1>11
  <2>2. k \in Keys /\ Contains(k)
    BY <1>3, <2>1 DEF NobodyStale, Satisfied
  <2>3. services[k].provider # p
    <3> SUFFICES ASSUME services[k].provider = p PROVE FALSE
      OBVIOUS
    <3>1. activated[p] < activated[q]
      BY <1>7, <2>1, NoneApart DEF SupplierIsOlder
    <3>2. activated[p] \in Nat /\ activated[q] \in Nat
      BY <1>7
    <3> QED
      BY <1>9, <2>1, <3>1, <3>2
  <2> QED
    BY <1>11, <2>2, <2>3 DEF Contains
<1>13. Those("Active")' = Range(Tail(left))
  <2>1. \A q \in Plugins : state'[q] = "Active" <=> (state[q] = "Active" /\ q # p)
    BY <1>11
  <2>2. {q \in Plugins : state[q] = "Active"} = Range(Tail(left)) \cup {p}
    BY <1>3, <1>7 DEF Those
  <2>3. {q \in Plugins : state'[q] = "Active"} = {q \in Plugins : state[q] = "Active"} \ {p}
    BY <2>1
  <2>4. {q \in Plugins : state'[q] = "Active"} = Range(Tail(left))
    BY <1>7, <2>2, <2>3
  <2> QED
    BY <2>4 DEF Those
<1>14. \A i, j \in DOMAIN closing'.left :
            i < j => activated'[closing'.left[i]] > activated'[closing'.left[j]]
  <2> SUFFICES ASSUME NEW i \in DOMAIN Tail(left), NEW j \in DOMAIN Tail(left), i < j
               PROVE  activated[Tail(left)[i]] > activated[Tail(left)[j]]
    BY <1>4, <1>11
  <2>1. /\ Tail(left)[i] = left[i + 1] /\ Tail(left)[j] = left[j + 1] /\ i + 1 < j + 1
        /\ i + 1 \in DOMAIN left /\ j + 1 \in DOMAIN left
    BY <1>5
  <2> QED
    BY <1>3, <2>1
<1>15. Closing'
  BY <1>4, <1>11, <1>12, <1>13, <1>14 DEF Closing
<1>16. Course'
  BY <1>4, <1>7, <1>11 DEF Course, Places
<1>17. Called'
  BY <1>4, <1>7, <1>11, NoneApart DEF Called, Sweeping
<1> QED
  BY <1>11, <1>15, <1>16, <1>17, Whole

-----------------------------------------------------------------------------
(***************************************************************************)
(* The effects of an unloaded plugin, and the shutdown.                    *)
(***************************************************************************)
\* The service an effect takes back was retiring: nobody sees it go.
LEMMA KernelRevertOne == ASSUME KernelInv, RevertOne PROVE KernelInv'
<1> USE Parts, Types
<1> DEFINE d == disposer[Len(disposer)]
<1>1. /\ pc = "revert" /\ disposer # <<>> /\ BeginSweep
      /\ services' = IF services[d].provider = target THEN [services EXCEPT ![d] = NoSlot] ELSE services
      /\ disposer' = SubSeq(disposer, 1, Len(disposer) - 1)
      /\ UNCHANGED <<wiring, started, staged, plugins, state, activated, activations, effects,
                     withdrawals, target, closing>>
  BY DEF RevertOne, records
<1>2. Settled /\ target # None /\ withdrawals = {} /\ target \in Plugins /\ state[target] = "Unloaded"
  BY <1>1 DEF Reconciled, Called, Sweeping
<1>3. d \in Keys /\ disposer' \in Seq(Keys)
  <2>1. disposer \in Seq(Keys) /\ Len(disposer) \in Nat \ {0}
    BY <1>1
  <2> QED
    BY <1>1, <2>1
<1> HIDE DEF d
<1>4. services' \in [Keys -> Slot]
  <2>1. NoSlot \in Slot
    BY DEF NoSlot, Slot
  <2> QED
    BY <1>1, <1>3, <2>1
<1>5. \A k \in Keys : \/ services'[k] = services[k]
                      \/ services[k].provider \in {target} /\ services'[k] = NoSlot
  BY <1>1, <1>3
<1>6. \A k \in Keys : services'[k].retiring => services'[k].provider \in withdrawals' \cup {target'}
  <2> SUFFICES ASSUME NEW k \in Keys, services'[k].retiring
               PROVE  services'[k].provider = target
    BY <1>1
  <2>1. services'[k] = services[k]
    BY <1>5 DEF NoSlot
  <2> QED
    BY <1>2, <2>1 DEF Owned
<1>7. /\ Listed' /\ Owned' /\ Aged' /\ SupplierIsOlder' /\ NobodyStale' /\ NobodyReady'
      /\ Those("Active")' = Those("Active")
  <2>1. {target} \in SUBSET Plugins /\ \A p \in {target} : state[p] # "Active"
    BY <1>2
  <2> QED
    BY <1>1, <1>2, <1>4, <1>5, <1>6, <2>1, GoesUnseen DEF Settled
<1>8. Tables'
  BY <1>1, <1>4 DEF Tables
<1>9. /\ pc' = "ready" /\ todo' \in Seq(Plugins) /\ moved' = FALSE /\ rounds' \in Nat /\ todo' = <<>>
      /\ Reconciled'
  BY <1>1, <1>7, <1>8, SweepShrinks
<1>10. Course'
  BY <1>1, <1>3, <1>9 DEF Course, Places
<1>11. Called'
  BY <1>1, <1>2, <1>9 DEF Called, Sweeping
<1>12. WithdrawnOnes'
  BY <1>1, <1>2 DEF WithdrawnOnes
<1>13. Closing'
  BY <1>1, <1>2, <1>7, <1>9 DEF Closing
<1>14. BorrowedResolves'
  BY <1>7, <1>8, <1>10, ServedAfter
<1> QED
  BY <1>7, <1>8, <1>9, <1>10, <1>11, <1>12, <1>13, <1>14, Whole

\* The unload ends: what the plugin published is gone.
LEMMA KernelReverted == ASSUME KernelInv, Reverted PROVE KernelInv'
<1> USE Parts, Types
<1>1. /\ pc = "revert" /\ disposer = <<>> /\ target' = None
      /\ services' = [k \in Keys |-> IF services[k].provider \in {target} THEN NoSlot ELSE services[k]]
      /\ pc' = IF closing.under THEN "close" ELSE "idle"
      /\ UNCHANGED <<wiring, started, staged, plugins, state, activated, activations, effects,
                     withdrawals, todo, moved, rounds, disposer, closing>>
  BY DEF Reverted, RemoveOwned, records, sweep
<1>2. Settled /\ target # None /\ withdrawals = {} /\ target \in Plugins /\ state[target] = "Unloaded"
  BY <1>1 DEF Reconciled, Called, Sweeping
<1>4. services' \in [Keys -> Slot]
  <2>1. NoSlot \in Slot
    BY DEF NoSlot, Slot
  <2> QED
    BY <1>1, <2>1
<1>5. \A k \in Keys : \/ services'[k] = services[k] /\ services[k].provider # target
                      \/ services[k].provider \in {target} /\ services'[k] = NoSlot
  BY <1>1
<1>6. \A k \in Keys : services'[k].retiring => services'[k].provider \in withdrawals' \cup {target'}
  <2> SUFFICES ASSUME NEW k \in Keys, services'[k].retiring PROVE FALSE
    OBVIOUS
  <2>1. services'[k] = services[k] /\ services[k].provider # target
    BY <1>5 DEF NoSlot
  <2> QED
    BY <1>2, <2>1 DEF Owned
<1>7. /\ Listed' /\ Owned' /\ Aged' /\ SupplierIsOlder' /\ NobodyStale' /\ NobodyReady'
      /\ Those("Active")' = Those("Active")
  <2>1. {target} \in SUBSET Plugins /\ \A p \in {target} : state[p] # "Active"
    BY <1>2
  <2>2. \A k \in Keys : \/ services'[k] = services[k]
                        \/ services[k].provider \in {target} /\ services'[k] = NoSlot
    BY <1>5
  <2> QED
    BY <1>1, <1>2, <1>4, <1>6, <2>1, <2>2, GoesUnseen DEF Settled
<1>8. Tables'
  BY <1>1, <1>4 DEF Tables
<1>9. Reconciled'
  BY <1>1, <1>7 DEF Reconciled
<1>10. Course'
  BY <1>1 DEF Course, Places
<1>11. Called'
  BY <1>1, <1>2 DEF Called, Sweeping
<1>12. WithdrawnOnes'
  BY <1>1, <1>2 DEF WithdrawnOnes
<1>13. Closing'
  BY <1>1, <1>2, <1>7 DEF Closing
<1>14. BorrowedResolves'
  BY <1>7, <1>8, <1>10, ServedAfter
<1> QED
  BY <1>7, <1>8, <1>9, <1>10, <1>11, <1>12, <1>13, <1>14, Whole

\* Plugins that no two of which were activated together can be listed by age.
LEMMA NewestFirstExists ==
    ASSUME NEW f \in [Plugins -> Nat]
    PROVE  \A A \in SUBSET Plugins :
              (IsFiniteSet(A) /\ \A p, q \in A : f[p] = f[q] => p = q) =>
                \E u \in [1..Cardinality(A) -> A] : \A i, j \in DOMAIN u : i < j => f[u[i]] > f[u[j]]
<1> DEFINE Apart(A) == IsFiniteSet(A) /\ \A p, q \in A : f[p] = f[q] => p = q
           Has(A, n) == \E u \in [1..n -> A] : \A i, j \in 1..n : i < j => f[u[i]] > f[u[j]]
           Bad == {n \in Nat : \E A \in SUBSET Plugins : Apart(A) /\ Cardinality(A) = n /\ ~Has(A, n)}
<1>1. ASSUME Bad # {} PROVE FALSE
  <2>1. PICK n \in Bad : \A m \in Bad : n <= m
    BY <1>1, Least
  <2>2. PICK A \in SUBSET Plugins : Apart(A) /\ Cardinality(A) = n /\ ~Has(A, n)
    BY <2>1
  <2>3. n # 0
    <3> SUFFICES ASSUME n = 0 PROVE Has(A, n)
      BY <2>2
    <3>1. 1..n = {}
      OBVIOUS
    <3>2. [i \in 1..n |-> i] \in [1..n -> A]
      BY <3>1
    <3> QED
      BY <3>1, <3>2
  <2>4. A # {}
    BY <2>2, <2>3, FS_EmptySet
  <2>5. PICK a \in A : \A p \in A : f[a] <= f[p]
    <3> DEFINE T == {f[p] : p \in A}
    <3>1. T \in SUBSET Nat /\ T # {}
      BY <2>2, <2>4
    <3> HIDE DEF T
    <3>2. PICK m \in T : \A k \in T : m <= k
      BY <3>1, Least
    <3> QED
      BY <3>2 DEF T
  <2> DEFINE B == A \ {a}
  <2>6. n - 1 \in Nat /\ B \in SUBSET Plugins /\ Apart(B) /\ Cardinality(B) = n - 1
    <3>1. IsFiniteSet(B) /\ Cardinality(B) = n - 1
      BY <2>2, FS_RemoveElement
    <3> QED
      BY <2>1, <2>2, <2>3, <3>1
  <2>7. Has(B, n - 1)
    <3> SUFFICES ASSUME ~Has(B, n - 1) PROVE FALSE
      OBVIOUS
    <3> HIDE DEF Has, Apart, B
    <3>1. n - 1 \in Bad
      BY <2>6
    <3> HIDE DEF Bad
    <3>2. n \in Nat
      BY <2>6, <2>1 DEF Bad
    <3>3. n <= n - 1
      BY <2>1, <3>1
    <3> QED
      BY <3>2, <3>3
  <2>8. PICK u \in [1..(n - 1) -> B] : \A i, j \in 1..(n - 1) : i < j => f[u[i]] > f[u[j]]
    BY <2>7
  <2> DEFINE w == [i \in 1..n |-> IF i = n THEN a ELSE u[i]]
  <2>9. n \in Nat /\ \A i \in 1..n : i # n => i \in 1..(n - 1)
    BY <2>1
  <2>10. \A i \in 1..(n - 1) : u[i] \in A /\ u[i] # a /\ f[u[i]] > f[a]
    <3> SUFFICES ASSUME NEW i \in 1..(n - 1) PROVE u[i] \in A /\ u[i] # a /\ f[u[i]] > f[a]
      OBVIOUS
    <3>1. u[i] \in A /\ u[i] # a
      BY <2>8
    <3>2. f[a] <= f[u[i]] /\ f[a] # f[u[i]] /\ f[a] \in Nat /\ f[u[i]] \in Nat
      BY <2>2, <2>5, <3>1
    <3> QED
      BY <3>1, <3>2
  <2>11. w \in [1..n -> A]
    BY <2>9, <2>10
  <2>12. ASSUME NEW i \in 1..n, NEW j \in 1..n, i < j PROVE f[w[i]] > f[w[j]]
    <3>1. i # n
      BY <2>9, <2>12
    <3>2. w[i] = u[i] /\ i \in 1..(n - 1)
      BY <2>9, <3>1
    <3>3. CASE j = n
      BY <2>10, <3>2, <3>3
    <3>4. CASE j # n
      BY <2>8, <2>9, <2>12, <3>2, <3>4
    <3> QED
      BY <3>3, <3>4
  <2> HIDE DEF w
  <2>13. Has(A, n)
    BY <2>11, <2>12
  <2> QED
    BY <2>2, <2>13
<1>2. ASSUME NEW A \in SUBSET Plugins, Apart(A) PROVE Has(A, Cardinality(A))
  <2>1. Cardinality(A) \in Nat
    BY <1>2, FS_CardinalityType
  <2> HIDE DEF Has, Apart
  <2> QED
    BY <1>1, <1>2, <2>1
<1> QED
  BY <1>2

\* Such a list has all of them.
LEMMA NewestFirstIs ==
    ASSUME KernelInv
    PROVE  /\ NewestFirst \in Seq(Plugins) /\ Range(NewestFirst) = Those("Active")
           /\ \A i, j \in DOMAIN NewestFirst : i < j => activated[NewestFirst[i]] > activated[NewestFirst[j]]
<1> USE Parts, Types
<1>1. Active = Those("Active") /\ Active \in SUBSET Plugins /\ IsFiniteSet(Active)
  <2>1. Those("Active") \in SUBSET Plugins /\ Those("Active") \subseteq Range(plugins)
    BY DEF Those, Listed
  <2>2. Active = Those("Active")
    <3>1. \A p \in Plugins : state[p] = "Active" => p \in Range(plugins)
      BY DEF Listed
    <3>2. Range(plugins) \subseteq Plugins
      BY DEF Range
    <3> QED
      BY <3>1, <3>2 DEF Active, Those
  <2> QED
    BY <2>1, <2>2, CountIs
<1>2. \A p, q \in Active : activated[p] = activated[q] => p = q
  BY <1>1 DEF Aged, Those
<1> DEFINE n == Cardinality(Active)
           u == NewestFirst
<1>3. n \in Nat
  BY <1>1, FS_CardinalityType
<1>4. u \in [1..n -> Active] /\ \A i, j \in DOMAIN u : i < j => activated[u[i]] > activated[u[j]]
  <2>1. \E x \in [1..Cardinality(Active) -> Active] : \A i, j \in DOMAIN x : i < j => activated[x[i]] > activated[x[j]]
    BY <1>1, <1>2, NewestFirstExists
  <2> QED
    BY <2>1 DEF NewestFirst
<1> HIDE DEF u, n
<1>5. u \in Seq(Plugins)
  BY <1>1, <1>3, <1>4, SeqDef
<1>6. u \in Injection(1..n, Active)
  <2> SUFFICES ASSUME NEW i \in 1..n, NEW j \in 1..n, u[i] = u[j] PROVE i = j
    BY <1>4 DEF Injection, IsInjective
  <2>1. activated[u[i]] \in Nat /\ i \in DOMAIN u /\ j \in DOMAIN u
    BY <1>1, <1>4
  <2>2. ~(i < j) /\ ~(j < i)
    <3>1. i < j => activated[u[i]] > activated[u[j]]
      BY <1>4, <2>1
    <3>2. j < i => activated[u[j]] > activated[u[i]]
      BY <1>4, <2>1
    <3> QED
      BY <2>1, <3>1, <3>2
  <2>3. i \in Int /\ j \in Int
    BY <1>3
  <2> QED
    BY <2>2, <2>3
<1>7. Cardinality(1..n) = n /\ IsFiniteSet(1..n)
  <2>1. 1 \in Int /\ n \in Int
    BY <1>3
  <2>2. IsFiniteSet(1..n) /\ Cardinality(1..n) = IF 1 > n THEN 0 ELSE n - 1 + 1
    BY <2>1, FS_Interval
  <2> QED
    BY <1>3, <2>2
<1>8. u \in Surjection(1..n, Active)
  BY <1>1, <1>6, <1>7, FS_Injection DEF n
<1>9. Range(u) = Active
  BY ZenonT(30), <1>4, <1>8 DEF Surjection, Range
<1> QED
  BY <1>1, <1>4, <1>5, <1>9 DEF u

\* A shutdown begins with all that run, the newest first.
LEMMA KernelShutdown == ASSUME KernelInv, Shutdown PROVE KernelInv'
<1> USE Parts, Types
<1> DEFINE u == NewestFirst
<1>1. /\ pc = "idle" /\ pc' = "close" /\ closing' = [under |-> TRUE, left |-> u]
      /\ UNCHANGED <<wiring, started, staged, plugins, state, activated, activations, effects, services,
                     withdrawals, todo, moved, rounds, target, disposer>>
  BY DEF Shutdown, records, registry, sweep
<1>2. /\ u \in Seq(Plugins) /\ Range(u) = Those("Active")
      /\ \A i, j \in DOMAIN u : i < j => activated[u[i]] > activated[u[j]]
  BY NewestFirstIs
<1> HIDE DEF u
<1>3. /\ target = None /\ disposer = <<>> /\ withdrawals = {} /\ NobodyStale /\ (NobodyReady \/ Fresh)
  BY <1>1, AtRest
<1>4. Listed' /\ Owned' /\ WithdrawnOnes' /\ Aged' /\ SupplierIsOlder' /\ BorrowedResolves' /\ Tables'
  BY <1>1 DEF Tables, Listed, Distinct, Owned, WithdrawnOnes, Aged, SupplierIsOlder, BorrowedResolves
<1>5. NobodyStale' /\ (NobodyReady' \/ Fresh')
  BY <1>1, <1>3 DEF NobodyStale, NobodyReady, Fresh, Satisfied, Contains
<1>6. Reconciled'
  BY <1>1, <1>5 DEF Reconciled
<1>7. Course'
  BY <1>1, <1>2 DEF Course, Places
<1>8. Called'
  BY <1>1, <1>3 DEF Called, Sweeping
<1>9. Closing'
  <2>1. Those("Active")' = Those("Active")
    BY <1>1 DEF Those
  <2> QED
    BY <1>1, <1>2, <1>3, <1>5, <2>1 DEF Closing
<1> QED
  BY <1>4, <1>6, <1>7, <1>8, <1>9, Whole

\* It ends with nothing running and nothing published.
LEMMA KernelClosed == ASSUME KernelInv, Closed PROVE KernelInv'
<1> USE Parts, Types
<1>1. /\ pc = "close" /\ closing.left = <<>> /\ plugins' = <<>> /\ state' = [p \in Plugins |-> "none"]
      /\ started' = FALSE /\ closing' = Open /\ pc' = "idle"
      /\ UNCHANGED <<wiring, staged, activated, activations, effects, services, withdrawals,
                     todo, moved, rounds, target, disposer>>
  BY DEF Closed, registry, sweep
<1>2. /\ target = None /\ disposer = <<>> /\ withdrawals = {}
      /\ \A k \in Keys :
            /\ ~services[k].retiring
            /\ services[k].provider # None =>
                    /\ services[k].provider \in Plugins /\ state[services[k].provider] = "Active"
                    /\ k \in Range(effects[services[k].provider])
  BY <1>1, AtRest
<1>3. \A p \in Plugins : state[p] # "Active"
  <2>1. Range(<<>>) = Those("Active")
    BY <1>1 DEF Called, Closing
  <2>2. Range(<<>>) = {}
    BY DEF Range
  <2> QED
    BY <2>1, <2>2 DEF Those
<1>4. \A k \in Keys : services[k] = NoSlot
  <2> SUFFICES ASSUME NEW k \in Keys PROVE services[k] = NoSlot
    OBVIOUS
  <2>1. services[k] \in Slot /\ services[k].provider = None /\ ~services[k].retiring
    BY <1>2, <1>3
  <2> QED
    BY <2>1 DEF Slot, NoSlot
<1>5. \A p \in Plugins : \A k \in Range(effects[p]) : FALSE
  BY <1>3 DEF Owned
<1>6. Fresh'
  BY <1>1, <1>4 DEF Fresh
<1>7. NobodyStale' /\ SupplierIsOlder'
  BY <1>6, FreshAfter
<1>8. Tables'
  <2>1. <<>> \in Seq(Plugins) /\ state' \in [Plugins -> States]
    BY <1>1 DEF States
  <2> QED
    BY <1>1, <2>1 DEF Tables
<1>9. Course'
  <2>1. closing' \in [under : BOOLEAN, left : Seq(Plugins)]
    BY <1>1 DEF Open
  <2> QED
    BY <1>1, <2>1 DEF Course, Places
<1>10. Listed'
  <2>1. Range(<<>>) = {} /\ Distinct(<<>>)
    BY DEF Range, Distinct
  <2> QED
    BY <1>1, <2>1 DEF Listed, Distinct
<1>11. Called'
  BY <1>1, <1>2 DEF Called, Sweeping, Open
<1>12. Owned'
  BY <1>1, <1>4, <1>5 DEF Owned, NoSlot
<1>13. WithdrawnOnes'
  BY <1>1, <1>2 DEF WithdrawnOnes
<1>14. Aged'
  BY <1>1 DEF Aged
<1>15. Reconciled' /\ Closing'
  BY <1>1, <1>6, <1>7 DEF Reconciled, Closing, Open
<1>16. BorrowedResolves'
  BY <1>7, <1>8, <1>9, ServedAfter
<1> QED
  BY <1>7, <1>8, <1>9, <1>10, <1>11, <1>12, <1>13, <1>14, <1>15, <1>16, Whole

-----------------------------------------------------------------------------
(***************************************************************************)
(* What follows.                                                           *)
(***************************************************************************)
\* No step breaks it.
LEMMA NextKernel == ASSUME KernelInv, [Next]_vars PROVE KernelInv'
<1>1. CASE Internal
  <2>1. CASE \E q \in Plugins : DeactivateUnloading(q)
    BY <2>1, KernelDeactivateUnloading
  <2>2. CASE MountOne
    BY <2>2, KernelMountOne
  <2>3. CASE MountDone
    BY <2>3, KernelSweepStarts DEF MountDone
  <2>4. CASE Activate
    BY <2>4, KernelActivate
  <2>5. CASE MountFails
    BY <2>5, KernelMountFails
  <2>6. CASE ReadyDone
    BY <2>6, KernelReadyDone
  <2>7. CASE Deactivate
    BY <2>7, KernelDeactivate
  <2>8. CASE RoundDone
    BY <2>8, KernelRoundDone
  <2>9. CASE FinishWithdrawals
    BY <2>9, KernelFinishWithdrawals
  <2>10. CASE Swept
    BY <2>10, KernelSwept
  <2>11. CASE RevertOne
    BY <2>11, KernelRevertOne
  <2>12. CASE Reverted
    BY <2>12, KernelReverted
  <2>13. CASE CloseNext
    BY <2>13, KernelCloseNext
  <2>14. CASE Closed
    BY <2>14, KernelClosed
  <2> QED
    BY <1>1, <2>1, <2>2, <2>3, <2>4, <2>5, <2>6, <2>7, <2>8, <2>9, <2>10, <2>11, <2>12, <2>13, <2>14
       DEF Internal
<1>2. CASE Host
  <2>1. CASE \E p \in Plugins : Unload(p)
    BY <2>1, KernelUnload
  <2>2. CASE Start
    BY <2>2, KernelStart
  <2>3. CASE Refresh
    BY <2>3, KernelSweepStarts DEF Refresh
  <2>4. CASE Shutdown
    BY <2>4, KernelShutdown
  <2> QED
    BY <1>2, <2>1, <2>2, <2>3, <2>4 DEF Host
<1>3. CASE UNCHANGED vars
  <2>1. UNCHANGED <<wiring, started, staged, plugins, state, activated, activations, effects, services,
                    withdrawals, pc, todo, moved, rounds, target, disposer, closing>>
    BY <1>3 DEF vars, records, registry, sweep, unload
  <2>2. /\ Tables' /\ Course' /\ Listed' /\ Called' /\ Owned' /\ WithdrawnOnes' /\ Aged'
        /\ SupplierIsOlder' /\ BorrowedResolves'
    BY SMTT(30), <2>1, Parts DEF Tables, Course, Listed, Distinct, Called, Owned, WithdrawnOnes, Aged,
                       SupplierIsOlder, BorrowedResolves
  <2>3. \A p \in Plugins : Satisfied(p)' = Satisfied(p)
    BY <2>1 DEF Satisfied, Contains
  <2>4. /\ NobodyReady' <=> NobodyReady
        /\ NobodyStale' <=> NobodyStale
        /\ Fresh' <=> Fresh
    BY <2>1, <2>3 DEF NobodyReady, NobodyStale, Fresh
  <2>5. Those("Active")' = Those("Active") /\ Those("Pending")' = Those("Pending")
    BY <2>1 DEF Those
  <2>6. (Enough("Active")' <=> Enough("Active")) /\ (Enough("Pending")' <=> Enough("Pending"))
    <3>1. rounds' = rounds /\ moved' = moved /\ state' = state
      BY <2>1
    <3>2. {p \in Plugins : state'[p] = "Active"} = {p \in Plugins : state[p] = "Active"}
      BY <3>1
    <3>3. {p \in Plugins : state'[p] = "Pending"} = {p \in Plugins : state[p] = "Pending"}
      BY <3>1
    <3>4. Enough("Active")' <=> Enough("Active")
      BY <3>1, <3>2, Zenon DEF Enough, Those
    <3>5. Enough("Pending")' <=> Enough("Pending")
      BY <3>1, <3>3, Zenon DEF Enough, Those
    <3> QED
      BY <3>4, <3>5
  <2>7. (Growing => Growing') /\ (Shrinking => Shrinking')
    <3>1. /\ UNCHANGED <<wiring, state, services, withdrawals, pc, todo, moved, target>>
          /\ Range(todo') = Range(todo) /\ Distinct(todo') <=> Distinct(todo)
      BY <2>1
    <3>2. Growing => Growing'
      <4> SUFFICES ASSUME Growing PROVE Growing'
        OBVIOUS
      <4>1. /\ withdrawals' = {} /\ NobodyStale' /\ Enough("Pending")'
            /\ \A k \in Keys : ~services'[k].retiring
        BY <2>4, <2>6, <3>1 DEF Growing
      <4>2. pc' = "ready" =>
                /\ Distinct(todo')
                /\ \A p \in Range(todo') : state'[p] = "Pending" /\ Satisfied(p)'
                /\ ~moved' => \A p \in Plugins : state'[p] = "Pending" /\ Satisfied(p)' => p \in Range(todo')
        <5> SUFFICES ASSUME pc' = "ready" PROVE
                /\ Distinct(todo')
                /\ \A p \in Range(todo') : state'[p] = "Pending" /\ Satisfied(p)'
                /\ ~moved' => \A p \in Plugins : state'[p] = "Pending" /\ Satisfied(p)' => p \in Range(todo')
          OBVIOUS
        <5>1. /\ Distinct(todo) /\ \A p \in Range(todo) : state[p] = "Pending" /\ Satisfied(p)
              /\ ~moved => \A p \in Plugins : state[p] = "Pending" /\ Satisfied(p) => p \in Range(todo)
          BY <3>1 DEF Growing
        <5>2. \A p \in Range(todo) : p \in Plugins
          BY Types DEF Range
        <5> QED
          BY <2>3, <3>1, <5>1, <5>2
      <4>3. pc' = "stale" => todo' = <<>> /\ (~moved' => NobodyReady')
        BY <2>4, <3>1 DEF Growing
      <4> QED
        BY <4>1, <4>2, <4>3 DEF Growing, Distinct
    <3>3. Shrinking => Shrinking'
      <4> SUFFICES ASSUME Shrinking PROVE Shrinking'
        OBVIOUS
      <4>1. NobodyReady' /\ Enough("Active")' /\ (pc' = "ready" => todo' = <<>>)
        BY <2>4, <2>6, <3>1 DEF Shrinking
      <4>2. ASSUME pc' = "stale"
            PROVE  /\ Distinct(todo')
                   /\ \A p \in Range(todo') :
                        /\ ~Satisfied(p)' /\ p # target'
                        /\ state'[p] = "Active" \/ (state'[p] = "Unloaded" /\ moved' /\ wiring'.unloads)
                   /\ ~moved' => \A p \in Plugins : state'[p] = "Active" /\ ~Satisfied(p)' => p \in Range(todo')
        <5>1. /\ Distinct(todo)
              /\ \A p \in Range(todo) :
                    /\ ~Satisfied(p) /\ p # target
                    /\ state[p] = "Active" \/ (state[p] = "Unloaded" /\ moved /\ wiring.unloads)
              /\ ~moved => \A p \in Plugins : state[p] = "Active" /\ ~Satisfied(p) => p \in Range(todo)
          BY <3>1, <4>2 DEF Shrinking
        <5>2. \A p \in Range(todo) : p \in Plugins
          BY Types DEF Range
        <5> QED
          BY <2>3, <3>1, <5>1, <5>2
      <4> QED
        BY <4>1, <4>2 DEF Shrinking, Distinct
    <3> QED
      BY <3>2, <3>3
  <2>8. Reconciled'
    BY <2>1, <2>4, <2>7, Parts DEF Reconciled, Settled
  <2>9. Closing'
    BY <2>1, <2>4, <2>5, Parts DEF Closing
  <2> QED
    BY <2>2, <2>8, <2>9, Whole
<1> QED
  BY <1>1, <1>2, <1>3 DEF Next

\* It holds in every state.
THEOREM KernelInvariant == Spec => []KernelInv
<1>1. Init => KernelInv
  BY InitKernel
<1>2. KernelInv /\ [Next]_vars => KernelInv'
  BY NextKernel
<1> QED
  BY <1>1, <1>2, PTL DEF Spec

\* What an active plugin requires resolves at every point of every sweep and
\* teardown (context.rs: withdrawals wait for the deactivations they cause).
THEOREM BorrowedResolvesAlways == Spec => []BorrowedResolves
<1>1. KernelInv => BorrowedResolves
  BY DEF KernelInv
<1> QED
  BY <1>1, KernelInvariant, PTL

\* And resolves to a plugin that was activated before it (context.rs: activate,
\* a name is never taken over).
THEOREM SupplierIsOlderAlways == Spec => []SupplierIsOlder
<1>1. KernelInv => SupplierIsOlder
  BY DEF KernelInv
<1> QED
  BY <1>1, KernelInvariant, PTL

\* At rest the registry holds what the active plugins' disposers would take
\* back and nothing else (service.rs, effect.rs).
THEOREM NoTraceAlways == Spec => []NoTrace
<1>1. ASSUME KernelInv PROVE NoTrace
  <2> SUFFICES ASSUME pc = "idle" PROVE
        /\ withdrawals = {} /\ disposer = <<>>
        /\ \A k \in Keys : services[k].provider # None =>
            /\ state[services[k].provider] = "Active"
            /\ ~services[k].retiring
            /\ k \in Range(effects[services[k].provider])
        /\ \A p \in Plugins : \A k \in Range(effects[p]) : services[k].provider = p
    BY DEF NoTrace
  <2>1. \A p \in Plugins : \A k \in Range(effects[p]) : services[k].provider = p
    BY <1>1, Parts DEF Owned
  <2> QED
    BY <1>1, <2>1, AtRest
<1> QED
  BY <1>1, KernelInvariant, PTL

\* Following the activations back, no unload of a shutdown makes another plugin
\* stale (context.rs: shutdown).
THEOREM ShutdownInOrderAlways == Spec => []ShutdownInOrder
<1>1. ASSUME KernelInv PROVE ShutdownInOrder
  <2> SUFFICES ASSUME closing.under PROVE Stale = <<>> /\ withdrawals = {}
    BY DEF ShutdownInOrder
  <2>1. withdrawals = {} /\ NobodyStale
    BY <1>1, Parts DEF Closing
  <2> DEFINE T == {p \in Plugins : state[p] = "Active" /\ ~Satisfied(p)}
  <2>2. T = {}
    BY <2>1 DEF NobodyStale
  <2> HIDE DEF T
  <2>3. plugins \in Seq(Plugins)
    BY <1>1, Types
  <2>4. Only(plugins, T) \in Seq(Plugins) /\ Range(Only(plugins, T)) = Range(plugins) \cap T
    BY <2>3, OnlyHas
  <2>5. Only(plugins, T) = <<>>
    BY <2>2, <2>4, EmptyHas
  <2>6. Stale = Only(plugins, T)
    BY DEF Stale, T
  <2> QED
    BY <2>1, <2>5, <2>6
<1> QED
  BY <1>1, KernelInvariant, PTL

\* A sweep ends at a fixed point within its rounds: the counting of refresh,
\* which gives it one round more than there are plugins.
THEOREM SweepSettlesAlways == Spec => SweepSettles
<1>1. ASSUME KernelInv
      PROVE  pc = "withdraw" /\ pc' \in {"idle", "revert"} =>
        \A p \in Plugins : /\ state[p] = "Pending" => ~Satisfied(p)
                           /\ state[p] = "Active" => Satisfied(p)
  BY <1>1, Parts DEF Reconciled, Settled, NobodyReady, NobodyStale
<1> QED
  BY <1>1, KernelInvariant, PTL DEF SweepSettles

=============================================================================
