------------------------------- MODULE Kernel -------------------------------
(***************************************************************************)
(* The plugin kernel: crates/nanus-kernel/src/{context,service,effect}.rs. *)
(* A context keeps the plugins' records and the registry of the services   *)
(* they publish; refresh() reconciles the two in both directions.          *)
(*                                                                         *)
(* Everything runs on one thread and to the end, so a step here is a step  *)
(* of the code between two places where it reads the context again: one    *)
(* hook, one reverted effect, one pass over the records.  A service key    *)
(* stands for a name with its type.  Listeners are not modelled.           *)
(***************************************************************************)
EXTENDS Naturals, Sequences, FiniteSets, Functions, Subsequences

CONSTANTS
    Plugins,      \* plugin ids
    Keys,         \* service keys
    Wirings       \* what the plugins may be and do: see WiringAssumption

\* The staged plugins in declaration order, what each requires and provides,
\* whether init and mount hooks may fail by themselves, and whether an
\* unmount hook may unload another plugin.
ASSUME WiringAssumption ==
    \A w \in Wirings :
        /\ w.declared \in Seq(Plugins)
        /\ w.requires \in [Plugins -> SUBSET Keys] /\ w.provides \in [Plugins -> Seq(Keys)]
        /\ w.fails \in BOOLEAN /\ w.unloads \in BOOLEAN
ASSUME NoneAssumption == "none" \notin Plugins

VARIABLES
    wiring,       \* the plugins as they were written; never changes
    started,      \* ContextInner::started
    staged,       \* plugins not mounted yet
    plugins,      \* the records, in order
    state,        \* PluginState of each record; "none" for a plugin without one
    activated,    \* when each plugin was activated last; 0 for never
    activations,  \* how many activations have happened
    effects,      \* the services each record's disposer withdraws, oldest first
    services,     \* the registry: who published each key, and whether it is retiring
    withdrawals,  \* plugins deactivated in this sweep whose effects still stand
    pc,           \* where the code is; "idle" when nothing of the context runs
    todo,         \* the plugins the pass under way has still to visit
    moved,        \* whether this round of the sweep activated or deactivated anyone
    rounds,       \* rounds the sweep has left
    target,       \* the plugin an unload is about
    disposer,     \* the effects that unload has still to revert
    closing       \* the plugins a shutdown has still to unload, and whether one is under way

registry == <<effects, services, withdrawals>>
records  == <<plugins, state, activated, activations>>
sweep    == <<todo, moved, rounds>>
unload   == <<target, disposer, closing>>
vars     == <<wiring, started, staged, records, registry, pc, sweep, unload>>

None == "none"
NoSlot == [provider |-> None, retiring |-> FALSE]
Open == [under |-> FALSE, left |-> <<>>]

Init ==
    /\ wiring \in Wirings
    /\ started = FALSE
    /\ staged = wiring.declared
    /\ plugins = <<>>
    /\ state = [p \in Plugins |-> "none"]
    /\ activated = [p \in Plugins |-> 0]
    /\ activations = 0
    /\ effects = [p \in Plugins |-> <<>>]
    /\ services = [k \in Keys |-> NoSlot]
    /\ withdrawals = {}
    /\ pc = "idle"
    /\ todo = <<>> /\ moved = FALSE /\ rounds = 0
    /\ target = None /\ disposer = <<>> /\ closing = Open

-----------------------------------------------------------------------------
(***************************************************************************)
(* service.rs: contains_erased, retire_owned_by, remove_owned_by.          *)
(***************************************************************************)
Contains(k) == services[k].provider # None /\ ~services[k].retiring
Retire(p) == [k \in Keys |-> IF services[k].provider = p
                             THEN [services[k] EXCEPT !.retiring = TRUE] ELSE services[k]]
RemoveOwned(owners) ==
    [k \in Keys |-> IF services[k].provider \in owners THEN NoSlot ELSE services[k]]
Satisfied(p) == \A k \in wiring.requires[p] : Contains(k)

\* Wrong: a name is taken over by whoever publishes it last.
AlwaysFree(k, p) == k \in Keys /\ p \in Plugins

\* A name may only be taken again by the plugin that holds it.
Free(k, p) == services[k].provider \in {None, p}

Ready == Only(plugins, {p \in Plugins : state[p] = "Pending" /\ Satisfied(p)})
Stale == Only(plugins, {p \in Plugins : state[p] = "Active" /\ ~Satisfied(p)})

Without(p) == Only(plugins, Plugins \ {p})

\* Wrong: one round, whatever moved in it.
OneRound == 1

RoundsMax == Len(plugins) + 1

\* A sweep begins, over the records as this step leaves them.
BeginSweep ==
    /\ pc' = "ready"
    /\ todo' = Ready'
    /\ moved' = FALSE
    /\ rounds' = RoundsMax'

-----------------------------------------------------------------------------
(***************************************************************************)
(* start: mount_staged, then refresh.                                      *)
(***************************************************************************)
Start ==
    /\ pc = "idle"
    /\ ~started
    /\ started' = TRUE
    /\ pc' = "mount"
    /\ UNCHANGED <<wiring, staged, records, registry, sweep, unload>>

Mounted(p) ==
    /\ plugins' = Append(plugins, p)
    /\ state' = [state EXCEPT ![p] = "Pending"]
    /\ staged' = Tail(staged)
    /\ UNCHANGED pc

\* A duplicate id or a failing init ends the start there: what was mounted
\* stays, the rest is dropped, and no sweep runs.
MountOne ==
    /\ pc = "mount"
    /\ staged # <<>>
    /\ \/ /\ state[Head(staged)] = "none"
          /\ Mounted(Head(staged))
       \/ /\ wiring.fails \/ state[Head(staged)] # "none"
          /\ staged' = <<>>
          /\ pc' = "idle"
          /\ UNCHANGED <<plugins, state>>
    /\ UNCHANGED <<wiring, started, activated, activations, registry, sweep, unload>>

MountDone ==
    /\ pc = "mount"
    /\ staged = <<>>
    /\ UNCHANGED <<wiring, started, staged, records, registry, unload>>
    /\ BeginSweep

-----------------------------------------------------------------------------
(***************************************************************************)
(* refresh: rounds of activate_ready and deactivate_stale to a fixed       *)
(* point, then finish_withdrawals, and again until nothing was parked.     *)
(***************************************************************************)
Refresh ==
    /\ pc = "idle"
    /\ UNCHANGED <<wiring, started, staged, records, registry, unload>>
    /\ BeginSweep

\* activate, when every key could be published.
Activate ==
    /\ pc = "ready"
    /\ todo # <<>>
    /\ LET p    == Head(todo)
           keys == wiring.provides[p]
       IN  /\ \A k \in Range(keys) : Free(k, p)
           /\ services' = [k \in Keys |-> IF k \in Range(keys)
                              THEN [provider |-> p, retiring |-> FALSE] ELSE services[k]]
           /\ effects' = [effects EXCEPT ![p] = keys]
           /\ state' = [state EXCEPT ![p] = "Active"]
           /\ activations' = activations + 1
           /\ activated' = [activated EXCEPT ![p] = activations + 1]
    /\ todo' = Tail(todo)
    /\ moved' = TRUE
    /\ UNCHANGED <<wiring, started, staged, plugins, withdrawals, pc, rounds, unload>>

\* The mount hook fails after publishing the first n of its keys, because the
\* next is another's or by itself.
FailsAfter(p, n) ==
    LET keys == wiring.provides[p]
    IN  /\ \A i \in 1..n : Free(keys[i], p)
        /\ wiring.fails \/ (n < Len(keys) /\ ~Free(keys[n + 1], p))

\* Wrong: what a failed mount published is not taken back.
MountFailsKeeping ==
    /\ pc = "ready"
    /\ todo # <<>>
    /\ LET p == Head(todo)
       IN  /\ \E n \in 0..Len(wiring.provides[p]) :
                /\ FailsAfter(p, n)
                /\ services' = [k \in Keys |-> IF \E i \in 1..n : wiring.provides[p][i] = k
                                   THEN [provider |-> p, retiring |-> FALSE] ELSE services[k]]
           /\ state' = [state EXCEPT ![p] = "Failed"]
    /\ todo' = Tail(todo)
    /\ moved' = TRUE
    /\ UNCHANGED <<wiring, started, staged, plugins, activated, activations, effects,
                   withdrawals, pc, rounds, unload>>

MountFails ==
    /\ pc = "ready"
    /\ todo # <<>>
    /\ LET p == Head(todo)
       IN  /\ \E n \in 0..Len(wiring.provides[p]) :
                /\ FailsAfter(p, n)
                /\ services' = [k \in Keys |-> IF \E i \in 1..n : wiring.provides[p][i] = k
                                               THEN NoSlot ELSE services[k]]
           /\ state' = [state EXCEPT ![p] = "Failed"]
    /\ todo' = Tail(todo)
    /\ moved' = TRUE
    /\ UNCHANGED <<wiring, started, staged, plugins, activated, activations, effects,
                   withdrawals, pc, rounds, unload>>

ReadyDone ==
    /\ pc = "ready"
    /\ todo = <<>>
    /\ pc' = "stale"
    /\ todo' = Stale
    /\ UNCHANGED <<wiring, started, staged, records, registry, moved, rounds, unload>>

\* unload_deferred: the unmount runs with the plugin's bindings retired; its
\* effects are parked, and its record goes to the end of the list.
Parked(p) ==
    /\ plugins' = Append(Without(p), p)
    /\ withdrawals' = withdrawals \cup {p}
    /\ todo' = Tail(todo)
    /\ moved' = TRUE

\* Wrong: the bindings go where the plugin is deactivated.
DeactivateAtOnce ==
    /\ pc = "stale"
    /\ todo # <<>>
    /\ Parked(Head(todo))
    /\ state' = [state EXCEPT ![Head(todo)] = "Pending"]
    /\ effects' = [effects EXCEPT ![Head(todo)] = <<>>]
    /\ services' = RemoveOwned({Head(todo)})
    /\ UNCHANGED <<wiring, started, staged, activated, activations, pc, rounds, unload>>

Deactivate ==
    /\ pc = "stale"
    /\ todo # <<>>
    /\ Parked(Head(todo))
    /\ state' = [state EXCEPT ![Head(todo)] = "Pending"]
    /\ effects' = [effects EXCEPT ![Head(todo)] = <<>>]
    /\ services' = Retire(Head(todo))
    /\ UNCHANGED <<wiring, started, staged, activated, activations, pc, rounds, unload>>

\* The unmount hook unloads another plugin.  The sweeps that unload asks for
\* return at once, for one is under way, so its effects are reverted there.
DeactivateUnloading(q) ==
    /\ wiring.unloads
    /\ pc = "stale"
    /\ todo # <<>>
    /\ q # Head(todo) /\ state[q] # "none"
    /\ plugins' = Append(Append(Only(plugins, Plugins \ {q, Head(todo)}), q), Head(todo))
    /\ withdrawals' = withdrawals \cup {Head(todo)}
    /\ todo' = Tail(todo)
    /\ moved' = TRUE
    /\ state' = [state EXCEPT ![Head(todo)] = "Pending", ![q] = "Unloaded"]
    /\ effects' = [effects EXCEPT ![Head(todo)] = <<>>, ![q] = <<>>]
    /\ services' = [k \in Keys |-> IF services[k].provider = q THEN NoSlot
                                   ELSE Retire(Head(todo))[k]]
    /\ UNCHANGED <<wiring, started, staged, activated, activations, pc, rounds, unload>>

RoundDone ==
    /\ pc = "stale"
    /\ todo = <<>>
    /\ IF moved /\ rounds > 1
       THEN /\ pc' = "ready"
            /\ todo' = Ready
            /\ moved' = FALSE
            /\ rounds' = rounds - 1
       ELSE /\ pc' = "withdraw"
            /\ UNCHANGED sweep
    /\ UNCHANGED <<wiring, started, staged, records, registry, unload>>

\* Wrong: the parked withdrawals are looked at and left where they are.
FinishLeavingParked ==
    /\ pc = "withdraw"
    /\ withdrawals # {}
    /\ services' = RemoveOwned(withdrawals)
    /\ UNCHANGED withdrawals
    /\ UNCHANGED <<wiring, started, staged, records, effects, unload>>
    /\ BeginSweep

\* Every parked plugin's effects are reverted and what it still owns removed;
\* the sweeps its effects ask for are the one under way.
FinishWithdrawals ==
    /\ pc = "withdraw"
    /\ withdrawals # {}
    /\ services' = RemoveOwned(withdrawals)
    /\ withdrawals' = {}
    /\ UNCHANGED <<wiring, started, staged, records, effects, unload>>
    /\ BeginSweep

Swept ==
    /\ pc = "withdraw"
    /\ withdrawals = {}
    /\ pc' = IF target = None THEN "idle" ELSE "revert"
    /\ UNCHANGED <<wiring, started, staged, records, registry, sweep, unload>>

-----------------------------------------------------------------------------
(***************************************************************************)
(* unload and shutdown.                                                    *)
(***************************************************************************)
\* The plugin's unmount runs, its bindings are retired, and the dependents are
\* swept before its own effects are reverted.  Its state is not looked at.
BeginUnload(p) ==
    /\ plugins' = Append(Without(p), p)
    /\ state' = [state EXCEPT ![p] = "Unloaded"]
    /\ disposer' = effects[p]
    /\ effects' = [effects EXCEPT ![p] = <<>>]
    /\ services' = Retire(p)
    /\ target' = p
    /\ UNCHANGED <<wiring, started, staged, activated, activations, withdrawals>>
    /\ BeginSweep

Unload(p) ==
    /\ pc = "idle"
    /\ state[p] # "none"
    /\ BeginUnload(p)
    /\ UNCHANGED closing

\* The newest effect withdraws its service and asks for a sweep.
RevertOne ==
    /\ pc = "revert"
    /\ disposer # <<>>
    /\ LET k == disposer[Len(disposer)]
       IN  services' = IF services[k].provider = target
                       THEN [services EXCEPT ![k] = NoSlot] ELSE services
    /\ disposer' = SubSeq(disposer, 1, Len(disposer) - 1)
    /\ UNCHANGED <<wiring, started, staged, records, effects, withdrawals, target, closing>>
    /\ BeginSweep

Reverted ==
    /\ pc = "revert"
    /\ disposer = <<>>
    /\ services' = RemoveOwned({target})
    /\ target' = None
    /\ pc' = IF closing.under THEN "close" ELSE "idle"
    /\ UNCHANGED <<wiring, started, staged, records, effects, withdrawals, sweep, disposer,
                   closing>>

Active == {p \in Range(plugins) : state[p] = "Active"}

\* Wrong: the reverse of the order the plugins were written in.
ReverseDeclared ==
    LET up == Only(plugins, Active)
    IN  [i \in 1..Len(up) |-> up[Len(up) + 1 - i]]

\* The active plugins, newest activation first.
NewestFirst ==
    CHOOSE q \in [1..Cardinality(Active) -> Active] :
        \A i, j \in DOMAIN q : i < j => activated[q[i]] > activated[q[j]]

Shutdown ==
    /\ pc = "idle"
    /\ closing' = [under |-> TRUE, left |-> NewestFirst]
    /\ pc' = "close"
    /\ UNCHANGED <<wiring, started, staged, records, registry, sweep, target, disposer>>

CloseNext ==
    /\ pc = "close"
    /\ closing.left # <<>>
    /\ BeginUnload(Head(closing.left))
    /\ closing' = [closing EXCEPT !.left = Tail(@)]

\* The records are cleared, and the context may be started again.
Closed ==
    /\ pc = "close"
    /\ closing.left = <<>>
    /\ plugins' = <<>>
    /\ state' = [p \in Plugins |-> "none"]
    /\ started' = FALSE
    /\ closing' = Open
    /\ pc' = "idle"
    /\ UNCHANGED <<wiring, staged, activated, activations, registry, sweep, target, disposer>>

-----------------------------------------------------------------------------
Internal ==
    \/ MountOne \/ MountDone
    \/ Activate \/ MountFails \/ ReadyDone
    \/ Deactivate \/ (\E q \in Plugins : DeactivateUnloading(q)) \/ RoundDone
    \/ FinishWithdrawals \/ Swept
    \/ RevertOne \/ Reverted \/ CloseNext \/ Closed

Host == Start \/ Refresh \/ Shutdown \/ \E p \in Plugins : Unload(p)

Next == Internal \/ Host

Spec == Init /\ [][Next]_vars

\* A call of the host's runs to its end.
CalledSpec == Spec /\ WF_vars(Internal)

-----------------------------------------------------------------------------
(***************************************************************************)
(* What makes the kernel correct.                                          *)
(***************************************************************************)
\* What an active plugin requires resolves, at every point of every sweep and
\* teardown: its unmount, whenever it comes, can hand back what it borrowed
\* ("A withdrawal waits for the deactivations it causes, at any depth").
BorrowedResolves ==
    ~wiring.unloads => \A p \in Plugins : state[p] = "Active" =>
        \A k \in wiring.requires[p] : services[k].provider # None

\* And it resolves to a plugin activated before it: no provider is replaced
\* under a consumer, which is why shutdown may follow the activations back.
SupplierIsOlder ==
    \A p \in Plugins : state[p] = "Active" =>
        \A k \in wiring.requires[p] :
            LET supplier == services[k].provider
            IN  supplier # None => activated[supplier] < activated[p]

\* A sweep ends at a fixed point within its rounds: nobody who could run is
\* left waiting, and nobody runs on a capability that is going away.
SweepSettles ==
    [][pc = "withdraw" /\ pc' \in {"idle", "revert"} =>
        \A p \in Plugins : /\ state[p] = "Pending" => ~Satisfied(p)
                           /\ state[p] = "Active" => Satisfied(p)]_vars

\* At rest the registry holds what the active plugins' disposers would take
\* back and nothing else: no failed mount, no deactivation, no unload and no
\* shutdown leaves a trace.
NoTrace ==
    pc = "idle" =>
        /\ withdrawals = {} /\ disposer = <<>>
        /\ \A k \in Keys : services[k].provider # None =>
            /\ state[services[k].provider] = "Active"
            /\ ~services[k].retiring
            /\ k \in Range(effects[services[k].provider])
        /\ \A p \in Plugins : \A k \in Range(effects[p]) : services[k].provider = p

\* A shutdown unloads every plugin itself: following the activations back, no
\* unload makes another plugin stale.
ShutdownInOrder == closing.under => Stale = <<>> /\ withdrawals = {}

\* A call of the host's comes back, whatever cascade it sets off: "each round
\* finishes at least one withdrawal and a plugin is parked at most once per
\* round" (refresh).
CallsReturn == (pc # "idle") ~> (pc = "idle")
=============================================================================
