------------------------------ MODULE MCKernel ------------------------------
(***************************************************************************)
(* Instances of Kernel for TLC: every wiring of a few plugins over a few   *)
(* services, so that chains, forks, cycles and rivals for one name are all *)
(* among them, whichever way round the plugins were declared.              *)
(***************************************************************************)
EXTENDS Kernel

One == {<<>>} \cup {<<k>> : k \in Keys}

Three == {"p", "q", "r"}
InOrder == <<"p", "q", "r">>
WithDuplicate == <<"p", "q", "p", "r">>

\* Every requirement and every publication, both keys published in one order,
\* of plugins that do nothing else.
EveryWiring ==
    [declared : {InOrder}, requires : [Plugins -> SUBSET Keys],
     provides : [Plugins -> One \cup {<<"a", "b">>}], fails : {FALSE}, unloads : {FALSE}]

\* At most one key each way, of plugins whose hooks fail and unload each
\* other, one of them declared twice.
FailingWiring ==
    [declared : {WithDuplicate}, requires : [Plugins -> {S \in SUBSET Keys : Cardinality(S) <= 1}],
     provides : [Plugins -> One], fails : {TRUE}, unloads : {TRUE}]

AnyWiring == EveryWiring \cup FailingWiring
=============================================================================
