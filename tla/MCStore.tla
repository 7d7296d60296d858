------------------------------ MODULE MCStore ------------------------------
(***************************************************************************)
(* Instances of Store for TLC: an agent that holds, saves and deletes, a    *)
(* command line that does any of it, and a process that only opens.        *)
(***************************************************************************)
EXTENDS Store

TwoAndOpener ==
    [agent |-> {"run", "delete"}, command |-> {"run", "delete", "name"}, opener |-> {}]
TwoRuns == [first |-> {"run", "name"}, second |-> {"run"}]
=============================================================================
