--------------------------- MODULE MCManagedTurn ---------------------------
(***************************************************************************)
(* Instances of ManagedTurn for TLC: an agent's process whose turns take   *)
(* two steps and a command line's whose turns take one.                    *)
(***************************************************************************)
EXTENDS ManagedTurn

Budgets == [link |-> 2, cli |-> 1]
=============================================================================
