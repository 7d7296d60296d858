--------------------------- MODULE MCLinkSession ----------------------------
(***************************************************************************)
(* Instances of LinkSession for TLC.  The connections are interchangeable. *)
(***************************************************************************)
EXTENDS LinkSession, TLC

CONSTANTS c1, c2

Two == {c1, c2}
Interchangeable == Permutations(Conn)
=============================================================================
