----------------------------- MODULE MCArchive ------------------------------
(* Small instances of Archive. *)
EXTENDS Archive, TLC

CONSTANTS p1, p2, s1, s2, out

TwoProc     == {p1, p2}
TwoSessions == {s1, s2}
OneStream   == {out}

\* Each process runs turns of one session, and the second collects the other's.
Apart   == (p1 :> {s1}) @@ (p2 :> {s2})
ByOther == (p1 :> {}) @@ (p2 :> {s1})
=============================================================================
