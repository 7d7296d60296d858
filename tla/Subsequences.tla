---------------------------- MODULE Subsequences ----------------------------
(***************************************************************************)
(* What a list has of a set, in the order of the list: the result of the   *)
(* filter, retain and drain loops of the modelled code.  It says what      *)
(* SelectSeq says of the test v \in S, as a recursive function, which      *)
(* SubsequencesProofs can reason about for lists of every length.          *)
(***************************************************************************)
EXTENDS Naturals, Sequences

\* The subsequence of s of what is in S.
Only(s, S) ==
    LET upTo[n \in 0..Len(s)] ==
            IF n = 0 THEN <<>>
            ELSE IF s[n] \in S THEN Append(upTo[n - 1], s[n]) ELSE upTo[n - 1]
    IN  upTo[Len(s)]
=============================================================================
