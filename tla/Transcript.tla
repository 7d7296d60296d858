----------------------------- MODULE Transcript -----------------------------
(***************************************************************************)
(* What the agent promises the clients that watch one session: a           *)
(* conversation is a sequence of things said, and whoever watches it sees  *)
(* them in order and each at most once, from wherever they joined.         *)
(*                                                                         *)
(*   - Joining shows everything said so far that still stands.             *)
(*   - A client that has fallen behind may miss progress, never a prompt:  *)
(*     it is shown no later thing over the gap.                            *)
(*   - A client that has left is shown nothing.                            *)
(*                                                                         *)
(* What is said may be withdrawn: the words of a step that failed, or the  *)
(* prompt of a turn that was refused, are kept by no record, and a client  *)
(* that joins afterwards may or may not see them.                          *)
(***************************************************************************)
EXTENDS Naturals, Sequences

CONSTANTS Client,  \* who may watch
          Away     \* what a client that is not watching has seen

VARIABLES said,       \* everything said, each "prompt" or "progress"
          withdrawn,  \* the things said that no record will hold
          seen        \* what each client has been shown, by place in said

vars == <<said, withdrawn, seen>>

\* The places in `said` shown to a client that joins: all that stands, and
\* some of what was withdrawn.
CaughtUp(s) ==
    /\ \A i, j \in DOMAIN s : i < j => s[i] < s[j]
    /\ \A i \in DOMAIN s : s[i] \in DOMAIN said
    /\ \A n \in DOMAIN said \ withdrawn : \E i \in DOMAIN s : s[i] = n

\* Whether a client that was shown s may be shown place n of talk next.
MayFollow(s, n, talk) ==
    /\ \A i \in DOMAIN s : s[i] < n
    /\ \A m \in 1..(n - 1) :
          \/ talk[m] # "prompt" \/ m \in withdrawn
          \/ \E i \in DOMAIN s : m <= s[i]

Init == said = <<>> /\ withdrawn = {} /\ seen = [c \in Client |-> Away]

\* Something is said: some of the clients watching are shown it, and some
\* are found to have gone.
Say(kind) ==
    /\ said' = Append(said, kind)
    /\ LET present == {c \in Client : seen[c] # Away} IN
       \E gone \in SUBSET present : \E C \in SUBSET (present \ gone) :
          /\ \A c \in C : MayFollow(seen[c], Len(said'), said')
          /\ seen' = [c \in Client |-> IF c \in C THEN Append(seen[c], Len(said'))
                                       ELSE IF c \in gone THEN Away ELSE seen[c]]
    /\ UNCHANGED withdrawn

\* A client is shown something said before.
Show(c, n) ==
    /\ seen[c] # Away /\ MayFollow(seen[c], n, said)
    /\ seen' = [seen EXCEPT ![c] = Append(@, n)]
    /\ UNCHANGED <<said, withdrawn>>

Join(c) ==
    /\ seen[c] = Away
    /\ seen'[c] # Away /\ CaughtUp(seen'[c])
    /\ \A d \in Client \ {c} : seen'[d] = seen[d]
    /\ UNCHANGED <<said, withdrawn>>

Leave(C) ==
    /\ seen' = [c \in Client |-> IF c \in C THEN Away ELSE seen[c]]
    /\ UNCHANGED <<said, withdrawn>>

Withdraw(W) ==
    /\ withdrawn' = withdrawn \cup W
    /\ UNCHANGED <<said, seen>>

Next ==
    \/ \E kind \in {"prompt", "progress"} : Say(kind)
    \/ \E c \in Client : Join(c) \/ \E n \in DOMAIN said : Show(c, n)
    \/ \E C \in SUBSET Client : Leave(C)
    \/ \E W \in SUBSET DOMAIN said : Withdraw(W)

Spec == Init /\ [][Next]_vars
=============================================================================
