---------------------------- MODULE LinkRegistry ----------------------------
(***************************************************************************)
(* Which sessions an agent holds open: the registry of crates/nanus-link/  *)
(* src/server.rs over the claims and logs of crates/nanus-adapter-store/   *)
(* src/store.rs.                                                           *)
(*                                                                         *)
(* Several agents (processes) share one store.  Each serves connections on *)
(* one thread, so a step is what a task does between two awaits.  A copy   *)
(* is one Held: a session loaded into memory.  It lives while the          *)
(* registry, a connection or a running turn refers to it, and dropping it  *)
(* drops the Claim it carries.  A log is the set of the turns it records.  *)
(* Sessions are legacy bodies, saved whole when a turn ends.               *)
(***************************************************************************)
EXTENDS Naturals, Sequences, FiniteSets, Functions, Subsequences

CONSTANTS
    Agents,    \* processes serving the link
    Conns,     \* client connections
    AgentOf,   \* the agent each connection is made to
    Sessions,  \* session ids
    Recorded,  \* the sessions the store has at first
    HeldMax,   \* MAX_HELD_SESSIONS of each agent
    Copies,    \* identities for loaded sessions; bounds how many live at once
    MaxTurns   \* bounds how many turns run

ASSUME AgentOfAssumption == AgentOf \in [Conns -> Agents]
ASSUME HeldMaxAssumption == HeldMax \in [Agents -> Nat \ {0}]
ASSUME RecordedAssumption == Recorded \subseteq Sessions
ASSUME NoneAssumption == "none" \notin Agents \cup Sessions \cup Copies
ASSUME MaxTurnsAssumption == MaxTurns \in Nat

VARIABLES
    stored,    \* the log of each session in the store; NoLog when it has none
    claim,     \* the agent whose process has the session's lock, or "none"
    copy,      \* the live copies
    held,      \* each agent's registry, least recently touched first
    conn,      \* where each connection is, and what it refers to
    behind,    \* connections the session stopped serving, for not reading
    turns      \* how many turns were started

vars == <<stored, claim, copy, held, conn, behind, turns>>

None  == "none"
NoLog == [known |-> FALSE, turns |-> {}]
Log(ts) == [known |-> TRUE, turns |-> ts]
Gone  == [session |-> None, at |-> None, log |-> {}, turn |-> 0]
Unattached == [pc |-> "idle", session |-> None, log |-> {}, copy |-> None]

Init ==
    /\ stored = [s \in Sessions |-> IF s \in Recorded THEN Log({}) ELSE NoLog]
    /\ claim = [s \in Sessions |-> None]
    /\ copy = [i \in Copies |-> Gone]
    /\ held = [a \in Agents |-> <<>>]
    /\ conn = [c \in Conns |-> Unattached]
    /\ behind = {}
    /\ turns = 0

-----------------------------------------------------------------------------
(***************************************************************************)
(* The registry.                                                           *)
(***************************************************************************)
Live == {i \in Copies : copy[i] # Gone}
HeldOf(a, s) == {i \in Range(held[a]) : copy[i].session = s}

\* The connections copy i sends frames to.
Viewers(i) == {c \in Conns \ behind : conn[c].pc = "watching" /\ conn[c].copy = i}

InUse(i) == copy[i].turn # 0 \/ Viewers(i) # {}

\* Wrong: the oldest go, whoever uses them.
EvictOldest(a) ==
    Only(held[a], {held[a][k] : k \in {n \in DOMAIN held[a] : HeldMax[a] + n >= Len(held[a]) + 2}})

\* Idle sessions go, least recently touched first, until one more fits; the
\* bound yields when everything is in use.
EvictIdle(a) ==
    LET idle   == Only(held[a], {i \in Copies : ~InUse(i)})
        let_go == {idle[k] : k \in {n \in DOMAIN idle : HeldMax[a] + n < Len(held[a]) + 2}}
    IN  Only(held[a], Copies \ let_go)

Touch(i) ==
    [a \in Agents |-> IF i \in Range(held[a])
                      THEN Append(Only(held[a], Copies \ {i}), i) ELSE held[a]]

\* Wrong: a claim outlives its holder.
DropKeepingClaim(copies, claims) ==
    LET Referred(i) == \/ \E a \in Agents : i \in Range(held'[a])
                       \/ \E c \in Conns : conn'[c].copy = i
                       \/ copies[i].turn # 0
    IN  /\ copy' = [i \in Copies |-> IF Referred(i) THEN copies[i] ELSE Gone]
        /\ claim' = claims

\* A copy nothing refers to any more is dropped, and releases what the process
\* holds of its session, whoever else in the process relies on it.
Drop(copies, claims) ==
    LET Referred(i) == \/ \E a \in Agents : i \in Range(held'[a])
                       \/ \E c \in Conns : conn'[c].copy = i
                       \/ copies[i].turn # 0
        Released(s) == \E i \in Copies : /\ ~Referred(i)
                                         /\ copies[i].session = s
                                         /\ copies[i].at = claims[s]
    IN  /\ copy' = [i \in Copies |-> IF Referred(i) THEN copies[i] ELSE Gone]
        /\ claim' = [s \in Sessions |-> IF Released(s) THEN None ELSE claims[s]]

-----------------------------------------------------------------------------
(***************************************************************************)
(* A connection opens a session, attaches to it and lets it go.            *)
(***************************************************************************)
Open(c) == conn[c].pc \in {"idle", "watching"} /\ c \notin behind

\* The session watched before is let go first.  What the agent holds already is
\* attached to; anything else is read from the store.
Ask(c, s) ==
    /\ Open(c)
    /\ conn' = [conn EXCEPT ![c] =
         IF HeldOf(AgentOf[c], s) = {}
         THEN [pc |-> "loading", session |-> s, log |-> {}, copy |-> None]
         ELSE [pc |-> "attaching", session |-> s, log |-> {},
               copy |-> CHOOSE i \in HeldOf(AgentOf[c], s) : TRUE]]
    /\ UNCHANGED <<stored, held, behind, turns>>
    /\ Drop(copy, claim)

\* A new session; a named one is written down before it is held.
AskNew(c, s, named) ==
    /\ Open(c)
    /\ ~stored[s].known
    /\ \A d \in Conns : conn[d].session # s
    /\ \A i \in Live : copy[i].session # s
    /\ stored' = IF named THEN [stored EXCEPT ![s] = Log({})] ELSE stored
    /\ conn' = [conn EXCEPT ![c] = [pc |-> "holding", session |-> s, log |-> {}, copy |-> None]]
    /\ UNCHANGED <<held, behind, turns>>
    /\ Drop(copy, claim)

Load(c) ==
    /\ conn[c].pc = "loading"
    /\ conn' = [conn EXCEPT ![c] =
         IF stored[conn[c].session].known
         THEN [@ EXCEPT !.pc = "holding", !.log = stored[conn[c].session].turns]
         ELSE Unattached]
    /\ UNCHANGED <<stored, claim, copy, held, behind, turns>>

\* Another connection held it since, or another process has the lock.
HoldExisting(c) ==
    LET a == AgentOf[c]
        s == conn[c].session
    IN  /\ conn[c].pc = "holding"
        /\ HeldOf(a, s) # {}
        /\ conn' = [conn EXCEPT ![c] =
             [@ EXCEPT !.pc = "attaching", !.log = {}, !.copy = CHOOSE i \in HeldOf(a, s) : TRUE]]
        /\ UNCHANGED <<stored, claim, copy, held, behind, turns>>

HoldRefused(c) ==
    LET s == conn[c].session
    IN  /\ conn[c].pc = "holding"
        /\ HeldOf(AgentOf[c], s) = {}
        /\ claim[s] \notin {None, AgentOf[c]}
        /\ conn' = [conn EXCEPT ![c] = Unattached]
        /\ UNCHANGED <<stored, claim, copy, held, behind, turns>>

\* The lock is taken, and the copy read before is held beside those kept.
Insert(c, kept) ==
    LET a == AgentOf[c]
        s == conn[c].session
        i == CHOOSE n \in Copies : copy[n] = Gone
    IN  /\ Live # Copies
        /\ held' = [held EXCEPT ![a] = Append(kept, i)]
        /\ conn' = [conn EXCEPT ![c] = [@ EXCEPT !.pc = "attaching", !.log = {}, !.copy = i]]
        /\ Drop([copy EXCEPT ![i] = [session |-> s, at |-> a, log |-> conn[c].log, turn |-> 0]],
                [claim EXCEPT ![s] = a])
        /\ UNCHANGED <<stored, behind, turns>>

\* Wrong: whoever comes last replaces the session already held.
HoldAgain(c) ==
    /\ conn[c].pc = "holding"
    /\ claim[conn[c].session] \in {None, AgentOf[c]}
    /\ Insert(c, Only(EvictIdle(AgentOf[c]), {i \in Copies : copy[i].session # conn[c].session}))

Hold(c) ==
    /\ conn[c].pc = "holding"
    /\ HeldOf(AgentOf[c], conn[c].session) = {}
    /\ claim[conn[c].session] \in {None, AgentOf[c]}
    /\ Insert(c, EvictIdle(AgentOf[c]))

\* The name is read, and the viewer registered unless its queue is full.
Attach(c) ==
    /\ conn[c].pc = "attaching"
    /\ \/ conn' = [conn EXCEPT ![c].pc = "watching"]
       \/ conn' = [conn EXCEPT ![c] = Unattached]
    /\ held' = Touch(conn[c].copy)
    /\ UNCHANGED <<stored, behind, turns>>
    /\ Drop(copy, claim)

\* A client that makes no room in time for a frame that may not be dropped is
\* no longer sent any, and its requests are all refused.
FallBehind(c) ==
    /\ conn[c].pc = "watching"
    /\ c \notin behind
    /\ behind' = behind \cup {c}
    /\ UNCHANGED <<stored, claim, copy, held, conn, turns>>

HangUp(c) ==
    /\ conn[c].pc \in {"idle", "watching"}
    /\ conn' = [conn EXCEPT ![c] = Unattached]
    /\ behind' = behind \ {c}
    /\ UNCHANGED <<stored, held, turns>>
    /\ Drop(copy, claim)

-----------------------------------------------------------------------------
(***************************************************************************)
(* Turns, and the agent's end.                                             *)
(***************************************************************************)
Prompt(c) ==
    LET i == conn[c].copy
    IN  /\ conn[c].pc = "watching"
        /\ c \notin behind
        /\ copy[i].turn = 0
        /\ turns < MaxTurns
        /\ turns' = turns + 1
        /\ copy' = [copy EXCEPT ![i].turn = turns + 1]
        /\ held' = Touch(i)
        /\ UNCHANGED <<stored, claim, conn, behind>>

\* The turn is over and its session recorded, or could not be: the copy in
\* memory has the turn either way.
EndTurn(i) ==
    LET log == copy[i].log \cup {copy[i].turn}
    IN  /\ copy[i].turn # 0
        /\ \/ stored' = [stored EXCEPT ![copy[i].session] = Log(log)]
           \/ UNCHANGED stored
        /\ UNCHANGED <<held, conn, behind, turns>>
        /\ Drop([copy EXCEPT ![i].turn = 0, ![i].log = log], claim)

\* The agent is stopped or killed: its turns are not recorded and the kernel
\* takes its locks back.  It may be started again.
Stop(a) ==
    LET Its(c) == AgentOf[c] = a
    IN  /\ conn' = [c \in Conns |-> IF Its(c) THEN Unattached ELSE conn[c]]
        /\ behind' = {c \in behind : ~Its(c)}
        /\ held' = [held EXCEPT ![a] = <<>>]
        /\ copy' = [i \in Copies |-> IF copy[i].at = a THEN Gone ELSE copy[i]]
        /\ claim' = [s \in Sessions |-> IF claim[s] = a THEN None ELSE claim[s]]
        /\ UNCHANGED <<stored, turns>>

-----------------------------------------------------------------------------
Next ==
    \/ \E c \in Conns :
        \/ \E s \in Sessions : Ask(c, s) \/ \E named \in BOOLEAN : AskNew(c, s, named)
        \/ Load(c) \/ HoldExisting(c) \/ HoldRefused(c) \/ Hold(c) \/ Attach(c)
        \/ FallBehind(c) \/ HangUp(c) \/ Prompt(c)
    \/ \E i \in Copies : EndTurn(i)
    \/ \E a \in Agents : Stop(a)

Spec == Init /\ [][Next]_vars

-----------------------------------------------------------------------------
(***************************************************************************)
(* What makes the registry correct.                                        *)
(***************************************************************************)
\* At most one copy of a session is live, in any process: two would be saved
\* over each other.
OneWriter ==
    \A i, j \in Live : copy[i].session = copy[j].session => i = j

\* A lock is held for a copy that lives ("a claim that outlived its holder
\* would refuse the next writer for as long as this process runs", Claim).
ClaimHasHolder ==
    \A s \in Sessions : claim[s] # None =>
        \E i \in Live : copy[i].session = s /\ copy[i].at = claim[s]

\* A session with a turn or a client is let go only when its agent goes away.
InUseIsKept ==
    [][\A a \in Agents : \A i \in Range(held[a]) :
        InUse(i) /\ i \notin Range(held'[a]) => copy'[i] = Gone]_vars

\* A client follows the copy its agent holds ("the session being opened can
\* never be the one let go", hold).
WatchedIsHeld ==
    \A c \in Conns : conn[c].pc = "watching" =>
        conn[c].copy \in Range(held[AgentOf[c]])

=============================================================================
