------------------------------ MODULE AgentLink ------------------------------
(***************************************************************************)
(* What connection.Client promises to the goroutines OnConnect starts for a*)
(* connection: connections follow one another, the context of each is      *)
(* cancelled before its socket is closed, that before the next dial, and a *)
(* connection that broke is given up and replaced.  AgentConnection        *)
(* implements it; MetricPath is built on it.                               *)
(***************************************************************************)
EXTENDS Naturals

CONSTANT MaxConns   \* bound: how many connections there are

ASSUME LinkAssumption == MaxConns \in Nat \ {0}

Conns == 1 .. MaxConns

VARIABLES
    gen,      \* the number of the current (or last) connection
    wire,     \* the TCP connection: "none", "up", "mute", "down" or "closed"
    ctx,      \* connCtx: "none", "live" or "cancelled"
    greeted,  \* connections on which agent_info was sent and the loops started
    quit      \* the process context is cancelled (SIGTERM)

linkVars == <<gen, wire, ctx, greeted, quit>>

LinkTypeOK ==
    /\ gen \in 0 .. MaxConns
    /\ wire \in [Conns -> {"none", "up", "mute", "down", "closed"}]
    /\ ctx \in [Conns -> {"none", "live", "cancelled"}]
    /\ greeted \subseteq Conns
    /\ quit \in BOOLEAN

LinkInit ==
    /\ gen = 0
    /\ wire = [g \in Conns |-> "none"]
    /\ ctx = [g \in Conns |-> "none"]
    /\ greeted = {}
    /\ quit = FALSE

\* What WriteMessage on connection g may do: a write to a peer that is gone may
\* still succeed locally.
MaySucceed(g) == wire[g] \in {"up", "mute", "down"}
MayFail(g) == wire[g] # "up"

\* A dial, once the connection before is closed.
Connect ==
    /\ gen + 1 \in Conns /\ ~quit
    /\ gen > 0 => wire[gen] = "closed"
    /\ gen' = gen + 1
    /\ wire' = [wire EXCEPT ![gen + 1] = "up"]
    /\ ctx' = [ctx EXCEPT ![gen + 1] = "live"]
    /\ UNCHANGED <<greeted, quit>>

\* agent_info is sent and the loops start.
Welcome(g) ==
    /\ g = gen /\ g \notin greeted /\ MaySucceed(g)
    /\ greeted' = greeted \cup {g}
    /\ UNCHANGED <<gen, wire, ctx, quit>>

\* The connection breaks, or what the agent writes no longer gets through.  The
\* last connection is kept: there is none after it to find.
Break(g) ==
    /\ g < MaxConns /\ wire[g] = "up"
    /\ \E how \in {"down", "mute"} : wire' = [wire EXCEPT ![g] = how]
    /\ UNCHANGED <<gen, ctx, greeted, quit>>

\* The end of a broken connection is noticed.
CancelLink(g) ==
    /\ wire[g] \in {"down", "mute"} /\ ctx[g] = "live"
    /\ ctx' = [ctx EXCEPT ![g] = "cancelled"]
    /\ UNCHANGED <<gen, wire, greeted, quit>>

CloseLink(g) ==
    /\ ctx[g] = "cancelled" /\ wire[g] # "closed"
    /\ wire' = [wire EXCEPT ![g] = "closed"]
    /\ UNCHANGED <<gen, ctx, greeted, quit>>

QuitLink ==
    /\ ~quit /\ quit' = TRUE
    /\ ctx' = [g \in Conns |-> IF ctx[g] = "live" THEN "cancelled" ELSE ctx[g]]
    /\ UNCHANGED <<gen, wire, greeted>>

\* The process dies and is started again: nothing of a connection is left.
CrashLink ==
    /\ ~quit
    /\ wire' = [g \in Conns |-> IF g <= gen THEN "closed" ELSE wire[g]]
    /\ ctx' = [g \in Conns |-> IF g <= gen THEN "cancelled" ELSE ctx[g]]
    /\ UNCHANGED <<gen, greeted, quit>>

\* What the client does.
Advance == Connect \/ \E g \in Conns : Welcome(g) \/ CancelLink(g) \/ CloseLink(g)

LinkNext == Advance \/ QuitLink \/ CrashLink \/ \E g \in Conns : Break(g)

LinkSpec == LinkInit /\ [][LinkNext]_linkVars

\* A connection that is over is closed and replaced (a greeting may fail on a
\* broken connection, so none is promised).
LinkFairness == WF_linkVars(Connect \/ \E g \in Conns : CancelLink(g) \/ CloseLink(g))

LinkFairSpec == LinkSpec /\ LinkFairness
=============================================================================
