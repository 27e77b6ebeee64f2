--------------------------- MODULE AgentConnection ---------------------------
(***************************************************************************)
(* The life of the agent's connection to the backend and of what hangs on  *)
(* it: connection.Client (Run, connect, backoff) and the OnConnect and     *)
(* OnDisconnect of agent.Agent.                                            *)
(*                                                                         *)
(* One goroutine runs the loop dial / OnConnect / serve / OnDisconnect /   *)
(* backoff; its program counter is `run'.  Connections are numbered by the *)
(* dial that made them, and each has goroutines of its own that may outlive*)
(* it: the reader, which dispatches the backend's messages synchronously,  *)
(* the drainer, which pings, and the loops that OnConnect starts.          *)
(*                                                                         *)
(* The managers (tunnels, terminals, migrations) are seen from here as a   *)
(* send function and a set of sessions; a session is known by the          *)
(* connection whose message opened it.                                     *)
(***************************************************************************)
EXTENDS Naturals, Sequences

CONSTANTS
    MaxFaults,   \* bound: how many faults happen
    MaxStarts,   \* bound: how many sessions the backend asks for
    Faults       \* which faults may happen

AllFaults == {"drop", "mute", "dialfail", "crash", "quit", "disk"}

ASSUME AgentAssumption ==
    MaxFaults \in Nat /\ MaxStarts \in Nat /\ Faults \subseteq AllFaults

\* Every lost connection costs a fault.
Conns == 1 .. MaxFaults + 1

Kinds == {"tunnels", "terminals", "migrations"}
Holders == Kinds \cup {"agent", "databases", "logs"}

\* heartbeatLoop and systemHealthLoop behave alike and are one here; the metrics
\* loop is MetricPath's.
Loops == {"periodic", "logs"}

VARIABLES
    run,       \* the goroutine of Client.Run
    step,      \* where it is inside OnConnect or OnDisconnect
    gen,       \* the number of the current (or last) connection
    attempt,   \* attempt, in Run
    delay,     \* the backoff under way, in seconds
    wire,      \* the TCP connection: "none", "up", "mute", "down" or "closed"
    ctx,       \* connCtx: "none", "live" or "cancelled"
    reader,    \* the reader goroutine; a kind while it handles a start of that kind
    starts,    \* session starts dispatched so far
    drainer,   \* the drainer goroutine
    greeted,   \* connections on which agent_info was sent and the loops started
    live,      \* the loops of each connection that are running
    logTail,   \* the connection whose log follower c.cancel would stop (0: none)
    send,      \* the send function each holder has: a connection, or 0 for nil
    sessions,  \* sessions of each kind, by the connection that asked for them
    starting,  \* connections with a startSource goroutine that has not registered
    late,      \* history: sessions registered after the Shutdown of their connection,
               \* and since the last Shutdown of their manager
    faults,    \* how many faults happened
    quit       \* the process context is cancelled (SIGTERM)

BaseBackoff == 2     \* seconds
MaxBackoff == 300    \* seconds

runVars == <<run, step, gen, attempt, delay>>
connVars == <<wire, ctx, drainer, greeted, live, logTail>>
sessVars == <<reader, starts, sessions, starting, late>>
vars == <<runVars, connVars, sessVars, send, faults, quit>>

TypeOK ==
    /\ run \in {"dial", "onconnect", "serve", "ondisconnect", "cancel", "close",
                "wait", "stopped"}
    /\ step \in 1 .. 11
    /\ gen \in 0 .. MaxFaults + 1
    /\ attempt \in Nat
    /\ delay \in {0} \cup BaseBackoff .. MaxBackoff
    /\ wire \in [Conns -> {"none", "up", "mute", "down", "closed"}]
    /\ ctx \in [Conns -> {"none", "live", "cancelled"}]
    /\ reader \in [Conns -> {"off", "read", "end"} \cup Kinds]
    /\ starts \in 0 .. MaxStarts
    /\ drainer \in [Conns -> {"off", "run", "failed", "end"}]
    /\ greeted \subseteq Conns
    /\ live \in [Conns -> SUBSET Loops]
    /\ logTail \in 0 .. MaxFaults + 1
    /\ send \in [Holders -> 0 .. MaxFaults + 1]
    /\ sessions \in [Kinds -> SUBSET Conns]
    /\ starting \subseteq Conns
    /\ late \subseteq Kinds \X Conns
    /\ faults \in 0 .. MaxFaults
    /\ quit \in BOOLEAN

Init ==
    /\ run = "dial" /\ step = 1 /\ gen = 0
    /\ attempt = 0 /\ delay = 0
    /\ wire = [g \in Conns |-> "none"]
    /\ ctx = [g \in Conns |-> "none"]
    /\ reader = [g \in Conns |-> "off"]
    /\ starts = 0
    /\ drainer = [g \in Conns |-> "off"]
    /\ greeted = {}
    /\ live = [g \in Conns |-> {}]
    /\ logTail = 0
    /\ send = [h \in Holders |-> 0]
    /\ sessions = [k \in Kinds |-> {}]
    /\ starting = {} /\ late = {}
    /\ faults = 0 /\ quit = FALSE

\* A fault the environment may still cause.
Fault(f) ==
    /\ f \in Faults /\ faults < MaxFaults
    /\ faults' = faults + 1

\* What WriteMessage on connection g may do: a write to a peer that is gone may
\* still succeed locally.
MaySucceed(g) == wire[g] \in {"up", "mute", "down"}
MayFail(g) == wire[g] # "up"

-----------------------------------------------------------------------------
(* Client.Run: dialling and backing off.                                   *)

\* baseBackoff * 2^(attempt-1) is capped from the 9th attempt on.  From the
\* 34th its nanoseconds do not fit an int64: converting the float is then
\* implementation-defined, a negative duration (a wait of 0) on amd64.
CapsAt == 9
WrapsAt == 34

UncappedFirst(n) == {2 ^ n}

Backoff(n) ==
    CASE n = 0 -> {0}
      [] n \in 1 .. CapsAt - 1 -> {BaseBackoff * 2 ^ (n - 1)}
      [] n \in CapsAt .. WrapsAt - 1 -> {MaxBackoff}
      [] OTHER -> {0, MaxBackoff}

Dial ==
    /\ run = "dial" /\ ~quit /\ gen + 1 \in Conns
    /\ run' = "onconnect" /\ step' = 1 /\ gen' = gen + 1
    /\ wire' = [wire EXCEPT ![gen + 1] = "up"]
    /\ ctx' = [ctx EXCEPT ![gen + 1] = "live"]
    /\ UNCHANGED <<attempt, delay, drainer, greeted, live, logTail, sessVars, send,
                   faults, quit>>

DialFails ==
    /\ run = "dial" /\ ~quit /\ Fault("dialfail")
    /\ run' = "wait" /\ delay' \in Backoff(attempt)
    /\ UNCHANGED <<step, gen, attempt, connVars, sessVars, send, quit>>

\* The backoff is over.
Retry ==
    /\ run = "wait" /\ ~quit
    /\ run' = "dial" /\ attempt' = attempt + 1 /\ delay' = 0
    /\ UNCHANGED <<step, gen, connVars, sessVars, send, faults, quit>>

\* DialContext and both selects of Run return once the process is to end.
Return ==
    /\ run \in {"dial", "wait"} /\ quit
    /\ run' = "stopped"
    /\ UNCHANGED <<step, gen, attempt, delay, connVars, sessVars, send,
                   faults, quit>>

-----------------------------------------------------------------------------
(* Agent.OnConnect, before the reader of this connection exists.           *)

ConnectOrder == <<"agent", "tunnels", "terminals", "databases", "migrations", "logs">>

SetSend ==
    /\ run = "onconnect" /\ step <= Len(ConnectOrder)
    /\ send' = [send EXCEPT ![ConnectOrder[step]] = gen]
    /\ step' = step + 1
    /\ UNCHANGED <<run, gen, attempt, delay, connVars, sessVars, faults, quit>>

\* logs.Start stops a follower that is still there and starts one on connCtx.
StartLogs ==
    /\ run = "onconnect" /\ step = Len(ConnectOrder) + 1
    /\ logTail' = gen
    /\ live' = [live EXCEPT ![gen] = @ \cup {"logs"}]
    /\ step' = step + 1
    /\ UNCHANGED <<run, gen, attempt, delay, wire, ctx, drainer, greeted,
                   sessVars, send, faults, quit>>

\* agent_info is sent; if that fails OnConnect returns without starting the
\* loops.  In both cases connect goes on to start the drainer and the reader.
Greet ==
    /\ run = "onconnect" /\ step = Len(ConnectOrder) + 2
    /\ \/ /\ MaySucceed(gen)
          /\ greeted' = greeted \cup {gen}
          /\ live' = [live EXCEPT ![gen] = @ \cup {"periodic"}]
       \/ MayFail(gen) /\ UNCHANGED <<greeted, live>>
    /\ run' = "serve"
    /\ reader' = [reader EXCEPT ![gen] = "read"]
    /\ drainer' = [drainer EXCEPT ![gen] = "run"]
    /\ UNCHANGED <<step, gen, attempt, delay, wire, ctx, logTail, starts,
                   sessions, starting, late, send, faults, quit>>

-----------------------------------------------------------------------------
(* The end of a connection: connect's select, Agent.OnDisconnect, and the  *)
(* deferred cancelConn and conn.Close.                                     *)

IgnoreReports == run = "serve" /\ (reader[gen] = "end" \/ quit)

\* writeErr, readErr or ctx.Done.
Over == run = "serve" /\ (drainer[gen] # "run" \/ reader[gen] = "end" \/ quit)

Leave ==
    /\ Over
    /\ run' = "ondisconnect" /\ step' = 1
    /\ UNCHANGED <<gen, attempt, delay, connVars, sessVars, send, faults, quit>>

ForgetfulOrder ==
    <<<<"unset", "agent">>, <<"unset", "tunnels">>, <<"shutdown", "tunnels">>,
      <<"unset", "terminals">>, <<"shutdown", "terminals">>, <<"unset", "databases">>,
      <<"unset", "logs">>, <<"stop", "logs">>, <<"shutdown", "migrations">>>>

\* agent.sendFn = nil, SetSend(nil), Shutdown and logs.Stop, in this order.
DisconnectOrder ==
    <<<<"unset", "agent">>, <<"unset", "tunnels">>, <<"shutdown", "tunnels">>,
      <<"unset", "terminals">>, <<"shutdown", "terminals">>, <<"unset", "databases">>,
      <<"unset", "logs">>, <<"stop", "logs">>, <<"unset", "migrations">>,
      <<"shutdown", "migrations">>>>

ShutCurrent(k) == [sessions EXCEPT ![k] = @ \ {gen}]

\* Shutdown of a manager ends every session it knows.
Shut(k) == [sessions EXCEPT ![k] = {}]

DisconnectStep ==
    /\ run = "ondisconnect"
    /\ LET op == DisconnectOrder[step][1]
           h == DisconnectOrder[step][2]
       IN  /\ send' = IF op = "unset" THEN [send EXCEPT ![h] = 0] ELSE send
           /\ sessions' = IF op = "shutdown" THEN Shut(h) ELSE sessions
           /\ late' = IF op = "shutdown" THEN late \ ({h} \X Conns) ELSE late
           /\ logTail' = IF op = "stop" THEN 0 ELSE logTail
    /\ step' = step + 1
    /\ run' = IF step = Len(DisconnectOrder) THEN "cancel" ELSE run
    /\ UNCHANGED <<gen, attempt, delay, wire, ctx, drainer, greeted, live,
                   reader, starts, starting, faults, quit>>

LeakConn ==
    /\ run = "cancel"
    /\ run' = "close"
    /\ UNCHANGED <<step, gen, attempt, delay, connVars, sessVars, send, faults, quit>>

CancelConn ==
    /\ run = "cancel"
    /\ run' = "close"
    /\ ctx' = [ctx EXCEPT ![gen] = "cancelled"]
    /\ UNCHANGED <<step, gen, attempt, delay, wire, drainer, greeted, live,
                   logTail, sessVars, send, faults, quit>>

\* conn.Close, then Run decides how long to wait: from the start again if the
\* connection lasted minHealthyUptime.
CloseConn ==
    /\ run = "close"
    /\ wire' = [wire EXCEPT ![gen] = "closed"]
    /\ IF quit
       THEN run' = "stopped" /\ UNCHANGED <<attempt, delay>>
       ELSE /\ run' = "wait"
            /\ attempt' \in {0, attempt}
            /\ delay' \in Backoff(attempt')
    /\ UNCHANGED <<step, gen, ctx, drainer, greeted, live, logTail, sessVars,
                   send, faults, quit>>

-----------------------------------------------------------------------------
(* The reader of connection g: dispatch runs the handlers synchronously.   *)
(* What is buffered is still read after the connection is gone.            *)

StartArrives(g) ==
    /\ reader[g] = "read" /\ starts < MaxStarts
    /\ \E k \in Kinds : reader' = [reader EXCEPT ![g] = k]
    /\ starts' = starts + 1
    /\ UNCHANGED <<runVars, connVars, sessions, starting, late, send, faults, quit>>

\* The OnDisconnect step that shuts the manager of kind k down.
ShutdownStep(k) ==
    CHOOSE i \in 1 .. Len(DisconnectOrder) : DisconnectOrder[i] = <<"shutdown", k>>

\* The Shutdown that was to end the sessions of connection g has run.
Past(k, g) ==
    \/ g < gen
    \/ run \in {"cancel", "close", "wait", "dial", "stopped"}
    \/ run = "ondisconnect" /\ step > ShutdownStep(k)

\* A session of kind k asked for by g is registered with its manager.
Registered(k, g) ==
    /\ sessions' = [sessions EXCEPT ![k] = @ \cup {g}]
    /\ late' = IF Past(k, g) THEN late \cup {<<k, g>>} ELSE late

\* StartListener, terminal Start and prepare finish in the reader, with or
\* without a session.
Handle(g) ==
    /\ reader[g] \in Kinds
    /\ Registered(reader[g], g) \/ UNCHANGED <<sessions, late>>
    /\ reader' = [reader EXCEPT ![g] = "read"]
    /\ UNCHANGED <<runVars, connVars, starts, starting, send, faults, quit>>

\* go startSource: the handler returns before the session is registered.
HandleAsync(g) ==
    /\ reader[g] = "migrations"
    /\ starting' = starting \cup {g}
    /\ reader' = [reader EXCEPT ![g] = "read"]
    /\ UNCHANGED <<runVars, connVars, starts, sessions, late, send, faults, quit>>

StartSource(g) ==
    /\ g \in starting
    /\ starting' = starting \ {g}
    /\ Registered("migrations", g)
    /\ UNCHANGED <<runVars, connVars, reader, starts, send, faults, quit>>

ReadFails(g) ==
    /\ reader[g] = "read" /\ wire[g] \in {"down", "closed"}
    /\ reader' = [reader EXCEPT ![g] = "end"]
    /\ UNCHANGED <<runVars, connVars, starts, sessions, starting, late, send, faults,
                   quit>>

\* No pong within pongTimeout: the pings do not get through.
ReadTimeout(g) ==
    /\ reader[g] = "read" /\ wire[g] = "mute"
    /\ reader' = [reader EXCEPT ![g] = "end"]
    /\ UNCHANGED <<runVars, connVars, starts, sessions, starting, late, send, faults,
                   quit>>

\* A session ends by itself or because the backend says so.
SessionEnds(k, g) ==
    /\ g \in sessions[k]
    /\ sessions' = [sessions EXCEPT ![k] = @ \ {g}]
    /\ UNCHANGED <<runVars, connVars, reader, starts, starting, late, send, faults, quit>>

-----------------------------------------------------------------------------
(* The drainer and the loops of connection g.                              *)

\* A ping fails and its error is reported, or the process is to end (the
\* drainer watches the context of the process, not of its connection).
DrainerEnds(g) ==
    /\ drainer[g] = "run"
    /\ \/ wire[g] # "up" /\ drainer' = [drainer EXCEPT ![g] = "failed"]
       \/ quit /\ drainer' = [drainer EXCEPT ![g] = "end"]
    /\ UNCHANGED <<runVars, wire, ctx, greeted, live, logTail, sessVars, send, faults,
                   quit>>

ProcessDone(g, l) == quit

\* The context the loop was started with is cancelled.
Cancelled(g, l) == ctx[g] = "cancelled" \/ (l = "logs" /\ logTail # g)

LoopEnds(g) ==
    /\ \E l \in live[g] :
         Cancelled(g, l) /\ live' = [live EXCEPT ![g] = @ \ {l}]
    /\ UNCHANGED <<runVars, wire, ctx, drainer, greeted, logTail, sessVars, send,
                   faults, quit>>

-----------------------------------------------------------------------------
(* The environment.                                                        *)

\* The connection breaks, or what the agent writes no longer gets through.
Drop ==
    /\ gen \in Conns /\ wire[gen] = "up"
    /\ \/ Fault("drop") /\ wire' = [wire EXCEPT ![gen] = "down"]
       \/ Fault("mute") /\ wire' = [wire EXCEPT ![gen] = "mute"]
    /\ UNCHANGED <<runVars, ctx, drainer, greeted, live, logTail, sessVars, send, quit>>

\* SIGTERM cancels the context of the process, and with it every connCtx.
Quit ==
    /\ Fault("quit") /\ ~quit
    /\ quit' = TRUE
    /\ ctx' = [g \in Conns |-> IF ctx[g] = "live" THEN "cancelled" ELSE ctx[g]]
    /\ UNCHANGED <<runVars, wire, drainer, greeted, live, logTail, sessVars, send>>

Ended(f, value) == [g \in Conns |-> IF g <= gen THEN value ELSE f[g]]

\* The process dies and is started again (Restart=on-failure).
Crash ==
    /\ Fault("crash") /\ run # "stopped" /\ ~quit
    /\ run' = "dial" /\ step' = 1 /\ attempt' = 0 /\ delay' = 0
    /\ wire' = Ended(wire, "closed")
    /\ ctx' = Ended(ctx, "cancelled")
    /\ reader' = Ended(reader, "end")
    /\ drainer' = Ended(drainer, "end")
    /\ live' = [g \in Conns |-> {}]
    /\ logTail' = 0
    /\ send' = [h \in Holders |-> 0]
    /\ sessions' = [k \in Kinds |-> {}]
    /\ starting' = {} /\ late' = {}
    /\ UNCHANGED <<gen, greeted, starts, quit>>

-----------------------------------------------------------------------------
Client == \/ Dial \/ Retry \/ Return \/ SetSend \/ StartLogs \/ Greet
          \/ Leave \/ DisconnectStep \/ CancelConn \/ CloseConn

Reader(g) == StartArrives(g) \/ Handle(g) \/ HandleAsync(g) \/ ReadFails(g)

\* Every step but a crash.
Step ==
    \/ Client \/ DialFails \/ Drop \/ Quit
    \/ \E g \in Conns : \/ Reader(g) \/ ReadTimeout(g) \/ StartSource(g)
                        \/ DrainerEnds(g) \/ LoopEnds(g)
                        \/ \E k \in Kinds : SessionEnds(k, g)

Next == Step \/ Crash

Spec == Init /\ [][Next]_vars

\* The scheduler runs every goroutine, a backoff ends, and a backend that is
\* there accepts a dial (a dial that fails is a fault, and faults are finitely many).
Fairness ==
    /\ WF_vars(Client)
    /\ \A g \in Conns : /\ WF_vars(Reader(g)) /\ WF_vars(StartSource(g))
                        /\ WF_vars(DrainerEnds(g)) /\ WF_vars(LoopEnds(g))

FairSpec == Spec /\ Fairness

-----------------------------------------------------------------------------
(* What must hold.                                                         *)

\* OnConnect and OnDisconnect hand over and take back every send function: none
\* of an earlier connection is left, and none at all between two connections.
SendIsCurrent ==
    \A h \in Holders :
        /\ send[h] \in {0, gen}
        /\ run \in {"cancel", "close", "wait", "dial", "stopped"} => send[h] = 0

\* Shutdown misses nothing (tunnels, terminals, migrations): a session that
\* outlives its connection was registered after the Shutdown of that connection,
\* and does not survive the next one either.
ShutdownIsComplete ==
    \A k \in Kinds : \A g \in sessions[k] : Past(k, g) => <<k, g>> \in late

\* "Without a backend connection tunnels cannot relay: close everything"
\* (OnDisconnect): no session outlives the connection it was opened on.
NoSessionOutlives ==
    \A k \in Kinds : \A g \in sessions[k] : ~Past(k, g)

\* "its loops stop the moment that connection drops": no loop of a connection
\* that is over runs for ever (connCtx in connect).
LoopsEnd ==
    \A g \in Conns : (gen = g /\ run = "wait") ~> live[g] = {}

\* "Keeps a WebSocket connection with automatic reconnection": once the faults
\* are over the agent has a working connection with all its loops, even if
\* agent_info failed on the one before.
StaysConnected ==
    <>[](quit \/ (run = "serve" /\ wire[gen] = "up" /\ live[gen] = Loops))

\* Client.Run implements AgentLink: dial after close, close after cancel, and a
\* broken connection is replaced, crashes and SIGTERM in between.
Link == INSTANCE AgentLink WITH MaxConns <- MaxFaults + 1

ImplementsLink == Link!LinkFairSpec

\* "exponential reconnection (backoff 2s -> 5min)": after the first retry, a wait
\* is never shorter than the base nor longer than the cap.
BackoffBounded ==
    run = "wait" /\ attempt > 0 => delay \in BaseBackoff .. MaxBackoff
=============================================================================
