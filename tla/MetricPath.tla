------------------------------ MODULE MetricPath ------------------------------
(***************************************************************************)
(* Where a metrics snapshot goes: agent.metricsLoop, agent.drainBuffer and *)
(* the offline buffer (internal/buffer) on a bbolt bucket, composed with   *)
(* the connections of AgentLink, which AgentConnection implements.         *)
(*                                                                         *)
(* Every connection that was greeted has a metrics loop and a drainBuffer  *)
(* goroutine of its own, bound to its connection; both may be in the middle*)
(* of something when the connection ends and the next one starts.  All     *)
(* share the buffer, whose write transactions exclude each other.          *)
(*                                                                         *)
(* A snapshot is its number; it counts as sent when WriteMessage succeeds. *)
(***************************************************************************)
EXTENDS AgentLink, FiniteSets, SequencesExt

CONSTANTS
    MaxMetrics,       \* bound: how many snapshots are taken
    MaxFaults,        \* bound: how often a process is killed or told to end, or a commit fails
    MaxEntries,       \* maxEntries: the cap of the buffer
    StatsSeePending   \* whether Bucket.Stats counts the deletes of the open transaction

ASSUME MetricAssumption ==
    MaxMetrics \in Nat /\ MaxFaults \in Nat /\ MaxEntries \in Nat \ {0} /\ StatsSeePending \in BOOLEAN

Metrics == 1 .. MaxMetrics

\* Who may push: the metrics loop and the drainBuffer of a connection.
Pushers == {"loop", "drain"} \X Conns
NoTx == <<"none", 0>>

VARIABLES
    produced,  \* how many snapshots were taken
    loop,      \* the metrics loop of each connection
    holding,   \* the snapshot it is handling (0: none)
    drain,     \* the drainBuffer goroutine of each connection
    batch,     \* the entries it has drained and not yet sent or put back
    stored,    \* the bucket as committed, oldest key first
    writer,    \* who has the write transaction
    bucket,    \* the bucket as that transaction sees it
    sentTimes, \* how often each snapshot was sent
    faults,    \* how many of these there were
    lost,      \* history: dropped at the cap, by a failed commit or by a crash
    torn       \* history: drained by a transaction that was not committed

metricVars == <<produced, loop, holding, drain, batch, stored, writer, bucket,
                sentTimes, faults, lost, torn>>

MetricTypeOK ==
    /\ LinkTypeOK
    /\ faults \in 0 .. MaxFaults
    /\ produced \in 0 .. MaxMetrics
    /\ loop \in [Conns -> {"tick", "send", "push", "end"}]
    /\ holding \in [Conns -> 0 .. MaxMetrics]
    /\ drain \in [Conns -> {"count", "drain", "send", "back", "end"}]
    /\ batch \in [Conns -> Seq(Metrics)]
    /\ stored \in Seq(Metrics)
    /\ writer \in Pushers \cup {NoTx}
    /\ bucket \in Seq(Metrics)
    /\ sentTimes \in [Metrics -> Nat]
    /\ lost \subseteq Metrics /\ torn \subseteq Metrics

MetricInit ==
    /\ LinkInit
    /\ produced = 0 /\ faults = 0
    /\ loop = [g \in Conns |-> "tick"]
    /\ holding = [g \in Conns |-> 0]
    /\ drain = [g \in Conns |-> "count"]
    /\ batch = [g \in Conns |-> << >>]
    /\ stored = << >> /\ writer = NoTx /\ bucket = << >>
    /\ sentTimes = [m \in Metrics |-> 0]
    /\ lost = {} /\ torn = {}

\* A fault that may still happen.
Fault == faults < MaxFaults /\ faults' = faults + 1

-----------------------------------------------------------------------------
(* metricsLoop of connection g.                                            *)

\* The ticker: a snapshot is collected (which takes a while).
Tick(g) ==
    /\ g \in greeted /\ loop[g] = "tick" /\ produced < MaxMetrics
    /\ produced' = produced + 1
    /\ holding' = [holding EXCEPT ![g] = produced + 1]
    /\ loop' = [loop EXCEPT ![g] = "send"]
    /\ UNCHANGED <<linkVars, faults, drain, batch, stored, writer, bucket, sentTimes, lost, torn>>

\* case <-ctx.Done(): only between two snapshots.
LoopDone(g) ==
    /\ g \in greeted /\ loop[g] = "tick" /\ ctx[g] = "cancelled"
    /\ loop' = [loop EXCEPT ![g] = "end"]
    /\ UNCHANGED <<linkVars, faults, produced, holding, drain, batch, stored, writer, bucket,
                   sentTimes, lost, torn>>

SendMetric(g) ==
    /\ loop[g] = "send"
    /\ \/ /\ MaySucceed(g)
          /\ sentTimes' = [sentTimes EXCEPT ![holding[g]] = @ + 1]
          /\ holding' = [holding EXCEPT ![g] = 0]
          /\ loop' = [loop EXCEPT ![g] = "tick"]
       \/ /\ MayFail(g)
          /\ loop' = [loop EXCEPT ![g] = "push"]
          /\ UNCHANGED <<sentTimes, holding>>
    /\ UNCHANGED <<linkVars, faults, produced, drain, batch, stored, writer, bucket, lost, torn>>

-----------------------------------------------------------------------------
(* drainBuffer of connection g: Count, Drain, one batch.                   *)

Count(g) ==
    /\ g \in greeted /\ drain[g] = "count"
    /\ drain' = [drain EXCEPT ![g] = IF stored = << >> THEN "end" ELSE "drain"]
    /\ UNCHANGED <<linkVars, faults, produced, loop, holding, batch, stored, writer, bucket,
                   sentTimes, lost, torn>>

KeepBucket(g) == stored

\* The bucket after Drain's transaction: deleted and created again.
Emptied(g) == << >>

\* Drain ignores the error of its transaction: the entries are returned even if
\* removing them was not committed.
Drain(g) ==
    /\ drain[g] = "drain" /\ writer = NoTx
    /\ batch' = [batch EXCEPT ![g] = stored]
    /\ drain' = [drain EXCEPT ![g] = IF stored = << >> THEN "end" ELSE "send"]
    /\ \/ stored' = Emptied(g) /\ UNCHANGED <<torn, faults>>
       \/ Fault /\ torn' = torn \cup ToSet(stored) /\ UNCHANGED stored
    /\ UNCHANGED <<linkVars, produced, loop, holding,
                   writer, bucket, sentTimes, lost>>

GiveUp(g) == "end"

\* A batch that could not be sent is stored back.
AfterFailure(g) == "back"

SendBatch(g) ==
    /\ drain[g] = "send"
    /\ \/ /\ MaySucceed(g)
          /\ sentTimes' = [m \in Metrics |->
                             sentTimes[m] + (IF m \in ToSet(batch[g]) THEN 1 ELSE 0)]
          /\ batch' = [batch EXCEPT ![g] = << >>]
          /\ drain' = [drain EXCEPT ![g] = "end"]
       \/ /\ MayFail(g)
          /\ drain' = [drain EXCEPT ![g] = AfterFailure(g)]
          /\ batch' = [batch EXCEPT ![g] = IF AfterFailure(g) = "back" THEN @ ELSE << >>]
          /\ UNCHANGED sentTimes
    /\ UNCHANGED <<linkVars, faults, produced, loop, holding, stored, writer, bucket, lost, torn>>

-----------------------------------------------------------------------------
(* Buffer.Push, one bbolt write transaction.                               *)

Pushing(p) == IF p[1] = "loop" THEN loop[p[2]] = "push" ELSE drain[p[2]] = "back"
LoopEntry(p) == holding[p[2]]

Entry(p) == IF p[1] = "loop" THEN holding[p[2]] ELSE Head(batch[p[2]])

BeginPush(p) ==
    /\ Pushing(p) /\ writer = NoTx
    /\ writer' = p /\ bucket' = stored
    /\ UNCHANGED <<linkVars, faults, produced, loop, holding, drain, batch, stored, sentTimes,
                   lost, torn>>

\* bkt.Stats().KeyN.  bbolt counts the keys of the pages, which change at commit.
KeyN == IF StatsSeePending THEN Len(bucket) ELSE Len(stored)

OffByOne == KeyN > MaxEntries
LeaveRoom == KeyN >= MaxEntries - 1

\* The loop condition of Push.
Full == KeyN >= MaxEntries

\* One turn of that loop: the first key is deleted, if there is one.
DropFirst(p) ==
    /\ writer = p /\ Full
    /\ bucket' = IF bucket = << >> THEN bucket ELSE Tail(bucket)
    /\ UNCHANGED <<linkVars, faults, produced, loop, holding, drain, batch, stored, writer,
                   sentTimes, lost, torn>>

\* Push returns to its caller; drainBuffer goes on with the next entry.
Pushed(p) ==
    LET g == p[2] IN
    /\ writer' = NoTx /\ bucket' = << >>
    /\ IF p[1] = "loop"
       THEN /\ loop' = [loop EXCEPT ![g] = "tick"]
            /\ holding' = [holding EXCEPT ![g] = 0]
            /\ UNCHANGED <<drain, batch>>
       ELSE /\ batch' = [batch EXCEPT ![g] = Tail(@)]
            /\ drain' = [drain EXCEPT ![g] = IF Len(batch[g]) = 1 THEN "end" ELSE "back"]
            /\ UNCHANGED <<loop, holding>>

Commit(p) ==
    /\ writer = p /\ ~Full
    /\ stored' = Append(bucket, Entry(p))
    /\ lost' = lost \cup (ToSet(stored) \ ToSet(bucket))
    /\ Pushed(p)
    /\ UNCHANGED <<linkVars, faults, produced, sentTimes, torn>>

\* The error of Update is ignored: the entry is gone.
CommitFails(p) ==
    /\ writer = p /\ ~Full /\ Fault
    /\ lost' = lost \cup {Entry(p)}
    /\ Pushed(p)
    /\ UNCHANGED <<linkVars, produced, stored, sentTimes,
                   torn>>

-----------------------------------------------------------------------------
Ended(f, value) == [g \in Conns |-> IF g <= gen THEN value ELSE f[g]]

\* The process is gone: an open transaction is rolled back, and what the
\* goroutines held is lost.
GoroutinesDie ==
    /\ loop' = Ended(loop, "end")
    /\ holding' = [g \in Conns |-> 0]
    /\ drain' = Ended(drain, "end")
    /\ batch' = [g \in Conns |-> << >>]
    /\ writer' = NoTx /\ bucket' = << >>
    /\ lost' = lost \cup {holding[g] : g \in {c \in Conns : holding[c] # 0}}
                    \cup UNION {ToSet(batch[g]) : g \in Conns}
    /\ UNCHANGED <<produced, stored, sentTimes, torn>>

CrashMetrics == CrashLink /\ Fault /\ GoroutinesDie

\* SIGTERM: the loops see their context end.
QuitMetrics ==
    /\ QuitLink /\ Fault
    /\ UNCHANGED <<produced, loop, holding, drain, batch, stored, writer, bucket,
                   sentTimes, lost, torn>>

\* main returns after Run, without waiting for the loops.
Exit ==
    /\ quit /\ (gen > 0 => wire[gen] = "closed")
    /\ GoroutinesDie
    /\ UNCHANGED <<linkVars, faults>>

Push(p) == BeginPush(p) \/ DropFirst(p) \/ Commit(p)

MetricsLoop(g) == Tick(g) \/ LoopDone(g) \/ SendMetric(g) \/ Push(<<"loop", g>>)
DrainBuffer(g) == Count(g) \/ Drain(g) \/ SendBatch(g) \/ Push(<<"drain", g>>)

MetricNext ==
    \/ (Advance \/ \E g \in Conns : Break(g)) /\ UNCHANGED metricVars
    \/ QuitMetrics \/ CrashMetrics \/ Exit
    \/ \E g \in Conns : MetricsLoop(g) \/ DrainBuffer(g)
    \/ \E p \in Pushers : CommitFails(p)

allVars == <<linkVars, metricVars>>

MetricSpec == MetricInit /\ [][MetricNext]_allVars

\* The connection moves on and the scheduler runs every goroutine.  That is enough
\* to get bbolt's writer lock in the end: there are finitely many pushes.
MetricFairness ==
    /\ WF_allVars(Advance /\ UNCHANGED metricVars)
    /\ \A g \in Conns : WF_allVars(MetricsLoop(g)) /\ WF_allVars(DrainBuffer(g))

MetricFairSpec == MetricSpec /\ MetricFairness

-----------------------------------------------------------------------------
(* What must hold.                                                         *)

\* Where snapshot m is.
Copies(m) ==
    sentTimes[m] + (IF m \in ToSet(stored) THEN 1 ELSE 0)
      + Cardinality({g \in Conns : holding[g] = m})
      + Cardinality({g \in Conns : m \in ToSet(batch[g])})

\* A snapshot is never lost, doubled or sent twice by a disconnection (metricsLoop, Push,
\* Drain and drainBuffer in any order, on any connections): it is in exactly one
\* place, unless the cap, a crash or a failing disk took it.
Conserved ==
    \A m \in 1 .. produced :
        m \notin lost \cup torn => Copies(m) = 1

\* "If it exceeds maxEntries, the oldest is dropped" (Push): the cap holds, whoever
\* pushes and whatever drains in between.
CapRespected == Len(stored) <= MaxEntries

\* An entry leaves the buffer only into the hands of a drainBuffer or to make room
\* in a full one: Push drops no more than it must (Push, Drain).
DropsOnlyAtCap ==
    [][\A m \in ToSet(stored) \ ToSet(stored') :
          Len(stored') = MaxEntries \/ \E g \in Conns : m \in ToSet(batch'[g])]_allVars

\* A Push ends and gives the write transaction back: the loop that makes room in a
\* full buffer gets to an end.
PushEnds == \A p \in Pushers : Pushing(p) ~> ~Pushing(p)

\* "Persistent on-disk offline buffer, drained on reconnect": once the faults are
\* over nothing stays in the buffer.
BufferDrained == <>[](quit \/ stored = << >>)
=============================================================================
