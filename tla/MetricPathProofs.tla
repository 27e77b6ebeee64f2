--------------------------- MODULE MetricPathProofs ---------------------------
(***************************************************************************)
(* Proofs about MetricPath, for any number of connections, snapshots and   *)
(* faults, any cap, and either way of counting keys.                       *)
(*                                                                         *)
(* The cap needs to know what the open write transaction sees: no more than*)
(* is stored (Room), and less only once it had to make room (Drops).  That *)
(* in turn needs that whoever has the transaction is pushing something     *)
(* (Held).  That no snapshot is lost or doubled needs an invariant on top  *)
(* of that one (PlaceInv, below).                                          *)
(***************************************************************************)
EXTENDS MetricPath, SequenceTheorems, FiniteSetTheorems, TLAPS

\* Whoever sends or pushes has something to send or push.
Held ==
    /\ \A g \in Conns : loop[g] \in {"send", "push"} => holding[g] # 0
    /\ \A g \in Conns : drain[g] \in {"send", "back"} => batch[g] # << >>
    /\ \A g \in Conns : writer = <<"loop", g>> => loop[g] = "push"
    /\ \A g \in Conns : writer = <<"drain", g>> => drain[g] = "back"

Room == writer # NoTx => Len(bucket) <= Len(stored)

Drops ==
    writer # NoTx =>
        \/ bucket = stored
        \/ StatsSeePending /\ Len(bucket) = MaxEntries - 1
        \/ ~StatsSeePending /\ Len(stored) >= MaxEntries

\* The loops of a connection start when it is greeted.
Started ==
    /\ \A g \in greeted : g <= gen
    /\ \A g \in Conns : g > gen => loop[g] = "tick" /\ drain[g] = "count"

IInv == MetricTypeOK /\ Held /\ Started /\ Room /\ Drops /\ CapRespected

-----------------------------------------------------------------------------
LEMMA InitIInv == MetricInit => IInv
<1> SUFFICES ASSUME MetricInit PROVE IInv
  OBVIOUS
<1> USE MetricAssumption, LinkAssumption DEF MetricInit, LinkInit
<1>1. << >> \in Seq(Metrics) /\ Len(<< >>) = 0
  BY EmptySeq
<1>2. MetricTypeOK
  <2>1. LinkTypeOK
    <3>1. wire \in [Conns -> {"none", "up", "mute", "down", "closed"}]
      OBVIOUS
    <3>2. ctx \in [Conns -> {"none", "live", "cancelled"}]
      OBVIOUS
    <3>3. gen \in 0 .. MaxConns /\ greeted \subseteq Conns
      OBVIOUS
    <3>4. quit \in BOOLEAN
      OBVIOUS
    <3> QED
      BY <3>1, <3>2, <3>3, <3>4 DEF LinkTypeOK
  <2>2. writer \in Pushers \cup {NoTx} /\ produced \in 0 .. MaxMetrics /\ faults \in 0 .. MaxFaults
    OBVIOUS
  <2>3. holding \in [Conns -> 0 .. MaxMetrics] /\ sentTimes \in [Metrics -> Nat]
    OBVIOUS
  <2> QED
    BY <1>1, <2>1, <2>2, <2>3 DEF MetricTypeOK
<1>3. CapRespected /\ Room /\ Drops
  BY <1>1 DEF CapRespected, Room, Drops
<1>4. Held
  <2>1. \A g \in Conns : loop[g] = "tick" /\ drain[g] = "count"
    OBVIOUS
  <2>2. \A g \in Conns : writer # <<"loop", g>> /\ writer # <<"drain", g>>
    BY DEF NoTx
  <2> QED
    BY <2>1, <2>2 DEF Held
<1>5. Started
  BY DEF Started
<1> QED
  BY <1>2, <1>3, <1>4, <1>5 DEF IInv

\* Who is pushing what.
LEMMA Pushers2 ==
    ASSUME NEW p \in Pushers
    PROVE  /\ p # NoTx
           /\ p[2] \in Conns
           /\ p = <<"loop", p[2]>> \/ p = <<"drain", p[2]>>
           /\ p[1] \in {"loop", "drain"} /\ p = <<p[1], p[2]>>
BY DEF Pushers, NoTx

LEMMA EntryTyped ==
    ASSUME MetricTypeOK, Held, NEW p \in Pushers, writer = p
    PROVE  Entry(p) \in Metrics
<1>1. CASE p[1] = "loop"
  <2>1. loop[p[2]] = "push" /\ holding[p[2]] \in 0 .. MaxMetrics
    BY <1>1, Pushers2 DEF Held, MetricTypeOK
  <2>2. holding[p[2]] \in Metrics
    BY <2>1, MetricAssumption, Pushers2 DEF Held, Metrics
  <2> QED
    BY <1>1, <2>2 DEF Entry
<1>2. CASE p[1] = "drain"
  <2>1. batch[p[2]] \in Seq(Metrics) /\ batch[p[2]] # << >>
    BY <1>2, Pushers2 DEF Held, MetricTypeOK
  <2>2. Head(batch[p[2]]) \in Metrics
    BY <2>1, HeadTailProperties
  <2> QED
    BY <1>2, <2>2 DEF Entry
<1> QED
  BY <1>1, <1>2, Pushers2

\* The end of a push, committed or not.
LEMMA AfterPush ==
    ASSUME MetricTypeOK, Held, Started, UNCHANGED linkVars,
           NEW p \in Pushers, writer = p, Pushed(p)
    PROVE  /\ loop' \in [Conns -> {"tick", "send", "push", "end"}]
           /\ holding' \in [Conns -> 0 .. MaxMetrics]
           /\ drain' \in [Conns -> {"count", "drain", "send", "back", "end"}]
           /\ batch' \in [Conns -> Seq(Metrics)]
           /\ writer' = NoTx /\ bucket' \in Seq(Metrics)
           /\ Held' /\ Started'
<1> DEFINE g == p[2]
<1>0. g \in Conns /\ p # NoTx
  BY Pushers2
<1>1. writer' = NoTx /\ bucket' = << >> /\ bucket' \in Seq(Metrics)
  BY EmptySeq DEF Pushed
<1>2. \A c \in Conns : <<"loop", c>> # NoTx /\ <<"drain", c>> # NoTx
  BY DEF NoTx
<1>3. CASE p[1] = "loop"
  <2>1. /\ loop' = [loop EXCEPT ![g] = "tick"] /\ holding' = [holding EXCEPT ![g] = 0]
        /\ UNCHANGED <<drain, batch>>
    BY <1>3 DEF Pushed
  <2>2. /\ loop' \in [Conns -> {"tick", "send", "push", "end"}]
        /\ holding' \in [Conns -> 0 .. MaxMetrics]
        /\ drain' \in [Conns -> {"count", "drain", "send", "back", "end"}]
        /\ batch' \in [Conns -> Seq(Metrics)]
    BY <2>1, <1>0, MetricAssumption DEF MetricTypeOK
  <2>3. Held'
    BY <1>0, <1>1, <1>2, <2>1 DEF Held, MetricTypeOK
  <2>4. Started'
    BY <1>0, <2>1 DEF Started, MetricTypeOK, linkVars
  <2> QED
    BY <1>1, <2>2, <2>3, <2>4
<1>4. CASE p[1] = "drain"
  <2>1. /\ batch' = [batch EXCEPT ![g] = Tail(batch[g])]
        /\ drain' = [drain EXCEPT ![g] = IF Len(batch[g]) = 1 THEN "end" ELSE "back"]
        /\ UNCHANGED <<loop, holding>>
    BY <1>4 DEF Pushed
  <2>2. batch[g] \in Seq(Metrics) /\ batch[g] # << >>
    BY <1>0, <1>4, Pushers2 DEF Held, MetricTypeOK
  <2>3. /\ Tail(batch[g]) \in Seq(Metrics) /\ Len(batch[g]) \in Nat
        /\ Len(Tail(batch[g])) = Len(batch[g]) - 1
    BY <2>2, HeadTailProperties, LenProperties
  <2>4. Len(batch[g]) # 1 => Tail(batch[g]) # << >>
    <3> SUFFICES ASSUME Tail(batch[g]) = << >> PROVE Len(batch[g]) = 1
      OBVIOUS
    <3>1. Len(Tail(batch[g])) = 0
      BY EmptySeq
    <3> QED
      BY <2>3, <3>1
  <2>5. /\ drain' \in [Conns -> {"count", "drain", "send", "back", "end"}]
        /\ batch' \in [Conns -> Seq(Metrics)]
        /\ loop' \in [Conns -> {"tick", "send", "push", "end"}]
        /\ holding' \in [Conns -> 0 .. MaxMetrics]
    BY <1>0, <2>1, <2>3 DEF MetricTypeOK
  <2>6. \A c \in Conns : drain'[c] \in {"send", "back"} => batch'[c] # << >>
    BY <1>0, <2>1, <2>4 DEF Held, MetricTypeOK
  <2>7. \A c \in Conns : writer' # <<"loop", c>> /\ writer' # <<"drain", c>>
    BY <1>1, <1>2
  <2>8. Held'
    BY <2>1, <2>6, <2>7 DEF Held
  <2>9. drain[g] = "back"
    BY <1>4, Pushers2 DEF Held
  <2>10. Started'
    BY <1>0, <2>1, <2>9 DEF Started, MetricTypeOK, LinkTypeOK, linkVars, Conns
  <2> QED
    BY <1>1, <2>5, <2>8, <2>10
<1> QED
  BY <1>3, <1>4, Pushers2

\* A push that is at work: one more key deleted, or the entry stored.
LEMMA PushStep ==
    ASSUME IInv, NEW p \in Pushers, Push(p) \/ CommitFails(p)
    PROVE  IInv'
<1> USE MetricAssumption DEF IInv
<1>0. /\ stored \in Seq(Metrics) /\ bucket \in Seq(Metrics)
      /\ Len(stored) \in Nat /\ Len(bucket) \in Nat
      /\ p # NoTx /\ p[2] \in Conns
  BY LenProperties, Pushers2 DEF MetricTypeOK
<1>1. CASE BeginPush(p)
  <2>1. Pushing(p) /\ writer' = p /\ bucket' = stored /\ stored' = stored
        /\ UNCHANGED <<loop, holding, drain, batch>>
    BY <1>1 DEF BeginPush
  <2>2. MetricTypeOK'
    BY <1>0, <1>1 DEF BeginPush, MetricTypeOK, LinkTypeOK, linkVars
  <2>3. (p[1] = "loop" => loop[p[2]] = "push") /\ (p[1] = "drain" => drain[p[2]] = "back")
    BY <2>1 DEF Pushing
  <2>4. \A g \in Conns : /\ p = <<"loop", g>> => p[1] = "loop" /\ p[2] = g
                         /\ p = <<"drain", g>> => p[1] = "drain" /\ p[2] = g
    OBVIOUS
  <2>5. Held'
    BY <2>1, <2>3, <2>4 DEF Held
  <2>6. Room' /\ Drops' /\ CapRespected'
    BY <1>0, <2>1 DEF Room, Drops, CapRespected
  <2>7. Started'
    BY <1>1 DEF BeginPush, Started, linkVars
  <2> QED
    BY <2>2, <2>5, <2>6, <2>7
<1>2. CASE DropFirst(p)
  <2>1. writer = p /\ KeyN >= MaxEntries /\ UNCHANGED <<stored, writer, loop, holding, drain, batch>>
        /\ bucket' = IF bucket = << >> THEN bucket ELSE Tail(bucket)
    BY <1>2 DEF DropFirst, Full
  <2>2. bucket # << >> => Tail(bucket) \in Seq(Metrics) /\ Len(Tail(bucket)) = Len(bucket) - 1
    BY <1>0, HeadTailProperties
  <2>3. bucket' \in Seq(Metrics) /\ Len(bucket') <= Len(bucket) /\ Len(bucket') \in Nat
    BY <1>0, <2>1, <2>2, LenProperties
  <2>4. MetricTypeOK'
    BY <1>2, <2>3 DEF DropFirst, MetricTypeOK, LinkTypeOK, linkVars
  <2>5. Held'
    BY <2>1 DEF Held
  <2>6. Room' /\ CapRespected'
    BY <1>0, <2>1, <2>3 DEF Room, CapRespected
  <2>7. Drops'
    <3>1. CASE StatsSeePending
      <4>1. Len(bucket) = MaxEntries
        BY <1>0, <2>1, <3>1 DEF KeyN, Room, CapRespected
      <4>2. bucket # << >>
        BY <4>1, EmptySeq
      <4> QED
        BY <2>1, <2>2, <3>1, <4>1, <4>2 DEF Drops
    <3>2. CASE ~StatsSeePending
      BY <2>1, <3>2 DEF KeyN, Drops
    <3> QED
      BY <3>1, <3>2
  <2>8. Started'
    BY <1>2 DEF DropFirst, Started, linkVars
  <2> QED
    BY <2>4, <2>5, <2>6, <2>7, <2>8
<1>3. CASE Commit(p)
  <2>1. writer = p /\ ~(KeyN >= MaxEntries) /\ stored' = Append(bucket, Entry(p)) /\ Pushed(p)
    BY <1>3 DEF Commit, Full
  <2>2. Entry(p) \in Metrics
    BY <2>1, EntryTyped
  <2>3. stored' \in Seq(Metrics) /\ Len(stored') = Len(bucket) + 1
    BY <1>0, <2>1, <2>2, AppendProperties
  <2>4. Len(bucket) < MaxEntries
    BY <1>0, <2>1 DEF KeyN, Room
  <2>5. /\ loop' \in [Conns -> {"tick", "send", "push", "end"}]
        /\ holding' \in [Conns -> 0 .. MaxMetrics]
        /\ drain' \in [Conns -> {"count", "drain", "send", "back", "end"}]
        /\ batch' \in [Conns -> Seq(Metrics)]
        /\ writer' = NoTx /\ bucket' \in Seq(Metrics)
        /\ Held' /\ Started'
    BY <1>3, <2>1, AfterPush DEF Commit
  <2>6. lost' \subseteq Metrics
    <3>1. ToSet(stored) \subseteq Metrics
      BY <1>0, ElementOfSeq, LenProperties DEF ToSet
    <3> QED
      BY <1>3, <3>1 DEF Commit, MetricTypeOK
  <2>7. MetricTypeOK'
    BY <1>3, <2>3, <2>5, <2>6 DEF Commit, MetricTypeOK, LinkTypeOK, linkVars
  <2>8. CapRespected' /\ Room' /\ Drops'
    BY <1>0, <2>3, <2>4, <2>5 DEF CapRespected, Room, Drops
  <2> QED
    BY <2>5, <2>7, <2>8
<1>4. CASE CommitFails(p)
  <2>1. writer = p /\ stored' = stored /\ Pushed(p)
    BY <1>4 DEF CommitFails
  <2>2. Entry(p) \in Metrics
    BY <2>1, EntryTyped
  <2>3. /\ loop' \in [Conns -> {"tick", "send", "push", "end"}]
        /\ holding' \in [Conns -> 0 .. MaxMetrics]
        /\ drain' \in [Conns -> {"count", "drain", "send", "back", "end"}]
        /\ batch' \in [Conns -> Seq(Metrics)]
        /\ writer' = NoTx /\ bucket' \in Seq(Metrics)
        /\ Held' /\ Started'
    BY <1>4, <2>1, AfterPush DEF CommitFails
  <2>4. faults' \in 0 .. MaxFaults
    BY <1>4 DEF CommitFails, Fault, MetricTypeOK
  <2>5. MetricTypeOK'
    BY <1>4, <2>2, <2>3, <2>4 DEF CommitFails, MetricTypeOK, LinkTypeOK, linkVars
  <2>6. CapRespected' /\ Room' /\ Drops'
    BY <2>1, <2>3 DEF CapRespected, Room, Drops
  <2> QED
    BY <2>3, <2>5, <2>6
<1> QED
  BY <1>1, <1>2, <1>3, <1>4 DEF Push

\* What the client does, and what happens to a connection.
LEMMA LinkStep ==
    ASSUME LinkTypeOK, Advance \/ (\E g \in Conns : Break(g)) \/ QuitLink \/ CrashLink
    PROVE  /\ LinkTypeOK'
           /\ gen <= gen'
           /\ \A g \in greeted' : g \in greeted \/ g = gen'
<1> USE LinkAssumption DEF LinkTypeOK, Conns
<1>1. CASE Connect
  BY <1>1 DEF Connect
<1>2. ASSUME NEW g \in Conns, Welcome(g) \/ CancelLink(g) \/ CloseLink(g)
      PROVE  LinkTypeOK' /\ gen <= gen' /\ \A c \in greeted' : c \in greeted \/ c = gen'
  <2>1. CASE Welcome(g)
    BY <2>1 DEF Welcome
  <2>2. CASE CancelLink(g)
    BY <2>2 DEF CancelLink
  <2>3. CASE CloseLink(g)
    BY <2>3 DEF CloseLink
  <2> QED
    BY <1>2, <2>1, <2>2, <2>3
<1>3. ASSUME NEW g \in Conns, Break(g)
      PROVE  LinkTypeOK' /\ gen <= gen' /\ \A c \in greeted' : c \in greeted \/ c = gen'
  BY <1>3 DEF Break
<1>4. CASE QuitLink
  BY <1>4 DEF QuitLink
<1>5. CASE CrashLink
  BY <1>5 DEF CrashLink
<1> QED
  BY <1>1, <1>2, <1>3, <1>4, <1>5 DEF Advance

\* The process lives on, or ends: nobody pushes any more.
LEMMA LinkStepKeeps ==
    ASSUME IInv,
           \/ (Advance \/ \E g \in Conns : Break(g)) /\ UNCHANGED metricVars
           \/ QuitMetrics \/ CrashMetrics \/ Exit
    PROVE  IInv'
<1> USE MetricAssumption, LinkAssumption DEF IInv
<1>1. CASE (Advance \/ \E g \in Conns : Break(g)) /\ UNCHANGED metricVars
  <2>1. LinkTypeOK' /\ gen <= gen' /\ \A g \in greeted' : g \in greeted \/ g = gen'
    BY <1>1, LinkStep DEF MetricTypeOK
  <2>2. Started'
    BY <1>1, <2>1, SMTT(30) DEF metricVars, Started, MetricTypeOK, LinkTypeOK, Conns
  <2> QED
    BY <1>1, <2>1, <2>2 DEF metricVars, MetricTypeOK, Held, Room, Drops, CapRespected
<1>2. CASE QuitMetrics
  <2>1. LinkTypeOK'
    BY <1>2, LinkStep DEF MetricTypeOK, QuitMetrics
  <2>2. faults' \in 0 .. MaxFaults
    BY <1>2 DEF QuitMetrics, Fault, MetricTypeOK
  <2> QED
    BY <1>2, <2>1, <2>2
    DEF QuitMetrics, QuitLink, MetricTypeOK, Held, Started, Room, Drops, CapRespected
<1>3. CASE CrashMetrics \/ Exit
  <2>1. LinkTypeOK'
    BY <1>3, LinkStep DEF MetricTypeOK, CrashMetrics, Exit, linkVars, LinkTypeOK
  <2>2. faults' \in 0 .. MaxFaults
    BY <1>3 DEF CrashMetrics, Exit, Fault, MetricTypeOK
  <2>3. GoroutinesDie
    BY <1>3 DEF CrashMetrics, Exit
  <2>4. lost' \subseteq Metrics
    <3>1. \A g \in Conns : holding[g] # 0 => holding[g] \in Metrics
      BY DEF MetricTypeOK, Metrics
    <3>2. \A g \in Conns : ToSet(batch[g]) \subseteq Metrics
      BY ElementOfSeq, LenProperties DEF MetricTypeOK, ToSet
    <3>3. lost' = lost \cup {holding[g] : g \in {c \in Conns : holding[c] # 0}}
                       \cup UNION {ToSet(batch[g]) : g \in Conns}
      BY <2>3 DEF GoroutinesDie
    <3> QED
      BY <3>1, <3>2, <3>3 DEF MetricTypeOK
  <2>5. /\ loop' = [g \in Conns |-> IF g <= gen THEN "end" ELSE loop[g]]
        /\ drain' = [g \in Conns |-> IF g <= gen THEN "end" ELSE drain[g]]
        /\ holding' = [g \in Conns |-> 0] /\ batch' = [g \in Conns |-> << >>]
        /\ writer' = NoTx /\ bucket' = << >>
        /\ UNCHANGED <<produced, stored, sentTimes, torn>>
    BY <2>3 DEF GoroutinesDie, Ended
  <2>6. MetricTypeOK'
    BY <2>1, <2>2, <2>4, <2>5, EmptySeq DEF MetricTypeOK
  <2>7. \A g \in Conns : loop'[g] \in {"end", "tick"} /\ drain'[g] \in {"end", "count"}
    BY <2>5 DEF Started, MetricTypeOK, LinkTypeOK, Conns
  <2>8. \A g \in Conns : writer' # <<"loop", g>> /\ writer' # <<"drain", g>>
    BY <2>5 DEF NoTx
  <2>9. Held'
    BY <2>7, <2>8 DEF Held
  <2>10. gen' = gen /\ greeted' = greeted
    BY <1>3 DEF CrashMetrics, CrashLink, Exit, linkVars
  <2>11. Started'
    BY <2>5, <2>10 DEF Started, MetricTypeOK, LinkTypeOK, Conns
  <2>12. Room' /\ Drops' /\ CapRespected'
    BY <2>5 DEF Room, Drops, CapRespected
  <2> QED
    BY <2>6, <2>9, <2>11, <2>12
<1> QED
  BY <1>1, <1>2, <1>3

\* What the metrics loop and drainBuffer of a connection do besides pushing.
LEMMA LoopStep ==
    ASSUME IInv, NEW g \in Conns, Tick(g) \/ LoopDone(g) \/ SendMetric(g)
    PROVE  IInv'
<1> USE MetricAssumption DEF IInv
<1>1. CASE Tick(g)
  <2>1. /\ loop[g] = "tick" /\ loop' = [loop EXCEPT ![g] = "send"]
        /\ holding' = [holding EXCEPT ![g] = produced + 1]
        /\ produced' = produced + 1 /\ produced < MaxMetrics /\ g \in greeted
    BY <1>1 DEF Tick
  <2>2. MetricTypeOK'
    BY <1>1, <2>1 DEF Tick, MetricTypeOK, LinkTypeOK, linkVars
  <2>3. Held'
    BY <1>1, <2>1 DEF Tick, Held, MetricTypeOK
  <2>4. Started'
    BY <1>1, <2>1 DEF Tick, Started, MetricTypeOK, LinkTypeOK, linkVars, Conns
  <2> QED
    BY <1>1, <2>2, <2>3, <2>4 DEF Tick, Room, Drops, CapRespected
<1>2. CASE LoopDone(g)
  <2>1. MetricTypeOK'
    BY <1>2 DEF LoopDone, MetricTypeOK, LinkTypeOK, linkVars
  <2>2. Held'
    BY <1>2 DEF LoopDone, Held, MetricTypeOK
  <2>3. Started'
    BY <1>2 DEF LoopDone, Started, MetricTypeOK, LinkTypeOK, linkVars, Conns
  <2> QED
    BY <1>2, <2>1, <2>2, <2>3 DEF LoopDone, Room, Drops, CapRespected
<1>3. CASE SendMetric(g)
  <2>1. /\ loop[g] = "send" /\ holding[g] \in Metrics
        /\ \/ loop' = [loop EXCEPT ![g] = "tick"] /\ holding' = [holding EXCEPT ![g] = 0]
           \/ loop' = [loop EXCEPT ![g] = "push"] /\ holding' = holding
    BY <1>3 DEF SendMetric, Held, MetricTypeOK, Metrics
  <2>2. sentTimes' \in [Metrics -> Nat]
    BY <1>3, <2>1 DEF SendMetric, MetricTypeOK
  <2>3. MetricTypeOK'
    <3>1. loop' \in [Conns -> {"tick", "send", "push", "end"}]
      BY <2>1 DEF MetricTypeOK
    <3>2. holding' \in [Conns -> 0 .. MaxMetrics]
      <4>1. 0 \in 0 .. MaxMetrics /\ holding \in [Conns -> 0 .. MaxMetrics]
        BY DEF MetricTypeOK
      <4>2. holding' = holding \/ holding' = [holding EXCEPT ![g] = 0]
        BY <2>1
      <4> QED
        BY <4>1, <4>2
    <3> QED
      BY <1>3, <2>2, <3>1, <3>2 DEF SendMetric, MetricTypeOK, LinkTypeOK, linkVars
  <2>4. Held'
    BY <1>3, <2>1 DEF SendMetric, Held, MetricTypeOK
  <2>5. Started'
    BY <1>3, <2>1 DEF SendMetric, Started, MetricTypeOK, LinkTypeOK, linkVars, Conns
  <2> QED
    BY <1>3, <2>3, <2>4, <2>5 DEF SendMetric, Room, Drops, CapRespected
<1> QED
  BY <1>1, <1>2, <1>3

LEMMA DrainStep ==
    ASSUME IInv, NEW g \in Conns, Count(g) \/ Drain(g) \/ SendBatch(g)
    PROVE  IInv'
<1> USE MetricAssumption DEF IInv
<1>0. << >> \in Seq(Metrics) /\ Len(<< >>) = 0 /\ Len(stored) \in Nat
  BY EmptySeq, LenProperties DEF MetricTypeOK
<1>1. CASE Count(g)
  <2>1. g \in greeted /\ drain[g] = "count"
        /\ \/ drain' = [drain EXCEPT ![g] = "end"]
           \/ drain' = [drain EXCEPT ![g] = "drain"]
    BY <1>1 DEF Count
  <2>2. MetricTypeOK'
    BY <1>1, <2>1 DEF Count, MetricTypeOK, LinkTypeOK, linkVars
  <2>3. Held'
    BY <1>1, <2>1 DEF Count, Held, MetricTypeOK
  <2>4. Started'
    BY <1>1, <2>1 DEF Count, Started, MetricTypeOK, LinkTypeOK, linkVars, Conns
  <2> QED
    BY <1>1, <2>2, <2>3, <2>4 DEF Count, Room, Drops, CapRespected
<1>2. CASE Drain(g)
  <2>1. /\ drain[g] = "drain" /\ writer = NoTx
        /\ batch' = [batch EXCEPT ![g] = stored]
        /\ \/ stored = << >> /\ drain' = [drain EXCEPT ![g] = "end"]
           \/ stored # << >> /\ drain' = [drain EXCEPT ![g] = "send"]
        /\ stored' = << >> \/ stored' = stored
    BY <1>2 DEF Drain, Emptied
  <2>2. torn' \subseteq Metrics /\ faults' \in 0 .. MaxFaults
    <3>1. ToSet(stored) \subseteq Metrics
      BY ElementOfSeq, LenProperties DEF MetricTypeOK, ToSet
    <3> QED
      BY <1>2, <3>1 DEF Drain, Fault, MetricTypeOK
  <2>3. MetricTypeOK'
    <3>1. /\ drain' \in [Conns -> {"count", "drain", "send", "back", "end"}]
          /\ batch' \in [Conns -> Seq(Metrics)] /\ stored' \in Seq(Metrics)
      BY <1>0, <2>1 DEF MetricTypeOK
    <3> QED
      BY <1>2, <2>2, <3>1 DEF Drain, MetricTypeOK, LinkTypeOK, linkVars
  <2>4. Held'
    <3>1. \A c \in Conns : drain'[c] \in {"send", "back"} => batch'[c] # << >>
      BY <2>1 DEF Held, MetricTypeOK
    <3>2. \A c \in Conns : writer # <<"loop", c>> /\ writer # <<"drain", c>>
      BY <2>1 DEF NoTx
    <3> QED
      BY <1>2, <3>1, <3>2 DEF Drain, Held
  <2>5. Started'
    BY <1>2, <2>1 DEF Drain, Started, MetricTypeOK, LinkTypeOK, linkVars, Conns
  <2>6. writer' = NoTx /\ Len(stored') <= Len(stored)
    BY <1>0, <1>2, <2>1 DEF Drain
  <2> QED
    BY <1>0, <2>1, <2>3, <2>4, <2>5, <2>6 DEF Room, Drops, CapRespected
<1>3. CASE SendBatch(g)
  <2>1. /\ drain[g] = "send"
        /\ \/ drain' = [drain EXCEPT ![g] = "end"] /\ batch' = [batch EXCEPT ![g] = << >>]
           \/ drain' = [drain EXCEPT ![g] = "back"] /\ batch' = [batch EXCEPT ![g] = batch[g]]
    BY <1>3 DEF SendBatch, AfterFailure
  <2>2. sentTimes' \in [Metrics -> Nat]
    <3>1. \A m \in Metrics : sentTimes[m] \in Nat
      BY DEF MetricTypeOK
    <3>2. CASE UNCHANGED sentTimes
      BY <3>2 DEF MetricTypeOK
    <3>3. CASE sentTimes' = [m \in Metrics |->
                              sentTimes[m] + (IF m \in ToSet(batch[g]) THEN 1 ELSE 0)]
      <4>1. \A m \in Metrics : sentTimes'[m] \in Nat
        BY <3>1, <3>3
      <4> QED
        BY <3>3, <4>1
    <3> QED
      BY <1>3, <3>2, <3>3 DEF SendBatch
  <2>3. MetricTypeOK'
    <3>1. /\ drain' \in [Conns -> {"count", "drain", "send", "back", "end"}]
          /\ batch' \in [Conns -> Seq(Metrics)]
      BY <1>0, <2>1 DEF MetricTypeOK
    <3> QED
      BY <1>3, <2>2, <3>1 DEF SendBatch, MetricTypeOK, LinkTypeOK, linkVars
  <2>4. Held'
    BY <1>3, <2>1 DEF SendBatch, Held, MetricTypeOK
  <2>5. Started'
    BY <1>3, <2>1 DEF SendBatch, Started, MetricTypeOK, LinkTypeOK, linkVars, Conns
  <2> QED
    BY <1>3, <2>3, <2>4, <2>5 DEF SendBatch, Room, Drops, CapRespected
<1> QED
  BY <1>1, <1>2, <1>3

LEMMA NextInv == IInv /\ [MetricNext]_allVars => IInv'
<1> SUFFICES ASSUME IInv, [MetricNext]_allVars PROVE IInv'
  OBVIOUS
<1>1. CASE UNCHANGED allVars
  BY <1>1 DEF allVars, linkVars, metricVars, IInv, MetricTypeOK, LinkTypeOK, Held, Started,
              Room, Drops, CapRespected, KeyN
<1>2. CASE \/ (Advance \/ \E g \in Conns : Break(g)) /\ UNCHANGED metricVars
           \/ QuitMetrics \/ CrashMetrics \/ Exit
  BY <1>2, LinkStepKeeps
<1>3. ASSUME NEW g \in Conns, MetricsLoop(g) PROVE IInv'
  <2>1. <<"loop", g>> \in Pushers
    BY DEF Pushers
  <2> QED
    BY <1>3, <2>1, LoopStep, PushStep DEF MetricsLoop
<1>4. ASSUME NEW g \in Conns, DrainBuffer(g) PROVE IInv'
  <2>1. <<"drain", g>> \in Pushers
    BY DEF Pushers
  <2> QED
    BY <1>4, <2>1, DrainStep, PushStep DEF DrainBuffer
<1>5. ASSUME NEW p \in Pushers, CommitFails(p) PROVE IInv'
  BY <1>5, PushStep
<1> QED
  BY <1>1, <1>2, <1>3, <1>4, <1>5 DEF MetricNext

\* The inductive invariant of the metrics path, whatever the connections do.
THEOREM Invariance == MetricSpec => []IInv
<1>1. MetricInit => IInv
  BY InitIInv
<1>2. IInv /\ [MetricNext]_allVars => IInv'
  BY NextInv
<1> QED
  BY <1>1, <1>2, PTL DEF MetricSpec

\* Every variable of metricsLoop, drainBuffer and the buffer keeps its type.
THEOREM TypeCorrect == MetricSpec => []MetricTypeOK
<1>1. IInv => MetricTypeOK
  BY DEF IInv
<1> QED
  BY <1>1, Invariance, PTL

\* Buffer.Push: "If it exceeds maxEntries, the oldest is dropped".  Any number of
\* loops and drains on any number of connections never store more than the cap.
THEOREM CapHolds == MetricSpec => []CapRespected
<1>1. IInv => CapRespected
  BY DEF IInv
<1> QED
  BY <1>1, Invariance, PTL

-----------------------------------------------------------------------------
\* Buffer.Push and Buffer.Drain: an entry leaves the buffer only into the hands of a
\* drainBuffer, or for room in a full one.
THEOREM NoNeedlessDrop == MetricSpec => DropsOnlyAtCap
<1> DEFINE Taken ==
      \A m \in ToSet(stored) \ ToSet(stored') :
          Len(stored') = MaxEntries \/ \E g \in Conns : m \in ToSet(batch'[g])
<1>1. ASSUME IInv, [MetricNext]_allVars PROVE [Taken]_allVars
  <2> USE MetricAssumption
  <2>1. CASE UNCHANGED stored
    BY <2>1
  <2>2. ASSUME NEW g \in Conns, Drain(g) PROVE Taken
    <3>1. batch'[g] = stored
      BY <1>1, <2>2 DEF Drain, IInv, MetricTypeOK
    <3> QED
      BY <3>1
  <2>3. ASSUME NEW p \in Pushers, Commit(p) PROVE Taken
    <3>1. /\ writer = p /\ p # NoTx /\ ~(KeyN >= MaxEntries)
          /\ stored' = Append(bucket, Entry(p))
      BY <2>3, Pushers2 DEF Commit, Full
    <3>2. /\ stored \in Seq(Metrics) /\ bucket \in Seq(Metrics) /\ Entry(p) \in Metrics
          /\ Len(stored) \in Nat /\ Len(bucket) \in Nat
      BY <1>1, <3>1, EntryTyped, LenProperties DEF IInv, MetricTypeOK
    <3>3. Len(stored') = Len(bucket) + 1 /\ \A i \in 1 .. Len(bucket) : stored'[i] = bucket[i]
      BY <3>1, <3>2, AppendProperties
    <3>4. CASE bucket = stored
      <4>1. \A i \in 1 .. Len(stored) : i \in 1 .. Len(stored') /\ stored'[i] = stored[i]
        BY <3>2, <3>3, <3>4
      <4>2. ToSet(stored) \subseteq ToSet(stored')
        BY <4>1 DEF ToSet
      <4> QED
        BY <4>2
    <3>5. CASE StatsSeePending /\ Len(bucket) = MaxEntries - 1
      BY <3>3, <3>5
    <3>6. CASE ~StatsSeePending /\ Len(stored) >= MaxEntries
      BY <3>1, <3>6 DEF KeyN
    <3> QED
      BY <1>1, <3>1, <3>4, <3>5, <3>6 DEF IInv, Drops
  <2>4. MetricNext => \/ UNCHANGED stored
                      \/ \E g \in Conns : Drain(g)
                      \/ \E p \in Pushers : Commit(p)
    <3>1. ASSUME (Advance \/ \E g \in Conns : Break(g)) /\ UNCHANGED metricVars PROVE UNCHANGED stored
      BY <3>1 DEF metricVars
    <3>2. ASSUME QuitMetrics \/ CrashMetrics \/ Exit PROVE UNCHANGED stored
      BY <3>2 DEF QuitMetrics, CrashMetrics, Exit, GoroutinesDie
    <3>3. ASSUME NEW g \in Conns, Tick(g) \/ LoopDone(g) \/ SendMetric(g) \/ Count(g) \/ SendBatch(g)
          PROVE  UNCHANGED stored
      BY <3>3 DEF Tick, LoopDone, SendMetric, Count, SendBatch
    <3>4. ASSUME NEW p \in Pushers, BeginPush(p) \/ DropFirst(p) \/ CommitFails(p) PROVE UNCHANGED stored
      BY <3>4 DEF BeginPush, DropFirst, CommitFails
    <3>5. \A g \in Conns : <<"loop", g>> \in Pushers /\ <<"drain", g>> \in Pushers
      BY DEF Pushers
    <3> QED
      BY <3>1, <3>2, <3>3, <3>4, <3>5 DEF MetricNext, MetricsLoop, DrainBuffer, Push
  <2>5. CASE UNCHANGED allVars
    BY <2>5
  <2> QED
    BY <1>1, <2>1, <2>2, <2>3, <2>4, <2>5
<1> QED
  BY <1>1, Invariance, PTL DEF MetricSpec, DropsOnlyAtCap
-----------------------------------------------------------------------------
(* Nothing is lost or doubled.  A snapshot that neither the cap, a crash   *)
(* nor a failing disk took is in exactly one place (Placed), and once in   *)
(* it (Single).  That needs to know that whoever takes something on has    *)
(* its hands free (Idle), that the open transaction sees nothing that is   *)
(* not stored (Inside), and that what was not produced yet is nowhere      *)
(* (Fresh).                                                                *)

Safe(m) == m \in 1 .. produced /\ m \notin lost \cup torn

Sent == <<"sent", 0>>
Stored == <<"stored", 0>>

\* The places a snapshot can be in.
Places == {Sent, Stored} \cup Pushers

\* Snapshot m is in the hands of a metrics loop or of a drainBuffer.
InHand(m, p) == IF p[1] = "loop" THEN holding[p[2]] = m ELSE m \in ToSet(batch[p[2]])

At(m, p) ==
    \/ p = Sent /\ sentTimes[m] # 0
    \/ p = Stored /\ m \in ToSet(stored)
    \/ p \in Pushers /\ InHand(m, p)

\* x occurs in s once at most.
Once(s, x) == \A i, j \in 1 .. Len(s) : s[i] = x /\ s[j] = x => i = j

Placed ==
    \A m \in Metrics :
        Safe(m) => sentTimes[m] <= 1 /\ \E p \in Places : \A q \in Places : At(m, q) <=> q = p

Single ==
    \A m \in Metrics :
        Safe(m) => /\ Once(stored, m)
                   /\ \A g \in Conns : Once(batch[g], m)
                   /\ writer # NoTx => Once(bucket, m)

Idle ==
    \A g \in Conns : /\ loop[g] \notin {"send", "push"} => holding[g] = 0
                     /\ drain[g] \notin {"send", "back"} => batch[g] = << >>

Inside == writer # NoTx => ToSet(bucket) \subseteq ToSet(stored)

Fresh == \A m \in Metrics : m > produced => \A p \in Places : ~At(m, p)

PlaceInv == Placed /\ Single /\ Idle /\ Inside /\ Fresh
-----------------------------------------------------------------------------
LEMMA PlacesDiffer ==
    /\ Sent # Stored /\ Sent \notin Pushers /\ Stored \notin Pushers
    /\ \A p \in Pushers : p \in Places /\ p[2] \in Conns
BY DEF Sent, Stored, Pushers, Places

\* Taking the first element away, and adding one at the end.
LEMMA TailOccurs ==
    ASSUME NEW S, NEW s \in Seq(S), s # << >>, NEW x
    PROVE  /\ x # Head(s) => (x \in ToSet(s) <=> x \in ToSet(Tail(s)))
           /\ Head(s) \in ToSet(s)
           /\ ToSet(Tail(s)) \subseteq ToSet(s)
           /\ Once(s, x) => Once(Tail(s), x)
           /\ Once(s, x) /\ x = Head(s) => x \notin ToSet(Tail(s))
<1>1. /\ Len(s) \in Nat \ {0} /\ Tail(s) \in Seq(S) /\ Len(Tail(s)) = Len(s) - 1
      /\ \A i \in 1 .. Len(Tail(s)) : Tail(s)[i] = s[i + 1]
      /\ Head(s) = s[1] /\ DOMAIN s = 1 .. Len(s) /\ DOMAIN Tail(s) = 1 .. Len(Tail(s))
  <2>1. /\ Tail(s) \in Seq(S) /\ Len(Tail(s)) = Len(s) - 1
        /\ \A i \in 1 .. Len(Tail(s)) : Tail(s)[i] = s[i + 1]
    BY HeadTailProperties
  <2>2. Len(s) \in Nat /\ Len(s) # 0 /\ DOMAIN s = 1 .. Len(s)
    BY EmptySeq, LenProperties
  <2> QED
    BY <2>1, <2>2, LenProperties
<1>2. \A i \in 1 .. Len(s) : i = 1 \/ (i - 1 \in 1 .. Len(Tail(s)) /\ Tail(s)[i - 1] = s[i])
  BY <1>1
<1>3. \A i \in 1 .. Len(Tail(s)) : i + 1 \in 1 .. Len(s) /\ i + 1 # 1
  BY <1>1
<1>4. ToSet(Tail(s)) \subseteq ToSet(s)
  BY <1>1, <1>3 DEF ToSet
<1>5. ASSUME x # Head(s), x \in ToSet(s) PROVE x \in ToSet(Tail(s))
  <2>1. PICK i \in 1 .. Len(s) : s[i] = x
    BY <1>1, <1>5 DEF ToSet
  <2>2. i - 1 \in 1 .. Len(Tail(s)) /\ Tail(s)[i - 1] = x
    BY <1>1, <1>2, <1>5, <2>1
  <2> QED
    BY <1>1, <2>2 DEF ToSet
<1>6. Once(s, x) => Once(Tail(s), x)
  <2> SUFFICES ASSUME Once(s, x), NEW i \in 1 .. Len(Tail(s)), NEW j \in 1 .. Len(Tail(s)),
                      Tail(s)[i] = x, Tail(s)[j] = x
               PROVE  i = j
    BY DEF Once
  <2>1. i + 1 = j + 1
    BY <1>1, <1>3 DEF Once
  <2> QED
    BY <2>1
<1>7. Once(s, x) /\ x = Head(s) => x \notin ToSet(Tail(s))
  <2> SUFFICES ASSUME Once(s, x), x = Head(s), NEW i \in 1 .. Len(Tail(s)), Tail(s)[i] = x
               PROVE  FALSE
    BY <1>1 DEF ToSet
  <2>1. 1 \in 1 .. Len(s) /\ s[1] = x /\ s[i + 1] = x
    BY <1>1
  <2> QED
    BY <1>3, <2>1 DEF Once
<1> QED
  BY <1>1, <1>4, <1>5, <1>6, <1>7 DEF ToSet

LEMMA AppendOccurs ==
    ASSUME NEW S, NEW s \in Seq(S), NEW e \in S, NEW x
    PROVE  /\ x \in ToSet(Append(s, e)) <=> x \in ToSet(s) \/ x = e
           /\ Once(s, x) /\ (x = e => x \notin ToSet(s)) => Once(Append(s, e), x)
<1>1. /\ Len(s) \in Nat /\ Len(Append(s, e)) = Len(s) + 1
      /\ \A i \in 1 .. Len(s) : Append(s, e)[i] = s[i]
      /\ Append(s, e)[Len(s) + 1] = e
      /\ DOMAIN s = 1 .. Len(s) /\ DOMAIN Append(s, e) = 1 .. Len(s) + 1
  BY AppendProperties, LenProperties
<1>2. \A i \in 1 .. Len(s) + 1 : i \in 1 .. Len(s) \/ i = Len(s) + 1
  BY <1>1
<1>3. Len(s) + 1 \in 1 .. Len(s) + 1 /\ \A i \in 1 .. Len(s) : i \in 1 .. Len(s) + 1
  BY <1>1
<1>4. x \in ToSet(Append(s, e)) <=> x \in ToSet(s) \/ x = e
  BY <1>1, <1>2, <1>3 DEF ToSet
<1>5. ASSUME Once(s, x), x = e => x \notin ToSet(s) PROVE Once(Append(s, e), x)
  <2> SUFFICES ASSUME NEW i \in 1 .. Len(s) + 1, NEW j \in 1 .. Len(s) + 1,
                      Append(s, e)[i] = x, Append(s, e)[j] = x
               PROVE  i = j
    BY <1>1 DEF Once
  <2>1. CASE x = e
    BY <1>1, <1>2, <1>5, <2>1 DEF ToSet
  <2>2. CASE x # e
    BY <1>1, <1>2, <1>5, <2>2 DEF Once
  <2> QED
    BY <2>1, <2>2
<1> QED
  BY <1>4, <1>5

\* A push that ends takes its entry, and nothing else, out of somebody's hands.
LEMMA HandOver ==
    ASSUME MetricTypeOK, Held, Idle, NEW p \in Pushers, writer = p, Pushed(p), NEW m \in Metrics
    PROVE  /\ Idle'
           /\ InHand(Entry(p), p)
           /\ \A q \in Pushers : m # Entry(p) \/ q # p => (InHand(m, q)' <=> InHand(m, q))
           /\ \A g \in Conns : Once(batch[g], m) => Once(batch'[g], m)
           /\ m = Entry(p) /\ Once(batch[p[2]], m) => ~InHand(m, p)'
<1> DEFINE g == p[2]
<1>0. g \in Conns /\ \A q \in Pushers : q[2] \in Conns /\ q[1] \in {"loop", "drain"} /\ q = <<q[1], q[2]>>
  BY Pushers2
<1>1. CASE p[1] = "loop"
  <2>1. /\ loop' = [loop EXCEPT ![g] = "tick"] /\ holding' = [holding EXCEPT ![g] = 0]
        /\ UNCHANGED <<drain, batch>>
    BY <1>1 DEF Pushed
  <2>2. Idle'
    BY <1>0, <2>1 DEF Idle, MetricTypeOK
  <2>3. InHand(Entry(p), p) /\ Entry(p) = holding[g]
    BY <1>1 DEF InHand, Entry
  <2>4. m # 0
    BY DEF Metrics
  <2>5. holding'[g] = 0 /\ \A c \in Conns : c # g => holding'[c] = holding[c]
    BY <1>0, <2>1 DEF MetricTypeOK
  <2>6. \A q \in Pushers : m # Entry(p) \/ q # p => (InHand(m, q)' <=> InHand(m, q))
    <3> SUFFICES ASSUME NEW q \in Pushers, m # Entry(p) \/ q # p
                 PROVE  InHand(m, q)' <=> InHand(m, q)
      OBVIOUS
    <3>1. CASE q[1] = "drain"
      BY <2>1, <3>1 DEF InHand
    <3>2. CASE q[1] = "loop" /\ q[2] = g
      <4>1. q = p
        BY <1>0, <1>1, <3>2
      <4> QED
        BY <2>3, <2>4, <2>5, <3>2, <4>1 DEF InHand
    <3>3. CASE q[1] = "loop" /\ q[2] # g
      BY <1>0, <2>5, <3>3 DEF InHand
    <3> QED
      BY <1>0, <3>1, <3>2, <3>3
  <2>7. ~InHand(m, p)'
    BY <1>1, <2>4, <2>5 DEF InHand
  <2> QED
    BY <2>1, <2>2, <2>3, <2>6, <2>7
<1>2. CASE p[1] = "drain"
  <2>1. /\ batch' = [batch EXCEPT ![g] = Tail(batch[g])]
        /\ drain' = [drain EXCEPT ![g] = IF Len(batch[g]) = 1 THEN "end" ELSE "back"]
        /\ UNCHANGED <<loop, holding>>
    BY <1>2 DEF Pushed
  <2>2. batch[g] \in Seq(Metrics) /\ batch[g] # << >>
    BY <1>0, <1>2, Pushers2 DEF Held, MetricTypeOK
  <2>3. /\ batch'[g] = Tail(batch[g]) /\ \A c \in Conns : c # g => batch'[c] = batch[c]
    BY <1>0, <2>1 DEF MetricTypeOK
  <2>4. Len(batch[g]) = 1 => Tail(batch[g]) = << >>
    <3>1. Tail(batch[g]) \in Seq(Metrics) /\ Len(Tail(batch[g])) = Len(batch[g]) - 1
      BY <2>2, HeadTailProperties
    <3>2. Len(batch[g]) = 1 => Len(Tail(batch[g])) = 0
      BY <3>1
    <3>3. Len(Tail(batch[g])) = 0 => Tail(batch[g]) = << >>
      BY <3>1, EmptySeq
    <3> QED
      BY <3>2, <3>3
  <2>5. Idle'
    BY <1>0, <2>1, <2>3, <2>4 DEF Idle, MetricTypeOK
  <2>6. Entry(p) = Head(batch[g]) /\ InHand(Entry(p), p)
    BY <1>2, <2>2, TailOccurs DEF InHand, Entry
  <2>7. \A q \in Pushers : m # Entry(p) \/ q # p => (InHand(m, q)' <=> InHand(m, q))
    <3> SUFFICES ASSUME NEW q \in Pushers, m # Entry(p) \/ q # p
                 PROVE  InHand(m, q)' <=> InHand(m, q)
      OBVIOUS
    <3>1. CASE q[1] = "loop"
      BY <2>1, <3>1 DEF InHand
    <3>2. CASE q[1] = "drain" /\ q[2] = g
      <4>1. q = p /\ m # Head(batch[g])
        BY <1>0, <1>2, <2>6, <3>2
      <4>2. m \in ToSet(batch[g]) <=> m \in ToSet(Tail(batch[g]))
        BY <2>2, <4>1, TailOccurs
      <4> QED
        BY <1>2, <2>3, <4>1, <4>2 DEF InHand
    <3>3. CASE q[1] = "drain" /\ q[2] # g
      BY <1>0, <2>3, <3>3 DEF InHand
    <3> QED
      BY <1>0, <3>1, <3>2, <3>3
  <2>8. \A c \in Conns : Once(batch[c], m) => Once(batch'[c], m)
    <3>1. Once(batch[g], m) => Once(batch'[g], m)
      BY <2>2, <2>3, TailOccurs
    <3> QED
      BY <2>3, <3>1
  <2>9. m = Entry(p) /\ Once(batch[g], m) => ~InHand(m, p)'
    <3>1. m = Entry(p) /\ Once(batch[g], m) => m \notin ToSet(Tail(batch[g]))
      BY <2>2, <2>6, TailOccurs
    <3> QED
      BY <1>2, <2>3, <3>1 DEF InHand
  <2> QED
    BY <2>5, <2>6, <2>7, <2>8, <2>9
<1> QED
  BY <1>0, <1>1, <1>2

LEMMA InitPlaced == MetricInit => PlaceInv
<1> SUFFICES ASSUME MetricInit PROVE PlaceInv
  OBVIOUS
<1>1. /\ produced = 0 /\ stored = << >> /\ bucket = << >> /\ writer = NoTx
      /\ \A g \in Conns : holding[g] = 0 /\ batch[g] = << >>
      /\ \A m \in Metrics : sentTimes[m] = 0
  BY DEF MetricInit
<1>2. \A m \in Metrics : ~Safe(m)
  BY <1>1 DEF Safe
<1>3. Placed /\ Single
  BY <1>2 DEF Placed, Single
<1>4. Idle /\ Inside
  BY <1>1 DEF Idle, Inside
<1>5. Fresh
  <2> SUFFICES ASSUME NEW m \in Metrics, NEW p \in Places PROVE ~At(m, p)
    BY DEF Fresh
  <2>1. m # 0 /\ ToSet(<< >>) = {}
    BY DEF Metrics, ToSet
  <2> QED
    BY <1>1, <2>1, PlacesDiffer DEF At, InHand
<1> QED
  BY <1>3, <1>4, <1>5 DEF PlaceInv

\* The only place of a safe snapshot stays the same, or changes.
LEMMA Kept ==
    ASSUME Placed, NEW m \in Metrics, Safe(m), sentTimes'[m] = sentTimes[m],
           \A q \in Places : At(m, q)' <=> At(m, q)
    PROVE  sentTimes'[m] <= 1 /\ \E p \in Places : \A q \in Places : At(m, q)' <=> q = p
BY DEF Placed

LEMMA Moved ==
    ASSUME Placed, NEW m \in Metrics, Safe(m), sentTimes'[m] <= 1,
           NEW from \in Places, NEW to \in Places, from # to,
           At(m, from), ~At(m, from)', At(m, to)',
           \A q \in Places \ {from, to} : At(m, q)' <=> At(m, q)
    PROVE  sentTimes'[m] <= 1 /\ \E p \in Places : \A q \in Places : At(m, q)' <=> q = p
<1>1. \A q \in Places : At(m, q) => q = from
  BY DEF Placed
<1>2. \A q \in Places : At(m, q)' <=> q = to
  BY <1>1
<1> QED
  BY <1>2

\* A step that moves no snapshot; some may be lost.
LEMMA Untouched ==
    ASSUME Placed, Fresh, UNCHANGED <<produced, sentTimes, stored, holding, batch>>,
           lost \subseteq lost', torn \subseteq torn'
    PROVE  Placed' /\ Fresh' /\ \A m \in Metrics : Safe(m)' => Safe(m)
<1>1. \A m \in Metrics : Safe(m)' => Safe(m)
  BY DEF Safe
<1>2. \A m, q : At(m, q)' <=> At(m, q)
  BY DEF At, InHand
<1>3. Placed'
  BY <1>1, <1>2 DEF Placed
<1>4. Fresh'
  BY <1>2 DEF Fresh
<1> QED
  BY <1>1, <1>3, <1>4

\* The end of a push, committed or not, for what is not its entry.
LEMMA OthersStay ==
    ASSUME MetricTypeOK, Held, PlaceInv, NEW p \in Pushers, writer = p, Pushed(p),
           UNCHANGED sentTimes, NEW m \in Metrics, m # Entry(p),
           m \in ToSet(stored') <=> m \in ToSet(stored)
    PROVE  \A q \in Places : At(m, q)' <=> At(m, q)
<1>1. \A q \in Pushers : InHand(m, q)' <=> InHand(m, q)
  BY HandOver DEF PlaceInv
<1> QED
  BY <1>1 DEF At

LEMMA PushPlaced ==
    ASSUME IInv, PlaceInv, NEW p \in Pushers, Push(p) \/ CommitFails(p)
    PROVE  PlaceInv'
<1> USE DEF IInv, PlaceInv
<1>0. /\ stored \in Seq(Metrics) /\ bucket \in Seq(Metrics) /\ p # NoTx /\ p[2] \in Conns
      /\ p \in Places
  BY Pushers2, PlacesDiffer DEF MetricTypeOK
<1>1. CASE BeginPush(p)
  <2>1. /\ UNCHANGED <<produced, sentTimes, stored, holding, batch, lost, torn, loop, drain>>
        /\ bucket' = stored
    BY <1>1 DEF BeginPush
  <2>2. Placed' /\ Fresh' /\ \A m \in Metrics : Safe(m)' => Safe(m)
    BY <2>1, Untouched
  <2>3. Single'
    BY <2>1, <2>2 DEF Single
  <2>4. Idle' /\ Inside'
    BY <2>1 DEF Idle, Inside
  <2> QED
    BY <2>2, <2>3, <2>4
<1>2. CASE DropFirst(p)
  <2>1. /\ UNCHANGED <<produced, sentTimes, stored, holding, batch, lost, torn, loop, drain, writer>>
        /\ writer = p /\ bucket' = IF bucket = << >> THEN bucket ELSE Tail(bucket)
    BY <1>2 DEF DropFirst
  <2>2. Placed' /\ Fresh' /\ \A m \in Metrics : Safe(m)' => Safe(m)
    BY <2>1, Untouched
  <2>3. \A m \in Metrics : Once(bucket, m) => Once(bucket', m)
    BY <1>0, <2>1, TailOccurs
  <2>4. Single'
    BY <1>0, <2>1, <2>2, <2>3 DEF Single
  <2>5. ToSet(bucket') \subseteq ToSet(bucket)
    BY <1>0, <2>1, TailOccurs
  <2>6. Idle' /\ Inside'
    BY <1>0, <2>1, <2>5 DEF Idle, Inside
  <2> QED
    BY <2>2, <2>4, <2>6
<1>3. CASE Commit(p)
  <2>1. /\ writer = p /\ stored' = Append(bucket, Entry(p)) /\ Pushed(p) /\ writer' = NoTx
        /\ lost' = lost \cup (ToSet(stored) \ ToSet(bucket))
        /\ UNCHANGED <<produced, sentTimes, torn>>
    BY <1>3 DEF Commit, Pushed
  <2>2. Entry(p) \in Metrics
    BY <2>1, EntryTyped
  <2>3. \A m \in Metrics : Safe(m)' => Safe(m) /\ (m \in ToSet(stored) <=> m \in ToSet(bucket))
    BY <1>0, <2>1 DEF Safe, Inside
  <2>4. \A m \in Metrics : m \in ToSet(stored') <=> m \in ToSet(bucket) \/ m = Entry(p)
    BY <1>0, <2>1, <2>2, AppendOccurs
  <2>5. At(Entry(p), p)
    BY <2>1, <2>2, HandOver DEF At
  <2>6. ASSUME NEW m \in Metrics, Safe(m)', m = Entry(p)
        PROVE  m \notin ToSet(stored) /\ ~At(m, Stored) /\ sentTimes[m] <= 1
    <3>1. ~At(m, Stored)
      BY <1>0, <2>3, <2>5, <2>6, PlacesDiffer DEF Placed, Places
    <3> QED
      BY <2>3, <2>6, <3>1 DEF At, Placed
  <2>7. Placed'
    <3> SUFFICES ASSUME NEW m \in Metrics, Safe(m)'
                 PROVE  sentTimes'[m] <= 1 /\ \E q \in Places : \A r \in Places : At(m, r)' <=> r = q
      BY DEF Placed
    <3>1. CASE m # Entry(p)
      <4>1. m \in ToSet(stored') <=> m \in ToSet(stored)
        BY <2>3, <2>4, <3>1
      <4>2. \A q \in Places : At(m, q)' <=> At(m, q)
        BY <2>1, <3>1, <4>1, OthersStay
      <4> QED
        BY <2>1, <2>3, <4>2, Kept
    <3>2. CASE m = Entry(p)
      <4>1. Once(batch[p[2]], m)
        BY <1>0, <2>3 DEF Single
      <4>2. ~InHand(m, p)' /\ \A q \in Pushers : q # p => (InHand(m, q)' <=> InHand(m, q))
        BY <2>1, <3>2, <4>1, HandOver
      <4>3. Stored \in Places /\ Stored # p /\ Sent # p
        BY PlacesDiffer DEF Places
      <4>4. ~At(m, p)'
        BY <4>2, <4>3 DEF At
      <4>5. At(m, Stored)'
        BY <2>4, <3>2 DEF At
      <4>6. \A q \in Places \ {p, Stored} : At(m, q)' <=> At(m, q)
        BY <2>1, <4>2 DEF At
      <4> QED
        BY <1>0, <2>1, <2>3, <2>5, <2>6, <3>2, <4>3, <4>4, <4>5, <4>6, Moved
    <3> QED
      BY <3>1, <3>2
  <2>8. Single'
    <3> SUFFICES ASSUME NEW m \in Metrics, Safe(m)'
                 PROVE  Once(stored', m) /\ \A g \in Conns : Once(batch'[g], m)
      BY <2>1 DEF Single
    <3>1. Once(bucket, m) /\ \A g \in Conns : Once(batch[g], m)
      BY <1>0, <2>1, <2>3 DEF Single
    <3>2. m = Entry(p) => m \notin ToSet(bucket)
      BY <2>3, <2>6
    <3>3. Once(stored', m)
      BY <1>0, <2>1, <2>2, <3>1, <3>2, AppendOccurs
    <3> QED
      BY <2>1, <3>1, <3>3, HandOver
  <2>9. Idle' /\ Inside'
    BY <2>1, <2>2, HandOver DEF Inside
  <2>10. Fresh'
    <3> SUFFICES ASSUME NEW m \in Metrics, m > produced, NEW q \in Places PROVE ~At(m, q)'
      BY <2>1 DEF Fresh
    <3>1. \A r \in Places : ~At(m, r)
      BY DEF Fresh
    <3>2. m # Entry(p)
      BY <1>0, <2>5, <3>1
    <3>3. m \notin ToSet(stored) /\ m \notin ToSet(bucket)
      BY <1>0, <2>1, <3>1, PlacesDiffer DEF At, Places, Inside
    <3>4. m \in ToSet(stored') <=> m \in ToSet(stored)
      BY <2>4, <3>2, <3>3
    <3>5. \A r \in Places : At(m, r)' <=> At(m, r)
      BY <2>1, <3>2, <3>4, OthersStay
    <3> QED
      BY <3>1, <3>5
  <2> QED
    BY <2>7, <2>8, <2>9, <2>10
<1>4. CASE CommitFails(p)
  <2>1. /\ writer = p /\ Pushed(p) /\ writer' = NoTx /\ lost' = lost \cup {Entry(p)}
        /\ UNCHANGED <<produced, stored, sentTimes, torn>>
    BY <1>4 DEF CommitFails, Pushed
  <2>2. Entry(p) \in Metrics
    BY <2>1, EntryTyped
  <2>3. \A m \in Metrics : Safe(m)' => Safe(m) /\ m # Entry(p)
    BY <2>1 DEF Safe
  <2>4. \A m \in Metrics : m # Entry(p) => \A q \in Places : At(m, q)' <=> At(m, q)
    BY <2>1, OthersStay
  <2>5. Placed'
    <3> SUFFICES ASSUME NEW m \in Metrics, Safe(m)'
                 PROVE  sentTimes'[m] <= 1 /\ \E q \in Places : \A r \in Places : At(m, r)' <=> r = q
      BY DEF Placed
    <3> QED
      BY <2>1, <2>3, <2>4, Kept
  <2>6. Single'
    <3> SUFFICES ASSUME NEW m \in Metrics, Safe(m)'
                 PROVE  Once(stored', m) /\ \A g \in Conns : Once(batch'[g], m)
      BY <2>1 DEF Single
    <3>1. Once(stored, m) /\ \A g \in Conns : Once(batch[g], m)
      BY <2>3 DEF Single
    <3> QED
      BY <2>1, <3>1, HandOver
  <2>7. Idle' /\ Inside'
    BY <2>1, <2>2, HandOver DEF Inside
  <2>8. At(Entry(p), p)
    BY <2>1, <2>2, HandOver DEF At
  <2>9. Fresh'
    <3> SUFFICES ASSUME NEW m \in Metrics, m > produced, NEW q \in Places PROVE ~At(m, q)'
      BY <2>1 DEF Fresh
    <3>1. \A r \in Places : ~At(m, r)
      BY DEF Fresh
    <3>2. m # Entry(p)
      BY <1>0, <2>8, <3>1
    <3> QED
      BY <2>4, <3>1, <3>2
  <2> QED
    BY <2>5, <2>6, <2>7, <2>9
<1> QED
  BY <1>1, <1>2, <1>3, <1>4 DEF Push

\* Whatever the connections and the process do.
LEMMA LinkPlaced ==
    ASSUME IInv, PlaceInv,
           \/ (Advance \/ \E g \in Conns : Break(g)) /\ UNCHANGED metricVars
           \/ QuitMetrics \/ CrashMetrics \/ Exit
    PROVE  PlaceInv'
<1> USE DEF IInv, PlaceInv
<1>1. CASE UNCHANGED <<produced, sentTimes, stored, holding, batch, lost, torn, loop, drain,
                       writer, bucket>>
  <2>1. Placed' /\ Fresh' /\ \A m \in Metrics : Safe(m)' => Safe(m)
    BY <1>1, Untouched
  <2>2. Single' /\ Idle' /\ Inside'
    BY <1>1, <2>1 DEF Single, Idle, Inside
  <2> QED
    BY <2>1, <2>2
<1>2. CASE GoroutinesDie
  <2>1. /\ \A g \in Conns : holding'[g] = 0 /\ batch'[g] = << >>
        /\ writer' = NoTx /\ bucket' = << >>
        /\ UNCHANGED <<produced, stored, sentTimes, torn>>
        /\ lost' = lost \cup {holding[g] : g \in {c \in Conns : holding[c] # 0}}
                        \cup UNION {ToSet(batch[g]) : g \in Conns}
    BY <1>2 DEF GoroutinesDie
  <2>2. \A m \in Metrics, q \in Pushers : ~InHand(m, q)'
    <3>1. ToSet(<< >>) = {} /\ 0 \notin Metrics
      BY DEF ToSet, Metrics
    <3> QED
      BY <2>1, <3>1, PlacesDiffer DEF InHand
  <2>3. \A m \in Metrics : Safe(m)' => Safe(m) /\ \A q \in Pushers : ~InHand(m, q)
    <3> SUFFICES ASSUME NEW m \in Metrics, Safe(m)', NEW q \in Pushers
                 PROVE  Safe(m) /\ ~InHand(m, q)
      BY <2>1 DEF Safe
    <3>1. m \notin lost' /\ Safe(m) /\ m # 0
      BY <2>1 DEF Safe, Metrics
    <3>2. q[2] \in Conns
      BY PlacesDiffer
    <3>3. holding[q[2]] # m
      BY <2>1, <3>1, <3>2
    <3>4. m \notin ToSet(batch[q[2]])
      BY <2>1, <3>1, <3>2
    <3> QED
      BY <3>1, <3>3, <3>4 DEF InHand
  <2>4. \A m \in Metrics : Safe(m)' => \A q \in Places : At(m, q)' <=> At(m, q)
    BY <2>1, <2>2, <2>3 DEF At
  <2>5. Placed'
    <3> SUFFICES ASSUME NEW m \in Metrics, Safe(m)'
                 PROVE  sentTimes'[m] <= 1 /\ \E q \in Places : \A r \in Places : At(m, r)' <=> r = q
      BY DEF Placed
    <3> QED
      BY <2>1, <2>3, <2>4, Kept
  <2>6. Single'
    <3> SUFFICES ASSUME NEW m \in Metrics, Safe(m)'
                 PROVE  Once(stored', m) /\ \A g \in Conns : Once(batch'[g], m)
      BY <2>1 DEF Single
    <3>1. Once(stored', m)
      BY <2>1, <2>3 DEF Single
    <3>2. Once(<< >>, m)
      BY EmptySeq DEF Once
    <3> QED
      BY <2>1, <3>1, <3>2
  <2>7. Idle' /\ Inside'
    BY <2>1 DEF Idle, Inside
  <2>8. Fresh'
    <3> SUFFICES ASSUME NEW m \in Metrics, m > produced, NEW q \in Places PROVE ~At(m, q)'
      BY <2>1 DEF Fresh
    <3>1. ~At(m, q)
      BY DEF Fresh
    <3> QED
      BY <2>1, <2>2, <3>1 DEF At
  <2> QED
    BY <2>5, <2>6, <2>7, <2>8
<1> QED
  BY <1>1, <1>2 DEF metricVars, QuitMetrics, CrashMetrics, Exit

LEMMA LoopPlaced ==
    ASSUME IInv, PlaceInv, NEW g \in Conns, Tick(g) \/ LoopDone(g) \/ SendMetric(g)
    PROVE  PlaceInv'
<1> USE DEF IInv, PlaceInv
<1> DEFINE here == <<"loop", g>>
<1>0. /\ here \in Pushers /\ here \in Places /\ here[1] = "loop" /\ here[2] = g
      /\ Sent \in Places /\ Sent # here /\ Stored # here /\ 0 \notin Metrics
      /\ \A q \in Pushers : q[1] = "loop" /\ q[2] = g => q = here
  BY Pushers2, PlacesDiffer DEF Pushers, Places, Metrics
<1> HIDE DEF here
<1>1. CASE Tick(g)
  <2>1. /\ loop[g] = "tick" /\ produced' = produced + 1 /\ produced < MaxMetrics
        /\ holding' = [holding EXCEPT ![g] = produced + 1] /\ loop' = [loop EXCEPT ![g] = "send"]
        /\ UNCHANGED <<sentTimes, stored, batch, lost, torn, drain, writer, bucket>>
    BY <1>1 DEF Tick
  <2>0. produced + 1 \in Metrics /\ produced \in Nat
    BY <2>1, MetricAssumption DEF Metrics, MetricTypeOK
  <2>new. PICK new \in Metrics : new = produced + 1
    BY <2>0
  <2>2. produced \in Nat /\ new > produced /\ holding[g] = 0 /\ produced' = new
        /\ holding' = [holding EXCEPT ![g] = new]
    BY <2>0, <2>new, <2>1 DEF Idle
  <2>3. holding'[g] = new /\ \A c \in Conns : c # g => holding'[c] = holding[c]
    BY <2>2 DEF MetricTypeOK
  <2>4. \A m \in Metrics : Safe(m)' => m = new \/ (m # new /\ Safe(m))
    BY <2>1, <2>2, <2>new DEF Safe, Metrics
  <2>5. \A m \in Metrics \ {new}, q \in Places : At(m, q)' <=> At(m, q)
    <3>1. \A m \in Metrics \ {new}, q \in Pushers : InHand(m, q)' <=> InHand(m, q)
      BY <1>0, <2>1, <2>2, <2>3, PlacesDiffer DEF InHand
    <3> QED
      BY <2>1, <3>1 DEF At
  <2>6. \A q \in Places : ~At(new, q)
    BY <2>2 DEF Fresh
  <2>7. \A q \in Places : At(new, q)' <=> q = here
    <3>1. \A q \in Pushers : ~InHand(new, q)
      BY <2>6, PlacesDiffer DEF At
    <3>2. \A q \in Pushers : InHand(new, q)' <=> q = here
      BY <1>0, <2>1, <2>2, <2>3, <3>1, PlacesDiffer DEF InHand
    <3>3. ~At(new, Sent)' /\ ~At(new, Stored)'
      BY <2>1, <2>6, PlacesDiffer DEF At, Places
    <3> QED
      BY <1>0, <3>2, <3>3, PlacesDiffer DEF At, Places
  <2>8. Placed'
    <3> SUFFICES ASSUME NEW m \in Metrics, Safe(m)'
                 PROVE  sentTimes'[m] <= 1 /\ \E q \in Places : \A r \in Places : At(m, r)' <=> r = q
      BY DEF Placed
    <3>1. CASE m = new
      <4>1. sentTimes[new] = 0
        BY <1>0, <2>6 DEF At
      <4> QED
        BY <1>0, <2>1, <2>7, <3>1, <4>1
    <3>2. CASE m # new
      BY <2>1, <2>4, <2>5, <3>2, Kept
    <3> QED
      BY <3>1, <3>2
  <2>9. Single'
    <3> SUFFICES ASSUME NEW m \in Metrics, Safe(m)'
                 PROVE  /\ Once(stored, m) /\ \A c \in Conns : Once(batch[c], m)
                        /\ writer # NoTx => Once(bucket, m)
      BY <2>1 DEF Single
    <3>1. CASE m = new
      <4>1. m \notin ToSet(stored) /\ \A c \in Conns : m \notin ToSet(batch[c])
        <5>1. \A c \in Conns : <<"drain", c>> \in Pushers
          BY DEF Pushers
        <5>2. m \notin ToSet(stored) /\ \A c \in Conns : ~InHand(m, <<"drain", c>>)
          BY <2>6, <3>1, <5>1, PlacesDiffer DEF At, Places
        <5> QED
          BY <5>2 DEF InHand
      <4>2. writer # NoTx => m \notin ToSet(bucket)
        BY <4>1 DEF Inside
      <4>3. \A s \in Seq(Metrics) : m \notin ToSet(s) => Once(s, m)
        BY LenProperties DEF Once, ToSet
      <4> QED
        BY <4>1, <4>2, <4>3 DEF MetricTypeOK
    <3>2. CASE m # new
      BY <2>4, <3>2 DEF Single
    <3> QED
      BY <3>1, <3>2
  <2>10. Idle' /\ Inside'
    BY <2>1, <2>3 DEF Idle, Inside, MetricTypeOK
  <2>11. Fresh'
    <3> SUFFICES ASSUME NEW m \in Metrics, m > new, NEW q \in Places PROVE ~At(m, q)'
      BY <2>2 DEF Fresh
    <3>1. m # new /\ m > produced
      BY <2>2 DEF Metrics
    <3> QED
      BY <2>5, <3>1 DEF Fresh
  <2> QED
    BY <2>8, <2>9, <2>10, <2>11
<1>2. CASE LoopDone(g)
  <2>1. /\ loop[g] = "tick" /\ loop' = [loop EXCEPT ![g] = "end"]
        /\ UNCHANGED <<produced, sentTimes, stored, holding, batch, lost, torn, drain, writer, bucket>>
    BY <1>2 DEF LoopDone
  <2>2. Placed' /\ Fresh' /\ \A m \in Metrics : Safe(m)' => Safe(m)
    BY <2>1, Untouched
  <2>3. Single' /\ Inside'
    BY <2>1, <2>2 DEF Single, Inside
  <2>4. Idle'
    BY <2>1 DEF Idle, MetricTypeOK
  <2> QED
    BY <2>2, <2>3, <2>4
<1>3. CASE SendMetric(g) /\ UNCHANGED <<sentTimes, holding>>
  <2>1. /\ loop[g] = "send" /\ \E v \in {"push", "tick"} : loop' = [loop EXCEPT ![g] = v]
        /\ UNCHANGED <<produced, stored, batch, lost, torn, drain, writer, bucket>>
    BY <1>3 DEF SendMetric
  <2>2. Placed' /\ Fresh' /\ \A m \in Metrics : Safe(m)' => Safe(m)
    BY <1>3, <2>1, Untouched
  <2>3. Single' /\ Inside'
    BY <2>1, <2>2 DEF Single, Inside
  <2>4. Idle'
    <3>1. loop' = [loop EXCEPT ![g] = "push"]
      BY <1>3 DEF SendMetric, Held, MetricTypeOK
    <3> QED
      BY <1>3, <2>1, <3>1 DEF Idle, MetricTypeOK
  <2> QED
    BY <2>2, <2>3, <2>4
<1>4. CASE SendMetric(g) /\ sentTimes' = [sentTimes EXCEPT ![holding[g]] = @ + 1]
           /\ holding' = [holding EXCEPT ![g] = 0] /\ loop' = [loop EXCEPT ![g] = "tick"]
  <2>1. /\ loop[g] = "send" /\ holding[g] \in Metrics
        /\ UNCHANGED <<produced, stored, batch, lost, torn, drain, writer, bucket>>
    BY <1>4 DEF SendMetric, Held, MetricTypeOK, Metrics
  <2>it. PICK it \in Metrics : it = holding[g]
    BY <2>1
  <2>2. holding'[g] = 0 /\ \A c \in Conns : c # g => holding'[c] = holding[c]
    BY <1>4 DEF MetricTypeOK
  <2>3. /\ sentTimes'[it] = sentTimes[it] + 1 /\ sentTimes[it] \in Nat
        /\ \A m \in Metrics \ {it} : sentTimes'[m] = sentTimes[m]
    BY <1>4, <2>it DEF MetricTypeOK
  <2>4. \A m \in Metrics : Safe(m)' <=> Safe(m)
    BY <2>1 DEF Safe
  <2>5. \A m \in Metrics, q \in Pushers : m # it \/ q # here => (InHand(m, q)' <=> InHand(m, q))
    BY <1>0, <2>1, <2>it, <2>2, PlacesDiffer DEF InHand
  <2>6. At(it, here) /\ ~At(it, here)'
    BY <1>0, <2>it, <2>2 DEF At, InHand
  <2>7. \A m \in Metrics \ {it}, q \in Places : At(m, q)' <=> At(m, q)
    BY <2>1, <2>3, <2>5 DEF At
  <2>8. Placed'
    <3> SUFFICES ASSUME NEW m \in Metrics, Safe(m)'
                 PROVE  sentTimes'[m] <= 1 /\ \E q \in Places : \A r \in Places : At(m, r)' <=> r = q
      BY DEF Placed
    <3>1. CASE m = it
      <4>1. sentTimes[it] = 0
        BY <1>0, <2>1, <2>4, <2>6, <3>1 DEF Placed, At
      <4>2. sentTimes'[it] = 1
        BY <2>3, <4>1
      <4>3. At(it, Sent)'
        BY <4>2 DEF At
      <4>4. \A q \in Places \ {here, Sent} : At(it, q)' <=> At(it, q)
        BY <2>1, <2>5 DEF At
      <4> QED
        BY <1>0, <2>1, <2>4, <2>6, <3>1, <4>2, <4>3, <4>4, Moved
    <3>2. CASE m # it
      BY <2>3, <2>4, <2>7, <3>2, Kept
    <3> QED
      BY <3>1, <3>2
  <2>9. Single' /\ Inside'
    BY <2>1, <2>4 DEF Single, Inside
  <2>10. Idle'
    BY <1>4, <2>1, <2>2 DEF Idle, MetricTypeOK
  <2>11. Fresh'
    <3> SUFFICES ASSUME NEW m \in Metrics, m > produced, NEW q \in Places PROVE ~At(m, q)'
      BY <2>1 DEF Fresh
    <3>1. \A r \in Places : ~At(m, r)
      BY DEF Fresh
    <3>2. m # it
      BY <1>0, <2>6, <3>1
    <3> QED
      BY <2>7, <3>1, <3>2
  <2> QED
    BY <2>8, <2>9, <2>10, <2>11
<1> QED
  BY <1>1, <1>2, <1>3, <1>4 DEF SendMetric

LEMMA DrainPlaced ==
    ASSUME IInv, PlaceInv, NEW g \in Conns, Count(g) \/ Drain(g) \/ SendBatch(g)
    PROVE  PlaceInv'
<1> USE DEF IInv, PlaceInv
<1> DEFINE here == <<"drain", g>>
<1>0. /\ here \in Pushers /\ here \in Places /\ here[1] = "drain" /\ here[2] = g
      /\ Sent \in Places /\ Stored \in Places /\ Sent # here /\ Stored # here
      /\ \A q \in Pushers : q[1] # "loop" /\ q[2] = g => q = here
      /\ ToSet(<< >>) = {} /\ \A m \in Metrics : Once(<< >>, m)
  <2>1. \A m \in Metrics : Once(<< >>, m)
    BY EmptySeq DEF Once
  <2> QED
    BY <2>1, Pushers2, PlacesDiffer DEF Pushers, Places, ToSet
<1> HIDE DEF here
<1>1. CASE Count(g)
  <2>1. /\ drain[g] = "count" /\ \E d \in {"end", "drain"} : drain' = [drain EXCEPT ![g] = d]
        /\ UNCHANGED <<produced, sentTimes, stored, holding, batch, lost, torn, loop, writer, bucket>>
    BY <1>1 DEF Count
  <2>2. Placed' /\ Fresh' /\ \A m \in Metrics : Safe(m)' => Safe(m)
    BY <2>1, Untouched
  <2>3. Single' /\ Inside'
    BY <2>1, <2>2 DEF Single, Inside
  <2>4. Idle'
    BY <2>1 DEF Idle, MetricTypeOK
  <2> QED
    BY <2>2, <2>3, <2>4
<1>2. CASE Drain(g)
  <2>1. /\ drain[g] = "drain" /\ writer = NoTx /\ batch' = [batch EXCEPT ![g] = stored]
        /\ drain' = [drain EXCEPT ![g] = IF stored = << >> THEN "end" ELSE "send"]
        /\ \/ stored' = << >> /\ torn' = torn
           \/ stored' = stored /\ torn' = torn \cup ToSet(stored)
        /\ UNCHANGED <<produced, sentTimes, holding, lost, loop, writer, bucket>>
    BY <1>2 DEF Drain, Emptied
  <2>2. /\ batch[g] = << >> /\ batch'[g] = stored
        /\ \A c \in Conns : c # g => batch'[c] = batch[c]
    BY <2>1 DEF Idle, MetricTypeOK
  <2>3. \A m \in Metrics : Safe(m)' => Safe(m) /\ (m \in ToSet(stored) => stored' = << >>)
    BY <2>1 DEF Safe
  <2>4. \A m \in Metrics, q \in Pushers : q # here => (InHand(m, q)' <=> InHand(m, q))
    BY <1>0, <2>1, <2>2, PlacesDiffer DEF InHand
  <2>5. \A m \in Metrics : (InHand(m, here)' <=> m \in ToSet(stored)) /\ ~InHand(m, here)
    BY <1>0, <2>2 DEF InHand
  <2>6. Placed'
    <3> SUFFICES ASSUME NEW m \in Metrics, Safe(m)'
                 PROVE  sentTimes'[m] <= 1 /\ \E q \in Places : \A r \in Places : At(m, r)' <=> r = q
      BY DEF Placed
    <3>1. CASE m \in ToSet(stored)
      <4>1. At(m, Stored) /\ ~At(m, Stored)' /\ At(m, here)'
        BY <1>0, <2>3, <2>5, <3>1, PlacesDiffer DEF At
      <4>2. \A q \in Places \ {Stored, here} : At(m, q)' <=> At(m, q)
        BY <2>1, <2>4 DEF At
      <4>3. sentTimes'[m] <= 1
        BY <2>1, <2>3 DEF Placed
      <4> QED
        BY <1>0, <2>3, <4>1, <4>2, <4>3, Moved
    <3>2. CASE m \notin ToSet(stored)
      <4>1. m \notin ToSet(stored')
        BY <1>0, <2>1, <3>2
      <4>2. \A q \in Places : At(m, q)' <=> At(m, q)
        BY <2>1, <2>4, <2>5, <3>2, <4>1 DEF At
      <4> QED
        BY <2>1, <2>3, <4>2, Kept
    <3> QED
      BY <3>1, <3>2
  <2>7. Single'
    <3> SUFFICES ASSUME NEW m \in Metrics, Safe(m)'
                 PROVE  Once(stored', m) /\ \A c \in Conns : Once(batch'[c], m)
      BY <2>1 DEF Single
    <3>1. Once(stored, m) /\ \A c \in Conns : Once(batch[c], m)
      BY <2>3 DEF Single
    <3> QED
      BY <1>0, <2>1, <2>2, <3>1
  <2>8. Inside'
    BY <2>1 DEF Inside
  <2>9. Idle'
    BY <2>1, <2>2 DEF Idle, MetricTypeOK
  <2>10. Fresh'
    <3> SUFFICES ASSUME NEW m \in Metrics, m > produced, NEW q \in Places PROVE ~At(m, q)'
      BY <2>1 DEF Fresh
    <3>1. ~At(m, q) /\ m \notin ToSet(stored)
      BY <1>0 DEF Fresh, At
    <3>2. m \notin ToSet(stored')
      BY <1>0, <2>1, <3>1
    <3> QED
      BY <2>1, <2>4, <2>5, <3>1, <3>2 DEF At
  <2> QED
    BY <2>6, <2>7, <2>8, <2>9, <2>10
<1>3. CASE SendBatch(g) /\ drain' = [drain EXCEPT ![g] = "back"] /\ UNCHANGED <<batch, sentTimes>>
  <2>1. /\ drain[g] = "send"
        /\ UNCHANGED <<produced, stored, holding, lost, torn, loop, writer, bucket>>
    BY <1>3 DEF SendBatch
  <2>2. Placed' /\ Fresh' /\ \A m \in Metrics : Safe(m)' => Safe(m)
    BY <1>3, <2>1, Untouched
  <2>3. Single' /\ Inside'
    BY <1>3, <2>1, <2>2 DEF Single, Inside
  <2>4. Idle'
    BY <1>3, <2>1 DEF Idle, MetricTypeOK
  <2> QED
    BY <2>2, <2>3, <2>4
<1>4. CASE /\ SendBatch(g) /\ batch' = [batch EXCEPT ![g] = << >>]
           /\ drain' = [drain EXCEPT ![g] = "end"]
           /\ sentTimes' = [m \in Metrics |->
                              sentTimes[m] + (IF m \in ToSet(batch[g]) THEN 1 ELSE 0)]
  <2>1. /\ drain[g] = "send"
        /\ UNCHANGED <<produced, stored, holding, lost, torn, loop, writer, bucket>>
    BY <1>4 DEF SendBatch
  <2>2. batch'[g] = << >> /\ \A c \in Conns : c # g => batch'[c] = batch[c]
    BY <1>4 DEF MetricTypeOK
  <2>3. \A m \in Metrics : /\ sentTimes[m] \in Nat
                           /\ m \in ToSet(batch[g]) => sentTimes'[m] = sentTimes[m] + 1
                           /\ m \notin ToSet(batch[g]) => sentTimes'[m] = sentTimes[m]
    BY <1>4 DEF MetricTypeOK
  <2>4. \A m \in Metrics : Safe(m)' <=> Safe(m)
    BY <2>1 DEF Safe
  <2>5. \A m \in Metrics, q \in Pushers : q # here => (InHand(m, q)' <=> InHand(m, q))
    BY <1>0, <2>1, <2>2, PlacesDiffer DEF InHand
  <2>6. \A m \in Metrics : (InHand(m, here) <=> m \in ToSet(batch[g])) /\ ~InHand(m, here)'
    BY <1>0, <2>2 DEF InHand
  <2>7. \A m \in Metrics : m \notin ToSet(batch[g]) => \A q \in Places : At(m, q)' <=> At(m, q)
    BY <2>1, <2>3, <2>5, <2>6 DEF At
  <2>8. Placed'
    <3> SUFFICES ASSUME NEW m \in Metrics, Safe(m)'
                 PROVE  sentTimes'[m] <= 1 /\ \E q \in Places : \A r \in Places : At(m, r)' <=> r = q
      BY DEF Placed
    <3>1. CASE m \in ToSet(batch[g])
      <4>1. At(m, here) /\ ~At(m, here)'
        BY <1>0, <2>6, <3>1 DEF At
      <4>2. sentTimes[m] = 0
        BY <1>0, <2>4, <4>1 DEF Placed, At
      <4>3. sentTimes'[m] = 1
        BY <2>3, <3>1, <4>2
      <4>4. At(m, Sent)'
        BY <4>3 DEF At
      <4>5. \A q \in Places \ {here, Sent} : At(m, q)' <=> At(m, q)
        BY <2>1, <2>5 DEF At
      <4> QED
        BY <1>0, <2>4, <4>1, <4>3, <4>4, <4>5, Moved
    <3>2. CASE m \notin ToSet(batch[g])
      BY <2>3, <2>4, <2>7, <3>2, Kept
    <3> QED
      BY <3>1, <3>2
  <2>9. Single' /\ Inside'
    BY <1>0, <2>1, <2>2, <2>4 DEF Single, Inside
  <2>10. Idle'
    BY <1>4, <2>1, <2>2 DEF Idle, MetricTypeOK
  <2>11. Fresh'
    <3> SUFFICES ASSUME NEW m \in Metrics, m > produced, NEW q \in Places PROVE ~At(m, q)'
      BY <2>1 DEF Fresh
    <3>1. \A r \in Places : ~At(m, r)
      BY DEF Fresh
    <3>2. m \notin ToSet(batch[g])
      BY <1>0, <2>6, <3>1 DEF At
    <3> QED
      BY <2>7, <3>1, <3>2
  <2> QED
    BY <2>8, <2>9, <2>10, <2>11
<1>5. ASSUME SendBatch(g) PROVE PlaceInv'
  <2>1. CASE drain' = [drain EXCEPT ![g] = "back"] /\ batch' = [batch EXCEPT ![g] = batch[g]]
             /\ UNCHANGED sentTimes
    <3>1. UNCHANGED batch
      BY <2>1 DEF MetricTypeOK
    <3> QED
      BY <1>3, <1>5, <2>1, <3>1
  <2> QED
    BY <1>4, <1>5, <2>1 DEF SendBatch, AfterFailure
<1> QED
  BY <1>1, <1>2, <1>5

LEMMA NextPlaced == IInv /\ PlaceInv /\ [MetricNext]_allVars => PlaceInv'
<1> SUFFICES ASSUME IInv, PlaceInv, [MetricNext]_allVars PROVE PlaceInv'
  OBVIOUS
<1>1. CASE UNCHANGED allVars
  <2>1. UNCHANGED metricVars
    BY <1>1 DEF allVars
  <2>2. Placed' /\ Fresh' /\ \A m \in Metrics : Safe(m)' => Safe(m)
    BY <2>1, Untouched DEF metricVars, PlaceInv
  <2> QED
    BY <2>1, <2>2 DEF metricVars, PlaceInv, Single, Idle, Inside
<1>2. CASE \/ (Advance \/ \E g \in Conns : Break(g)) /\ UNCHANGED metricVars
           \/ QuitMetrics \/ CrashMetrics \/ Exit
  BY <1>2, LinkPlaced
<1>3. ASSUME NEW g \in Conns, MetricsLoop(g) PROVE PlaceInv'
  <2>1. <<"loop", g>> \in Pushers
    BY DEF Pushers
  <2> QED
    BY <1>3, <2>1, LoopPlaced, PushPlaced DEF MetricsLoop
<1>4. ASSUME NEW g \in Conns, DrainBuffer(g) PROVE PlaceInv'
  <2>1. <<"drain", g>> \in Pushers
    BY DEF Pushers
  <2> QED
    BY <1>4, <2>1, DrainPlaced, PushPlaced DEF DrainBuffer
<1>5. ASSUME NEW p \in Pushers, CommitFails(p) PROVE PlaceInv'
  BY <1>5, PushPlaced
<1> QED
  BY <1>1, <1>2, <1>3, <1>4, <1>5 DEF MetricNext

\* Each snapshot that the cap, a crash or the disk did not take has one place.
THEOREM PlaceInvariance == MetricSpec => [](IInv /\ PlaceInv)
<1>1. MetricInit => IInv /\ PlaceInv
  BY InitIInv, InitPlaced
<1>2. IInv /\ PlaceInv /\ [MetricNext]_allVars => (IInv /\ PlaceInv)'
  BY NextInv, NextPlaced
<1> QED
  BY <1>1, <1>2, PTL DEF MetricSpec

\* The copies of a snapshot that has one place.
LEMMA OneCopy ==
    ASSUME MetricTypeOK, NEW m \in Metrics, sentTimes[m] <= 1,
           NEW p \in Places, \A q \in Places : At(m, q) <=> q = p
    PROVE  Copies(m) = 1
<1> DEFINE L == {g \in Conns : holding[g] = m}
           D == {g \in Conns : m \in ToSet(batch[g])}
<1>1. \A g \in Conns : /\ <<"loop", g>> \in Pushers /\ <<"drain", g>> \in Pushers
                       /\ InHand(m, <<"loop", g>>) <=> holding[g] = m
                       /\ InHand(m, <<"drain", g>>) <=> m \in ToSet(batch[g])
  BY DEF Pushers, InHand
<1>2. /\ \A g \in L : p = <<"loop", g>>
      /\ \A g \in D : p = <<"drain", g>>
  BY <1>1, PlacesDiffer DEF At
<1>3. (sentTimes[m] # 0 <=> p = Sent) /\ (m \in ToSet(stored) <=> p = Stored)
  BY PlacesDiffer DEF At, Places
<1>4. sentTimes[m] = IF p = Sent THEN 1 ELSE 0
  BY <1>3 DEF MetricTypeOK
<1>5. Cardinality({}) = 0 /\ \A g : Cardinality({g}) = 1
  BY FS_EmptySet, FS_Singleton
<1>6. p = Sent \/ p = Stored \/ \E g \in Conns : p = <<"loop", g>> \/ p = <<"drain", g>>
  BY Pushers2 DEF Places
<1>7. CASE p = Sent \/ p = Stored
  <2>1. L = {} /\ D = {}
    <3>1. \A g \in Conns : p # <<"loop", g>> /\ p # <<"drain", g>>
      BY <1>1, <1>7, PlacesDiffer
    <3> QED
      BY <1>2, <3>1
  <2>2. Cardinality(L) = 0 /\ Cardinality(D) = 0
    BY <1>5, <2>1
  <2> QED
    BY <1>3, <1>4, <1>7, <2>2, PlacesDiffer DEF Copies
<1>8. ASSUME NEW g \in Conns, p = <<"loop", g>> PROVE Copies(m) = 1
  <2>1. p # Sent /\ p # Stored
    BY <1>8, <1>1, PlacesDiffer
  <2>2. L = {g} /\ D = {}
    BY <1>1, <1>2, <1>8, PlacesDiffer DEF At
  <2>3. Cardinality(L) = 1 /\ Cardinality(D) = 0
    BY <1>5, <2>2
  <2> QED
    BY <1>3, <1>4, <2>1, <2>3 DEF Copies
<1>9. ASSUME NEW g \in Conns, p = <<"drain", g>> PROVE Copies(m) = 1
  <2>1. p # Sent /\ p # Stored
    BY <1>9, <1>1, PlacesDiffer
  <2>2. L = {} /\ D = {g}
    BY <1>1, <1>2, <1>9, PlacesDiffer DEF At
  <2>3. Cardinality(L) = 0 /\ Cardinality(D) = 1
    BY <1>5, <2>2
  <2> QED
    BY <1>3, <1>4, <2>1, <2>3 DEF Copies
<1> QED
  BY <1>6, <1>7, <1>8, <1>9

\* metricsLoop, Push, Drain and drainBuffer, on any number of connections, in any order:
\* a snapshot is sent, stored or in somebody's hands, and in one place only, unless the
\* cap, a crash or a failing disk took it.
THEOREM NothingLostOrDoubled == MetricSpec => []Conserved
<1>1. IInv /\ PlaceInv => Conserved
  <2> SUFFICES ASSUME IInv, PlaceInv, NEW m \in 1 .. produced, m \notin lost \cup torn
               PROVE  Copies(m) = 1
    BY DEF Conserved
  <2>1. m \in Metrics /\ Safe(m)
    BY MetricAssumption DEF IInv, MetricTypeOK, Metrics, Safe
  <2>2. sentTimes[m] <= 1 /\ \E p \in Places : \A q \in Places : At(m, q) <=> q = p
    BY <2>1 DEF PlaceInv, Placed
  <2> QED
    BY <2>1, <2>2, OneCopy DEF IInv
<1> QED
  BY <1>1, PlaceInvariance, PTL
=============================================================================
