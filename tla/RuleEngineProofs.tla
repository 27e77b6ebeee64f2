-------------------------- MODULE RuleEngineProofs --------------------------
(***************************************************************************)
(* Proofs about RuleEngine, for any number of concurrent evaluations, any  *)
(* calendar, cooldown, duration and daily maximum.                         *)
(*                                                                         *)
(* The daily maximum rests on the order of the checks: the cooldown comes  *)
(* first and refuses whatever is older than the last fire, so the day of   *)
(* the counter never goes back (Counted).                                  *)
(***************************************************************************)
EXTENDS RuleEngine, FiniteSetTheorems, TLAPS

\* The last fire is the latest.
Ordered == \A i \in DOMAIN fires : fires[i] <= state.lastFired

\* The counter has counted, at least, the fires of the day of the last one.
Counted ==
    MaxPerDay > 0 /\ state.lastFired # 0 =>
        /\ state.lastFiredDay = YearDay[state.lastFired]
        /\ Cardinality(FiresOn(fires, CalendarDay[state.lastFired])) <= state.firedToday

IInv == RuleTypeOK /\ Ordered /\ CooldownKept /\ Counted /\ DailyCap

-----------------------------------------------------------------------------
(* The fires of a day.                                                     *)

LEMMA FiresFinite ==
    ASSUME NEW fs \in Seq(Times), NEW d
    PROVE  IsFiniteSet(FiresOn(fs, d)) /\ Cardinality(FiresOn(fs, d)) \in Nat
<1>1. Len(fs) \in Nat /\ DOMAIN fs = 1 .. Len(fs)
  OBVIOUS
<1>2. IsFiniteSet(DOMAIN fs)
  BY <1>1, FS_Interval
<1>3. FiresOn(fs, d) \in SUBSET DOMAIN fs
  BY DEF FiresOn
<1>4. IsFiniteSet(FiresOn(fs, d))
  BY <1>2, <1>3, FS_Subset
<1> QED
  BY <1>4, FS_CardinalityType

\* A fire adds one to its day and none to the others.
LEMMA FiresAppend ==
    ASSUME NEW fs \in Seq(Times), NEW t \in Times, NEW d
    PROVE  /\ CalendarDay[t] # d => FiresOn(Append(fs, t), d) = FiresOn(fs, d)
           /\ CalendarDay[t] = d =>
                 Cardinality(FiresOn(Append(fs, t), d)) = Cardinality(FiresOn(fs, d)) + 1
<1> DEFINE n == Len(fs)
           gs == Append(fs, t)
<1>1. n \in Nat /\ DOMAIN fs = 1 .. n
  OBVIOUS
<1>2. DOMAIN gs = 1 .. n + 1 /\ gs[n + 1] = t /\ \A i \in 1 .. n : gs[i] = fs[i]
  BY <1>1
<1> HIDE DEF n, gs
<1>3. CalendarDay[t] # d => FiresOn(gs, d) = FiresOn(fs, d)
  BY <1>1, <1>2 DEF FiresOn
<1>4. CalendarDay[t] = d => FiresOn(gs, d) = FiresOn(fs, d) \cup {n + 1}
  BY <1>1, <1>2 DEF FiresOn
<1>5. n + 1 \notin FiresOn(fs, d)
  BY <1>1 DEF FiresOn
<1>6. Cardinality(FiresOn(fs, d) \cup {n + 1}) = Cardinality(FiresOn(fs, d)) + 1
  BY <1>5, FiresFinite, FS_AddElement
<1> QED
  BY <1>3, <1>4, <1>6 DEF gs

LEMMA NoFires == ASSUME NEW fs, NEW d, \A i \in DOMAIN fs : CalendarDay[fs[i]] # d
                 PROVE  Cardinality(FiresOn(fs, d)) = 0
<1>1. FiresOn(fs, d) = {}
  BY DEF FiresOn
<1> QED
  BY <1>1, FS_EmptySet

-----------------------------------------------------------------------------
LEMMA InitIInv == RuleInit => IInv
<1> SUFFICES ASSUME RuleInit PROVE IInv
  OBVIOUS
<1> USE RuleAssumption DEF RuleInit
<1>1. fires = << >> /\ DOMAIN fires = {} /\ fires \in Seq(Times)
  OBVIOUS
<1>2. RuleTypeOK
  <2>1. evals \in [Evaluators -> [pc : {"none", "copied", "timed"}, now : 0 .. MaxTime,
                                  on : BOOLEAN, value : Values]]
    BY DEF Waiting, Values
  <2>2. \A e \in Evaluators : evals[e].pc = "none"
    BY DEF Waiting
  <2>3. clock \in Times /\ active \in BOOLEAN /\ state \in RuleStates
    BY DEF Times, RuleStates
  <2> QED
    BY <1>1, <2>1, <2>2, <2>3 DEF RuleTypeOK
<1>3. Ordered /\ CooldownKept /\ DailyCap
  BY <1>1 DEF Ordered, CooldownKept, DailyCap
<1>4. Counted
  BY DEF Counted
<1> QED
  BY <1>2, <1>3, <1>4 DEF IInv

\* Types are kept by the steps of an evaluation.
LEMMA TypeStep == RuleTypeOK /\ [RuleNext]_ruleVars => RuleTypeOK'
<1> SUFFICES ASSUME RuleTypeOK, [RuleNext]_ruleVars PROVE RuleTypeOK'
  OBVIOUS
<1> USE RuleAssumption DEF RuleTypeOK
<1>1. CASE Tick
  BY <1>1 DEF Tick, Times
<1>2. CASE Sync
  BY <1>2 DEF Sync
<1>3. ASSUME NEW e \in Evaluators, NEW v \in Values, CopyRules(e, v) PROVE RuleTypeOK'
  BY <1>3, SMTT(30) DEF CopyRules
<1>4. ASSUME NEW e \in Evaluators, ReadClock(e) PROVE RuleTypeOK'
  <2> DEFINE rec == [pc |-> "timed", now |-> clock, on |-> evals[e].on,
                     value |-> evals[e].value]
  <2>1. /\ evals' = [evals EXCEPT ![e] = rec]
        /\ UNCHANGED <<clock, active, state, fires>>
    BY <1>4 DEF ReadClock
  <2>2. /\ rec \in [pc : {"none", "copied", "timed"}, now : 0 .. MaxTime,
                    on : BOOLEAN, value : Values]
        /\ rec.now \in Times
    BY DEF Times
  <2> HIDE DEF rec
  <2>3. evals' \in [Evaluators -> [pc : {"none", "copied", "timed"}, now : 0 .. MaxTime,
                                   on : BOOLEAN, value : Values]]
    BY <2>1, <2>2
  <2>4. ASSUME NEW f \in Evaluators, evals'[f].pc = "timed" PROVE evals'[f].now \in Times
    <3>1. CASE f = e
      BY <2>1, <2>2, <3>1
    <3>2. CASE f # e
      BY <2>1, <2>4, <3>2
    <3> QED
      BY <3>1, <3>2
  <2> QED
    BY <2>1, <2>3, <2>4
<1>5. ASSUME NEW e \in Evaluators, Return(e)
      PROVE  /\ evals' \in [Evaluators -> [pc : {"none", "copied", "timed"}, now : 0 .. MaxTime,
                                           on : BOOLEAN, value : Values]]
             /\ \A f \in Evaluators : evals'[f].pc = "timed" => evals'[f].now \in Times
  <2>1. Waiting \in [pc : {"none", "copied", "timed"}, now : 0 .. MaxTime,
                     on : BOOLEAN, value : Values] /\ Waiting.pc = "none"
    BY DEF Waiting, Values
  <2> QED
    BY <1>5, <2>1 DEF Return
<1>6. ASSUME NEW e \in Evaluators, SkipRule(e) PROVE RuleTypeOK'
  BY <1>5, <1>6 DEF SkipRule
<1>7. ASSUME NEW e \in Evaluators, ConditionUnmet(e) PROVE RuleTypeOK'
  <2>1. state \in RuleStates /\ 0 \in 0 .. MaxTime
    OBVIOUS
  <2>2. state' = [state EXCEPT !.conditionSince = 0]
    BY <1>7 DEF ConditionUnmet
  <2>3. state' \in RuleStates
    BY <2>1, <2>2 DEF RuleStates
  <2> QED
    BY <1>5, <1>7, <2>3 DEF ConditionUnmet
<1>8. ASSUME NEW e \in Evaluators, Fire(e) PROVE RuleTypeOK'
  <2>1. evals[e].now \in Times /\ evals[e].now \in 0 .. MaxTime
    BY <1>8 DEF Fire, Times
  <2>2. YearDay[evals[e].now] \in Nat /\ CountOn(evals[e].now) \in Nat
    BY <2>1 DEF CountOn, RuleStates
  <2>3. state' \in RuleStates
    BY <1>8, <2>1, <2>2 DEF Fire, RuleStates
  <2>4. fires' \in Seq(Times)
    BY <1>8, <2>1 DEF Fire
  <2> QED
    BY <1>5, <1>8, <2>3, <2>4 DEF Fire
<1>9. ASSUME NEW e \in Evaluators, Hold(e) PROVE RuleTypeOK'
  <2>1. state \in RuleStates /\ Since(evals[e].now) \in 0 .. MaxTime
    BY <1>9 DEF Hold, Since, RuleStates
  <2>2. state' = [state EXCEPT !.conditionSince = Since(evals[e].now)]
    BY <1>9 DEF Hold
  <2>3. state' \in RuleStates
    BY <2>1, <2>2 DEF RuleStates
  <2> QED
    BY <1>5, <1>9, <2>3 DEF Hold
<1>10. CASE UNCHANGED ruleVars
  BY <1>10 DEF ruleVars
<1> QED
  BY <1>1, <1>2, <1>3, <1>4, <1>6, <1>7, <1>8, <1>9, <1>10 DEF RuleNext, Evaluate

-----------------------------------------------------------------------------
(* A fire.                                                                 *)

LEMMA FireStep ==
    ASSUME IInv, NEW e \in Evaluators, Fire(e)
    PROVE  Ordered' /\ CooldownKept' /\ Counted' /\ DailyCap'
<1> DEFINE now == evals[e].now
           last == state.lastFired
           n == Len(fires)
<1> USE RuleAssumption
<1>1. RuleTypeOK /\ Ordered /\ CooldownKept /\ Counted /\ DailyCap
  BY DEF IInv
<1>2. now \in Times /\ last \in 0 .. MaxTime
  BY <1>1 DEF Fire, RuleTypeOK, RuleStates
<1>3. /\ n \in Nat /\ DOMAIN fires = 1 .. n /\ fires \in Seq(Times)
      /\ \A i \in 1 .. n : fires[i] \in Times
  BY <1>1 DEF RuleTypeOK
<1>4. state'.lastFired = now /\ state'.firedToday = CountOn(now) + 1
      /\ (MaxPerDay > 0 => state'.lastFiredDay = YearDay[now])
      /\ fires' = Append(fires, now)
  BY DEF Fire
<1>5. DOMAIN fires' = 1 .. n + 1 /\ fires'[n + 1] = now /\ \A i \in 1 .. n : fires'[i] = fires[i]
  BY <1>2, <1>3, <1>4
<1>6. last # 0 => now - last >= Cooldown /\ now >= last
  BY <1>2 DEF Fire, Allowed, Cooling, Times
<1>7. ASSUME NEW i \in 1 .. n PROVE fires[i] <= last /\ last # 0
  <2>1. fires[i] <= last /\ fires[i] \in Times
    BY <1>1, <1>3 DEF Ordered
  <2> QED
    BY <1>2, <2>1 DEF Times
<1>8. ASSUME NEW i \in 1 .. n PROVE fires[i] <= now /\ now - fires[i] >= Cooldown
  <2>0. fires[i] \in Times /\ now \in Times /\ last \in 0 .. MaxTime
    BY <1>2, <1>3
  <2>1. fires[i] \in Int /\ last \in Int /\ now \in Int /\ Cooldown \in Int
    BY <2>0 DEF Times
  <2>2. fires[i] <= last /\ last # 0
    BY <1>7
  <2>3. now - last >= Cooldown /\ now >= last
    BY <1>6, <2>2
  <2> QED
    BY <2>1, <2>2, <2>3
<1>9. Ordered'
  BY <1>2, <1>4, <1>5, <1>8 DEF Ordered, Times
<1>10. CooldownKept'
  <2>1. ASSUME NEW i \in 1 .. n + 1, NEW j \in 1 .. n + 1, i < j
        PROVE  fires'[j] - fires'[i] >= Cooldown
    <3>1. i \in 1 .. n
      BY <1>3, <2>1
    <3>2. CASE j = n + 1
      BY <1>5, <1>8, <3>1, <3>2
    <3>3. CASE j \in 1 .. n
      BY <1>1, <1>3, <1>5, <2>1, <3>1, <3>3 DEF CooldownKept
    <3> QED
      BY <1>3, <3>2, <3>3
  <2> QED
    BY <1>5, <2>1 DEF CooldownKept
<1>11. ASSUME MaxPerDay > 0
       PROVE  /\ Cardinality(FiresOn(fires, CalendarDay[now])) <= CountOn(now)
              /\ CountOn(now) < MaxPerDay
  <2>1. CountOn(now) < MaxPerDay /\ CountOn(now) \in Nat
    BY <1>1, <1>11 DEF Fire, Allowed, Exhausted, CountOn, RuleTypeOK, RuleStates
  <2>2. CASE last # 0 /\ CalendarDay[now] = CalendarDay[last]
    <3>1. last \in Times
      BY <1>2, <2>2 DEF Times
    <3>2. YearDay[now] = YearDay[last]
      BY <1>2, <2>2, <3>1
    <3> QED
      BY <1>1, <1>11, <2>1, <2>2, <3>2 DEF Counted, CountOn
  <2>3. CASE last = 0 \/ CalendarDay[now] # CalendarDay[last]
    <3>1. \A i \in 1 .. n : CalendarDay[fires[i]] # CalendarDay[now]
      <4> SUFFICES ASSUME NEW i \in 1 .. n PROVE CalendarDay[fires[i]] # CalendarDay[now]
        OBVIOUS
      <4>1. last \in Times /\ fires[i] <= last /\ last <= now /\ CalendarDay[now] # CalendarDay[last]
        BY <1>2, <1>6, <1>7, <2>3 DEF Times
      <4>2. CalendarDay[fires[i]] <= CalendarDay[last] /\ CalendarDay[last] <= CalendarDay[now]
        BY <1>2, <1>3, <4>1
      <4>3. CalendarDay[fires[i]] \in Nat /\ CalendarDay[last] \in Nat /\ CalendarDay[now] \in Nat
        BY <1>2, <1>3, <4>1
      <4> QED
        BY <4>1, <4>2, <4>3
    <3>2. Cardinality(FiresOn(fires, CalendarDay[now])) = 0
      BY <1>3, <3>1, NoFires
    <3> QED
      BY <2>1, <3>2
  <2> QED
    BY <2>2, <2>3
<1>12. \A d : /\ CalendarDay[now] # d => FiresOn(fires', d) = FiresOn(fires, d)
              /\ CalendarDay[now] = d =>
                    Cardinality(FiresOn(fires', d)) = Cardinality(FiresOn(fires, d)) + 1
  BY <1>2, <1>3, <1>4, FiresAppend
<1>13. MaxPerDay > 0 =>
           /\ Cardinality(FiresOn(fires', CalendarDay[now])) <= CountOn(now) + 1
           /\ Cardinality(FiresOn(fires', CalendarDay[now])) <= MaxPerDay
  <2>1. Cardinality(FiresOn(fires, CalendarDay[now])) \in Nat
    BY <1>3, FiresFinite
  <2>2. CountOn(now) \in Nat
    BY <1>1 DEF CountOn, RuleTypeOK, RuleStates
  <2>3. Cardinality(FiresOn(fires', CalendarDay[now]))
            = Cardinality(FiresOn(fires, CalendarDay[now])) + 1
    BY <1>12
  <2> QED
    BY <1>11, <2>1, <2>2, <2>3
<1>14. Counted'
  BY <1>4, <1>13 DEF Counted
<1>15. DailyCap'
  <2> SUFFICES ASSUME MaxPerDay > 0, NEW i \in DOMAIN fires'
               PROVE  Cardinality(FiresOn(fires', CalendarDay[fires'[i]])) <= MaxPerDay
    BY DEF DailyCap
  <2>1. CASE CalendarDay[fires'[i]] = CalendarDay[now]
    BY <1>13, <2>1
  <2>2. CASE CalendarDay[fires'[i]] # CalendarDay[now]
    <3>1. i \in 1 .. n /\ fires'[i] = fires[i]
      BY <1>3, <1>5, <2>2
    <3>2. FiresOn(fires', CalendarDay[fires'[i]]) = FiresOn(fires, CalendarDay[fires'[i]])
      BY <1>12, <2>2
    <3> QED
      BY <1>1, <1>3, <3>1, <3>2 DEF DailyCap
  <2> QED
    BY <2>1, <2>2
<1> QED
  BY <1>9, <1>10, <1>14, <1>15

\* Every other step leaves the fires, and what the engine knows of them, as they are.
LEMMA OtherStep ==
    ASSUME IInv, fires' = fires, state'.lastFired = state.lastFired,
           state'.firedToday = state.firedToday, state'.lastFiredDay = state.lastFiredDay
    PROVE  Ordered' /\ CooldownKept' /\ Counted' /\ DailyCap'
<1>1. Ordered' /\ CooldownKept'
  BY DEF IInv, Ordered, CooldownKept
<1>2. Counted'
  BY DEF IInv, Counted
<1>3. DailyCap'
  BY DEF IInv, DailyCap
<1> QED
  BY <1>1, <1>2, <1>3

LEMMA StepIInv == IInv /\ [RuleNext]_ruleVars => IInv'
<1> SUFFICES ASSUME IInv, [RuleNext]_ruleVars PROVE IInv'
  OBVIOUS
<1>1. RuleTypeOK'
  BY TypeStep DEF IInv
<1>2. CASE \E e \in Evaluators : Fire(e)
  BY <1>1, <1>2, FireStep DEF IInv
<1>3. CASE ~\E e \in Evaluators : Fire(e)
  <2>1. fires' = fires
    BY <1>3 DEF RuleNext, Evaluate, Tick, Sync, CopyRules, ReadClock, SkipRule,
                ConditionUnmet, Hold, ruleVars
  <2>2. \/ state' = state
        \/ state' = [state EXCEPT !.conditionSince = 0]
        \/ \E e \in Evaluators : state' = [state EXCEPT !.conditionSince = Since(evals[e].now)]
    BY <1>3 DEF RuleNext, Evaluate, Tick, Sync, CopyRules, ReadClock, SkipRule,
                ConditionUnmet, Hold, ruleVars
  <2>3. /\ state'.lastFired = state.lastFired /\ state'.firedToday = state.firedToday
        /\ state'.lastFiredDay = state.lastFiredDay
    BY <2>2 DEF IInv, RuleTypeOK, RuleStates
  <2> QED
    BY <1>1, <2>1, <2>3, OtherStep DEF IInv
<1> QED
  BY <1>2, <1>3

LEMMA Invariance == RuleSpec => []IInv
<1> QED
  BY InitIInv, StepIInv, PTL DEF RuleSpec

\* The state has its types: internal/rules/engine.go never leaves its zero times, counters
\* and days, whatever evaluations overlap.
THEOREM RuleTypes == RuleSpec => []RuleTypeOK
<1> QED
  BY Invariance, PTL DEF IInv

\* Any two fires are a cooldown apart (engine.go:95), for any evaluations under way.
THEOREM RuleCooldown == RuleSpec => []CooldownKept
<1> QED
  BY Invariance, PTL DEF IInv

\* The maximum per day (engine.go:100) holds for any calendar, year days that come again
\* included, and any evaluations under way.
THEOREM RuleDailyCap == RuleSpec => []DailyCap
<1> QED
  BY Invariance, PTL DEF IInv

=============================================================================
