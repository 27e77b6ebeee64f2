----------------------------- MODULE RuleEngine -----------------------------
(***************************************************************************)
(* The local rules engine (internal/rules).  Every metrics snapshot is     *)
(* evaluated by a goroutine of its own, `go a.engine.Evaluate(ctx, m)`:    *)
(* several may be under way, of one connection or of two, and overtake one *)
(* another.  An evaluation copies the rules, reads the clock once and then *)
(* takes the lock for each rule.  Rules share no state, so there is one.   *)
(*                                                                         *)
(* Time runs in steps of the metrics interval and starts at 1: 0 is Go's   *)
(* zero time.                                                              *)
(***************************************************************************)
EXTENDS Integers, Sequences, FiniteSets

CONSTANTS
    Evaluators,    \* evaluations that may be under way at a time
    MaxTime,       \* bound: how far the clock runs
    CalendarDay,   \* the day of each time
    YearDay,       \* time.YearDay of each time: days of two years may share it
    MinDuration,   \* condition_duration_seconds
    Cooldown,      \* cooldown_seconds
    MaxPerDay      \* max_per_day, 0 for no maximum

Times == 1 .. MaxTime

ASSUME RuleAssumption ==
    /\ MaxTime \in Nat \ {0}
    /\ CalendarDay \in [Times -> Nat] /\ YearDay \in [Times -> Nat]
    /\ \A s, t \in Times : s <= t => CalendarDay[s] <= CalendarDay[t]
    /\ \A s, t \in Times : CalendarDay[s] = CalendarDay[t] => YearDay[s] = YearDay[t]
    /\ MinDuration \in Nat /\ Cooldown \in Nat /\ MaxPerDay \in Nat

VARIABLES
    clock,
    active,     \* the rule is in e.rules and enabled
    evals,      \* the evaluations
    state,      \* e.state[r.RuleID]
    fires       \* the times the rule fired with (history)

ruleVars == <<clock, active, evals, state, fires>>

Waiting == [pc |-> "none", now |-> 0, on |-> FALSE, value |-> "missing"]
Values == {"met", "unmet", "missing"}

RuleInit ==
    /\ clock = 1 /\ active = TRUE
    /\ evals = [e \in Evaluators |-> Waiting]
    /\ state = [conditionSince |-> 0, lastFired |-> 0, firedToday |-> 0, lastFiredDay |-> 0]
    /\ fires = << >>

Tick ==
    /\ clock < MaxTime /\ clock' = clock + 1
    /\ UNCHANGED <<active, evals, state, fires>>

\* rule_sync or the configuration: the definition changes, the state stays
Sync ==
    /\ active' = ~active
    /\ UNCHANGED <<clock, evals, state, fires>>

\* Evaluate copies the rules under the lock
CopyRules(e, v) ==
    /\ evals[e].pc = "none"
    /\ evals' = [evals EXCEPT ![e] = [pc |-> "copied", now |-> 0, on |-> active, value |-> v]]
    /\ UNCHANGED <<clock, active, state, fires>>

\* and reads the clock after it released it
ReadClock(e) ==
    /\ evals[e].pc = "copied"
    /\ evals' = [evals EXCEPT
           ![e] = [pc |-> "timed", now |-> clock, on |-> @.on, value |-> @.value]]
    /\ UNCHANGED <<clock, active, state, fires>>

Return(e) == evals' = [evals EXCEPT ![e] = Waiting]

\* a disabled rule, or a metric the snapshot does not have: the state is not looked at
SkipRule(e) ==
    /\ evals[e].pc = "timed" /\ (~evals[e].on \/ evals[e].value = "missing")
    /\ Return(e)
    /\ UNCHANGED <<clock, active, state, fires>>

ConditionUnmet(e) ==
    /\ evals[e].pc = "timed" /\ evals[e].on /\ evals[e].value = "unmet"
    /\ state' = [state EXCEPT !.conditionSince = 0]
    /\ Return(e)
    /\ UNCHANGED <<clock, active, fires>>

Since(now) == IF state.conditionSince = 0 THEN now ELSE state.conditionSince

Lasting(now) == now - Since(now) >= MinDuration

CoolingLater(now) ==
    state.lastFired # 0 /\ now >= state.lastFired /\ now - state.lastFired < Cooldown

CoolingShort(now) == state.lastFired # 0 /\ now - state.lastFired < Cooldown - 1

\* too soon after the last fire, or before it
Cooling(now) == state.lastFired # 0 /\ now - state.lastFired < Cooldown

\* firedToday as the check of the maximum finds it
CountOn(now) ==
    IF MaxPerDay > 0 /\ state.lastFiredDay # YearDay[now] THEN 0 ELSE state.firedToday

Exhausted(now) == MaxPerDay > 0 /\ CountOn(now) >= MaxPerDay

Allowed(now) == Lasting(now) /\ ~Cooling(now) /\ ~Exhausted(now)

\* the condition is met and everything else lets the rule fire, in one critical section
Fire(e) ==
    LET now == evals[e].now IN
    /\ evals[e].pc = "timed" /\ evals[e].on /\ evals[e].value = "met"
    /\ Allowed(now)
    /\ state' = [conditionSince |-> 0, lastFired |-> now, firedToday |-> CountOn(now) + 1,
                 lastFiredDay |-> IF MaxPerDay > 0 THEN YearDay[now] ELSE state.lastFiredDay]
    /\ fires' = Append(fires, now)
    /\ Return(e)
    /\ UNCHANGED <<clock, active>>

\* or it is remembered since when the condition is met; a day is only noted on the way to
\* a fire, for a new day starts with 0 and the maximum is at least 1
Hold(e) ==
    LET now == evals[e].now IN
    /\ evals[e].pc = "timed" /\ evals[e].on /\ evals[e].value = "met"
    /\ ~Allowed(now)
    /\ state' = [state EXCEPT !.conditionSince = Since(now)]
    /\ Return(e)
    /\ UNCHANGED <<clock, active, fires>>

Evaluate(e) ==
    \/ \E v \in Values : CopyRules(e, v)
    \/ ReadClock(e) \/ SkipRule(e) \/ ConditionUnmet(e) \/ Fire(e) \/ Hold(e)

RuleNext == Tick \/ Sync \/ \E e \in Evaluators : Evaluate(e)

RuleSpec == RuleInit /\ [][RuleNext]_ruleVars

-----------------------------------------------------------------------------
(* Properties                                                              *)

RuleStates ==
    [conditionSince : 0 .. MaxTime, lastFired : 0 .. MaxTime, firedToday : Nat,
     lastFiredDay : Nat]

\* Types, and that an evaluation works with a time that has been.
RuleTypeOK ==
    /\ clock \in Times /\ active \in BOOLEAN
    /\ evals \in [Evaluators -> [pc : {"none", "copied", "timed"}, now : 0 .. MaxTime,
                                 on : BOOLEAN, value : Values]]
    /\ \A e \in Evaluators : evals[e].pc = "timed" => evals[e].now \in Times
    /\ state \in RuleStates /\ fires \in Seq(Times)

\* Any two fires are a cooldown apart, in the order they happened, though the evaluations
\* that decide them may overtake one another (engine.go:94).
CooldownKept ==
    \A i, j \in DOMAIN fires : i < j => fires[j] - fires[i] >= Cooldown

FiresOn(fs, d) == {i \in DOMAIN fs : CalendarDay[fs[i]] = d}

\* On no calendar day does the rule fire more than max_per_day times: not when an evaluation
\* of before midnight is overtaken by one of after it and finds, and could reset, the
\* counter of the new day (engine.go:100).
DailyCap ==
    MaxPerDay > 0 =>
        \A i \in DOMAIN fires : Cardinality(FiresOn(fires, CalendarDay[fires[i]])) <= MaxPerDay

=============================================================================
