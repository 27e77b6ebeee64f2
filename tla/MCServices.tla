----------------------------- MODULE MCServices -----------------------------
(***************************************************************************)
(* The services that share nothing with one another (the rules engine, the *)
(* terminals, commands and actions, the dumps, the log collector and the   *)
(* update notice): one of them is in focus and moves, in every behaviour.  *)
(***************************************************************************)
EXTENDS RuleEngine, Commands, DumpStore, LogCollector, UpdateNotice

VARIABLE focus

MCCalendarDay == [t \in Times |-> t \div 2]
MCYearDay == [t \in Times |-> 1 + ((t \div 2) % 2)]
MCRank == [t \in Tags |-> IF t = "1.2.0" THEN 2 ELSE IF t = "1.0.0" THEN 0 ELSE 1]

Init ==
    /\ focus \in {"rules", "terminals", "commands", "dumps", "logs", "updates"}
    /\ RuleInit /\ TermInit /\ CmdInit /\ DumpInit /\ LogInit /\ UpdateInit
    /\ focus # "commands" => helper = TRUE
    /\ focus # "updates" => latest = "1.0.0"

Next ==
    /\ UNCHANGED focus
    /\ \/ /\ focus = "rules" /\ RuleNext
          /\ UNCHANGED <<handlerVars, dumpVars, logVars, updateVars>>
       \/ /\ focus = "terminals" /\ TermNext
          /\ UNCHANGED <<cmdVars, ruleVars, dumpVars, logVars, updateVars>>
       \/ /\ focus = "commands" /\ CmdNext
          /\ UNCHANGED <<ruleVars, dumpVars, logVars, updateVars>>
       \/ /\ focus = "commands" /\ (Unlink \/ Relink)
          /\ UNCHANGED <<cmdVars, ruleVars, dumpVars, logVars, updateVars>>
       \/ /\ focus = "dumps" /\ DumpNext
          /\ UNCHANGED <<handlerVars, ruleVars, logVars, updateVars>>
       \/ /\ focus = "logs" /\ LogNext
          /\ UNCHANGED <<handlerVars, ruleVars, dumpVars, updateVars>>
       \/ /\ focus = "updates" /\ UpdateNext
          /\ UNCHANGED <<handlerVars, ruleVars, dumpVars, logVars>>

vars == <<focus, ruleVars, handlerVars, dumpVars, logVars, updateVars>>

Spec ==
    /\ Init /\ [][Next]_vars
    /\ TermFairness /\ CmdFairness /\ KidsFairness /\ LogFairness

=============================================================================
