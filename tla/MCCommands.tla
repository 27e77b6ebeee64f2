----------------------------- MODULE MCCommands -----------------------------
(* The reader goroutine with its terminals and its commands together, under *)
(* the fairness of the agent's own goroutines only: nothing is assumed of   *)
(* what a command leaves in the background.                                 *)
EXTENDS Commands

ExecSpec == HandlerSpec /\ TermFairness /\ CmdFairness

=============================================================================
