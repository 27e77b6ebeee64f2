------------------------------ MODULE Commands ------------------------------
(***************************************************************************)
(* Commands of the backend: executor.Run behind OnExec, and the privileged *)
(* actions, which OnSysAction hands to the root helper over a Unix socket. *)
(* Each has a goroutine of its own, the commands that are not async too;   *)
(* the reader goroutine, which the terminals may keep busy, starts them.   *)
(*                                                                         *)
(* Both run a process through exec.CommandContext with a bytes.Buffer for  *)
(* its output and no WaitDelay: the deadline kills the process, and Run    *)
(* waits for it and for the end of the output pipes, which the process's   *)
(* own children may hold open.                                             *)
(***************************************************************************)
EXTENDS Terminals

CONSTANTS
    Commands,   \* exec commands
    Actions     \* privileged actions

ASSUME CommandAssumption == 0 \notin Actions /\ Commands \cap Actions = {}

Jobs == Commands \cup Actions

VARIABLES
    main,     \* the process of each job
    kids,     \* the jobs with children that hold the output
    cmd,      \* OnExec of each command
    act,      \* the goroutine of OnSysAction, in privileged.Execute
    conn,     \* the helper's end: handleConn
    holder,   \* who has the helper's mutex, or 0
    helper,   \* the helper is installed
    told      \* what the backend was told of each job

procVars == <<main, kids>>
cmdVars == <<procVars, cmd, act, conn, holder, helper, told>>

CmdInit ==
    /\ main = [j \in Jobs |-> "none"] /\ kids = {}
    /\ cmd = [c \in Commands |-> "new"]
    /\ act = [a \in Actions |-> "new"]
    /\ conn = [a \in Actions |-> "none"] /\ holder = 0
    /\ helper \in BOOLEAN
    /\ told = [j \in Jobs |-> "nothing"]

\* the result goes out with the send function of the moment, if there is one
Tell(j, what) == told' = IF linked THEN [told EXCEPT ![j] = what] ELSE told

-----------------------------------------------------------------------------
(* A process under exec.CommandContext.                                    *)

Begin(j) == main' = [main EXCEPT ![j] = "runs"] /\ UNCHANGED kids

\* it starts something in the background that keeps its output
Fork(j) == main[j] = "runs" /\ kids' = kids \cup {j} /\ UNCHANGED main

Exit(j) == main[j] = "runs" /\ main' = [main EXCEPT ![j] = "done"] /\ UNCHANGED kids

\* the hard timeout: the process is killed, and only the process
Kill(j) == main[j] = "runs" /\ main' = [main EXCEPT ![j] = "killed"] /\ UNCHANGED kids

KidsEnd(j) == j \in kids /\ kids' = kids \ {j} /\ UNCHANGED main

ProcStep(j) ==
    /\ Fork(j) \/ Exit(j) \/ Kill(j) \/ KidsEnd(j)
    /\ UNCHANGED <<cmd, act, conn, holder, helper, told, reader, linked>>

Over(j) == main[j] \in {"done", "killed"}

RunReturnsOnExit(j) == Over(j)

\* cmd.Run: waited for, and the pipes at their end
RunReturns(j) == Over(j) /\ j \notin kids

-----------------------------------------------------------------------------
(* exec: acknowledged, then run.                                           *)

OnExec(c) ==
    /\ linked /\ reader = Free /\ cmd[c] = "new"
    /\ cmd' = [cmd EXCEPT ![c] = "runs"] /\ Begin(c)
    /\ UNCHANGED <<act, conn, holder, helper, told, reader, linked>>

ExecResult(c) ==
    /\ cmd[c] = "runs" /\ RunReturns(c)
    /\ cmd' = [cmd EXCEPT ![c] = "returned"] /\ Tell(c, "result")
    /\ UNCHANGED <<procVars, act, conn, holder, helper, reader, linked>>

-----------------------------------------------------------------------------
(* sys_action: the agent's side.                                           *)

OnSysAction(a) ==
    /\ linked /\ reader = Free /\ act[a] = "new"
    /\ act' = [act EXCEPT ![a] = "dial"]
    /\ UNCHANGED <<procVars, cmd, conn, holder, helper, told, reader, linked>>

Answered(a, what) == act' = [act EXCEPT ![a] = "end"] /\ Tell(a, what)

\* the socket is not there
Unavailable(a) ==
    /\ act[a] = "dial" /\ ~helper
    /\ Answered(a, "failed")
    /\ UNCHANGED <<procVars, cmd, conn, holder, helper, reader, linked>>

Dial(a) ==
    /\ act[a] = "dial" /\ helper
    /\ act' = [act EXCEPT ![a] = "asks"]
    /\ conn' = [conn EXCEPT ![a] = "asked"]
    /\ UNCHANGED <<procVars, cmd, holder, helper, told, reader, linked>>

ReadAnswer(a) ==
    /\ act[a] = "asks" /\ conn[a] \in {"rejected", "result"}
    /\ Answered(a, conn[a])
    /\ UNCHANGED <<procVars, cmd, conn, holder, helper, reader, linked>>

\* 31 minutes: longer than any action's own timeout, but the wait for the mutex and for
\* children that hold the output counts as well.  When they are over is left open.
ClientDeadline(a) ==
    /\ act[a] = "asks" /\ conn[a] \in {"queued", "runs"}
    /\ Answered(a, "failed")
    /\ UNCHANGED <<procVars, cmd, conn, holder, helper, reader, linked>>

-----------------------------------------------------------------------------
(* The helper: a goroutine for each connection.                            *)

\* what resolve makes of an action: a command, or an error
Resolved == {"queued", "rejected"}

HandleConn(a) ==
    /\ conn[a] = "asked"
    /\ \E found \in Resolved : conn' = [conn EXCEPT ![a] = found]
    /\ UNCHANGED <<procVars, cmd, act, holder, helper, told, reader, linked>>

ExecPlan(a) ==
    /\ conn[a] = "queued" /\ holder = 0
    /\ conn' = [conn EXCEPT ![a] = "runs"] /\ holder' = a /\ Begin(a)
    /\ UNCHANGED <<cmd, act, helper, told, reader, linked>>

WriteRespLocked(a) ==
    /\ conn[a] = "runs" /\ RunReturns(a)
    /\ conn' = [conn EXCEPT ![a] = "result"]
    /\ UNCHANGED <<procVars, cmd, act, helper, holder, told, reader, linked>>

\* the answer is written and the mutex given back
WriteResp(a) ==
    /\ conn[a] = "runs" /\ RunReturns(a)
    /\ conn' = [conn EXCEPT ![a] = "result"] /\ holder' = 0
    /\ UNCHANGED <<procVars, cmd, act, helper, told, reader, linked>>

-----------------------------------------------------------------------------
\* what the agent and the helper do by themselves
CommandStep(c) == ExecResult(c)
ActionStep(a) ==
    \/ Unavailable(a) \/ Dial(a) \/ ReadAnswer(a)
    \/ HandleConn(a) \/ ExecPlan(a) \/ WriteResp(a)

CmdNext ==
    /\ \/ \E j \in Jobs : ProcStep(j)
       \/ \E c \in Commands : OnExec(c) \/ CommandStep(c)
       \/ \E a \in Actions : OnSysAction(a) \/ ActionStep(a) \/ ClientDeadline(a)
    /\ UNCHANGED termVars

HandlerInit == TermInit /\ CmdInit

HandlerNext == CmdNext \/ (TermNext /\ UNCHANGED cmdVars)

handlerVars == <<reader, linked, termVars, cmdVars>>

HandlerSpec == HandlerInit /\ [][HandlerNext]_handlerVars

\* The timeouts' timers fire, Run returns when it can, and the mutex is handed on.
CmdFairness ==
    /\ WF_procVars(\E j \in Jobs : Kill(j))
    /\ WF_cmdVars((\E c \in Commands : CommandStep(c)) \/ (\E a \in Actions : ActionStep(a)))

\* What a command leaves in the background ends some time: the code does not see to it.
KidsFairness == WF_procVars(\E j \in Jobs : KidsEnd(j))

-----------------------------------------------------------------------------
(* Properties                                                              *)

CmdTypeOK ==
    /\ main \in [Jobs -> {"none", "runs", "done", "killed"}] /\ kids \subseteq Jobs
    /\ cmd \in [Commands -> {"new", "runs", "returned"}]
    /\ act \in [Actions -> {"new", "dial", "asks", "end"}]
    /\ conn \in [Actions -> {"none", "asked", "queued", "runs", "result", "rejected"}]
    /\ holder \in Actions \cup {0} /\ helper \in BOOLEAN
    /\ told \in [Jobs -> {"nothing", "result", "failed", "rejected"}]

\* One privileged action at a time, so that no two apt runs meet at its locks
\* (helper.go:59): not even when the deadline has killed one whose children live on.
OneActionAtATime ==
    Cardinality({a \in Actions : main[a] = "runs" \/ a \in kids}) <= 1

\* Every command and every action is answered, whatever its process does and whoever waits
\* before it, unless the connection goes first: given that what is left in the background
\* ends (see TimeoutIsHard).
EveryJobAnswered ==
    /\ \A c \in Commands : (cmd[c] = "runs") ~> (told[c] = "result" \/ ~linked)
    /\ \A a \in Actions : (act[a] = "dial") ~> (told[a] # "nothing" \/ ~linked)

\* "Run runs the command with a hard timeout and returns the result" (exec.go:20): once the
\* timeout has killed it, the caller gets its result.
TimeoutIsHard == \A c \in Commands : (main[c] = "killed") ~> (cmd[c] = "returned")

=============================================================================
