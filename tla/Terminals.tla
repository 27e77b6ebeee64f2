------------------------------ MODULE Terminals ------------------------------
(***************************************************************************)
(* Web terminals (internal/terminal): a bash on a pseudo-terminal for each *)
(* session of the backend.  The connection's reader goroutine calls Start, *)
(* Data and Close; a readLoop goroutine follows every shell; the goroutine *)
(* that notices the lost connection calls Shutdown.  All three may run     *)
(* cleanup for one session at the same time.                               *)
(*                                                                         *)
(* The backend reuses a session id only after the agent's pty_close.  The  *)
(* next connection begins when the reader of the last one has returned:    *)
(* AgentConnection has the connections that do not wait for it.            *)
(***************************************************************************)
EXTENDS Integers, FiniteSets

CONSTANTS
    Sessions,    \* session ids
    MaxShells,   \* bound: shells that are started
    TtyRoom,     \* input the tty keeps while the shell does not read
    MaxInput     \* bound: pty_data messages

ASSUME TerminalAssumption ==
    MaxShells \in Nat /\ TtyRoom \in Nat \ {0} /\ MaxInput \in Nat /\ 0 \notin Sessions

Shells == 1 .. MaxShells

VARIABLES
    reader,    \* what the reader goroutine is in: a call and its argument
    linked,    \* there is a connection, and a send function
    sess,      \* m.sess: the shell of each session, or 0
    owner,     \* the session each shell was started for, 0 if it was not started
    bash,      \* its process
    opened,    \* the shells whose terminal the agent has open
    unread,    \* how much of the input each terminal still has
    loop,      \* the readLoop of each shell
    victim,    \* the shell its cleanup took out of m.sess and has yet to kill, or 0
    toShut,    \* the ids Shutdown has yet to clean up
    shutAt,    \* the shell its cleanup is at, or 0
    ended,     \* the sessions the backend was told are closed
    typed      \* how many pty_data messages there were

shellVars == <<owner, bash, opened, unread>>
shutVars == <<toShut, shutAt>>
termVars == <<sess, shellVars, loop, victim, shutVars, ended, typed>>

Free == [call |-> "none", arg |-> 0]
In(call, arg) == [call |-> call, arg |-> arg]

TermInit ==
    /\ reader = Free /\ linked = TRUE
    /\ sess = [s \in Sessions |-> 0]
    /\ owner = [n \in Shells |-> 0] /\ bash = [n \in Shells |-> "none"]
    /\ opened = {} /\ unread = [n \in Shells |-> 0]
    /\ loop = [n \in Shells |-> "none"] /\ victim = [n \in Shells |-> 0]
    /\ toShut = {} /\ shutAt = 0
    /\ ended = {} /\ typed = 0

\* a session id the backend may use for a new session
Usable(s) == s \in ended \/ \A n \in Shells : owner[n] # s

-----------------------------------------------------------------------------
(* The reader goroutine.                                                   *)

\* Start: nothing is registered under the id, so a shell is started ...
PtyStart(s, n) ==
    /\ linked /\ reader = Free /\ Usable(s) /\ sess[s] = 0
    /\ owner[n] = 0 /\ \A m \in 1 .. n - 1 : owner[m] # 0
    /\ owner' = [owner EXCEPT ![n] = s] /\ bash' = [bash EXCEPT ![n] = "runs"]
    /\ opened' = opened \cup {n}
    /\ ended' = ended \ {s}
    /\ reader' = In("register", n)
    /\ UNCHANGED <<linked, sess, unread, loop, victim, shutVars, typed>>

\* ... and registered, and its readLoop begins
PtyRegister(n) ==
    /\ reader = In("register", n) /\ reader' = Free
    /\ sess' = [sess EXCEPT ![owner[n]] = n] /\ loop' = [loop EXCEPT ![n] = "read"]
    /\ UNCHANGED <<linked, shellVars, victim, shutVars, ended, typed>>

\* Data looks the session up ...
PtyData(s) ==
    /\ linked /\ reader = Free /\ sess[s] # 0 /\ typed < MaxInput
    /\ reader' = In("write", sess[s]) /\ typed' = typed + 1
    /\ UNCHANGED <<linked, sess, shellVars, loop, victim, shutVars, ended>>

\* a terminal that is closed at either end
HungUp(n) == n \notin opened \/ bash[n] # "runs"

\* ... and writes: it waits for room as long as the terminal is open and its shell alive
PtyWrite(n) ==
    /\ reader = In("write", n) /\ reader' = Free
    /\ \/ /\ ~HungUp(n) /\ unread[n] < TtyRoom
          /\ unread' = [unread EXCEPT ![n] = @ + 1]
       \/ HungUp(n) /\ UNCHANGED unread
    /\ UNCHANGED <<linked, sess, owner, bash, opened, loop, victim, shutVars, ended, typed>>

\* cleanup: the session is taken out of the map, by one of its callers only
Taken(s) == sess' = [sess EXCEPT ![s] = 0]

ClosedOnly(n) ==
    /\ opened' = opened \ {n}
    /\ UNCHANGED <<owner, bash, unread>>

\* and its terminal closed and its process killed and waited for
Killed(n) ==
    /\ opened' = opened \ {n} /\ bash' = [bash EXCEPT ![n] = "reaped"]
    /\ UNCHANGED <<owner, unread>>

PtyClose(s) ==
    /\ linked /\ reader = Free /\ sess[s] # 0
    /\ Taken(s) /\ reader' = In("kill", sess[s])
    /\ UNCHANGED <<linked, shellVars, loop, victim, shutVars, ended, typed>>

PtyKill(n) ==
    /\ reader = In("kill", n) /\ reader' = Free
    /\ Killed(n)
    /\ UNCHANGED <<linked, sess, loop, victim, shutVars, ended, typed>>

-----------------------------------------------------------------------------
(* A shell and its readLoop.                                               *)

ShellReads(n) ==
    /\ bash[n] = "runs" /\ unread[n] > 0
    /\ unread' = [unread EXCEPT ![n] = @ - 1]
    /\ UNCHANGED <<reader, linked, sess, owner, bash, opened, loop, victim, shutVars, ended, typed>>

ShellExits(n) ==
    /\ bash[n] = "runs"
    /\ bash' = [bash EXCEPT ![n] = "exited"]
    /\ UNCHANGED <<reader, linked, sess, owner, opened, unread, loop, victim, shutVars, ended, typed>>

LoopTakesOrLeaves(n) ==
    /\ loop[n] = "read" /\ HungUp(n)
    /\ Taken(owner[n]) /\ victim' = [victim EXCEPT ![n] = sess[owner[n]]]
    /\ loop' = [loop EXCEPT ![n] = IF sess[owner[n]] = 0 THEN "end" ELSE "kill"]
    /\ UNCHANGED <<reader, linked, shellVars, shutVars, ended, typed>>

\* Read fails once the terminal is hung up: cleanup takes what is registered under the
\* session id
LoopTakes(n) ==
    /\ loop[n] = "read" /\ HungUp(n)
    /\ Taken(owner[n]) /\ victim' = [victim EXCEPT ![n] = sess[owner[n]]]
    /\ loop' = [loop EXCEPT ![n] = "kill"]
    /\ UNCHANGED <<reader, linked, shellVars, shutVars, ended, typed>>

LoopKills(n) ==
    /\ loop[n] = "kill" /\ loop' = [loop EXCEPT ![n] = "tell"]
    /\ IF victim[n] = 0 THEN UNCHANGED shellVars ELSE Killed(victim[n])
    /\ victim' = [victim EXCEPT ![n] = 0]
    /\ UNCHANGED <<reader, linked, sess, shutVars, ended, typed>>

\* sendClose
LoopTells(n) ==
    /\ loop[n] = "tell" /\ loop' = [loop EXCEPT ![n] = "end"]
    /\ ended' = IF linked THEN ended \cup {owner[n]} ELSE ended
    /\ UNCHANGED <<reader, linked, sess, shellVars, victim, shutVars, typed>>

-----------------------------------------------------------------------------
(* The connection is lost: the send function goes, Shutdown lists the       *)
(* sessions and cleans up one after the other.                             *)

Unlink ==
    /\ linked /\ linked' = FALSE
    /\ toShut' = {s \in Sessions : sess[s] # 0}
    /\ UNCHANGED <<reader, sess, shellVars, loop, victim, shutAt, ended, typed>>

ShutdownTakes(s) ==
    /\ s \in toShut /\ shutAt = 0
    /\ Taken(s) /\ toShut' = toShut \ {s} /\ shutAt' = sess[s]
    /\ UNCHANGED <<reader, linked, shellVars, loop, victim, ended, typed>>

ShutdownKills ==
    /\ shutAt # 0 /\ shutAt' = 0
    /\ Killed(shutAt)
    /\ UNCHANGED <<reader, linked, sess, loop, victim, toShut, ended, typed>>

Relink ==
    /\ ~linked /\ reader = Free /\ toShut = {} /\ shutAt = 0
    /\ linked' = TRUE
    /\ UNCHANGED <<reader, termVars>>

-----------------------------------------------------------------------------
ReaderStep(n) == PtyRegister(n) \/ PtyWrite(n) \/ PtyKill(n)
LoopStep(n) == LoopTakes(n) \/ LoopKills(n) \/ LoopTells(n)
ShutdownStep == (\E s \in Sessions : ShutdownTakes(s)) \/ ShutdownKills

HandlerStep ==
    \/ \E n \in Shells : ReaderStep(n) \/ LoopStep(n) \/ ShellReads(n)
    \/ ShutdownStep

TermNext ==
    \/ \E s \in Sessions : PtyData(s) \/ PtyClose(s) \/ \E n \in Shells : PtyStart(s, n)
    \/ \E n \in Shells : ShellExits(n)
    \/ HandlerStep \/ Unlink \/ Relink

\* As long as a goroutine can go on, or a shell can read what was typed, one of them does:
\* what each has to do is finite, so this is fairness enough.  A shell that never reads
\* keeps the reader in Data for as long as it lives, since the reader is the one to kill it.
TermFairness == WF_<<reader, termVars>>(HandlerStep)

-----------------------------------------------------------------------------
(* Properties                                                              *)

TermTypeOK ==
    /\ linked \in BOOLEAN /\ sess \in [Sessions -> 0 .. MaxShells]
    /\ owner \in [Shells -> Sessions \cup {0}]
    /\ bash \in [Shells -> {"none", "runs", "exited", "reaped"}]
    /\ opened \subseteq Shells /\ unread \in [Shells -> 0 .. TtyRoom]
    /\ loop \in [Shells -> {"none", "read", "kill", "tell", "end"}]
    /\ victim \in [Shells -> 0 .. MaxShells]
    /\ toShut \subseteq Sessions /\ shutAt \in 0 .. MaxShells
    /\ ended \subseteq Sessions /\ typed \in 0 .. MaxInput

\* Whose cleanup has the shell n in its hands.
InHands(n) ==
    \/ reader \in {In("register", n), In("kill", n)} \/ shutAt = n
    \/ \E m \in Shells : victim[m] = n

\* No shell is lost: one that was not killed and waited for is in m.sess, where pty_close,
\* Shutdown and its readLoop find it, or in a call that will see to it; and no readLoop's
\* cleanup ever gets the shell of a later session (terminal.go:137).
NoStrayShell ==
    /\ \A n \in Shells :
          bash[n] \in {"runs", "exited"} => sess[owner[n]] = n \/ InHands(n)
    /\ \A n, m \in Shells : victim[n] = m => m = n

\* A shell that ended, by itself, by pty_close or with the connection, is waited for, and the
\* backend hears of it unless the connection went first (terminal.go:108).
EndIsReported ==
    \A n \in Shells :
        (bash[n] \in {"exited", "reaped"} /\ loop[n] # "end" /\ linked) ~>
            (bash[n] = "reaped" /\ (owner[n] \in ended \/ ~linked
                \/ \E m \in Shells : m > n /\ owner[m] = owner[n]))

=============================================================================
