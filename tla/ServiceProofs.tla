---------------------------- MODULE ServiceProofs ----------------------------
(***************************************************************************)
(* Proofs about UpdateNotice, Terminals, Commands, DumpStore and           *)
(* LogCollector, which share nothing, for every value of their constants.  *)
(***************************************************************************)
EXTENDS UpdateNotice, Commands, DumpStore, LogCollector, SequenceTheorems, FiniteSetTheorems, TLAPS

(* The update notice.                                                      *)

\* The connection that is up has its send function installed from the first step of
\* OnConnect on, and a release is recorded before anybody is told of it: whoever looks
\* second sees what the other one left.
Notice ==
    /\ up => logins \in 1 .. MaxLogins
    /\ toLogin # <<>> => up
    /\ up /\ toLogin # LoginOrder => sendFn = logins
    /\ toCheck # <<>> => fetched \in Tags
    /\ toCheck = <<"notify">> => fetched = latestKnown
    /\ up /\ toLogin = <<>> /\ latestKnown # "" =>
          latestKnown \in notified[logins] \/ toCheck = <<"notify">>

NoticeIInv == UpdateTypeOK /\ Notice

LEMMA Steps ==
    /\ Head(CheckOrder) = "record" /\ Tail(CheckOrder) = <<"notify">> /\ CheckOrder # <<>>
    /\ Head(<<"notify">>) = "notify" /\ Tail(<<"notify">>) = <<>> /\ <<"notify">> # <<>>
    /\ Head(LoginOrder) = "install" /\ Tail(LoginOrder) = <<"info", "tell">>
    /\ Head(<<"info", "tell">>) = "info" /\ Tail(<<"info", "tell">>) = <<"tell">>
    /\ Head(<<"tell">>) = "tell" /\ Tail(<<"tell">>) = <<>>
    /\ LoginOrder # <<>> /\ <<"info", "tell">> # <<>> /\ <<"tell">> # <<>>
    /\ CheckOrder # <<"notify">> /\ LoginOrder # <<"info", "tell">> /\ LoginOrder # <<"tell">>
BY DEF CheckOrder, LoginOrder

LEMMA Bound ==
    /\ 0 \in 0 .. MaxLogins
    /\ \A n \in 0 .. MaxLogins : n < MaxLogins => n + 1 \in 1 .. MaxLogins
    /\ \A n \in 1 .. MaxLogins : n \in 0 .. MaxLogins /\ n # 0
<1>1. MaxLogins \in Nat
  BY UpdateAssumption, Zenon
<1> QED
  BY <1>1

LEMMA NoticeInitial == UpdateInit => NoticeIInv
<1> SUFFICES ASSUME UpdateInit PROVE NoticeIInv
  OBVIOUS
<1>1. notified \in [1 .. MaxLogins -> SUBSET Tags]
  <2>1. \A n \in 1 .. MaxLogins : {} \in SUBSET Tags
    OBVIOUS
  <2> QED
    BY <2>1 DEF UpdateInit
<1>2. 0 \in 0 .. MaxLogins
  BY Bound
<1>3. toCheck = <<>> /\ toLogin = <<>> /\ up = FALSE /\ latestKnown = ""
  BY DEF UpdateInit
<1>4. UpdateTypeOK
  BY <1>1, <1>2 DEF UpdateInit, UpdateTypeOK
<1>5. Notice
  BY <1>3, Steps DEF Notice
<1> QED
  BY <1>4, <1>5 DEF NoticeIInv

LEMMA NoticeStep == NoticeIInv /\ [UpdateNext]_updateVars => NoticeIInv'
<1> SUFFICES ASSUME NoticeIInv, [UpdateNext]_updateVars PROVE NoticeIInv'
  OBVIOUS
<1> USE Steps, Bound DEF NoticeIInv, UpdateTypeOK, Notice, checkVars, loginVars
<1>1. CASE UNCHANGED updateVars
  BY <1>1 DEF updateVars
<1>2. ASSUME NEW t \in Tags, Release(t) PROVE NoticeIInv'
  BY <1>2 DEF Release
<1>3. CASE Fetch
  <2>1. toCheck' = CheckOrder /\ fetched' = latest /\ toCheck' # <<"notify">>
    BY <1>3 DEF Fetch
  <2>2. UNCHANGED <<latest, latestKnown, loginVars, notified>> /\ toCheck # <<"notify">>
    BY <1>3 DEF Fetch
  <2> QED
    BY <2>1, <2>2
<1>4. CASE Record
  <2>1. toCheck = CheckOrder /\ fetched \in Tags
    BY <1>4 DEF Record, CheckDoes
  <2>2. UNCHANGED <<latest, fetched, loginVars, notified>> /\ latestKnown' = fetched
    BY <1>4 DEF Record
  <2>3. CASE fetched # latestKnown
    <3>1. toCheck' = <<"notify">>
      BY <1>4, <2>1, <2>3 DEF Record
    <3> QED
      BY <2>1, <2>2, <3>1
  <2>4. CASE fetched = latestKnown
    <3>1. toCheck' = <<>> /\ latestKnown' = latestKnown
      BY <1>4, <2>2, <2>4 DEF Record
    <3> QED
      BY <2>1, <2>2, <3>1
  <2> QED
    BY <2>3, <2>4
<1>5. CASE Notify
  <2>1. toCheck = <<"notify">> /\ toCheck' = <<>> /\ fetched \in Tags /\ fetched = latestKnown
    BY <1>5 DEF Notify, CheckDoes
  <2>2. UNCHANGED <<latest, latestKnown, fetched, loginVars>>
    BY <1>5 DEF Notify
  <2>3. notified' \in [1 .. MaxLogins -> SUBSET Tags]
    BY <1>5, <2>1 DEF Notify
  <2>4. up /\ toLogin = <<>> => latestKnown \in notified'[logins]
    BY <1>5, <2>1 DEF Notify
  <2> QED
    BY <2>1, <2>2, <2>3, <2>4
<1>6. CASE LoginBegins
  <2>1. toLogin' = LoginOrder /\ toLogin' # <<>> /\ up'
    BY <1>6 DEF LoginBegins
  <2>2. UNCHANGED <<latest, checkVars, sendFn, notified>>
    BY <1>6 DEF LoginBegins
  <2>3. logins' \in 1 .. MaxLogins
    BY <1>6 DEF LoginBegins
  <2> QED
    BY <2>1, <2>2, <2>3
<1>7. CASE Install
  BY <1>7 DEF Install, LoginDoes
<1>8. CASE SendInfo
  BY <1>8 DEF SendInfo, LoginDoes
<1>9. CASE SendInfoFails
  BY <1>9 DEF SendInfoFails, LoginDoes
<1>10. CASE TellKnown
  <2>1. toLogin = <<"tell">> /\ toLogin' = <<>> /\ up
    BY <1>10 DEF TellKnown, LoginDoes
  <2>2. UNCHANGED <<latest, checkVars, logins, up, sendFn>>
    BY <1>10 DEF TellKnown
  <2>3. /\ notified' \in [1 .. MaxLogins -> SUBSET Tags]
        /\ latestKnown # "" => latestKnown \in notified'[logins]
    BY <1>10, <2>1 DEF TellKnown
  <2> QED
    BY <2>1, <2>2, <2>3
<1>11. CASE LoginEnds
  <2>1. UNCHANGED <<latest, checkVars, logins, toLogin, notified>> /\ toLogin = <<>>
    BY <1>11 DEF LoginEnds
  <2>2. up' = FALSE /\ sendFn' = 0
    BY <1>11 DEF LoginEnds
  <2>3. 0 \in 0 .. MaxLogins
    BY Bound
  <2> QED
    BY <2>1, <2>2, <2>3
<1> QED
  BY <1>1, <1>2, <1>3, <1>4, <1>5, <1>6, <1>7, <1>8, <1>9, <1>10, <1>11 DEF UpdateNext

\* No update is kept from the backend (agent.go:109), for any releases and connections.
THEOREM UpdateTold == UpdateSpec => []NoticeGiven
<1>1. NoticeIInv => NoticeGiven
  BY Steps DEF NoticeIInv, Notice, NoticeGiven
<1> QED
  BY <1>1, NoticeInitial, NoticeStep, PTL DEF UpdateSpec

-----------------------------------------------------------------------------
(* One privileged action at a time.                                        *)

\* Whoever has a process, or children of it that hold its output, has the helper's mutex, and
\* keeps it until cmd.Run has seen the last of both.
Mutex ==
    /\ main \in [Jobs -> {"none", "runs", "done", "killed"}] /\ kids \subseteq Jobs
    /\ conn \in [Actions -> {"none", "asked", "queued", "runs", "result", "rejected"}]
    /\ holder \in Actions \cup {0}
    /\ \A a \in Actions : main[a] = "runs" \/ a \in kids => holder = a
    /\ \A a \in Actions : conn[a] = "runs" => holder = a

LEMMA MutexInitial == HandlerInit => Mutex
BY DEF HandlerInit, CmdInit, Mutex, Jobs

LEMMA MutexStep == Mutex /\ [HandlerNext]_handlerVars => Mutex'
<1> SUFFICES ASSUME Mutex, [HandlerNext]_handlerVars PROVE Mutex'
  OBVIOUS
<1>0. 0 \notin Actions /\ \A c \in Commands : c \notin Actions
  BY CommandAssumption
<1> USE DEF Mutex
<1>1. CASE UNCHANGED cmdVars
  BY <1>1 DEF cmdVars, procVars
<1>2. ASSUME NEW j \in Jobs, ProcStep(j) PROVE Mutex'
  <2>1. UNCHANGED <<conn, holder>>
    BY <1>2 DEF ProcStep
  <2>2. /\ main' \in [Jobs -> {"none", "runs", "done", "killed"}] /\ kids' \subseteq Jobs
        /\ \A a \in Actions : main'[a] = "runs" \/ a \in kids' =>
                main[a] = "runs" \/ a \in kids
    BY <1>2 DEF ProcStep, Fork, Exit, Kill, KidsEnd, Jobs
  <2> QED
    BY <2>1, <2>2
<1>3. ASSUME NEW c \in Commands, OnExec(c) PROVE Mutex'
  <2>1. main' = [main EXCEPT ![c] = "runs"] /\ UNCHANGED <<kids, conn, holder>>
    BY <1>3 DEF OnExec, Begin
  <2> QED
    BY <2>1, <1>0 DEF Jobs
<1>4. ASSUME NEW c \in Commands, CommandStep(c) PROVE Mutex'
  BY <1>4 DEF CommandStep, ExecResult, procVars
<1>5. ASSUME NEW a \in Actions, OnSysAction(a) \/ ClientDeadline(a) PROVE Mutex'
  BY <1>5 DEF OnSysAction, ClientDeadline, procVars
<1>6. ASSUME NEW a \in Actions, ActionStep(a) PROVE Mutex'
  <2>1. CASE Unavailable(a) \/ ReadAnswer(a)
    BY <2>1 DEF Unavailable, ReadAnswer, procVars
  <2>2. CASE Dial(a) \/ HandleConn(a)
    BY <2>2 DEF Dial, HandleConn, Resolved, procVars
  <2>3. CASE ExecPlan(a)
    BY <2>3, <1>0 DEF ExecPlan, Begin, Jobs
  <2>4. CASE WriteResp(a)
    BY <2>4 DEF WriteResp, RunReturns, Over, procVars
  <2> QED
    BY <1>6, <2>1, <2>2, <2>3, <2>4 DEF ActionStep
<1> QED
  BY <1>1, <1>2, <1>3, <1>4, <1>5, <1>6 DEF HandlerNext, handlerVars, CmdNext

\* The processes of two privileged actions never meet (helper.go:59), with any number of
\* actions and whatever their children do.
THEOREM ActionsAlone == HandlerSpec => []OneActionAtATime
<1>1. Mutex => OneActionAtATime
  <2> SUFFICES ASSUME Mutex PROVE OneActionAtATime
    OBVIOUS
  <2> DEFINE Active == {a \in Actions : main[a] = "runs" \/ a \in kids}
  <2>1. Active \subseteq {holder}
    BY DEF Mutex
  <2>2. IsFiniteSet({holder}) /\ Cardinality({holder}) = 1
    BY FS_Singleton
  <2>3. Cardinality(Active) <= Cardinality({holder})
    BY <2>1, <2>2, FS_Subset
  <2> QED
    BY <2>2, <2>3 DEF OneActionAtATime
<1> QED
  BY <1>1, MutexInitial, MutexStep, PTL DEF HandlerSpec

-----------------------------------------------------------------------------
(* No shell is lost.                                                       *)

Registers(n) == reader = In("register", n)
Kills(n) == reader = In("kill", n)

\* A session has one shell that matters: what is registered under its id is read by a
\* readLoop of its own, and an earlier shell of the same id is over with its readLoop.
Shelf ==
    /\ sess \in [Sessions -> Shells \cup {0}] /\ owner \in [Shells -> Sessions \cup {0}]
    /\ bash \in [Shells -> {"none", "runs", "exited", "reaped"}]
    /\ loop \in [Shells -> {"none", "read", "kill", "tell", "end"}]
    /\ victim \in [Shells -> Shells \cup {0}] /\ shutAt \in Shells \cup {0}
    /\ ended \subseteq Sessions
    /\ \A s \in Sessions : sess[s] # 0 => owner[sess[s]] = s /\ loop[sess[s]] = "read"
    /\ \A n \in Shells : owner[n] \in ended => loop[n] = "end"
    /\ \A n, m \in Shells :
          n # m /\ owner[n] = owner[m] /\ owner[n] # 0 => loop[n] = "end" \/ loop[m] = "end"
    /\ \A n \in Shells : owner[n] = 0 => bash[n] \in {"none", "reaped"} /\ loop[n] = "none"
    /\ \A n \in Shells : Registers(n) => loop[n] = "none" /\ owner[n] # 0
    /\ \A n \in Shells : victim[n] # 0 => victim[n] = n /\ loop[n] = "kill"

Kept ==
    \A n \in Shells :
        bash[n] \in {"runs", "exited"} =>
            \/ sess[owner[n]] = n \/ Registers(n) \/ Kills(n)
            \/ shutAt = n \/ victim[n] = n

ShellIInv == Shelf /\ Kept

LEMMA Calls ==
    /\ \A c, d, x, y : In(c, x) = In(d, y) <=> c = d /\ x = y
    /\ \A c, x : In(c, x) = Free <=> c = "none" /\ x = 0
BY DEF In, Free

\* what the reader goroutine may go through with neither call in its hands
LEMMA OtherCalls ==
    ASSUME reader = Free \/ \E x : reader = In("write", x)
    PROVE  \A n \in Shells : ~Registers(n) /\ ~Kills(n)
BY Calls DEF Registers, Kills

LEMMA ShellFacts == 0 \notin Sessions /\ 0 \notin Shells
BY TerminalAssumption DEF Shells

LEMMA ShellInitial == HandlerInit => ShellIInv
BY ShellFacts, Calls DEF HandlerInit, TermInit, ShellIInv, Shelf, Kept, Registers, Kills

\* A step of the reader goroutine that leaves the terminals alone.
LEMMA ReaderElsewhere ==
    ASSUME ShellIInv, UNCHANGED termVars,
           \A n \in Shells : (Registers(n)' <=> Registers(n)) /\ (Kills(n)' <=> Kills(n))
    PROVE  ShellIInv'
BY DEF ShellIInv, Shelf, Kept, termVars, shellVars, shutVars

LEMMA CommandsElsewhere ==
    ASSUME ShellIInv, CmdNext
    PROVE  ShellIInv'
<1>1. UNCHANGED termVars
  BY DEF CmdNext
<1>2. reader' = reader
  BY DEF CmdNext, ProcStep, OnExec, CommandStep, ExecResult, OnSysAction, ActionStep,
         ClientDeadline, Unavailable, Dial, ReadAnswer, HandleConn, ExecPlan, WriteResp
<1> QED
  BY <1>1, <1>2, ReaderElsewhere DEF Registers, Kills

LEMMA ReaderKeeps ==
    ASSUME ShellIInv, NEW s, NEW n,
           \/ s \in Sessions /\ n \in Shells /\ PtyStart(s, n)
           \/ s \in Sessions /\ (PtyData(s) \/ PtyClose(s))
           \/ n \in Shells /\ ReaderStep(n)
    PROVE  ShellIInv'
<1> USE ShellFacts DEF ShellIInv, Shelf, Kept, shellVars, shutVars
<1>1. ASSUME s \in Sessions, n \in Shells, PtyStart(s, n) PROVE ShellIInv'
  <2>1. \A m \in Shells : ~Registers(m) /\ ~Kills(m)
    BY <1>1, OtherCalls DEF PtyStart
  <2>2. \A m \in Shells : (Registers(m)' <=> m = n) /\ ~Kills(m)'
    BY <1>1, Calls DEF PtyStart, Registers, Kills
  <2>3. \A m \in Shells : owner[m] = s => loop[m] = "end"
    BY <1>1 DEF PtyStart, Usable
  <2>4. /\ owner[n] = 0 /\ owner' = [owner EXCEPT ![n] = s]
        /\ bash' = [bash EXCEPT ![n] = "runs"] /\ ended' = ended \ {s}
        /\ UNCHANGED <<sess, loop, victim, shutAt>>
    BY <1>1 DEF PtyStart
  <2>5. Shelf'
    BY <1>1, <2>2, <2>3, <2>4
  <2>6. Kept'
    BY <1>1, <2>1, <2>2, <2>4
  <2> QED
    BY <2>5, <2>6
<1>2. ASSUME n \in Shells, PtyRegister(n) PROVE ShellIInv'
  <2>1. \A m \in Shells : (Registers(m) <=> m = n) /\ ~Kills(m)
    BY <1>2, Calls DEF PtyRegister, Registers, Kills
  <2>2. \A m \in Shells : ~Registers(m)' /\ ~Kills(m)'
    BY <1>2, Calls DEF PtyRegister, Registers, Kills
  <2>3. /\ sess' = [sess EXCEPT ![owner[n]] = n] /\ loop' = [loop EXCEPT ![n] = "read"]
        /\ UNCHANGED <<owner, bash, ended, victim, shutAt>>
    BY <1>2 DEF PtyRegister
  <2>4. owner[n] \in Sessions /\ loop[n] = "none" /\ sess[owner[n]] = 0
    BY <1>2, <2>1
  <2>5. Shelf'
    BY <1>2, <2>2, <2>3, <2>4
  <2>6. Kept'
    BY <1>2, <2>1, <2>2, <2>3, <2>4
  <2> QED
    BY <2>5, <2>6
<1>3. ASSUME s \in Sessions, PtyData(s) PROVE ShellIInv'
  <2>1. \A m \in Shells : ~Registers(m) /\ ~Kills(m)
    BY <1>3, OtherCalls DEF PtyData
  <2>2. \A m \in Shells : ~Registers(m)' /\ ~Kills(m)'
    BY <1>3, Calls DEF PtyData, Registers, Kills
  <2>3. UNCHANGED <<sess, owner, bash, loop, victim, shutAt, ended>>
    BY <1>3 DEF PtyData
  <2> QED
    BY <1>3, <2>1, <2>2, <2>3
<1>4. ASSUME n \in Shells, PtyWrite(n) PROVE ShellIInv'
  <2>1. \A m \in Shells : ~Registers(m) /\ ~Kills(m)
    BY <1>4, OtherCalls DEF PtyWrite
  <2>2. \A m \in Shells : ~Registers(m)' /\ ~Kills(m)'
    BY <1>4, Calls DEF PtyWrite, Registers, Kills
  <2>3. UNCHANGED <<sess, owner, bash, loop, victim, shutAt, ended>>
    BY <1>4 DEF PtyWrite
  <2> QED
    BY <1>4, <2>1, <2>2, <2>3
<1>5. ASSUME s \in Sessions, PtyClose(s) PROVE ShellIInv'
  <2>1. \A m \in Shells : ~Registers(m) /\ ~Kills(m)
    BY <1>5, OtherCalls DEF PtyClose
  <2>2. \A m \in Shells : ~Registers(m)' /\ (Kills(m)' <=> m = sess[s])
    BY <1>5, Calls DEF PtyClose, Registers, Kills
  <2>3. /\ sess' = [sess EXCEPT ![s] = 0]
        /\ UNCHANGED <<owner, bash, loop, victim, shutAt, ended>>
    BY <1>5 DEF PtyClose, Taken
  <2> QED
    BY <1>5, <2>1, <2>2, <2>3
<1>6. ASSUME n \in Shells, PtyKill(n) PROVE ShellIInv'
  <2>1. \A m \in Shells : ~Registers(m) /\ (Kills(m) <=> m = n)
    BY <1>6, Calls DEF PtyKill, Registers, Kills
  <2>2. \A m \in Shells : ~Registers(m)' /\ ~Kills(m)'
    BY <1>6, Calls DEF PtyKill, Registers, Kills
  <2>3. /\ bash' = [bash EXCEPT ![n] = "reaped"]
        /\ UNCHANGED <<sess, owner, loop, victim, shutAt, ended>>
    BY <1>6 DEF PtyKill, Killed
  <2> QED
    BY <1>6, <2>1, <2>2, <2>3
<1> QED
  BY <1>1, <1>2, <1>3, <1>4, <1>5, <1>6 DEF ReaderStep

LEMMA LoopKeeps ==
    ASSUME ShellIInv, NEW n \in Shells,
           ShellReads(n) \/ ShellExits(n) \/ LoopTakes(n) \/ LoopKills(n) \/ LoopTells(n)
    PROVE  ShellIInv'
<1>1. \A m \in Shells : (Registers(m)' <=> Registers(m)) /\ (Kills(m)' <=> Kills(m))
  BY DEF ShellReads, ShellExits, LoopTakes, LoopKills, LoopTells, Registers, Kills
<1> USE ShellFacts, <1>1 DEF ShellIInv, Shelf, Kept, shellVars, shutVars
<1>2. CASE ShellReads(n) \/ ShellExits(n)
  BY <1>2 DEF ShellReads, ShellExits
<1>3. CASE LoopTakes(n)
  <2>1. owner[n] \in Sessions /\ (sess[owner[n]] = 0 \/ sess[owner[n]] = n)
    BY <1>3 DEF LoopTakes
  <2>2. /\ sess' = [sess EXCEPT ![owner[n]] = 0]
        /\ victim' = [victim EXCEPT ![n] = sess[owner[n]]]
        /\ loop[n] = "read" /\ loop' = [loop EXCEPT ![n] = "kill"]
        /\ UNCHANGED <<owner, bash, shutAt, ended>>
    BY <1>3 DEF LoopTakes, Taken
  <2>3. Shelf'
    BY <2>1, <2>2
  <2>4. Kept'
    BY <2>1, <2>2
  <2> QED
    BY <2>3, <2>4
<1>4. CASE LoopKills(n)
  BY <1>4 DEF LoopKills, Killed
<1>5. CASE LoopTells(n)
  BY <1>5 DEF LoopTells
<1> QED
  BY <1>2, <1>3, <1>4, <1>5

LEMMA ShutdownKeeps ==
    ASSUME ShellIInv, Unlink \/ Relink \/ ShutdownStep
    PROVE  ShellIInv'
<1>1. \A m \in Shells : (Registers(m)' <=> Registers(m)) /\ (Kills(m)' <=> Kills(m))
  BY DEF Unlink, Relink, ShutdownStep, ShutdownTakes, ShutdownKills, Registers, Kills
<1> USE ShellFacts, <1>1 DEF ShellIInv, Shelf, Kept, shellVars, shutVars
<1>2. CASE Unlink \/ Relink
  BY <1>2 DEF Unlink, Relink, termVars
<1>3. CASE ShutdownKills
  BY <1>3 DEF ShutdownKills, Killed
<1>4. ASSUME NEW s \in Sessions, ShutdownTakes(s) PROVE ShellIInv'
  BY <1>4 DEF ShutdownTakes, Taken
<1> QED
  BY <1>2, <1>3, <1>4 DEF ShutdownStep

LEMMA ShellStep == ShellIInv /\ [HandlerNext]_handlerVars => ShellIInv'
<1> SUFFICES ASSUME ShellIInv, [HandlerNext]_handlerVars PROVE ShellIInv'
  OBVIOUS
<1>1. CASE UNCHANGED handlerVars
  BY <1>1, ReaderElsewhere DEF handlerVars, Registers, Kills
<1>2. CASE CmdNext
  BY <1>2, CommandsElsewhere
<1>3. CASE TermNext
  <2>1. CASE \E s \in Sessions : PtyData(s) \/ PtyClose(s) \/ \E n \in Shells : PtyStart(s, n)
    BY <2>1, ReaderKeeps
  <2>2. CASE \E n \in Shells : ReaderStep(n)
    BY <2>2, ReaderKeeps
  <2>3. CASE \E n \in Shells : LoopStep(n) \/ ShellReads(n) \/ ShellExits(n)
    BY <2>3, LoopKeeps DEF LoopStep
  <2> QED
    BY <1>3, <2>1, <2>2, <2>3, ShutdownKeeps DEF TermNext, HandlerStep
<1> QED
  BY <1>1, <1>2, <1>3 DEF HandlerNext

\* Cleanup by the readLoop, by pty_close and by Shutdown, in any interleaving, leaves no shell
\* behind and never takes another one's (terminal.go:137).
THEOREM NoShellLost == HandlerSpec => []NoStrayShell
<1>1. ShellIInv => NoStrayShell
  BY ShellFacts DEF ShellIInv, Shelf, Kept, NoStrayShell, InHands, Registers, Kills
<1> QED
  BY <1>1, ShellInitial, ShellStep, PTL DEF HandlerSpec

-----------------------------------------------------------------------------
(* Dumps and restores.  A dump is reported as made at the end of a chain:   *)
(* its tool ended well while everything was copied (CopiedAll), so the file *)
(* that is closed is whole (StatWhole).  What is whole stays so, as only a  *)
(* dump that was not reported yet writes (Unreported).                      *)

\* A tool that ended well, of a dump whose copy did not fail, has said all.
CopiedAll ==
    \A d \in Dumps : dump[d] = "copy" /\ tool[d] = "ok" =>
        parts[d] = Parts /\ (d \in MongoDumps => d \in closed)

StatWhole == \A d \in Dumps : dump[d] = "stat" => Complete(d)

Unreported ==
    /\ \A d \in Dumps : dump[d] # "end" => verdict[d] = "none"
    /\ \A d \in Dumps : dump[d] = "new" => d \notin named
    /\ \A r \in Restores : restore[r] # "end" => verdict[r] = "none"

\* A restore that began with a dump reported as made reads one.
SoundSource ==
    \A r \in Restores :
        /\ restore[r] = "feed" => source[r] \in Dumps
        /\ restore[r] = "feed" /\ r \in sound => verdict[source[r]] = "ok"
        /\ restore[r] = "new" => r \notin sound

DumpIInv == DumpTypeOK /\ CopiedAll /\ StatWhole /\ Unreported /\ SoundSource /\ ReportsHold

LEMMA DumpInitial == DumpInit => DumpIInv
BY DumpAssumption
   DEF DumpInit, DumpIInv, DumpTypeOK, CopiedAll, StatWhole, Unreported, SoundSource,
       ReportsHold, Complete, Requests

\* Types are kept by every step.
LEMMA DumpTypes == DumpIInv /\ [DumpNext]_dumpVars => DumpTypeOK'
<1> SUFFICES ASSUME DumpIInv, [DumpNext]_dumpVars PROVE DumpTypeOK'
  OBVIOUS
<1> USE DumpAssumption DEF DumpIInv, DumpTypeOK, Requests, fileVars, restoreVars
<1>1. CASE UNCHANGED dumpVars
  BY <1>1 DEF dumpVars
<1>2. ASSUME NEW d \in Dumps, DumpStep(d) PROVE DumpTypeOK'
  <2>1. CASE DumpStart(d) \/ DumpNotStarted(d)
    BY <2>1 DEF DumpStart, DumpNotStarted
  <2>2. CASE DumpCopy(d) \/ DumpCopyFails(d)
    BY <2>2 DEF DumpCopy, DumpCopyFails
  <2>3. CASE ToolSucceeds(d) \/ ToolFails(d)
    BY <2>3 DEF ToolSucceeds, ToolFails
  <2>4. CASE CloseGzip(d)
    BY <2>4 DEF CloseGzip
  <2>5. CASE DumpRemove(d) \/ DumpStat(d) \/ DumpDelete(d)
    BY <2>5 DEF DumpRemove, DumpStat, DumpDelete
  <2> QED
    BY <1>2, <2>1, <2>2, <2>3, <2>4, <2>5 DEF DumpStep
<1>3. ASSUME NEW r \in Restores, RestoreStep(r) PROVE DumpTypeOK'
  <2>1. ASSUME NEW d \in Dumps, RestoreOpen(r, d) PROVE DumpTypeOK'
    BY <2>1 DEF RestoreOpen
  <2>2. CASE RestoreFeed(r)
    <3>1. source[r] \in Dumps /\ fed[r] + 1 \in 0 .. Parts
      BY <2>2 DEF RestoreFeed, SoundSource
    <3> QED
      BY <2>2, <3>1 DEF RestoreFeed
  <2>3. CASE RestoreDone(r) \/ RestoreFails(r)
    BY <2>3 DEF RestoreDone, RestoreFails, RestoreEnds
  <2> QED
    BY <1>3, <2>1, <2>2, <2>3 DEF RestoreStep
<1>4. CASE DumpCrash
  BY <1>4 DEF DumpCrash
<1> QED
  BY <1>1, <1>2, <1>3, <1>4 DEF DumpNext

\* What the properties say of dumps, under the step of a dump.
LEMMA DumpSteps ==
    ASSUME DumpIInv, NEW d \in Dumps, DumpStep(d)
    PROVE  CopiedAll' /\ StatWhole' /\ Unreported' /\ SoundSource' /\ ReportsHold'
<1> USE DumpAssumption DEF DumpIInv, DumpTypeOK, CopiedAll, StatWhole, Unreported, SoundSource,
        ReportsHold, Complete, Requests, fileVars, restoreVars
<1>1. CASE DumpStart(d)
  BY <1>1 DEF DumpStart
<1>2. CASE DumpNotStarted(d)
  BY <1>2 DEF DumpNotStarted
<1>3. CASE DumpCopy(d)
  BY <1>3 DEF DumpCopy
<1>4. CASE DumpCopyFails(d)
  BY <1>4 DEF DumpCopyFails
<1>5. CASE ToolSucceeds(d)
  BY <1>5 DEF ToolSucceeds
<1>6. CASE ToolFails(d)
  BY <1>6 DEF ToolFails
<1>7. CASE CloseGzip(d)
  BY <1>7 DEF CloseGzip, DumpSound
<1>8. CASE DumpRemove(d)
  BY <1>8 DEF DumpRemove
<1>9. CASE DumpStat(d)
  BY <1>9 DEF DumpStat
<1>10. CASE DumpDelete(d)
  BY <1>10 DEF DumpDelete
<1> QED
  BY <1>1, <1>2, <1>3, <1>4, <1>5, <1>6, <1>7, <1>8, <1>9, <1>10 DEF DumpStep

\* A restore writes no file: what was whole when it opened it is whole at its end.
LEMMA RestoreSteps ==
    ASSUME DumpIInv, NEW r \in Restores, RestoreStep(r)
    PROVE  CopiedAll' /\ StatWhole' /\ Unreported' /\ SoundSource' /\ ReportsHold'
<1> USE DumpAssumption DEF DumpIInv, DumpTypeOK, CopiedAll, StatWhole, Unreported, SoundSource,
        ReportsHold, Complete, Requests, fileVars, restoreVars
<1>1. ASSUME NEW d \in Dumps, RestoreOpen(r, d)
      PROVE  CopiedAll' /\ StatWhole' /\ Unreported' /\ SoundSource' /\ ReportsHold'
  BY <1>1 DEF RestoreOpen
<1>2. CASE RestoreFeed(r)
  BY <1>2 DEF RestoreFeed
<1>3. CASE RestoreDone(r)
  BY <1>3 DEF RestoreDone, RestoreEnds
<1>4. CASE RestoreFails(r)
  BY <1>4 DEF RestoreFails, RestoreEnds
<1> QED
  BY <1>1, <1>2, <1>3, <1>4 DEF RestoreStep

LEMMA DumpInvariance == DumpSpec => []DumpIInv
<1>1. DumpIInv /\ [DumpNext]_dumpVars => DumpIInv'
  <2> SUFFICES ASSUME DumpIInv, [DumpNext]_dumpVars PROVE DumpIInv'
    OBVIOUS
  <2>1. DumpTypeOK'
    BY DumpTypes
  <2>2. CASE UNCHANGED dumpVars
    BY <2>1, <2>2 DEF DumpIInv, CopiedAll, StatWhole, Unreported, SoundSource, ReportsHold,
                      Complete, dumpVars, fileVars, restoreVars
  <2>3. CASE DumpCrash
    BY <2>1, <2>3 DEF DumpCrash, DumpIInv, DumpTypeOK, CopiedAll, StatWhole, Unreported,
                      SoundSource, ReportsHold, Complete, fileVars, restoreVars
  <2> QED
    BY <2>1, <2>2, <2>3, DumpSteps, RestoreSteps DEF DumpNext, DumpIInv
<1> QED
  BY DumpInitial, <1>1, PTL DEF DumpSpec

\* What internal/database/backup.go tells the backend of dumps and restores is so, for any
\* number of requests under way, deletions and crashes.
THEOREM DumpReports == DumpSpec => []ReportsHold
<1> QED
  BY DumpInvariance, PTL DEF DumpIInv

-----------------------------------------------------------------------------
(* The log collector.                                                      *)

Fols ==
    [pc : {"none", "run", "follow", "wait", "pause", "end"}, runs : BOOLEAN,
     pos : 0 .. MaxEntries + 1, scans : BOOLEAN,
     lines : Seq(1 .. MaxEntries), pending : Seq(1 .. MaxEntries)]

Fol(pc, runs, pos, scans, lines, pending) ==
    [pc |-> pc, runs |-> runs, pos |-> pos, scans |-> scans, lines |-> lines,
     pending |-> pending]

\* The scanner is never ahead of the journal, and the goroutines of a connection that is
\* still to come have done nothing.
Scanned ==
    /\ Len(journal) <= MaxEntries /\ (live => link # 0)
    /\ \A g \in Links :
          /\ fol[g].pos <= Len(journal) + 1
          /\ fol[g].runs => fol[g].pos # 0
          /\ g > link => fol[g] = Idle

LogIInv == LogTypeOK /\ Scanned /\ NoLineLost

LEMMA LogConstants ==
    /\ MaxEntries \in Nat /\ MaxLinks \in Nat \ {0} /\ MaxExits \in Nat
    /\ LineSlots \in Nat \ {0} /\ BatchLines \in Nat \ {0} /\ Backlog \in Nat
BY LogAssumption

\* What is in a sequence of entries.
LEMMA NoEntries == ASSUME NEW s, s = <<>> PROVE Entries(s) = {}
BY DEF Entries

LEMMA EntriesAppend ==
    ASSUME NEW S, NEW s \in Seq(S), NEW x \in S
    PROVE  Append(s, x) \in Seq(S) /\ Entries(Append(s, x)) = Entries(s) \cup {x}
<1>1. /\ Append(s, x) \in Seq(S) /\ Len(Append(s, x)) = Len(s) + 1
      /\ Append(s, x)[Len(s) + 1] = x /\ \A i \in 1 .. Len(s) : Append(s, x)[i] = s[i]
  BY AppendProperties
<1>2. /\ Len(s) \in Nat /\ DOMAIN s = 1 .. Len(s)
      /\ DOMAIN Append(s, x) = 1 .. Len(s) + 1
  BY <1>1, LenProperties
<1>3. Entries(Append(s, x)) \subseteq Entries(s) \cup {x}
  BY <1>1, <1>2 DEF Entries
<1>4. x \in Entries(Append(s, x))
  BY <1>1, <1>2 DEF Entries
<1>5. Entries(s) \subseteq Entries(Append(s, x))
  BY <1>1, <1>2 DEF Entries
<1> QED
  BY <1>1, <1>3, <1>4, <1>5

LEMMA EntryAppended ==
    ASSUME NEW s \in Seq(1 .. MaxEntries), NEW x \in 1 .. MaxEntries
    PROVE  /\ Append(s, x) \in Seq(1 .. MaxEntries) /\ Len(Append(s, x)) = Len(s) + 1
           /\ Entries(Append(s, x)) = Entries(s) \cup {x}
<1>1. PICK S : S = 1 .. MaxEntries
  OBVIOUS
<1>2. s \in Seq(S) /\ x \in S
  BY <1>1
<1>3. Append(s, x) \in Seq(S) /\ Entries(Append(s, x)) = Entries(s) \cup {x}
  BY <1>2, EntriesAppend
<1>4. Len(Append(s, x)) = Len(s) + 1
  BY <1>2, AppendProperties
<1> QED
  BY <1>1, <1>3, <1>4

LEMMA EntriesHead ==
    ASSUME NEW S, NEW s \in Seq(S), s # <<>>
    PROVE  /\ Head(s) \in S /\ Tail(s) \in Seq(S) /\ Len(Tail(s)) = Len(s) - 1
           /\ Entries(s) = {Head(s)} \cup Entries(Tail(s))
<1>1. Head(s) \in S /\ Tail(s) \in Seq(S) /\ Len(Tail(s)) = Len(s) - 1
      /\ \A i \in 1 .. Len(Tail(s)) : Tail(s)[i] = s[i+1]
  BY HeadTailProperties
<1>2. /\ Len(s) \in Nat /\ DOMAIN s = 1 .. Len(s) /\ DOMAIN Tail(s) = 1 .. Len(s) - 1
      /\ Len(s) # 0
  BY <1>1, LenProperties, EmptySeq
<1>3. Head(s) = s[1]
  OBVIOUS
<1>4. ASSUME NEW i \in DOMAIN s PROVE s[i] \in {Head(s)} \cup Entries(Tail(s))
  <2>1. CASE i = 1
    BY <1>3, <2>1
  <2>2. CASE i # 1
    <3>1. i - 1 \in DOMAIN Tail(s) /\ Tail(s)[i-1] = s[i]
      BY <1>1, <1>2, <2>2
    <3> QED
      BY <3>1 DEF Entries
  <2> QED
    BY <2>1, <2>2
<1>5. ASSUME NEW i \in DOMAIN Tail(s) PROVE Tail(s)[i] \in Entries(s)
  <2>1. i + 1 \in DOMAIN s /\ Tail(s)[i] = s[i+1]
    BY <1>1, <1>2
  <2> QED
    BY <2>1 DEF Entries
<1>6. Head(s) \in Entries(s)
  BY <1>2, <1>3 DEF Entries
<1>7. Entries(s) \subseteq {Head(s)} \cup Entries(Tail(s))
  BY <1>4 DEF Entries
<1>8. Entries(Tail(s)) \subseteq Entries(s)
  BY <1>5 DEF Entries
<1> QED
  BY <1>1, <1>6, <1>7, <1>8

LEMMA EntriesTyped == ASSUME NEW S, NEW s \in Seq(S) PROVE Entries(s) \subseteq S
BY DEF Entries

LEMMA FolTyped ==
    ASSUME LogTypeOK
    PROVE  /\ fol \in [Links -> Fols] /\ journal \in Seq(Kinds) /\ Len(journal) \in Nat
           /\ link \in Nat /\ link <= MaxLinks
           /\ \A g \in Links :
                 /\ g \in Nat \ {0} /\ fol[g] \in Fols
                 /\ fol[g].pc \in {"none", "run", "follow", "wait", "pause", "end"}
                 /\ fol[g].runs \in BOOLEAN /\ fol[g].scans \in BOOLEAN
                 /\ fol[g].pos \in Nat /\ fol[g].pos <= MaxEntries + 1
                 /\ fol[g].lines \in Seq(1 .. MaxEntries)
                 /\ fol[g].pending \in Seq(1 .. MaxEntries)
                 /\ Len(fol[g].lines) \in Nat /\ Len(fol[g].pending) \in Nat
<1>1. fol \in [Links -> Fols] /\ journal \in Seq(Kinds)
  BY DEF LogTypeOK, Fols
<1>2. link \in Nat /\ link <= MaxLinks
  BY LogConstants DEF LogTypeOK
<1>3. Len(journal) \in Nat
  BY <1>1, LenProperties
<1>4. ASSUME NEW g \in Links
      PROVE  /\ g \in Nat \ {0} /\ fol[g] \in Fols
             /\ fol[g].pc \in {"none", "run", "follow", "wait", "pause", "end"}
             /\ fol[g].runs \in BOOLEAN /\ fol[g].scans \in BOOLEAN
             /\ fol[g].pos \in 0 .. MaxEntries + 1
             /\ fol[g].lines \in Seq(1 .. MaxEntries)
             /\ fol[g].pending \in Seq(1 .. MaxEntries)
  <2>1. fol[g] \in Fols
    BY <1>1
  <2>2. g \in Nat \ {0}
    BY LogConstants DEF Links
  <2> QED
    BY <2>1, <2>2 DEF Fols
<1>5. ASSUME NEW g \in Links
      PROVE  /\ fol[g].pos \in Nat /\ fol[g].pos <= MaxEntries + 1
             /\ Len(fol[g].lines) \in Nat /\ Len(fol[g].pending) \in Nat
  BY <1>4, LogConstants, LenProperties
<1> QED
  BY <1>1, <1>2, <1>3, <1>4, <1>5

\* What an assignment to a field or several of a connection's record makes of it.
LEMMA FolFields ==
    ASSUME NEW a, NEW b, NEW c, NEW d, NEW e, NEW f, NEW x
    PROVE  /\ [Fol(a, b, c, d, e, f) EXCEPT !.pc = x] = Fol(x, b, c, d, e, f)
           /\ [Fol(a, b, c, d, e, f) EXCEPT !.runs = x] = Fol(a, x, c, d, e, f)
           /\ [Fol(a, b, c, d, e, f) EXCEPT !.pos = x] = Fol(a, b, x, d, e, f)
           /\ [Fol(a, b, c, d, e, f) EXCEPT !.scans = x] = Fol(a, b, c, x, e, f)
           /\ [Fol(a, b, c, d, e, f) EXCEPT !.lines = x] = Fol(a, b, c, d, x, f)
           /\ [Fol(a, b, c, d, e, f) EXCEPT !.pending = x] = Fol(a, b, c, d, e, x)
           /\ Fol(a, b, c, d, e, f).pc = a /\ Fol(a, b, c, d, e, f).runs = b
           /\ Fol(a, b, c, d, e, f).pos = c /\ Fol(a, b, c, d, e, f).scans = d
           /\ Fol(a, b, c, d, e, f).lines = e /\ Fol(a, b, c, d, e, f).pending = f
BY DEF Fol

SetPc(r, pc) == [r EXCEPT !.pc = pc]
SetRuns(r, runs) == [r EXCEPT !.runs = runs]
SetScans(r, scans) == [r EXCEPT !.scans = scans]
SetPending(r, pending) == [r EXCEPT !.pending = pending]
SetScanned(r, pos, lines, scans) == [r EXCEPT !.pos = pos, !.lines = lines, !.scans = scans]
SetGathered(r, lines, pending) == [r EXCEPT !.lines = lines, !.pending = pending]
SetEnded(r, pc, pending, scans, lines) ==
    [r EXCEPT !.pc = pc, !.pending = pending, !.scans = scans, !.lines = lines]
SetBegun(r, pc, runs, pos, scans) ==
    [r EXCEPT !.pc = pc, !.runs = runs, !.pos = pos, !.scans = scans]

LEMMA FolExcept ==
    ASSUME NEW r \in Fols
    PROVE  /\ \A x : SetRuns(r, x) = Fol(r.pc, x, r.pos, r.scans, r.lines, r.pending)
           /\ \A x : SetScans(r, x) = Fol(r.pc, r.runs, r.pos, x, r.lines, r.pending)
           /\ \A x : SetPc(r, x) = Fol(x, r.runs, r.pos, r.scans, r.lines, r.pending)
           /\ \A x : SetPending(r, x) = Fol(r.pc, r.runs, r.pos, r.scans, r.lines, x)
           /\ \A x, y, z : SetScanned(r, x, y, z) = Fol(r.pc, r.runs, x, z, y, r.pending)
           /\ \A x, y : SetGathered(r, x, y) = Fol(r.pc, r.runs, r.pos, r.scans, x, y)
           /\ \A x, y, z, t : SetEnded(r, x, y, z, t) = Fol(x, r.runs, r.pos, z, t, y)
           /\ \A x, y, z, t : SetBegun(r, x, y, z, t) = Fol(x, y, z, t, r.lines, r.pending)
<1>1. PICK a, b, c, d, e, f : r = Fol(a, b, c, d, e, f)
  BY DEF Fols, Fol
<1>2. r.pc = a /\ r.runs = b /\ r.pos = c /\ r.scans = d /\ r.lines = e /\ r.pending = f
  BY <1>1, FolFields
<1>3. ASSUME NEW x
      PROVE  /\ SetRuns(r, x) = Fol(a, x, c, d, e, f)
             /\ SetScans(r, x) = Fol(a, b, c, x, e, f)
             /\ SetPc(r, x) = Fol(x, b, c, d, e, f)
             /\ SetPending(r, x) = Fol(a, b, c, d, e, x)
  BY <1>1 DEF Fol, SetRuns, SetScans, SetPc, SetPending
<1>4. ASSUME NEW x, NEW y, NEW z
      PROVE  SetScanned(r, x, y, z) = Fol(a, b, x, z, y, f)
  <2>1. [r EXCEPT !.pos = x] = Fol(a, b, x, d, e, f)
    BY <1>1 DEF Fol
  <2>2. /\ [Fol(a, b, x, d, e, f) EXCEPT !.lines = y] = Fol(a, b, x, d, y, f)
        /\ [Fol(a, b, x, d, y, f) EXCEPT !.scans = z] = Fol(a, b, x, z, y, f)
    BY DEF Fol
  <2>3. [[[r EXCEPT !.pos = x] EXCEPT !.lines = y] EXCEPT !.scans = z] = Fol(a, b, x, z, y, f)
    BY <2>1, <2>2
  <2> QED
    BY ONLY <2>3 DEF SetScanned
<1>5. ASSUME NEW x, NEW y PROVE SetGathered(r, x, y) = Fol(a, b, c, d, x, y)
  <2>1. [r EXCEPT !.lines = x] = Fol(a, b, c, d, x, f)
    BY <1>1 DEF Fol
  <2>2. [Fol(a, b, c, d, x, f) EXCEPT !.pending = y] = Fol(a, b, c, d, x, y)
    BY DEF Fol
  <2>3. [[r EXCEPT !.lines = x] EXCEPT !.pending = y] = Fol(a, b, c, d, x, y)
    BY <2>1, <2>2
  <2> QED
    BY ONLY <2>3 DEF SetGathered
<1>6. ASSUME NEW x, NEW y, NEW z, NEW t
      PROVE  SetEnded(r, x, y, z, t) = Fol(x, b, c, z, t, y)
  <2>1. [r EXCEPT !.pc = x] = Fol(x, b, c, d, e, f)
    BY <1>1 DEF Fol
  <2>2. /\ [Fol(x, b, c, d, e, f) EXCEPT !.pending = y] = Fol(x, b, c, d, e, y)
        /\ [Fol(x, b, c, d, e, y) EXCEPT !.scans = z] = Fol(x, b, c, z, e, y)
        /\ [Fol(x, b, c, z, e, y) EXCEPT !.lines = t] = Fol(x, b, c, z, t, y)
    BY DEF Fol
  <2>3. [[[[r EXCEPT !.pc = x] EXCEPT !.pending = y] EXCEPT !.scans = z] EXCEPT !.lines = t] =
            Fol(x, b, c, z, t, y)
    BY <2>1, <2>2
  <2> QED
    BY ONLY <2>3 DEF SetEnded
<1>7. ASSUME NEW x, NEW y, NEW z, NEW t
      PROVE  SetBegun(r, x, y, z, t) = Fol(x, y, z, t, e, f)
  <2>1. [r EXCEPT !.pc = x] = Fol(x, b, c, d, e, f)
    BY <1>1 DEF Fol
  <2>2. /\ [Fol(x, b, c, d, e, f) EXCEPT !.runs = y] = Fol(x, y, c, d, e, f)
        /\ [Fol(x, y, c, d, e, f) EXCEPT !.pos = z] = Fol(x, y, z, d, e, f)
        /\ [Fol(x, y, z, d, e, f) EXCEPT !.scans = t] = Fol(x, y, z, t, e, f)
    BY DEF Fol
  <2>3. [[[[r EXCEPT !.pc = x] EXCEPT !.runs = y] EXCEPT !.pos = z] EXCEPT !.scans = t] =
            Fol(x, y, z, t, e, f)
    BY <2>1, <2>2
  <2> QED
    BY ONLY <2>3 DEF SetBegun
<1> QED
  BY ONLY <1>2, <1>3, <1>4, <1>5, <1>6, <1>7

LEMMA IdleTyped ==
    /\ Idle \in Fols /\ Idle.runs = FALSE /\ Idle.pos = 0 /\ Idle.scans = FALSE
    /\ Idle.lines = <<>> /\ Idle.pending = <<>>
BY LogConstants DEF Idle, Fols

\* What a step of the goroutines of one connection leaves alone, or adds to.
Apart ==
    /\ UNCHANGED <<journal, link, live>> /\ exits' \in 0 .. MaxExits
    /\ sent \subseteq sent' /\ sent' \subseteq 1 .. MaxEntries
    /\ skipped \subseteq skipped' /\ skipped' \subseteq 1 .. MaxEntries

\* Where the scanner has come to, no line is lost after the step.
Held(g, pos, lines, pending) ==
    live /\ g = link => \A i \in 1 .. pos - 1 : journal[i] = "line" =>
        i \in sent' \cup skipped' \cup Entries(lines) \cup Entries(pending)

\* The connection's record after the step.
Becomes(g, pc, runs, pos, scans, lines, pending) ==
    fol' = [fol EXCEPT ![g] = Fol(pc, runs, pos, scans, lines, pending)]

\* A step of the goroutines of one connection.
LEMMA OneMoves ==
    ASSUME LogIInv, NEW g \in Links, g <= link,
           NEW pc \in {"none", "run", "follow", "wait", "pause", "end"}, NEW runs \in BOOLEAN,
           NEW pos \in Nat, NEW scans \in BOOLEAN,
           NEW lines \in Seq(1 .. MaxEntries), NEW pending \in Seq(1 .. MaxEntries),
           Becomes(g, pc, runs, pos, scans, lines, pending), Apart,
           Len(lines) <= LineSlots, Len(pending) < BatchLines,
           pos <= Len(journal) + 1, runs => pos # 0,
           Held(g, pos, lines, pending)
    PROVE  LogIInv'
<1> DEFINE r == Fol(pc, runs, pos, scans, lines, pending)
<1>0. /\ r.pc = pc /\ r.runs = runs /\ r.pos = pos /\ r.scans = scans /\ r.lines = lines
      /\ r.pending = pending
  BY DEF Fol
<1>f. r \in Fols
  <2>1. pos \in 0 .. MaxEntries + 1
    BY FolTyped, LogConstants DEF LogIInv, Scanned
  <2> QED
    BY <2>1 DEF Fols, Fol
<1> HIDE DEF r
<1>1. fol \in [Links -> Fols]
  BY FolTyped DEF LogIInv
<1>2. fol' \in [Links -> Fols] /\ fol'[g] = r /\ \A h \in Links \ {g} : fol'[h] = fol[h]
  BY <1>1, <1>f DEF r, Becomes
<1>3. \A h \in Links : Len(fol'[h].lines) <= LineSlots /\ Len(fol'[h].pending) < BatchLines
  BY <1>0, <1>2 DEF LogIInv, LogTypeOK
<1>4. LogTypeOK'
  BY <1>2, <1>3 DEF LogIInv, LogTypeOK, Fols, Apart
<1>5. ASSUME NEW h \in Links
      PROVE  /\ fol'[h].pos <= Len(journal) + 1 /\ (fol'[h].runs => fol'[h].pos # 0)
             /\ h > link => fol'[h] = Idle
  <2>1. g \in Nat /\ h \in Nat /\ link \in Nat
    BY FolTyped DEF LogIInv
  <2>2. CASE h = g
    BY <1>0, <1>2, <2>1, <2>2
  <2>3. CASE h # g
    BY <1>2, <2>3 DEF LogIInv, Scanned
  <2> QED
    BY <2>2, <2>3
<1>6. Scanned'
  BY <1>5 DEF LogIInv, Scanned, Apart
<1>7. NoLineLost'
  <2> SUFFICES ASSUME live, NEW i \in 1 .. fol'[link].pos - 1, journal[i] = "line"
               PROVE  i \in sent' \cup skipped' \cup Entries(fol'[link].lines)
                              \cup Entries(fol'[link].pending)
    BY DEF NoLineLost, Apart
  <2>1. CASE link = g
    BY <1>0, <1>2, <2>1 DEF Held
  <2>2. CASE link # g
    <3>1. link \in Nat /\ link <= MaxLinks /\ link # 0
      BY FolTyped DEF LogIInv, Scanned
    <3>2. link \in Links
      BY <3>1, LogConstants DEF Links
    <3>3. fol'[link] = fol[link]
      BY <1>2, <2>2, <3>2
    <3> QED
      BY <3>3 DEF LogIInv, NoLineLost, Apart
  <2> QED
    BY <2>1, <2>2
<1> QED
  BY <1>4, <1>6, <1>7 DEF LogIInv

\* A connection of which a goroutine has begun is one there has been.
LEMMA Begun ==
    ASSUME LogIInv, NEW g \in Links, fol[g].pc # "none" \/ fol[g].runs \/ fol[g].scans
    PROVE  g <= link
<1>1. g > link => fol[g] = Idle
  BY DEF LogIInv, Scanned
<1>2. ~(g > link)
  BY <1>1 DEF Idle
<1> QED
  BY <1>2, FolTyped DEF LogIInv

\* What holds of a connection's goroutines before the step.
LEMMA FolFacts ==
    ASSUME LogIInv, NEW g \in Links
    PROVE  /\ Len(fol[g].lines) <= LineSlots /\ Len(fol[g].pending) < BatchLines
           /\ fol[g].pos <= Len(journal) + 1 /\ (fol[g].runs => fol[g].pos # 0)
           /\ exits \in 0 .. MaxExits /\ sent \subseteq 1 .. MaxEntries
           /\ skipped \subseteq 1 .. MaxEntries /\ Len(journal) <= MaxEntries
           /\ live /\ g = link => \A i \in 1 .. fol[g].pos - 1 : journal[i] = "line" =>
                 i \in sent \cup skipped \cup Entries(fol[g].lines) \cup Entries(fol[g].pending)
BY DEF LogIInv, LogTypeOK, Scanned, NoLineLost

LEMMA SentTyped ==
    ASSUME LogIInv, NEW p \in Seq(1 .. MaxEntries)
    PROVE  /\ sent \subseteq Sent(p) /\ Sent(p) \subseteq 1 .. MaxEntries
           /\ live => Entries(p) \subseteq Sent(p)
BY EntriesTyped DEF LogIInv, LogTypeOK, Sent

LEMMA EmptyTyped == ASSUME NEW s, s = <<>> PROVE s \in Seq(1 .. MaxEntries) /\ Len(s) = 0
OBVIOUS

\* journalctl begins after the entries it skips.
LEMMA FollowKeeps == ASSUME LogIInv, NEW g \in Links, Follow(g) PROVE LogIInv'
<1> DEFINE first == IF Len(journal) > Backlog THEN Len(journal) - Backlog + 1 ELSE 1
<1>1. g <= link
  BY Begun DEF Follow
<1>t. PICK t \in BOOLEAN : t = TRUE
  OBVIOUS
<1>2. fol' = [fol EXCEPT ![g] = Fol("follow", t, first, t, <<>>, <<>>)]
  <2>1. fol' = [fol EXCEPT ![g] = [Idle EXCEPT
            !.pc = "follow", !.runs = t, !.pos = first, !.scans = t]]
    BY <1>t DEF Follow
  <2> HIDE DEF first
  <2>2. fol' = [fol EXCEPT ![g] = SetBegun(Idle, "follow", t, first, t)]
    BY ONLY <2>1 DEF SetBegun
  <2>3. SetBegun(Idle, "follow", t, first, t) =
            Fol("follow", t, first, t, Idle.lines, Idle.pending)
    BY FolExcept, IdleTyped
  <2> QED
    BY <2>2, <2>3, IdleTyped
<1>3. /\ skipped' = skipped \cup (1 .. first - 1)
      /\ UNCHANGED <<journal, link, live>> /\ exits' = exits /\ sent' = sent
  BY DEF Follow
<1>4. /\ Len(journal) \in Nat /\ Len(journal) <= MaxEntries /\ MaxEntries \in Nat
      /\ Backlog \in Nat /\ LineSlots \in Nat \ {0} /\ BatchLines \in Nat \ {0}
  BY FolTyped, LogConstants DEF LogIInv, Scanned
<1>5. first \in Nat /\ first # 0 /\ first <= Len(journal) + 1
  BY <1>4
<1> HIDE DEF first
<1>6. /\ <<>> \in Seq(1 .. MaxEntries) /\ Len(<<>>) = 0
      /\ Len(<<>>) <= LineSlots /\ Len(<<>>) < BatchLines
  BY <1>4, EmptyTyped
<1>7. /\ skipped \subseteq skipped' /\ skipped' \subseteq 1 .. MaxEntries
      /\ sent \subseteq sent' /\ sent' \subseteq 1 .. MaxEntries /\ exits' \in 0 .. MaxExits
  <2>1. 1 .. first - 1 \subseteq 1 .. MaxEntries
    BY <1>4, <1>5
  <2> QED
    BY <1>3, <2>1, FolFacts
<1>8. Held(g, first, <<>>, <<>>)
  BY <1>3 DEF Held
<1>9. Becomes(g, "follow", t, first, t, <<>>, <<>>) /\ Apart
  BY <1>2, <1>3, <1>7 DEF Becomes, Apart
<1> QED
  BY <1>1, <1>5, <1>6, <1>8, <1>9, OneMoves

\* The scanner takes what is printed next into the channel, or passes over it.
LEMMA ScanKeeps == ASSUME LogIInv, NEW g \in Links, Scan(g) PROVE LogIInv'
<1> DEFINE k == journal[fol[g].pos]
           q == IF k \in {"line", "refused"} THEN Append(fol[g].lines, fol[g].pos)
                                             ELSE fol[g].lines
<1>1. /\ fol[g] \in Fols /\ fol \in [Links -> Fols] /\ fol[g].pos \in Nat
      /\ fol[g].lines \in Seq(1 .. MaxEntries) /\ fol[g].pending \in Seq(1 .. MaxEntries)
      /\ fol[g].pc \in {"none", "run", "follow", "wait", "pause", "end"}
      /\ fol[g].runs \in BOOLEAN /\ Len(fol[g].lines) \in Nat /\ Len(journal) \in Nat
      /\ MaxEntries \in Nat /\ LineSlots \in Nat
  BY FolTyped, LogConstants DEF LogIInv
<1>2. /\ g <= link /\ fol[g].runs /\ fol[g].pos <= Len(journal)
      /\ Len(fol[g].lines) < LineSlots
      /\ UNCHANGED <<journal, link, live>> /\ exits' = exits /\ sent' = sent
      /\ skipped' = skipped
  BY Begun DEF Scan, HasInput
<1>3. PICK s \in BOOLEAN : s = (k # "huge")
  OBVIOUS
<1>4. fol' = [fol EXCEPT ![g] =
          Fol(fol[g].pc, fol[g].runs, fol[g].pos + 1, s, q, fol[g].pending)]
  <2>1. fol' = [fol EXCEPT ![g].pos = fol[g].pos + 1, ![g].lines = q, ![g].scans = s]
    BY <1>1, <1>3 DEF Scan, ScanNext
  <2> HIDE DEF q, k
  <2>2. fol' = [fol EXCEPT ![g] =
            [fol[g] EXCEPT !.pos = fol[g].pos + 1, !.lines = q, !.scans = s]]
    BY <1>1, <2>1
  <2>3. fol' = [fol EXCEPT ![g] = SetScanned(fol[g], fol[g].pos + 1, q, s)]
    BY ONLY <2>2 DEF SetScanned
  <2>4. SetScanned(fol[g], fol[g].pos + 1, q, s) =
            Fol(fol[g].pc, fol[g].runs, fol[g].pos + 1, s, q, fol[g].pending)
    BY ONLY <1>1, FolExcept
  <2> QED
    BY ONLY <2>3, <2>4
<1>5. fol[g].pos \in 1 .. MaxEntries /\ fol[g].pos + 1 <= Len(journal) + 1
      /\ fol[g].pos + 1 # 0 /\ fol[g].pos + 1 \in Nat
  BY <1>1, <1>2, FolFacts
<1>6. /\ q \in Seq(1 .. MaxEntries) /\ Len(q) <= LineSlots
      /\ Entries(fol[g].lines) \subseteq Entries(q)
      /\ k = "line" => fol[g].pos \in Entries(q)
  <2>1. CASE k \in {"line", "refused"}
    <3>1. q = Append(fol[g].lines, fol[g].pos)
      BY <2>1
    <3>2. /\ Append(fol[g].lines, fol[g].pos) \in Seq(1 .. MaxEntries)
          /\ Entries(Append(fol[g].lines, fol[g].pos)) = Entries(fol[g].lines) \cup {fol[g].pos}
      <4>1. fol[g].lines \in Seq(1 .. MaxEntries) /\ fol[g].pos \in 1 .. MaxEntries
        BY <1>1, <1>5
      <4> QED
        BY ONLY <4>1, EntryAppended
    <3>3. Len(q) = Len(fol[g].lines) + 1
      BY <1>1, <1>5, <3>1, AppendProperties
    <3> HIDE DEF q, k
    <3>4. Len(q) <= LineSlots
      BY <1>1, <1>2, <3>3
    <3> QED
      BY <3>1, <3>2, <3>4
  <2>2. CASE k \notin {"line", "refused"}
    <3>1. q = fol[g].lines /\ k # "line"
      BY <2>2
    <3> HIDE DEF q, k
    <3> QED
      BY <1>1, <1>2, <3>1
  <2> QED
    BY <2>1, <2>2
<1> HIDE DEF q
<1>7. ASSUME live, g = link, NEW i \in 1 .. (fol[g].pos + 1) - 1, journal[i] = "line"
      PROVE  i \in sent' \cup skipped' \cup Entries(q) \cup Entries(fol[g].pending)
  <2>1. CASE i = fol[g].pos
    BY <1>6, <1>7, <2>1
  <2>2. CASE i # fol[g].pos
    <3>1. i \in 1 .. fol[g].pos - 1
      BY <1>1, <2>2
    <3>2. i \in sent \cup skipped \cup Entries(fol[g].lines) \cup Entries(fol[g].pending)
      BY <1>7, <3>1, FolFacts
    <3> QED
      BY <1>2, <1>6, <3>2
  <2> QED
    BY <2>1, <2>2
<1>8. /\ Len(fol[g].pending) < BatchLines /\ exits' \in 0 .. MaxExits
      /\ sent \subseteq sent' /\ sent' \subseteq 1 .. MaxEntries
      /\ skipped \subseteq skipped' /\ skipped' \subseteq 1 .. MaxEntries
  BY <1>2, FolFacts
<1>9. Held(g, fol[g].pos + 1, q, fol[g].pending)
  BY ONLY <1>7 DEF Held
<1>10. PICK pc, runs, x, p : /\ pc = fol[g].pc /\ runs = fol[g].runs /\ x = fol[g].pos + 1
                            /\ p = fol[g].pending
  OBVIOUS
<1>11. Becomes(g, pc, runs, x, s, q, p) /\ Apart
  BY ONLY <1>2, <1>4, <1>8, <1>10 DEF Becomes, Apart
<1>12. Held(g, x, q, p)
  BY ONLY <1>9, <1>10
<1>13. /\ pc \in {"none", "run", "follow", "wait", "pause", "end"} /\ runs \in BOOLEAN
       /\ x \in Nat /\ x <= Len(journal) + 1 /\ (runs => x # 0) /\ p \in Seq(1 .. MaxEntries)
       /\ Len(p) < BatchLines
  BY ONLY <1>1, <1>5, <1>8, <1>10
<1>14. s \in BOOLEAN /\ g \in Links
  OBVIOUS
<1> QED
  BY ONLY LogIInv, <1>2, <1>6, <1>11, <1>12, <1>13, <1>14, OneMoves

\* What the goroutines of g held is held or sent after the step.
Carried(g, lines, pending) ==
    live /\ g = link => \A i \in 1 .. MaxEntries :
        journal[i] = "line" /\ i \in Entries(fol[g].lines) \cup Entries(fol[g].pending) =>
            i \in sent' \cup Entries(lines) \cup Entries(pending)

\* A step that leaves the scanner where it is keeps what it took, or sends it.
LEMMA OneKeeps ==
    ASSUME LogIInv, NEW g \in Links, g <= link,
           NEW pc \in {"none", "run", "follow", "wait", "pause", "end"}, NEW runs \in BOOLEAN,
           NEW scans \in BOOLEAN,
           NEW lines \in Seq(1 .. MaxEntries), NEW pending \in Seq(1 .. MaxEntries),
           Becomes(g, pc, runs, fol[g].pos, scans, lines, pending), Apart, skipped' = skipped,
           Len(lines) <= LineSlots, Len(pending) < BatchLines,
           runs => fol[g].runs, Carried(g, lines, pending)
    PROVE  LogIInv'
<1>1. PICK pos : pos = fol[g].pos
  OBVIOUS
<1>2. Becomes(g, pc, runs, pos, scans, lines, pending)
  BY <1>1
<1>3. pos \in Nat /\ pos <= Len(journal) + 1 /\ (runs => pos # 0)
  BY <1>1, FolTyped, FolFacts DEF LogIInv
<1>5. ASSUME live, g = link, NEW i \in 1 .. pos - 1, journal[i] = "line"
      PROVE  i \in sent' \cup skipped' \cup Entries(lines) \cup Entries(pending)
  <2>1. i \in 1 .. fol[g].pos - 1
    BY <1>1
  <2>2. i \in sent \cup skipped \cup Entries(fol[g].lines) \cup Entries(fol[g].pending)
    BY <1>5, <2>1, FolFacts
  <2>3. i \in 1 .. MaxEntries
    <3>1. Len(journal) \in Nat /\ MaxEntries \in Nat /\ Len(journal) <= MaxEntries
      BY FolTyped, FolFacts, LogConstants DEF LogIInv
    <3> QED
      BY <1>3, <3>1
  <2> QED
    BY <1>5, <2>2, <2>3 DEF Carried, Apart
<1>4. Held(g, pos, lines, pending)
  BY <1>5 DEF Held
<1>6. /\ g \in Links /\ g <= link /\ Apart
      /\ pc \in {"none", "run", "follow", "wait", "pause", "end"}
      /\ runs \in BOOLEAN /\ scans \in BOOLEAN
      /\ lines \in Seq(1 .. MaxEntries) /\ pending \in Seq(1 .. MaxEntries)
      /\ Len(lines) <= LineSlots /\ Len(pending) < BatchLines
  OBVIOUS
<1> QED
  BY ONLY LogIInv, <1>2, <1>3, <1>4, <1>6, OneMoves

LEMMA RunEndsKeeps == ASSUME LogIInv, NEW g \in Links, RunEnds(g) PROVE LogIInv'
<1>1. g <= link
  BY Begun DEF RunEnds
<1>2. /\ UNCHANGED <<journal, link, live>> /\ exits' = exits /\ sent' = sent
      /\ skipped' = skipped /\ ~(live /\ g = link)
  BY DEF RunEnds, Done
<1>3. PICK t \in BOOLEAN : t = FALSE
  OBVIOUS
<1>4. fol' = [fol EXCEPT ![g] = Fol("end", t, 0, t, <<>>, <<>>)]
  <2>1. fol' = [fol EXCEPT ![g] = SetPc(Idle, "end")]
    BY DEF RunEnds, SetPc
  <2>2. SetPc(Idle, "end") = Fol("end", Idle.runs, Idle.pos, Idle.scans, Idle.lines, Idle.pending)
    BY FolExcept, IdleTyped
  <2>3. Idle.runs = t /\ Idle.pos = 0 /\ Idle.scans = t /\ Idle.lines = <<>> /\ Idle.pending = <<>>
    BY <1>3, IdleTyped
  <2> QED
    BY ONLY <2>1, <2>2, <2>3
<1>5. /\ <<>> \in Seq(1 .. MaxEntries) /\ Len(<<>>) <= LineSlots /\ Len(<<>>) < BatchLines
      /\ 0 \in Nat /\ 0 <= Len(journal) + 1
  BY EmptyTyped, FolTyped, LogConstants DEF LogIInv
<1>6. /\ exits' \in 0 .. MaxExits /\ sent \subseteq sent' /\ sent' \subseteq 1 .. MaxEntries
      /\ skipped \subseteq skipped' /\ skipped' \subseteq 1 .. MaxEntries
  BY <1>2, FolFacts
<1>7. Becomes(g, "end", t, 0, t, <<>>, <<>>) /\ Apart /\ Held(g, 0, <<>>, <<>>)
  BY <1>2, <1>4, <1>6 DEF Becomes, Apart, Held
<1> QED
  BY <1>1, <1>3, <1>5, <1>7, OneMoves

\* What OneKeeps asks of what a step leaves as it is.
LEMMA FolKept ==
    ASSUME LogIInv, NEW g \in Links
    PROVE  /\ fol[g] \in Fols
           /\ fol[g].pc \in {"none", "run", "follow", "wait", "pause", "end"}
           /\ fol[g].runs \in BOOLEAN /\ fol[g].scans \in BOOLEAN
           /\ fol[g].lines \in Seq(1 .. MaxEntries) /\ fol[g].pending \in Seq(1 .. MaxEntries)
           /\ Len(fol[g].lines) <= LineSlots /\ Len(fol[g].pending) < BatchLines
           /\ exits \in 0 .. MaxExits /\ sent \subseteq 1 .. MaxEntries
           /\ fol \in [Links -> Fols]
BY FolTyped, FolFacts DEF LogIInv

LEMMA ExitsKeep == ASSUME LogIInv, NEW g \in Links, JournalctlExits(g) PROVE LogIInv'
<1>1. g <= link /\ fol[g].runs
  BY Begun DEF JournalctlExits
<1>2. UNCHANGED <<journal, link, live>> /\ sent' = sent /\ skipped' = skipped
  BY DEF JournalctlExits
<1>3. exits' \in 0 .. MaxExits
  BY FolKept, LogConstants DEF JournalctlExits
<1>4. PICK t \in BOOLEAN : t = FALSE
  OBVIOUS
<1>5. Becomes(g, fol[g].pc, t, fol[g].pos, fol[g].scans, fol[g].lines, fol[g].pending)
  <2>1. fol' = [fol EXCEPT ![g].runs = t]
    BY <1>4 DEF JournalctlExits
  <2>2. fol' = [fol EXCEPT ![g] = SetRuns(fol[g], t)]
    BY <2>1, FolKept DEF SetRuns
  <2> QED
    BY <2>2, FolKept, FolExcept DEF Becomes
<1>6. Carried(g, fol[g].lines, fol[g].pending)
  BY <1>2 DEF Carried
<1>7. Apart
  BY <1>2, <1>3, FolKept, FolFacts DEF Apart
<1>8. /\ g \in Links /\ t \in BOOLEAN /\ (t => fol[g].runs)
      /\ fol[g].pc \in {"none", "run", "follow", "wait", "pause", "end"}
      /\ fol[g].scans \in BOOLEAN /\ Len(fol[g].pending) < BatchLines
      /\ fol[g].lines \in Seq(1 .. MaxEntries) /\ Len(fol[g].lines) <= LineSlots
      /\ fol[g].pending \in Seq(1 .. MaxEntries)
  BY <1>4, FolKept
<1> QED
  BY ONLY LogIInv, <1>1, <1>2, <1>5, <1>6, <1>7, <1>8, OneKeeps

LEMMA ScanEndsKeeps == ASSUME LogIInv, NEW g \in Links, ScanEnds(g) PROVE LogIInv'
<1>1. g <= link
  BY Begun DEF ScanEnds
<1>2. UNCHANGED <<journal, link, live>> /\ sent' = sent /\ skipped' = skipped /\ exits' = exits
  BY DEF ScanEnds
<1>4. PICK t \in BOOLEAN : t = FALSE
  OBVIOUS
<1>5. Becomes(g, fol[g].pc, fol[g].runs, fol[g].pos, t, fol[g].lines, fol[g].pending)
  <2>1. fol' = [fol EXCEPT ![g].scans = t]
    BY <1>4 DEF ScanEnds
  <2>2. fol' = [fol EXCEPT ![g] = SetScans(fol[g], t)]
    BY <2>1, FolKept DEF SetScans
  <2> QED
    BY <2>2, FolKept, FolExcept DEF Becomes
<1>6. Carried(g, fol[g].lines, fol[g].pending)
  BY <1>2 DEF Carried
<1>7. Apart
  BY <1>2, FolKept, FolFacts DEF Apart
<1> QED
  BY <1>1, <1>2, <1>4, <1>5, <1>6, <1>7, FolKept, OneKeeps

LEMMA WaitKeeps == ASSUME LogIInv, NEW g \in Links, WaitReturns(g) \/ PauseEnds(g) PROVE LogIInv'
<1>1. g <= link
  BY Begun DEF WaitReturns, PauseEnds
<1>2. UNCHANGED <<journal, link, live>> /\ sent' = sent /\ skipped' = skipped /\ exits' = exits
  BY DEF WaitReturns, PauseEnds
<1>3. PICK pc \in {"run", "pause"} : fol' = [fol EXCEPT ![g].pc = pc]
  BY DEF WaitReturns, PauseEnds
<1>4. pc \in {"none", "run", "follow", "wait", "pause", "end"}
  OBVIOUS
<1>5. Becomes(g, pc, fol[g].runs, fol[g].pos, fol[g].scans, fol[g].lines, fol[g].pending)
  <2>2. fol' = [fol EXCEPT ![g] = SetPc(fol[g], pc)]
    BY <1>3, FolKept DEF SetPc
  <2> QED
    BY <2>2, FolKept, FolExcept DEF Becomes
<1>6. Carried(g, fol[g].lines, fol[g].pending)
  BY <1>2 DEF Carried
<1>7. Apart
  BY <1>2, FolKept, FolFacts DEF Apart
<1> QED
  BY <1>1, <1>2, <1>4, <1>5, <1>6, <1>7, FolKept, OneKeeps

LEMMA FlushKeeps == ASSUME LogIInv, NEW g \in Links, FlushTick(g) PROVE LogIInv'
<1>1. g <= link
  BY Begun DEF FlushTick
<1>2. /\ UNCHANGED <<journal, link, live>> /\ sent' = Sent(fol[g].pending)
      /\ skipped' = skipped /\ exits' = exits
  BY DEF FlushTick
<1>3. /\ sent \subseteq sent' /\ sent' \subseteq 1 .. MaxEntries
      /\ live => Entries(fol[g].pending) \subseteq sent'
  BY <1>2, FolKept, SentTyped
<1>4. PICK e : e = <<>>
  OBVIOUS
<1>5. e \in Seq(1 .. MaxEntries) /\ Len(e) < BatchLines /\ Entries(e) = {}
  BY <1>4, EmptyTyped, NoEntries, LogConstants
<1>6. Becomes(g, fol[g].pc, fol[g].runs, fol[g].pos, fol[g].scans, fol[g].lines, e)
  <2>1. fol' = [fol EXCEPT ![g].pending = e]
    BY <1>4 DEF FlushTick
  <2>2. fol' = [fol EXCEPT ![g] = SetPending(fol[g], e)]
    BY <2>1, FolKept DEF SetPending
  <2> QED
    BY <2>2, FolKept, FolExcept DEF Becomes
<1>7. Carried(g, fol[g].lines, e)
  BY <1>3 DEF Carried
<1>8. /\ g \in Links /\ exits' \in 0 .. MaxExits
      /\ fol[g].pc \in {"none", "run", "follow", "wait", "pause", "end"}
      /\ fol[g].runs \in BOOLEAN /\ fol[g].scans \in BOOLEAN
      /\ fol[g].lines \in Seq(1 .. MaxEntries) /\ Len(fol[g].lines) <= LineSlots
  BY <1>2, FolKept
<1>9. Apart
  BY <1>2, <1>3, FolKept, FolFacts DEF Apart
<1> QED
  BY ONLY LogIInv, <1>1, <1>2, <1>3, <1>5, <1>6, <1>7, <1>8, <1>9, OneKeeps

\* A line taken from the channel goes into the batch, and a full batch out.
LEMMA GatherKeeps == ASSUME LogIInv, NEW g \in Links, Gather(g) PROVE LogIInv'
<1> DEFINE e == Head(fol[g].lines)
           p == IF Collected(e) THEN Append(fol[g].pending, e) ELSE fol[g].pending
           left == IF Len(p) >= BatchLines THEN <<>> ELSE p
<1>1. g <= link
  BY Begun DEF Gather
<1>2. /\ UNCHANGED <<journal, link, live>> /\ skipped' = skipped /\ exits' = exits
      /\ fol[g].lines # <<>> /\ sent' = IF Len(p) >= BatchLines THEN Sent(p) ELSE sent
  BY DEF Gather
<1>3. Becomes(g, fol[g].pc, fol[g].runs, fol[g].pos, fol[g].scans, Tail(fol[g].lines), left)
  <2>1. fol' = [fol EXCEPT ![g].lines = Tail(fol[g].lines), ![g].pending = left]
    BY FolKept DEF Gather
  <2> HIDE DEF left
  <2>2. fol' = [fol EXCEPT ![g] = SetGathered(fol[g], Tail(fol[g].lines), left)]
    BY <2>1, FolKept DEF SetGathered
  <2>3. SetGathered(fol[g], Tail(fol[g].lines), left) =
            Fol(fol[g].pc, fol[g].runs, fol[g].pos, fol[g].scans, Tail(fol[g].lines), left)
    BY FolKept, FolExcept
  <2> QED
    BY ONLY <2>2, <2>3 DEF Becomes
<1>4. /\ e \in 1 .. MaxEntries /\ Tail(fol[g].lines) \in Seq(1 .. MaxEntries)
      /\ Len(Tail(fol[g].lines)) <= LineSlots
      /\ Entries(fol[g].lines) = {e} \cup Entries(Tail(fol[g].lines))
  <2>1. PICK S : S = 1 .. MaxEntries
    OBVIOUS
  <2>2. fol[g].lines \in Seq(S) /\ Len(fol[g].lines) <= LineSlots /\ Len(fol[g].lines) \in Nat
        /\ LineSlots \in Nat
    BY <2>1, FolKept, FolTyped, LogConstants DEF LogIInv
  <2>3. /\ Head(fol[g].lines) \in S /\ Tail(fol[g].lines) \in Seq(S)
        /\ Len(Tail(fol[g].lines)) = Len(fol[g].lines) - 1
        /\ Entries(fol[g].lines) = {Head(fol[g].lines)} \cup Entries(Tail(fol[g].lines))
    BY ONLY <1>2, <2>2, EntriesHead
  <2>4. Len(Tail(fol[g].lines)) <= LineSlots
    BY ONLY <2>2, <2>3
  <2> QED
    BY <2>1, <2>3, <2>4
<1> HIDE DEF e
<1>5. /\ p \in Seq(1 .. MaxEntries) /\ Entries(fol[g].pending) \subseteq Entries(p)
      /\ journal[e] = "line" => e \in Entries(p)
  <2>1. CASE Collected(e)
    <3>1. p = Append(fol[g].pending, e)
      BY <2>1
    <3> HIDE DEF p
    <3>2. fol[g].pending \in Seq(1 .. MaxEntries) /\ e \in 1 .. MaxEntries
      BY <1>4, FolKept
    <3>3. /\ Append(fol[g].pending, e) \in Seq(1 .. MaxEntries)
          /\ Entries(Append(fol[g].pending, e)) = Entries(fol[g].pending) \cup {e}
      BY ONLY <3>2, EntryAppended
    <3> QED
      BY <3>1, <3>3
  <2>2. CASE ~Collected(e)
    <3>1. p = fol[g].pending /\ journal[e] # "line"
      BY <2>2 DEF Collected
    <3> HIDE DEF p
    <3> QED
      BY <3>1, FolKept
  <2> QED
    BY <2>1, <2>2
<1> HIDE DEF p
<1>6. /\ left \in Seq(1 .. MaxEntries) /\ Len(left) < BatchLines
      /\ live => Entries(p) \subseteq sent' \cup Entries(left)
      /\ sent \subseteq sent' /\ sent' \subseteq 1 .. MaxEntries
  <2>0. BatchLines \in Nat \ {0} /\ Len(p) \in Nat /\ sent \subseteq 1 .. MaxEntries
    BY <1>5, LogConstants, LenProperties, FolKept
  <2>1. CASE Len(p) >= BatchLines
    <3>1. left = <<>> /\ sent' = Sent(p)
      BY <1>2, <2>1
    <3>2. left \in Seq(1 .. MaxEntries) /\ Len(left) = 0
      BY <3>1, EmptyTyped
    <3> HIDE DEF left
    <3> QED
      BY <1>5, <2>0, <3>1, <3>2, SentTyped
  <2>2. CASE Len(p) < BatchLines
    <3>1. left = p /\ sent' = sent
      BY <1>2, <2>0, <2>2
    <3> HIDE DEF left
    <3> QED
      BY <1>5, <2>0, <2>2, <3>1
  <2> QED
    BY <2>0, <2>1, <2>2
<1> HIDE DEF left
<1>7. Carried(g, Tail(fol[g].lines), left)
  BY <1>4, <1>5, <1>6 DEF Carried
<1>8. Apart
  BY <1>2, <1>6, FolKept, FolFacts DEF Apart
<1>9. PICK rest : rest = Tail(fol[g].lines)
  OBVIOUS
<1>10. /\ Carried(g, rest, left)
       /\ Becomes(g, fol[g].pc, fol[g].runs, fol[g].pos, fol[g].scans, rest, left)
       /\ rest \in Seq(1 .. MaxEntries) /\ Len(rest) <= LineSlots
  BY ONLY <1>3, <1>4, <1>7, <1>9
<1>11. /\ g \in Links /\ fol[g].runs \in BOOLEAN /\ fol[g].scans \in BOOLEAN
       /\ fol[g].pc \in {"none", "run", "follow", "wait", "pause", "end"}
  BY FolKept
<1> QED
  BY ONLY LogIInv, <1>1, <1>2, <1>6, <1>8, <1>10, <1>11, OneKeeps

\* The last flush, when there is nothing more to gather or the connection has gone.
LEMMA FollowEndsKeeps == ASSUME LogIInv, NEW g \in Links, FollowEnds(g) PROVE LogIInv'
<1>1. g <= link
  BY Begun DEF FollowEnds
<1>2. /\ UNCHANGED <<journal, link, live>> /\ skipped' = skipped /\ exits' = exits
      /\ sent' = Sent(fol[g].pending) /\ (live /\ g = link => fol[g].lines = <<>>)
  BY DEF FollowEnds, Done
<1>3. /\ sent \subseteq sent' /\ sent' \subseteq 1 .. MaxEntries
      /\ live => Entries(fol[g].pending) \subseteq sent'
  BY <1>2, FolKept, SentTyped
<1>4. PICK t \in BOOLEAN : t = FALSE
  OBVIOUS
<1>5. PICK e : e = <<>>
  OBVIOUS
<1>6. /\ e \in Seq(1 .. MaxEntries) /\ Len(e) < BatchLines /\ Len(e) <= LineSlots
      /\ Entries(e) = {}
  BY <1>5, EmptyTyped, NoEntries, LogConstants
<1>7. Becomes(g, "wait", fol[g].runs, fol[g].pos, t, e, e)
  <2>1. fol' = [fol EXCEPT ![g].pc = "wait", ![g].pending = e, ![g].scans = t, ![g].lines = e]
    BY <1>4, <1>5 DEF FollowEnds
  <2>2. fol' = [fol EXCEPT ![g] = SetEnded(fol[g], "wait", e, t, e)]
    BY <2>1, FolKept DEF SetEnded
  <2>3. SetEnded(fol[g], "wait", e, t, e) = Fol("wait", fol[g].runs, fol[g].pos, t, e, e)
    BY FolKept, FolExcept
  <2> QED
    BY ONLY <2>2, <2>3 DEF Becomes
<1>8. Carried(g, e, e)
  BY <1>2, <1>3, NoEntries DEF Carried
<1>9. /\ g \in Links /\ exits' \in 0 .. MaxExits /\ fol[g].runs \in BOOLEAN /\ t \in BOOLEAN
      /\ "wait" \in {"none", "run", "follow", "wait", "pause", "end"}
  BY <1>2, FolKept
<1>10. Apart
  BY <1>2, <1>3, FolKept, FolFacts DEF Apart
<1> QED
  BY ONLY LogIInv, <1>1, <1>2, <1>3, <1>6, <1>7, <1>8, <1>9, <1>10, OneKeeps

\* An entry more in the journal changes none of those before it.
LEMMA EmitKeeps == ASSUME LogIInv, NEW k \in Kinds, LogEmit(k) PROVE LogIInv'
<1>1. /\ UNCHANGED <<link, live, fol, exits, sent, skipped>> /\ journal' = Append(journal, k)
      /\ Len(journal) < MaxEntries
  BY DEF LogEmit
<1>2. /\ journal' \in Seq(Kinds) /\ Len(journal') = Len(journal) + 1
      /\ \A i \in 1 .. Len(journal) : journal'[i] = journal[i]
  <2>1. journal \in Seq(Kinds)
    BY FolTyped DEF LogIInv
  <2> QED
    BY <1>1, <2>1, AppendProperties
<1>3. Len(journal) \in Nat /\ MaxEntries \in Nat
  BY FolTyped, LogConstants DEF LogIInv
<1>4. LogTypeOK'
  BY <1>1, <1>2 DEF LogIInv, LogTypeOK
<1>5. Scanned'
  <2>1. Len(journal') <= MaxEntries /\ (live' => link' # 0)
    BY <1>1, <1>2, <1>3 DEF LogIInv, Scanned
  <2>2. ASSUME NEW g \in Links
        PROVE  /\ fol'[g].pos <= Len(journal') + 1 /\ (fol'[g].runs => fol'[g].pos # 0)
               /\ g > link' => fol'[g] = Idle
    <3>1. fol[g].pos \in Nat /\ fol[g].pos <= Len(journal) + 1
      BY FolTyped DEF LogIInv, Scanned
    <3>2. fol'[g].pos <= Len(journal') + 1
      BY <1>1, <1>2, <1>3, <3>1
    <3> QED
      BY <1>1, <3>2 DEF LogIInv, Scanned
  <2> QED
    BY <2>1, <2>2 DEF Scanned
<1>6. NoLineLost'
  <2> SUFFICES ASSUME live, NEW i \in 1 .. fol[link].pos - 1, journal'[i] = "line"
               PROVE  i \in sent \cup skipped \cup Entries(fol[link].lines)
                              \cup Entries(fol[link].pending)
    BY <1>1 DEF NoLineLost
  <2>1. link \in Nat /\ link <= MaxLinks /\ link # 0
    BY FolTyped DEF LogIInv, Scanned
  <2>2. link \in Links
    BY <2>1, LogConstants DEF Links
  <2>3. fol[link].pos \in Nat /\ fol[link].pos <= Len(journal) + 1
    BY <2>2, FolTyped DEF LogIInv, Scanned
  <2>4. i \in 1 .. Len(journal)
    BY <1>3, <2>3
  <2>5. journal[i] = "line"
    BY <1>2, <2>4
  <2> QED
    BY <2>5 DEF LogIInv, NoLineLost
<1> QED
  BY <1>4, <1>5, <1>6 DEF LogIInv

\* A connection begins where nothing has been printed.
LEMMA ConnectKeeps == ASSUME LogIInv, LogConnect PROVE LogIInv'
<1>1. /\ UNCHANGED <<journal, exits, sent, skipped>> /\ link' = link + 1 /\ live' = TRUE
      /\ fol' = [fol EXCEPT ![link + 1].pc = "run"] /\ link < MaxLinks
  BY DEF LogConnect
<1>2. link \in Nat /\ MaxLinks \in Nat /\ fol \in [Links -> Fols]
  BY FolTyped, LogConstants DEF LogIInv
<1>3. link + 1 \in Links /\ fol[link + 1] = Idle /\ link' \in 0 .. MaxLinks
  <2>1. link + 1 \in Links
    BY <1>1, <1>2 DEF Links
  <2> QED
    BY <1>1, <1>2, <2>1 DEF LogIInv, Scanned
<1>4. PICK n : n = link + 1
  OBVIOUS
<1>5. PICK r : /\ r = Fol("run", Idle.runs, Idle.pos, Idle.scans, Idle.lines, Idle.pending)
  OBVIOUS
<1>6. /\ r \in Fols /\ r.pos = 0 /\ r.runs = FALSE /\ r.lines = <<>> /\ r.pending = <<>>
  <2>1. /\ r.pos = Idle.pos /\ r.runs = Idle.runs /\ r.lines = Idle.lines
        /\ r.pending = Idle.pending
    BY <1>5 DEF Fol
  <2>2. r \in Fols
    BY <1>5, IdleTyped, EmptyTyped, LogConstants DEF Fol, Fols
  <2> QED
    BY <2>1, <2>2, IdleTyped
<1>7. fol' = [fol EXCEPT ![n] = r]
  <2>1. fol' = [fol EXCEPT ![n] = SetPc(fol[n], "run")]
    BY <1>1, <1>4 DEF SetPc
  <2> QED
    BY <1>3, <1>4, <1>5, <2>1, IdleTyped, FolExcept
<1>8. fol' \in [Links -> Fols] /\ fol'[n] = r /\ \A h \in Links \ {n} : fol'[h] = fol[h]
  BY <1>2, <1>3, <1>4, <1>6, <1>7
<1>9. LogTypeOK'
  <2>1. Len(r.lines) <= LineSlots /\ Len(r.pending) < BatchLines
    BY <1>6, EmptyTyped, LogConstants
  <2>2. \A h \in Links : Len(fol'[h].lines) <= LineSlots /\ Len(fol'[h].pending) < BatchLines
    BY <1>8, <2>1 DEF LogIInv, LogTypeOK
  <2> QED
    BY <1>1, <1>3, <1>8, <2>2 DEF LogIInv, LogTypeOK, Fols
<1>10. Scanned'
  <2>1. ASSUME NEW h \in Links
        PROVE  /\ fol'[h].pos <= Len(journal') + 1 /\ (fol'[h].runs => fol'[h].pos # 0)
               /\ h > link' => fol'[h] = Idle
    <3>1. h \in Nat /\ Len(journal) \in Nat
      BY FolTyped DEF LogIInv
    <3>2. CASE h = n
      <4>1. fol'[h].pos = 0 /\ ~fol'[h].runs
        BY <1>6, <1>8, <3>2
      <4>2. 0 <= Len(journal') + 1 /\ ~(h > link')
        BY <1>1, <1>2, <1>4, <3>1, <3>2
      <4> QED
        BY <4>1, <4>2
    <3>3. CASE h # n
      <4>1. fol'[h] = fol[h] /\ (h > link' => h > link)
        BY <1>1, <1>2, <1>8, <3>1, <3>3
      <4> QED
        BY <1>1, <4>1 DEF LogIInv, Scanned
    <3> QED
      BY <3>2, <3>3
  <2> QED
    BY <1>1, <1>2, <2>1 DEF LogIInv, Scanned
<1>11. NoLineLost'
  <2>1. fol'[link'].pos = 0
    BY <1>1, <1>4, <1>6, <1>8
  <2>2. 1 .. fol'[link'].pos - 1 = {}
    BY <2>1
  <2> QED
    BY <2>2 DEF NoLineLost
<1> QED
  BY <1>9, <1>10, <1>11 DEF LogIInv

\* Together: in every reachable state.
LEMMA LogInitially == LogInit => LogIInv
<1> SUFFICES ASSUME LogInit PROVE LogIInv
  OBVIOUS
<1>1. /\ journal = <<>> /\ link = 0 /\ live = FALSE /\ fol = [g \in Links |-> Idle]
      /\ exits = 0 /\ sent = {} /\ skipped = {}
  BY DEF LogInit
<1>2. fol \in [Links -> Fols] /\ \A g \in Links : fol[g] = Idle
  BY <1>1, IdleTyped
<1>3. journal \in Seq(Kinds) /\ Len(journal) = 0
  BY <1>1
<1>4. \A g \in Links : Len(fol[g].lines) <= LineSlots /\ Len(fol[g].pending) < BatchLines
  BY <1>2, IdleTyped, EmptyTyped, LogConstants
<1>5. LogTypeOK
  <2>1. link \in 0 .. MaxLinks /\ exits \in 0 .. MaxExits
    <3>1. link = 0 /\ exits = 0
      BY <1>1
    <3> QED
      BY <3>1, LogConstants
  <2>2. live \in BOOLEAN
    BY <1>1
  <2>3. sent \subseteq 1 .. MaxEntries /\ skipped \subseteq 1 .. MaxEntries
    BY <1>1
  <2> QED
    BY <1>2, <1>3, <1>4, <2>1, <2>2, <2>3 DEF LogTypeOK, Fols
<1>6. Scanned
  BY <1>1, <1>2, <1>3, IdleTyped, LogConstants DEF Scanned
<1>7. NoLineLost
  BY <1>1 DEF NoLineLost
<1> QED
  BY <1>5, <1>6, <1>7 DEF LogIInv

LEMMA LogInvariance == LogSpec => []LogIInv
<1>1. LogIInv /\ [LogNext]_logVars => LogIInv'
  <2> SUFFICES ASSUME LogIInv, [LogNext]_logVars PROVE LogIInv'
    OBVIOUS
  <2>1. ASSUME NEW k \in Kinds, LogEmit(k) PROVE LogIInv'
    BY <2>1, EmitKeeps
  <2>2. CASE LogConnect
    BY <2>2, ConnectKeeps
  <2>3. CASE LogDisconnect
    BY <2>3 DEF LogDisconnect, LogIInv, LogTypeOK, Scanned, NoLineLost
  <2>4. ASSUME NEW g \in Links, RunStep(g) PROVE LogIInv'
    BY <2>4, FollowKeeps, RunEndsKeeps, GatherKeeps, FollowEndsKeeps, WaitKeeps DEF RunStep
  <2>5. ASSUME NEW g \in Links, ScanStep(g) PROVE LogIInv'
    BY <2>5, ScanKeeps, ScanEndsKeeps DEF ScanStep
  <2>6. ASSUME NEW g \in Links, FlushTick(g) PROVE LogIInv'
    BY <2>6, FlushKeeps
  <2>7. ASSUME NEW g \in Links, JournalctlExits(g) PROVE LogIInv'
    BY <2>7, ExitsKeep
  <2>8. CASE UNCHANGED logVars
    BY <2>8 DEF logVars, LogIInv, LogTypeOK, Scanned, NoLineLost
  <2> QED
    BY <2>1, <2>2, <2>3, <2>4, <2>5, <2>6, <2>7, <2>8 DEF LogNext
<1> QED
  BY LogInitially, <1>1, PTL DEF LogSpec

\* In every reachable state neither the channel nor a batch is longer than its capacity, and
\* every variable has its type (collector.go:111, 166-203).
THEOREM LogTypes == LogSpec => []LogTypeOK
<1>1. LogIInv => LogTypeOK
  BY DEF LogIInv
<1> QED
  BY <1>1, LogInvariance, PTL

\* No line a connection's journalctl has printed is lost while the connection is up, however
\* many entries, connections and ends of journalctl there are (collector.go:149-203).
THEOREM LinesKept == LogSpec => []NoLineLost
<1>1. LogIInv => NoLineLost
  BY DEF LogIInv
<1> QED
  BY <1>1, LogInvariance, PTL

==============================================================================
