------------------------ MODULE AgentConnectionProofs ------------------------
(***************************************************************************)
(* Proofs about AgentConnection: every send function is handed over and    *)
(* taken back (SendIsCurrent), Shutdown misses no session                  *)
(* (ShutdownIsComplete), and what the client does is what AgentLink says   *)
(* (Refinement), for any number of connections, faults and starts.         *)
(*                                                                         *)
(* None is inductive.  SendIsCurrent needs how far OnDisconnect has got    *)
(* (Handover), ShutdownIsComplete that nothing belongs to a connection that*)
(* has not been dialled yet (Dialled), and Refinement an invariant of its  *)
(* own about the current connection (LinkInv, below).                      *)
(***************************************************************************)
EXTENDS AgentConnection, TLAPS

Runs == {"dial", "onconnect", "serve", "ondisconnect", "cancel", "close", "wait", "stopped"}

Between == {"cancel", "close", "wait", "dial", "stopped"}

Typed ==
    /\ run \in Runs
    /\ step \in 1 .. 11
    /\ run = "ondisconnect" => step \in 1 .. 10
    /\ gen \in 0 .. MaxFaults + 1
    /\ send \in [Holders -> Nat]
    /\ reader \in [Conns -> {"off", "read", "end"} \cup Kinds]
    /\ sessions \in [Kinds -> SUBSET Conns]
    /\ starting \subseteq Conns

\* Which send functions are gone, and when.
Handover ==
    /\ \A h \in Holders : send[h] \in {0, gen}
    /\ run \in Between => \A h \in Holders : send[h] = 0
    /\ run = "ondisconnect" =>
         \A i \in 1 .. 10 : i < step /\ DisconnectOrder[i][1] = "unset"
                              => send[DisconnectOrder[i][2]] = 0

\* Whatever belongs to a connection belongs to one that was dialled.
Dialled ==
    /\ \A k \in Kinds : \A g \in sessions[k] : g <= gen
    /\ \A g \in Conns : reader[g] # "off" => g <= gen
    /\ \A g \in starting : g <= gen

IInv == Typed /\ Handover /\ Dialled /\ ShutdownIsComplete

-----------------------------------------------------------------------------
(* The orders in which OnConnect and OnDisconnect go.                      *)

LEMMA ConnectSteps ==
    Len(ConnectOrder) = 6 /\ \A i \in 1 .. 6 : ConnectOrder[i] \in Holders
BY DEF ConnectOrder, Holders, Kinds

LEMMA DisconnectSteps ==
    /\ Len(DisconnectOrder) = 10
    /\ \A i \in 1 .. 10 : DisconnectOrder[i][2] \in Holders
    /\ \A h \in Holders : \E i \in 1 .. 9 :
          DisconnectOrder[i][1] = "unset" /\ DisconnectOrder[i][2] = h
<1>1. Len(DisconnectOrder) = 10
  BY DEF DisconnectOrder
<1>2. \A i \in 1 .. 10 : DisconnectOrder[i][2] \in Holders
  BY DEF DisconnectOrder, Holders, Kinds
<1>3. /\ DisconnectOrder[1] = <<"unset", "agent">>
      /\ DisconnectOrder[2] = <<"unset", "tunnels">>
      /\ DisconnectOrder[4] = <<"unset", "terminals">>
      /\ DisconnectOrder[6] = <<"unset", "databases">>
      /\ DisconnectOrder[7] = <<"unset", "logs">>
      /\ DisconnectOrder[9] = <<"unset", "migrations">>
  BY DEF DisconnectOrder
<1>4. ASSUME NEW h \in Holders
      PROVE  \E i \in 1 .. 9 : DisconnectOrder[i][1] = "unset" /\ DisconnectOrder[i][2] = h
  BY <1>3, <1>4 DEF Holders, Kinds
<1> QED
  BY <1>1, <1>2, <1>4

\* The shutdown of each manager is one step of OnDisconnect and the only one.
LEMMA ShutdownSteps ==
    /\ \A k \in Kinds : ShutdownStep(k) \in 1 .. 10
    /\ \A i \in 1 .. 10 : \A k \in Kinds :
          (DisconnectOrder[i][1] = "shutdown" /\ DisconnectOrder[i][2] = k)
            <=> i = ShutdownStep(k)
<1>1. /\ DisconnectOrder[3] = <<"shutdown", "tunnels">>
      /\ DisconnectOrder[5] = <<"shutdown", "terminals">>
      /\ DisconnectOrder[10] = <<"shutdown", "migrations">>
      /\ \A i \in {1, 2, 4, 6, 7, 8, 9} : DisconnectOrder[i][1] # "shutdown"
      /\ \A i \in 1 .. 10 : DisconnectOrder[i] = <<DisconnectOrder[i][1], DisconnectOrder[i][2]>>
  BY DEF DisconnectOrder
<1>2. Len(DisconnectOrder) = 10
  BY DisconnectSteps
<1>3. ASSUME NEW k \in Kinds
      PROVE  /\ ShutdownStep(k) \in 1 .. 10
             /\ DisconnectOrder[ShutdownStep(k)] = <<"shutdown", k>>
  <2>1. \E i \in 1 .. Len(DisconnectOrder) : DisconnectOrder[i] = <<"shutdown", k>>
    BY <1>1, <1>2, <1>3 DEF Kinds
  <2> QED
    BY <2>1, <1>2 DEF ShutdownStep
<1>4. ASSUME NEW i \in 1 .. 10, NEW j \in 1 .. 10, NEW k \in Kinds,
             DisconnectOrder[i] = <<"shutdown", k>>, DisconnectOrder[j] = <<"shutdown", k>>
      PROVE  i = j
  <2>1. i \in {3, 5, 10} /\ j \in {3, 5, 10}
    BY <1>1, <1>4
  <2> QED
    BY <1>1, <1>4, <2>1
<1>5. ASSUME NEW i \in 1 .. 10, NEW k \in Kinds
      PROVE  (DisconnectOrder[i][1] = "shutdown" /\ DisconnectOrder[i][2] = k)
               <=> i = ShutdownStep(k)
  <2>1. ASSUME DisconnectOrder[i][1] = "shutdown", DisconnectOrder[i][2] = k
        PROVE  i = ShutdownStep(k)
    <3>1. \A x \in 1 .. 10 : DisconnectOrder[x] = <<DisconnectOrder[x][1], DisconnectOrder[x][2]>>
      BY <1>1
    <3>2. DisconnectOrder[i] = <<"shutdown", k>>
      BY <2>1, <3>1
    <3> QED
      BY <1>3, <1>4, <3>2
  <2>2. ASSUME i = ShutdownStep(k)
        PROVE  DisconnectOrder[i][1] = "shutdown" /\ DisconnectOrder[i][2] = k
    BY <1>3, <2>2
  <2> QED
    BY <2>1, <2>2
<1> QED
  BY <1>3, <1>5

-----------------------------------------------------------------------------
(* The three parts of the invariant, one step at a time.                   *)

LEMMA InitIInv == Init => IInv
BY AgentAssumption DEF Init, IInv, Typed, Handover, Dialled, ShutdownIsComplete, Runs, Between,
   Conns, Holders, Kinds

LEMMA TypedStep == Typed /\ [Next]_vars => Typed'
<1> SUFFICES ASSUME Typed, [Next]_vars PROVE Typed'
  OBVIOUS
<1> USE AgentAssumption, ConnectSteps, DisconnectSteps DEF Typed, Runs
<1>1. CASE Dial
  <2>1. gen' \in 0 .. MaxFaults + 1
    BY <1>1 DEF Dial, Conns
  <2> QED
    BY <1>1, <2>1 DEF Dial, sessVars
<1>2. CASE DialFails
  BY <1>2 DEF DialFails, sessVars
<1>3. CASE Retry
  BY <1>3 DEF Retry, sessVars
<1>4. CASE Return
  BY <1>4 DEF Return, sessVars
<1>5. CASE SetSend
  <2>1. step \in 1 .. 6 /\ step' = step + 1
    BY <1>5 DEF SetSend
  <2>2. send' \in [Holders -> Nat]
    BY <1>5 DEF SetSend
  <2> QED
    BY <1>5, <2>1, <2>2 DEF SetSend, sessVars
<1>6. CASE StartLogs
  BY <1>6 DEF StartLogs, sessVars
<1>7. CASE Greet
  BY <1>7 DEF Greet
<1>8. CASE Leave
  BY <1>8 DEF Leave, sessVars
<1>9. CASE DisconnectStep
  <2>1. step \in 1 .. 10 /\ step' = step + 1 /\ run' = IF step = 10 THEN "cancel" ELSE run
    BY <1>9 DEF DisconnectStep
  <2>2. send' \in [Holders -> Nat]
    BY <1>9 DEF DisconnectStep
  <2>3. sessions' \in [Kinds -> SUBSET Conns]
    BY <1>9 DEF DisconnectStep, Shut
  <2> QED
    BY <1>9, <2>1, <2>2, <2>3 DEF DisconnectStep
<1>10. CASE CancelConn
  BY <1>10 DEF CancelConn, sessVars
<1>11. CASE CloseConn
  BY <1>11 DEF CloseConn, sessVars
<1>12. CASE Drop \/ Quit
  BY <1>12 DEF Drop, Quit, runVars, sessVars
<1>13. CASE \E g \in Conns : Reader(g)
  <2> PICK g \in Conns : Reader(g)
    BY <1>13
  <2>1. CASE StartArrives(g)
    BY <2>1 DEF StartArrives, runVars
  <2>2. CASE Handle(g)
    BY <2>2 DEF Handle, Registered, runVars
  <2>3. CASE HandleAsync(g)
    BY <2>3 DEF HandleAsync, runVars
  <2>4. CASE ReadFails(g)
    BY <2>4 DEF ReadFails, runVars
  <2> QED
    BY <2>1, <2>2, <2>3, <2>4 DEF Reader
<1>14. CASE \E g \in Conns : ReadTimeout(g)
  BY <1>14 DEF ReadTimeout, runVars
<1>15. CASE \E g \in Conns : StartSource(g)
  BY <1>15 DEF StartSource, Registered, runVars, Kinds
<1>16. CASE \E g \in Conns : DrainerEnds(g) \/ LoopEnds(g)
  BY <1>16 DEF DrainerEnds, LoopEnds, runVars, sessVars
<1>17. CASE \E g \in Conns : \E k \in Kinds : SessionEnds(k, g)
  BY <1>17 DEF SessionEnds, runVars
<1>18. CASE Crash
  BY <1>18 DEF Crash, Ended
<1>19. CASE UNCHANGED vars
  BY <1>19 DEF vars, runVars, sessVars
<1> QED
  BY <1>1, <1>2, <1>3, <1>4, <1>5, <1>6, <1>7, <1>8, <1>9, <1>10, <1>11, <1>12, <1>13, <1>14,
     <1>15, <1>16, <1>17, <1>18, <1>19 DEF Next, Step, Client
\* The steps of everyone but the client and the crash leave what Handover and
\* Past speak of alone.
Still == UNCHANGED <<run, step, gen, send>>

LEMMA OthersAreStill ==
    ASSUME Next, ~Client, ~DialFails, ~Crash PROVE Still
<1> USE DEF Still, runVars
<1>1. CASE Drop \/ Quit
  BY <1>1 DEF Drop, Quit
<1>2. CASE \E g \in Conns : Reader(g) \/ ReadTimeout(g) \/ StartSource(g)
  BY <1>2 DEF Reader, StartArrives, Handle, HandleAsync, ReadFails, ReadTimeout, StartSource
<1>3. CASE \E g \in Conns : DrainerEnds(g) \/ LoopEnds(g)
  BY <1>3 DEF DrainerEnds, LoopEnds
<1>4. CASE \E g \in Conns : \E k \in Kinds : SessionEnds(k, g)
  BY <1>4 DEF SessionEnds
<1> QED
  BY <1>1, <1>2, <1>3, <1>4 DEF Next, Step

LEMMA HandoverStep == Typed /\ Handover /\ [Next]_vars => Handover'
<1> SUFFICES ASSUME Typed, Handover, [Next]_vars PROVE Handover'
  OBVIOUS
<1> USE DEF Handover, Between
<1>1. CASE Dial
  BY <1>1 DEF Dial, Typed
<1>2. CASE DialFails
  BY <1>2 DEF DialFails
<1>3. CASE Retry
  BY <1>3 DEF Retry
<1>4. CASE Return
  BY <1>4 DEF Return
<1>5. CASE SetSend
  <2>1. send' = [send EXCEPT ![ConnectOrder[step]] = gen] /\ gen' = gen /\ run' = "onconnect"
    BY <1>5 DEF SetSend
  <2>2. \A h \in Holders : send'[h] \in {0, gen'}
    BY <2>1 DEF Typed
  <2> QED
    BY <2>1, <2>2
<1>6. CASE StartLogs \/ Greet
  BY <1>6 DEF StartLogs, Greet
<1>7. CASE Leave
  BY <1>7 DEF Leave, Typed
<1>8. CASE DisconnectStep
  <2>1. /\ run = "ondisconnect" /\ step \in 1 .. 10 /\ step' = step + 1 /\ gen' = gen
        /\ run' = IF step = 10 THEN "cancel" ELSE run
    BY <1>8, DisconnectSteps DEF DisconnectStep, Typed
  <2>2. DisconnectOrder[step][1] = "unset" => send' = [send EXCEPT ![DisconnectOrder[step][2]] = 0]
    BY <1>8 DEF DisconnectStep
  <2>3. DisconnectOrder[step][1] # "unset" => send' = send
    BY <1>8 DEF DisconnectStep
  <2>4. \A h \in Holders : send'[h] \in {0, send[h]}
    BY <2>2, <2>3 DEF Typed
  <2>5. \A i \in 1 .. 10 : i <= step /\ DisconnectOrder[i][1] = "unset"
                             => send'[DisconnectOrder[i][2]] = 0
    <3> SUFFICES ASSUME NEW i \in 1 .. 10, i <= step, DisconnectOrder[i][1] = "unset"
                 PROVE  send'[DisconnectOrder[i][2]] = 0
      OBVIOUS
    <3>1. DisconnectOrder[i][2] \in Holders
      BY DisconnectSteps
    <3>2. CASE i = step
      BY <2>2, <3>1, <3>2 DEF Typed
    <3>3. CASE i < step
      BY <2>1, <2>4, <3>1, <3>3
    <3> QED
      BY <2>1, <3>2, <3>3
  <2>6. step = 10 => \A h \in Holders : send'[h] = 0
    BY <2>5, DisconnectSteps
  <2>7. \A h \in Holders : send'[h] \in {0, gen'}
    BY <2>1, <2>4
  <2>8. \A i \in 1 .. 10 : i < step' => i <= step
    BY <2>1
  <2> QED
    BY <2>1, <2>5, <2>6, <2>7, <2>8
<1>9. CASE CancelConn \/ CloseConn
  BY <1>9 DEF CancelConn, CloseConn
<1>10. CASE Crash
  BY <1>10 DEF Crash
<1>11. CASE UNCHANGED vars
  BY <1>11 DEF vars, runVars
<1>12. CASE Still
  BY <1>12 DEF Still
<1> QED
  BY <1>1, <1>2, <1>3, <1>4, <1>5, <1>6, <1>7, <1>8, <1>9, <1>10, <1>11, <1>12, OthersAreStill
     DEF Client

LEMMA DialledStep == Typed /\ Dialled /\ [Next]_vars => Dialled'
<1> SUFFICES ASSUME Typed, Dialled, [Next]_vars PROVE Dialled'
  OBVIOUS
<1> USE DEF Dialled
<1>1. CASE Dial
  <2>1. gen \in Nat /\ gen' = gen + 1 /\ UNCHANGED <<reader, sessions, starting>>
    BY <1>1 DEF Dial, sessVars, Typed
  <2>2. \A g \in Conns : g <= gen => g <= gen'
    BY <2>1, AgentAssumption DEF Conns
  <2> QED
    BY <2>1, <2>2 DEF Typed
<1>2. CASE DialFails \/ Retry \/ Return \/ SetSend \/ StartLogs \/ Leave \/ CancelConn \/ CloseConn
  <2>1. UNCHANGED <<gen, reader, sessions, starting>>
    BY <1>2 DEF DialFails, Retry, Return, SetSend, StartLogs, Leave, CancelConn, CloseConn, sessVars
  <2> QED
    BY <2>1
<1>3. CASE Greet
  <2>1. UNCHANGED <<gen, sessions, starting>> /\ reader' = [reader EXCEPT ![gen] = "read"]
    BY <1>3 DEF Greet
  <2>2. \A g \in Conns : reader'[g] # "off" => g <= gen
    BY <2>1, AgentAssumption DEF Typed, Conns
  <2> QED
    BY <2>1, <2>2
<1>4. CASE DisconnectStep
  <2>1. UNCHANGED <<gen, reader, starting>>
    BY <1>4 DEF DisconnectStep
  <2>2. \A k \in Kinds : sessions'[k] \subseteq sessions[k]
    BY <1>4 DEF DisconnectStep, Shut, Typed
  <2> QED
    BY <2>1, <2>2
<1>5. CASE \E g \in Conns : Reader(g)
  <2> PICK g \in Conns : Reader(g)
    BY <1>5
  <2>1. CASE StartArrives(g)
    BY <2>1 DEF StartArrives, runVars, Typed
  <2>2. CASE Handle(g)
    <3>1. g <= gen
      BY <2>2 DEF Handle, Kinds
    <3>2. UNCHANGED <<gen, starting>> /\ reader' = [reader EXCEPT ![g] = "read"]
      BY <2>2 DEF Handle, runVars
    <3>3. \A k \in Kinds : sessions'[k] \subseteq sessions[k] \cup {g}
      BY <2>2 DEF Handle, Registered, Typed
    <3>4. \A c \in Conns : reader'[c] # "off" => c <= gen
      BY <3>1, <3>2 DEF Typed
    <3> QED
      BY <3>1, <3>2, <3>3, <3>4
  <2>3. CASE HandleAsync(g)
    BY <2>3 DEF HandleAsync, runVars, Typed
  <2>4. CASE ReadFails(g)
    BY <2>4 DEF ReadFails, runVars, Typed
  <2> QED
    BY <2>1, <2>2, <2>3, <2>4 DEF Reader
<1>6. CASE \E g \in Conns : ReadTimeout(g)
  BY <1>6 DEF ReadTimeout, runVars, Typed
<1>7. CASE \E g \in Conns : StartSource(g)
  <2> PICK g \in Conns : StartSource(g)
    BY <1>7
  <2>1. g <= gen /\ UNCHANGED <<gen, reader>> /\ starting' \subseteq starting
    BY DEF StartSource, runVars
  <2>2. \A k \in Kinds : sessions'[k] \subseteq sessions[k] \cup {g}
    BY DEF StartSource, Registered, Typed
  <2> QED
    BY <2>1, <2>2
<1>8. CASE \E g \in Conns : DrainerEnds(g) \/ LoopEnds(g)
  BY <1>8 DEF DrainerEnds, LoopEnds, runVars, sessVars
<1>9. CASE \E g \in Conns : \E k \in Kinds : SessionEnds(k, g)
  <2> PICK g \in Conns, k \in Kinds : SessionEnds(k, g)
    BY <1>9
  <2>1. UNCHANGED <<gen, reader, starting>>
    BY DEF SessionEnds, runVars
  <2>2. \A j \in Kinds : sessions'[j] \subseteq sessions[j]
    BY DEF SessionEnds, Typed
  <2> QED
    BY <2>1, <2>2
<1>10. CASE Drop \/ Quit
  BY <1>10 DEF Drop, Quit, runVars, sessVars
<1>11. CASE Crash
  <2>1. /\ gen' = gen /\ reader' = [g \in Conns |-> IF g <= gen THEN "end" ELSE reader[g]]
        /\ sessions' = [k \in Kinds |-> {}] /\ starting' = {}
    BY <1>11 DEF Crash, Ended
  <2> QED
    BY <2>1
<1>12. CASE UNCHANGED vars
  BY <1>12 DEF vars, runVars, sessVars
<1> QED
  BY <1>1, <1>2, <1>3, <1>4, <1>5, <1>6, <1>7, <1>8, <1>9, <1>10, <1>11, <1>12
     DEF Next, Step, Client

LEMMA ShutdownStepKept ==
    Typed /\ Dialled /\ ShutdownIsComplete /\ [Next]_vars => ShutdownIsComplete'
<1> SUFFICES ASSUME Typed, Dialled, ShutdownIsComplete, [Next]_vars,
                    NEW k \in Kinds, NEW g \in sessions'[k], Past(k, g)'
             PROVE  <<k, g>> \in late'
  BY DEF ShutdownIsComplete
<1> USE AgentAssumption
<1>0. /\ sessions[k] \subseteq Conns
      /\ g \in sessions[k] /\ Past(k, g) => <<k, g>> \in late
      /\ g \in sessions[k] => g <= gen
      /\ ShutdownStep(k) \in 1 .. 10
      /\ ShutdownStep(k)' = ShutdownStep(k)
  BY ShutdownSteps DEF Typed, Dialled, ShutdownIsComplete, ShutdownStep
<1>1. CASE Dial
  <2>1. Past(k, g)
    BY <1>1 DEF Dial, Past
  <2> QED
    BY <1>0, <1>1, <2>1 DEF Dial, sessVars
<1>2. CASE DialFails \/ Retry \/ Return \/ CancelConn \/ CloseConn
  <2>1. Past(k, g)
    BY <1>2 DEF DialFails, Retry, Return, CancelConn, CloseConn, Past
  <2> QED
    BY <1>0, <1>2, <2>1 DEF DialFails, Retry, Return, CancelConn, CloseConn, sessVars
<1>3. CASE SetSend \/ StartLogs \/ Greet
  <2>1. run' \in {"onconnect", "serve"} /\ gen' = gen
    BY <1>3 DEF SetSend, StartLogs, Greet
  <2>2. Past(k, g)
    BY <2>1 DEF Past
  <2> QED
    BY <1>0, <1>3, <2>2 DEF SetSend, StartLogs, Greet, sessVars
<1>4. CASE Leave
  <2>1. run' = "ondisconnect" /\ step' = 1 /\ gen' = gen
    BY <1>4 DEF Leave
  <2>2. Past(k, g)
    BY <1>0, <2>1 DEF Past
  <2> QED
    BY <1>0, <1>4, <2>2 DEF Leave, sessVars
<1>5. CASE DisconnectStep
  <2>1. /\ run = "ondisconnect" /\ step \in 1 .. 10 /\ step' = step + 1 /\ gen' = gen
        /\ run' = IF step = 10 THEN "cancel" ELSE run
    BY <1>5, DisconnectSteps DEF DisconnectStep, Typed
  <2>2. CASE step = ShutdownStep(k)
    <3>1. DisconnectOrder[step][1] = "shutdown" /\ DisconnectOrder[step][2] = k
      BY <2>1, <2>2, ShutdownSteps
    <3>2. sessions'[k] = {}
      BY <1>5, <3>1 DEF DisconnectStep, Shut, Typed
    <3> QED
      BY <3>2
  <2>3. CASE step # ShutdownStep(k)
    <3>1. ~(DisconnectOrder[step][1] = "shutdown" /\ DisconnectOrder[step][2] = k)
      BY <2>1, <2>3, ShutdownSteps
    <3>2. sessions'[k] = sessions[k]
      BY <1>5, <3>1 DEF DisconnectStep, Shut, Typed
    <3>3. <<k, g>> \in late => <<k, g>> \in late'
      BY <1>5, <3>1 DEF DisconnectStep
    <3>4. Past(k, g)
      <4>1. step' > ShutdownStep(k) => step > ShutdownStep(k)
        BY <1>0, <2>1, <2>3
      <4>2. step = 10 => step > ShutdownStep(k)
        BY <1>0, <2>3
      <4> QED
        BY <1>0, <2>1, <4>1, <4>2 DEF Past
    <3> QED
      BY <1>0, <3>2, <3>3, <3>4
  <2> QED
    BY <2>2, <2>3
<1>6. CASE Crash
  BY <1>6 DEF Crash
<1>7. CASE Still /\ sessions'[k] \subseteq sessions[k] /\ late' = late
  <2>1. Past(k, g)
    BY <1>0, <1>7 DEF Still, Past
  <2> QED
    BY <1>0, <1>7, <2>1
<1>8. CASE UNCHANGED vars
  BY <1>7, <1>8 DEF vars, runVars, sessVars, Still
<1>9. ASSUME NEW j \in Kinds, NEW c \in Conns, Registered(j, c), Still
      PROVE  <<k, g>> \in late'
  <2>1. Past(k, g)
    BY <1>0, <1>9 DEF Still, Past
  <2>2. CASE j = k /\ g = c
    BY <1>9, <2>1, <2>2 DEF Registered
  <2>3. CASE ~(j = k /\ g = c)
    <3>1. g \in sessions[k]
      BY <1>9, <2>3 DEF Registered, Typed
    <3> QED
      BY <1>0, <1>9, <2>1, <3>1 DEF Registered
  <2> QED
    BY <2>2, <2>3
<1>10. CASE \E c \in Conns : Reader(c) \/ ReadTimeout(c) \/ StartSource(c)
  <2> PICK c \in Conns : Reader(c) \/ ReadTimeout(c) \/ StartSource(c)
    BY <1>10
  <2>1. Still
    BY DEF Still, runVars, Reader, StartArrives, Handle, HandleAsync, ReadFails, ReadTimeout, StartSource
  <2>2. CASE Handle(c)
    BY <1>7, <1>9, <2>1, <2>2 DEF Handle
  <2>3. CASE StartSource(c)
    BY <1>9, <2>1, <2>3 DEF StartSource, Kinds
  <2>4. CASE StartArrives(c) \/ HandleAsync(c) \/ ReadFails(c) \/ ReadTimeout(c)
    BY <1>7, <2>1, <2>4 DEF StartArrives, HandleAsync, ReadFails, ReadTimeout
  <2> QED
    BY <2>2, <2>3, <2>4 DEF Reader
<1>11. CASE \E c \in Conns : DrainerEnds(c) \/ LoopEnds(c)
  BY <1>7, <1>11 DEF DrainerEnds, LoopEnds, runVars, sessVars, Still
<1>12. CASE \E c \in Conns : \E j \in Kinds : SessionEnds(j, c)
  BY <1>7, <1>12 DEF SessionEnds, runVars, Still, Typed
<1>13. CASE Drop \/ Quit
  BY <1>7, <1>13 DEF Drop, Quit, runVars, sessVars, Still
<1> QED
  BY <1>1, <1>2, <1>3, <1>4, <1>5, <1>6, <1>8, <1>10, <1>11, <1>12, <1>13 DEF Next, Step, Client

-----------------------------------------------------------------------------
\* The strengthened invariant holds in every state of AgentConnection.
THEOREM Invariance == Spec => []IInv
<1>1. IInv /\ [Next]_vars => IInv'
  BY TypedStep, HandoverStep, DialledStep, ShutdownStepKept DEF IInv
<1> QED
  BY <1>1, InitIInv, PTL DEF Spec

\* OnConnect and OnDisconnect hand over and take back every send function: none of
\* an earlier connection is ever left, whatever breaks when (agent.go OnConnect,
\* OnDisconnect).
THEOREM SendFunctions == Spec => []SendIsCurrent
<1>1. IInv => SendIsCurrent
  BY DEF IInv, Handover, SendIsCurrent, Between
<1> QED
  BY <1>1, Invariance, PTL

\* Shutdown misses no session that is there: one that outlives its connection was
\* registered too late (the managers' Shutdown, called by OnDisconnect).
THEOREM Shutdowns == Spec => []ShutdownIsComplete
<1>1. IInv => ShutdownIsComplete
  BY DEF IInv
<1> QED
  BY <1>1, Invariance, PTL
-----------------------------------------------------------------------------
(* AgentConnection implements AgentLink, and every variable keeps its type.*)
(* A step of the client is a step of AgentLink because of where the        *)
(* connection stands while it takes it (Current), because nobody is greeted*)
(* twice (Welcomed), and because each lost connection has cost a fault     *)
(* (Paid).                                                                 *)

TypedRest ==
    /\ attempt \in Nat
    /\ delay \in {0} \cup BaseBackoff .. MaxBackoff
    /\ wire \in [Conns -> {"none", "up", "mute", "down", "closed"}]
    /\ ctx \in [Conns -> {"none", "live", "cancelled"}]
    /\ starts \in 0 .. MaxStarts
    /\ drainer \in [Conns -> {"off", "run", "failed", "end"}]
    /\ greeted \subseteq Conns
    /\ live \in [Conns -> SUBSET Loops]
    /\ logTail \in 0 .. MaxFaults + 1
    /\ late \subseteq Kinds \X Conns
    /\ faults \in 0 .. MaxFaults
    /\ quit \in BOOLEAN

\* Where Run has a connection, from its dial to its Close.
Open == {"onconnect", "serve", "ondisconnect", "cancel", "close"}

Current ==
    /\ run \in Open =>
         /\ gen > 0 /\ wire[gen] \in {"up", "mute", "down"}
         /\ ctx[gen] = IF quit \/ run = "close" THEN "cancelled" ELSE "live"
    /\ run \notin Open /\ gen > 0 => wire[gen] = "closed"
    /\ run = "serve" /\ ~quit /\ (drainer[gen] # "run" \/ reader[gen] = "end")
         => wire[gen] # "up"
    /\ run \in {"ondisconnect", "cancel", "close"} /\ ~quit => wire[gen] # "up"

Welcomed == \A g \in greeted : g <= gen /\ (run = "onconnect" => g # gen)

\* Is the connection one that nothing has broken yet?
Sound == run \in Open /\ wire[gen] = "up" /\ ~quit

Paid == gen <= faults + IF Sound THEN 1 ELSE 0

\* What the backoff under way is.
Waiting == run = "wait" => delay \in Backoff(attempt)

LinkInv == TypedRest /\ Current /\ Welcomed /\ Paid /\ Waiting
-----------------------------------------------------------------------------
\* Run waits as long as the backoff says: "2s -> 5min", until the nanoseconds overflow.
LEMMA Backoffs ==
    ASSUME NEW n \in Nat
    PROVE  /\ Backoff(n) \subseteq {0} \cup BaseBackoff .. MaxBackoff
           /\ n \in 1 .. WrapsAt - 1 => Backoff(n) \subseteq BaseBackoff .. MaxBackoff
<1> USE DEF BaseBackoff, MaxBackoff, CapsAt, WrapsAt
<1>1. CASE n \in 1 .. 8
  <2>1. 2 * 2 ^ (n - 1) \in 2 .. 300
    <3>1. n = 1 \/ n = 2 \/ n = 3 \/ n = 4 \/ n = 5 \/ n = 6 \/ n = 7 \/ n = 8
      BY <1>1
    <3>2. n = 1 => 2 ^ (n - 1) = 1
      OBVIOUS
    <3>3. n = 2 => 2 ^ (n - 1) = 2
      OBVIOUS
    <3>4. n = 3 => 2 ^ (n - 1) = 4
      OBVIOUS
    <3>5. n = 4 => 2 ^ (n - 1) = 8
      OBVIOUS
    <3>6. n = 5 => 2 ^ (n - 1) = 16
      OBVIOUS
    <3>7. n = 6 => 2 ^ (n - 1) = 32
      OBVIOUS
    <3>8. n = 7 => 2 ^ (n - 1) = 64
      OBVIOUS
    <3>9. n = 8 => 2 ^ (n - 1) = 128
      OBVIOUS
    <3> QED
      BY <3>1, <3>2, <3>3, <3>4, <3>5, <3>6, <3>7, <3>8, <3>9
  <2>2. Backoff(n) = {2 * 2 ^ (n - 1)}
    BY <1>1 DEF Backoff
  <2> QED
    BY <2>1, <2>2
<1>2. CASE n \notin 1 .. 8
  BY <1>2 DEF Backoff
<1> QED
  BY <1>1, <1>2

LEMMA InitLinkInv == Init => LinkInv
<1> SUFFICES ASSUME Init PROVE LinkInv
  OBVIOUS
<1> USE AgentAssumption DEF Init
<1>1. TypedRest
  <2>1. /\ wire \in [Conns -> {"none", "up", "mute", "down", "closed"}]
        /\ ctx \in [Conns -> {"none", "live", "cancelled"}]
    OBVIOUS
  <2>2. /\ drainer \in [Conns -> {"off", "run", "failed", "end"}]
        /\ live \in [Conns -> SUBSET Loops]
    OBVIOUS
  <2>3. /\ attempt \in Nat /\ delay \in {0} \cup BaseBackoff .. MaxBackoff
        /\ starts \in 0 .. MaxStarts /\ faults \in 0 .. MaxFaults /\ logTail \in 0 .. MaxFaults + 1
    OBVIOUS
  <2>4. greeted \subseteq Conns /\ late \subseteq Kinds \X Conns /\ quit \in BOOLEAN
    OBVIOUS
  <2> QED
    BY ONLY <2>1, <2>2, <2>3, <2>4 DEF TypedRest
<1>2. Current /\ Welcomed /\ Waiting
  BY DEF Current, Welcomed, Waiting, Open
<1>3. Paid
  BY DEF Paid, Sound, Open
<1> QED
  BY <1>1, <1>2, <1>3 DEF LinkInv

\* The connection Run has is one of Conns.
LEMMA Numbered ==
    ASSUME Typed, Current, run \in Open PROVE gen \in Conns
BY AgentAssumption DEF Typed, Current, Conns

LEMMA TypedRestStep == Typed /\ TypedRest /\ Current /\ [Next]_vars => TypedRest'
<1> SUFFICES ASSUME Typed, TypedRest, Current, [Next]_vars PROVE TypedRest'
  OBVIOUS
<1> USE DEF TypedRest
<1>0. gen \in 0 .. MaxFaults + 1 /\ MaxFaults \in Nat
  BY AgentAssumption DEF Typed
<1>1. CASE Dial
  BY <1>1 DEF Dial, sessVars
<1>2. CASE DialFails
  <2>1. faults' \in 0 .. MaxFaults /\ delay' \in Backoff(attempt)
    BY <1>0, <1>2 DEF DialFails, Fault
  <2>2. delay' \in {0} \cup BaseBackoff .. MaxBackoff
    BY <2>1, Backoffs
  <2> QED
    BY <1>2, <2>1, <2>2 DEF DialFails, connVars, sessVars
<1>3. CASE Retry
  BY <1>3 DEF Retry, connVars, sessVars
<1>4. CASE Return \/ SetSend \/ Leave
  BY <1>4 DEF Return, SetSend, Leave, connVars, sessVars
<1>5. CASE StartLogs
  <2>1. live' \in [Conns -> SUBSET Loops]
    BY <1>5 DEF StartLogs, Loops
  <2> QED
    BY <1>0, <1>5, <2>1 DEF StartLogs, sessVars
<1>6. CASE Greet
  <2>1. gen \in Conns
    BY <1>6, Numbered DEF Greet, Open
  <2>2. live' \in [Conns -> SUBSET Loops] /\ greeted' \subseteq Conns
    BY <1>6, <2>1 DEF Greet, Loops
  <2> QED
    BY <1>6, <2>2 DEF Greet
<1>7. CASE DisconnectStep
  <2>1. late' \subseteq late /\ logTail' \in {0, logTail}
    BY <1>7 DEF DisconnectStep
  <2> QED
    BY <1>0, <1>7, <2>1 DEF DisconnectStep
<1>8. CASE CancelConn
  BY <1>8 DEF CancelConn, sessVars
<1>9. CASE CloseConn
  <2>1. attempt' \in Nat /\ delay' \in {0} \cup BaseBackoff .. MaxBackoff
    BY <1>9, Backoffs DEF CloseConn
  <2> QED
    BY <1>9, <2>1 DEF CloseConn, sessVars
<1>10. ASSUME NEW j \in Kinds, NEW c \in Conns, Registered(j, c) PROVE late' \subseteq Kinds \X Conns
  BY <1>10 DEF Registered
<1>11. ASSUME NEW g \in Conns, Reader(g) \/ ReadTimeout(g) \/ StartSource(g) PROVE TypedRest'
  <2>1. CASE StartArrives(g)
    BY <2>1, AgentAssumption DEF StartArrives, runVars, connVars
  <2>2. CASE Handle(g)
    BY <1>10, <2>2 DEF Handle, runVars, connVars
  <2>3. CASE StartSource(g)
    <3>1. "migrations" \in Kinds
      BY DEF Kinds
    <3> QED
      BY <1>10, <2>3, <3>1 DEF StartSource, runVars, connVars
  <2>4. CASE HandleAsync(g) \/ ReadFails(g) \/ ReadTimeout(g)
    BY <2>4 DEF HandleAsync, ReadFails, ReadTimeout, runVars, connVars
  <2> QED
    BY <1>11, <2>1, <2>2, <2>3, <2>4 DEF Reader
<1>12. ASSUME NEW g \in Conns, DrainerEnds(g) PROVE TypedRest'
  BY <1>12 DEF DrainerEnds, runVars, sessVars
<1>13. ASSUME NEW g \in Conns, LoopEnds(g) PROVE TypedRest'
  <2>1. live' \in [Conns -> SUBSET Loops]
    BY <1>13 DEF LoopEnds
  <2> QED
    BY <1>13, <2>1 DEF LoopEnds, runVars, sessVars
<1>14. ASSUME NEW g \in Conns, NEW k \in Kinds, SessionEnds(k, g) PROVE TypedRest'
  BY <1>14 DEF SessionEnds, runVars, connVars
<1>15. CASE Drop
  BY <1>0, <1>15 DEF Drop, Fault, runVars, sessVars
<1>16. CASE Quit
  BY <1>0, <1>16 DEF Quit, Fault, runVars, sessVars
<1>17. CASE Crash
  BY <1>0, <1>17 DEF Crash, Fault, Ended
<1>18. CASE UNCHANGED vars
  BY <1>18 DEF vars, runVars, connVars, sessVars
<1> QED
  BY <1>1, <1>2, <1>3, <1>4, <1>5, <1>6, <1>7, <1>8, <1>9, <1>11, <1>12, <1>13, <1>14, <1>15,
     <1>16, <1>17, <1>18 DEF Next, Step, Client

\* What the steps that neither drop, dial nor close leave alone.
Quiet == UNCHANGED <<gen, attempt, delay, wire, ctx, faults, quit>>

LEMMA CurrentStep == Typed /\ TypedRest /\ Current /\ [Next]_vars => Current'
<1> SUFFICES ASSUME Typed, TypedRest, Current, [Next]_vars PROVE Current'
  OBVIOUS
<1> USE DEF Open
<1>0. gen \in Nat /\ (run \in Open => gen \in Conns) /\ (gen > 0 => gen \in Conns)
  BY AgentAssumption, Numbered DEF Typed, Conns
<1>1. CASE Dial
  <2>1. /\ run' = "onconnect" /\ gen' = gen + 1 /\ gen' \in Conns /\ ~quit'
        /\ wire'[gen'] = "up" /\ ctx'[gen'] = "live"
    BY <1>1 DEF Dial, TypedRest
  <2> QED
    BY <1>0, <2>1 DEF Current
<1>2. CASE DialFails
  BY <1>2 DEF DialFails, connVars, sessVars, Current
<1>3. CASE Retry \/ Return
  BY <1>3 DEF Retry, Return, connVars, sessVars, Current
<1>4. CASE SetSend \/ StartLogs
  BY <1>4 DEF SetSend, StartLogs, connVars, sessVars, Current
<1>5. CASE Greet
  <2>1. /\ run = "onconnect" /\ run' = "serve" /\ UNCHANGED <<gen, wire, ctx, quit>>
        /\ reader'[gen] = "read" /\ drainer'[gen] = "run"
    BY <1>0, <1>5 DEF Greet, Typed, TypedRest
  <2> QED
    BY <2>1 DEF Current
<1>6. CASE Leave
  <2>1. /\ run = "serve" /\ run' = "ondisconnect" /\ UNCHANGED <<gen, wire, ctx, quit>>
        /\ drainer[gen] # "run" \/ reader[gen] = "end" \/ quit
    BY <1>6 DEF Leave, Over, connVars
  <2> QED
    BY <2>1 DEF Current
<1>7. CASE DisconnectStep
  BY <1>7 DEF DisconnectStep, Current
<1>8. CASE CancelConn
  <2>1. /\ run = "cancel" /\ run' = "close" /\ UNCHANGED <<gen, wire, quit>>
        /\ ctx'[gen] = "cancelled"
    BY <1>0, <1>8 DEF CancelConn, TypedRest
  <2> QED
    BY <2>1 DEF Current
<1>9. CASE CloseConn
  <2>1. /\ run' \in {"stopped", "wait"} /\ gen' = gen /\ wire'[gen] = "closed"
    BY <1>0, <1>9 DEF CloseConn, TypedRest
  <2> QED
    BY <2>1 DEF Current
<1>10. ASSUME NEW g \in Conns, Reader(g) \/ ReadTimeout(g) \/ StartSource(g) PROVE Current'
  <2>1. UNCHANGED <<run, gen, wire, ctx, drainer, quit>>
    BY <1>10 DEF Reader, StartArrives, Handle, HandleAsync, ReadFails, ReadTimeout, StartSource,
                 runVars, connVars
  <2>2. run = "serve" /\ reader'[gen] = "end" => reader[gen] = "end" \/ wire[gen] # "up"
    <3>1. CASE StartArrives(g) \/ Handle(g) \/ HandleAsync(g)
      BY <1>0, <3>1 DEF StartArrives, Handle, HandleAsync, Typed, Kinds
    <3>2. CASE ReadFails(g) \/ ReadTimeout(g)
      BY <1>0, <3>2 DEF ReadFails, ReadTimeout, Typed
    <3>3. CASE StartSource(g)
      BY <3>3 DEF StartSource
    <3> QED
      BY <1>10, <3>1, <3>2, <3>3 DEF Reader
  <2> QED
    BY <2>1, <2>2 DEF Current
<1>11. ASSUME NEW g \in Conns, DrainerEnds(g) PROVE Current'
  <2>1. UNCHANGED <<run, gen, wire, ctx, reader, quit>>
    BY <1>11 DEF DrainerEnds, runVars, sessVars
  <2>2. run = "serve" /\ drainer'[gen] # "run" => drainer[gen] # "run" \/ wire[gen] # "up" \/ quit
    BY <1>0, <1>11 DEF DrainerEnds, TypedRest
  <2> QED
    BY <2>1, <2>2 DEF Current
<1>12. ASSUME NEW g \in Conns, LoopEnds(g) \/ \E k \in Kinds : SessionEnds(k, g) PROVE Current'
  BY <1>12 DEF LoopEnds, SessionEnds, runVars, connVars, sessVars, Current
<1>13. CASE Drop
  <2>1. /\ UNCHANGED <<run, gen, ctx, drainer, reader, quit>> /\ gen \in Conns
        /\ wire[gen] = "up" /\ wire'[gen] \in {"down", "mute"}
    BY <1>13 DEF Drop, runVars, sessVars, TypedRest
  <2> QED
    BY <1>0, <2>1 DEF Current
<1>14. CASE Quit
  <2>1. /\ UNCHANGED <<run, gen, wire, drainer, reader>> /\ quit' = TRUE
        /\ ctx' = [g \in Conns |-> IF ctx[g] = "live" THEN "cancelled" ELSE ctx[g]]
    BY <1>14 DEF Quit, runVars, sessVars
  <2>2. run \in Open => ctx'[gen] = "cancelled"
    BY <1>0, <2>1 DEF Current
  <2> QED
    BY <2>1, <2>2 DEF Current
<1>15. CASE Crash
  <2>1. run' = "dial" /\ gen' = gen /\ (gen > 0 => wire'[gen] = "closed")
    BY <1>0, <1>15 DEF Crash, Ended
  <2> QED
    BY <2>1 DEF Current
<1>16. CASE UNCHANGED vars
  BY <1>16 DEF vars, runVars, connVars, sessVars, Current
<1> QED
  BY <1>1, <1>2, <1>3, <1>4, <1>5, <1>6, <1>7, <1>8, <1>9, <1>10, <1>11, <1>12, <1>13, <1>14,
     <1>15, <1>16 DEF Next, Step, Client

LEMMA WelcomedStep == Typed /\ TypedRest /\ Welcomed /\ [Next]_vars => Welcomed'
<1> SUFFICES ASSUME Typed, TypedRest, Welcomed, [Next]_vars PROVE Welcomed'
  OBVIOUS
<1>0. gen \in Nat /\ greeted \subseteq Conns /\ \A g \in greeted : g \in Nat
  BY AgentAssumption DEF Typed, TypedRest, Conns
<1>1. CASE Dial
  <2>1. gen' = gen + 1 /\ greeted' = greeted
    BY <1>1 DEF Dial
  <2> QED
    BY <1>0, <2>1 DEF Welcomed
<1>2. CASE Greet
  <2>1. gen' = gen /\ greeted' \subseteq greeted \cup {gen} /\ run' = "serve"
    BY <1>2 DEF Greet
  <2> QED
    BY <1>0, <2>1 DEF Welcomed
<1>3. CASE UNCHANGED <<gen, greeted>> /\ run' \in {run, "dial", "wait", "stopped", "ondisconnect",
                                                    "cancel", "close"}
  BY <1>3 DEF Welcomed
<1>4. CASE DialFails \/ Retry \/ Return \/ SetSend \/ StartLogs
  BY <1>3, <1>4 DEF DialFails, Retry, Return, SetSend, StartLogs, connVars
<1>5. CASE Leave \/ DisconnectStep \/ CancelConn \/ CloseConn
  BY <1>3, <1>5 DEF Leave, DisconnectStep, CancelConn, CloseConn, connVars
<1>6. CASE \E g \in Conns : Reader(g) \/ ReadTimeout(g) \/ StartSource(g)
  BY <1>3, <1>6 DEF Reader, StartArrives, Handle, HandleAsync, ReadFails, ReadTimeout, StartSource,
                    runVars, connVars
<1>7. CASE \E g \in Conns : DrainerEnds(g) \/ LoopEnds(g) \/ \E k \in Kinds : SessionEnds(k, g)
  BY <1>3, <1>7 DEF DrainerEnds, LoopEnds, SessionEnds, runVars, connVars
<1>8. CASE Drop \/ Quit \/ Crash
  BY <1>3, <1>8 DEF Drop, Quit, Crash, runVars, connVars
<1>9. CASE UNCHANGED vars
  BY <1>3, <1>9 DEF vars, runVars, connVars
<1> QED
  BY <1>1, <1>2, <1>4, <1>5, <1>6, <1>7, <1>8, <1>9 DEF Next, Step, Client

LEMMA WaitingStep == TypedRest /\ Waiting /\ [Next]_vars => Waiting'
<1> SUFFICES ASSUME TypedRest, Waiting, [Next]_vars PROVE Waiting'
  OBVIOUS
<1> USE DEF Waiting
<1>1. CASE run' # "wait"
  BY <1>1
<1>2. CASE UNCHANGED <<run, attempt, delay>>
  <2>1. Backoff(attempt)' = Backoff(attempt)
    BY <1>2
  <2> QED
    BY <1>2, <2>1
<1>3. CASE DialFails
  <2>1. attempt' = attempt /\ delay' \in Backoff(attempt)
    BY <1>3 DEF DialFails
  <2> QED
    BY <2>1
<1>4. CASE CloseConn
  BY <1>1, <1>4 DEF CloseConn
<1>5. CASE Dial \/ Retry \/ Return \/ Crash
  BY <1>1, <1>5 DEF Dial, Retry, Return, Crash
<1>6. CASE SetSend \/ StartLogs \/ Greet \/ Leave \/ DisconnectStep \/ CancelConn
  BY <1>1, <1>6 DEF SetSend, StartLogs, Greet, Leave, DisconnectStep, CancelConn
<1>7. CASE \E g \in Conns : Reader(g) \/ ReadTimeout(g) \/ StartSource(g)
  BY <1>2, <1>7 DEF Reader, StartArrives, Handle, HandleAsync, ReadFails, ReadTimeout, StartSource,
                    runVars
<1>8. CASE \E g \in Conns : DrainerEnds(g) \/ LoopEnds(g) \/ \E k \in Kinds : SessionEnds(k, g)
  BY <1>2, <1>8 DEF DrainerEnds, LoopEnds, SessionEnds, runVars
<1>9. CASE Drop \/ Quit
  BY <1>2, <1>9 DEF Drop, Quit, runVars
<1>10. CASE UNCHANGED vars
  BY <1>2, <1>10 DEF vars, runVars
<1> QED
  BY <1>3, <1>4, <1>5, <1>6, <1>7, <1>8, <1>9, <1>10 DEF Next, Step, Client

\* A connection is replaced after a fault only, of whatever kind.
LEMMA PaidStep == Typed /\ TypedRest /\ Current /\ Paid /\ [Next]_vars => Paid'
<1> SUFFICES ASSUME Typed, TypedRest, Current, Paid, [Next]_vars PROVE Paid'
  OBVIOUS
<1>0. gen \in Nat /\ faults \in Nat
  BY AgentAssumption DEF Typed, TypedRest
<1>1. CASE gen' = gen /\ faults' = faults + 1
  BY <1>0, <1>1 DEF Paid
<1>2. CASE gen' = gen /\ faults' = faults /\ (Sound => Sound')
  BY <1>0, <1>2 DEF Paid
<1>3. CASE Dial
  <2>1. gen' = gen + 1 /\ faults' = faults /\ run \notin Open
    BY <1>3 DEF Dial, Open
  <2>2. Sound'
    <3>1. run' = "onconnect" /\ quit' = FALSE /\ wire'[gen'] = "up"
      BY <1>3 DEF Dial, TypedRest
    <3> QED
      BY <3>1 DEF Sound, Open
  <2>3. ~Sound
    BY <2>1 DEF Sound
  <2> QED
    BY <1>0, <2>1, <2>2, <2>3 DEF Paid
<1>4. CASE DialFails \/ Drop \/ Quit \/ Crash
  BY <1>1, <1>4 DEF DialFails, Drop, Quit, Crash, Fault, runVars
<1>5. CASE /\ UNCHANGED <<gen, wire, quit, faults>>
           /\ run' \in Open \/ run \notin Open
  BY <1>2, <1>5 DEF Sound
<1>6. CASE Retry \/ Return \/ SetSend \/ StartLogs \/ Greet
  BY <1>5, <1>6 DEF Retry, Return, SetSend, StartLogs, Greet, connVars, Open
<1>7. CASE Leave \/ DisconnectStep \/ CancelConn
  BY <1>5, <1>7 DEF Leave, DisconnectStep, CancelConn, connVars, Open
<1>8. CASE CloseConn
  <2>1. ~Sound
    BY <1>8 DEF CloseConn, Sound, Current
  <2> QED
    BY <1>2, <1>8, <2>1 DEF CloseConn
<1>9. CASE \E g \in Conns : Reader(g) \/ ReadTimeout(g) \/ StartSource(g)
  BY <1>5, <1>9 DEF Reader, StartArrives, Handle, HandleAsync, ReadFails, ReadTimeout, StartSource,
                    runVars, connVars
<1>10. CASE \E g \in Conns : DrainerEnds(g) \/ LoopEnds(g) \/ \E k \in Kinds : SessionEnds(k, g)
  BY <1>5, <1>10 DEF DrainerEnds, LoopEnds, SessionEnds, runVars, connVars
<1>11. CASE UNCHANGED vars
  BY <1>5, <1>11 DEF vars, runVars, connVars
<1> QED
  BY <1>3, <1>4, <1>6, <1>7, <1>8, <1>9, <1>10, <1>11 DEF Next, Step, Client

\* The invariant the refinement rests on.
THEOREM LinkInvariance == Spec => [](IInv /\ LinkInv)
<1>1. Init => IInv /\ LinkInv
  BY InitIInv, InitLinkInv
<1>2. IInv /\ LinkInv /\ [Next]_vars => (IInv /\ LinkInv)'
  BY TypedStep, HandoverStep, DialledStep, ShutdownStepKept, TypedRestStep, CurrentStep,
     WelcomedStep, PaidStep, WaitingStep DEF IInv, LinkInv
<1> QED
  BY <1>1, <1>2, PTL DEF Spec

\* Every variable of Client.Run, OnConnect, OnDisconnect and what hangs on a connection
\* keeps its type, the backoff included: it is 0 or between 2 s and 5 min.
THEOREM TypeCorrect == Spec => []TypeOK
<1>1. IInv /\ LinkInv => TypeOK
  <2> SUFFICES ASSUME IInv, LinkInv PROVE TypeOK
    OBVIOUS
  <2>1. \A h \in Holders : send[h] \in 0 .. MaxFaults + 1
    BY AgentAssumption DEF IInv, Typed, Handover
  <2>2. send \in [Holders -> 0 .. MaxFaults + 1]
    BY <2>1 DEF IInv, Typed
  <2> QED
    BY <2>2 DEF IInv, LinkInv, Typed, TypedRest, TypeOK, Runs
<1> QED
  BY <1>1, LinkInvariance, PTL

\* "exponential reconnection (backoff 2s -> 5min)": it holds of every wait up to the
\* 33rd attempt, so the overflow of the nanoseconds is all that is wrong with it
\* (Client.backoff).
THEOREM BackoffUntilItWraps ==
    Spec => [](run = "wait" /\ attempt \in 1 .. WrapsAt - 1 => delay \in BaseBackoff .. MaxBackoff)
<1>1. IInv /\ LinkInv => (run = "wait" /\ attempt \in 1 .. WrapsAt - 1 => delay \in BaseBackoff .. MaxBackoff)
  BY Backoffs DEF LinkInv, Waiting, TypedRest
<1> QED
  BY <1>1, LinkInvariance, PTL

-----------------------------------------------------------------------------
\* Each step of the agent is a step of AgentLink, or leaves its variables alone.
LEMMA StepIsLinkStep ==
    IInv /\ LinkInv /\ [Next]_vars => [Link!LinkNext]_(Link!linkVars)
<1> SUFFICES ASSUME IInv, LinkInv, [Next]_vars PROVE [Link!LinkNext]_(Link!linkVars)
  OBVIOUS
<1> USE DEF LinkInv, IInv, Link!Conns, Conns
<1>0. /\ gen \in Nat /\ (run \in Open => gen \in Conns /\ gen > 0) /\ MaxFaults \in Nat
      /\ faults \in 0 .. MaxFaults
  BY AgentAssumption, Numbered DEF Typed, TypedRest, Current
<1>1. CASE UNCHANGED <<gen, wire, ctx, greeted, quit>>
  BY <1>1 DEF Link!linkVars
<1>2. CASE Dial
  <2>1. Link!Connect
    BY <1>2 DEF Dial, Link!Connect, Current, Open
  <2> QED
    BY <2>1 DEF Link!LinkNext, Link!Advance
<1>3. CASE Greet
  <2>1. CASE greeted' = greeted \cup {gen} /\ MaySucceed(gen)
    <3>1. Link!Welcome(gen)
      BY <1>3, <2>1 DEF Greet, Link!Welcome, Link!MaySucceed, MaySucceed, Welcomed
    <3> QED
      BY <1>0, <1>3, <3>1 DEF Link!LinkNext, Link!Advance, Greet, Open
  <2>2. CASE UNCHANGED greeted
    BY <1>1, <1>3, <2>2 DEF Greet
  <2> QED
    BY <1>3, <2>1, <2>2 DEF Greet
<1>4. CASE CancelConn
  <2>1. run = "cancel" /\ ctx' = [ctx EXCEPT ![gen] = "cancelled"] /\ UNCHANGED <<gen, wire, greeted, quit>>
    BY <1>4 DEF CancelConn
  <2>2. CASE quit
    <3>1. ctx[gen] = "cancelled"
      BY <2>1, <2>2 DEF Current, Open
    <3>2. ctx' = ctx
      BY <2>1, <3>1 DEF TypedRest
    <3> QED
      BY <1>1, <2>1, <3>2
  <2>3. CASE ~quit
    <3>1. wire[gen] \in {"down", "mute"} /\ ctx[gen] = "live"
      BY <2>1, <2>3 DEF Current, Open
    <3>2. Link!CancelLink(gen)
      BY <2>1, <3>1 DEF Link!CancelLink
    <3> QED
      BY <1>0, <2>1, <3>2 DEF Link!LinkNext, Link!Advance, Open
  <2> QED
    BY <2>2, <2>3
<1>5. CASE CloseConn
  <2>1. Link!CloseLink(gen)
    BY <1>5 DEF CloseConn, Link!CloseLink, Current, Open
  <2> QED
    BY <1>0, <1>5, <2>1 DEF Link!LinkNext, Link!Advance, CloseConn, Open
<1>6. CASE Drop
  <2>1. /\ gen \in Conns /\ wire[gen] = "up" /\ faults < MaxFaults
        /\ \E how \in {"down", "mute"} : wire' = [wire EXCEPT ![gen] = how]
        /\ UNCHANGED <<gen, ctx, greeted, quit>>
    BY <1>6 DEF Drop, Fault, runVars
  <2>2. gen < MaxFaults + 1
    BY <1>0, <2>1 DEF Paid
  <2>3. Link!Break(gen)
    BY <2>1, <2>2 DEF Link!Break
  <2> QED
    BY <2>1, <2>3 DEF Link!LinkNext
<1>7. CASE Quit
  <2>1. Link!QuitLink
    BY <1>7 DEF Quit, Link!QuitLink, runVars
  <2> QED
    BY <2>1 DEF Link!LinkNext
<1>8. CASE Crash
  <2>1. Link!CrashLink
    BY <1>8 DEF Crash, Link!CrashLink, Ended
  <2> QED
    BY <2>1 DEF Link!LinkNext
<1>9. CASE DialFails \/ Retry \/ Return \/ SetSend \/ StartLogs \/ Leave \/ DisconnectStep
  BY <1>1, <1>9 DEF DialFails, Retry, Return, SetSend, StartLogs, Leave, DisconnectStep, connVars
<1>10. CASE \E g \in Conns : Reader(g) \/ ReadTimeout(g) \/ StartSource(g)
  BY <1>1, <1>10 DEF Reader, StartArrives, Handle, HandleAsync, ReadFails, ReadTimeout, StartSource,
                     runVars, connVars
<1>11. CASE \E g \in Conns : DrainerEnds(g) \/ LoopEnds(g) \/ \E k \in Kinds : SessionEnds(k, g)
  BY <1>1, <1>11 DEF DrainerEnds, LoopEnds, SessionEnds, runVars, connVars
<1>12. CASE UNCHANGED vars
  BY <1>1, <1>12 DEF vars, runVars, connVars
<1> QED
  BY <1>2, <1>3, <1>4, <1>5, <1>6, <1>7, <1>8, <1>9, <1>10, <1>11, <1>12 DEF Next, Step, Client

\* Client.Run implements what AgentLink promises, the base MetricPath stands on: dial after
\* close, close after cancel, a greeting once, crashes and SIGTERM at any point.  (That a
\* broken connection is also replaced in the end is left to the run.)
THEOREM Refinement == Spec => Link!LinkSpec
<1>1. Init => Link!LinkInit
  BY DEF Init, Link!LinkInit, Link!Conns, Conns
<1>2. IInv /\ LinkInv /\ [Next]_vars => [Link!LinkNext]_(Link!linkVars)
  BY StepIsLinkStep
<1> QED
  BY <1>1, <1>2, LinkInvariance, PTL DEF Spec, Link!LinkSpec
=============================================================================
