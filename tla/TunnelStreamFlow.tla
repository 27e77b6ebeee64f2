------------------------- MODULE TunnelStreamFlow --------------------------
(***************************************************************************)
(* The inductive invariant of TunnelStream, and the lemmas the proofs about*)
(* it rest on: sequences, typing, control, the channels between the two    *)
(* ends and the credit.                                                    *)
(***************************************************************************)
EXTENDS TunnelStream, SequenceTheorems, TLAPS

-----------------------------------------------------------------------------
(* The inductive invariant behind the safety properties (its steps are in  *)
(* TunnelStreamProofs).                                                    *)

Setups == {"idle", "accepted", "registered", "waiting", "dialing"}
Relaying == {"credit", "parking", "parked", "read"}

\* Where the goroutines of one end are, and what has ended by then.
EndControl(e) ==
    /\ pc[e] \in Relaying => wpc[e] # "off"
    /\ wpc[e] # "off" => pc[e] \in Relaying \cup {"exit"}
    /\ wpc[e] = "off" => sent[e] = 0
    /\ wpc[e] = "off" /\ pc[e] = "exit" => ~registered[e]
    /\ pc[e] \in {"idle", "accepted"} => ~registered[e] /\ ~done[e]
    /\ wpc[e] = "write" => inbox[e] # << >>
    /\ done[e] => ~registered[e]
    /\ readDone[e] => pc[e] = "exit" /\ wpc[e] # "off"
    /\ writeDone[e] => wpc[e] = "exit"
    /\ readDone[e] /\ writeDone[e] => done[e]
    /\ done[e] /\ ~reset[e] => readDone[e] /\ writeDone[e]

ControlInv ==
    /\ pc["src"] # "dialing"
    /\ pc["dst"] \notin {"accepted", "registered", "waiting"}
    /\ \A e \in Ends : EndControl(e)

\* The open / ack handshake: each message exists once and finds its receiver
\* in the one place that waits for it.
OpenInv ==
    \A i \in 1 .. Len(net["dst"]) :
        /\ net["dst"][i].type \notin {"ack", "nack"}
        /\ net["dst"][i].type = "open" =>
             /\ pc["dst"] = "idle"
             /\ pc["src"] \notin {"idle", "accepted", "registered"}
             /\ net["dst"][i].fc \in BackendKeepsFC
             /\ \A j \in 1 .. Len(net["dst"]) : net["dst"][j].type = "open" => i = j

AckInv ==
    \A i \in 1 .. Len(net["src"]) :
        /\ net["src"][i].type # "open"
        /\ net["src"][i].type \in {"ack", "nack"} =>
             /\ pc["dst"] \notin {"idle", "dialing"}
             /\ reply = "none"
             /\ \A j \in 1 .. Len(net["src"]) :
                  net["src"][j].type \in {"ack", "nack"} => i = j
        /\ net["src"][i].type = "ack" => net["src"][i].fc = fc["dst"]

RoleInv ==
    /\ pc["src"] \in {"idle", "accepted", "registered"} => pc["dst"] = "idle"
    /\ pc["dst"] \in {"idle", "dialing"} => reply = "none"
    /\ wpc["src"] # "off" => reply = "ok"
    /\ reply = "ok" => fc["src"] = fc["dst"]
    /\ pc["dst"] # "idle" => fc["dst"] \in BackendKeepsFC

HandshakeInv == OpenInv /\ AckInv /\ RoleInv

\* Messages in flight to e carry consecutive pieces of the peer's stream.
Piece(e, m) ==
    /\ m.lo <= m.hi /\ m.hi <= sent[Peer(e)]
    /\ m.type = "data" => m.lo < m.hi
    /\ m.type # "data" => m.lo = m.hi
    /\ m.glo <= m.ghi /\ m.ghi <= delivered[Peer(e)]

Pieces(e) ==
    /\ \A i \in 1 .. Len(net[e]) : Piece(e, net[e][i])
    /\ \A i \in 1 .. Len(net[e]) - 1 :
         /\ net[e][i].hi = net[e][i+1].lo
         /\ net[e][i].ghi <= net[e][i+1].glo
    /\ net[e] # << >> => net[e][Len(net[e])].hi = sent[Peer(e)]

NetInv == \A e \in Ends : Pieces(e)

\* The end of what e accepted into its inbox.
Accepted(e) == IF inbox[e] = << >> THEN delivered[e] ELSE inbox[e][Len(inbox[e])].hi

\* The inbox continues the delivered bytes, in order; while e listens, nothing
\* that arrived is missing from it.
Chunks(e) ==
    /\ \A i \in 1 .. Len(inbox[e]) : inbox[e][i].lo < inbox[e][i].hi
    /\ \A i \in 1 .. Len(inbox[e]) - 1 : inbox[e][i].hi = inbox[e][i+1].lo
    /\ \A i, j \in 1 .. Len(inbox[e]) :
         i <= j => inbox[e][j].lo >= inbox[e][i].lo + (j - i)
    /\ inbox[e] # << >> => inbox[e][1].lo = delivered[e]

UpToDate(e) ==
    /\ delivered[e] <= Accepted(e)
    /\ Accepted(e) <= Arrived(e)
    /\ Listens(e) => Accepted(e) = Arrived(e)

InboxInv == \A e \in Ends : Chunks(e) /\ UpToDate(e)

\* tunnel_close from an end that was not reset follows its last byte.
CloseIsLast(e) ==
    ~reset[Peer(e)] =>
        /\ \A i \in 1 .. Len(net[e]) :
             net[e][i].type = "close" =>
                 readDone[Peer(e)] /\ net[e][i].lo = sent[Peer(e)]
        /\ inboxClosed[e] => readDone[Peer(e)] /\ Accepted(e) = sent[Peer(e)]
        /\ writeDone[e] => readDone[Peer(e)] /\ delivered[e] = sent[Peer(e)]

CloseInv == \A e \in Ends : CloseIsLast(e)

\* The window, stated so that it already holds before fc is known.
Window(e) ==
    fc[e] \/ pc[e] \in Setups =>
        credit[e] + budget[e] + sent[e] <= WindowSize + Granted(e)

CreditInv == \A e \in Ends : Window(e)

\* Nobody leaves an open connection behind, but a stop during the dial.
ConnClosed(e) ==
    /\ done[e] /\ ~stopped[e] => conn[e] # "open"
    /\ pc[e] \in {"idle", "dialing"} => conn[e] = "none"
    /\ done[e] /\ pc[e] = "dialing" => stopped[e]
    /\ pc[e] = "exit" => done[e] \/ readDone[e] \/ conn[e] = "none"
    /\ wpc[e] = "exit" => done[e] \/ writeDone[e]

ConnInv == \A e \in Ends : ConnClosed(e)

IInv == /\ TypeOK
        /\ ControlInv
        /\ HandshakeInv
        /\ NetInv
        /\ InboxInv
        /\ CloseInv
        /\ CreditInv
        /\ ConnInv

-----------------------------------------------------------------------------
\* A nonempty sequence, its head and its tail.
LEMMA SeqHead ==
    ASSUME NEW S, NEW s \in Seq(S), s # << >>
    PROVE  /\ Head(s) \in S /\ Tail(s) \in Seq(S)
           /\ Head(s) = s[1]
           /\ Len(s) \in Nat \ {0} /\ Len(Tail(s)) = Len(s) - 1
           /\ \A i \in 1 .. Len(Tail(s)) : Tail(s)[i] = s[i+1]
           /\ \A i \in 1 .. Len(s) : s[i] \in S
           /\ Tail(s) = << >> <=> Len(s) = 1
<1>1. Len(s) \in Nat \ {0}
  BY EmptySeq
<1>2. Head(s) \in S /\ Tail(s) \in Seq(S) /\ Len(Tail(s)) = Len(s) - 1
  BY HeadTailProperties
<1>3. \A i \in 1 .. Len(Tail(s)) : Tail(s)[i] = s[i+1]
  BY HeadTailProperties
<1>4. \A i \in 1 .. Len(s) : s[i] \in S
  BY ElementOfSeq
<1>5. Tail(s) = << >> <=> Len(Tail(s)) = 0
  BY <1>2, EmptySeq
<1>6. Tail(s) = << >> <=> Len(s) = 1
  BY <1>1, <1>2, <1>5
<1>7. Head(s) = s[1]
  OBVIOUS
<1> QED
  BY <1>1, <1>2, <1>3, <1>4, <1>6, <1>7

\* A sequence with one more element at its end.
LEMMA SeqAppend ==
    ASSUME NEW S, NEW s \in Seq(S), NEW x \in S
    PROVE  /\ Append(s, x) \in Seq(S)
           /\ Len(s) \in Nat /\ Len(Append(s, x)) = Len(s) + 1
           /\ Append(s, x)[Len(s) + 1] = x
           /\ \A i \in 1 .. Len(s) : Append(s, x)[i] = s[i] /\ s[i] \in S
           /\ Append(s, x) # << >>
           /\ s = << >> => Len(s) = 0 /\ Head(Append(s, x)) = x
           /\ s # << >> => Len(s) > 0 /\ Head(Append(s, x)) = Head(s)
<1>1. /\ Append(s, x) \in Seq(S) /\ Append(s, x) # << >>
      /\ Len(Append(s, x)) = Len(s) + 1
      /\ Append(s, x)[Len(s) + 1] = x
  BY AppendProperties
<1>2. \A i \in 1 .. Len(s) : Append(s, x)[i] = s[i]
  BY AppendProperties
<1>3. Len(s) \in Nat /\ \A i \in 1 .. Len(s) : s[i] \in S
  BY LenProperties, ElementOfSeq
<1>4. (s = << >> => Len(s) = 0) /\ (s # << >> => Len(s) > 0)
  BY <1>3, EmptySeq
<1>5. Head(Append(s, x)) = Append(s, x)[1]
  OBVIOUS
<1> QED
  BY <1>1, <1>2, <1>3, <1>4, <1>5

\* The same for the messages in flight to e ...
LEMMA NetHead ==
    ASSUME TypeOK, NEW e \in Ends, net[e] # << >>
    PROVE  /\ Head(net[e]) \in Message /\ Tail(net[e]) \in Seq(Message)
           /\ Head(net[e]) = net[e][1]
           /\ Len(net[e]) \in Nat \ {0} /\ Len(Tail(net[e])) = Len(net[e]) - 1
           /\ \A i \in 1 .. Len(Tail(net[e])) : Tail(net[e])[i] = net[e][i+1]
           /\ \A i \in 1 .. Len(net[e]) : net[e][i] \in Message
           /\ Tail(net[e]) = << >> <=> Len(net[e]) = 1
<1>1. net[e] \in Seq(Message)
  BY DEF TypeOK
<1> QED
  BY <1>1, SeqHead

\* The same, one more element at its end.
LEMMA NetAppend ==
    ASSUME TypeOK, NEW e \in Ends, NEW m \in Message
    PROVE  /\ Append(net[e], m) \in Seq(Message)
           /\ Len(net[e]) \in Nat /\ Len(Append(net[e], m)) = Len(net[e]) + 1
           /\ Append(net[e], m)[Len(net[e]) + 1] = m
           /\ \A i \in 1 .. Len(net[e]) :
                Append(net[e], m)[i] = net[e][i] /\ net[e][i] \in Message
           /\ Append(net[e], m) # << >>
           /\ net[e] = << >> => Len(net[e]) = 0 /\ Head(Append(net[e], m)) = m
           /\ net[e] # << >> => Len(net[e]) > 0 /\ Head(Append(net[e], m)) = Head(net[e])
<1>1. net[e] \in Seq(Message)
  BY DEF TypeOK
<1> QED
  BY <1>1, SeqAppend

\* ... and for the inbox of e.
LEMMA InboxHead ==
    ASSUME TypeOK, NEW e \in Ends, inbox[e] # << >>
    PROVE  /\ Head(inbox[e]) \in Chunk /\ Tail(inbox[e]) \in Seq(Chunk)
           /\ Head(inbox[e]) = inbox[e][1]
           /\ Len(inbox[e]) \in Nat \ {0} /\ Len(Tail(inbox[e])) = Len(inbox[e]) - 1
           /\ \A i \in 1 .. Len(Tail(inbox[e])) : Tail(inbox[e])[i] = inbox[e][i+1]
           /\ \A i \in 1 .. Len(inbox[e]) : inbox[e][i] \in Chunk
           /\ Tail(inbox[e]) = << >> <=> Len(inbox[e]) = 1
<1>1. inbox[e] \in Seq(Chunk)
  BY DEF TypeOK
<1> QED
  BY <1>1, SeqHead

\* The same, one more element at its end.
LEMMA InboxAppend ==
    ASSUME TypeOK, NEW e \in Ends, NEW m \in Chunk
    PROVE  /\ Append(inbox[e], m) \in Seq(Chunk)
           /\ Len(inbox[e]) \in Nat /\ Len(Append(inbox[e], m)) = Len(inbox[e]) + 1
           /\ Append(inbox[e], m)[Len(inbox[e]) + 1] = m
           /\ \A i \in 1 .. Len(inbox[e]) :
                Append(inbox[e], m)[i] = inbox[e][i] /\ inbox[e][i] \in Chunk
           /\ Append(inbox[e], m) # << >>
           /\ inbox[e] = << >> => Len(inbox[e]) = 0 /\ Head(Append(inbox[e], m)) = m
           /\ inbox[e] # << >> => Len(inbox[e]) > 0 /\ Head(Append(inbox[e], m)) = Head(inbox[e])
<1>1. inbox[e] \in Seq(Chunk)
  BY DEF TypeOK
<1> QED
  BY <1>1, SeqAppend

\* There are two ends, each the other's peer.
LEMMA PeerOfEnd ==
    ASSUME NEW e \in Ends
    PROVE  /\ Peer(e) \in Ends /\ Peer(e) # e /\ Peer(Peer(e)) = e
           /\ \A d \in Ends : d # e => d = Peer(e)
  BY DEF Ends, Peer

\* A message built with Msg is a message.
LEMMA MsgTyped ==
    ASSUME TypeOK, NEW e \in Ends, NEW type \in Types, NEW n \in Nat, NEW g \in Nat,
           NEW flag \in BOOLEAN
    PROVE  Msg(e, type, n, g, flag) \in Message
  BY DEF TypeOK, Msg, Message

\* The channels after e emits m.
LEMMA EmittedTyped ==
    ASSUME TypeOK, NEW e \in Ends, NEW m \in Message
    PROVE  Emitted(e, m) \in [Ends -> Seq(Message)]
<1>1. Append(net[Peer(e)], m) \in Seq(Message)
  BY PeerOfEnd, NetAppend
<1> QED
  BY <1>1 DEF TypeOK, Emitted

\* The channels after e consumes its first message.
LEMMA ConsumedTyped ==
    ASSUME TypeOK, NEW e \in Ends, net[e] # << >>
    PROVE  Consumed(e) \in [Ends -> Seq(Message)]
<1>1. Tail(net[e]) \in Seq(Message)
  BY NetHead
<1> QED
  BY <1>1 DEF TypeOK, Consumed

\* What abort and unregister assign keeps its type ...
LEMMA AbortTyped ==
    ASSUME TypeOK, NEW e \in Ends, Abort(e)
    PROVE  /\ done' \in [Ends -> BOOLEAN]
           /\ conn' \in [Ends -> {"none", "open", "closed"}]
           /\ registered' \in [Ends -> BOOLEAN]
  BY DEF TypeOK, Abort

\* ... so does an abort no orderly end led to ...
LEMMA HardAbortTyped ==
    ASSUME TypeOK, NEW e \in Ends, HardAbort(e)
    PROVE  /\ done' \in [Ends -> BOOLEAN]
           /\ conn' \in [Ends -> {"none", "open", "closed"}]
           /\ registered' \in [Ends -> BOOLEAN]
           /\ reset' \in [Ends -> BOOLEAN]
<1>1. Abort(e)
  BY DEF HardAbort
<1>2. reset' \in [Ends -> BOOLEAN]
  BY DEF TypeOK, HardAbort
<1> QED
  BY <1>1, <1>2, AbortTyped

\* ... and the end of markDone.
LEMMA FinishTyped ==
    ASSUME TypeOK, NEW e \in Ends, NEW both, FinishIf(e, both)
    PROVE  /\ done' \in [Ends -> BOOLEAN]
           /\ conn' \in [Ends -> {"none", "open", "closed"}]
           /\ registered' \in [Ends -> BOOLEAN]
           /\ reset' \in [Ends -> BOOLEAN]
<1>1. reset' \in [Ends -> BOOLEAN]
  BY DEF TypeOK, FinishIf
<1>2. CASE Abort(e)
  BY <1>1, <1>2, AbortTyped
<1>3. CASE UNCHANGED <<done, conn, registered>>
  BY <1>1, <1>3 DEF TypeOK
<1> QED
  BY <1>2, <1>3 DEF FinishIf

\* A broadcast leaves the reader at a control point.
LEMMA WokenTyped ==
    ASSUME TypeOK, NEW e \in Ends
    PROVE  [pc EXCEPT ![e] = Woken(e)] \in [Ends -> PCs]
  BY DEF TypeOK, PCs, Woken

\* What NetInv says of the message e dispatches next.
LEMMA NetInvHead ==
    ASSUME TypeOK, NetInv, NEW e \in Ends, net[e] # << >>
    PROVE  LET m == Head(net[e]) IN
             /\ m.lo <= m.hi /\ m.hi <= sent[Peer(e)]
             /\ m.type = "data" => m.lo < m.hi
             /\ m.type # "data" => m.lo = m.hi
             /\ m.glo <= m.ghi /\ m.ghi <= delivered[Peer(e)]
  BY NetHead DEF NetInv, Pieces, Piece

\* What InboxInv says of the chunk e's writer takes next.
LEMMA InboxInvHead ==
    ASSUME TypeOK, InboxInv, NEW e \in Ends, inbox[e] # << >>
    PROVE  LET c == Head(inbox[e]) IN c.lo < c.hi /\ c.lo = delivered[e]
<1>1. Len(inbox[e]) \in Nat \ {0} /\ Head(inbox[e]) = inbox[e][1]
  BY InboxHead
<1>2. 1 \in 1 .. Len(inbox[e])
  BY <1>1
<1>3. Chunks(e)
  BY DEF InboxInv
<1> QED
  BY <1>1, <1>2, <1>3 DEF Chunks

\* Every step preserves the types: the credit, above all, stays a natural number
\* (addCredit's grants and takeCredit's reservations never drive it below zero).
LEMMA TypeStep ==
    ASSUME TypeOK, ControlInv, NetInv, InboxInv, [Next]_vars
    PROVE  TypeOK'
<1> USE ConstantsAssumption DEF TypeOK
<1>1. CASE Accept
  BY <1>1 DEF Accept, PCs, Ends
<1>2. CASE Register
  BY <1>2 DEF Register, PCs, Ends
<1>3. CASE SendOpen
  <2>1. PICK keeps \in BackendKeepsFC :
          net' = Emitted("src", Msg("src", "open", 0, 0, keeps))
    BY <1>3 DEF SendOpen
  <2>2. Msg("src", "open", 0, 0, keeps) \in Message /\ "src" \in Ends
    BY <2>1, MsgTyped DEF Types, Ends
  <2>3. net' \in [Ends -> Seq(Message)]
    BY <2>1, <2>2, EmittedTyped
  <2> QED
    BY <1>3, <2>3 DEF SendOpen, PCs
<1>4. CASE SourceReady
  BY <1>4 DEF SourceReady, PCs, Ends, StartRelay
<1>5. CASE SourceFailed
  <2>1. HardAbort("src") /\ "src" \in Ends
    BY <1>5 DEF SourceFailed, Ends
  <2> QED
    BY <1>5, <2>1, HardAbortTyped DEF SourceFailed, PCs
<1>6. CASE SourceAckTimeout
  <2>1. Msg("src", "close", 0, 0, FALSE) \in Message /\ "src" \in Ends
    BY MsgTyped DEF Types, Ends
  <2>2. Emitted("src", Msg("src", "close", 0, 0, FALSE)) \in [Ends -> Seq(Message)]
    BY <2>1, EmittedTyped
  <2> QED
    BY <1>6, <2>1, <2>2, HardAbortTyped DEF SourceAckTimeout, PCs
<1>7. CASE SourceDone
  BY <1>7 DEF SourceDone, PCs, Ends
<1>8. CASE DialOK
  <2>1. Msg("dst", "ack", 0, 0, fc["dst"]) \in Message /\ "dst" \in Ends
    BY MsgTyped DEF Types, Ends, TypeOK
  <2>2. Emitted("dst", Msg("dst", "ack", 0, 0, fc["dst"])) \in [Ends -> Seq(Message)]
    BY <2>1, EmittedTyped
  <2> QED
    BY <1>8, <2>1, <2>2 DEF DialOK, StartRelay, PCs
<1>9. CASE DialFail
  <2>1. Msg("dst", "nack", 0, 0, FALSE) \in Message /\ "dst" \in Ends
    BY MsgTyped DEF Types, Ends
  <2>2. Emitted("dst", Msg("dst", "nack", 0, 0, FALSE)) \in [Ends -> Seq(Message)]
    BY <2>1, EmittedTyped
  <2> QED
    BY <1>9, <2>1, <2>2 DEF DialFail, PCs
<1>10. CASE OpenDest
  <2>1. Head(net["dst"]) \in Message /\ Consumed("dst") \in [Ends -> Seq(Message)]
    BY <1>10, NetHead, ConsumedTyped DEF OpenDest, Arrives, Ends
  <2>2. Head(net["dst"]).fc \in BOOLEAN
    BY <2>1 DEF Message
  <2>3. fc' \in [Ends -> BOOLEAN] /\ pc' \in [Ends -> PCs]
    BY <1>10, <2>2 DEF OpenDest, PCs
  <2> QED
    BY <1>10, <2>1, <2>3 DEF OpenDest
<1>11. CASE Ack
  <2>1. Head(net["src"]) \in Message /\ Consumed("src") \in [Ends -> Seq(Message)]
    BY <1>11, NetHead, ConsumedTyped DEF Ack, Arrives, Ends
  <2>2. fc' \in [Ends -> BOOLEAN] /\ reply' \in {"none", "ok", "fail"}
    BY <1>11, <2>1 DEF Ack, Message
  <2> QED
    BY <1>11, <2>1, <2>2 DEF Ack
<1>12. ASSUME NEW e \in Ends, DataIgnored(e) PROVE TypeOK'
  <2>1. Consumed(e) \in [Ends -> Seq(Message)]
    BY <1>12, ConsumedTyped DEF DataIgnored, Arrives
  <2> QED
    BY <1>12, <2>1 DEF DataIgnored
<1>13. ASSUME NEW e \in Ends, DataAccepted(e) PROVE TypeOK'
  <2>1. Head(net[e]) \in Message /\ Consumed(e) \in [Ends -> Seq(Message)]
    BY <1>13, NetHead, ConsumedTyped DEF DataAccepted, Arrives
  <2>2. [lo |-> Head(net[e]).lo, hi |-> Head(net[e]).hi] \in Chunk
    BY <2>1 DEF Message, Chunk
  <2>3. inbox' \in [Ends -> Seq(Chunk)]
    BY <1>13, <2>2, InboxAppend DEF DataAccepted
  <2> QED
    BY <1>13, <2>1, <2>3 DEF DataAccepted
<1>14. ASSUME NEW e \in Ends, DataOverflow(e) PROVE TypeOK'
  <2>1. Msg(e, "close", 0, 0, FALSE) \in Message
    BY MsgTyped DEF Types
  <2>2. Append(net[Peer(e)], Msg(e, "close", 0, 0, FALSE)) \in Seq(Message)
    BY <2>1, NetAppend, PeerOfEnd
  <2>3. Tail(net[e]) \in Seq(Message)
    BY <1>14, NetHead DEF DataOverflow, Arrives
  <2>4. net' \in [Ends -> Seq(Message)]
    BY <1>14, <2>2, <2>3 DEF DataOverflow
  <2>5. pc' \in [Ends -> PCs] /\ HardAbort(e)
    BY <1>14, WokenTyped DEF DataOverflow
  <2> QED
    BY <1>14, <2>4, <2>5, HardAbortTyped DEF DataOverflow
<1>15. ASSUME NEW e \in Ends, AddCredit(e) PROVE TypeOK'
  <2>1. Head(net[e]) \in Message /\ Consumed(e) \in [Ends -> Seq(Message)]
    BY <1>15, NetHead, ConsumedTyped DEF AddCredit, Arrives
  <2>2. Head(net[e]).glo <= Head(net[e]).ghi
    BY <1>15, NetInvHead DEF AddCredit, Arrives
  <2>3. credit[e] \in Nat /\ Head(net[e]).glo \in Nat /\ Head(net[e]).ghi \in Nat
    BY <2>1 DEF Message
  <2>4. credit[e] + Head(net[e]).ghi - Head(net[e]).glo \in Nat
    BY <2>2, <2>3, SMTT(30)
  <2>5. CASE registered[e]
    <3>1. credit' = [credit EXCEPT ![e] = credit[e] + Head(net[e]).ghi - Head(net[e]).glo]
      BY <1>15, <2>5 DEF AddCredit
    <3>2. credit' \in [Ends -> Nat]
      BY <3>1, <2>4
    <3>3. pc' \in [Ends -> PCs]
      BY <1>15, <2>5, WokenTyped, ZenonT(40) DEF AddCredit
    <3> QED
      BY <1>15, <2>1, <3>2, <3>3 DEF AddCredit
  <2>6. CASE ~registered[e]
    BY <1>15, <2>1, <2>6 DEF AddCredit
  <2> QED
    BY <2>5, <2>6
<1>16. ASSUME NEW e \in Ends, CloseStream(e) PROVE TypeOK'
  <2>1. Consumed(e) \in [Ends -> Seq(Message)]
    BY <1>16, ConsumedTyped DEF CloseStream, Arrives
  <2> QED
    BY <1>16, <2>1 DEF CloseStream
<1>17. ASSUME NEW e \in Ends, TakeCredit(e) PROVE TypeOK'
  <2>1. Reserve(e) \in Nat /\ credit[e] - Reserve(e) \in Nat
    BY DEF Reserve
  <2>2. CASE pc' = [pc EXCEPT ![e] = "read"]
              /\ credit' = [credit EXCEPT ![e] = @ - Reserve(e)]
              /\ budget' = [budget EXCEPT ![e] = Reserve(e)]
    <3>1. credit' \in [Ends -> Nat] /\ budget' \in [Ends -> Nat]
      BY <2>1, <2>2
    <3>2. pc' \in [Ends -> PCs]
      BY <2>2 DEF PCs
    <3> QED
      BY <1>17, <3>1, <3>2 DEF TakeCredit
  <2>3. CASE pc' \in {[pc EXCEPT ![e] = "exit"], [pc EXCEPT ![e] = "parking"]}
              /\ UNCHANGED <<credit, budget>>
    <3>1. pc' \in [Ends -> PCs]
      BY <2>3 DEF PCs
    <3> QED
      BY <1>17, <2>3, <3>1 DEF TakeCredit
  <2> QED
    BY <1>17, <2>2, <2>3 DEF TakeCredit
<1>18. ASSUME NEW e \in Ends, Park(e) PROVE TypeOK'
  BY <1>18 DEF Park, PCs, Ends
<1>19. ASSUME NEW e \in Ends, ReadData(e) PROVE TypeOK'
  <2>1. PICK n \in 1 .. ReadLimit(e) :
          /\ net' = Emitted(e, Msg(e, "data", n, 0, FALSE))
          /\ sent' = [sent EXCEPT ![e] = @ + n]
          /\ credit' = [credit EXCEPT ![e] = @ + Unused(e, n)]
    BY <1>19 DEF ReadData
  <2>2. ReadLimit(e) \in Nat /\ n \in Nat
    BY <2>1 DEF ReadLimit
  <2>3. Unused(e, n) \in Nat
    BY <2>1, <2>2 DEF Unused, ReadLimit
  <2>4. Msg(e, "data", n, 0, FALSE) \in Message
    BY <2>2, MsgTyped DEF Types
  <2>5. net' \in [Ends -> Seq(Message)]
    BY <2>1, <2>4, EmittedTyped
  <2>6. sent' \in [Ends -> Nat] /\ credit' \in [Ends -> Nat]
    BY <2>1, <2>2, <2>3
  <2>7. pc' \in [Ends -> PCs]
    BY <1>19 DEF ReadData, PCs
  <2> QED
    BY <1>19, <2>5, <2>6, <2>7 DEF ReadData
<1>20. ASSUME NEW e \in Ends, ReadEnd(e) PROVE TypeOK'
  <2>1. Msg(e, "close", 0, 0, FALSE) \in Message
    BY MsgTyped DEF Types
  <2>2. net' \in [Ends -> Seq(Message)] /\ pc' \in [Ends -> PCs]
    BY <1>20, <2>1, EmittedTyped DEF ReadEnd, PCs
  <2>3. FinishIf(e, writeDone[e])
    BY <1>20 DEF ReadEnd
  <2> QED
    BY <1>20, <2>2, <2>3, FinishTyped DEF ReadEnd
<1>21. ASSUME NEW e \in Ends, WriterDone(e) PROVE TypeOK'
  BY <1>21 DEF WriterDone, PCs, Ends
<1>22. ASSUME NEW e \in Ends, WriterTake(e) PROVE TypeOK'
  BY <1>22 DEF WriterTake, PCs, Ends
<1>23. ASSUME NEW e \in Ends, WriteOK(e) PROVE TypeOK'
  <2> DEFINE c == Head(inbox[e])
             m == Msg(e, "window", 0, c.hi - c.lo, FALSE)
  <2>1. c \in Chunk /\ Tail(inbox[e]) \in Seq(Chunk) /\ c.lo < c.hi
    BY <1>23, InboxHead, InboxInvHead DEF WriteOK, ControlInv, EndControl
  <2>2. c.hi - c.lo \in Nat
    BY <2>1 DEF Chunk
  <2>3. m \in Message
    BY <2>2, MsgTyped DEF Types
  <2>4. net' \in [Ends -> Seq(Message)]
    BY <1>23, <2>3, EmittedTyped DEF WriteOK
  <2>5. delivered' \in [Ends -> Nat] /\ inbox' \in [Ends -> Seq(Chunk)]
    BY <1>23, <2>1, <2>2 DEF WriteOK
  <2> QED
    BY <1>23, <2>4, <2>5 DEF WriteOK
<1>24. ASSUME NEW e \in Ends, WriteFail(e) PROVE TypeOK'
  <2>1. pc' \in [Ends -> PCs] /\ HardAbort(e)
    BY <1>24, WokenTyped DEF WriteFail
  <2> QED
    BY <1>24, <2>1, HardAbortTyped DEF WriteFail
<1>25. ASSUME NEW e \in Ends, WriterEOF(e) PROVE TypeOK'
  <2>1. FinishIf(e, readDone[e])
    BY <1>25 DEF WriterEOF
  <2> QED
    BY <1>25, <2>1, FinishTyped DEF WriterEOF
<1>26. ASSUME NEW e \in Ends, AppReset(e) PROVE TypeOK'
  BY <1>26 DEF AppReset, PCs, Ends
<1>27. ASSUME NEW e \in Ends, Stop(e) PROVE TypeOK'
  <2>1. CASE registered[e]
    <3>1. pc' \in [Ends -> PCs] /\ HardAbort(e)
      BY <1>27, <2>1, WokenTyped, ZenonT(40) DEF Stop
    <3> QED
      BY <1>27, <3>1, HardAbortTyped DEF Stop
  <2>2. CASE ~registered[e]
    BY <1>27, <2>2 DEF Stop
  <2> QED
    BY <2>1, <2>2
<1>28. CASE UNCHANGED vars
  BY <1>28 DEF vars
<1>29. QED
  BY <1>1, <1>2, <1>3, <1>4, <1>5, <1>6, <1>7, <1>8, <1>9, <1>10, <1>11,
     <1>12, <1>13, <1>14, <1>15, <1>16, <1>17, <1>18, <1>19, <1>20, <1>21,
     <1>22, <1>23, <1>24, <1>25, <1>26, <1>27, <1>28
  DEF Next, Setup, Deliver, Reader, Writer

\* The handshake messages find the receiver where it waits for them.
LEMMA OpenArrives ==
    ASSUME TypeOK, OpenInv, Arrives("dst", "open")
    PROVE  /\ pc["dst"] = "idle" /\ pc["src"] \notin {"idle", "accepted", "registered"}
           /\ Head(net["dst"]).fc \in BackendKeepsFC
           /\ "dst" \in Ends /\ net["dst"] # << >>
<1>1. net["dst"] # << >> /\ Head(net["dst"]).type = "open" /\ "dst" \in Ends
  BY DEF Arrives, Ends
<1>2. Head(net["dst"]) = net["dst"][1] /\ 1 \in 1 .. Len(net["dst"])
  BY <1>1, NetHead
<1> QED
  BY <1>1, <1>2 DEF OpenInv

\* The answer finds tunnel.Ack's stream without one.
LEMMA AckArrives ==
    ASSUME TypeOK, AckInv, Arrives("src", "ack") \/ Arrives("src", "nack")
    PROVE  /\ pc["dst"] \notin {"idle", "dialing"} /\ reply = "none"
           /\ Head(net["src"]).type = "ack" => Head(net["src"]).fc = fc["dst"]
           /\ "src" \in Ends /\ net["src"] # << >>
<1>1. net["src"] # << >> /\ Head(net["src"]).type \in {"ack", "nack"} /\ "src" \in Ends
  BY DEF Arrives, Ends
<1>2. Head(net["src"]) = net["src"][1] /\ 1 \in 1 .. Len(net["src"])
  BY <1>1, NetHead
<1> QED
  BY <1>1, <1>2 DEF AckInv

\* Every step keeps each end's goroutines, registration and endings consistent.
LEMMA ControlStep ==
    ASSUME TypeOK, ControlInv, HandshakeInv, [Next]_vars
    PROVE  ControlInv'
<1> USE ConstantsAssumption DEF TypeOK, ControlInv, EndControl, Ends, Setups, Relaying
<1>1. CASE Accept
  BY <1>1 DEF Accept
<1>2. CASE Register
  BY <1>2 DEF Register
<1>3. CASE SendOpen
  BY <1>3 DEF SendOpen
<1>4. CASE SourceReady
  BY <1>4, SMTT(30) DEF SourceReady, StartRelay
<1>5. CASE SourceFailed
  BY <1>5, ZenonT(40) DEF SourceFailed, HardAbort, Abort
<1>6. CASE SourceAckTimeout
  BY <1>6, ZenonT(40) DEF SourceAckTimeout, HardAbort, Abort
<1>7. CASE SourceDone
  BY <1>7 DEF SourceDone
<1>8. CASE DialOK
  BY <1>8 DEF DialOK, StartRelay
<1>9. CASE DialFail
  BY <1>9 DEF DialFail
<1>10. CASE OpenDest
  <2>1. pc["dst"] = "idle" /\ pc["src"] # "dialing"
    BY <1>10, OpenArrives DEF OpenDest, HandshakeInv
  <2> QED
    BY <1>10, <2>1 DEF OpenDest
<1>11. CASE Ack
  BY <1>11 DEF Ack
<1>12. ASSUME NEW e \in Ends, DataIgnored(e) PROVE ControlInv'
  BY <1>12 DEF DataIgnored, Listens
<1>13. ASSUME NEW e \in Ends, DataAccepted(e) PROVE ControlInv'
  <2> DEFINE c == [lo |-> Head(net[e]).lo, hi |-> Head(net[e]).hi]
  <2>1. inbox' = [inbox EXCEPT ![e] = Append(inbox[e], c)]
    BY <1>13 DEF DataAccepted
  <2>2. c \in Chunk
    BY <1>13, NetHead DEF DataAccepted, Arrives, Message, Chunk
  <2>3. Append(inbox[e], c) # << >>
    BY <2>2, InboxAppend, ZenonT(40)
  <2>4. \A d \in Ends : inbox[d] # << >> => inbox'[d] # << >>
    BY <2>1, <2>3
  <2> QED
    BY <1>13, <2>4, SMTT(30) DEF DataAccepted
<1>14. ASSUME NEW e \in Ends, DataOverflow(e) PROVE ControlInv'
  BY <1>14, SMTT(30) DEF DataOverflow, Listens, HardAbort, Abort, Woken
<1>15. ASSUME NEW e \in Ends, AddCredit(e) PROVE ControlInv'
  BY <1>15 DEF AddCredit, Woken
<1>16. ASSUME NEW e \in Ends, CloseStream(e) PROVE ControlInv'
  BY <1>16 DEF CloseStream
<1>17. ASSUME NEW e \in Ends, TakeCredit(e) PROVE ControlInv'
  BY <1>17, SMTT(30) DEF TakeCredit
<1>18. ASSUME NEW e \in Ends, Park(e) PROVE ControlInv'
  BY <1>18 DEF Park
<1>19. ASSUME NEW e \in Ends, ReadData(e) PROVE ControlInv'
  BY <1>19, SMTT(30) DEF ReadData
<1>20. ASSUME NEW e \in Ends, ReadEnd(e) PROVE ControlInv'
  BY <1>20 DEF ReadEnd, FinishIf, Abort
<1>21. ASSUME NEW e \in Ends, WriterDone(e) PROVE ControlInv'
  BY <1>21 DEF WriterDone
<1>22. ASSUME NEW e \in Ends, WriterTake(e) PROVE ControlInv'
  BY <1>22 DEF WriterTake
<1>23. ASSUME NEW e \in Ends, WriteOK(e) PROVE ControlInv'
  BY <1>23, SMTT(30) DEF WriteOK
<1>24. ASSUME NEW e \in Ends, WriteFail(e) PROVE ControlInv'
  <2>1. pc' = [pc EXCEPT ![e] = Woken(e)] /\ pc["src"] # "dialing"
        /\ pc["dst"] \notin {"accepted", "registered", "waiting"}
    BY <1>24 DEF WriteFail
  <2>2. pc'["src"] # "dialing" /\ pc'["dst"] \notin {"accepted", "registered", "waiting"}
    BY <2>1 DEF Woken
  <2>3. EndControl(e)'
    BY <1>24 DEF WriteFail, HardAbort, Abort, Woken
  <2>4. ASSUME NEW d \in Ends, d # e PROVE EndControl(d)'
    BY <1>24, <2>4 DEF WriteFail, HardAbort, Abort
  <2> QED
    BY <2>2, <2>3, <2>4
<1>25. ASSUME NEW e \in Ends, WriterEOF(e) PROVE ControlInv'
  BY <1>25, SMTT(30) DEF WriterEOF, Drained, FinishIf, Abort
<1>26. ASSUME NEW e \in Ends, AppReset(e) PROVE ControlInv'
  BY <1>26 DEF AppReset
<1>27. ASSUME NEW e \in Ends, Stop(e) PROVE ControlInv'
  BY <1>27 DEF Stop, HardAbort, Abort, Woken
<1>28. CASE UNCHANGED vars
  BY <1>28 DEF vars
<1>29. QED
  BY <1>1, <1>2, <1>3, <1>4, <1>5, <1>6, <1>7, <1>8, <1>9, <1>10, <1>11,
     <1>12, <1>13, <1>14, <1>15, <1>16, <1>17, <1>18, <1>19, <1>20, <1>21,
     <1>22, <1>23, <1>24, <1>25, <1>26, <1>27, <1>28
  DEF Next, Setup, Deliver, Reader, Writer

-----------------------------------------------------------------------------
(* How a channel and its positions change.                                 *)

\* The first message of d's channel is consumed.
LEMMA PiecesTail ==
    ASSUME TypeOK, NEW d \in Ends, Pieces(d), net[d] # << >>,
           net'[d] = Tail(net[d]),
           sent'[Peer(d)] = sent[Peer(d)], delivered'[Peer(d)] = delivered[Peer(d)]
    PROVE  /\ Pieces(d)'
           /\ Arrived(d) = Head(net[d]).lo /\ Arrived(d)' = Head(net[d]).hi
           /\ Granted(d) = Head(net[d]).glo /\ Granted(d)' >= Head(net[d]).ghi
<1> DEFINE s == net[d]
<1>1. /\ Len(s) \in Nat \ {0} /\ Len(Tail(s)) = Len(s) - 1 /\ Head(s) = s[1]
      /\ \A i \in 1 .. Len(Tail(s)) : Tail(s)[i] = s[i+1]
      /\ Tail(s) = << >> <=> Len(s) = 1
      /\ Tail(s) \in Seq(Message)
  BY NetHead
<1>2. \A i \in 1 .. Len(Tail(s)) : i + 1 \in 1 .. Len(s)
  BY <1>1
<1>3. \A i \in 1 .. Len(net'[d]) : Piece(d, net[d][i])'
  <2> SUFFICES ASSUME NEW i \in 1 .. Len(Tail(s)) PROVE Piece(d, net[d][i])'
    OBVIOUS
  <2>1. Piece(d, s[i+1]) /\ net'[d][i] = s[i+1]
    BY <1>1, <1>2 DEF Pieces
  <2> QED
    BY <2>1 DEF Piece
<1>4. \A i \in 1 .. Len(Tail(s)) - 1 :
         /\ i \in 1 .. Len(Tail(s)) /\ i + 1 \in 1 .. Len(Tail(s))
         /\ i + 1 \in 1 .. Len(s) - 1
  BY <1>1
<1>5. \A i \in 1 .. Len(Tail(s)) - 1 :
         Tail(s)[i].hi = Tail(s)[i+1].lo /\ Tail(s)[i].ghi <= Tail(s)[i+1].glo
  BY <1>1, <1>4 DEF Pieces
<1>6. Tail(s) # << >> => Tail(s)[Len(Tail(s))].hi = sent'[Peer(d)]
  <2> SUFFICES ASSUME Tail(s) # << >> PROVE Tail(s)[Len(Tail(s))] = s[Len(s)] /\ s # << >>
    BY DEF Pieces
  <2>1. Len(Tail(s)) \in 1 .. Len(Tail(s))
    BY <1>1
  <2> QED
    BY <1>1, <2>1
<1>7. Pieces(d)'
  BY <1>3, <1>5, <1>6 DEF Pieces
<1>8. Arrived(d)' = Head(s).hi /\ Granted(d)' >= Head(s).ghi
  <2>1. CASE Tail(s) = << >>
    <3>1. s[1].hi = sent[Peer(d)] /\ s[1].ghi <= delivered[Peer(d)]
      BY <1>1, <2>1 DEF Pieces, Piece
    <3> QED
      BY <1>1, <2>1, <3>1, PeerOfEnd DEF Arrived, Granted, TypeOK, Message
  <2>2. CASE Tail(s) # << >>
    <3>1. Len(s) > 1 /\ 1 \in 1 .. Len(s) - 1 /\ 1 \in 1 .. Len(Tail(s))
      BY <1>1, <2>2
    <3>2. Head(Tail(s)) = s[2]
      BY <1>1, <2>2, <3>1, SeqHead
    <3>3. s[1].hi = s[2].lo /\ s[1].ghi <= s[2].glo
      BY <3>1 DEF Pieces
    <3>4. 1 \in 1 .. Len(s) /\ 2 \in 1 .. Len(s) /\ s[1] \in Message /\ s[2] \in Message
      BY <1>1, <3>1, NetHead
    <3> QED
      BY <1>1, <2>2, <3>2, <3>3, <3>4 DEF Arrived, Granted, Message
  <2> QED
    BY <2>1, <2>2
<1> QED
  BY <1>1, <1>7, <1>8 DEF Arrived, Granted

\* One more message joins d's channel, stamped with the positions of the peer.
LEMMA PiecesAppend ==
    ASSUME TypeOK, NEW d \in Ends, Pieces(d), NEW m \in Message,
           net'[d] = Append(net[d], m),
           sent'[Peer(d)] \in Nat, delivered'[Peer(d)] \in Nat,
           m.lo = sent[Peer(d)], m.hi = sent'[Peer(d)], m.lo <= m.hi,
           m.type = "data" <=> m.lo < m.hi,
           m.glo = delivered[Peer(d)], m.ghi = delivered'[Peer(d)], m.glo <= m.ghi
    PROVE  Pieces(d)' /\ Arrived(d)' = Arrived(d) /\ Granted(d)' = Granted(d)
<1> DEFINE s == net[d]
           t == Append(net[d], m)
<1>1. /\ Len(s) \in Nat /\ Len(t) = Len(s) + 1 /\ t[Len(s) + 1] = m
      /\ \A i \in 1 .. Len(s) : t[i] = s[i] /\ s[i] \in Message
      /\ t # << >>
      /\ s = << >> => Len(s) = 0 /\ Head(t) = m
      /\ s # << >> => Len(s) > 0 /\ Head(t) = Head(s)
  BY NetAppend
<1>2. sent[Peer(d)] \in Nat /\ delivered[Peer(d)] \in Nat /\ m.lo \in Nat /\ m.hi \in Nat
      /\ m.glo \in Nat /\ m.ghi \in Nat
  BY PeerOfEnd DEF TypeOK, Message
<1>3. \A i \in 1 .. Len(t) : i \in 1 .. Len(s) \/ i = Len(s) + 1
  BY <1>1
<1>4. \A i \in 1 .. Len(s) :
         /\ s[i].lo \in Nat /\ s[i].hi \in Nat /\ s[i].glo \in Nat /\ s[i].ghi \in Nat
  BY <1>1 DEF Message
<1>5. \A i \in 1 .. Len(net'[d]) : Piece(d, net[d][i])'
  <2> SUFFICES ASSUME NEW i \in 1 .. Len(t) PROVE Piece(d, net[d][i])'
    OBVIOUS
  <2>1. CASE i \in 1 .. Len(s)
    <3>1. Piece(d, s[i]) /\ net'[d][i] = s[i]
      BY <1>1, <2>1 DEF Pieces
    <3>2. s[i].hi \in Nat /\ s[i].ghi \in Nat
      BY <1>4, <2>1
    <3>3. s[i].hi <= sent'[Peer(d)] /\ s[i].ghi <= delivered'[Peer(d)]
      BY <1>2, <3>1, <3>2 DEF Piece
    <3> QED
      BY <3>1, <3>3 DEF Piece
  <2>2. CASE i = Len(s) + 1
    <3>1. net'[d][i] = m
      BY <1>1, <2>2
    <3> QED
      BY <1>2, <3>1 DEF Piece
  <2> QED
    BY <1>3, <2>1, <2>2
<1>6. \A i \in 1 .. Len(t) - 1 : t[i].hi = t[i+1].lo /\ t[i].ghi <= t[i+1].glo
  <2> SUFFICES ASSUME NEW i \in 1 .. Len(t) - 1
               PROVE  t[i].hi = t[i+1].lo /\ t[i].ghi <= t[i+1].glo
    OBVIOUS
  <2>1. i \in 1 .. Len(s) /\ t[i] = s[i]
    BY <1>1
  <2>2. CASE i = Len(s)
    <3>1. t[i+1] = m /\ s # << >> /\ s[i].hi = sent[Peer(d)]
      BY <1>1, <2>1, <2>2 DEF Pieces
    <3>2. s[i].ghi <= delivered[Peer(d)]
      BY <2>1 DEF Pieces, Piece
    <3> QED
      BY <2>1, <3>1, <3>2
  <2>3. CASE i # Len(s)
    <3>1. i \in 1 .. Len(s) - 1 /\ i + 1 \in 1 .. Len(s)
      BY <1>1, <2>1, <2>3
    <3>2. t[i+1] = s[i+1]
      BY <1>1, <3>1
    <3> QED
      BY <2>1, <3>1, <3>2 DEF Pieces
  <2> QED
    BY <2>2, <2>3
<1>7. t[Len(t)].hi = sent'[Peer(d)]
  BY <1>1
<1>8. Pieces(d)'
  BY <1>5, <1>6, <1>7 DEF Pieces
<1>9. Arrived(d)' = Arrived(d) /\ Granted(d)' = Granted(d)
  BY <1>1 DEF Arrived, Granted
<1> QED
  BY <1>8, <1>9

\* d's channel does not change; the peer may have delivered more.
LEMMA PiecesSame ==
    ASSUME TypeOK, NEW d \in Ends, Pieces(d), net'[d] = net[d],
           sent'[Peer(d)] = sent[Peer(d)],
           delivered'[Peer(d)] \in Nat, delivered'[Peer(d)] >= delivered[Peer(d)]
    PROVE  /\ Pieces(d)' /\ Arrived(d)' = Arrived(d) /\ Granted(d)' >= Granted(d)
           /\ delivered'[Peer(d)] = delivered[Peer(d)] => Granted(d)' = Granted(d)
<1>1. delivered[Peer(d)] \in Nat /\ sent[Peer(d)] \in Nat
  BY PeerOfEnd DEF TypeOK
<1>2. \A i \in 1 .. Len(net[d]) : net[d][i] \in Message
  BY ElementOfSeq DEF TypeOK
<1>3. \A i \in 1 .. Len(net[d]) : net[d][i].ghi \in Nat
  BY <1>2 DEF Message
<1>4. Pieces(d)'
  <2>1. \A i \in 1 .. Len(net[d]) : Piece(d, net[d][i])'
    <3> SUFFICES ASSUME NEW i \in 1 .. Len(net[d]) PROVE Piece(d, net[d][i])'
      OBVIOUS
    <3>1. Piece(d, net[d][i]) /\ net[d][i].ghi \in Nat
      BY <1>3 DEF Pieces
    <3> QED
      BY <1>1, <3>1 DEF Piece
  <2> QED
    BY <2>1 DEF Pieces
<1>5. net[d] # << >> => Head(net[d]).glo \in Nat
  BY NetHead DEF Message
<1>6. Arrived(d)' = Arrived(d) /\ Granted(d)' >= Granted(d)
      /\ (delivered'[Peer(d)] = delivered[Peer(d)] => Granted(d)' = Granted(d))
  BY <1>1, <1>5 DEF Arrived, Granted
<1> QED
  BY <1>4, <1>6

\* e emits m, its positions moving as m says; the other end stays put.
LEMMA EmitStep ==
    ASSUME TypeOK, NetInv, NEW e \in Ends, NEW m \in Message, net' = Emitted(e, m),
           sent'[e] \in Nat, delivered'[e] \in Nat,
           m.lo = sent[e], m.hi = sent'[e], m.lo <= m.hi,
           m.type = "data" <=> m.lo < m.hi,
           m.glo = delivered[e], m.ghi = delivered'[e], m.glo <= m.ghi,
           sent'[Peer(e)] = sent[Peer(e)], delivered'[Peer(e)] = delivered[Peer(e)]
    PROVE  NetInv' /\ \A d \in Ends : Arrived(d)' = Arrived(d) /\ Granted(d)' = Granted(d)
<1>1. /\ Peer(e) \in Ends /\ Peer(e) # e /\ Peer(Peer(e)) = e
      /\ \A d \in Ends : d = e \/ d = Peer(e)
  BY PeerOfEnd
<1>2. net'[Peer(e)] = Append(net[Peer(e)], m) /\ net'[e] = net[e]
  BY <1>1 DEF Emitted, TypeOK
<1>3. Pieces(e) /\ Pieces(Peer(e))
  BY <1>1 DEF NetInv
<1>4. delivered[Peer(e)] \in Nat
  BY <1>1 DEF TypeOK
<1>5. Pieces(Peer(e))' /\ Arrived(Peer(e))' = Arrived(Peer(e))
      /\ Granted(Peer(e))' = Granted(Peer(e))
  BY <1>1, <1>2, <1>3, PiecesAppend
<1>6. Pieces(e)' /\ Arrived(e)' = Arrived(e) /\ Granted(e)' = Granted(e)
  BY <1>1, <1>2, <1>3, <1>4, PiecesSame
<1> QED
  BY <1>1, <1>5, <1>6 DEF NetInv

\* e consumes its first message and nobody's positions move.
LEMMA ConsumeStep ==
    ASSUME TypeOK, NetInv, NEW e \in Ends, net[e] # << >>, net' = Consumed(e),
           UNCHANGED <<sent, delivered>>
    PROVE  /\ NetInv'
           /\ Arrived(e) = Head(net[e]).lo /\ Arrived(e)' = Head(net[e]).hi
           /\ Granted(e) = Head(net[e]).glo /\ Granted(e)' >= Head(net[e]).ghi
           /\ \A d \in Ends : d # e => Arrived(d)' = Arrived(d) /\ Granted(d)' = Granted(d)
<1>1. /\ Peer(e) \in Ends /\ Peer(e) # e /\ Peer(Peer(e)) = e
      /\ \A d \in Ends : d = e \/ d = Peer(e)
  BY PeerOfEnd
<1>2. net'[e] = Tail(net[e]) /\ net'[Peer(e)] = net[Peer(e)]
  BY <1>1 DEF Consumed, TypeOK
<1>3. Pieces(e) /\ Pieces(Peer(e))
  BY <1>1 DEF NetInv
<1>4. delivered[e] \in Nat /\ delivered'[e] = delivered[e] /\ sent'[e] = sent[e]
  BY DEF TypeOK
<1>5. Pieces(e)' /\ Arrived(e) = Head(net[e]).lo /\ Arrived(e)' = Head(net[e]).hi
      /\ Granted(e) = Head(net[e]).glo /\ Granted(e)' >= Head(net[e]).ghi
  BY <1>1, <1>2, <1>3, PiecesTail
<1>6. Pieces(Peer(e))' /\ Arrived(Peer(e))' = Arrived(Peer(e))
      /\ Granted(Peer(e))' = Granted(Peer(e))
  BY <1>1, <1>2, <1>3, <1>4, PiecesSame
<1> QED
  BY <1>1, <1>5, <1>6 DEF NetInv

\* No message moves; the ends may have delivered more.
LEMMA QuietStep ==
    ASSUME TypeOK, TypeOK', NetInv, UNCHANGED <<net, sent>>,
           \A d \in Ends : delivered'[d] >= delivered[d]
    PROVE  NetInv' /\ \A d \in Ends : Arrived(d)' = Arrived(d) /\ Granted(d)' >= Granted(d)
<1>1. ASSUME NEW d \in Ends
      PROVE  Pieces(d)' /\ Arrived(d)' = Arrived(d) /\ Granted(d)' >= Granted(d)
  <2>1. Peer(d) \in Ends /\ Pieces(d)
    BY PeerOfEnd DEF NetInv
  <2>2. delivered'[Peer(d)] \in Nat /\ delivered'[Peer(d)] >= delivered[Peer(d)]
    BY <2>1 DEF TypeOK
  <2> QED
    BY <2>1, <2>2, PiecesSame
<1> QED
  BY <1>1 DEF NetInv

\* Inbox overflow: e consumes a message and announces its close.
LEMMA OverflowStep ==
    ASSUME TypeOK, NetInv, NEW e \in Ends, DataOverflow(e)
    PROVE  /\ NetInv'
           /\ Arrived(e) = Head(net[e]).lo /\ Arrived(e)' = Head(net[e]).hi
           /\ Granted(e) = Head(net[e]).glo /\ Granted(e)' >= Head(net[e]).ghi
           /\ \A d \in Ends : d # e => Arrived(d)' = Arrived(d) /\ Granted(d)' = Granted(d)
<1> DEFINE m == Msg(e, "close", 0, 0, FALSE)
<1>1. /\ Peer(e) \in Ends /\ Peer(e) # e /\ Peer(Peer(e)) = e
      /\ \A d \in Ends : d = e \/ d = Peer(e)
  BY PeerOfEnd
<1>2. net[e] # << >> /\ sent' = sent /\ delivered' = delivered
  BY DEF DataOverflow, Arrives
<1>3. net'[e] = Tail(net[e]) /\ net'[Peer(e)] = Append(net[Peer(e)], m)
  BY <1>1 DEF DataOverflow, TypeOK
<1>4. Pieces(e) /\ Pieces(Peer(e))
  BY <1>1 DEF NetInv
<1>5. m \in Message
  BY MsgTyped DEF Types
<1>6. sent[e] \in Nat /\ delivered[e] \in Nat
  BY DEF TypeOK
<1>7. m.lo = sent[e] /\ m.hi = sent[e] /\ m.glo = delivered[e] /\ m.ghi = delivered[e]
      /\ m.type = "close"
  BY <1>6 DEF Msg
<1> HIDE DEF m
<1>8. Pieces(e)' /\ Arrived(e) = Head(net[e]).lo /\ Arrived(e)' = Head(net[e]).hi
      /\ Granted(e) = Head(net[e]).glo /\ Granted(e)' >= Head(net[e]).ghi
  BY <1>1, <1>2, <1>3, <1>4, PiecesTail
<1>9. Pieces(Peer(e))' /\ Arrived(Peer(e))' = Arrived(Peer(e))
      /\ Granted(Peer(e))' = Granted(Peer(e))
  BY <1>1, <1>2, <1>3, <1>4, <1>5, <1>6, <1>7, PiecesAppend
<1> QED
  BY <1>1, <1>8, <1>9 DEF NetInv

-----------------------------------------------------------------------------
(* Every step but one that delivers data keeps the positions of arrival and *)
(* never takes a grant back.                                               *)

Steady == NetInv' /\ \A d \in Ends : Arrived(d)' = Arrived(d) /\ Granted(d)' >= Granted(d)

\* Positions are numbers, before a step and after it.
LEMMA PositionsTyped ==
    ASSUME TypeOK, TypeOK', NEW d \in Ends
    PROVE  /\ Arrived(d) \in Nat /\ Arrived(d)' \in Nat
           /\ Granted(d) \in Nat /\ Granted(d)' \in Nat
<1>1. Peer(d) \in Ends
  BY PeerOfEnd
<1>2. net[d] \in Seq(Message) /\ net'[d] \in Seq(Message)
  BY DEF TypeOK
<1>3. (net[d] # << >> => Head(net[d]) \in Message)
      /\ (net'[d] # << >> => Head(net'[d]) \in Message)
  BY <1>2, SeqHead
<1>4. /\ sent[Peer(d)] \in Nat /\ sent'[Peer(d)] \in Nat
      /\ delivered[Peer(d)] \in Nat /\ delivered'[Peer(d)] \in Nat
  BY <1>1 DEF TypeOK
<1> QED
  BY <1>3, <1>4 DEF Arrived, Granted, Message

\* Nothing the positions depend on changes.
LEMMA StillStep ==
    ASSUME TypeOK, TypeOK', NetInv, UNCHANGED <<net, sent, delivered>>
    PROVE  Steady
<1>1. \A d \in Ends : delivered'[d] >= delivered[d]
  BY DEF TypeOK
<1> QED
  BY <1>1, QuietStep DEF Steady

\* e emits a message that carries no bytes and grants none.
LEMMA SilentEmit ==
    ASSUME TypeOK, TypeOK', NetInv, NEW e \in Ends, NEW type \in Types \ {"data"},
           NEW flag \in BOOLEAN, net' = Emitted(e, Msg(e, type, 0, 0, flag)),
           UNCHANGED <<sent, delivered>>
    PROVE  Steady
<1> DEFINE m == Msg(e, type, 0, 0, flag)
<1>1. m \in Message
  BY MsgTyped
<1>2. sent[e] \in Nat /\ delivered[e] \in Nat
  BY DEF TypeOK
<1>3. m.lo = sent[e] /\ m.hi = sent[e] /\ m.glo = delivered[e] /\ m.ghi = delivered[e]
      /\ m.type # "data"
  BY <1>2 DEF Msg
<1>4. net' = Emitted(e, m)
  OBVIOUS
<1> HIDE DEF m
<1>5. NetInv' /\ \A d \in Ends : Arrived(d)' = Arrived(d) /\ Granted(d)' = Granted(d)
  BY <1>1, <1>2, <1>3, <1>4, EmitStep
<1> QED
  BY <1>5, PositionsTyped DEF Steady

\* e consumes a message that carries no bytes.
LEMMA SilentConsume ==
    ASSUME TypeOK, TypeOK', NetInv, NEW e \in Ends, net[e] # << >>,
           Head(net[e]).type # "data",
           net' = Consumed(e), UNCHANGED <<sent, delivered>>
    PROVE  Steady
<1>1. /\ Head(net[e]).lo = Head(net[e]).hi
      /\ Head(net[e]).glo <= Head(net[e]).ghi
  BY NetInvHead
<1>2. Head(net[e]).glo \in Nat /\ Head(net[e]).ghi \in Nat
  BY NetHead DEF Message
<1>3. NetInv' /\ Granted(e) = Head(net[e]).glo /\ Granted(e)' >= Head(net[e]).ghi
      /\ Arrived(e) = Head(net[e]).lo /\ Arrived(e)' = Head(net[e]).hi
      /\ \A d \in Ends : d # e => Arrived(d)' = Arrived(d) /\ Granted(d)' = Granted(d)
  BY ConsumeStep
<1>4. \A d \in Ends : Granted(d) \in Nat /\ Granted(d)' \in Nat
  BY PositionsTyped
<1>5. Granted(e)' >= Granted(e)
  BY <1>1, <1>2, <1>3, <1>4
<1> QED
  BY <1>1, <1>3, <1>4, <1>5 DEF Steady

\* Read and Write move the positions of e by what they carry.
LEMMA ReadDataSteady ==
    ASSUME TypeOK, TypeOK', NetInv, NEW e \in Ends, ReadData(e)
    PROVE  Steady
<1>1. PICK n \in 1 .. ReadLimit(e) :
        /\ net' = Emitted(e, Msg(e, "data", n, 0, FALSE))
        /\ sent' = [sent EXCEPT ![e] = @ + n]
  BY DEF ReadData
<1> DEFINE m == Msg(e, "data", n, 0, FALSE)
<1>2. n \in Nat \ {0} /\ sent[e] \in Nat /\ delivered[e] \in Nat
  BY <1>1 DEF TypeOK, ReadLimit, ConstantsAssumption
<1>3. m \in Message
  BY <1>2, MsgTyped DEF Types
<1>4. sent'[e] = sent[e] + n /\ sent'[Peer(e)] = sent[Peer(e)] /\ delivered' = delivered
  BY <1>1, PeerOfEnd DEF TypeOK, ReadData
<1>5. m.lo = sent[e] /\ m.hi = sent[e] + n /\ m.glo = delivered[e]
      /\ m.ghi = delivered[e] /\ m.type = "data"
  BY <1>2 DEF Msg
<1>6. net' = Emitted(e, m)
  BY <1>1
<1> HIDE DEF m
<1>7. NetInv' /\ \A d \in Ends : Arrived(d)' = Arrived(d) /\ Granted(d)' = Granted(d)
  BY <1>2, <1>3, <1>4, <1>5, <1>6, EmitStep
<1> QED
  BY <1>7, PositionsTyped DEF Steady

\* WriteOK delivers a chunk and, with flow control, grants it back.
LEMMA WriteOKSteady ==
    ASSUME TypeOK, TypeOK', ControlInv, NetInv, InboxInv, NEW e \in Ends, WriteOK(e)
    PROVE  Steady
<1> DEFINE n == Head(inbox[e]).hi - Head(inbox[e]).lo
           m == Msg(e, "window", 0, n, FALSE)
<1>1. inbox[e] # << >>
  BY DEF WriteOK, ControlInv, EndControl
<1>2. n \in Nat \ {0}
  BY <1>1, InboxHead, InboxInvHead DEF Chunk
<1>3. delivered' = [delivered EXCEPT ![e] = @ + n] /\ sent' = sent
      /\ net' = IF fc[e] THEN Emitted(e, m) ELSE net
  BY DEF WriteOK
<1> HIDE DEF n
<1>4. sent[e] \in Nat /\ \A d \in Ends : delivered[d] \in Nat
  BY DEF TypeOK
<1>5. delivered'[e] = delivered[e] + n /\ delivered'[Peer(e)] = delivered[Peer(e)]
  BY <1>3, PeerOfEnd DEF TypeOK
<1>6. CASE fc[e]
  <2>1. m \in Message
    BY <1>2, MsgTyped DEF Types
  <2>2. m.lo = sent[e] /\ m.hi = sent[e] /\ m.glo = delivered[e]
        /\ m.ghi = delivered[e] + n /\ m.type # "data"
    BY <1>4 DEF Msg
  <2>3. net' = Emitted(e, m)
    BY <1>3, <1>6
  <2> HIDE DEF m
  <2>4. NetInv' /\ \A d \in Ends : Arrived(d)' = Arrived(d) /\ Granted(d)' = Granted(d)
    BY <1>2, <1>3, <1>4, <1>5, <2>1, <2>2, <2>3, EmitStep
  <2> QED
    BY <2>4, PositionsTyped DEF Steady
<1>7. CASE ~fc[e]
  <2>1. \A d \in Ends : delivered'[d] >= delivered[d]
    BY <1>2, <1>3, <1>4
  <2> QED
    BY <1>3, <1>7, <2>1, QuietStep DEF Steady
<1> QED
  BY <1>6, <1>7

\* Every step but the three that dispatch a tunnel_data is steady.
LEMMA SteadyStep ==
    ASSUME TypeOK, TypeOK', ControlInv, NetInv, InboxInv,
           \A e \in Ends : ~(DataIgnored(e) \/ DataAccepted(e) \/ DataOverflow(e)),
           [Next]_vars
    PROVE  Steady
<1>1. CASE Accept
  BY <1>1, StillStep DEF Accept
<1>2. CASE Register
  BY <1>2, StillStep DEF Register
<1>3. CASE SendOpen
  <2>1. PICK keeps \in BackendKeepsFC :
          net' = Emitted("src", Msg("src", "open", 0, 0, keeps))
    BY <1>3 DEF SendOpen
  <2>2. "src" \in Ends /\ "open" \in Types \ {"data"} /\ keeps \in BOOLEAN
    BY <2>1, ConstantsAssumption DEF Ends, Types, ConstantsAssumption
  <2> QED
    BY <1>3, <2>1, <2>2, SilentEmit DEF SendOpen
<1>4. CASE SourceReady
  BY <1>4, StillStep DEF SourceReady
<1>5. CASE SourceFailed
  BY <1>5, StillStep DEF SourceFailed
<1>6. CASE SourceAckTimeout
  <2>1. "src" \in Ends /\ "close" \in Types \ {"data"} /\ FALSE \in BOOLEAN
    BY DEF Ends, Types, TypeOK
  <2> QED
    BY <1>6, <2>1, SilentEmit DEF SourceAckTimeout
<1>7. CASE SourceDone
  BY <1>7, StillStep DEF SourceDone
<1>8. CASE DialOK
  <2>1. "dst" \in Ends /\ "ack" \in Types \ {"data"} /\ fc["dst"] \in BOOLEAN
    BY DEF Ends, Types, TypeOK
  <2> QED
    BY <1>8, <2>1, SilentEmit DEF DialOK
<1>9. CASE DialFail
  <2>1. "dst" \in Ends /\ "nack" \in Types \ {"data"} /\ FALSE \in BOOLEAN
    BY DEF Ends, Types, TypeOK
  <2> QED
    BY <1>9, <2>1, SilentEmit DEF DialFail
<1>10. CASE OpenDest
  BY <1>10, SilentConsume DEF OpenDest, Arrives, Ends
<1>11. CASE Ack
  BY <1>11, SilentConsume DEF Ack, Arrives, Ends
<1>12. ASSUME NEW e \in Ends, DataIgnored(e) PROVE Steady
  BY <1>12
<1>13. ASSUME NEW e \in Ends, DataAccepted(e) PROVE Steady
  BY <1>13
<1>14. ASSUME NEW e \in Ends, DataOverflow(e) PROVE Steady
  BY <1>14
<1>15. ASSUME NEW e \in Ends, AddCredit(e) PROVE Steady
  BY <1>15, SilentConsume DEF AddCredit, Arrives
<1>16. ASSUME NEW e \in Ends, CloseStream(e) PROVE Steady
  BY <1>16, SilentConsume DEF CloseStream, Arrives
<1>17. ASSUME NEW e \in Ends, TakeCredit(e) PROVE Steady
  BY <1>17, StillStep DEF TakeCredit
<1>18. ASSUME NEW e \in Ends, Park(e) PROVE Steady
  BY <1>18, StillStep DEF Park
<1>19. ASSUME NEW e \in Ends, ReadData(e) PROVE Steady
  BY <1>19, ReadDataSteady
<1>20. ASSUME NEW e \in Ends, ReadEnd(e) PROVE Steady
  <2>1. e \in Ends /\ "close" \in Types \ {"data"} /\ FALSE \in BOOLEAN
    BY DEF Ends, Types, TypeOK
  <2> QED
    BY <1>20, <2>1, SilentEmit DEF ReadEnd
<1>21. ASSUME NEW e \in Ends, WriterDone(e) PROVE Steady
  BY <1>21, StillStep DEF WriterDone
<1>22. ASSUME NEW e \in Ends, WriterTake(e) PROVE Steady
  BY <1>22, StillStep DEF WriterTake
<1>23. ASSUME NEW e \in Ends, WriteOK(e) PROVE Steady
  BY <1>23, WriteOKSteady
<1>24. ASSUME NEW e \in Ends, WriteFail(e) PROVE Steady
  BY <1>24, StillStep DEF WriteFail
<1>25. ASSUME NEW e \in Ends, WriterEOF(e) PROVE Steady
  BY <1>25, StillStep DEF WriterEOF
<1>26. ASSUME NEW e \in Ends, AppReset(e) PROVE Steady
  BY <1>26, StillStep DEF AppReset
<1>27. ASSUME NEW e \in Ends, Stop(e) PROVE Steady
  BY <1>27, StillStep DEF Stop
<1>28. CASE UNCHANGED vars
  BY <1>28, StillStep DEF vars
<1>29. QED
  BY <1>1, <1>2, <1>3, <1>4, <1>5, <1>6, <1>7, <1>8, <1>9, <1>10, <1>11,
     <1>12, <1>13, <1>14, <1>15, <1>16, <1>17, <1>18, <1>19, <1>20, <1>21,
     <1>22, <1>23, <1>24, <1>25, <1>26, <1>27, <1>28
  DEF Next, Setup, Deliver, Reader, Writer


\* Every step keeps the channels consecutive and moves the positions forward only.
LEMMA NetStep ==
    ASSUME TypeOK, TypeOK', ControlInv, NetInv, InboxInv, [Next]_vars
    PROVE  /\ NetInv'
           /\ \A d \in Ends : Granted(d)' >= Granted(d) /\ Arrived(d)' >= Arrived(d)
<1>1. ASSUME NEW e \in Ends, net[e] # << >>, NetInv',
             Arrived(e) = Head(net[e]).lo, Arrived(e)' = Head(net[e]).hi,
             Granted(e) = Head(net[e]).glo, Granted(e)' >= Head(net[e]).ghi,
             \A d \in Ends : d # e => Arrived(d)' = Arrived(d) /\ Granted(d)' = Granted(d)
      PROVE  \A d \in Ends : Granted(d)' >= Granted(d) /\ Arrived(d)' >= Arrived(d)
  <2>1. Head(net[e]).lo <= Head(net[e]).hi /\ Head(net[e]).glo <= Head(net[e]).ghi
    BY <1>1, NetInvHead
  <2>2. Head(net[e]).ghi \in Nat
    BY <1>1, NetHead DEF Message
  <2>3. \A d \in Ends : /\ Arrived(d) \in Nat /\ Arrived(d)' \in Nat
                        /\ Granted(d) \in Nat /\ Granted(d)' \in Nat
    BY PositionsTyped
  <2> QED
    BY <1>1, <2>1, <2>2, <2>3
<1>2. ASSUME NEW e \in Ends, DataIgnored(e) \/ DataAccepted(e)
      PROVE  NetInv' /\ \A d \in Ends : Granted(d)' >= Granted(d) /\ Arrived(d)' >= Arrived(d)
  <2>1. net[e] # << >> /\ net' = Consumed(e) /\ UNCHANGED <<sent, delivered>>
    BY <1>2 DEF DataIgnored, DataAccepted, Arrives
  <2> QED
    BY <1>1, <2>1, ConsumeStep
<1>3. ASSUME NEW e \in Ends, DataOverflow(e)
      PROVE  NetInv' /\ \A d \in Ends : Granted(d)' >= Granted(d) /\ Arrived(d)' >= Arrived(d)
  BY <1>1, <1>3, OverflowStep DEF DataOverflow, Arrives
<1>4. CASE \A e \in Ends : ~(DataIgnored(e) \/ DataAccepted(e) \/ DataOverflow(e))
  <2>1. Steady
    BY <1>4, SteadyStep
  <2> QED
    BY <2>1, PositionsTyped DEF Steady
<1> QED
  BY <1>2, <1>3, <1>4

\* Every step keeps credit, reservation and bytes under way within the window.
LEMMA CreditStep ==
    ASSUME TypeOK, TypeOK', ControlInv, HandshakeInv, NetInv, InboxInv, CreditInv,
           [Next]_vars
    PROVE  CreditInv'
<1>a. /\ WindowSize \in Nat
      /\ \A d \in Ends :
           /\ Granted(d) \in Nat /\ Granted(d)' \in Nat /\ Granted(d)' >= Granted(d)
           /\ credit[d] \in Nat /\ credit'[d] \in Nat
           /\ budget[d] \in Nat /\ budget'[d] \in Nat
           /\ sent[d] \in Nat /\ sent'[d] \in Nat
  BY NetStep, PositionsTyped, ConstantsAssumption DEF TypeOK, ConstantsAssumption
<1> USE DEF CreditInv, Window
<1>t. /\ pc \in [Ends -> PCs] /\ fc \in [Ends -> BOOLEAN] /\ credit \in [Ends -> Nat]
      /\ budget \in [Ends -> Nat] /\ sent \in [Ends -> Nat]
  BY DEF TypeOK
<1>1. CASE Accept
  BY <1>1, <1>a, <1>t DEF Accept, Setups
<1>2. CASE Register
  BY <1>2, <1>a, <1>t DEF Register, Setups
<1>3. CASE SendOpen
  BY <1>3, <1>a, <1>t DEF SendOpen, Setups
<1>4. CASE SourceReady
  BY <1>4, <1>a, <1>t DEF SourceReady, StartRelay, Setups
<1>5. CASE SourceFailed
  BY <1>5, <1>a, <1>t DEF SourceFailed, Setups
<1>6. CASE SourceAckTimeout
  BY <1>6, <1>a, <1>t DEF SourceAckTimeout, Setups
<1>7. CASE SourceDone
  BY <1>7, <1>a, <1>t DEF SourceDone, Setups
<1>8. CASE DialOK
  BY <1>8, <1>a, <1>t DEF DialOK, StartRelay, Setups
<1>9. CASE DialFail
  BY <1>9, <1>a, <1>t DEF DialFail, Setups
<1>10. CASE OpenDest
  <2>1. pc["dst"] = "idle" /\ "dst" \in Ends
    BY <1>10, OpenArrives DEF OpenDest, HandshakeInv
  <2>2. \A d \in Ends : pc'[d] \in Setups \/ fc'[d] => pc[d] \in Setups \/ fc[d]
    BY <1>10, <1>t, <2>1 DEF OpenDest, Setups
  <2> QED
    BY <1>10, <1>a, <1>t, <2>2 DEF OpenDest
<1>11. CASE Ack
  <2>1. reply = "none" /\ "src" \in Ends
    BY <1>11, AckArrives DEF Ack, HandshakeInv
  <2>2. registered["src"] => pc["src"] \in Setups
    BY <1>t, <2>1 DEF HandshakeInv, RoleInv, ControlInv, EndControl, PCs, Setups, Relaying
  <2>3. \A d \in Ends : pc'[d] \in Setups \/ fc'[d] => pc[d] \in Setups \/ fc[d]
    BY <1>11, <1>t, <2>1, <2>2 DEF Ack
  <2> QED
    BY <1>11, <1>a, <1>t, <2>3 DEF Ack
<1>12. ASSUME NEW e \in Ends, DataIgnored(e) PROVE CreditInv'
  BY <1>12, <1>a, <1>t DEF DataIgnored
<1>13. ASSUME NEW e \in Ends, DataAccepted(e) PROVE CreditInv'
  BY <1>13, <1>a, <1>t DEF DataAccepted
<1>14. ASSUME NEW e \in Ends, DataOverflow(e) PROVE CreditInv'
  BY <1>14, <1>a, <1>t, SMTT(30) DEF DataOverflow, Woken, Setups
<1>15. ASSUME NEW e \in Ends, AddCredit(e) PROVE CreditInv'
  <2>1. Head(net[e]) \in Message /\ net[e] # << >>
    BY <1>15, NetHead DEF AddCredit, Arrives
  <2>2. Granted(e) = Head(net[e]).glo /\ Granted(e)' >= Head(net[e]).ghi
    BY <1>15, <2>1, ConsumeStep DEF AddCredit
  <2>3. Head(net[e]).glo \in Nat /\ Head(net[e]).ghi \in Nat
    BY <2>1 DEF Message
  <2>4. CASE registered[e]
    <3>1. credit'[e] = credit[e] + Head(net[e]).ghi - Head(net[e]).glo
      BY <1>15, <1>t, <2>4 DEF AddCredit
    <3>2. \A d \in Ends : pc'[d] \in Setups => pc[d] \in Setups
      BY <1>15, <1>t, <2>4 DEF AddCredit, Woken, Setups
    <3>3. Window(e)'
      <4>1. fc'[e] = fc[e] /\ budget'[e] = budget[e] /\ sent'[e] = sent[e]
        BY <1>15 DEF AddCredit
      <4> QED
        BY <1>a, <1>t, <2>2, <2>3, <3>1, <3>2, <4>1
    <3>4. \A d \in Ends : d # e => Window(d)'
      BY <1>15, <1>a, <1>t, <2>4, <3>2 DEF AddCredit
    <3> QED
      BY <3>3, <3>4
  <2>5. CASE ~registered[e]
    BY <1>15, <1>a, <1>t, <2>5 DEF AddCredit
  <2> QED
    BY <2>4, <2>5
<1>16. ASSUME NEW e \in Ends, CloseStream(e) PROVE CreditInv'
  BY <1>16, <1>a, <1>t DEF CloseStream
<1>17. ASSUME NEW e \in Ends, TakeCredit(e) PROVE CreditInv'
  <2>1. Reserve(e) \in Nat /\ credit[e] - Reserve(e) \in Nat
    BY <1>t, ConstantsAssumption DEF Reserve, ConstantsAssumption
  <2>2. \A d \in Ends : credit'[d] + budget'[d] <= credit[d] + budget[d]
    BY <1>17, <1>t, <2>1 DEF TakeCredit
  <2>3. \A d \in Ends : pc'[d] \in Setups => pc[d] \in Setups
    BY <1>17, <1>t DEF TakeCredit, Setups
  <2>4. fc' = fc /\ sent' = sent
    BY <1>17, <1>t DEF TakeCredit
  <2> QED
    BY <1>a, <1>t, <2>2, <2>3, <2>4
<1>18. ASSUME NEW e \in Ends, Park(e) PROVE CreditInv'
  BY <1>18, <1>a, <1>t DEF Park, Setups
<1>19. ASSUME NEW e \in Ends, ReadData(e) PROVE CreditInv'
  <2>1. PICK n \in 1 .. ReadLimit(e) :
          /\ sent' = [sent EXCEPT ![e] = @ + n]
          /\ credit' = [credit EXCEPT ![e] = @ + Unused(e, n)]
    BY <1>19 DEF ReadData
  <2>2. n \in Nat
    BY <2>1 DEF ReadLimit, TypeOK, ConstantsAssumption
  <2>3. fc[e] => credit'[e] + budget'[e] + sent'[e] = credit[e] + budget[e] + sent[e]
    BY <1>19, <1>t, <2>1, <2>2 DEF ReadData, Unused
  <2>4. fc' = fc /\ pc'[e] \notin Setups
    BY <1>19, <1>t DEF ReadData, Setups
  <2>5. Window(e)'
    BY <1>a, <1>t, <2>3, <2>4
  <2>6. \A d \in Ends : d # e => Window(d)'
    BY <1>19, <1>a, <1>t, <2>1 DEF ReadData
  <2> QED
    BY <2>5, <2>6
<1>20. ASSUME NEW e \in Ends, ReadEnd(e) PROVE CreditInv'
  BY <1>20, <1>a, <1>t DEF ReadEnd, Setups
<1>21. ASSUME NEW e \in Ends, WriterDone(e) PROVE CreditInv'
  BY <1>21, <1>a, <1>t DEF WriterDone
<1>22. ASSUME NEW e \in Ends, WriterTake(e) PROVE CreditInv'
  BY <1>22, <1>a, <1>t DEF WriterTake
<1>23. ASSUME NEW e \in Ends, WriteOK(e) PROVE CreditInv'
  BY <1>23, <1>a, <1>t DEF WriteOK
<1>24. ASSUME NEW e \in Ends, WriteFail(e) PROVE CreditInv'
  BY <1>24, <1>a, <1>t DEF WriteFail, Woken, Setups
<1>25. ASSUME NEW e \in Ends, WriterEOF(e) PROVE CreditInv'
  BY <1>25, <1>a, <1>t DEF WriterEOF
<1>26. ASSUME NEW e \in Ends, AppReset(e) PROVE CreditInv'
  BY <1>26, <1>a, <1>t DEF AppReset
<1>27. ASSUME NEW e \in Ends, Stop(e) PROVE CreditInv'
  BY <1>27, <1>a, <1>t DEF Stop, Woken, Setups
<1>28. CASE UNCHANGED vars
  BY <1>a, <1>t, <1>28 DEF vars
<1>29. QED
  BY <1>1, <1>2, <1>3, <1>4, <1>5, <1>6, <1>7, <1>8, <1>9, <1>10, <1>11,
     <1>12, <1>13, <1>14, <1>15, <1>16, <1>17, <1>18, <1>19, <1>20, <1>21,
     <1>22, <1>23, <1>24, <1>25, <1>26, <1>27, <1>28
  DEF Next, Setup, Deliver, Reader, Writer

=============================================================================
