------------------------- MODULE TunnelStreamProofs -------------------------
(***************************************************************************)
(* The inductive invariant of TunnelStream and the theorems it carries.    *)
(***************************************************************************)
EXTENDS TunnelStreamFlow

-----------------------------------------------------------------------------
(* The handshake.                                                          *)

\* No new open, and whoever waits for the one in flight goes on waiting.
LEMMA OpenKept ==
    ASSUME TypeOK, OpenInv,
           pc["dst"] = "idle" => pc'["dst"] = "idle",
           pc'["src"] \in {"idle", "accepted", "registered"} =>
               pc["src"] \in {"idle", "accepted", "registered"},
           \/ net'["dst"] = net["dst"]
           \/ net["dst"] # << >> /\ net'["dst"] = Tail(net["dst"])
           \/ \E m \in Message : /\ net'["dst"] = Append(net["dst"], m)
                                 /\ m.type \notin {"open", "ack", "nack"}
    PROVE  OpenInv'
<1> DEFINE s == net["dst"]
           Good(i) == /\ s[i].type \notin {"ack", "nack"}
                      /\ s[i].type = "open" =>
                           /\ pc["dst"] = "idle"
                           /\ pc["src"] \notin {"idle", "accepted", "registered"}
                           /\ s[i].fc \in BackendKeepsFC
<1>1. "dst" \in Ends
  BY DEF Ends
<1>2. \A i \in 1 .. Len(s) : Good(i)
  BY DEF OpenInv
<1>3. \A i, j \in 1 .. Len(s) : s[i].type = "open" /\ s[j].type = "open" => i = j
  BY DEF OpenInv
<1>4. CASE net'["dst"] = s
  BY <1>2, <1>3, <1>4 DEF OpenInv
<1>5. CASE s # << >> /\ net'["dst"] = Tail(s)
  <2>1. /\ Len(s) \in Nat \ {0} /\ Len(Tail(s)) = Len(s) - 1
        /\ \A i \in 1 .. Len(Tail(s)) : Tail(s)[i] = s[i+1]
    BY <1>1, <1>5, NetHead
  <2>2. \A i \in 1 .. Len(Tail(s)) : i + 1 \in 1 .. Len(s)
    BY <2>1
  <2>3. \A i, j \in 1 .. Len(Tail(s)) :
           Tail(s)[i].type = "open" /\ Tail(s)[j].type = "open" => i = j
    <3> SUFFICES ASSUME NEW i \in 1 .. Len(Tail(s)), NEW j \in 1 .. Len(Tail(s)),
                        Tail(s)[i].type = "open", Tail(s)[j].type = "open"
                 PROVE  i = j
      OBVIOUS
    <3>1. i + 1 = j + 1
      BY <1>3, <2>1, <2>2
    <3> QED
      BY <3>1
  <2> QED
    BY <1>2, <1>5, <2>1, <2>2, <2>3 DEF OpenInv
<1>6. ASSUME NEW m \in Message, net'["dst"] = Append(s, m),
             m.type \notin {"open", "ack", "nack"}
      PROVE  OpenInv'
  <2> DEFINE t == Append(s, m)
  <2>1. /\ Len(s) \in Nat /\ Len(t) = Len(s) + 1 /\ t[Len(s) + 1] = m
        /\ \A i \in 1 .. Len(s) : t[i] = s[i]
    BY <1>1, NetAppend
  <2>2. \A i \in 1 .. Len(t) : t[i].type = "open" => i \in 1 .. Len(s)
    BY <1>6, <2>1
  <2>3. \A i \in 1 .. Len(t) : i \in 1 .. Len(s) \/ t[i] = m
    BY <2>1
  <2>4. \A i, j \in 1 .. Len(t) : t[i].type = "open" /\ t[j].type = "open" => i = j
    BY <1>3, <2>1, <2>2
  <2> HIDE DEF t
  <2>5. net'["dst"] = t
    BY <1>6 DEF t
  <2> QED
    BY <1>2, <1>6, <2>1, <2>2, <2>3, <2>4, <2>5 DEF OpenInv
<1> QED
  BY <1>4, <1>5, <1>6

\* No new answer, and the one in flight stays the only news.
LEMMA AckKept ==
    ASSUME TypeOK, AckInv,
           pc["dst"] \notin {"idle", "dialing"} =>
               /\ pc'["dst"] \notin {"idle", "dialing"}
               /\ reply' = reply /\ fc'["dst"] = fc["dst"],
           \/ net'["src"] = net["src"]
           \/ net["src"] # << >> /\ net'["src"] = Tail(net["src"])
           \/ \E m \in Message : /\ net'["src"] = Append(net["src"], m)
                                 /\ m.type \notin {"open", "ack", "nack"}
    PROVE  AckInv'
<1> DEFINE s == net["src"]
           Good(i) == /\ s[i].type # "open"
                      /\ s[i].type \in {"ack", "nack"} =>
                           /\ pc'["dst"] \notin {"idle", "dialing"}
                           /\ reply' = "none"
                      /\ s[i].type = "ack" => s[i].fc = fc'["dst"]
<1>1. "src" \in Ends
  BY DEF Ends
<1>2. \A i \in 1 .. Len(s) : Good(i)
  BY DEF AckInv
<1>3. \A i, j \in 1 .. Len(s) :
         s[i].type \in {"ack", "nack"} /\ s[j].type \in {"ack", "nack"} => i = j
  BY DEF AckInv
<1>4. CASE net'["src"] = s
  BY <1>2, <1>3, <1>4 DEF AckInv
<1>5. CASE s # << >> /\ net'["src"] = Tail(s)
  <2>1. /\ Len(s) \in Nat \ {0} /\ Len(Tail(s)) = Len(s) - 1
        /\ \A i \in 1 .. Len(Tail(s)) : Tail(s)[i] = s[i+1]
    BY <1>1, <1>5, NetHead
  <2>2. \A i \in 1 .. Len(Tail(s)) : i + 1 \in 1 .. Len(s)
    BY <2>1
  <2>3. \A i, j \in 1 .. Len(Tail(s)) :
           Tail(s)[i].type \in {"ack", "nack"} /\ Tail(s)[j].type \in {"ack", "nack"} => i = j
    <3> SUFFICES ASSUME NEW i \in 1 .. Len(Tail(s)), NEW j \in 1 .. Len(Tail(s)),
                        Tail(s)[i].type \in {"ack", "nack"},
                        Tail(s)[j].type \in {"ack", "nack"}
                 PROVE  i = j
      OBVIOUS
    <3>1. i + 1 = j + 1
      BY <1>3, <2>1, <2>2
    <3> QED
      BY <3>1
  <2> QED
    BY <1>2, <1>5, <2>1, <2>2, <2>3 DEF AckInv
<1>6. ASSUME NEW m \in Message, net'["src"] = Append(s, m),
             m.type \notin {"open", "ack", "nack"}
      PROVE  AckInv'
  <2> DEFINE t == Append(s, m)
  <2>1. /\ Len(s) \in Nat /\ Len(t) = Len(s) + 1 /\ t[Len(s) + 1] = m
        /\ \A i \in 1 .. Len(s) : t[i] = s[i]
    BY <1>1, NetAppend
  <2>2. \A i \in 1 .. Len(t) : t[i].type \in {"ack", "nack"} => i \in 1 .. Len(s)
    BY <1>6, <2>1
  <2>3. \A i \in 1 .. Len(t) : i \in 1 .. Len(s) \/ t[i] = m
    BY <2>1
  <2>4. \A i, j \in 1 .. Len(t) :
           t[i].type \in {"ack", "nack"} /\ t[j].type \in {"ack", "nack"} => i = j
    BY <1>3, <2>1, <2>2
  <2> HIDE DEF t
  <2>5. net'["src"] = t
    BY <1>6 DEF t
  <2> QED
    BY <1>2, <1>6, <2>1, <2>2, <2>3, <2>4, <2>5 DEF AckInv
<1> QED
  BY <1>4, <1>5, <1>6

\* A step that has nothing to do with open and its answer.
Plain ==
    /\ pc["dst"] = "idle" => pc'["dst"] = "idle"
    /\ pc["dst"] \notin {"idle", "dialing"} => pc'["dst"] \notin {"idle", "dialing"}
    /\ pc'["src"] \in {"idle", "accepted", "registered"} =>
           pc["src"] \in {"idle", "accepted", "registered"}
    /\ reply' = reply /\ fc' = fc
    /\ \A d \in Ends :
         \/ net'[d] = net[d]
         \/ net[d] # << >> /\ net'[d] = Tail(net[d])
         \/ \E m \in Message : /\ net'[d] = Append(net[d], m)
                               /\ m.type \notin {"open", "ack", "nack"}

\* Emitting any other message is plain for the channels.
LEMMA PlainEmit ==
    ASSUME TypeOK, NEW e \in Ends, NEW type \in Types \ {"open", "ack", "nack"},
           NEW n \in Nat, NEW g \in Nat, net' = Emitted(e, Msg(e, type, n, g, FALSE)),
           NEW d \in Ends
    PROVE  \/ net'[d] = net[d]
           \/ \E m \in Message : /\ net'[d] = Append(net[d], m)
                                 /\ m.type \notin {"open", "ack", "nack"}
<1> DEFINE m == Msg(e, type, n, g, FALSE)
<1>1. m \in Message /\ m.type \notin {"open", "ack", "nack"}
  <2>1. m \in Message
    BY MsgTyped
  <2>2. m.type = type
    BY DEF Msg
  <2> QED
    BY <2>1, <2>2
<1>2. net' = Emitted(e, m)
  OBVIOUS
<1> HIDE DEF m
<1>3. CASE d = Peer(e)
  <2>1. net'[d] = Append(net[d], m)
    BY <1>2, <1>3 DEF Emitted, TypeOK
  <2> QED
    BY <1>1, <2>1
<1>4. CASE d # Peer(e)
  BY <1>2, <1>4 DEF Emitted, TypeOK
<1> QED
  BY <1>3, <1>4

\* Every step but those of the handshake is a plain one: it leaves what the
\* handshake invariants talk about alone, or only drops or adds other messages.
LEMMA PlainStep ==
    ASSUME TypeOK, ControlInv, InboxInv, ~(SendOpen \/ OpenDest \/ DialOK \/ DialFail \/ Ack),
           [Next]_vars
    PROVE  Plain
<1>t. pc \in [Ends -> PCs] /\ net \in [Ends -> Seq(Message)] /\ "src" \in Ends /\ "dst" \in Ends
  BY DEF TypeOK, Ends
<1>1. CASE Accept
  BY <1>1, <1>t DEF Accept, Plain
<1>2. CASE Register
  BY <1>2, <1>t DEF Register, Plain
<1>3. CASE SendOpen
  BY <1>3
<1>4. CASE SourceReady
  BY <1>4, <1>t DEF SourceReady, Plain, StartRelay
<1>5. CASE SourceFailed
  BY <1>5, <1>t DEF SourceFailed, Plain
<1>6. CASE SourceAckTimeout
  <2>1. ASSUME NEW d \in Ends
        PROVE  \/ net'[d] = net[d]
               \/ net[d] # << >> /\ net'[d] = Tail(net[d])
               \/ \E m \in Message : /\ net'[d] = Append(net[d], m)
                                     /\ m.type \notin {"open", "ack", "nack"}
    <3>1. "close" \in Types \ {"open", "ack", "nack"} /\ "src" \in Ends /\ 0 \in Nat
      BY DEF Types, Ends
    <3> QED
      BY <1>6, <2>1, <3>1, PlainEmit DEF SourceAckTimeout
  <2> QED
    BY <1>6, <1>t, <2>1 DEF SourceAckTimeout, Plain
<1>7. CASE SourceDone
  BY <1>7, <1>t DEF SourceDone, Plain
<1>8. CASE DialOK
  BY <1>8
<1>9. CASE DialFail
  BY <1>9
<1>10. CASE OpenDest
  BY <1>10
<1>11. CASE Ack
  BY <1>11
<1>12. ASSUME NEW e \in Ends, DataIgnored(e) PROVE Plain
  <2>1. ASSUME NEW d \in Ends
        PROVE  \/ net'[d] = net[d]
               \/ net[d] # << >> /\ net'[d] = Tail(net[d])
               \/ \E m \in Message : /\ net'[d] = Append(net[d], m)
                                     /\ m.type \notin {"open", "ack", "nack"}
    BY <1>12, <1>t, <2>1 DEF DataIgnored, Arrives, Consumed
  <2> QED
    BY <1>12, <1>t, <2>1 DEF DataIgnored, Plain
<1>13. ASSUME NEW e \in Ends, DataAccepted(e) PROVE Plain
  <2>1. ASSUME NEW d \in Ends
        PROVE  \/ net'[d] = net[d]
               \/ net[d] # << >> /\ net'[d] = Tail(net[d])
               \/ \E m \in Message : /\ net'[d] = Append(net[d], m)
                                     /\ m.type \notin {"open", "ack", "nack"}
    BY <1>13, <1>t, <2>1 DEF DataAccepted, Arrives, Consumed
  <2> QED
    BY <1>13, <1>t, <2>1 DEF DataAccepted, Plain
<1>14. ASSUME NEW e \in Ends, DataOverflow(e) PROVE Plain
  <2>1. ASSUME NEW d \in Ends
        PROVE  \/ net'[d] = net[d]
               \/ net[d] # << >> /\ net'[d] = Tail(net[d])
               \/ \E m \in Message : /\ net'[d] = Append(net[d], m)
                                     /\ m.type \notin {"open", "ack", "nack"}
    <3> DEFINE m == Msg(e, "close", 0, 0, FALSE)
    <3>1. m \in Message /\ m.type = "close"
      BY MsgTyped DEF Types, Msg
    <3>2. net' = [net EXCEPT ![e] = Tail(@), ![Peer(e)] = Append(@, m)] /\ net[e] # << >>
      BY <1>14 DEF DataOverflow, Arrives
    <3> HIDE DEF m
    <3>3. (d = e => net'[d] = Tail(net[d])) /\ (d = Peer(e) => net'[d] = Append(net[d], m))
      BY <1>t, <2>1, <3>2, PeerOfEnd
    <3> QED
      BY <2>1, <3>1, <3>2, <3>3, PeerOfEnd
  <2> QED
    BY <1>14, <1>t, <2>1 DEF DataOverflow, Plain, Woken
<1>15. ASSUME NEW e \in Ends, AddCredit(e) PROVE Plain
  <2>1. ASSUME NEW d \in Ends
        PROVE  \/ net'[d] = net[d]
               \/ net[d] # << >> /\ net'[d] = Tail(net[d])
               \/ \E m \in Message : /\ net'[d] = Append(net[d], m)
                                     /\ m.type \notin {"open", "ack", "nack"}
    BY <1>15, <1>t, <2>1 DEF AddCredit, Arrives, Consumed
  <2> QED
    BY <1>15, <1>t, <2>1 DEF AddCredit, Plain, Woken
<1>16. ASSUME NEW e \in Ends, CloseStream(e) PROVE Plain
  <2>1. ASSUME NEW d \in Ends
        PROVE  \/ net'[d] = net[d]
               \/ net[d] # << >> /\ net'[d] = Tail(net[d])
               \/ \E m \in Message : /\ net'[d] = Append(net[d], m)
                                     /\ m.type \notin {"open", "ack", "nack"}
    BY <1>16, <1>t, <2>1 DEF CloseStream, Arrives, Consumed
  <2> QED
    BY <1>16, <1>t, <2>1 DEF CloseStream, Plain
<1>17. ASSUME NEW e \in Ends, TakeCredit(e) PROVE Plain
  BY <1>17, <1>t DEF TakeCredit, Plain
<1>18. ASSUME NEW e \in Ends, Park(e) PROVE Plain
  BY <1>18, <1>t DEF Park, Plain
<1>19. ASSUME NEW e \in Ends, ReadData(e) PROVE Plain
  <2>1. ASSUME NEW d \in Ends
        PROVE  \/ net'[d] = net[d]
               \/ net[d] # << >> /\ net'[d] = Tail(net[d])
               \/ \E m \in Message : /\ net'[d] = Append(net[d], m)
                                     /\ m.type \notin {"open", "ack", "nack"}
    <3>1. PICK n \in 1 .. ReadLimit(e) :
            net' = Emitted(e, Msg(e, "data", n, 0, FALSE))
      BY <1>19 DEF ReadData
    <3>2. n \in Nat /\ "data" \in Types \ {"open", "ack", "nack"}
      BY <3>1, ConstantsAssumption DEF ReadLimit, TypeOK, Types, ConstantsAssumption
    <3> QED
      BY <2>1, <3>1, <3>2, PlainEmit
  <2> QED
    BY <1>19, <1>t, <2>1 DEF ReadData, Plain
<1>20. ASSUME NEW e \in Ends, ReadEnd(e) PROVE Plain
  <2>1. ASSUME NEW d \in Ends
        PROVE  \/ net'[d] = net[d]
               \/ net[d] # << >> /\ net'[d] = Tail(net[d])
               \/ \E m \in Message : /\ net'[d] = Append(net[d], m)
                                     /\ m.type \notin {"open", "ack", "nack"}
    <3>1. "close" \in Types \ {"open", "ack", "nack"} /\ e \in Ends /\ 0 \in Nat
      BY DEF Types, Ends
    <3> QED
      BY <1>20, <2>1, <3>1, PlainEmit DEF ReadEnd
  <2> QED
    BY <1>20, <1>t, <2>1 DEF ReadEnd, Plain
<1>21. ASSUME NEW e \in Ends, WriterDone(e) PROVE Plain
  BY <1>21, <1>t DEF WriterDone, Plain
<1>22. ASSUME NEW e \in Ends, WriterTake(e) PROVE Plain
  BY <1>22, <1>t DEF WriterTake, Plain
<1>23. ASSUME NEW e \in Ends, WriteOK(e) PROVE Plain
  <2>1. ASSUME NEW d \in Ends
        PROVE  \/ net'[d] = net[d]
               \/ net[d] # << >> /\ net'[d] = Tail(net[d])
               \/ \E m \in Message : /\ net'[d] = Append(net[d], m)
                                     /\ m.type \notin {"open", "ack", "nack"}
    <3> DEFINE c == Head(inbox[e])
    <3>1. inbox[e] # << >>
      BY <1>23 DEF WriteOK, ControlInv, EndControl
    <3>2. c.hi - c.lo \in Nat
      BY <3>1, InboxHead, InboxInvHead DEF Chunk
    <3>3. "window" \in Types \ {"open", "ack", "nack"}
      BY DEF Types
    <3>4. net' = net \/ net' = Emitted(e, Msg(e, "window", 0, c.hi - c.lo, FALSE))
      BY <1>23 DEF WriteOK
    <3> HIDE DEF c
    <3>5. CASE net' = Emitted(e, Msg(e, "window", 0, c.hi - c.lo, FALSE))
      BY <2>1, <3>2, <3>3, <3>5, PlainEmit
    <3> QED
      BY <3>4, <3>5
  <2> QED
    BY <1>23, <1>t, <2>1 DEF WriteOK, Plain
<1>24. ASSUME NEW e \in Ends, WriteFail(e) PROVE Plain
  BY <1>24, <1>t DEF WriteFail, Plain, Woken
<1>25. ASSUME NEW e \in Ends, WriterEOF(e) PROVE Plain
  BY <1>25, <1>t DEF WriterEOF, Plain
<1>26. ASSUME NEW e \in Ends, AppReset(e) PROVE Plain
  BY <1>26, <1>t DEF AppReset, Plain
<1>27. ASSUME NEW e \in Ends, Stop(e) PROVE Plain
  BY <1>27, <1>t DEF Stop, Plain, Woken
<1>28. CASE UNCHANGED vars
  BY <1>28 DEF vars, Plain
<1>29. QED
  BY <1>1, <1>2, <1>3, <1>4, <1>5, <1>6, <1>7, <1>8, <1>9, <1>10, <1>11,
     <1>12, <1>13, <1>14, <1>15, <1>16, <1>17, <1>18, <1>19, <1>20, <1>21,
     <1>22, <1>23, <1>24, <1>25, <1>26, <1>27, <1>28
  DEF Next, Setup, Deliver, Reader, Writer

\* The answers that are not plain leave the open in flight alone, and tunnel_open
\* itself is the only one ever sent.
LEMMA OpenStep ==
    ASSUME TypeOK, ControlInv, InboxInv, HandshakeInv, [Next]_vars
    PROVE  OpenInv'
<1>t. /\ pc \in [Ends -> PCs] /\ net \in [Ends -> Seq(Message)]
      /\ "src" \in Ends /\ "dst" \in Ends /\ Peer("src") = "dst" /\ Peer("dst") = "src"
      /\ OpenInv /\ RoleInv
  BY DEF TypeOK, Ends, Peer, HandshakeInv
<1>1. CASE SendOpen
  <2>1. PICK keeps \in BackendKeepsFC :
          net' = Emitted("src", Msg("src", "open", 0, 0, keeps))
    BY <1>1 DEF SendOpen
  <2> DEFINE s == net["dst"]
             m == Msg("src", "open", 0, 0, keeps)
             t == Append(s, m)
  <2>2. m \in Message /\ m.type = "open" /\ m.fc = keeps
    <3>1. keeps \in BOOLEAN /\ "open" \in Types /\ 0 \in Nat
      BY ConstantsAssumption DEF Types, ConstantsAssumption
    <3> QED
      BY <1>t, <3>1, MsgTyped DEF Msg
  <2>3. net' = Emitted("src", m)
    BY <2>1
  <2> HIDE DEF m
  <2>4. /\ Len(s) \in Nat /\ Len(t) = Len(s) + 1 /\ t[Len(s) + 1] = m
        /\ \A i \in 1 .. Len(s) : t[i] = s[i]
    BY <1>t, <2>2, NetAppend
  <2>5. net'["dst"] = t
    BY <1>t, <2>3 DEF Emitted
  <2>6. /\ pc["src"] = "registered" /\ pc'["src"] = "waiting"
        /\ pc["dst"] = "idle" /\ pc'["dst"] = "idle"
    BY <1>1, <1>t DEF SendOpen, RoleInv
  <2>7. \A i \in 1 .. Len(s) : s[i].type \notin {"ack", "nack", "open"}
    BY <1>t, <2>6 DEF OpenInv
  <2>8. \A i \in 1 .. Len(t) : i \in 1 .. Len(s) \/ (i = Len(s) + 1 /\ t[i] = m)
    BY <2>4
  <2>9. \A i \in 1 .. Len(t) :
          /\ t[i].type \notin {"ack", "nack"}
          /\ t[i].type = "open" => i = Len(s) + 1 /\ t[i].fc \in BackendKeepsFC
    BY <2>2, <2>4, <2>7, <2>8
  <2> HIDE DEF t
  <2> QED
    BY <2>5, <2>6, <2>9 DEF OpenInv
<1>2. CASE OpenDest
  <2> DEFINE s == net["dst"]
  <2>1. s # << >> /\ Head(s).type = "open" /\ net'["dst"] = Tail(s)
    BY <1>2, <1>t DEF OpenDest, Arrives, Consumed
  <2>2. /\ Head(s) = s[1] /\ Len(s) \in Nat \ {0} /\ Len(Tail(s)) = Len(s) - 1
        /\ \A i \in 1 .. Len(Tail(s)) : Tail(s)[i] = s[i+1]
    BY <1>t, <2>1, NetHead
  <2>3. 1 \in 1 .. Len(s) /\ \A i \in 1 .. Len(Tail(s)) : i + 1 \in 1 .. Len(s) /\ i + 1 # 1
    BY <2>2
  <2>4. \A i, j \in 1 .. Len(s) : s[i].type = "open" /\ s[j].type = "open" => i = j
    BY <1>t DEF OpenInv
  <2>5. \A i \in 1 .. Len(Tail(s)) : s[i+1].type # "open"
    BY <2>1, <2>2, <2>3, <2>4
  <2>6. \A i \in 1 .. Len(Tail(s)) : Tail(s)[i].type \notin {"open", "ack", "nack"}
    BY <1>t, <2>2, <2>3, <2>5 DEF OpenInv
  <2> QED
    BY <2>1, <2>6 DEF OpenInv
<1>3. CASE DialOK \/ DialFail \/ Ack
  <2>1. net'["dst"] = net["dst"] /\ pc'["src"] = pc["src"]
        /\ (pc["dst"] = "idle" => pc'["dst"] = "idle")
    BY <1>3, <1>t DEF DialOK, DialFail, Ack, Emitted, Consumed, StartRelay
  <2> QED
    BY <1>t, <2>1, OpenKept
<1>4. CASE ~(SendOpen \/ OpenDest \/ DialOK \/ DialFail \/ Ack)
  <2>1. Plain
    BY <1>4, PlainStep
  <2>2. \/ net'["dst"] = net["dst"]
        \/ net["dst"] # << >> /\ net'["dst"] = Tail(net["dst"])
        \/ \E m \in Message : /\ net'["dst"] = Append(net["dst"], m)
                              /\ m.type \notin {"open", "ack", "nack"}
    BY <1>t, <2>1 DEF Plain
  <2>3. /\ pc["dst"] = "idle" => pc'["dst"] = "idle"
        /\ pc'["src"] \in {"idle", "accepted", "registered"} =>
               pc["src"] \in {"idle", "accepted", "registered"}
    BY <2>1 DEF Plain
  <2> QED
    BY <1>t, <2>2, <2>3, OpenKept
<1> QED
  BY <1>1, <1>2, <1>3, <1>4

\* The one answer is sent when the dial ends and taken once, by tunnel.Ack.
LEMMA AckStep ==
    ASSUME TypeOK, ControlInv, InboxInv, HandshakeInv, [Next]_vars
    PROVE  AckInv'
<1>t. /\ pc \in [Ends -> PCs] /\ net \in [Ends -> Seq(Message)] /\ fc \in [Ends -> BOOLEAN]
      /\ "src" \in Ends /\ "dst" \in Ends /\ Peer("src") = "dst" /\ Peer("dst") = "src"
      /\ AckInv /\ RoleInv
  BY DEF TypeOK, Ends, Peer, HandshakeInv
<1>1. CASE SendOpen
  <2>1. net'["src"] = net["src"] /\ pc'["dst"] = pc["dst"] /\ reply' = reply /\ fc' = fc
    BY <1>1, <1>t DEF SendOpen, Emitted
  <2> QED
    BY <1>t, <2>1, AckKept
<1>2. CASE OpenDest
  <2>1. net'["src"] = net["src"] /\ pc["dst"] = "idle"
    BY <1>2, <1>t, OpenArrives DEF OpenDest, Consumed, HandshakeInv
  <2> QED
    BY <1>t, <2>1, AckKept
<1>3. CASE DialOK \/ DialFail
  <2>1. PICK type \in {"ack", "nack"}, flag \in BOOLEAN :
          /\ net' = Emitted("dst", Msg("dst", type, 0, 0, flag))
          /\ type = "ack" => flag = fc["dst"]
    BY <1>3, <1>t DEF DialOK, DialFail
  <2> DEFINE s == net["src"]
             m == Msg("dst", type, 0, 0, flag)
             t == Append(s, m)
  <2>2. m \in Message /\ m.type = type /\ m.fc = flag
    <3>1. type \in Types /\ 0 \in Nat
      BY DEF Types
    <3> QED
      BY <1>t, <3>1, MsgTyped DEF Msg
  <2>3. net' = Emitted("dst", m)
    BY <2>1
  <2> HIDE DEF m
  <2>4. /\ Len(s) \in Nat /\ Len(t) = Len(s) + 1 /\ t[Len(s) + 1] = m
        /\ \A i \in 1 .. Len(s) : t[i] = s[i]
    BY <1>t, <2>2, NetAppend
  <2>5. net'["src"] = t
    BY <1>t, <2>3 DEF Emitted
  <2>6. /\ pc["dst"] = "dialing" /\ pc'["dst"] \notin {"idle", "dialing"}
        /\ reply = "none" /\ reply' = "none" /\ fc' = fc
    BY <1>3, <1>t DEF DialOK, DialFail, StartRelay, RoleInv
  <2>7. \A i \in 1 .. Len(s) : s[i].type \notin {"ack", "nack", "open"}
    BY <1>t, <2>6 DEF AckInv
  <2>8. \A i \in 1 .. Len(t) : i \in 1 .. Len(s) \/ (i = Len(s) + 1 /\ t[i] = m)
    BY <2>4
  <2>9. \A i \in 1 .. Len(t) :
          /\ t[i].type # "open"
          /\ t[i].type \in {"ack", "nack"} => i = Len(s) + 1
          /\ t[i].type = "ack" => t[i].fc = fc["dst"]
    BY <2>1, <2>2, <2>4, <2>7, <2>8
  <2> HIDE DEF t
  <2> QED
    BY <2>5, <2>6, <2>9 DEF AckInv
<1>4. CASE Ack
  <2> DEFINE s == net["src"]
  <2>1. s # << >> /\ Head(s).type \in {"ack", "nack"} /\ net'["src"] = Tail(s)
    BY <1>4, <1>t DEF Ack, Arrives, Consumed
  <2>2. /\ Head(s) = s[1] /\ Len(s) \in Nat \ {0} /\ Len(Tail(s)) = Len(s) - 1
        /\ \A i \in 1 .. Len(Tail(s)) : Tail(s)[i] = s[i+1]
    BY <1>t, <2>1, NetHead
  <2>3. 1 \in 1 .. Len(s) /\ \A i \in 1 .. Len(Tail(s)) : i + 1 \in 1 .. Len(s) /\ i + 1 # 1
    BY <2>2
  <2>4. \A i, j \in 1 .. Len(s) :
           s[i].type \in {"ack", "nack"} /\ s[j].type \in {"ack", "nack"} => i = j
    BY <1>t DEF AckInv
  <2>5. \A i \in 1 .. Len(Tail(s)) : s[i+1].type \notin {"ack", "nack"}
    BY <2>1, <2>2, <2>3, <2>4
  <2>6. \A i \in 1 .. Len(Tail(s)) : Tail(s)[i].type \notin {"open", "ack", "nack"}
    BY <1>t, <2>2, <2>3, <2>5 DEF AckInv
  <2> QED
    BY <2>1, <2>6 DEF AckInv
<1>5. CASE ~(SendOpen \/ OpenDest \/ DialOK \/ DialFail \/ Ack)
  <2>1. Plain
    BY <1>5, PlainStep
  <2>2. \/ net'["src"] = net["src"]
        \/ net["src"] # << >> /\ net'["src"] = Tail(net["src"])
        \/ \E m \in Message : /\ net'["src"] = Append(net["src"], m)
                              /\ m.type \notin {"open", "ack", "nack"}
    BY <1>t, <2>1 DEF Plain
  <2>3. pc["dst"] \notin {"idle", "dialing"} =>
          pc'["dst"] \notin {"idle", "dialing"} /\ reply' = reply /\ fc'["dst"] = fc["dst"]
    BY <2>1 DEF Plain
  <2> QED
    BY <1>t, <2>2, <2>3, AckKept
<1> QED
  BY <1>1, <1>2, <1>3, <1>4, <1>5

\* The roles: the answer is awaited by one end only, and both agree on flow control.
LEMMA RoleStep ==
    ASSUME TypeOK, ControlInv, HandshakeInv, [Next]_vars
    PROVE  RoleInv'
<1>t. /\ pc \in [Ends -> PCs] /\ wpc \in [Ends -> {"off", "run", "write", "exit"}]
      /\ fc \in [Ends -> BOOLEAN] /\ Ends = {"src", "dst"}
      /\ pc["src"] # "dialing" /\ pc["dst"] \notin {"accepted", "registered", "waiting"}
      /\ RoleInv
      /\ \A d \in Ends : pc[d] \in Relaying => wpc[d] # "off"
  BY DEF TypeOK, Ends, ControlInv, EndControl, HandshakeInv
<1>1. CASE Accept
  BY <1>1, <1>t DEF Accept, RoleInv
<1>2. CASE Register
  BY <1>2, <1>t DEF Register, RoleInv
<1>3. CASE SendOpen
  BY <1>3, <1>t DEF SendOpen, RoleInv
<1>4. CASE SourceReady
  BY <1>4, <1>t DEF SourceReady, RoleInv, StartRelay
<1>5. CASE SourceFailed
  BY <1>5, <1>t DEF SourceFailed, RoleInv
<1>6. CASE SourceAckTimeout
  BY <1>6, <1>t DEF SourceAckTimeout, RoleInv
<1>7. CASE SourceDone
  BY <1>7, <1>t DEF SourceDone, RoleInv
<1>8. CASE DialOK
  BY <1>8, <1>t DEF DialOK, RoleInv, StartRelay
<1>9. CASE DialFail
  BY <1>9, <1>t DEF DialFail, RoleInv
<1>10. CASE OpenDest
  <2>1. /\ pc["dst"] = "idle" /\ pc["src"] \notin {"idle", "accepted", "registered"}
        /\ Head(net["dst"]).fc \in BackendKeepsFC
    BY <1>10, OpenArrives DEF OpenDest, HandshakeInv
  <2> QED
    BY <1>10, <1>t, <2>1 DEF OpenDest, RoleInv
<1>11. CASE Ack
  <2>1. /\ pc["dst"] \notin {"idle", "dialing"} /\ reply = "none"
        /\ Head(net["src"]).type = "ack" => Head(net["src"]).fc = fc["dst"]
    BY <1>11, AckArrives DEF Ack, HandshakeInv
  <2> QED
    BY <1>11, <1>t, <2>1 DEF Ack, RoleInv
<1>12. ASSUME NEW e \in Ends, DataIgnored(e) PROVE RoleInv'
  BY <1>12, <1>t DEF DataIgnored, RoleInv
<1>13. ASSUME NEW e \in Ends, DataAccepted(e) PROVE RoleInv'
  BY <1>13, <1>t DEF DataAccepted, RoleInv
<1>14. ASSUME NEW e \in Ends, DataOverflow(e) PROVE RoleInv'
  BY <1>14, <1>t DEF DataOverflow, RoleInv, Woken
<1>15. ASSUME NEW e \in Ends, AddCredit(e) PROVE RoleInv'
  BY <1>15, <1>t DEF AddCredit, RoleInv, Woken
<1>16. ASSUME NEW e \in Ends, CloseStream(e) PROVE RoleInv'
  BY <1>16, <1>t DEF CloseStream, RoleInv
<1>17. ASSUME NEW e \in Ends, TakeCredit(e) PROVE RoleInv'
  BY <1>17, <1>t DEF TakeCredit, RoleInv
<1>18. ASSUME NEW e \in Ends, Park(e) PROVE RoleInv'
  BY <1>18, <1>t DEF Park, RoleInv
<1>19. ASSUME NEW e \in Ends, ReadData(e) PROVE RoleInv'
  BY <1>19, <1>t DEF ReadData, RoleInv
<1>20. ASSUME NEW e \in Ends, ReadEnd(e) PROVE RoleInv'
  BY <1>20, <1>t DEF ReadEnd, RoleInv
<1>21. ASSUME NEW e \in Ends, WriterDone(e) PROVE RoleInv'
  BY <1>21, <1>t DEF WriterDone, RoleInv
<1>22. ASSUME NEW e \in Ends, WriterTake(e) PROVE RoleInv'
  BY <1>22, <1>t DEF WriterTake, RoleInv
<1>23. ASSUME NEW e \in Ends, WriteOK(e) PROVE RoleInv'
  BY <1>23, <1>t DEF WriteOK, RoleInv
<1>24. ASSUME NEW e \in Ends, WriteFail(e) PROVE RoleInv'
  BY <1>24, <1>t DEF WriteFail, RoleInv, Woken
<1>25. ASSUME NEW e \in Ends, WriterEOF(e) PROVE RoleInv'
  BY <1>25, <1>t DEF WriterEOF, RoleInv
<1>26. ASSUME NEW e \in Ends, AppReset(e) PROVE RoleInv'
  BY <1>26, <1>t DEF AppReset, RoleInv
<1>27. ASSUME NEW e \in Ends, Stop(e) PROVE RoleInv'
  BY <1>27, <1>t DEF Stop, RoleInv, Woken
<1>28. CASE UNCHANGED vars
  BY <1>t, <1>28 DEF vars, RoleInv
<1>29. QED
  BY <1>1, <1>2, <1>3, <1>4, <1>5, <1>6, <1>7, <1>8, <1>9, <1>10, <1>11,
     <1>12, <1>13, <1>14, <1>15, <1>16, <1>17, <1>18, <1>19, <1>20, <1>21,
     <1>22, <1>23, <1>24, <1>25, <1>26, <1>27, <1>28
  DEF Next, Setup, Deliver, Reader, Writer

-----------------------------------------------------------------------------
(* The inbox.                                                              *)

\* The end of what e accepted is a position.
LEMMA AcceptedTyped ==
    ASSUME TypeOK, NEW e \in Ends
    PROVE  /\ Accepted(e) \in Nat /\ delivered[e] \in Nat
           /\ inbox[e] = << >> => Accepted(e) = delivered[e]
           /\ inbox[e] # << >> => Accepted(e) = inbox[e][Len(inbox[e])].hi
<1>1. delivered[e] \in Nat
  BY DEF TypeOK
<1>2. CASE inbox[e] # << >>
  <2>1. Len(inbox[e]) \in 1 .. Len(inbox[e]) /\ \A i \in 1 .. Len(inbox[e]) : inbox[e][i] \in Chunk
    BY <1>2, InboxHead
  <2>2. inbox[e][Len(inbox[e])].hi \in Nat
    BY <2>1 DEF Chunk
  <2> QED
    BY <1>1, <1>2, <2>2 DEF Accepted
<1> QED
  BY <1>1, <1>2 DEF Accepted

\* A chunk that starts where e's inbox ends is accepted.
LEMMA ChunksAppend ==
    ASSUME TypeOK, NEW e \in Ends, Chunks(e), NEW c \in Chunk, c.lo < c.hi,
           c.lo = Accepted(e), inbox'[e] = Append(inbox[e], c),
           delivered'[e] = delivered[e]
    PROVE  Chunks(e)' /\ Accepted(e)' = c.hi
<1> DEFINE s == inbox[e]
           t == Append(s, c)
           n == Len(s)
<1>1. /\ n \in Nat /\ Len(t) = n + 1 /\ t[n + 1] = c /\ t # << >>
      /\ \A i \in 1 .. n : t[i] = s[i] /\ s[i] \in Chunk
      /\ s = << >> => n = 0
      /\ s # << >> => n > 0
  BY InboxAppend
<1>2. c.lo \in Nat /\ c.hi \in Nat /\ \A i \in 1 .. n : s[i].lo \in Nat /\ s[i].hi \in Nat
  BY <1>1 DEF Chunk
<1>3. n > 0 => n \in 1 .. n /\ c.lo = s[n].hi /\ s[n].lo < s[n].hi
  BY <1>1, AcceptedTyped DEF Chunks
<1>4. \A i \in 1 .. Len(t) : i \in 1 .. n \/ (i = n + 1 /\ t[i] = c)
  BY <1>1
<1>5. \A i \in 1 .. Len(t) : t[i].lo < t[i].hi
  BY <1>1, <1>4 DEF Chunks
<1>6. \A i \in 1 .. Len(t) - 1 : t[i].hi = t[i+1].lo
  <2> SUFFICES ASSUME NEW i \in 1 .. n PROVE t[i].hi = t[i+1].lo
    BY <1>1
  <2>1. CASE i = n
    BY <1>1, <1>3, <2>1
  <2>2. CASE i # n
    <3>1. i \in 1 .. n - 1 /\ i + 1 \in 1 .. n
      BY <1>1, <2>2
    <3>2. s[i].hi = s[i+1].lo /\ t[i] = s[i] /\ t[i+1] = s[i+1]
      BY <1>1, <3>1 DEF Chunks
    <3> QED
      BY <3>2
  <2> QED
    BY <2>1, <2>2
<1>7. \A i, j \in 1 .. Len(t) : i <= j => t[j].lo >= t[i].lo + (j - i)
  <2> SUFFICES ASSUME NEW i \in 1 .. Len(t), NEW j \in 1 .. Len(t), i <= j
               PROVE  t[j].lo >= t[i].lo + (j - i)
    OBVIOUS
  <2>1. CASE j \in 1 .. n
    <3>1. i \in 1 .. n
      BY <1>1, <2>1
    <3>2. s[j].lo >= s[i].lo + (j - i) /\ t[i] = s[i] /\ t[j] = s[j]
      BY <1>1, <2>1, <3>1 DEF Chunks
    <3> QED
      BY <3>2
  <2>2. CASE j = n + 1 /\ i = n + 1
    BY <1>1, <1>2, <2>2
  <2>3. CASE j = n + 1 /\ i \in 1 .. n
    <3>1. n \in 1 .. n /\ i <= n /\ n > 0
      BY <1>1, <2>3
    <3>2. s[n].lo >= s[i].lo + (n - i)
      BY <2>3, <3>1 DEF Chunks
    <3>3. s[n].lo \in Nat /\ s[n].hi \in Nat /\ s[i].lo \in Nat
      BY <1>2, <2>3, <3>1
    <3>4. c.lo > s[n].lo
      BY <1>2, <1>3, <3>1, <3>3
    <3>5. t[i] = s[i] /\ t[j] = c
      BY <1>1, <2>3
    <3>6. c.lo >= s[i].lo + (n - i) + 1
      BY <1>1, <1>2, <2>3, <3>2, <3>3, <3>4, SMTT(30)
    <3>7. (n - i) + 1 = j - i
      BY <1>1, <2>3
    <3>8. t[j].lo = c.lo /\ t[i].lo = s[i].lo
      BY <3>5
    <3> HIDE DEF t, s, n
    <3>9. c.lo >= s[i].lo + (j - i)
      BY <1>1, <1>2, <2>3, <3>3, <3>6, <3>7
    <3> QED
      BY <3>8, <3>9
  <2> QED
    BY <1>4, <2>1, <2>2, <2>3
<1>8. t[1].lo = delivered[e]
  <2>1. CASE n = 0
    <3>1. s = << >> /\ t[1] = c
      BY <1>1, <2>1
    <3> QED
      BY <3>1, AcceptedTyped
  <2>2. CASE n > 0
    <3>1. s # << >> /\ t[1] = s[1]
      BY <1>1, <2>2, EmptySeq DEF TypeOK
    <3> QED
      BY <3>1 DEF Chunks
  <2> QED
    BY <1>1, <2>1, <2>2
<1>9. inbox'[e] = t /\ t[Len(t)] = c
  BY <1>1
<1> HIDE DEF t
<1>10. Chunks(e)'
  BY <1>5, <1>6, <1>7, <1>8, <1>9 DEF Chunks
<1>11. Accepted(e)' = c.hi
  BY <1>1, <1>9 DEF Accepted
<1> QED
  BY <1>10, <1>11

\* The writer delivers the first chunk of e's inbox.
LEMMA ChunksTail ==
    ASSUME TypeOK, NEW e \in Ends, Chunks(e), inbox[e] # << >>,
           inbox'[e] = Tail(inbox[e]),
           delivered'[e] = delivered[e] + (Head(inbox[e]).hi - Head(inbox[e]).lo)
    PROVE  /\ Chunks(e)' /\ Accepted(e)' = Accepted(e) /\ delivered'[e] <= Accepted(e)
           /\ delivered'[e] \in Nat
<1> DEFINE s == inbox[e]
           t == Tail(s)
           n == Len(s)
<1>1. /\ n \in Nat \ {0} /\ Len(t) = n - 1 /\ Head(s) = s[1] /\ 1 \in 1 .. n /\ n \in 1 .. n
      /\ \A i \in 1 .. Len(t) : t[i] = s[i+1] /\ i + 1 \in 1 .. n
      /\ \A i \in 1 .. n : s[i] \in Chunk
      /\ t = << >> <=> n = 1
  BY InboxHead
<1>2. \A i \in 1 .. n : s[i].lo \in Nat /\ s[i].hi \in Nat
  BY <1>1 DEF Chunk
<1>3. delivered[e] \in Nat /\ delivered[e] = s[1].lo /\ s[1].lo < s[1].hi
  BY <1>1 DEF TypeOK, Chunks
<1>4. delivered'[e] = s[1].hi
  <2>1. delivered'[e] = delivered[e] + (s[1].hi - s[1].lo)
    BY <1>1
  <2>2. s[1].lo \in Nat /\ s[1].hi \in Nat
    BY <1>1, <1>2
  <2> QED
    BY <1>3, <2>1, <2>2
<1>5. \A i \in 1 .. Len(t) : t[i].lo < t[i].hi
  BY <1>1 DEF Chunks
<1>6. \A i \in 1 .. Len(t) - 1 : t[i].hi = t[i+1].lo
  <2> SUFFICES ASSUME NEW i \in 1 .. Len(t) - 1 PROVE t[i].hi = t[i+1].lo
    OBVIOUS
  <2>1. i \in 1 .. Len(t) /\ i + 1 \in 1 .. Len(t) /\ i + 1 \in 1 .. n - 1
    BY <1>1
  <2>2. t[i] = s[i+1] /\ t[i+1] = s[(i+1)+1] /\ s[i+1].hi = s[(i+1)+1].lo
    BY <1>1, <2>1 DEF Chunks
  <2> QED
    BY <2>2
<1>7. \A i, j \in 1 .. Len(t) : i <= j => t[j].lo >= t[i].lo + (j - i)
  <2> SUFFICES ASSUME NEW i \in 1 .. Len(t), NEW j \in 1 .. Len(t), i <= j
               PROVE  t[j].lo >= t[i].lo + (j - i)
    OBVIOUS
  <2>1. i + 1 \in 1 .. n /\ j + 1 \in 1 .. n /\ i + 1 <= j + 1 /\ (j+1) - (i+1) = j - i
    BY <1>1
  <2>2. s[j+1].lo >= s[i+1].lo + ((j+1) - (i+1))
    BY <2>1 DEF Chunks
  <2>3. t[i] = s[i+1] /\ t[j] = s[j+1]
    BY <1>1
  <2> QED
    BY <2>1, <2>2, <2>3
<1>8. t # << >> => /\ t[1].lo = s[1].hi /\ t[Len(t)] = s[n]
                   /\ s[n].hi >= s[1].hi
  <2> SUFFICES ASSUME t # << >>
               PROVE  t[1].lo = s[1].hi /\ t[Len(t)] = s[n] /\ s[n].hi >= s[1].hi
    OBVIOUS
  <2>1. n - 1 \in 1 .. Len(t) /\ 1 \in 1 .. Len(t) /\ 1 \in 1 .. n - 1 /\ 2 \in 1 .. n
    BY <1>1
  <2>2. t[1] = s[2] /\ t[Len(t)] = s[n] /\ s[1].hi = s[2].lo
    BY <1>1, <2>1 DEF Chunks
  <2>3. s[n].lo >= s[2].lo + (n - 2) /\ s[n].lo < s[n].hi
    BY <1>1, <2>1, SMTT(30) DEF Chunks
  <2>4. s[n].lo \in Nat /\ s[n].hi \in Nat /\ s[2].lo \in Nat
    BY <1>1, <1>2, <2>1
  <2>5. n \in Nat /\ n >= 2
    BY <1>1, <2>1
  <2>6. s[n].lo >= s[2].lo
    BY <2>3, <2>4, <2>5
  <2>7. s[n].hi >= s[1].hi
    BY <2>2, <2>3, <2>4, <2>6
  <2> QED
    BY <2>2, <2>7
<1>9. Chunks(e)'
  <2>1. inbox'[e] = t /\ (t # << >> => t[1].lo = delivered'[e])
    BY <1>4, <1>8
  <2> HIDE DEF t
  <2> QED
    BY <1>5, <1>6, <1>7, <2>1 DEF Chunks
<1>10. Accepted(e) = s[n].hi
  BY AcceptedTyped
<1>11. Accepted(e)' = s[n].hi
  BY <1>1, <1>4, <1>8 DEF Accepted
<1>12. delivered'[e] <= Accepted(e) /\ delivered'[e] \in Nat
  BY <1>1, <1>2, <1>4, <1>8, <1>10
<1> QED
  BY <1>9, <1>10, <1>11, <1>12

\* d's inbox does not change; whatever arrives, d hears it or no longer listens.
LEMMA InboxKept ==
    ASSUME TypeOK, TypeOK', NEW d \in Ends, Chunks(d), UpToDate(d),
           inbox'[d] = inbox[d], delivered'[d] = delivered[d],
           Arrived(d)' >= Arrived(d), Listens(d)' => Accepted(d) = Arrived(d)'
    PROVE  Chunks(d)' /\ UpToDate(d)'
<1>1. Chunks(d)'
  BY DEF Chunks
<1>2. Accepted(d)' = Accepted(d)
  BY DEF Accepted
<1>3. Accepted(d) \in Nat /\ Arrived(d) \in Nat /\ Arrived(d)' \in Nat
  BY AcceptedTyped, PositionsTyped
<1> QED
  BY <1>1, <1>2, <1>3 DEF UpToDate

\* Before an end is registered, nothing has come from its peer.
LEMMA FreshInbox ==
    ASSUME TypeOK, TypeOK', NetInv, NEW d \in Ends, UpToDate(d), sent[Peer(d)] = 0
    PROVE  Accepted(d) = 0 /\ Arrived(d) = 0
<1>1. Accepted(d) \in Nat /\ Arrived(d) \in Nat /\ Accepted(d) <= Arrived(d)
  BY AcceptedTyped, PositionsTyped DEF UpToDate
<1>2. Arrived(d) <= sent[Peer(d)]
  <2>1. CASE net[d] # << >>
    <3>1. Head(net[d]).lo <= Head(net[d]).hi /\ Head(net[d]).hi <= sent[Peer(d)]
      BY <2>1, NetInvHead
    <3>2. Head(net[d]).lo \in Nat /\ Head(net[d]).hi \in Nat
      BY <2>1, NetHead DEF Message
    <3> QED
      BY <2>1, <3>1, <3>2 DEF Arrived
  <2>2. CASE net[d] = << >>
    BY <2>2 DEF Arrived
  <2> QED
    BY <2>1, <2>2
<1> QED
  BY <1>1, <1>2

\* No inbox changes and nobody starts listening.
Hushed ==
    /\ inbox' = inbox /\ delivered' = delivered
    /\ \A d \in Ends : Listens(d)' => Listens(d)

\* Every step is like that but those that dispatch data, deliver it or register.
LEMMA HushedStep ==
    ASSUME TypeOK, ~(Register \/ OpenDest),
           \A e \in Ends : ~(DataIgnored(e) \/ DataAccepted(e)
                          \/ DataOverflow(e) \/ WriteOK(e)),
           [Next]_vars
    PROVE  Hushed
<1>t. /\ registered \in [Ends -> BOOLEAN] /\ inboxClosed \in [Ends -> BOOLEAN]
      /\ "src" \in Ends /\ "dst" \in Ends
  BY DEF TypeOK, Ends
<1>1. CASE Accept
  BY <1>1, <1>t DEF Accept, Listens, Hushed
<1>2. CASE Register
  BY <1>2
<1>3. CASE SendOpen
  BY <1>3, <1>t DEF SendOpen, Listens, Hushed
<1>4. CASE SourceReady
  BY <1>4, <1>t DEF SourceReady, Listens, Hushed
<1>5. CASE SourceFailed
  BY <1>5, <1>t DEF SourceFailed, Listens, Hushed, HardAbort, Abort
<1>6. CASE SourceAckTimeout
  BY <1>6, <1>t DEF SourceAckTimeout, Listens, Hushed, HardAbort, Abort
<1>7. CASE SourceDone
  BY <1>7, <1>t DEF SourceDone, Listens, Hushed
<1>8. CASE DialOK
  BY <1>8, <1>t DEF DialOK, Listens, Hushed
<1>9. CASE DialFail
  BY <1>9, <1>t DEF DialFail, Listens, Hushed
<1>10. CASE OpenDest
  BY <1>10
<1>11. CASE Ack
  BY <1>11, <1>t DEF Ack, Listens, Hushed
<1>12. ASSUME NEW e \in Ends, DataIgnored(e) PROVE Hushed
  BY <1>12
<1>13. ASSUME NEW e \in Ends, DataAccepted(e) PROVE Hushed
  BY <1>13
<1>14. ASSUME NEW e \in Ends, DataOverflow(e) PROVE Hushed
  BY <1>14
<1>15. ASSUME NEW e \in Ends, AddCredit(e) PROVE Hushed
  BY <1>15, <1>t DEF AddCredit, Listens, Hushed
<1>16. ASSUME NEW e \in Ends, CloseStream(e) PROVE Hushed
  BY <1>16, <1>t DEF CloseStream, Listens, Hushed
<1>17. ASSUME NEW e \in Ends, TakeCredit(e) PROVE Hushed
  BY <1>17, <1>t DEF TakeCredit, Listens, Hushed
<1>18. ASSUME NEW e \in Ends, Park(e) PROVE Hushed
  BY <1>18, <1>t DEF Park, Listens, Hushed
<1>19. ASSUME NEW e \in Ends, ReadData(e) PROVE Hushed
  BY <1>19, <1>t DEF ReadData, Listens, Hushed
<1>20. ASSUME NEW e \in Ends, ReadEnd(e) PROVE Hushed
  BY <1>20, <1>t DEF ReadEnd, Listens, Hushed, FinishIf, Abort
<1>21. ASSUME NEW e \in Ends, WriterDone(e) PROVE Hushed
  BY <1>21, <1>t DEF WriterDone, Listens, Hushed
<1>22. ASSUME NEW e \in Ends, WriterTake(e) PROVE Hushed
  BY <1>22, <1>t DEF WriterTake, Listens, Hushed
<1>23. ASSUME NEW e \in Ends, WriteOK(e) PROVE Hushed
  BY <1>23
<1>24. ASSUME NEW e \in Ends, WriteFail(e) PROVE Hushed
  BY <1>24, <1>t DEF WriteFail, Listens, Hushed, HardAbort, Abort
<1>25. ASSUME NEW e \in Ends, WriterEOF(e) PROVE Hushed
  BY <1>25, <1>t DEF WriterEOF, Listens, Hushed, FinishIf, Abort
<1>26. ASSUME NEW e \in Ends, AppReset(e) PROVE Hushed
  BY <1>26, <1>t DEF AppReset, Listens, Hushed
<1>27. ASSUME NEW e \in Ends, Stop(e) PROVE Hushed
  BY <1>27, <1>t DEF Stop, Listens, Hushed, HardAbort, Abort
<1>28. CASE UNCHANGED vars
  BY <1>28 DEF vars, Hushed, Listens
<1>29. QED
  BY <1>1, <1>2, <1>3, <1>4, <1>5, <1>6, <1>7, <1>8, <1>9, <1>10, <1>11,
     <1>12, <1>13, <1>14, <1>15, <1>16, <1>17, <1>18, <1>19, <1>20, <1>21,
     <1>22, <1>23, <1>24, <1>25, <1>26, <1>27, <1>28
  DEF Next, Setup, Deliver, Reader, Writer

\* The inbox stays a gapless prefix of what arrived, up to date while e listens.
LEMMA InboxStep ==
    ASSUME TypeOK, TypeOK', ControlInv, HandshakeInv, NetInv, InboxInv, [Next]_vars
    PROVE  InboxInv'
<1>p. \A d \in Ends : /\ Accepted(d) \in Nat /\ delivered[d] \in Nat
                      /\ Arrived(d) \in Nat /\ Arrived(d)' \in Nat
                      /\ Arrived(d)' >= Arrived(d)
                      /\ Chunks(d) /\ UpToDate(d)
  BY AcceptedTyped, PositionsTyped, NetStep DEF InboxInv
<1>t. /\ registered \in [Ends -> BOOLEAN] /\ inbox \in [Ends -> Seq(Chunk)]
      /\ delivered \in [Ends -> Nat] /\ inboxClosed \in [Ends -> BOOLEAN]
      /\ "src" \in Ends /\ "dst" \in Ends /\ Peer("src") = "dst" /\ Peer("dst") = "src"
  BY DEF TypeOK, Ends, Peer
<1>1. ASSUME NEW e \in Ends, DataIgnored(e) \/ DataOverflow(e) PROVE InboxInv'
  <2>1. inbox' = inbox /\ delivered' = delivered
    BY <1>1 DEF DataIgnored, DataOverflow
  <2>2. /\ ~Listens(e)'
        /\ \A d \in Ends : d # e => (Listens(d)' <=> Listens(d))
    BY <1>1, <1>t DEF DataIgnored, DataOverflow, HardAbort, Abort, Listens
  <2>3. \A d \in Ends : d # e => Arrived(d)' = Arrived(d)
    <3>1. CASE DataIgnored(e)
      BY <3>1, ConsumeStep DEF DataIgnored, Arrives
    <3>2. CASE DataOverflow(e)
      BY <3>2, OverflowStep
    <3> QED
      BY <1>1, <3>1, <3>2
  <2>4. \A d \in Ends : Listens(d)' => Accepted(d) = Arrived(d)'
    BY <1>p, <2>2, <2>3 DEF UpToDate
  <2>5. \A d \in Ends : Chunks(d)' /\ UpToDate(d)'
    BY <1>p, <2>1, <2>4, InboxKept
  <2> QED
    BY <2>5 DEF InboxInv
<1>2. ASSUME NEW e \in Ends, DataAccepted(e) PROVE InboxInv'
  <2> DEFINE m == Head(net[e])
             c == [lo |-> m.lo, hi |-> m.hi]
  <2>1. net[e] # << >> /\ m.type = "data" /\ net' = Consumed(e) /\ Listens(e)
        /\ UNCHANGED <<sent, delivered, registered, inboxClosed>>
        /\ inbox' = [inbox EXCEPT ![e] = Append(@, c)]
    BY <1>2 DEF DataAccepted, Arrives
  <2>2. /\ Arrived(e) = m.lo /\ Arrived(e)' = m.hi
        /\ \A d \in Ends : d # e => Arrived(d)' = Arrived(d)
    BY <2>1, ConsumeStep
  <2>3. c \in Chunk /\ c.lo = m.lo /\ c.hi = m.hi /\ m.lo < m.hi
    <3>1. m \in Message
      BY <2>1, NetHead
    <3> QED
      BY <2>1, <3>1, NetInvHead DEF Message, Chunk
  <2>4. inbox'[e] = Append(inbox[e], c) /\ \A d \in Ends : d # e => inbox'[d] = inbox[d]
    BY <1>t, <2>1
  <2> HIDE DEF c, m
  <2>5. c.lo = Accepted(e)
    BY <1>p, <2>1, <2>2, <2>3 DEF UpToDate
  <2>6. Chunks(e)' /\ Accepted(e)' = c.hi
    BY <1>p, <2>1, <2>3, <2>4, <2>5, ChunksAppend
  <2>7. delivered'[e] <= Accepted(e) /\ Accepted(e) <= Accepted(e)' /\ Accepted(e)' = Arrived(e)'
    BY <1>p, <2>1, <2>2, <2>3, <2>5, <2>6 DEF UpToDate
  <2>8. UpToDate(e)'
    BY <1>p, <2>1, <2>7, AcceptedTyped DEF UpToDate
  <2>9. ASSUME NEW d \in Ends, d # e PROVE Chunks(d)' /\ UpToDate(d)'
    <3>1. Listens(d)' => Accepted(d) = Arrived(d)'
      BY <1>p, <2>1, <2>2, <2>9 DEF Listens, UpToDate
    <3> QED
      BY <1>p, <2>1, <2>4, <2>9, <3>1, InboxKept
  <2> QED
    BY <2>6, <2>8, <2>9 DEF InboxInv
<1>3. ASSUME NEW e \in Ends, WriteOK(e) PROVE InboxInv'
  <2>1. inbox[e] # << >>
    BY <1>3 DEF WriteOK, ControlInv, EndControl
  <2>2. /\ inbox'[e] = Tail(inbox[e])
        /\ delivered'[e] = delivered[e] + (Head(inbox[e]).hi - Head(inbox[e]).lo)
        /\ \A d \in Ends : d # e => inbox'[d] = inbox[d] /\ delivered'[d] = delivered[d]
        /\ UNCHANGED <<registered, inboxClosed>>
    BY <1>3, <1>t DEF WriteOK
  <2>3. \A d \in Ends : Arrived(d)' = Arrived(d)
    BY <1>3, WriteOKSteady DEF Steady
  <2>4. Chunks(e)' /\ Accepted(e)' = Accepted(e) /\ delivered'[e] <= Accepted(e)
    BY <1>p, <2>1, <2>2, ChunksTail
  <2>5. UpToDate(e)'
    BY <1>p, <2>2, <2>3, <2>4 DEF UpToDate, Listens
  <2>6. ASSUME NEW d \in Ends, d # e PROVE Chunks(d)' /\ UpToDate(d)'
    <3>1. Listens(d)' => Accepted(d) = Arrived(d)'
      BY <1>p, <2>2, <2>3 DEF Listens, UpToDate
    <3> QED
      BY <1>p, <2>2, <2>6, <3>1, InboxKept
  <2> QED
    BY <2>4, <2>5, <2>6 DEF InboxInv
<1>4. CASE Register \/ OpenDest
  <2>1. PICK e \in Ends : sent[Peer(e)] = 0 /\ registered' = [registered EXCEPT ![e] = TRUE]
    <3>1. CASE Register
      <4>1. sent["dst"] = 0
        BY <1>t, <3>1 DEF Register, HandshakeInv, RoleInv, ControlInv, EndControl, Relaying
      <4> QED
        BY <1>t, <3>1, <4>1 DEF Register
    <3>2. CASE OpenDest
      <4>1. pc["dst"] = "idle"
        BY <3>2, OpenArrives DEF OpenDest, HandshakeInv
      <4>2. sent["src"] = 0
        BY <1>t, <4>1 DEF HandshakeInv, RoleInv, ControlInv, EndControl
      <4> QED
        BY <1>t, <3>2, <4>2 DEF OpenDest
    <3> QED
      BY <1>4, <3>1, <3>2
  <2>2. inbox' = inbox /\ delivered' = delivered /\ inboxClosed' = inboxClosed
    BY <1>4 DEF Register, OpenDest
  <2>3. \A d \in Ends : Arrived(d)' = Arrived(d)
    <3>1. CASE Register
      BY <3>1, StillStep DEF Register, Steady
    <3>2. CASE OpenDest
      BY <1>t, <3>2, SilentConsume DEF OpenDest, Arrives, Steady
    <3> QED
      BY <1>4, <3>1, <3>2
  <2>4. Accepted(e) = 0 /\ Arrived(e) = 0
    BY <1>p, <2>1, FreshInbox
  <2>5. \A d \in Ends : Listens(d)' => Accepted(d) = Arrived(d)'
    BY <1>p, <1>t, <2>1, <2>2, <2>3, <2>4 DEF Listens, UpToDate
  <2>6. \A d \in Ends : Chunks(d)' /\ UpToDate(d)'
    BY <1>p, <2>2, <2>5, InboxKept
  <2> QED
    BY <2>6 DEF InboxInv
<1>5. CASE /\ ~(Register \/ OpenDest)
           /\ \A e \in Ends : ~(DataIgnored(e) \/ DataAccepted(e)
                                \/ DataOverflow(e) \/ WriteOK(e))
  <2>1. Hushed /\ Steady
    BY <1>5, HushedStep, SteadyStep
  <2>2. \A d \in Ends : Listens(d)' => Accepted(d) = Arrived(d)'
    BY <1>p, <2>1 DEF Hushed, Steady, UpToDate
  <2>3. \A d \in Ends : Chunks(d)' /\ UpToDate(d)'
    BY <1>p, <2>1, <2>2, InboxKept DEF Hushed
  <2> QED
    BY <2>3 DEF InboxInv
<1> QED
  BY <1>1, <1>2, <1>3, <1>4, <1>5

-----------------------------------------------------------------------------
(* The end of a stream.                                                    *)

\* A tunnel_close an end not reset emits comes after all it read.
Says(m, p) == m.type = "close" /\ ~reset'[p] => readDone'[p] /\ m.lo = sent'[p]

\* At most one message joins or leaves d's channel.
Channel(d) ==
    \/ net'[d] = net[d]
    \/ net[d] # << >> /\ net'[d] = Tail(net[d])
    \/ \E m \in Message : net'[d] = Append(net[d], m) /\ Says(m, Peer(d))

\* e emits a message.
LEMMA ChannelEmit ==
    ASSUME TypeOK, NEW e \in Ends, NEW type \in Types, NEW n \in Nat, NEW g \in Nat,
           NEW flag \in BOOLEAN, net' = Emitted(e, Msg(e, type, n, g, flag)),
           type = "close" /\ ~reset'[e] => readDone'[e] /\ sent'[e] = sent[e]
    PROVE  \A d \in Ends : Channel(d)
<1> DEFINE m == Msg(e, type, n, g, flag)
<1>1. m \in Message /\ m.type = type /\ m.lo = sent[e]
  <2>1. m \in Message
    BY MsgTyped
  <2> QED
    BY <2>1 DEF Msg
<1>2. Says(m, e)
  BY <1>1 DEF Says
<1>3. net' = Emitted(e, m)
  OBVIOUS
<1> HIDE DEF m
<1>4. /\ Peer(e) \in Ends /\ Peer(e) # e /\ Peer(Peer(e)) = e
      /\ \A d \in Ends : d = e \/ d = Peer(e)
  BY PeerOfEnd
<1>5. net'[Peer(e)] = Append(net[Peer(e)], m) /\ net'[e] = net[e]
  BY <1>3, <1>4 DEF Emitted, TypeOK
<1>6. Channel(Peer(e)) /\ Channel(e)
  BY <1>1, <1>2, <1>4, <1>5 DEF Channel
<1> QED
  BY <1>4, <1>6

\* e consumes a message.
LEMMA ChannelConsume ==
    ASSUME TypeOK, NEW e \in Ends, net[e] # << >>, net' = Consumed(e)
    PROVE  \A d \in Ends : Channel(d)
<1>1. net'[e] = Tail(net[e]) /\ \A d \in Ends : d # e => net'[d] = net[d]
  BY DEF Consumed, TypeOK
<1> QED
  BY <1>1 DEF Channel

\* Every step is like that for both channels.
LEMMA ChannelStep ==
    ASSUME TypeOK, ControlInv, InboxInv, [Next]_vars
    PROVE  \A d \in Ends : Channel(d)
<1>1. CASE Accept
  BY <1>1 DEF Accept, Channel
<1>2. CASE Register
  BY <1>2 DEF Register, Channel
<1>3. CASE SendOpen
  <2>1. PICK keeps \in BackendKeepsFC :
          net' = Emitted("src", Msg("src", "open", 0, 0, keeps))
    BY <1>3 DEF SendOpen
  <2>2. "src" \in Ends /\ "open" \in Types /\ keeps \in BOOLEAN /\ 0 \in Nat
    BY <2>1, ConstantsAssumption DEF Ends, Types, ConstantsAssumption
  <2> QED
    BY <1>3, <2>1, <2>2, ChannelEmit
<1>4. CASE SourceReady
  BY <1>4 DEF SourceReady, Channel
<1>5. CASE SourceFailed
  BY <1>5 DEF SourceFailed, Channel
<1>6. CASE SourceAckTimeout
  <2>1. "src" \in Ends /\ "close" \in Types /\ FALSE \in BOOLEAN /\ 0 \in Nat
    BY DEF Ends, Types, TypeOK
  <2>2. reset'["src"]
    BY <1>6, <2>1 DEF SourceAckTimeout, HardAbort, ControlInv, EndControl, TypeOK
  <2> QED
    BY <1>6, <2>1, <2>2, ChannelEmit DEF SourceAckTimeout
<1>7. CASE SourceDone
  BY <1>7 DEF SourceDone, Channel
<1>8. CASE DialOK
  <2>1. "dst" \in Ends /\ "ack" \in Types /\ fc["dst"] \in BOOLEAN /\ 0 \in Nat
    BY DEF Ends, Types, TypeOK
  <2> QED
    BY <1>8, <2>1, ChannelEmit DEF DialOK
<1>9. CASE DialFail
  <2>1. "dst" \in Ends /\ "nack" \in Types /\ FALSE \in BOOLEAN /\ 0 \in Nat
    BY DEF Ends, Types, TypeOK
  <2> QED
    BY <1>9, <2>1, ChannelEmit DEF DialFail
<1>10. CASE OpenDest
  BY <1>10, ChannelConsume DEF OpenDest, Arrives, Ends
<1>11. CASE Ack
  BY <1>11, ChannelConsume DEF Ack, Arrives, Ends
<1>12. ASSUME NEW e \in Ends, DataIgnored(e) PROVE \A d \in Ends : Channel(d)
  BY <1>12, ChannelConsume DEF DataIgnored, Arrives
<1>13. ASSUME NEW e \in Ends, DataAccepted(e) PROVE \A d \in Ends : Channel(d)
  BY <1>13, ChannelConsume DEF DataAccepted, Arrives
<1>14. ASSUME NEW e \in Ends, DataOverflow(e) PROVE \A d \in Ends : Channel(d)
  <2> DEFINE m == Msg(e, "close", 0, 0, FALSE)
  <2>1. m \in Message
    BY MsgTyped DEF Types
  <2>2. reset'[e]
    BY <1>14 DEF DataOverflow, Listens, HardAbort, ControlInv, EndControl, TypeOK
  <2>3. /\ Peer(e) \in Ends /\ Peer(e) # e /\ Peer(Peer(e)) = e
        /\ \A d \in Ends : d = e \/ d = Peer(e)
    BY PeerOfEnd
  <2>4. net[e] # << >> /\ net'[e] = Tail(net[e]) /\ net'[Peer(e)] = Append(net[Peer(e)], m)
    BY <1>14, <2>3 DEF DataOverflow, Arrives, TypeOK
  <2> HIDE DEF m
  <2> QED
    BY <2>1, <2>2, <2>3, <2>4 DEF Channel, Says
<1>15. ASSUME NEW e \in Ends, AddCredit(e) PROVE \A d \in Ends : Channel(d)
  BY <1>15, ChannelConsume DEF AddCredit, Arrives
<1>16. ASSUME NEW e \in Ends, CloseStream(e) PROVE \A d \in Ends : Channel(d)
  BY <1>16, ChannelConsume DEF CloseStream, Arrives
<1>17. ASSUME NEW e \in Ends, TakeCredit(e) PROVE \A d \in Ends : Channel(d)
  BY <1>17 DEF TakeCredit, Channel
<1>18. ASSUME NEW e \in Ends, Park(e) PROVE \A d \in Ends : Channel(d)
  BY <1>18 DEF Park, Channel
<1>19. ASSUME NEW e \in Ends, ReadData(e) PROVE \A d \in Ends : Channel(d)
  <2>1. PICK n \in 1 .. ReadLimit(e) :
          net' = Emitted(e, Msg(e, "data", n, 0, FALSE))
    BY <1>19 DEF ReadData
  <2>2. n \in Nat /\ 0 \in Nat /\ "data" \in Types
    BY <2>1, ConstantsAssumption DEF ReadLimit, TypeOK, Types, ConstantsAssumption
  <2> QED
    BY <2>1, <2>2, ChannelEmit
<1>20. ASSUME NEW e \in Ends, ReadEnd(e) PROVE \A d \in Ends : Channel(d)
  <2>1. e \in Ends /\ "close" \in Types /\ FALSE \in BOOLEAN /\ 0 \in Nat
    BY DEF Ends, Types, TypeOK
  <2>2. readDone'[e] /\ sent' = sent
    BY <1>20 DEF ReadEnd, TypeOK
  <2> QED
    BY <1>20, <2>1, <2>2, ChannelEmit DEF ReadEnd
<1>21. ASSUME NEW e \in Ends, WriterDone(e) PROVE \A d \in Ends : Channel(d)
  BY <1>21 DEF WriterDone, Channel
<1>22. ASSUME NEW e \in Ends, WriterTake(e) PROVE \A d \in Ends : Channel(d)
  BY <1>22 DEF WriterTake, Channel
<1>23. ASSUME NEW e \in Ends, WriteOK(e) PROVE \A d \in Ends : Channel(d)
  <2> DEFINE c == Head(inbox[e])
  <2>1. inbox[e] # << >>
    BY <1>23 DEF WriteOK, ControlInv, EndControl
  <2>2. c.hi - c.lo \in Nat /\ 0 \in Nat /\ "window" \in Types
    BY <2>1, InboxHead, InboxInvHead DEF Chunk, Types
  <2>3. net' = net \/ net' = Emitted(e, Msg(e, "window", 0, c.hi - c.lo, FALSE))
    BY <1>23 DEF WriteOK
  <2> HIDE DEF c
  <2>4. CASE net' = Emitted(e, Msg(e, "window", 0, c.hi - c.lo, FALSE))
    BY <2>2, <2>4, ChannelEmit
  <2> QED
    BY <2>3, <2>4 DEF Channel
<1>24. ASSUME NEW e \in Ends, WriteFail(e) PROVE \A d \in Ends : Channel(d)
  BY <1>24 DEF WriteFail, Channel
<1>25. ASSUME NEW e \in Ends, WriterEOF(e) PROVE \A d \in Ends : Channel(d)
  BY <1>25 DEF WriterEOF, Channel
<1>26. ASSUME NEW e \in Ends, AppReset(e) PROVE \A d \in Ends : Channel(d)
  BY <1>26 DEF AppReset, Channel
<1>27. ASSUME NEW e \in Ends, Stop(e) PROVE \A d \in Ends : Channel(d)
  BY <1>27 DEF Stop, Channel
<1>28. CASE UNCHANGED vars
  BY <1>28 DEF vars, Channel
<1>29. QED
  BY <1>1, <1>2, <1>3, <1>4, <1>5, <1>6, <1>7, <1>8, <1>9, <1>10, <1>11,
     <1>12, <1>13, <1>14, <1>15, <1>16, <1>17, <1>18, <1>19, <1>20, <1>21,
     <1>22, <1>23, <1>24, <1>25, <1>26, <1>27, <1>28
  DEF Next, Setup, Deliver, Reader, Writer

\* A reset is for good, and so is the end of an end's output.
Lasting ==
    \A p \in Ends :
        /\ reset[p] => reset'[p]
        /\ readDone[p] => readDone'[p] /\ sent'[p] = sent[p]

\* Nothing takes either back.
LEMMA LastingStep ==
    ASSUME TypeOK, ControlInv, [Next]_vars
    PROVE  Lasting
<1>t. /\ reset \in [Ends -> BOOLEAN] /\ readDone \in [Ends -> BOOLEAN]
      /\ sent \in [Ends -> Nat] /\ "src" \in Ends /\ "dst" \in Ends
  BY DEF TypeOK, Ends
<1>1. CASE Accept
  BY <1>1, <1>t DEF Accept, Lasting
<1>2. CASE Register
  BY <1>2, <1>t DEF Register, Lasting
<1>3. CASE SendOpen
  BY <1>3, <1>t DEF SendOpen, Lasting
<1>4. CASE SourceReady
  BY <1>4, <1>t DEF SourceReady, Lasting
<1>5. CASE SourceFailed
  BY <1>5, <1>t DEF SourceFailed, Lasting, HardAbort
<1>6. CASE SourceAckTimeout
  BY <1>6, <1>t DEF SourceAckTimeout, Lasting, HardAbort
<1>7. CASE SourceDone
  BY <1>7, <1>t DEF SourceDone, Lasting
<1>8. CASE DialOK
  BY <1>8, <1>t DEF DialOK, Lasting
<1>9. CASE DialFail
  BY <1>9, <1>t DEF DialFail, Lasting
<1>10. CASE OpenDest
  BY <1>10, <1>t DEF OpenDest, Lasting
<1>11. CASE Ack
  BY <1>11, <1>t DEF Ack, Lasting
<1>12. ASSUME NEW e \in Ends, DataIgnored(e) PROVE Lasting
  BY <1>12, <1>t DEF DataIgnored, Lasting
<1>13. ASSUME NEW e \in Ends, DataAccepted(e) PROVE Lasting
  BY <1>13, <1>t DEF DataAccepted, Lasting
<1>14. ASSUME NEW e \in Ends, DataOverflow(e) PROVE Lasting
  BY <1>14, <1>t DEF DataOverflow, Lasting, HardAbort
<1>15. ASSUME NEW e \in Ends, AddCredit(e) PROVE Lasting
  BY <1>15, <1>t DEF AddCredit, Lasting
<1>16. ASSUME NEW e \in Ends, CloseStream(e) PROVE Lasting
  BY <1>16, <1>t DEF CloseStream, Lasting
<1>17. ASSUME NEW e \in Ends, TakeCredit(e) PROVE Lasting
  BY <1>17, <1>t DEF TakeCredit, Lasting
<1>18. ASSUME NEW e \in Ends, Park(e) PROVE Lasting
  BY <1>18, <1>t DEF Park, Lasting
<1>19. ASSUME NEW e \in Ends, ReadData(e) PROVE Lasting
  <2>1. ~readDone[e]
    BY <1>19 DEF ReadData, ControlInv, EndControl
  <2>2. \A d \in Ends : d # e => sent'[d] = sent[d]
    BY <1>19, <1>t DEF ReadData
  <2> QED
    BY <1>19, <2>1, <2>2 DEF ReadData, Lasting
<1>20. ASSUME NEW e \in Ends, ReadEnd(e) PROVE Lasting
  BY <1>20, <1>t DEF ReadEnd, Lasting, FinishIf
<1>21. ASSUME NEW e \in Ends, WriterDone(e) PROVE Lasting
  BY <1>21, <1>t DEF WriterDone, Lasting
<1>22. ASSUME NEW e \in Ends, WriterTake(e) PROVE Lasting
  BY <1>22, <1>t DEF WriterTake, Lasting
<1>23. ASSUME NEW e \in Ends, WriteOK(e) PROVE Lasting
  BY <1>23, <1>t DEF WriteOK, Lasting
<1>24. ASSUME NEW e \in Ends, WriteFail(e) PROVE Lasting
  BY <1>24, <1>t DEF WriteFail, Lasting, HardAbort
<1>25. ASSUME NEW e \in Ends, WriterEOF(e) PROVE Lasting
  BY <1>25, <1>t DEF WriterEOF, Lasting, FinishIf
<1>26. ASSUME NEW e \in Ends, AppReset(e) PROVE Lasting
  BY <1>26, <1>t DEF AppReset, Lasting
<1>27. ASSUME NEW e \in Ends, Stop(e) PROVE Lasting
  BY <1>27, <1>t DEF Stop, Lasting, HardAbort
<1>28. CASE UNCHANGED vars
  BY <1>28 DEF vars, Lasting
<1>29. QED
  BY <1>1, <1>2, <1>3, <1>4, <1>5, <1>6, <1>7, <1>8, <1>9, <1>10, <1>11,
     <1>12, <1>13, <1>14, <1>15, <1>16, <1>17, <1>18, <1>19, <1>20, <1>21,
     <1>22, <1>23, <1>24, <1>25, <1>26, <1>27, <1>28
  DEF Next, Setup, Deliver, Reader, Writer

\* The tunnel_close of an end that was not reset stays behind its last byte ...
LEMMA ClosesLast ==
    ASSUME TypeOK, TypeOK', NEW d \in Ends, NEW p \in Ends, CloseIsLast(d),
           p = Peer(d), Channel(d), Lasting, ~reset'[p]
    PROVE  \A i \in 1 .. Len(net'[d]) :
             net'[d][i].type = "close" => readDone'[p] /\ net'[d][i].lo = sent'[p]
<1> DEFINE s == net[d]
<1>1. \A i \in 1 .. Len(s) : s[i].type = "close" => readDone'[p] /\ s[i].lo = sent'[p]
  BY DEF CloseIsLast, Lasting
<1>2. CASE net'[d] = s
  BY <1>1, <1>2
<1>3. CASE s # << >> /\ net'[d] = Tail(s)
  <2>1. /\ Len(s) \in Nat \ {0} /\ Len(Tail(s)) = Len(s) - 1
        /\ \A i \in 1 .. Len(Tail(s)) : Tail(s)[i] = s[i+1]
    BY <1>3, NetHead
  <2>2. \A i \in 1 .. Len(Tail(s)) : i + 1 \in 1 .. Len(s)
    BY <2>1
  <2> QED
    BY <1>1, <1>3, <2>1, <2>2
<1>4. ASSUME NEW m \in Message, net'[d] = Append(s, m), Says(m, p)
      PROVE  \A i \in 1 .. Len(net'[d]) :
               net'[d][i].type = "close" => readDone'[p] /\ net'[d][i].lo = sent'[p]
  <2> DEFINE t == Append(s, m)
  <2>1. /\ Len(s) \in Nat /\ Len(t) = Len(s) + 1 /\ t[Len(s) + 1] = m
        /\ \A i \in 1 .. Len(s) : t[i] = s[i]
    BY NetAppend
  <2>2. \A i \in 1 .. Len(t) : (i \in 1 .. Len(s) /\ t[i] = s[i]) \/ t[i] = m
    BY <2>1
  <2>3. m.type = "close" => readDone'[p] /\ m.lo = sent'[p]
    BY <1>4 DEF Says
  <2> HIDE DEF t
  <2>4. net'[d] = t
    BY <1>4 DEF t
  <2> QED
    BY <1>1, <2>2, <2>3, <2>4
<1> QED
  BY <1>2, <1>3, <1>4 DEF Channel

\* ... a closed inbox takes no more ...
LEMMA ClosedInbox ==
    ASSUME TypeOK, TypeOK', ControlInv, NetInv, InboxInv, [Next]_vars, NEW d \in Ends
    PROVE  /\ inboxClosed[d] => Accepted(d)' = Accepted(d)
           /\ wpc[d] # "write" => delivered'[d] = delivered[d]
<1>1. ASSUME NEW e \in Ends, DataAccepted(e)
      PROVE  /\ inboxClosed[d] => Accepted(d)' = Accepted(d)
             /\ wpc[d] # "write" => delivered'[d] = delivered[d]
  <2>1. ~inboxClosed[e] /\ delivered' = delivered
    BY <1>1 DEF DataAccepted, Listens
  <2>2. d # e => inbox'[d] = inbox[d]
    BY <1>1 DEF DataAccepted, TypeOK
  <2> QED
    BY <2>1, <2>2 DEF Accepted
<1>2. ASSUME NEW e \in Ends, WriteOK(e)
      PROVE  /\ inboxClosed[d] => Accepted(d)' = Accepted(d)
             /\ wpc[d] # "write" => delivered'[d] = delivered[d]
  <2>1. /\ wpc[e] = "write" /\ inbox[e] # << >> /\ Chunks(e)
        /\ inbox'[e] = Tail(inbox[e])
        /\ delivered'[e] = delivered[e] + (Head(inbox[e]).hi - Head(inbox[e]).lo)
    BY <1>2 DEF WriteOK, ControlInv, EndControl, InboxInv, TypeOK
  <2>2. Accepted(e)' = Accepted(e)
    BY <2>1, ChunksTail
  <2>3. d # e => inbox'[d] = inbox[d] /\ delivered'[d] = delivered[d]
    BY <1>2 DEF WriteOK, TypeOK
  <2> QED
    BY <2>1, <2>2, <2>3 DEF Accepted
<1>3. CASE inbox' = inbox /\ delivered' = delivered
  BY <1>3 DEF Accepted
<1>4. CASE \A e \in Ends : ~(DataIgnored(e) \/ DataAccepted(e)
                             \/ DataOverflow(e) \/ WriteOK(e))
  <2>1. CASE Register \/ OpenDest
    BY <1>3, <2>1 DEF Register, OpenDest
  <2>2. CASE ~(Register \/ OpenDest)
    BY <1>3, <1>4, <2>2, HushedStep DEF Hushed
  <2> QED
    BY <2>1, <2>2
<1>5. ASSUME NEW e \in Ends, DataIgnored(e) \/ DataOverflow(e)
      PROVE  inbox' = inbox /\ delivered' = delivered
  BY <1>5 DEF DataIgnored, DataOverflow
<1> QED
  BY <1>1, <1>2, <1>3, <1>4, <1>5

\* ... and only tunnel_close closes it, only the drained writer ends the output.
Flags == inboxClosed' = inboxClosed /\ writeDone' = writeDone

\* Every other step leaves both flags alone.
LEMMA FlagsStep ==
    ASSUME \A e \in Ends : ~(CloseStream(e) \/ WriterEOF(e)), [Next]_vars
    PROVE  Flags
<1>1. CASE Accept
  BY <1>1 DEF Accept, Flags
<1>2. CASE Register
  BY <1>2 DEF Register, Flags
<1>3. CASE SendOpen
  BY <1>3 DEF SendOpen, Flags
<1>4. CASE SourceReady
  BY <1>4 DEF SourceReady, Flags
<1>5. CASE SourceFailed
  BY <1>5 DEF SourceFailed, Flags
<1>6. CASE SourceAckTimeout
  BY <1>6 DEF SourceAckTimeout, Flags
<1>7. CASE SourceDone
  BY <1>7 DEF SourceDone, Flags
<1>8. CASE DialOK
  BY <1>8 DEF DialOK, Flags
<1>9. CASE DialFail
  BY <1>9 DEF DialFail, Flags
<1>10. CASE OpenDest
  BY <1>10 DEF OpenDest, Flags
<1>11. CASE Ack
  BY <1>11 DEF Ack, Flags
<1>12. ASSUME NEW e \in Ends, DataIgnored(e) PROVE Flags
  BY <1>12 DEF DataIgnored, Flags
<1>13. ASSUME NEW e \in Ends, DataAccepted(e) PROVE Flags
  BY <1>13 DEF DataAccepted, Flags
<1>14. ASSUME NEW e \in Ends, DataOverflow(e) PROVE Flags
  BY <1>14 DEF DataOverflow, Flags
<1>15. ASSUME NEW e \in Ends, AddCredit(e) PROVE Flags
  BY <1>15 DEF AddCredit, Flags
<1>16. ASSUME NEW e \in Ends, CloseStream(e) PROVE Flags
  BY <1>16
<1>17. ASSUME NEW e \in Ends, TakeCredit(e) PROVE Flags
  BY <1>17 DEF TakeCredit, Flags
<1>18. ASSUME NEW e \in Ends, Park(e) PROVE Flags
  BY <1>18 DEF Park, Flags
<1>19. ASSUME NEW e \in Ends, ReadData(e) PROVE Flags
  BY <1>19 DEF ReadData, Flags
<1>20. ASSUME NEW e \in Ends, ReadEnd(e) PROVE Flags
  BY <1>20 DEF ReadEnd, Flags
<1>21. ASSUME NEW e \in Ends, WriterDone(e) PROVE Flags
  BY <1>21 DEF WriterDone, Flags
<1>22. ASSUME NEW e \in Ends, WriterTake(e) PROVE Flags
  BY <1>22 DEF WriterTake, Flags
<1>23. ASSUME NEW e \in Ends, WriteOK(e) PROVE Flags
  BY <1>23 DEF WriteOK, Flags
<1>24. ASSUME NEW e \in Ends, WriteFail(e) PROVE Flags
  BY <1>24 DEF WriteFail, Flags
<1>25. ASSUME NEW e \in Ends, WriterEOF(e) PROVE Flags
  BY <1>25
<1>26. ASSUME NEW e \in Ends, AppReset(e) PROVE Flags
  BY <1>26 DEF AppReset, Flags
<1>27. ASSUME NEW e \in Ends, Stop(e) PROVE Flags
  BY <1>27 DEF Stop, Flags
<1>28. CASE UNCHANGED vars
  BY <1>28 DEF vars, Flags
<1>29. QED
  BY <1>1, <1>2, <1>3, <1>4, <1>5, <1>6, <1>7, <1>8, <1>9, <1>10, <1>11,
     <1>12, <1>13, <1>14, <1>15, <1>16, <1>17, <1>18, <1>19, <1>20, <1>21,
     <1>22, <1>23, <1>24, <1>25, <1>26, <1>27, <1>28
  DEF Next, Setup, Deliver, Reader, Writer

\* A clean end of an end's output reaches the peer's application after the last byte.
LEMMA CloseStep ==
    ASSUME TypeOK, TypeOK', ControlInv, NetInv, InboxInv, CloseInv, [Next]_vars
    PROVE  CloseInv'
<1> SUFFICES ASSUME NEW d \in Ends, ~reset'[Peer(d)]
             PROVE  /\ \A i \in 1 .. Len(net'[d]) :
                         net'[d][i].type = "close" =>
                             readDone'[Peer(d)] /\ net'[d][i].lo = sent'[Peer(d)]
                    /\ inboxClosed'[d] => readDone'[Peer(d)] /\ Accepted(d)' = sent'[Peer(d)]
                    /\ writeDone'[d] => readDone'[Peer(d)] /\ delivered'[d] = sent'[Peer(d)]
  BY DEF CloseInv, CloseIsLast
<1> DEFINE p == Peer(d)
<1>1. Lasting /\ Channel(d) /\ p \in Ends /\ CloseIsLast(d)
  BY LastingStep, ChannelStep, PeerOfEnd DEF CloseInv
<1>2. /\ ~reset[p]
      /\ readDone[p] => readDone'[p] /\ sent'[p] = sent[p]
  BY <1>1 DEF Lasting
<1>3. \A i \in 1 .. Len(net'[d]) :
         net'[d][i].type = "close" => readDone'[p] /\ net'[d][i].lo = sent'[p]
  BY <1>1, ClosesLast
<1>4. /\ inboxClosed[d] => Accepted(d)' = Accepted(d)
      /\ writeDone[d] => delivered'[d] = delivered[d]
  BY ClosedInbox DEF ControlInv, EndControl
<1>5. inboxClosed[d] => readDone'[p] /\ Accepted(d)' = sent'[p]
  BY <1>1, <1>2, <1>4 DEF CloseIsLast
<1>6. writeDone[d] => readDone'[p] /\ delivered'[d] = sent'[p]
  BY <1>1, <1>2, <1>4 DEF CloseIsLast
<1>7. ASSUME NEW e \in Ends, CloseStream(e)
      PROVE  /\ inboxClosed'[d] => readDone'[p] /\ Accepted(d)' = sent'[p]
             /\ writeDone'[d] => readDone'[p] /\ delivered'[d] = sent'[p]
  <2>1. writeDone' = writeDone /\ inbox' = inbox /\ delivered' = delivered
    BY <1>7 DEF CloseStream
  <2>2. CASE inboxClosed'[d] = inboxClosed[d]
    BY <1>5, <1>6, <2>1, <2>2
  <2>3. CASE inboxClosed'[d] # inboxClosed[d]
    <3>1. d = e /\ Listens(d) /\ net[d] # << >> /\ Head(net[d]).type = "close"
      BY <1>7, <2>3 DEF CloseStream, Arrives, Listens, TypeOK
    <3>2. Head(net[d]) = net[d][1] /\ 1 \in 1 .. Len(net[d])
      BY <3>1, NetHead
    <3>3. readDone[p] /\ Head(net[d]).lo = sent[p]
      BY <1>1, <1>2, <3>1, <3>2 DEF CloseIsLast
    <3>4. Accepted(d) = sent[p]
      BY <3>1, <3>3 DEF InboxInv, UpToDate, Arrived
    <3>5. Accepted(d)' = Accepted(d)
      BY <2>1 DEF Accepted
    <3> QED
      BY <1>2, <1>6, <2>1, <3>3, <3>4, <3>5
  <2> QED
    BY <2>2, <2>3
<1>8. ASSUME NEW e \in Ends, WriterEOF(e)
      PROVE  /\ inboxClosed'[d] => readDone'[p] /\ Accepted(d)' = sent'[p]
             /\ writeDone'[d] => readDone'[p] /\ delivered'[d] = sent'[p]
  <2>1. inboxClosed' = inboxClosed /\ delivered' = delivered
    BY <1>8 DEF WriterEOF
  <2>2. writeDone'[d] = writeDone[d] \/ (inboxClosed[d] /\ inbox[d] = << >>)
    BY <1>8, ZenonT(40) DEF WriterEOF, Drained, TypeOK
  <2>3. CASE inboxClosed[d] /\ inbox[d] = << >>
    <3>1. delivered[d] = sent[p] /\ readDone[p]
      BY <1>1, <1>2, <2>3 DEF CloseIsLast, Accepted
    <3> QED
      BY <1>2, <1>5, <2>1, <3>1
  <2> QED
    BY <1>5, <1>6, <2>1, <2>2, <2>3
<1>9. CASE \A e \in Ends : ~(CloseStream(e) \/ WriterEOF(e))
  <2>1. Flags
    BY <1>9, FlagsStep
  <2> QED
    BY <1>3, <1>5, <1>6, <2>1 DEF Flags
<1> QED
  BY <1>3, <1>7, <1>8, <1>9

\* An end that has come to its end has closed its connection, unless it was stopped.
LEMMA ConnStep ==
    ASSUME TypeOK, ControlInv, HandshakeInv, NetInv, ConnInv, [Next]_vars
    PROVE  ConnInv'
<1>t. /\ pc \in [Ends -> PCs] /\ wpc \in [Ends -> {"off", "run", "write", "exit"}]
      /\ conn \in [Ends -> {"none", "open", "closed"}]
      /\ done \in [Ends -> BOOLEAN] /\ stopped \in [Ends -> BOOLEAN]
      /\ readDone \in [Ends -> BOOLEAN] /\ writeDone \in [Ends -> BOOLEAN]
      /\ registered \in [Ends -> BOOLEAN] /\ Ends = {"src", "dst"}
      /\ pc["src"] # "dialing"
  BY DEF TypeOK, Ends, ControlInv
<1>c. \A d \in Ends :
        /\ pc[d] \in {"idle", "accepted"} => ~registered[d] /\ ~done[d]
        /\ done[d] => ~registered[d]
        /\ readDone[d] => pc[d] = "exit" /\ wpc[d] # "off"
        /\ pc[d] \in Relaying => wpc[d] # "off"
        /\ wpc[d] = "off" /\ pc[d] = "exit" => ~registered[d]
        /\ wpc[d] # "off" => pc[d] \in Relaying \cup {"exit"}
  BY DEF ControlInv, EndControl
<1> USE DEF ConnInv, ConnClosed, Relaying
<1>1. CASE Accept
  BY <1>1, <1>t, <1>c DEF Accept
<1>2. CASE Register
  BY <1>2, <1>t, <1>c DEF Register
<1>3. CASE SendOpen
  BY <1>3, <1>t, <1>c DEF SendOpen
<1>4. CASE SourceReady
  BY <1>4, <1>t, <1>c DEF SourceReady, StartRelay
<1>5. CASE SourceFailed
  BY <1>5, <1>t, <1>c DEF SourceFailed, HardAbort, Abort
<1>6. CASE SourceAckTimeout
  BY <1>6, <1>t, <1>c DEF SourceAckTimeout, HardAbort, Abort
<1>7. CASE SourceDone
  BY <1>7, <1>t, <1>c DEF SourceDone
<1>8. CASE DialOK
  BY <1>8, <1>t, <1>c DEF DialOK, StartRelay
<1>9. CASE DialFail
  BY <1>9, <1>t, <1>c DEF DialFail
<1>10. CASE OpenDest
  <2>1. pc["dst"] = "idle"
    BY <1>10, OpenArrives DEF OpenDest, HandshakeInv
  <2> QED
    BY <1>10, <1>t, <1>c, <2>1 DEF OpenDest
<1>11. CASE Ack
  BY <1>11, <1>t, <1>c DEF Ack
<1>12. ASSUME NEW e \in Ends, DataIgnored(e) PROVE ConnInv'
  BY <1>12, <1>t, <1>c DEF DataIgnored
<1>13. ASSUME NEW e \in Ends, DataAccepted(e) PROVE ConnInv'
  BY <1>13, <1>t, <1>c DEF DataAccepted
<1>14. ASSUME NEW e \in Ends, DataOverflow(e) PROVE ConnInv'
  <2>1. pc[e] # "dialing"
    <3>1. SUFFICES ASSUME pc[e] = "dialing" PROVE FALSE
      OBVIOUS
    <3>2. e = "dst" /\ Peer("dst") = "src" /\ "src" \in Ends
      BY <1>t, <3>1 DEF Peer
    <3>3. sent["src"] = 0
      BY <3>1, <3>2 DEF HandshakeInv, RoleInv, ControlInv, EndControl
    <3>4. net["dst"] # << >> /\ Head(net["dst"]).type = "data"
      BY <1>14, <3>2 DEF DataOverflow, Arrives
    <3>5. Head(net["dst"]) \in Message /\ Head(net["dst"]).lo < Head(net["dst"]).hi
          /\ Head(net["dst"]).hi <= 0
      BY <3>2, <3>3, <3>4, NetHead, NetInvHead
    <3> QED
      BY <3>5 DEF Message
  <2>2. pc[e] # "idle" /\ ~done[e]
    BY <1>14, <1>c DEF DataOverflow, Listens
  <2> QED
    BY <1>14, <1>t, <1>c, <2>1, <2>2 DEF DataOverflow, HardAbort, Abort, Woken
<1>15. ASSUME NEW e \in Ends, AddCredit(e) PROVE ConnInv'
  BY <1>15, <1>t, <1>c DEF AddCredit, Woken
<1>16. ASSUME NEW e \in Ends, CloseStream(e) PROVE ConnInv'
  BY <1>16, <1>t, <1>c DEF CloseStream
<1>17. ASSUME NEW e \in Ends, TakeCredit(e) PROVE ConnInv'
  BY <1>17, <1>t, <1>c DEF TakeCredit
<1>18. ASSUME NEW e \in Ends, Park(e) PROVE ConnInv'
  BY <1>18, <1>t, <1>c DEF Park
<1>19. ASSUME NEW e \in Ends, ReadData(e) PROVE ConnInv'
  BY <1>19, <1>t, <1>c DEF ReadData
<1>20. ASSUME NEW e \in Ends, ReadEnd(e) PROVE ConnInv'
  BY <1>20, <1>t, <1>c DEF ReadEnd, FinishIf, Abort
<1>21. ASSUME NEW e \in Ends, WriterDone(e) PROVE ConnInv'
  BY <1>21, <1>t, <1>c DEF WriterDone
<1>22. ASSUME NEW e \in Ends, WriterTake(e) PROVE ConnInv'
  BY <1>22, <1>t, <1>c DEF WriterTake
<1>23. ASSUME NEW e \in Ends, WriteOK(e) PROVE ConnInv'
  BY <1>23, <1>t, <1>c DEF WriteOK
<1>24. ASSUME NEW e \in Ends, WriteFail(e) PROVE ConnInv'
  BY <1>24, <1>t, <1>c DEF WriteFail, HardAbort, Abort, Woken
<1>25. ASSUME NEW e \in Ends, WriterEOF(e) PROVE ConnInv'
  BY <1>25, <1>t, <1>c DEF WriterEOF, FinishIf, Abort
<1>26. ASSUME NEW e \in Ends, AppReset(e) PROVE ConnInv'
  BY <1>26, <1>t, <1>c DEF AppReset
<1>27. ASSUME NEW e \in Ends, Stop(e) PROVE ConnInv'
  BY <1>27, <1>t, <1>c DEF Stop, HardAbort, Abort, Woken
<1>28. CASE UNCHANGED vars
  BY <1>t, <1>c, <1>28 DEF vars
<1>29. QED
  BY <1>1, <1>2, <1>3, <1>4, <1>5, <1>6, <1>7, <1>8, <1>9, <1>10, <1>11,
     <1>12, <1>13, <1>14, <1>15, <1>16, <1>17, <1>18, <1>19, <1>20, <1>21,
     <1>22, <1>23, <1>24, <1>25, <1>26, <1>27, <1>28
  DEF Next, Setup, Deliver, Reader, Writer

-----------------------------------------------------------------------------
(* The invariant, and the safety properties it implies.                    *)

\* Initially nothing is under way.
LEMMA InitInv == Init => IInv
<1> SUFFICES ASSUME Init PROVE IInv
  OBVIOUS
<1> USE ConstantsAssumption DEF Init
<1>1. TypeOK
  BY DEF TypeOK, PCs, ConstantsAssumption
<1>2. \A e \in Ends : net[e] = << >> /\ inbox[e] = << >> /\ Len(net[e]) = 0 /\ Len(inbox[e]) = 0
  OBVIOUS
<1>3. ControlInv
  BY <1>2 DEF ControlInv, EndControl, Ends, Relaying
<1>4. HandshakeInv
  BY <1>2 DEF HandshakeInv, OpenInv, AckInv, RoleInv, Ends
<1>5. NetInv
  BY <1>2 DEF NetInv, Pieces
<1>6. \A e \in Ends : Peer(e) \in Ends
  BY PeerOfEnd
<1>7. \A e \in Ends : Arrived(e) = 0 /\ Granted(e) = 0 /\ Accepted(e) = 0 /\ ~Listens(e)
  BY <1>2, <1>6 DEF Arrived, Granted, Accepted, Listens
<1>8. InboxInv
  BY <1>2, <1>7 DEF InboxInv, Chunks, UpToDate
<1>9. CloseInv
  BY <1>2 DEF CloseInv, CloseIsLast
<1>10. CreditInv
  BY <1>7 DEF CreditInv, Window, ConstantsAssumption
<1>11. ConnInv
  BY DEF ConnInv, ConnClosed
<1> QED
  BY <1>1, <1>3, <1>4, <1>5, <1>8, <1>9, <1>10, <1>11 DEF IInv

\* Every step of any goroutine of either end preserves the invariant.
LEMMA NextInv == IInv /\ [Next]_vars => IInv'
<1> SUFFICES ASSUME IInv, [Next]_vars PROVE IInv'
  OBVIOUS
<1>1. /\ TypeOK /\ ControlInv /\ HandshakeInv /\ NetInv
      /\ InboxInv /\ CloseInv /\ CreditInv /\ ConnInv
  BY DEF IInv
<1>2. TypeOK'
  BY <1>1, TypeStep
<1>3. ControlInv'
  BY <1>1, ControlStep
<1>4. HandshakeInv'
  BY <1>1, OpenStep, AckStep, RoleStep DEF HandshakeInv
<1>5. NetInv'
  BY <1>1, <1>2, NetStep
<1>6. InboxInv'
  BY <1>1, <1>2, InboxStep
<1>7. CloseInv'
  BY <1>1, <1>2, CloseStep
<1>8. CreditInv'
  BY <1>1, <1>2, CreditStep
<1>9. ConnInv'
  BY <1>1, ConnStep
<1> QED
  BY <1>2, <1>3, <1>4, <1>5, <1>6, <1>7, <1>8, <1>9 DEF IInv

\* The invariant behind everything below: the credits, the channels, the inbox and
\* the endings of both relays fit together in every reachable state.
THEOREM Invariance == Spec => []IInv
<1>1. Init => IInv
  BY InitInv
<1>2. IInv /\ [Next]_vars => IInv'
  BY NextInv
<1> QED
  BY <1>1, <1>2, PTL DEF Spec

\* What has been dispatched and granted lies within what was sent and delivered.
LEMMA PositionsBounded ==
    ASSUME TypeOK, NetInv, NEW d \in Ends
    PROVE  /\ Arrived(d) \in Nat /\ Arrived(d) <= sent[Peer(d)]
           /\ Granted(d) \in Nat /\ Granted(d) <= delivered[Peer(d)]
           /\ sent[Peer(d)] \in Nat /\ delivered[Peer(d)] \in Nat
<1>1. sent[Peer(d)] \in Nat /\ delivered[Peer(d)] \in Nat
  BY PeerOfEnd DEF TypeOK
<1>2. CASE net[d] # << >>
  <2>1. /\ Head(net[d]).lo <= Head(net[d]).hi /\ Head(net[d]).hi <= sent[Peer(d)]
        /\ Head(net[d]).glo <= Head(net[d]).ghi /\ Head(net[d]).ghi <= delivered[Peer(d)]
    BY <1>2, NetInvHead
  <2>2. /\ Head(net[d]).lo \in Nat /\ Head(net[d]).hi \in Nat
        /\ Head(net[d]).glo \in Nat /\ Head(net[d]).ghi \in Nat
    BY <1>2, NetHead DEF Message
  <2> QED
    BY <1>1, <1>2, <2>1, <2>2 DEF Arrived, Granted
<1>3. CASE net[d] = << >>
  BY <1>1, <1>3 DEF Arrived, Granted
<1> QED
  BY <1>2, <1>3

\* Every chunk of the inbox holds at least a byte.
LEMMA InboxSpan ==
    ASSUME TypeOK, InboxInv, NEW e \in Ends, inbox[e] # << >>
    PROVE  /\ Accepted(e) >= delivered[e] + Len(inbox[e])
           /\ Head(inbox[e]).lo = delivered[e] /\ Head(inbox[e]).hi <= Accepted(e)
           /\ Accepted(e) \in Nat /\ delivered[e] \in Nat /\ Len(inbox[e]) \in Nat \ {0}
<1> DEFINE s == inbox[e]
           n == Len(s)
<1>1. /\ n \in Nat \ {0} /\ Head(s) = s[1] /\ 1 \in 1 .. n /\ n \in 1 .. n
      /\ \A i \in 1 .. n : s[i] \in Chunk
  BY InboxHead
<1>2. \A i \in 1 .. n : s[i].lo \in Nat /\ s[i].hi \in Nat
  BY <1>1 DEF Chunk
<1>3. Chunks(e) /\ Accepted(e) = s[n].hi /\ delivered[e] \in Nat /\ Accepted(e) \in Nat
  BY AcceptedTyped DEF InboxInv
<1>4. s[1].lo = delivered[e] /\ s[n].lo >= s[1].lo + (n - 1) /\ s[n].lo < s[n].hi
  BY <1>1, <1>3 DEF Chunks
<1>5. s[1].hi <= s[n].hi
  <2>0. \A k \in Nat \ {0} : k = 1 \/ k > 1
    OBVIOUS
  <2>1. CASE n = 1
    BY <1>1, <1>2, <2>1
  <2>2. CASE n > 1
    <3>0. n \in Nat \ {0}
      BY <1>1
    <3>1. 1 \in 1 .. n - 1 /\ 2 \in 1 .. n /\ 2 <= n
      BY <2>2, <3>0
    <3>2. s[1].hi = s[1+1].lo /\ s[n].lo >= s[2].lo + (n - 2)
      BY <1>1, <1>3, <3>1 DEF Chunks
    <3>3. s[1].hi \in Nat /\ s[n].lo \in Nat /\ s[n].hi \in Nat /\ s[2].lo \in Nat
      BY <1>1, <1>2, <3>1
    <3> QED
      BY <1>1, <1>4, <3>1, <3>2, <3>3
  <2>3. n = 1 \/ n > 1
    BY <1>1, <2>0
  <2> QED
    BY <2>1, <2>2, <2>3
<1>6. s[1].lo \in Nat /\ s[n].lo \in Nat /\ s[n].hi \in Nat
  BY <1>1, <1>2
<1> HIDE DEF s, n
<1>7. Accepted(e) >= delivered[e] + n
  BY <1>1, <1>3, <1>4, <1>6
<1> QED
  BY <1>1, <1>3, <1>4, <1>5, <1>7 DEF s, n

\* Every variable keeps its type; the credit never goes below zero.
THEOREM TypeCorrect == Spec => []TypeOK
<1>1. IInv => TypeOK
  BY DEF IInv
<1> QED
  BY <1>1, Invariance, PTL

\* Backpressure, for every window and buffer size: an end with flow control never
\* has more than windowSize bytes reserved, under way or undelivered.
THEOREM Backpressure == Spec => []WindowRespected
<1>1. IInv => WindowRespected
  <2> SUFFICES ASSUME IInv, NEW e \in Ends, fc[e]
               PROVE  credit[e] + budget[e] + (delivered[Peer(e)] - Granted(e))
                        + (sent[e] - delivered[Peer(e)]) <= WindowSize
    BY DEF WindowRespected
  <2>1. /\ Granted(e) \in Nat /\ delivered[Peer(e)] \in Nat /\ sent[e] \in Nat
        /\ credit[e] \in Nat /\ budget[e] \in Nat /\ WindowSize \in Nat
    BY PositionsBounded, ConstantsAssumption DEF IInv, TypeOK, ConstantsAssumption
  <2>2. credit[e] + budget[e] + sent[e] <= WindowSize + Granted(e)
    BY DEF IInv, CreditInv, Window
  <2> QED
    BY <2>1, <2>2
<1> QED
  BY <1>1, Invariance, PTL

\* No byte is lost, repeated or reordered between the two connections, whatever
\* is aborted, reset or overflows meanwhile.
THEOREM NoLossOrReordering == Spec => []BytesInOrder
<1>1. IInv => BytesInOrder
  <2> SUFFICES ASSUME IInv, NEW e \in Ends, inbox[e] # << >>
               PROVE  /\ Head(inbox[e]).lo = delivered[e]
                      /\ Head(inbox[e]).hi <= sent[Peer(e)]
    BY DEF BytesInOrder
  <2>1. /\ Head(inbox[e]).lo = delivered[e] /\ Head(inbox[e]).hi <= Accepted(e)
        /\ Accepted(e) \in Nat
    BY InboxSpan DEF IInv
  <2>2. Accepted(e) <= Arrived(e) /\ Arrived(e) <= sent[Peer(e)]
        /\ Arrived(e) \in Nat /\ sent[Peer(e)] \in Nat
    BY PositionsBounded DEF IInv, InboxInv, UpToDate
  <2>3. Head(inbox[e]).hi \in Nat
    BY InboxHead DEF IInv, Chunk
  <2> QED
    BY <2>1, <2>2, <2>3
<1> QED
  BY <1>1, Invariance, PTL

\* An application that sees the end of the stream has seen all of it, unless the
\* other end was reset.
THEOREM CleanEndIsComplete == Spec => []NoTruncation
<1>1. IInv => NoTruncation
  BY DEF IInv, CloseInv, CloseIsLast, NoTruncation
<1> QED
  BY <1>1, Invariance, PTL

\* When all goroutines of an end have ended, so has its connection.
THEOREM ConnectionsEnd == Spec => []NoOrphanConn
<1>1. IInv => NoOrphanConn
  BY DEF IInv, ConnInv, ConnClosed, ControlInv, EndControl, NoOrphanConn
<1> QED
  BY <1>1, Invariance, PTL

\* An inbox with as many slots as the window has bytes never overflows; with fewer
\* (the code has 2048 for 262144 bytes) nothing of the kind follows.
THEOREM RoomForTheWindow ==
    ASSUME InboxBuffer >= WindowSize
    PROVE  Spec => []InboxHasRoom
<1>1. IInv => InboxHasRoom
  <2> SUFFICES ASSUME IInv, NEW e \in Ends, fc[Peer(e)], Arrives(e, "data"), Listens(e)
               PROVE  Occupancy(e) < InboxBuffer
    BY DEF InboxHasRoom
  <2> DEFINE p == Peer(e)
  <2>1. p \in Ends /\ Peer(p) = e
    BY PeerOfEnd
  <2>2. TypeOK /\ NetInv /\ InboxInv /\ CreditInv
    BY DEF IInv
  <2>3. /\ WindowSize \in Nat /\ InboxBuffer \in Nat \ {0}
        /\ credit[p] \in Nat /\ budget[p] \in Nat /\ sent[p] \in Nat
    BY <2>1, <2>2, ConstantsAssumption DEF TypeOK, ConstantsAssumption
  <2>4. Granted(p) \in Nat /\ Granted(p) <= delivered[e] /\ delivered[e] \in Nat
    BY <2>1, <2>2, PositionsBounded
  <2>5. credit[p] + budget[p] + sent[p] <= WindowSize + Granted(p)
    BY <2>1, <2>2 DEF CreditInv, Window
  <2>6. sent[p] <= delivered[e] + WindowSize
    BY <2>3, <2>4, <2>5
  <2>7. net[e] # << >> /\ Head(net[e]).type = "data"
    BY DEF Arrives
  <2>8. Head(net[e]).lo < Head(net[e]).hi /\ Head(net[e]).hi <= sent[p]
        /\ Head(net[e]).lo \in Nat /\ Head(net[e]).hi \in Nat
    BY <2>2, <2>7, NetHead, NetInvHead DEF Message
  <2>9. Accepted(e) = Head(net[e]).lo
    BY <2>2, <2>7 DEF InboxInv, UpToDate, Arrived
  <2>10. CASE inbox[e] = << >>
    <3>1. Len(inbox[e]) = 0
      BY <2>10
    <3> QED
      BY <2>3, <3>1 DEF Occupancy
  <2>11. CASE inbox[e] # << >>
    <3>1. Accepted(e) >= delivered[e] + Len(inbox[e]) /\ Len(inbox[e]) \in Nat \ {0}
      BY <2>2, <2>11, InboxSpan
    <3>2. Len(inbox[e]) < WindowSize
      BY <2>3, <2>4, <2>6, <2>8, <2>9, <3>1, SMTT(30)
    <3> QED
      BY <2>3, <3>1, <3>2 DEF Occupancy
  <2> QED
    BY <2>10, <2>11
<1> QED
  BY <1>1, Invariance, PTL

-----------------------------------------------------------------------------
(* Each direction is a FlowPipe.                                           *)

\* If the backend always keeps the flag, whoever relays does so with credits.
LEMMA KeepsFC ==
    ASSUME TypeOK, HandshakeInv, ControlInv, NEW e \in Ends, wpc[e] # "off",
           FALSE \notin BackendKeepsFC
    PROVE  fc[e]
<1>1. \A b \in BackendKeepsFC : b = TRUE
  BY ConstantsAssumption DEF ConstantsAssumption
<1>2. CASE e = "dst"
  BY <1>1, <1>2 DEF HandshakeInv, RoleInv, ControlInv, EndControl, Relaying
<1>3. CASE e = "src"
  BY <1>1, <1>3 DEF HandshakeInv, RoleInv
<1> QED
  BY <1>2, <1>3 DEF Ends

\* PositionsBounded after a step.
LEMMA PositionsBoundedNext ==
    ASSUME TypeOK', NetInv', NEW d \in Ends
    PROVE  Granted(d)' \in Nat /\ Granted(d)' <= delivered'[Peer(d)]
<1>1. sent'[Peer(d)] \in Nat /\ delivered'[Peer(d)] \in Nat
  BY PeerOfEnd DEF TypeOK
<1>2. CASE net'[d] # << >>
  <2>1. net'[d] \in Seq(Message)
    BY DEF TypeOK
  <2>2. Head(net'[d]) \in Message /\ Head(net'[d]) = net'[d][1] /\ 1 \in 1 .. Len(net'[d])
    BY <1>2, <2>1, SeqHead
  <2>3. Head(net'[d]).glo <= Head(net'[d]).ghi /\ Head(net'[d]).ghi <= delivered'[Peer(d)]
    BY <2>2 DEF NetInv, Pieces, Piece
  <2>4. Head(net'[d]).glo \in Nat /\ Head(net'[d]).ghi \in Nat
    BY <2>2 DEF Message
  <2> QED
    BY <1>1, <1>2, <2>3, <2>4 DEF Granted
<1>3. CASE net'[d] = << >>
  BY <1>1, <1>3 DEF Granted
<1> QED
  BY <1>2, <1>3

\* A step of the pipe from p to its peer, or none.
Piped(p) ==
    \/ UNCHANGED <<sent[p], delivered[Peer(p)], readDone[p], writeDone[Peer(p)], reset[p]>>
    \/ /\ ~readDone[p]
       /\ sent'[p] \in Nat /\ sent'[p] > sent[p]
       /\ FALSE \notin BackendKeepsFC => sent'[p] <= delivered[Peer(p)] + WindowSize
       /\ UNCHANGED <<delivered[Peer(p)], readDone[p], writeDone[Peer(p)], reset[p]>>
    \/ /\ ~writeDone[Peer(p)]
       /\ delivered'[Peer(p)] \in Nat /\ delivered'[Peer(p)] > delivered[Peer(p)]
       /\ delivered'[Peer(p)] <= sent[p]
       /\ UNCHANGED <<sent[p], readDone[p], writeDone[Peer(p)], reset[p]>>
    \/ /\ ~readDone[p] /\ readDone'[p] = TRUE
       /\ UNCHANGED <<sent[p], delivered[Peer(p)], writeDone[Peer(p)], reset[p]>>
    \/ /\ ~writeDone[Peer(p)] /\ writeDone'[Peer(p)] = TRUE
       /\ reset[p] \/ (readDone[p] /\ delivered[Peer(p)] = sent[p])
       /\ UNCHANGED <<sent[p], delivered[Peer(p)], readDone[p], reset[p]>>
    \/ /\ ~reset[p] /\ reset'[p] = TRUE
       /\ UNCHANGED <<sent[p], delivered[Peer(p)], readDone[p], writeDone[Peer(p)]>>

\* Every step of the two agents is one step of either pipe, or none.
LEMMA PipedStep ==
    ASSUME IInv, IInv', NEW p \in Ends, [Next]_vars
    PROVE  Piped(p)
<1>t. /\ TypeOK /\ TypeOK' /\ ControlInv /\ HandshakeInv /\ NetInv /\ NetInv'
      /\ InboxInv /\ CreditInv' /\ CloseInv' /\ Peer(p) \in Ends
      /\ sent \in [Ends -> Nat] /\ delivered \in [Ends -> Nat]
      /\ readDone \in [Ends -> BOOLEAN] /\ writeDone \in [Ends -> BOOLEAN]
      /\ reset \in [Ends -> BOOLEAN]
  BY PeerOfEnd DEF IInv, TypeOK
<1>1. CASE Accept
  BY <1>1 DEF Accept, Piped
<1>2. CASE Register
  BY <1>2 DEF Register, Piped
<1>3. CASE SendOpen
  BY <1>3 DEF SendOpen, Piped
<1>4. CASE SourceReady
  BY <1>4 DEF SourceReady, Piped
<1>5. CASE SourceFailed
  BY <1>5, <1>t DEF SourceFailed, HardAbort, Piped, Ends
<1>6. CASE SourceAckTimeout
  BY <1>6, <1>t DEF SourceAckTimeout, HardAbort, Piped, Ends
<1>7. CASE SourceDone
  BY <1>7 DEF SourceDone, Piped
<1>8. CASE DialOK
  BY <1>8 DEF DialOK, Piped
<1>9. CASE DialFail
  BY <1>9 DEF DialFail, Piped
<1>10. CASE OpenDest
  BY <1>10 DEF OpenDest, Piped
<1>11. CASE Ack
  BY <1>11 DEF Ack, Piped
<1>12. ASSUME NEW e \in Ends, DataIgnored(e) PROVE Piped(p)
  BY <1>12 DEF DataIgnored, Piped
<1>13. ASSUME NEW e \in Ends, DataAccepted(e) PROVE Piped(p)
  BY <1>13 DEF DataAccepted, Piped
<1>14. ASSUME NEW e \in Ends, DataOverflow(e) PROVE Piped(p)
  BY <1>14, <1>t DEF DataOverflow, HardAbort, Piped
<1>15. ASSUME NEW e \in Ends, AddCredit(e) PROVE Piped(p)
  BY <1>15 DEF AddCredit, Piped
<1>16. ASSUME NEW e \in Ends, CloseStream(e) PROVE Piped(p)
  BY <1>16 DEF CloseStream, Piped
<1>17. ASSUME NEW e \in Ends, TakeCredit(e) PROVE Piped(p)
  BY <1>17 DEF TakeCredit, Piped
<1>18. ASSUME NEW e \in Ends, Park(e) PROVE Piped(p)
  BY <1>18 DEF Park, Piped
<1>19. ASSUME NEW e \in Ends, ReadData(e) PROVE Piped(p)
  <2>1. CASE e # p
    <3>1. UNCHANGED <<sent[p], delivered, readDone, writeDone, reset>>
      BY <1>19, <1>t, <2>1 DEF ReadData
    <3> QED
      BY <3>1 DEF Piped
  <2>2. CASE e = p
    <3>1. PICK n \in 1 .. ReadLimit(p) : sent' = [sent EXCEPT ![p] = @ + n]
      BY <1>19, <2>2 DEF ReadData
    <3>2. n \in Nat \ {0} /\ sent'[p] = sent[p] + n /\ sent[p] \in Nat
      BY <1>t, <3>1, ConstantsAssumption DEF ReadLimit, TypeOK, ConstantsAssumption
    <3>3. ~readDone[p] /\ wpc[p] # "off" /\ UNCHANGED <<delivered, readDone, writeDone, reset, fc>>
      BY <1>19, <2>2, <1>t DEF ReadData, ControlInv, EndControl, Relaying
    <3>4. ASSUME FALSE \notin BackendKeepsFC
          PROVE  sent'[p] <= delivered[Peer(p)] + WindowSize
      <4>1. fc[p]
        BY <1>t, <3>3, <3>4, KeepsFC
      <4>2. credit'[p] + budget'[p] + sent'[p] <= WindowSize + Granted(p)'
        BY <1>t, <3>3, <4>1 DEF CreditInv, Window
      <4>3. Granted(p)' <= delivered[Peer(p)] /\ Granted(p)' \in Nat
        BY <1>t, <3>3, PositionsBoundedNext
      <4>4. credit'[p] \in Nat /\ budget'[p] \in Nat /\ WindowSize \in Nat
            /\ delivered[Peer(p)] \in Nat
        BY <1>t, ConstantsAssumption, PeerOfEnd DEF TypeOK, ConstantsAssumption
      <4> QED
        BY <3>2, <4>2, <4>3, <4>4
    <3>5. /\ ~readDone[p] /\ sent'[p] \in Nat /\ sent'[p] > sent[p]
          /\ UNCHANGED <<delivered[Peer(p)], readDone[p], writeDone[Peer(p)], reset[p]>>
      BY <3>2, <3>3
    <3> QED
      BY <3>4, <3>5 DEF Piped
  <2> QED
    BY <2>1, <2>2
<1>20. ASSUME NEW e \in Ends, ReadEnd(e) PROVE Piped(p)
  <2>1. ~readDone[e] /\ UNCHANGED <<sent, delivered, writeDone, reset>>
        /\ readDone' = [readDone EXCEPT ![e] = TRUE]
    BY <1>20, <1>t DEF ReadEnd, FinishIf, ControlInv, EndControl
  <2> QED
    BY <1>t, <2>1 DEF Piped
<1>21. ASSUME NEW e \in Ends, WriterDone(e) PROVE Piped(p)
  BY <1>21 DEF WriterDone, Piped
<1>22. ASSUME NEW e \in Ends, WriterTake(e) PROVE Piped(p)
  BY <1>22 DEF WriterTake, Piped
<1>23. ASSUME NEW e \in Ends, WriteOK(e) PROVE Piped(p)
  <2>1. CASE e # Peer(p)
    <3>1. UNCHANGED <<sent, delivered[Peer(p)], readDone, writeDone, reset>>
      BY <1>23, <1>t, <2>1 DEF WriteOK
    <3> QED
      BY <3>1 DEF Piped
  <2>2. CASE e = Peer(p)
    <3>1. /\ inbox[e] # << >> /\ ~writeDone[e] /\ Chunks(e)
          /\ inbox'[e] = Tail(inbox[e])
          /\ delivered'[e] = delivered[e] + (Head(inbox[e]).hi - Head(inbox[e]).lo)
          /\ UNCHANGED <<sent, readDone, writeDone, reset>>
      BY <1>23, <1>t DEF WriteOK, ControlInv, EndControl, InboxInv, TypeOK
    <3>2. delivered'[e] <= Accepted(e) /\ delivered'[e] \in Nat
      BY <1>t, <3>1, ChunksTail
    <3>3. Accepted(e) <= Arrived(e) /\ Arrived(e) <= sent[p]
          /\ Accepted(e) \in Nat /\ Arrived(e) \in Nat /\ sent[p] \in Nat
      BY <1>t, <2>2, AcceptedTyped, PositionsBounded, PeerOfEnd DEF InboxInv, UpToDate
    <3>4. Head(inbox[e]).lo < Head(inbox[e]).hi
          /\ Head(inbox[e]).lo \in Nat /\ Head(inbox[e]).hi \in Nat /\ delivered[e] \in Nat
      BY <1>t, <3>1, InboxHead, InboxInvHead DEF Chunk, TypeOK
    <3>5. delivered'[e] > delivered[e] /\ delivered'[e] <= sent[p]
      BY <3>1, <3>2, <3>3, <3>4
    <3> QED
      BY <2>2, <3>1, <3>2, <3>5 DEF Piped
  <2> QED
    BY <2>1, <2>2
<1>24. ASSUME NEW e \in Ends, WriteFail(e) PROVE Piped(p)
  BY <1>24, <1>t DEF WriteFail, HardAbort, Piped
<1>25. ASSUME NEW e \in Ends, WriterEOF(e) PROVE Piped(p)
  <2>1. ~writeDone[e] /\ UNCHANGED <<sent, delivered, readDone, reset>>
        /\ writeDone' = [writeDone EXCEPT ![e] = TRUE]
    BY <1>25, <1>t DEF WriterEOF, FinishIf, ControlInv, EndControl
  <2>2. CASE e = Peer(p)
    <3>1. writeDone'[e] = TRUE
      BY <1>t, <2>1
    <3>2. ~reset'[p] => readDone'[p] /\ delivered'[e] = sent'[p]
      BY <1>t, <2>2, <3>1, PeerOfEnd DEF CloseInv, CloseIsLast
    <3> QED
      BY <2>1, <2>2, <3>1, <3>2 DEF Piped
  <2>3. CASE e # Peer(p)
    BY <1>t, <2>1, <2>3 DEF Piped
  <2> QED
    BY <2>2, <2>3
<1>26. ASSUME NEW e \in Ends, AppReset(e) PROVE Piped(p)
  BY <1>26 DEF AppReset, Piped
<1>27. ASSUME NEW e \in Ends, Stop(e) PROVE Piped(p)
  BY <1>27, <1>t DEF Stop, HardAbort, Piped
<1>28. CASE UNCHANGED vars
  BY <1>28 DEF vars, Piped
<1>29. QED
  BY <1>1, <1>2, <1>3, <1>4, <1>5, <1>6, <1>7, <1>8, <1>9, <1>10, <1>11,
     <1>12, <1>13, <1>14, <1>15, <1>16, <1>17, <1>18, <1>19, <1>20, <1>21,
     <1>22, <1>23, <1>24, <1>25, <1>26, <1>27, <1>28
  DEF Next, Setup, Deliver, Reader, Writer

\* Initially both pipes are empty.
LEMMA PipesInit == Init => Up!Init /\ Down!Init
  BY DEF Init, Up!Init, Down!Init, Ends

\* Step simulation for the direction from the source to the target ...
LEMMA UpStep == IInv /\ IInv' /\ [Next]_vars => [Up!Next]_(Up!pipeVars)
<1> SUFFICES ASSUME IInv, IInv', [Next]_vars PROVE [Up!Next]_(Up!pipeVars)
  OBVIOUS
<1>1. Piped("src")
  BY PipedStep DEF Ends
<1>2. Peer("src") = "dst"
  BY DEF Peer
<1> QED
  BY <1>1, <1>2 DEF Piped, Up!Next, Up!Put, Up!Take, Up!Fin, Up!Eof, Up!Break, Up!pipeVars

\* ... and for the one from the target to the source.
LEMMA DownStep == IInv /\ IInv' /\ [Next]_vars => [Down!Next]_(Down!pipeVars)
<1> SUFFICES ASSUME IInv, IInv', [Next]_vars PROVE [Down!Next]_(Down!pipeVars)
  OBVIOUS
<1>1. Piped("dst")
  BY PipedStep DEF Ends
<1>2. Peer("dst") = "src"
  BY DEF Peer
<1> QED
  BY <1>1, <1>2
  DEF Piped, Down!Next, Down!Put, Down!Take, Down!Fin, Down!Eof, Down!Break, Down!pipeVars

\* The two relays with their credits, through any backend, implement a bounded
\* in-order byte pipe in each direction.
THEOREM Refinement == Spec => BothPipes
<1>1. Init => Up!Init /\ Down!Init
  BY PipesInit
<1>2. IInv /\ IInv' /\ [Next]_vars => [Up!Next]_(Up!pipeVars)
  BY UpStep
<1>3. IInv /\ IInv' /\ [Next]_vars => [Down!Next]_(Down!pipeVars)
  BY DownStep
<1> QED
  BY <1>1, <1>2, <1>3, Invariance, PTL DEF Spec, BothPipes, Up!Spec, Down!Spec

=============================================================================
