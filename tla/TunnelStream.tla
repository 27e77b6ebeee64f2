---------------------------- MODULE TunnelStream ----------------------------
(***************************************************************************)
(* One tunnelled TCP connection, end to end: the data plane of             *)
(* internal/tunnel/tunnel.go.                                              *)
(*                                                                         *)
(* Two agents hold one stream each.  The "src" agent accepted a local TCP  *)
(* connection and announced it with tunnel_open; the "dst" agent dials the *)
(* target and answers with tunnel_open_ack; then both run the same relay   *)
(* (conn <-> WebSocket).  The backend between them is external: it relays  *)
(* messages in order and may or may not keep the flow-control flag.        *)
(*                                                                         *)
(* Every goroutine is a process of its own.  pc[e] is the goroutine that   *)
(* sets the stream up and then is its reader (local -> peer), wpc[e] the   *)
(* writer (peer -> local); the WebSocket reader of e is the Deliver        *)
(* actions, StopListener is Stop(e), and the TCP peer of e (an             *)
(* application) acts through AppReset and the outcomes of Read.            *)
(*                                                                         *)
(* Bytes are stream positions: a chunk is the interval (lo, hi] of         *)
(* positions of its bytes.  Every message is stamped with the interval of  *)
(* its sender's stream it carries (empty unless it is data) and with the   *)
(* interval of delivered bytes it grants back (empty unless it is a        *)
(* tunnel_window), so that losing or reordering bytes shows.               *)
(***************************************************************************)
EXTENDS Naturals, Sequences

CONSTANTS
    WindowSize,       \* windowSize: credit of a fresh stream, in bytes
    RelayBuf,         \* relayBufSize: the most one Read takes
    InboxBuffer,      \* inboxBuffer: capacity of the inbox, in chunks
    AppBytes,         \* how many bytes the application of each end sends
    BackendKeepsFC,   \* whether the backend keeps the fc flag: {TRUE}, {FALSE} or both
    Faults            \* which faults may happen

Ends == {"src", "dst"}
Peer(e) == IF e = "src" THEN "dst" ELSE "src"

AllFaults == {"reset", "stop", "acktimeout", "dialfail"}

ASSUME ConstantsAssumption ==
    /\ WindowSize \in Nat \ {0}
    /\ RelayBuf \in Nat \ {0}
    /\ InboxBuffer \in Nat \ {0}
    /\ AppBytes \in [Ends -> Nat]
    /\ BackendKeepsFC \subseteq BOOLEAN /\ BackendKeepsFC # {}
    /\ Faults \subseteq AllFaults

VARIABLES
    pc,           \* the goroutine of sourceStream / OpenDest, then relay's reader
    wpc,          \* the writer goroutine of relay
    conn,         \* s.conn: "none" (nil), "open" or "closed"
    appGone,      \* the application reset its side of conn
    registered,   \* whether Manager.streams holds the stream
    done,         \* s.done is closed
    inbox,        \* s.inbox, preceded by the chunk the writer holds, if any
    inboxClosed,  \* s.inboxClosed
    readDone,     \* s.readDone
    writeDone,    \* s.writeDone
    fc,           \* s.fc
    credit,       \* s.sendCredit
    budget,       \* what takeCredit reserved for the Read under way
    reply,        \* src: s.ready ("ok") or s.failed ("fail") is closed
    sent,         \* bytes read from conn and emitted as tunnel_data
    delivered,    \* bytes written to conn
    net,          \* net[e]: messages in flight to e, oldest first
    stopped,      \* StopListener or Shutdown ran at e
    reset         \* history: e was aborted before both directions finished

vars == <<pc, wpc, conn, appGone, registered, done, inbox, inboxClosed,
          readDone, writeDone, fc, credit, budget, reply, sent, delivered,
          net, stopped, reset>>

PCs == {"idle", "accepted", "registered", "waiting", "dialing",
        "credit", "parking", "parked", "read", "exit"}
Types == {"open", "ack", "nack", "data", "window", "close"}
Message == [type : Types, lo : Nat, hi : Nat, glo : Nat, ghi : Nat, fc : BOOLEAN]
Chunk == [lo : Nat, hi : Nat]

TypeOK ==
    /\ pc \in [Ends -> PCs]
    /\ wpc \in [Ends -> {"off", "run", "write", "exit"}]
    /\ conn \in [Ends -> {"none", "open", "closed"}]
    /\ appGone \in [Ends -> BOOLEAN]
    /\ registered \in [Ends -> BOOLEAN]
    /\ done \in [Ends -> BOOLEAN]
    /\ inbox \in [Ends -> Seq(Chunk)]
    /\ inboxClosed \in [Ends -> BOOLEAN]
    /\ readDone \in [Ends -> BOOLEAN]
    /\ writeDone \in [Ends -> BOOLEAN]
    /\ fc \in [Ends -> BOOLEAN]
    /\ credit \in [Ends -> Nat]
    /\ budget \in [Ends -> Nat]
    /\ reply \in {"none", "ok", "fail"}
    /\ sent \in [Ends -> Nat]
    /\ delivered \in [Ends -> Nat]
    /\ net \in [Ends -> Seq(Message)]
    /\ stopped \in [Ends -> BOOLEAN]
    /\ reset \in [Ends -> BOOLEAN]

Init ==
    /\ pc = [e \in Ends |-> "idle"]
    /\ wpc = [e \in Ends |-> "off"]
    /\ conn = [e \in Ends |-> "none"]
    /\ appGone = [e \in Ends |-> FALSE]
    /\ registered = [e \in Ends |-> FALSE]
    /\ done = [e \in Ends |-> FALSE]
    /\ inbox = [e \in Ends |-> << >>]
    /\ inboxClosed = [e \in Ends |-> FALSE]
    /\ readDone = [e \in Ends |-> FALSE]
    /\ writeDone = [e \in Ends |-> FALSE]
    /\ fc = [e \in Ends |-> FALSE]
    /\ credit = [e \in Ends |-> WindowSize]
    /\ budget = [e \in Ends |-> 0]
    /\ reply = "none"
    /\ sent = [e \in Ends |-> 0]
    /\ delivered = [e \in Ends |-> 0]
    /\ net = [e \in Ends |-> << >>]
    /\ stopped = [e \in Ends |-> FALSE]
    /\ reset = [e \in Ends |-> FALSE]

-----------------------------------------------------------------------------
(* Sending and receiving over the WebSocket, through the backend.          *)

\* Message of `type' from e carrying n more bytes and granting g delivered ones.
Msg(e, type, n, g, flag) ==
    [type |-> type, lo |-> sent[e], hi |-> sent[e] + n,
     glo |-> delivered[e], ghi |-> delivered[e] + g, fc |-> flag]

Emitted(e, m) == [net EXCEPT ![Peer(e)] = Append(@, m)]

\* The WebSocket reader of e has a message of this type to dispatch.
Arrives(e, type) == net[e] # << >> /\ Head(net[e]).type = type
Consumed(e) == [net EXCEPT ![e] = Tail(@)]

-----------------------------------------------------------------------------
(* Ending a stream.                                                        *)

WakeNobody(e) == pc[e]

\* creditCond.Broadcast reaches only a reader already in the wait list: one
\* that holds creditMu on its way into Wait ("parking") misses it.
Woken(e) == IF pc[e] = "parked" THEN "credit" ELSE pc[e]

\* abort, then unregister: closeOnce closes done and the connection (a nil one
\* is skipped) and broadcasts.  What the caller's own goroutine does next is its.
Abort(e) ==
    /\ done' = [done EXCEPT ![e] = TRUE]
    /\ conn' = [conn EXCEPT ![e] = IF @ = "open" /\ ~done[e] THEN "closed" ELSE @]
    /\ registered' = [registered EXCEPT ![e] = FALSE]

\* An abort that no orderly end of both directions led to.
HardAbort(e) ==
    /\ Abort(e)
    /\ reset' = [reset EXCEPT ![e] = @ \/ ~done[e]]

NeverFinish(e, both) == UNCHANGED <<done, conn, registered, reset>>

\* The end of markDone: when both directions have finished, abort + unregister.
FinishIf(e, both) ==
    /\ IF both THEN Abort(e) ELSE UNCHANGED <<done, conn, registered>>
    /\ UNCHANGED reset

-----------------------------------------------------------------------------
(* Source role: acceptLoop and sourceStream.                               *)

\* The listener accepts a connection; StopListener has not closed it yet.
Accept ==
    /\ pc["src"] = "idle" /\ ~stopped["src"]
    /\ pc' = [pc EXCEPT !["src"] = "accepted"]
    /\ conn' = [conn EXCEPT !["src"] = "open"]
    /\ UNCHANGED <<wpc, appGone, registered, done, inbox, inboxClosed, readDone,
                   writeDone, fc, credit, budget, reply, sent, delivered, net,
                   stopped, reset>>

Register ==
    /\ pc["src"] = "accepted"
    /\ pc' = [pc EXCEPT !["src"] = "registered"]
    /\ registered' = [registered EXCEPT !["src"] = TRUE]
    /\ UNCHANGED <<wpc, conn, appGone, done, inbox, inboxClosed, readDone,
                   writeDone, fc, credit, budget, reply, sent, delivered, net,
                   stopped, reset>>

\* tunnel_open is emitted whether or not the stream was aborted meanwhile.  It
\* advertises flow control; an old backend drops that flag.
SendOpen ==
    /\ pc["src"] = "registered"
    /\ pc' = [pc EXCEPT !["src"] = "waiting"]
    /\ \E keeps \in BackendKeepsFC :
         net' = Emitted("src", Msg("src", "open", 0, 0, keeps))
    /\ UNCHANGED <<wpc, conn, appGone, registered, done, inbox, inboxClosed,
                   readDone, writeDone, fc, credit, budget, reply, sent,
                   delivered, stopped, reset>>

\* relay starts: the writer goroutine, and the reader in this one.
StartRelay(e, gated) ==
    /\ pc' = [pc EXCEPT ![e] = IF gated THEN "credit" ELSE "read"]
    /\ wpc' = [wpc EXCEPT ![e] = "run"]

\* select of sourceStream: case <-s.ready.
SourceReady ==
    /\ pc["src"] = "waiting" /\ reply = "ok"
    /\ StartRelay("src", fc["src"])
    /\ UNCHANGED <<conn, appGone, registered, done, inbox, inboxClosed, readDone,
                   writeDone, fc, credit, budget, reply, sent, delivered, net,
                   stopped, reset>>

\* case <-s.failed.
SourceFailed ==
    /\ pc["src"] = "waiting" /\ reply = "fail"
    /\ HardAbort("src")
    /\ pc' = [pc EXCEPT !["src"] = "exit"]
    /\ UNCHANGED <<wpc, appGone, inbox, inboxClosed, readDone, writeDone, fc,
                   credit, budget, reply, sent, delivered, net, stopped>>

\* case <-time.After(ackTimeout): it may win against an ack that is already here.
SourceAckTimeout ==
    /\ "acktimeout" \in Faults
    /\ pc["src"] = "waiting"
    /\ net' = Emitted("src", Msg("src", "close", 0, 0, FALSE))
    /\ HardAbort("src")
    /\ pc' = [pc EXCEPT !["src"] = "exit"]
    /\ UNCHANGED <<wpc, appGone, inbox, inboxClosed, readDone, writeDone, fc,
                   credit, budget, reply, sent, delivered, stopped>>

\* case <-s.done: unregister (StopListener did it already).
SourceDone ==
    /\ pc["src"] = "waiting" /\ done["src"]
    /\ pc' = [pc EXCEPT !["src"] = "exit"]
    /\ registered' = [registered EXCEPT !["src"] = FALSE]
    /\ UNCHANGED <<wpc, conn, appGone, done, inbox, inboxClosed, readDone,
                   writeDone, fc, credit, budget, reply, sent, delivered, net,
                   stopped, reset>>

-----------------------------------------------------------------------------
(* Destination role: OpenDest.                                             *)

\* tunnel_open: the stream is registered before its connection exists.
OpenDest ==
    /\ Arrives("dst", "open")
    /\ pc' = [pc EXCEPT !["dst"] = "dialing"]
    /\ registered' = [registered EXCEPT !["dst"] = TRUE]
    /\ fc' = [fc EXCEPT !["dst"] = Head(net["dst"]).fc]
    /\ net' = Consumed("dst")
    /\ UNCHANGED <<wpc, conn, appGone, done, inbox, inboxClosed, readDone,
                   writeDone, credit, budget, reply, sent, delivered, stopped,
                   reset>>

\* The dial succeeds, whatever happened to the stream while it was under way.
DialOK ==
    /\ pc["dst"] = "dialing"
    /\ conn' = [conn EXCEPT !["dst"] = "open"]
    /\ net' = Emitted("dst", Msg("dst", "ack", 0, 0, fc["dst"]))
    /\ StartRelay("dst", fc["dst"])
    /\ UNCHANGED <<appGone, registered, done, inbox, inboxClosed, readDone,
                   writeDone, fc, credit, budget, reply, sent, delivered,
                   stopped, reset>>

DialFail ==
    /\ "dialfail" \in Faults
    /\ pc["dst"] = "dialing"
    /\ net' = Emitted("dst", Msg("dst", "nack", 0, 0, FALSE))
    /\ registered' = [registered EXCEPT !["dst"] = FALSE]
    /\ pc' = [pc EXCEPT !["dst"] = "exit"]
    /\ UNCHANGED <<wpc, conn, appGone, done, inbox, inboxClosed, readDone,
                   writeDone, fc, credit, budget, reply, sent, delivered,
                   stopped, reset>>

-----------------------------------------------------------------------------
(* The WebSocket reader of e: Ack, Data, AddCredit, CloseStream.  A message *)
(* for a stream that is not registered is ignored.                         *)

Ack ==
    /\ Arrives("src", "ack") \/ Arrives("src", "nack")
    /\ LET m == Head(net["src"]) IN
         IF ~registered["src"] THEN UNCHANGED <<fc, reply>>
         ELSE IF m.type = "ack"
         THEN /\ fc' = [fc EXCEPT !["src"] = m.fc]
              /\ reply' = "ok"
         ELSE reply' = "fail" /\ UNCHANGED fc
    /\ net' = Consumed("src")
    /\ UNCHANGED <<pc, wpc, conn, appGone, registered, done, inbox, inboxClosed,
                   readDone, writeDone, credit, budget, sent, delivered,
                   stopped, reset>>

\* Chunks in the channel; the one the writer took out does not occupy it.
Occupancy(e) == IF wpc[e] = "write" THEN Len(inbox[e]) - 1 ELSE Len(inbox[e])

Listens(e) == registered[e] /\ ~inboxClosed[e]

DataIgnored(e) ==
    /\ Arrives(e, "data") /\ ~Listens(e)
    /\ net' = Consumed(e)
    /\ UNCHANGED <<pc, wpc, conn, appGone, registered, done, inbox, inboxClosed,
                   readDone, writeDone, fc, credit, budget, reply, sent,
                   delivered, stopped, reset>>

DataAccepted(e) ==
    /\ Arrives(e, "data") /\ Listens(e)
    /\ Occupancy(e) < InboxBuffer
    /\ inbox' = [inbox EXCEPT ![e] =
                   Append(@, [lo |-> Head(net[e]).lo, hi |-> Head(net[e]).hi])]
    /\ net' = Consumed(e)
    /\ UNCHANGED <<pc, wpc, conn, appGone, registered, done, inboxClosed,
                   readDone, writeDone, fc, credit, budget, reply, sent,
                   delivered, stopped, reset>>

DropChunk(e) ==
    /\ Arrives(e, "data") /\ Listens(e) /\ Occupancy(e) >= InboxBuffer
    /\ net' = Consumed(e)
    /\ UNCHANGED <<pc, wpc, conn, appGone, registered, done, inbox, inboxClosed,
                   readDone, writeDone, fc, credit, budget, reply, sent,
                   delivered, stopped, reset>>

\* Inbox overflow: the whole stream is reset and the peer told.
DataOverflow(e) ==
    /\ Arrives(e, "data") /\ Listens(e)
    /\ Occupancy(e) >= InboxBuffer
    /\ net' = [net EXCEPT ![e] = Tail(@),
                          ![Peer(e)] = Append(@, Msg(e, "close", 0, 0, FALSE))]
    /\ HardAbort(e)
    /\ pc' = [pc EXCEPT ![e] = Woken(e)]
    /\ UNCHANGED <<wpc, appGone, inbox, inboxClosed, readDone, writeDone, fc,
                   credit, budget, reply, sent, delivered, stopped>>

\* addCredit needs creditMu, which a reader about to Wait ("parking") holds.
AddCredit(e) ==
    /\ Arrives(e, "window")
    /\ IF registered[e]
       THEN /\ pc[e] # "parking"
            /\ credit' = [credit EXCEPT ![e] =
                            @ + Head(net[e]).ghi - Head(net[e]).glo]
            /\ pc' = [pc EXCEPT ![e] = Woken(e)]
       ELSE UNCHANGED <<credit, pc>>
    /\ net' = Consumed(e)
    /\ UNCHANGED <<wpc, conn, appGone, registered, done, inbox, inboxClosed,
                   readDone, writeDone, fc, budget, reply, sent, delivered,
                   stopped, reset>>

CloseStream(e) ==
    /\ Arrives(e, "close")
    /\ inboxClosed' = [inboxClosed EXCEPT ![e] = @ \/ registered[e]]
    /\ net' = Consumed(e)
    /\ UNCHANGED <<pc, wpc, conn, appGone, registered, done, inbox, readDone,
                   writeDone, fc, credit, budget, reply, sent, delivered,
                   stopped, reset>>

-----------------------------------------------------------------------------
(* relay, reader side: takeCredit, Read, emit.                             *)

ReserveBuffer(e) == RelayBuf

\* What takeCredit reserves: the credit, at most one buffer of it.
Reserve(e) == IF credit[e] > RelayBuf THEN RelayBuf ELSE credit[e]

\* takeCredit holds creditMu.  Without credit the reader parks (or returns 0
\* if the stream is done); with credit it reserves at most one buffer.
TakeCredit(e) ==
    /\ pc[e] = "credit"
    /\ \/ /\ done[e]
          /\ pc' = [pc EXCEPT ![e] = "exit"]
          /\ UNCHANGED <<credit, budget>>
       \/ /\ ~done[e] /\ credit[e] = 0
          /\ pc' = [pc EXCEPT ![e] = "parking"]
          /\ UNCHANGED <<credit, budget>>
       \/ /\ ~done[e] /\ credit[e] > 0
          /\ credit' = [credit EXCEPT ![e] = @ - Reserve(e)]
          /\ budget' = [budget EXCEPT ![e] = Reserve(e)]
          /\ pc' = [pc EXCEPT ![e] = "read"]
    /\ UNCHANGED <<wpc, conn, appGone, registered, done, inbox, inboxClosed,
                   readDone, writeDone, fc, reply, sent, delivered, net,
                   stopped, reset>>

\* creditCond.Wait: joins the wait list and releases creditMu.
Park(e) ==
    /\ pc[e] = "parking"
    /\ pc' = [pc EXCEPT ![e] = "parked"]
    /\ UNCHANGED <<wpc, conn, appGone, registered, done, inbox, inboxClosed,
                   readDone, writeDone, fc, credit, budget, reply, sent,
                   delivered, net, stopped, reset>>

\* What the next Read may return at most.
ReadLimit(e) == IF fc[e] THEN budget[e] ELSE RelayBuf

ReturnAll(e, n) == IF fc[e] THEN budget[e] ELSE 0

\* The reserved credit that a Read of n bytes did not use.
Unused(e, n) == IF fc[e] THEN budget[e] - n ELSE 0

\* Read returns n bytes: tunnel_data, then the unused credit is returned.
ReadData(e) ==
    /\ pc[e] = "read" /\ conn[e] = "open" /\ ~appGone[e]
    /\ \E n \in 1 .. ReadLimit(e) :
         /\ sent[e] + n <= AppBytes[e]
         /\ net' = Emitted(e, Msg(e, "data", n, 0, FALSE))
         /\ sent' = [sent EXCEPT ![e] = @ + n]
         /\ credit' = [credit EXCEPT ![e] = @ + Unused(e, n)]
    /\ budget' = [budget EXCEPT ![e] = 0]
    /\ pc' = [pc EXCEPT ![e] = IF fc[e] THEN "credit" ELSE "read"]
    /\ UNCHANGED <<wpc, conn, appGone, registered, done, inbox, inboxClosed,
                   readDone, writeDone, fc, reply, delivered, stopped, reset>>

\* Read fails: the application ended its output, reset the connection, or
\* abort closed it.  All three announce tunnel_close and markDone(read).
ReadEnd(e) ==
    /\ pc[e] = "read"
    /\ net' = Emitted(e, Msg(e, "close", 0, 0, FALSE))
    /\ readDone' = [readDone EXCEPT ![e] = TRUE]
    /\ FinishIf(e, writeDone[e])
    /\ pc' = [pc EXCEPT ![e] = "exit"]
    /\ UNCHANGED <<wpc, appGone, inbox, inboxClosed, writeDone, fc, credit,
                   budget, reply, sent, delivered, stopped>>

-----------------------------------------------------------------------------
(* relay, writer side: inbox -> conn.                                      *)

\* case <-s.done (the select may also take a chunk that is there).
WriterDone(e) ==
    /\ wpc[e] = "run" /\ done[e]
    /\ wpc' = [wpc EXCEPT ![e] = "exit"]
    /\ UNCHANGED <<pc, conn, appGone, registered, done, inbox, inboxClosed,
                   readDone, writeDone, fc, credit, budget, reply, sent,
                   delivered, net, stopped, reset>>

WriterTake(e) ==
    /\ wpc[e] = "run" /\ inbox[e] # << >>
    /\ wpc' = [wpc EXCEPT ![e] = "write"]
    /\ UNCHANGED <<pc, conn, appGone, registered, done, inbox, inboxClosed,
                   readDone, writeDone, fc, credit, budget, reply, sent,
                   delivered, net, stopped, reset>>

\* Write succeeds; with flow control the bytes are granted back to the peer.
WriteOK(e) ==
    /\ wpc[e] = "write" /\ conn[e] = "open" /\ ~appGone[e]
    /\ LET c == Head(inbox[e]) IN
         /\ delivered' = [delivered EXCEPT ![e] = @ + (c.hi - c.lo)]
         /\ net' = IF fc[e] THEN Emitted(e, Msg(e, "window", 0, c.hi - c.lo, FALSE))
                            ELSE net
    /\ inbox' = [inbox EXCEPT ![e] = Tail(@)]
    /\ wpc' = [wpc EXCEPT ![e] = "run"]
    /\ UNCHANGED <<pc, conn, appGone, registered, done, inboxClosed, readDone,
                   writeDone, fc, credit, budget, reply, sent, stopped, reset>>

WriteFail(e) ==
    /\ wpc[e] = "write" /\ (conn[e] = "closed" \/ appGone[e])
    /\ HardAbort(e)
    /\ wpc' = [wpc EXCEPT ![e] = "exit"]
    /\ pc' = [pc EXCEPT ![e] = Woken(e)]
    /\ UNCHANGED <<appGone, inbox, inboxClosed, readDone, writeDone, fc, credit,
                   budget, reply, sent, delivered, net, stopped>>

AnyTime(e) == TRUE

\* Receiving from the closed channel returns !ok only once it is empty.
Drained(e) == inbox[e] = << >>

\* The inbox is closed and drained: CloseWrite, markDone(write).
WriterEOF(e) ==
    /\ wpc[e] = "run" /\ inboxClosed[e] /\ Drained(e)
    /\ writeDone' = [writeDone EXCEPT ![e] = TRUE]
    /\ FinishIf(e, readDone[e])
    /\ wpc' = [wpc EXCEPT ![e] = "exit"]
    /\ UNCHANGED <<pc, appGone, inbox, inboxClosed, readDone, fc, credit, budget,
                   reply, sent, delivered, net, stopped>>

-----------------------------------------------------------------------------
(* The environment of the stream.                                          *)

\* The application resets its connection (RST, or a full close).
AppReset(e) ==
    /\ "reset" \in Faults
    /\ conn[e] = "open" /\ ~appGone[e]
    /\ appGone' = [appGone EXCEPT ![e] = TRUE]
    /\ UNCHANGED <<pc, wpc, conn, registered, done, inbox, inboxClosed, readDone,
                   writeDone, fc, credit, budget, reply, sent, delivered, net,
                   stopped, reset>>

\* StopListener (tunnel_stop): the listener is closed and a stream found in the
\* map is aborted.  Once per end.  Shutdown does the same to the stream, but then
\* the WebSocket is gone and takes the messages with it (see AgentConnection).
Stop(e) ==
    /\ "stop" \in Faults /\ ~stopped[e]
    /\ stopped' = [stopped EXCEPT ![e] = TRUE]
    /\ IF registered[e]
       THEN HardAbort(e) /\ pc' = [pc EXCEPT ![e] = Woken(e)]
       ELSE UNCHANGED <<done, conn, registered, reset, pc>>
    /\ UNCHANGED <<wpc, appGone, inbox, inboxClosed, readDone, writeDone, fc,
                   credit, budget, reply, sent, delivered, net>>

-----------------------------------------------------------------------------
Setup == \/ Accept \/ Register \/ SendOpen \/ SourceReady \/ SourceFailed
         \/ SourceAckTimeout \/ SourceDone \/ DialOK \/ DialFail

\* What the WebSocket reader of e does with the next message.
Deliver(e) ==
    \/ e = "dst" /\ OpenDest
    \/ e = "src" /\ Ack
    \/ DataIgnored(e) \/ DataAccepted(e) \/ DataOverflow(e)
    \/ AddCredit(e) \/ CloseStream(e)

Reader(e) == TakeCredit(e) \/ Park(e) \/ ReadData(e) \/ ReadEnd(e)
Writer(e) == WriterDone(e) \/ WriterTake(e) \/ WriteOK(e) \/ WriteFail(e) \/ WriterEOF(e)

Next ==
    \/ Setup
    \/ \E e \in Ends : Deliver(e) \/ Reader(e) \/ Writer(e) \/ AppReset(e) \/ Stop(e)

Spec == Init /\ [][Next]_vars

\* Every goroutine is scheduled, the backend delivers, a dial returns, an
\* application keeps reading and ends its output: sourceStream's select and
\* DialTimeout end by themselves, so the fair steps are the code's own.
Fairness ==
    /\ WF_vars(Setup)
    /\ \A e \in Ends : WF_vars(Deliver(e)) /\ WF_vars(Reader(e)) /\ WF_vars(Writer(e))

FairSpec == Spec /\ Fairness

-----------------------------------------------------------------------------
(* What must hold.                                                         *)

\* How far e's reader of messages has got in the peer's stream and in the
\* grants of the peer: the stamps of the next message in flight.
Arrived(e) == IF net[e] = << >> THEN sent[Peer(e)] ELSE Head(net[e]).lo
Granted(e) == IF net[e] = << >> THEN delivered[Peer(e)] ELSE Head(net[e]).glo

\* Backpressure (windowSize, takeCredit, addCredit): with flow control, what is
\* reserved for the next Read and all bytes between the two applications never
\* exceed the window, and neither do those bytes with the credit on hand and
\* the grants on their way back.
WindowRespected ==
    \A e \in Ends : fc[e] =>
        credit[e] + budget[e] + (delivered[Peer(e)] - Granted(e))
            + (sent[e] - delivered[Peer(e)]) <= WindowSize

\* "bytes are NEVER dropped" mid-stream (Data, relay): the chunk the writer takes
\* next starts exactly where the bytes already delivered end, although the stream
\* may be aborted, closed or overflowing meanwhile.
BytesInOrder ==
    \A e \in Ends : inbox[e] # << >> =>
        /\ Head(inbox[e]).lo = delivered[e]
        /\ Head(inbox[e]).hi <= sent[Peer(e)]

\* A half-close the application sees (CloseWrite after draining the inbox) comes
\* after every byte of the peer's stream, unless the peer was reset (closeInbox:
\* "avoids losing the last segment").
NoTruncation ==
    \A e \in Ends :
        writeDone[e] /\ ~reset[Peer(e)] => delivered[e] = sent[Peer(e)]

\* With flow control the inbox has room for every chunk that arrives, so the
\* overflow reset never happens (the comment at inboxBuffer).
InboxHasRoom ==
    \A e \in Ends :
        fc[Peer(e)] /\ Arrives(e, "data") /\ Listens(e) => Occupancy(e) < InboxBuffer

\* No connection is left behind by goroutines that have all ended (relay,
\* sourceStream, markDone): nobody would ever close it.  A stream stopped while
\* its dial was under way is AbortClosesConn's business.
NoOrphanConn ==
    \A e \in Ends :
        ~stopped[e] /\ pc[e] = "exit" /\ wpc[e] \in {"off", "exit"} => conn[e] # "open"

\* abort closes the stream hard: an aborted stream has no open connection.
AbortClosesConn == \A e \in Ends : done[e] => conn[e] # "open"

\* Without faults the two directions end by themselves and every byte each
\* application sent reaches the other one (half-close, credits, no deadlock).
Finished(e) == pc[e] = "exit" /\ wpc[e] = "exit" /\ conn[e] = "closed"
OrderlyDelivery ==
    <>[](\A e \in Ends : Finished(e) /\ delivered[e] = sent[Peer(e)])

\* abort releases the reader wherever it is (Broadcast in abort).
AbortReleasesReader == \A e \in Ends : done[e] ~> pc[e] = "exit"

\* Both ends relay until either of them closes: the stream of one end does not
\* outlive a reset of the other end's connection.
ResetReachesPeer == \A e \in Ends : reset[e] ~> pc[Peer(e)] = "exit"
-----------------------------------------------------------------------------
(* Each direction of the stream implements a FlowPipe.                     *)

Up == INSTANCE FlowPipe WITH
        Capacity <- WindowSize, Bounded <- FALSE \notin BackendKeepsFC,
        sent <- sent["src"], got <- delivered["dst"], fin <- readDone["src"],
        eof <- writeDone["dst"], broken <- reset["src"]

Down == INSTANCE FlowPipe WITH
        Capacity <- WindowSize, Bounded <- FALSE \notin BackendKeepsFC,
        sent <- sent["dst"], got <- delivered["src"], fin <- readDone["dst"],
        eof <- writeDone["src"], broken <- reset["dst"]

\* What the relay of both agents (relay, Data, CloseStream, the credits) gives the
\* two applications is a bounded in-order pipe in each direction.
BothPipes == Up!Spec /\ Down!Spec
=============================================================================
