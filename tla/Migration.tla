------------------------------ MODULE Migration ------------------------------
(***************************************************************************)
(* The copy of a directory from one agent to another (internal/migration). *)
(* The source's startSource goroutine sends the files one after the other; *)
(* the destination's Manager, called by its reader goroutine, writes and   *)
(* verifies them; the backend between them relays messages in order and    *)
(* prepares, starts, cancels and resumes the migration.                    *)
(*                                                                         *)
(* Units: a chunk is one unit of data, and all files have as many.  What is*)
(* in chunk i of file f is <<f, v, i>> with v the version of f that was    *)
(* read.  Every edit changes a file's mtime, so its version is its mtime;  *)
(* it is made in place and keeps the size, or the size would give it away. *)
(* The SHA-256 of a file stands for its version.                           *)
(***************************************************************************)
EXTENDS Integers, Sequences, FiniteSets

CONSTANTS
    NumFiles,      \* bound: files of the directory
    FileChunks,    \* bound: chunks of a file
    Window,        \* window_bytes, in chunks
    AckEvery,      \* windowAckEvery, in chunks
    AckSlots,      \* the capacity of srcSession.windowAck
    MaxRetries,    \* maxFileRetries
    MaxRuns,       \* bound: how often the backend starts or resumes the migration
    MaxEdits,      \* bound: changes of the source files meanwhile
    MaxFaults,     \* bound: faults
    FaultKinds,    \* the faults that happen
    Delta          \* whether prepare asks for a delta

AllFaults == {"corrupt", "write", "create", "read", "slow",
              "losesrc", "losedst", "crash", "power", "cancel"}

ASSUME MigrationAssumption ==
    /\ NumFiles \in Nat /\ FileChunks \in Nat /\ AckSlots \in Nat \ {0}
    /\ AckEvery \in Nat \ {0} /\ Window \in Nat /\ Window >= AckEvery
    /\ MaxRetries \in Nat \ {0} /\ MaxRuns \in Nat \ {0}
    /\ MaxEdits \in Nat /\ MaxFaults \in Nat /\ FaultKinds \subseteq AllFaults
    /\ Delta \in BOOLEAN

Files == 1 .. NumFiles
Versions == 1 .. MaxEdits + 1
Known == [Files -> Versions \cup {0}]   \* an mtime per file, 0 for none
Content(f, v) == [i \in 1 .. FileChunks |-> <<f, v, i>>]

VARIABLES
    version,    \* the version of each source file
    gone,       \* source files that were removed
    edits,      \* how many changes there were
    phase,      \* what the backend thinks of the migration
    runs,       \* how often it was started
    srcUp,      \* whether the source is connected
    src,        \* the startSource goroutine and its srcSession
    fileAck,    \* the channels of the srcSession: << >> or one verdict,
    windowAck,  \* and up to AckSlots of them
    toDst,      \* messages on their way to the destination
    toSrc,      \* and to the source
    dst,        \* m.dsts[id], the destination's session
    disk,       \* the files at the destination: [data, mtime]
    manifest,   \* manifest.jsonl: the mtime each file was completed with
    faults      \* how many faults there were

dirVars == <<version, gone, edits>>
srcVars == <<src, fileAck, windowAck>>
dstVars == <<dst, disk, manifest>>
backendVars == <<phase, runs>>
vars == <<dirVars, backendVars, srcUp, srcVars, toDst, toSrc, dstVars, faults>>

None == [f \in Files |-> 0]

Idle == [pc |-> "none", done |-> FALSE, cur |-> 0, id |-> 0, attempt |-> 0,
         offset |-> 0, acked |-> 0, warned |-> FALSE, walk |-> None, completed |-> None]

Closed == [open |-> FALSE, id |-> 0, file |-> 0, sum |-> 0, mtime |-> 0,
           writing |-> FALSE, acked |-> 0, broken |-> FALSE, fresh |-> {}]

Init ==
    /\ version = [f \in Files |-> 1] /\ gone = {} /\ edits = 0
    /\ phase = "idle" /\ runs = 0 /\ srcUp = TRUE
    /\ src = Idle /\ fileAck = << >> /\ windowAck = << >>
    /\ toDst = << >> /\ toSrc = << >>
    /\ dst = Closed /\ disk = << >> /\ manifest = None
    /\ faults = 0

Fault(kind) == kind \in FaultKinds /\ faults < MaxFaults /\ faults' = faults + 1

Ended == src.pc \in {"none", "end"}

\* m.srcs[id] holds the session, until the goroutine ends or it is cancelled
Registered == ~Ended /\ src.pc # "starting" /\ ~src.done

-----------------------------------------------------------------------------
(* The source directory lives on while it is copied.                       *)

Edit(f) ==
    /\ edits < MaxEdits /\ f \notin gone
    /\ version' = [version EXCEPT ![f] = @ + 1] /\ edits' = edits + 1
    /\ UNCHANGED <<gone, backendVars, srcUp, srcVars, toDst, toSrc, dstVars, faults>>

Unlink(f) ==
    /\ edits < MaxEdits /\ f \notin gone
    /\ gone' = gone \cup {f} /\ edits' = edits + 1
    /\ UNCHANGED <<version, backendVars, srcUp, srcVars, toDst, toSrc, dstVars, faults>>

-----------------------------------------------------------------------------
(* The backend (external).  It resumes a migration that ended, once the     *)
(* source's goroutine has ended too, and with one prepare outstanding.     *)

Pending(ch, t) == \E i \in DOMAIN ch : ch[i].t = t

Prepare ==
    /\ ~Pending(toDst, "prepare") /\ ~Pending(toSrc, "ready")
    /\ phase \notin {"preparing", "running"} /\ Ended /\ srcUp /\ runs < MaxRuns
    /\ phase' = "preparing" /\ toDst' = Append(toDst, [t |-> "prepare"])
    /\ UNCHANGED <<dirVars, runs, srcUp, srcVars, toSrc, dstVars, faults>>

\* receiver_ready is the next message for the backend to relay: it starts the source,
\* which handles migration_start by `go startSource`
Start ==
    /\ toSrc # << >> /\ Head(toSrc).t = "ready" /\ toSrc' = Tail(toSrc)
    /\ IF srcUp /\ phase = "preparing" /\ Head(toSrc).ok
       THEN /\ phase' = "running" /\ runs' = runs + 1
            /\ src' = [Idle EXCEPT !.pc = "starting", !.completed = Head(toSrc).completed]
            /\ fileAck' = << >> /\ windowAck' = << >>
       ELSE /\ phase' = IF phase = "preparing" THEN "failed" ELSE phase
            /\ UNCHANGED <<runs, srcVars>>
    /\ UNCHANGED <<dirVars, srcUp, toDst, dstVars, faults>>

\* migration_cancel to both agents; at the source it finds what is registered by then
Cancel ==
    /\ phase \in {"preparing", "running"} /\ Fault("cancel")
    /\ phase' = "cancelled"
    /\ src' = IF Registered /\ srcUp THEN [src EXCEPT !.done = TRUE] ELSE src
    /\ toDst' = Append(toDst, [t |-> "cancel"])
    /\ UNCHANGED <<dirVars, runs, srcUp, fileAck, windowAck, toSrc, dstVars>>

-----------------------------------------------------------------------------
(* The source: one goroutine, startSource, with sendFile and streamChunks.  *)

\* m.emit: nothing is sent without a connection
Emit(msg) == toDst' = IF srcUp THEN Append(toDst, msg) ELSE toDst

Report(p) ==
    /\ phase' = IF srcUp /\ phase = "running" THEN p ELSE phase
    /\ src' = [src EXCEPT !.pc = "end"]
    /\ UNCHANGED <<toDst, fileAck, windowAck>>

SrcFrame == UNCHANGED <<dirVars, runs, srcUp, toSrc, dstVars>>

Walk == [f \in Files |-> IF f \in gone THEN 0 ELSE version[f]]

\* the session is registered and the directory listed
Register ==
    /\ src.pc = "starting"
    /\ src' = [src EXCEPT !.pc = "next", !.walk = Walk]
    /\ SrcFrame /\ UNCHANGED <<phase, toDst, fileAck, windowAck, faults>>

Skip(f) == src.walk[f] = 0 \/ src.completed[f] = src.walk[f]

NextFile ==
    /\ src.pc = "next" /\ ~src.done /\ src.cur < NumFiles
    /\ src' = IF Skip(src.cur + 1)
              THEN [src EXCEPT !.cur = @ + 1]
              ELSE [src EXCEPT !.cur = @ + 1, !.id = @ + 1, !.attempt = 0, !.pc = "open"]
    /\ SrcFrame /\ UNCHANGED <<phase, toDst, fileAck, windowAck, faults>>

\* cancelled between two files: the goroutine ends without a word
Stop ==
    /\ src.pc = "next" /\ src.done
    /\ src' = [src EXCEPT !.pc = "end"]
    /\ SrcFrame /\ UNCHANGED <<phase, toDst, fileAck, windowAck, faults>>

Finish ==
    /\ src.pc = "next" /\ ~src.done /\ src.cur = NumFiles
    /\ Report(IF src.warned THEN "warned" ELSE "completed")
    /\ SrcFrame /\ UNCHANGED faults

OpenUndrained ==
    /\ src.pc = "open" /\ UNCHANGED <<fileAck, windowAck>>
    /\ IF src.cur \in gone
       THEN src' = [src EXCEPT !.pc = "next", !.warned = TRUE] /\ UNCHANGED toDst
       ELSE /\ src' = [src EXCEPT !.pc = "sending", !.offset = 0, !.acked = 0]
            /\ Emit([t |-> "file", id |-> src.id, f |-> src.cur,
                     mtime |-> src.walk[src.cur], sum |-> version[src.cur]])
    /\ SrcFrame /\ UNCHANGED <<phase, faults>>

\* an attempt: acks are drained, the file is hashed and its header sent
Open ==
    /\ src.pc = "open"
    /\ fileAck' = << >> /\ windowAck' = << >>
    /\ IF src.cur \in gone
       THEN src' = [src EXCEPT !.pc = "next", !.warned = TRUE] /\ UNCHANGED toDst
       ELSE /\ src' = [src EXCEPT !.pc = "sending", !.offset = 0, !.acked = 0]
            /\ Emit([t |-> "file", id |-> src.id, f |-> src.cur,
                     mtime |-> src.walk[src.cur], sum |-> version[src.cur]])
    /\ SrcFrame /\ UNCHANGED <<phase, faults>>

Blocked == src.offset - src.acked >= Window

\* read and send a chunk, then take every ack that is there: the largest counts
SendChunk ==
    LET acks == {src.acked} \cup {windowAck[i] : i \in DOMAIN windowAck} IN
    /\ src.pc = "sending" /\ ~Blocked /\ src.offset < FileChunks
    /\ Emit([t |-> "chunk", id |-> src.id,
             data |-> Content(src.cur, version[src.cur])[src.offset + 1]])
    /\ \E n \in acks :
          /\ \A k \in acks : k <= n
          /\ src' = [src EXCEPT !.offset = @ + 1, !.acked = n]
    /\ windowAck' = << >>
    /\ SrcFrame /\ UNCHANGED <<phase, fileAck, faults>>

TakeAck ==
    /\ src.pc = "sending" /\ Blocked /\ windowAck # << >>
    /\ src' = [src EXCEPT !.acked = IF Head(windowAck) > @ THEN Head(windowAck) ELSE @]
    /\ windowAck' = Tail(windowAck)
    /\ SrcFrame /\ UNCHANGED <<phase, toDst, fileAck, faults>>

EndFile ==
    /\ src.pc = "sending" /\ ~Blocked /\ src.offset = FileChunks
    /\ Emit([t |-> "done", id |-> src.id])
    /\ src' = [src EXCEPT !.pc = "verdict"]
    /\ SrcFrame /\ UNCHANGED <<phase, fileAck, windowAck, faults>>

Verdict ==
    /\ src.pc = "verdict" /\ fileAck # << >> /\ fileAck' = << >>
    /\ \/ Head(fileAck) /\ src' = [src EXCEPT !.pc = "next"]
       \/ /\ ~Head(fileAck) /\ src.attempt + 1 < MaxRetries
          /\ src' = [src EXCEPT !.attempt = @ + 1, !.pc = "open"]
       \/ /\ ~Head(fileAck) /\ src.attempt + 1 >= MaxRetries
          /\ src' = [src EXCEPT !.attempt = @ + 1, !.pc = "next", !.warned = TRUE]
    /\ SrcFrame /\ UNCHANGED <<phase, toDst, windowAck, faults>>

Waiting == src.pc = "verdict" \/ (src.pc = "sending" /\ Blocked)

\* where it waits it notices the cancellation: that too is a migration_failed
Abort ==
    /\ Waiting /\ src.done
    /\ Report("failed")
    /\ SrcFrame /\ UNCHANGED faults

\* two minutes pass without the ack: either it never comes or everything is slow
Quiet ==
    /\ toDst = << >> /\ toSrc = << >>
    /\ (IF src.pc = "verdict" THEN fileAck ELSE windowAck) = << >>

TimeoutVerdict ==
    /\ src.pc = "verdict"
    /\ Report("failed")
    /\ (Quiet /\ UNCHANGED faults) \/ Fault("slow")
    /\ SrcFrame

Timeout ==
    /\ Waiting
    /\ Report("failed")
    /\ (Quiet /\ UNCHANGED faults) \/ Fault("slow")
    /\ SrcFrame

\* listing the directory, or opening, hashing or reading a file fails
ReadError ==
    /\ src.pc \in {"starting", "open"} \/ (src.pc = "sending" /\ ~Blocked)
    /\ Report("failed") /\ Fault("read")
    /\ SrcFrame

\* the reader goroutine hands the acks over; none is kept once the channel is full
TakeVerdictMsg ==
    /\ toSrc # << >> /\ Head(toSrc).t = "fack" /\ toSrc' = Tail(toSrc)
    /\ fileAck' = IF srcUp /\ Registered /\ fileAck = << >> THEN <<Head(toSrc).ok>> ELSE fileAck
    /\ UNCHANGED <<dirVars, backendVars, srcUp, src, windowAck, toDst, dstVars, faults>>

TakeWindowMsg ==
    /\ toSrc # << >> /\ Head(toSrc).t = "wack" /\ toSrc' = Tail(toSrc)
    /\ windowAck' = IF srcUp /\ Registered /\ Len(windowAck) < AckSlots
                    THEN Append(windowAck, Head(toSrc).n) ELSE windowAck
    /\ UNCHANGED <<dirVars, backendVars, srcUp, src, fileAck, toDst, dstVars, faults>>

-----------------------------------------------------------------------------
(* The destination: the handlers of its reader goroutine.                  *)

Receives(t) == toDst # << >> /\ Head(toDst).t = t /\ toDst' = Tail(toDst)

Answer(msg) == toSrc' = Append(toSrc, msg)

DstFrame == UNCHANGED <<dirVars, backendVars, srcUp, srcVars>>

\* what a delta finds at the destination beside the manifest
Scan == [f \in Files |->
            IF manifest[f] = 0 /\ Delta /\ f \in DOMAIN disk THEN disk[f].mtime ELSE manifest[f]]

DstPrepare ==
    /\ Receives("prepare")
    /\ \/ /\ dst' = [Closed EXCEPT !.open = TRUE]
          /\ Answer([t |-> "ready", ok |-> TRUE, completed |-> Scan])
          /\ UNCHANGED faults
       \/ /\ Fault("create")      \* the directory cannot be made
          /\ Answer([t |-> "ready", ok |-> FALSE, completed |-> None]) /\ UNCHANGED dst
    /\ DstFrame /\ UNCHANGED <<disk, manifest>>

DstCancel ==
    /\ Receives("cancel")
    /\ dst' = Closed
    /\ DstFrame /\ UNCHANGED <<toSrc, disk, manifest, faults>>

\* the file is there, and empty
Truncated(f) ==
    [g \in DOMAIN disk \cup {f} |-> IF g = f THEN [data |-> << >>, mtime |-> 0] ELSE disk[g]]

DstFileKeepAcked ==
    LET m == Head(toDst) IN
    /\ Receives("file")
    /\ \/ ~dst.open /\ UNCHANGED <<dst, disk, faults>>
       \/ /\ dst.open
          /\ dst' = [dst EXCEPT !.id = m.id, !.file = m.f, !.sum = m.sum, !.mtime = m.mtime,
                                !.writing = TRUE, !.broken = FALSE, !.fresh = @ \cup {m.f}]
          /\ disk' = Truncated(m.f)
          /\ UNCHANGED faults
    /\ DstFrame /\ UNCHANGED <<toSrc, manifest>>

DstFile ==
    LET m == Head(toDst) IN
    /\ Receives("file")
    /\ \/ ~dst.open /\ UNCHANGED <<dst, disk, faults>>
       \/ /\ dst.open
          /\ dst' = [dst EXCEPT !.id = m.id, !.file = m.f, !.sum = m.sum, !.mtime = m.mtime,
                                !.writing = TRUE, !.acked = 0, !.broken = FALSE,
                                !.fresh = @ \cup {m.f}]
          /\ disk' = Truncated(m.f)
          /\ UNCHANGED faults
       \/ /\ dst.open /\ Fault("create")    \* curFileID stays as it is
          /\ dst' = [dst EXCEPT !.writing = FALSE, !.broken = TRUE] /\ UNCHANGED disk
    /\ DstFrame /\ UNCHANGED <<toSrc, manifest>>

Written == Len(disk[dst.file].data)

DstChunk ==
    LET m == Head(toDst)
        takes == dst.open /\ dst.writing /\ ~dst.broken /\ m.id = dst.id
        acks == Written + 1 - dst.acked >= AckEvery
    IN
    /\ Receives("chunk")
    /\ \/ ~takes /\ UNCHANGED <<toSrc, dst, disk, faults>>
       \/ /\ takes
          /\ disk' = [disk EXCEPT ![dst.file].data = Append(@, m.data)]
          /\ IF acks THEN /\ dst' = [dst EXCEPT !.acked = Written + 1]
                          /\ Answer([t |-> "wack", n |-> Written + 1])
                     ELSE UNCHANGED <<dst, toSrc>>
          /\ UNCHANGED faults
       \/ /\ takes /\ (Fault("corrupt") \/ Fault("write"))
          /\ dst' = [dst EXCEPT !.broken = TRUE] /\ UNCHANGED <<toSrc, disk>>
    /\ DstFrame /\ UNCHANGED manifest

AllWritten == dst.writing

LengthOnly == dst.writing /\ ~dst.broken /\ Written = FileChunks

\* length and SHA-256: the data is that of one version
Verified == dst.writing /\ ~dst.broken /\ disk[dst.file].data = Content(dst.file, dst.sum)

DstFileDone ==
    LET m == Head(toDst) IN
    /\ Receives("done")
    /\ \/ (~dst.open \/ m.id # dst.id) /\ UNCHANGED <<toSrc, dstVars>>
       \/ /\ dst.open /\ m.id = dst.id
          /\ IF Verified
             THEN /\ disk' = [disk EXCEPT ![dst.file].mtime = dst.mtime]
                  /\ manifest' = [manifest EXCEPT ![dst.file] = dst.mtime]
             ELSE /\ disk' = [f \in DOMAIN disk \ {dst.file} |-> disk[f]]
                  /\ UNCHANGED manifest
          /\ dst' = [dst EXCEPT !.writing = FALSE, !.id = 0]
          /\ Answer([t |-> "fack", ok |-> Verified])
    /\ DstFrame /\ UNCHANGED faults

-----------------------------------------------------------------------------
(* Connections and processes end.  An agent that loses its connection shuts *)
(* its sessions down; what was on its way to it is lost, and so is a tail   *)
(* of what it sent.  The backend sees the migration interrupted.            *)

Interrupt == phase' = IF phase \in {"preparing", "running"} THEN "interrupted" ELSE phase

LoseTail(ch, own) ==
    \E k \in 0 .. Len(ch) :
       /\ \A i \in k + 1 .. Len(ch) : ch[i].t \in own
       /\ ch' = SubSeq(ch, 1, k)

SrcLost ==
    /\ srcUp /\ srcUp' = FALSE
    /\ toSrc' = << >> /\ LoseTail(toDst, {"file", "chunk", "done"})
    /\ Interrupt
    /\ UNCHANGED <<dirVars, runs, fileAck, windowAck, dstVars>>

LoseSrc ==
    /\ Fault("losesrc") /\ SrcLost
    /\ src' = IF Registered THEN [src EXCEPT !.done = TRUE] ELSE src

CrashSrc ==
    /\ Fault("crash") /\ SrcLost
    /\ src' = IF src.pc = "none" THEN src ELSE [src EXCEPT !.pc = "end"]

Reconnect ==
    /\ ~srcUp /\ srcUp' = TRUE
    /\ UNCHANGED <<dirVars, backendVars, srcVars, toDst, toSrc, dstVars, faults>>

\* The destination keeps its files and its manifest, and is back before anything it
\* would have to handle: without a session it drops all of it anyway.
DstLost ==
    /\ toDst' = << >> /\ LoseTail(toSrc, {"wack", "fack", "ready"})
    /\ dst' = Closed
    /\ Interrupt
    /\ UNCHANGED <<dirVars, runs, srcUp, srcVars, manifest>>

LoseDst == Fault("losedst") /\ DstLost /\ UNCHANGED disk

\* Power fails: of a file that this session wrote, and closed without Sync, the data may
\* be lost.  The manifest was synced, and the inode with the mtime goes with its commit.
PowerLoss ==
    /\ Fault("power") /\ DstLost
    /\ \E lost \in SUBSET (dst.fresh \cap DOMAIN disk) :
          disk' = [f \in DOMAIN disk |->
                      IF f \in lost THEN [disk[f] EXCEPT !.data = << >>] ELSE disk[f]]

-----------------------------------------------------------------------------
Source ==
    \/ Register \/ NextFile \/ Stop \/ Finish \/ Open \/ SendChunk \/ TakeAck
    \/ EndFile \/ Verdict \/ Abort \/ Timeout \/ ReadError

Destination == DstPrepare \/ DstCancel \/ DstFile \/ DstChunk \/ DstFileDone

Relay == Start \/ TakeVerdictMsg \/ TakeWindowMsg

Next ==
    \/ Source \/ Destination \/ Relay
    \/ Prepare \/ Cancel \/ Reconnect
    \/ LoseSrc \/ CrashSrc \/ LoseDst \/ PowerLoss
    \/ \E f \in Files : Edit(f) \/ Unlink(f)

\* The goroutine runs on (its timers included), messages arrive and are handled, the
\* backend begins the migration, and an agent connects again.
Fairness ==
    /\ WF_vars(Source) /\ WF_vars(Destination) /\ WF_vars(Relay)
    /\ WF_vars(Reconnect) /\ WF_vars(runs = 0 /\ Prepare)

Spec == Init /\ [][Next]_vars /\ Fairness

-----------------------------------------------------------------------------
(* Properties                                                              *)

\* Types of the state (the channels within their capacity).
TypeOK ==
    /\ version \in [Files -> Versions] /\ gone \subseteq Files /\ edits \in 0 .. MaxEdits
    /\ phase \in {"idle", "preparing", "running", "completed", "warned",
                  "failed", "cancelled", "interrupted"}
    /\ runs \in 0 .. MaxRuns /\ srcUp \in BOOLEAN /\ faults \in 0 .. MaxFaults
    /\ src.pc \in {"none", "starting", "next", "open", "sending", "verdict", "end"}
    /\ src.walk \in Known /\ src.completed \in Known
    /\ src.cur \in 0 .. NumFiles /\ src.id \in 0 .. src.cur
    /\ src.attempt \in 0 .. MaxRetries
    /\ src.offset \in 0 .. FileChunks /\ src.acked \in 0 .. src.offset
    /\ Len(fileAck) <= 1 /\ Len(windowAck) <= AckSlots
    /\ DOMAIN disk \subseteq Files /\ manifest \in Known

\* The file f at the destination is one whole version of the source's, v or a later one.
Whole(f, v) ==
    f \in DOMAIN disk /\ \E w \in Versions : w >= v /\ disk[f].data = Content(f, w)

\* An empty file with a source's mtime: its data went with the power (see CrashResistant).
Lost(f) == f \in DOMAIN disk /\ disk[f].data = << >> /\ disk[f].mtime # 0

\* What the destination offers to skip, from its manifest or by a scan, it has: whenever
\* the source would find the mtime unchanged, the content is the source's.  It must hold in
\* the middle of a copy, after a loss and after every crash, because a resume skips the
\* file for good (migration.go:257).
ResumeSafe ==
    \A f \in Files :
        Scan[f] = version[f] /\ ~Lost(f) =>
            f \in DOMAIN disk /\ disk[f].data = Content(f, version[f])

\* A migration reported as completed without a warning has copied every file that was
\* listed, each in one piece, whatever was lost, corrupted, retried, resumed or edited
\* meanwhile (migration.go:278).
DoneMeansCopied ==
    phase = "completed" =>
        \A f \in Files : src.walk[f] # 0 => Whole(f, src.walk[f]) \/ Lost(f)

\* The verdict the source takes for the file it has just sent is about that file and that
\* attempt, though the message is not matched with either (migration.go:423): no late answer
\* of an earlier attempt, file or run passes for it.
OkMeansVerified ==
    src.pc = "verdict" /\ fileAck = <<TRUE>> =>
        /\ manifest[src.cur] = src.walk[src.cur]
        /\ Whole(src.cur, src.walk[src.cur]) \/ Lost(src.cur)

\* Never more than a window of chunks is on its way, though acks of one file could be
\* taken for acks of the next: they carry cumulative bytes and no check of the file.
WindowHolds ==
    Cardinality({i \in DOMAIN toDst : toDst[i].t = "chunk"}) <= Window

\* The flow control does not stall by itself: if the source waits for window and nothing is
\* on its way, then the destination is not writing its file any more.
NoStall ==
    src.pc = "sending" /\ Blocked /\ Quiet =>
        \/ ~srcUp \/ src.done \/ ~dst.open \/ dst.broken
        \/ dst.id # src.id

\* Every run ends: completed, failed or stopped, whatever is lost on the way.
EveryRunEnds == (src.pc = "starting") ~> (src.pc = "end")

\* If nothing goes wrong and nobody edits, the migration completes.
OrderlyCopy == <>(faults > 0 \/ edits > 0 \/ phase = "completed")

\* "Corrupt chunk: mark the file as broken; verification will fail -> resend"
\* (migration.go:681): while only chunks get corrupted, and fewer than maxFileRetries of
\* them, the migration does not fail.
CorruptMeansResend == phase # "failed"

\* "recordCompleted persists a completed file in the manifest's append-only log.  O(1) per
\* file (vs. rewriting the whole map), and crash-resistant." (migration.go:523): what the
\* manifest calls complete is complete after a crash of the machine too.
CrashResistant ==
    \A f \in Files : manifest[f] = version[f] =>
        f \in DOMAIN disk /\ disk[f].data = Content(f, version[f])

=============================================================================
