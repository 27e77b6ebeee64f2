---------------------------- MODULE LogCollector ----------------------------
(***************************************************************************)
(* The log collector (internal/logs): on every connection a goroutine runs *)
(* `journalctl -f` over and over, a second one scans its output into a     *)
(* channel, and the first gathers the lines and sends them.  What is       *)
(* gathered goes out with the send function of the moment, so the last     *)
(* flush of a connection may use the next one's.                           *)
(*                                                                         *)
(* The grouping by service is left out: a flush sends every group.         *)
(***************************************************************************)
EXTENDS Integers, Sequences, FiniteSets

CONSTANTS
    MaxEntries,   \* bound: journal entries
    MaxLinks,     \* bound: connections
    MaxExits,     \* bound: journalctl ending by itself
    LineSlots,    \* the channel's capacity (256)
    BatchLines,   \* maxBatchLines (200)
    Backlog       \* backlogLines (30)

ASSUME LogAssumption ==
    /\ MaxEntries \in Nat /\ MaxLinks \in Nat \ {0} /\ MaxExits \in Nat
    /\ LineSlots \in Nat \ {0} /\ BatchLines \in Nat \ {0} /\ Backlog \in Nat

Links == 1 .. MaxLinks

\* an entry to collect; one that allowed refuses, as the agent's own units; one that is not
\* a journalEntry; one longer than the scanner's buffer of 1 MB
Kinds == {"line", "refused", "malformed", "huge"}

VARIABLES
    journal,    \* the entries journald has
    link,       \* the number of the last connection
    live,       \* it is up, and its send function installed
    fol,        \* the goroutines of each connection's Start
    exits,      \* how often journalctl ended by itself
    sent,       \* the entries the backend got
    skipped     \* the entries that a journalctl began after

logVars == <<journal, link, live, fol, exits, sent, skipped>>

Idle == [pc |-> "none", runs |-> FALSE, pos |-> 0, scans |-> FALSE, lines |-> <<>>, pending |-> <<>>]

LogInit ==
    /\ journal = <<>> /\ link = 0 /\ live = FALSE
    /\ fol = [g \in Links |-> Idle]
    /\ exits = 0 /\ sent = {} /\ skipped = {}

Done(g) == ~live \/ g # link    \* the connection's context

Entries(s) == {s[i] : i \in DOMAIN s}

\* journald
LogEmit(k) ==
    /\ Len(journal) < MaxEntries /\ journal' = Append(journal, k)
    /\ UNCHANGED <<link, live, fol, exits, sent, skipped>>

\* OnConnect: Start, after the Stop of the one before
LogConnect ==
    /\ ~live /\ link < MaxLinks
    /\ link' = link + 1 /\ live' = TRUE
    /\ fol' = [fol EXCEPT ![link + 1].pc = "run"]
    /\ UNCHANGED <<journal, exits, sent, skipped>>

LogDisconnect ==
    /\ live /\ live' = FALSE
    /\ UNCHANGED <<journal, link, fol, exits, sent, skipped>>

-----------------------------------------------------------------------------
(* run and follow.                                                         *)

\* the context is looked at, and journalctl begun with the last entries
Follow(g) ==
    LET first == IF Len(journal) > Backlog THEN Len(journal) - Backlog + 1 ELSE 1 IN
    /\ fol[g].pc = "run" /\ ~Done(g)
    /\ fol' = [fol EXCEPT ![g] = [Idle EXCEPT
           !.pc = "follow", !.runs = TRUE, !.pos = first, !.scans = TRUE]]
    /\ skipped' = skipped \cup (1 .. first - 1)
    /\ UNCHANGED <<journal, link, live, exits, sent>>

RunEnds(g) ==
    /\ fol[g].pc \in {"run", "pause"} /\ Done(g)
    /\ fol' = [fol EXCEPT ![g] = [Idle EXCEPT !.pc = "end"]]
    /\ UNCHANGED <<journal, link, live, exits, sent, skipped>>

\* rotation or an error; or the context is done and it is killed
JournalctlExits(g) ==
    /\ fol[g].runs /\ fol' = [fol EXCEPT ![g].runs = FALSE]
    /\ \/ Done(g) /\ UNCHANGED exits
       \/ ~Done(g) /\ exits < MaxExits /\ exits' = exits + 1
    /\ UNCHANGED <<journal, link, live, sent, skipped>>

HasInput(g) == fol[g].runs /\ fol[g].pos <= Len(journal)

ScanIntolerant(g) ==
    LET k == journal[fol[g].pos] IN
    fol' = [fol EXCEPT ![g].pos = @ + 1,
                       ![g].lines = IF k \in {"line", "refused"} THEN Append(@, fol[g].pos) ELSE @,
                       ![g].scans = k \notin {"huge", "malformed"}]

\* what the scanner does with the next entry: it goes on after one it cannot parse, and
\* stops at one it cannot hold
ScanNext(g) ==
    LET k == journal[fol[g].pos] IN
    fol' = [fol EXCEPT ![g].pos = @ + 1,
                       ![g].lines = IF k \in {"line", "refused"} THEN Append(@, fol[g].pos) ELSE @,
                       ![g].scans = k # "huge"]

Scan(g) ==
    /\ fol[g].scans /\ HasInput(g) /\ Len(fol[g].lines) < LineSlots /\ ScanNext(g)
    /\ UNCHANGED <<journal, link, live, exits, sent, skipped>>

\* the output ends, or the channel is full and the context done
ScanEnds(g) ==
    /\ fol[g].scans /\ (~fol[g].runs \/ (Done(g) /\ Len(fol[g].lines) = LineSlots))
    /\ fol' = [fol EXCEPT ![g].scans = FALSE]
    /\ UNCHANGED <<journal, link, live, exits, sent, skipped>>

\* flush: send does nothing while there is no send function
Sent(p) == IF live THEN sent \cup Entries(p) ELSE sent

FlushTick(g) ==
    /\ fol[g].pc = "follow" /\ fol[g].pending # <<>>
    /\ sent' = Sent(fol[g].pending) /\ fol' = [fol EXCEPT ![g].pending = <<>>]
    /\ UNCHANGED <<journal, link, live, exits, skipped>>

\* toLine has a message, and allowed lets its service pass
Collected(e) == journal[e] = "line"

GatherLate(g) ==
    LET e == Head(fol[g].lines)
        p == IF Collected(e) THEN Append(fol[g].pending, e) ELSE fol[g].pending
        full == Len(p) > BatchLines
    IN
    /\ fol[g].pc = "follow" /\ fol[g].lines # <<>>
    /\ fol' = [fol EXCEPT ![g].lines = Tail(@), ![g].pending = IF full THEN <<>> ELSE p]
    /\ sent' = IF full THEN Sent(p) ELSE sent
    /\ UNCHANGED <<journal, link, live, exits, skipped>>

Gather(g) ==
    LET e == Head(fol[g].lines)
        p == IF Collected(e) THEN Append(fol[g].pending, e) ELSE fol[g].pending
        full == Len(p) >= BatchLines
    IN
    /\ fol[g].pc = "follow" /\ fol[g].lines # <<>>
    /\ fol' = [fol EXCEPT ![g].lines = Tail(@), ![g].pending = IF full THEN <<>> ELSE p]
    /\ sent' = IF full THEN Sent(p) ELSE sent
    /\ UNCHANGED <<journal, link, live, exits, skipped>>

FollowEndsUnflushed(g) ==
    /\ fol[g].pc = "follow" /\ (Done(g) \/ (~fol[g].scans /\ fol[g].lines = <<>>))
    /\ fol' = [fol EXCEPT ![g].pc = "wait", ![g].pending = <<>>,
                       ![g].scans = FALSE, ![g].lines = <<>>]
    /\ UNCHANGED <<journal, link, live, exits, sent, skipped>>

\* the channel is closed and empty, or the context done: a last flush, and Wait; what the
\* scanner may still do reaches nobody
FollowEnds(g) ==
    /\ fol[g].pc = "follow" /\ (Done(g) \/ (~fol[g].scans /\ fol[g].lines = <<>>))
    /\ sent' = Sent(fol[g].pending)
    /\ fol' = [fol EXCEPT ![g].pc = "wait", ![g].pending = <<>>,
                       ![g].scans = FALSE, ![g].lines = <<>>]
    /\ UNCHANGED <<journal, link, live, exits, skipped>>

\* Wait returns when journalctl has ended: nobody ends it if it was the scanner that stopped
WaitReturns(g) ==
    /\ fol[g].pc = "wait" /\ ~fol[g].runs
    /\ fol' = [fol EXCEPT ![g].pc = "pause"]
    /\ UNCHANGED <<journal, link, live, exits, sent, skipped>>

\* three seconds
PauseEnds(g) ==
    /\ fol[g].pc = "pause" /\ fol' = [fol EXCEPT ![g].pc = "run"]
    /\ UNCHANGED <<journal, link, live, exits, sent, skipped>>

-----------------------------------------------------------------------------
RunStep(g) == Follow(g) \/ RunEnds(g) \/ Gather(g) \/ FollowEnds(g) \/ WaitReturns(g) \/ PauseEnds(g)
ScanStep(g) == Scan(g) \/ ScanEnds(g)

LogNext ==
    \/ \E k \in Kinds : LogEmit(k)
    \/ LogConnect \/ LogDisconnect
    \/ \E g \in Links : RunStep(g) \/ ScanStep(g) \/ FlushTick(g) \/ JournalctlExits(g)

\* The goroutines go on, the ticker ticks, and a context that is done kills journalctl.
LogFairness ==
    /\ WF_logVars(\E g \in Links : RunStep(g) \/ ScanStep(g) \/ FlushTick(g))
    /\ \A g \in Links : WF_logVars(Done(g) /\ JournalctlExits(g))

LogSpec == LogInit /\ [][LogNext]_logVars /\ LogFairness

-----------------------------------------------------------------------------
(* Properties                                                              *)

\* Types, and that neither the channel nor a batch is ever longer than it may be.
LogTypeOK ==
    /\ journal \in Seq(Kinds) /\ link \in 0 .. MaxLinks /\ live \in BOOLEAN
    /\ fol \in [Links -> [pc : {"none", "run", "follow", "wait", "pause", "end"}, runs : BOOLEAN,
                          pos : 0 .. MaxEntries + 1, scans : BOOLEAN,
                          lines : Seq(1 .. MaxEntries), pending : Seq(1 .. MaxEntries)]]
    /\ exits \in 0 .. MaxExits /\ sent \subseteq 1 .. MaxEntries /\ skipped \subseteq 1 .. MaxEntries
    /\ \A g \in Links : Len(fol[g].lines) <= LineSlots /\ Len(fol[g].pending) < BatchLines

\* No line that the connection's journalctl has printed is lost while the connection is up:
\* whichever of its two goroutines goes on, whether journalctl ends, a batch fills or the
\* scanner gives up, it has been sent or is held for the next flush (collector.go:149-203).
NoLineLost ==
    live => \A i \in 1 .. fol[link].pos - 1 : journal[i] = "line" =>
        i \in sent \cup skipped \cup Entries(fol[link].lines) \cup Entries(fol[link].pending)

Stalled == \E i \in DOMAIN journal : journal[i] = "huge"

\* Every line to collect that is in the journal while there is a connection reaches the
\* backend, though journalctl ends and begins again, the journal holds what cannot be
\* parsed and a line may never fill a batch: unless the connection goes first, a new
\* journalctl begins after it, or an entry over 1 MB stops the collection until the next
\* connection (collector.go:166).
LinesArrive ==
    \A i \in 1 .. MaxEntries :
        (live /\ i \in DOMAIN journal /\ journal[i] = "line") ~>
            (i \in sent \/ ~live \/ i \in skipped \/ Stalled)

=============================================================================
