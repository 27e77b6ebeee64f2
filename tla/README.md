# auranode-agent, formally

TLA+ models of the agent, TLC configurations that check them, and TLAPS proofs
of what matters most. `src/` is the agent at one commit; every definition is
translated from its code, and `PROJECT.json` ("map") names the lines.

## The system

The agent runs on a user's server. It keeps one WebSocket to a backend, streams
metrics and logs over it, and carries out what the backend asks for: commands,
shells, port forwarding, migrations of files between two agents, database
administration.

| component | state | operations | correct when |
|---|---|---|---|
| connection (`connection/client.go`) | attempt, the socket, reader and drainer goroutines | dial, serve, ping, dispatch, back off | a working connection always comes back; waits stay within 2 s and 5 min |
| agent (`agent/agent.go`) | send functions, intervals, the loops of a connection | OnConnect, OnDisconnect, OnExec..., metrics, heartbeat and health loops | no holder keeps the send function of a dead connection; loops and sessions die with their connection |
| offline buffer (`buffer/buffer.go`) | a bbolt bucket, capped | Push, Drain, Count | a broken connection neither loses nor doubles a snapshot; the cap holds; Push ends |
| tunnels (`tunnel/tunnel.go`) | per stream: conn, inbox, credits, flags | StartListener, OpenDest, Ack, Data, AddCredit, CloseStream, StopListener, relay | bytes in order and complete, window respected, nothing left open or waiting |
| migration (`migration/migration.go`) | source and destination sessions, window, manifest | prepare, start, file, chunk, done, acks, retry, resume, cancel | what a resume skips is there; a clean completion copied everything; a transfer ends |
| rule engine (`rules/engine.go`) | rules, per rule: since, last fired, fired today | Sync, Evaluate, fire | cooldown and daily cap hold under concurrent evaluations |
| terminals (`terminal/terminal.go`) | sessions by id, a shell and a readLoop each | Start, Data, Resize, Close, Shutdown | no shell is lost, none is killed for another's end, its end is told |
| database (`database/*.go`) | send function, dump files | a goroutine per request: dump, restore, delete, and driver calls | what was reported of a dump or a restore holds |
| privileged helper (`privileged/*.go`) | one lock, a goroutine per connection | execute a whitelisted action | one action at a time, whatever the client does; every action is answered |
| executor (`executor/exec.go`) | a process and its pipes | Run | every command is answered, within its timeout |
| log collector (`logs/collector.go`) | follower, scanner, channel, batch | Start, Stop, run, follow, flush | every line that is to be collected arrives |
| updater (`updater/updater.go`) | the release known | check, notify | every connection hears of a known release |
| file manager, drivers, collectors, configuration, protocol, installer | none worth speaking of | one call each | |

How they interact. `Client.Run` is one goroutine; for each connection it calls
`OnConnect`, which hands a send function to every manager and starts loops on
the context of that connection, then starts a reader, which *calls the handlers
of the managers synchronously*, and a drainer, which pings. At the end it calls
`OnDisconnect`, which takes the send functions back and shuts the managers
down, and only then cancels the context and closes the socket. Nothing waits for
the reader, the loops or the goroutines of the managers: those of one connection
may still be at work when the next one is up.

What is hard: goroutines that outlive their connection; state read under a lock
and used after it; two agents and a backend in between, with credits and
half-closes crossing; faults between any two steps; a buffer at its cap;
counters that leave their range. `PROJECT.json` ("hazards") lists each place.

## The modules

### TunnelStream: one forwarded TCP connection

Both agents of one stream (`src` accepted a local connection, `dst` dials the
target), the messages in flight between them, and the applications at both
ends. `pc[e]` is the goroutine that sets the stream up and then reads the local
connection, `wpc[e]` the writer; `Deliver(e)` is a handler called by the
WebSocket reader; `Stop(e)` is `StopListener`. A lock region of the code is one action; a place
where the code gives the lock up is a boundary between two: `Reserve` / `Park` /
`Woken` are the three parts of `takeCredit`, because `abort` broadcasts without the lock.

Bytes are positions: a chunk is an interval of the sender's stream, so that loss
and reordering show. The backend is external: it keeps messages in order and may
drop the flow-control flag (an older backend does).

`FlowPipe` is what each direction promises the two applications: a bounded pipe
in order, whose end of file means that everything arrived. `BothPipes` says that
TunnelStream implements one in each direction.

### AgentConnection: connections, and what hangs on them

`run` is the program counter of `Client.Run`, with one step per send function in
`OnConnect` (`ConnectOrder`) and one per call in `OnDisconnect` (`DisconnectOrder`).
Connections are numbered by their dial; reader, drainer and loops are per
connection and go on until they notice. A session of a manager is the number of
the connection that asked for it; TunnelStream is what such a session does
inside. `late` remembers the sessions that were registered after the Shutdown
that was to end them.

Faults: the connection breaks ("drop"), or what the agent writes no longer gets
through ("mute"), a dial fails, the process is killed and restarted (systemd's
`Restart=on-failure`), SIGTERM. `backoff` is computed as the code does, with the overflow of
`time.Duration` at attempt 34.

### AgentLink: what the client promises to the loops

Connections follow one another; a context is cancelled before its socket is
closed, and that before the next dial; a broken connection is replaced.
AgentConnection implements it, with its fairness (`ImplementsLink`).

### MetricPath: metrics and the offline buffer

The metrics loop and the `drainBuffer` goroutine of every connection, on
AgentLink's connections, and the buffer. A bbolt write transaction is begun (and excludes the others), turns
the loop that makes room (`DropFirst`), and commits; until then the others see the bucket as it
was. `lost` and `torn` are history: what the cap, a failed commit, a crash or
SIGTERM took.

`StatsSeePending` says what `Bucket.Stats` counts. bbolt's counts the keys of
the committed pages (FALSE); Push is written as if it counted those of the open
transaction (TRUE). `metrics_path` checks the design as it was meant,
`metrics_livelock` what the library makes of it. With FALSE a push on a full
buffer never commits, so nothing `metrics_path` shows becomes wrong.

### Migration: a directory copied from one agent to the other

The `startSource` goroutine (`src.pc`, with `sendFile` and `streamChunks`), the
handlers of both reader goroutines, the two channels of the `srcSession`, the
destination's session, files and manifest, and the backend that relays,
prepares, starts, cancels and resumes. A chunk of file *f* is `<<f, v, i>>`,
with *v* the version read: that a file is one version, and which, can be asked.
The SHA-256 of a file stands for its version, as does its mtime.

A send is one action with the reading of the acks after it, an attempt one with
the draining of the acks before it (`Open`). Acks carry no file id that anybody
looks at; they are delivered late, dropped when the channel is full, and left
over from an attempt before. Faults: a corrupt chunk, a failed write, a file that cannot
be created or read, an ack later than two minutes, a lost connection of either
agent, a crash of the source, a cancellation, and a power failure at the
destination, which takes the data of files that were never synced. Meanwhile
source files are edited and removed.

### RuleEngine: concurrent evaluations of one rule

`Evaluate` copies the rules under the lock, *then* reads the clock, then decides
under the lock again: three actions, since each snapshot is evaluated in a
goroutine of its own. A `Sync` in between changes what the next evaluation
copies; the rule's state stays. Days are two functions of time, the calendar's and `YearDay()`, which is
what the code compares.

### Terminals, Commands: what the reader goroutine starts

Terminals has the reader goroutine in a call and its argument (`reader`), so
that what waits inside a handler is visible: `Data` writes to the terminal in
that goroutine. `cleanup` is two actions, the session taken out of the map and
its shell killed, for each of its three callers. Commands adds `exec` and
`sys_action`; both run in goroutines of their own, `exec` also when it is not
async. A process has an end of its own and children (`kids`) that may keep its output
open, which is what `Run` waits for. The helper is the socket, a goroutine per
connection, and the mutex.

### DumpStore, LogCollector, UpdateNotice

DumpStore: each dump and each restore is a goroutine on a directory nobody
locks; a dump runs through its tool, its gzip writer and the question for its size, and
any of it may find the name deleted. LogCollector: `run`, `follow`, the
scanner's goroutine and its channel of the followers of all connections, of
which the old ones may still flush. UpdateNotice: `checkOnce` records and then
looks for a send function, `OnConnect` installs one and then looks for a
release; each step is an action.

### MCServices: the services together

These share no state (Terminals and Commands share the reader), so
a product of their states would show nothing: one of them is in focus in each
behaviour and moves, the others stay where they began.

### Proof modules

`TunnelStreamFlow` (the inductive invariant of the stream, and lemmas on
sequences, typing, control, channels, credits), `TunnelStreamProofs`,
`FlowPipeProofs`, `AgentConnectionProofs`, `MetricPathProofs`,
`RuleEngineProofs`, `MigrationProofs` and `ServiceProofs` (UpdateNotice,
Commands, Terminals, DumpStore, LogCollector).

## The runs

| run | shows | bounds |
|---|---|---|
| stream_faults | types, window, order, no truncation, no orphan connection, both pipes implemented, under all faults | window 2, reads of up to 2, inbox of 1 (overflows), 1 and 3 bytes, flag kept or dropped |
| stream_orderly | without faults every byte arrives and both ends close; the inbox never overflows | window and inbox 2, 2 and 3 bytes: one side sends more than a window |
| stream_lost_wakeup | **finding**: `abort` can miss the reader that is about to wait for credit | window 1, 4 bytes one way |
| agent_lifecycle | types; send functions handed over; Shutdown complete; loops end; the agent ends up connected; AgentLink implemented | 2 faults of 5 kinds, so up to 3 connections; 1 session start |
| agent_orphan | **finding**: a session registered after Shutdown outlives its connection | 1 fault, 1 start |
| metrics_path | no loss, doubling or resending by a disconnection; the cap holds and drops no more than it must | 3 connections, 3 snapshots, cap 2, 1 crash, SIGTERM or failed commit |
| metrics_livelock | **finding**: Push on a full buffer never ends | cap 1 |
| migration | what is offered to skip is there; a clean completion copied everything; a verdict is about its attempt; the window holds and does not stall; every run ends; a quiet one completes | 2 files of 3 chunks, window 2, an ack per chunk, 2 acks kept, 2 attempts, 2 runs, 1 edit, 2 faults of 10 kinds, with the delta scan |
| migration_corrupt | **finding**: after a corrupt chunk the file is not sent again, the migration fails | the same with 1 run and 1 corrupt chunk |
| migration_power | **finding**: the manifest is synced, the file is not: a power failure leaves an empty file that every resume skips | 2 files of 2 chunks, 2 runs, 1 power failure |
| services | cooldown and daily cap; no stray shell and every end told; one action at a time and every job answered; reports on dumps hold; the notice is given; no line of the log is lost between the goroutines that handle it, and every line arrives | see below |
| exec_timeout | **finding**: a command with a child in the background outlives its timeout, and `Run` does not return | 1 command, 1 action |

The services: two evaluations at a time over four instants, two days of two
instants each, whose `YearDay` may repeat, cooldown 2, one fire a day; two
sessions and two shells, a terminal with room for one write; one command and
two actions; two dumps, one by mongodump, one restore; two journal entries over
two connections, a channel of one and a batch of two; four tags (one a
prerelease of another, one that is older) and two connections.

Why these bounds are enough to be interesting. A window of 2 with reads of up to
2 has partial reads, a reserve larger than the read, and an empty credit with
bytes in flight; 3 bytes exceed it. Three connections let goroutines of the
first meet the second and those of the second fail to the third, which is what
a put-back batch needs. Two faults give a fault during the handling of another.
Two entries under a cap of two, and a third snapshot, give a batch longer than
one and a push that drops. Three chunks exceed the migration's window, two files let
acks of the first be there during the second, two runs are a resume and two
attempts a retry. Two evaluations overtake one another across a midnight; two
shells are one id closed and used again. Two actions are one that waits for the
other's lock. In the runs with `CHECK_DEADLOCK FALSE` a deadlock is a legitimate
end: the stream is over, the faults and snapshots are used up, the migration
and the requests are answered, or the process has stopped.

Also found, by runs this project had and gave up for others, as the steps that
lead there are still in the models:

- `tunnel.go:477`: a stream that is reset while its reader waits for credit
  ends there without `tunnel_close`: the peer's half stays open for good.
- `tunnel.go:328`: a stop while the destination dials leaves `s.conn` set on a
  stream that is already gone, and its connection open.
- `tunnel.go:374`: the inbox has 2048 places for chunks, the window 262144
  bytes: chunks under 128 bytes overflow it within the window, and the stream is reset.
- `client.go:369`: from attempt 34 on `time.Duration` overflows, and the wait may be 0.
- `agent.go:490`: the loop of an old connection may store a snapshot after the
  new `drainBuffer` has looked; it waits for the connection after that.

## Fairness

TunnelStream: every goroutine of a live process is scheduled, and messages in
flight are delivered (weak fairness of each). AgentConnection: the same for its
goroutines; a backoff ends (it is a timer); a dial to a backend that is there
succeeds, as a failed one is a fault and faults are finitely many. A broken
connection is noticed because a ping to it fails in the end (the socket's error
or the pong timeout). No fairness for faults, backend requests or ends of
sessions. MetricPath: the connection moves on and both goroutines of each
connection run; weak fairness suffices to get bbolt's writer lock, as there are
finitely many pushes.

Migration: the goroutine runs on, its timers included; what is on its way is
delivered and handled; an agent reconnects; the backend begins the migration.
Nothing is assumed of a resume, a cancellation, an edit or a fault.
Terminals (`TermFairness`): as long as a goroutine can go on, or a shell can
read what was typed, one of them does. Commands (`CmdFairness`): timers fire,
`Run` returns when it can, the mutex is handed on. `KidsFairness`, that what a
command leaves in the background ends some time, is assumed by `services` only:
the code does not see to it, and `exec_timeout`, without it, shows what happens.
LogCollector (`LogFairness`): the goroutines and the ticker go on, and a context
that is done kills its journalctl.

## What is proved

For every value of the constants (any window, buffer, amount of data; any number
of connections, faults, evaluations, requests, sessions), by TLAPS:

- **TunnelStreamProofs**: `TypeCorrect`, `Backpressure` (WindowRespected),
  `NoLossOrReordering` (BytesInOrder), `CleanEndIsComplete` (NoTruncation),
  `ConnectionsEnd` (NoOrphanConn), `Refinement` (BothPipes), and
  `RoomForTheWindow`: the inbox never overflows if it has as many places as the
  window has bytes, which is the condition the constants of the code miss.
- **FlowPipeProofs**: `PipePromise`, what a pipe gives the applications.
- **AgentConnectionProofs**: `TypeCorrect` (TypeOK), `SendFunctions`
  (SendIsCurrent), `Shutdowns` (ShutdownIsComplete), `BackoffUntilItWraps`: the wait
  before an attempt is within its bounds for all attempts but those whose
  `time.Duration` overflows, and `Refinement`: AgentLink's initial states and steps
  (LinkSpec, the safety part of ImplementsLink).
- **MetricPathProofs**: `NothingLostOrDoubled` (Conserved), `CapHolds`
  (CapRespected), `NoNeedlessDrop` (DropsOnlyAtCap) and `TypeCorrect`
  (MetricTypeOK).
- **MigrationProofs**: `ResumeIsSafe` (ResumeSafe), `CompletionIsCopy`
  (DoneMeansCopied), `VerdictIsAboutFile` (OkMeansVerified), `WindowIsKept`
  (WindowHolds), `FlowNeverStalls` (NoStall) and `TypeCorrect`, for any number of
  files, chunks, attempts, runs, edits and faults, any window of at least
  `windowAckEvery` and any capacity of the ack channel. `OnlyPowerTears`: where the
  power does not fail (`"power" \notin FaultKinds`, its only hypothesis)
  CrashResistant holds; the power is the whole cause of what `migration_power` finds.
- **RuleEngineProofs**: `RuleTypes`, `RuleCooldown` (CooldownKept), `RuleDailyCap`
  (DailyCap).
- **ServiceProofs**: `DumpReports` (ReportsHold),
  `UpdateTold` (NoticeGiven), `ActionsAlone` (OneActionAtATime),
  `NoShellLost` (NoStrayShell), `LogTypes` (LogTypeOK), `LinesKept` (NoLineLost).

The argument for the stream. None of the properties is inductive. `IInv` adds
where both goroutines are and what has ended by then (ControlInv), that each
message of the handshake exists once and finds its receiver (HandshakeInv), that
the messages in flight carry consecutive pieces of the sender's stream (NetInv),
that the inbox continues what was delivered up to what arrived (InboxInv), that
a close follows the last byte (CloseInv), and the window as an equation over
credit, reserve, flight and grants that already holds before the flag is known
(CreditInv). One lemma per part and kind of step carries it.

The argument for the connection. `SendIsCurrent` needs how far `OnDisconnect`
has got: the functions of the steps behind are gone (Handover). `ShutdownIsComplete`
needs that nothing belongs to a connection that was not dialled yet (Dialled), so
that the Shutdown step of a kind is the moment its obligation begins. The
refinement (`LinkInv`) needs where the connection stands while Run is at each of its
steps (Current), that nobody is greeted twice (Welcomed), and that connections are
paid for: each but one that still works, by a fault (Paid). That is why MaxConns bounds no behaviour: a dial never finds
the numbers used up.

The argument for the buffer. The cap says nothing of a transaction that is open:
`Room` says it sees no more than is stored, `Drops` that it sees less only after
it had to make room. Both ways of counting keys are covered: with the committed
count a full buffer is never written to at all. That whoever has the transaction
is pushing something (Held) needs that nothing of a connection runs before its
greeting (Started), or a restart could leave it running. That nothing is lost or
doubled is about copies: `PlaceInv` has the places a snapshot can be (sent, stored, in
the hands of a metrics loop or of a drainer), and says that each one taken and not
recorded as lost is at exactly one of them (Placed), and there once (Single), and that
the open transaction's bucket has nothing that is not stored (Inside). Every step moves
one snapshot, or a batch, from a place to another.

The argument for the migration. Two facts carry the rest. Nothing of an earlier
attempt is under way when the next one begins (`TurnInv`): the source goes on
only after a verdict, the verdict is the last message of an attempt, and the
backend resumes only after the source's goroutine has ended; so a verdict needs no
file id, and an ack is about the file being sent (`AboutInv`, `ChannelInv`). And a
file of the destination with an mtime is one whole version of the source's, not
older than that mtime (`DiskInv`), because the mtime is set after the verification
and a file that is opened again is truncated first. `WalkInv` ties the resume set the
source works with, which is older than what it meets, to the manifest: it can only
miss copies, never invent one. `CopyInv` and `DoneInv` carry that through the
file at hand to the report; `WindowInv` keeps every chunk under way between the last ack
and the offset, in order, whence the window. That no data is lost but to the power is
in the theorems (`Lost`); that the power can take it is the finding of CrashResistant,
that nothing else can is `Untorn`, on top of the invariant.

The argument for the flow control (`FlowInv`). Before the file's header arrives
everything sent is behind it (Heading). Then what was sent is written or on its way,
what was written is acked but for less than AckEvery, and the acks the source has, those in
the channel and those on their way ascend by AckEvery at least (Flowing, Ascending). An
ack that finds the channel full is dropped; but the ones that fill it are newer than the
last one taken, so that the newest of them leaves the destination less than a window
behind (Acked). With nothing under way the source has window again.

The argument for the rules. Evaluations overtake one another, but fires do not
happen out of order (Ordered): one that carries an older time than the last fire
fails the test for the cooldown, whose difference is negative then. So the
counter, which is reset when the day changes, has counted at least the fires of
the day of the last one (Counted); two days with the same `YearDay` only make
it count more.

The argument for the dumps. Between the tool's end and the report a dump has
four more steps. `CopiedAll`: a tool that ended well, with its reader still
there, has had all of it written. `StatWhole`: whoever asks for the size has a
file with a trailer. `Unreported`: no verdict before the end. `SoundSource`: a
restore of a dump that was reported has a complete file open, deleted or not.

The argument for the services. `Notice`: whoever has published and not looked
yet will tell. `Mutex`: a process, or a child of one, is only where the mutex
is. `Shelf` and `Kept`: a shell that was started and not waited for is in the
map or in one pair of hands, and what a readLoop takes is its own. `Scanned`: the
scanner of a connection is inside the journal, and nothing runs of a connection still to come; so what
is before it was scanned by this journalctl, skipped, or taken by the one before,
whose last flush NoLineLost has already counted.

Assumptions: those the modules name (ASSUME), and the abstractions below.

## What is only model-checked

Liveness (OrderlyDelivery, LoopsEnd, StaysConnected, the fairness part of
ImplementsLink, EveryRunEnds, OrderlyCopy, EndIsReported, EveryJobAnswered,
LinesArrive) and anything with ENABLED is out of the prover's reach. Every
invariant and every action property of a passing run is a theorem. That
the wait may be 0 from attempt 34 on is part of the model (`Backoff`): the theorems
bound every wait (TypeCorrect: 0, or 2 s to 5 min) and exclude the 0 before that
attempt (BackoffUntilItWraps).

## What is assumed of the outside

- The backend keeps messages in order. It reuses a session id of a terminal only
  after the agent's `pty_close`, resumes a migration only after the source's
  goroutine has ended, and chooses a window of at least `windowAckEvery`
  (nothing in the code checks it: a smaller one stalls in every file).
- An edit of a source file changes its mtime by the second, which is what the
  skip relies on (`migration.go:258`).
- No two dumps of a database begin in one second, which is what their names
  rely on (`backup.go:86`).

## Not modelled, and why

- The file manager, the database drivers, the collectors: a request or a tick is
  one call, without state of the agent; its result is lost if its
  connection is gone. Configuration, entry point and installer run once.
- Of the migration: the estimate before a transfer, which only reads; the
  progress message, which nobody waits for; paths that leave the directory,
  which are refused.
- Of the agent: file operations and configuration messages (an interval that the
  loops take up at their next tick).
- Contents: messages are their kind and the piece of data they carry, a
  snapshot is a number, a session a connection number or a model value. Formats,
  compression and log texts play no part in the properties.
- Time: a timer may end at any moment after it was set, save the rules' clock
  and the backoff, which is computed.
- An agent without a buffer (bbolt could not be opened) just drops snapshots.
- A write to a dead socket may succeed; what the network then loses counts as
  sent, as it does in the code.
- Induction over data and recursive operators are not available to the prover,
  so lemmas about sequences are stated by index.

## Plan

Done: the modules and proofs above. What is left of the plan:

1. **Findings**: theorems that isolate the cause of the other findings, as
   OnlyPowerTears does for one.
2. **DumpStore**: two dumps under one name; the listing.
3. **AgentConnection**: the handler of `config_update` and its intervals.
