--------------------------- MODULE MigrationProofs ---------------------------
(***************************************************************************)
(* Safety of Migration for any number of files, chunks, runs, edits and    *)
(* faults, any window of at least AckEvery and any number of AckSlots.     *)
(***************************************************************************)
EXTENDS Migration, FiniteSetTheorems, SequenceTheorems, TLAPS

-----------------------------------------------------------------------------
(* The inductive invariant.                                                *)

Chunks == Files \X Versions \X (1 .. FileChunks)
Ids == Nat \ {0}
Mtimes == Versions \cup {0}

\* The messages to the destination, to the source, and the ones the source sends.
Commands ==
    [t : {"prepare", "cancel"}]
    \cup [t : {"file"}, id : Ids, f : Files, mtime : Versions, sum : Versions]
    \cup [t : {"chunk"}, id : Ids, data : Chunks]
    \cup [t : {"done"}, id : Ids]
Answers ==
    [t : {"ready"}, ok : BOOLEAN, completed : Known]
    \cup [t : {"wack"}, n : Nat]
    \cup [t : {"fack"}, ok : BOOLEAN]
Own == {"file", "chunk", "done"}

PCs == {"none", "starting", "next", "open", "sending", "verdict", "end"}
Phases == {"idle", "preparing", "running", "completed", "warned", "failed", "cancelled",
           "interrupted"}
SrcSessions ==
    [pc : PCs, done : BOOLEAN, cur : 0 .. NumFiles, id : Nat, attempt : 0 .. MaxRetries,
     offset : 0 .. FileChunks, acked : Nat, warned : BOOLEAN, walk : Known, completed : Known]
DstSessions ==
    [open : BOOLEAN, id : Nat, file : 0 .. NumFiles, sum : Mtimes, mtime : Mtimes,
     writing : BOOLEAN, acked : Nat, broken : BOOLEAN, fresh : SUBSET Files]
DstFiles == [data : Seq(Chunks), mtime : Mtimes]

DirTypes ==
    /\ version \in [Files -> Versions] /\ gone \subseteq Files /\ edits \in 0 .. MaxEdits
    /\ \A f \in Files : version[f] <= edits + 1
BackendTypes ==
    /\ phase \in Phases /\ runs \in 0 .. MaxRuns /\ (phase = "preparing" => runs < MaxRuns)
    /\ srcUp \in BOOLEAN /\ faults \in 0 .. MaxFaults
SrcTypes ==
    /\ src \in SrcSessions /\ fileAck \in Seq(BOOLEAN) /\ windowAck \in Seq(Nat)
    /\ src.pc \in {"open", "sending", "verdict"} => src.attempt < MaxRetries
NetTypes == toDst \in Seq(Commands) /\ toSrc \in Seq(Answers)
DstTypes ==
    /\ dst \in DstSessions /\ manifest \in Known
    /\ DOMAIN disk \subseteq Files /\ disk \in [DOMAIN disk -> DstFiles]

Types == DirTypes /\ BackendTypes /\ SrcTypes /\ NetTypes /\ DstTypes

\* Where a message may be in its channel.
Cancels(s) == \A i \in DOMAIN s : s[i].t = "cancel"
Last(s, i) == \A j \in DOMAIN s : j <= i

\* After the end of a file, and after a prepare, the channels are done with a run.
ChannelInv ==
    /\ \A i, j \in DOMAIN toDst : i < j /\ toDst[i].t = "done" => toDst[j].t \in {"cancel", "prepare"}
    /\ \A i, j \in DOMAIN toDst : i < j /\ toDst[i].t = "prepare" => toDst[j].t = "cancel"
    /\ \A i, j \in DOMAIN toDst : i < j /\ toDst[j].t = "file" => toDst[i].t = "cancel"
    /\ \A i \in DOMAIN toSrc : toSrc[i].t = "ready" =>
          Last(toSrc, i) /\ Cancels(toDst) /\ (toSrc[i].ok => dst.id = 0)
    /\ ~Ended => /\ \A i \in DOMAIN toDst : toDst[i].t # "prepare"
                 /\ \A i \in DOMAIN toSrc : toSrc[i].t # "ready"

\* Between two attempts, and once the verdict is there, nothing is on its way.
AtRest == toSrc = << >> /\ Cancels(toDst) /\ dst.id = 0

TurnInv ==
    /\ src.pc \in {"starting", "next", "open"} => AtRest
    /\ src.pc \in {"starting", "next", "open", "sending"} =>
          /\ fileAck = << >>
          /\ \A i \in DOMAIN toDst : toDst[i].t # "done"
          /\ \A i \in DOMAIN toSrc : toSrc[i].t # "fack"
    /\ ~Ended /\ fileAck # << >> => AtRest
    /\ ~Ended => \A i \in DOMAIN toSrc : toSrc[i].t = "fack" =>
          Last(toSrc, i) /\ Cancels(toDst) /\ dst.id = 0

\* What is on its way to the destination, and what it is at, is the source's last attempt:
\* its record stays after the goroutine has ended.
AboutInv ==
    /\ src.pc \in {"open", "sending", "verdict"} => src.cur \in Files /\ src.id # 0
    /\ \A i \in DOMAIN toDst : toDst[i].t \in Own => toDst[i].id = src.id /\ src.cur \in Files
    /\ \A i \in DOMAIN toDst : toDst[i].t = "file" =>
          /\ toDst[i].f = src.cur /\ toDst[i].mtime = src.walk[src.cur]
          /\ toDst[i].mtime <= toDst[i].sum /\ toDst[i].sum <= version[src.cur]
          /\ dst.id = 0
    /\ dst.id # 0 =>
          /\ dst.open /\ dst.id = src.id /\ src.cur \in Files
          /\ dst.file = src.cur /\ dst.mtime = src.walk[src.cur] /\ dst.mtime # 0
          /\ dst.mtime <= dst.sum /\ dst.sum <= version[src.cur]
          /\ dst.file \in DOMAIN disk /\ disk[dst.file].mtime = 0
    /\ dst.writing => dst.id # 0

\* The file f is a version of the source's not before v and not after w, or lost its data.
GoodIn(d, f, v, w) ==
    /\ f \in DOMAIN d /\ d[f].mtime # 0
    /\ d[f].data = << >> \/ \E u \in Versions : v <= u /\ u <= w /\ d[f].data = Content(f, u)
Good(f, v, w) == GoodIn(disk, f, v, w)

\* A file with an mtime is whole; one that the manifest has with the mtime it has now is there.
DiskInv ==
    /\ \A f \in Files : manifest[f] <= version[f]
    /\ \A f \in DOMAIN disk : disk[f].mtime # 0 =>
          disk[f].mtime <= version[f] /\ Good(f, disk[f].mtime, version[f])
    /\ \A f \in Files : manifest[f] = version[f] => f \in DOMAIN disk /\ disk[f].mtime = manifest[f]

\* What is offered to be skipped may be, and the manifest did not change since for the files
\* that are still to come.
OfferIn(d, m, v, c) ==
    \A f \in Files :
        /\ c[f] <= v[f] /\ m[f] \in {0, c[f]}
        /\ c[f] = v[f] => GoodIn(d, f, c[f], v[f])
Offer(c) == OfferIn(disk, manifest, version, c)

WalkInv ==
    /\ \A f \in Files : src.walk[f] <= version[f]
    /\ \A i \in DOMAIN toSrc : toSrc[i].t = "ready" /\ toSrc[i].ok => Offer(toSrc[i].completed)
    /\ src.pc = "starting" => Offer(src.completed)
    /\ ~Ended /\ src.pc # "starting" =>
         \A f \in Files : f > src.cur =>
            /\ manifest[f] \in {0, src.completed[f]}
            /\ src.walk[f] # 0 => src.completed[f] <= src.walk[f]
            /\ src.walk[f] # 0 /\ src.walk[f] = src.completed[f] => Good(f, src.walk[f], version[f])

\* The file the source is at is not in the manifest with its mtime before it has been sent,
\* and a verdict says whether it is then.
Uncopied == manifest[src.cur] < src.walk[src.cur]
Copied ==
    /\ manifest[src.cur] = src.walk[src.cur] /\ src.walk[src.cur] # 0
    /\ Good(src.cur, src.walk[src.cur], version[src.cur])

CopyInv ==
    /\ src.pc \in {"open", "sending"} => Uncopied
    /\ dst.id # 0 => Uncopied
    /\ \A i \in DOMAIN toDst : toDst[i].t \in Own => Uncopied
    /\ src.pc = "verdict" /\ fileAck # << >> => IF fileAck[1] THEN Copied ELSE Uncopied
    /\ src.pc = "verdict" => \A i \in DOMAIN toSrc : toSrc[i].t = "fack" =>
          IF toSrc[i].ok THEN Copied ELSE Uncopied

\* Up to here every file that was listed has been copied.
ListedIn(d, walk, v, n) == \A f \in 1 .. n : walk[f] # 0 => GoodIn(d, f, walk[f], v[f])
Listed(n) == ListedIn(disk, src.walk, version, n)

DoneInv ==
    /\ ~Ended /\ src.pc # "starting" /\ ~src.warned =>
          Listed(IF src.pc = "next" THEN src.cur ELSE src.cur - 1)
    /\ phase = "completed" =>
          /\ Listed(NumFiles) /\ src.pc = "end" /\ dst.id = 0
          /\ \A i \in DOMAIN toDst : toDst[i].t \notin Own

\* Every chunk on its way is within the window, and no ack is ahead of the chunks.
WindowInv ==
    /\ src.acked <= src.offset /\ src.offset - src.acked <= Window
    /\ \A i, j \in DOMAIN toDst : i < j /\ toDst[i].t = "chunk" /\ toDst[j].t = "chunk" =>
          toDst[i].data[3] < toDst[j].data[3]
    /\ \A i \in DOMAIN toDst : toDst[i].t = "chunk" =>
          /\ src.acked < toDst[i].data[3] /\ toDst[i].data[3] <= src.offset
          /\ \A k \in DOMAIN windowAck : windowAck[k] < toDst[i].data[3]
          /\ \A k \in DOMAIN toSrc : toSrc[k].t = "wack" => toSrc[k].n < toDst[i].data[3]
          /\ dst.writing => Written < toDst[i].data[3]
    /\ \A k \in DOMAIN windowAck : windowAck[k] <= src.offset
    /\ \A k \in DOMAIN toSrc : toSrc[k].t = "wack" => toSrc[k].n <= src.offset
    /\ dst.writing => Written <= src.offset

\* Bounds of what is counted and kept.
BoundsInv ==
    /\ src.id <= src.cur /\ (src.pc = "starting" => src.cur = 0)
    /\ Len(fileAck) <= 1 /\ Len(windowAck) <= AckSlots

IInv ==
    /\ Types /\ BoundsInv /\ ChannelInv /\ TurnInv /\ AboutInv /\ DiskInv /\ WalkInv
    /\ CopyInv /\ DoneInv /\ WindowInv

-----------------------------------------------------------------------------
(* Sequences.                                                              *)

\* A nonempty sequence, its head and its tail.
LEMMA SeqHead ==
    ASSUME NEW S, NEW s \in Seq(S), s # << >>
    PROVE  /\ Head(s) \in S /\ Head(s) = s[1] /\ Tail(s) \in Seq(S)
           /\ Len(s) \in Nat \ {0} /\ Len(Tail(s)) = Len(s) - 1
           /\ \A i \in 1 .. Len(Tail(s)) : Tail(s)[i] = s[i+1]
<1>1. Len(s) \in Nat \ {0}
  BY EmptySeq
<1>2. Head(s) \in S /\ Tail(s) \in Seq(S) /\ Len(Tail(s)) = Len(s) - 1
  BY HeadTailProperties
<1>3. \A i \in 1 .. Len(Tail(s)) : Tail(s)[i] = s[i+1]
  BY HeadTailProperties
<1>4. Head(s) = s[1]
  OBVIOUS
<1> QED
  BY <1>1, <1>2, <1>3, <1>4

\* A sequence with one more element.
LEMMA SeqAppend ==
    ASSUME NEW S, NEW s \in Seq(S), NEW x \in S
    PROVE  /\ Append(s, x) \in Seq(S) /\ Len(s) \in Nat /\ Len(Append(s, x)) = Len(s) + 1
           /\ Append(s, x)[Len(s) + 1] = x
           /\ \A i \in 1 .. Len(s) : Append(s, x)[i] = s[i]
<1>1. /\ Append(s, x) \in Seq(S) /\ Len(Append(s, x)) = Len(s) + 1
      /\ Append(s, x)[Len(s) + 1] = x
  BY AppendProperties
<1>2. \A i \in 1 .. Len(s) : Append(s, x)[i] = s[i]
  BY AppendProperties
<1> QED
  BY <1>1, <1>2, LenProperties

\* A sequence of which the end is lost.
LEMMA SeqPrefix ==
    ASSUME NEW S, NEW s \in Seq(S), NEW k \in 0 .. Len(s)
    PROVE  /\ SubSeq(s, 1, k) \in Seq(S) /\ Len(SubSeq(s, 1, k)) = k
           /\ \A i \in 1 .. k : SubSeq(s, 1, k)[i] = s[i]
<1>1. Len(s) \in Nat
  BY LenProperties
<1>2. \A i \in 1 .. k : s[i] \in S
  BY <1>1, ElementOfSeq
<1>3. /\ SubSeq(s, 1, k) \in Seq(S)
      /\ Len(SubSeq(s, 1, k)) = IF 1 <= k THEN k - 1 + 1 ELSE 0
      /\ \A i \in 1 .. k - 1 + 1 : SubSeq(s, 1, k)[i] = s[1 + i - 1]
  BY <1>1, <1>2, SubSeqProperties
<1> QED
  BY <1>1, <1>3

-----------------------------------------------------------------------------
(* Types.                                                                  *)

\* A channel with one more message, without its first one, and without its end.
Extended(s, t, m) ==
    \E n \in Nat :
        /\ DOMAIN s = 1 .. n /\ DOMAIN t = 1 .. n + 1
        /\ t[n+1] = m /\ \A i \in 1 .. n : t[i] = s[i]
Consumed(s, t) ==
    /\ 1 \in DOMAIN s /\ \A i \in DOMAIN s : i \in Nat \ {0}
    /\ \A i \in DOMAIN t : i \in Nat \ {0} /\ i + 1 \in DOMAIN s /\ t[i] = s[i+1]
Cut(s, t) == \A i \in DOMAIN t : i \in DOMAIN s /\ t[i] = s[i]

LEMMA ExtendedSeq ==
    ASSUME NEW S, NEW s \in Seq(S), NEW m \in S, NEW t, t = Append(s, m)
    PROVE  t \in Seq(S) /\ Extended(s, t, m)
<1>1. Len(s) \in Nat /\ DOMAIN s = 1 .. Len(s)
  BY LenProperties
<1>2. /\ t \in Seq(S) /\ Len(t) = Len(s) + 1
      /\ t[Len(s) + 1] = m /\ \A i \in 1 .. Len(s) : t[i] = s[i]
  BY SeqAppend
<1>3. DOMAIN t = 1 .. Len(s) + 1
  BY <1>2, LenProperties
<1> QED
  BY <1>1, <1>2, <1>3 DEF Extended

LEMMA ConsumedSeq ==
    ASSUME NEW S, NEW s \in Seq(S), s # << >>, NEW t, t = Tail(s)
    PROVE  t \in Seq(S) /\ Head(s) \in S /\ Head(s) = s[1] /\ Consumed(s, t)
<1>1. /\ Head(s) \in S /\ Head(s) = s[1] /\ t \in Seq(S)
      /\ Len(s) \in Nat \ {0} /\ Len(t) = Len(s) - 1
      /\ \A i \in 1 .. Len(t) : t[i] = s[i+1]
  BY SeqHead
<1>2. DOMAIN s = 1 .. Len(s) /\ DOMAIN t = 1 .. Len(t)
  BY <1>1, LenProperties
<1> QED
  BY <1>1, <1>2 DEF Consumed

LEMMA CutSeq ==
    ASSUME NEW S, NEW s \in Seq(S), NEW k \in 0 .. Len(s), NEW t, t = SubSeq(s, 1, k)
    PROVE  t \in Seq(S) /\ Cut(s, t)
<1>1. Len(s) \in Nat /\ DOMAIN s = 1 .. Len(s)
  BY LenProperties
<1>2. t \in Seq(S) /\ Len(t) = k /\ \A i \in 1 .. k : t[i] = s[i]
  BY SeqPrefix
<1>3. DOMAIN t = 1 .. k
  BY <1>2, LenProperties
<1> QED
  BY <1>1, <1>2, <1>3 DEF Cut

\* What the source sends ...
LEMMA EmitTyped ==
    ASSUME Types, NEW m \in Commands, Emit(m)
    PROVE  /\ toDst' \in Seq(Commands)
           /\ \/ ~srcUp /\ toDst' = toDst
              \/ srcUp /\ Extended(toDst, toDst', m)
BY ExtendedSeq DEF Types, NetTypes, Emit

\* ... what the destination answers ...
LEMMA AnswerTyped ==
    ASSUME Types, NEW m \in Answers, Answer(m)
    PROVE  toSrc' \in Seq(Answers) /\ Extended(toSrc, toSrc', m)
BY ExtendedSeq DEF Types, NetTypes, Answer

\* ... and what either takes.
LEMMA ReceivesTyped ==
    ASSUME Types, NEW t, Receives(t)
    PROVE  /\ Head(toDst) \in Commands /\ Head(toDst).t = t /\ Head(toDst) = toDst[1]
           /\ toDst' \in Seq(Commands) /\ Consumed(toDst, toDst')
BY ConsumedSeq DEF Types, NetTypes, Receives

LEMMA TakesTyped ==
    ASSUME Types, toSrc # << >>, toSrc' = Tail(toSrc)
    PROVE  /\ Head(toSrc) \in Answers /\ Head(toSrc) = toSrc[1]
           /\ toSrc' \in Seq(Answers) /\ Consumed(toSrc, toSrc')
BY ConsumedSeq DEF Types, NetTypes

\* A channel that lost its end.
LEMMA LoseTailTyped ==
    ASSUME Types, NEW own
    PROVE  /\ LoseTail(toDst, own) => toDst' \in Seq(Commands) /\ Cut(toDst, toDst')
           /\ LoseTail(toSrc, own) => toSrc' \in Seq(Answers) /\ Cut(toSrc, toSrc')
<1>1. toDst \in Seq(Commands) /\ toSrc \in Seq(Answers)
  BY DEF Types, NetTypes
<1>2. LoseTail(toDst, own) => toDst' \in Seq(Commands) /\ Cut(toDst, toDst')
  BY <1>1, CutSeq DEF LoseTail
<1>3. LoseTail(toSrc, own) => toSrc' \in Seq(Answers) /\ Cut(toSrc, toSrc')
  BY <1>1, CutSeq DEF LoseTail
<1> QED
  BY <1>2, <1>3

\* The constants.
LEMMA Constants ==
    /\ NumFiles \in Nat /\ FileChunks \in Nat /\ AckSlots \in Nat \ {0}
    /\ AckEvery \in Nat \ {0} /\ Window \in Nat /\ Window >= AckEvery
    /\ MaxRetries \in Nat \ {0} /\ MaxRuns \in Nat \ {0}
    /\ MaxEdits \in Nat /\ MaxFaults \in Nat
    /\ 1 \in Versions /\ 0 \notin Versions
    /\ None \in Known /\ Versions \subseteq Nat
BY MigrationAssumption DEF Versions, None, Known

\* The content of a file is made of chunks.
LEMMA ContentTyped ==
    ASSUME NEW f \in Files, NEW v \in Versions
    PROVE  /\ Content(f, v) \in Seq(Chunks) /\ Len(Content(f, v)) = FileChunks
           /\ \A i \in 1 .. FileChunks : Content(f, v)[i] = <<f, v, i>> /\ Content(f, v)[i] \in Chunks
<1>1. FileChunks \in Nat
  BY Constants
<1>2. \A i \in 1 .. FileChunks : Content(f, v)[i] = <<f, v, i>>
  BY DEF Content
<1>3. \A i \in 1 .. FileChunks : <<f, v, i>> \in Chunks
  BY DEF Chunks
<1> QED
  BY <1>1, <1>2, <1>3 DEF Content

LEMMA InitTypes == Init => Types
<1> SUFFICES ASSUME Init PROVE Types
  OBVIOUS
<1>1. DirTypes
  BY Constants DEF Init, DirTypes
<1>2. BackendTypes
  BY Constants DEF Init, BackendTypes, Phases
<1>3. SrcTypes
  BY Constants DEF Init, SrcTypes, SrcSessions, Idle, PCs
<1>4. NetTypes
  BY DEF Init, NetTypes
<1>5. DstTypes
  <2>1. DOMAIN disk = {}
    BY DEF Init
  <2> QED
    BY <2>1, Constants DEF Init, DstTypes, DstSessions, Closed, Mtimes, None, Known
<1> QED
  BY <1>1, <1>2, <1>3, <1>4, <1>5 DEF Types

LEMMA EditTypes ==
    ASSUME Types, \/ \E f \in Files : Edit(f) \/ Unlink(f)
    PROVE  Types'
<1> PICK f \in Files : Edit(f) \/ Unlink(f)
  OBVIOUS
<1>1. DirTypes'
  <2>1. CASE Edit(f)
    BY <2>1, Constants DEF Edit, Types, DirTypes, Versions
  <2>2. CASE Unlink(f)
    <3>1. \A g \in Files : version'[g] = version[g] /\ version[g] \in Nat
      BY <2>2, Constants DEF Unlink, Types, DirTypes
    <3> QED
      BY <2>2, <3>1, Constants DEF Unlink, Types, DirTypes
  <2> QED
    BY <2>1, <2>2
<1>2. BackendTypes' /\ SrcTypes' /\ NetTypes' /\ DstTypes'
  BY DEF Edit, Unlink, Types, BackendTypes, SrcTypes, NetTypes, DstTypes, backendVars,
         srcVars, dstVars
<1> QED
  BY <1>1, <1>2 DEF Types

LEMMA BackendStepTypes ==
    ASSUME Types, Prepare \/ Start \/ Cancel \/ Reconnect
    PROVE  Types'
<1>1. CASE Prepare
  <2>1. [t |-> "prepare"] \in Commands
    BY DEF Commands
  <2>2. toDst' \in Seq(Commands)
    BY <1>1, <2>1, SeqAppend DEF Prepare, Types, NetTypes
  <2>3. BackendTypes'
    BY <1>1, Constants DEF Prepare, Types, BackendTypes, Phases
  <2> QED
    BY <1>1, <2>2, <2>3 DEF Prepare, Types, DirTypes, BackendTypes, SrcTypes, NetTypes, DstTypes,
       dirVars, srcVars, dstVars, Phases
<1>2. CASE Start
  <2>1. Head(toSrc) \in Answers /\ toSrc' \in Seq(Answers) /\ Head(toSrc).t = "ready"
    BY <1>2, SeqHead DEF Start, Types, NetTypes
  <2>2. Head(toSrc).completed \in Known
    BY <2>1 DEF Answers
  <2>3. SrcTypes'
    <3>1. CASE UNCHANGED srcVars
      BY <3>1 DEF Types, SrcTypes, srcVars
    <3>2. CASE /\ src' = [Idle EXCEPT !.pc = "starting", !.completed = Head(toSrc).completed]
               /\ fileAck' = << >> /\ windowAck' = << >>
      <4>1. src' = [pc |-> "starting", done |-> FALSE, cur |-> 0, id |-> 0, attempt |-> 0,
                    offset |-> 0, acked |-> 0, warned |-> FALSE, walk |-> None,
                    completed |-> Head(toSrc).completed]
        BY <3>2 DEF Idle
      <4>2. src' \in SrcSessions
        BY <4>1, <2>2, Constants DEF SrcSessions, PCs
      <4> QED
        BY <3>2, <4>2 DEF SrcTypes
    <3> QED
      BY <1>2, <3>1, <3>2 DEF Start
  <2>4. BackendTypes'
    BY <1>2, Constants DEF Start, Types, BackendTypes, Phases
  <2> QED
    BY <1>2, <2>1, <2>3, <2>4 DEF Start, Types, DirTypes, NetTypes, DstTypes, dirVars, dstVars
<1>3. CASE Cancel
  <2>1. [t |-> "cancel"] \in Commands
    BY DEF Commands
  <2>2. toDst' \in Seq(Commands)
    BY <1>3, <2>1, SeqAppend DEF Cancel, Types, NetTypes
  <2>3. SrcTypes'
    BY <1>3 DEF Cancel, Types, SrcTypes, SrcSessions
  <2>4. BackendTypes'
    BY <1>3, Constants DEF Cancel, Types, BackendTypes, Phases, Fault
  <2> QED
    BY <1>3, <2>2, <2>3, <2>4 DEF Cancel, Types, DirTypes, NetTypes, DstTypes,
       dirVars, dstVars
<1>4. CASE Reconnect
  BY <1>4 DEF Reconnect, Types, DirTypes, BackendTypes, SrcTypes, NetTypes, DstTypes,
     dirVars, backendVars, srcVars, dstVars
<1> QED
  BY <1>1, <1>2, <1>3, <1>4

-----------------------------------------------------------------------------
(* What each step of the source does, field by field.                      *)

SrcSession(pc, done, cur, id, attempt, offset, acked, warned, walk, completed) ==
    [pc |-> pc, done |-> done, cur |-> cur, id |-> id, attempt |-> attempt, offset |-> offset,
     acked |-> acked, warned |-> warned, walk |-> walk, completed |-> completed]

\* The frame of the source's steps: the destination, the directory and what arrives.
SourceKeeps == UNCHANGED <<version, gone, edits, runs, srcUp, toSrc, dst, disk, manifest>>

LEMMA SourceFrame == SrcFrame => SourceKeeps
BY DEF SrcFrame, SourceKeeps, dirVars, dstVars

LEMMA RegisterForm ==
    ASSUME Types, Register
    PROVE  /\ src.pc = "starting"
           /\ src' = SrcSession("next", src.done, src.cur, src.id, src.attempt, src.offset,
                                src.acked, src.warned, Walk, src.completed)
           /\ SourceKeeps /\ UNCHANGED <<phase, toDst, fileAck, windowAck, faults>>
<1>1. src \in SrcSessions
  BY DEF Types, SrcTypes
<1>2. src' = [src EXCEPT !.pc = "next", !.walk = Walk]
  BY DEF Register
<1>3. src' = SrcSession("next", src.done, src.cur, src.id, src.attempt, src.offset,
                        src.acked, src.warned, Walk, src.completed)
  BY <1>1, <1>2 DEF SrcSessions, SrcSession
<1> QED
  BY <1>3, SourceFrame DEF Register

LEMMA NextFileForm ==
    ASSUME Types, NextFile
    PROVE  /\ src.pc = "next" /\ src.cur < NumFiles
           /\ \/ /\ Skip(src.cur + 1)
                 /\ src' = SrcSession("next", src.done, src.cur + 1, src.id, src.attempt,
                                src.offset, src.acked, src.warned, src.walk, src.completed)
              \/ /\ ~Skip(src.cur + 1)
                 /\ src' = SrcSession("open", src.done, src.cur + 1, src.id + 1, 0,
                                src.offset, src.acked, src.warned, src.walk, src.completed)
           /\ SourceKeeps /\ UNCHANGED <<phase, toDst, fileAck, windowAck, faults>>
<1>1. src \in SrcSessions
  BY DEF Types, SrcTypes
<1>2. CASE Skip(src.cur + 1)
  <2>1. src.pc = "next" /\ src' = [src EXCEPT !.cur = @ + 1]
    BY <1>2 DEF NextFile
  <2>2. src' = SrcSession("next", src.done, src.cur + 1, src.id, src.attempt,
                          src.offset, src.acked, src.warned, src.walk, src.completed)
    BY <1>1, <2>1 DEF SrcSessions, SrcSession
  <2> QED
    BY <1>2, <2>2, SourceFrame DEF NextFile
<1>3. CASE ~Skip(src.cur + 1)
  <2>1. src' = [src EXCEPT !.cur = @ + 1, !.id = @ + 1, !.attempt = 0, !.pc = "open"]
    BY <1>3 DEF NextFile
  <2>2. src' = SrcSession("open", src.done, src.cur + 1, src.id + 1, 0,
                          src.offset, src.acked, src.warned, src.walk, src.completed)
    BY <1>1, <2>1 DEF SrcSessions, SrcSession
  <2> QED
    BY <1>3, <2>2, SourceFrame DEF NextFile
<1> QED
  BY <1>2, <1>3

\* The goroutine ends, in one way or another.
Ends == Stop \/ Finish \/ Abort \/ Timeout \/ ReadError

LEMMA EndsForm ==
    ASSUME Types, Ends
    PROVE  /\ src.pc \in {"starting", "next", "open", "sending", "verdict"}
           /\ src' = SrcSession("end", src.done, src.cur, src.id, src.attempt, src.offset,
                                src.acked, src.warned, src.walk, src.completed)
           /\ \/ phase' \in {phase, "failed", "warned"}
              \/ /\ phase' = "completed" /\ src.pc = "next" /\ src.cur = NumFiles
                 /\ ~src.warned
           /\ SourceKeeps /\ UNCHANGED <<toDst, fileAck, windowAck>>
           /\ faults' \in 0 .. MaxFaults
<1>1. src \in SrcSessions /\ faults \in 0 .. MaxFaults
  BY DEF Types, SrcTypes, BackendTypes
<1>2. /\ src' = [src EXCEPT !.pc = "end"]
      /\ SrcFrame /\ UNCHANGED <<toDst, fileAck, windowAck>>
      /\ src.pc \in {"starting", "next", "open", "sending", "verdict"}
  BY DEF Ends, Stop, Finish, Abort, Timeout, ReadError, Report, Waiting
<1>3. src' = SrcSession("end", src.done, src.cur, src.id, src.attempt, src.offset,
                        src.acked, src.warned, src.walk, src.completed)
  BY <1>1, <1>2 DEF SrcSessions, SrcSession
<1>4. \/ phase' \in {phase, "failed", "warned"}
      \/ phase' = "completed" /\ src.pc = "next" /\ src.cur = NumFiles /\ ~src.warned
  BY DEF Ends, Stop, Finish, Abort, Timeout, ReadError, Report
<1>5. faults' \in 0 .. MaxFaults
  BY <1>1, Constants DEF Ends, Stop, Finish, Abort, Timeout, ReadError, Fault
<1> QED
  BY <1>2, <1>3, <1>4, <1>5, SourceFrame

FileMessage ==
    [t |-> "file", id |-> src.id, f |-> src.cur, mtime |-> src.walk[src.cur],
     sum |-> version[src.cur]]

LEMMA OpenForm ==
    ASSUME Types, Open
    PROVE  /\ src.pc = "open" /\ fileAck' = << >> /\ windowAck' = << >>
           /\ \/ /\ src' = SrcSession("next", src.done, src.cur, src.id, src.attempt,
                                src.offset, src.acked, TRUE, src.walk, src.completed)
                 /\ toDst' = toDst
              \/ /\ src' = SrcSession("sending", src.done, src.cur, src.id, src.attempt, 0, 0,
                                src.warned, src.walk, src.completed)
                 /\ Emit(FileMessage)
           /\ SourceKeeps /\ UNCHANGED <<phase, faults>>
<1>1. src \in SrcSessions
  BY DEF Types, SrcTypes
<1>2. CASE src.cur \in gone
  <2>1. src' = [src EXCEPT !.pc = "next", !.warned = TRUE]
    BY <1>2 DEF Open
  <2>2. src' = SrcSession("next", src.done, src.cur, src.id, src.attempt,
                          src.offset, src.acked, TRUE, src.walk, src.completed)
    BY <1>1, <2>1 DEF SrcSessions, SrcSession
  <2> QED
    BY <1>2, <2>2, SourceFrame DEF Open
<1>3. CASE src.cur \notin gone
  <2>1. src' = [src EXCEPT !.pc = "sending", !.offset = 0, !.acked = 0]
    BY <1>3 DEF Open
  <2>2. src' = SrcSession("sending", src.done, src.cur, src.id, src.attempt, 0, 0,
                          src.warned, src.walk, src.completed)
    BY <1>1, <2>1 DEF SrcSessions, SrcSession
  <2>3. Emit(FileMessage)
    BY <1>3 DEF Open, FileMessage
  <2> QED
    BY <1>3, <2>2, <2>3, SourceFrame DEF Open
<1> QED
  BY <1>2, <1>3

ChunkMessage ==
    [t |-> "chunk", id |-> src.id,
     data |-> Content(src.cur, version[src.cur])[src.offset + 1]]

LEMMA SendChunkForm ==
    ASSUME Types, SendChunk
    PROVE  /\ src.pc = "sending" /\ ~Blocked /\ src.offset < FileChunks
           /\ windowAck' = << >> /\ Emit(ChunkMessage)
           /\ \E n \in {src.acked} \cup {windowAck[i] : i \in DOMAIN windowAck} :
                 /\ src.acked <= n
                 /\ src' = SrcSession("sending", src.done, src.cur, src.id, src.attempt,
                              src.offset + 1, n, src.warned, src.walk, src.completed)
           /\ SourceKeeps /\ UNCHANGED <<phase, fileAck, faults>>
<1>1. src \in SrcSessions
  BY DEF Types, SrcTypes
<1>2. PICK n \in {src.acked} \cup {windowAck[i] : i \in DOMAIN windowAck} :
         src.acked <= n /\ src' = [src EXCEPT !.offset = @ + 1, !.acked = n]
  BY DEF SendChunk
<1>3. src.pc = "sending"
  BY DEF SendChunk
<1>4. src' = SrcSession("sending", src.done, src.cur, src.id, src.attempt, src.offset + 1, n,
                        src.warned, src.walk, src.completed)
  BY <1>1, <1>2, <1>3 DEF SrcSessions, SrcSession
<1>5. \E k \in {src.acked} \cup {windowAck[i] : i \in DOMAIN windowAck} :
         /\ src.acked <= k
         /\ src' = SrcSession("sending", src.done, src.cur, src.id, src.attempt,
                      src.offset + 1, k, src.warned, src.walk, src.completed)
  BY <1>2, <1>4
<1> QED
  BY <1>5, SourceFrame DEF SendChunk, ChunkMessage

LEMMA TakeAckForm ==
    ASSUME Types, TakeAck
    PROVE  /\ src.pc = "sending" /\ Blocked /\ windowAck # << >>
           /\ windowAck' = Tail(windowAck)
           /\ src' = SrcSession("sending", src.done, src.cur, src.id, src.attempt, src.offset,
                         IF Head(windowAck) > src.acked THEN Head(windowAck) ELSE src.acked,
                         src.warned, src.walk, src.completed)
           /\ SourceKeeps /\ UNCHANGED <<phase, toDst, fileAck, faults>>
<1>1. src \in SrcSessions
  BY DEF Types, SrcTypes
<1> DEFINE n == IF Head(windowAck) > src.acked THEN Head(windowAck) ELSE src.acked
<1>2. src.pc = "sending" /\ src' = [src EXCEPT !.acked = n]
  BY DEF TakeAck
<1> HIDE DEF n
<1>3. src' = SrcSession("sending", src.done, src.cur, src.id, src.attempt, src.offset, n,
                        src.warned, src.walk, src.completed)
  BY <1>1, <1>2 DEF SrcSessions, SrcSession
<1> QED
  BY <1>3, SourceFrame DEF TakeAck, n

LEMMA EndFileForm ==
    ASSUME Types, EndFile
    PROVE  /\ src.pc = "sending" /\ src.offset = FileChunks
           /\ src' = SrcSession("verdict", src.done, src.cur, src.id, src.attempt, src.offset,
                                src.acked, src.warned, src.walk, src.completed)
           /\ Emit([t |-> "done", id |-> src.id])
           /\ SourceKeeps /\ UNCHANGED <<phase, fileAck, windowAck, faults>>
<1>1. src \in SrcSessions
  BY DEF Types, SrcTypes
<1>2. src' = [src EXCEPT !.pc = "verdict"]
  BY DEF EndFile
<1>3. src' = SrcSession("verdict", src.done, src.cur, src.id, src.attempt, src.offset,
                        src.acked, src.warned, src.walk, src.completed)
  BY <1>1, <1>2 DEF SrcSessions, SrcSession
<1> QED
  BY <1>3, SourceFrame DEF EndFile

LEMMA VerdictForm ==
    ASSUME Types, Verdict
    PROVE  /\ src.pc = "verdict" /\ fileAck # << >> /\ fileAck' = << >>
           /\ \/ /\ Head(fileAck)
                 /\ src' = SrcSession("next", src.done, src.cur, src.id, src.attempt,
                               src.offset, src.acked, src.warned, src.walk, src.completed)
              \/ /\ ~Head(fileAck) /\ src.attempt + 1 < MaxRetries
                 /\ src' = SrcSession("open", src.done, src.cur, src.id, src.attempt + 1,
                               src.offset, src.acked, src.warned, src.walk, src.completed)
              \/ /\ ~Head(fileAck)
                 /\ src' = SrcSession("next", src.done, src.cur, src.id, src.attempt + 1,
                               src.offset, src.acked, TRUE, src.walk, src.completed)
           /\ SourceKeeps /\ UNCHANGED <<phase, toDst, windowAck, faults>>
<1>1. src \in SrcSessions
  BY DEF Types, SrcTypes
<1>2. CASE Head(fileAck) /\ src' = [src EXCEPT !.pc = "next"]
  <2>1. src' = SrcSession("next", src.done, src.cur, src.id, src.attempt,
                          src.offset, src.acked, src.warned, src.walk, src.completed)
    BY <1>1, <1>2 DEF SrcSessions, SrcSession
  <2> QED
    BY <1>2, <2>1, SourceFrame DEF Verdict
<1>3. CASE /\ ~Head(fileAck) /\ src.attempt + 1 < MaxRetries
           /\ src' = [src EXCEPT !.attempt = @ + 1, !.pc = "open"]
  <2>1. src' = SrcSession("open", src.done, src.cur, src.id, src.attempt + 1,
                          src.offset, src.acked, src.warned, src.walk, src.completed)
    BY <1>1, <1>3 DEF SrcSessions, SrcSession
  <2> QED
    BY <1>3, <2>1, SourceFrame DEF Verdict
<1>4. CASE /\ ~Head(fileAck)
           /\ src' = [src EXCEPT !.attempt = @ + 1, !.pc = "next", !.warned = TRUE]
  <2>1. src' = SrcSession("next", src.done, src.cur, src.id, src.attempt + 1,
                          src.offset, src.acked, TRUE, src.walk, src.completed)
    BY <1>1, <1>4 DEF SrcSessions, SrcSession
  <2> QED
    BY <1>4, <2>1, SourceFrame DEF Verdict
<1> QED
  BY <1>2, <1>3, <1>4 DEF Verdict

-----------------------------------------------------------------------------
(* The other steps, field by field.                                        *)

DstSession(open, id, file, sum, mtime, writing, acked, broken, fresh) ==
    [open |-> open, id |-> id, file |-> file, sum |-> sum, mtime |-> mtime, writing |-> writing,
     acked |-> acked, broken |-> broken, fresh |-> fresh]

\* The frame of the destination's steps.
DestinationKeeps ==
    UNCHANGED <<version, gone, edits, phase, runs, srcUp, src, fileAck, windowAck>>

LEMMA DestinationFrame == DstFrame => DestinationKeeps
BY DEF DstFrame, DestinationKeeps, dirVars, backendVars, srcVars

LEMMA FaultTyped == ASSUME Types, NEW k, Fault(k) PROVE faults' \in 0 .. MaxFaults
BY Constants DEF Types, BackendTypes, Fault

LEMMA DstPrepareForm ==
    ASSUME Types, DstPrepare
    PROVE  /\ Receives("prepare")
           /\ \/ /\ dst' = DstSession(TRUE, 0, 0, 0, 0, FALSE, 0, FALSE, {})
                 /\ Answer([t |-> "ready", ok |-> TRUE, completed |-> Scan])
              \/ /\ dst' = dst /\ Answer([t |-> "ready", ok |-> FALSE, completed |-> None])
           /\ faults' \in 0 .. MaxFaults
           /\ DestinationKeeps /\ UNCHANGED <<disk, manifest>>
<1>1. ASSUME dst' = [Closed EXCEPT !.open = TRUE]
      PROVE  dst' = DstSession(TRUE, 0, 0, 0, 0, FALSE, 0, FALSE, {})
  <2>1. Closed \in DstSessions
    BY Constants DEF Closed, DstSessions, Mtimes
  <2>2. dst' = DstSession(TRUE, Closed.id, Closed.file, Closed.sum, Closed.mtime, Closed.writing,
                          Closed.acked, Closed.broken, Closed.fresh)
    BY <1>1, <2>1 DEF DstSessions, DstSession
  <2> QED
    BY <2>2 DEF Closed
<1>2. faults' = faults \/ Fault("create")
  BY DEF DstPrepare
<1>3. faults' \in 0 .. MaxFaults
  BY <1>2, FaultTyped DEF Types, BackendTypes
<1> QED
  BY <1>1, <1>3, DestinationFrame DEF DstPrepare

\* The file a header names is truncated, or cannot be.
LEMMA DstFileForm ==
    ASSUME Types, DstFile
    PROVE  /\ Receives("file")
           /\ \/ dst' = dst /\ disk' = disk
              \/ /\ dst.open /\ disk' = Truncated(Head(toDst).f)
                 /\ dst' = DstSession(TRUE, Head(toDst).id, Head(toDst).f, Head(toDst).sum,
                              Head(toDst).mtime, TRUE, 0, FALSE, dst.fresh \cup {Head(toDst).f})
              \/ /\ disk' = disk
                 /\ dst' = DstSession(dst.open, dst.id, dst.file, dst.sum, dst.mtime, FALSE,
                              dst.acked, TRUE, dst.fresh)
           /\ faults' \in 0 .. MaxFaults
           /\ DestinationKeeps /\ UNCHANGED <<toSrc, manifest>>
<1>1. dst \in DstSessions
  BY DEF Types, DstTypes
<1>2. faults' \in 0 .. MaxFaults
  BY FaultTyped DEF DstFile, Types, BackendTypes
<1>3. CASE dst' = dst /\ disk' = disk
  BY <1>2, <1>3, DestinationFrame DEF DstFile
<1>4. CASE /\ dst.open /\ disk' = Truncated(Head(toDst).f)
           /\ dst' = [dst EXCEPT !.id = Head(toDst).id, !.file = Head(toDst).f,
                                 !.sum = Head(toDst).sum, !.mtime = Head(toDst).mtime,
                                 !.writing = TRUE, !.acked = 0, !.broken = FALSE,
                                 !.fresh = @ \cup {Head(toDst).f}]
  <2>1. dst' = DstSession(dst.open, Head(toDst).id, Head(toDst).f, Head(toDst).sum,
                          Head(toDst).mtime, TRUE, 0, FALSE, dst.fresh \cup {Head(toDst).f})
    BY <1>1, <1>4 DEF DstSessions, DstSession
  <2>2. dst.open = TRUE
    BY <1>1, <1>4 DEF DstSessions
  <2> QED
    BY <1>2, <1>4, <2>1, <2>2, DestinationFrame DEF DstFile
<1>5. CASE disk' = disk /\ dst' = [dst EXCEPT !.writing = FALSE, !.broken = TRUE]
  <2>1. dst' = DstSession(dst.open, dst.id, dst.file, dst.sum, dst.mtime, FALSE,
                          dst.acked, TRUE, dst.fresh)
    BY <1>1, <1>5 DEF DstSessions, DstSession
  <2> QED
    BY <1>2, <1>5, <2>1, DestinationFrame DEF DstFile
<1> QED
  BY <1>3, <1>4, <1>5 DEF DstFile

LEMMA DstChunkForm ==
    ASSUME Types, DstChunk
    PROVE  /\ Receives("chunk")
           /\ \/ UNCHANGED <<toSrc, dst, disk>>
              \/ /\ dst.open /\ dst.writing /\ Head(toDst).id = dst.id
                 /\ disk' = [disk EXCEPT ![dst.file].data = Append(@, Head(toDst).data)]
                 /\ \/ UNCHANGED <<toSrc, dst>>
                    \/ /\ dst' = DstSession(dst.open, dst.id, dst.file, dst.sum, dst.mtime,
                                   dst.writing, Written + 1, dst.broken, dst.fresh)
                       /\ Answer([t |-> "wack", n |-> Written + 1])
              \/ /\ dst' = DstSession(dst.open, dst.id, dst.file, dst.sum, dst.mtime,
                              dst.writing, dst.acked, TRUE, dst.fresh)
                 /\ UNCHANGED <<toSrc, disk>>
           /\ faults' \in 0 .. MaxFaults
           /\ DestinationKeeps /\ UNCHANGED manifest
<1>1. dst \in DstSessions
  BY DEF Types, DstTypes
<1>2. faults' \in 0 .. MaxFaults
  BY FaultTyped DEF DstChunk, Types, BackendTypes
<1>3. CASE UNCHANGED <<toSrc, dst, disk>>
  BY <1>2, <1>3, DestinationFrame DEF DstChunk
<1>4. CASE /\ dst.open /\ dst.writing /\ Head(toDst).id = dst.id
           /\ disk' = [disk EXCEPT ![dst.file].data = Append(@, Head(toDst).data)]
           /\ \/ UNCHANGED <<toSrc, dst>>
              \/ /\ dst' = [dst EXCEPT !.acked = Written + 1]
                 /\ Answer([t |-> "wack", n |-> Written + 1])
  <2>1. dst' = [dst EXCEPT !.acked = Written + 1] =>
          dst' = DstSession(dst.open, dst.id, dst.file, dst.sum, dst.mtime,
                            dst.writing, Written + 1, dst.broken, dst.fresh)
    BY <1>1 DEF DstSessions, DstSession
  <2> QED
    BY <1>2, <1>4, <2>1, DestinationFrame DEF DstChunk
<1>5. CASE dst' = [dst EXCEPT !.broken = TRUE] /\ UNCHANGED <<toSrc, disk>>
  <2>1. dst' = DstSession(dst.open, dst.id, dst.file, dst.sum, dst.mtime,
                          dst.writing, dst.acked, TRUE, dst.fresh)
    BY <1>1, <1>5 DEF DstSessions, DstSession
  <2> QED
    BY <1>2, <1>5, <2>1, DestinationFrame DEF DstChunk
<1> QED
  BY <1>3, <1>4, <1>5 DEF DstChunk

LEMMA DstFileDoneForm ==
    ASSUME Types, DstFileDone
    PROVE  /\ Receives("done")
           /\ \/ UNCHANGED <<toSrc, dst, disk, manifest>>
              \/ /\ dst.open /\ Head(toDst).id = dst.id
                 /\ dst' = DstSession(dst.open, 0, dst.file, dst.sum, dst.mtime, FALSE,
                              dst.acked, dst.broken, dst.fresh)
                 /\ \/ /\ Verified /\ Answer([t |-> "fack", ok |-> TRUE])
                       /\ disk' = [disk EXCEPT ![dst.file].mtime = dst.mtime]
                       /\ manifest' = [manifest EXCEPT ![dst.file] = dst.mtime]
                    \/ /\ ~Verified /\ Answer([t |-> "fack", ok |-> FALSE])
                       /\ disk' = [f \in DOMAIN disk \ {dst.file} |-> disk[f]]
                       /\ UNCHANGED manifest
           /\ DestinationKeeps /\ UNCHANGED faults
<1>1. dst \in DstSessions
  BY DEF Types, DstTypes
<1>2. Verified \in BOOLEAN
  BY DEF Verified
<1>3. CASE UNCHANGED <<toSrc, dst, disk, manifest>>
  BY <1>3, DestinationFrame DEF DstFileDone
<1>4. CASE dst.open /\ Head(toDst).id = dst.id
  <2>1. dst' = [dst EXCEPT !.writing = FALSE, !.id = 0]
    BY <1>4 DEF DstFileDone
  <2>2. dst' = DstSession(dst.open, 0, dst.file, dst.sum, dst.mtime, FALSE,
                          dst.acked, dst.broken, dst.fresh)
    BY <1>1, <2>1 DEF DstSessions, DstSession
  <2>3. CASE Verified
    <3>1. Verified = TRUE
      BY <1>2, <2>3
    <3> QED
      BY <1>4, <2>2, <2>3, <3>1, DestinationFrame DEF DstFileDone
  <2>4. CASE ~Verified
    <3>1. Verified = FALSE
      BY <1>2, <2>4
    <3> QED
      BY <1>4, <2>2, <2>4, <3>1, DestinationFrame DEF DstFileDone
  <2> QED
    BY <2>3, <2>4
<1> QED
  BY <1>3, <1>4 DEF DstFileDone, dstVars

\* An agent is lost, or crashes.
LoseForm(pc, done) ==
    /\ src' = SrcSession(pc, done, src.cur, src.id, src.attempt, src.offset, src.acked,
                         src.warned, src.walk, src.completed)
    /\ srcUp /\ srcUp' = FALSE /\ toSrc' = << >> /\ LoseTail(toDst, Own)
    /\ phase' \in {phase, "interrupted"} /\ phase' # "preparing" /\ faults' \in 0 .. MaxFaults
    /\ UNCHANGED <<version, gone, edits, runs, fileAck, windowAck, dst, disk, manifest>>

LEMMA SrcLostForm ==
    ASSUME Types, LoseSrc \/ CrashSrc
    PROVE  \/ Registered /\ LoseForm(src.pc, TRUE)
           \/ ~Registered /\ LoseForm(src.pc, src.done)
           \/ src.pc # "none" /\ LoseForm("end", src.done)
<1>1. src \in SrcSessions
  BY DEF Types, SrcTypes
<1>2. faults' \in 0 .. MaxFaults
  BY FaultTyped DEF LoseSrc, CrashSrc
<1>3. /\ srcUp /\ srcUp' = FALSE /\ toSrc' = << >> /\ LoseTail(toDst, Own)
      /\ phase' \in {phase, "interrupted"} /\ phase' # "preparing"
      /\ UNCHANGED <<version, gone, edits, runs, fileAck, windowAck, dst, disk, manifest>>
  BY DEF LoseSrc, CrashSrc, SrcLost, Interrupt, Own, dirVars, dstVars, Types, BackendTypes
<1>4. CASE src' = [src EXCEPT !.done = TRUE] /\ Registered
  <2>1. src' = SrcSession(src.pc, TRUE, src.cur, src.id, src.attempt, src.offset,
                          src.acked, src.warned, src.walk, src.completed)
    BY <1>1, <1>4 DEF SrcSessions, SrcSession
  <2> QED
    BY <1>2, <1>3, <1>4, <2>1 DEF LoseForm
<1>5. CASE src' = src /\ ~Registered
  <2>1. src' = SrcSession(src.pc, src.done, src.cur, src.id, src.attempt, src.offset,
                          src.acked, src.warned, src.walk, src.completed)
    BY <1>1, <1>5 DEF SrcSessions, SrcSession
  <2>2. LoseForm(src.pc, src.done)
    BY <1>2, <1>3, <2>1 DEF LoseForm
  <2> QED
    BY <1>5, <2>2
<1>6. CASE src' = [src EXCEPT !.pc = "end"] /\ src.pc # "none"
  <2>1. src' = SrcSession("end", src.done, src.cur, src.id, src.attempt, src.offset,
                          src.acked, src.warned, src.walk, src.completed)
    BY <1>1, <1>6 DEF SrcSessions, SrcSession
  <2> QED
    BY <1>2, <1>3, <1>6, <2>1 DEF LoseForm
<1> QED
  BY <1>4, <1>5, <1>6 DEF LoseSrc, CrashSrc, Registered, Ended

-----------------------------------------------------------------------------
(* Types.                                                                  *)

LEMMA MessagesTyped ==
    ASSUME Types
    PROVE  /\ [t |-> "prepare"] \in Commands /\ [t |-> "cancel"] \in Commands
           /\ src.id # 0 => [t |-> "done", id |-> src.id] \in Commands
           /\ \A n \in Nat : [t |-> "wack", n |-> n] \in Answers
           /\ \A ok \in BOOLEAN : [t |-> "fack", ok |-> ok] \in Answers
           /\ \A ok \in BOOLEAN, c \in Known :
                 [t |-> "ready", ok |-> ok, completed |-> c] \in Answers
           /\ Scan \in Known /\ None \in Known
<1>1. Scan \in Known
  BY DEF Scan, Known, Types, DstTypes, DstFiles, Mtimes
<1>2. src.id # 0 => [t |-> "done", id |-> src.id] \in Commands
  BY DEF Commands, Ids, Types, SrcTypes, SrcSessions
<1>3. /\ [t |-> "prepare"] \in Commands /\ [t |-> "cancel"] \in Commands
  BY DEF Commands
<1>4. /\ \A n \in Nat : [t |-> "wack", n |-> n] \in Answers
      /\ \A ok \in BOOLEAN : [t |-> "fack", ok |-> ok] \in Answers
      /\ \A ok \in BOOLEAN, c \in Known :
            [t |-> "ready", ok |-> ok, completed |-> c] \in Answers
  BY DEF Answers
<1> QED
  BY <1>1, <1>2, <1>3, <1>4, Constants

LEMMA SrcFields ==
    ASSUME Types
    PROVE  /\ src.pc \in PCs /\ src.done \in BOOLEAN /\ src.cur \in 0 .. NumFiles
           /\ src.id \in Nat /\ src.attempt \in 0 .. MaxRetries
           /\ src.offset \in 0 .. FileChunks /\ src.acked \in Nat
           /\ src.warned \in BOOLEAN /\ src.walk \in Known /\ src.completed \in Known
           /\ src.pc \in {"open", "sending", "verdict"} => src.attempt < MaxRetries
           /\ \A f \in Files : src.walk[f] \in Mtimes /\ src.completed[f] \in Mtimes
           /\ windowAck \in Seq(Nat) /\ fileAck \in Seq(BOOLEAN)
BY DEF Types, SrcTypes, SrcSessions, Known, Mtimes

LEMMA SourceTyped ==
    ASSUME Types, SourceKeeps, SrcTypes',
           phase' \in Phases, phase' = "preparing" => phase = "preparing",
           faults' \in 0 .. MaxFaults, toDst' \in Seq(Commands)
    PROVE  Types'
BY DEF Types, SourceKeeps, DirTypes, BackendTypes, NetTypes, DstTypes

LEMMA SourceTypes ==
    ASSUME Types, AboutInv, CopyInv, Source
    PROVE  Types'
<1>a. /\ phase \in Phases /\ faults \in 0 .. MaxFaults /\ toDst \in Seq(Commands)
      /\ version \in [Files -> Versions] /\ gone \subseteq Files
  BY DEF Types, BackendTypes, NetTypes, DirTypes
<1>b. "next" \in PCs /\ "open" \in PCs /\ "sending" \in PCs /\ "verdict" \in PCs /\ "end" \in PCs
  BY DEF PCs
<1>c. /\ src.pc \in PCs /\ src.done \in BOOLEAN /\ src.cur \in 0 .. NumFiles
      /\ src.id \in Nat /\ src.attempt \in 0 .. MaxRetries
      /\ src.offset \in 0 .. FileChunks /\ src.acked \in Nat
      /\ src.warned \in BOOLEAN /\ src.walk \in Known /\ src.completed \in Known
  BY SrcFields
<1>d. /\ windowAck \in Seq(Nat) /\ fileAck \in Seq(BOOLEAN)
      /\ << >> \in Seq(Nat) /\ << >> \in Seq(BOOLEAN)
  BY SrcFields
<1>e. src.pc \in {"open", "sending", "verdict"} => src.attempt < MaxRetries
  BY SrcFields
<1>f. NumFiles \in Nat /\ FileChunks \in Nat /\ MaxRetries \in Nat \ {0}
  BY Constants
<1>1. CASE Register
  <2>1. Walk \in Known
    BY <1>a DEF Known, Walk
  <2>2. src' \in SrcSessions /\ src'.pc = "next"
    BY <1>1, <1>b, <1>c, <2>1, RegisterForm DEF SrcSession, SrcSessions
  <2>3. SrcTypes'
    BY <1>1, <1>d, <2>2, RegisterForm DEF SrcTypes
  <2> QED
    BY <1>1, <1>a, <2>3, RegisterForm, SourceTyped
<1>2. CASE NextFile
  <2>1. src.cur + 1 \in 0 .. NumFiles /\ src.id + 1 \in Nat /\ 0 \in 0 .. MaxRetries /\ 0 < MaxRetries
    <3>1. src.cur < NumFiles
      BY <1>2, NextFileForm
    <3> QED
      BY <1>c, <1>f, <3>1
  <2>2. src' \in SrcSessions /\ (src'.pc = "next" \/ (src'.pc = "open" /\ src'.attempt = 0))
    <3>1. CASE src' = SrcSession("next", src.done, src.cur + 1, src.id, src.attempt,
                          src.offset, src.acked, src.warned, src.walk, src.completed)
      <4> DEFINE c == src.cur + 1
      <4>1. c \in 0 .. NumFiles
        BY <2>1
      <4> HIDE DEF c
      <4>2. src' = SrcSession("next", src.done, c, src.id, src.attempt,
                          src.offset, src.acked, src.warned, src.walk, src.completed)
        BY <3>1 DEF c
      <4>3. src' \in SrcSessions
        BY <4>1, <4>2, <1>b, <1>c DEF SrcSession, SrcSessions
      <4>4. src'.pc = "next"
        BY <4>2 DEF SrcSession
      <4> QED
        BY <4>3, <4>4
    <3>2. CASE src' = SrcSession("open", src.done, src.cur + 1, src.id + 1, 0,
                          src.offset, src.acked, src.warned, src.walk, src.completed)
      BY <3>2, <1>b, <1>c, <2>1 DEF SrcSession, SrcSessions
    <3> QED
      BY <1>2, <3>1, <3>2, NextFileForm
  <2>3. SrcTypes'
    BY <1>2, <1>d, <2>1, <2>2, NextFileForm DEF SrcTypes
  <2> QED
    BY <1>2, <1>a, <2>3, NextFileForm, SourceTyped
<1>3. CASE Ends
  <2>1. src' \in SrcSessions /\ src'.pc = "end"
    BY <1>3, <1>b, <1>c, EndsForm DEF SrcSession, SrcSessions
  <2>2. SrcTypes'
    BY <1>3, <1>d, <2>1, EndsForm DEF SrcTypes
  <2>3. phase' \in Phases /\ (phase' = "preparing" => phase = "preparing")
    BY <1>3, <1>a, EndsForm DEF Phases
  <2> QED
    BY <1>3, <1>a, <2>2, <2>3, EndsForm, SourceTyped
<1>4. CASE Open
  <2>a. 0 \in 0 .. FileChunks /\ 0 \in Nat /\ src.attempt < MaxRetries
    BY <1>4, <1>e, <1>f, OpenForm
  <2>1. src' \in SrcSessions /\ src'.attempt = src.attempt
    <3>1. CASE src' = SrcSession("next", src.done, src.cur, src.id, src.attempt,
                          src.offset, src.acked, TRUE, src.walk, src.completed)
      BY <3>1, <1>b, <1>c DEF SrcSession, SrcSessions
    <3>2. CASE src' = SrcSession("sending", src.done, src.cur, src.id, src.attempt, 0, 0,
                          src.warned, src.walk, src.completed)
      BY <3>2, <1>b, <1>c, <2>a DEF SrcSession, SrcSessions
    <3> QED
      BY <1>4, <3>1, <3>2, OpenForm
  <2>2. SrcTypes'
    BY <1>4, <1>d, <2>a, <2>1, OpenForm DEF SrcTypes
  <2>3. FileMessage \in Commands
    <3>1. src.pc = "open"
      BY <1>4, OpenForm
    <3>2. src.cur \in Files /\ src.id \in Ids
      BY <3>1, <1>c DEF AboutInv, Ids
    <3>3. /\ src.walk[src.cur] \in Mtimes /\ manifest[src.cur] \in Mtimes
          /\ version[src.cur] \in Versions
      BY <1>a, <1>c, <3>2 DEF Types, DstTypes, Known, Mtimes
    <3>4. manifest[src.cur] < src.walk[src.cur]
      BY <3>1 DEF CopyInv, Uncopied
    <3>5. src.walk[src.cur] \in Versions
      <4>1. \A v \in Versions : v \in Nat
        BY Constants
      <4> QED
        BY <3>3, <3>4, <4>1 DEF Mtimes
    <3> QED
      BY <3>2, <3>3, <3>5 DEF FileMessage, Commands
  <2>4. toDst' \in Seq(Commands)
    <3>1. CASE toDst' = toDst
      BY <3>1, <1>a
    <3>2. CASE Emit(FileMessage)
      BY <3>2, <2>3, EmitTyped
    <3> QED
      BY <1>4, <3>1, <3>2, OpenForm
  <2> QED
    BY <1>4, <1>a, <2>2, <2>4, OpenForm, SourceTyped
<1>5. CASE SendChunk
  <2>1. PICK n \in {src.acked} \cup {windowAck[i] : i \in DOMAIN windowAck} :
           /\ src.acked <= n
           /\ src' = SrcSession("sending", src.done, src.cur, src.id, src.attempt,
                        src.offset + 1, n, src.warned, src.walk, src.completed)
    BY <1>5, SendChunkForm
  <2>2. n \in Nat
    BY <2>1, <1>c, <1>d
  <2>a. src.pc = "sending" /\ src.offset < FileChunks
    BY <1>5, SendChunkForm
  <2>3. src.offset + 1 \in 0 .. FileChunks
    BY <2>a, <1>c, <1>f
  <2>4. src' \in SrcSessions /\ src'.attempt = src.attempt
    BY <1>b, <1>c, <2>1, <2>2, <2>3 DEF SrcSession, SrcSessions
  <2>5. SrcTypes'
    BY <1>5, <1>d, <1>e, <2>a, <2>4, SendChunkForm DEF SrcTypes
  <2>6. ChunkMessage \in Commands
    <3>1. src.cur \in Files /\ src.id \in Ids
      BY <2>a, <1>c DEF AboutInv, Ids
    <3>2. version[src.cur] \in Versions /\ src.offset + 1 \in 1 .. FileChunks
      BY <1>a, <3>1, <2>3, <1>c, <1>f
    <3>3. Content(src.cur, version[src.cur])[src.offset + 1] \in Chunks
      BY <3>1, <3>2, ContentTyped
    <3> QED
      BY <3>1, <3>3 DEF ChunkMessage, Commands
  <2>7. toDst' \in Seq(Commands)
    <3>1. Emit(ChunkMessage)
      BY <1>5, SendChunkForm
    <3> QED
      BY <2>6, <3>1, EmitTyped
  <2> QED
    BY <1>5, <1>a, <2>5, <2>7, SendChunkForm, SourceTyped
<1>6. CASE TakeAck
  <2>1. Head(windowAck) \in Nat /\ Tail(windowAck) \in Seq(Nat)
    <3>1. windowAck # << >>
      BY <1>6, TakeAckForm
    <3> QED
      BY <3>1, <1>d, SeqHead
  <2>2. src' \in SrcSessions /\ src'.attempt = src.attempt /\ src.pc = "sending"
    <3>1. (IF Head(windowAck) > src.acked THEN Head(windowAck) ELSE src.acked) \in Nat
      BY <2>1, <1>c
    <3> QED
      BY <1>6, <1>b, <1>c, <3>1, TakeAckForm DEF SrcSession, SrcSessions
  <2>3. SrcTypes'
    BY <1>6, <1>d, <1>e, <2>1, <2>2, TakeAckForm DEF SrcTypes
  <2> QED
    BY <1>6, <1>a, <2>3, TakeAckForm, SourceTyped
<1>7. CASE EndFile
  <2>1. src' \in SrcSessions /\ src'.attempt = src.attempt /\ src.pc = "sending"
    BY <1>7, <1>b, <1>c, EndFileForm DEF SrcSession, SrcSessions
  <2>2. SrcTypes'
    BY <1>7, <1>d, <1>e, <2>1, EndFileForm DEF SrcTypes
  <2>3. toDst' \in Seq(Commands)
    <3>1. src.id # 0
      BY <2>1 DEF AboutInv
    <3>2. [t |-> "done", id |-> src.id] \in Commands
      BY <3>1, MessagesTyped
    <3>3. Emit([t |-> "done", id |-> src.id])
      BY <1>7, EndFileForm
    <3> QED
      BY <3>2, <3>3, EmitTyped
  <2> QED
    BY <1>7, <1>a, <2>2, <2>3, EndFileForm, SourceTyped
<1>8. CASE Verdict
  <2>1. src.attempt < MaxRetries /\ src.attempt + 1 \in 0 .. MaxRetries
    <3>1. src.pc = "verdict"
      BY <1>8, VerdictForm
    <3>2. src.attempt < MaxRetries
      BY <3>1, <1>e
    <3> QED
      BY <3>2, <1>c, <1>f
  <2>2. src' \in SrcSessions /\ (src'.pc = "next" \/ (src'.pc = "open" /\ src'.attempt < MaxRetries))
    <3>1. CASE src' = SrcSession("next", src.done, src.cur, src.id, src.attempt,
                          src.offset, src.acked, src.warned, src.walk, src.completed)
      BY <3>1, <1>b, <1>c DEF SrcSession, SrcSessions
    <3>2. CASE /\ src.attempt + 1 < MaxRetries
               /\ src' = SrcSession("open", src.done, src.cur, src.id, src.attempt + 1,
                          src.offset, src.acked, src.warned, src.walk, src.completed)
      BY <3>2, <1>b, <1>c, <2>1 DEF SrcSession, SrcSessions
    <3>3. CASE src' = SrcSession("next", src.done, src.cur, src.id, src.attempt + 1,
                          src.offset, src.acked, TRUE, src.walk, src.completed)
      BY <3>3, <1>b, <1>c, <2>1 DEF SrcSession, SrcSessions
    <3> QED
      BY <1>8, <3>1, <3>2, <3>3, VerdictForm
  <2>3. SrcTypes'
    BY <1>8, <1>d, <2>2, VerdictForm DEF SrcTypes
  <2> QED
    BY <1>8, <1>a, <2>3, VerdictForm, SourceTyped
<1> QED
  BY <1>1, <1>2, <1>3, <1>4, <1>5, <1>6, <1>7, <1>8 DEF Source, Ends

\* What each step of the destination does to its files.
LEMMA DiskTyped ==
    ASSUME Types
    PROVE  /\ DOMAIN disk \subseteq Files /\ disk \in [DOMAIN disk -> DstFiles]
           /\ \A f \in DOMAIN disk :
                 /\ disk[f] \in DstFiles
                 /\ disk[f].data \in Seq(Chunks) /\ disk[f].mtime \in Mtimes
                 /\ Len(disk[f].data) \in Nat
<1>1. DOMAIN disk \subseteq Files /\ disk \in [DOMAIN disk -> DstFiles]
  BY DEF Types, DstTypes
<1>2. \A f \in DOMAIN disk : disk[f] \in DstFiles
  BY <1>1
<1>3. \A f \in DOMAIN disk : disk[f].data \in Seq(Chunks) /\ disk[f].mtime \in Mtimes
  BY <1>2 DEF DstFiles
<1>4. \A f \in DOMAIN disk : Len(disk[f].data) \in Nat
  BY <1>3, LenProperties
<1> QED
  BY <1>1, <1>2, <1>3, <1>4

LEMMA TruncatedDisk ==
    ASSUME Types, NEW f \in Files, disk' = Truncated(f)
    PROVE  /\ DOMAIN disk' = DOMAIN disk \cup {f} /\ disk' \in [DOMAIN disk' -> DstFiles]
           /\ disk'[f].data = << >> /\ disk'[f].mtime = 0
           /\ \A g \in DOMAIN disk \ {f} : disk'[g] = disk[g]
<1>1. [data |-> << >>, mtime |-> 0] \in DstFiles
  BY DEF DstFiles, Mtimes
<1>2. DOMAIN disk' = DOMAIN disk \cup {f}
  BY DEF Truncated
<1>3. disk'[f] = [data |-> << >>, mtime |-> 0]
  BY DEF Truncated
<1>4. \A g \in DOMAIN disk \ {f} : disk'[g] = disk[g]
  BY DEF Truncated
<1>5. \A g \in DOMAIN disk' : disk'[g] \in DstFiles
  BY <1>1, <1>2, <1>3, <1>4, DiskTyped
<1>6. disk' \in [DOMAIN disk' -> DstFiles]
  BY <1>2, <1>5 DEF Truncated
<1> QED
  BY <1>2, <1>3, <1>4, <1>6

LEMMA AppendedDisk ==
    ASSUME Types, NEW f \in DOMAIN disk, NEW x \in Chunks,
           disk' = [disk EXCEPT ![f].data = Append(@, x)]
    PROVE  /\ DOMAIN disk' = DOMAIN disk /\ disk' \in [DOMAIN disk' -> DstFiles]
           /\ disk'[f].data = Append(disk[f].data, x) /\ disk'[f].mtime = disk[f].mtime
           /\ \A g \in DOMAIN disk \ {f} : disk'[g] = disk[g]
<1>1. disk[f] \in DstFiles /\ disk[f].data \in Seq(Chunks)
  BY DiskTyped
<1>2. Append(disk[f].data, x) \in Seq(Chunks)
  BY <1>1, SeqAppend
<1>3. disk'[f] = [disk[f] EXCEPT !.data = Append(@, x)] /\ DOMAIN disk' = DOMAIN disk
  OBVIOUS
<1>4. \A g \in DOMAIN disk \ {f} : disk'[g] = disk[g]
  OBVIOUS
<1>5. /\ disk'[f] \in DstFiles /\ disk'[f].data = Append(disk[f].data, x)
      /\ disk'[f].mtime = disk[f].mtime
  BY <1>1, <1>2, <1>3 DEF DstFiles
<1>6. \A g \in DOMAIN disk' : disk'[g] \in DstFiles
  BY <1>3, <1>4, <1>5, DiskTyped
<1>7. disk' \in [DOMAIN disk' -> DstFiles]
  BY <1>3, <1>6
<1> QED
  BY <1>3, <1>4, <1>5, <1>7

LEMMA StampedDisk ==
    ASSUME Types, NEW f \in DOMAIN disk, NEW t \in Mtimes,
           disk' = [disk EXCEPT ![f].mtime = t]
    PROVE  /\ DOMAIN disk' = DOMAIN disk /\ disk' \in [DOMAIN disk' -> DstFiles]
           /\ disk'[f].data = disk[f].data /\ disk'[f].mtime = t
           /\ \A g \in DOMAIN disk \ {f} : disk'[g] = disk[g]
<1>1. disk[f] \in DstFiles
  BY DiskTyped
<1>3. disk'[f] = [disk[f] EXCEPT !.mtime = t] /\ DOMAIN disk' = DOMAIN disk
  OBVIOUS
<1>4. \A g \in DOMAIN disk \ {f} : disk'[g] = disk[g]
  OBVIOUS
<1>5. disk'[f] \in DstFiles /\ disk'[f].data = disk[f].data /\ disk'[f].mtime = t
  BY <1>1, <1>3 DEF DstFiles
<1>6. \A g \in DOMAIN disk' : disk'[g] \in DstFiles
  BY <1>3, <1>4, <1>5, DiskTyped
<1>7. disk' \in [DOMAIN disk' -> DstFiles]
  BY <1>3, <1>6
<1> QED
  BY <1>3, <1>4, <1>5, <1>7

LEMMA RemovedDisk ==
    ASSUME Types, NEW f \in Files, disk' = [g \in DOMAIN disk \ {f} |-> disk[g]]
    PROVE  /\ DOMAIN disk' = DOMAIN disk \ {f} /\ disk' \in [DOMAIN disk' -> DstFiles]
           /\ \A g \in DOMAIN disk \ {f} : disk'[g] = disk[g]
<1>1. DOMAIN disk' = DOMAIN disk \ {f} /\ \A g \in DOMAIN disk \ {f} : disk'[g] = disk[g]
  OBVIOUS
<1>2. \A g \in DOMAIN disk' : disk'[g] \in DstFiles
  BY <1>1, DiskTyped
<1>3. disk' \in [DOMAIN disk' -> DstFiles]
  BY <1>1, <1>2
<1> QED
  BY <1>1, <1>3

\* Power takes the data of some files.
LEMMA EmptiedDisk ==
    ASSUME Types, NEW lost,
           disk' = [f \in DOMAIN disk |->
                      IF f \in lost THEN [disk[f] EXCEPT !.data = << >>] ELSE disk[f]]
    PROVE  /\ DOMAIN disk' = DOMAIN disk /\ disk' \in [DOMAIN disk' -> DstFiles]
           /\ \A f \in DOMAIN disk : /\ disk'[f].data \in {<< >>, disk[f].data}
                                     /\ disk'[f].mtime = disk[f].mtime
<1>1. DOMAIN disk' = DOMAIN disk
  OBVIOUS
<1>2. ASSUME NEW f \in DOMAIN disk
      PROVE  /\ disk'[f] \in DstFiles /\ disk'[f].data \in {<< >>, disk[f].data}
             /\ disk'[f].mtime = disk[f].mtime
  <2>1. disk[f] \in DstFiles
    BY DiskTyped
  <2>2. disk'[f] = [disk[f] EXCEPT !.data = << >>] \/ disk'[f] = disk[f]
    OBVIOUS
  <2>3. << >> \in Seq(Chunks)
    OBVIOUS
  <2> QED
    BY <2>1, <2>2, <2>3 DEF DstFiles
<1>3. disk' \in [DOMAIN disk' -> DstFiles]
  BY <1>1, <1>2
<1> QED
  BY <1>1, <1>2, <1>3

\* What a message to the destination carries.
LEMMA HeadTyped ==
    ASSUME Types, NEW t, Receives(t)
    PROVE  /\ t = "file" => /\ Head(toDst).id \in Ids /\ Head(toDst).f \in Files
                            /\ Head(toDst).mtime \in Versions /\ Head(toDst).sum \in Versions
           /\ t = "chunk" => Head(toDst).id \in Ids /\ Head(toDst).data \in Chunks
           /\ t = "done" => Head(toDst).id \in Ids
<1>1. Head(toDst) \in Commands /\ Head(toDst).t = t
  BY ReceivesTyped
<1> QED
  BY <1>1 DEF Commands

LEMMA DestinationTyped ==
    ASSUME Types, DestinationKeeps, DstTypes',
           faults' \in 0 .. MaxFaults, toDst' \in Seq(Commands), toSrc' \in Seq(Answers)
    PROVE  Types'
BY DEF Types, DestinationKeeps, DirTypes, BackendTypes, SrcTypes, NetTypes, DstTypes

LEMMA DstFields ==
    ASSUME Types
    PROVE  /\ dst.open \in BOOLEAN /\ dst.id \in Nat /\ dst.file \in 0 .. NumFiles
           /\ dst.sum \in Mtimes /\ dst.mtime \in Mtimes /\ dst.writing \in BOOLEAN
           /\ dst.acked \in Nat /\ dst.broken \in BOOLEAN /\ dst.fresh \in SUBSET Files
           /\ manifest \in Known /\ \A f \in Files : manifest[f] \in Mtimes
           /\ toSrc \in Seq(Answers) /\ toDst \in Seq(Commands)
           /\ faults \in 0 .. MaxFaults
BY DEF Types, DstTypes, DstSessions, NetTypes, BackendTypes, Known, Mtimes

LEMMA ClosedTyped == Closed \in DstSessions
BY Constants DEF Closed, DstSessions, Mtimes

LEMMA DestinationTypes ==
    ASSUME Types, AboutInv, Destination
    PROVE  Types'
<1>a. /\ dst.open \in BOOLEAN /\ dst.id \in Nat /\ dst.file \in 0 .. NumFiles
      /\ dst.sum \in Mtimes /\ dst.mtime \in Mtimes /\ dst.writing \in BOOLEAN
      /\ dst.acked \in Nat /\ dst.broken \in BOOLEAN /\ dst.fresh \in SUBSET Files
  BY DstFields
<1>b. /\ manifest \in Known /\ toSrc \in Seq(Answers) /\ toDst \in Seq(Commands)
      /\ dst \in DstSessions /\ DOMAIN disk \subseteq Files /\ disk \in [DOMAIN disk -> DstFiles]
      /\ faults \in 0 .. MaxFaults
  BY DstFields DEF Types, DstTypes
<1>1. CASE DstPrepare
  <2>1. toDst' \in Seq(Commands) /\ faults' \in 0 .. MaxFaults /\ DestinationKeeps
    BY <1>1, DstPrepareForm, ReceivesTyped
  <2>2. DstSession(TRUE, 0, 0, 0, 0, FALSE, 0, FALSE, {}) \in DstSessions
    BY Constants DEF DstSession, DstSessions, Mtimes
  <2>3. DstTypes'
    BY <1>1, <1>b, <2>2, DstPrepareForm DEF DstTypes
  <2>4. toSrc' \in Seq(Answers)
    BY <1>1, MessagesTyped, AnswerTyped, DstPrepareForm
  <2> QED
    BY <2>1, <2>3, <2>4, DestinationTyped
<1>2. CASE DstCancel
  <2>1. toDst' \in Seq(Commands) /\ DestinationKeeps
    BY <1>2, ReceivesTyped, DestinationFrame DEF DstCancel
  <2>2. DstTypes'
    BY <1>2, <1>b, ClosedTyped DEF DstCancel, DstTypes
  <2> QED
    BY <1>2, <1>b, <2>1, <2>2, DestinationTyped DEF DstCancel
<1>3. CASE DstFile
  <2>1. /\ toDst' \in Seq(Commands) /\ faults' \in 0 .. MaxFaults /\ DestinationKeeps
        /\ toSrc' = toSrc /\ manifest' = manifest
    BY <1>3, DstFileForm, ReceivesTyped
  <2>2. DstTypes'
    <3>1. CASE dst' = dst /\ disk' = disk
      BY <3>1, <1>b, <2>1 DEF DstTypes
    <3>2. CASE /\ disk' = Truncated(Head(toDst).f)
               /\ dst' = DstSession(TRUE, Head(toDst).id, Head(toDst).f, Head(toDst).sum,
                            Head(toDst).mtime, TRUE, 0, FALSE, dst.fresh \cup {Head(toDst).f})
      <4> DEFINE m == Head(toDst)
      <4>1. m.id \in Ids /\ m.f \in Files /\ m.mtime \in Versions /\ m.sum \in Versions
        BY <1>3, HeadTyped, DstFileForm
      <4>2. m.id \in Nat /\ m.f \in 0 .. NumFiles /\ m.mtime \in Mtimes /\ m.sum \in Mtimes
        BY <4>1, Constants DEF Ids, Files, Mtimes
      <4>3. dst.fresh \cup {m.f} \in SUBSET Files
        BY <4>1, <1>a
      <4>4. dst' = DstSession(TRUE, m.id, m.f, m.sum, m.mtime, TRUE, 0, FALSE, dst.fresh \cup {m.f})
        BY <3>2
      <4>5. /\ disk' \in [DOMAIN disk' -> DstFiles]
            /\ DOMAIN disk' = DOMAIN disk \cup {m.f}
        <5>1. disk' = Truncated(m.f)
          BY <3>2
        <5> HIDE DEF m
        <5> QED
          BY <5>1, <4>1, TruncatedDisk
      <4> HIDE DEF m
      <4>6. dst' \in DstSessions
        BY <4>2, <4>3, <4>4 DEF DstSession, DstSessions
      <4> QED
        BY <4>1, <4>5, <4>6, <2>1, <1>b DEF DstTypes
    <3>3. CASE /\ disk' = disk
               /\ dst' = DstSession(dst.open, dst.id, dst.file, dst.sum, dst.mtime, FALSE,
                            dst.acked, TRUE, dst.fresh)
      <4>1. dst' \in DstSessions
        BY <3>3, <1>a DEF DstSession, DstSessions
      <4> QED
        BY <4>1, <3>3, <1>b, <2>1 DEF DstTypes
    <3> QED
      BY <1>3, <3>1, <3>2, <3>3, DstFileForm
  <2> QED
    BY <1>b, <2>1, <2>2, DestinationTyped
<1>4. CASE DstChunk
  <2>1. /\ toDst' \in Seq(Commands) /\ faults' \in 0 .. MaxFaults /\ DestinationKeeps
        /\ manifest' = manifest
    BY <1>4, DstChunkForm, ReceivesTyped
  <2>2. CASE UNCHANGED <<toSrc, dst, disk>>
    BY <2>1, <2>2, <1>b, DestinationTyped DEF DstTypes
  <2>3. CASE /\ dst.open /\ dst.writing /\ Head(toDst).id = dst.id
             /\ disk' = [disk EXCEPT ![dst.file].data = Append(@, Head(toDst).data)]
             /\ \/ UNCHANGED <<toSrc, dst>>
                \/ /\ dst' = DstSession(dst.open, dst.id, dst.file, dst.sum, dst.mtime,
                               dst.writing, Written + 1, dst.broken, dst.fresh)
                   /\ Answer([t |-> "wack", n |-> Written + 1])
    <3>1. dst.file \in DOMAIN disk
      BY <2>3 DEF AboutInv
    <3>2. Head(toDst).data \in Chunks
      BY <1>4, HeadTyped, DstChunkForm
    <3>3. disk' \in [DOMAIN disk' -> DstFiles] /\ DOMAIN disk' \subseteq Files
      BY <2>3, <3>1, <3>2, <1>b, AppendedDisk
    <3>4. Written + 1 \in Nat
      BY <3>1, DiskTyped DEF Written
    <3>5. dst' \in DstSessions
      <4>1. ASSUME NEW w \in Nat,
                   dst' = DstSession(dst.open, dst.id, dst.file, dst.sum, dst.mtime,
                             dst.writing, w, dst.broken, dst.fresh)
            PROVE  dst' \in DstSessions
        BY <1>a, <4>1 DEF DstSession, DstSessions
      <4> QED
        BY <2>3, <3>4, <4>1, <1>b
    <3>6. toSrc' \in Seq(Answers)
      BY <2>3, <3>4, <1>b, MessagesTyped, AnswerTyped
    <3>7. DstTypes'
      BY <3>3, <3>5, <2>1, <1>b DEF DstTypes
    <3> QED
      BY <3>6, <3>7, <2>1, DestinationTyped
  <2>4. CASE /\ dst' = DstSession(dst.open, dst.id, dst.file, dst.sum, dst.mtime,
                          dst.writing, dst.acked, TRUE, dst.fresh)
             /\ UNCHANGED <<toSrc, disk>>
    <3>1. dst' \in DstSessions
      BY <2>4, <1>a DEF DstSession, DstSessions
    <3>2. DstTypes'
      BY <3>1, <2>4, <1>b, <2>1 DEF DstTypes
    <3> QED
      BY <3>2, <2>4, <1>b, <2>1, DestinationTyped
  <2> QED
    BY <1>4, <2>2, <2>3, <2>4, DstChunkForm
<1>5. CASE DstFileDone
  <2>1. /\ toDst' \in Seq(Commands) /\ faults' = faults /\ DestinationKeeps
        /\ Head(toDst).id \in Ids
    BY <1>5, DstFileDoneForm, ReceivesTyped, HeadTyped
  <2>2. CASE UNCHANGED <<toSrc, dst, disk, manifest>>
    BY <2>1, <2>2, <1>b, DestinationTyped DEF DstTypes
  <2>3. CASE /\ dst.open /\ Head(toDst).id = dst.id
             /\ dst' = DstSession(dst.open, 0, dst.file, dst.sum, dst.mtime, FALSE,
                          dst.acked, dst.broken, dst.fresh)
             /\ \/ /\ Verified /\ Answer([t |-> "fack", ok |-> TRUE])
                   /\ disk' = [disk EXCEPT ![dst.file].mtime = dst.mtime]
                   /\ manifest' = [manifest EXCEPT ![dst.file] = dst.mtime]
                \/ /\ ~Verified /\ Answer([t |-> "fack", ok |-> FALSE])
                   /\ disk' = [f \in DOMAIN disk \ {dst.file} |-> disk[f]]
                   /\ UNCHANGED manifest
    <3>1. dst.file \in DOMAIN disk /\ dst.file \in Files
      BY <2>1, <2>3, <1>b DEF AboutInv, Ids
    <3>2. dst' \in DstSessions
      BY <2>3, <1>a DEF DstSession, DstSessions
    <3>3. /\ disk' \in [DOMAIN disk' -> DstFiles] /\ DOMAIN disk' \subseteq Files
          /\ toSrc' \in Seq(Answers) /\ manifest' \in Known
      <4>1. CASE /\ Answer([t |-> "fack", ok |-> TRUE])
                 /\ disk' = [disk EXCEPT ![dst.file].mtime = dst.mtime]
                 /\ manifest' = [manifest EXCEPT ![dst.file] = dst.mtime]
        <5>1. disk' \in [DOMAIN disk' -> DstFiles] /\ DOMAIN disk' \subseteq Files
          BY <4>1, <3>1, <1>a, <1>b, StampedDisk
        <5>2. toSrc' \in Seq(Answers)
          BY <4>1, MessagesTyped, AnswerTyped
        <5>3. manifest' \in Known
          BY <4>1, <1>a, <1>b DEF Known, Mtimes
        <5> QED
          BY <5>1, <5>2, <5>3
      <4>2. CASE /\ Answer([t |-> "fack", ok |-> FALSE])
                 /\ disk' = [f \in DOMAIN disk \ {dst.file} |-> disk[f]]
                 /\ UNCHANGED manifest
        <5>1. disk' \in [DOMAIN disk' -> DstFiles] /\ DOMAIN disk' \subseteq Files
          BY <4>2, <3>1, <1>b, RemovedDisk
        <5>2. toSrc' \in Seq(Answers)
          BY <4>2, MessagesTyped, AnswerTyped
        <5> QED
          BY <4>2, <5>1, <5>2, <1>b
      <4> QED
        BY <2>3, <4>1, <4>2
    <3>4. DstTypes'
      BY <3>2, <3>3 DEF DstTypes
    <3> QED
      BY <3>3, <3>4, <1>b, <2>1, DestinationTyped
  <2> QED
    BY <1>5, <2>2, <2>3, DstFileDoneForm
<1> QED
  BY <1>1, <1>2, <1>3, <1>4, <1>5 DEF Destination

LEMMA OtherTypes ==
    ASSUME Types, \/ TakeVerdictMsg \/ TakeWindowMsg
                  \/ LoseSrc \/ CrashSrc \/ LoseDst \/ PowerLoss
    PROVE  Types'
<1>a. /\ toSrc \in Seq(Answers) /\ toDst \in Seq(Commands) /\ << >> \in Seq(Answers)
      /\ << >> \in Seq(Commands) /\ fileAck \in Seq(BOOLEAN) /\ windowAck \in Seq(Nat)
      /\ phase \in Phases /\ manifest \in Known
      /\ DOMAIN disk \subseteq Files /\ disk \in [DOMAIN disk -> DstFiles]
  BY DstFields, SrcFields DEF Types, BackendTypes, DstTypes
<1>1. CASE TakeVerdictMsg
  <2>1. Head(toSrc) \in Answers /\ Head(toSrc).t = "fack" /\ toSrc' \in Seq(Answers)
    BY <1>1, TakesTyped DEF TakeVerdictMsg
  <2>2. Head(toSrc).ok \in BOOLEAN
    BY <2>1 DEF Answers
  <2>3. fileAck' \in Seq(BOOLEAN)
    <3>1. <<Head(toSrc).ok>> \in Seq(BOOLEAN)
      BY <2>2
    <3> QED
      BY <1>1, <1>a, <3>1 DEF TakeVerdictMsg
  <2> QED
    BY <1>1, <2>1, <2>3 DEF TakeVerdictMsg, Types, DirTypes, BackendTypes, SrcTypes, NetTypes,
       DstTypes, dirVars, backendVars, dstVars
<1>2. CASE TakeWindowMsg
  <2>1. Head(toSrc) \in Answers /\ Head(toSrc).t = "wack" /\ toSrc' \in Seq(Answers)
    BY <1>2, TakesTyped DEF TakeWindowMsg
  <2>2. Head(toSrc).n \in Nat
    BY <2>1 DEF Answers
  <2>3. windowAck' \in Seq(Nat)
    <3>1. Append(windowAck, Head(toSrc).n) \in Seq(Nat)
      BY <1>a, <2>2
    <3> QED
      BY <1>2, <1>a, <3>1 DEF TakeWindowMsg
  <2> QED
    BY <1>2, <2>1, <2>3 DEF TakeWindowMsg, Types, DirTypes, BackendTypes, SrcTypes, NetTypes,
       DstTypes, dirVars, backendVars, dstVars
<1>3. CASE LoseSrc \/ CrashSrc
  <2>1. \E pc \in {"end", src.pc}, done \in {TRUE, src.done} :
           /\ LoseForm(pc, done) /\ (pc = src.pc \/ pc = "end")
    <3>1. LoseForm(src.pc, TRUE) \/ LoseForm(src.pc, src.done) \/ LoseForm("end", src.done)
      BY <1>3, SrcLostForm
    <3> QED
      BY <3>1
  <2>2. PICK pc \in {"end", src.pc}, done \in {TRUE, src.done} :
           /\ LoseForm(pc, done) /\ (pc = src.pc \/ pc = "end")
    BY <2>1
  <2>3. pc \in PCs /\ done \in BOOLEAN
    BY SrcFields DEF PCs
  <2>4. src' \in SrcSessions /\ src'.pc = pc /\ src'.attempt = src.attempt
    <3>1. src' = SrcSession(pc, done, src.cur, src.id, src.attempt, src.offset, src.acked,
                            src.warned, src.walk, src.completed)
      BY <2>2 DEF LoseForm
    <3>2. /\ src.cur \in 0 .. NumFiles /\ src.id \in Nat /\ src.attempt \in 0 .. MaxRetries
          /\ src.offset \in 0 .. FileChunks /\ src.acked \in Nat
          /\ src.warned \in BOOLEAN /\ src.walk \in Known /\ src.completed \in Known
      BY SrcFields
    <3> QED
      BY <3>1, <3>2, <2>3 DEF SrcSession, SrcSessions
  <2>5. SrcTypes'
    BY <2>2, <2>4, SrcFields DEF LoseForm, SrcTypes
  <2>6. toDst' \in Seq(Commands) /\ toSrc' \in Seq(Answers)
    BY <2>2, <1>a, LoseTailTyped DEF LoseForm
  <2>7. phase' \in Phases
    BY <2>2, <1>a DEF LoseForm, Phases
  <2> QED
    BY <2>2, <2>5, <2>6, <2>7 DEF LoseForm, Types, DirTypes, BackendTypes, NetTypes, DstTypes
<1>4. CASE LoseDst \/ PowerLoss
  <2>1. /\ toDst' = << >> /\ LoseTail(toSrc, {"wack", "fack", "ready"})
        /\ dst' = Closed /\ Interrupt
        /\ UNCHANGED <<version, gone, edits, runs, srcUp, src, fileAck, windowAck, manifest>>
    BY <1>4 DEF LoseDst, PowerLoss, DstLost, dirVars, srcVars
  <2>2. faults' \in 0 .. MaxFaults
    BY <1>4, FaultTyped DEF LoseDst, PowerLoss
  <2>3. disk' \in [DOMAIN disk' -> DstFiles] /\ DOMAIN disk' \subseteq Files
    <3>1. CASE LoseDst
      BY <3>1, <1>a DEF LoseDst
    <3>2. CASE PowerLoss
      <4>1. PICK lost \in SUBSET (dst.fresh \cap DOMAIN disk) :
              disk' = [f \in DOMAIN disk |->
                         IF f \in lost THEN [disk[f] EXCEPT !.data = << >>] ELSE disk[f]]
        BY <3>2 DEF PowerLoss
      <4> QED
        BY <4>1, <1>a, EmptiedDisk
    <3> QED
      BY <1>4, <3>1, <3>2
  <2>4. toSrc' \in Seq(Answers) /\ toDst' \in Seq(Commands)
    BY <2>1, <1>a, LoseTailTyped
  <2>5. phase' \in Phases /\ (phase' = "preparing" => phase = "preparing")
    BY <2>1, <1>a DEF Interrupt, Phases
  <2>6. DstTypes'
    BY <2>1, <2>3, <1>a, ClosedTyped DEF DstTypes
  <2> QED
    BY <2>1, <2>2, <2>4, <2>5, <2>6 DEF Types, DirTypes, BackendTypes, SrcTypes, NetTypes
<1> QED
  BY <1>1, <1>2, <1>3, <1>4

LEMMA NextTypes ==
    ASSUME Types, AboutInv, CopyInv, [Next]_vars
    PROVE  Types'
<1>1. CASE UNCHANGED vars
  BY <1>1 DEF vars, dirVars, backendVars, srcVars, dstVars, Types, DirTypes, BackendTypes,
     SrcTypes, NetTypes, DstTypes
<1>2. CASE Next
  BY <1>2, EditTypes, BackendStepTypes, SourceTypes, DestinationTypes, OtherTypes DEF Next, Relay
<1> QED
  BY <1>1, <1>2

-----------------------------------------------------------------------------
(* The numbers of a state, and facts about the invariant's parts.          *)

LEMMA MtimesNat == \A t \in Mtimes : t \in Nat
<1>1. \A v \in Versions : v \in Nat
  BY Constants
<1> QED
  BY <1>1 DEF Mtimes

LEMMA SrcNumbers ==
    ASSUME Types
    PROVE  /\ src.cur \in Nat /\ src.cur <= NumFiles /\ src.id \in Nat
           /\ src.offset \in Nat /\ src.offset <= FileChunks /\ src.acked \in Nat
           /\ \A f \in Files : src.walk[f] \in Nat /\ src.completed[f] \in Nat
           /\ \A i \in DOMAIN windowAck : windowAck[i] \in Nat
           /\ NumFiles \in Nat /\ Window \in Nat
<1>1. \A f \in Files : src.walk[f] \in Nat /\ src.completed[f] \in Nat
  BY SrcFields, MtimesNat
<1>2. \A i \in DOMAIN windowAck : windowAck[i] \in Nat
  BY SrcFields
<1> QED
  BY <1>1, <1>2, SrcFields, Constants

LEMMA DiskNumbers ==
    ASSUME Types
    PROVE  /\ \A f \in Files : /\ version[f] \in Nat \ {0} /\ version[f] \in Versions
                               /\ manifest[f] \in Nat
           /\ \A f \in DOMAIN disk : f \in Files /\ disk[f].mtime \in Nat
           /\ dst.id \in Nat /\ dst.mtime \in Nat /\ dst.sum \in Nat
<1>1. \A f \in Files : version[f] \in Nat \ {0} /\ version[f] \in Versions
  BY Constants DEF Types, DirTypes
<1>2. \A f \in Files : manifest[f] \in Nat
  BY DstFields, MtimesNat
<1>3. \A f \in DOMAIN disk : f \in Files /\ disk[f].mtime \in Nat
  BY DiskTyped, MtimesNat
<1>4. dst.id \in Nat /\ dst.mtime \in Nat /\ dst.sum \in Nat
  BY DstFields, MtimesNat
<1> QED
  BY <1>1, <1>2, <1>3, <1>4

LEMMA NetNumbers ==
    ASSUME Types
    PROVE  /\ \A i \in DOMAIN toDst :
                 /\ i \in Nat \ {0} /\ toDst[i] \in Commands
                 /\ toDst[i].t \in Own \cup {"cancel", "prepare"}
                 /\ toDst[i].t = "chunk" => toDst[i].data[3] \in Nat \ {0}
                 /\ toDst[i].t = "file" => toDst[i].mtime \in Nat \ {0} /\ toDst[i].sum \in Nat
           /\ \A i \in DOMAIN toSrc :
                 /\ i \in Nat \ {0} /\ toSrc[i] \in Answers
                 /\ toSrc[i].t = "wack" => toSrc[i].n \in Nat
                 /\ toSrc[i].t = "ready" => toSrc[i].completed \in Known
<1>1. toDst \in Seq(Commands) /\ toSrc \in Seq(Answers)
  BY DstFields
<1>2. ASSUME NEW m \in Commands
      PROVE  /\ m.t \in Own \cup {"cancel", "prepare"}
             /\ m.t = "chunk" => m.data \in Chunks
             /\ m.t = "file" => m.mtime \in Versions /\ m.sum \in Versions
  BY DEF Commands, Own
<1>3. \A x \in Chunks : x[3] \in Nat \ {0}
  BY Constants DEF Chunks
<1>4. \A v \in Versions : v \in Nat \ {0}
  BY Constants
<1>5. ASSUME NEW i \in DOMAIN toDst
      PROVE  /\ i \in Nat \ {0} /\ toDst[i] \in Commands
             /\ toDst[i].t \in Own \cup {"cancel", "prepare"}
             /\ toDst[i].t = "chunk" => toDst[i].data[3] \in Nat \ {0}
             /\ toDst[i].t = "file" => toDst[i].mtime \in Nat \ {0} /\ toDst[i].sum \in Nat
  <2>1. i \in Nat \ {0} /\ toDst[i] \in Commands
    BY <1>1
  <2> QED
    BY <1>2, <1>3, <1>4, <2>1
<1>6. ASSUME NEW i \in DOMAIN toSrc
      PROVE  /\ i \in Nat \ {0} /\ toSrc[i] \in Answers
             /\ toSrc[i].t = "wack" => toSrc[i].n \in Nat
             /\ toSrc[i].t = "ready" => toSrc[i].completed \in Known
  <2>1. i \in Nat \ {0} /\ toSrc[i] \in Answers
    BY <1>1
  <2> QED
    BY <2>1 DEF Answers
<1> QED
  BY <1>5, <1>6

\* A copy stays one when the source's file changes.
LEMMA GoodGrows ==
    ASSUME NEW d, NEW f, NEW v \in Nat, NEW w \in Nat, NEW x \in Nat, w <= x, GoodIn(d, f, v, w)
    PROVE  GoodIn(d, f, v, x)
<1>1. \A u \in Versions : u \in Nat
  BY Constants
<1> QED
  BY <1>1 DEF GoodIn

\* It is a copy for as long as it is not touched ...
LEMMA GoodStays ==
    ASSUME NEW d, NEW e, NEW f, NEW v, NEW w, GoodIn(d, f, v, w), f \in DOMAIN e, e[f] = d[f]
    PROVE  GoodIn(e, f, v, w)
BY DEF GoodIn

\* ... but for what the power takes.
LEMMA GoodEmptied ==
    ASSUME NEW d, NEW e, NEW f, NEW v, NEW w, GoodIn(d, f, v, w),
           f \in DOMAIN e, e[f].mtime = d[f].mtime, e[f].data \in {<< >>, d[f].data}
    PROVE  GoodIn(e, f, v, w)
BY DEF GoodIn

\* An empty channel.
LEMMA NoDomain ==
    ASSUME NEW S, NEW s \in Seq(S), \A i \in DOMAIN s : FALSE
    PROVE  s = << >>
<1>1. Len(s) \in Nat /\ DOMAIN s = 1 .. Len(s)
  BY LenProperties
<1>2. Len(s) = 0
  <2>1. ~(1 \in 1 .. Len(s))
    BY <1>1
  <2> QED
    BY <1>1, <2>1
<1> QED
  BY <1>2, EmptySeq

\* What is in a channel after a message was sent, if it was: the message is the last one.
Sent(s, t, m) ==
    \A i \in DOMAIN t : \/ i \in DOMAIN s /\ t[i] = s[i]
                        \/ t[i] = m /\ \A j \in DOMAIN t : j <= i

LEMMA SentSeq ==
    ASSUME NEW S, NEW s \in Seq(S), NEW m, NEW t, t = Append(s, m)
    PROVE  Sent(s, t, m)
<1>1. s \in Seq(S \cup {m})
  OBVIOUS
<1>2. Extended(s, t, m)
  BY <1>1, ExtendedSeq
<1> QED
  BY <1>2 DEF Extended, Sent

LEMMA SentByEither ==
    ASSUME Types, NEW m
    PROVE  /\ Emit(m) => Sent(toDst, toDst', m)
           /\ Answer(m) => Sent(toSrc, toSrc', m)
           /\ toDst' = Append(toDst, m) => Sent(toDst, toDst', m)
<1>1. toDst \in Seq(Commands) /\ toSrc \in Seq(Answers)
  BY DstFields
<1>2. Sent(toDst, toDst, m)
  BY DEF Sent
<1> QED
  BY <1>1, <1>2, SentSeq DEF Emit, Answer

\* Positions in the channels after a step.
LEMMA Indices ==
    ASSUME Types'
    PROVE  /\ \A i \in DOMAIN toDst' : i \in Nat \ {0}
           /\ \A i \in DOMAIN toSrc' : i \in Nat \ {0}
<1>1. toDst' \in Seq(Commands) /\ toSrc' \in Seq(Answers)
  BY DEF Types, NetTypes
<1> QED
  BY <1>1

-----------------------------------------------------------------------------
(* The source's steps keep the invariant.                                  *)

LEMMA IInvParts ==
    IInv => /\ Types /\ BoundsInv /\ ChannelInv /\ TurnInv /\ AboutInv /\ DiskInv /\ WalkInv
            /\ CopyInv /\ DoneInv /\ WindowInv
BY DEF IInv

LEMMA RegisterKeeps ==
    ASSUME IInv, Types', Register
    PROVE  IInv'
<1>a. /\ src.pc = "starting" /\ ~Ended /\ ~Ended'
      /\ src'.pc = "next" /\ src'.cur = src.cur /\ src'.id = src.id /\ src'.walk = Walk
      /\ src'.completed = src.completed /\ src'.offset = src.offset /\ src'.acked = src.acked
      /\ src'.warned = src.warned
  BY IInvParts, RegisterForm DEF SrcSession, Ended
<1>b. UNCHANGED <<version, toSrc, dst, disk, manifest, toDst, fileAck, windowAck, phase>>
  BY IInvParts, RegisterForm DEF SourceKeeps
<1>c. \A f \in Files : Walk[f] \in {0, version[f]}
  BY DEF Walk
<1>d. AtRest /\ src.cur = 0 /\ Offer(src.completed)
  BY <1>a, IInvParts DEF TurnInv, BoundsInv, WalkInv
<1>e. \A i \in DOMAIN toDst : toDst[i].t \notin Own
  BY <1>d DEF AtRest, Cancels, Own
<1>1. BoundsInv'
  BY <1>a, <1>b, IInvParts DEF BoundsInv
<1>2. ChannelInv'
  BY <1>a, <1>b, IInvParts DEF ChannelInv
<1>3. TurnInv'
  BY <1>a, <1>b, IInvParts DEF TurnInv, AtRest
<1>4. AboutInv'
  <2>1. dst.id = 0
    BY <1>d DEF AtRest
  <2>2. \A i \in DOMAIN toDst : toDst[i].t # "file"
    BY <1>e DEF Own
  <2> QED
    BY <1>a, <1>b, <1>e, <2>1, <2>2, IInvParts DEF AboutInv
<1>5. DiskInv'
  BY <1>b, IInvParts DEF DiskInv, Good
<1>6. WalkInv'
  <2>1. \A f \in Files : src'.walk[f] <= version'[f]
    BY <1>a, <1>b, <1>c, IInvParts, DiskNumbers
  <2>2. \A i \in DOMAIN toSrc : FALSE
    BY <1>d DEF AtRest
  <2>3. ASSUME NEW f \in Files
        PROVE  /\ manifest'[f] \in {0, src'.completed[f]}
               /\ src'.walk[f] # 0 => src'.completed[f] <= src'.walk[f]
               /\ src'.walk[f] # 0 /\ src'.walk[f] = src'.completed[f]
                     => GoodIn(disk', f, src'.walk[f], version'[f])
    <3>1. /\ src.completed[f] <= version[f] /\ manifest[f] \in {0, src.completed[f]}
          /\ src.completed[f] = version[f] => GoodIn(disk, f, version[f], version[f])
      BY <1>d DEF Offer, OfferIn
    <3> QED
      BY <1>a, <1>b, <1>c, <3>1
  <2> QED
    BY <1>a, <1>b, <2>1, <2>2, <2>3 DEF WalkInv, Good
<1>7. CopyInv'
  <2>1. dst.id = 0
    BY <1>d DEF AtRest
  <2> QED
    BY <1>a, <1>b, <1>e, <2>1 DEF CopyInv
<1>8. DoneInv'
  <2>1. Listed(src.cur)'
    BY <1>a, <1>d DEF Listed, ListedIn
  <2>2. phase # "completed"
    BY <1>a, IInvParts DEF DoneInv
  <2> QED
    BY <1>a, <1>b, <2>1, <2>2 DEF DoneInv
<1>9. WindowInv'
  BY <1>a, <1>b, IInvParts DEF WindowInv, Written
<1> QED
  BY <1>1, <1>2, <1>3, <1>4, <1>5, <1>6, <1>7, <1>8, <1>9 DEF IInv

LEMMA NextFileKeeps ==
    ASSUME IInv, Types', NextFile
    PROVE  IInv'
<1>a. /\ src.pc = "next" /\ ~Ended /\ ~Ended' /\ src.cur < NumFiles
      /\ src'.cur = src.cur + 1 /\ src'.walk = src.walk
      /\ src'.completed = src.completed /\ src'.offset = src.offset /\ src'.acked = src.acked
      /\ src'.warned = src.warned
      /\ \/ Skip(src.cur + 1) /\ src'.pc = "next" /\ src'.id = src.id
         \/ ~Skip(src.cur + 1) /\ src'.pc = "open" /\ src'.id = src.id + 1
  BY IInvParts, NextFileForm DEF SrcSession, Ended
<1>b. UNCHANGED <<version, toSrc, dst, disk, manifest, toDst, fileAck, windowAck, phase>>
  BY IInvParts, NextFileForm DEF SourceKeeps
<1>c. /\ src.cur \in Nat /\ src.id \in Nat /\ src.cur + 1 \in Files /\ NumFiles \in Nat
      /\ src.cur + 1 > src.cur
  BY <1>a, IInvParts, SrcNumbers DEF Files
<1>d. AtRest
  BY <1>a, IInvParts DEF TurnInv
<1>e. \A i \in DOMAIN toDst : toDst[i].t \notin Own
  BY <1>d DEF AtRest, Cancels, Own
<1>f. dst.id = 0 /\ \A i \in DOMAIN toSrc : FALSE
  BY <1>d DEF AtRest
<1>g. \A f \in Files : f > src.cur =>
         /\ manifest[f] \in {0, src.completed[f]}
         /\ src.walk[f] # 0 => src.completed[f] <= src.walk[f]
         /\ src.walk[f] # 0 /\ src.walk[f] = src.completed[f]
               => GoodIn(disk, f, src.walk[f], version[f])
  BY <1>a, IInvParts DEF WalkInv, Good
<1>1. BoundsInv'
  BY <1>a, <1>b, <1>c, IInvParts DEF BoundsInv
<1>2. ChannelInv'
  BY <1>a, <1>b, IInvParts DEF ChannelInv
<1>3. TurnInv'
  BY <1>a, <1>b, <1>d, IInvParts DEF TurnInv, AtRest
<1>4. AboutInv'
  <2>1. \A i \in DOMAIN toDst : toDst[i].t # "file"
    BY <1>e DEF Own
  <2>2. src'.cur \in Files /\ (src'.pc = "open" => src'.id # 0)
    BY <1>a, <1>c
  <2>3. dst.writing => dst.id # 0
    BY IInvParts DEF AboutInv
  <2> QED
    BY <1>a, <1>b, <1>e, <1>f, <2>1, <2>2, <2>3 DEF AboutInv
<1>5. DiskInv'
  BY <1>b, IInvParts DEF DiskInv, Good
<1>6. WalkInv'
  <2>1. \A f \in Files : f > src.cur + 1 => f > src.cur
    BY <1>c DEF Files
  <2>2. \A f \in Files : src.walk[f] <= version[f]
    BY IInvParts DEF WalkInv
  <2> QED
    BY <1>a, <1>b, <1>f, <1>g, <2>1, <2>2 DEF WalkInv, Good
<1>7. CopyInv'
  <2>1. ASSUME src'.pc = "open" PROVE manifest[src.cur + 1] < src.walk[src.cur + 1]
    <3> DEFINE f == src.cur + 1
    <3>1. ~(src.walk[f] = 0 \/ src.completed[f] = src.walk[f])
      BY <1>a, <2>1 DEF Skip
    <3>2. manifest[f] \in {0, src.completed[f]} /\ src.completed[f] <= src.walk[f]
      BY <1>c, <1>g, <3>1
    <3>3. src.walk[f] \in Nat /\ src.completed[f] \in Nat
      BY <1>c, IInvParts, SrcNumbers
    <3> HIDE DEF f
    <3>4. manifest[f] < src.walk[f]
      BY <3>1, <3>2, <3>3
    <3> QED
      BY <3>4 DEF f
  <2> QED
    BY <1>a, <1>b, <1>e, <1>f, <2>1 DEF CopyInv, Uncopied
<1>8. DoneInv'
  <2>1. phase # "completed"
    BY <1>a, IInvParts DEF DoneInv
  <2>2. ~src.warned => Listed(src.cur)
    BY <1>a, IInvParts DEF DoneInv
  <2>3. ASSUME ~src.warned, src'.pc = "next", NEW f \in 1 .. src.cur + 1, src.walk[f] # 0
        PROVE  GoodIn(disk, f, src.walk[f], version[f])
    <3>1. CASE f \in 1 .. src.cur
      BY <2>2, <2>3, <3>1 DEF Listed, ListedIn
    <3>2. CASE f = src.cur + 1
      BY <1>a, <1>c, <1>g, <2>3, <3>2 DEF Skip
    <3> QED
      BY <1>c, <3>1, <3>2
  <2>4. ~src.warned /\ src'.pc = "next" => ListedIn(disk, src.walk, version, src.cur + 1)
    BY <2>3 DEF ListedIn
  <2>5. ~src.warned => ListedIn(disk, src.walk, version, src.cur)
    BY <2>2 DEF Listed
  <2>6. src'.cur - 1 = src.cur
    BY <1>a, <1>c
  <2> QED
    BY <1>a, <1>b, <2>1, <2>4, <2>5, <2>6 DEF DoneInv, Listed
<1>9. WindowInv'
  BY <1>a, <1>b, IInvParts DEF WindowInv, Written
<1> QED
  BY <1>1, <1>2, <1>3, <1>4, <1>5, <1>6, <1>7, <1>8, <1>9 DEF IInv

LEMMA EndsKeeps ==
    ASSUME IInv, Types', Ends
    PROVE  IInv'
<1>a. /\ ~Ended /\ Ended' /\ src'.pc = "end"
      /\ src'.cur = src.cur /\ src'.id = src.id /\ src'.walk = src.walk
      /\ src'.completed = src.completed /\ src'.offset = src.offset /\ src'.acked = src.acked
      /\ src'.warned = src.warned
      /\ \/ phase' \in {phase, "failed", "warned"}
         \/ phase' = "completed" /\ src.pc = "next" /\ src.cur = NumFiles /\ ~src.warned
  BY IInvParts, EndsForm DEF SrcSession, Ended
<1>b. UNCHANGED <<version, toSrc, dst, disk, manifest, toDst, fileAck, windowAck>>
  BY IInvParts, EndsForm DEF SourceKeeps
<1>1. BoundsInv'
  BY <1>a, <1>b, IInvParts DEF BoundsInv
<1>2. ChannelInv'
  BY <1>a, <1>b, IInvParts DEF ChannelInv
<1>3. TurnInv'
  BY <1>a DEF TurnInv
<1>4. AboutInv'
  BY <1>a, <1>b, IInvParts DEF AboutInv
<1>5. DiskInv'
  BY <1>b, IInvParts DEF DiskInv, Good
<1>6. WalkInv'
  BY <1>a, <1>b, IInvParts DEF WalkInv, Offer, Good
<1>7. CopyInv'
  BY <1>a, <1>b, IInvParts DEF CopyInv, Uncopied
<1>8. DoneInv'
  <2>1. phase # "completed"
    BY <1>a, IInvParts DEF DoneInv, Ended
  <2>2. ASSUME phase' = "completed"
        PROVE  Listed(NumFiles)' /\ dst.id = 0 /\ \A i \in DOMAIN toDst : toDst[i].t \notin Own
    <3>1. src.pc = "next" /\ src.cur = NumFiles /\ ~src.warned
      BY <1>a, <2>1, <2>2
    <3>2. Listed(NumFiles)
      BY <1>a, <3>1, IInvParts DEF DoneInv
    <3>3. AtRest
      BY <3>1, IInvParts DEF TurnInv
    <3> QED
      BY <1>a, <1>b, <3>2, <3>3 DEF Listed, AtRest, Cancels, Own
  <2> QED
    BY <1>a, <1>b, <2>2 DEF DoneInv
<1>9. WindowInv'
  BY <1>a, <1>b, IInvParts DEF WindowInv, Written
<1> QED
  BY <1>1, <1>2, <1>3, <1>4, <1>5, <1>6, <1>7, <1>8, <1>9 DEF IInv

LEMMA OpenKeeps ==
    ASSUME IInv, Types', Open
    PROVE  IInv'
<1>a. /\ src.pc = "open" /\ ~Ended /\ ~Ended'
      /\ src'.cur = src.cur /\ src'.id = src.id /\ src'.walk = src.walk
      /\ src'.completed = src.completed
      /\ \/ src'.pc = "next" /\ src'.warned /\ src'.offset = src.offset /\ src'.acked = src.acked
         \/ src'.pc = "sending" /\ src'.warned = src.warned /\ src'.offset = 0 /\ src'.acked = 0
  BY IInvParts, OpenForm DEF SrcSession, Ended
<1>b. /\ UNCHANGED <<version, toSrc, dst, disk, manifest, phase>>
      /\ fileAck' = << >> /\ windowAck' = << >>
  BY IInvParts, OpenForm DEF SourceKeeps
<1>c. /\ Sent(toDst, toDst', FileMessage)
      /\ src'.pc = "next" => toDst' = toDst
  <2>1. Sent(toDst, toDst, FileMessage)
    BY DEF Sent
  <2> QED
    BY IInvParts, OpenForm, SentByEither, <2>1 DEF SrcSession
<1>d. AtRest /\ src.cur \in Files /\ src.id # 0 /\ manifest[src.cur] < src.walk[src.cur]
  BY <1>a, IInvParts DEF TurnInv, AboutInv, CopyInv, Uncopied
<1>e. \A i \in DOMAIN toDst : toDst[i].t = "cancel"
  BY <1>d DEF AtRest, Cancels
<1>f. dst.id = 0 /\ ~dst.writing /\ \A i \in DOMAIN toSrc : FALSE
  BY <1>d, IInvParts DEF AtRest, AboutInv
<1>g. /\ FileMessage.t = "file" /\ FileMessage.id = src.id /\ FileMessage.f = src.cur
      /\ FileMessage.mtime = src.walk[src.cur] /\ FileMessage.sum = version[src.cur]
      /\ src.walk[src.cur] <= version[src.cur] /\ version[src.cur] \in Nat
  BY <1>d, IInvParts, DiskNumbers DEF FileMessage, WalkInv
<1>h. \A i \in DOMAIN toDst' :
         \/ i \in DOMAIN toDst /\ toDst'[i].t = "cancel"
         \/ toDst'[i] = FileMessage /\ \A j \in DOMAIN toDst' : j <= i
  BY <1>c, <1>e DEF Sent
<1>i. \A i \in DOMAIN toDst' : i \in Nat
  BY Indices
<1>1. BoundsInv'
  BY <1>a, <1>b, IInvParts, Constants DEF BoundsInv
<1>2. ChannelInv'
  BY <1>a, <1>b, <1>f, <1>g, <1>h, <1>i DEF ChannelInv
<1>3. TurnInv'
  BY <1>a, <1>b, <1>c, <1>d, <1>f, <1>g, <1>h DEF TurnInv, AtRest
<1>4. AboutInv'
  BY <1>a, <1>b, <1>d, <1>f, <1>g, <1>h DEF AboutInv, Own
<1>5. DiskInv'
  BY <1>b, IInvParts DEF DiskInv, Good
<1>6. WalkInv'
  BY <1>a, <1>b, IInvParts DEF WalkInv, Offer, Good
<1>7. CopyInv'
  BY <1>a, <1>b, <1>d, <1>f, <1>h DEF CopyInv, Uncopied
<1>8. DoneInv'
  BY <1>a, <1>b, IInvParts DEF DoneInv, Listed
<1>9. WindowInv'
  <2>1. \A i \in DOMAIN toDst' : toDst'[i].t # "chunk"
    BY <1>g, <1>h
  <2>2. src'.acked <= src'.offset /\ src'.offset - src'.acked <= Window
    BY <1>a, IInvParts, Constants DEF WindowInv
  <2> QED
    BY <1>b, <1>f, <2>1, <2>2 DEF WindowInv
<1> QED
  BY <1>1, <1>2, <1>3, <1>4, <1>5, <1>6, <1>7, <1>8, <1>9 DEF IInv

LEMMA SendChunkKeeps ==
    ASSUME IInv, Types', SendChunk
    PROVE  IInv'
<1>1. PICK n \in {src.acked} \cup {windowAck[i] : i \in DOMAIN windowAck} :
         /\ src.acked <= n
         /\ src' = SrcSession("sending", src.done, src.cur, src.id, src.attempt,
                      src.offset + 1, n, src.warned, src.walk, src.completed)
  BY IInvParts, SendChunkForm
<1>a. /\ src.pc = "sending" /\ ~Ended /\ ~Ended' /\ src'.pc = "sending"
      /\ src'.cur = src.cur /\ src'.id = src.id /\ src'.walk = src.walk
      /\ src'.completed = src.completed /\ src'.warned = src.warned
      /\ src'.offset = src.offset + 1 /\ src'.acked = n
  BY <1>1, IInvParts, SendChunkForm DEF SrcSession, Ended
<1>b. /\ UNCHANGED <<version, toSrc, dst, disk, manifest, phase, fileAck>>
      /\ windowAck' = << >>
  BY IInvParts, SendChunkForm DEF SourceKeeps
<1>c. Sent(toDst, toDst', ChunkMessage)
  BY IInvParts, SendChunkForm, SentByEither
<1>d. /\ src.cur \in Files /\ src.id # 0 /\ manifest[src.cur] < src.walk[src.cur]
      /\ fileAck = << >>
      /\ \A i \in DOMAIN toDst : toDst[i].t # "done" /\ toDst[i].t # "prepare"
      /\ \A i \in DOMAIN toSrc : toSrc[i].t # "fack" /\ toSrc[i].t # "ready"
  BY <1>a, IInvParts DEF TurnInv, AboutInv, ChannelInv, CopyInv, Uncopied
<1>e. /\ src.offset \in Nat /\ src.acked \in Nat /\ n \in Nat /\ Window \in Nat
      /\ \A i \in DOMAIN windowAck : windowAck[i] \in Nat
  BY <1>1, IInvParts, SrcNumbers
<1>f. src.offset < FileChunks /\ ~(src.offset - src.acked >= Window)
  BY IInvParts, SendChunkForm DEF Blocked
<1>g. ChunkMessage.t = "chunk" /\ ChunkMessage.id = src.id /\ ChunkMessage.data[3] = src.offset + 1
  <2>1. version[src.cur] \in Versions
    BY <1>d, IInvParts, DiskNumbers
  <2>2. src.offset + 1 \in 1 .. FileChunks
    BY <1>e, <1>f, Constants
  <2> QED
    BY <1>d, <2>1, <2>2, ContentTyped DEF ChunkMessage
<1>h. \A i \in DOMAIN toDst' :
         \/ i \in DOMAIN toDst /\ toDst'[i] = toDst[i]
         \/ toDst'[i] = ChunkMessage /\ \A j \in DOMAIN toDst' : j <= i
  BY <1>c DEF Sent
<1>i. \A i \in DOMAIN toDst' : i \in Nat
  BY Indices
<1>2. BoundsInv'
  BY <1>a, <1>b, IInvParts, Constants DEF BoundsInv
<1>3. ChannelInv'
  BY <1>a, <1>b, <1>d, <1>g, <1>h, <1>i, IInvParts DEF ChannelInv
<1>4. TurnInv'
  BY <1>a, <1>b, <1>d, <1>g, <1>h DEF TurnInv
<1>5. AboutInv'
  BY <1>a, <1>b, <1>d, <1>g, <1>h, IInvParts DEF AboutInv, Own
<1>6. DiskInv'
  BY <1>b, IInvParts DEF DiskInv, Good
<1>7. WalkInv'
  BY <1>a, <1>b, IInvParts DEF WalkInv, Offer, Good
<1>8. CopyInv'
  BY <1>a, <1>b, <1>d DEF CopyInv, Uncopied
<1>9. DoneInv'
  BY <1>a, <1>b, IInvParts DEF DoneInv, Listed, Ended
<1>10. WindowInv'
  <2>1. src'.acked <= src'.offset /\ src'.offset - src'.acked <= Window
    <3>1. src.acked <= src.offset /\ \A k \in DOMAIN windowAck : windowAck[k] <= src.offset
      BY IInvParts DEF WindowInv
    <3>2. n <= src.offset
      BY <1>1, <3>1
    <3> QED
      BY <1>1, <1>a, <1>e, <1>f, <3>2
  <2>2. ASSUME NEW i \in DOMAIN toDst', toDst'[i].t = "chunk"
        PROVE  /\ n < toDst'[i].data[3] /\ toDst'[i].data[3] <= src.offset + 1
               /\ \A k \in DOMAIN toSrc : toSrc[k].t = "wack" => toSrc[k].n < toDst'[i].data[3]
               /\ dst.writing => Written < toDst'[i].data[3]
    <3>1. CASE i \in DOMAIN toDst /\ toDst'[i] = toDst[i]
      <4>1. /\ src.acked < toDst[i].data[3] /\ toDst[i].data[3] <= src.offset
            /\ \A k \in DOMAIN windowAck : windowAck[k] < toDst[i].data[3]
            /\ \A k \in DOMAIN toSrc : toSrc[k].t = "wack" => toSrc[k].n < toDst[i].data[3]
            /\ dst.writing => Written < toDst[i].data[3]
        BY <2>2, <3>1, IInvParts DEF WindowInv
      <4>2. toDst[i].data[3] \in Nat
        BY <2>2, <3>1, IInvParts, NetNumbers
      <4> QED
        BY <1>1, <1>e, <3>1, <4>1, <4>2
    <3>2. CASE toDst'[i] = ChunkMessage
      <4>1. /\ src.acked <= src.offset /\ \A k \in DOMAIN windowAck : windowAck[k] <= src.offset
            /\ \A k \in DOMAIN toSrc : toSrc[k].t = "wack" => toSrc[k].n <= src.offset
            /\ dst.writing => Written <= src.offset
        BY IInvParts DEF WindowInv
      <4>2. n <= src.offset
        BY <1>1, <4>1
      <4>3. \A k \in DOMAIN toSrc : toSrc[k].t = "wack" => toSrc[k].n \in Nat
        BY IInvParts, NetNumbers
      <4>4. dst.writing => Written \in Nat
        BY IInvParts, DiskTyped DEF AboutInv, Written
      <4>5. toDst'[i].data[3] = src.offset + 1
        BY <1>g, <3>2
      <4>6. \A k \in DOMAIN toSrc : toSrc[k].t = "wack" => toSrc[k].n < src.offset + 1
        BY <1>e, <4>1, <4>3
      <4>7. dst.writing => Written < src.offset + 1
        BY <1>e, <4>1, <4>4
      <4> QED
        BY <1>e, <4>2, <4>5, <4>6, <4>7
    <3> QED
      BY <1>h, <3>1, <3>2
  <2>3. ASSUME NEW i \in DOMAIN toDst', NEW j \in DOMAIN toDst', i < j,
               toDst'[i].t = "chunk", toDst'[j].t = "chunk"
        PROVE  toDst'[i].data[3] < toDst'[j].data[3]
    <3>1. i \in DOMAIN toDst /\ toDst'[i] = toDst[i]
      BY <1>h, <1>i, <2>3
    <3>2. CASE j \in DOMAIN toDst /\ toDst'[j] = toDst[j]
      BY <2>3, <3>1, <3>2, IInvParts DEF WindowInv
    <3>3. CASE toDst'[j] = ChunkMessage
      <4>1. toDst[i].data[3] <= src.offset /\ toDst[i].data[3] \in Nat
        BY <2>3, <3>1, IInvParts, NetNumbers DEF WindowInv
      <4> QED
        BY <1>e, <1>g, <3>1, <3>3, <4>1
    <3> QED
      BY <1>h, <3>2, <3>3
  <2>4. /\ \A k \in DOMAIN toSrc : toSrc[k].t = "wack" => toSrc[k].n <= src.offset + 1
        /\ dst.writing => Written <= src.offset + 1
    <3>1. /\ \A k \in DOMAIN toSrc : toSrc[k].t = "wack" => toSrc[k].n <= src.offset
          /\ dst.writing => Written <= src.offset
      BY IInvParts DEF WindowInv
    <3>2. \A k \in DOMAIN toSrc : toSrc[k].t = "wack" => toSrc[k].n \in Nat
      BY IInvParts, NetNumbers
    <3>3. dst.writing => Written \in Nat
      BY IInvParts, DiskTyped DEF AboutInv, Written
    <3>4. \A k \in DOMAIN toSrc : toSrc[k].t = "wack" => toSrc[k].n <= src.offset + 1
      BY <1>e, <3>1, <3>2
    <3>5. dst.writing => Written <= src.offset + 1
      BY <1>e, <3>1, <3>3
    <3> QED
      BY <3>4, <3>5
  <2> QED
    BY <1>a, <1>b, <2>1, <2>2, <2>3, <2>4 DEF WindowInv, Written
<1> QED
  BY <1>2, <1>3, <1>4, <1>5, <1>6, <1>7, <1>8, <1>9, <1>10 DEF IInv

LEMMA TakeAckKeeps ==
    ASSUME IInv, Types', TakeAck
    PROVE  IInv'
<1>a. /\ src.pc = "sending" /\ ~Ended /\ ~Ended' /\ src'.pc = "sending"
      /\ src'.cur = src.cur /\ src'.id = src.id /\ src'.walk = src.walk
      /\ src'.completed = src.completed /\ src'.warned = src.warned
      /\ src'.offset = src.offset
      /\ src'.acked = IF Head(windowAck) > src.acked THEN Head(windowAck) ELSE src.acked
  BY IInvParts, TakeAckForm DEF SrcSession, Ended
<1>b. UNCHANGED <<version, toSrc, dst, disk, manifest, phase, fileAck, toDst>>
  BY IInvParts, TakeAckForm DEF SourceKeeps
<1>c. /\ 1 \in DOMAIN windowAck /\ Head(windowAck) = windowAck[1] /\ Consumed(windowAck, windowAck')
      /\ Len(windowAck') = Len(windowAck) - 1 /\ Len(windowAck) \in Nat
  <2>1. windowAck # << >> /\ windowAck' = Tail(windowAck) /\ windowAck \in Seq(Nat)
    BY IInvParts, TakeAckForm, SrcFields
  <2> QED
    BY <2>1, ConsumedSeq, SeqHead DEF Consumed
<1>d. \A k \in DOMAIN windowAck' : k + 1 \in DOMAIN windowAck /\ windowAck'[k] = windowAck[k+1]
  BY <1>c DEF Consumed
<1>e. /\ src.offset \in Nat /\ src.acked \in Nat /\ Window \in Nat /\ AckSlots \in Nat
      /\ windowAck[1] \in Nat
  BY <1>c, IInvParts, SrcNumbers, Constants
<1>1. BoundsInv'
  BY <1>a, <1>b, <1>c, <1>e, IInvParts DEF BoundsInv
<1>2. ChannelInv'
  BY <1>a, <1>b, IInvParts DEF ChannelInv
<1>3. TurnInv'
  BY <1>a, <1>b, IInvParts DEF TurnInv
<1>4. AboutInv'
  BY <1>a, <1>b, IInvParts DEF AboutInv
<1>5. DiskInv'
  BY <1>b, IInvParts DEF DiskInv, Good
<1>6. WalkInv'
  BY <1>a, <1>b, IInvParts DEF WalkInv, Offer, Good
<1>7. CopyInv'
  BY <1>a, <1>b, IInvParts DEF CopyInv, Uncopied
<1>8. DoneInv'
  BY <1>a, <1>b, IInvParts DEF DoneInv, Listed, Ended
<1>9. WindowInv'
  <2>1. /\ src.acked <= src'.acked /\ src'.acked <= src.offset
        /\ src'.acked \in {src.acked, windowAck[1]}
    BY <1>a, <1>c, <1>e, IInvParts DEF WindowInv
  <2>2. src.offset - src'.acked <= Window
    BY <1>e, <2>1, IInvParts DEF WindowInv
  <2>3. \A i \in DOMAIN toDst : toDst[i].t = "chunk" => src'.acked < toDst[i].data[3]
    BY <1>c, <2>1, IInvParts DEF WindowInv
  <2> QED
    BY <1>a, <1>b, <1>d, <2>1, <2>2, <2>3, IInvParts DEF WindowInv, Written
<1> QED
  BY <1>1, <1>2, <1>3, <1>4, <1>5, <1>6, <1>7, <1>8, <1>9 DEF IInv

LEMMA EndFileKeeps ==
    ASSUME IInv, Types', EndFile
    PROVE  IInv'
<1> DEFINE m == [t |-> "done", id |-> src.id]
<1>a. /\ src.pc = "sending" /\ ~Ended /\ ~Ended' /\ src'.pc = "verdict"
      /\ src'.cur = src.cur /\ src'.id = src.id /\ src'.walk = src.walk
      /\ src'.completed = src.completed /\ src'.warned = src.warned
      /\ src'.offset = src.offset /\ src'.acked = src.acked
  BY IInvParts, EndFileForm DEF SrcSession, Ended
<1>b. UNCHANGED <<version, toSrc, dst, disk, manifest, phase, fileAck, windowAck>>
  BY IInvParts, EndFileForm DEF SourceKeeps
<1>c. Sent(toDst, toDst', m)
  BY IInvParts, EndFileForm, SentByEither
<1>d. /\ src.cur \in Files /\ src.id # 0 /\ manifest[src.cur] < src.walk[src.cur]
      /\ fileAck = << >>
      /\ \A i \in DOMAIN toDst : toDst[i].t # "done" /\ toDst[i].t # "prepare"
      /\ \A i \in DOMAIN toSrc : toSrc[i].t # "fack" /\ toSrc[i].t # "ready"
  BY <1>a, IInvParts DEF TurnInv, AboutInv, ChannelInv, CopyInv, Uncopied
<1>g. m.t = "done" /\ m.id = src.id
  OBVIOUS
<1> HIDE DEF m
<1>h. \A i \in DOMAIN toDst' :
         \/ i \in DOMAIN toDst /\ toDst'[i] = toDst[i]
         \/ toDst'[i] = m /\ \A j \in DOMAIN toDst' : j <= i
  BY <1>c DEF Sent
<1>i. \A i \in DOMAIN toDst' : i \in Nat
  BY Indices
<1>1. BoundsInv'
  BY <1>a, <1>b, IInvParts DEF BoundsInv
<1>2. ChannelInv'
  BY <1>a, <1>b, <1>d, <1>g, <1>h, <1>i, IInvParts DEF ChannelInv
<1>3. TurnInv'
  BY <1>a, <1>b, <1>d DEF TurnInv
<1>4. AboutInv'
  BY <1>a, <1>b, <1>d, <1>g, <1>h, IInvParts DEF AboutInv, Own
<1>5. DiskInv'
  BY <1>b, IInvParts DEF DiskInv, Good
<1>6. WalkInv'
  BY <1>a, <1>b, IInvParts DEF WalkInv, Offer, Good
<1>7. CopyInv'
  BY <1>a, <1>b, <1>d DEF CopyInv, Uncopied
<1>8. DoneInv'
  BY <1>a, <1>b, IInvParts DEF DoneInv, Listed, Ended
<1>9. WindowInv'
  <2>1. \A i \in DOMAIN toDst' :
          toDst'[i].t = "chunk" => i \in DOMAIN toDst /\ toDst'[i] = toDst[i]
    BY <1>g, <1>h
  <2> QED
    BY <1>a, <1>b, <2>1, IInvParts DEF WindowInv, Written
<1> QED
  BY <1>1, <1>2, <1>3, <1>4, <1>5, <1>6, <1>7, <1>8, <1>9 DEF IInv

LEMMA VerdictKeeps ==
    ASSUME IInv, Types', Verdict
    PROVE  IInv'
<1> DEFINE ok == Head(fileAck)
<1>c. fileAck # << >> /\ src.pc = "verdict" /\ ok = fileAck[1] /\ ok \in BOOLEAN
  <2>1. fileAck # << >> /\ src.pc = "verdict"
    BY IInvParts, VerdictForm
  <2> QED
    BY <2>1, IInvParts, SrcFields, SeqHead
<1>a. /\ ~Ended /\ ~Ended'
      /\ src'.cur = src.cur /\ src'.id = src.id /\ src'.walk = src.walk
      /\ src'.completed = src.completed
      /\ src'.offset = src.offset /\ src'.acked = src.acked
      /\ src'.pc \in {"next", "open"}
      /\ \/ ok = TRUE /\ src'.pc = "next" /\ src'.warned = src.warned
         \/ ok = FALSE /\ src'.pc = "open" /\ src'.warned = src.warned
         \/ src'.pc = "next" /\ src'.warned = TRUE
  <2>1. CASE /\ ok
             /\ src' = SrcSession("next", src.done, src.cur, src.id, src.attempt,
                          src.offset, src.acked, src.warned, src.walk, src.completed)
    BY <1>c, <2>1 DEF SrcSession, Ended
  <2>2. CASE /\ ~ok
             /\ src' = SrcSession("open", src.done, src.cur, src.id, src.attempt + 1,
                          src.offset, src.acked, src.warned, src.walk, src.completed)
    BY <1>c, <2>2 DEF SrcSession, Ended
  <2>3. CASE src' = SrcSession("next", src.done, src.cur, src.id, src.attempt + 1,
                          src.offset, src.acked, TRUE, src.walk, src.completed)
    BY <1>c, <2>3 DEF SrcSession, Ended
  <2> QED
    BY IInvParts, VerdictForm, <2>1, <2>2, <2>3
<1> HIDE DEF ok
<1>b. /\ UNCHANGED <<version, toSrc, dst, disk, manifest, phase, windowAck, toDst>>
      /\ fileAck' = << >>
  BY IInvParts, VerdictForm DEF SourceKeeps
<1>d. AtRest /\ src.cur \in Files /\ src.id # 0
  BY <1>a, <1>c, IInvParts DEF TurnInv, AboutInv
<1>e. /\ \A i \in DOMAIN toDst : toDst[i].t = "cancel"
      /\ toSrc = << >> /\ dst.id = 0
  BY <1>d DEF AtRest, Cancels
<1>f. IF ok THEN Copied ELSE Uncopied
  BY <1>a, <1>c, IInvParts DEF CopyInv
<1>1. BoundsInv'
  BY <1>a, <1>b, IInvParts, Constants DEF BoundsInv
<1>2. ChannelInv'
  BY <1>a, <1>b, IInvParts DEF ChannelInv
<1>3. TurnInv'
  BY <1>a, <1>b, <1>d, <1>e DEF TurnInv, AtRest
<1>4. AboutInv'
  <2>1. \A i \in DOMAIN toDst : toDst[i].t # "file"
    BY <1>e
  <2>2. dst.writing => dst.id # 0
    BY IInvParts DEF AboutInv
  <2> QED
    BY <1>a, <1>b, <1>d, <1>e, <2>1, <2>2 DEF AboutInv, Own
<1>5. DiskInv'
  BY <1>b, IInvParts DEF DiskInv, Good
<1>6. WalkInv'
  BY <1>a, <1>b, <1>c, IInvParts DEF WalkInv, Offer, Good
<1>7. CopyInv'
  BY <1>a, <1>b, <1>e, <1>f DEF CopyInv, Uncopied, Own
<1>8. DoneInv'
  <2>1. phase # "completed"
    BY <1>c, IInvParts DEF DoneInv
  <2>2. ASSUME ~src.warned, Copied PROVE ListedIn(disk, src.walk, version, src.cur)
    <3>1. ListedIn(disk, src.walk, version, src.cur - 1)
      BY <1>a, <1>c, <2>2, IInvParts DEF DoneInv, Listed
    <3>2. GoodIn(disk, src.cur, src.walk[src.cur], version[src.cur])
      BY <2>2 DEF Copied, Good
    <3>3. src.cur \in Nat
      BY IInvParts, SrcNumbers
    <3>4. \A f \in 1 .. src.cur : f \in 1 .. src.cur - 1 \/ f = src.cur
      BY <3>3
    <3> QED
      BY <3>1, <3>2, <3>4 DEF ListedIn
  <2>3. ~src.warned => ListedIn(disk, src.walk, version, src.cur - 1)
    BY <1>a, <1>c, IInvParts DEF DoneInv, Listed
  <2> QED
    BY <1>a, <1>b, <1>f, <2>1, <2>2, <2>3 DEF DoneInv, Listed
<1>9. WindowInv'
  BY <1>a, <1>b, IInvParts DEF WindowInv, Written
<1> QED
  BY <1>1, <1>2, <1>3, <1>4, <1>5, <1>6, <1>7, <1>8, <1>9 DEF IInv

-----------------------------------------------------------------------------
(* The destination's steps keep the invariant.                             *)

\* A message was taken: the others move up.
LEMMA Received ==
    ASSUME Types, Types', NEW t, Receives(t)
    PROVE  /\ 1 \in DOMAIN toDst /\ toDst[1] = Head(toDst) /\ toDst[1].t = t
           /\ \A i \in DOMAIN toDst' :
                 /\ i \in Nat \ {0} /\ i + 1 \in DOMAIN toDst /\ 1 < i + 1
                 /\ toDst'[i] = toDst[i+1]
<1>1. Consumed(toDst, toDst') /\ Head(toDst).t = t /\ Head(toDst) = toDst[1]
  BY ReceivesTyped
<1>2. \A i \in DOMAIN toDst' : i \in Nat \ {0}
  BY Indices
<1> QED
  BY <1>1, <1>2 DEF Consumed

\* What follows from it where it matters only what is still in the channel.
LEMMA FewerToDst ==
    ASSUME IInv, Types', NEW t, Receives(t)
    PROVE  /\ Cancels(toDst) => Cancels(toDst')
           /\ \A i, j \in DOMAIN toDst' : i < j /\ toDst'[i].t = "done"
                 => toDst'[j].t \in {"cancel", "prepare"}
           /\ \A i, j \in DOMAIN toDst' : i < j /\ toDst'[i].t = "prepare" => toDst'[j].t = "cancel"
           /\ \A i, j \in DOMAIN toDst' : i < j /\ toDst'[j].t = "file" => toDst'[i].t = "cancel"
           /\ \A i, j \in DOMAIN toDst' : i < j /\ toDst'[i].t = "chunk" /\ toDst'[j].t = "chunk" =>
                 toDst'[i].data[3] < toDst'[j].data[3]
<1>1. \A i \in DOMAIN toDst' :
         /\ i \in Nat \ {0} /\ i + 1 \in DOMAIN toDst /\ 1 < i + 1 /\ toDst'[i] = toDst[i+1]
  BY IInvParts, Received
<1>2. \A i, j \in DOMAIN toDst' : i < j => i + 1 < j + 1
  BY <1>1
<1>3. Cancels(toDst) => Cancels(toDst')
  BY <1>1 DEF Cancels
<1>4. /\ \A i, j \in DOMAIN toDst' : i < j /\ toDst'[i].t = "done"
            => toDst'[j].t \in {"cancel", "prepare"}
      /\ \A i, j \in DOMAIN toDst' : i < j /\ toDst'[i].t = "prepare" => toDst'[j].t = "cancel"
      /\ \A i, j \in DOMAIN toDst' : i < j /\ toDst'[j].t = "file" => toDst'[i].t = "cancel"
  BY <1>1, <1>2, IInvParts DEF ChannelInv
<1>5. \A i, j \in DOMAIN toDst' : i < j /\ toDst'[i].t = "chunk" /\ toDst'[j].t = "chunk" =>
         toDst'[i].data[3] < toDst'[j].data[3]
  BY <1>1, <1>2, IInvParts DEF WindowInv
<1> QED
  BY <1>3, <1>4, <1>5

\* While something but a cancel is on its way, nothing is at rest.
LEMMA Busy ==
    ASSUME IInv, NEW k \in DOMAIN toDst, toDst[k].t # "cancel"
    PROVE  /\ ~Cancels(toDst) /\ src.pc \notin {"starting", "next", "open"}
           /\ \A i \in DOMAIN toSrc : toSrc[i].t # "ready"
           /\ ~Ended => fileAck = << >> /\ \A i \in DOMAIN toSrc : toSrc[i].t # "fack"
<1>1. ~Cancels(toDst)
  BY DEF Cancels
<1>2. ~AtRest
  BY <1>1 DEF AtRest
<1> QED
  BY <1>1, <1>2, IInvParts DEF TurnInv, ChannelInv

\* A message that changes nothing else.
LEMMA DroppedKeeps ==
    ASSUME IInv, Types', NEW t, Receives(t), DestinationKeeps,
           UNCHANGED <<toSrc, disk, manifest>>,
           \/ dst' = dst
           \/ /\ dst'.open = dst.open /\ dst'.id = dst.id /\ dst'.file = dst.file
              /\ dst'.sum = dst.sum /\ dst'.mtime = dst.mtime
              /\ dst'.writing \in {dst.writing, FALSE}
           \/ dst' = Closed
    PROVE  IInv'
<1>a. \A i \in DOMAIN toDst' :
         /\ i \in Nat \ {0} /\ i + 1 \in DOMAIN toDst /\ toDst'[i] = toDst[i+1]
  BY IInvParts, Received
<1>b. /\ dst'.id \in {0, dst.id}
      /\ dst'.id # 0 => /\ dst'.open = dst.open /\ dst'.file = dst.file /\ dst'.sum = dst.sum
                        /\ dst'.mtime = dst.mtime
      /\ dst'.writing => dst.writing /\ dst'.id = dst.id /\ dst'.file = dst.file
  <2>1. dst.writing \in BOOLEAN
    BY IInvParts, DstFields
  <2>2. CASE dst' = Closed
    BY <2>2 DEF Closed
  <2>3. CASE dst' # Closed
    BY <2>1, <2>3
  <2> QED
    BY <2>2, <2>3
<1>c. /\ UNCHANGED <<version, phase, src, fileAck, windowAck, toSrc, disk, manifest>>
      /\ (Ended' <=> Ended)
  BY DEF DestinationKeeps, Ended
<1>1. BoundsInv'
  BY <1>c, IInvParts DEF BoundsInv
<1>2. ChannelInv'
  BY <1>a, <1>b, <1>c, FewerToDst, IInvParts DEF ChannelInv
<1>3. TurnInv'
  <2>1. AtRest => AtRest'
    BY <1>b, <1>c, FewerToDst DEF AtRest
  <2> QED
    BY <1>a, <1>b, <1>c, <2>1, FewerToDst, IInvParts DEF TurnInv
<1>4. AboutInv'
  BY <1>a, <1>b, <1>c, IInvParts DEF AboutInv
<1>5. DiskInv'
  BY <1>c, IInvParts DEF DiskInv, Good
<1>6. WalkInv'
  BY <1>c, IInvParts DEF WalkInv, Offer, Good
<1>7. CopyInv'
  BY <1>a, <1>b, <1>c, IInvParts DEF CopyInv, Uncopied, Copied, Good
<1>8. DoneInv'
  BY <1>a, <1>b, <1>c, IInvParts DEF DoneInv, Listed
<1>9. WindowInv'
  BY <1>a, <1>b, <1>c, FewerToDst, IInvParts DEF WindowInv, Written
<1> QED
  BY <1>1, <1>2, <1>3, <1>4, <1>5, <1>6, <1>7, <1>8, <1>9 DEF IInv

LEMMA ScanOffer ==
    ASSUME IInv
    PROVE  OfferIn(disk, manifest, version, Scan)
<1> SUFFICES ASSUME NEW f \in Files
             PROVE  /\ Scan[f] <= version[f] /\ manifest[f] \in {0, Scan[f]}
                    /\ Scan[f] = version[f] => GoodIn(disk, f, Scan[f], version[f])
  BY DEF OfferIn
<1>1. /\ version[f] \in Nat \ {0} /\ manifest[f] \in Nat /\ manifest[f] <= version[f]
      /\ manifest[f] = version[f] => f \in DOMAIN disk /\ disk[f].mtime = manifest[f]
      /\ f \in DOMAIN disk /\ disk[f].mtime # 0 =>
            disk[f].mtime <= version[f] /\ GoodIn(disk, f, disk[f].mtime, version[f])
      /\ f \in DOMAIN disk => disk[f].mtime \in Nat
  BY IInvParts, DiskNumbers DEF DiskInv, Good
<1>2. Scan[f] = manifest[f] \/ (manifest[f] = 0 /\ f \in DOMAIN disk /\ Scan[f] = disk[f].mtime)
  BY DEF Scan
<1> QED
  BY <1>1, <1>2

LEMMA DstPrepareKeeps ==
    ASSUME IInv, Types', DstPrepare
    PROVE  IInv'
<1>a. Receives("prepare") /\ DestinationKeeps /\ UNCHANGED <<disk, manifest>>
  BY IInvParts, DstPrepareForm
<1>b. /\ UNCHANGED <<version, phase, src, fileAck, windowAck, disk, manifest>>
      /\ (Ended' <=> Ended)
  BY <1>a DEF DestinationKeeps, Ended
<1>c. /\ 1 \in DOMAIN toDst /\ toDst[1].t = "prepare"
      /\ \A i \in DOMAIN toDst' : i + 1 \in DOMAIN toDst /\ 1 < i + 1 /\ toDst'[i] = toDst[i+1]
  BY <1>a, IInvParts, Received
<1>d. Ended /\ \A i \in DOMAIN toSrc : toSrc[i].t # "ready"
  BY <1>c, IInvParts, Busy DEF ChannelInv
<1>e. \A i \in DOMAIN toDst' : toDst'[i].t = "cancel"
  BY <1>c, IInvParts DEF ChannelInv
<1>f. /\ dst'.id \in {0, dst.id}
      /\ dst'.id # 0 => dst' = dst
      /\ dst'.writing => dst' = dst
      /\ \E ok \in BOOLEAN, c \in {Scan, None} :
            /\ Sent(toSrc, toSrc', [t |-> "ready", ok |-> ok, completed |-> c])
            /\ ok => dst'.id = 0 /\ c = Scan
  <2>1. CASE /\ dst' = DstSession(TRUE, 0, 0, 0, 0, FALSE, 0, FALSE, {})
             /\ Answer([t |-> "ready", ok |-> TRUE, completed |-> Scan])
    <3>1. Sent(toSrc, toSrc', [t |-> "ready", ok |-> TRUE, completed |-> Scan])
      BY <2>1, IInvParts, SentByEither
    <3> QED
      BY <2>1, <3>1 DEF DstSession
  <2>2. CASE dst' = dst /\ Answer([t |-> "ready", ok |-> FALSE, completed |-> None])
    <3>1. Sent(toSrc, toSrc', [t |-> "ready", ok |-> FALSE, completed |-> None])
      BY <2>2, IInvParts, SentByEither
    <3> QED
      BY <2>2, <3>1
  <2> QED
    BY IInvParts, DstPrepareForm, <2>1, <2>2
<1>g. PICK m : /\ Sent(toSrc, toSrc', m) /\ m.t = "ready"
               /\ m.ok => dst'.id = 0 /\ m.completed = Scan
  BY <1>f
<1>h. \A i \in DOMAIN toSrc' :
         \/ i \in DOMAIN toSrc /\ toSrc'[i] = toSrc[i]
         \/ toSrc'[i] = m /\ \A j \in DOMAIN toSrc' : j <= i
  BY <1>g DEF Sent
<1>i. dst'.writing => dst' = dst
  BY <1>f
<1>1. BoundsInv'
  BY <1>b, IInvParts DEF BoundsInv
<1>2. ChannelInv'
  <2>1. Cancels(toDst')
    BY <1>e DEF Cancels
  <2>2. \A i \in DOMAIN toSrc' : toSrc'[i].t = "ready" => toSrc'[i] = m /\ Last(toSrc', i)
    BY <1>d, <1>h DEF Last
  <2> QED
    BY <1>a, <1>b, <1>d, <1>g, <2>1, <2>2, FewerToDst DEF ChannelInv
<1>3. TurnInv'
  BY <1>b, <1>d DEF TurnInv, Ended
<1>4. AboutInv'
  BY <1>b, <1>d, <1>e, <1>f, <1>i, IInvParts DEF AboutInv, Ended, Own
<1>5. DiskInv'
  BY <1>b, IInvParts DEF DiskInv, Good
<1>6. WalkInv'
  <2>1. \A i \in DOMAIN toSrc' : toSrc'[i].t = "ready" /\ toSrc'[i].ok =>
           OfferIn(disk, manifest, version, toSrc'[i].completed)
    BY <1>d, <1>g, <1>h, ScanOffer
  <2> QED
    BY <1>b, <1>d, <2>1, IInvParts DEF WalkInv, Offer, Good, Ended
<1>7. CopyInv'
  BY <1>b, <1>d, <1>e, <1>f, IInvParts DEF CopyInv, Uncopied, Ended, Own
<1>8. DoneInv'
  BY <1>b, <1>d, <1>e, <1>f, IInvParts DEF DoneInv, Listed, Own
<1>9. WindowInv'
  <2>1. \A k \in DOMAIN toSrc' : toSrc'[k].t = "wack" => k \in DOMAIN toSrc /\ toSrc'[k] = toSrc[k]
    BY <1>g, <1>h
  <2>2. \A i \in DOMAIN toDst' : toDst'[i].t # "chunk"
    BY <1>e
  <2> QED
    BY <1>b, <1>i, <2>1, <2>2, IInvParts DEF WindowInv, Written
<1> QED
  BY <1>1, <1>2, <1>3, <1>4, <1>5, <1>6, <1>7, <1>8, <1>9 DEF IInv

LEMMA DstCancelKeeps ==
    ASSUME IInv, Types', DstCancel
    PROVE  IInv'
<1>1. Receives("cancel") /\ DestinationKeeps /\ dst' = Closed /\ UNCHANGED <<toSrc, disk, manifest>>
  BY DestinationFrame DEF DstCancel
<1> QED
  BY <1>1, DroppedKeeps

LEMMA DstFileKeeps ==
    ASSUME IInv, Types', DstFile
    PROVE  IInv'
<1>a. Receives("file") /\ DestinationKeeps /\ UNCHANGED <<toSrc, manifest>>
  BY IInvParts, DstFileForm
<1>1. CASE dst' = dst /\ disk' = disk
  BY <1>a, <1>1, DroppedKeeps
<1>2. CASE /\ disk' = disk
           /\ dst' = DstSession(dst.open, dst.id, dst.file, dst.sum, dst.mtime, FALSE,
                        dst.acked, TRUE, dst.fresh)
  <2>1. /\ dst'.open = dst.open /\ dst'.id = dst.id /\ dst'.file = dst.file
        /\ dst'.sum = dst.sum /\ dst'.mtime = dst.mtime /\ dst'.writing \in {dst.writing, FALSE}
    BY <1>2 DEF DstSession
  <2> QED
    BY <1>a, <1>2, <2>1, DroppedKeeps
<1>3. CASE /\ disk' = Truncated(Head(toDst).f)
           /\ dst' = DstSession(TRUE, Head(toDst).id, Head(toDst).f, Head(toDst).sum,
                        Head(toDst).mtime, TRUE, 0, FALSE, dst.fresh \cup {Head(toDst).f})
  <2>b. /\ UNCHANGED <<version, phase, src, fileAck, windowAck, toSrc, manifest>>
        /\ (Ended' <=> Ended)
    BY <1>a DEF DestinationKeeps, Ended
  <2>c. /\ 1 \in DOMAIN toDst /\ toDst[1].t = "file" /\ toDst[1] = Head(toDst)
        /\ \A i \in DOMAIN toDst' :
              i + 1 \in DOMAIN toDst /\ 1 < i + 1 /\ toDst'[i] = toDst[i+1] /\ i \in Nat
    BY <1>a, IInvParts, Received
  <2>d. /\ ~Cancels(toDst) /\ src.pc \notin {"starting", "next", "open"}
        /\ \A i \in DOMAIN toSrc : toSrc[i].t # "ready"
        /\ ~Ended => fileAck = << >> /\ \A i \in DOMAIN toSrc : toSrc[i].t # "fack"
    BY <2>c, Busy
  <2> DEFINE f == src.cur
  <2>e. /\ toDst[1].id = src.id /\ f \in Files /\ toDst[1].f = f
        /\ toDst[1].mtime = src.walk[f] /\ toDst[1].mtime <= toDst[1].sum
        /\ toDst[1].sum <= version[f] /\ toDst[1].mtime # 0 /\ src.id # 0
        /\ manifest[f] < src.walk[f] /\ src.walk[f] <= version[f]
    <3>1. /\ toDst[1].id = src.id /\ f \in Files /\ toDst[1].f = f
          /\ toDst[1].mtime = src.walk[f] /\ toDst[1].mtime <= toDst[1].sum
          /\ toDst[1].sum <= version[f]
      BY <2>c, IInvParts DEF AboutInv, Own
    <3>2. toDst[1].mtime # 0 /\ toDst[1].id # 0
      BY <1>a, <2>c, IInvParts, HeadTyped, Constants DEF Ids
    <3>3. manifest[f] < src.walk[f] /\ src.walk[f] <= version[f]
      BY <2>c, <3>1, IInvParts DEF CopyInv, Uncopied, WalkInv, Own
    <3> QED
      BY <3>1, <3>2, <3>3
  <2>f. /\ dst'.open /\ dst'.id = src.id /\ dst'.file = f /\ dst'.sum = toDst[1].sum
        /\ dst'.mtime = src.walk[f]
    BY <1>3, <2>c, <2>e DEF DstSession
  <2>g. /\ DOMAIN disk' = DOMAIN disk \cup {f}
        /\ disk'[f].data = << >> /\ disk'[f].mtime = 0
        /\ \A g \in DOMAIN disk \ {f} : disk'[g] = disk[g]
    <3>1. disk' = Truncated(f)
      BY <1>3, <2>c, <2>e
    <3> QED
      BY <2>e, <3>1, IInvParts, TruncatedDisk
  <2>h. \A i \in DOMAIN toDst' : toDst'[i].t # "file"
    BY <2>c, IInvParts DEF ChannelInv
  <2>i. f \in Nat /\ \A g \in Files : g \in Nat
    BY <2>e, Constants DEF Files
  <2> HIDE DEF f
  <2>j. \A g \in Files : \A v, w : g # f /\ GoodIn(disk, g, v, w) => GoodIn(disk', g, v, w)
    <3>1. \A g, v, w : GoodIn(disk, g, v, w) => g \in DOMAIN disk
      BY DEF GoodIn
    <3> QED
      BY <2>g, <3>1, GoodStays
  <2>1. BoundsInv'
    BY <2>b, IInvParts DEF BoundsInv
  <2>2. ChannelInv'
    BY <1>a, <2>b, <2>c, <2>d, FewerToDst, IInvParts DEF ChannelInv
  <2>3. TurnInv'
    BY <2>b, <2>c, <2>d, IInvParts DEF TurnInv
  <2>4. AboutInv'
    BY <2>b, <2>c, <2>e, <2>f, <2>g, <2>h, IInvParts DEF AboutInv, f
  <2>5. DiskInv'
    <3>1. \A g \in DOMAIN disk' : disk'[g].mtime # 0 => g \in DOMAIN disk \ {f} /\ disk'[g] = disk[g]
      BY <2>g
    <3>2. \A g \in DOMAIN disk' : disk'[g].mtime # 0 =>
             disk'[g].mtime <= version[g] /\ GoodIn(disk', g, disk'[g].mtime, version[g])
      BY <3>1, <2>j, IInvParts, DiskNumbers DEF DiskInv, Good
    <3>3. manifest[f] # version[f]
      BY <2>e, IInvParts, DiskNumbers, SrcNumbers
    <3>4. \A g \in Files : manifest[g] = version[g] =>
             g \in DOMAIN disk' /\ disk'[g].mtime = manifest[g]
      BY <2>g, <3>3, IInvParts DEF DiskInv
    <3> QED
      BY <2>b, <3>2, <3>4, IInvParts DEF DiskInv, Good
  <2>6. WalkInv'
    <3>1. \A g \in Files : g > f => g # f
      BY <2>i
    <3> QED
      BY <2>b, <2>d, <2>j, <3>1, IInvParts DEF WalkInv, Good, f
  <2>7. CopyInv'
    BY <2>b, <2>d, <2>e, IInvParts DEF CopyInv, Uncopied, Ended, f
  <2>8. DoneInv'
    <3>1. phase # "completed"
      BY <2>c, IInvParts DEF DoneInv, Own
    <3>2. ListedIn(disk, src.walk, version, f - 1) => ListedIn(disk', src.walk, version, f - 1)
      <4>1. \A g \in 1 .. f - 1 : g # f /\ g \in Files
        BY <2>e, <2>i, Constants DEF Files
      <4> QED
        BY <2>j, <4>1 DEF ListedIn
    <3> QED
      BY <2>b, <2>d, <3>1, <3>2, IInvParts DEF DoneInv, Listed, f
  <2>9. WindowInv'
    <3>1. Written' = 0
      BY <2>f, <2>g DEF Written
    <3>2. \A i \in DOMAIN toDst' : toDst'[i].t = "chunk" => 0 < toDst'[i].data[3]
      BY <2>c, IInvParts, NetNumbers
    <3>3. 0 <= src.offset
      BY IInvParts, SrcNumbers
    <3> QED
      BY <1>a, <2>b, <2>c, <3>1, <3>2, <3>3, FewerToDst, IInvParts DEF WindowInv
  <2> QED
    BY <2>1, <2>2, <2>3, <2>4, <2>5, <2>6, <2>7, <2>8, <2>9 DEF IInv
<1> QED
  BY IInvParts, DstFileForm, <1>1, <1>2, <1>3

LEMMA DstChunkKeeps ==
    ASSUME IInv, Types', DstChunk
    PROVE  IInv'
<1>a. Receives("chunk") /\ DestinationKeeps /\ UNCHANGED manifest
  BY IInvParts, DstChunkForm
<1>1. CASE UNCHANGED <<toSrc, dst, disk>>
  BY <1>a, <1>1, DroppedKeeps
<1>2. CASE /\ UNCHANGED <<toSrc, disk>>
           /\ dst' = DstSession(dst.open, dst.id, dst.file, dst.sum, dst.mtime, dst.writing,
                        dst.acked, TRUE, dst.fresh)
  <2>1. /\ dst'.open = dst.open /\ dst'.id = dst.id /\ dst'.file = dst.file
        /\ dst'.sum = dst.sum /\ dst'.mtime = dst.mtime /\ dst'.writing \in {dst.writing, FALSE}
    BY <1>2 DEF DstSession
  <2> QED
    BY <1>a, <1>2, <2>1, DroppedKeeps
<1>3. CASE /\ dst.writing
           /\ disk' = [disk EXCEPT ![dst.file].data = Append(@, Head(toDst).data)]
           /\ \/ UNCHANGED <<toSrc, dst>>
              \/ /\ dst' = DstSession(dst.open, dst.id, dst.file, dst.sum, dst.mtime,
                             dst.writing, Written + 1, dst.broken, dst.fresh)
                 /\ Answer([t |-> "wack", n |-> Written + 1])
  <2>b. /\ UNCHANGED <<version, phase, src, fileAck, windowAck, manifest>>
        /\ (Ended' <=> Ended)
    BY <1>a DEF DestinationKeeps, Ended
  <2>c. /\ 1 \in DOMAIN toDst /\ toDst[1].t = "chunk" /\ toDst[1] = Head(toDst)
        /\ \A i \in DOMAIN toDst' :
              i + 1 \in DOMAIN toDst /\ 1 < i + 1 /\ toDst'[i] = toDst[i+1] /\ i \in Nat
    BY <1>a, IInvParts, Received
  <2>d. /\ ~Cancels(toDst) /\ src.pc \notin {"starting", "next", "open"}
        /\ \A i \in DOMAIN toSrc : toSrc[i].t # "ready"
        /\ ~Ended => fileAck = << >> /\ \A i \in DOMAIN toSrc : toSrc[i].t # "fack"
    BY <2>c, Busy
  <2> DEFINE f == dst.file
             w == Written + 1
  <2>e. /\ dst.id # 0 /\ f = src.cur /\ f \in Files /\ f \in DOMAIN disk /\ disk[f].mtime = 0
    BY <1>3, IInvParts DEF AboutInv
  <2>f. Written \in Nat /\ w \in Nat /\ Written < toDst[1].data[3] /\ toDst[1].data[3] \in Nat
    BY <1>3, <2>c, <2>e, IInvParts, DiskTyped, NetNumbers DEF WindowInv, Written
  <2>g. /\ DOMAIN disk' = DOMAIN disk
        /\ disk'[f].data = Append(disk[f].data, toDst[1].data) /\ disk'[f].mtime = 0
        /\ \A g \in DOMAIN disk \ {f} : disk'[g] = disk[g]
    <3>1. Head(toDst).data \in Chunks
      BY <1>a, IInvParts, HeadTyped
    <3> QED
      BY <1>3, <2>c, <2>e, <3>1, IInvParts, AppendedDisk
  <2>h. /\ dst'.open = dst.open /\ dst'.id = dst.id /\ dst'.file = f /\ dst'.sum = dst.sum
        /\ dst'.mtime = dst.mtime /\ dst'.writing = dst.writing
    <3>1. CASE dst' = dst
      BY <3>1
    <3>2. CASE dst' = DstSession(dst.open, dst.id, dst.file, dst.sum, dst.mtime,
                         dst.writing, Written + 1, dst.broken, dst.fresh)
      BY <3>2 DEF DstSession
    <3> QED
      BY <1>3, <3>1, <3>2
  <2>i. \A i \in DOMAIN toSrc' :
           \/ i \in DOMAIN toSrc /\ toSrc'[i] = toSrc[i]
           \/ toSrc'[i].t = "wack" /\ toSrc'[i].n = w
    <3>1. CASE UNCHANGED toSrc
      BY <3>1
    <3>2. CASE Answer([t |-> "wack", n |-> Written + 1])
      <4>1. Sent(toSrc, toSrc', [t |-> "wack", n |-> Written + 1])
        BY <3>2, IInvParts, SentByEither
      <4> QED
        BY <4>1 DEF Sent
    <3> QED
      BY <1>3, <3>1, <3>2
  <2>j. Written' = w
    <3>1. Written' = Len(Append(disk[f].data, toDst[1].data))
      BY <2>g, <2>h DEF Written
    <3>2. disk[f].data \in Seq(Chunks) /\ toDst[1].data \in Chunks
      BY <1>a, <2>c, <2>e, IInvParts, DiskTyped, HeadTyped
    <3> QED
      BY <3>1, <3>2, SeqAppend DEF Written
  <2>k. \A g \in Files : g \in Nat
    BY Constants DEF Files
  <2> HIDE DEF f, w
  <2>l. \A g \in Files : \A v, u : g # f /\ GoodIn(disk, g, v, u) => GoodIn(disk', g, v, u)
    <3>1. \A g, v, u : GoodIn(disk, g, v, u) => g \in DOMAIN disk
      BY DEF GoodIn
    <3> QED
      BY <2>g, <3>1, GoodStays
  <2>1. BoundsInv'
    BY <2>b, IInvParts DEF BoundsInv
  <2>2. ChannelInv'
    BY <1>a, <2>b, <2>c, <2>d, <2>i, FewerToDst, IInvParts DEF ChannelInv
  <2>3. TurnInv'
    BY <2>b, <2>c, <2>d, <2>i, IInvParts DEF TurnInv
  <2>4. AboutInv'
    BY <2>b, <2>c, <2>e, <2>g, <2>h, IInvParts DEF AboutInv
  <2>5. DiskInv'
    <3>1. \A g \in DOMAIN disk' : disk'[g].mtime = disk[g].mtime
      BY <2>e, <2>g
    <3>2. \A g \in DOMAIN disk' : disk'[g].mtime # 0 =>
             disk'[g].mtime <= version[g] /\ GoodIn(disk', g, disk'[g].mtime, version[g])
      BY <2>e, <2>g, <2>l, <3>1, IInvParts, DiskNumbers DEF DiskInv, Good
    <3> QED
      BY <2>b, <2>g, <3>1, <3>2, IInvParts DEF DiskInv, Good
  <2>6. WalkInv'
    <3>1. \A g \in Files : g > src.cur => g # f
      BY <2>e, <2>k
    <3> QED
      BY <2>b, <2>d, <2>i, <2>l, <3>1, IInvParts DEF WalkInv, Good
  <2>7. CopyInv'
    <3>1. \A i \in DOMAIN toSrc' : toSrc'[i].t = "fack" => i \in DOMAIN toSrc /\ toSrc'[i] = toSrc[i]
      BY <2>i
    <3>2. Uncopied
      BY <2>e, IInvParts DEF CopyInv
    <3> QED
      BY <2>b, <2>d, <3>1, <3>2, IInvParts DEF CopyInv, Uncopied, Ended
  <2>8. DoneInv'
    <3>1. phase # "completed"
      BY <2>c, IInvParts DEF DoneInv, Own
    <3>2. ListedIn(disk, src.walk, version, f - 1) => ListedIn(disk', src.walk, version, f - 1)
      <4>1. \A g \in 1 .. f - 1 : g # f /\ g \in Files
        BY <2>e, <2>k, Constants DEF Files
      <4> QED
        BY <2>l, <4>1 DEF ListedIn
    <3> QED
      BY <2>b, <2>d, <2>e, <3>1, <3>2, IInvParts DEF DoneInv, Listed
  <2>9. WindowInv'
    <3>1. w <= toDst[1].data[3] /\ toDst[1].data[3] <= src.offset
      BY <2>c, <2>f, IInvParts DEF w, WindowInv
    <3>2. ASSUME NEW i \in DOMAIN toDst', toDst'[i].t = "chunk" PROVE w < toDst'[i].data[3]
      <4>1. toDst[1].data[3] < toDst[i+1].data[3]
        BY <2>c, <3>2, IInvParts DEF WindowInv
      <4>2. toDst[i+1].data[3] \in Nat
        BY <2>c, <3>2, IInvParts, NetNumbers
      <4> QED
        BY <2>c, <2>f, <3>1, <3>2, <4>1, <4>2
    <3>3. w <= src.offset
      BY <2>f, <3>1, IInvParts, SrcNumbers
    <3>4. ASSUME NEW i \in DOMAIN toDst', toDst'[i].t = "chunk"
          PROVE  /\ src.acked < toDst'[i].data[3] /\ toDst'[i].data[3] <= src.offset
                 /\ \A k \in DOMAIN windowAck : windowAck[k] < toDst'[i].data[3]
                 /\ \A k \in DOMAIN toSrc : toSrc[k].t = "wack" => toSrc[k].n < toDst'[i].data[3]
      BY <2>c, <3>4, IInvParts DEF WindowInv
    <3>5. \A k \in DOMAIN toSrc' : toSrc'[k].t = "wack" =>
             \/ k \in DOMAIN toSrc /\ toSrc'[k] = toSrc[k]
             \/ toSrc'[k].n = w
      BY <2>i
    <3>6. \A k \in DOMAIN toSrc' : toSrc'[k].t = "wack" => toSrc'[k].n <= src.offset
      BY <3>3, <3>5, IInvParts DEF WindowInv
    <3>7. ASSUME NEW i \in DOMAIN toDst', toDst'[i].t = "chunk",
                 NEW k \in DOMAIN toSrc', toSrc'[k].t = "wack"
          PROVE  toSrc'[k].n < toDst'[i].data[3]
      BY <3>2, <3>4, <3>5, <3>7
    <3>8. /\ src.acked <= src.offset /\ src.offset - src.acked <= Window
          /\ \A k \in DOMAIN windowAck : windowAck[k] <= src.offset
      BY IInvParts DEF WindowInv
    <3>9. \A i, j \in DOMAIN toDst' : i < j /\ toDst'[i].t = "chunk" /\ toDst'[j].t = "chunk" =>
             toDst'[i].data[3] < toDst'[j].data[3]
      BY <1>a, FewerToDst
    <3> QED
      BY <2>b, <2>j, <3>2, <3>3, <3>4, <3>6, <3>7, <3>8, <3>9 DEF WindowInv
  <2> QED
    BY <2>1, <2>2, <2>3, <2>4, <2>5, <2>6, <2>7, <2>8, <2>9 DEF IInv
<1> QED
  BY IInvParts, DstChunkForm, <1>1, <1>2, <1>3

LEMMA DstFileDoneKeeps ==
    ASSUME IInv, Types', DstFileDone
    PROVE  IInv'
<1>a. Receives("done") /\ DestinationKeeps
  BY IInvParts, DstFileDoneForm
<1>1. CASE UNCHANGED <<toSrc, dst, disk, manifest>>
  BY <1>a, <1>1, DroppedKeeps
<1>2. CASE /\ Head(toDst).id = dst.id
           /\ dst' = DstSession(dst.open, 0, dst.file, dst.sum, dst.mtime, FALSE,
                        dst.acked, dst.broken, dst.fresh)
           /\ \/ /\ Verified /\ Answer([t |-> "fack", ok |-> TRUE])
                 /\ disk' = [disk EXCEPT ![dst.file].mtime = dst.mtime]
                 /\ manifest' = [manifest EXCEPT ![dst.file] = dst.mtime]
              \/ /\ ~Verified /\ Answer([t |-> "fack", ok |-> FALSE])
                 /\ disk' = [f \in DOMAIN disk \ {dst.file} |-> disk[f]]
                 /\ UNCHANGED manifest
  <2>b. /\ UNCHANGED <<version, phase, src, fileAck, windowAck>>
        /\ (Ended' <=> Ended)
    BY <1>a DEF DestinationKeeps, Ended
  <2>c. /\ 1 \in DOMAIN toDst /\ toDst[1].t = "done" /\ toDst[1] = Head(toDst)
        /\ \A i \in DOMAIN toDst' :
              i + 1 \in DOMAIN toDst /\ 1 < i + 1 /\ toDst'[i] = toDst[i+1] /\ i \in Nat
    BY <1>a, IInvParts, Received
  <2>d. /\ ~Cancels(toDst) /\ src.pc \notin {"starting", "next", "open", "sending"}
        /\ \A i \in DOMAIN toSrc : toSrc[i].t # "ready"
        /\ ~Ended => fileAck = << >> /\ \A i \in DOMAIN toSrc : toSrc[i].t # "fack"
    BY <2>c, Busy, IInvParts DEF TurnInv
  <2> DEFINE f == dst.file
  <2>e. /\ dst.id # 0 /\ f = src.cur /\ f \in Files /\ f \in DOMAIN disk
        /\ dst.mtime = src.walk[f] /\ dst.mtime # 0 /\ dst.mtime <= dst.sum /\ dst.sum <= version[f]
        /\ manifest[f] < src.walk[f]
    <3>1. Head(toDst).id \in Ids
      BY <1>a, IInvParts, HeadTyped
    <3>2. dst.id # 0
      BY <1>2, <3>1 DEF Ids
    <3> QED
      BY <3>2, IInvParts DEF AboutInv, CopyInv, Uncopied
  <2>f. dst'.id = 0 /\ dst'.writing = FALSE
    BY <1>2 DEF DstSession
  <2>g. \A i \in DOMAIN toDst' : toDst'[i].t \in {"cancel", "prepare"}
    BY <2>c, IInvParts DEF ChannelInv
  <2>h. ~Ended => \A i \in DOMAIN toDst' : toDst'[i].t = "cancel"
    BY <2>c, <2>g, IInvParts DEF ChannelInv
  <2>i. \E ok \in BOOLEAN :
           /\ \A i \in DOMAIN toSrc' :
                 \/ i \in DOMAIN toSrc /\ toSrc'[i] = toSrc[i]
                 \/ /\ toSrc'[i].t = "fack" /\ toSrc'[i].ok = ok
                    /\ \A j \in DOMAIN toSrc' : j <= i
           /\ \/ /\ ok = TRUE /\ Verified
                 /\ disk' = [disk EXCEPT ![dst.file].mtime = dst.mtime]
                 /\ manifest' = [manifest EXCEPT ![dst.file] = dst.mtime]
              \/ /\ ok = FALSE
                 /\ disk' = [g \in DOMAIN disk \ {dst.file} |-> disk[g]]
                 /\ UNCHANGED manifest
    <3>1. ASSUME NEW ok \in BOOLEAN, Answer([t |-> "fack", ok |-> ok])
          PROVE  \A i \in DOMAIN toSrc' :
                    \/ i \in DOMAIN toSrc /\ toSrc'[i] = toSrc[i]
                    \/ /\ toSrc'[i].t = "fack" /\ toSrc'[i].ok = ok
                       /\ \A j \in DOMAIN toSrc' : j <= i
      <4>1. Sent(toSrc, toSrc', [t |-> "fack", ok |-> ok])
        BY <3>1, IInvParts, SentByEither
      <4> QED
        BY <4>1 DEF Sent
    <3>2. CASE /\ Verified /\ Answer([t |-> "fack", ok |-> TRUE])
               /\ disk' = [disk EXCEPT ![dst.file].mtime = dst.mtime]
               /\ manifest' = [manifest EXCEPT ![dst.file] = dst.mtime]
      <4> WITNESS TRUE \in BOOLEAN
      <4> QED
        BY <3>1, <3>2
    <3>3. CASE /\ Answer([t |-> "fack", ok |-> FALSE])
               /\ disk' = [g \in DOMAIN disk \ {dst.file} |-> disk[g]]
               /\ UNCHANGED manifest
      <4> WITNESS FALSE \in BOOLEAN
      <4> QED
        BY <3>1, <3>3
    <3> QED
      BY <1>2, <3>2, <3>3
  <2>j. PICK ok \in BOOLEAN :
           /\ \A i \in DOMAIN toSrc' :
                 \/ i \in DOMAIN toSrc /\ toSrc'[i] = toSrc[i]
                 \/ /\ toSrc'[i].t = "fack" /\ toSrc'[i].ok = ok
                    /\ \A j \in DOMAIN toSrc' : j <= i
           /\ \/ /\ ok = TRUE /\ Verified
                 /\ disk' = [disk EXCEPT ![dst.file].mtime = dst.mtime]
                 /\ manifest' = [manifest EXCEPT ![dst.file] = dst.mtime]
              \/ /\ ok = FALSE
                 /\ disk' = [g \in DOMAIN disk \ {dst.file} |-> disk[g]]
                 /\ UNCHANGED manifest
    BY <2>i
  <2>k. /\ \A g \in DOMAIN disk \ {f} : g \in DOMAIN disk' /\ disk'[g] = disk[g]
        /\ \A g \in Files \ {f} : manifest'[g] = manifest[g]
        /\ DOMAIN disk' \subseteq DOMAIN disk
        /\ \/ /\ ok = TRUE /\ manifest'[f] = src.walk[f] /\ disk'[f].mtime = src.walk[f]
              /\ f \in DOMAIN disk' /\ GoodIn(disk', f, src.walk[f], version[f])
           \/ ok = FALSE /\ manifest' = manifest /\ f \notin DOMAIN disk'
    <3>1. CASE /\ ok = TRUE /\ Verified
               /\ disk' = [disk EXCEPT ![dst.file].mtime = dst.mtime]
               /\ manifest' = [manifest EXCEPT ![dst.file] = dst.mtime]
      <4>1. /\ DOMAIN disk' = DOMAIN disk /\ disk'[f].data = disk[f].data
            /\ disk'[f].mtime = src.walk[f]
            /\ \A g \in DOMAIN disk \ {f} : disk'[g] = disk[g]
        <5>1. dst.mtime \in Mtimes
          BY IInvParts, DstFields
        <5> QED
          BY <2>e, <3>1, <5>1, IInvParts, StampedDisk
      <4>2. manifest'[f] = src.walk[f] /\ \A g \in Files \ {f} : manifest'[g] = manifest[g]
        <5>1. manifest \in [Files -> Mtimes]
          BY IInvParts, DstFields DEF Known, Mtimes
        <5> QED
          BY <2>e, <3>1, <5>1
      <4>3. disk[f].data = Content(f, dst.sum)
        BY <3>1 DEF Verified
      <4>4. dst.sum \in Versions
        <5>1. dst.sum \in Mtimes /\ dst.mtime \in Nat /\ dst.sum \in Nat
          BY IInvParts, DstFields, DiskNumbers
        <5>2. dst.sum # 0
          BY <2>e, <5>1
        <5> QED
          BY <5>1, <5>2 DEF Mtimes
      <4>5. GoodIn(disk', f, src.walk[f], version[f])
        BY <2>e, <4>1, <4>3, <4>4 DEF GoodIn
      <4> QED
        BY <2>e, <3>1, <4>1, <4>2, <4>5
    <3>2. CASE /\ ok = FALSE
               /\ disk' = [g \in DOMAIN disk \ {dst.file} |-> disk[g]]
               /\ UNCHANGED manifest
      BY <2>e, <3>2, IInvParts, RemovedDisk
    <3> QED
      BY <2>j, <3>1, <3>2
  <2>l. /\ \A g \in Files : g \in Nat
        /\ src.walk[f] \in Nat \ {0} /\ manifest[f] \in Nat /\ version[f] \in Nat
        /\ src.walk[f] <= version[f]
    BY <2>e, IInvParts, SrcNumbers, DiskNumbers, Constants DEF Files, WalkInv
  <2> HIDE DEF f
  <2>m. \A g \in Files : \A v, u : g # f /\ GoodIn(disk, g, v, u) => GoodIn(disk', g, v, u)
    <3>1. \A g, v, u : GoodIn(disk, g, v, u) => g \in DOMAIN disk
      BY DEF GoodIn
    <3> QED
      BY <2>k, <3>1, GoodStays
  <2>n. \A i \in DOMAIN toSrc' :
           \/ i \in DOMAIN toSrc /\ toSrc'[i] = toSrc[i]
           \/ /\ toSrc'[i].t = "fack" /\ toSrc'[i].ok = ok
              /\ \A j \in DOMAIN toSrc' : j <= i
    BY <2>j
  <2>1. BoundsInv'
    BY <2>b, IInvParts DEF BoundsInv
  <2>2. ChannelInv'
    <3>1. \A i \in DOMAIN toSrc' : toSrc'[i].t # "ready"
      BY <2>d, <2>n
    <3> QED
      BY <1>a, <2>b, <2>h, <3>1, FewerToDst DEF ChannelInv
  <2>3. TurnInv'
    <3>1. ~Ended => \A i \in DOMAIN toSrc' : toSrc'[i].t = "fack" => Last(toSrc', i)
      BY <2>d, <2>n DEF Last
    <3>2. ~Ended => Cancels(toDst')
      BY <2>h DEF Cancels
    <3> QED
      BY <2>b, <2>d, <2>f, <3>1, <3>2 DEF TurnInv
  <2>4. AboutInv'
    BY <2>b, <2>f, <2>g, IInvParts DEF AboutInv, Own
  <2>5. DiskInv'
    <3>1. \A g \in Files : manifest'[g] <= version[g]
      BY <2>k, <2>l, IInvParts DEF DiskInv
    <3>2. \A g \in DOMAIN disk' : disk'[g].mtime # 0 =>
             disk'[g].mtime <= version[g] /\ GoodIn(disk', g, disk'[g].mtime, version[g])
      <4>1. \A g \in DOMAIN disk' : g # f => g \in DOMAIN disk /\ disk'[g] = disk[g] /\ g \in Files
        BY <2>k, IInvParts, DiskNumbers
      <4>2. ASSUME NEW g \in DOMAIN disk', g # f, disk'[g].mtime # 0
            PROVE  disk'[g].mtime <= version[g] /\ GoodIn(disk', g, disk'[g].mtime, version[g])
        BY <2>m, <4>1, <4>2, IInvParts DEF DiskInv, Good
      <4> QED
        BY <2>k, <2>l, <4>2
    <3>3. \A g \in Files : manifest'[g] = version[g] =>
             g \in DOMAIN disk' /\ disk'[g].mtime = manifest'[g]
      <4>1. \A g \in Files \ {f} : manifest[g] = version[g] =>
               g \in DOMAIN disk' /\ disk'[g].mtime = manifest[g]
        BY <2>k, IInvParts DEF DiskInv
      <4>2. manifest[f] # version[f]
        BY <2>e, <2>l
      <4> QED
        BY <2>k, <4>1, <4>2
    <3> QED
      BY <2>b, <3>1, <3>2, <3>3 DEF DiskInv, Good
  <2>6. WalkInv'
    <3>1. \A g \in Files : g > src.cur => g # f
      BY <2>e, <2>l
    <3>2. \A i \in DOMAIN toSrc' : toSrc'[i].t # "ready"
      BY <2>d, <2>n
    <3> QED
      BY <2>b, <2>d, <2>k, <2>m, <3>1, <3>2, IInvParts DEF WalkInv, Good
  <2>7. CopyInv'
    <3>1. ~Ended => \A i \in DOMAIN toSrc' : toSrc'[i].t = "fack" => toSrc'[i].ok = ok
      BY <2>d, <2>n
    <3>2. IF ok THEN Copied' ELSE Uncopied'
      BY <2>b, <2>e, <2>k, <2>l DEF Copied, Uncopied, Good
    <3>3. \A i \in DOMAIN toDst' : toDst'[i].t \notin Own
      BY <2>g DEF Own
    <3> QED
      BY <2>b, <2>d, <2>f, <3>1, <3>2, <3>3 DEF CopyInv, Ended
  <2>8. DoneInv'
    <3>1. phase # "completed"
      BY <2>c, IInvParts DEF DoneInv, Own
    <3>2. ListedIn(disk, src.walk, version, f - 1) => ListedIn(disk', src.walk, version, f - 1)
      <4>1. \A g \in 1 .. f - 1 : g # f /\ g \in Files
        BY <2>e, <2>l, Constants DEF Files
      <4> QED
        BY <2>m, <4>1 DEF ListedIn
    <3> QED
      BY <2>b, <2>d, <2>e, <3>1, <3>2, IInvParts DEF DoneInv, Listed
  <2>9. WindowInv'
    <3>1. \A k \in DOMAIN toSrc' : toSrc'[k].t = "wack" => k \in DOMAIN toSrc /\ toSrc'[k] = toSrc[k]
      BY <2>n
    <3>2. \A i \in DOMAIN toDst' : toDst'[i].t # "chunk"
      BY <2>g
    <3> QED
      BY <2>b, <2>f, <3>1, <3>2, IInvParts DEF WindowInv
  <2> QED
    BY <2>1, <2>2, <2>3, <2>4, <2>5, <2>6, <2>7, <2>8, <2>9 DEF IInv
<1> QED
  BY IInvParts, DstFileDoneForm, <1>1, <1>2

-----------------------------------------------------------------------------
(* The other steps keep the invariant.                                     *)

\* The source takes a message.
LEMMA Taken ==
    ASSUME IInv, Types', toSrc # << >>, toSrc' = Tail(toSrc)
    PROVE  /\ 1 \in DOMAIN toSrc /\ Head(toSrc) = toSrc[1]
           /\ \A i \in DOMAIN toSrc' :
                 /\ i \in Nat \ {0} /\ i + 1 \in DOMAIN toSrc /\ 1 < i + 1
                 /\ toSrc'[i] = toSrc[i+1]
           /\ Last(toSrc, 1) => toSrc' = << >>
           /\ \A i \in DOMAIN toSrc' : Last(toSrc, i + 1) => Last(toSrc', i)
<1>1. Consumed(toSrc, toSrc') /\ Head(toSrc) = toSrc[1] /\ toSrc' \in Seq(Answers)
  BY IInvParts, TakesTyped
<1>2. \A i \in DOMAIN toSrc' :
         i \in Nat \ {0} /\ i + 1 \in DOMAIN toSrc /\ 1 < i + 1 /\ toSrc'[i] = toSrc[i+1]
  BY <1>1, Indices DEF Consumed
<1>3. ASSUME Last(toSrc, 1) PROVE toSrc' = << >>
  <2>1. \A i \in DOMAIN toSrc' : FALSE
    BY <1>2, <1>3 DEF Last
  <2> QED
    BY <1>1, <2>1, NoDomain
<1>4. \A i \in DOMAIN toSrc' : Last(toSrc, i + 1) => Last(toSrc', i)
  BY <1>2 DEF Last
<1> QED
  BY <1>1, <1>2, <1>3, <1>4 DEF Consumed

LEMMA StartKeeps ==
    ASSUME IInv, Types', Start
    PROVE  IInv'
<1>a. /\ toSrc # << >> /\ toSrc' = Tail(toSrc) /\ Head(toSrc).t = "ready"
      /\ UNCHANGED <<version, toDst, dst, disk, manifest>>
  BY DEF Start, dirVars, dstVars
<1>b. 1 \in DOMAIN toSrc /\ Head(toSrc) = toSrc[1] /\ toSrc[1].t = "ready"
  BY <1>a, Taken
<1>c. Ended /\ Cancels(toDst) /\ Last(toSrc, 1) /\ (toSrc[1].ok => dst.id = 0)
  BY <1>b, IInvParts DEF ChannelInv
<1>d. toSrc' = << >> /\ \A i \in DOMAIN toSrc' : FALSE
  <2>1. toSrc' = << >>
    BY <1>a, <1>c, Taken
  <2> QED
    BY <2>1
<1>e. \A i \in DOMAIN toDst : toDst[i].t = "cancel"
  BY <1>c DEF Cancels
<1>1. CASE /\ toSrc[1].ok /\ phase' = "running" /\ fileAck' = << >> /\ windowAck' = << >>
           /\ src' = [Idle EXCEPT !.pc = "starting", !.completed = toSrc[1].completed]
  <2>a. /\ src'.pc = "starting" /\ src'.cur = 0 /\ src'.id = 0 /\ src'.walk = None
        /\ src'.offset = 0 /\ src'.acked = 0 /\ src'.completed = toSrc[1].completed /\ ~Ended'
    BY <1>1 DEF Idle, Ended
  <2>b. dst.id = 0 /\ ~dst.writing
    BY <1>1, <1>c, IInvParts DEF AboutInv
  <2>1. BoundsInv'
    BY <1>1, <2>a, Constants DEF BoundsInv
  <2>2. ChannelInv'
    BY <1>a, <1>d, <1>e DEF ChannelInv
  <2>3. TurnInv'
    BY <1>1, <1>a, <1>c, <1>d, <1>e, <2>a, <2>b DEF TurnInv, AtRest
  <2>4. AboutInv'
    BY <1>a, <1>e, <2>a, <2>b DEF AboutInv, Own
  <2>5. DiskInv'
    BY <1>a, IInvParts DEF DiskInv, Good
  <2>6. WalkInv'
    <3>1. OfferIn(disk, manifest, version, toSrc[1].completed)
      BY <1>1, <1>b, IInvParts DEF WalkInv, Offer
    <3>2. \A f \in Files : None[f] <= version[f]
      BY IInvParts, DiskNumbers DEF None
    <3> QED
      BY <1>a, <1>d, <2>a, <3>1, <3>2 DEF WalkInv, Offer
  <2>7. CopyInv'
    BY <1>a, <1>e, <2>a, <2>b DEF CopyInv, Own
  <2>8. DoneInv'
    BY <1>1, <2>a DEF DoneInv
  <2>9. WindowInv'
    BY <1>1, <1>a, <1>d, <1>e, <2>a, <2>b, Constants DEF WindowInv
  <2> QED
    BY <2>1, <2>2, <2>3, <2>4, <2>5, <2>6, <2>7, <2>8, <2>9 DEF IInv
<1>2. CASE UNCHANGED <<src, fileAck, windowAck>> /\ phase' \in {phase, "failed"}
  <2>a. Ended' <=> Ended
    BY <1>2 DEF Ended
  <2>1. BoundsInv'
    BY <1>2, IInvParts DEF BoundsInv
  <2>2. ChannelInv'
    BY <1>a, <1>d, <1>e, <1>c, <2>a DEF ChannelInv
  <2>3. TurnInv'
    BY <1>c, <2>a, <1>2 DEF TurnInv, Ended
  <2>4. AboutInv'
    BY <1>2, <1>a, IInvParts DEF AboutInv
  <2>5. DiskInv'
    BY <1>a, IInvParts DEF DiskInv, Good
  <2>6. WalkInv'
    BY <1>2, <1>a, <1>c, <1>d, IInvParts DEF WalkInv, Ended
  <2>7. CopyInv'
    BY <1>2, <1>a, <1>c, <1>d, IInvParts DEF CopyInv, Uncopied, Ended
  <2>8. DoneInv'
    BY <1>2, <1>a, <1>c, <2>a, IInvParts DEF DoneInv, Listed
  <2>9. WindowInv'
    BY <1>2, <1>a, <1>d, IInvParts DEF WindowInv, Written
  <2> QED
    BY <2>1, <2>2, <2>3, <2>4, <2>5, <2>6, <2>7, <2>8, <2>9 DEF IInv
<1> QED
  BY <1>1, <1>2, <1>b DEF Start, srcVars

LEMMA TakeVerdictMsgKeeps ==
    ASSUME IInv, Types', TakeVerdictMsg
    PROVE  IInv'
<1>a. /\ toSrc # << >> /\ toSrc' = Tail(toSrc) /\ Head(toSrc).t = "fack"
      /\ UNCHANGED <<version, phase, src, windowAck, toDst, dst, disk, manifest>>
      /\ (Ended' <=> Ended)
      /\ \/ fileAck' = fileAck
         \/ ~Ended /\ fileAck = << >> /\ fileAck' = <<Head(toSrc).ok>>
  BY DEF TakeVerdictMsg, dirVars, backendVars, dstVars, Ended, Registered
<1>b. /\ 1 \in DOMAIN toSrc /\ Head(toSrc) = toSrc[1] /\ toSrc[1].t = "fack"
      /\ \A i \in DOMAIN toSrc' :
            i \in Nat /\ i + 1 \in DOMAIN toSrc /\ 1 < i + 1 /\ toSrc'[i] = toSrc[i+1]
      /\ Last(toSrc, 1) => toSrc' = << >>
      /\ \A i \in DOMAIN toSrc' : Last(toSrc, i + 1) => Last(toSrc', i)
  BY <1>a, Taken
<1>c. /\ src.pc \notin {"starting", "next", "open", "sending"}
      /\ ~Ended => src.pc = "verdict"
  <2>1. src.pc \notin {"starting", "next", "open", "sending"}
    BY <1>b, IInvParts DEF TurnInv
  <2>2. src.pc \in PCs
    BY IInvParts, SrcFields
  <2> QED
    BY <2>1, <2>2 DEF PCs, Ended
<1>d. ~Ended => toSrc' = << >> /\ Cancels(toDst) /\ dst.id = 0
  BY <1>b, IInvParts DEF TurnInv
<1>1. BoundsInv'
  <2>1. Len(<<Head(toSrc).ok>>) = 1
    OBVIOUS
  <2>2. Len(fileAck') <= 1
    <3>1. CASE fileAck' = fileAck
      BY <3>1, IInvParts DEF BoundsInv
    <3>2. CASE fileAck' = <<Head(toSrc).ok>>
      BY <2>1, <3>2
    <3> QED
      BY <1>a, <3>1, <3>2
  <2> QED
    BY <1>a, <2>2, IInvParts DEF BoundsInv
<1>2. ChannelInv'
  BY <1>a, <1>b, IInvParts DEF ChannelInv
<1>3. TurnInv'
  <2>1. ~Ended => AtRest'
    BY <1>a, <1>d DEF AtRest
  <2>2. ~Ended => \A i \in DOMAIN toSrc' : FALSE
    BY <1>d
  <2> QED
    BY <1>a, <1>c, <2>1, <2>2 DEF TurnInv
<1>4. AboutInv'
  BY <1>a, IInvParts DEF AboutInv
<1>5. DiskInv'
  BY <1>a, IInvParts DEF DiskInv, Good
<1>6. WalkInv'
  BY <1>a, <1>b, IInvParts DEF WalkInv, Offer, Good
<1>7. CopyInv'
  <2>1. ~Ended => \A i \in DOMAIN toSrc' : FALSE
    BY <1>d
  <2>2. src.pc = "verdict" => ~Ended
    BY DEF Ended
  <2>3. src.pc = "verdict" => IF toSrc[1].ok THEN Copied ELSE Uncopied
    BY <1>b, IInvParts DEF CopyInv
  <2>4. src.pc = "verdict" /\ fileAck' # << >> => IF fileAck'[1] THEN Copied ELSE Uncopied
    <3>1. CASE fileAck' = fileAck
      BY <3>1, IInvParts DEF CopyInv
    <3>2. CASE fileAck' = <<toSrc[1].ok>>
      BY <3>2, <2>3
    <3> QED
      BY <1>a, <1>b, <3>1, <3>2
  <2>5. /\ src.pc \in {"open", "sending"} => Uncopied
        /\ dst.id # 0 => Uncopied
        /\ \A i \in DOMAIN toDst : toDst[i].t \in Own => Uncopied
    BY IInvParts DEF CopyInv
  <2>6. (Copied' <=> Copied) /\ (Uncopied' <=> Uncopied)
    BY <1>a DEF Copied, Uncopied, Good
  <2> QED
    BY <1>a, <2>1, <2>2, <2>4, <2>5, <2>6 DEF CopyInv
<1>8. DoneInv'
  BY <1>a, IInvParts DEF DoneInv, Listed
<1>9. WindowInv'
  BY <1>a, <1>b, IInvParts DEF WindowInv, Written
<1> QED
  BY <1>1, <1>2, <1>3, <1>4, <1>5, <1>6, <1>7, <1>8, <1>9 DEF IInv

LEMMA TakeWindowMsgKeeps ==
    ASSUME IInv, Types', TakeWindowMsg
    PROVE  IInv'
<1>a. /\ toSrc # << >> /\ toSrc' = Tail(toSrc) /\ Head(toSrc).t = "wack"
      /\ UNCHANGED <<version, phase, src, fileAck, toDst, dst, disk, manifest>>
      /\ (Ended' <=> Ended)
      /\ \/ windowAck' = windowAck
         \/ Len(windowAck) < AckSlots /\ windowAck' = Append(windowAck, Head(toSrc).n)
  BY DEF TakeWindowMsg, dirVars, backendVars, dstVars, Ended
<1>b. /\ 1 \in DOMAIN toSrc /\ Head(toSrc) = toSrc[1] /\ toSrc[1].t = "wack"
      /\ \A i \in DOMAIN toSrc' :
            i \in Nat /\ i + 1 \in DOMAIN toSrc /\ 1 < i + 1 /\ toSrc'[i] = toSrc[i+1]
      /\ \A i \in DOMAIN toSrc' : Last(toSrc, i + 1) => Last(toSrc', i)
  BY <1>a, Taken
<1>c. toSrc # << >>
  BY <1>a
<1>d. toSrc[1].n \in Nat
  BY <1>b, IInvParts, NetNumbers
<1>e. /\ Len(windowAck') <= AckSlots
      /\ \A k \in DOMAIN windowAck' :
            \/ k \in DOMAIN windowAck /\ windowAck'[k] = windowAck[k]
            \/ windowAck'[k] = toSrc[1].n
  <2>1. /\ windowAck \in Seq(Nat) /\ Len(windowAck) \in Nat
        /\ AckSlots \in Nat /\ Len(windowAck) <= AckSlots
    BY IInvParts, SrcFields, LenProperties, Constants DEF BoundsInv
  <2>2. CASE windowAck' = windowAck
    BY <2>1, <2>2
  <2>3. CASE Len(windowAck) < AckSlots /\ windowAck' = Append(windowAck, toSrc[1].n)
    <3>1. Len(windowAck') = Len(windowAck) + 1
      BY <1>d, <2>1, <2>3, SeqAppend
    <3>2. Sent(windowAck, windowAck', toSrc[1].n)
      BY <2>1, <2>3, SentSeq
    <3> QED
      BY <2>1, <2>3, <3>1, <3>2 DEF Sent
  <2> QED
    BY <1>a, <1>b, <2>2, <2>3
<1>1. BoundsInv'
  BY <1>a, <1>e, IInvParts DEF BoundsInv
<1>2. ChannelInv'
  BY <1>a, <1>b, IInvParts DEF ChannelInv
<1>3. TurnInv'
  <2>1. ~AtRest
    BY <1>c DEF AtRest
  <2> QED
    BY <1>a, <1>b, <2>1, IInvParts DEF TurnInv
<1>4. AboutInv'
  BY <1>a, IInvParts DEF AboutInv
<1>5. DiskInv'
  BY <1>a, IInvParts DEF DiskInv, Good
<1>6. WalkInv'
  BY <1>a, <1>b, IInvParts DEF WalkInv, Offer, Good
<1>7. CopyInv'
  BY <1>a, <1>b, IInvParts DEF CopyInv, Uncopied, Copied, Good
<1>8. DoneInv'
  BY <1>a, IInvParts DEF DoneInv, Listed
<1>9. WindowInv'
  <2>1. /\ toSrc[1].n <= src.offset
        /\ \A i \in DOMAIN toDst : toDst[i].t = "chunk" => toSrc[1].n < toDst[i].data[3]
    BY <1>b, IInvParts DEF WindowInv
  <2> QED
    BY <1>a, <1>b, <1>e, <2>1, IInvParts DEF WindowInv, Written
<1> QED
  BY <1>1, <1>2, <1>3, <1>4, <1>5, <1>6, <1>7, <1>8, <1>9 DEF IInv

LEMMA BackendKeeps ==
    ASSUME IInv, Types', Prepare \/ Cancel
    PROVE  IInv'
<1>a. /\ UNCHANGED <<version, fileAck, windowAck, toSrc, dst, disk, manifest>>
      /\ src'.pc = src.pc /\ src'.cur = src.cur /\ src'.id = src.id /\ src'.walk = src.walk
      /\ src'.completed = src.completed /\ src'.offset = src.offset /\ src'.acked = src.acked
      /\ src'.warned = src.warned /\ (Ended' <=> Ended) /\ phase' # "completed"
  <2>1. /\ UNCHANGED <<version, fileAck, windowAck, toSrc, dst, disk, manifest>>
        /\ phase' # "completed" /\ src' \in {src, [src EXCEPT !.done = TRUE]}
    BY DEF Prepare, Cancel, dirVars, srcVars, dstVars
  <2>2. src \in SrcSessions
    BY IInvParts DEF Types, SrcTypes
  <2>3. CASE src' = [src EXCEPT !.done = TRUE]
    <3>1. /\ src'.pc = src.pc /\ src'.cur = src.cur /\ src'.id = src.id /\ src'.walk = src.walk
          /\ src'.completed = src.completed /\ src'.offset = src.offset /\ src'.acked = src.acked
          /\ src'.warned = src.warned
      BY <2>2, <2>3 DEF SrcSessions
    <3> QED
      BY <2>1, <3>1 DEF Ended
  <2>4. CASE src' = src
    BY <2>1, <2>4 DEF Ended
  <2> QED
    BY <2>1, <2>3, <2>4
<1>b. PICK m : /\ Sent(toDst, toDst', m)
               /\ \/ m.t = "cancel"
                  \/ /\ m.t = "prepare" /\ Ended
                     /\ \A i \in DOMAIN toDst : toDst[i].t # "prepare"
                     /\ \A i \in DOMAIN toSrc : toSrc[i].t # "ready"
  <2>1. CASE Prepare
    <3>1. Sent(toDst, toDst', [t |-> "prepare"])
      BY <2>1, IInvParts, SentByEither DEF Prepare
    <3> QED
      BY <2>1, <3>1 DEF Prepare, Pending
  <2>2. CASE Cancel
    <3>1. Sent(toDst, toDst', [t |-> "cancel"])
      BY <2>2, IInvParts, SentByEither DEF Cancel
    <3> QED
      BY <3>1
  <2> QED
    BY <2>1, <2>2
<1>c. \A i \in DOMAIN toDst' :
         \/ i \in DOMAIN toDst /\ toDst'[i] = toDst[i]
         \/ toDst'[i] = m /\ \A j \in DOMAIN toDst' : j <= i
  BY <1>b DEF Sent
<1>d. \A i \in DOMAIN toDst' : i \in Nat
  BY Indices
<1>e. \A i \in DOMAIN toDst' :
         toDst'[i].t \in Own => i \in DOMAIN toDst /\ toDst'[i] = toDst[i]
  BY <1>b, <1>c DEF Own
<1>f. ~Ended \/ (\E i \in DOMAIN toSrc : toSrc[i].t = "ready") => m.t = "cancel"
  BY <1>b
<1>g. m.t = "cancel" /\ Cancels(toDst) => Cancels(toDst')
  BY <1>c DEF Cancels
<1>1. BoundsInv'
  BY <1>a, IInvParts DEF BoundsInv
<1>2. ChannelInv'
  <2>1. /\ \A i, j \in DOMAIN toDst' : i < j /\ toDst'[i].t = "done"
              => toDst'[j].t \in {"cancel", "prepare"}
        /\ \A i, j \in DOMAIN toDst' : i < j /\ toDst'[i].t = "prepare" => toDst'[j].t = "cancel"
        /\ \A i, j \in DOMAIN toDst' : i < j /\ toDst'[j].t = "file" => toDst'[i].t = "cancel"
    BY <1>b, <1>c, <1>d, IInvParts DEF ChannelInv
  <2>2. ~Ended => \A i \in DOMAIN toDst' : toDst'[i].t # "prepare"
    BY <1>c, <1>f, IInvParts DEF ChannelInv
  <2> QED
    BY <1>a, <1>f, <1>g, <2>1, <2>2, IInvParts DEF ChannelInv
<1>3. TurnInv'
  <2>1. ~Ended /\ AtRest => AtRest'
    BY <1>a, <1>f, <1>g DEF AtRest
  <2>2. \A i \in DOMAIN toDst' : toDst'[i].t = "done" => i \in DOMAIN toDst /\ toDst'[i] = toDst[i]
    BY <1>e DEF Own
  <2>3. src.pc \in {"starting", "next", "open", "sending"} => ~Ended
    BY DEF Ended
  <2> QED
    BY <1>a, <1>f, <1>g, <2>1, <2>2, <2>3, IInvParts DEF TurnInv
<1>4. AboutInv'
  <2>1. \A i \in DOMAIN toDst' : toDst'[i].t = "file" => i \in DOMAIN toDst /\ toDst'[i] = toDst[i]
    BY <1>e DEF Own
  <2> QED
    BY <1>a, <1>e, <2>1, IInvParts DEF AboutInv
<1>5. DiskInv'
  BY <1>a, IInvParts DEF DiskInv, Good
<1>6. WalkInv'
  BY <1>a, IInvParts DEF WalkInv, Offer, Good
<1>7. CopyInv'
  BY <1>a, <1>e, IInvParts DEF CopyInv, Uncopied, Copied, Good
<1>8. DoneInv'
  BY <1>a, IInvParts DEF DoneInv, Listed
<1>9. WindowInv'
  <2>1. \A i \in DOMAIN toDst' : toDst'[i].t = "chunk" => i \in DOMAIN toDst /\ toDst'[i] = toDst[i]
    BY <1>e DEF Own
  <2> QED
    BY <1>a, <2>1, IInvParts DEF WindowInv, Written
<1> QED
  BY <1>1, <1>2, <1>3, <1>4, <1>5, <1>6, <1>7, <1>8, <1>9 DEF IInv

\* Messages are lost from the ends of the channels.
LEMMA CutKeeps ==
    ASSUME IInv, Types', Cut(toDst, toDst'), Cut(toSrc, toSrc'),
           Ended \/ Ended' \/ src'.pc = src.pc, Ended => Ended',
           src'.pc = "starting" => src.pc = "starting",
           src'.cur = src.cur, src'.id = src.id, src'.walk = src.walk,
           src'.completed = src.completed, src'.offset = src.offset, src'.acked = src.acked,
           src'.warned = src.warned,
           phase' = "completed" => phase = "completed" /\ src'.pc = "end",
           dst' = dst \/ dst' = Closed,
           DOMAIN disk' = DOMAIN disk,
           \A f \in DOMAIN disk : /\ disk'[f].mtime = disk[f].mtime
                                  /\ disk'[f].data \in {<< >>, disk[f].data},
           dst' = dst => disk' = disk,
           UNCHANGED <<version, fileAck, windowAck, manifest>>
    PROVE  IInv'
<1>a. /\ \A i \in DOMAIN toDst' : i \in DOMAIN toDst /\ toDst'[i] = toDst[i]
      /\ \A i \in DOMAIN toSrc' : i \in DOMAIN toSrc /\ toSrc'[i] = toSrc[i]
  BY DEF Cut
<1>b. /\ dst'.id \in {0, dst.id} /\ (dst'.id # 0 => dst' = dst) /\ (dst'.writing => dst' = dst)
  BY DEF Closed
<1>c. ~Ended' => ~Ended /\ src'.pc = src.pc
  OBVIOUS
<1>d. \A f, v, w : GoodIn(disk, f, v, w) => GoodIn(disk', f, v, w)
  <2>1. \A f, v, w : GoodIn(disk, f, v, w) => f \in DOMAIN disk
    BY DEF GoodIn
  <2> QED
    BY <2>1, GoodEmptied
<1>e. /\ Cancels(toDst) => Cancels(toDst')
      /\ \A i \in DOMAIN toSrc' : Last(toSrc, i) => Last(toSrc', i)
      /\ toSrc = << >> => toSrc' = << >>
  <2>1. Cancels(toDst) => Cancels(toDst')
    BY <1>a DEF Cancels
  <2>2. \A i \in DOMAIN toSrc' : Last(toSrc, i) => Last(toSrc', i)
    BY <1>a DEF Last
  <2>3. ASSUME toSrc = << >> PROVE toSrc' = << >>
    <3>1. \A i \in DOMAIN toSrc' : FALSE
      BY <1>a, <2>3
    <3>2. toSrc' \in Seq(Answers)
      BY DEF Types, NetTypes
    <3> QED
      BY <3>1, <3>2, NoDomain
  <2> QED
    BY <2>1, <2>2, <2>3
<1>f. src'.pc \in {"starting", "next", "open", "sending", "verdict"} => ~Ended'
  BY DEF Ended
<1>1. BoundsInv'
  BY IInvParts DEF BoundsInv
<1>2. ChannelInv'
  BY <1>a, <1>b, <1>c, <1>e, IInvParts DEF ChannelInv
<1>3. TurnInv'
  <2>1. AtRest => AtRest'
    BY <1>b, <1>e DEF AtRest
  <2> QED
    BY <1>a, <1>b, <1>c, <1>e, <1>f, <2>1, IInvParts DEF TurnInv
<1>4. AboutInv'
  <2>1. \A f : f \in DOMAIN disk => f \in DOMAIN disk' /\ disk'[f].mtime = disk[f].mtime
    OBVIOUS
  <2> QED
    BY <1>a, <1>b, <1>c, <1>f, <2>1, IInvParts DEF AboutInv
<1>5. DiskInv'
  BY <1>d, IInvParts DEF DiskInv, Good
<1>6. WalkInv'
  <2>1. \A c : OfferIn(disk, manifest, version, c) => OfferIn(disk', manifest, version, c)
    BY <1>d DEF OfferIn
  <2> QED
    BY <1>a, <1>c, <1>d, <2>1, IInvParts DEF WalkInv, Offer, Good
<1>7. CopyInv'
  <2>1. (Copied => Copied') /\ (Uncopied' <=> Uncopied)
    BY <1>d DEF Copied, Uncopied, Good
  <2> QED
    BY <1>a, <1>b, <1>c, <1>f, <2>1, IInvParts DEF CopyInv
<1>8. DoneInv'
  <2>1. \A n : ListedIn(disk, src.walk, version, n) => ListedIn(disk', src.walk, version, n)
    BY <1>d DEF ListedIn
  <2> QED
    BY <1>a, <1>b, <1>c, <2>1, IInvParts DEF DoneInv, Listed
<1>9. WindowInv'
  BY <1>a, <1>b, IInvParts DEF WindowInv, Written
<1> QED
  BY <1>1, <1>2, <1>3, <1>4, <1>5, <1>6, <1>7, <1>8, <1>9 DEF IInv

LEMMA LossesKeep ==
    ASSUME IInv, Types', \/ Reconnect \/ LoseSrc \/ CrashSrc \/ LoseDst \/ PowerLoss
    PROVE  IInv'
<1>a. /\ toDst \in Seq(Commands) /\ toSrc \in Seq(Answers)
      /\ Cut(toDst, toDst) /\ Cut(toSrc, toSrc)
      /\ Cut(toDst, << >>) /\ Cut(toSrc, << >>)
  BY IInvParts, DstFields DEF Cut
<1>b. phase = "completed" => src.pc = "end"
  BY IInvParts DEF DoneInv
<1>c. \A f \in DOMAIN disk : disk[f].data \in {<< >>, disk[f].data}
  OBVIOUS
<1>1. CASE Reconnect
  BY <1>1, <1>a, <1>b, CutKeeps
     DEF Reconnect, dirVars, backendVars, srcVars, dstVars, Ended
<1>2. CASE LoseSrc \/ CrashSrc
  <2>1. PICK pc, done : /\ pc \in {src.pc, "end"} /\ LoseForm(pc, done)
                        /\ src.pc = "none" => pc = "none"
    <3>1. src.pc # "none" \/ src.pc = "none"
      OBVIOUS
    <3> QED
      BY <1>2, <3>1, IInvParts, SrcLostForm
  <2>2. /\ src'.pc = pc /\ src'.cur = src.cur /\ src'.id = src.id /\ src'.walk = src.walk
        /\ src'.completed = src.completed /\ src'.offset = src.offset /\ src'.acked = src.acked
        /\ src'.warned = src.warned
    BY <2>1 DEF LoseForm, SrcSession
  <2>3. /\ toSrc' = << >> /\ LoseTail(toDst, Own) /\ phase' \in {phase, "interrupted"}
        /\ UNCHANGED <<version, fileAck, windowAck, dst, disk, manifest>>
    BY <2>1 DEF LoseForm
  <2>4. Cut(toDst, toDst') /\ Cut(toSrc, toSrc')
    BY <1>a, <2>3, IInvParts, LoseTailTyped
  <2>5. /\ Ended \/ Ended' \/ src'.pc = src.pc
        /\ Ended => Ended'
        /\ src'.pc = "starting" => src.pc = "starting"
        /\ phase' = "completed" => phase = "completed" /\ src'.pc = "end"
    BY <1>b, <2>1, <2>2, <2>3 DEF Ended
  <2> QED
    BY <1>c, <2>2, <2>3, <2>4, <2>5, CutKeeps
<1>3. CASE LoseDst \/ PowerLoss
  <2>1. /\ toDst' = << >> /\ LoseTail(toSrc, {"wack", "fack", "ready"})
        /\ dst' = Closed /\ phase' \in {phase, "interrupted"}
        /\ UNCHANGED <<version, src, fileAck, windowAck, manifest>>
    BY <1>3 DEF LoseDst, PowerLoss, DstLost, Interrupt, dirVars, srcVars
  <2>2. Cut(toDst, toDst') /\ Cut(toSrc, toSrc')
    BY <1>a, <2>1, IInvParts, LoseTailTyped
  <2>3. /\ DOMAIN disk' = DOMAIN disk
        /\ \A f \in DOMAIN disk : /\ disk'[f].mtime = disk[f].mtime
                                  /\ disk'[f].data \in {<< >>, disk[f].data}
    <3>1. CASE LoseDst
      BY <3>1 DEF LoseDst
    <3>2. CASE PowerLoss
      <4>1. PICK lost \in SUBSET (dst.fresh \cap DOMAIN disk) :
              disk' = [f \in DOMAIN disk |->
                         IF f \in lost THEN [disk[f] EXCEPT !.data = << >>] ELSE disk[f]]
        BY <3>2 DEF PowerLoss
      <4> QED
        BY <4>1, IInvParts, EmptiedDisk
    <3> QED
      BY <1>3, <3>1, <3>2
  <2>4. dst' = dst => disk' = disk
    <3>1. CASE LoseDst
      BY <3>1 DEF LoseDst
    <3>2. CASE PowerLoss
      <4>1. PICK lost \in SUBSET (dst.fresh \cap DOMAIN disk) :
              disk' = [f \in DOMAIN disk |->
                         IF f \in lost THEN [disk[f] EXCEPT !.data = << >>] ELSE disk[f]]
        BY <3>2 DEF PowerLoss
      <4>2. disk \in [DOMAIN disk -> DstFiles]
        BY IInvParts DEF Types, DstTypes
      <4>3. ASSUME dst' = dst PROVE lost = {}
        BY <2>1, <4>3 DEF Closed
      <4> QED
        BY <4>1, <4>2, <4>3
    <3> QED
      BY <1>3, <3>1, <3>2
  <2>5. /\ Ended' <=> Ended
        /\ phase' = "completed" => phase = "completed" /\ src'.pc = "end"
    BY <1>b, <2>1 DEF Ended
  <2> QED
    BY <2>1, <2>2, <2>3, <2>4, <2>5, CutKeeps
<1> QED
  BY <1>1, <1>2, <1>3

LEMMA EditKeeps ==
    ASSUME IInv, Types', NEW f \in Files, Edit(f) \/ Unlink(f)
    PROVE  IInv'
<1>a. /\ UNCHANGED <<phase, src, fileAck, windowAck, toDst, toSrc, dst, disk, manifest>>
      /\ (Ended' <=> Ended)
  BY DEF Edit, Unlink, backendVars, srcVars, dstVars, Ended
<1>b. \A g \in Files : /\ version[g] \in Nat /\ version'[g] \in Nat
                       /\ version'[g] = version[g] \/ version'[g] > version[g]
  <2>1. version \in [Files -> Versions] /\ \A v \in Versions : v \in Nat
    BY IInvParts, Constants DEF Types, DirTypes
  <2>2. CASE Edit(f)
    <3>1. version' = [version EXCEPT ![f] = @ + 1]
      BY <2>2 DEF Edit
    <3> QED
      BY <2>1, <3>1
  <2>3. CASE Unlink(f)
    BY <2>1, <2>3 DEF Unlink
  <2> QED
    BY <2>2, <2>3
<1>c. \A g \in Files : /\ manifest[g] \in Nat /\ src.walk[g] \in Nat /\ src.completed[g] \in Nat
                       /\ g \in DOMAIN disk => disk[g].mtime \in Nat
  BY IInvParts, SrcNumbers, DiskNumbers
<1>d. \A d, g, v : g \in Files /\ v \in Nat /\ GoodIn(d, g, v, version[g]) =>
         GoodIn(d, g, v, version'[g])
  <2>1. \A g \in Files : version[g] <= version'[g]
    BY <1>b
  <2> QED
    BY <1>b, <2>1, GoodGrows
<1>1. BoundsInv'
  BY <1>a, IInvParts DEF BoundsInv
<1>2. ChannelInv'
  BY <1>a, IInvParts DEF ChannelInv
<1>3. TurnInv'
  BY <1>a, IInvParts DEF TurnInv, AtRest
<1>4. AboutInv'
  <2>1. \A g \in Files, x \in Nat : x <= version[g] => x <= version'[g]
    BY <1>b
  <2>2. /\ \A i \in DOMAIN toDst : toDst[i].t = "file" => toDst[i].sum \in Nat
        /\ dst.sum \in Nat
    BY IInvParts, NetNumbers, DiskNumbers
  <2>3. \A i \in DOMAIN toDst : toDst[i].t = "file" => src.cur \in Files
    BY IInvParts DEF AboutInv, Own
  <2> QED
    BY <1>a, <2>1, <2>2, <2>3, IInvParts DEF AboutInv
<1>5. DiskInv'
  <2>1. ASSUME NEW g \in Files PROVE manifest[g] <= version'[g]
    BY <1>b, <1>c, IInvParts DEF DiskInv
  <2>2. ASSUME NEW g \in DOMAIN disk, disk[g].mtime # 0
        PROVE  disk[g].mtime <= version'[g] /\ GoodIn(disk, g, disk[g].mtime, version'[g])
    <3>1. g \in Files /\ disk[g].mtime \in Nat
      BY IInvParts, DiskNumbers
    <3>2. disk[g].mtime <= version[g] /\ GoodIn(disk, g, disk[g].mtime, version[g])
      BY <2>2, IInvParts DEF DiskInv, Good
    <3> QED
      BY <1>b, <1>d, <3>1, <3>2
  <2>3. ASSUME NEW g \in Files, manifest[g] = version'[g]
        PROVE  g \in DOMAIN disk /\ disk[g].mtime = manifest[g]
    <3>1. manifest[g] <= version[g]
      BY IInvParts DEF DiskInv
    <3>2. manifest[g] = version[g]
      BY <1>b, <1>c, <2>3, <3>1
    <3> QED
      BY <3>2, IInvParts DEF DiskInv
  <2> QED
    BY <1>a, <2>1, <2>2, <2>3 DEF DiskInv, Good
<1>6. WalkInv'
  <2>1. \A g \in Files : src.walk[g] <= version'[g]
    BY <1>b, <1>c, IInvParts DEF WalkInv
  <2>2. ASSUME NEW c \in Known, OfferIn(disk, manifest, version, c)
        PROVE  OfferIn(disk, manifest, version', c)
    <3>1. \A g \in Files : c[g] \in Nat
      BY MtimesNat DEF Known, Mtimes
    <3>2. ASSUME NEW g \in Files
          PROVE  /\ c[g] <= version'[g] /\ manifest[g] \in {0, c[g]}
                 /\ c[g] = version'[g] => GoodIn(disk, g, c[g], version'[g])
      <4>1. /\ c[g] <= version[g] /\ manifest[g] \in {0, c[g]}
            /\ c[g] = version[g] => GoodIn(disk, g, c[g], version[g])
        BY <2>2 DEF OfferIn
      <4>2. c[g] <= version'[g] /\ (c[g] = version'[g] => c[g] = version[g])
        BY <1>b, <3>1, <4>1
      <4> QED
        BY <1>d, <3>1, <4>1, <4>2
    <3> QED
      BY <3>2 DEF OfferIn
  <2>3. /\ \A i \in DOMAIN toSrc : toSrc[i].t = "ready" => toSrc[i].completed \in Known
        /\ src.completed \in Known
    BY IInvParts, NetNumbers, SrcFields
  <2>4. /\ \A i \in DOMAIN toSrc : toSrc[i].t = "ready" /\ toSrc[i].ok =>
              OfferIn(disk, manifest, version', toSrc[i].completed)
        /\ src.pc = "starting" => OfferIn(disk, manifest, version', src.completed)
    BY <2>2, <2>3, IInvParts DEF WalkInv, Offer
  <2>5. ~Ended /\ src.pc # "starting" =>
          \A g \in Files : g > src.cur =>
             /\ manifest[g] \in {0, src.completed[g]}
             /\ src.walk[g] # 0 => src.completed[g] <= src.walk[g]
             /\ src.walk[g] # 0 /\ src.walk[g] = src.completed[g]
                   => GoodIn(disk, g, src.walk[g], version'[g])
    BY <1>c, <1>d, IInvParts DEF WalkInv, Good
  <2> QED
    BY <1>a, <2>1, <2>4, <2>5 DEF WalkInv, Offer, Good
<1>7. CopyInv'
  <2>1. Uncopied' <=> Uncopied
    BY <1>a DEF Uncopied
  <2>2. src.cur \in Files /\ Copied => Copied'
    BY <1>a, <1>c, <1>d DEF Copied, Good
  <2>3. src.pc = "verdict" => src.cur \in Files
    BY IInvParts DEF AboutInv
  <2> QED
    BY <1>a, <2>1, <2>2, <2>3, IInvParts DEF CopyInv
<1>8. DoneInv'
  <2>1. ASSUME NEW n \in Nat, n <= NumFiles, ListedIn(disk, src.walk, version, n)
        PROVE  ListedIn(disk, src.walk, version', n)
    <3>1. \A g \in 1 .. n : g \in Files
      BY <2>1, Constants DEF Files
    <3> QED
      BY <1>c, <1>d, <2>1, <3>1 DEF ListedIn
  <2>2. NumFiles \in Nat /\ src.cur \in Nat /\ src.cur <= NumFiles
    BY IInvParts, SrcNumbers
  <2>3. ListedIn(disk, src.walk, version, src.cur - 1) =>
           ListedIn(disk, src.walk, version', src.cur - 1)
    <3>1. CASE src.cur = 0
      <4>1. \A g \in 1 .. src.cur - 1 : FALSE
        BY <3>1
      <4> QED
        BY <4>1 DEF ListedIn
    <3>2. CASE src.cur # 0
      <4>1. src.cur - 1 \in Nat /\ src.cur - 1 <= NumFiles
        BY <2>2, <3>2
      <4> QED
        BY <2>1, <4>1
    <3> QED
      BY <3>1, <3>2
  <2> QED
    BY <1>a, <2>1, <2>2, <2>3, IInvParts DEF DoneInv, Listed
<1>9. WindowInv'
  BY <1>a, IInvParts DEF WindowInv, Written
<1> QED
  BY <1>1, <1>2, <1>3, <1>4, <1>5, <1>6, <1>7, <1>8, <1>9 DEF IInv

-----------------------------------------------------------------------------
(* The invariant holds.                                                    *)

LEMMA InitIInv == Init => IInv
<1> SUFFICES ASSUME Init PROVE IInv
  OBVIOUS
<1>a. /\ src = Idle /\ fileAck = << >> /\ windowAck = << >> /\ toDst = << >> /\ toSrc = << >>
      /\ dst = Closed /\ DOMAIN disk = {} /\ phase = "idle" /\ Ended
  BY DEF Init, Ended, Idle
<1>b. /\ DOMAIN toDst = {} /\ DOMAIN toSrc = {} /\ DOMAIN windowAck = {}
      /\ Len(fileAck) = 0 /\ Len(windowAck) = 0
  BY <1>a
<1>c. /\ src.pc = "none" /\ src.id = 0 /\ src.cur = 0 /\ src.offset = 0 /\ src.acked = 0
      /\ src.walk = None /\ dst.id = 0 /\ ~dst.writing
  BY <1>a DEF Idle, Closed
<1>d. \A f \in Files : version[f] = 1 /\ manifest[f] = 0 /\ src.walk[f] = 0
  BY <1>c DEF Init, None
<1>1. Types
  BY InitTypes
<1>2. BoundsInv
  BY <1>b, <1>c, Constants DEF BoundsInv
<1>3. ChannelInv
  BY <1>a, <1>b DEF ChannelInv
<1>4. TurnInv
  BY <1>a, <1>b, <1>c DEF TurnInv
<1>5. AboutInv
  BY <1>b, <1>c DEF AboutInv
<1>6. DiskInv
  BY <1>a, <1>d DEF DiskInv
<1>7. WalkInv
  BY <1>a, <1>b, <1>c, <1>d DEF WalkInv
<1>8. CopyInv
  BY <1>b, <1>c DEF CopyInv
<1>9. DoneInv
  BY <1>a DEF DoneInv
<1>10. WindowInv
  BY <1>b, <1>c, Constants DEF WindowInv
<1> QED
  BY <1>1, <1>2, <1>3, <1>4, <1>5, <1>6, <1>7, <1>8, <1>9, <1>10 DEF IInv

LEMMA StutterKeeps ==
    ASSUME IInv, Types', UNCHANGED vars
    PROVE  IInv'
<1>1. UNCHANGED <<version, phase, src, fileAck, windowAck, toDst, toSrc, dst, disk, manifest>>
  BY DEF vars, dirVars, srcVars, dstVars, backendVars
<1>2. Cut(toDst, toDst) /\ Cut(toSrc, toSrc)
  BY IInvParts DEF Cut, Types, NetTypes
<1>3. (Ended' <=> Ended) /\ (phase = "completed" => src.pc = "end")
  BY <1>1, IInvParts DEF Ended, DoneInv
<1> QED
  BY <1>1, <1>2, <1>3, CutKeeps

LEMMA NextIInv ==
    ASSUME IInv, [Next]_vars
    PROVE  IInv'
<1>1. Types'
  BY IInvParts, NextTypes
<1>2. CASE UNCHANGED vars
  BY <1>1, <1>2, StutterKeeps
<1>3. CASE Source
  <2>1. \/ Register \/ NextFile \/ Ends \/ Open \/ SendChunk \/ TakeAck \/ EndFile \/ Verdict
    BY <1>3 DEF Source, Ends
  <2> QED
    BY <1>1, <2>1, RegisterKeeps, NextFileKeeps, EndsKeeps, OpenKeeps, SendChunkKeeps,
       TakeAckKeeps, EndFileKeeps, VerdictKeeps
<1>4. CASE Destination
  BY <1>1, <1>4, DstPrepareKeeps, DstCancelKeeps, DstFileKeeps, DstChunkKeeps, DstFileDoneKeeps
  DEF Destination
<1>5. CASE Relay
  BY <1>1, <1>5, StartKeeps, TakeVerdictMsgKeeps, TakeWindowMsgKeeps DEF Relay
<1>6. CASE Prepare \/ Cancel
  BY <1>1, <1>6, BackendKeeps
<1>7. CASE Reconnect \/ LoseSrc \/ CrashSrc \/ LoseDst \/ PowerLoss
  BY <1>1, <1>7, LossesKeep
<1>8. CASE \E f \in Files : Edit(f) \/ Unlink(f)
  BY <1>1, <1>8, EditKeeps
<1> QED
  BY <1>2, <1>3, <1>4, <1>5, <1>6, <1>7, <1>8 DEF Next

LEMMA Invariance == Spec => []IInv
<1>1. IInv /\ [Next]_vars => IInv'
  BY NextIInv
<1> QED
  BY <1>1, InitIInv, PTL DEF Spec

-----------------------------------------------------------------------------
(* What the invariant implies.                                             *)

LEMMA ImpliesTypeOK == IInv => TypeOK
<1> SUFFICES ASSUME IInv PROVE TypeOK
  OBVIOUS
<1>1. DirTypes /\ BackendTypes /\ DstTypes
  BY IInvParts DEF Types
<1>2. /\ src.id \in 0 .. src.cur /\ src.acked \in 0 .. src.offset
      /\ Len(fileAck) <= 1 /\ Len(windowAck) <= AckSlots
  BY IInvParts, SrcNumbers DEF BoundsInv, WindowInv
<1>3. /\ src.pc \in PCs /\ src.cur \in 0 .. NumFiles /\ src.attempt \in 0 .. MaxRetries
      /\ src.offset \in 0 .. FileChunks /\ src.walk \in Known /\ src.completed \in Known
  BY IInvParts, SrcFields
<1>4. /\ version \in [Files -> Versions] /\ gone \subseteq Files /\ edits \in 0 .. MaxEdits
      /\ phase \in Phases /\ runs \in 0 .. MaxRuns /\ srcUp \in BOOLEAN /\ faults \in 0 .. MaxFaults
      /\ DOMAIN disk \subseteq Files /\ manifest \in Known
  BY <1>1 DEF DirTypes, BackendTypes, DstTypes
<1> QED
  BY <1>2, <1>3, <1>4 DEF TypeOK, PCs, Phases

\* A copy that did not lose its data is whole.
LEMMA GoodIsWhole ==
    ASSUME NEW f \in Files, NEW v \in Nat, GoodIn(disk, f, v, version[f])
    PROVE  Whole(f, v) \/ Lost(f)
<1>1. CASE disk[f].data = << >>
  BY <1>1 DEF GoodIn, Lost
<1>2. CASE disk[f].data # << >>
  <2>1. PICK u \in Versions : v <= u /\ disk[f].data = Content(f, u)
    BY <1>2 DEF GoodIn
  <2>2. u >= v
    BY <2>1, Constants
  <2> QED
    BY <2>1, <2>2 DEF GoodIn, Whole
<1> QED
  BY <1>1, <1>2

LEMMA ImpliesResumeSafe == IInv => ResumeSafe
<1> SUFFICES ASSUME IInv, NEW f \in Files, Scan[f] = version[f], ~Lost(f)
             PROVE  f \in DOMAIN disk /\ disk[f].data = Content(f, version[f])
  BY DEF ResumeSafe
<1>1. version[f] \in Nat /\ \A u \in Versions : u \in Nat
  BY IInvParts, DiskNumbers, Constants
<1>2. GoodIn(disk, f, version[f], version[f])
  BY ScanOffer DEF OfferIn
<1>3. disk[f].data # << >>
  BY <1>2 DEF GoodIn, Lost
<1>4. PICK u \in Versions :
         version[f] <= u /\ u <= version[f] /\ disk[f].data = Content(f, u)
  BY <1>2, <1>3 DEF GoodIn
<1>5. u = version[f]
  BY <1>1, <1>4
<1> QED
  BY <1>2, <1>4, <1>5 DEF GoodIn

LEMMA ImpliesDoneMeansCopied == IInv => DoneMeansCopied
<1> SUFFICES ASSUME IInv, phase = "completed", NEW f \in Files, src.walk[f] # 0
             PROVE  Whole(f, src.walk[f]) \/ Lost(f)
  BY DEF DoneMeansCopied
<1>1. GoodIn(disk, f, src.walk[f], version[f])
  BY IInvParts DEF DoneInv, Listed, ListedIn, Files
<1>2. src.walk[f] \in Nat
  BY IInvParts, SrcNumbers
<1> QED
  BY <1>1, <1>2, GoodIsWhole

LEMMA ImpliesOkMeansVerified == IInv => OkMeansVerified
<1> SUFFICES ASSUME IInv, src.pc = "verdict", fileAck = <<TRUE>>
             PROVE  /\ manifest[src.cur] = src.walk[src.cur]
                    /\ Whole(src.cur, src.walk[src.cur]) \/ Lost(src.cur)
  BY DEF OkMeansVerified
<1>1. Copied
  <2>1. fileAck # << >> /\ fileAck[1]
    OBVIOUS
  <2> QED
    BY <2>1, IInvParts DEF CopyInv
<1>2. src.cur \in Files
  BY IInvParts DEF AboutInv
<1>3. src.walk[src.cur] \in Nat
  BY <1>2, IInvParts, SrcNumbers
<1> QED
  BY <1>1, <1>2, <1>3, GoodIsWhole DEF Copied, Good

\* The chunks on their way have different places between what was acknowledged and what
\* was sent.
LEMMA ImpliesWindowHolds == IInv => WindowHolds
<1> SUFFICES ASSUME IInv PROVE WindowHolds
  OBVIOUS
<1> DEFINE S == {i \in DOMAIN toDst : toDst[i].t = "chunk"}
           T == (src.acked + 1) .. src.offset
           place == [i \in S |-> toDst[i].data[3]]
<1>1. /\ src.acked \in Nat /\ src.offset \in Nat /\ Window \in Nat
      /\ src.acked <= src.offset /\ src.offset - src.acked <= Window
  BY IInvParts, SrcNumbers DEF WindowInv
<1>2. /\ \A i \in S : i \in Nat /\ toDst[i].data[3] \in Nat
      /\ \A i \in S : src.acked < toDst[i].data[3] /\ toDst[i].data[3] <= src.offset
      /\ \A i, j \in S : i < j => toDst[i].data[3] < toDst[j].data[3]
  BY IInvParts, NetNumbers DEF WindowInv
<1>3. \A i \in S : toDst[i].data[3] \in T
  BY <1>1, <1>2
<1>4. \A i, j \in S : toDst[i].data[3] = toDst[j].data[3] => i = j
  <2> SUFFICES ASSUME NEW i \in S, NEW j \in S, toDst[i].data[3] = toDst[j].data[3], i # j
               PROVE  FALSE
    OBVIOUS
  <2>1. i < j \/ j < i
    BY <1>2
  <2>2. ~(i < j) /\ ~(j < i)
    BY <1>2
  <2> QED
    BY <2>1, <2>2
<1> HIDE DEF S, T
<1>5. place \in Injection(S, T)
  BY <1>3, <1>4 DEF Injection, IsInjective
<1>6. IsFiniteSet(T) /\ Cardinality(T) <= src.offset - src.acked
  <2>1. src.acked + 1 \in Int /\ src.offset \in Int
    BY <1>1
  <2>2. IsFiniteSet((src.acked + 1) .. src.offset)
    BY <2>1, FS_Interval
  <2>3. Cardinality((src.acked + 1) .. src.offset)
          = IF src.acked + 1 > src.offset THEN 0 ELSE src.offset - (src.acked + 1) + 1
    BY <2>1, FS_Interval
  <2>4. Cardinality((src.acked + 1) .. src.offset) <= src.offset - src.acked
    BY <1>1, <2>3
  <2> QED
    BY <2>2, <2>4 DEF T
<1>7. Cardinality(S) <= Cardinality(T) /\ IsFiniteSet(S)
  <2> HIDE DEF place
  <2> QED
    BY <1>5, <1>6, FS_Injection
<1>8. Cardinality(S) \in Nat /\ Cardinality(T) \in Nat
  BY <1>6, <1>7, FS_CardinalityType
<1>9. Cardinality(S) <= Window
  BY <1>1, <1>6, <1>7, <1>8
<1> QED
  BY <1>9 DEF S, WindowHolds

-----------------------------------------------------------------------------
(* The flow control.  The window's acks that are there for the source are   *)
(* those in its channel w and, behind them, those on their way s.  They     *)
(* ascend, from the last one it took, a, to the last one the destination   *)
(* sent.  One that finds the channel full is lost; but w has one then, so   *)
(* what is lost at the end is less than the window ahead of what is kept.   *)

Kept(a, w) == IF w = << >> THEN a ELSE w[Len(w)]

Ascending(a, w, s) ==
    /\ \A i \in DOMAIN w : a + AckEvery <= w[i]
    /\ \A i, j \in DOMAIN w : i < j => w[i] + AckEvery <= w[j]
    /\ \A k \in DOMAIN s : a + AckEvery <= s[k].n
    /\ \A i \in DOMAIN w, k \in DOMAIN s : w[i] + AckEvery <= s[k].n
    /\ \A k, l \in DOMAIN s : k < l => s[k].n + AckEvery <= s[l].n

Acked(a, w, s, last) ==
    /\ a <= last /\ \A i \in DOMAIN w : w[i] <= last
    /\ \A k \in DOMAIN s : s[k].n <= last
    /\ IF s = << >> THEN last + AckEvery <= Kept(a, w) + Window ELSE s[Len(s)].n = last

Live == src.pc = "sending" /\ ~src.done

\* A header that has not arrived has every chunk of its file behind it ...
Heading ==
    \A i \in DOMAIN toDst : toDst[i].t = "file" =>
        /\ srcUp /\ src.acked = 0 /\ windowAck = << >> /\ toSrc = << >>
        /\ Len(toDst) = i + src.offset
        /\ \A j \in DOMAIN toDst : i < j => toDst[j].t = "chunk"

\* ... and afterwards what was sent was written or is on its way, and what was written is
\* acked, but for less than AckEvery.
Flowing ==
    dst.id = src.id /\ ~dst.broken =>
        /\ srcUp /\ dst.writing
        /\ Len(toDst) + Written = src.offset /\ \A i \in DOMAIN toDst : toDst[i].t = "chunk"
        /\ dst.acked <= Written /\ Written < dst.acked + AckEvery
        /\ \A i \in DOMAIN toSrc : toSrc[i].t = "wack"
        /\ Ascending(src.acked, windowAck, toSrc)
        /\ Acked(src.acked, windowAck, toSrc, dst.acked)

FlowInv == Live => Heading /\ Flowing

LEMMA WackTyped == ASSUME NEW m \in Answers, m.t = "wack" PROVE m.n \in Nat
BY DEF Answers

\* The positions and the numbers of both channels of acks.
LEMMA AckNumbers ==
    ASSUME NEW w \in Seq(Nat), NEW s \in Seq(Answers), \A k \in DOMAIN s : s[k].t = "wack"
    PROVE  /\ Len(w) \in Nat /\ DOMAIN w = 1 .. Len(w) /\ (Len(w) = 0 <=> w = << >>)
           /\ Len(s) \in Nat /\ DOMAIN s = 1 .. Len(s) /\ (Len(s) = 0 <=> s = << >>)
           /\ \A i \in DOMAIN w : i \in Nat /\ w[i] \in Nat
           /\ \A k \in DOMAIN s : k \in Nat /\ s[k].n \in Nat
           /\ AckEvery \in Nat \ {0} /\ Window \in Nat /\ AckEvery <= Window
<1>1. /\ Len(w) \in Nat /\ DOMAIN w = 1 .. Len(w) /\ Len(s) \in Nat /\ DOMAIN s = 1 .. Len(s)
  BY LenProperties
<1>2. (Len(w) = 0 <=> w = << >>) /\ (Len(s) = 0 <=> s = << >>)
  BY EmptySeq
<1>3. \A k \in DOMAIN s : s[k] \in Answers
  BY <1>1, ElementOfSeq
<1>4. \A i \in DOMAIN w : w[i] \in Nat
  BY <1>1, ElementOfSeq
<1>5. AckEvery \in Nat \ {0} /\ Window \in Nat /\ AckEvery <= Window
  BY Constants
<1> QED
  BY <1>1, <1>2, <1>3, <1>4, <1>5, WackTyped

\* The destination sends one more ...
LEMMA AckSent ==
    ASSUME NEW a \in Nat, NEW w \in Seq(Nat), NEW s \in Seq(Answers), NEW last \in Nat,
           \A k \in DOMAIN s : s[k].t = "wack", Ascending(a, w, s), Acked(a, w, s, last),
           NEW m \in Answers, m.t = "wack", last + AckEvery <= m.n, NEW t, t = Append(s, m)
    PROVE  /\ \A k \in DOMAIN t : t[k].t = "wack"
           /\ Ascending(a, w, t) /\ Acked(a, w, t, m.n)
<1>num. /\ Len(w) \in Nat /\ DOMAIN w = 1 .. Len(w) /\ (Len(w) = 0 <=> w = << >>)
        /\ Len(s) \in Nat /\ DOMAIN s = 1 .. Len(s) /\ (Len(s) = 0 <=> s = << >>)
        /\ \A i \in DOMAIN w : i \in Nat /\ w[i] \in Nat
        /\ \A k \in DOMAIN s : k \in Nat /\ s[k].n \in Nat
  BY AckNumbers
<1>con. AckEvery \in Nat \ {0} /\ Window \in Nat /\ AckEvery <= Window
  BY Constants
<1>1. PICK n \in Nat : n = m.n /\ last + AckEvery <= n
  BY WackTyped
<1>2. /\ DOMAIN t = 1 .. Len(s) + 1 /\ t[Len(s) + 1] = m
      /\ \A i \in 1 .. Len(s) : t[i] = s[i]
      /\ Len(s) \in Nat /\ DOMAIN s = 1 .. Len(s) /\ Len(t) = Len(s) + 1
  <2>1. /\ t \in Seq(Answers) /\ Len(t) = Len(s) + 1 /\ t[Len(s) + 1] = m
        /\ \A i \in 1 .. Len(s) : t[i] = s[i]
    BY SeqAppend
  <2>2. Len(s) \in Nat /\ DOMAIN s = 1 .. Len(s) /\ DOMAIN t = 1 .. Len(t)
    BY <2>1, LenProperties
  <2> QED
    BY <2>1, <2>2
<1>3. t[Len(s) + 1].t = "wack" /\ t[Len(s) + 1].n = n
  BY <1>1, <1>2
<1>4. \A k \in DOMAIN t : t[k].t = "wack"
  BY <1>2, <1>3
<1>5. \A k \in DOMAIN t : \/ k \in DOMAIN s /\ t[k] = s[k]
                          \/ k = Len(s) + 1 /\ t[k].n = n
  BY <1>2, <1>3
<1>6. \A k \in DOMAIN s : s[k].n + AckEvery <= n /\ s[k].n \in Nat /\ s[k].n <= n
  <2>1. \A k \in DOMAIN s : s[k].n <= last /\ s[k].n \in Nat
    BY <1>num, <1>con DEF Acked
  <2>2. \A x \in Nat : x <= last => x + AckEvery <= n /\ x <= n
    BY <1>1, <1>con
  <2> QED
    BY <2>1, <2>2
<1>7. /\ \A i \in DOMAIN w : w[i] + AckEvery <= n /\ w[i] \in Nat /\ w[i] <= n
      /\ a + AckEvery <= n /\ a <= n
  <2>1. a <= last /\ \A i \in DOMAIN w : w[i] <= last
    BY DEF Acked
  <2>2. \A x \in Nat : x <= last => x + AckEvery <= n /\ x <= n
    BY <1>1, <1>con
  <2> QED
    BY <1>num, <1>con, <2>1, <2>2
<1>8. Ascending(a, w, t)
  <2>1. \A k, l \in DOMAIN t : k < l => t[k].n + AckEvery <= t[l].n
    <3> SUFFICES ASSUME NEW k \in DOMAIN t, NEW l \in DOMAIN t, k < l
                 PROVE  t[k].n + AckEvery <= t[l].n
      OBVIOUS
    <3>1. k \in DOMAIN s /\ t[k] = s[k]
      BY <1>2
    <3> QED
      BY <1>5, <1>6, <3>1 DEF Ascending
  <2>2. \A k \in DOMAIN t : a + AckEvery <= t[k].n
    BY <1>5, <1>7 DEF Ascending
  <2>3. \A i \in DOMAIN w, k \in DOMAIN t : w[i] + AckEvery <= t[k].n
    <3> SUFFICES ASSUME NEW i \in DOMAIN w, NEW k \in DOMAIN t
                 PROVE  w[i] + AckEvery <= t[k].n
      OBVIOUS
    <3>1. w[i] + AckEvery <= n
      BY ONLY <1>7
    <3>2. k \in DOMAIN s => w[i] + AckEvery <= s[k].n
      BY DEF Ascending
    <3> QED
      BY ONLY <1>5, <3>1, <3>2
  <2>4. /\ \A i \in DOMAIN w : a + AckEvery <= w[i]
        /\ \A i, j \in DOMAIN w : i < j => w[i] + AckEvery <= w[j]
    BY DEF Ascending
  <2> QED
    BY ONLY <2>1, <2>2, <2>3, <2>4 DEF Ascending
<1>9. Acked(a, w, t, n)
  <2>1. \A k \in DOMAIN t : t[k].n <= n
    <3>1. n <= n
      OBVIOUS
    <3> QED
      BY ONLY <1>5, <1>6, <3>1
  <2>2. t # << >>
    BY <1>2, EmptySeq
  <2> QED
    BY <1>2, <1>3, <1>7, <2>1, <2>2 DEF Acked
<1> QED
  BY <1>1, <1>4, <1>8, <1>9

\* ... which the reader puts into the channel ...
LEMMA AckKept ==
    ASSUME NEW a \in Nat, NEW w \in Seq(Nat), NEW s \in Seq(Answers), NEW last \in Nat,
           \A k \in DOMAIN s : s[k].t = "wack", Ascending(a, w, s), Acked(a, w, s, last),
           s # << >>, NEW v, v = Append(w, Head(s).n), NEW t, t = Tail(s)
    PROVE  /\ \A k \in DOMAIN t : t[k].t = "wack"
           /\ Ascending(a, v, t) /\ Acked(a, v, t, last)
<1>num. /\ Len(w) \in Nat /\ DOMAIN w = 1 .. Len(w) /\ (Len(w) = 0 <=> w = << >>)
        /\ Len(s) \in Nat /\ DOMAIN s = 1 .. Len(s) /\ (Len(s) = 0 <=> s = << >>)
        /\ \A i \in DOMAIN w : i \in Nat /\ w[i] \in Nat
        /\ \A k \in DOMAIN s : k \in Nat /\ s[k].n \in Nat
  BY AckNumbers
<1>con. AckEvery \in Nat \ {0} /\ Window \in Nat /\ AckEvery <= Window
  BY Constants
<1>1. /\ t \in Seq(Answers) /\ Head(s) = s[1] /\ Len(t) = Len(s) - 1
      /\ \A k \in DOMAIN t : t[k] = s[k+1] /\ k \in Nat \ {0} /\ k + 1 \in DOMAIN s
  BY SeqHead, ConsumedSeq DEF Consumed
<1>2. 1 \in DOMAIN s /\ s[1].n \in Nat
  <2>1. 1 \in DOMAIN s
    BY SeqHead, LenProperties
  <2> QED
    BY <1>num, <1>con, <2>1
<1>3. /\ v \in Seq(Nat) /\ Len(v) = Len(w) + 1 /\ v[Len(w) + 1] = s[1].n
      /\ \A i \in DOMAIN w : v[i] = w[i]
      /\ DOMAIN v = 1 .. Len(w) + 1
  <2>1. Head(s).n = s[1].n
    BY <1>1
  <2>2. /\ v \in Seq(Nat) /\ Len(v) = Len(w) + 1 /\ v[Len(w) + 1] = s[1].n
        /\ \A i \in 1 .. Len(w) : v[i] = w[i]
    BY <1>2, <2>1, SeqAppend
  <2>3. DOMAIN v = 1 .. Len(v) /\ DOMAIN w = 1 .. Len(w)
    BY <2>2, LenProperties
  <2> QED
    BY <2>2, <2>3
<1>4. \A k \in DOMAIN t : t[k].t = "wack"
  BY <1>1
<1>5. \A i \in DOMAIN v : \/ i \in DOMAIN w /\ v[i] = w[i]
                          \/ i = Len(w) + 1 /\ v[i] = s[1].n
  BY ONLY <1>num, <1>3
<1>6. Ascending(a, v, t)
  <2>1. \A i \in DOMAIN v : a + AckEvery <= v[i]
    BY <1>2, <1>5 DEF Ascending
  <2>2. \A i, j \in DOMAIN v : i < j => v[i] + AckEvery <= v[j]
    <3> SUFFICES ASSUME NEW i \in DOMAIN v, NEW j \in DOMAIN v, i < j
                 PROVE  v[i] + AckEvery <= v[j]
      OBVIOUS
    <3>1. i \in DOMAIN w /\ v[i] = w[i]
      BY <1>num, <1>con, <1>3
    <3> QED
      BY <1>2, <1>5, <3>1 DEF Ascending
  <2>3. \A k \in DOMAIN t : a + AckEvery <= t[k].n
    BY <1>1 DEF Ascending
  <2>4. \A i \in DOMAIN v, k \in DOMAIN t : v[i] + AckEvery <= t[k].n
    <3> SUFFICES ASSUME NEW i \in DOMAIN v, NEW k \in DOMAIN t
                 PROVE  v[i] + AckEvery <= t[k].n
      OBVIOUS
    <3>1. t[k] = s[k+1] /\ k + 1 \in DOMAIN s /\ 1 < k + 1
      BY <1>1
    <3>2. s[1].n + AckEvery <= s[k+1].n
      BY <1>2, <3>1 DEF Ascending
    <3>3. \A j \in DOMAIN w : w[j] + AckEvery <= s[k+1].n
      BY <3>1 DEF Ascending
    <3> QED
      BY <1>5, <3>1, <3>2, <3>3
  <2>5. \A k, l \in DOMAIN t : k < l => t[k].n + AckEvery <= t[l].n
    BY <1>1 DEF Ascending
  <2> QED
    BY <2>1, <2>2, <2>3, <2>4, <2>5 DEF Ascending
<1>7. Acked(a, v, t, last)
  <2>1. a <= last /\ (\A i \in DOMAIN v : v[i] <= last) /\ \A k \in DOMAIN t : t[k].n <= last
    BY <1>1, <1>2, <1>5 DEF Acked
  <2>2. s[Len(s)].n = last
    BY DEF Acked
  <2>3. CASE t = << >>
    <3>1. Len(s) = 1
      <4>1. Len(t) = 0
        BY <1>1, <2>3, EmptySeq
      <4> QED
        BY <1>num, <1>1, <4>1
    <3>2. v # << >> /\ v[Len(v)] = s[1].n
      BY <1>num, <1>con, <1>3, EmptySeq
    <3>3. Kept(a, v) = last
      BY <2>2, <3>1, <3>2 DEF Kept
    <3>4. last + AckEvery <= last + Window
      BY <1>num, <1>con
    <3> QED
      BY <2>1, <2>3, <3>3, <3>4 DEF Acked
  <2>4. CASE t # << >>
    <3>1. Len(t) \in DOMAIN t
      <4>1. Len(t) \in Nat /\ Len(t) # 0
        BY <1>1, <2>4, EmptySeq, LenProperties
      <4>2. DOMAIN t = 1 .. Len(t)
        BY <1>1, LenProperties
      <4> QED
        BY ONLY <4>1, <4>2
    <3>2. t[Len(t)] = s[Len(s)]
      BY <1>num, <1>con, <1>1, <3>1
    <3> QED
      BY <2>1, <2>2, <2>4, <3>2 DEF Acked
  <2> QED
    BY <2>3, <2>4
<1> QED
  BY <1>6, <1>7

\* ... or not, when the channel is full ...
LEMMA AckLost ==
    ASSUME NEW a \in Nat, NEW w \in Seq(Nat), NEW s \in Seq(Answers), NEW last \in Nat,
           \A k \in DOMAIN s : s[k].t = "wack", Ascending(a, w, s), Acked(a, w, s, last),
           s # << >>, w # << >>, last <= a + Window, NEW t, t = Tail(s)
    PROVE  /\ \A k \in DOMAIN t : t[k].t = "wack"
           /\ Ascending(a, w, t) /\ Acked(a, w, t, last)
<1>num. /\ Len(w) \in Nat /\ DOMAIN w = 1 .. Len(w) /\ (Len(w) = 0 <=> w = << >>)
        /\ Len(s) \in Nat /\ DOMAIN s = 1 .. Len(s) /\ (Len(s) = 0 <=> s = << >>)
        /\ \A i \in DOMAIN w : i \in Nat /\ w[i] \in Nat
        /\ \A k \in DOMAIN s : k \in Nat /\ s[k].n \in Nat
  BY AckNumbers
<1>con. AckEvery \in Nat \ {0} /\ Window \in Nat /\ AckEvery <= Window
  BY Constants
<1>1. /\ t \in Seq(Answers) /\ Len(t) = Len(s) - 1
      /\ \A k \in DOMAIN t : t[k] = s[k+1] /\ k \in Nat \ {0} /\ k + 1 \in DOMAIN s
  BY SeqHead, ConsumedSeq DEF Consumed
<1>2. \A k \in DOMAIN t : t[k].t = "wack"
  BY <1>1
<1>3. Ascending(a, w, t)
  <2>1. /\ \A i \in DOMAIN w : a + AckEvery <= w[i]
        /\ \A i, j \in DOMAIN w : i < j => w[i] + AckEvery <= w[j]
        /\ \A k \in DOMAIN s : a + AckEvery <= s[k].n
        /\ \A i \in DOMAIN w, k \in DOMAIN s : w[i] + AckEvery <= s[k].n
    BY DEF Ascending
  <2>2. \A k \in DOMAIN t : a + AckEvery <= t[k].n
    BY ONLY <1>1, <2>1
  <2>3. \A i \in DOMAIN w, k \in DOMAIN t : w[i] + AckEvery <= t[k].n
    BY ONLY <1>1, <2>1
  <2>4. \A k, l \in DOMAIN t : k < l => t[k].n + AckEvery <= t[l].n
    BY <1>1 DEF Ascending
  <2> QED
    BY ONLY <2>1, <2>2, <2>3, <2>4 DEF Ascending
<1>4. Acked(a, w, t, last)
  <2>1. a <= last /\ (\A i \in DOMAIN w : w[i] <= last) /\ \A k \in DOMAIN t : t[k].n <= last
    BY <1>1 DEF Acked
  <2>2. CASE t = << >>
    <3>1. Len(w) \in DOMAIN w
      BY <1>num, <1>con
    <3>2. a + AckEvery <= w[Len(w)] /\ w[Len(w)] \in Nat
      BY <1>num, <1>con, <3>1 DEF Ascending
    <3>3. last + AckEvery <= w[Len(w)] + Window
      <4>1. \A x \in Nat : a + AckEvery <= x => last + AckEvery <= x + Window
        BY <1>con
      <4> QED
        BY <3>2, <4>1
    <3> QED
      BY <2>1, <2>2, <3>3 DEF Acked, Kept
  <2>3. CASE t # << >>
    <3>1. Len(t) \in DOMAIN t
      <4>1. Len(t) \in Nat /\ Len(t) # 0
        BY <1>1, <2>3, EmptySeq, LenProperties
      <4>2. DOMAIN t = 1 .. Len(t)
        BY <1>1, LenProperties
      <4> QED
        BY ONLY <4>1, <4>2
    <3>2. t[Len(t)] = s[Len(s)]
      BY <1>num, <1>con, <1>1, <3>1
    <3> QED
      BY <2>1, <2>3, <3>2 DEF Acked
  <2> QED
    BY <2>2, <2>3
<1> QED
  BY <1>2, <1>3, <1>4

\* ... and the source takes it, or all that are there.
LEMMA AckTaken ==
    ASSUME NEW a \in Nat, NEW w \in Seq(Nat), NEW s \in Seq(Answers), NEW last \in Nat,
           \A k \in DOMAIN s : s[k].t = "wack", Ascending(a, w, s), Acked(a, w, s, last),
           w # << >>, NEW v, v = Tail(w)
    PROVE  /\ a <= Head(w) /\ Ascending(Head(w), v, s) /\ Acked(Head(w), v, s, last)
<1>num. /\ Len(w) \in Nat /\ DOMAIN w = 1 .. Len(w) /\ (Len(w) = 0 <=> w = << >>)
        /\ Len(s) \in Nat /\ DOMAIN s = 1 .. Len(s) /\ (Len(s) = 0 <=> s = << >>)
        /\ \A i \in DOMAIN w : i \in Nat /\ w[i] \in Nat
        /\ \A k \in DOMAIN s : k \in Nat /\ s[k].n \in Nat
  BY AckNumbers
<1>con. AckEvery \in Nat \ {0} /\ Window \in Nat /\ AckEvery <= Window
  BY Constants
<1>1. /\ v \in Seq(Nat) /\ Head(w) = w[1] /\ Len(v) = Len(w) - 1
      /\ \A k \in DOMAIN v : v[k] = w[k+1] /\ k \in Nat \ {0} /\ k + 1 \in DOMAIN w
  BY SeqHead, ConsumedSeq DEF Consumed
<1>2. 1 \in DOMAIN w /\ w[1] \in Nat
  BY <1>num, <1>con
<1>3. a <= w[1]
  <2>1. a + AckEvery <= w[1]
    BY <1>2 DEF Ascending
  <2> QED
    BY <1>con, <1>2, <2>1
<1>4. Ascending(w[1], v, s)
  <2>1. \A i \in DOMAIN v : w[1] + AckEvery <= v[i]
    <3> SUFFICES ASSUME NEW i \in DOMAIN v PROVE w[1] + AckEvery <= v[i]
      OBVIOUS
    <3>1. i + 1 \in DOMAIN w /\ 1 < i + 1 /\ v[i] = w[i+1]
      BY <1>1
    <3> QED
      BY <1>2, <3>1 DEF Ascending
  <2>2. \A i, j \in DOMAIN v : i < j => v[i] + AckEvery <= v[j]
    BY <1>1 DEF Ascending
  <2> QED
    BY <1>1, <1>2, <2>1, <2>2 DEF Ascending
<1>5. Acked(w[1], v, s, last)
  <2>1. w[1] <= last /\ (\A i \in DOMAIN v : v[i] <= last) /\ \A k \in DOMAIN s : s[k].n <= last
    BY <1>1, <1>2 DEF Acked
  <2>2. Kept(w[1], v) = Kept(a, w)
    <3>1. CASE v = << >>
      <4>1. Len(v) = 0
        BY <1>1, <3>1, EmptySeq
      <4>2. Len(w) = 1
        BY <1>num, <1>1, <4>1
      <4> QED
        BY <3>1, <4>2 DEF Kept
    <3>2. CASE v # << >>
      <4>1. Len(v) \in DOMAIN v
        BY <1>1, <3>2, LenProperties, EmptySeq
      <4>2. v[Len(v)] = w[Len(w)]
        BY <1>num, <1>con, <1>1, <4>1
      <4> QED
        BY <3>2, <4>2 DEF Kept
    <3> QED
      BY <3>1, <3>2
  <2> QED
    BY <2>1, <2>2 DEF Acked
<1> QED
  BY <1>1, <1>3, <1>4, <1>5

LEMMA AcksTaken ==
    ASSUME NEW a \in Nat, NEW w \in Seq(Nat), NEW s \in Seq(Answers), NEW last \in Nat,
           \A k \in DOMAIN s : s[k].t = "wack", Ascending(a, w, s), Acked(a, w, s, last),
           NEW b \in {a} \cup {w[i] : i \in DOMAIN w}, \A i \in DOMAIN w : w[i] <= b,
           NEW v, v = << >>
    PROVE  Ascending(b, v, s) /\ Acked(b, v, s, last)
<1>num. /\ Len(w) \in Nat /\ DOMAIN w = 1 .. Len(w) /\ (Len(w) = 0 <=> w = << >>)
        /\ Len(s) \in Nat /\ DOMAIN s = 1 .. Len(s) /\ (Len(s) = 0 <=> s = << >>)
        /\ \A i \in DOMAIN w : i \in Nat /\ w[i] \in Nat
        /\ \A k \in DOMAIN s : k \in Nat /\ s[k].n \in Nat
  BY AckNumbers
<1>con. AckEvery \in Nat \ {0} /\ Window \in Nat /\ AckEvery <= Window
  BY Constants
<1>1. b = a \/ \E i \in DOMAIN w : b = w[i]
  OBVIOUS
<1>2. b \in Nat /\ a <= b
  BY <1>num, <1>con, <1>1 DEF Ascending
<1>3. DOMAIN v = {}
  OBVIOUS
<1>4. Ascending(b, v, s)
  BY <1>1, <1>3 DEF Ascending
<1>5. /\ b <= last /\ \A i \in DOMAIN v : v[i] <= last
      /\ \A k \in DOMAIN s : s[k].n <= last
  BY <1>1, <1>3 DEF Acked
<1>6. CASE s = << >>
  <2>1. Kept(a, w) <= b /\ Kept(a, w) \in Nat
    <3>1. w # << >> => Len(w) \in DOMAIN w
      BY <1>num, <1>con
    <3> QED
      BY <1>num, <1>con, <1>2, <3>1 DEF Kept
  <2>2. last + AckEvery <= Kept(a, w) + Window
    BY <1>6 DEF Acked
  <2>3. last + AckEvery <= b + Window
    BY <1>num, <1>con, <1>2, <2>1, <2>2
  <2>4. Kept(b, v) = b
    BY DEF Kept
  <2> QED
    BY ONLY <1>4, <1>5, <1>6, <2>3, <2>4 DEF Acked
<1>7. CASE s # << >>
  <2>1. s[Len(s)].n = last
    BY <1>7 DEF Acked
  <2> QED
    BY ONLY <1>4, <1>5, <1>7, <2>1 DEF Acked
<1> QED
  BY <1>6, <1>7

-----------------------------------------------------------------------------
(* Every step keeps the flow.                                              *)

\* A channel with one more message, and without its first one, by its length.
LEMMA Longer ==
    ASSUME NEW S, NEW s \in Seq(S), NEW m, NEW t, t = Append(s, m)
    PROVE  /\ Len(s) \in Nat /\ DOMAIN s = 1 .. Len(s) /\ Len(t) = Len(s) + 1
           /\ DOMAIN t = 1 .. Len(s) + 1 /\ t[Len(s) + 1] = m
           /\ \A i \in 1 .. Len(s) : t[i] = s[i]
<1>1. s \in Seq(S \cup {m}) /\ m \in S \cup {m}
  OBVIOUS
<1>2. /\ t \in Seq(S \cup {m}) /\ Len(t) = Len(s) + 1 /\ t[Len(s) + 1] = m
      /\ \A i \in 1 .. Len(s) : t[i] = s[i]
  BY <1>1, SeqAppend
<1> QED
  BY <1>2, LenProperties

LEMMA Shorter ==
    ASSUME NEW S, NEW s \in Seq(S), s # << >>, NEW t, t = Tail(s)
    PROVE  /\ Len(s) \in Nat \ {0} /\ DOMAIN s = 1 .. Len(s) /\ Len(t) = Len(s) - 1
           /\ DOMAIN t = 1 .. Len(s) - 1 /\ Head(s) = s[1]
           /\ \A i \in 1 .. Len(s) - 1 : t[i] = s[i+1]
<1>1. /\ t \in Seq(S) /\ Len(s) \in Nat \ {0} /\ Len(t) = Len(s) - 1 /\ Head(s) = s[1]
      /\ \A i \in 1 .. Len(t) : t[i] = s[i+1]
  BY SeqHead
<1>2. DOMAIN s = 1 .. Len(s) /\ DOMAIN t = 1 .. Len(t)
  BY <1>1, LenProperties
<1> QED
  BY <1>1, <1>2

LEMMA NotLive == ASSUME ~Live' PROVE FlowInv'
BY DEF FlowInv

LEMMA NoFlow ==
    ASSUME \A i \in DOMAIN toDst' : toDst'[i].t # "file", dst'.id # src'.id \/ dst'.broken
    PROVE  FlowInv'
BY DEF FlowInv, Heading, Flowing

\* The steps that end an attempt, or find the source where it does not send.
LEMMA OtherSourceFlow ==
    ASSUME IInv, Register \/ NextFile \/ Ends \/ EndFile \/ Verdict
    PROVE  FlowInv'
<1>1. src'.pc # "sending"
  <2>1. CASE Register
    BY <2>1, IInvParts, RegisterForm DEF SrcSession
  <2>2. CASE NextFile
    BY <2>2, IInvParts, NextFileForm DEF SrcSession
  <2>3. CASE Ends
    BY <2>3, IInvParts, EndsForm DEF SrcSession
  <2>4. CASE EndFile
    BY <2>4, IInvParts, EndFileForm DEF SrcSession
  <2>5. CASE Verdict
    <3>1. \E pc \in {"next", "open"}, n \in Nat, b \in BOOLEAN :
             src' = SrcSession(pc, src.done, src.cur, src.id, n, src.offset, src.acked, b,
                               src.walk, src.completed)
      <4>1. src.attempt \in Nat /\ src.attempt + 1 \in Nat /\ src.warned \in BOOLEAN
        BY IInvParts, SrcFields, Constants
      <4> QED
        BY <2>5, <4>1, IInvParts, VerdictForm
    <3> QED
      BY <3>1 DEF SrcSession
  <2> QED
    BY <2>1, <2>2, <2>3, <2>4, <2>5
<1> QED
  BY <1>1, NotLive DEF Live

\* The header goes out with the channels empty.
LEMMA OpenFlow == ASSUME IInv, Open PROVE FlowInv'
<1>1. /\ src.pc = "open" /\ windowAck' = << >>
      /\ UNCHANGED <<srcUp, toSrc, dst>>
  BY IInvParts, OpenForm DEF SourceKeeps
<1>2. toSrc = << >> /\ Cancels(toDst) /\ dst.id = 0 /\ src.id # 0
  BY <1>1, IInvParts DEF TurnInv, AtRest, AboutInv
<1>3. CASE src'.pc = "next"
  BY <1>3, NotLive DEF Live
<1>4. CASE /\ src' = SrcSession("sending", src.done, src.cur, src.id, src.attempt, 0, 0,
                                src.warned, src.walk, src.completed)
           /\ Emit(FileMessage)
  <2>1. src'.id = src.id /\ src'.offset = 0 /\ src'.acked = 0
    BY <1>4 DEF SrcSession
  <2>2. dst'.id # src'.id
    BY <1>1, <1>2, <2>1
  <2>3. CASE ~srcUp
    <3>1. \A i \in DOMAIN toDst' : toDst'[i].t # "file"
      BY <1>2, <1>4, <2>3 DEF Emit, Cancels
    <3> QED
      BY <2>2, <3>1, NoFlow
  <2>4. CASE srcUp
    <3>1. toDst \in Seq(Commands) /\ toDst' = Append(toDst, FileMessage)
      BY <1>4, <2>4, IInvParts, DstFields DEF Emit
    <3>2. /\ Len(toDst) \in Nat /\ DOMAIN toDst = 1 .. Len(toDst) /\ Len(toDst') = Len(toDst) + 1
          /\ DOMAIN toDst' = 1 .. Len(toDst) + 1
          /\ \A i \in 1 .. Len(toDst) : toDst'[i] = toDst[i]
      BY <3>1, Longer
    <3>3. Heading'
      <4> SUFFICES ASSUME NEW i \in DOMAIN toDst', toDst'[i].t = "file"
                   PROVE  /\ srcUp' /\ src'.acked = 0 /\ windowAck' = << >> /\ toSrc' = << >>
                          /\ Len(toDst') = i + src'.offset
                          /\ \A j \in DOMAIN toDst' : i < j => toDst'[j].t = "chunk"
        BY DEF Heading
      <4>1. i = Len(toDst) + 1
        BY <1>2, <3>2 DEF Cancels
      <4> QED
        BY <1>1, <1>2, <2>1, <2>4, <3>2, <4>1
    <3> QED
      BY <2>2, <3>3 DEF FlowInv, Flowing
  <2> QED
    BY <2>3, <2>4
<1> QED
  BY <1>3, <1>4, IInvParts, OpenForm DEF SrcSession

\* A chunk is sent, and what acks are there are taken, the largest for all.
LEMMA SendChunkFlow == ASSUME IInv, FlowInv, SendChunk PROVE FlowInv'
<1>1. /\ src.pc = "sending" /\ windowAck' = << >> /\ Emit(ChunkMessage)
      /\ UNCHANGED <<srcUp, toSrc, dst, disk>>
  BY IInvParts, SendChunkForm DEF SourceKeeps
<1>2. PICK n \in {src.acked} \cup {windowAck[i] : i \in DOMAIN windowAck} :
         /\ \A i \in DOMAIN windowAck : windowAck[i] <= n
         /\ src' = [src EXCEPT !.offset = @ + 1, !.acked = n]
  BY DEF SendChunk
<1>3. /\ src'.pc = src.pc /\ src'.done = src.done /\ src'.id = src.id
      /\ src'.offset = src.offset + 1 /\ src'.acked = n
  <2>1. src \in SrcSessions
    BY IInvParts DEF Types, SrcTypes
  <2> QED
    BY <1>2, <2>1 DEF SrcSessions
<1> SUFFICES ASSUME Live PROVE FlowInv'
  BY <1>3, NotLive DEF Live
<1>4. Heading /\ Flowing
  BY DEF FlowInv
<1>5. CASE ~srcUp
  <2>1. \A i \in DOMAIN toDst : toDst[i].t # "file"
    BY <1>4, <1>5 DEF Heading
  <2>2. dst.id # src.id \/ dst.broken
    BY <1>4, <1>5 DEF Flowing
  <2>3. toDst' = toDst
    BY <1>1, <1>5 DEF Emit
  <2> QED
    BY <1>1, <1>3, <2>1, <2>2, <2>3, NoFlow
<1>6. CASE srcUp
  <2>1. toDst \in Seq(Commands) /\ toDst' = Append(toDst, ChunkMessage)
    BY <1>1, <1>6, IInvParts, DstFields DEF Emit
  <2>2. /\ Len(toDst) \in Nat /\ DOMAIN toDst = 1 .. Len(toDst) /\ Len(toDst') = Len(toDst) + 1
        /\ DOMAIN toDst' = 1 .. Len(toDst) + 1 /\ toDst'[Len(toDst) + 1].t = "chunk"
        /\ \A i \in 1 .. Len(toDst) : toDst'[i] = toDst[i]
    BY <2>1, Longer DEF ChunkMessage
  <2>3. Heading'
    <3> SUFFICES ASSUME NEW i \in DOMAIN toDst', toDst'[i].t = "file"
                 PROVE  /\ srcUp' /\ src'.acked = 0 /\ windowAck' = << >> /\ toSrc' = << >>
                        /\ Len(toDst') = i + src'.offset
                        /\ \A j \in DOMAIN toDst' : i < j => toDst'[j].t = "chunk"
      BY DEF Heading
    <3>1. i \in DOMAIN toDst /\ toDst[i].t = "file"
      BY <2>2
    <3>2. /\ srcUp /\ src.acked = 0 /\ windowAck = << >> /\ toSrc = << >>
          /\ Len(toDst) = i + src.offset
          /\ \A j \in DOMAIN toDst : i < j => toDst[j].t = "chunk"
      BY <1>4, <3>1 DEF Heading
    <3>3. n = 0
      BY <1>2, <3>2
    <3>4. src.offset \in Nat /\ i \in Nat
      BY <2>2, <3>1, IInvParts, SrcNumbers
    <3>5. Len(toDst') = i + src'.offset
      BY <1>3, <2>2, <3>2, <3>4
    <3>6. \A j \in DOMAIN toDst' : i < j => toDst'[j].t = "chunk"
      BY <2>2, <3>2
    <3> QED
      BY <1>1, <1>3, <3>2, <3>3, <3>5, <3>6
  <2>4. Flowing'
    <3> SUFFICES ASSUME dst.id = src.id, ~dst.broken
                 PROVE  /\ srcUp' /\ dst'.writing
                        /\ Len(toDst') + Written' = src'.offset
                        /\ \A i \in DOMAIN toDst' : toDst'[i].t = "chunk"
                        /\ dst'.acked <= Written' /\ Written' < dst'.acked + AckEvery
                        /\ \A i \in DOMAIN toSrc' : toSrc'[i].t = "wack"
                        /\ Ascending(src'.acked, windowAck', toSrc')
                        /\ Acked(src'.acked, windowAck', toSrc', dst'.acked)
      BY <1>1, <1>3 DEF Flowing
    <3>1. /\ dst.writing /\ Len(toDst) + Written = src.offset
          /\ \A i \in DOMAIN toDst : toDst[i].t = "chunk"
          /\ dst.acked <= Written /\ Written < dst.acked + AckEvery
          /\ \A i \in DOMAIN toSrc : toSrc[i].t = "wack"
          /\ Ascending(src.acked, windowAck, toSrc)
          /\ Acked(src.acked, windowAck, toSrc, dst.acked)
      BY <1>4 DEF Flowing
    <3>2. Written' = Written
      BY <1>1 DEF Written
    <3>3. Written \in Nat
      <4>1. dst.id # 0
        BY <1>1, IInvParts DEF AboutInv
      <4>2. dst.file \in DOMAIN disk
        BY <4>1, IInvParts DEF AboutInv
      <4> QED
        BY <4>2, IInvParts, DiskTyped DEF Written
    <3>4. Len(toDst') + Written' = src'.offset
      BY <1>3, <2>2, <3>1, <3>2, <3>3
    <3>5. \A i \in DOMAIN toDst' : toDst'[i].t = "chunk"
      BY <2>2, <3>1
    <3>6. /\ src.acked \in Nat /\ windowAck \in Seq(Nat) /\ toSrc \in Seq(Answers)
          /\ dst.acked \in Nat
      BY IInvParts, SrcFields, DstFields
    <3>7. /\ Ascending(src'.acked, windowAck', toSrc')
          /\ Acked(src'.acked, windowAck', toSrc', dst'.acked)
      <4>1. /\ Ascending(n, windowAck', toSrc)
            /\ Acked(n, windowAck', toSrc, dst.acked)
        BY <1>1, <1>2, <3>1, <3>6, AcksTaken
      <4> QED
        BY <1>1, <1>3, <4>1
    <3> QED
      BY <1>1, <1>6, <3>1, <3>2, <3>4, <3>5, <3>7
  <2> QED
    BY <2>3, <2>4 DEF FlowInv
<1> QED
  BY <1>5, <1>6

\* Where the source waits for window it takes the acks one by one.
LEMMA TakeAckFlow == ASSUME IInv, FlowInv, TakeAck PROVE FlowInv'
<1>1. /\ windowAck # << >> /\ windowAck' = Tail(windowAck)
      /\ src' = SrcSession("sending", src.done, src.cur, src.id, src.attempt, src.offset,
                     IF Head(windowAck) > src.acked THEN Head(windowAck) ELSE src.acked,
                     src.warned, src.walk, src.completed)
      /\ src.pc = "sending" /\ UNCHANGED <<srcUp, toSrc, toDst, dst, disk>>
  BY IInvParts, TakeAckForm DEF SourceKeeps
<1>2. /\ src'.pc = src.pc /\ src'.done = src.done /\ src'.id = src.id
      /\ src'.offset = src.offset
      /\ src'.acked = IF Head(windowAck) > src.acked THEN Head(windowAck) ELSE src.acked
  BY <1>1 DEF SrcSession
<1> SUFFICES ASSUME Live PROVE FlowInv'
  BY <1>2, NotLive DEF Live
<1>3. Heading /\ Flowing
  BY DEF FlowInv
<1>4. \A i \in DOMAIN toDst : toDst[i].t # "file"
  BY <1>1, <1>3 DEF Heading
<1>5. Heading'
  BY <1>1, <1>4 DEF Heading
<1>6. Flowing'
  <2> SUFFICES ASSUME dst.id = src.id, ~dst.broken
               PROVE  /\ Ascending(src'.acked, windowAck', toSrc')
                      /\ Acked(src'.acked, windowAck', toSrc', dst'.acked)
    BY <1>1, <1>2, <1>3 DEF Flowing, Written
  <2>1. /\ \A i \in DOMAIN toSrc : toSrc[i].t = "wack"
        /\ Ascending(src.acked, windowAck, toSrc)
        /\ Acked(src.acked, windowAck, toSrc, dst.acked)
    BY <1>3 DEF Flowing
  <2>2. /\ src.acked \in Nat /\ windowAck \in Seq(Nat) /\ toSrc \in Seq(Answers)
        /\ dst.acked \in Nat /\ Head(windowAck) \in Nat
    BY <1>1, IInvParts, SrcFields, DstFields, SeqHead
  <2>3. /\ src.acked <= Head(windowAck)
        /\ Ascending(Head(windowAck), windowAck', toSrc)
        /\ Acked(Head(windowAck), windowAck', toSrc, dst.acked)
    BY <1>1, <2>1, <2>2, AckTaken
  <2>4. src'.acked = Head(windowAck)
    BY <1>2, <2>2, <2>3
  <2> QED
    BY <1>1, <2>3, <2>4
<1> QED
  BY <1>5, <1>6 DEF FlowInv

\* An ack arrives at the source, and stays for it or is lost.
LEMMA WindowMsgFlow == ASSUME IInv, FlowInv, TakeWindowMsg PROVE FlowInv'
<1>1. /\ toSrc # << >> /\ toSrc' = Tail(toSrc)
      /\ windowAck' = IF srcUp /\ Registered /\ Len(windowAck) < AckSlots
                      THEN Append(windowAck, Head(toSrc).n) ELSE windowAck
      /\ UNCHANGED <<srcUp, src, toDst, dst, disk>>
  BY DEF TakeWindowMsg, dstVars
<1> SUFFICES ASSUME Live PROVE FlowInv'
  BY <1>1, NotLive DEF Live
<1>2. Heading /\ Flowing
  BY DEF FlowInv
<1>3. \A i \in DOMAIN toDst : toDst[i].t # "file"
  BY <1>1, <1>2 DEF Heading
<1>4. Heading'
  BY <1>1, <1>3 DEF Heading
<1>5. Flowing'
  <2> SUFFICES ASSUME dst.id = src.id, ~dst.broken
               PROVE  /\ \A i \in DOMAIN toSrc' : toSrc'[i].t = "wack"
                      /\ Ascending(src.acked, windowAck', toSrc')
                      /\ Acked(src.acked, windowAck', toSrc', dst.acked)
    BY <1>1, <1>2 DEF Flowing, Written
  <2>1. /\ srcUp /\ dst.writing /\ dst.acked <= Written
        /\ \A i \in DOMAIN toSrc : toSrc[i].t = "wack"
        /\ Ascending(src.acked, windowAck, toSrc)
        /\ Acked(src.acked, windowAck, toSrc, dst.acked)
    BY <1>2 DEF Flowing
  <2>2. /\ src.acked \in Nat /\ windowAck \in Seq(Nat) /\ toSrc \in Seq(Answers)
        /\ dst.acked \in Nat
    BY IInvParts, SrcFields, DstFields
  <2>3. Registered
    BY DEF Live, Registered, Ended
  <2>4. CASE Len(windowAck) < AckSlots
    <3>1. windowAck' = Append(windowAck, Head(toSrc).n)
      BY <1>1, <2>1, <2>3, <2>4
    <3>2. toSrc # << >> /\ toSrc' = Tail(toSrc)
      BY <1>1
    <3>3. /\ \A i \in DOMAIN Tail(toSrc) : Tail(toSrc)[i].t = "wack"
          /\ Ascending(src.acked, Append(windowAck, Head(toSrc).n), Tail(toSrc))
          /\ Acked(src.acked, Append(windowAck, Head(toSrc).n), Tail(toSrc), dst.acked)
      BY ONLY <2>1, <2>2, <3>2, AckKept
    <3> QED
      BY ONLY <3>1, <3>2, <3>3
  <2>5. CASE ~(Len(windowAck) < AckSlots)
    <3>1. windowAck' = windowAck
      BY <1>1, <2>5
    <3>2. windowAck # << >>
      BY <2>2, <2>5, Constants, EmptySeq
    <3>3. dst.acked <= src.acked + Window
      <4>1. /\ src.offset - src.acked <= Window /\ Written <= src.offset
        BY <2>1, IInvParts DEF WindowInv
      <4>2. Written \in Nat
        <5>1. dst.file \in DOMAIN disk
          BY <2>1, IInvParts DEF AboutInv
        <5> QED
          BY <5>1, IInvParts, DiskTyped DEF Written
      <4> QED
        BY <2>1, <2>2, <4>1, <4>2, IInvParts, SrcNumbers
    <3> QED
      BY <1>1, <2>1, <2>2, <3>1, <3>2, <3>3, AckLost
  <2> QED
    BY <2>4, <2>5
<1> QED
  BY <1>4, <1>5 DEF FlowInv

\* No message of another kind is on its way to the source while it sends.
LEMMA OtherRelayFlow == ASSUME IInv, Start \/ TakeVerdictMsg PROVE FlowInv'
<1> SUFFICES ASSUME Live' PROVE FALSE
  BY NotLive
<1>1. toSrc # << >> /\ Head(toSrc).t \in {"ready", "fack"}
  BY DEF Start, TakeVerdictMsg
<1>2. 1 \in DOMAIN toSrc /\ Head(toSrc) = toSrc[1]
  BY <1>1, IInvParts, DstFields, Shorter
<1>3. src' = src \/ src'.pc = "starting"
  BY DEF Start, TakeVerdictMsg, Idle, srcVars
<1>4. src.pc = "sending"
  BY <1>3 DEF Live
<1>5. toSrc[1].t # "ready" /\ toSrc[1].t # "fack"
  BY <1>2, <1>4, IInvParts DEF ChannelInv, TurnInv, Ended
<1> QED
  BY <1>1, <1>2, <1>5

\* The destination is told to stop.
LEMMA DstCancelFlow == ASSUME IInv, FlowInv, DstCancel PROVE FlowInv'
<1>1. /\ Receives("cancel") /\ dst'.id = 0
      /\ UNCHANGED <<src, windowAck, srcUp, toSrc>>
  BY DEF DstCancel, Closed, DstFrame, srcVars
<1> SUFFICES ASSUME Live PROVE FlowInv'
  BY <1>1, NotLive DEF Live
<1>2. src.id # 0
  BY IInvParts DEF AboutInv, Live
<1>3. Heading
  BY DEF FlowInv
<1>4. /\ Len(toDst) \in Nat \ {0} /\ DOMAIN toDst = 1 .. Len(toDst)
      /\ Len(toDst') = Len(toDst) - 1 /\ DOMAIN toDst' = 1 .. Len(toDst) - 1
      /\ \A i \in 1 .. Len(toDst) - 1 : toDst'[i] = toDst[i+1]
  BY <1>1, IInvParts, DstFields, Shorter DEF Receives
<1>5. Heading'
  <2> SUFFICES ASSUME NEW i \in DOMAIN toDst', toDst'[i].t = "file"
               PROVE  /\ srcUp' /\ src'.acked = 0 /\ windowAck' = << >> /\ toSrc' = << >>
                      /\ Len(toDst') = i + src'.offset
                      /\ \A j \in DOMAIN toDst' : i < j => toDst'[j].t = "chunk"
    BY DEF Heading
  <2>1. i + 1 \in DOMAIN toDst /\ toDst[i+1].t = "file" /\ i \in Nat
    BY <1>4
  <2>2. /\ srcUp /\ src.acked = 0 /\ windowAck = << >> /\ toSrc = << >>
        /\ Len(toDst) = i + 1 + src.offset
        /\ \A j \in DOMAIN toDst : i + 1 < j => toDst[j].t = "chunk"
    BY <1>3, <2>1 DEF Heading
  <2>3. Len(toDst') = i + src.offset
    <3>1. src.offset \in Nat
      BY IInvParts, SrcNumbers
    <3>2. Len(toDst) = i + 1 + src.offset /\ Len(toDst') = Len(toDst) - 1 /\ i \in Nat
      BY ONLY <1>4, <2>1, <2>2
    <3> QED
      BY ONLY <3>1, <3>2
  <2>4. ASSUME NEW j \in DOMAIN toDst', i < j
        PROVE  toDst'[j].t = "chunk"
    BY <1>4, <2>1, <2>2, <2>4
  <2> QED
    BY <1>1, <2>2, <2>3, <2>4
<1> QED
  BY <1>1, <1>2, <1>5 DEF FlowInv, Flowing

\* The header arrives: the file is empty, and all its chunks are behind.
LEMMA DstFileFlow == ASSUME IInv, FlowInv, DstFile PROVE FlowInv'
<1>1. /\ Receives("file")
      /\ \/ dst' = dst /\ disk' = disk
         \/ /\ disk' = Truncated(Head(toDst).f)
            /\ dst' = DstSession(TRUE, Head(toDst).id, Head(toDst).f, Head(toDst).sum,
                         Head(toDst).mtime, TRUE, 0, FALSE, dst.fresh \cup {Head(toDst).f})
         \/ dst' = DstSession(dst.open, dst.id, dst.file, dst.sum, dst.mtime, FALSE,
                         dst.acked, TRUE, dst.fresh)
      /\ UNCHANGED <<src, windowAck, srcUp, toSrc>>
  BY IInvParts, DstFileForm DEF DestinationKeeps
<1> SUFFICES ASSUME Live PROVE FlowInv'
  BY <1>1, NotLive DEF Live
<1>2. /\ Len(toDst) \in Nat \ {0} /\ DOMAIN toDst = 1 .. Len(toDst)
      /\ Len(toDst') = Len(toDst) - 1 /\ DOMAIN toDst' = 1 .. Len(toDst) - 1
      /\ \A i \in 1 .. Len(toDst) - 1 : toDst'[i] = toDst[i+1]
      /\ toDst[1].t = "file"
  BY <1>1, IInvParts, DstFields, Shorter DEF Receives
<1>3. /\ srcUp /\ src.acked = 0 /\ windowAck = << >> /\ toSrc = << >>
      /\ Len(toDst) = 1 + src.offset
      /\ \A j \in DOMAIN toDst : 1 < j => toDst[j].t = "chunk"
  BY <1>2 DEF FlowInv, Heading
<1>4. ASSUME NEW i \in DOMAIN toDst'
      PROVE  toDst'[i].t = "chunk"
  <2>1. i + 1 \in DOMAIN toDst /\ 1 < i + 1 /\ toDst'[i] = toDst[i+1]
    BY <1>2
  <2> QED
    BY <1>3, <2>1
<1>5. Heading'
  BY <1>4 DEF Heading
<1>6. dst.id = 0 /\ src.id # 0
  BY <1>2, IInvParts DEF AboutInv, Live
<1>7. CASE dst' = dst
  BY <1>1, <1>5, <1>6, <1>7 DEF FlowInv, Flowing
<1>8. CASE dst' = DstSession(dst.open, dst.id, dst.file, dst.sum, dst.mtime, FALSE,
                             dst.acked, TRUE, dst.fresh)
  BY <1>5, <1>8 DEF FlowInv, Flowing, DstSession
<1>9. CASE /\ disk' = Truncated(Head(toDst).f)
           /\ dst' = DstSession(TRUE, Head(toDst).id, Head(toDst).f, Head(toDst).sum,
                        Head(toDst).mtime, TRUE, 0, FALSE, dst.fresh \cup {Head(toDst).f})
  <2>1. dst'.writing /\ dst'.acked = 0 /\ dst'.file = Head(toDst).f
    BY <1>9 DEF DstSession
  <2>2. Written' = 0
    <3>1. Head(toDst).f \in Files
      BY <1>1, IInvParts, HeadTyped
    <3>2. disk'[dst'.file].data = << >>
      BY <1>9, <2>1, <3>1, IInvParts, TruncatedDisk
    <3> QED
      BY <3>2 DEF Written
  <2>3. /\ src'.offset \in Nat /\ Len(toDst') + Written' = src'.offset
    BY <1>1, <1>2, <1>3, <2>2, IInvParts, SrcNumbers
  <2>4. AckEvery \in Nat \ {0} /\ Window \in Nat /\ AckEvery <= Window
    BY Constants
  <2>5. dst'.acked <= Written' /\ Written' < dst'.acked + AckEvery
    BY <2>1, <2>2, <2>4
  <2>6. \A i \in DOMAIN toSrc' : toSrc'[i].t = "wack"
    BY <1>1, <1>3
  <2>7. Ascending(0, << >>, << >>)
    BY DEF Ascending
  <2>8. Acked(0, << >>, << >>, 0)
    BY <2>4 DEF Acked, Kept
  <2> QED
    BY <1>1, <1>3, <1>4, <1>5, <2>1, <2>3, <2>5, <2>6, <2>7, <2>8 DEF FlowInv, Flowing
<1> QED
  BY <1>1, <1>7, <1>8, <1>9

\* A chunk arrives, is written and acked, or breaks the file.
LEMMA DstChunkFlow == ASSUME IInv, FlowInv, DstChunk PROVE FlowInv'
<1>1. Receives("chunk") /\ UNCHANGED <<src, windowAck, srcUp>>
  BY IInvParts, DstChunkForm DEF DestinationKeeps
<1> SUFFICES ASSUME Live PROVE FlowInv'
  BY <1>1, NotLive DEF Live
<1>2. /\ Len(toDst) \in Nat \ {0} /\ DOMAIN toDst = 1 .. Len(toDst)
      /\ Len(toDst') = Len(toDst) - 1 /\ DOMAIN toDst' = 1 .. Len(toDst) - 1
      /\ \A i \in 1 .. Len(toDst) - 1 : toDst'[i] = toDst[i+1]
      /\ toDst[1].t = "chunk" /\ Head(toDst) = toDst[1]
  BY <1>1, IInvParts, DstFields, Shorter DEF Receives
<1>3. ASSUME NEW i \in DOMAIN toDst'
      PROVE  toDst'[i].t # "file"
  <2>1. 1 \in DOMAIN toDst /\ i + 1 \in DOMAIN toDst /\ 1 < i + 1 /\ toDst'[i] = toDst[i+1]
    BY <1>2
  <2> QED
    BY <1>2, <2>1, IInvParts DEF ChannelInv
<1> SUFFICES ASSUME dst'.id = src.id, ~dst'.broken
             PROVE  Flowing'
  BY <1>1, <1>3 DEF FlowInv, Heading, Flowing
<1>4. dst \in DstSessions /\ dst.broken \in BOOLEAN
  BY IInvParts DEF Types, DstTypes, DstSessions
<1>5. dst.id = src.id /\ ~dst.broken
  BY <1>4 DEF DstChunk, DstSessions
<1>6. /\ srcUp /\ dst.writing
      /\ Len(toDst) + Written = src.offset /\ \A i \in DOMAIN toDst : toDst[i].t = "chunk"
      /\ dst.acked <= Written /\ Written < dst.acked + AckEvery
      /\ \A i \in DOMAIN toSrc : toSrc[i].t = "wack"
      /\ Ascending(src.acked, windowAck, toSrc)
      /\ Acked(src.acked, windowAck, toSrc, dst.acked)
  BY <1>5 DEF FlowInv, Flowing
<1>7. dst.open /\ dst.file \in DOMAIN disk /\ Written \in Nat
  <2>1. dst.open /\ dst.file \in DOMAIN disk
    BY <1>6, IInvParts DEF AboutInv
  <2> QED
    BY <2>1, IInvParts, DiskTyped DEF Written
<1>8. Head(toDst).id = dst.id /\ Head(toDst).data \in Chunks
  <2>1. Head(toDst).id = src.id
    BY <1>2, IInvParts DEF AboutInv, Own
  <2> QED
    BY <1>1, <1>5, <2>1, IInvParts, HeadTyped
<1>9. /\ disk' = [disk EXCEPT ![dst.file].data = Append(@, Head(toDst).data)]
      /\ IF Written + 1 - dst.acked >= AckEvery
         THEN /\ dst' = [dst EXCEPT !.acked = Written + 1]
              /\ Answer([t |-> "wack", n |-> Written + 1])
         ELSE UNCHANGED <<dst, toSrc>>
  <2>1. dst' # [dst EXCEPT !.broken = TRUE]
    BY <1>4 DEF DstSessions
  <2> QED
    BY <1>5, <1>6, <1>7, <1>8, <2>1 DEF DstChunk
<1>10. dst'.file = dst.file /\ dst'.writing
  BY <1>4, <1>6, <1>9 DEF DstSessions
<1>11. Written' = Written + 1
  <2>1. disk'[dst.file].data = Append(disk[dst.file].data, Head(toDst).data)
    BY <1>7, <1>8, <1>9, IInvParts, AppendedDisk
  <2>2. disk[dst.file].data \in Seq(Chunks)
    BY <1>7, IInvParts, DiskTyped
  <2>3. Len(disk'[dst.file].data) = Len(disk[dst.file].data) + 1
    BY <1>8, <2>1, <2>2, SeqAppend
  <2> QED
    BY <1>10, <2>3 DEF Written
<1>12. Len(toDst') + Written' = src'.offset
  <2>1. src'.offset = src.offset /\ src.offset \in Nat
    BY <1>1, IInvParts, SrcNumbers
  <2> QED
    BY <1>2, <1>6, <1>7, <1>11, <2>1
<1>13. \A i \in DOMAIN toDst' : toDst'[i].t = "chunk"
  <2> SUFFICES ASSUME NEW i \in DOMAIN toDst' PROVE toDst'[i].t = "chunk"
    OBVIOUS
  <2>1. i + 1 \in DOMAIN toDst /\ toDst'[i] = toDst[i+1]
    BY <1>2
  <2> QED
    BY <1>6, <2>1
<1>14. /\ src.acked \in Nat /\ windowAck \in Seq(Nat) /\ toSrc \in Seq(Answers)
       /\ dst.acked \in Nat /\ AckEvery \in Nat \ {0}
  BY IInvParts, SrcFields, DstFields, Constants
<1>15. /\ dst'.acked <= Written' /\ Written' < dst'.acked + AckEvery
       /\ \A i \in DOMAIN toSrc' : toSrc'[i].t = "wack"
       /\ Ascending(src.acked, windowAck, toSrc')
       /\ Acked(src.acked, windowAck, toSrc', dst'.acked)
  <2>1. CASE Written + 1 - dst.acked >= AckEvery
    <3>1. dst'.acked = Written + 1
      BY <1>4, <1>9, <2>1 DEF DstSessions
    <3>2. Written + 1 \in Nat /\ dst.acked + AckEvery <= Written + 1
      BY <1>7, <1>14, <2>1
    <3>3. PICK n \in Nat : n = Written + 1
      BY <3>2
    <3>4. PICK m \in Answers : m.t = "wack" /\ m.n = n /\ toSrc' = Append(toSrc, m)
      <4>1. [t |-> "wack", n |-> n] \in Answers
        BY DEF Answers
      <4> QED
        BY <1>9, <2>1, <3>3, <4>1 DEF Answer
    <3>5. n \in Nat /\ dst.acked + AckEvery <= n
      BY <3>2, <3>3
    <3>6. /\ \A i \in DOMAIN toSrc' : toSrc'[i].t = "wack"
          /\ Ascending(src.acked, windowAck, toSrc')
          /\ Acked(src.acked, windowAck, toSrc', n)
      <4>1. /\ src.acked \in Nat /\ windowAck \in Seq(Nat) /\ toSrc \in Seq(Answers)
            /\ dst.acked \in Nat /\ n \in Nat /\ m \in Answers
        BY <1>14
      <4>2. /\ \A k \in DOMAIN toSrc : toSrc[k].t = "wack"
            /\ Ascending(src.acked, windowAck, toSrc)
            /\ Acked(src.acked, windowAck, toSrc, dst.acked)
            /\ m.t = "wack" /\ dst.acked + AckEvery <= m.n
        BY <1>6, <3>4, <3>5
      <4>3. /\ \A k \in DOMAIN Append(toSrc, m) : Append(toSrc, m)[k].t = "wack"
            /\ Ascending(src.acked, windowAck, Append(toSrc, m))
            /\ Acked(src.acked, windowAck, Append(toSrc, m), m.n)
        BY ONLY <4>1, <4>2, AckSent
      <4> QED
        BY ONLY <3>4, <4>3
    <3> QED
      BY <1>7, <1>11, <1>14, <3>1, <3>3, <3>6
  <2>2. CASE ~(Written + 1 - dst.acked >= AckEvery)
    <3>1. dst' = dst /\ toSrc' = toSrc
      BY <1>9, <2>2
    <3>2. dst.acked <= Written + 1 /\ Written + 1 < dst.acked + AckEvery
      BY <1>6, <1>7, <1>14, <2>2
    <3> QED
      BY <1>6, <1>11, <3>1, <3>2
  <2> QED
    BY <2>1, <2>2
<1> QED
  BY <1>1, <1>6, <1>10, <1>12, <1>13, <1>15 DEF Flowing

\* Neither a prepare nor the end of a file is on its way while the source sends.
LEMMA OtherDestinationFlow == ASSUME IInv, DstPrepare \/ DstFileDone PROVE FlowInv'
<1> SUFFICES ASSUME Live' PROVE FALSE
  BY NotLive
<1>1. /\ toDst # << >> /\ Head(toDst).t \in {"prepare", "done"}
      /\ src' = src
  BY DEF DstPrepare, DstFileDone, Receives, DstFrame, srcVars
<1>2. 1 \in DOMAIN toDst /\ Head(toDst) = toDst[1]
  BY <1>1, IInvParts, DstFields, Shorter
<1>3. src.pc = "sending"
  BY <1>1 DEF Live
<1>4. toDst[1].t # "prepare" /\ toDst[1].t # "done"
  BY <1>2, <1>3, IInvParts DEF ChannelInv, TurnInv, Ended
<1> QED
  BY <1>1, <1>2, <1>4

\* The backend, and the connections.
LEMMA BackendFlow ==
    ASSUME IInv, FlowInv, Prepare \/ Cancel \/ Reconnect
    PROVE  FlowInv'
<1>1. CASE Prepare
  BY <1>1, NotLive DEF Prepare, Live, Ended, srcVars
<1>2. ASSUME FlowInv, Live, ~srcUp
      PROVE  /\ \A i \in DOMAIN toDst : toDst[i].t # "file"
             /\ dst.id # src.id \/ dst.broken
  BY <1>2 DEF FlowInv, Heading, Flowing
<1>3. CASE Cancel
  <2>1. UNCHANGED dst /\ toDst' = Append(toDst, [t |-> "cancel"])
    BY <1>3 DEF Cancel, dstVars
  <2>2. CASE Registered /\ srcUp
    <3>1. src' = [src EXCEPT !.done = TRUE] /\ src \in SrcSessions
      BY <1>3, <2>2, IInvParts DEF Cancel, Types, SrcTypes
    <3> QED
      BY <3>1, NotLive DEF Live, SrcSessions
  <2>3. CASE ~(Registered /\ srcUp)
    <3>1. src' = src
      BY <1>3, <2>3 DEF Cancel
    <3> SUFFICES ASSUME Live PROVE FlowInv'
      BY <3>1, NotLive DEF Live
    <3>2. ~srcUp
      BY <2>3 DEF Live, Registered, Ended
    <3>3. toDst \in Seq(Commands)
      BY IInvParts, DstFields
    <3>4. /\ Len(toDst) \in Nat /\ DOMAIN toDst = 1 .. Len(toDst)
          /\ DOMAIN toDst' = 1 .. Len(toDst) + 1 /\ toDst'[Len(toDst) + 1].t = "cancel"
          /\ \A i \in 1 .. Len(toDst) : toDst'[i] = toDst[i]
      BY <2>1, <3>3, Longer
    <3>5. \A i \in DOMAIN toDst' : toDst'[i].t # "file"
      BY <1>2, <3>2, <3>4
    <3> QED
      BY <1>2, <2>1, <3>1, <3>2, <3>5, NoFlow
  <2> QED
    BY <2>2, <2>3
<1>4. CASE Reconnect
  <2>1. ~srcUp /\ UNCHANGED <<src, toDst, dst>>
    BY <1>4 DEF Reconnect, srcVars, dstVars
  <2> SUFFICES ASSUME Live PROVE FlowInv'
    BY <2>1, NotLive DEF Live
  <2> QED
    BY <1>2, <2>1, NoFlow
<1> QED
  BY <1>1, <1>3, <1>4

LEMMA LossFlow ==
    ASSUME IInv, LoseSrc \/ CrashSrc \/ LoseDst \/ PowerLoss
    PROVE  FlowInv'
<1>1. CASE LoseSrc \/ CrashSrc
  <2>1. \/ Registered /\ LoseForm(src.pc, TRUE)
        \/ ~Registered /\ LoseForm(src.pc, src.done)
        \/ LoseForm("end", src.done)
    BY <1>1, IInvParts, SrcLostForm
  <2>2. ~Live'
    BY <2>1 DEF LoseForm, SrcSession, Live, Registered, Ended
  <2> QED
    BY <2>2, NotLive
<1>2. CASE LoseDst \/ PowerLoss
  <2>1. src' = src /\ toDst' = << >> /\ dst'.id = 0
    BY <1>2 DEF LoseDst, PowerLoss, DstLost, Closed, srcVars
  <2> SUFFICES ASSUME Live PROVE FlowInv'
    BY <2>1, NotLive DEF Live
  <2>2. src.id # 0
    BY IInvParts DEF AboutInv, Live
  <2> QED
    BY <2>1, <2>2, NoFlow
<1> QED
  BY <1>1, <1>2

\* What the rest leaves as it is.
LEMMA SameFlow ==
    ASSUME FlowInv, UNCHANGED <<src, windowAck, srcUp, toDst, toSrc, dst, disk>>
    PROVE  FlowInv'
BY DEF FlowInv, Live, Heading, Flowing, Written

LEMMA NextFlow ==
    ASSUME IInv, FlowInv, [Next]_vars
    PROVE  FlowInv'
<1>1. CASE UNCHANGED vars \/ \E f \in Files : Edit(f) \/ Unlink(f)
  BY <1>1, SameFlow DEF vars, Edit, Unlink, srcVars, dstVars
<1>2. CASE Source
  <2>1. Register \/ NextFile \/ Ends \/ Open \/ SendChunk \/ TakeAck \/ EndFile \/ Verdict
    BY <1>2 DEF Source, Ends
  <2> QED
    BY <2>1, OtherSourceFlow, OpenFlow, SendChunkFlow, TakeAckFlow
<1>3. CASE Destination
  BY <1>3, OtherDestinationFlow, DstCancelFlow, DstFileFlow, DstChunkFlow DEF Destination
<1>4. CASE Relay
  BY <1>4, OtherRelayFlow, WindowMsgFlow DEF Relay
<1>5. CASE Prepare \/ Cancel \/ Reconnect
  BY <1>5, BackendFlow
<1>6. CASE LoseSrc \/ CrashSrc \/ LoseDst \/ PowerLoss
  BY <1>6, LossFlow
<1> QED
  BY <1>1, <1>2, <1>3, <1>4, <1>5, <1>6 DEF Next

LEMMA FlowInvariance == Spec => [](IInv /\ FlowInv)
<1>1. Init => FlowInv
  BY DEF Init, Idle, FlowInv, Live
<1>2. IInv /\ FlowInv /\ [Next]_vars => IInv' /\ FlowInv'
  BY NextIInv, NextFlow
<1> QED
  BY <1>1, <1>2, InitIInv, PTL DEF Spec

\* With nothing on its way the destination has written all that was sent, and acked it but
\* for less than AckEvery.
LEMMA ImpliesNoStall == IInv /\ FlowInv => NoStall
<1> SUFFICES ASSUME IInv, FlowInv, src.pc = "sending", Blocked, Quiet,
                    srcUp, ~src.done, dst.open, ~dst.broken, dst.id = src.id
             PROVE  FALSE
  BY DEF NoStall
<1>1. /\ Len(toDst) + Written = src.offset /\ dst.acked <= Written
      /\ Written < dst.acked + AckEvery /\ dst.writing
      /\ Acked(src.acked, windowAck, toSrc, dst.acked)
  BY DEF FlowInv, Flowing, Live
<1>2. toDst = << >> /\ toSrc = << >> /\ windowAck = << >>
  BY DEF Quiet
<1>3. dst.acked + AckEvery <= src.acked + Window
  BY <1>1, <1>2 DEF Acked, Kept
<1>4. Written \in Nat
  <2>1. dst.file \in DOMAIN disk
    BY <1>1, IInvParts DEF AboutInv
  <2> QED
    BY <2>1, IInvParts, DiskTyped DEF Written
<1>5. Written = src.offset
  <2>1. Len(toDst) = 0
    BY <1>2
  <2> QED
    BY <1>1, <1>4, <2>1
<1>6. src.offset - src.acked >= Window
  BY DEF Blocked
<1>7. /\ src.offset \in Nat /\ src.acked \in Nat /\ dst.acked \in Nat
      /\ Window \in Nat /\ AckEvery \in Nat
  BY IInvParts, SrcNumbers, DstFields, Constants
<1>8. dst.acked <= src.offset /\ src.offset < dst.acked + AckEvery
  BY <1>1, <1>5
<1> QED
  BY ONLY <1>3, <1>6, <1>7, <1>8

-----------------------------------------------------------------------------
(* The theorems.                                                           *)

\* The state has its types, and the acks kept for the source stay within the capacity of
\* their channels (srcSession.fileAck and windowAck).
THEOREM TypeCorrect == Spec => []TypeOK
BY Invariance, ImpliesTypeOK, PTL

\* What the destination offers to skip, from its manifest or by its scan, it has, after any
\* number of losses, crashes, edits and resumed runs (migration.go:257).
THEOREM ResumeIsSafe == Spec => []ResumeSafe
BY Invariance, ImpliesResumeSafe, PTL

\* A migration that reports completion without a warning has copied every file it listed
\* (migration.go:278).
THEOREM CompletionIsCopy == Spec => []DoneMeansCopied
BY Invariance, ImpliesDoneMeansCopied, PTL

\* The verdict the source takes is about the file and the attempt it is at, though
\* srcFileAck matches it with neither (migration.go:423).
THEOREM VerdictIsAboutFile == Spec => []OkMeansVerified
BY Invariance, ImpliesOkMeansVerified, PTL

\* Never more chunks than the window allows are on their way, for any window of at least
\* windowAckEvery (streamChunks).
THEOREM WindowIsKept == Spec => []WindowHolds
BY Invariance, ImpliesWindowHolds, PTL

\* The flow control does not stall by itself, for any window of at least windowAckEvery and
\* any capacity of windowAck: an ack that finds the channel full is dropped (srcWindowAck),
\* but the acks that fill it free more of the window than is then lost (streamChunks).
THEOREM FlowNeverStalls == Spec => []NoStall
BY FlowInvariance, ImpliesNoStall, PTL

-----------------------------------------------------------------------------
(* The power.                                                              *)

\* A file with an mtime has its data, as long as the power does not fail.
Untorn == \A f \in DOMAIN disk : disk[f].mtime # 0 /\ disk[f].data = << >> => FileChunks = 0

LEMMA NextUntorn ==
    ASSUME "power" \notin FaultKinds, IInv, Untorn, [Next]_vars
    PROVE  Untorn'
<1>types. /\ DOMAIN disk \subseteq Files
          /\ \A f \in DOMAIN disk : disk[f] = [data |-> disk[f].data, mtime |-> disk[f].mtime]
          /\ \A f \in DOMAIN disk : disk[f].data \in Seq(Chunks)
          /\ disk \in [DOMAIN disk -> DstFiles]
  BY IInvParts DEF Types, DstTypes, DstFiles
<1>same. ASSUME UNCHANGED disk PROVE Untorn'
  BY <1>same DEF Untorn
<1>1. CASE DstFile
  <2>1. UNCHANGED disk \/ disk' = Truncated(Head(toDst).f)
    BY <1>1 DEF DstFile
  <2>2. ASSUME disk' = Truncated(Head(toDst).f) PROVE Untorn'
    <3> DEFINE h == Head(toDst).f
    <3>1. DOMAIN disk' = DOMAIN disk \cup {h}
      BY <2>2 DEF Truncated
    <3>2. \A f \in DOMAIN disk' : IF f = h THEN disk'[f].mtime = 0 ELSE disk'[f] = disk[f]
      BY <2>2 DEF Truncated
    <3> HIDE DEF h
    <3> QED
      BY <3>1, <3>2 DEF Untorn
  <2> QED
    BY <2>1, <2>2, <1>same
<1>2. CASE DstChunk
  <2>1. UNCHANGED disk \/ disk' = [disk EXCEPT ![dst.file].data = Append(@, Head(toDst).data)]
    BY <1>2 DEF DstChunk
  <2>2. ASSUME disk' = [disk EXCEPT ![dst.file].data = Append(@, Head(toDst).data)]
        PROVE  Untorn'
    <3>1. DOMAIN disk' = DOMAIN disk
      BY <2>2
    <3>2. ASSUME NEW f \in DOMAIN disk' PROVE disk'[f].mtime = disk[f].mtime
                                              /\ (disk'[f].data = << >> => disk[f].data = << >>)
      <4>1. CASE f = dst.file
        <5>1. disk'[f] = [disk[f] EXCEPT !.data = Append(disk[f].data, Head(toDst).data)]
          BY <2>2, <3>1, <3>2, <4>1
        <5>2. disk'[f].mtime = disk[f].mtime
              /\ disk'[f].data = Append(disk[f].data, Head(toDst).data)
          BY <1>types, <3>1, <5>1
        <5>3. Len(Append(disk[f].data, Head(toDst).data)) = Len(disk[f].data) + 1
              /\ Len(disk[f].data) \in Nat
          BY <1>types, <3>1
        <5>4. Append(disk[f].data, Head(toDst).data) # << >>
          <6>1. PICK x : x = Append(disk[f].data, Head(toDst).data)
            OBVIOUS
          <6>2. Len(x) # 0
            BY ONLY <5>3, <6>1
          <6>3. x = << >> => Len(x) = 0
            OBVIOUS
          <6> QED
            BY ONLY <6>1, <6>2, <6>3
        <5> QED
          BY <5>2, <5>4
      <4>2. CASE f # dst.file
        BY <2>2, <3>1, <4>2
      <4> QED
        BY <4>1, <4>2
    <3> QED
      BY <3>1, <3>2 DEF Untorn
  <2> QED
    BY <2>1, <2>2, <1>same
<1>3. CASE DstFileDone
  <2>1. CASE UNCHANGED disk
    BY <1>same, <2>1
  <2>2. CASE /\ disk[dst.file].data = Content(dst.file, dst.sum)
             /\ disk' = [disk EXCEPT ![dst.file].mtime = dst.mtime]
    <3>1. DOMAIN disk' = DOMAIN disk
          /\ \A f \in DOMAIN disk \ {dst.file} : disk'[f] = disk[f]
      BY <2>2
    <3>2. ASSUME dst.file \in DOMAIN disk, disk'[dst.file].data = << >> PROVE FileChunks = 0
      <4>1. disk'[dst.file] = [disk[dst.file] EXCEPT !.mtime = dst.mtime]
        BY <2>2, <3>2
      <4>2. disk'[dst.file].data = disk[dst.file].data
        BY <1>types, <3>2, <4>1
      <4>3. Content(dst.file, dst.sum) = << >>
        BY <2>2, <3>2, <4>2
      <4>4. Len(Content(dst.file, dst.sum)) = FileChunks
        BY Constants DEF Content
      <4> QED
        BY <4>3, <4>4
    <3> QED
      BY <3>1, <3>2 DEF Untorn
  <2>3. CASE disk' = [f \in DOMAIN disk \ {dst.file} |-> disk[f]]
    BY <2>3 DEF Untorn
  <2> QED
    BY <1>3, <2>1, <2>2, <2>3 DEF DstFileDone, Verified, dstVars
<1>4. CASE PowerLoss
  BY <1>4 DEF PowerLoss, Fault
<1>5. CASE Source
  <2>1. CASE Register \/ NextFile \/ Stop \/ Finish \/ Open \/ SendChunk
    BY <2>1, <1>same DEF SrcFrame, dstVars, Register, NextFile, Stop, Finish, Open, SendChunk
  <2>2. CASE TakeAck \/ EndFile \/ Verdict \/ Abort \/ Timeout \/ ReadError
    BY <2>2, <1>same DEF SrcFrame, dstVars, TakeAck, EndFile, Verdict, Abort, Timeout, ReadError
  <2> QED
    BY <1>5, <2>1, <2>2 DEF Source
<1>6. CASE Relay \/ Prepare \/ Cancel \/ Reconnect \/ DstPrepare \/ DstCancel
  BY <1>6, <1>same DEF Relay, Start, TakeVerdictMsg, TakeWindowMsg, Prepare, Cancel, Reconnect,
     DstPrepare, DstCancel, dstVars
<1>7. CASE LoseSrc \/ CrashSrc \/ LoseDst
  BY <1>7, <1>same DEF LoseSrc, CrashSrc, SrcLost, LoseDst, dstVars
<1>8. ASSUME NEW f \in Files, Edit(f) \/ Unlink(f) PROVE Untorn'
  BY <1>8, <1>same DEF Edit, Unlink, dstVars
<1>9. CASE UNCHANGED vars
  BY <1>9, <1>same DEF vars, dstVars
<1> QED
  BY <1>1, <1>2, <1>3, <1>4, <1>5, <1>6, <1>7, <1>8, <1>9 DEF Next, Destination

LEMMA ImpliesCrashResistant == IInv /\ Untorn => CrashResistant
<1> SUFFICES ASSUME IInv, Untorn, NEW f \in Files, manifest[f] = version[f]
             PROVE  f \in DOMAIN disk /\ disk[f].data = Content(f, version[f])
  BY DEF CrashResistant
<1>1. version[f] \in Nat \ {0} /\ \A u \in Versions : u \in Nat
  BY IInvParts, DiskNumbers, Constants
<1>2. f \in DOMAIN disk /\ disk[f].mtime = version[f]
  BY IInvParts DEF DiskInv
<1>3. Good(f, version[f], version[f])
  BY <1>1, <1>2, IInvParts DEF DiskInv
<1>4. CASE disk[f].data = << >>
  <2>1. FileChunks = 0
    BY <1>1, <1>2, <1>4 DEF Untorn
  <2>2. Content(f, version[f]) = << >>
    BY <2>1 DEF Content
  <2> QED
    BY <1>2, <1>4, <2>2
<1>5. CASE disk[f].data # << >>
  <2>1. PICK u \in Versions :
           version[f] <= u /\ u <= version[f] /\ disk[f].data = Content(f, u)
    BY <1>3, <1>5 DEF Good, GoodIn
  <2>2. u = version[f]
    BY <1>1, <2>1
  <2> QED
    BY <1>2, <2>1, <2>2
<1> QED
  BY <1>4, <1>5

\* Only the power can make the manifest wrong: without its failure every file it calls
\* complete is a copy, whatever connections, processes and writes fail (migration.go:523).
THEOREM OnlyPowerTears ==
    ASSUME "power" \notin FaultKinds
    PROVE  Spec => []CrashResistant
<1>1. Init => Untorn
  BY DEF Init, Untorn
<1>2. IInv /\ Untorn /\ [Next]_vars => Untorn'
  BY NextUntorn
<1>3. IInv /\ Untorn => CrashResistant
  BY ImpliesCrashResistant
<1> QED
  BY Invariance, <1>1, <1>2, <1>3, PTL DEF Spec

=============================================================================
