------------------------------ MODULE DumpStore ------------------------------
(***************************************************************************)
(* Dumps of databases (internal/database/backup.go): every request has a   *)
(* goroutine of its own and nothing serialises them, so a dump may be      *)
(* deleted or restored while it is being written.  A dump's name carries   *)
(* the second it began in: no two dumps of a database begin in the same    *)
(* one here, and a dump stands for its name and its file.                  *)
(*                                                                         *)
(* A file holds as many of the Parts of the database as were written, and  *)
(* the gzip trailer once the writer has been closed.  It outlives its name *)
(* for whoever has it open.                                                *)
(***************************************************************************)
EXTENDS Integers, FiniteSets

CONSTANTS
    Dumps,        \* dump requests
    MongoDumps,   \* those that mongodump writes by itself
    Restores,     \* restore requests
    Parts         \* how much there is to dump

ASSUME DumpAssumption ==
    MongoDumps \subseteq Dumps /\ Dumps \cap Restores = {} /\ 0 \notin Dumps /\ Parts \in Nat \ {0}

VARIABLES
    dump,      \* the goroutine of each dump
    tool,      \* its pg_dump, mysqldump or mongodump
    named,     \* the dumps whose name is in the directory
    parts,     \* how much of the database each file holds
    closed,    \* the files with a trailer
    restore,   \* the goroutine of each restore
    source,    \* the file it has open
    fed,       \* how much of it the restoring tool was given
    sound,     \* the restores that opened a dump reported as made
    verdict    \* what the backend was told of each request

fileVars == <<named, parts, closed>>
restoreVars == <<restore, source, fed, sound>>
dumpVars == <<dump, tool, fileVars, restoreVars, verdict>>

Requests == Dumps \cup Restores

DumpInit ==
    /\ dump = [d \in Dumps |-> "new"] /\ tool = [d \in Dumps |-> "none"]
    /\ named = {} /\ parts = [d \in Dumps |-> 0] /\ closed = {}
    /\ restore = [r \in Restores |-> "new"] /\ source = [r \in Restores |-> 0]
    /\ fed = [r \in Restores |-> 0] /\ sound = {}
    /\ verdict = [q \in Requests |-> "none"]

-----------------------------------------------------------------------------
(* dump and dumpMongo.                                                     *)

\* the file is created and the tool begins
DumpStart(d) ==
    /\ dump[d] = "new"
    /\ dump' = [dump EXCEPT ![d] = "copy"] /\ tool' = [tool EXCEPT ![d] = "runs"]
    /\ named' = named \cup {d}
    /\ UNCHANGED <<parts, closed, restoreVars, verdict>>

\* or the tool does not start, and the name is removed again
DumpNotStarted(d) ==
    /\ dump[d] = "new"
    /\ dump' = [dump EXCEPT ![d] = "end"] /\ verdict' = [verdict EXCEPT ![d] = "failed"]
    /\ UNCHANGED <<tool, fileVars, restoreVars>>

DumpCopy(d) ==
    /\ dump[d] = "copy" /\ tool[d] = "runs" /\ parts[d] < Parts
    /\ parts' = [parts EXCEPT ![d] = @ + 1]
    /\ UNCHANGED <<dump, tool, named, closed, restoreVars, verdict>>

\* the disk is full: io.Copy returns and nobody reads the tool's output any more
DumpCopyFails(d) ==
    /\ dump[d] = "copy" /\ d \notin MongoDumps /\ parts[d] < Parts
    /\ dump' = [dump EXCEPT ![d] = "stuck"]
    /\ UNCHANGED <<tool, fileVars, restoreVars, verdict>>

\* the tool ends when all it had to say is said; after io.Copy is gone, if what was left
\* fits the pipe
ToolSucceeds(d) ==
    /\ tool[d] = "runs" /\ (dump[d] = "copy" => parts[d] = Parts)
    /\ tool' = [tool EXCEPT ![d] = "ok"]
    /\ closed' = closed \cup ({d} \cap MongoDumps)
    /\ UNCHANGED <<dump, named, parts, restoreVars, verdict>>

\* an error of its own, or the 30 minutes are over
ToolFails(d) ==
    /\ tool[d] = "runs"
    /\ tool' = [tool EXCEPT ![d] = "error"]
    /\ UNCHANGED <<dump, fileVars, restoreVars, verdict>>

ToolStatus(d) == tool[d] = "ok"

\* waitErr, copyErr and gzErr
DumpSound(d) == tool[d] = "ok" /\ dump[d] # "stuck"

\* Wait has returned: the gzip writer is closed, whatever the tool's status was.  Only one
\* that could not write before does not write its trailer.
CloseGzip(d) ==
    /\ dump[d] \in {"copy", "stuck"} /\ tool[d] \in {"ok", "error"}
    /\ dump' = [dump EXCEPT ![d] = IF DumpSound(d) THEN "stat" ELSE "remove"]
    /\ closed' = IF dump[d] = "stuck" \/ d \in MongoDumps THEN closed ELSE closed \cup {d}
    /\ UNCHANGED <<tool, named, parts, restoreVars, verdict>>

DumpRemove(d) ==
    /\ dump[d] = "remove" /\ dump' = [dump EXCEPT ![d] = "end"]
    /\ named' = named \ {d} /\ verdict' = [verdict EXCEPT ![d] = "failed"]
    /\ UNCHANGED <<tool, parts, closed, restoreVars>>

\* the size is asked of the name: it fails if the dump was deleted meanwhile
DumpStat(d) ==
    /\ dump[d] = "stat" /\ dump' = [dump EXCEPT ![d] = "end"]
    /\ verdict' = [verdict EXCEPT ![d] = IF d \in named THEN "ok" ELSE "failed"]
    /\ UNCHANGED <<tool, fileVars, restoreVars>>

\* dumpDelete: any name that is there, with no look at who uses it
DumpDelete(d) ==
    /\ d \in named /\ named' = named \ {d}
    /\ UNCHANGED <<dump, tool, parts, closed, restoreVars, verdict>>

-----------------------------------------------------------------------------
(* restore and restoreMongo.                                               *)

\* a name of the directory is opened: it may be that of a dump that still runs
RestoreOpen(r, d) ==
    /\ restore[r] = "new" /\ d \in named
    /\ restore' = [restore EXCEPT ![r] = "feed"] /\ source' = [source EXCEPT ![r] = d]
    /\ sound' = IF verdict[d] = "ok" THEN sound \cup {r} ELSE sound
    /\ UNCHANGED <<dump, tool, fileVars, fed, verdict>>

RestoreFeed(r) ==
    /\ restore[r] = "feed" /\ fed[r] < parts[source[r]]
    /\ fed' = [fed EXCEPT ![r] = @ + 1]
    /\ UNCHANGED <<dump, tool, fileVars, restore, source, sound, verdict>>

RestoreEnds(r, what) ==
    /\ restore' = [restore EXCEPT ![r] = "end"] /\ verdict' = [verdict EXCEPT ![r] = what]
    /\ UNCHANGED <<dump, tool, fileVars, source, fed, sound>>

\* the end of the file: one without a trailer is an unexpected EOF for the reader, and Wait
\* returns the error of what it copied
RestoreDone(r) ==
    /\ restore[r] = "feed" /\ fed[r] = parts[source[r]]
    /\ RestoreEnds(r, IF source[r] \in closed THEN "ok" ELSE "failed")

\* psql, mysql or mongorestore fails, does not start or is killed: what it did stays done
RestoreFails(r) == restore[r] = "feed" /\ RestoreEnds(r, "failed")

-----------------------------------------------------------------------------
\* The agent is stopped or dies: its tools die with it and the files stay as they are.
DumpCrash ==
    /\ \E d \in Dumps : dump[d] \notin {"new", "end"}
    /\ dump' = [d \in Dumps |-> IF dump[d] = "new" THEN "new" ELSE "end"]
    /\ tool' = [d \in Dumps |-> IF tool[d] = "runs" THEN "error" ELSE tool[d]]
    /\ restore' = [r \in Restores |-> IF restore[r] = "new" THEN "new" ELSE "end"]
    /\ UNCHANGED <<fileVars, source, fed, sound, verdict>>

DumpStep(d) ==
    \/ DumpStart(d) \/ DumpNotStarted(d) \/ DumpCopy(d) \/ DumpCopyFails(d)
    \/ ToolSucceeds(d) \/ ToolFails(d) \/ CloseGzip(d) \/ DumpRemove(d) \/ DumpStat(d)
    \/ DumpDelete(d)

RestoreStep(r) ==
    \/ \E d \in Dumps : RestoreOpen(r, d)
    \/ RestoreFeed(r) \/ RestoreDone(r) \/ RestoreFails(r)

DumpNext ==
    \/ \E d \in Dumps : DumpStep(d)
    \/ \E r \in Restores : RestoreStep(r)
    \/ DumpCrash

DumpSpec == DumpInit /\ [][DumpNext]_dumpVars

-----------------------------------------------------------------------------
(* Properties                                                              *)

Complete(d) == parts[d] = Parts /\ d \in closed

DumpTypeOK ==
    /\ dump \in [Dumps -> {"new", "copy", "stuck", "stat", "remove", "end"}]
    /\ tool \in [Dumps -> {"none", "runs", "ok", "error"}]
    /\ named \subseteq Dumps /\ closed \subseteq Dumps /\ parts \in [Dumps -> 0 .. Parts]
    /\ restore \in [Restores -> {"new", "feed", "end"}]
    /\ source \in [Restores -> Dumps \cup {0}]
    /\ fed \in [Restores -> 0 .. Parts] /\ sound \subseteq Restores
    /\ verdict \in [Requests -> {"none", "ok", "failed"}]

\* What the backend is told of dumps and restores holds, whatever is deleted, restored or
\* killed meanwhile (backup.go:119): a dump reported as made is complete and stays so, one
\* reported as failed is not in the directory, and a restore reported as done of a dump
\* that had been reported as made was fed all of it.  It is not so of a dump that was not
\* reported yet: one that fails is closed with a valid trailer before it is removed.
ReportsHold ==
    /\ \A d \in Dumps :
          /\ verdict[d] = "ok" => Complete(d)
          /\ verdict[d] = "failed" => d \notin named
    /\ \A r \in sound : verdict[r] = "ok" => fed[r] = Parts

=============================================================================
