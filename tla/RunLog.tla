------------------------------- MODULE RunLog --------------------------------
(***************************************************************************)
(* The run log (internal/state/state.go): one line per execution of a      *)
(* loop, appended without the lock, trimmed under the lock to its newest   *)
(* lines when it has grown, and filled under the lock, when a store is     *)
(* opened, with the runs that older versions kept in the state file.       *)
(*                                                                         *)
(* Runs are numbered as they are written.  Size decides when to trim; a    *)
(* run's output may be of any size, so the log may be too big at any time. *)
(* A write that fails leaves nothing here; what a line that was cut short  *)
(* does to the next one is in QueueFile.tla.                               *)
(***************************************************************************)
EXTENDS Sequences, Naturals, FiniteSets

CONSTANTS
  Procs,      \* processes that open the store and record runs
  Keep,       \* run retention; 0 trims nothing
  Legacy,     \* how many runs an older version left in the state file
  MaxRuns,    \* bound: runs ever recorded
  Nobody, NoFile

ASSUME RunLogAssumption ==
  /\ {Keep, Legacy, MaxRuns} \subseteq Nat
  /\ Nobody \notin Procs

VARIABLES
  log,      \* the lines of the log
  tmp,      \* the lines of <log>.tmp, or NoFile
  legacy,   \* the runs key of the state file; <<>> when there is none
  lock,     \* who holds the lock file
  pc, read, \* pc[p] and the lines p has read
  stale,    \* who has the log open under a name that now leads elsewhere
  next,     \* the number of the next run
  raced,    \* runs written to a stale file, or between a read and its rename
  again     \* whether a migration died before it dropped the legacy runs

vars == <<log, tmp, legacy, lock, pc, read, stale, next, raced, again>>

Init ==
  /\ log = <<>> /\ tmp = NoFile
  /\ legacy = [n \in 1..Legacy |-> n]
  /\ lock = Nobody
  /\ pc = [p \in Procs |-> "out"]
  /\ read = [p \in Procs |-> <<>>]
  /\ stale = {} /\ raced = {}
  /\ next = Legacy + 1
  /\ again = FALSE

Goto(p, to) == pc' = [pc EXCEPT ![p] = to]

Held(p) == IF lock = p THEN Nobody ELSE lock

\* p leaves the method for the place to, with nothing open and no lock.
Leave(p, to) ==
  /\ Goto(p, to)
  /\ read' = [read EXCEPT ![p] = <<>>]
  /\ stale' = stale \ {p}
  /\ lock' = Held(p)

\* Seeded faults: the oldest lines are kept; one line too few is kept.
Oldest(ls) == IF Keep > 0 /\ Len(ls) > Keep THEN SubSeq(ls, 1, Keep) ELSE ls
NewestButOne(ls) == IF Keep > 0 /\ Len(ls) > Keep THEN SubSeq(ls, Len(ls) - Keep + 2, Len(ls)) ELSE ls

Newest(ls) == IF Keep > 0 /\ Len(ls) > Keep THEN SubSeq(ls, Len(ls) - Keep + 1, Len(ls)) ELSE ls

-----------------------------------------------------------------------------
(* Open: migrateRunsLocked                                                    *)

OpenLock(p) ==
  /\ pc[p] = "out" /\ lock = Nobody
  /\ lock' = p
  /\ Goto(p, "migrate")
  /\ UNCHANGED <<log, tmp, legacy, read, stale, next, raced, again>>

NothingToMigrate(p) ==
  /\ pc[p] = "migrate" /\ legacy = <<>>
  /\ Leave(p, "up")
  /\ UNCHANGED <<log, tmp, legacy, next, raced, again>>

MigrateRead(p) ==
  /\ pc[p] = "migrate" /\ legacy # <<>>
  /\ read' = [read EXCEPT ![p] = Newest(log \o legacy)]
  /\ Goto(p, "migrateWrite")
  /\ UNCHANGED <<log, tmp, legacy, lock, stale, next, raced, again>>

\* Seeded fault: the legacy runs are dropped before the log holds them.
MigrateWriteDrop(p) ==
  /\ pc[p] = "migrateWrite"
  /\ tmp' = read[p]
  /\ legacy' = <<>>
  /\ Goto(p, "migrateRename")
  /\ UNCHANGED <<log, lock, read, stale, next, raced, again>>

MigrateWrite(p) ==
  /\ pc[p] = "migrateWrite"
  /\ tmp' = read[p]
  /\ Goto(p, "migrateRename")
  /\ UNCHANGED <<log, legacy, lock, read, stale, next, raced, again>>

\* Whoever has the log open keeps the file that had the name before.
Replace ==
  /\ log' = tmp /\ tmp' = NoFile
  /\ stale' = stale \cup {q \in Procs : pc[q] = "opened"}

MigrateRename(p) ==
  /\ pc[p] = "migrateRename"
  /\ Replace
  /\ Goto(p, "migrateDrop")
  /\ UNCHANGED <<legacy, lock, read, next, raced, again>>

\* Seeded fault: the key is not deleted.
MigrateDropNot(p) ==
  /\ pc[p] = "migrateDrop"
  /\ Leave(p, "up")
  /\ UNCHANGED <<log, tmp, legacy, next, raced, again>>

\* The key is deleted and the state saved, which is atomic (Store.tla).
MigrateDrop(p) ==
  /\ pc[p] = "migrateDrop"
  /\ legacy' = <<>>
  /\ Leave(p, "up")
  /\ UNCHANGED <<log, tmp, next, raced, again>>

-----------------------------------------------------------------------------
(* RunRecord                                                                  *)

AppendOpen(p) ==
  /\ pc[p] = "up" /\ next <= MaxRuns
  /\ Goto(p, "opened")
  /\ UNCHANGED <<log, tmp, legacy, lock, read, stale, next, raced, again>>

Rewriting == {"compactWrite", "compactRename", "migrateWrite", "migrateRename"}

\* Appending takes no lock.  Then the size is looked at, by name.
AppendWrite(p) ==
  /\ pc[p] = "opened" /\ next <= MaxRuns
  /\ next' = next + 1
  /\ log' = IF p \in stale THEN log ELSE Append(log, next)
  /\ raced' = IF p \in stale \/ \E q \in Procs : pc[q] \in Rewriting
                THEN raced \cup {next} ELSE raced
  /\ \/ Leave(p, "up")
     \/ Goto(p, "big") /\ stale' = stale \ {p} /\ UNCHANGED <<lock, read>>
  /\ UNCHANGED <<tmp, legacy, again>>

CompactLock(p) ==
  /\ pc[p] = "big" /\ lock = Nobody
  /\ lock' = p
  /\ Goto(p, "compact")
  /\ UNCHANGED <<log, tmp, legacy, read, stale, next, raced, again>>

\* compactRuns: nothing to do, or the newest lines are read.
CompactRead(p) ==
  /\ pc[p] = "compact"
  /\ IF Keep = 0 \/ Len(log) <= Keep
       THEN Leave(p, "up")
       ELSE /\ read' = [read EXCEPT ![p] = Newest(log)]
            /\ Goto(p, "compactWrite")
            /\ UNCHANGED <<lock, stale>>
  /\ UNCHANGED <<log, tmp, legacy, next, raced, again>>

CompactWrite(p) ==
  /\ pc[p] = "compactWrite"
  /\ tmp' = read[p]
  /\ Goto(p, "compactRename")
  /\ UNCHANGED <<log, legacy, lock, read, stale, next, raced, again>>

CompactRename(p) ==
  /\ pc[p] = "compactRename"
  /\ Replace
  /\ Goto(p, "up") /\ read' = [read EXCEPT ![p] = <<>>] /\ lock' = Nobody
  /\ UNCHANGED <<legacy, next, raced, again>>

-----------------------------------------------------------------------------

\* A process ends, or is killed, or gives up on an error, anywhere: the kernel
\* frees its lock; a temporary file it created stays, whole or not.
Die(p) ==
  /\ pc[p] # "out"
  /\ Leave(p, "out")
  /\ again' = (again \/ pc[p] = "migrateDrop")
  /\ UNCHANGED <<log, tmp, legacy, next, raced>>

Step(p) ==
  \/ OpenLock(p) \/ NothingToMigrate(p) \/ MigrateRead(p) \/ MigrateWrite(p)
  \/ MigrateRename(p) \/ MigrateDrop(p)
  \/ AppendOpen(p) \/ AppendWrite(p)
  \/ CompactLock(p) \/ CompactRead(p) \/ CompactWrite(p) \/ CompactRename(p)
  \/ Die(p)

Next == \E p \in Procs : Step(p)

Spec == Init /\ [][Next]_vars

-----------------------------------------------------------------------------
(* Properties *)

Lines == Seq(1..(Legacy + MaxRuns))
InMigration == {"migrate", "migrateWrite", "migrateRename", "migrateDrop"}
InCompaction == {"compact", "compactWrite", "compactRename"}

\* Everything has its type, and whoever rewrites the log holds the lock.
TypeOK ==
  /\ log \in Lines /\ tmp \in Lines \cup {NoFile} /\ legacy \in Lines
  /\ lock \in Procs \cup {Nobody}
  /\ pc \in [Procs -> {"out", "up", "opened", "big"} \cup InMigration \cup InCompaction]
  /\ \A p \in Procs : lock = p <=> pc[p] \in InMigration \cup InCompaction
  /\ read \in [Procs -> Lines]
  /\ stale \subseteq {p \in Procs : pc[p] = "opened"}
  /\ next \in Nat /\ raced \subseteq 1..(next - 1) /\ again \in BOOLEAN

In(r, ls) == \E n \in 1..Len(ls) : ls[n] = r

\* The newest runs are in the log (state.go:284-285): a run that is not has been
\* trimmed, with at least Keep runs after it, or was appended while another
\* process rewrote the log.
NewestKept ==
  \A r \in (Legacy + 1)..(next - 1) : In(r, log) \/ r \in raced \/ (Keep > 0 /\ next - 1 - r >= Keep)

\* Migration loses nothing, wherever it dies: a run of an older version is still in
\* the state file, or in the log, or has been trimmed from a log that is full.
MigrationKeeps ==
  \A r \in 1..Legacy : In(r, legacy) \/ In(r, log) \/ (Keep > 0 /\ Len(log) >= Keep)

\* "newest last" (state.go:295), and no run twice, unless a migration died between
\* writing the log and dropping the key; and a log that is rewritten is rewritten
\* under the lock.
NewestLast ==
  /\ TypeOK
  /\ again \/ \A m, n \in 1..Len(log) : m < n => log[m] < log[n]

\* Rewriting the log, in whatever races, never leaves less than the retention.
TrimsToKeep == [][Len(log') < Len(log) => Keep > 0 /\ Len(log') >= Keep]_vars

=============================================================================
