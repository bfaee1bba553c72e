-------------------------------- MODULE Store --------------------------------
(***************************************************************************)
(* The state file of internal/state/state.go as several processes use it.  *)
(* A call takes an flock on a sibling .lock file, reads the whole file     *)
(* again, applies its own change in memory, writes everything to a         *)
(* temporary file whose name all processes share, and renames that over    *)
(* the state file.  Any step may fail and a process may die between any    *)
(* two; the kernel then releases its lock, and the temporary file stays.   *)
(* The lock file can be opened and locked: on a filesystem where it cannot *)
(* the code runs without a lock, and nothing below holds.                  *)
(***************************************************************************)
EXTENDS Sequences, Naturals

CONSTANTS
  Procs, Keys, Items, Scalars, Absent,   \* as in KV
  None,      \* nobody holds the exclusive lock
  NoFile,    \* there is no temporary file
  Partial,   \* the temporary file was created and not written out
  Inputs,    \* bound: the calls that are made
  MaxLen     \* bound: only arrays shorter than this are added to

VARIABLES
  file,      \* the state file; a missing file is the empty map
  tmp,       \* <state file>.tmp
  writer,    \* the process that holds the flock exclusively
  readers,   \* the processes that hold it shared
  pc,        \* pc[p]: where process p is in its call
  op,        \* op[p]: the call
  mem,       \* mem[p]: Store.data
  since      \* history, since[p]: the values its Get's key has had since the Get began

vars == <<file, tmp, writer, readers, pc, op, mem, since>>

\* What a caller can tell of where its call is.
Phase(at) ==
  CASE at \in {"down", "up"} -> "none"
    [] at \in {"want", "locked", "loaded", "applied", "created", "written"} -> "pending"
     [] at \in {"renamed", "fresh", "got", "opened"} -> "done"
    [] at \in {"kept", "stale", "failed"} -> "failed"

Call == [p \in Procs |-> Phase(pc[p])]

\* A Get answers from memory, once it has reloaded, or has not been able to.
Answer ==
  [p \in Procs |-> IF pc[p] \in {"fresh", "kept", "got", "stale"}
                    THEN mem[p][op[p].key] ELSE Absent]

K == INSTANCE KV WITH map <- file, call <- Call, what <- op, answer <- Answer

ASSUME StoreAssumption ==
  /\ None \notin Procs
  /\ {NoFile, Partial} \cap [Keys -> K!ValueOrAbsent] = {}
  /\ Inputs \subseteq K!Mutations \cup K!Gets
  /\ MaxLen \in Nat
  /\ Absent \notin K!Value
  /\ \A s \in Scalars : s \notin Seq(Items)

OpenCall == [kind |-> "open"]

Init ==
  /\ file = K!EmptyMap
  /\ tmp = NoFile
  /\ writer = None /\ readers = {}
  /\ pc = [p \in Procs |-> "down"]
  /\ op = [p \in Procs |-> OpenCall]
  /\ mem = [p \in Procs |-> K!EmptyMap]
  /\ since = [p \in Procs |-> {}]

Goto(p, from, to) == pc[p] = from /\ pc' = [pc EXCEPT ![p] = to]

-----------------------------------------------------------------------------
(* Starting a call                                                            *)

\* Open reads the file before it takes the lock.  When that read fails the
\* process has no store, and nothing has changed.
Open(p) ==
  /\ Goto(p, "down", "want")
  /\ mem' = [mem EXCEPT ![p] = file]
  /\ UNCHANGED <<file, tmp, writer, readers, op, since>>

\* Set, Append, Update and Get.
Begin(p, c) ==
  /\ Goto(p, "up", "want")
  /\ op' = [op EXCEPT ![p] = c]
  /\ since' = [since EXCEPT ![p] = IF c.kind = "get" THEN {file[c.key]} ELSE {}]
  /\ UNCHANGED <<file, tmp, writer, readers, mem>>

Short(k) == Len(K!AsArray(file[k])) < MaxLen
SmallCalls == {c \in Inputs : c.kind \in {"append", "update"} => Short(c.key)}

-----------------------------------------------------------------------------
(* Under the lock                                                             *)

\* Seeded fault: a lock that excludes nobody.
LockNothing(p) ==
  /\ Goto(p, "want", "locked")
  /\ op[p].kind # "get"
  /\ writer' = p
  /\ UNCHANGED <<file, tmp, readers, op, mem, since>>

\* flock(LOCK_EX), for Open and for every mutation.
LockExclusive(p) ==
  /\ Goto(p, "want", "locked")
  /\ op[p].kind # "get"
  /\ writer = None /\ readers = {}
  /\ writer' = p
  /\ UNCHANGED <<file, tmp, readers, op, mem, since>>

\* flock(LOCK_SH), for Get and All.
LockToRead(p) ==
  /\ Goto(p, "want", "locked")
  /\ op[p].kind = "get"
  /\ writer = None
  /\ readers' = readers \cup {p}
  /\ UNCHANGED <<file, tmp, writer, op, mem, since>>

Held(p) == op[p].kind \in {"set", "append", "update"}

\* reloadLocked, in a mutation.
ReloadToMutate(p) ==
  /\ Held(p)
  /\ Goto(p, "locked", "loaded")
  /\ mem' = [mem EXCEPT ![p] = file]
  /\ UNCHANGED <<file, tmp, writer, readers, op, since>>

\* reloadLocked, in Open.
ReloadToOpen(p) ==
  /\ op[p].kind = "open"
  /\ Goto(p, "locked", "opened")
  /\ mem' = [mem EXCEPT ![p] = file]
  /\ UNCHANGED <<file, tmp, writer, readers, op, since>>

\* Seeded fault: a Get that trusts what it has in memory.
ReloadNothing(p) ==
  /\ op[p].kind = "get"
  /\ Goto(p, "locked", "fresh")
  /\ UNCHANGED <<file, tmp, writer, readers, op, mem, since>>

\* reloadLocked, in Get.
ReloadToGet(p) ==
  /\ op[p].kind = "get"
  /\ Goto(p, "locked", "fresh")
  /\ mem' = [mem EXCEPT ![p] = file]
  /\ UNCHANGED <<file, tmp, writer, readers, op, since>>

\* The file cannot be read: Open and the mutations give up.
ReloadFails(p) ==
  /\ op[p].kind # "get"
  /\ Goto(p, "locked", "failed")
  /\ UNCHANGED <<file, tmp, writer, readers, op, mem, since>>

\* Get drops the error, and will answer from the memory it has.
GetFromMemory(p) ==
  /\ op[p].kind = "get"
  /\ Goto(p, "locked", "kept")
  /\ UNCHANGED <<file, tmp, writer, readers, op, mem, since>>

ApplyChange(p) ==
  /\ Goto(p, "loaded", "applied")
  /\ mem' = [mem EXCEPT ![p] = K!Applied(op[p], @)]
  /\ UNCHANGED <<file, tmp, writer, readers, op, since>>

\* os.WriteFile first truncates what a dead process may have left there.
CreateTmp(p) ==
  /\ Goto(p, "applied", "created")
  /\ tmp' = Partial
  /\ UNCHANGED <<file, writer, readers, op, mem, since>>

WriteTmp(p) ==
  /\ Goto(p, "created", "written")
  /\ tmp' = mem[p]
  /\ UNCHANGED <<file, writer, readers, op, mem, since>>

Rename(p) ==
  /\ Goto(p, "written", "renamed")
  /\ file' = tmp
  /\ tmp' = NoFile
  /\ since' = [q \in Procs |->
                IF op[q].kind = "get" THEN since[q] \cup {tmp[op[q].key]} ELSE since[q]]
  /\ UNCHANGED <<writer, readers, op, mem>>

\* Creating, writing or renaming fails: the call answers with the error, and
\* keeps the change in memory.
SaveFails(p) ==
  /\ pc[p] \in {"applied", "created", "written"}
  /\ pc' = [pc EXCEPT ![p] = "failed"]
  /\ UNCHANGED <<file, tmp, writer, readers, op, mem, since>>

-----------------------------------------------------------------------------
(* Ending a call                                                              *)

Over(p) ==
  /\ op' = [op EXCEPT ![p] = OpenCall]
  /\ since' = [since EXCEPT ![p] = {}]

Release(p) ==
  /\ writer' = IF writer = p THEN None ELSE writer
  /\ readers' = readers \ {p}

\* The end of withFileLock, in Get: others may write from here on, and only now
\* is the memory read for the answer.
Unlock(p) ==
  /\ \/ Goto(p, "fresh", "got")
     \/ Goto(p, "kept", "stale")
  /\ Release(p)
  /\ UNCHANGED <<file, tmp, op, mem, since>>

\* The call returns; a mutation and an Open unlock as they do.  An Open that
\* failed leaves no store behind.
Return(p) ==
  /\ pc[p] \in {"renamed", "got", "stale", "opened", "failed"}
  /\ LET down == op[p].kind = "open" /\ pc[p] = "failed"
     IN  /\ pc' = [pc EXCEPT ![p] = IF down THEN "down" ELSE "up"]
         /\ mem' = [mem EXCEPT ![p] = IF down THEN K!EmptyMap ELSE @]
  /\ Release(p) /\ Over(p)
  /\ UNCHANGED <<file, tmp>>

\* Seeded fault: a lock that outlives its process.
DieLocked(p) ==
  /\ pc[p] # "down"
  /\ pc' = [pc EXCEPT ![p] = "down"]
  /\ mem' = [mem EXCEPT ![p] = K!EmptyMap]
  /\ Over(p)
  /\ UNCHANGED <<file, tmp, writer, readers>>

\* The process exits, or is killed at any point of a call.
Die(p) ==
  /\ pc[p] # "down"
  /\ pc' = [pc EXCEPT ![p] = "down"]
  /\ mem' = [mem EXCEPT ![p] = K!EmptyMap]
  /\ Release(p) /\ Over(p)
  /\ UNCHANGED <<file, tmp>>

-----------------------------------------------------------------------------

Reload(p) == ReloadToMutate(p) \/ ReloadToOpen(p) \/ ReloadToGet(p)
Lock(p) == LockExclusive(p) \/ LockToRead(p)
Save(p) == CreateTmp(p) \/ WriteTmp(p) \/ Rename(p)

Step(p) ==
  \/ Open(p)
  \/ \E c \in SmallCalls : Begin(p, c)
  \/ Lock(p)
  \/ Reload(p) \/ ReloadFails(p) \/ GetFromMemory(p)
  \/ ApplyChange(p)
  \/ Save(p) \/ SaveFails(p)
  \/ Unlock(p) \/ Return(p) \/ Die(p)

Next == \E p \in Procs : Step(p)

Spec == Init /\ [][Next]_vars

\* A process that runs goes on, and the kernel does not pass a waiter over for
\* ever.  No process needs to start, and none is promised to live.
Fairness ==
  \A p \in Procs :
    /\ SF_vars(Lock(p))
    /\ WF_vars(Reload(p) \/ ReloadFails(p) \/ GetFromMemory(p))
    /\ WF_vars(ApplyChange(p)) /\ WF_vars(Save(p))
    /\ WF_vars(Unlock(p) \/ Return(p))

FairSpec == Spec /\ Fairness

-----------------------------------------------------------------------------
(* Properties *)

Maps == [Keys -> K!ValueOrAbsent]

\* Everything has its type; in particular the state file is always a whole map,
\* never a file that was created and not written out.
TypeOK ==
  /\ file \in Maps
  /\ tmp \in {NoFile, Partial} \cup Maps
  /\ writer \in {None} \cup Procs
  /\ readers \subseteq Procs
  /\ pc \in [Procs -> {"down", "up", "want", "locked", "loaded", "applied", "created",
                       "written", "renamed", "fresh", "kept", "got", "stale", "opened",
                       "failed"}]
  /\ op \in [Procs -> K!Calls]
  /\ mem \in [Procs -> Maps]
  /\ since \in [Procs -> SUBSET K!ValueOrAbsent]

\* "A stale process can no longer clobber a key it never touched"
\* (state.go:50-51): the file changes only by the mutation whose turn it is, and
\* only at that mutation's key.
UntouchedKeysKept ==
  [][\A k \in Keys : file'[k] # file[k] =>
        \E p \in Procs : /\ pc[p] = "written" /\ Held(p) /\ op[p].key = k
                         /\ file'[k] = K!Apply(op[p], file[k])]_vars

\* "So a long-running process does not answer from a snapshot another process has
\* moved on from" (state.go:191-192): whatever is renamed over the file before,
\* during and after its reload, a Get that could read the file answers with a value
\* that its key had at some moment of the call.
AnswersAreRecent == \A p \in Procs : pc[p] = "got" => Answer[p] \in since[p]

\* The state file, with its lock, temporary file, errors and crashes, is an
\* atomic map: every mutation takes effect once, on the latest value, or not at
\* all, and one that returned without an error has taken effect.
KVSpec == K!Spec

\* A call comes to an end, whoever dies while holding the lock.
CallsEnd == \A p \in Procs : pc[p] = "want" ~> pc[p] \in {"up", "down"}
=============================================================================
