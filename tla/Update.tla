------------------------------- MODULE Update -------------------------------
(***************************************************************************)
(* fleet update (cmd/fleet/update.go): any number of processes replace the *)
(* program's own file at the same time, each with what its manifest        *)
(* advertises.  updateMu is a lock inside one process and orders none of   *)
(* them; the two renames are all there is.  A process may die between any  *)
(* two steps, and what a failed update downloaded stays behind.            *)
(***************************************************************************)
EXTENDS Integers, FiniteSets

CONSTANTS
  Updaters,  \* processes that run fleet update, once each
  Builds,    \* contents a file can have
  Released,  \* builds that manifests advertise
  Runs,      \* builds that answer "fleet version"
  First,     \* the build installed by hand
  Gone       \* no file

ASSUME UpdateAssumption ==
  /\ Released \subseteq Builds /\ Runs \subseteq Builds
  /\ First \in Runs /\ Gone \notin Builds

VARIABLES
  exe,       \* the program's file
  candidate, \* candidate[p]: .fleet-update-*
  backup,    \* backup[p]: <exe>.bak-<version>-<nanoseconds>
  local,     \* local[p]: what p hashed exe to
  manifest,  \* manifest[p]: the version it fetched
  upc        \* "idle", "fetch", "download", "verify", "aside", "install",
             \* "rollback", "ok", "current", "failed", "dead"

updateVars == <<exe, candidate, backup, local, manifest, upc>>

None_ == [p \in Updaters |-> Gone]
Steps == {"idle", "fetch", "download", "verify", "aside", "install", "rollback",
          "ok", "current", "failed", "dead"}

\* The state has its type.
UpdateTypeOK ==
  /\ exe \in Builds \cup {Gone}
  /\ {candidate, backup, local, manifest} \subseteq [Updaters -> Builds \cup {Gone}]
  /\ upc \in [Updaters -> Steps]

UpdateInit ==
  /\ exe = First
  /\ candidate = None_ /\ backup = None_ /\ local = None_ /\ manifest = None_
  /\ upc = [p \in Updaters |-> "idle"]

Goto(p, l) == upc' = [upc EXCEPT ![p] = l]
FailUpdate(p) == Goto(p, "failed")

\* The program starts, so its file is there, and hashes it.
Hash(p) ==
  /\ upc[p] = "idle" /\ exe # Gone
  /\ local' = [local EXCEPT ![p] = exe]
  /\ Goto(p, "fetch")
  /\ UNCHANGED <<exe, candidate, backup, manifest>>

\* What follows on a manifest: nothing with --check, nor when the hashes agree
\* and there is no --force.
Decide(p, b, flag) ==
  Goto(p, IF flag = "--check" \/ (flag = "" /\ local[p] = b) THEN "current" ELSE "download")

\* The manifest is fetched and is well formed, or the update is over.
Fetch(p) ==
  /\ upc[p] = "fetch"
  /\ \/ \E b \in Released, flag \in {"", "--check", "--force"} :
          /\ manifest' = [manifest EXCEPT ![p] = b]
          /\ Decide(p, b, flag)
     \/ FailUpdate(p) /\ UNCHANGED manifest
  /\ UNCHANGED <<exe, candidate, backup, local>>

\* Whatever the server sends is written beside the program.
downloadUpdate(p) == \E b \in Builds : candidate' = [candidate EXCEPT ![p] = b]

\* All of it or, with an error, some of it or nothing.
Download(p) ==
  /\ upc[p] = "download"
  /\ downloadUpdate(p) \/ UNCHANGED candidate
  /\ \/ candidate'[p] # Gone /\ Goto(p, "verify")
     \/ FailUpdate(p)
  /\ UNCHANGED <<exe, backup, local, manifest>>

\* The candidate answers to "version" as the program does.
probeUpdateBinary(b) == b \in Runs
\* Seeded fault: the hash is not compared.
VerifiedByProbe(p) == probeUpdateBinary(candidate[p])

\* Its hash is the advertised one and it answers to "version", or the update
\* is over; failCode exits, so that the deferred removal does not happen.
Verified(p) == candidate[p] = manifest[p] /\ probeUpdateBinary(candidate[p])
Verify(p) ==
  /\ upc[p] = "verify"
  /\ \/ Verified(p) /\ Goto(p, "aside")
     \/ FailUpdate(p)
  /\ UNCHANGED <<exe, candidate, backup, local, manifest>>

\* os.Rename(exe, backup), which fails when another process has moved exe.
MoveAside(p) ==
  /\ upc[p] = "aside"
  /\ \/ /\ exe # Gone
        /\ backup' = [backup EXCEPT ![p] = exe] /\ exe' = Gone
        /\ Goto(p, "install")
     \/ FailUpdate(p) /\ UNCHANGED <<exe, backup>>
  /\ UNCHANGED <<candidate, local, manifest>>

\* Seeded fault: the backup is not moved back.
InstallOrExit(p) ==
  /\ upc[p] = "install"
  /\ \/ /\ exe' = candidate[p] /\ candidate' = [candidate EXCEPT ![p] = Gone]
        /\ Goto(p, "ok")
     \/ FailUpdate(p) /\ UNCHANGED <<exe, candidate>>
  /\ UNCHANGED <<backup, local, manifest>>

\* os.Rename(tmpPath, exe).
Install(p) ==
  /\ upc[p] = "install"
  /\ \/ /\ exe' = candidate[p] /\ candidate' = [candidate EXCEPT ![p] = Gone]
        /\ Goto(p, "ok")
     \/ Goto(p, "rollback") /\ UNCHANGED <<exe, candidate>>
  /\ UNCHANGED <<backup, local, manifest>>

\* os.Rename(backup, exe), and the update has failed either way.
Rollback(p) ==
  /\ upc[p] = "rollback"
  /\ \/ /\ exe' = backup[p] /\ backup' = [backup EXCEPT ![p] = Gone]
        /\ FailUpdate(p)
     \/ Goto(p, "dead") /\ UNCHANGED <<exe, backup>>
  /\ UNCHANGED <<candidate, local, manifest>>

\* The process is killed.  What it wrote is in its files: a machine that loses power
\* may lose a candidate as well, which nobody has synced (update.go:98-127).
Die(p) ==
  /\ upc[p] \notin {"idle", "ok", "current", "failed", "dead"}
  /\ Goto(p, "dead")
  /\ UNCHANGED <<exe, candidate, backup, local, manifest>>

\* "restore the binary manually from the backup"
Restore(p) ==
  /\ exe = Gone /\ backup[p] # Gone
  /\ \A q \in Updaters : upc[q] \notin {"install", "rollback"}
  /\ exe' = backup[p] /\ backup' = [backup EXCEPT ![p] = Gone]
  /\ UNCHANGED <<candidate, local, manifest, upc>>

UpdateStep(p) == \/ Hash(p) \/ Fetch(p) \/ Download(p) \/ Verify(p)
                 \/ MoveAside(p) \/ Install(p) \/ Rollback(p)

-----------------------------------------------------------------------------
\* What runs as fleet is the build installed by hand or one that a manifest
\* advertised, and it runs: never a download that failed a check
\* (update.go:106-121).
ProgramIsVerified == exe \in {First, Gone} \cup (Released \cap Runs)

\* Whatever fails and whoever dies, a program that runs is there, or is in a
\* backup that can be moved back (update.go:127-132).
ProgramIsRecoverable ==
  \/ exe \in Runs
  \/ exe = Gone /\ \E p \in Updaters : backup[p] \in Runs

\* Whatever is installed or left behind can be trusted and can be used.
ProgramIsSafe == UpdateTypeOK /\ ProgramIsVerified /\ ProgramIsRecoverable

\* The program is away only while some update stands between its two renames,
\* or because one died there or could not roll back; and two updates are never
\* between their renames at once, although no lock says so.
GapIsAccounted ==
  /\ exe = Gone => \E p \in Updaters : upc[p] \in {"install", "rollback", "dead"} /\ backup[p] # Gone
  /\ \A p, q \in Updaters :
       upc[p] \in {"install", "rollback"} /\ upc[q] \in {"install", "rollback"} => p = q

=============================================================================
