---------------------------- MODULE DeployProofs ----------------------------
(***************************************************************************)
(* What a machine keeps through installs, uninstalls, concurrent updates,  *)
(* kills and restarts, for any fleets, fleet.yml files, updaters, builds   *)
(* and numbers of commands.                                                *)
(*                                                                         *)
(* First the program file: whoever stands between the two renames has      *)
(* moved the program aside himself, which keeps everybody else out.  Then  *)
(* the units.                                                              *)
(***************************************************************************)
EXTENDS Deploy, SequenceTheorems, WellFoundedInduction, TLAPS

-----------------------------------------------------------------------------
(* The program's file                                                        *)

\* The builds that may ever be in place.
Good == {First} \cup (Released \cap Runs)

\* What passed the checks is what the manifest advertised, and it runs.
CandidateInv ==
  \A p \in Updaters :
    /\ manifest[p] \in Released \cup {Gone}
    /\ upc[p] \in {"aside", "install", "rollback"} => candidate[p] \in Good

\* Only what was in place is in a backup.
BackupInv ==
  /\ exe \in Good \cup {Gone}
  /\ \A p \in Updaters : backup[p] \in Good \cup {Gone}

\* Between the two renames the program is away, by one's own doing, so that nobody
\* else can get there; and it is away for no other reason than that somebody did.
GapInv ==
  /\ \A p \in Updaters : upc[p] \in {"install", "rollback"} => exe = Gone /\ backup[p] # Gone
  /\ GapIsAccounted

ProgramInv == UpdateTypeOK /\ CandidateInv /\ BackupInv /\ GapInv

LEMMA ProgramInit == UpdateInit => ProgramInv
  BY UpdateAssumption DEF UpdateInit, ProgramInv, UpdateTypeOK, CandidateInv, BackupInv, GapInv,
     GapIsAccounted, Good, None_, Steps

\* One step of one process, or of the operator.
LEMMA ProgramStep ==
  ASSUME ProgramInv, NEW p \in Updaters, UpdateStep(p) \/ Die(p) \/ Restore(p)
  PROVE  ProgramInv'
  <1> USE UpdateAssumption DEF ProgramInv, UpdateTypeOK, CandidateInv, BackupInv, GapInv,
          GapIsAccounted, Good, Steps, Goto, FailUpdate
  <1>1. CASE Hash(p)
    BY <1>1 DEF Hash
  <1>2. CASE Fetch(p)
    BY <1>2 DEF Fetch, Decide
  <1>3. CASE Download(p)
    BY <1>3 DEF Download, downloadUpdate
  <1>4. CASE Verify(p)
    BY <1>4 DEF Verify, Verified, probeUpdateBinary
  <1>5. CASE MoveAside(p)
    BY <1>5 DEF MoveAside
  <1>6. CASE Install(p)
    BY <1>6 DEF Install
  <1>7. CASE Rollback(p)
    BY <1>7 DEF Rollback
  <1>8. CASE Die(p)
    BY <1>8 DEF Die
  <1>9. CASE Restore(p)
    BY <1>9 DEF Restore
  <1>10. QED
    BY <1>1, <1>2, <1>3, <1>4, <1>5, <1>6, <1>7, <1>8, <1>9 DEF UpdateStep

LEMMA ProgramRestart ==
  ASSUME ProgramInv, Restart
  PROVE  ProgramInv'
  BY UpdateAssumption DEF Restart, Running, ProgramInv, UpdateTypeOK, CandidateInv, BackupInv,
     GapInv, GapIsAccounted, Steps

LEMMA ProgramKept ==
  ASSUME ProgramInv, UNCHANGED updateVars
  PROVE  ProgramInv'
  BY DEF updateVars, ProgramInv, UpdateTypeOK, CandidateInv, BackupInv, GapInv, GapIsAccounted

LEMMA ProgramNext == ProgramInv /\ [Next]_vars => ProgramInv'
  <1> SUFFICES ASSUME ProgramInv, [Next]_vars
               PROVE  ProgramInv'
    OBVIOUS
  <1>1. CASE UNCHANGED updateVars
    BY <1>1, ProgramKept
  <1>2. CASE \E p \in Updaters : UpdateStep(p) \/ Die(p) \/ Restore(p)
    BY <1>2, ProgramStep
  <1>3. CASE Restart
    BY <1>3, ProgramRestart
  <1>4. QED
    BY <1>1, <1>2, <1>3 DEF Next, vars

LEMMA ProgramAlways == Spec => []ProgramInv
  <1>1. Init => ProgramInv
    BY ProgramInit DEF Init
  <1>2. QED
    BY <1>1, ProgramNext, PTL DEF Spec

\* The program that runs as fleet passed its checks, or was installed by hand; and
\* if it is away a build that runs is in a backup, for any number of concurrent
\* updates that fail or die anywhere (update.go:106-132).
THEOREM ProgramStaysSafe == Spec => []ProgramIsSafe
  <1>1. ProgramInv => ProgramIsSafe
    BY UpdateAssumption DEF ProgramInv, CandidateInv, BackupInv, GapInv, GapIsAccounted, Good,
       ProgramIsSafe, ProgramIsVerified, ProgramIsRecoverable
  <1>2. QED
    BY <1>1, ProgramAlways, PTL

\* No lock orders two processes that update, and yet no two are between their
\* renames at once, nor is the program away without one of them to answer for it.
THEOREM GapsAreAccounted == Spec => []GapIsAccounted
  <1>1. ProgramInv => GapIsAccounted
    BY DEF ProgramInv, GapInv
  <1>2. QED
    BY <1>1, ProgramAlways, PTL

-----------------------------------------------------------------------------
(* The units                                                                 *)

\* The unit files of a fleet's loops carry its prefix, and no two are the same.
LEMMA UnitNames ==
  ASSUME NEW f \in Fleets, NEW ls \in Yamls[f], NEW i \in DOMAIN ls
  PROVE  /\ ls[i] \in Loops /\ ls[i] \in Range(ls) /\ ls[i] \in AllLoops(f)
         /\ Service(f, ls[i]) \in Matches(f) /\ Timer(f, ls[i]) \in Matches(f)
         /\ \A j \in DOMAIN ls :
              /\ Service(f, ls[i]) # Timer(f, ls[j])
              /\ i # j => /\ Service(f, ls[i]) # Service(f, ls[j])
                          /\ Timer(f, ls[i]) # Timer(f, ls[j])
         /\ ls[i].mode = "daemon" => ls[i].schedule = None
  <1>1. /\ f \in Seq(Words) /\ ls \in Seq(Loops) /\ Validate(ls)
    BY UnitsAssumption
  <1>2. ls[i] \in Loops /\ ls[i] \in Range(ls) /\ ls[i] \in AllLoops(f)
    <2>1. ls[i] \in Loops
      BY <1>1
    <2>2. ls[i] \in Range(ls)
      BY DEF Range
    <2>3. QED
      BY <2>1, <2>2 DEF AllLoops
  <1>3. /\ Service(f, ls[i]) \in AllUnits /\ Timer(f, ls[i]) \in AllUnits
    BY <1>2 DEF AllUnits
  <1>4. /\ Len(unitName(f, ls[i])) > Len(f) /\ IsPrefix(f, unitName(f, ls[i]))
    <2>1. /\ ls[i].name \in Seq(Words) /\ ls[i].name # <<>>
      BY <1>1, <1>2 DEF Validate, Loops
    <2>2. /\ Len(f \o ls[i].name) = Len(f) + Len(ls[i].name) /\ Len(ls[i].name) \in Nat \ {0}
          /\ Len(f) \in Nat
      BY <1>1, <2>1, EmptySeq
    <2>3. SubSeq(f \o ls[i].name, 1, Len(f)) = SubSeq(f, 1, Len(f))
      BY <1>1, <2>1, SubSeqOfConcat1, SubSeqFull
    <2>4. QED
      BY <2>2, <2>3 DEF IsPrefix, unitName
  <1>5. Service(f, ls[i]) \in Matches(f) /\ Timer(f, ls[i]) \in Matches(f)
    BY <1>3, <1>4 DEF Matches, Service, Timer
  <1>6. ASSUME NEW j \in DOMAIN ls, i # j
        PROVE  unitName(f, ls[i]) # unitName(f, ls[j])
    <2>1. /\ ls[i].name \in Seq(Words) /\ ls[j].name \in Seq(Words)
          /\ ls[i].name # ls[j].name
      <3>1. ls[j] \in Loops
        BY <1>1, <1>6
      <3>2. QED
        BY <1>1, <1>2, <1>6, <3>1 DEF Validate, Loops
    <2>2. QED
      BY <1>1, <2>1, ConcatSimplifications DEF unitName
  <1>7. ls[i].mode = "daemon" => ls[i].schedule = None
    BY <1>1 DEF Validate
  <1>8. QED
    BY <1>2, <1>5, <1>6, <1>7 DEF Service, Timer

\* A command's record.
Commands ==
  [op : {"", "install", "uninstall"}, f : {<<>>} \cup Fleets, loops : Seq(Loops), at : Nat \ {0},
   pc : {"ok", "failed", "service", "timer", "enable", "silence", "remove"},
   left : SUBSET AllUnits, slips : SUBSET AllUnits, fresh : BOOLEAN, start : BOOLEAN]

CommandInv ==
  /\ cmd \in Commands
  /\ files = [u \in AllUnits |-> files[u]]
  /\ cmd.pc \in {"service", "timer", "enable"} => cmd.op = "install"
  /\ cmd.pc \in {"silence", "remove"} => cmd.op = "uninstall"

Installing == cmd.op = "install" /\ cmd.pc # "failed"

\* What the units of a loop must hold.
Holds(l) ==
  /\ files[Service(cmd.f, l)] = renderService(cmd.f, l)
  /\ l.schedule # None => /\ l.schedule # Bad
                          /\ files[Timer(cmd.f, l)] = renderTimerTrigger(l.schedule)

\* An install walks the loops of a fleet.yml of the fleet it is for; what the
\* first walk has passed is written.
WalkInv ==
  Installing =>
    /\ cmd.f \in Fleets /\ cmd.loops \in Yamls[cmd.f]
    /\ \A i \in DOMAIN cmd.loops :
         HasUnits(cmd.loops[i]) /\ (cmd.pc \in {"enable", "ok"} \/ i < cmd.at) => Holds(cmd.loops[i])
    /\ cmd.pc = "timer" =>
         /\ AtLoop /\ HasUnits(ThisLoop) /\ ThisLoop.schedule # None
         /\ files[Service(cmd.f, ThisLoop)] = renderService(cmd.f, ThisLoop)

Wants(f, ls) == {Wanted(f, l) : l \in {l \in Range(ls) : IsWanted(l)}}

\* What the second walk has passed is enabled, and an install that began from
\* nothing has added nothing but units of those loops.
EnabledInv ==
  Installing =>
    /\ \A i \in DOMAIN cmd.loops :
         IsWanted(cmd.loops[i]) /\ (cmd.pc = "ok" \/ (cmd.pc = "enable" /\ i < cmd.at)) =>
           Wanted(cmd.f, cmd.loops[i]) \in enabled
    /\ cmd.fresh => /\ enabled \cap Matches(cmd.f) \subseteq Wants(cmd.f, cmd.loops)
                    /\ Present \cap Matches(cmd.f) \subseteq UnitPaths(cmd.f, cmd.loops)

\* An uninstall has left units only among those it has still to act on and those
\* it failed to act on.
UninstallInv ==
  cmd.op = "uninstall" =>
    /\ cmd.f \in Fleets
    /\ cmd.fresh => /\ cmd.pc = "silence" =>
                         Matches(cmd.f) \cap (enabled \cup active) \subseteq cmd.slips \cup cmd.left
                    /\ cmd.pc \in {"remove", "ok"} =>
                         Matches(cmd.f) \cap (enabled \cup active) \subseteq cmd.slips
    /\ cmd.pc = "remove" => Matches(cmd.f) \cap Present \subseteq cmd.slips \cup cmd.left
    /\ cmd.pc = "ok" => Matches(cmd.f) \cap Present \subseteq cmd.slips

UnitsInv == UnitsTypeOK /\ CommandInv /\ WalkInv /\ EnabledInv /\ UninstallInv


\* A command that is over, as failed or as none.
LEMMA IdleIsCommand ==
  /\ Idle \in Commands /\ Idle.op = "" /\ Idle.pc = "ok" /\ Idle.left = {} /\ Idle.slips = {}
  /\ Idle.fresh = FALSE
  /\ CommandInv => /\ Failed \in Commands /\ Failed.op = cmd.op /\ Failed.pc = "failed"
                   /\ Failed.f = cmd.f /\ Failed.fresh = FALSE /\ Failed.left = {} /\ Failed.slips = {}
  <1>1. /\ Idle \in Commands /\ Idle.op = "" /\ Idle.pc = "ok" /\ Idle.left = {} /\ Idle.slips = {}
        /\ Idle.fresh = FALSE
    BY EmptySeq DEF Idle, Commands
  <1>2. /\ Failed.op = cmd.op /\ Failed.pc = "failed" /\ Failed.f = cmd.f
        /\ Failed.fresh = FALSE /\ Failed.left = {} /\ Failed.slips = {}
    BY DEF Idle, Failed
  <1>3. ASSUME CommandInv
        PROVE  Failed \in Commands
    <2>1. cmd.op \in {"", "install", "uninstall"} /\ cmd.f \in {<<>>} \cup Fleets
      BY <1>3 DEF CommandInv, Commands
    <2>2. QED
      BY <1>1, <2>1 DEF Failed, Commands
  <1>4. QED
    BY <1>1, <1>2, <1>3

LEMMA UnitsStart == UnitsInit => UnitsInv
  <1> SUFFICES ASSUME UnitsInit
               PROVE  UnitsInv
    OBVIOUS
  <1>1. UnitsTypeOK
    <2>1. /\ DOMAIN yaml = Fleets /\ \A f \in Fleets : yaml[f] \in Yamls[f]
          /\ DOMAIN files = AllUnits /\ enabled = {} /\ active = {} /\ commands \in 0..MaxCommands
      BY UnitsAssumption DEF UnitsInit
    <2>2. QED
      BY <2>1, IdleIsCommand DEF UnitsInit, UnitsTypeOK
  <1>2. CommandInv
    BY IdleIsCommand DEF UnitsInit, CommandInv
  <1>3. WalkInv /\ EnabledInv /\ UninstallInv
    BY IdleIsCommand DEF UnitsInit, WalkInv, EnabledInv, UninstallInv, Installing
  <1>4. QED
    BY <1>1, <1>2, <1>3 DEF UnitsInv

\* A step that leaves the units and the command alone.
LEMMA UnitsKept ==
  ASSUME UnitsInv, UNCHANGED <<onDisk, cmd, commands>>, DOMAIN yaml' = Fleets, \A f \in Fleets : yaml'[f] \in Yamls[f]
  PROVE  UnitsInv'
  <1> USE DEF UnitsInv, onDisk
  <1>1. UnitsTypeOK' /\ CommandInv'
    BY DEF UnitsTypeOK, CommandInv
  <1>2. WalkInv'
    BY DEF WalkInv, Holds, AtLoop, ThisLoop, Installing
  <1>3. EnabledInv' /\ UninstallInv'
    BY DEF EnabledInv, UninstallInv, Present, Installing
  <1>4. QED
    BY <1>1, <1>2, <1>3

\* A step that ends the command before it has succeeded, or forgets it, whatever
\* that does to the unit files.
LEMMA UnitsOver ==
  ASSUME UnitsInv, UNCHANGED <<enabled, commands>>, cmd' \in {Idle, Failed},
         files' = [u \in AllUnits |-> files'[u]],
         active' \in {active, {u \in enabled \cap Present : files[u] # Piece}},
         DOMAIN yaml' = Fleets, \A f \in Fleets : yaml'[f] \in Yamls[f]
  PROVE  UnitsInv'
  <1> USE DEF UnitsInv
  <1>1. /\ cmd' \in Commands /\ cmd'.op \in {"", cmd.op} /\ cmd'.pc \in {"ok", "failed"}
        /\ cmd'.op = "" \/ (cmd'.pc = "failed" /\ cmd'.f = cmd.f)
        /\ cmd'.left = {} /\ cmd'.slips = {} /\ cmd'.fresh = FALSE
    <2>1. CASE cmd' = Idle
      BY <2>1, IdleIsCommand
    <2>2. CASE cmd' = Failed
      BY <2>2, IdleIsCommand
    <2>3. QED
      BY <2>1, <2>2
  <1>2. UnitsTypeOK'
    BY <1>1 DEF UnitsTypeOK, Present
  <1>3. CommandInv'
    BY <1>1 DEF CommandInv
  <1>4. WalkInv' /\ EnabledInv' /\ UninstallInv'
    BY <1>1 DEF WalkInv, EnabledInv, UninstallInv, Installing
  <1>5. QED
    BY <1>2, <1>3, <1>4

\* Before a command begins there is none, and its record starts out from Idle.
LEMMA UnitsBegin ==
  ASSUME UnitsInv, NEW f \in Fleets, BeginInstall(f) \/ BeginUninstall(f)
  PROVE  UnitsInv'
  <1> USE DEF UnitsInv
  <1>1. /\ UNCHANGED <<yaml, files, enabled, active>> /\ commands' = commands + 1
        /\ commands < MaxCommands /\ yaml[f] \in Yamls[f]
    BY DEF BeginInstall, BeginUninstall, Begin, onDisk, UnitsTypeOK
  <1>2. commands' \in 0..MaxCommands
    BY <1>1, UnitsAssumption DEF UnitsTypeOK
  <1>3. CASE BeginInstall(f)
    <2>1. PICK start \in BOOLEAN :
            cmd' = [Idle EXCEPT !.pc = "service", !.loops = yaml[f], !.start = start,
                      !.fresh = Matches(f) \cap (Present \cup enabled \cup active) = {},
                      !.op = "install", !.f = f]
      BY <1>3 DEF BeginInstall, Begin, Idle
    <2>2. /\ cmd'.op = "install" /\ cmd'.pc = "service" /\ cmd'.f = f /\ cmd'.loops = yaml[f]
          /\ cmd'.left = {} /\ cmd'.slips = {} /\ cmd'.at = 1
          /\ cmd'.fresh <=> Matches(f) \cap (Present \cup enabled \cup active) = {}
      BY <2>1 DEF Idle
    <2>3. cmd' \in Commands
      BY <1>1, <2>1, IdleIsCommand, UnitsAssumption DEF Commands
    <2>4. UnitsTypeOK'
      BY <1>1, <1>2, <2>2 DEF UnitsTypeOK
    <2>5. CommandInv'
      BY <1>1, <2>2, <2>3 DEF CommandInv
    <2>6. WalkInv'
      <3>1. yaml[f] \in Seq(Loops)
        BY <1>1, UnitsAssumption
      <3>2. \A i \in DOMAIN yaml[f] : ~(i < 1)
        BY <3>1
      <3>3. QED
        BY <1>1, <2>2, <3>2 DEF WalkInv
    <2>7. EnabledInv'
      BY <1>1, <2>2 DEF EnabledInv, Present
    <2>8. UninstallInv'
      BY <2>2 DEF UninstallInv
    <2>9. QED
      BY <2>4, <2>5, <2>6, <2>7, <2>8
  <1>4. CASE BeginUninstall(f)
    <2> DEFINE there == Matches(f) \cap Present
    <2>1. PICK seen \in {there, {}} :
            cmd' = [Idle EXCEPT !.pc = "silence", !.left = seen, !.slips = there \ seen,
                      !.fresh = Matches(f) \cap (enabled \cup active) \subseteq there,
                      !.op = "uninstall", !.f = f]
      BY <1>4 DEF BeginUninstall, Begin, Idle
    <2>2. /\ cmd'.op = "uninstall" /\ cmd'.pc = "silence" /\ cmd'.f = f
          /\ cmd'.left = seen /\ cmd'.slips = there \ seen
          /\ cmd'.fresh <=> Matches(f) \cap (enabled \cup active) \subseteq there
      BY <2>1 DEF Idle
    <2>3. there \subseteq AllUnits
      BY DEF Matches
    <2>4. cmd' \in Commands
      BY <2>1, <2>3, IdleIsCommand DEF Commands
    <2>5. UnitsTypeOK'
      BY <1>1, <1>2, <2>2, <2>3 DEF UnitsTypeOK
    <2>6. CommandInv'
      BY <1>1, <2>2, <2>4 DEF CommandInv
    <2>7. WalkInv' /\ EnabledInv'
      BY <2>2 DEF WalkInv, EnabledInv, Installing
    <2>8. UninstallInv'
      <3>1. cmd'.fresh => Matches(f) \cap (enabled \cup active) \subseteq cmd'.slips \cup cmd'.left
        BY <2>2
      <3> HIDE DEF there
      <3>2. QED
        BY <1>1, <2>2, <3>1 DEF UninstallInv
    <2>9. QED
      BY <2>5, <2>6, <2>7, <2>8
  <1>5. QED
    BY <1>3, <1>4

\* What there is to know of the loops that an install walks.
LEMMA LoopFacts ==
  ASSUME UnitsInv, Installing
  PROVE  /\ cmd.f \in Fleets /\ cmd.loops \in Yamls[cmd.f] /\ cmd.at \in Nat \ {0}
         /\ Len(cmd.loops) \in Nat /\ DOMAIN cmd.loops = 1..Len(cmd.loops)
         /\ AtLoop => cmd.at \in DOMAIN cmd.loops
         /\ \A i \in DOMAIN cmd.loops :
              LET l == cmd.loops[i] IN
              /\ l \in Loops /\ l \in Range(cmd.loops) /\ l \in AllLoops(cmd.f)
              /\ Service(cmd.f, l) \in Matches(cmd.f) /\ Timer(cmd.f, l) \in Matches(cmd.f)
              /\ \A j \in DOMAIN cmd.loops :
                   /\ Service(cmd.f, l) # Timer(cmd.f, cmd.loops[j])
                   /\ i # j => /\ Service(cmd.f, l) # Service(cmd.f, cmd.loops[j])
                               /\ Timer(cmd.f, l) # Timer(cmd.f, cmd.loops[j])
              /\ l.mode = "daemon" => l.schedule = None
  <1>1. /\ cmd.f \in Fleets /\ cmd.loops \in Yamls[cmd.f]
    BY DEF UnitsInv, WalkInv
  <1>2. /\ cmd.at \in Nat \ {0} /\ cmd.loops \in Seq(Loops)
    BY DEF UnitsInv, CommandInv, Commands
  <1>3. /\ Len(cmd.loops) \in Nat /\ DOMAIN cmd.loops = 1..Len(cmd.loops)
    BY <1>2
  <1>4. AtLoop => cmd.at \in DOMAIN cmd.loops
    BY <1>2, <1>3 DEF AtLoop
  <1>5. QED
    BY <1>1, <1>2, <1>3, <1>4, UnitNames

\* The walks only change what the record says of their place.
MovesTo(pc, at) ==
  /\ cmd' \in Commands /\ cmd'.at = at /\ cmd'.pc = pc /\ cmd'.op = cmd.op
  /\ cmd'.f = cmd.f /\ cmd'.loops = cmd.loops
  /\ cmd'.left = cmd.left /\ cmd'.slips = cmd.slips /\ cmd'.fresh = cmd.fresh

\* A unit file is written as it should be.
LEMMA UnitsWrite ==
  ASSUME UnitsInv, cmd.pc \in {"service", "timer"}, UNCHANGED <<yaml, enabled, active, commands>>,
         AtLoop, HasUnits(ThisLoop),
         \/ /\ cmd.pc = "service"
            /\ files' = [files EXCEPT ![Service(cmd.f, ThisLoop)] = renderService(cmd.f, ThisLoop)]
            /\ cmd' = IF ThisLoop.schedule = None THEN NextLoop ELSE [cmd EXCEPT !.pc = "timer"]
         \/ /\ cmd.pc = "timer" /\ ThisLoop.schedule # Bad
            /\ files' = [files EXCEPT ![Timer(cmd.f, ThisLoop)] = renderTimerTrigger(ThisLoop.schedule)]
            /\ cmd' = [NextLoop EXCEPT !.pc = "service"]
  PROVE  UnitsInv'
  <1> DEFINE f == cmd.f
             ls == cmd.loops
             k == cmd.at
             l == ThisLoop
             u == IF cmd.pc = "service" THEN Service(f, l) ELSE Timer(f, l)
             content == IF cmd.pc = "service" THEN renderService(f, l) ELSE renderTimerTrigger(l.schedule)
             pc == IF cmd.pc = "service" /\ l.schedule # None THEN "timer" ELSE "service"
             at == IF cmd.pc = "service" /\ l.schedule # None THEN k ELSE k + 1
  <1>1. Installing
    BY DEF UnitsInv, CommandInv, Installing
  <1>2. k \in DOMAIN ls /\ k \in Nat \ {0} /\ l = ls[k] /\ f \in Fleets /\ ls \in Yamls[f]
    BY <1>1, LoopFacts DEF ThisLoop
  <1>3. u \in Matches(f) /\ u \in AllUnits
    BY <1>1, <1>2, LoopFacts DEF Matches
  <1>4. files' = [files EXCEPT ![u] = content]
    OBVIOUS
  <1>5. /\ files'[u] = content
        /\ \A v \in AllUnits \ {u} : files'[v] = files[v]
        /\ files' = [v \in AllUnits |-> files'[v]]
    BY <1>3, <1>4 DEF UnitsInv, CommandInv
  <1>6. MovesTo(pc, at)
    <2>1. cmd \in Commands
      BY DEF UnitsInv, CommandInv
    <2>2. CASE cmd.pc = "service" /\ l.schedule = None
      <3>1. cmd' = NextLoop /\ pc = cmd.pc /\ at = k + 1 /\ k + 1 \in Nat \ {0}
        BY <1>2, <2>2
      <3> HIDE DEF pc, at
      <3>2. QED
        BY <2>1, <3>1 DEF MovesTo, NextLoop, Commands
    <2>3. CASE cmd.pc = "service" /\ l.schedule # None
      BY <1>2, <2>1, <2>3 DEF MovesTo, Commands
    <2>4. CASE cmd.pc = "timer"
      <3>1. cmd' = [NextLoop EXCEPT !.pc = "service"] /\ pc = "service" /\ at = k + 1
            /\ k + 1 \in Nat \ {0}
        BY <1>2, <2>4
      <3> HIDE DEF pc, at
      <3>2. QED
        BY <2>1, <3>1 DEF MovesTo, NextLoop, Commands
    <2>5. QED
      BY <2>2, <2>3, <2>4
  <1>7. UnitsTypeOK'
    BY <1>5, <1>6 DEF UnitsInv, UnitsTypeOK, MovesTo
  <1>8. CommandInv'
    BY <1>1, <1>5, <1>6 DEF UnitsInv, CommandInv, Installing, MovesTo
  <1>9. WalkInv'
    <2>1. ASSUME NEW i \in DOMAIN ls, HasUnits(ls[i]), i < at
          PROVE  /\ files'[Service(f, ls[i])] = renderService(f, ls[i])
                 /\ ls[i].schedule # None =>
                      /\ ls[i].schedule # Bad
                      /\ files'[Timer(f, ls[i])] = renderTimerTrigger(ls[i].schedule)
      <3>1. CASE i # k
        <4>1. i < k
          BY <1>1, <1>2, <2>1, <3>1, LoopFacts
        <4>2. Holds(ls[i])
          BY <1>1, <2>1, <4>1 DEF UnitsInv, WalkInv
        <4>3. /\ Service(f, ls[i]) \in AllUnits \ {u} /\ Timer(f, ls[i]) \in AllUnits \ {u}
          BY <1>1, <1>2, <2>1, <3>1, LoopFacts DEF Matches
        <4>4. QED
          BY <1>5, <4>2, <4>3 DEF Holds
      <3>2. CASE i = k
        <4>1. cmd.pc = "timer" \/ l.schedule = None
          BY <1>2, <2>1, <3>2
        <4>2. CASE cmd.pc = "timer"
          <5>1. files[Service(f, l)] = renderService(f, l) /\ l.schedule # None
            BY <1>1, <4>2 DEF UnitsInv, WalkInv
          <5>2. /\ Service(f, l) \in AllUnits \ {u}
            BY <1>1, <1>2, <4>2, LoopFacts DEF Matches
          <5>3. QED
            BY <1>2, <1>5, <3>2, <4>2, <5>1, <5>2
        <4>3. CASE cmd.pc = "service" /\ l.schedule = None
          BY <1>2, <1>5, <3>2, <4>3
        <4>4. QED
          BY <4>1, <4>2, <4>3
      <3>3. QED
        BY <3>1, <3>2
    <2>2. ASSUME pc = "timer"
          PROVE  /\ AtLoop' /\ ThisLoop' = l /\ l.schedule # None
                 /\ files'[Service(f, l)] = renderService(f, l)
      <3>1. cmd.pc = "service" /\ l.schedule # None /\ at = k
        BY <2>2
      <3>2. AtLoop' /\ ThisLoop' = l
        BY <1>6, <3>1 DEF AtLoop, ThisLoop, MovesTo
      <3>3. QED
        BY <1>5, <3>1, <3>2
    <2>3. pc \in {"service", "timer"} /\ cmd'.pc = pc /\ cmd'.at = at /\ cmd'.f = f /\ cmd'.loops = ls
      BY <1>6 DEF MovesTo
    <2> HIDE DEF f, ls, k, l, u, content, pc, at
    <2>4. f \in Fleets /\ ls \in Yamls[f] /\ HasUnits(l)
      BY <1>2 DEF l
    <2>5. QED
      BY <2>1, <2>2, <2>3, <2>4 DEF WalkInv, Holds
  <1>10. EnabledInv'
    <2>1. u \in UnitPaths(f, ls)
      <3>1. l \in Range(ls) /\ HasUnits(l)
        BY <1>1, <1>2, LoopFacts
      <3>2. u \in {Service(f, l)} \cup (IF l.schedule = None THEN {} ELSE {Timer(f, l)})
        BY <1>1 DEF UnitsInv, WalkInv
      <3> HIDE DEF u, l
      <3>3. QED
        BY <3>1, <3>2 DEF UnitPaths
    <2>2. Present' \subseteq Present \cup {u}
      BY <1>5 DEF Present
    <2>3. pc \in {"service", "timer"}
      OBVIOUS
    <2> HIDE DEF u, pc, at
    <2>4. QED
      BY <1>1, <1>6, <2>1, <2>2, <2>3 DEF EnabledInv, UnitsInv, MovesTo, Installing
  <1>11. UninstallInv'
    BY <1>1, <1>6 DEF UninstallInv, Installing, MovesTo
  <1>12. QED
    BY <1>7, <1>8, <1>9, <1>10, <1>11 DEF UnitsInv

\* A walk passes over a loop, or begins anew, or ends: no unit changes.
LEMMA UnitsWalk ==
  ASSUME UnitsInv, UNCHANGED <<yaml, onDisk, commands>>,
         \/ cmd.pc = "service" /\ AtLoop /\ ~HasUnits(ThisLoop) /\ cmd' = NextLoop
         \/ cmd.pc = "enable" /\ AtLoop /\ ~IsWanted(ThisLoop) /\ cmd' = NextLoop
         \/ cmd.pc = "service" /\ ~AtLoop /\ cmd' = [cmd EXCEPT !.pc = "enable", !.at = 1]
         \/ cmd.pc = "enable" /\ ~AtLoop /\ cmd' = [cmd EXCEPT !.pc = "ok"]
  PROVE  UnitsInv'
  <1> DEFINE ls == cmd.loops
             k == cmd.at
             pc == IF AtLoop THEN cmd.pc ELSE IF cmd.pc = "service" THEN "enable" ELSE "ok"
             at == IF AtLoop THEN k + 1 ELSE IF cmd.pc = "service" THEN 1 ELSE k
  <1>1. Installing
    BY DEF UnitsInv, CommandInv, Installing
  <1>2. /\ k \in Nat \ {0} /\ cmd.f \in Fleets /\ ls \in Yamls[cmd.f]
        /\ DOMAIN ls = 1..Len(ls) /\ Len(ls) \in Nat
    BY <1>1, LoopFacts
  <1>3. MovesTo(pc, at)
    <2>1. cmd \in Commands
      BY DEF UnitsInv, CommandInv
    <2>2. CASE AtLoop
      <3>1. cmd' = NextLoop /\ pc = cmd.pc /\ at = k + 1 /\ k + 1 \in Nat \ {0}
        BY <1>2, <2>2
      <3> HIDE DEF pc, at
      <3>2. QED
        BY <2>1, <3>1 DEF MovesTo, NextLoop, Commands
    <2>3. CASE ~AtLoop
      <3>1. CASE cmd.pc = "service"
        <4>1. /\ cmd' = [cmd EXCEPT !.pc = "enable", !.at = at] /\ pc = "enable"
              /\ at \in Nat \ {0}
          BY <2>3, <3>1
        <4> HIDE DEF pc, at
        <4>2. QED
          BY <2>1, <4>1 DEF MovesTo, Commands
      <3>2. CASE cmd.pc = "enable"
        BY <1>2, <2>1, <2>3, <3>2 DEF MovesTo, Commands
      <3>3. QED
        BY <3>1, <3>2
    <2>4. QED
      BY <2>2, <2>3
  <1>4. /\ cmd.pc \in {"service", "enable"} /\ pc \in {"service", "enable", "ok"}
        /\ UNCHANGED <<yaml, files, enabled, active, commands>>
    BY DEF onDisk
  <1>5. UnitsTypeOK' /\ CommandInv' /\ UninstallInv'
    BY <1>1, <1>3, <1>4
    DEF UnitsInv, UnitsTypeOK, CommandInv, UninstallInv, MovesTo, Installing
  <1>6. ASSUME NEW i \in DOMAIN ls, HasUnits(ls[i]), pc \in {"enable", "ok"} \/ i < at
        PROVE  Holds(ls[i])
    <2>1. cmd.pc = "enable" \/ i < k
      BY <1>2, <1>4, <1>6 DEF AtLoop, ThisLoop
    <2>2. QED
      BY <1>1, <1>6, <2>1 DEF UnitsInv, WalkInv
  <1>7. ASSUME NEW i \in DOMAIN ls, IsWanted(ls[i]), pc = "ok" \/ (pc = "enable" /\ i < at)
        PROVE  Wanted(cmd.f, ls[i]) \in enabled
    <2>1. cmd.pc = "enable" /\ i < k
      BY <1>2, <1>4, <1>7 DEF AtLoop, ThisLoop
    <2>2. QED
      BY <1>1, <1>7, <2>1 DEF UnitsInv, EnabledInv
  <1> HIDE DEF pc, at, ls, k
  <1>8. WalkInv'
    BY <1>2, <1>3, <1>4, <1>6 DEF WalkInv, Holds, MovesTo, ls
  <1>9. EnabledInv'
    BY <1>1, <1>3, <1>4, <1>7 DEF UnitsInv, EnabledInv, MovesTo, Present, Installing, ls
  <1>10. QED
    BY <1>5, <1>8, <1>9 DEF UnitsInv

\* A unit is enabled, and may be started.
LEMMA UnitsEnable ==
  ASSUME UnitsInv, UNCHANGED <<yaml, files, commands>>, cmd.pc = "enable", AtLoop,
         IsWanted(ThisLoop), cmd' = NextLoop,
         enabled' = enabled \cup {Wanted(cmd.f, ThisLoop)},
         active' \in {active, active \cup {Wanted(cmd.f, ThisLoop)}}
  PROVE  UnitsInv'
  <1> DEFINE f == cmd.f
             ls == cmd.loops
             k == cmd.at
             l == ThisLoop
             u == Wanted(f, l)
  <1>1. Installing
    BY DEF UnitsInv, CommandInv, Installing
  <1>2. /\ k \in Nat \ {0} /\ f \in Fleets /\ ls \in Yamls[f] /\ k \in DOMAIN ls /\ l = ls[k]
        /\ DOMAIN ls = 1..Len(ls) /\ Len(ls) \in Nat
    BY <1>1, LoopFacts DEF ThisLoop
  <1>3. MovesTo("enable", k + 1)
    <2>1. k + 1 \in Nat \ {0}
      BY <1>2
    <2>2. QED
      BY <2>1 DEF MovesTo, NextLoop, Commands, UnitsInv, CommandInv
  <1>4. /\ l \in Range(ls) /\ l \in AllLoops(f) /\ u \in Matches(f) /\ u \in AllUnits
        /\ u.kind = "service" => u = Service(f, l) /\ l.mode = "daemon"
    BY <1>1, <1>2, LoopFacts DEF Wanted, Matches, Timer
  <1>5. UnitsTypeOK'
    <2>1. \A v \in enabled' \cup active' : v \in enabled \cup active \/ v = u
      OBVIOUS
    <2>2. \A v \in enabled' \cup active' : v.kind = "service" =>
            \E g \in Fleets : \E m \in AllLoops(g) : v = Service(g, m) /\ m.mode = "daemon"
      BY <1>2, <1>4, <2>1 DEF UnitsInv, UnitsTypeOK
    <2>3. QED
      BY <1>3, <1>4, <2>2 DEF UnitsInv, UnitsTypeOK, MovesTo
  <1>6. CommandInv' /\ UninstallInv'
    BY <1>1, <1>3 DEF UnitsInv, CommandInv, UninstallInv, MovesTo, Installing
  <1>7. WalkInv'
    BY <1>1, <1>2, <1>3 DEF UnitsInv, WalkInv, Holds, MovesTo
  <1>8. EnabledInv'
    <2>1. u \in Wants(f, ls)
      BY <1>4 DEF Wants
    <2>2. ASSUME NEW i \in DOMAIN ls, IsWanted(ls[i]), i < k + 1
          PROVE  Wanted(f, ls[i]) \in enabled'
      <3>1. CASE i = k
        BY <1>2, <3>1
      <3>2. CASE i < k
        BY <1>1, <2>2, <3>2 DEF UnitsInv, EnabledInv
      <3>3. QED
        BY <1>2, <2>2, <3>1, <3>2
    <2> HIDE DEF u
    <2>3. Present' = Present
      BY DEF Present
    <2>4. QED
      BY <1>1, <1>3, <2>1, <2>2, <2>3 DEF UnitsInv, EnabledInv, MovesTo, Installing, u
  <1>9. QED
    BY <1>5, <1>6, <1>7, <1>8 DEF UnitsInv

LEMMA UnitsSilence ==
  ASSUME UnitsInv, Silence
  PROVE  UnitsInv'
  <1> USE DEF UnitsInv
  <1>1. PICK u \in cmd.left :
          /\ enabled' \in MayDrop(enabled, u) /\ active' \in MayDrop(active, u)
          /\ cmd' = [cmd EXCEPT !.left = @ \ {u},
                                !.slips = @ \cup ({u} \cap (enabled' \cup active'))]
    BY DEF Silence
  <1>2. /\ cmd.pc = "silence" /\ cmd.op = "uninstall" /\ cmd \in Commands
        /\ UNCHANGED <<yaml, files, commands>>
    BY DEF Silence, CommandInv
  <1>3. u \in AllUnits /\ cmd.left \subseteq AllUnits /\ cmd.slips \subseteq AllUnits
    BY <1>1, <1>2 DEF Commands
  <1>4. /\ enabled' \subseteq enabled /\ active' \subseteq active
    BY <1>1 DEF MayDrop
  <1>5. /\ cmd' \in Commands /\ cmd'.pc = "silence" /\ cmd'.op = cmd.op /\ cmd'.f = cmd.f
        /\ cmd'.fresh = cmd.fresh /\ cmd'.left = cmd.left \ {u}
        /\ cmd'.slips = cmd.slips \cup ({u} \cap (enabled' \cup active'))
    BY <1>1, <1>2, <1>3 DEF Commands
  <1>6. UnitsTypeOK'
    BY <1>2, <1>3, <1>4, <1>5 DEF UnitsTypeOK
  <1>7. CommandInv' /\ WalkInv' /\ EnabledInv'
    BY <1>2, <1>5 DEF CommandInv, WalkInv, EnabledInv, Installing
  <1>8. UninstallInv'
    BY <1>2, <1>4, <1>5 DEF UninstallInv
  <1>9. QED
    BY <1>6, <1>7, <1>8

LEMMA UnitsRemove ==
  ASSUME UnitsInv, RemoveOne
  PROVE  UnitsInv'
  <1> USE DEF UnitsInv
  <1>1. PICK u \in cmd.left :
          \/ /\ files' = [files EXCEPT ![u] = <<>>]
             /\ cmd' = [cmd EXCEPT !.left = @ \ {u}]
          \/ /\ cmd' = [cmd EXCEPT !.left = @ \ {u}, !.slips = @ \cup {u}]
             /\ UNCHANGED files
    BY DEF RemoveOne
  <1>2. /\ cmd.pc = "remove" /\ cmd.op = "uninstall" /\ cmd \in Commands
        /\ UNCHANGED <<yaml, enabled, active, commands>>
    BY DEF RemoveOne, CommandInv
  <1>3. u \in AllUnits /\ cmd.left \subseteq AllUnits /\ cmd.slips \subseteq AllUnits
    BY <1>1, <1>2 DEF Commands
  <1>4. /\ files' = [v \in AllUnits |-> files'[v]] /\ Present' \subseteq Present
        /\ u \notin Present' \/ cmd'.slips = cmd.slips \cup {u}
    BY <1>1, <1>2, <1>3 DEF Present, CommandInv, Commands
  <1>5. /\ cmd' \in Commands /\ cmd'.pc = "remove" /\ cmd'.op = cmd.op /\ cmd'.f = cmd.f
        /\ cmd'.fresh = cmd.fresh /\ cmd'.left = cmd.left \ {u}
        /\ cmd.slips \subseteq cmd'.slips /\ cmd'.slips \subseteq AllUnits
    <2>1. CASE cmd' = [cmd EXCEPT !.left = @ \ {u}]
      BY <1>2, <1>3, <2>1 DEF Commands
    <2>2. CASE cmd' = [cmd EXCEPT !.left = @ \ {u}, !.slips = @ \cup {u}]
      BY <1>2, <1>3, <2>2 DEF Commands
    <2>3. QED
      BY <1>1, <2>1, <2>2
  <1>6. UnitsTypeOK'
    BY <1>2, <1>3, <1>4, <1>5 DEF UnitsTypeOK
  <1>7. CommandInv' /\ WalkInv' /\ EnabledInv'
    BY <1>2, <1>4, <1>5 DEF CommandInv, WalkInv, EnabledInv, Installing
  <1>8. UninstallInv'
    BY <1>2, <1>4, <1>5 DEF UninstallInv
  <1>9. QED
    BY <1>6, <1>7, <1>8

\* From stopping to removing, and from removing to done.
LEMMA UnitsOn ==
  ASSUME UnitsInv, UNCHANGED <<yaml, onDisk, commands>>, cmd.left = {},
         \/ /\ cmd.pc = "silence"
            /\ cmd' = [cmd EXCEPT !.pc = "remove", !.left = Matches(cmd.f) \cap Present]
         \/ cmd.pc = "remove" /\ cmd' = [cmd EXCEPT !.pc = "ok"]
  PROVE  UnitsInv'
  <1> USE DEF UnitsInv
  <1>1. cmd.op = "uninstall" /\ cmd \in Commands /\ UNCHANGED <<files, enabled, active>>
    BY DEF CommandInv, onDisk
  <1>2. /\ cmd' \in Commands /\ cmd'.op = cmd.op /\ cmd'.f = cmd.f /\ cmd'.fresh = cmd.fresh
        /\ cmd'.slips = cmd.slips
        /\ \/ cmd.pc = "silence" /\ cmd'.pc = "remove" /\ cmd'.left = Matches(cmd.f) \cap Present
           \/ cmd.pc = "remove" /\ cmd'.pc = "ok" /\ cmd'.left = {}
    BY <1>1 DEF Commands, Present
  <1>3. UnitsTypeOK'
    BY <1>1, <1>2 DEF UnitsTypeOK, Present
  <1>4. CommandInv' /\ WalkInv' /\ EnabledInv'
    BY <1>1, <1>2 DEF CommandInv, WalkInv, EnabledInv, Installing
  <1>5. UninstallInv'
    BY <1>1, <1>2 DEF UninstallInv, Present
  <1>6. QED
    BY <1>3, <1>4, <1>5

LEMMA UnitsCommand ==
  ASSUME UnitsInv, Command
  PROVE  UnitsInv'
  <1>1. DOMAIN yaml = Fleets /\ \A f \in Fleets : yaml[f] \in Yamls[f]
    BY DEF UnitsInv, UnitsTypeOK
  <1>2. \A u, c : /\ [files EXCEPT ![u] = c] = [v \in AllUnits |-> [files EXCEPT ![u] = c][v]]
                  /\ files = [v \in AllUnits |-> files[v]]
    BY DEF UnitsInv, CommandInv
  <1>3. CASE WriteService
    <2>1. CASE ~HasUnits(ThisLoop)
      BY <1>3, <2>1, UnitsWalk DEF WriteService, PassOver, onDisk
    <2>2. CASE HasUnits(ThisLoop) /\ cmd' = Failed
      BY <1>1, <1>2, <1>3, <2>2, UnitsOver DEF WriteService, Writes
    <2>3. CASE HasUnits(ThisLoop) /\ cmd' # Failed
      BY <1>3, <2>3, UnitsWrite DEF WriteService, Writes
    <2>4. QED
      BY <2>1, <2>2, <2>3
  <1>4. CASE WriteTimer
    <2>1. CASE cmd' = Failed
      BY <1>1, <1>2, <1>4, <2>1, UnitsOver DEF WriteTimer, Writes, Fails, onDisk
    <2>2. CASE cmd' # Failed
      BY <1>4, <2>2, UnitsWrite
      DEF WriteTimer, Writes, Fails, UnitsInv, CommandInv, WalkInv, Installing
    <2>3. QED
      BY <2>1, <2>2
  <1>5. CASE Reload
    BY <1>1, <1>2, <1>5, UnitsWalk, UnitsOver DEF Reload, Fails, onDisk
  <1>6. CASE EnableOne
    <2>1. CASE ~IsWanted(ThisLoop)
      BY <1>6, <2>1, UnitsWalk DEF EnableOne, PassOver, onDisk
    <2>2. CASE IsWanted(ThisLoop) /\ cmd' = Failed /\ UNCHANGED onDisk
      BY <1>1, <1>2, <1>6, <2>2, UnitsOver DEF EnableOne, onDisk
    <2>3. CASE IsWanted(ThisLoop) /\ ~(cmd' = Failed /\ UNCHANGED onDisk)
      BY <1>6, <2>3, UnitsEnable DEF EnableOne, Fails
    <2>4. QED
      BY <2>1, <2>2, <2>3
  <1>7. CASE Installed
    BY <1>7, UnitsWalk DEF Installed
  <1>8. CASE Silence
    BY <1>8, UnitsSilence
  <1>9. CASE ReadAgain
    BY <1>1, <1>2, <1>9, UnitsOn, UnitsOver DEF ReadAgain, onDisk
  <1>10. CASE RemoveOne
    BY <1>10, UnitsRemove
  <1>11. CASE Uninstalled
    BY <1>1, <1>2, <1>11, UnitsOn, UnitsOver DEF Uninstalled, onDisk
  <1>12. QED
    BY <1>3, <1>4, <1>5, <1>6, <1>7, <1>8, <1>9, <1>10, <1>11 DEF Command

LEMMA UnitsNext == UnitsInv /\ [Next]_vars => UnitsInv'
  <1> SUFFICES ASSUME UnitsInv, [Next]_vars
               PROVE  UnitsInv'
    OBVIOUS
  <1>1. DOMAIN yaml = Fleets /\ \A f \in Fleets : yaml[f] \in Yamls[f]
    BY DEF UnitsInv, UnitsTypeOK
  <1>2. files = [v \in AllUnits |-> files[v]]
    BY DEF UnitsInv, CommandInv
  <1>3. CASE UNCHANGED unitVars
    BY <1>1, <1>3, UnitsKept DEF unitVars, onDisk
  <1>4. CASE \E f \in Fleets : Start(f)
    BY <1>4, UnitsBegin DEF Start
  <1>5. ASSUME NEW f \in Fleets, Edit(f)
        PROVE  UnitsInv'
    <2>1. DOMAIN yaml' = Fleets /\ \A g \in Fleets : yaml'[g] \in Yamls[g]
      BY <1>1, <1>5 DEF Edit
    <2>2. QED
      BY <1>5, <2>1, UnitsKept DEF Edit, onDisk
  <1>6. CASE Command
    BY <1>6, UnitsCommand
  <1>7. CASE Kill
    BY <1>1, <1>2, <1>7, UnitsOver DEF Kill, onDisk
  <1>8. CASE Restart
    BY <1>1, <1>2, <1>8, UnitsOver DEF Restart, Reboot
  <1>9. QED
    BY <1>3, <1>4, <1>5, <1>6, <1>7, <1>8 DEF Next, vars

LEMMA UnitsAlways == Spec => []UnitsInv
  <1>1. Init => UnitsInv
    BY UnitsStart DEF Init
  <1>2. QED
    BY <1>1, UnitsNext, PTL DEF Spec

\* No trigger is the empty content that stands for a missing file.
LEMMA TriggersSaySomething ==
  \A s \in Schedules : renderTimerTrigger(s) # <<>>
  <1> SUFFICES ASSUME NEW s \in Schedules
               PROVE  renderTimerTrigger(s) # <<>>
    OBVIOUS
  <1>1. intervalTrigger(s[2]) # <<>>
    BY DEF intervalTrigger
  <1>2. s # <<>>
    BY DEF Schedules, None, Bad
  <1>3. QED
    BY <1>1, <1>2 DEF renderTimerTrigger

\* An install that reports success has written and enabled what the fleet.yml it
\* read asks for, and where it began from nothing, nothing else of the fleet, for
\* every fleet.yml that Validate passes (install.go:59-67).
THEOREM InstallsAreExact == Spec => []InstallIsExact
  <1>1. ASSUME UnitsInv
        PROVE  InstallIsExact
    <2>1. UnitsTypeOK
      BY <1>1 DEF UnitsInv
    <2> SUFFICES ASSUME Just("install")
                 PROVE  LET ls == Range(cmd.loops)
                            wanted == {Wanted(cmd.f, l) : l \in {l \in ls : IsWanted(l)}}
                        IN /\ \A l \in {l \in ls : HasUnits(l)} :
                                /\ files[Service(cmd.f, l)] = renderService(cmd.f, l)
                                /\ l.schedule # None => files[Timer(cmd.f, l)] = renderTimerTrigger(l.schedule)
                           /\ wanted \subseteq enabled
                           /\ cmd.fresh =>
                                /\ enabled \cap Matches(cmd.f) = wanted
                                /\ Present \cap Matches(cmd.f) = UnitPaths(cmd.f, cmd.loops)
      BY <2>1 DEF InstallIsExact
    <2>2. Installing /\ cmd.pc = "ok"
      BY DEF Just, Installing
    <2>3. \A l \in Range(cmd.loops) : \E i \in DOMAIN cmd.loops : l = cmd.loops[i]
      BY DEF Range
    <2>4. ASSUME NEW l \in Range(cmd.loops), HasUnits(l)
          PROVE  Holds(l)
      BY <1>1, <2>2, <2>3, <2>4 DEF UnitsInv, WalkInv
    <2>5. \A l \in Range(cmd.loops) : /\ Service(cmd.f, l) \in Matches(cmd.f)
                                      /\ Timer(cmd.f, l) \in Matches(cmd.f)
      BY <1>1, <2>2, <2>3, LoopFacts
    <2>6. Wants(cmd.f, cmd.loops) \subseteq enabled
      BY <1>1, <2>2, <2>3 DEF UnitsInv, EnabledInv, Wants
    <2>7. Wants(cmd.f, cmd.loops) \subseteq Matches(cmd.f)
      BY <2>5 DEF Wants, Wanted
    <2>8. UnitPaths(cmd.f, cmd.loops) \subseteq Present \cap Matches(cmd.f)
      <3>1. \A l \in Range(cmd.loops) : HasUnits(l) =>
              /\ files[Service(cmd.f, l)] # <<>>
              /\ l.schedule # None => files[Timer(cmd.f, l)] # <<>>
        <4>1. \A l \in Range(cmd.loops) : l.schedule \in Schedules
          BY <1>1, <2>2, <2>3, LoopFacts DEF Loops
        <4>2. QED
          BY <2>4, <4>1, TriggersSaySomething DEF Holds, renderService
      <3>2. QED
        BY <2>5, <3>1 DEF UnitPaths, Present, Matches
    <2>9. cmd.fresh => /\ enabled \cap Matches(cmd.f) \subseteq Wants(cmd.f, cmd.loops)
                       /\ Present \cap Matches(cmd.f) \subseteq UnitPaths(cmd.f, cmd.loops)
      BY <1>1, <2>2 DEF UnitsInv, EnabledInv
    <2>10. QED
      BY <2>4, <2>6, <2>7, <2>8, <2>9 DEF Holds, Wants
  <1>2. QED
    BY <1>1, UnitsAlways, PTL

\* An uninstall that reports success has left of the fleet's units only those it
\* failed to act on, or that had lost their file (systemd.go:66-90).
THEOREM UninstallsSilence == Spec => []UninstallSilences
  <1>1. UnitsInv => UninstallSilences
    BY DEF UnitsInv, UninstallInv, UninstallSilences, Just
  <1>2. QED
    BY <1>1, UnitsAlways, PTL

\* No unit of a fleet is enabled while one of them is missing or stale (install.go:59-65).
THEOREM NothingIsHalfInstalled == Spec => NothingHalfInstalled
  <1>1. ASSUME UnitsInv, [Next]_vars, NEW u \in enabled' \ enabled
        PROVE  /\ cmd.op = "install" /\ u \in Matches(cmd.f)
               /\ \A l \in Range(cmd.loops) :
                    /\ l.schedule # Bad
                    /\ HasUnits(l) => files[Service(cmd.f, l)] = renderService(cmd.f, l)
                    /\ l.schedule # None =>
                         files[Timer(cmd.f, l)] = renderTimerTrigger(l.schedule)
    <2>1. EnableOne /\ cmd.pc = "enable" /\ AtLoop /\ u = Wanted(cmd.f, ThisLoop)
      BY <1>1 DEF Next, vars, unitVars, Start, BeginInstall, BeginUninstall, Begin, Edit, Command, Kill,
         Restart, Reboot, onDisk, WriteService, WriteTimer, Writes, PassOver, Fails, Reload,
         EnableOne, Installed, Silence, MayDrop, ReadAgain, RemoveOne, Uninstalled
    <2>2. Installing
      BY <1>1, <2>1 DEF UnitsInv, CommandInv, Installing
    <2>3. u \in Matches(cmd.f)
      BY <1>1, <2>1, <2>2, LoopFacts DEF ThisLoop, Wanted
    <2>4. ASSUME NEW l \in Range(cmd.loops)
          PROVE  HasUnits(l) => Holds(l)
      BY <1>1, <2>1, <2>2 DEF Range, UnitsInv, WalkInv
    <2>5. Bad # None
      BY DEF Bad, None
    <2>6. QED
      BY <2>2, <2>3, <2>4, <2>5 DEF HasUnits, Holds, Installing
  <1>2. UnitsInv /\ [Next]_vars =>
          [\A u \in enabled' \ enabled :
             /\ cmd.op = "install" /\ u \in Matches(cmd.f)
             /\ \A l \in Range(cmd.loops) :
                  /\ l.schedule # Bad
                  /\ HasUnits(l) => files[Service(cmd.f, l)] = renderService(cmd.f, l)
                  /\ l.schedule # None =>
                       files[Timer(cmd.f, l)] = renderTimerTrigger(l.schedule)]_unitVars
    BY <1>1
  <1>3. QED
    BY <1>2, UnitsAlways, PTL DEF Spec, NothingHalfInstalled

-----------------------------------------------------------------------------
(* The triggers                                                              *)

\* Numbers have a least one among them, and of two there is a greater.
LEMMA MinIsLeast ==
  ASSUME NEW S, S \subseteq Nat, S # {}
  PROVE  Min(S) \in S /\ \A y \in S : Min(S) <= y
  <1> DEFINE R == {ss \in Nat \X Nat : ss[1] < ss[2]}
  <1>1. IsWellFoundedOn(R, Nat)
    BY NatLessThanWellFounded DEF OpToRel
  <1>2. \A x, y \in Nat : <<y, x>> \in R <=> y < x
    OBVIOUS
  <1> HIDE DEF R
  <1>3. PICK x \in S : \A y \in S : ~(<<y, x>> \in R)
    BY <1>1, WFMin
  <1>4. ASSUME NEW y \in S
        PROVE  x <= y
    <2>1. x \in Nat /\ y \in Nat /\ ~(<<y, x>> \in R)
      BY <1>3
    <2>2. ~(y < x)
      BY <1>2, <2>1
    <2>3. QED
      BY <2>1, <2>2
  <1>5. QED
    BY <1>4 DEF Min

LEMMA MaxOfTwo ==
  ASSUME NEW a \in Nat, NEW b \in Nat
  PROVE  Max({a, b}) = IF a >= b THEN a ELSE b
  <1>1. \A x \in {a, b} : (\A y \in {a, b} : x >= y) => x = IF a >= b THEN a ELSE b
    OBVIOUS
  <1>2. \E x \in {a, b} : \A y \in {a, b} : x >= y
    OBVIOUS
  <1>3. QED
    BY <1>1, <1>2 DEF Max

\* snapDivisor finds the next divisor, and there is one until the period itself.
LEMMA NextDivisor ==
  ASSUME NEW n \in Nat, NEW period \in {24, 60}
  PROVE  LET d == snapDivisor(n, period)
         IN /\ d \in 1..period /\ period % d = 0
            /\ n <= d \/ d = period
            /\ \A i \in 1..period : period % i = 0 /\ i < d => i < n
  <1> DEFINE S == {i \in Max({n, 1})..period : period % i = 0} \cup {period}
             d == snapDivisor(n, period)
  <1>1. Max({n, 1}) = IF n >= 1 THEN n ELSE 1
    BY MaxOfTwo
  <1>2. S \subseteq Nat /\ S # {}
    BY <1>1
  <1>3. d \in S /\ \A y \in S : d <= y
    BY <1>2, MinIsLeast DEF snapDivisor
  <1>4. 24 % 24 = 0 /\ 60 % 60 = 0
    OBVIOUS
  <1>5. QED
    BY <1>1, <1>3, <1>4

\* A divisor of the hour that is not the hour is no more than half of it.
LEMMA DivisorsOfTheHour ==
  ASSUME NEW d \in 1..59, 60 % d = 0
  PROVE  d <= 30
  <1>1. d \notin 31..45
    BY d \in {31, 32, 33, 34, 35, 36, 37, 38, 39, 40, 41, 42, 43, 44, 45} => 60 % d # 0
  <1>2. d \notin 46..59
    OBVIOUS
  <1>3. QED
    BY <1>1, <1>2

\* For every number of seconds up to a day, the gap of the trigger repeats evenly, is
\* not shorter beyond the roundings, and is the next such gap; for every greater
\* number it is a day (StandsFor; systemd.go:283-325).
THEOREM TriggersStandFor ==
  ASSUME NEW secs \in Nat
  PROVE  StandsFor(intervalTrigger(secs), secs)
  <1> DEFINE q == (secs + 30) \div 60
             mins == Max({q, 1})
             step == snapDivisor(mins, 60)
             n == (Max({mins, 60}) + 30) \div 60
             h == snapDivisor(n, 24)
             t == intervalTrigger(secs)
             owed == secs - (IF secs < 3570 THEN 30 ELSE 1800)
  <1>1. q \in Nat /\ 60 * q <= secs + 30 /\ secs + 30 < 60 * q + 60
    OBVIOUS
  <1>2. mins \in Nat /\ mins = IF q >= 1 THEN q ELSE 1
    <2> HIDE DEF q
    <2>1. QED
      BY <1>1, MaxOfTwo
  <1>3. /\ Max({mins, 60}) = IF mins >= 60 THEN mins ELSE 60
    <2> HIDE DEF mins
    <2>1. QED
      BY <1>2, MaxOfTwo
  <1>4. n \in Nat /\ IF mins >= 60 THEN 60 * n <= mins + 30 /\ mins + 30 < 60 * n + 60 ELSE n = 1
    <2> HIDE DEF mins
    <2>1. QED
      BY <1>2, <1>3
  <1>5. /\ step \in 1..60 /\ 60 % step = 0 /\ (mins <= step \/ step = 60)
        /\ \A i \in 1..60 : 60 % i = 0 /\ i < step => i < mins
    BY <1>2, NextDivisor
  <1>6. /\ h \in 1..24 /\ 24 % h = 0 /\ (n <= h \/ h = 24)
        /\ \A i \in 1..24 : 24 % i = 0 /\ i < h => i < n
    BY <1>4, NextDivisor
  <1>7. t = IF mins < 60 /\ step < 60 THEN <<"minutes", step>> ELSE <<"hours", h>>
    BY DEF intervalTrigger
  <1>8. /\ owed \in Int /\ owed <= secs - 30
        /\ secs >= 3570 => owed = secs - 1800
    OBVIOUS
  <1> HIDE DEF q, mins, step, n, h, t, owed
  <1>9. ASSUME NEW g \in EvenGaps
         PROVE  \/ g \in 1..30 /\ 60 % g = 0
                \/ \E k \in 1..24 : g = 60 * k /\ 24 % k = 0
    BY DEF EvenGaps
  <1>11. CASE mins < 60 /\ step < 60
    <2>1. Gap(t) = step
      BY <1>7, <1>11 DEF Gap
    <2>2. step \in 1..30
      BY <1>5, <1>11, DivisorsOfTheHour
    <2>3. step \in EvenGaps
      BY <1>5, <2>2 DEF EvenGaps
    <2>4. 60 * step >= owed /\ secs <= Day
      BY <1>1, <1>2, <1>5, <1>8, <1>11 DEF Day
    <2>5. ASSUME NEW g \in EvenGaps, g < step
          PROVE  60 * g < secs + 30
      <3>1. g \in 1..30 /\ 60 % g = 0
        BY <1>9, <2>2, <2>5
      <3>2. g < mins
        BY <1>5, <2>5, <3>1
      <3>3. QED
        BY <1>1, <1>2, <3>1, <3>2
    <2>6. QED
      BY <2>1, <2>3, <2>4, <2>5 DEF StandsFor, owed, t
  <1>12. CASE ~(mins < 60 /\ step < 60)
    <2>1. Gap(t) = 60 * h
      BY <1>7, <1>12 DEF Gap
    <2>2. 60 * h \in EvenGaps
      BY <1>6 DEF EvenGaps
    <2>3. IF secs <= Day THEN 60 * (60 * h) >= owed ELSE 60 * (60 * h) = Day
      <3>1. CASE mins < 60
        BY <1>1, <1>2, <1>6, <1>8, <3>1 DEF Day
      <3>2. CASE mins >= 60 /\ n <= h
        BY <1>1, <1>2, <1>4, <1>6, <1>8, <3>2 DEF Day
      <3>3. CASE h = 24
        BY <1>8, <3>3 DEF Day
      <3>4. QED
        BY <1>2, <1>6, <3>1, <3>2, <3>3
    <2>4. ASSUME NEW g \in EvenGaps, g < 60 * h
          PROVE  60 * g < secs + 30
      <3>1. CASE g \in 1..30 /\ 60 % g = 0 /\ mins < 60
        <4>1. g < mins
          BY <1>5, <1>12, <3>1
        <4>2. QED
          BY <1>1, <1>2, <3>1, <4>1
      <3>2. CASE g \in 1..30 /\ mins >= 60
        BY <1>1, <1>2, <3>2
      <3>3. ASSUME NEW k \in 1..24, g = 60 * k, 24 % k = 0
            PROVE  60 * g < secs + 30
        <4>1. k < h
          BY <1>6, <2>4, <3>3
        <4>2. k < n
          BY <1>6, <3>3, <4>1
        <4>3. mins >= 60
          BY <1>2, <1>4, <3>3, <4>2
        <4>4. QED
          BY <1>1, <1>2, <1>4, <3>3, <4>2, <4>3
      <3>4. QED
        BY <1>2, <1>9, <3>1, <3>2, <3>3
    <2>5. QED
      BY <2>1, <2>2, <2>3, <2>4 DEF StandsFor, owed, t
  <1>13. QED
    BY <1>11, <1>12

\* So does the one in the timer that an install leaves (systemd.go:283-325).
THEOREM TimersKeepTheTime == Spec => []TimersKeepTime
  <1>1. ASSUME UnitsInv
        PROVE  TimersKeepTime
    <2>1. \A t \in 1..MaxMinutes : \A secs \in {60 * t - 31, 60 * t - 30, 60 * t} :
            StandsFor(intervalTrigger(secs), secs)
      <3>1. \A t \in 1..MaxMinutes : \A secs \in {60 * t - 31, 60 * t - 30, 60 * t} : secs \in Nat
        BY DeployAssumption
      <3>2. QED
        BY <3>1, TriggersStandFor
    <2>2. ASSUME Just("install"), NEW l \in Range(cmd.loops), l.schedule[1] = "every"
          PROVE  StandsFor(files[Timer(cmd.f, l)], l.schedule[2])
      <3>1. Installing /\ cmd.pc = "ok"
        BY <2>2 DEF Just, Installing
      <3>2. PICK i \in DOMAIN cmd.loops : l = cmd.loops[i]
        BY DEF Range
      <3>3. l.schedule \in Schedules
        BY <1>1, <3>1, <3>2, LoopFacts DEF Loops
      <3>4. l.schedule # None /\ l.schedule[2] \in Nat
        BY <2>2, <3>3 DEF Schedules, None, Bad
      <3>5. files[Timer(cmd.f, l)] = renderTimerTrigger(l.schedule)
        BY <1>1, <3>1, <3>2, <3>4 DEF UnitsInv, WalkInv, HasUnits, Holds
      <3>6. QED
        BY <2>2, <3>4, <3>5, TriggersStandFor DEF renderTimerTrigger
    <2>3. QED
      BY <2>1, <2>2 DEF TimersKeepTime
  <1>2. QED
    BY <1>1, UnitsAlways, PTL
=============================================================================
