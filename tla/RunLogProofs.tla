----------------------------- MODULE RunLogProofs -----------------------------
(***************************************************************************)
(* The run log keeps what it is there for, for any number of processes,    *)
(* any retention and any number of older runs: however appends, trims,     *)
(* migrations and deaths interleave.                                       *)
(***************************************************************************)
EXTENDS RunLog, SequenceTheorems, TLAPS

-----------------------------------------------------------------------------
(* The inductive invariant                                                    *)

\* The lock, and what may be in the files.
PlaceInv ==
  /\ TypeOK
  /\ Legacy < next
  /\ legacy \in {<<>>, [n \in 1..Legacy |-> n]}
  /\ \A p \in Procs : pc[p] \in {"migrateRename", "compactRename"} => tmp = read[p]

\* Until one migration is over nobody has the store open, so nothing is recorded,
\* and the log has nothing but what migrations that died have put there.
BeforeInv ==
  /\ legacy # <<>> =>
       /\ next = Legacy + 1
       /\ \A p \in Procs : pc[p] \in {"out"} \cup InMigration
       /\ \A n \in 1..Len(log) : log[n] <= Legacy
       /\ again \/ log = <<>> \/ \E p \in Procs : pc[p] = "migrateDrop"
  /\ \A p \in Procs : pc[p] \in {"migrateWrite", "migrateRename", "migrateDrop"} => legacy # <<>>

\* Newest last, but for older versions' runs that were migrated twice; and no run has
\* more behind it than were recorded after it.
InLine(ls) ==
  /\ \A m, n \in 1..Len(ls) : m < n => ls[m] < ls[n] \/ (again /\ ls[m] <= Legacy)
  /\ \A n \in 1..Len(ls) : Legacy < ls[n] => ls[n] + (Len(ls) - n) < next

\* No recorded run is missing without a reason.
HasNew(ls) ==
  \A r \in (Legacy + 1)..(next - 1) : In(r, ls) \/ r \in raced \/ (Keep > 0 /\ next - 1 - r >= Keep)

\* No run of an older version is.
HasOld(ls) == \A r \in 1..Legacy : In(r, ls) \/ (Keep > 0 /\ Len(ls) >= Keep)

\* Never less than there was, unless enough.
NoLess(ls) == Len(log) <= Len(ls) \/ (Keep > 0 /\ Len(ls) >= Keep)

\* What is in the log, and what will be.
LogInv ==
  /\ InLine(log) /\ HasNew(log)
  /\ legacy = <<>> => HasOld(log)
  /\ \A p \in Procs :
       /\ pc[p] \in Rewriting => InLine(read[p]) /\ HasNew(read[p]) /\ HasOld(read[p]) /\ NoLess(read[p])
       /\ pc[p] = "migrateDrop" => HasOld(log)
       /\ pc[p] \in {"compactWrite", "compactRename"} => Keep > 0 /\ Len(read[p]) >= Keep
       /\ pc[p] \in {"migrateWrite", "migrateRename"} => \A n \in 1..Len(read[p]) : read[p][n] <= Legacy

LogIInv == PlaceInv /\ BeforeInv /\ LogInv

-----------------------------------------------------------------------------
(* What reading the log and adding to it do to its lines                       *)

\* Newest is a tail: the same lines, from some place on.
LEMMA NewestIsTail ==
  ASSUME NEW S, NEW ls \in Seq(S)
  PROVE  /\ Newest(ls) \in Seq(S)
         /\ \E k \in 0..Len(ls) :
              /\ Len(Newest(ls)) = Len(ls) - k
              /\ \A n \in 1..Len(Newest(ls)) : Newest(ls)[n] = ls[n + k]
              /\ k = 0 \/ (Keep > 0 /\ Len(Newest(ls)) = Keep)
<1> PICK ms : ms = Newest(ls)
  OBVIOUS
<1>0. Len(ls) \in Nat /\ Keep \in Nat /\ \A n \in 1..Len(ls) : ls[n] \in S
  BY RunLogAssumption
<1>1. CASE Keep > 0 /\ Len(ls) > Keep
  <2> PICK k \in Nat : k = Len(ls) - Keep
    BY <1>0, <1>1
  <2>1. ms = SubSeq(ls, k + 1, Len(ls))
    BY <1>1 DEF Newest
  <2>2. \A i \in (k + 1)..Len(ls) : ls[i] \in S
    BY <1>0
  <2>3. /\ ms \in Seq(S) /\ Len(ms) = Len(ls) - (k + 1) + 1
        /\ \A i \in 1..(Len(ls) - (k + 1) + 1) : ms[i] = ls[(k + 1) + i - 1]
    BY <1>0, <1>1, <2>1, <2>2, SubSeqProperties
  <2>4. Len(ls) - (k + 1) + 1 = Len(ls) - k /\ k \in 0..Len(ls) /\ Len(ls) - k = Keep
    BY <1>0, <1>1
  <2>5. Len(ms) = Len(ls) - k
    BY <2>3, <2>4
  <2>6. ASSUME NEW i \in 1..Len(ms) PROVE ms[i] = ls[i + k]
    <3>1. i \in 1..(Len(ls) - (k + 1) + 1) /\ (k + 1) + i - 1 = i + k
      BY <2>4, <2>5, <1>0
    <3> QED BY <2>3, <3>1
  <2> QED BY <1>1, <2>3, <2>4, <2>5, <2>6
<1>2. CASE ~(Keep > 0 /\ Len(ls) > Keep)
  <2>1. ms = ls
    BY <1>2 DEF Newest
  <2> QED BY <1>0, <2>1
<1> QED BY <1>1, <1>2

\* A tail is in line, and a line it lost that was recorded has Keep behind it.
LEMMA TailInLine ==
  ASSUME PlaceInv, NEW ls \in Lines, InLine(ls), HasNew(ls), NEW ms, ms = Newest(ls)
  PROVE  ms \in Lines /\ InLine(ms) /\ HasNew(ms)
<1>0. /\ Len(ls) \in Nat /\ Keep \in Nat /\ Legacy \in Nat /\ next \in Nat
      /\ \A n \in 1..Len(ls) : ls[n] \in Nat
  BY RunLogAssumption DEF Lines, PlaceInv, TypeOK
<1> PICK k \in 0..Len(ls) : /\ Len(ms) = Len(ls) - k
                            /\ \A n \in 1..Len(ms) : ms[n] = ls[n + k]
                            /\ k = 0 \/ (Keep > 0 /\ Len(ms) = Keep)
  BY NewestIsTail DEF Lines
<1>1. ms \in Lines
  BY NewestIsTail DEF Lines
<1>2. InLine(ms)
  <2>1. ASSUME NEW m \in 1..Len(ms), NEW n \in 1..Len(ms), m < n
        PROVE  ms[m] < ms[n] \/ (again /\ ms[m] <= Legacy)
    <3>1. m + k \in 1..Len(ls) /\ n + k \in 1..Len(ls) /\ m + k < n + k
      BY <1>0, <2>1
    <3> QED BY <3>1 DEF InLine
  <2>2. ASSUME NEW n \in 1..Len(ms), Legacy < ms[n]
        PROVE  ms[n] + (Len(ms) - n) < next
    <3>1. n + k \in 1..Len(ls) /\ ms[n] = ls[n + k]
      BY <1>0
    <3>2. ls[n + k] + (Len(ls) - (n + k)) < next
      BY <2>2, <3>1 DEF InLine
    <3> QED BY <1>0, <3>1, <3>2
  <2> QED BY <2>1, <2>2 DEF InLine
<1>3. HasNew(ms)
  <2> SUFFICES ASSUME NEW r \in (Legacy + 1)..(next - 1), r \notin raced,
                      ~(Keep > 0 /\ next - 1 - r >= Keep)
               PROVE  In(r, ms)
    BY DEF HasNew
  <2>1. PICK n \in 1..Len(ls) : ls[n] = r
    BY DEF HasNew, In
  <2>2. ls[n] + (Len(ls) - n) < next
    BY <1>0, <2>1 DEF InLine
  <2>3. k < n
    BY <1>0, <2>1, <2>2
  <2>4. n - k \in 1..Len(ms) /\ ms[n - k] = ls[n]
    BY <1>0, <2>3
  <2> QED BY <2>1, <2>4 DEF In
<1> QED BY <1>1, <1>2, <1>3

\* A tail is not shorter than what was there, or long enough.
LEMMA TailIsEnough ==
  ASSUME NEW S, NEW ls \in Seq(S), NEW ms, ms = Newest(ls)
  PROVE  /\ Len(ms) = Len(ls) \/ (Keep > 0 /\ Len(ms) >= Keep)
         /\ \A r : In(r, ls) => In(r, ms) \/ (Keep > 0 /\ Len(ms) >= Keep)
<1>1. Keep \in Nat /\ Len(ls) \in Nat
  BY RunLogAssumption
<1> PICK k \in 0..Len(ls) : /\ Len(ms) = Len(ls) - k
                            /\ \A n \in 1..Len(ms) : ms[n] = ls[n + k]
                            /\ k = 0 \/ (Keep > 0 /\ Len(ms) = Keep)
  BY NewestIsTail
<1>2. CASE k = 0
  BY <1>1, <1>2 DEF In
<1>3. CASE Keep > 0 /\ Len(ms) = Keep
  BY <1>1, <1>3
<1> QED BY <1>2, <1>3

\* A run is appended.
LEMMA AppendKeeps ==
  ASSUME PlaceInv, next <= MaxRuns, next' = next + 1, raced \subseteq raced', UNCHANGED again,
         NEW ls \in Lines, InLine(ls), HasNew(ls), NEW ms, ms = Append(ls, next)
  PROVE  /\ ms \in Lines /\ InLine(ms)' /\ HasNew(ms)' /\ Len(ms) = Len(ls) + 1
         /\ \A r : In(r, ls) => In(r, ms)
<1>0. /\ Len(ls) \in Nat /\ Legacy \in Nat /\ MaxRuns \in Nat /\ next \in Nat /\ Legacy < next
      /\ \A n \in 1..Len(ls) : ls[n] \in Nat
  BY RunLogAssumption DEF Lines, PlaceInv, TypeOK
<1> PICK end \in Nat : end = Len(ls) + 1
  BY <1>0
<1>1. next \in 1..(Legacy + MaxRuns)
  BY <1>0
<1>2. /\ ms \in Lines /\ Len(ms) = end /\ ms[end] = next
      /\ \A n \in 1..Len(ls) : ms[n] = ls[n]
  BY <1>1, AppendProperties DEF Lines
<1>3. 1..end = (1..Len(ls)) \cup {end}
  BY <1>0
<1>4. \A r : In(r, ls) => In(r, ms)
  BY <1>2, <1>3 DEF In
<1>5. InLine(ms)'
  <2>1. ASSUME NEW n \in 1..Len(ls) PROVE ls[n] < next
    <3>1. Legacy < ls[n] => ls[n] + (Len(ls) - n) < next
      BY DEF InLine
    <3> QED BY <1>0, <3>1
  <2>2. ASSUME NEW m \in 1..end, NEW n \in 1..end, m < n
        PROVE  ms[m] < ms[n] \/ (again' /\ ms[m] <= Legacy)
    <3>1. m \in 1..Len(ls)
      BY <1>0, <2>2
    <3>2. CASE n \in 1..Len(ls)
      BY <1>2, <2>2, <3>1, <3>2 DEF InLine
    <3>3. CASE n = end
      BY <1>2, <2>1, <3>1, <3>3
    <3> QED BY <1>3, <3>2, <3>3
  <2>3. ASSUME NEW n \in 1..end, Legacy < ms[n] PROVE ms[n] + (end - n) < next'
    <3>1. CASE n \in 1..Len(ls)
      <4>1. ls[n] + (Len(ls) - n) < next
        BY <1>2, <2>3, <3>1 DEF InLine
      <4> QED BY <1>0, <1>2, <3>1, <4>1
    <3>2. CASE n = end
      BY <1>0, <1>2, <3>2
    <3> QED BY <1>3, <3>1, <3>2
  <2> QED BY <1>2, <2>2, <2>3 DEF InLine
<1>6. HasNew(ms)'
  <2> SUFFICES ASSUME NEW r \in (Legacy + 1)..(next' - 1)
               PROVE  In(r, ms) \/ r \in raced' \/ (Keep > 0 /\ next' - 1 - r >= Keep)
    BY DEF HasNew, In
  <2>1. CASE r = next
    <3>1. end \in 1..Len(ms)
      BY <1>2, <1>3
    <3> QED BY <1>2, <2>1, <3>1 DEF In
  <2>2. CASE r # next
    <3>1. r \in (Legacy + 1)..(next - 1)
      BY <1>0, <2>2
    <3>2. In(r, ls) \/ r \in raced \/ (Keep > 0 /\ next - 1 - r >= Keep)
      BY <3>1 DEF HasNew
    <3> QED BY <1>0, <1>4, <3>2, RunLogAssumption
  <2> QED BY <2>1, <2>2
<1> QED BY <1>2, <1>4, <1>5, <1>6

\* A run is written elsewhere, and raced.
LEMMA RaceKeeps ==
  ASSUME PlaceInv, next' = next + 1, raced' = raced \cup {next}, UNCHANGED again,
         NEW ls \in Lines, InLine(ls), HasNew(ls)
  PROVE  InLine(ls)' /\ HasNew(ls)'
<1>0. /\ Len(ls) \in Nat /\ Legacy \in Nat /\ next \in Nat /\ Keep \in Nat
      /\ \A n \in 1..Len(ls) : ls[n] \in Nat
  BY RunLogAssumption DEF Lines, PlaceInv, TypeOK
<1>1. InLine(ls)'
  <2>1. ASSUME NEW n \in 1..Len(ls), Legacy < ls[n] PROVE ls[n] + (Len(ls) - n) < next'
    BY <1>0, <2>1 DEF InLine
  <2> QED BY <2>1 DEF InLine
<1>2. HasNew(ls)'
  <2> SUFFICES ASSUME NEW r \in (Legacy + 1)..(next' - 1)
               PROVE  In(r, ls) \/ r \in raced' \/ (Keep > 0 /\ next' - 1 - r >= Keep)
    BY DEF HasNew, In
  <2>1. CASE r # next
    <3>1. r \in (Legacy + 1)..(next - 1)
      BY <1>0, <2>1
    <3>2. In(r, ls) \/ r \in raced \/ (Keep > 0 /\ next - 1 - r >= Keep)
      BY <3>1 DEF HasNew
    <3> QED BY <1>0, <3>2
  <2> QED BY <2>1
<1> QED BY <1>1, <1>2

-----------------------------------------------------------------------------
(* The invariant holds, and every step keeps it                               *)

LEMMA InitHolds == Init => LogIInv
<1> SUFFICES ASSUME Init PROVE LogIInv
  OBVIOUS
<1>0. Legacy \in Nat /\ MaxRuns \in Nat /\ Nobody \notin Procs
  BY RunLogAssumption
<1>1. <<>> \in Lines /\ Len(<<>>) = 0
  BY DEF Lines
<1>2. legacy \in Lines /\ Len(legacy) = Legacy
  <2>1. \A n \in 1..Legacy : n \in 1..(Legacy + MaxRuns)
    BY <1>0
  <2> QED BY <1>0, <2>1, IsASeq, LenProperties DEF Init, Lines
<1>3. PlaceInv
  <2>1. /\ log \in Lines /\ tmp \in Lines \cup {NoFile} /\ legacy \in Lines
        /\ read \in [Procs -> Lines]
    BY <1>1, <1>2 DEF Init
  <2>2. /\ lock \in Procs \cup {Nobody}
        /\ pc \in [Procs -> {"out", "up", "opened", "big"} \cup InMigration \cup InCompaction]
        /\ \A q \in Procs : lock = q <=> pc[q] \in InMigration \cup InCompaction
        /\ stale \subseteq {q \in Procs : pc[q] = "opened"}
        /\ \A q \in Procs : pc[q] \notin {"migrateRename", "compactRename"}
    BY <1>0 DEF Init, InMigration, InCompaction
  <2>3. next \in Nat /\ Legacy < next /\ raced \subseteq 1..(next - 1) /\ again \in BOOLEAN
    <3>1. next = Legacy + 1 /\ raced = {}
      BY DEF Init
    <3>2. again \in BOOLEAN
      BY DEF Init
    <3> QED BY <1>0, <3>1, <3>2
  <2>4. TypeOK
    BY <2>1, <2>2, <2>3 DEF TypeOK
  <2>5. legacy \in {<<>>, [n \in 1..Legacy |-> n]}
    BY DEF Init
  <2> QED BY <2>2, <2>3, <2>4, <2>5 DEF PlaceInv
<1>4. BeforeInv
  BY <1>1 DEF Init, BeforeInv
<1>5. log = <<>> /\ InLine(log) /\ HasNew(log)
  BY <1>0, <1>1 DEF Init, InLine, HasNew
<1>6. legacy = <<>> => HasOld(log)
  BY <1>0, <1>1, <1>2 DEF HasOld
<1>7. LogInv
  BY <1>5, <1>6 DEF Init, LogInv, Rewriting
<1> QED BY <1>3, <1>4, <1>7 DEF LogIInv

\* Whoever is at work on the log is the only one.
LEMMA OneAtWork ==
  ASSUME PlaceInv, NEW p \in Procs, pc[p] \in InMigration \cup InCompaction
  PROVE  \A q \in Procs \ {p} : pc[q] \notin InMigration \cup InCompaction
BY DEF PlaceInv, TypeOK

\* What a process reads is of lines.
LEMMA ReadsLines ==
  ASSUME PlaceInv
  PROVE  Newest(log) \in Lines /\ Newest(log \o legacy) \in Lines
<1>1. log \in Lines /\ log \o legacy \in Lines
  BY ConcatProperties DEF PlaceInv, TypeOK, Lines
<1> QED BY <1>1, NewestIsTail DEF Lines

LEMMA PlaceStep ==
  ASSUME PlaceInv, NEW p \in Procs, Step(p)
  PROVE  PlaceInv'
<1>0. Legacy \in Nat /\ MaxRuns \in Nat /\ Nobody \notin Procs
  BY RunLogAssumption
<1> USE DEF PlaceInv, TypeOK, InMigration, InCompaction
<1>a. <<>> \in Lines
  BY DEF Lines
<1>1. CASE OpenLock(p)
  BY <1>0, <1>1 DEF OpenLock, Goto
<1>2. CASE NothingToMigrate(p)
  BY <1>0, <1>2, <1>a DEF NothingToMigrate, Goto, Leave, Held
<1>3. CASE MigrateRead(p)
  BY <1>0, <1>3, ReadsLines DEF MigrateRead, Goto
<1>4. CASE MigrateWrite(p)
  BY <1>0, <1>4 DEF MigrateWrite, Goto
<1>5. CASE MigrateRename(p)
  BY <1>0, <1>5 DEF MigrateRename, Goto, Replace
<1>6. CASE MigrateDrop(p)
  BY <1>0, <1>6, <1>a DEF MigrateDrop, Goto, Leave, Held
<1>7. CASE AppendOpen(p)
  BY <1>0, <1>7 DEF AppendOpen, Goto
<1>8. CASE AppendWrite(p)
  <2>1. next \in 1..(Legacy + MaxRuns)
    BY <1>0, <1>8 DEF AppendWrite
  <2>2. Append(log, next) \in Lines
    BY <2>1, AppendProperties DEF Lines
  <2>3. CASE Leave(p, "up")
    BY <1>0, <1>8, <1>a, <2>2, <2>3 DEF AppendWrite, Goto, Leave, Held
  <2>4. CASE Goto(p, "big") /\ stale' = stale \ {p} /\ UNCHANGED <<lock, read>>
    BY <1>0, <1>8, <2>2, <2>4 DEF AppendWrite, Goto
  <2> QED BY <1>8, <2>3, <2>4 DEF AppendWrite
<1>9. CASE CompactLock(p)
  BY <1>0, <1>9 DEF CompactLock, Goto
<1>10. CASE CompactRead(p)
  BY <1>0, <1>10, <1>a, ReadsLines DEF CompactRead, Goto, Leave, Held
<1>11. CASE CompactWrite(p)
  BY <1>0, <1>11 DEF CompactWrite, Goto
<1>12. CASE CompactRename(p)
  BY <1>0, <1>12, <1>a DEF CompactRename, Goto, Replace
<1>13. CASE Die(p)
  BY <1>0, <1>13, <1>a DEF Die, Goto, Leave, Held
<1> QED
  BY <1>1, <1>2, <1>3, <1>4, <1>5, <1>6, <1>7, <1>8, <1>9, <1>10, <1>11, <1>12, <1>13 DEF Step

LEMMA BeforeStep ==
  ASSUME PlaceInv, BeforeInv, LogInv, NEW p \in Procs, Step(p)
  PROVE  BeforeInv'
<1>0. pc \in [Procs -> {"out", "up", "opened", "big"} \cup InMigration \cup InCompaction]
  BY DEF PlaceInv, TypeOK
<1>a. pc[p] \notin {"out"} \cup InMigration => legacy = <<>>
  BY DEF BeforeInv
<1>b. pc[p] \in InMigration \cup InCompaction
        => \A q \in Procs \ {p} : pc[q] \notin InMigration \cup InCompaction
  BY OneAtWork
<1> USE DEF BeforeInv, InMigration, InCompaction
<1>1. CASE OpenLock(p)
  BY <1>0, <1>1 DEF OpenLock, Goto
<1>2. CASE NothingToMigrate(p)
  BY <1>0, <1>2 DEF NothingToMigrate, Goto, Leave
<1>3. CASE MigrateRead(p)
  BY <1>0, <1>3 DEF MigrateRead, Goto
<1>4. CASE MigrateWrite(p)
  BY <1>0, <1>4 DEF MigrateWrite, Goto
<1>5. CASE MigrateRename(p)
  <2>1. log' = read[p] /\ \A n \in 1..Len(read[p]) : read[p][n] <= Legacy
    BY <1>5 DEF MigrateRename, Replace, PlaceInv, LogInv
  <2> QED BY <1>0, <1>5, <2>1 DEF MigrateRename, Goto
<1>6. CASE MigrateDrop(p)
  BY <1>0, <1>6, <1>b DEF MigrateDrop, Goto, Leave
<1>7. CASE AppendOpen(p)
  BY <1>0, <1>7, <1>a DEF AppendOpen, Goto
<1>8. CASE AppendWrite(p)
  BY <1>0, <1>8, <1>a DEF AppendWrite, Goto, Leave
<1>9. CASE CompactLock(p)
  BY <1>0, <1>9, <1>a DEF CompactLock, Goto
<1>10. CASE CompactRead(p)
  BY <1>0, <1>10, <1>a DEF CompactRead, Goto, Leave
<1>11. CASE CompactWrite(p)
  BY <1>0, <1>11, <1>a DEF CompactWrite, Goto
<1>12. CASE CompactRename(p)
  BY <1>0, <1>12, <1>a DEF CompactRename, Goto
<1>13. CASE Die(p)
  BY <1>0, <1>13 DEF Die, Goto, Leave
<1> QED
  BY <1>1, <1>2, <1>3, <1>4, <1>5, <1>6, <1>7, <1>8, <1>9, <1>10, <1>11, <1>12, <1>13 DEF Step

\* A step that leaves the log and the lines read alone.
LEMMA Quiet ==
  ASSUME LogInv, UNCHANGED <<log, next, raced>>, again => again', legacy' = <<>> => HasOld(log),
         \A q \in Procs :
           /\ pc'[q] \in Rewriting => pc[q] \in Rewriting /\ read'[q] = read[q]
           /\ pc'[q] = "migrateDrop" => pc[q] = "migrateDrop"
           /\ pc'[q] \in {"compactWrite", "compactRename"} => pc[q] \in {"compactWrite", "compactRename"}
           /\ pc'[q] \in {"migrateWrite", "migrateRename"} => pc[q] \in {"migrateWrite", "migrateRename"}
  PROVE  LogInv'
<1>1. \A ls : (InLine(ls) => InLine(ls)') /\ (HasNew(ls) => HasNew(ls)') /\ (HasOld(ls) => HasOld(ls)')
  BY DEF InLine, HasNew, HasOld, In
<1>2. InLine(log)' /\ HasNew(log)' /\ (legacy' = <<>> => HasOld(log)')
  BY DEF LogInv, InLine, HasNew, HasOld, In
<1>3. ASSUME NEW q \in Procs
      PROVE  /\ (pc[q] \in Rewriting => InLine(read[q]) /\ HasNew(read[q]) /\ HasOld(read[q]) /\ NoLess(read[q]))'
             /\ (pc[q] = "migrateDrop" => HasOld(log))'
             /\ (pc[q] \in {"compactWrite", "compactRename"} => Keep > 0 /\ Len(read[q]) >= Keep)'
             /\ (pc[q] \in {"migrateWrite", "migrateRename"} => \A n \in 1..Len(read[q]) : read[q][n] <= Legacy)'
  <2>1. ASSUME pc'[q] \in Rewriting
        PROVE  (InLine(read[q]) /\ HasNew(read[q]) /\ HasOld(read[q]) /\ NoLess(read[q]))'
    <3>1. /\ InLine(read[q]) /\ HasNew(read[q]) /\ HasOld(read[q]) /\ NoLess(read[q])
          /\ read'[q] = read[q]
      BY <2>1 DEF LogInv
    <3> QED BY <3>1 DEF InLine, HasNew, HasOld, NoLess, In
  <2>2. pc'[q] = "migrateDrop" => HasOld(log)'
    BY DEF LogInv, HasOld, In
  <2>3. pc'[q] \in {"compactWrite", "compactRename", "migrateWrite", "migrateRename"} => read'[q] = read[q]
    BY DEF Rewriting
  <2>4. (pc[q] \in {"compactWrite", "compactRename"} => Keep > 0 /\ Len(read[q]) >= Keep)'
    BY <2>3 DEF LogInv
  <2>5. (pc[q] \in {"migrateWrite", "migrateRename"} => \A n \in 1..Len(read[q]) : read[q][n] <= Legacy)'
    BY <2>3 DEF LogInv
  <2> QED BY <2>1, <2>2, <2>4, <2>5
<1> QED BY <1>2, <1>3 DEF LogInv

\* What p has read replaces the log.
LEMMA ReplaceKeeps ==
  ASSUME PlaceInv, LogInv, NEW p \in Procs, pc[p] \in {"migrateRename", "compactRename"},
         log' = read[p], UNCHANGED <<next, raced, again>>,
         \A q \in Procs : pc'[q] \notin Rewriting, \A q \in Procs \ {p} : pc'[q] # "migrateDrop"
  PROVE  LogInv'
<1>1. InLine(read[p]) /\ HasNew(read[p]) /\ HasOld(read[p])
  BY DEF LogInv, Rewriting
<1>2. (InLine(log) /\ HasNew(log) /\ HasOld(log))'
  BY <1>1 DEF InLine, HasNew, HasOld, In
<1> QED BY <1>2 DEF LogInv, Rewriting

\* p goes on to write what it has read.
LEMMA ReadKeeps ==
  ASSUME PlaceInv, LogInv, NEW p \in Procs, NEW ms,
         InLine(ms), HasNew(ms), HasOld(ms), NoLess(ms),
         read' = [read EXCEPT ![p] = ms], UNCHANGED <<log, legacy, next, raced, again>>,
         \/ pc' = [pc EXCEPT ![p] = "compactWrite"] /\ Keep > 0 /\ Len(ms) >= Keep
         \/ pc' = [pc EXCEPT ![p] = "migrateWrite"] /\ \A n \in 1..Len(ms) : ms[n] <= Legacy
  PROVE  LogInv'
<1>0. pc \in [Procs -> {"out", "up", "opened", "big"} \cup InMigration \cup InCompaction]
      /\ read \in [Procs -> Lines]
  BY DEF PlaceInv, TypeOK
<1>1. read'[p] = ms /\ \A q \in Procs \ {p} : read'[q] = read[q] /\ pc'[q] = pc[q]
  BY <1>0
<1>2. (InLine(log) /\ HasNew(log) /\ (legacy = <<>> => HasOld(log)))'
  BY DEF LogInv, InLine, HasNew, HasOld, In
<1>3. ASSUME NEW q \in Procs
      PROVE  /\ (pc[q] \in Rewriting => InLine(read[q]) /\ HasNew(read[q]) /\ HasOld(read[q]) /\ NoLess(read[q]))'
             /\ (pc[q] = "migrateDrop" => HasOld(log))'
             /\ (pc[q] \in {"compactWrite", "compactRename"} => Keep > 0 /\ Len(read[q]) >= Keep)'
             /\ (pc[q] \in {"migrateWrite", "migrateRename"} => \A n \in 1..Len(read[q]) : read[q][n] <= Legacy)'
  <2>1. CASE q = p
    <3>1. (InLine(read[q]) /\ HasNew(read[q]) /\ HasOld(read[q]) /\ NoLess(read[q]))'
      BY <1>1, <2>1 DEF InLine, HasNew, HasOld, NoLess, In
    <3>2. \/ pc'[q] = "compactWrite" /\ Keep > 0 /\ Len(ms) >= Keep
          \/ pc'[q] = "migrateWrite" /\ \A n \in 1..Len(ms) : ms[n] <= Legacy
      BY <1>0, <2>1
    <3> QED BY <1>1, <2>1, <3>1, <3>2
  <2>2. CASE q # p
    <3>1. read'[q] = read[q] /\ pc'[q] = pc[q]
      BY <1>1, <2>2
    <3>2. (pc[q] \in Rewriting => InLine(read[q]) /\ HasNew(read[q]) /\ HasOld(read[q]) /\ NoLess(read[q]))'
      <4> SUFFICES ASSUME pc'[q] \in Rewriting
                   PROVE  (InLine(read[q]) /\ HasNew(read[q]) /\ HasOld(read[q]) /\ NoLess(read[q]))'
        OBVIOUS
      <4>1. InLine(read[q]) /\ HasNew(read[q]) /\ HasOld(read[q]) /\ NoLess(read[q])
        BY <3>1 DEF LogInv
      <4> QED BY <3>1, <4>1 DEF InLine, HasNew, HasOld, NoLess, In
    <3>3. (pc[q] = "migrateDrop" => HasOld(log))'
      BY <3>1 DEF LogInv, HasOld, In
    <3> QED BY <3>1, <3>2, <3>3 DEF LogInv
  <2> QED BY <2>1, <2>2
<1> QED BY <1>2, <1>3 DEF LogInv

\* What a migration reads: the log, then the older version's runs.
LEMMA MigrateReadKeeps ==
  ASSUME PlaceInv, BeforeInv, LogInv, NEW p \in Procs, MigrateRead(p)
  PROVE  LogInv'
<1>0. /\ Legacy \in Nat /\ Len(log) \in Nat /\ next = Legacy + 1
      /\ \A n \in 1..Len(log) : log[n] <= Legacy
      /\ \A n \in 1..Len(log) : log[n] \in Nat
  <2>1. next = Legacy + 1 /\ \A n \in 1..Len(log) : log[n] <= Legacy
    BY DEF MigrateRead, BeforeInv
  <2>2. Legacy \in Nat /\ Len(log) \in Nat /\ \A n \in 1..Len(log) : log[n] \in 1..(Legacy + MaxRuns)
    BY RunLogAssumption DEF PlaceInv, TypeOK, Lines
  <2>3. \A n \in 1..Len(log) : log[n] \in Nat
    BY <2>2
  <2> QED BY <2>1, <2>2, <2>3
<1>1. again \/ Len(log) = 0
  <2>1. \A q \in Procs : pc[q] # "migrateDrop"
    BY OneAtWork DEF MigrateRead, InMigration
  <2> QED BY <2>1 DEF MigrateRead, BeforeInv
<1>2. legacy = [n \in 1..Legacy |-> n] /\ Len(legacy) = Legacy /\ legacy \in Lines /\ log \in Lines
  BY <1>0, LenProperties DEF MigrateRead, PlaceInv, TypeOK, Lines
<1> PICK ls : ls = log \o legacy
  OBVIOUS
<1>3. /\ ls \in Lines /\ Len(ls) = Len(log) + Legacy
      /\ \A n \in 1..Len(log) : ls[n] = log[n]
      /\ \A n \in (Len(log) + 1)..Len(ls) : ls[n] = n - Len(log)
  <2>1. /\ ls \in Lines /\ Len(ls) = Len(log) + Legacy
        /\ \A n \in 1..(Len(log) + Legacy) :
             ls[n] = IF n <= Len(log) THEN log[n] ELSE legacy[n - Len(log)]
    BY <1>2, ConcatProperties DEF Lines
  <2>2. ASSUME NEW n \in (Len(log) + 1)..Len(ls) PROVE ls[n] = n - Len(log)
    <3>1. n \in 1..(Len(log) + Legacy) /\ n - Len(log) \in 1..Legacy /\ ~(n <= Len(log))
      BY <1>0, <2>1
    <3> QED BY <1>2, <2>1, <3>1
  <2>3. ASSUME NEW n \in 1..Len(log) PROVE ls[n] = log[n]
    <3>1. n \in 1..(Len(log) + Legacy) /\ n <= Len(log)
      BY <1>0
    <3> QED BY <2>1, <3>1
  <2> QED BY <2>1, <2>2, <2>3
<1>4. InLine(ls)
  <2>1. \A n \in 1..Len(ls) : ls[n] <= Legacy
    <3> SUFFICES ASSUME NEW n \in 1..Len(ls) PROVE ls[n] <= Legacy
      OBVIOUS
    <3>1. n \in 1..Len(log) \/ n \in (Len(log) + 1)..Len(ls)
      BY <1>0, <1>3
    <3> QED BY <1>0, <1>3, <3>1
  <2>2. ASSUME NEW m \in 1..Len(ls), NEW n \in 1..Len(ls), m < n
        PROVE  ls[m] < ls[n] \/ (again /\ ls[m] <= Legacy)
    <3>1. CASE again
      BY <2>1, <3>1
    <3>2. CASE Len(log) = 0
      BY <1>0, <1>3, <2>2, <3>2
    <3> QED BY <1>1, <3>1, <3>2
  <2>3. \A n \in 1..Len(ls) : ~(Legacy < ls[n])
    <3> SUFFICES ASSUME NEW n \in 1..Len(ls) PROVE ~(Legacy < ls[n])
      OBVIOUS
    <3>1. n \in 1..Len(log) \/ n \in (Len(log) + 1)..Len(ls)
      BY <1>0, <1>3
    <3> QED BY <1>0, <1>3, <3>1
  <2> QED BY <2>2, <2>3 DEF InLine
<1>5. HasNew(ls)
  BY <1>0 DEF HasNew
<1> PICK ms : ms = Newest(ls)
  OBVIOUS
<1>6. ms \in Lines /\ InLine(ms) /\ HasNew(ms)
  BY <1>3, <1>4, <1>5, TailInLine
<1>7. /\ Len(ms) = Len(ls) \/ (Keep > 0 /\ Len(ms) >= Keep)
      /\ \A r : In(r, ls) => In(r, ms) \/ (Keep > 0 /\ Len(ms) >= Keep)
  BY <1>3, TailIsEnough DEF Lines
<1>8. HasOld(ms)
  <2> SUFFICES ASSUME NEW r \in 1..Legacy PROVE In(r, ls)
    BY <1>7 DEF HasOld
  <2>1. Len(log) + r \in (Len(log) + 1)..Len(ls) /\ Len(log) + r \in 1..Len(ls)
    BY <1>0, <1>3
  <2>2. ls[Len(log) + r] = r
    BY <1>0, <1>3, <2>1
  <2> QED BY <2>1, <2>2 DEF In
<1>9. NoLess(ms)
  BY <1>0, <1>3, <1>7 DEF NoLess
<1>10. \A n \in 1..Len(ms) : ms[n] <= Legacy
  <2>1. PICK k \in 0..Len(ls) : /\ Len(ms) = Len(ls) - k
                                /\ \A n \in 1..Len(ms) : ms[n] = ls[n + k]
                                /\ k = 0 \/ (Keep > 0 /\ Len(ms) = Keep)
    BY <1>3, NewestIsTail DEF Lines
  <2> SUFFICES ASSUME NEW n \in 1..Len(ms) PROVE ms[n] <= Legacy
    OBVIOUS
  <2>2. n + k \in 1..Len(ls) /\ (n + k \in 1..Len(log) \/ n + k \in (Len(log) + 1)..Len(ls))
    BY <1>0, <1>3, <2>1
  <2> QED BY <1>0, <1>3, <2>1, <2>2
<1>11. /\ read' = [read EXCEPT ![p] = ms] /\ pc' = [pc EXCEPT ![p] = "migrateWrite"]
       /\ UNCHANGED <<log, legacy, next, raced, again>>
  BY DEF MigrateRead, Goto
<1> QED BY <1>6, <1>8, <1>9, <1>10, <1>11, ReadKeeps

\* What a trim reads: the newest of the log.
LEMMA CompactReadKeeps ==
  ASSUME PlaceInv, BeforeInv, LogInv, NEW p \in Procs, CompactRead(p), ~(Keep = 0 \/ Len(log) <= Keep)
  PROVE  LogInv'
<1>0. log \in Lines /\ Len(log) \in Nat /\ Keep \in Nat /\ Keep > 0
  BY RunLogAssumption DEF PlaceInv, TypeOK, Lines
<1>1. legacy = <<>>
  BY DEF CompactRead, BeforeInv, InMigration
<1>2. InLine(log) /\ HasNew(log) /\ HasOld(log)
  BY <1>1 DEF LogInv
<1> PICK ms : ms = Newest(log)
  OBVIOUS
<1>3. ms \in Lines /\ InLine(ms) /\ HasNew(ms)
  BY <1>0, <1>2, TailInLine
<1>4. /\ Len(ms) = Len(log) \/ (Keep > 0 /\ Len(ms) >= Keep)
      /\ \A r : In(r, log) => In(r, ms) \/ (Keep > 0 /\ Len(ms) >= Keep)
  BY <1>0, TailIsEnough DEF Lines
<1>5. Len(ms) >= Keep
  BY <1>0, <1>4
<1>6. HasOld(ms) /\ NoLess(ms)
  BY <1>0, <1>5 DEF HasOld, NoLess
<1>7. /\ read' = [read EXCEPT ![p] = ms] /\ pc' = [pc EXCEPT ![p] = "compactWrite"]
      /\ UNCHANGED <<log, legacy, next, raced, again>>
  BY DEF CompactRead, Goto
<1> QED BY <1>0, <1>3, <1>5, <1>6, <1>7, ReadKeeps

\* A run is recorded, whoever is rewriting the log.
LEMMA AppendWriteKeeps ==
  ASSUME PlaceInv, BeforeInv, LogInv, NEW p \in Procs, AppendWrite(p)
  PROVE  LogInv'
<1>0. /\ log \in Lines /\ Len(log) \in Nat /\ Keep \in Nat
      /\ next' = next + 1 /\ next <= MaxRuns /\ UNCHANGED <<legacy, again>> /\ raced \subseteq raced'
  BY RunLogAssumption DEF AppendWrite, PlaceInv, TypeOK, Lines
<1>1. legacy = <<>> /\ \A q \in Procs : pc[q] \notin {"migrateWrite", "migrateRename", "migrateDrop"}
  BY DEF AppendWrite, BeforeInv, InMigration
<1>2. InLine(log) /\ HasNew(log) /\ HasOld(log)
  BY <1>1 DEF LogInv
<1> PICK ls : ls = log'
  OBVIOUS
<1>3. InLine(ls)' /\ HasNew(ls)' /\ HasOld(ls) /\ Len(ls) \in Nat
  <2>1. CASE p \in stale
    <3>1. ls = log /\ raced' = raced \cup {next}
      BY <2>1 DEF AppendWrite
    <3>2. InLine(ls) /\ HasNew(ls) /\ ls \in Lines
      BY <1>0, <1>2, <3>1
    <3> QED BY <1>0, <1>2, <3>1, <3>2, RaceKeeps
  <2>2. CASE p \notin stale
    <3>1. ls = Append(log, next)
      BY <2>2 DEF AppendWrite
    <3>2. InLine(ls)' /\ HasNew(ls)' /\ Len(ls) = Len(log) + 1 /\ \A r : In(r, log) => In(r, ls)
      BY <1>0, <1>2, <3>1, AppendKeeps
    <3> QED BY <1>0, <1>2, <3>2 DEF HasOld
  <2> QED BY <2>1, <2>2
<1>4. (InLine(log) /\ HasNew(log) /\ HasOld(log))'
  BY <1>3 DEF InLine, HasNew, HasOld, In
<1>5. \A q \in Procs : pc'[q] \in Rewriting => pc[q] \in Rewriting /\ read'[q] = read[q] /\ pc'[q] = pc[q]
  BY DEF AppendWrite, PlaceInv, TypeOK, Rewriting, Goto, Leave, InMigration, InCompaction
<1>6. \A q \in Procs : pc'[q] # "migrateDrop"
  BY <1>1 DEF AppendWrite, PlaceInv, TypeOK, Goto, Leave, InMigration, InCompaction
<1>7. ASSUME NEW q \in Procs, pc'[q] \in Rewriting
      PROVE  /\ (InLine(read[q]) /\ HasNew(read[q]) /\ HasOld(read[q]) /\ NoLess(read[q]))'
             /\ (Keep > 0 /\ Len(read[q]) >= Keep)'
  <2> PICK rd : rd = read[q]
    OBVIOUS
  <2>1. InLine(rd) /\ HasNew(rd) /\ HasOld(rd) /\ rd \in Lines /\ read'[q] = rd
    BY <1>5, <1>7 DEF LogInv, PlaceInv, TypeOK
  <2>2. Keep > 0 /\ Len(rd) >= Keep
    BY <1>1, <1>5, <1>7 DEF LogInv, Rewriting
  <2>3. raced' = raced \cup {next}
    BY <1>5, <1>7 DEF AppendWrite
  <2>4. InLine(rd)' /\ HasNew(rd)'
    BY <1>0, <2>1, <2>3, RaceKeeps
  <2> QED BY <2>1, <2>2, <2>4 DEF InLine, HasNew, HasOld, NoLess, In
<1>8. \A q \in Procs : pc'[q] \notin {"migrateWrite", "migrateRename"}
  BY <1>1, <1>5 DEF Rewriting
<1> QED BY <1>4, <1>6, <1>7, <1>8 DEF LogInv, Rewriting

LEMMA LogStep ==
  ASSUME PlaceInv, BeforeInv, LogInv, NEW p \in Procs, Step(p)
  PROVE  LogInv'
<1>0. pc \in [Procs -> {"out", "up", "opened", "big"} \cup InMigration \cup InCompaction]
      /\ read \in [Procs -> Lines]
  BY DEF PlaceInv, TypeOK
<1>a. legacy = <<>> => HasOld(log)
  BY DEF LogInv
<1>b. pc[p] \in InMigration \cup InCompaction
        => \A q \in Procs \ {p} : pc[q] \notin InMigration \cup InCompaction
  BY OneAtWork
<1> USE DEF InMigration, InCompaction
<1>1. CASE OpenLock(p)
  BY <1>0, <1>1, <1>a, Quiet DEF OpenLock, Goto, Rewriting
<1>2. CASE NothingToMigrate(p)
  BY <1>0, <1>2, <1>a, Quiet DEF NothingToMigrate, Goto, Leave, Rewriting
<1>3. CASE MigrateRead(p)
  BY <1>3, MigrateReadKeeps
<1>4. CASE MigrateWrite(p)
  BY <1>0, <1>4, <1>a, Quiet DEF MigrateWrite, Goto, Rewriting
<1>5. CASE MigrateRename(p)
  <2>1. log' = read[p]
    BY <1>5 DEF MigrateRename, Replace, PlaceInv
  <2>2. \A q \in Procs : pc'[q] \notin Rewriting
    BY <1>0, <1>5, <1>b DEF MigrateRename, Goto, Rewriting
  <2>3. \A q \in Procs \ {p} : pc'[q] # "migrateDrop"
    BY <1>0, <1>5, <1>b DEF MigrateRename, Goto
  <2> QED BY <1>5, <2>1, <2>2, <2>3, ReplaceKeeps DEF MigrateRename
<1>6. CASE MigrateDrop(p)
  <2>1. HasOld(log)
    BY <1>6 DEF MigrateDrop, LogInv
  <2> QED BY <1>0, <1>6, <2>1, Quiet DEF MigrateDrop, Goto, Leave, Rewriting
<1>7. CASE AppendOpen(p)
  BY <1>0, <1>7, <1>a, Quiet DEF AppendOpen, Goto, Rewriting
<1>8. CASE AppendWrite(p)
  BY <1>8, AppendWriteKeeps
<1>9. CASE CompactLock(p)
  BY <1>0, <1>9, <1>a, Quiet DEF CompactLock, Goto, Rewriting
<1>10. CASE CompactRead(p)
  <2>1. CASE Keep = 0 \/ Len(log) <= Keep
    BY <1>0, <1>10, <1>a, <2>1, Quiet DEF CompactRead, Goto, Leave, Rewriting
  <2>2. CASE ~(Keep = 0 \/ Len(log) <= Keep)
    BY <1>10, <2>2, CompactReadKeeps
  <2> QED BY <2>1, <2>2
<1>11. CASE CompactWrite(p)
  BY <1>0, <1>11, <1>a, Quiet DEF CompactWrite, Goto, Rewriting
<1>12. CASE CompactRename(p)
  <2>1. log' = read[p]
    BY <1>12 DEF CompactRename, Replace, PlaceInv
  <2>2. \A q \in Procs : pc'[q] \notin Rewriting /\ pc'[q] # "migrateDrop"
    BY <1>0, <1>12, <1>b DEF CompactRename, Goto, Rewriting
  <2> QED BY <1>12, <2>1, <2>2, ReplaceKeeps DEF CompactRename
<1>13. CASE Die(p)
  BY <1>0, <1>13, <1>a, Quiet DEF Die, Goto, Leave, Rewriting
<1> QED
  BY <1>1, <1>2, <1>3, <1>4, <1>5, <1>6, <1>7, <1>8, <1>9, <1>10, <1>11, <1>12, <1>13 DEF Step

LEMMA StepHolds == LogIInv /\ [Next]_vars => LogIInv'
<1> SUFFICES ASSUME LogIInv, [Next]_vars PROVE LogIInv'
  OBVIOUS
<1>1. CASE Next
  BY <1>1, PlaceStep, BeforeStep, LogStep DEF Next, LogIInv
<1>2. CASE UNCHANGED vars
  BY <1>2 DEF vars, LogIInv, PlaceInv, TypeOK, BeforeInv, LogInv, InLine, HasNew, HasOld, NoLess, In
<1> QED BY <1>1, <1>2

LEMMA Invariant == Spec => []LogIInv
BY InitHolds, StepHolds, PTL DEF Spec

-----------------------------------------------------------------------------
(* What the log keeps                                                         *)

\* Readers of the log see the newest run last and none twice, unless a migration
\* died between writing the log and dropping the key; and only the holder of the
\* lock rewrites it.
THEOREM RunsAreInOrder == Spec => []NewestLast
<1>1. LogIInv => NewestLast
  BY RunLogAssumption DEF LogIInv, PlaceInv, LogInv, InLine, NewestLast
<1> QED BY <1>1, Invariant, PTL

\* However recording, which takes no lock, races trimming, which does: a run is gone
\* only if it was written while the log was being rewritten, or Keep came after it.
THEOREM RecentRunsStay == Spec => []NewestKept
<1>1. LogIInv => NewestKept
  BY DEF LogIInv, LogInv, HasNew, NewestKept
<1> QED BY <1>1, Invariant, PTL

\* Wherever the process that migrates dies, and whoever opens the store next, the
\* runs of an older version are in one of the two files, or trimmed from a full log.
THEOREM OldRunsSurvive == Spec => []MigrationKeeps
<1>1. LogIInv => MigrationKeeps
  <2> SUFFICES ASSUME LogIInv, NEW r \in 1..Legacy
               PROVE  In(r, legacy) \/ In(r, log) \/ (Keep > 0 /\ Len(log) >= Keep)
    BY DEF MigrationKeeps
  <2>1. CASE legacy = <<>>
    BY <2>1 DEF LogIInv, LogInv, HasOld
  <2>2. CASE legacy # <<>>
    <3>1. legacy = [n \in 1..Legacy |-> n] /\ Len(legacy) = Legacy
      BY <2>2, RunLogAssumption, LenProperties DEF LogIInv, PlaceInv, TypeOK, Lines
    <3> QED BY <3>1 DEF In
  <2> QED BY <2>1, <2>2
<1> QED BY <1>1, Invariant, PTL

\* A rewrite leaves a log no shorter than it found, or one with Keep runs: also when
\* other processes appended to it, or rewrote it, since its lines were read.
THEOREM EnoughIsKept == Spec => TrimsToKeep
<1>1. LogIInv /\ [Next]_vars => [Len(log') < Len(log) => Keep > 0 /\ Len(log') >= Keep]_vars
  <2> SUFFICES ASSUME LogIInv, NEW p \in Procs, Step(p), Len(log') < Len(log)
               PROVE  Keep > 0 /\ Len(log') >= Keep
    BY DEF Next
  <2>0. Len(log) \in Nat /\ log \in Seq(1..(Legacy + MaxRuns))
    BY DEF LogIInv, PlaceInv, TypeOK, Lines
  <2>1. CASE MigrateRename(p) \/ CompactRename(p)
    <3>1. log' = read[p] /\ NoLess(read[p]) /\ read[p] \in Lines
      BY <2>1 DEF MigrateRename, CompactRename, Replace, LogIInv, PlaceInv, TypeOK, LogInv, Rewriting
    <3>2. Len(log') \in Nat
      BY <3>1 DEF Lines
    <3> QED BY <2>0, <3>1, <3>2 DEF NoLess
  <2>2. CASE AppendWrite(p)
    <3>1. log' = log \/ (log' = Append(log, next) /\ next \in 1..(Legacy + MaxRuns))
      BY <2>2, RunLogAssumption DEF AppendWrite, LogIInv, PlaceInv, TypeOK
    <3>2. log' = log \/ Len(log') = Len(log) + 1
      BY <2>0, <3>1, AppendProperties
    <3> QED BY <2>0, <3>2
  <2>3. log' = log \/ MigrateRename(p) \/ CompactRename(p) \/ AppendWrite(p)
    BY DEF Step, OpenLock, NothingToMigrate, MigrateRead, MigrateWrite, MigrateDrop,
           AppendOpen, CompactLock, CompactRead, CompactWrite, Die
  <2> QED BY <2>0, <2>1, <2>2, <2>3
<1> QED BY <1>1, Invariant, PTL DEF Spec, TrimsToKeep

=============================================================================
