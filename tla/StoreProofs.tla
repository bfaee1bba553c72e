----------------------------- MODULE StoreProofs -----------------------------
(***************************************************************************)
(* Proofs about Store, for any processes, keys and values: the flock and   *)
(* the reload under it make the state file an atomic map (KV).             *)
(*                                                                         *)
(* The argument is one inductive invariant, IInv: a process inside a call  *)
(* holds the lock its call asked for (LockInv), and then nobody else can   *)
(* move the file or the temporary file, so that its memory, and what it    *)
(* wrote out, are the file with its own change applied (MemInv).  The      *)
(* rename is then the moment the call takes effect.  A Get takes effect    *)
(* when it reloads: what it answers from once it has unlocked is its own   *)
(* memory, which nobody else moves.                                        *)
(***************************************************************************)
EXTENDS Store, TLAPS

Pcs == {"down", "up", "want", "locked", "loaded", "applied", "created",
        "written", "renamed", "fresh", "kept", "got", "stale", "opened", "failed"}
Inside(p) == pc[p] \notin {"down", "up", "want", "got", "stale"}
Answering(p) == pc[p] \in {"fresh", "kept", "got", "stale"}
Mutating(p) == pc[p] \in {"loaded", "applied", "created", "written", "renamed"}

LockInv ==
  /\ \A p \in Procs : Inside(p) =>
       IF op[p].kind = "get" THEN p \in readers ELSE writer = p
  /\ writer # None => readers = {}

MemOK(p) ==
  /\ pc[p] \in {"down", "up"} => op[p] = OpenCall
  /\ Mutating(p) => op[p] \in K!Mutations
  /\ Answering(p) => op[p] \in K!Gets
  /\ pc[p] = "opened" => op[p] = OpenCall
  /\ pc[p] = "loaded" => mem[p] = file
  /\ pc[p] \in {"applied", "created", "written"} => mem[p] = K!Applied(op[p], file)
  /\ pc[p] = "written" => tmp = mem[p]
  /\ op[p] \in K!Gets /\ pc[p] \in {"want", "locked"} => file[op[p].key] \in since[p]
  /\ pc[p] \in {"fresh", "got"} => mem[p][op[p].key] \in since[p]

MemInv == \A p \in Procs : MemOK(p)

IInv == TypeOK /\ LockInv /\ MemInv

-----------------------------------------------------------------------------
(* What a call does to a value                                                *)

LEMMA ArrayTyped ==
  ASSUME NEW v \in K!ValueOrAbsent
  PROVE  K!AsArray(v) \in Seq(Items)
BY DEF K!AsArray, K!ValueOrAbsent, K!Value

LEMMA ApplyTyped ==
  ASSUME NEW c \in K!Mutations, NEW v \in K!ValueOrAbsent
  PROVE  K!Apply(c, v) \in K!Value
<1>1. CASE c \in K!Sets
  BY <1>1 DEF K!Sets, K!Apply
<1>2. CASE c \in K!Appends
  <2>1. Append(K!AsArray(v), c.item) \in Seq(Items)
    BY <1>2, ArrayTyped DEF K!Appends
  <2> QED BY <1>2, <2>1 DEF K!Appends, K!Apply, K!Value
<1>3. CASE c \in K!Updates
  <2> DEFINE log == K!AsArray(v)
  <2>1. log \in Seq(Items) /\ c.item \in Items /\ c.drop \in Nat
    BY <1>3, ArrayTyped DEF K!Updates
  <2>2. SubSeq(log, c.drop + 1, Len(log)) \in Seq(Items)
    BY <2>1
  <2>3. K!Record(c, log) \in Seq(Items)
    BY <2>1, <2>2 DEF K!Record
  <2> QED BY <1>3, <2>3 DEF K!Updates, K!Apply, K!Value
<1> QED BY <1>1, <1>2, <1>3 DEF K!Mutations

LEMMA AppliedTyped ==
  ASSUME NEW c \in K!Mutations, NEW m \in Maps
  PROVE  K!Applied(c, m) \in Maps
<1>1. c.key \in Keys
  BY DEF K!Mutations, K!Sets, K!Appends, K!Updates
<1>2. K!Apply(c, m[c.key]) \in K!ValueOrAbsent
  BY <1>1, ApplyTyped DEF Maps, K!ValueOrAbsent
<1> QED BY <1>1, <1>2 DEF K!Applied, Maps

LEMMA SmallCallsAreCalls == SmallCalls \subseteq K!Mutations \cup K!Gets
BY StoreAssumption DEF SmallCalls

-----------------------------------------------------------------------------
(* IInv is inductive                                                          *)

LEMMA CallKinds ==
  ASSUME TypeOK, NEW p \in Procs
  PROVE  /\ Held(p) => op[p] \in K!Mutations
         /\ op[p].kind = "get" => op[p] \in K!Gets
         /\ op[p].kind = "open" => op[p] = OpenCall
BY DEF TypeOK, Held, OpenCall, K!Calls, K!Mutations, K!Sets, K!Appends, K!Updates, K!Gets,
       K!Opens

LEMMA TypeStep == TypeOK /\ MemInv /\ [Next]_vars => TypeOK'
<1> SUFFICES ASSUME TypeOK, MemInv, [Next]_vars PROVE TypeOK'
  OBVIOUS
<1> USE DEF TypeOK
<1>1. CASE UNCHANGED vars
  BY <1>1 DEF vars
<1>2. ASSUME NEW p \in Procs, Step(p) PROVE TypeOK'
  <2>1. K!EmptyMap \in Maps /\ OpenCall \in K!Calls /\ Absent \in K!ValueOrAbsent
    BY DEF K!EmptyMap, Maps, OpenCall, K!Calls, K!Opens, K!ValueOrAbsent
  <2>2. CASE Open(p)
    BY <2>2 DEF Open, Goto
  <2>3. ASSUME NEW c \in SmallCalls, Begin(p, c) PROVE TypeOK'
    <3>1. c \in K!Mutations \cup K!Gets
      BY SmallCallsAreCalls
    <3>2. c.key \in Keys
      BY <3>1 DEF K!Mutations, K!Sets, K!Appends, K!Updates, K!Gets
    <3>3. file[c.key] \in K!ValueOrAbsent
      BY <3>2 DEF Maps
    <3> QED BY <2>3, <3>1, <3>3 DEF Begin, Goto, K!Calls
  <2>4. CASE Lock(p)
    BY <2>4 DEF Lock, LockExclusive, LockToRead, Goto
  <2>5. CASE ReloadToMutate(p) \/ ReloadToOpen(p) \/ ReloadFails(p)
    BY <2>5 DEF ReloadToMutate, ReloadToOpen, ReloadFails, Goto
  <2>6. CASE ReloadToGet(p) \/ GetFromMemory(p)
    BY <2>6 DEF ReloadToGet, GetFromMemory, Goto
  <2>7. CASE ApplyChange(p)
    <3>1. op[p] \in K!Mutations
      BY <2>7 DEF ApplyChange, Goto, MemInv, MemOK, Mutating
    <3>2. K!Applied(op[p], mem[p]) \in Maps
      BY <3>1, AppliedTyped
    <3> QED BY <2>7, <3>2 DEF ApplyChange, Goto
  <2>8. CASE CreateTmp(p) \/ WriteTmp(p) \/ SaveFails(p)
    BY <2>8 DEF CreateTmp, WriteTmp, SaveFails, Goto
  <2>9. CASE Rename(p)
    <3>1. tmp \in Maps
      BY <2>9 DEF Rename, Goto, MemInv, MemOK
    <3>2. \A q \in Procs : op[q].kind = "get" => tmp[op[q].key] \in K!ValueOrAbsent
      BY <3>1, CallKinds DEF Maps, K!Gets
    <3>3. since' \in [Procs -> SUBSET K!ValueOrAbsent]
      BY <2>9, <3>2 DEF Rename
    <3> QED BY <2>9, <3>1, <3>3 DEF Rename, Goto
  <2>10. CASE Unlock(p) \/ Return(p)
    BY <2>1, <2>10 DEF Unlock, Return, Release, Over, Goto
  <2>11. CASE Die(p)
    BY <2>1, <2>11 DEF Die, Release, Over
  <2> QED BY <1>2, <2>2, <2>3, <2>4, <2>5, <2>6, <2>7, <2>8, <2>9, <2>10, <2>11
          DEF Step, Reload, Save
<1> QED BY <1>1, <1>2 DEF Next

\* What a step of p leaves alone: every other process, and the lock unless p is
\* taking or releasing it.
LEMMA OthersKept ==
  ASSUME TypeOK, NEW p \in Procs, Step(p), NEW q \in Procs, q # p
  PROVE  /\ pc'[q] = pc[q] /\ op'[q] = op[q] /\ mem'[q] = mem[q]
         /\ writer = q => writer' = q
         /\ q \in readers => q \in readers'
<1> USE DEF TypeOK
<1>1. CASE Open(p) \/ (\E c \in SmallCalls : Begin(p, c)) \/ Lock(p)
  BY <1>1, StoreAssumption DEF Open, Begin, Lock, LockExclusive, LockToRead, Goto
<1>2. CASE Reload(p) \/ ReloadFails(p) \/ GetFromMemory(p) \/ ApplyChange(p)
  BY <1>2 DEF Reload, ReloadToMutate, ReloadToOpen, ReloadToGet, ReloadFails,
              GetFromMemory, ApplyChange, Goto
<1>3. CASE Save(p) \/ SaveFails(p)
  BY <1>3 DEF Save, CreateTmp, WriteTmp, Rename, SaveFails, Goto
<1>4. CASE Unlock(p) \/ Return(p)
  BY <1>4 DEF Unlock, Return, Release, Over, Goto
<1>5. CASE Die(p)
  BY <1>5 DEF Die, Release, Over
<1> QED BY <1>1, <1>2, <1>3, <1>4, <1>5 DEF Step

\* What another process's Get may answer with keeps up with the file.
LEMMA SinceKept ==
  ASSUME TypeOK, NEW p \in Procs, Step(p), NEW q \in Procs, q # p
  PROVE  /\ since[q] \subseteq since'[q]
         /\ op[q] \in K!Gets /\ file' # file => file'[op[q].key] \in since'[q]
<1> USE DEF TypeOK
<1>1. CASE Open(p) \/ (\E c \in SmallCalls : Begin(p, c)) \/ Lock(p)
  BY <1>1 DEF Open, Begin, Lock, LockExclusive, LockToRead, Goto
<1>2. CASE Reload(p) \/ ReloadFails(p) \/ GetFromMemory(p) \/ ApplyChange(p)
  BY <1>2 DEF Reload, ReloadToMutate, ReloadToOpen, ReloadToGet, ReloadFails,
              GetFromMemory, ApplyChange, Goto
<1>3. CASE CreateTmp(p) \/ WriteTmp(p) \/ SaveFails(p)
  BY <1>3 DEF CreateTmp, WriteTmp, SaveFails, Goto
<1>4. CASE Rename(p)
  BY <1>4 DEF Rename, Goto, K!Gets
<1>5. CASE Unlock(p) \/ Return(p) \/ Die(p)
  BY <1>5 DEF Unlock, Return, Die, Release, Over, Goto
<1> QED BY <1>1, <1>2, <1>3, <1>4, <1>5 DEF Step, Save

LEMMA LockStep == TypeOK /\ LockInv /\ [Next]_vars => LockInv'
<1> SUFFICES ASSUME TypeOK, LockInv, [Next]_vars PROVE LockInv'
  OBVIOUS
<1> USE DEF TypeOK, LockInv
<1>1. CASE UNCHANGED vars
  BY <1>1 DEF vars, Inside
<1>2. ASSUME NEW p \in Procs, Step(p) PROVE LockInv'
  <2>1. ASSUME NEW q \in Procs, q # p, Inside(q)'
        PROVE  IF op'[q].kind = "get" THEN q \in readers' ELSE writer' = q
    BY <1>2, <2>1, OthersKept DEF Inside
  <2>2. CASE Open(p) \/ (\E c \in SmallCalls : Begin(p, c))
    BY <2>1, <2>2 DEF Open, Begin, Goto, Inside
  <2>3. CASE Lock(p)
    BY <2>1, <2>3 DEF Lock, LockExclusive, LockToRead, Goto, Inside
  <2>4. CASE Reload(p) \/ ReloadFails(p) \/ GetFromMemory(p) \/ ApplyChange(p)
    BY <2>1, <2>4 DEF Reload, ReloadToMutate, ReloadToOpen, ReloadToGet, ReloadFails,
                GetFromMemory, ApplyChange, Goto, Inside
  <2>5. CASE Save(p) \/ SaveFails(p)
    BY <2>1, <2>5 DEF Save, CreateTmp, WriteTmp, Rename, SaveFails, Goto, Inside
  <2>6. CASE Unlock(p) \/ Return(p)
    BY <2>1, <2>6 DEF Unlock, Return, Release, Goto, Inside
  <2>7. CASE Die(p)
    BY <2>1, <2>7 DEF Die, Release, Inside
  <2> QED BY <1>2, <2>2, <2>3, <2>4, <2>5, <2>6, <2>7 DEF Step
<1> QED BY <1>1, <1>2 DEF Next

\* Only a rename moves the file, and only a process that holds the lock for a
\* mutation moves the temporary file.
LEMMA FilesKept ==
  ASSUME IInv, NEW p \in Procs, Step(p)
  PROVE  /\ file' # file => pc[p] = "written"
         /\ tmp' # tmp => Mutating(p)
BY DEF Step, Open, Begin, Lock, LockExclusive, LockToRead, Reload, ReloadToMutate,
       ReloadToOpen, ReloadToGet, ReloadFails, GetFromMemory, ApplyChange, Save, CreateTmp,
       WriteTmp, Rename, SaveFails, Unlock, Return, Die, Goto, Mutating

\* The lock excludes: while one process mutates nobody else is inside a call.
LEMMA Exclusion ==
  ASSUME IInv, NEW p \in Procs, NEW q \in Procs, q # p, Mutating(p)
  PROVE  ~Inside(q)
<1>1. Inside(p) /\ op[p] \in K!Mutations
  BY DEF Mutating, Inside, IInv, MemInv, MemOK
<1>2. op[p].kind # "get"
  BY <1>1 DEF K!Mutations, K!Sets, K!Appends, K!Updates
<1>3. writer = p
  BY <1>1, <1>2 DEF IInv, LockInv
<1> QED BY <1>3, StoreAssumption DEF IInv, LockInv

LEMMA MemOthers ==
  ASSUME IInv, NEW p \in Procs, Step(p), NEW q \in Procs, q # p
  PROVE  MemOK(q)'
<1>1. pc'[q] = pc[q] /\ op'[q] = op[q] /\ mem'[q] = mem[q]
  BY OthersKept DEF IInv
<1>2. MemOK(q)
  BY DEF IInv, MemInv, MemOK
<1>3. /\ since[q] \subseteq since'[q]
      /\ op[q] \in K!Gets /\ file' # file => file'[op[q].key] \in since'[q]
  BY SinceKept DEF IInv
<1>4. CASE file' = file /\ tmp' = tmp
  BY <1>1, <1>2, <1>3, <1>4 DEF MemOK, Mutating, Answering
<1>5. CASE Mutating(p)
  <2>1. ~Inside(q)
    BY <1>5, Exclusion
  <2> QED BY <1>1, <1>2, <1>3, <2>1 DEF MemOK, Mutating, Answering, Inside
<1> QED BY <1>4, <1>5, FilesKept DEF Mutating

LEMMA MemOwn ==
  ASSUME IInv, NEW p \in Procs, Step(p)
  PROVE  MemOK(p)'
<1> USE DEF IInv, TypeOK
<1>1. MemOK(p)
  BY DEF MemInv, MemOK
<1> USE DEF MemOK, Mutating, Answering, Goto
<1>2. CASE Open(p)
  BY <1>1, <1>2 DEF Open, OpenCall, K!Gets
<1>3. ASSUME NEW c \in SmallCalls, Begin(p, c) PROVE MemOK(p)'
  BY <1>3 DEF Begin, K!Gets
<1>4. CASE Lock(p)
  BY <1>1, <1>4 DEF Lock, LockExclusive, LockToRead
<1>5. CASE ReloadToMutate(p)
  BY <1>5, CallKinds DEF ReloadToMutate
<1>6. CASE ReloadToOpen(p)
  BY <1>6, CallKinds DEF ReloadToOpen
<1>7. CASE ReloadToGet(p)
  BY <1>1, <1>7, CallKinds DEF ReloadToGet
<1>8. CASE GetFromMemory(p)
  BY <1>8, CallKinds DEF GetFromMemory
<1>9. CASE ReloadFails(p) \/ SaveFails(p)
  BY <1>9 DEF ReloadFails, SaveFails
<1>10. CASE ApplyChange(p)
  BY <1>1, <1>10 DEF ApplyChange
<1>11. CASE CreateTmp(p) \/ WriteTmp(p)
  BY <1>1, <1>11 DEF CreateTmp, WriteTmp
<1>12. CASE Rename(p)
  BY <1>1, <1>12 DEF Rename
<1>13. CASE Unlock(p)
  BY <1>1, <1>13 DEF Unlock
<1>14. CASE Return(p)
  BY <1>14 DEF Return, Over
<1>15. CASE Die(p)
  BY <1>15 DEF Die, Over
<1> QED BY <1>2, <1>3, <1>4, <1>5, <1>6, <1>7, <1>8, <1>9, <1>10, <1>11, <1>12, <1>13,
           <1>14, <1>15
        DEF Step, Reload, Save

LEMMA MemStep == IInv /\ [Next]_vars => MemInv'
<1> SUFFICES ASSUME IInv, [Next]_vars PROVE MemInv'
  OBVIOUS
<1>1. CASE UNCHANGED vars
  BY <1>1 DEF vars, IInv, MemInv, MemOK, Mutating, Answering
<1>2. ASSUME NEW p \in Procs, Step(p) PROVE MemInv'
  <2>1. \A q \in Procs : MemOK(q)'
    BY <1>2, MemOthers, MemOwn
  <2> QED BY <2>1 DEF MemInv, MemOK, Mutating, Answering
<1> QED BY <1>1, <1>2 DEF Next

LEMMA IInvInit == Init => IInv
BY StoreAssumption DEF Init, IInv, TypeOK, LockInv, MemInv, MemOK, Inside, Mutating,
   Answering, Maps, OpenCall, K!EmptyMap, K!ValueOrAbsent, K!Calls, K!Gets, K!Opens

LEMMA IInvAlways == Spec => []IInv
<1>1. IInv /\ [Next]_vars => IInv'
  BY TypeStep, LockStep, MemStep DEF IInv
<1> QED BY IInvInit, <1>1, PTL DEF Spec

-----------------------------------------------------------------------------
(* The theorems                                                               *)

\* The state file is always a whole map, and everything else has its type.
THEOREM StoreTypeCorrect == Spec => []TypeOK
BY IInvAlways, PTL DEF IInv

\* A Get that could read the file answers with a value that its key had at some
\* moment of the call, whatever is renamed over the file around its reload.
THEOREM GetsAreRecent == Spec => []AnswersAreRecent
<1>1. IInv => AnswersAreRecent
  BY DEF IInv, MemInv, MemOK, Answer, AnswersAreRecent
<1> QED BY <1>1, IInvAlways, PTL

\* What a rename installs is the file with the renaming process's change applied.
LEMMA RenameApplies ==
  ASSUME IInv, NEW p \in Procs, Rename(p)
  PROVE  op[p] \in K!Mutations /\ file' = K!Applied(op[p], file)
BY DEF IInv, MemInv, MemOK, Mutating, Rename, Goto

\* The file changes only by the mutation whose turn it is, and only at its key.
THEOREM KeysAreKept == Spec => UntouchedKeysKept
<1> DEFINE Kept ==
      \A k \in Keys : file'[k] # file[k] =>
        \E p \in Procs : /\ pc[p] = "written" /\ Held(p) /\ op[p].key = k
                         /\ file'[k] = K!Apply(op[p], file[k])
<1>1. IInv /\ [Next]_vars => [Kept]_vars
  <2> SUFFICES ASSUME IInv, [Next]_vars, NEW k \in Keys, file'[k] # file[k]
               PROVE  \E p \in Procs : /\ pc[p] = "written" /\ Held(p) /\ op[p].key = k
                                       /\ file'[k] = K!Apply(op[p], file[k])
    OBVIOUS
  <2>1. PICK p \in Procs : Step(p)
    BY DEF Next, vars
  <2>2. pc[p] = "written"
    BY <2>1, FilesKept
  <2>3. Rename(p)
    BY <2>1, <2>2 DEF Step, Open, Begin, Lock, LockExclusive, LockToRead, Reload,
       ReloadToMutate, ReloadToOpen, ReloadToGet, ReloadFails, GetFromMemory, ApplyChange,
       Save, CreateTmp, WriteTmp, SaveFails, Unlock, Return, Die, Goto
  <2>4. op[p] \in K!Mutations /\ file' = K!Applied(op[p], file)
    BY <2>3, RenameApplies
  <2>5. Held(p) /\ op[p].key \in Keys
    BY <2>4 DEF Held, K!Mutations, K!Sets, K!Appends, K!Updates
  <2>6. op[p].key = k /\ file'[k] = K!Apply(op[p], file[k])
    BY <2>4, <2>5 DEF K!Applied, IInv, TypeOK, Maps
  <2> QED BY <2>2, <2>5, <2>6
<1> QED BY <1>1, IInvAlways, PTL DEF Spec, UntouchedKeysKept

-----------------------------------------------------------------------------
(* Store implements KV                                                        *)

\* A step that takes p from one place to another shows in Call, and only there.
LEMMA CallMoves ==
  ASSUME TypeOK, NEW p \in Procs, NEW at \in Pcs, pc' = [pc EXCEPT ![p] = at]
  PROVE  /\ Call[p] = Phase(pc[p])
         /\ Call' = [Call EXCEPT ![p] = Phase(at)]
<1>1. Call' = [q \in Procs |-> Phase(pc'[q])]
  BY DEF Call
<1>2. \A q \in Procs : pc'[q] = IF q = p THEN at ELSE pc[q]
  BY DEF TypeOK
<1>3. Call = [q \in Procs |-> Phase(pc[q])]
  BY DEF Call
<1>4. Call' = [Call EXCEPT ![p] = Phase(at)]
  BY <1>1, <1>2, <1>3
<1> QED BY <1>3, <1>4

\* It shows in Answer at p only, and there if p is answering before or after it.
LEMMA AnswerMoves ==
  ASSUME TypeOK, NEW p \in Procs, Step(p)
  PROVE  /\ Answer' = [Answer EXCEPT ![p] = Answer'[p]]
         /\ ~Answering(p) /\ ~Answering(p)' => Answer' = Answer
<1>1. \A q \in Procs : q # p => Answer'[q] = Answer[q]
  BY OthersKept DEF Answer
<1>2. Answer = [q \in Procs |-> Answer[q]] /\ Answer' = [q \in Procs |-> Answer'[q]]
  BY DEF Answer
<1>3. ~Answering(p) /\ ~Answering(p)' => Answer'[p] = Answer[p]
  BY DEF Answer, Answering
<1> HIDE DEF Answer
<1> QED BY <1>1, <1>2, <1>3

AnswerOK == Answer \in [Procs -> K!ValueOrAbsent]

LEMMA AnswerTyped == IInv => AnswerOK
<1> SUFFICES ASSUME IInv, NEW p \in Procs PROVE Answer[p] \in K!ValueOrAbsent
  BY DEF Answer, AnswerOK
<1>1. CASE Answering(p)
  <2>1. op[p].key \in Keys
    BY <1>1 DEF IInv, MemInv, MemOK, K!Gets
  <2> QED BY <1>1, <2>1 DEF Answer, Answering, IInv, TypeOK, Maps
<1>2. CASE ~Answering(p)
  BY <1>2 DEF Answer, Answering, K!ValueOrAbsent
<1> QED BY <1>1, <1>2

LEMMA KVStep == IInv /\ AnswerOK' /\ [Next]_vars => [K!Next]_K!kv
<1> SUFFICES ASSUME IInv, AnswerOK', [Next]_vars PROVE [K!Next]_K!kv
  OBVIOUS
<1>1. CASE UNCHANGED vars
  BY <1>1 DEF vars, K!kv, Call, Answer
<1>2. ASSUME NEW p \in Procs, Step(p) PROVE [K!Next]_K!kv
  <2> USE DEF Goto, Pcs, Phase
  <2>1. TypeOK /\ TypeOK'
    BY TypeStep DEF IInv
  <2>2. /\ Answer' = [Answer EXCEPT ![p] = Answer'[p]]
         /\ Answer'[p] \in K!ValueOrAbsent
    BY <1>2, <2>1, AnswerMoves DEF AnswerOK
  <2>3. ~Answering(p) /\ ~Answering(p)' => Answer' = Answer
    BY <1>2, <2>1, AnswerMoves
  <2>4. CASE Open(p) \/ (\E c \in SmallCalls : Begin(p, c))
    <3>1. PICK at \in {"down", "up"} : pc[p] = at /\ pc' = [pc EXCEPT ![p] = "want"]
      BY <2>4 DEF Open, Begin
    <3>2. Call[p] = "none" /\ Call' = [Call EXCEPT ![p] = "pending"]
      BY <2>1, <3>1, CallMoves
    <3>3. /\ op'[p] \in K!Calls
          /\ op' = [op EXCEPT ![p] = op'[p]]
          /\ UNCHANGED <<file, Answer>>
      BY <2>1, <2>4, <2>3 DEF Open, Begin, TypeOK, Answering
    <3>4. K!Start(p)
      BY <3>2, <3>3 DEF K!Start
    <3> QED BY <3>4 DEF K!Next
  <2>5. CASE Lock(p) \/ ReloadToMutate(p) \/ ApplyChange(p) \/ CreateTmp(p) \/ WriteTmp(p)
    <3>1. PICK at \in {"want", "locked", "loaded", "applied", "created"},
               to \in {"locked", "loaded", "applied", "created", "written"} :
            pc[p] = at /\ pc' = [pc EXCEPT ![p] = to]
      BY <2>5 DEF Lock, LockExclusive, LockToRead, ReloadToMutate, ApplyChange, CreateTmp,
                  WriteTmp
    <3>2. Call[p] = "pending" /\ Call' = [Call EXCEPT ![p] = "pending"]
      BY <2>1, <3>1, CallMoves
    <3>3. Call' = Call
      BY <3>2 DEF Call
    <3>4. Answer' = Answer
      BY <2>1, <2>3, <3>1 DEF Answering, TypeOK
    <3> QED BY <2>5, <3>3, <3>4 DEF K!kv, Lock, LockExclusive, LockToRead, ReloadToMutate,
               ApplyChange, CreateTmp, WriteTmp
  <2>6. CASE Rename(p)
    <3>1. Call[p] = "pending" /\ Call' = [Call EXCEPT ![p] = "done"]
      BY <2>1, <2>6, CallMoves DEF Rename
    <3>2. Answer' = Answer
      BY <2>1, <2>6, <2>3 DEF Rename, Answering, TypeOK
    <3>3. K!Mutate(p)
      BY <2>6, <3>1, <3>2, RenameApplies DEF Rename, K!Mutate
    <3> QED BY <3>3 DEF K!Next
  <2>7. CASE ReloadToGet(p)
    <3>1. Call[p] = "pending" /\ Call' = [Call EXCEPT ![p] = "done"]
      BY <2>1, <2>7, CallMoves DEF ReloadToGet
    <3>2. op[p] \in K!Gets
      BY <2>1, <2>7, CallKinds DEF ReloadToGet
    <3>3. Answer'[p] = file[op[p].key]
      BY <2>1, <2>7 DEF ReloadToGet, Answer, TypeOK
    <3>4. K!Read(p)
      BY <2>7, <2>2, <3>1, <3>2, <3>3 DEF ReloadToGet, K!Read
    <3> QED BY <3>4 DEF K!Next
  <2>8. CASE ReloadToOpen(p)
    <3>1. Call[p] = "pending" /\ Call' = [Call EXCEPT ![p] = "done"]
      BY <2>1, <2>8, CallMoves DEF ReloadToOpen
    <3>2. op[p] \in K!Opens
      BY <2>1, <2>8, CallKinds DEF ReloadToOpen, OpenCall, K!Opens
    <3>3. Answer' = Answer
      BY <2>1, <2>8, <2>3 DEF ReloadToOpen, Answering, TypeOK
    <3>4. K!Opened(p)
      BY <2>8, <3>1, <3>2, <3>3 DEF ReloadToOpen, K!Opened
    <3> QED BY <3>4 DEF K!Next
  <2>9. CASE ReloadFails(p) \/ GetFromMemory(p) \/ SaveFails(p)
    <3>1. PICK at \in {"locked", "applied", "created", "written"}, to \in {"failed", "kept"} :
            pc[p] = at /\ pc' = [pc EXCEPT ![p] = to]
      BY <2>9 DEF ReloadFails, GetFromMemory, SaveFails
    <3>2. Call[p] = "pending" /\ Call' = [Call EXCEPT ![p] = "failed"]
      BY <2>1, <3>1, CallMoves
    <3>3. UNCHANGED <<file, op>>
      BY <2>9 DEF ReloadFails, GetFromMemory, SaveFails
    <3>4. K!Fail(p)
      BY <2>2, <3>2, <3>3 DEF K!Fail
    <3> QED BY <3>4 DEF K!Next
  <2>10. CASE Return(p) \/ Die(p)
    <3>1. PICK to \in {"down", "up"} : pc' = [pc EXCEPT ![p] = to]
      BY <2>10 DEF Return, Die
    <3>2. Call' = [Call EXCEPT ![p] = "none"]
      BY <2>1, <3>1, CallMoves
    <3>3. /\ op'[p] \in K!Calls /\ op' = [op EXCEPT ![p] = op'[p]]
          /\ UNCHANGED file
      BY <2>1, <2>10 DEF Return, Die, Over, TypeOK
    <3>4. K!End(p)
      BY <2>2, <3>2, <3>3 DEF K!End
    <3> QED BY <3>4 DEF K!Next
  <2>11. CASE Unlock(p)
    <3>1. PICK at \in {"fresh", "kept"}, to \in {"got", "stale"} :
            /\ pc[p] = at /\ pc' = [pc EXCEPT ![p] = to]
            /\ Phase(to) = Phase(at)
      BY <2>11 DEF Unlock
    <3>2. Call' = [Call EXCEPT ![p] = Call[p]]
      BY <2>1, <3>1, CallMoves
    <3>3. Call' = Call
      BY <3>2 DEF Call
    <3>4. Answer'[p] = Answer[p]
      BY <2>1, <2>11, <3>1 DEF Unlock, Answer, TypeOK
    <3>5. Answer' = Answer
      BY <2>2, <3>4 DEF Answer
    <3> QED BY <2>11, <3>3, <3>5 DEF K!kv, Unlock
  <2> QED BY <1>2, <2>4, <2>5, <2>6, <2>7, <2>8, <2>9, <2>10, <2>11 DEF Step, Reload, Save
<1> QED BY <1>1, <1>2 DEF Next

\* The lock, the reload and the rename make the state file an atomic map: every
\* mutation takes effect once, on the latest value, or not at all, and one that
\* returns without an error has taken effect.
THEOREM ImplementsKV == Spec => KVSpec
<1>1. Init => K!Init
  BY IInvInit, AnswerTyped DEF AnswerOK, Init, K!Init, IInv, TypeOK, Call, Phase
<1> QED BY <1>1, KVStep, AnswerTyped, IInvAlways, PTL DEF Spec, KVSpec, K!Spec
=============================================================================
