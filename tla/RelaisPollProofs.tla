-------------------------- MODULE RelaisPollProofs ---------------------------
(***************************************************************************)
(* What a poll keeps to, for any queue, budget, shares and patience.       *)
(***************************************************************************)
EXTENDS RelaisPoll, FiniteSetTheorems, TLAPS

-----------------------------------------------------------------------------
(* The inductive invariant                                                   *)

\* The walk goes through the list in its order.
OrderInv ==
  /\ \A i \in Asked : \A j \in todo : i < j
  /\ pc = "ask" => \A i \in Asked \ {at} : i < at

\* What is known of the proposal that is looked at, and of a poll that goes on.
PlaceInv ==
  /\ pc # "over" => stoppedBy = "nothing" /\ unpolled = 0
  /\ pc = "ask" => errors < MaxErrors
  /\ pc = "apply" => at \in tapped
  /\ pc = "clear" => at \in tapped \cap decided

\* Only the clearing of an inbox may overrun.
TimeInv ==
  /\ pc \in {"ask", "apply", "clear"} => 0 <= left
  /\ OverrunIsOneClear

\* While nothing is decided, there is more left than the minimum for each of the
\* rest, also when the request on its way takes all it may.
Fits == list \cap decided = {} /\ Cardinality(list) * MinPerRequest < Budget
ShareInv ==
  Fits =>
    /\ stoppedBy # "budget"
    /\ pc \in {"walk", "apply"} /\ todo # {} => Cardinality(todo) * MinPerRequest < left
    /\ pc = "ask" /\ todo # {} => Cardinality(todo) * MinPerRequest < left - timeout

\* Who has been asked was polled or has failed, or is being asked.
CountInv ==
  /\ pc = "ask" => at \notin failed
  /\ pc # "over" =>
       polled + Cardinality(failed) + (IF pc = "ask" THEN 1 ELSE 0) = Cardinality(Asked)
  /\ EveryoneIsCounted

\* The errors counted are those of the last ones that were asked.
Done == IF pc = "ask" THEN Asked \ {at} ELSE Asked
IsRun(F, D) == \A i \in F : \A j \in D \ F : j < i
RunInv ==
  /\ pc # "over" => \E F \in SUBSET (Done \cap failed) : Cardinality(F) = errors /\ IsRun(F, Done)
  /\ GivesUpAfterARow

PollInv == TypeOK /\ OrderInv /\ PlaceInv /\ TimeInv /\ ShareInv /\ CountInv /\ RunInv

-----------------------------------------------------------------------------
(* Arithmetic of the list and of the shares                                  *)

\* Counting within the queue.
LEMMA Counting ==
  ASSUME NEW S \in SUBSET Ids
  PROVE  /\ IsFiniteSet(S) /\ Cardinality(S) \in 0..N
         /\ Cardinality(S) = 0 <=> S = {}
         /\ \A x : /\ Cardinality(S \cup {x}) = IF x \in S THEN Cardinality(S) ELSE Cardinality(S) + 1
                   /\ Cardinality(S \ {x}) = IF x \in S THEN Cardinality(S) - 1 ELSE Cardinality(S)
         /\ \A T \in SUBSET S : /\ Cardinality(T) <= Cardinality(S)
                                /\ Cardinality(S) = Cardinality(T) => S = T
                                /\ Cardinality(S) = Cardinality(T) + Cardinality(S \ T)
  <1>1. IsFiniteSet(Ids) /\ Cardinality(Ids) = N
    BY PollAssumption, FS_Interval DEF Ids
  <1>2. IsFiniteSet(S) /\ Cardinality(S) <= N
    BY <1>1, FS_Subset
  <1>3. Cardinality(S) \in 0..N
    BY <1>2, FS_CardinalityType, PollAssumption
  <1>4. Cardinality(S) = 0 <=> S = {}
    BY <1>2, FS_EmptySet
  <1>5. \A x : /\ Cardinality(S \cup {x}) = IF x \in S THEN Cardinality(S) ELSE Cardinality(S) + 1
               /\ Cardinality(S \ {x}) = IF x \in S THEN Cardinality(S) - 1 ELSE Cardinality(S)
    BY <1>2, FS_AddElement, FS_RemoveElement
  <1>6. ASSUME NEW T \in SUBSET S
        PROVE  /\ Cardinality(T) <= Cardinality(S)
               /\ Cardinality(S) = Cardinality(T) => S = T
               /\ Cardinality(S) = Cardinality(T) + Cardinality(S \ T)
    <2>1. /\ IsFiniteSet(T) /\ Cardinality(T) <= Cardinality(S)
          /\ Cardinality(S) = Cardinality(T) => S = T
      BY <1>2, FS_Subset
    <2>2. S \cap T = T /\ Cardinality(S \ T) = Cardinality(S) - Cardinality(S \cap T)
      BY <1>2, FS_Difference
    <2>3. Cardinality(T) \in Nat
      BY <2>1, FS_CardinalityType
    <2>4. QED
      BY <1>3, <2>1, <2>2, <2>3
  <1>7. QED
    BY <1>2, <1>3, <1>4, <1>5, <1>6

\* The next of the list, which is the least of it, exists.
LEMMA LeastIsFirst ==
  ASSUME NEW S \in SUBSET Ids, S # {}
  PROVE  Least(S) \in S /\ \A j \in S : Least(S) <= j
  <1> DEFINE R == {ss \in Nat \X Nat : ss[1] < ss[2]}
  <1>1. IsWellFoundedOn(R, Nat)
    BY NatLessThanWellFounded DEF OpToRel
  <1>2. \A x, y \in Nat : <<y, x>> \in R <=> y < x
    OBVIOUS
  <1>3. S \subseteq Nat
    BY PollAssumption DEF Ids
  <1> HIDE DEF R
  <1>4. PICK x \in S : \A y \in S : ~(<<y, x>> \in R)
    BY <1>1, <1>3, WFMin
  <1>5. ASSUME NEW y \in S
        PROVE  x <= y
    <2>1. x \in Nat /\ y \in Nat /\ ~(y < x)
      BY <1>2, <1>3, <1>4
    <2>2. QED
      BY <2>1
  <1>6. QED
    BY <1>5 DEF Least

\* The share of a request: no more than there is, no less than the minimum, and if
\* the minimum for each fitted before, it fits for the others after it.
LEMMA ShareFits ==
  ASSUME TypeOK, todo # {}, ~OutOfTime
  PROVE  /\ Share \in MinPerRequest..MaxPerRequest /\ Share <= left
         /\ Cardinality(todo) * MinPerRequest < left /\ Cardinality(todo) > 1 =>
              (Cardinality(todo) - 1) * MinPerRequest < left - Share
  <1> DEFINE n == Cardinality(todo)
             even == left \div n
  <1>1. n \in Nat \ {0}
    BY Counting DEF TypeOK
  <1>2. left \in Nat /\ MinPerRequest < left /\ MinPerRequest \in Nat \ {0} /\ MaxPerRequest \in Nat
        /\ MinPerRequest <= MaxPerRequest
    BY PollAssumption DEF TypeOK, OutOfTime
  <1>3. even \in Nat /\ n * even <= left /\ even <= left
    BY <1>1, <1>2
  <1>4. Share = IF even < MinPerRequest THEN MinPerRequest
                ELSE IF even > MaxPerRequest THEN MaxPerRequest ELSE even
    BY DEF Share
  <1>5. ASSUME n * MinPerRequest < left
        PROVE  even >= MinPerRequest
    BY <1>1, <1>2, <1>5
  <1> HIDE DEF even, n
  <1>6. Share \in MinPerRequest..MaxPerRequest /\ Share <= left
    BY <1>2, <1>3, <1>4
  <1>7. ASSUME n * MinPerRequest < left, n > 1
        PROVE  (n - 1) * MinPerRequest < left - Share
    <2>1. Share \in Nat /\ Share <= even /\ Share >= MinPerRequest
      BY <1>2, <1>3, <1>4, <1>5, <1>7
    <2>2. n * Share <= n * even
      BY <1>1, <1>3, <2>1
    <2>3. n * Share <= left
      BY <1>1, <1>2, <1>3, <2>1, <2>2
    <2> HIDE DEF OutOfTime
    <2>4. (n - 1) * Share <= left - Share
      BY <1>1, <1>2, <2>1, <2>3
    <2>5. CASE Share = MinPerRequest
      BY <1>1, <1>2, <1>7, <2>5
    <2>6. CASE Share > MinPerRequest
      <3>1. (n - 1) * MinPerRequest < (n - 1) * Share
        BY <1>1, <1>2, <1>7, <2>1, <2>6
      <3>2. QED
        BY <1>1, <1>2, <2>1, <2>4, <3>1
    <2>7. QED
      BY <1>2, <2>1, <2>5, <2>6
  <1>8. QED
    BY <1>6, <1>7 DEF n

-----------------------------------------------------------------------------
(* The steps                                                                 *)

LEMMA PollInit == Init => PollInv
  <1> SUFFICES ASSUME Init
               PROVE  PollInv
    OBVIOUS
  <1> USE DEF Init
  <1>1. TypeOK
    BY PollAssumption DEF TypeOK
  <1>2. Cardinality({}) = 0 /\ Asked = {}
    BY FS_EmptySet DEF Asked
  <1>3. OrderInv /\ PlaceInv /\ TimeInv /\ ShareInv
    BY <1>2 DEF OrderInv, PlaceInv, TimeInv, OverrunIsOneClear, ShareInv
  <1>4. CountInv /\ RunInv
    BY <1>2 DEF CountInv, EveryoneIsCounted, RunInv, GivesUpAfterARow
  <1>5. QED
    BY <1>1, <1>3, <1>4 DEF PollInv

\* The queue grows, or somebody taps: the poll is left alone.
LEMMA PollOthers ==
  ASSUME PollInv, Queue \/ \E id \in Ids : Tap(id)
  PROVE  PollInv'
  <1>1. /\ UNCHANGED <<decided, pc, list, todo, at, left, timeout, errors, stats>>
        /\ queued' \in 0..N /\ tapped \subseteq tapped' /\ tapped' \subseteq Ids
    <2>1. CASE Queue
      BY <2>1, PollAssumption DEF PollInv, TypeOK, Queue
    <2>2. ASSUME NEW id \in Ids, Tap(id)
          PROVE  /\ UNCHANGED <<decided, pc, list, todo, at, left, timeout, errors, stats>>
                 /\ queued' = queued /\ tapped' = tapped \cup {id}
      BY <2>2 DEF Tap
    <2>3. QED
      BY <2>1, <2>2 DEF PollInv, TypeOK
  <1> USE <1>1 DEF PollInv, stats
  <1>2. TypeOK'
    BY DEF TypeOK, Ids, Asked
  <1>3. OrderInv' /\ PlaceInv'
    BY DEF OrderInv, PlaceInv, Asked
  <1>4. TimeInv' /\ ShareInv'
    BY DEF TimeInv, OverrunIsOneClear, ShareInv, Fits, Asked
  <1>5. CountInv' /\ RunInv'
    BY DEF CountInv, EveryoneIsCounted, RunInv, GivesUpAfterARow, LastAsked, Asked, Done, IsRun
  <1>6. QED
    BY <1>2, <1>3, <1>4, <1>5

LEMMA PollStart ==
  ASSUME PollInv, Start
  PROVE  PollInv'
  <1> DEFINE pending == (1..queued) \ decided
  <1> USE DEF Start
  <1>1. /\ pending \subseteq Ids /\ pending # {} /\ pending \cap decided = {}
    BY PollAssumption DEF PollInv, TypeOK, Ids
  <1>2. /\ UNCHANGED <<queued, tapped, decided, at, timeout>> /\ Asked' = {}
        /\ list' = pending /\ todo' = pending
    BY DEF queue, Asked
  <1>3. TypeOK'
    BY <1>1, <1>2, PollAssumption DEF PollInv, TypeOK
  <1>4. OrderInv' /\ PlaceInv'
    BY <1>2 DEF OrderInv, PlaceInv
  <1>5. TimeInv'
    BY PollAssumption DEF TimeInv, OverrunIsOneClear
  <1>6. ShareInv'
    BY <1>1, <1>2 DEF ShareInv, Fits
  <1>7. CountInv'
    BY <1>2, FS_EmptySet DEF CountInv, EveryoneIsCounted
  <1>8. RunInv'
    BY <1>2, FS_EmptySet DEF RunInv, Done, IsRun, GivesUpAfterARow
  <1>9. QED
    BY <1>3, <1>4, <1>5, <1>6, <1>7, <1>8 DEF PollInv

\* What the sets of a poll's walk are and how many they hold.
LEMMA Sets ==
  ASSUME TypeOK
  PROVE  /\ list \in SUBSET Ids /\ todo \in SUBSET Ids /\ Asked \in SUBSET Ids
         /\ failed \in SUBSET Ids /\ Asked \cup todo = list /\ Asked \cap todo = {}
         /\ Cardinality(list) = Cardinality(todo) + Cardinality(Asked)
         /\ pc \in {"ask", "apply", "clear"} => at \in Asked
  <1>1. /\ list \in SUBSET Ids /\ todo \in SUBSET Ids /\ Asked \in SUBSET Ids
        /\ failed \in SUBSET Ids /\ Asked \cup todo = list /\ Asked \cap todo = {}
        /\ pc \in {"ask", "apply", "clear"} => at \in Asked /\ todo \in SUBSET list
    BY DEF TypeOK, Asked
  <1>2. Cardinality(list) = Cardinality(todo) + Cardinality(list \ todo)
    BY <1>1, Counting
  <1>3. QED
    BY <1>1, <1>2 DEF Asked

\* A poll stops, for want of time or of answers, or is through with its list.
LEMMA PollStops ==
  ASSUME PollInv, StopForBudget \/ StopForErrors \/ End
  PROVE  PollInv'
  <1> DEFINE n == Cardinality(todo)
  <1>1. /\ pc = "walk" /\ pc' = "over" /\ at' = 0 /\ timeout' = 0 /\ errors' = 0
        /\ UNCHANGED <<queued, tapped, decided, list, todo, left, failed, polled>>
        /\ Asked' = Asked
    BY DEF StopForBudget, StopForErrors, End, Stop, Exit, queue, stats, Asked
  <1>2. /\ n \in 0..N /\ (n = 0 <=> todo = {}) /\ Cardinality(list) = n + Cardinality(Asked)
        /\ Cardinality(Asked) \in 0..N /\ Cardinality(failed) \in 0..N
    BY Sets, Counting DEF PollInv
  <1>3. /\ unpolled' = n
        /\ \/ stoppedBy' = "budget" /\ OutOfTime /\ todo # {}
           \/ stoppedBy' = "relais_unreachable" /\ errors >= MaxErrors /\ todo # {}
           \/ stoppedBy' = "nothing" /\ todo = {}
    <2>1. CASE End
      BY <1>1, <1>2, <2>1 DEF End, stats, PollInv, PlaceInv
    <2>2. CASE StopForBudget
      BY <2>2 DEF StopForBudget, Stop
    <2>3. CASE StopForErrors
      BY <2>3 DEF StopForErrors, Stop
    <2>4. QED
      BY <2>1, <2>2, <2>3
  <1>4. TypeOK'
    BY <1>1, <1>2, <1>3, PollAssumption DEF PollInv, TypeOK
  <1>5. OrderInv' /\ PlaceInv' /\ TimeInv'
    BY <1>1 DEF PollInv, OrderInv, PlaceInv, TimeInv, OverrunIsOneClear
  <1>6. ShareInv'
    <2>1. ASSUME Fits, todo # {}
          PROVE  ~OutOfTime
      <3>1. n * MinPerRequest < left /\ n >= 1
        BY <1>1, <1>2, <2>1 DEF PollInv, ShareInv
      <3>2. MinPerRequest \in Nat /\ left \in Int /\ n \in Nat
        BY <1>2, PollAssumption DEF PollInv, TypeOK
      <3> HIDE DEF n
      <3>3. n * MinPerRequest >= MinPerRequest
        BY <3>1, <3>2
      <3>4. QED
        BY <3>1, <3>2, <3>3 DEF OutOfTime
    <2>2. Fits' = Fits
      BY <1>1 DEF Fits
    <2>3. QED
      BY <1>1, <1>3, <2>1, <2>2 DEF ShareInv
  <1>7. CountInv'
    <2>1. polled + Cardinality(failed) = Cardinality(Asked) /\ polled \in Nat
      BY <1>1, <1>2 DEF PollInv, CountInv, TypeOK
    <2>2. failed' = failed /\ Cardinality(list)' = Cardinality(list)
      BY <1>1
    <2> HIDE DEF n
    <2>3. EveryoneIsCounted'
      BY <1>1, <1>2, <1>3, <2>1, <2>2 DEF EveryoneIsCounted
    <2>4. QED
      BY <1>1, <2>3 DEF CountInv
  <1>8. RunInv'
    <2>1. ASSUME stoppedBy' = "relais_unreachable"
          PROVE  Cardinality(LastAsked) = MaxErrors /\ LastAsked \subseteq failed
      <3>1. errors = MaxErrors
        BY <1>3, <2>1, PollAssumption DEF PollInv, TypeOK
      <3>2. PICK F \in SUBSET (Asked \cap failed) : Cardinality(F) = MaxErrors /\ IsRun(F, Asked)
        BY <1>1, <3>1 DEF PollInv, RunInv, Done
      <3>3. F \in SUBSET Ids /\ Asked \in SUBSET Ids /\ Asked \subseteq Int
        BY <3>2, Sets DEF PollInv, Ids
      <3>4. ASSUME NEW i \in F
            PROVE  Cardinality({j \in Asked : j > i}) < MaxErrors
        <4> DEFINE later == {j \in Asked : j > i}
        <4>1. later \in SUBSET (F \ {i})
          <5>1. ASSUME NEW j \in later
                PROVE  j \in F \ {i}
            <6>1. j \in Asked /\ j > i /\ j \in Int /\ i \in Int
              BY <3>3
            <6>2. j \notin Asked \ F
              BY <3>2, <6>1 DEF IsRun
            <6>3. QED
              BY <6>1, <6>2
          <5>2. QED
            BY <5>1
        <4> HIDE DEF later
        <4>2. Cardinality(F \ {i}) = MaxErrors - 1 /\ F \ {i} \in SUBSET Ids
          BY <3>2, <3>3, Counting
        <4>3. /\ Cardinality(later) <= Cardinality(F \ {i})
              /\ Cardinality(later) \in 0..N
          <5>1. later \in SUBSET Ids
            BY <4>1, <4>2
          <5>2. QED
            BY <4>1, <4>2, <5>1, Counting
        <4>4. QED
          BY <4>2, <4>3, PollAssumption DEF later
      <3>5. ASSUME NEW i \in Asked \ F
            PROVE  Cardinality({j \in Asked : j > i}) >= MaxErrors
        <4> DEFINE later == {j \in Asked : j > i}
        <4>1. F \in SUBSET later /\ later \in SUBSET Ids
          BY <3>2, <3>3 DEF IsRun
        <4> HIDE DEF later
        <4>2. Cardinality(F) <= Cardinality(later) /\ Cardinality(later) \in Int
          <5>1. IsFiniteSet(later) /\ Cardinality(later) \in 0..N
            BY <4>1, Counting
          <5>2. QED
            BY <4>1, <5>1, FS_Subset
        <4>3. QED
          BY <3>2, <4>2, PollAssumption DEF later
      <3>6. \A i \in Asked : Cardinality({j \in Asked : j > i}) \in Int
        <4>1. \A i \in Asked : {j \in Asked : j > i} \in SUBSET Ids
          BY <3>3
        <4>2. QED
          BY <4>1, Counting
      <3>7. LastAsked = F
        BY <3>2, <3>4, <3>5, <3>6, PollAssumption DEF LastAsked
      <3>8. QED
        BY <3>2, <3>7
    <2>2. LastAsked' = LastAsked
      BY <1>1 DEF LastAsked
    <2>3. QED
      BY <1>1, <2>1, <2>2 DEF RunInv, GivesUpAfterARow
  <1>9. QED
    BY <1>4, <1>5, <1>6, <1>7, <1>8 DEF PollInv

\* A request leaves.
LEMMA PollAsks ==
  ASSUME PollInv, Ask
  PROVE  PollInv'
  <1> DEFINE n == Cardinality(todo)
             next == Least(todo)
  <1>1. /\ pc = "walk" /\ pc' = "ask" /\ todo # {} /\ ~OutOfTime /\ errors < MaxErrors
        /\ at' = next /\ todo' = todo \ {next} /\ timeout' = Share
        /\ UNCHANGED <<queued, tapped, decided, list, left, errors, failed, polled, unpolled, stoppedBy>>
    BY DEF Ask, queue, stats
  <1>2. /\ list \in SUBSET Ids /\ todo \in SUBSET Ids /\ Asked \in SUBSET Ids
        /\ failed \in SUBSET Ids /\ Asked \cup todo = list /\ Asked \cap todo = {}
    BY Sets DEF PollInv
  <1>3. next \in todo /\ next \notin Asked /\ next \in Ids /\ \A j \in todo : next <= j
    BY <1>1, <1>2, LeastIsFirst
  <1>4. Asked' = Asked \cup {next} /\ Done' = Asked /\ Done = Asked
    BY <1>1, <1>2, <1>3 DEF Asked, Done
  <1>5. /\ Share \in MinPerRequest..MaxPerRequest /\ Share <= left
        /\ n * MinPerRequest < left /\ n > 1 => (n - 1) * MinPerRequest < left - Share
    BY <1>1, ShareFits DEF PollInv
  <1>6. n \in Nat \ {0} /\ Cardinality(todo') = n - 1 /\ (Cardinality(todo') = 0 <=> todo' = {})
    <2>1. n \in Nat \ {0} /\ Cardinality(todo') = n - 1
      BY <1>1, <1>2, <1>3, Counting
    <2>2. todo' \in SUBSET Ids
      BY <1>1, <1>2
    <2>3. Cardinality(todo') = 0 <=> todo' = {}
      BY <2>2, Counting
    <2>4. QED
      BY <2>1, <2>3
  <1> HIDE DEF n, next
  <1>7. TypeOK'
    <2>1. timeout' \in 0..MaxPerRequest
      BY <1>1, <1>5, PollAssumption
    <2>2. at' \in 0..N /\ at' \in list' \ todo' /\ todo' \subseteq list'
      BY <1>1, <1>2, <1>3 DEF Ids
    <2>3. failed' \subseteq Asked'
      BY <1>1, <1>4 DEF PollInv, TypeOK
    <2>4. QED
      BY <1>1, <2>1, <2>2, <2>3 DEF PollInv, TypeOK
  <1>8. OrderInv'
    <2>1. \A i \in Asked : \A j \in todo : i < j
      BY DEF PollInv, OrderInv
    <2>2. \A j \in todo \ {next} : next < j
      BY <1>2, <1>3 DEF Ids
    <2>3. QED
      BY <1>1, <1>3, <1>4, <2>1, <2>2 DEF OrderInv
  <1>9. PlaceInv' /\ TimeInv'
    <2>1. 0 <= left /\ left \in Int
      BY <1>5, PollAssumption DEF PollInv, TypeOK
    <2>2. QED
      BY <1>1, <1>5, <2>1 DEF PollInv, PlaceInv, TimeInv, OverrunIsOneClear
  <1>10. ShareInv'
    <2>1. ASSUME Fits, todo' # {}
          PROVE  Cardinality(todo') * MinPerRequest < left - Share
      <3>1. n * MinPerRequest < left
        BY <1>1, <2>1 DEF PollInv, ShareInv, n
      <3>2. n > 1
        BY <1>6, <2>1
      <3>3. QED
        BY <1>5, <1>6, <3>1, <3>2
    <2>2. Fits' = Fits
      BY <1>1 DEF Fits
    <2>3. QED
      BY <1>1, <2>1, <2>2 DEF PollInv, ShareInv
  <1>11. CountInv'
    <2>1. polled + Cardinality(failed) = Cardinality(Asked) /\ polled \in Nat
      BY <1>1, <1>2, Counting DEF PollInv, CountInv, TypeOK
    <2>2. Cardinality(Asked') = Cardinality(Asked) + 1 /\ Cardinality(Asked) \in Nat
      BY <1>2, <1>3, <1>4, Counting
    <2>3. Cardinality(failed) \in Nat /\ next \notin failed
      BY <1>2, <1>3, Counting DEF PollInv, TypeOK
    <2>4. QED
      BY <1>1, <2>1, <2>2, <2>3 DEF CountInv, EveryoneIsCounted
  <1>12. RunInv'
    <2>1. stoppedBy' = "nothing" /\ pc' = "ask"
      BY <1>1 DEF PollInv, PlaceInv
    <2>2. PICK F \in SUBSET (Asked \cap failed) : Cardinality(F) = errors /\ IsRun(F, Asked)
      BY <1>1, <1>4 DEF PollInv, RunInv
    <2>3. QED
      BY <1>1, <1>4, <2>1, <2>2 DEF RunInv, GivesUpAfterARow
  <1>13. QED
    BY <1>7, <1>8, <1>9, <1>10, <1>11, <1>12 DEF PollInv

\* It is answered, or not, or an inbox is cleared: time passes.
LEMMA PollRequest ==
  ASSUME PollInv, NEW spent \in 0..timeout, Answer(spent) \/ NoAnswer(spent) \/ Clear(spent)
  PROVE  PollInv'
  <1>1. /\ left' = left - spent /\ left' \in -MaxPerRequest..Budget /\ left' <= left
        /\ spent \in Nat /\ spent <= timeout /\ timeout \in Nat /\ left \in Int
        /\ pc \in {"ask", "clear"}
        /\ UNCHANGED <<queued, tapped, decided, list, todo, at, timeout, unpolled, stoppedBy>>
        /\ Asked' = Asked
    <2>1. /\ left' = left - spent /\ pc \in {"ask", "clear"}
          /\ UNCHANGED <<queued, tapped, decided, list, todo, at, timeout, unpolled, stoppedBy>>
      BY DEF Answer, NoAnswer, Clear, queue, stats
    <2>2. spent \in Nat /\ timeout \in 0..MaxPerRequest /\ left \in -MaxPerRequest..Budget /\ 0 <= left
      BY <2>1, PollAssumption DEF PollInv, TypeOK, TimeInv
    <2>3. QED
      BY <2>1, <2>2, PollAssumption DEF Asked
  <1>2. /\ Asked \in SUBSET Ids /\ failed \in SUBSET Ids /\ at \in Asked
        /\ Cardinality(Asked) \in 0..N /\ Cardinality(failed) \in 0..N
    BY <1>1, Sets, Counting DEF PollInv
  <1>3. /\ polled' \in Nat /\ errors' \in 0..MaxErrors /\ pc' \in {"walk", "apply"}
        /\ pc' = "apply" => at \in tapped /\ pc = "ask"
        /\ failed \subseteq failed' /\ failed' \subseteq Asked
        /\ polled' + Cardinality(failed') = Cardinality(Asked)
    <2>1. CASE Answer(spent)
      BY <1>1, <1>2, <2>1, PollAssumption DEF Answer, PollInv, TypeOK, CountInv
    <2>2. CASE NoAnswer(spent)
      <3>1. pc = "ask" /\ pc' = "walk" /\ errors' = errors + 1 /\ failed' = failed \cup {at} /\ polled' = polled
        BY <2>2 DEF NoAnswer
      <3>2. at \notin failed /\ errors < MaxErrors
        BY <3>1 DEF PollInv, CountInv, PlaceInv
      <3>3. Cardinality(failed \cup {at}) = Cardinality(failed) + 1
        BY <1>2, <3>2, Counting
      <3>4. QED
        BY <1>1, <1>2, <3>1, <3>2, <3>3, PollAssumption DEF PollInv, TypeOK, CountInv
    <2>3. CASE Clear(spent)
      BY <1>1, <1>2, <2>3, PollAssumption DEF Clear, stats, PollInv, TypeOK, CountInv
    <2>4. QED
      BY <2>1, <2>2, <2>3
  <1>4. TypeOK'
    <2>1. polled' \in 0..N
      <3>1. failed' \in SUBSET Ids
        BY <1>2, <1>3
      <3>2. Cardinality(failed') \in 0..N
        BY <3>1, Counting
      <3>3. QED
        BY <1>2, <1>3, <3>2, PollAssumption
    <2>2. QED
      BY <1>1, <1>3, <2>1 DEF PollInv, TypeOK
  <1>5. OrderInv' /\ PlaceInv'
    BY <1>1, <1>3 DEF PollInv, OrderInv, PlaceInv
  <1>6. TimeInv'
    <2>1. CASE pc = "ask"
      <3>1. left' >= 0 /\ left' \in Int
        BY <1>1, <2>1 DEF PollInv, TimeInv, OverrunIsOneClear
      <3>2. QED
        BY <1>3, <3>1 DEF TimeInv, OverrunIsOneClear
    <2>2. CASE pc = "clear"
      <3>1. at \in Asked \cap decided
        BY <1>2, <2>2 DEF PollInv, PlaceInv
      <3>2. QED
        BY <1>1, <1>3, <2>2, <3>1 DEF TimeInv, OverrunIsOneClear
    <2>3. QED
      BY <1>1, <2>1, <2>2
  <1>7. ShareInv'
    <2>1. ASSUME Fits
          PROVE  pc = "ask"
      BY <1>1, <1>2, <2>1 DEF PollInv, PlaceInv, Fits, Asked
    <2>2. Fits' = Fits
      BY <1>1 DEF Fits
    <2>3. ASSUME Fits, todo # {}
          PROVE  Cardinality(todo) * MinPerRequest < left'
      <3>1. Cardinality(todo) * MinPerRequest < left - timeout
        BY <2>1, <2>3 DEF PollInv, ShareInv
      <3>2. Cardinality(todo) * MinPerRequest \in Int
        BY PollAssumption, Sets, Counting DEF PollInv
      <3>3. QED
        BY <1>1, <3>1, <3>2
    <2>4. QED
      BY <1>1, <1>3, <2>2, <2>3 DEF PollInv, ShareInv
  <1>8. CountInv'
    BY <1>1, <1>2, <1>3 DEF CountInv, EveryoneIsCounted
  <1>9. RunInv'
    <2>1. Done' = Asked
      BY <1>1, <1>3 DEF Done
    <2>2. \E F \in SUBSET (Asked \cap failed') : Cardinality(F) = errors' /\ IsRun(F, Asked)
      <3>1. CASE Answer(spent)
        <4>1. errors' = 0
          BY <3>1 DEF Answer
        <4>2. QED
          BY <4>1, FS_EmptySet DEF IsRun
      <3>2. CASE NoAnswer(spent)
        <4>1. pc = "ask" /\ failed' = failed \cup {at} /\ errors' = errors + 1
          BY <3>2 DEF NoAnswer
        <4>2. PICK F \in SUBSET ((Asked \ {at}) \cap failed) :
                Cardinality(F) = errors /\ IsRun(F, Asked \ {at})
          BY <4>1 DEF PollInv, RunInv, Done
        <4>3. F \cup {at} \in SUBSET (Asked \cap failed') /\ at \notin F /\ F \in SUBSET Ids
          BY <1>2, <4>1, <4>2
        <4>4. Cardinality(F \cup {at}) = errors'
          BY <4>1, <4>2, <4>3, Counting
        <4>5. IsRun(F \cup {at}, Asked)
          BY <4>1, <4>2 DEF IsRun, PollInv, OrderInv
        <4>6. QED
          BY <4>3, <4>4, <4>5
      <3>3. CASE Clear(spent)
        <4>1. pc = "clear" /\ errors' = errors /\ failed' = failed
          BY <3>3 DEF Clear, stats
        <4>2. QED
          BY <4>1 DEF PollInv, RunInv, Done
      <3>4. QED
        BY <3>1, <3>2, <3>3
    <2>3. GivesUpAfterARow'
      <3>1. LastAsked' = LastAsked
        BY <1>1 DEF LastAsked
      <3>2. QED
        BY <1>1, <1>3, <3>1 DEF PollInv, RunInv, GivesUpAfterARow
    <2>4. QED
      BY <1>1, <2>1, <2>2, <2>3 DEF RunInv
  <1>10. QED
    BY <1>4, <1>5, <1>6, <1>7, <1>8, <1>9 DEF PollInv

\* A decision is written, or cannot be: no time passes.
LEMMA PollApplies ==
  ASSUME PollInv, Apply \/ ApplyFails
  PROVE  PollInv'
  <1>1. /\ pc = "apply" /\ pc' \in {"clear", "walk"}
        /\ decided \subseteq decided' /\ decided' \subseteq decided \cup {at}
        /\ pc' = "clear" => at \in decided'
        /\ UNCHANGED <<queued, tapped, list, todo, at, left, timeout, errors, failed, polled, unpolled,
                       stoppedBy>>
        /\ Asked' = Asked
    BY DEF Apply, ApplyFails, queue, stats, Asked
  <1>2. at \in tapped /\ at \in Asked
    BY <1>1, Sets DEF PollInv, PlaceInv
  <1>3. TypeOK'
    BY <1>1, <1>2 DEF PollInv, TypeOK
  <1>4. OrderInv' /\ PlaceInv'
    BY <1>1, <1>2 DEF PollInv, OrderInv, PlaceInv
  <1>5. TimeInv'
    BY <1>1 DEF PollInv, TimeInv, OverrunIsOneClear, TypeOK
  <1>6. ShareInv'
    <2>1. Fits' => Fits
      BY <1>1 DEF Fits
    <2>2. Fits' => pc' = "walk"
      BY <1>1, <1>2 DEF Fits, Asked
    <2>3. QED
      BY <1>1, <2>1, <2>2 DEF PollInv, ShareInv
  <1>7. CountInv'
    BY <1>1 DEF PollInv, CountInv, EveryoneIsCounted
  <1>8. RunInv'
    BY <1>1 DEF PollInv, RunInv, Done, GivesUpAfterARow, LastAsked
  <1>9. QED
    BY <1>3, <1>4, <1>5, <1>6, <1>7, <1>8 DEF PollInv

LEMMA PollNext == PollInv /\ [Next]_vars => PollInv'
  <1> SUFFICES ASSUME PollInv, [Next]_vars
               PROVE  PollInv'
    OBVIOUS
  <1>1. CASE Queue \/ \E id \in Ids : Tap(id)
    BY <1>1, PollOthers
  <1>2. CASE Start
    BY <1>2, PollStart
  <1>3. CASE StopForBudget \/ StopForErrors \/ End
    BY <1>3, PollStops
  <1>4. CASE Ask
    BY <1>4, PollAsks
  <1>5. CASE Request
    BY <1>5, PollRequest DEF Request
  <1>6. CASE Apply \/ ApplyFails
    BY <1>6, PollApplies
  <1>7. CASE UNCHANGED vars
    <2> USE <1>7 DEF PollInv, vars, queue, stats
    <2>1. TypeOK' /\ OrderInv' /\ PlaceInv' /\ TimeInv'
      BY DEF TypeOK, OrderInv, PlaceInv, TimeInv, OverrunIsOneClear, Asked
    <2>2. ShareInv' /\ CountInv' /\ RunInv'
      BY DEF ShareInv, Fits, CountInv, EveryoneIsCounted, RunInv, GivesUpAfterARow, LastAsked,
             Asked, Done, IsRun
    <2>3. QED
      BY <2>1, <2>2
  <1>8. QED
    BY <1>1, <1>2, <1>3, <1>4, <1>5, <1>6, <1>7 DEF Next, Walk

LEMMA PollAlways == Spec => []PollInv
  BY PollInit, PollNext, PTL DEF Spec

-----------------------------------------------------------------------------
(* What a poll keeps to                                                      *)

\* No inbox is asked for longer than there is time left, and only the clearing of one
\* inbox may overrun the budget (poll.go:21-23).
THEOREM OverrunsByOneClear == Spec => []OverrunIsOneClear
  <1>1. PollInv => OverrunIsOneClear
    BY DEF PollInv, TimeInv
  <1>2. QED
    BY <1>1, PollAlways, PTL

\* When the list fits the budget at the minimum each, a walk that decides nothing is
\* not cut short for time, even if each request takes all of its share (poll.go:97-98).
THEOREM SharesAreKept == Spec => []ShareIsKept
  <1>1. PollInv => ShareIsKept
    BY DEF PollInv, ShareInv, Fits, ShareIsKept
  <1>2. QED
    BY <1>1, PollAlways, PTL

\* Each listed proposal is polled, has an error or is counted as left over, and relais
\* is reported unreachable only after that many failures in a row (poll.go:21-33).
THEOREM ReportsAreTrue == Spec => []ReportIsTrue
  <1>1. PollInv => ReportIsTrue
    BY DEF PollInv, CountInv, RunInv, ReportIsTrue
  <1>2. QED
    BY <1>1, PollAlways, PTL
=============================================================================
