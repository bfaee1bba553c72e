---------------------------- MODULE OutwardProofs ----------------------------
(***************************************************************************)
(* What leaves the machine: the publishes that share hart's window, and    *)
(* the sends that share the outbound budget.  Both hold for any number of  *)
(* runs, any limits and any windows, and both are arguments about who was  *)
(* counted when.                                                           *)
(***************************************************************************)
EXTENDS HartPublish, Outbound, FiniteSetTheorems, SequenceTheorems,
        WellFoundedInduction, TLAPS

-----------------------------------------------------------------------------
(* hart: the inductive invariant                                              *)

\* The artifacts that hart had accepted age units before a time, or earlier.
Gone(age, at) == {q \in Pubs : accepted[q] # Never /\ accepted[q] + age <= at}

\* Until when p has waited, or will have.
Until(p) == IF pc[p] = "wait" THEN wake[p] ELSE clock

\* Whoever has not been answered has nothing on hart, and has not failed.
PlaceInv ==
  \A p \in Pubs :
    /\ accepted[p] # Never => accepted[p] <= clock
    /\ pc[p] \in {"idle", "post", "wait"} => accepted[p] = Never
    /\ pc[p] # "failed" => why[p] = "none"
    /\ pc[p] = "idle" => attempt[p] = 0
    /\ pc[p] \in {"verify", "ok"} => accepted[p] # Never

\* A wait is over with Slack to spare before the deadline.
WaitInv ==
  \A p \in Pubs :
    pc[p] = "wait" => /\ clock <= wake[p] + Slack
                      /\ deadline[p] # Never => wake[p] + Slack < deadline[p]

\* What p has waited for: with Retry-After one more slot was free again after each of
\* its waits; without, hart had been full for as long as the waits took.
Outwaited(p) ==
  IF hints THEN Cardinality(Gone(Window, Until(p))) >= attempt[p]
  ELSE attempt[p] > 0 => Cardinality(Gone(Elapsed[attempt[p]], Until(p))) >= Cap
CrowdInv == \A p \in Pubs : pc[p] \in {"post", "wait"} => Outwaited(p)

\* A full window when p stopped early, that lasts until its deadline.
Lasting(p) == {q \in Pubs : accepted[q] # Never /\ accepted[q] + Window >= deadline[p] - Slack}
EarlyInv ==
  \A p \in Pubs :
    why[p] = "early" => deadline[p] # Never /\ (hints => Cardinality(Lasting(p)) >= Cap)

HartInv == /\ TypeOK /\ PlaceInv /\ WaitInv /\ CrowdInv /\ EarlyInv
           /\ SuccessIsGated /\ GivesUpOnlyIfCrowded /\ NeverDiesWaiting

-----------------------------------------------------------------------------
(* hart: counting                                                             *)

\* Groups of publishers are finite, and a part is no larger than the whole.
LEMMA SomePubs ==
  ASSUME NEW T, T \subseteq Pubs
  PROVE  /\ IsFiniteSet(T) /\ Cardinality(T) \in Nat
         /\ \A S : S \subseteq T => Cardinality(S) \in Nat /\ Cardinality(S) <= Cardinality(T)
<1>1. IsFiniteSet(T)
  BY HartAssumption, FS_Subset
<1> QED BY <1>1, FS_Subset, FS_CardinalityType

\* Two groups of uploads that have nobody in common.
LEMMA TwoCrowds ==
  ASSUME NEW S, NEW T, NEW all, S \subseteq all, T \subseteq all, all \subseteq Pubs, S \cap T = {}
  PROVE  Cardinality(S) + Cardinality(T) <= Cardinality(all)
<1>1. IsFiniteSet(S) /\ IsFiniteSet(T) /\ Cardinality(S) \in Nat /\ Cardinality(T) \in Nat
  BY SomePubs
<1>2. Cardinality(S \cup T) = Cardinality(S) + Cardinality(T) - Cardinality(S \cap T)
  BY <1>1, FS_Union
<1>3. Cardinality(S \cap T) = 0
  BY FS_EmptySet
<1>4. Cardinality(S \cup T) <= Cardinality(all)
  BY SomePubs
<1> QED BY <1>1, <1>2, <1>3, <1>4

\* The least of a set of times is one of them.
LEMMA MinOfNats ==
  ASSUME NEW S, S \subseteq Nat, S # {}
  PROVE  Min(S) \in S /\ \A y \in S : Min(S) <= y
<1> DEFINE R == {ss \in Nat \X Nat : ss[1] < ss[2]}
<1>1. IsWellFoundedOn(R, Nat)
  BY NatLessThanWellFounded DEF OpToRel
<1>2. \A x, y \in Nat : <<y, x>> \in R <=> y < x
  OBVIOUS
<1> HIDE DEF R
<1>3. PICK x \in S : \A y \in S : ~(<<y, x>> \in R)
  BY <1>1, WFMin
<1>4. ASSUME NEW y \in S PROVE x <= y
  <2>1. x \in Nat /\ y \in Nat /\ ~(<<y, x>> \in R)
    BY <1>3
  <2> QED BY <1>2, <2>1
<1> QED BY <1>4 DEF Min

\* When hart is full, there is room again when the oldest that counts has left.
LEMMA FullWindow ==
  ASSUME TypeOK, ~Room
  PROVE  /\ Cardinality(Counted) >= Cap
         /\ NextRoom \in Nat /\ clock < NextRoom
         /\ \A q \in Counted : NextRoom <= accepted[q] + Window
         /\ \E q \in Counted : NextRoom = accepted[q] + Window
<1>0. Cap \in Nat /\ Cap > 0 /\ Window \in Nat /\ clock \in Nat
  BY HartAssumption DEF TypeOK
<1>1. Cardinality(Counted) \in Nat /\ Cardinality(Counted) >= Cap
  <2>1. Counted \subseteq Pubs
    BY DEF Counted
  <2> QED BY <1>0, <2>1, SomePubs DEF Room
<1> DEFINE Times0 == {accepted[q] : q \in Counted}
<1>2. Times0 \subseteq Nat
  BY DEF Counted, TypeOK
<1>3. Times0 # {}
  <2>1. Counted # {}
    BY <1>0, <1>1, FS_EmptySet
  <2> QED BY <2>1
<1>4. Min(Times0) \in Times0 /\ \A y \in Times0 : Min(Times0) <= y
  <2> HIDE DEF Times0
  <2> QED BY <1>2, <1>3, MinOfNats
<1>5. NextRoom = Min(Times0) + Window
  BY DEF NextRoom
<1>6. PICK q \in Counted : accepted[q] = Min(Times0)
  BY <1>4
<1>7. \A r \in Counted : accepted[r] \in Nat /\ Min(Times0) <= accepted[r]
  BY <1>2, <1>4
<1> HIDE DEF Times0
<1>8. clock < accepted[q] + Window /\ accepted[q] \in Nat
  BY <1>6, <1>7 DEF Counted
<1> QED BY <1>0, <1>1, <1>5, <1>6, <1>7, <1>8

\* A wait takes time.
LEMMA WaitIsLong ==
  ASSUME TypeOK, ~Room, NEW p \in Pubs, ~Exhausted(p)
  PROVE  /\ Wait(p) \in Nat /\ Wait(p) > 0 /\ attempt[p] + 1 \in 1..Len(Delays)
         /\ ~hints => Wait(p) = Delays[attempt[p] + 1]
         /\ hints => clock + Wait(p) = NextRoom
<1>0. clock \in Nat /\ Delays \in Seq(Nat \ {0}) /\ Len(Delays) \in Nat
  BY HartAssumption DEF TypeOK
<1>1. attempt[p] \in Nat /\ attempt[p] + 1 \in 1..Len(Delays)
  BY <1>0 DEF TypeOK, Exhausted
<1>2. Delays[attempt[p] + 1] \in Nat \ {0}
  BY <1>0, <1>1
<1>3. NextRoom \in Nat /\ clock < NextRoom
  BY FullWindow
<1> QED BY <1>0, <1>1, <1>2, <1>3 DEF Wait

-----------------------------------------------------------------------------
(* hart: every step keeps the invariant                                       *)

Act(p) == \/ Begin(p) \/ Refuse(p) \/ Accept(p) \/ RequestFails(p)
          \/ RateLimited(p) \/ Wake(p) \/ Expire(p) \/ verifyGated(p)

\* A step of p moves nobody else, and hart forgets nothing.
LEMMA OnlyMoves ==
  ASSUME TypeOK, PlaceInv, NEW p \in Pubs, Act(p)
  PROVE  /\ UNCHANGED <<clock, hints>> /\ open \subseteq open' /\ open' \subseteq open \cup {p}
         /\ \A q \in Pubs \ {p} : /\ pc'[q] = pc[q] /\ why'[q] = why[q] /\ wake'[q] = wake[q]
                                  /\ attempt'[q] = attempt[q] /\ deadline'[q] = deadline[q]
                                  /\ accepted'[q] = accepted[q]
         /\ \A q \in Pubs : accepted[q] # Never => accepted'[q] = accepted[q]
         /\ \A q \in Pubs : pc'[q] # "failed" => why'[q] = why[q]
<1>1. CASE Begin(p)
  BY <1>1 DEF Begin, TypeOK, PlaceInv, Fail, remote
<1>2. CASE Refuse(p)
  BY <1>2 DEF Refuse, TypeOK, PlaceInv, Fail, remote
<1>3. CASE Accept(p)
  BY <1>3 DEF Accept, TypeOK, PlaceInv, Fail, remote
<1>4. CASE RequestFails(p)
  BY <1>4 DEF RequestFails, TypeOK, PlaceInv, Fail, remote
<1>5. CASE RateLimited(p)
  BY <1>5 DEF RateLimited, TypeOK, PlaceInv, Fail, remote
<1>6. CASE Wake(p)
  BY <1>6 DEF Wake, TypeOK, PlaceInv, Fail, remote
<1>7. CASE Expire(p)
  BY <1>7 DEF Expire, TypeOK, PlaceInv, Fail, remote
<1>8. CASE verifyGated(p)
  BY <1>8 DEF verifyGated, TypeOK, PlaceInv, Fail, remote
<1> QED BY <1>1, <1>2, <1>3, <1>4, <1>5, <1>6, <1>7, <1>8 DEF Act

\* The types: only a wait, which is long, and the time of an acceptance need an argument.
LEMMA TypeStep ==
  ASSUME TypeOK, [Next]_vars
  PROVE  TypeOK'
<1>0. /\ clock \in Nat /\ Never \notin Nat /\ MaxTime \in Nat /\ TimeLeft \subseteq Nat
      /\ Len(Delays) \in Nat
  BY HartAssumption DEF TypeOK
<1>1. CASE Tick
  BY <1>0, <1>1 DEF Tick, TypeOK, Whys, Fail, remote
<1>2. ASSUME NEW p \in Pubs, Act(p) PROVE TypeOK'
  <2>1. CASE Begin(p)
    <3>1. PICK d \in Nat \cup {Never} : deadline' = [deadline EXCEPT ![p] = d]
      <4>1. \A t \in TimeLeft : clock + t \in Nat
        BY <1>0
      <4> QED BY <2>1, <4>1 DEF Begin, TypeOK, Whys, Fail, remote
    <3> QED BY <2>1, <3>1 DEF Begin, TypeOK, Whys, Fail, remote
  <2>2. CASE Refuse(p)
    BY <2>2 DEF Refuse, TypeOK, Whys, Fail, remote
  <2>3. CASE Accept(p)
    <3>1. /\ pc' \in {[pc EXCEPT ![p] = "verify"], [pc EXCEPT ![p] = "ok"], [pc EXCEPT ![p] = "failed"]}
          /\ why' \in {why, [why EXCEPT ![p] = "request"]} /\ wake' \in {wake, [wake EXCEPT ![p] = 0]}
      BY <2>3 DEF Accept, Fail
    <3>2. /\ accepted' = [accepted EXCEPT ![p] = clock] /\ open' \in {open, open \cup {p}}
          /\ UNCHANGED <<clock, hints, attempt, deadline>>
      BY <2>3 DEF Accept
    <3>3. pc' \in [Pubs -> {"idle", "post", "wait", "verify", "ok", "failed"}]
      BY <3>1 DEF TypeOK
    <3>4. why' \in [Pubs -> Whys]
      BY <3>1 DEF TypeOK, Whys
    <3>5. wake' \in [Pubs -> Nat]
      <4>1. wake \in [Pubs -> Nat] /\ wake' \in {wake, [wake EXCEPT ![p] = 0]}
        BY <3>1 DEF TypeOK
      <4> QED BY <4>1
    <3> QED BY <1>0, <3>2, <3>3, <3>4, <3>5 DEF TypeOK
  <2>4. CASE RequestFails(p)
    BY <2>4 DEF RequestFails, TypeOK, Whys, Fail, remote
  <2>5. CASE RateLimited(p)
    <3>1. CASE pc'[p] = "wait"
      <4>1. ~Room /\ ~Exhausted(p)
        BY <2>5, <3>1 DEF RateLimited, TypeOK, Whys, Fail, remote
      <4>2. /\ pc' = [pc EXCEPT ![p] = "wait"] /\ wake' = [wake EXCEPT ![p] = clock + Wait(p)]
            /\ attempt' = [attempt EXCEPT ![p] = @ + 1]
            /\ UNCHANGED <<why, clock, hints, accepted, open, deadline>>
        BY <2>5, <3>1 DEF RateLimited, TypeOK, Whys, Fail, remote
      <4>3. clock + Wait(p) \in Nat /\ attempt[p] + 1 \in 0..Len(Delays)
        BY <1>0, <4>1, WaitIsLong
      <4> QED BY <4>2, <4>3 DEF TypeOK
    <3>2. CASE pc'[p] # "wait"
      <4>1. /\ pc' = [pc EXCEPT ![p] = "failed"] /\ wake' = [wake EXCEPT ![p] = 0]
            /\ why' \in {[why EXCEPT ![p] = "exhausted"], [why EXCEPT ![p] = "early"]}
            /\ UNCHANGED <<clock, hints, accepted, open, attempt, deadline>>
        BY <2>5, <3>2 DEF RateLimited, TypeOK, Fail, remote
      <4>2. why' \in [Pubs -> Whys]
        BY <4>1 DEF TypeOK, Whys
      <4> QED BY <4>1, <4>2 DEF TypeOK
    <3> QED BY <3>1, <3>2
  <2>6. CASE Wake(p)
    BY <2>6 DEF Wake, TypeOK, Whys, Fail, remote
  <2>7. CASE Expire(p)
    BY <2>7 DEF Expire, TypeOK, Whys, Fail, remote
  <2>8. CASE verifyGated(p)
    <3>1. /\ pc' \in {[pc EXCEPT ![p] = "ok"], [pc EXCEPT ![p] = "failed"]}
          /\ why' \in {why, [why EXCEPT ![p] = "ungated"], [why EXCEPT ![p] = "request"]}
          /\ wake' \in {wake, [wake EXCEPT ![p] = 0]}
          /\ UNCHANGED <<clock, hints, accepted, open, attempt, deadline>>
      BY <2>8 DEF verifyGated, Fail, remote
    <3>2. pc' \in [Pubs -> {"idle", "post", "wait", "verify", "ok", "failed"}]
      BY <3>1 DEF TypeOK
    <3>3. why' \in [Pubs -> Whys]
      BY <3>1 DEF TypeOK, Whys
    <3>4. wake' \in [Pubs -> Nat]
      BY <3>1 DEF TypeOK
    <3> QED BY <3>1, <3>2, <3>3, <3>4 DEF TypeOK
  <2> QED BY <1>2, <2>1, <2>2, <2>3, <2>4, <2>5, <2>6, <2>7, <2>8 DEF Act
<1>3. CASE UNCHANGED vars
  BY <1>3 DEF vars, TypeOK
<1> QED BY <1>1, <1>2, <1>3 DEF Next, Act

\* What p's own step can have been, by where it leads.
LEMMA OwnMove ==
  ASSUME TypeOK, PlaceInv, NEW p \in Pubs, Act(p)
  PROVE  /\ pc[p] # "failed"
         /\ pc'[p] = "wait" => /\ pc[p] = "post" /\ ~Room /\ ~Exhausted(p) /\ ~TooLate(p)
                               /\ wake'[p] = clock + Wait(p) /\ attempt'[p] = attempt[p] + 1
                               /\ UNCHANGED <<accepted, deadline>>
         /\ pc'[p] = "post" => \/ pc[p] = "idle" /\ attempt'[p] = 0
                               \/ pc[p] = "wait" /\ wake[p] <= clock /\ attempt'[p] = attempt[p]
         /\ pc'[p] = "ok" => accepted'[p] # Never /\ (p \in Private => p \notin open')
         /\ why'[p] = "early" => /\ ~Room /\ ~Exhausted(p) /\ TooLate(p)
                                 /\ UNCHANGED <<accepted, deadline>>
         /\ why'[p] = "exhausted" => pc[p] = "post" /\ ~Room /\ Exhausted(p) /\ UNCHANGED accepted
         /\ why'[p] = "asleep" => pc[p] = "wait" /\ Overdue(p)
<1>0. pc[p] # "failed" => why[p] = "none"
  BY DEF PlaceInv
<1>1. CASE Begin(p)
  BY <1>0, <1>1 DEF Begin, TypeOK, PlaceInv, remote
<1>2. CASE Refuse(p)
  BY <1>0, <1>2 DEF Refuse, Fail, TypeOK, remote
<1>3. CASE Accept(p)
  <2>1. pc[p] = "post" /\ pc'[p] \in {"verify", "ok", "failed"} /\ (p \in Private => pc'[p] # "ok")
    BY <1>3 DEF Accept, Fail, TypeOK
  <2>2. why'[p] \in {why[p], "request"}
    BY <1>3 DEF Accept, Fail, TypeOK
  <2>3. accepted'[p] = clock /\ clock # Never
    BY <1>3, HartAssumption DEF Accept, TypeOK
  <2> QED BY <1>0, <2>1, <2>2, <2>3
<1>4. CASE RequestFails(p)
  BY <1>0, <1>4 DEF RequestFails, Fail, TypeOK, remote
<1>5. CASE RateLimited(p)
  BY <1>0, <1>5 DEF RateLimited, Fail, TypeOK, remote
<1>6. CASE Wake(p)
  BY <1>0, <1>6 DEF Wake, TypeOK, remote
<1>7. CASE Expire(p)
  BY <1>0, <1>7 DEF Expire, Overdue, Fail, TypeOK, remote
<1>8. CASE verifyGated(p)
  <2>1. pc[p] = "verify" /\ pc'[p] \in {"ok", "failed"} /\ (pc'[p] = "ok" => p \notin open)
    BY <1>8 DEF verifyGated, Fail, TypeOK
  <2>2. why'[p] \in {why[p], "ungated", "request"}
    BY <1>8 DEF verifyGated, Fail, TypeOK
  <2>3. accepted'[p] = accepted[p] /\ accepted[p] # Never /\ open' = open
    BY <1>8, <2>1 DEF verifyGated, remote, PlaceInv
  <2>4. why'[p] # "early" /\ why'[p] # "exhausted" /\ why'[p] # "asleep"
    BY <1>0, <2>1, <2>2
  <2>5. pc'[p] # "wait" /\ pc'[p] # "post" /\ pc[p] # "failed"
    BY <2>1
  <2> QED BY <2>1, <2>3, <2>4, <2>5
<1> QED BY <1>1, <1>2, <1>3, <1>4, <1>5, <1>6, <1>7, <1>8 DEF Act

\* Nobody is accepted but by Accept, and nobody fails without saying why.
LEMMA PlaceStep ==
  ASSUME TypeOK, PlaceInv, [Next]_vars
  PROVE  PlaceInv'
<1>0. clock \in Nat /\ Never \notin Nat
  BY HartAssumption DEF TypeOK
<1>1. CASE Tick
  <2>1. clock' = clock + 1 /\ UNCHANGED <<accepted, pc, attempt, why>>
    BY <1>1 DEF Tick, remote
  <2> QED BY <1>0, <2>1 DEF PlaceInv, TypeOK
<1>2. ASSUME NEW p \in Pubs, Act(p) PROVE PlaceInv'
  <2>1. \A q \in Pubs \ {p} : /\ accepted'[q] # Never => accepted'[q] <= clock'
                              /\ pc'[q] \in {"idle", "post", "wait"} => accepted'[q] = Never
                              /\ pc'[q] # "failed" => why'[q] = "none"
                              /\ pc'[q] = "idle" => attempt'[q] = 0
                              /\ pc'[q] \in {"verify", "ok"} => accepted'[q] # Never
    BY <1>2, OnlyMoves DEF PlaceInv
  <2>2. /\ accepted'[p] # Never => accepted'[p] <= clock'
        /\ pc'[p] \in {"idle", "post", "wait"} => accepted'[p] = Never
        /\ pc'[p] # "idle"
        /\ pc'[p] \in {"verify", "ok"} => accepted'[p] # Never
    <3>1. CASE Begin(p)
      BY <3>1 DEF Begin, TypeOK, PlaceInv, remote
    <3>2. CASE Refuse(p)
      BY <3>2 DEF Refuse, Fail, TypeOK, PlaceInv, remote
    <3>3. CASE Accept(p)
      BY <1>0, <3>3 DEF Accept, Fail, TypeOK
    <3>4. CASE RequestFails(p)
      BY <3>4 DEF RequestFails, Fail, TypeOK, PlaceInv, remote
    <3>5. CASE RateLimited(p)
      BY <3>5 DEF RateLimited, Fail, TypeOK, PlaceInv, remote
    <3>6. CASE Wake(p)
      BY <3>6 DEF Wake, TypeOK, PlaceInv, remote
    <3>7. CASE Expire(p)
      BY <3>7 DEF Expire, Fail, TypeOK, PlaceInv, remote
    <3>8. CASE verifyGated(p)
      BY <3>8 DEF verifyGated, Fail, TypeOK, PlaceInv, remote
    <3> QED BY <1>2, <3>1, <3>2, <3>3, <3>4, <3>5, <3>6, <3>7, <3>8 DEF Act
  <2>3. pc'[p] # "failed" => why'[p] = "none"
    <3>1. pc[p] # "failed" /\ why[p] = "none"
      BY <1>2, OwnMove DEF PlaceInv
    <3> QED BY <1>2, <3>1, OnlyMoves
  <2> QED BY <2>1, <2>2, <2>3 DEF PlaceInv
<1>3. CASE UNCHANGED vars
  BY <1>3 DEF vars, PlaceInv
<1> QED BY <1>1, <1>2, <1>3 DEF Next, Act

\* A wait is begun only if it is over in time, and no sleeper oversleeps.
LEMMA WaitStep ==
  ASSUME TypeOK, PlaceInv, WaitInv, [Next]_vars
  PROVE  WaitInv'
<1>0. clock \in Nat /\ Slack \in Nat /\ wake \in [Pubs -> Nat] /\ deadline \in [Pubs -> Nat \cup {Never}]
  BY HartAssumption DEF TypeOK
<1>1. CASE Tick
  <2>1. /\ \A p \in Pubs : pc[p] = "wait" => clock < wake[p] + Slack
        /\ clock' = clock + 1 /\ UNCHANGED <<pc, wake, deadline>>
    BY <1>1 DEF Tick
  <2> QED BY <1>0, <2>1 DEF WaitInv
<1>2. ASSUME NEW p \in Pubs, Act(p) PROVE WaitInv'
  <2>1. \A q \in Pubs \ {p} : pc'[q] = "wait" =>
            /\ clock' <= wake'[q] + Slack /\ (deadline'[q] # Never => wake'[q] + Slack < deadline'[q])
    BY <1>2, OnlyMoves DEF WaitInv
  <2>2. ASSUME pc'[p] = "wait"
        PROVE  clock' <= wake'[p] + Slack /\ (deadline'[p] # Never => wake'[p] + Slack < deadline'[p])
    <3>1. /\ ~Room /\ ~Exhausted(p) /\ ~TooLate(p)
          /\ wake'[p] = clock + Wait(p) /\ deadline' = deadline
      BY <1>2, <2>2, OwnMove
    <3>2. Wait(p) \in Nat
      BY <3>1, WaitIsLong
    <3>3. deadline[p] # Never => deadline[p] \in Nat /\ ~(deadline[p] - clock <= Wait(p) + Slack)
      BY <1>0, <3>1 DEF TooLate
    <3>4. clock' = clock
      BY <1>2, OnlyMoves
    <3> QED BY <1>0, <3>1, <3>2, <3>3, <3>4
  <2> QED BY <2>1, <2>2 DEF WaitInv
<1>3. CASE UNCHANGED vars
  BY <1>3 DEF vars, WaitInv
<1> QED BY <1>1, <1>2, <1>3 DEF Next, Act

\* As long as hart forgets nothing, who is gone stays gone.
LEMMA GoneGrows ==
  ASSUME TypeOK, TypeOK', NEW age \in Nat, NEW at \in Nat, NEW to \in Nat, at <= to,
         \A q \in Pubs : accepted[q] # Never => accepted'[q] = accepted[q]
  PROVE  Cardinality(Gone(age, at)) <= Cardinality(Gone(age, to)')
<1>1. Gone(age, at) \subseteq Gone(age, to)'
  BY DEF Gone, TypeOK
<1>2. Gone(age, to)' \subseteq Pubs
  BY DEF Gone
<1> QED BY <1>1, <1>2, SomePubs

\* What p has waited for is not undone by time, and not by others.
LEMMA OutwaitedKept ==
  ASSUME TypeOK, TypeOK', NEW p \in Pubs, Outwaited(p), hints' = hints, attempt'[p] = attempt[p],
         Until(p) <= Until(p)', \A q \in Pubs : accepted[q] # Never => accepted'[q] = accepted[q]
  PROVE  Outwaited(p)'
<1>1. PICK at \in Nat, to \in Nat : at = Until(p) /\ to = Until(p)'
  BY DEF TypeOK, Until
<1>2. /\ Window \in Nat /\ Len(Delays) \in Nat /\ attempt[p] \in 0..Len(Delays) /\ attempt[p] \in Nat
      /\ Elapsed[attempt[p]] \in Nat
  BY HartAssumption, ScheduleAssumption DEF TypeOK
<1>3. \A age \in Nat : /\ Cardinality(Gone(age, at)) \in Nat /\ Cardinality(Gone(age, to)') \in Nat
                       /\ Cardinality(Gone(age, at)) <= Cardinality(Gone(age, to)')
  <2> TAKE age \in Nat
  <2>1. Gone(age, at) \subseteq Pubs /\ Gone(age, to)' \subseteq Pubs
    BY DEF Gone
  <2> QED BY <1>1, <2>1, SomePubs, GoneGrows
<1>4. PICK n \in Nat : n = attempt[p]
  BY <1>2
<1>5. CASE hints
  <2>1. Cardinality(Gone(Window, at)) >= n
    BY <1>1, <1>4, <1>5 DEF Outwaited
  <2>2. Cardinality(Gone(Window, to)') >= n
    BY <1>2, <1>3, <2>1
  <2>3. Gone(Window, to)' = Gone(Window, Until(p))'
    BY <1>1 DEF Gone
  <2> QED BY <1>4, <1>5, <2>2, <2>3 DEF Outwaited
<1>6. CASE ~hints /\ n > 0
  <2>1. PICK age \in Nat : age = Elapsed[n]
    BY <1>2, <1>4
  <2>2. Cardinality(Gone(age, at)) >= Cap
    BY <1>1, <1>4, <1>6, <2>1 DEF Outwaited
  <2>3. Cardinality(Gone(age, to)') >= Cap
    BY <1>3, <2>2, HartAssumption
  <2>4. Gone(age, to)' = Gone(Elapsed[attempt[p]], Until(p))'
    BY <1>1, <1>4, <2>1 DEF Gone
  <2> QED BY <1>4, <1>6, <2>3, <2>4 DEF Outwaited
<1>7. CASE ~hints /\ n = 0
  BY <1>4, <1>7 DEF Outwaited
<1> QED BY <1>4, <1>5, <1>6, <1>7

\* One more wait: with Retry-After the upload that p saw leave the window adds to those
\* that had; without, whoever made hart full then has aged by the wait.
LEMMA WaitsOnceMore ==
  ASSUME TypeOK, TypeOK', PlaceInv, NEW p \in Pubs, Outwaited(p), pc[p] = "post", pc'[p] = "wait",
         ~Room, ~Exhausted(p), wake'[p] = clock + Wait(p), attempt'[p] = attempt[p] + 1,
         UNCHANGED <<accepted, clock, hints>>
  PROVE  Outwaited(p)'
<1>1. /\ clock \in Nat /\ Window \in Nat /\ attempt[p] \in Nat /\ Until(p) = clock
      /\ Until(p)' = clock + Wait(p) /\ Cap \in Nat
  BY HartAssumption DEF TypeOK, Until
<1>2. /\ Wait(p) \in Nat /\ attempt[p] + 1 \in 1..Len(Delays)
      /\ ~hints => Wait(p) = Delays[attempt[p] + 1]
      /\ hints => clock + Wait(p) = NextRoom
  BY WaitIsLong
<1>3. \A age : Gone(age, Until(p))' \subseteq Pubs /\ Gone(age, clock) \subseteq Pubs
  BY DEF Gone
<1>4. \A age \in Nat :
        Gone(age, Until(p))' = {r \in Pubs : accepted[r] # Never /\ accepted[r] + age <= clock + Wait(p)}
  BY <1>1 DEF Gone
<1>5. \A r \in Pubs : accepted[r] # Never => accepted[r] \in Nat /\ accepted[r] <= clock
  BY DEF TypeOK, PlaceInv
<1>6. CASE hints
  <2>1. PICK q \in Counted : NextRoom = accepted[q] + Window
    BY FullWindow
  <2>2. /\ q \in Pubs /\ accepted[q] \in Nat /\ accepted[q] + Window > clock
        /\ accepted[q] + Window = clock + Wait(p)
    BY <1>2, <1>6, <2>1 DEF Counted, TypeOK
  <2>3. q \notin Gone(Window, clock)
    BY <1>1, <2>2 DEF Gone
  <2>4. Gone(Window, clock) \cup {q} \subseteq Gone(Window, Until(p))'
    <3>1. accepted[q] # Never /\ accepted[q] + Window <= clock + Wait(p)
      BY <1>1, <1>2, <2>1, <2>2 DEF Counted
    <3>2. Gone(Window, clock) \subseteq {r \in Pubs : accepted[r] # Never /\ accepted[r] + Window <= clock + Wait(p)}
      BY <1>1, <1>2, <1>5 DEF Gone
    <3> QED BY <1>1, <1>4, <2>2, <3>1, <3>2
  <2>5. IsFiniteSet(Gone(Window, clock)) /\ Cardinality(Gone(Window, clock)) \in Nat
    BY <1>3, SomePubs
  <2>6. Cardinality(Gone(Window, clock) \cup {q}) = Cardinality(Gone(Window, clock)) + 1
    BY <2>3, <2>5, FS_AddElement
  <2>7. /\ Cardinality(Gone(Window, Until(p))') \in Nat
        /\ Cardinality(Gone(Window, clock) \cup {q}) <= Cardinality(Gone(Window, Until(p))')
    BY <1>3, <2>4, SomePubs
  <2>8. Cardinality(Gone(Window, clock)) >= attempt[p]
    BY <1>1, <1>6 DEF Outwaited
  <2> QED BY <1>1, <1>6, <2>5, <2>6, <2>7, <2>8 DEF Outwaited
<1>7. CASE ~hints
  <2>1. PICK n \in Nat, longer \in Nat : n = attempt[p] /\ longer = Elapsed[n + 1]
    BY <1>1, <1>2, ScheduleAssumption
  <2>2. Elapsed[n] \in Nat /\ longer = Elapsed[n] + Wait(p) /\ (n = 0 => Elapsed[n] = 0)
    <3>1. n + 1 \in 1..Len(Delays) /\ Wait(p) = Delays[n + 1]
      BY <1>2, <1>7, <2>1
    <3>2. Len(Delays) \in Nat
      BY HartAssumption
    <3>3. n \in 0..Len(Delays) /\ (n + 1) - 1 = n
      BY <2>1, <3>1, <3>2
    <3>4. Elapsed[n + 1] = Elapsed[(n + 1) - 1] + Delays[n + 1]
      BY <3>1, ScheduleAssumption
    <3>5. Elapsed[n] \in Nat /\ (n = 0 => Elapsed[n] = 0)
      BY <3>3, ScheduleAssumption
    <3> QED BY <2>1, <3>1, <3>3, <3>4, <3>5
  <2>3. Gone(longer, Until(p))' = Gone(Elapsed[attempt[p]], Until(p))' /\ attempt'[p] = n + 1
    BY <1>1, <2>1 DEF Gone
  <2>4. PICK full \in SUBSET Pubs : Cardinality(full) >= Cap /\ full \subseteq Gone(longer, Until(p))'
    <3>1. CASE n = 0
      <4>1. Cardinality(Counted) >= Cap /\ Counted \subseteq Pubs
        BY FullWindow DEF Counted
      <4>2. Counted \subseteq Gone(longer, Until(p))'
        BY <1>1, <1>2, <1>4, <1>5, <2>1, <2>2, <3>1 DEF Counted
      <4> QED BY <4>1, <4>2
    <3>2. CASE n > 0
      <4>1. Cardinality(Gone(Elapsed[n], clock)) >= Cap
        BY <1>1, <1>7, <2>1, <3>2 DEF Outwaited
      <4>2. Gone(Elapsed[n], clock) \subseteq Gone(longer, Until(p))'
        BY <1>1, <1>2, <1>4, <1>5, <2>1, <2>2 DEF Gone
      <4> QED BY <1>3, <4>1, <4>2
    <3> QED BY <3>1, <3>2
  <2>5. /\ Cardinality(Gone(longer, Until(p))') \in Nat /\ Cardinality(full) \in Nat
        /\ Cardinality(full) <= Cardinality(Gone(longer, Until(p))')
    BY <1>3, <2>4, SomePubs
  <2> QED BY <1>1, <1>7, <2>1, <2>3, <2>4, <2>5 DEF Outwaited
<1> QED BY <1>6, <1>7

\* Others and time keep what p has waited for; its own waits add to it.
LEMMA CrowdStep ==
  ASSUME TypeOK, TypeOK', PlaceInv, CrowdInv, [Next]_vars
  PROVE  CrowdInv'
<1>0. clock \in Nat /\ wake \in [Pubs -> Nat]
  BY HartAssumption DEF TypeOK
<1>1. CASE Tick
  <2>1. clock' = clock + 1 /\ UNCHANGED <<hints, accepted, pc, attempt, wake>>
    BY <1>1 DEF Tick, remote
  <2>2. \A q \in Pubs : Until(q) <= Until(q)'
    BY <1>0, <2>1 DEF Until
  <2> QED BY <2>1, <2>2, OutwaitedKept DEF CrowdInv
<1>2. ASSUME NEW p \in Pubs, Act(p) PROVE CrowdInv'
  <2>1. /\ UNCHANGED <<clock, hints>>
        /\ \A q \in Pubs \ {p} : pc'[q] = pc[q] /\ wake'[q] = wake[q] /\ attempt'[q] = attempt[q]
        /\ \A q \in Pubs : accepted[q] # Never => accepted'[q] = accepted[q]
    BY <1>2, OnlyMoves
  <2>2. ASSUME NEW q \in Pubs \ {p}, pc'[q] \in {"post", "wait"} PROVE Outwaited(q)'
    <3>1. pc[q] \in {"post", "wait"} /\ attempt'[q] = attempt[q] /\ Until(q)' = Until(q)
      BY <2>1, <2>2 DEF Until
    <3>2. Until(q) \in Nat
      BY <1>0 DEF Until
    <3>3. Until(q) <= Until(q)'
      BY <3>1, <3>2
    <3> QED BY <2>1, <3>1, <3>3, OutwaitedKept DEF CrowdInv
  <2>3. CASE pc'[p] = "wait"
    <3>1. /\ pc[p] = "post" /\ ~Room /\ ~Exhausted(p) /\ wake'[p] = clock + Wait(p)
          /\ attempt'[p] = attempt[p] + 1 /\ UNCHANGED accepted
      BY <1>2, <2>3, OwnMove
    <3>2. Outwaited(p)'
      BY <2>1, <2>3, <3>1, WaitsOnceMore DEF CrowdInv
    <3> QED BY <2>2, <3>2 DEF CrowdInv
  <2>4. CASE pc'[p] = "post"
    <3>1. \/ pc[p] = "idle" /\ attempt'[p] = 0
          \/ pc[p] = "wait" /\ wake[p] <= clock /\ attempt'[p] = attempt[p]
      BY <1>2, <2>4, OwnMove
    <3>2. CASE attempt'[p] = 0
      <4>1. Gone(Window, Until(p))' \subseteq Pubs
        BY DEF Gone
      <4>2. Cardinality(Gone(Window, Until(p))') \in Nat
        BY <4>1, SomePubs
      <4>3. Outwaited(p)'
        BY <3>2, <4>2 DEF Outwaited
      <4> QED BY <2>2, <4>3 DEF CrowdInv
    <3>3. CASE pc[p] = "wait" /\ wake[p] <= clock /\ attempt'[p] = attempt[p]
      <4>1. Until(p) = wake[p] /\ Until(p)' = clock
        BY <2>1, <2>4, <3>3 DEF Until
      <4>2. Until(p) <= Until(p)'
        BY <3>3, <4>1
      <4>3. Outwaited(p)'
        BY <2>1, <3>3, <4>2, OutwaitedKept DEF CrowdInv
      <4> QED BY <2>2, <4>3 DEF CrowdInv
    <3> QED BY <3>1, <3>2, <3>3
  <2>5. CASE pc'[p] # "wait" /\ pc'[p] # "post"
    BY <2>2, <2>5 DEF CrowdInv
  <2> QED BY <2>3, <2>4, <2>5
<1>3. CASE UNCHANGED vars
  <2>1. UNCHANGED <<clock, hints, accepted, pc, attempt, wake>>
    BY <1>3 DEF vars
  <2>2. \A q \in Pubs : Until(q) <= Until(q)'
    BY <1>0, <2>1 DEF Until
  <2> QED BY <2>1, <2>2, OutwaitedKept DEF CrowdInv
<1> QED BY <1>1, <1>2, <1>3 DEF Next, Act

\* A report, once made, stays; so does what lasts until the deadline.
LEMMA EarlyStep ==
  ASSUME TypeOK, TypeOK', PlaceInv, PlaceInv', EarlyInv, [Next]_vars
  PROVE  EarlyInv'
<1>1. ASSUME NEW q \in Pubs, why'[q] = why[q], deadline'[q] = deadline[q], why[q] = "early",
             hints' = hints, \A r \in Pubs : accepted[r] # Never => accepted'[r] = accepted[r]
      PROVE  deadline'[q] # Never /\ (hints' => Cardinality(Lasting(q)') >= Cap)
  <2>1. Lasting(q) \subseteq Lasting(q)' /\ Lasting(q)' \subseteq Pubs
    BY <1>1 DEF Lasting
  <2>2. /\ Cardinality(Lasting(q)) \in Nat /\ Cardinality(Lasting(q)') \in Nat
        /\ Cardinality(Lasting(q)) <= Cardinality(Lasting(q)')
    BY <2>1, SomePubs
  <2> QED BY <1>1, <2>2, HartAssumption DEF EarlyInv
<1>2. CASE UNCHANGED <<hints, accepted, why, deadline>>
  BY <1>1, <1>2 DEF EarlyInv
<1>3. ASSUME NEW p \in Pubs, Act(p) PROVE EarlyInv'
  <2>1. ASSUME NEW q \in Pubs \ {p}, why'[q] = "early"
        PROVE  deadline'[q] # Never /\ (hints' => Cardinality(Lasting(q)') >= Cap)
    BY <1>1, <1>3, <2>1, OnlyMoves
  <2>2. ASSUME why'[p] = "early"
        PROVE  deadline'[p] # Never /\ (hints' => Cardinality(Lasting(p)') >= Cap)
    <3>1. ~Room /\ ~Exhausted(p) /\ TooLate(p) /\ UNCHANGED <<accepted, deadline>>
      BY <1>3, <2>2, OwnMove
    <3>2. hints' = hints
      BY <1>3, OnlyMoves
    <3>3. /\ deadline[p] # Never /\ {deadline[p], clock, Slack, Window} \subseteq Nat
          /\ deadline[p] - clock <= Wait(p) + Slack
      BY <3>1, HartAssumption DEF TooLate, TypeOK
    <3>4. ASSUME hints PROVE Cardinality(Lasting(p)') >= Cap
      <4>1. clock + Wait(p) = NextRoom /\ Wait(p) \in Nat
        BY <3>1, <3>4, WaitIsLong
      <4>2. Cardinality(Counted) >= Cap /\ \A q \in Counted : NextRoom <= accepted[q] + Window
        BY <3>1, FullWindow
      <4>3. \A q \in Counted : accepted[q] \in Nat
        BY DEF Counted, TypeOK
      <4>4. \A q \in Counted : accepted[q] + Window >= deadline[p] - Slack
        BY <3>3, <4>1, <4>2, <4>3
      <4>5. Counted \subseteq Lasting(p)' /\ Lasting(p)' \subseteq Pubs
        BY <3>1, <4>4 DEF Counted, Lasting
      <4>6. /\ Cardinality(Counted) \in Nat /\ Cardinality(Lasting(p)') \in Nat
            /\ Cardinality(Counted) <= Cardinality(Lasting(p)')
        BY <4>5, SomePubs
      <4> QED BY <4>2, <4>6, HartAssumption
    <3> QED BY <3>1, <3>2, <3>3, <3>4
  <2> QED BY <2>1, <2>2 DEF EarlyInv
<1>4. CASE Tick
  BY <1>2, <1>4 DEF Tick, remote
<1>5. CASE UNCHANGED vars
  BY <1>2, <1>5 DEF vars
<1> QED BY <1>3, <1>4, <1>5 DEF Next, Act

\* The reports are true of hart as it is now: running out of attempts, success, and that
\* nobody was asleep when its time was over.
LEMMA OutcomeStep ==
  ASSUME HartInv, TypeOK', PlaceInv', [Next]_vars
  PROVE  SuccessIsGated' /\ GivesUpOnlyIfCrowded' /\ NeverDiesWaiting'
<1> USE DEF HartInv
<1>0. /\ {clock, Cap, Window, Slack, Len(Delays)} \subseteq Nat /\ Cap > 0 /\ Window > 0
      /\ wake \in [Pubs -> Nat] /\ attempt \in [Pubs -> 0..Len(Delays)] /\ Never \notin Nat
      /\ accepted \in [Pubs -> Nat \cup {Never}]
  BY HartAssumption DEF TypeOK
<1>1. ASSUME \A q \in Pubs : accepted[q] # Never => accepted'[q] = accepted[q]
      PROVE  Uploads \in Nat /\ Uploads' \in Nat /\ Uploads <= Uploads'
  <2> DEFINE all == {q \in Pubs : accepted[q] # Never}
  <2>1. all \subseteq all' /\ all' \subseteq Pubs
    BY <1>1
  <2>2. Uploads = Cardinality(all) /\ Uploads' = Cardinality(all')
    BY DEF Uploads
  <2> HIDE DEF all
  <2> QED BY <2>1, <2>2, SomePubs
<1>2. CASE UNCHANGED <<hints, accepted, open, pc, why>>
  <2>1. Uploads <= Uploads' /\ Uploads \in Nat /\ Uploads' \in Nat
    BY <1>1, <1>2
  <2>2. SuccessIsGated' /\ NeverDiesWaiting'
    BY <1>2 DEF SuccessIsGated, NeverDiesWaiting
  <2>3. GivesUpOnlyIfCrowded'
    BY <1>0, <1>2, <2>1 DEF GivesUpOnlyIfCrowded
  <2> QED BY <2>2, <2>3
<1>3. ASSUME NEW p \in Pubs, Act(p)
      PROVE  SuccessIsGated' /\ GivesUpOnlyIfCrowded' /\ NeverDiesWaiting'
  <2>1. /\ hints' = hints /\ open' \subseteq open \cup {p}
        /\ \A q \in Pubs \ {p} : pc'[q] = pc[q] /\ why'[q] = why[q] /\ accepted'[q] = accepted[q]
        /\ \A q \in Pubs : accepted[q] # Never => accepted'[q] = accepted[q]
    BY <1>3, OnlyMoves
  <2>2. SuccessIsGated'
    <3>1. \A q \in Pubs \ {p} : pc'[q] = "ok" => accepted'[q] # Never /\ (q \in Private => q \notin open')
      BY <2>1 DEF SuccessIsGated
    <3>2. pc'[p] = "ok" => accepted'[p] # Never /\ (p \in Private => p \notin open')
      BY <1>3, OwnMove
    <3> QED BY <3>1, <3>2 DEF SuccessIsGated
  <2>3. NeverDiesWaiting'
    <3>1. ASSUME why'[p] = "asleep" PROVE FALSE
      <4>1. pc[p] = "wait" /\ deadline[p] # Never /\ clock >= deadline[p]
        BY <1>3, <3>1, OwnMove DEF Overdue
      <4>2. clock <= wake[p] + Slack /\ wake[p] + Slack < deadline[p] /\ deadline[p] \in Nat
        BY <4>1 DEF WaitInv, TypeOK
      <4> QED BY <1>0, <4>1, <4>2
    <3> QED BY <2>1, <3>1 DEF NeverDiesWaiting
  <2>4. GivesUpOnlyIfCrowded'
    <3>1. /\ Uploads \in Nat /\ Uploads' \in Nat /\ Uploads <= Uploads'
      BY <1>1, <2>1
    <3>2. ASSUME NEW q \in Pubs \ {p}, why'[q] = "exhausted"
          PROVE  Uploads' >= IF hints THEN Cap + Len(Delays) ELSE 2 * Cap
      BY <1>0, <2>1, <3>1, <3>2 DEF GivesUpOnlyIfCrowded
    <3>3. ASSUME why'[p] = "exhausted"
          PROVE  Uploads' >= IF hints THEN Cap + Len(Delays) ELSE 2 * Cap
      <4>1. pc[p] = "post" /\ ~Room /\ attempt[p] = Len(Delays) /\ Until(p) = clock
        <5>1. pc[p] = "post" /\ ~Room /\ Exhausted(p)
          BY <1>3, <3>3, OwnMove
        <5> QED BY <1>0, <5>1 DEF Exhausted, Until
      <4>2. Outwaited(p)
        BY <4>1 DEF CrowdInv
      <4>3. PICK age \in Nat : age >= Window /\ Cardinality(Gone(age, clock))
                                                  >= IF hints THEN Len(Delays) ELSE Cap
        <5>1. CASE hints
          BY <1>0, <4>1, <4>2, <5>1 DEF Outwaited
        <5>2. CASE ~hints
          <6>1. Len(Delays) > 0 /\ Elapsed[Len(Delays)] \in Nat /\ Elapsed[Len(Delays)] >= Window
            BY <1>0, ScheduleAssumption
          <6> QED BY <4>1, <4>2, <5>2, <6>1 DEF Outwaited
        <5> QED BY <5>1, <5>2
      <4> DEFINE all == {q \in Pubs : accepted[q] # Never}
      <4>4. Gone(age, clock) \subseteq all /\ Counted \subseteq all /\ all \subseteq Pubs
        BY DEF Gone, Counted
      <4>5. Gone(age, clock) \cap Counted = {}
        BY <1>0, <4>3 DEF Gone, Counted
      <4>6. Uploads = Cardinality(all)
        BY DEF Uploads
      <4> HIDE DEF all
      <4>7. /\ Cardinality(Gone(age, clock)) + Cardinality(Counted) <= Uploads
            /\ Cardinality(Gone(age, clock)) \in Nat /\ Cardinality(Counted) \in Nat
        BY <4>4, <4>5, <4>6, TwoCrowds, SomePubs
      <4>8. Cardinality(Counted) >= Cap
        BY <4>1, FullWindow
      <4> QED BY <1>0, <3>1, <4>3, <4>7, <4>8
    <3> QED BY <2>1, <3>2, <3>3 DEF GivesUpOnlyIfCrowded
  <2> QED BY <2>2, <2>3, <2>4
<1>4. CASE Tick
  BY <1>2, <1>4 DEF Tick, remote
<1>5. CASE UNCHANGED vars
  BY <1>2, <1>5 DEF vars
<1> QED BY <1>3, <1>4, <1>5 DEF Next, Act

\* HartInv is inductive.
LEMMA HartAlways == Spec => []HartInv
<1>1. Init => HartInv
  <2> SUFFICES ASSUME Init PROVE HartInv
    OBVIOUS
  <2>1. Never \notin Nat /\ MaxTime \in Nat /\ Len(Delays) \in Nat
    BY HartAssumption
  <2>2. TypeOK
    BY <2>1 DEF Init, TypeOK, Whys
  <2>3. PlaceInv
    BY DEF Init, PlaceInv
  <2>4. /\ WaitInv /\ CrowdInv /\ EarlyInv
        /\ SuccessIsGated /\ GivesUpOnlyIfCrowded /\ NeverDiesWaiting
    BY DEF Init, WaitInv, CrowdInv, EarlyInv, SuccessIsGated, GivesUpOnlyIfCrowded, NeverDiesWaiting
  <2> QED BY <2>2, <2>3, <2>4 DEF HartInv
<1>2. HartInv /\ [Next]_vars => HartInv'
  <2> SUFFICES ASSUME HartInv, [Next]_vars PROVE HartInv'
    OBVIOUS
  <2>1. TypeOK /\ PlaceInv /\ WaitInv /\ CrowdInv /\ EarlyInv
    BY DEF HartInv
  <2>2. TypeOK' /\ PlaceInv' /\ WaitInv'
    BY <2>1, TypeStep, PlaceStep, WaitStep
  <2>3. CrowdInv' /\ EarlyInv'
    BY <2>1, <2>2, CrowdStep, EarlyStep
  <2>4. SuccessIsGated' /\ GivesUpOnlyIfCrowded' /\ NeverDiesWaiting'
    BY <2>2, OutcomeStep
  <2> QED BY <2>2, <2>3, <2>4 DEF HartInv
<1> QED BY <1>1, <1>2, PTL DEF Spec

\* However many runs publish at the same time, and whatever hart's window, the schedule
\* and the deadlines are, no publish is ended by its deadline while it waits.
THEOREM NobodyDiesWaiting == Spec => []NeverDiesWaiting
<1>1. HartInv => NeverDiesWaiting
  BY DEF HartInv
<1> QED BY <1>1, HartAlways, PTL

\* A success was accepted, and gated if it was to be; running out of attempts means that
\* hart took twice what fits in a window, or Cap and one more for every wait.
THEOREM OutcomesAreTrue == Spec => []OutcomeIsTrue
<1>1. HartInv => OutcomeIsTrue
  BY DEF HartInv, OutcomeIsTrue
<1> QED BY <1>1, HartAlways, PTL

\* Where hart says how long to wait, a publish that stopped early would have found no
\* room before the last Slack units of its time.
THEOREM EarlyStopsAreRight == Spec => []EarlyIsRight
<1>1. HartInv => EarlyIsRight
  <2> SUFFICES ASSUME HartInv, NEW p \in Pubs, hints, why[p] = "early", clock < deadline[p] - Slack
               PROVE  ~Room
    BY DEF EarlyIsRight
  <2>1. Cardinality(Lasting(p)) >= Cap /\ deadline[p] # Never
    BY DEF HartInv, EarlyInv
  <2>2. {clock, Slack, Window, Cap, deadline[p]} \subseteq Nat
    BY <2>1, HartAssumption DEF HartInv, TypeOK
  <2>3. Lasting(p) \subseteq Counted /\ Counted \subseteq Pubs
    BY <2>2 DEF HartInv, TypeOK, Lasting, Counted
  <2>4. /\ Cardinality(Lasting(p)) \in Nat /\ Cardinality(Counted) \in Nat
        /\ Cardinality(Lasting(p)) <= Cardinality(Counted)
    BY <2>3, SomePubs
  <2> QED BY <2>1, <2>2, <2>4 DEF Room
<1> QED BY <1>1, HartAlways, PTL

-----------------------------------------------------------------------------
(* The budget: the inductive invariant                                        *)

\* Recorded entries are as old as they say, or up to a second younger; what was dropped
\* is older than any window.
LogInv ==
  /\ OutboundTypeOK
  /\ \A n \in Entries : left[n] <= now /\ left[n] < stamps[n] + Second
  /\ \A n \in Entries \ log : stamps[n] + Retain <= now
  /\ \A p \in Procs : \A k \in 1..Len(out[p]) : out[p][k] <= now

\* The runs that send, or would be allowed to if they looked at the clock then.
Bold(window, cap, at) ==
  {p \in Procs : \/ phase[p] = "runs"
                 \/ phase[p] = "check" /\ CountSince(seen[p], window, at) < cap}

\* At any later time, what is recorded and what the bold may still send is bounded.
Bounded(window, cap) ==
  \A at \in Nat : at >= now =>
    Cardinality(Recorded(window - Second, at)) + Cardinality(Bold(window, cap, at)) * MaxSend
      < cap + Overshoot

BudgetInv ==
  /\ PerDay > 0 => Bounded(Day, PerDay)
  /\ PerHour > 0 => Bounded(Hour, PerHour)

-----------------------------------------------------------------------------
(* The budget: counting and arithmetic                                        *)

\* What a division leaves.
LEMMA Division ==
  ASSUME NEW a \in Nat, NEW b \in Nat, b > 0
  PROVE  /\ a \div b \in Nat /\ a % b \in 0..(b - 1)
         /\ a = b * (a \div b) + (a % b)
  OBVIOUS

\* A stored time is up to a second older than the time it stands for.
LEMMA EncodeIsClose ==
  ASSUME NEW t \in Nat
  PROVE  Encode(t) \in Nat /\ Encode(t) <= t /\ t < Encode(t) + Second
<1>1. Second \in Nat /\ Second > 0
  BY ClockAssumption
<1>2. t \div Second \in Nat /\ t % Second \in 0..(Second - 1) /\ t = Second * (t \div Second) + (t % Second)
  BY <1>1, Division
<1>3. PICK d \in Nat, r \in 0..(Second - 1) : d = t \div Second /\ r = t % Second /\ t = Second * d + r
  BY <1>2
<1>4. Encode(t) = Second * d /\ Second * d \in Nat
  BY <1>1, <1>3 DEF Encode
<1> QED BY <1>1, <1>3, <1>4

\* The times of day that are quiet are less than a day away from their start.
LEMMA SmallMod ==
  ASSUME NEW x \in Nat, NEW m \in Nat, m > 0, x < 2 * m
  PROVE  x % m = IF x < m THEN x ELSE x - m
<1>1. PICK d \in Nat, r \in 0..(m - 1) : r = x % m /\ x = m * d + r
  BY Division
<1>2. d < 2
  <2>1. ASSUME d >= 2 PROVE FALSE
    <3>1. PICK e \in Nat : d = e + 2
      BY <2>1
    <3>2. m * d = m * e + 2 * m /\ m * e \in Nat
      BY <3>1
    <3> QED BY <1>1, <3>2
  <2> QED BY <2>1
<1>3. CASE d = 0
  BY <1>1, <1>3
<1>4. CASE d = 1
  BY <1>1, <1>4
<1> QED BY <1>2, <1>3, <1>4

\* Groups of runs are finite, and a part is no larger than the whole.
LEMMA SomeRuns ==
  ASSUME NEW T, T \subseteq Procs
  PROVE  /\ IsFiniteSet(T) /\ Cardinality(T) \in Nat
         /\ \A S : S \subseteq T => Cardinality(S) \in Nat /\ Cardinality(S) <= Cardinality(T)
<1>1. IsFiniteSet(T)
  BY ClockAssumption, FS_Subset
<1> QED BY <1>1, FS_Subset, FS_CardinalityType

\* So are sets of entries.
LEMMA SomeEntries ==
  ASSUME OutboundTypeOK, NEW T, T \subseteq Entries
  PROVE  /\ IsFiniteSet(T) /\ Cardinality(T) \in Nat
         /\ \A S : S \subseteq T => Cardinality(S) \in Nat /\ Cardinality(S) <= Cardinality(T)
<1>1. IsFiniteSet(Entries)
  <2>1. Len(stamps) \in Nat
    BY DEF OutboundTypeOK, Times
  <2> QED BY <2>1, FS_Interval DEF Entries
<1>2. IsFiniteSet(T)
  BY <1>1, FS_Subset
<1> QED BY <1>2, FS_Subset, FS_CardinalityType

\* Nothing changes when fewer are recorded and fewer may send, nor when somebody who
\* could send MaxSend has recorded as many.
LEMMA Balance ==
  ASSUME NEW m \in Nat, NEW limit \in Nat, NEW r \in Nat, NEW b \in Nat, r + b * m < limit,
         NEW s \in Nat, NEW c \in Nat, \/ s <= r /\ c <= b
                                       \/ s <= r + m /\ c + 1 <= b
  PROVE  s + c * m < limit
<1>1. CASE s <= r /\ c <= b
  <2>1. PICK d \in Nat : b = c + d
    BY <1>1
  <2>2. b * m = c * m + d * m /\ {b * m, c * m, d * m} \subseteq Nat
    BY <2>1
  <2> QED BY <1>1, <2>2
<1>2. CASE s <= r + m /\ c + 1 <= b
  <2>1. PICK d \in Nat : b = c + 1 + d
    BY <1>2
  <2>2. b * m = c * m + m + d * m /\ {b * m, c * m, d * m} \subseteq Nat
    BY <2>1
  <2> QED BY <1>2, <2>2
<1> QED BY <1>1, <1>2

-----------------------------------------------------------------------------
(* The budget: every step keeps the invariant                                 *)

\* The entries that a run adds come after those there are.
LEMMA AddedFacts ==
  ASSUME OutboundTypeOK, NEW k \in Nat
  PROVE  /\ Added(k) \in Times /\ Len(Added(k)) = Len(stamps) + k
         /\ \A n \in Entries : Added(k)[n] = stamps[n]
         /\ \A n \in 1..(Len(stamps) + k) : n \notin Entries => Added(k)[n] = Encode(now)
<1> DEFINE s == [j \in 1..k |-> Encode(now)]
<1>1. now \in 0..LastTick /\ LastTick \in Nat /\ stamps \in Times /\ Len(stamps) \in Nat
  BY ClockAssumption DEF OutboundTypeOK, Times
<1>2. Encode(now) \in 0..LastTick
  BY <1>1, EncodeIsClose
<1>3. s \in Times /\ Len(s) = k /\ \A j \in 1..k : s[j] = Encode(now)
  BY <1>2 DEF Times
<1>4. Added(k) = stamps \o s
  BY DEF Added
<1> HIDE DEF s
<1>5. /\ stamps \o s \in Times /\ Len(stamps \o s) = Len(stamps) + k
      /\ \A n \in 1..(Len(stamps) + k) :
            (stamps \o s)[n] = IF n <= Len(stamps) THEN stamps[n] ELSE s[n - Len(stamps)]
  BY <1>1, <1>3, ConcatProperties DEF Times
<1> QED BY <1>1, <1>3, <1>4, <1>5 DEF Entries

\* What a run that is over adds to the log is what it sent, and no entry of the last
\* Retain is dropped.
LEMMA FinishFacts ==
  ASSUME OutboundTypeOK, NEW p \in Procs, Finish(p)
  PROVE  /\ phase[p] = "runs" /\ Len(out[p]) \in 0..MaxSend
         /\ stamps' \in Times /\ left' \in Times /\ log' \subseteq Entries'
         /\ Len(left') = Len(stamps') /\ Len(stamps') = Len(stamps) + Len(out[p])
         /\ \A n \in Entries : stamps'[n] = stamps[n] /\ left'[n] = left[n]
         /\ \A n \in Entries' \ Entries : /\ stamps'[n] = Encode(now)
                                          /\ \E j \in 1..Len(out[p]) : left'[n] = out[p][j]
         /\ \A n \in Entries' \ log' : n \in Entries \ log \/ stamps'[n] + Retain <= now
<1> DEFINE k == Len(out[p])
<1>1. /\ stamps \in Times /\ left \in Times /\ Len(left) = Len(stamps) /\ Len(stamps) \in Nat
      /\ out[p] \in Times /\ k \in Nat /\ k <= MaxSend /\ log \subseteq Entries
      /\ MaxSend \in Nat /\ now \in Nat /\ Retain \in Nat
  BY ClockAssumption DEF OutboundTypeOK, Times
<1>2. phase[p] = "runs"
  BY DEF Finish
<1>3. CASE k = 0
  <2>1. UNCHANGED <<stamps, left, log>>
    BY <1>3 DEF Finish
  <2>2. Entries' = Entries
    BY <2>1 DEF Entries
  <2> QED BY <1>1, <1>2, <1>3, <2>1, <2>2
<1>4. CASE k > 0
  <2>1. stamps' = Added(k) /\ left' = left \o out[p] /\ log' = Record(k)
    BY <1>4 DEF Finish
  <2> HIDE DEF k
  <2>2. Entries' = 1..(Len(stamps) + k) /\ stamps' \in Times /\ Len(stamps') = Len(stamps) + k
    BY <1>1, <2>1, AddedFacts DEF Entries
  <2>3. /\ \A n \in Entries : stamps'[n] = stamps[n]
        /\ \A n \in Entries' \ Entries : stamps'[n] = Encode(now)
    BY <1>1, <2>1, <2>2, AddedFacts
  <2>4. /\ left' \in Times /\ Len(left') = Len(stamps) + k
        /\ \A n \in 1..(Len(stamps) + k) :
              left'[n] = IF n <= Len(stamps) THEN left[n] ELSE out[p][n - Len(stamps)]
    <3>1. out[p] \in Times /\ Len(out[p]) = k
      BY <1>1 DEF k
    <3>2. /\ left \o out[p] \in Times /\ Len(left \o out[p]) = Len(left) + Len(out[p])
          /\ \A n \in 1..(Len(left) + Len(out[p])) :
                (left \o out[p])[n] = IF n <= Len(left) THEN left[n] ELSE out[p][n - Len(left)]
      BY <1>1, <3>1, ConcatProperties DEF Times
    <3> QED BY <1>1, <2>1, <3>1, <3>2
  <2>5. \A n \in Entries : left'[n] = left[n]
    BY <1>1, <2>4 DEF Entries
  <2>6. ASSUME NEW n \in Entries' \ Entries PROVE \E j \in 1..k : left'[n] = out[p][j]
    <3>1. n - Len(stamps) \in 1..k /\ left'[n] = out[p][n - Len(stamps)]
      BY <1>1, <2>2, <2>4 DEF Entries
    <3> QED BY <3>1
  <2>7. Grown(k) \subseteq Entries' /\ \A n \in Entries' \ Grown(k) : n \in Entries \ log
    <3>1. Entries = 1..Len(stamps) /\ Grown(k) = log \cup ((Len(stamps) + 1)..(Len(stamps) + k))
      BY DEF Entries, Grown
    <3>2. \A n \in 1..(Len(stamps) + k) : n \in 1..Len(stamps) \/ n \in (Len(stamps) + 1)..(Len(stamps) + k)
      BY <1>1
    <3>3. \A n \in (Len(stamps) + 1)..(Len(stamps) + k) : n \in 1..(Len(stamps) + k)
      BY <1>1
    <3>4. \A n \in 1..Len(stamps) : n \in 1..(Len(stamps) + k)
      BY <1>1
    <3> QED BY <1>1, <2>2, <3>1, <3>2, <3>3, <3>4
  <2>8. log' = {n \in Grown(k) : stamps'[n] + Retain > now}
    BY <2>1 DEF Record, Within
  <2>9. \A n \in Entries' : stamps'[n] \in Nat
    <3>1. \A n \in 1..Len(stamps') : stamps'[n] \in 0..LastTick
      BY <2>2, ElementOfSeq DEF Times
    <3> QED BY <2>2, <3>1
  <2>10. log' \subseteq Entries' /\ \A n \in Entries' \ log' : n \in Entries \ log \/ stamps'[n] + Retain <= now
    BY <1>1, <2>7, <2>8, <2>9
  <2>11. Len(left') = Len(stamps') /\ k \in 0..MaxSend
    BY <1>1, <2>2, <2>4
  <2> QED BY <1>2, <2>2, <2>3, <2>4, <2>5, <2>6, <2>10, <2>11 DEF k
<1> QED BY <1>1, <1>3, <1>4

\* The types: what is added are times, and only running loops have sent anything.
LEMMA OutboundTypeStep ==
  ASSUME OutboundTypeOK, [OutboundNext]_outboundVars
  PROVE  OutboundTypeOK'
<1>0. /\ now \in 0..LastTick /\ LastTick \in Nat /\ MaxSend \in Nat
      /\ phase \in [Procs -> {"idle", "check", "runs"}]
      /\ seen \in [Procs -> SUBSET Entries] /\ out \in [Procs -> Times] /\ log \subseteq Entries
  BY ClockAssumption DEF OutboundTypeOK
<1>1. CASE Pass
  <2>1. now' = now + 1 /\ now < LastTick /\ UNCHANGED <<stamps, left, log, phase, seen, out>>
    BY <1>1 DEF Pass
  <2>2. now' \in 0..LastTick /\ Entries' = Entries
    BY <1>0, <2>1 DEF Entries
  <2> QED BY <2>1, <2>2 DEF OutboundTypeOK
<1>2. ASSUME NEW p \in Procs, RunStep(p) PROVE OutboundTypeOK'
  <2>1. CASE Get(p)
    <3>1. /\ phase' = [phase EXCEPT ![p] = "check"] /\ seen' = [seen EXCEPT ![p] = log]
          /\ UNCHANGED <<now, stamps, left, log, out>> /\ phase[p] = "idle"
      BY <2>1 DEF Get
    <3>2. Entries' = Entries
      BY <3>1 DEF Entries
    <3>3. phase' \in [Procs -> {"idle", "check", "runs"}] /\ seen' \in [Procs -> SUBSET Entries]
      BY <1>0, <3>1
    <3>4. \A q \in Procs : out[q] # <<>> => phase'[q] = "runs"
      BY <1>0, <3>1 DEF OutboundTypeOK
    <3> QED BY <3>1, <3>2, <3>3, <3>4 DEF OutboundTypeOK
  <2>2. CASE Allow(p)
    <3>1. /\ phase' = [phase EXCEPT ![p] = "runs"] /\ seen' = [seen EXCEPT ![p] = {}]
          /\ UNCHANGED <<now, stamps, left, log, out>>
      BY <2>2 DEF Allow
    <3>2. Entries' = Entries
      BY <3>1 DEF Entries
    <3>3. phase' \in [Procs -> {"idle", "check", "runs"}] /\ seen' \in [Procs -> SUBSET Entries]
      BY <1>0, <3>1
    <3>4. \A q \in Procs : out[q] # <<>> => phase'[q] = "runs"
      BY <1>0, <3>1 DEF OutboundTypeOK
    <3> QED BY <3>1, <3>2, <3>3, <3>4 DEF OutboundTypeOK
  <2>3. CASE Send(p)
    <3>1. /\ out' = [out EXCEPT ![p] = Append(out[p], now)] /\ phase[p] = "runs" /\ Len(out[p]) < MaxSend
          /\ UNCHANGED <<now, stamps, left, log, phase, seen>>
      BY <2>3 DEF Send
    <3>2. Entries' = Entries
      BY <3>1 DEF Entries
    <3>3. /\ Append(out[p], now) \in Times /\ Len(Append(out[p], now)) = Len(out[p]) + 1
          /\ Len(out[p]) \in Nat
      BY <1>0, AppendProperties DEF Times
    <3>4. out' \in [Procs -> Times]
      BY <1>0, <3>1, <3>3
    <3>5. \A q \in Procs : Len(out'[q]) <= MaxSend /\ (out'[q] # <<>> => phase[q] = "runs")
      <4> TAKE q \in Procs
      <4>1. CASE q = p
        <5>1. Len(out'[q]) = Len(out[p]) + 1
          BY <1>0, <3>1, <3>3, <4>1
        <5> QED BY <1>0, <3>1, <3>3, <4>1, <5>1
      <4>2. CASE q # p
        BY <1>0, <3>1, <4>2 DEF OutboundTypeOK
      <4> QED BY <4>1, <4>2
    <3> QED BY <3>1, <3>2, <3>4, <3>5 DEF OutboundTypeOK
  <2>4. ASSUME Forget(p), UNCHANGED now, stamps' \in Times, left' \in Times, log' \subseteq Entries',
               Len(left') = Len(stamps'), Entries \subseteq Entries'
        PROVE  OutboundTypeOK'
    <3>1. <<>> \in Times /\ Len(<<>>) = 0
      BY EmptySeq DEF Times
    <3>2. /\ phase' = [phase EXCEPT ![p] = "idle"] /\ seen' = [seen EXCEPT ![p] = {}]
          /\ out' = [out EXCEPT ![p] = <<>>]
      BY <2>4 DEF Forget
    <3>3. phase' \in [Procs -> {"idle", "check", "runs"}] /\ out' \in [Procs -> Times]
      BY <1>0, <3>1, <3>2
    <3>4. seen' \in [Procs -> SUBSET Entries']
      BY <1>0, <2>4, <3>2
    <3>5. \A q \in Procs : Len(out'[q]) <= MaxSend /\ (out'[q] # <<>> => phase'[q] = "runs")
      <4> TAKE q \in Procs
      <4>1. CASE q = p
        BY <1>0, <3>1, <3>2, <4>1
      <4>2. CASE q # p
        BY <1>0, <3>2, <4>2 DEF OutboundTypeOK
      <4> QED BY <4>1, <4>2
    <3> QED BY <1>0, <2>4, <3>3, <3>4, <3>5 DEF OutboundTypeOK
  <2>5. CASE Skip(p) \/ GiveUp(p)
    <3>1. Forget(p) /\ UNCHANGED <<now, stamps, left, log>>
      BY <2>5 DEF Skip, GiveUp
    <3>2. Entries' = Entries
      BY <3>1 DEF Entries
    <3> QED BY <2>4, <3>1, <3>2 DEF OutboundTypeOK
  <2>6. CASE Finish(p)
    <3>1. Forget(p) /\ UNCHANGED now
      BY <2>6 DEF Finish
    <3>2. Entries \subseteq Entries'
      <4>1. Len(stamps) \in Nat /\ Len(out[p]) \in Nat
        BY <1>0 DEF OutboundTypeOK, Times
      <4>2. Len(stamps') = Len(stamps) + Len(out[p])
        BY <2>6, FinishFacts
      <4> QED BY <4>1, <4>2 DEF Entries
    <3> QED BY <2>4, <2>6, <3>1, <3>2, FinishFacts
  <2> QED BY <1>2, <2>1, <2>2, <2>3, <2>5, <2>6 DEF RunStep
<1>3. CASE UNCHANGED outboundVars
  <2>1. Entries' = Entries
    BY <1>3 DEF outboundVars, Entries
  <2> QED BY <1>3, <2>1 DEF outboundVars, OutboundTypeOK
<1> QED BY <1>1, <1>2, <1>3 DEF OutboundNext

\* What the types say of the times that are compared.
LEMMA EntryTimes ==
  ASSUME OutboundTypeOK
  PROVE  /\ \A n \in Entries : stamps[n] \in Nat /\ left[n] \in Nat
         /\ \A p \in Procs : Len(out[p]) \in Nat /\ \A j \in 1..Len(out[p]) : out[p][j] \in Nat
         /\ {now, Second, Hour, Day, Retain, MaxSend} \subseteq Nat
         /\ Hour <= Retain /\ Day <= Retain
<1>1. stamps \in Seq(0..LastTick) /\ left \in Seq(0..LastTick) /\ Len(left) = Len(stamps)
  BY DEF OutboundTypeOK, Times
<1>2. \A n \in Entries : stamps[n] \in 0..LastTick /\ left[n] \in 0..LastTick
  BY <1>1, ElementOfSeq DEF Entries
<1>3. ASSUME NEW p \in Procs
      PROVE  Len(out[p]) \in Nat /\ \A j \in 1..Len(out[p]) : out[p][j] \in Nat
  <2>1. out[p] \in Seq(0..LastTick)
    BY DEF OutboundTypeOK, Times
  <2>2. \A j \in 1..Len(out[p]) : out[p][j] \in 0..LastTick
    BY <2>1, ElementOfSeq
  <2> QED BY <2>1, <2>2
<1>4. {now, Second, Hour, Day, Retain, MaxSend} \subseteq Nat /\ Hour <= Retain /\ Day <= Retain
  BY ClockAssumption DEF OutboundTypeOK
<1> QED BY <1>2, <1>3, <1>4

\* What a run records left before now, and was given a time no later than now.
LEMMA LogStep ==
  ASSUME LogInv, [OutboundNext]_outboundVars
  PROVE  LogInv'
<1> DEFINE Young == \A n \in Entries : left[n] <= now /\ left[n] < stamps[n] + Second
           Dropped == \A n \in Entries \ log : stamps[n] + Retain <= now
           Sent == \A p \in Procs : \A j \in 1..Len(out[p]) : out[p][j] <= now
<1>0. OutboundTypeOK /\ OutboundTypeOK' /\ Young /\ Dropped /\ Sent
  BY OutboundTypeStep DEF LogInv
<1>1. LogInv' <=> OutboundTypeOK' /\ Young' /\ Dropped' /\ Sent'
  BY DEF LogInv
<1>2. ASSUME UNCHANGED <<stamps, left, log>>, now <= now', now' \in Nat PROVE Young' /\ Dropped'
  <2>1. Entries' = Entries
    BY <1>2 DEF Entries
  <2>2. Young'
    BY <1>0, <1>2, <2>1, EntryTimes
  <2>3. Dropped'
    BY <1>0, <1>2, <2>1, EntryTimes
  <2> QED BY <2>2, <2>3
<1>3. ASSUME \A p \in Procs : out'[p] = out[p] \/ Len(out'[p]) = 0, now <= now', now' \in Nat
      PROVE  Sent'
  <2> SUFFICES ASSUME NEW p \in Procs, NEW j \in 1..Len(out'[p]) PROVE out'[p][j] <= now'
    OBVIOUS
  <2>1. out'[p] = out[p] /\ j \in 1..Len(out[p])
    BY <1>3
  <2>2. out[p][j] <= now /\ out[p][j] \in Nat /\ now \in Nat
    BY <1>0, <2>1, EntryTimes
  <2> QED BY <1>3, <2>1, <2>2
<1>4. now \in Nat
  BY <1>0, EntryTimes
<1>5. CASE Pass
  <2>1. now' = now + 1 /\ UNCHANGED <<stamps, left, log, out>>
    BY <1>5 DEF Pass
  <2> QED BY <1>0, <1>1, <1>2, <1>3, <1>4, <2>1
<1>6. CASE UNCHANGED outboundVars
  <2>1. UNCHANGED <<now, stamps, left, log, out>>
    BY <1>6 DEF outboundVars
  <2> QED BY <1>0, <1>1, <1>2, <1>3, <1>4, <2>1
<1>7. ASSUME NEW p \in Procs, RunStep(p) PROVE LogInv'
  <2>1. CASE Get(p) \/ Allow(p)
    <3>1. UNCHANGED <<now, stamps, left, log, out>>
      BY <2>1 DEF Get, Allow
    <3> QED BY <1>0, <1>1, <1>2, <1>3, <1>4, <3>1
  <2>2. CASE Send(p)
    <3>1. UNCHANGED <<now, stamps, left, log>> /\ out' = [out EXCEPT ![p] = Append(out[p], now)]
      BY <2>2 DEF Send
    <3>2. out \in [Procs -> Seq(0..LastTick)] /\ now \in 0..LastTick
      BY <1>0 DEF OutboundTypeOK, Times
    <3>3. /\ Len(Append(out[p], now)) = Len(out[p]) + 1 /\ Len(out[p]) \in Nat
          /\ \A j \in 1..Len(out[p]) : Append(out[p], now)[j] = out[p][j]
          /\ Append(out[p], now)[Len(out[p]) + 1] = now
      BY <3>2, AppendProperties
    <3>4. ASSUME NEW q \in Procs, NEW j \in 1..Len(out'[q]) PROVE out'[q][j] <= now
      <4>1. CASE q # p
        BY <1>0, <3>1, <3>2, <3>4, <4>1
      <4>2. CASE q = p /\ j <= Len(out[p])
        <5>1. out'[q][j] = out[p][j] /\ j \in 1..Len(out[p])
          BY <3>1, <3>2, <3>3, <3>4, <4>2
        <5> QED BY <1>0, <5>1
      <4>3. CASE q = p /\ j = Len(out[p]) + 1
        BY <1>4, <3>1, <3>2, <3>3, <4>3
      <4>4. q = p => j <= Len(out[p]) \/ j = Len(out[p]) + 1
        BY <3>1, <3>2, <3>3, <3>4
      <4> QED BY <4>1, <4>2, <4>3, <4>4
    <3>5. Sent'
      BY <3>1, <3>4
    <3> QED BY <1>0, <1>1, <1>2, <1>4, <3>1, <3>5
  <2>3. ASSUME Forget(p), UNCHANGED now PROVE Sent'
    <3>1. out' = [out EXCEPT ![p] = <<>>] /\ out \in [Procs -> Times]
      BY <1>0, <2>3 DEF Forget, OutboundTypeOK
    <3>2. Len(<<>>) = 0
      BY EmptySeq
    <3>3. \A q \in Procs : out'[q] = out[q] \/ Len(out'[q]) = 0
      BY <3>1, <3>2
    <3> QED BY <1>3, <1>4, <2>3, <3>3
  <2>4. CASE Skip(p) \/ GiveUp(p)
    <3>1. Forget(p) /\ UNCHANGED <<now, stamps, left, log>>
      BY <2>4 DEF Skip, GiveUp
    <3>2. Young' /\ Dropped'
      BY <1>2, <1>4, <3>1
    <3>3. Sent'
      BY <2>3, <3>1
    <3> QED BY <1>0, <1>1, <3>2, <3>3
  <2>5. CASE Finish(p)
    <3>1. Forget(p) /\ now' = now
      BY <2>5 DEF Finish
    <3>2. /\ \A n \in Entries : stamps'[n] = stamps[n] /\ left'[n] = left[n]
          /\ \A n \in Entries' \ Entries : /\ stamps'[n] = Encode(now)
                                           /\ \E j \in 1..Len(out[p]) : left'[n] = out[p][j]
          /\ \A n \in Entries' \ log' : n \in Entries \ log \/ stamps'[n] + Retain <= now
      BY <1>0, <2>5, FinishFacts
    <3>3. Young'
      <4> SUFFICES ASSUME NEW n \in Entries' PROVE left'[n] <= now /\ left'[n] < stamps'[n] + Second
        BY <3>1
      <4>1. CASE n \in Entries
        BY <1>0, <3>2, <4>1
      <4>2. CASE n \notin Entries
        <5>1. PICK j \in 1..Len(out[p]) : left'[n] = out[p][j]
          BY <3>2, <4>2
        <5>2. left'[n] <= now /\ left'[n] \in Nat
          BY <1>0, <5>1, EntryTimes
        <5>3. now < Encode(now) + Second /\ Encode(now) \in Nat /\ Second \in Nat
          BY <1>0, <1>4, EncodeIsClose, EntryTimes
        <5>4. stamps'[n] = Encode(now)
          BY <3>2, <4>2
        <5> QED BY <1>4, <5>2, <5>3, <5>4
      <4> QED BY <4>1, <4>2
    <3>4. Dropped'
      BY <1>0, <3>1, <3>2
    <3>5. Sent'
      BY <2>3, <3>1
    <3> QED BY <1>0, <1>1, <3>3, <3>4, <3>5
  <2> QED BY <1>7, <2>1, <2>2, <2>4, <2>5 DEF RunStep
<1> QED BY <1>5, <1>6, <1>7 DEF OutboundNext

\* Whoever is recorded as having left in a window that is a second shorter counts in it.
LEMMA RecordedCounts ==
  ASSUME LogInv, NEW window \in Nat, window <= Retain, NEW at \in Nat, at >= now
  PROVE  Recorded(window - Second, at) \subseteq {n \in log : Within(stamps[n], window, at)}
<1> SUFFICES ASSUME NEW n \in Entries, left[n] + (window - Second) > at
             PROVE  n \in log /\ stamps[n] + window > at
  BY DEF Recorded, Within
<1>1. stamps[n] \in Nat /\ left[n] \in Nat /\ {now, Second, Retain} \subseteq Nat
  BY EntryTimes DEF LogInv
<1>2. left[n] < stamps[n] + Second
  BY DEF LogInv
<1>3. stamps[n] + window > at
  BY <1>1, <1>2
<1>4. ~(stamps[n] + Retain <= now)
  BY <1>1, <1>3
<1> QED BY <1>3, <1>4 DEF LogInv

\* Who counts later counted before.
LEMMA CountShrinks ==
  ASSUME OutboundTypeOK, NEW l \in SUBSET Entries, NEW window \in Nat, NEW at \in Nat, at >= now
  PROVE  /\ CountSince(l, window, at) \in Nat /\ CountSince(l, window, now) \in Nat
         /\ CountSince(l, window, at) <= CountSince(l, window, now)
<1> DEFINE early == {n \in l : Within(stamps[n], window, now)}
           late == {n \in l : Within(stamps[n], window, at)}
<1>1. late \subseteq early /\ early \subseteq Entries
  BY EntryTimes DEF Within
<1>2. CountSince(l, window, at) = Cardinality(late) /\ CountSince(l, window, now) = Cardinality(early)
  BY DEF CountSince
<1> HIDE DEF early, late
<1> QED BY <1>1, <1>2, SomeEntries

\* A run may look at the log and be late, but then it is among those that were bold
\* when it looked; whoever looks at the log as it is now sees what is recorded.
LEMMA BoundedStep ==
  ASSUME LogInv, LogInv', [OutboundNext]_outboundVars,
         NEW window \in Nat, window <= Retain, NEW cap \in Nat, Bounded(window, cap),
         \A p \in Procs : Check(seen[p], now) => CountSince(seen[p], window, now) < cap
  PROVE  Bounded(window, cap)'
<1> SUFFICES ASSUME NEW at \in Nat, at >= now'
             PROVE  Cardinality(Recorded(window - Second, at)') + Cardinality(Bold(window, cap, at)') * MaxSend
                      < cap + Overshoot
  BY DEF Bounded, Overshoot
<1> DEFINE rec == Recorded(window - Second, at)
           bold == Bold(window, cap, at)
<1>1. OutboundTypeOK /\ OutboundTypeOK' /\ MaxSend \in Nat /\ now \in Nat
  BY EntryTimes DEF LogInv
<1>2. /\ rec \subseteq Entries /\ rec' \subseteq Entries'
      /\ bold \subseteq Procs /\ bold' \subseteq Procs
  BY DEF Recorded, Bold
<1>3. /\ Cardinality(bold) \in Nat /\ Cardinality(bold') \in Nat /\ Cardinality(Procs) \in Nat
      /\ Cardinality(bold') <= Cardinality(Procs)
  BY <1>2, SomeRuns
<1>4. Cardinality(rec) \in Nat
  BY <1>1, <1>2, SomeEntries
<1>5. Cardinality(rec') \in Nat
  <2>1. Len(stamps') \in Nat
    BY <1>1 DEF OutboundTypeOK, Times
  <2>2. IsFiniteSet(Entries')
    BY <2>1, FS_Interval DEF Entries
  <2> QED BY <1>2, <2>2, FS_Subset, FS_CardinalityType
<1>6. cap + Overshoot \in Nat /\ Overshoot = Cardinality(Procs) * MaxSend /\ Overshoot \in Nat
  BY <1>1, <1>3 DEF Overshoot
<1>7. ASSUME at >= now PROVE Cardinality(rec) + Cardinality(bold) * MaxSend < cap + Overshoot
  BY <1>7 DEF Bounded
<1> HIDE DEF rec, bold
<1>8. ASSUME at >= now, rec' \subseteq rec, bold' \subseteq bold
      PROVE  Cardinality(rec') + Cardinality(bold') * MaxSend < cap + Overshoot
  <2>1. Cardinality(rec') <= Cardinality(rec)
    BY <1>1, <1>2, <1>8, SomeEntries
  <2>2. Cardinality(bold') <= Cardinality(bold)
    BY <1>2, <1>8, SomeRuns
  <2> QED BY <1>1, <1>3, <1>4, <1>5, <1>6, <1>7, <1>8, <2>1, <2>2, Balance
<1>9. ASSUME UNCHANGED <<stamps, left, phase, seen>>, at >= now
      PROVE  Cardinality(rec') + Cardinality(bold') * MaxSend < cap + Overshoot
  <2>1. rec' = rec
    BY <1>9 DEF rec, Recorded, Entries
  <2>2. bold' = bold
    BY <1>9 DEF bold, Bold, CountSince
  <2> QED BY <1>8, <1>9, <2>1, <2>2
<1>10. ASSUME NEW p \in Procs, RunStep(p)
       PROVE  Cardinality(rec') + Cardinality(bold') * MaxSend < cap + Overshoot
  <2>1. now' = now /\ at >= now
    BY <1>10 DEF RunStep, Get, Allow, Skip, Send, Finish, GiveUp
  <2>2. CASE Send(p)
    BY <1>9, <2>1, <2>2 DEF Send
  <2>3. CASE Get(p)
    <3>1. /\ phase' = [phase EXCEPT ![p] = "check"] /\ seen' = [seen EXCEPT ![p] = log]
          /\ UNCHANGED <<stamps, left>>
      BY <2>3 DEF Get
    <3>2. rec' = rec
      BY <3>1 DEF rec, Recorded, Entries
    <3>3. phase \in [Procs -> {"idle", "check", "runs"}] /\ seen \in [Procs -> SUBSET Entries]
      BY <1>1 DEF OutboundTypeOK
    <3>4. bold' = {q \in Procs : \/ phase'[q] = "runs"
                                 \/ phase'[q] = "check" /\ CountSince(seen'[q], window, at) < cap}
      BY <3>1 DEF bold, Bold, CountSince
    <3>5. CASE CountSince(log, window, at) < cap
      <4> DEFINE counted == {n \in log : Within(stamps[n], window, at)}
      <4>1. rec \subseteq counted
        BY <2>1, RecordedCounts DEF rec
      <4>2. counted \subseteq Entries
        BY <1>1 DEF OutboundTypeOK
      <4>3. Cardinality(counted) < cap
        BY <3>5 DEF CountSince
      <4> HIDE DEF counted
      <4>4. Cardinality(rec) <= Cardinality(counted) /\ Cardinality(counted) \in Nat
        BY <1>1, <4>1, <4>2, SomeEntries
      <4>5. Cardinality(rec) + Cardinality(Procs) * MaxSend < cap + Overshoot
        BY <1>4, <1>6, <4>3, <4>4
      <4>6. Cardinality(rec') <= Cardinality(rec)
        BY <1>4, <3>2
      <4> QED BY <1>1, <1>3, <1>4, <1>5, <1>6, <4>5, <4>6, Balance
    <3>6. CASE ~(CountSince(log, window, at) < cap)
      <4>1. ASSUME NEW q \in Procs, q \in bold' PROVE q \in bold
        <5>1. q # p
          BY <3>1, <3>3, <3>4, <3>6, <4>1
        <5>2. phase'[q] = phase[q] /\ seen'[q] = seen[q]
          BY <3>1, <3>3, <5>1
        <5> QED BY <3>4, <4>1, <5>2 DEF bold, Bold
      <4> QED BY <1>2, <1>8, <2>1, <3>2, <4>1
    <3> QED BY <3>5, <3>6
  <2>4. CASE Allow(p)
    <3>1. /\ phase' = [phase EXCEPT ![p] = "runs"] /\ seen' = [seen EXCEPT ![p] = {}]
          /\ UNCHANGED <<stamps, left>> /\ phase[p] = "check" /\ Check(seen[p], now)
      BY <2>4 DEF Allow
    <3>2. rec' = rec
      BY <3>1 DEF rec, Recorded, Entries
    <3>3. phase \in [Procs -> {"idle", "check", "runs"}] /\ seen \in [Procs -> SUBSET Entries]
      BY <1>1 DEF OutboundTypeOK
    <3>4. bold' = {q \in Procs : \/ phase'[q] = "runs"
                                 \/ phase'[q] = "check" /\ CountSince(seen'[q], window, at) < cap}
      BY <3>1 DEF bold, Bold, CountSince
    <3>5. p \in bold
      <4>1. CountSince(seen[p], window, now) < cap /\ seen[p] \subseteq Entries
        BY <3>1, <3>3
      <4>2. CountSince(seen[p], window, at) < cap
        BY <1>1, <2>1, <4>1, CountShrinks
      <4> QED BY <3>1, <4>2 DEF bold, Bold
    <3>6. ASSUME NEW q \in Procs, q \in bold', q # p PROVE q \in bold
      <4>1. phase'[q] = phase[q] /\ seen'[q] = seen[q]
        BY <3>1, <3>3, <3>6
      <4> QED BY <3>4, <3>6, <4>1 DEF bold, Bold
    <3> QED BY <1>2, <1>8, <2>1, <3>2, <3>5, <3>6
  <2>5. ASSUME Forget(p), \A n \in Entries : stamps'[n] = stamps[n]
        PROVE  bold' \subseteq bold \ {p}
    <3>1. /\ phase' = [phase EXCEPT ![p] = "idle"] /\ seen' = [seen EXCEPT ![p] = {}]
          /\ phase \in [Procs -> {"idle", "check", "runs"}] /\ seen \in [Procs -> SUBSET Entries]
      BY <1>1, <2>5 DEF Forget, OutboundTypeOK
    <3>2. bold' = {q \in Procs : \/ phase'[q] = "runs"
                                 \/ /\ phase'[q] = "check"
                                    /\ Cardinality({n \in seen'[q] : Within(stamps'[n], window, at)}) < cap}
      BY DEF bold, Bold, CountSince
    <3>3. ASSUME NEW q \in Procs, q \in bold' PROVE q \in bold /\ q # p
      <4>1. q # p
        BY <3>1, <3>2, <3>3
      <4>2. phase'[q] = phase[q] /\ seen'[q] = seen[q] /\ seen[q] \subseteq Entries
        BY <3>1, <4>1
      <4>3. {n \in seen'[q] : Within(stamps'[n], window, at)} = {n \in seen[q] : Within(stamps[n], window, at)}
        BY <2>5, <4>2
      <4> QED BY <3>2, <3>3, <4>1, <4>2, <4>3 DEF bold, Bold, CountSince
    <3> QED BY <1>2, <3>3
  <2>6. CASE Skip(p) \/ GiveUp(p)
    <3>1. Forget(p) /\ UNCHANGED <<stamps, left>>
      BY <2>6 DEF Skip, GiveUp
    <3>2. rec' = rec
      BY <3>1 DEF rec, Recorded, Entries
    <3> QED BY <1>8, <2>1, <2>5, <3>1, <3>2
  <2>7. CASE Finish(p)
    <3>1. Forget(p)
      BY <2>7 DEF Finish
    <3>2. /\ phase[p] = "runs" /\ Len(out[p]) \in 0..MaxSend
          /\ Len(stamps') = Len(stamps) + Len(out[p])
          /\ \A n \in Entries : stamps'[n] = stamps[n] /\ left'[n] = left[n]
      BY <1>1, <2>7, FinishFacts
    <3>3. bold' \subseteq bold \ {p} /\ p \in bold
      BY <2>5, <3>1, <3>2 DEF bold, Bold
    <3>4. Cardinality(bold') + 1 <= Cardinality(bold)
      <4>1. /\ IsFiniteSet(bold) /\ Cardinality(bold') <= Cardinality(bold \ {p})
        BY <1>2, <3>3, SomeRuns
      <4>2. Cardinality(bold \ {p}) = Cardinality(bold) - 1
        BY <3>3, <4>1, FS_RemoveElement
      <4> QED BY <1>3, <4>1, <4>2
    <3>5. Cardinality(rec') <= Cardinality(rec) + MaxSend
      <4> DEFINE new == (Len(stamps) + 1)..(Len(stamps) + Len(out[p]))
      <4>1. Len(stamps) \in Nat /\ Len(out[p]) \in Nat /\ Len(out[p]) <= MaxSend
        BY <1>1, <3>2 DEF OutboundTypeOK, Times
      <4>2. IsFiniteSet(new) /\ Cardinality(new) \in Nat /\ Cardinality(new) <= MaxSend
        <5>1. Len(stamps) + 1 \in Int /\ Len(stamps) + Len(out[p]) \in Int
          BY <4>1
        <5>2. IsFiniteSet(new) /\ Cardinality(new) = IF Len(stamps) + 1 > Len(stamps) + Len(out[p]) THEN 0
                                 ELSE (Len(stamps) + Len(out[p])) - (Len(stamps) + 1) + 1
          BY <5>1, FS_Interval
        <5> QED BY <1>1, <4>1, <5>2
      <4>3. ASSUME NEW n \in rec' PROVE n \in rec \cup new
        <5>1. n \in Entries' /\ Within(left'[n], window - Second, at)
          BY <4>3 DEF rec, Recorded
        <5>2. n \in Entries \/ n \in new
          BY <3>2, <4>1, <5>1 DEF Entries
        <5> HIDE DEF new
        <5>3. n \in Entries => n \in rec
          BY <3>2, <5>1 DEF rec, Recorded
        <5> QED BY <5>2, <5>3
      <4> HIDE DEF new
      <4>4. IsFiniteSet(rec)
        BY <1>1, <1>2, SomeEntries
      <4>5. /\ IsFiniteSet(rec \cup new)
            /\ Cardinality(rec \cup new) = Cardinality(rec) + Cardinality(new) - Cardinality(rec \cap new)
        BY <4>2, <4>4, FS_Union
      <4>6. Cardinality(rec \cap new) \in Nat
        BY <4>4, FS_Subset, FS_CardinalityType
      <4>7. Cardinality(rec') <= Cardinality(rec \cup new)
        BY <4>3, <4>5, FS_Subset
      <4> QED BY <1>1, <1>4, <1>5, <4>2, <4>5, <4>6, <4>7
    <3> QED BY <1>1, <1>3, <1>4, <1>5, <1>6, <1>7, <2>1, <3>4, <3>5, Balance
  <2> QED BY <1>10, <2>2, <2>3, <2>4, <2>6, <2>7 DEF RunStep
<1>11. ASSUME Pass
       PROVE  Cardinality(rec') + Cardinality(bold') * MaxSend < cap + Overshoot
  <2>1. now' = now + 1 /\ UNCHANGED <<stamps, left, phase, seen>>
    BY <1>11 DEF Pass
  <2>2. at >= now
    BY <1>1, <2>1
  <2> QED BY <1>9, <2>1, <2>2
<1>12. ASSUME UNCHANGED outboundVars
       PROVE  Cardinality(rec') + Cardinality(bold') * MaxSend < cap + Overshoot
  <2>1. UNCHANGED <<stamps, left, phase, seen>> /\ now' = now
    BY <1>12 DEF outboundVars
  <2> QED BY <1>9, <2>1
<1> QED BY <1>10, <1>11, <1>12 DEF OutboundNext, rec, bold

\* BudgetInv, with what it rests on, is inductive.
LEMMA BudgetAlways == OutboundSpec => [](LogInv /\ BudgetInv)
<1>1. OutboundInit => LogInv /\ BudgetInv
  <2> SUFFICES ASSUME OutboundInit PROVE LogInv /\ BudgetInv
    OBVIOUS
  <2>1. {Second, Hour, Day, Retain, MaxSend, LastTick, PerDay, PerHour} \subseteq Nat
    BY ClockAssumption
  <2>2. Len(stamps) = 0 /\ Entries = {}
    BY EmptySeq DEF OutboundInit, Entries
  <2>3. OutboundTypeOK
    <3>1. <<>> \in Times /\ Len(<<>>) = 0
      BY EmptySeq DEF Times
    <3> QED BY <2>1, <3>1 DEF OutboundInit, OutboundTypeOK
  <2>4. LogInv
    <3>1. \A p \in Procs : Len(out[p]) = 0
      BY EmptySeq DEF OutboundInit
    <3> QED BY <2>2, <2>3, <3>1 DEF LogInv
  <2>5. ASSUME NEW window, NEW cap \in Nat, cap > 0 PROVE Bounded(window, cap)
    <3> SUFFICES ASSUME NEW at \in Nat
                 PROVE  Cardinality(Recorded(window - Second, at))
                          + Cardinality(Bold(window, cap, at)) * MaxSend < cap + Overshoot
      BY DEF Bounded
    <3>1. Recorded(window - Second, at) = {} /\ Bold(window, cap, at) = {}
      BY <2>2 DEF OutboundInit, Recorded, Bold
    <3>2. Cardinality(Procs) \in Nat /\ Overshoot \in Nat
      BY <2>1, SomeRuns DEF Overshoot
    <3>3. Cardinality(Recorded(window - Second, at)) = 0 /\ Cardinality(Bold(window, cap, at)) = 0
      BY <3>1, FS_EmptySet
    <3>4. 0 + 0 * MaxSend < cap + Overshoot
      BY <2>1, <2>5, <3>2
    <3> QED BY <3>3, <3>4
  <2> QED BY <2>1, <2>4, <2>5 DEF BudgetInv
<1>2. LogInv /\ BudgetInv /\ [OutboundNext]_outboundVars => LogInv' /\ BudgetInv'
  <2> SUFFICES ASSUME LogInv, BudgetInv, [OutboundNext]_outboundVars PROVE LogInv' /\ BudgetInv'
    OBVIOUS
  <2>1. LogInv'
    BY LogStep
  <2>2. /\ Hour \in Nat /\ Day \in Nat /\ Hour <= Retain /\ Day <= Retain
        /\ PerDay \in Nat /\ PerHour \in Nat
    BY EntryTimes, ClockAssumption DEF LogInv
  <2>3. ASSUME PerDay > 0 PROVE Bounded(Day, PerDay)'
    <3>1. \A p \in Procs : Check(seen[p], now) => CountSince(seen[p], Day, now) < PerDay
      BY <2>3 DEF Check
    <3>2. Bounded(Day, PerDay)
      BY <2>3 DEF BudgetInv
    <3> QED BY <2>1, <2>2, <3>1, <3>2, BoundedStep
  <2>4. ASSUME PerHour > 0 PROVE Bounded(Hour, PerHour)'
    <3>1. \A p \in Procs : Check(seen[p], now) => CountSince(seen[p], Hour, now) < PerHour
      BY <2>4 DEF Check
    <3>2. Bounded(Hour, PerHour)
      BY <2>4 DEF BudgetInv
    <3> QED BY <2>1, <2>2, <3>1, <3>2, BoundedStep
  <2> QED BY <2>1, <2>3, <2>4 DEF BudgetInv
<1> QED BY <1>1, <1>2, PTL DEF OutboundSpec

\* What the log has lost is older than any window that is asked about, now or later: no
\* decision differs from the one that the whole history would give.
THEOREM PruningIsSound == OutboundSpec => []PruningIsInvisible
<1>1. LogInv => PruningIsInvisible
  <2> SUFFICES ASSUME LogInv, NEW at \in now..LastTick PROVE Check(log, at) <=> Check(Entries, at)
    BY DEF PruningIsInvisible, LogInv
  <2>1. /\ log \subseteq Entries /\ {now, Hour, Day, Retain} \subseteq Nat /\ Hour <= Retain /\ Day <= Retain
        /\ \A n \in Entries : stamps[n] \in Nat
    BY EntryTimes DEF LogInv, OutboundTypeOK
  <2>2. at \in Nat /\ now <= at
    BY <2>1, ClockAssumption
  <2>3. ASSUME NEW window \in Nat, window <= Retain
        PROVE  CountSince(log, window, at) = CountSince(Entries, window, at)
    <3>1. ASSUME NEW n \in Entries \ log PROVE ~Within(stamps[n], window, at)
      <4>1. stamps[n] + Retain <= now /\ stamps[n] \in Nat
        BY <2>1 DEF LogInv
      <4> QED BY <2>1, <2>2, <2>3, <4>1 DEF Within
    <3>2. {n \in log : Within(stamps[n], window, at)} = {n \in Entries : Within(stamps[n], window, at)}
      BY <2>1, <3>1
    <3> QED BY <3>2 DEF CountSince
  <2>4. /\ CountSince(log, Hour, at) = CountSince(Entries, Hour, at)
        /\ CountSince(log, Day, at) = CountSince(Entries, Day, at)
    BY <2>1, <2>3
  <2> QED BY <2>4 DEF Check
<1> QED BY <1>1, BudgetAlways, PTL

\* For any number of runs, however they overlap: what leaves in a window exceeds the
\* budget by less than what the runs can send between them.
THEOREM TheBudgetHolds == OutboundSpec => []BudgetHolds
<1>1. LogInv /\ BudgetInv => BudgetHolds
  <2> SUFFICES ASSUME LogInv, NEW window \in Nat, NEW cap \in Nat, Bounded(window, cap)
               PROVE  Left(window - Second) < cap + Overshoot
    BY ClockAssumption DEF BudgetHolds, BudgetInv
  <2>1. OutboundTypeOK /\ now \in Nat /\ MaxSend \in Nat
    BY EntryTimes DEF LogInv
  <2> DEFINE running == {p \in Procs : phase[p] = "runs"}
             bold == Bold(window, cap, now)
             rec == Recorded(window - Second, now)
  <2>2. Cardinality(rec) + Cardinality(bold) * MaxSend < cap + Overshoot
    BY <2>1 DEF Bounded
  <2>3. running \subseteq bold /\ bold \subseteq Procs
    BY DEF Bold
  <2>4. UnderWay(window - Second) \subseteq running \X (1..MaxSend)
    <3> SUFFICES ASSUME NEW s \in Procs \X (1..MaxSend), s[2] <= Len(out[s[1]])
                 PROVE  s \in running \X (1..MaxSend)
      BY DEF UnderWay
    <3>1. s[1] \in Procs /\ s[2] \in 1..MaxSend /\ s = <<s[1], s[2]>>
      OBVIOUS
    <3>2. out[s[1]] # <<>>
      BY <2>1, <3>1, EmptySeq
    <3>3. phase[s[1]] = "runs"
      BY <2>1, <3>1, <3>2 DEF OutboundTypeOK
    <3> QED BY <3>1, <3>3
  <2>5. Left(window - Second) = Cardinality(rec) + Cardinality(UnderWay(window - Second))
    BY DEF Left
  <2>6. Cardinality(rec) \in Nat
    <3>1. rec \subseteq Entries
      BY DEF Recorded
    <3> QED BY <2>1, <3>1, SomeEntries
  <2> HIDE DEF running, bold, rec
  <2>7. /\ IsFiniteSet(running) /\ Cardinality(running) \in Nat /\ Cardinality(bold) \in Nat
        /\ Cardinality(running) <= Cardinality(bold) /\ Cardinality(Procs) \in Nat
    BY <2>3, SomeRuns
  <2>8. IsFiniteSet(1..MaxSend) /\ Cardinality(1..MaxSend) = MaxSend
    BY <2>1, FS_Interval
  <2>9. /\ IsFiniteSet(running \X (1..MaxSend))
        /\ Cardinality(running \X (1..MaxSend)) = Cardinality(running) * MaxSend
    BY <2>7, <2>8, FS_Product
  <2>10. /\ Cardinality(UnderWay(window - Second)) \in Nat
         /\ Cardinality(UnderWay(window - Second)) <= Cardinality(running) * MaxSend
    BY <2>4, <2>9, FS_Subset, FS_CardinalityType
  <2>11. Cardinality(rec) + Cardinality(running) * MaxSend < cap + Overshoot
    <3>1. cap + Overshoot \in Nat
      BY <2>1, <2>7 DEF Overshoot
    <3> QED BY <2>1, <2>2, <2>6, <2>7, <3>1, Balance
  <2>12. Cardinality(running) * MaxSend \in Nat /\ Overshoot \in Nat
    BY <2>1, <2>7 DEF Overshoot
  <2> QED BY <2>5, <2>6, <2>10, <2>11, <2>12
<1> QED BY <1>1, BudgetAlways, PTL

\* A minute that is quiet when the minutes are counted forward from their start is quiet
\* for the code, also across midnight.
LEMMA QuietMinutesAreQuiet ==
  ASSUME NEW t \in Nat, MinuteOf(t) \in QuietMinutes
  PROVE  QuietHours(t)
<1> DEFINE day == MinutesPerDay
           cur == MinuteOf(t)
           rest(x) == x % day
<1>1. day \in Nat /\ QuietStart \in 0..(day - 1) /\ QuietEnd \in 0..(day - 1) /\ day > 0
  <2>1. day \in Int
    BY ClockAssumption, Division DEF MinutesPerDay
  <2>2. QuietStart \in 0..(day - 1) /\ QuietEnd \in 0..(day - 1)
    BY ClockAssumption DEF MinutesPerDay
  <2> HIDE DEF day
  <2> QED BY <2>1, <2>2
<1>2. PICK k \in 0..(day - 1) : /\ k < rest(QuietEnd + day - QuietStart)
                                /\ cur = rest(QuietStart + k)
  BY DEF QuietMinutes
<1>3. QuietHours(t) <=> \/ QuietStart < QuietEnd /\ QuietStart <= cur /\ cur < QuietEnd
                        \/ QuietStart > QuietEnd /\ (QuietStart <= cur \/ cur < QuietEnd)
  BY DEF QuietHours
<1> HIDE DEF day, cur
<1>4. ASSUME NEW x \in Nat, x < 2 * day PROVE rest(x) = IF x < day THEN x ELSE x - day
  BY <1>1, <1>4, SmallMod
<1> HIDE DEF rest
<1>5. cur = IF QuietStart + k < day THEN QuietStart + k ELSE QuietStart + k - day
  <2>1. QuietStart + k \in Nat /\ QuietStart + k < 2 * day
    BY <1>1
  <2> QED BY <1>1, <1>2, <1>4, <2>1
<1>6. rest(QuietEnd + day - QuietStart)
        = IF QuietEnd < QuietStart THEN QuietEnd + day - QuietStart ELSE QuietEnd - QuietStart
  <2>1. QuietEnd + day - QuietStart \in Nat /\ QuietEnd + day - QuietStart < 2 * day
    BY <1>1
  <2>2. QuietEnd + day - QuietStart < day <=> QuietEnd < QuietStart
    BY <1>1
  <2>3. QuietEnd + day - QuietStart - day = QuietEnd - QuietStart
    BY <1>1
  <2> QED BY <1>1, <1>4, <2>1, <2>2, <2>3
<1> QED BY <1>1, <1>2, <1>3, <1>5, <1>6

\* No outbound loop is started in its quiet hours.
THEOREM QuietHoursAreKept == OutboundSpec => QuietIsQuiet
<1>1. ASSUME LogInv, OutboundNext, NEW p \in Procs, phase[p] = "check", phase'[p] = "runs"
      PROVE  MinuteOf(now) \notin QuietMinutes
  <2>1. now \in Nat /\ phase \in [Procs -> {"idle", "check", "runs"}]
    BY <1>1, EntryTimes DEF LogInv, OutboundTypeOK
  <2>2. ASSUME NEW q \in Procs, RunStep(q) PROVE ~QuietHours(now)
    <3>1. CASE Allow(q)
      <4>1. q = p
        BY <1>1, <2>1, <3>1 DEF Allow
      <4> QED BY <3>1 DEF Allow, Check
    <3>2. CASE ~Allow(q)
      BY <1>1, <2>1, <2>2, <3>2 DEF RunStep, Get, Skip, Send, Finish, GiveUp, Forget
    <3> QED BY <3>1, <3>2
  <2>3. ~Pass
    BY <1>1 DEF Pass
  <2>4. ~QuietHours(now)
    BY <1>1, <2>2, <2>3 DEF OutboundNext
  <2> QED BY <2>1, <2>4, QuietMinutesAreQuiet
<1>2. LogInv /\ BudgetInv /\ [OutboundNext]_outboundVars =>
        [\A p \in Procs : phase[p] = "check" /\ phase'[p] = "runs" => MinuteOf(now) \notin QuietMinutes]_outboundVars
  BY <1>1
<1> QED BY <1>2, BudgetAlways, PTL DEF OutboundSpec, QuietIsQuiet
=============================================================================
