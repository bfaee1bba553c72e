----------------------------- MODULE HartPublish -----------------------------
(***************************************************************************)
(* hart.Publish (internal/hart/hart.go) as the loops of a machine use it   *)
(* at the same time: after a boot every timer fires at once, hart accepts  *)
(* only so many submissions per window of time, and each run has what its  *)
(* own command has left of the loop's timeout.  A refused publisher waits  *)
(* and tries again, unless the wait would outlast its deadline.            *)
(*                                                                         *)
(* hart is outside the repository: it counts what it accepted in the last  *)
(* Window units, and either always says how long until there is room       *)
(* (Retry-After) or never.  A process is late by Slack units at most,      *)
(* which is the second that Publish keeps in hand.                         *)
(***************************************************************************)
EXTENDS Integers, Sequences, FiniteSetsExt

CONSTANTS
  Pubs,      \* runs that publish
  Private,   \* those whose artifact has visibility private
  Cap,       \* submissions hart accepts per window
  Window,
  Delays,    \* retryDelays
  Elapsed,   \* Elapsed[n]: what the first n of them take together
  Slack,
  TimeLeft,  \* bound: what runs have left of their timeout when they publish
  Never,     \* no deadline; hart accepted nothing
  LastBegin, \* bound: until when runs come to publish
  MaxTime    \* bound: when the clock stops

ASSUME HartAssumption ==
  /\ Private \subseteq Pubs /\ IsFiniteSet(Pubs)
  /\ {Cap, Window, Slack} \subseteq Nat \ {0} /\ {LastBegin, MaxTime} \subseteq Nat
  /\ Delays \in Seq(Nat \ {0})
  /\ TimeLeft \subseteq Nat \ {0} /\ Never \notin Nat

\* The whole schedule outlasts hart's window, as 5+20+40 seconds do a minute.
ASSUME ScheduleAssumption ==
  /\ Elapsed \in [0..Len(Delays) -> Nat] /\ Elapsed[0] = 0
  /\ \A n \in 1..Len(Delays) : Elapsed[n] = Elapsed[n - 1] + Delays[n]
  /\ Elapsed[Len(Delays)] >= Window

VARIABLES
  clock,
  hints,      \* whether hart sends Retry-After
  accepted,   \* accepted[p]: when hart accepted p's artifact
  open,       \* accepted artifacts that anybody can read
  pc,         \* "idle", "post", "wait", "verify", "ok", "failed"
  attempt,    \* how many waits p has begun
  wake,       \* when the one it is in is over, 0 outside a wait
  deadline,   \* ctx.Deadline
  why         \* what a failed publish reports

vars == <<clock, hints, accepted, open, pc, attempt, wake, deadline, why>>
remote == <<hints, accepted, open>>

Whys == {"none", "config", "request", "exhausted", "early", "asleep", "ungated"}

\* The state has its type, and no publisher waits more often than the schedule says.
TypeOK ==
  /\ clock \in 0..MaxTime /\ hints \in BOOLEAN
  /\ accepted \in [Pubs -> Nat \cup {Never}]
  /\ open \subseteq Pubs
  /\ pc \in [Pubs -> {"idle", "post", "wait", "verify", "ok", "failed"}]
  /\ attempt \in [Pubs -> 0..Len(Delays)]
  /\ wake \in [Pubs -> Nat]
  /\ deadline \in [Pubs -> Nat \cup {Never}]
  /\ why \in [Pubs -> Whys]

Init ==
  /\ clock = 0 /\ hints \in BOOLEAN
  /\ accepted = [p \in Pubs |-> Never] /\ open = {}
  /\ pc = [p \in Pubs |-> "idle"] /\ why = [p \in Pubs |-> "none"]
  /\ attempt = [p \in Pubs |-> 0] /\ wake = [p \in Pubs |-> 0]
  /\ deadline = [p \in Pubs |-> Never]

-----------------------------------------------------------------------------
Fail(p, reason) ==
  /\ pc' = [pc EXCEPT ![p] = "failed"]
  /\ why' = [why EXCEPT ![p] = reason]
  /\ wake' = [wake EXCEPT ![p] = 0]

\* The loop's command is over and the runner publishes its artifact; the
\* context is the one the command ran under, or has no deadline at all.
Begin(p) ==
  /\ pc[p] = "idle" /\ clock <= LastBegin
  /\ pc' = [pc EXCEPT ![p] = "post"]
  /\ \E d \in {clock + t : t \in TimeLeft} \cup {Never} : deadline' = [deadline EXCEPT ![p] = d]
  /\ UNCHANGED <<clock, remote, attempt, wake, why>>

\* A key, the owner, the artifact or its text is missing.
Refuse(p) ==
  /\ pc[p] = "idle" /\ clock <= LastBegin
  /\ Fail(p, "config")
  /\ UNCHANGED <<clock, remote, attempt, deadline>>

-----------------------------------------------------------------------------
\* hart's side: what counts against the window, and when the oldest leaves it.
Counted == {q \in Pubs : accepted[q] # Never /\ accepted[q] + Window > clock}
Room == Cardinality(Counted) < Cap
NextRoom == Min({accepted[q] : q \in Counted}) + Window

\* hart takes the artifact.  Whether it gates what it was told is private is
\* its own affair; its answer may be lost, and Publish does not ask again.
Accept(p) ==
  /\ pc[p] = "post" /\ Room
  /\ accepted' = [accepted EXCEPT ![p] = clock]
  /\ open' \in {open, open \cup {p}}
  /\ \/ /\ pc' = [pc EXCEPT ![p] = IF p \in Private THEN "verify" ELSE "ok"]
        /\ UNCHANGED <<why, wake>>
     \/ Fail(p, "request")
  /\ UNCHANGED <<clock, hints, attempt, deadline>>

\* Any other answer but 429, or none before the client's own timeout.
RequestFails(p) ==
  /\ pc[p] = "post"
  /\ Fail(p, "request")
  /\ UNCHANGED <<clock, remote, attempt, deadline>>

Wait(p) == IF hints THEN NextRoom - clock ELSE Delays[attempt[p] + 1]

\* Seeded fault: the last attempt is not made.
ExhaustedOneEarly(p) == attempt[p] + 1 >= Len(Delays)
Exhausted(p) == attempt[p] >= Len(Delays)

\* Seeded faults: no second in hand; the schedule's wait for the one hart asked for.
TooLateNoSecond(p) == deadline[p] # Never /\ deadline[p] - clock <= Wait(p)
TooLateBySchedule(p) ==
  deadline[p] # Never /\ deadline[p] - clock <= Delays[attempt[p] + 1] + Slack

\* time.Until(dl) <= wait + time.Second
TooLate(p) == deadline[p] # Never /\ deadline[p] - clock <= Wait(p) + Slack

\* hart answers 429.
RateLimited(p) ==
  /\ pc[p] = "post" /\ ~Room
  /\ \/ Exhausted(p) /\ Fail(p, "exhausted") /\ UNCHANGED attempt
     \/ ~Exhausted(p) /\ TooLate(p) /\ Fail(p, "early") /\ UNCHANGED attempt
     \/ /\ ~Exhausted(p) /\ ~TooLate(p)
        /\ pc' = [pc EXCEPT ![p] = "wait"]
        /\ wake' = [wake EXCEPT ![p] = clock + Wait(p)]
        /\ attempt' = [attempt EXCEPT ![p] = @ + 1]
        /\ UNCHANGED why
  /\ UNCHANGED <<clock, remote, deadline>>

Wake(p) ==
  /\ pc[p] = "wait" /\ clock >= wake[p]
  /\ pc' = [pc EXCEPT ![p] = "post"]
  /\ wake' = [wake EXCEPT ![p] = 0]
  /\ UNCHANGED <<clock, remote, attempt, deadline, why>>

\* The context is over: the request in flight, or the wait, ends with its error.
Overdue(p) ==
  /\ pc[p] \in {"post", "wait", "verify"}
  /\ deadline[p] # Never /\ clock >= deadline[p]
Expire(p) ==
  /\ Overdue(p)
  /\ Fail(p, IF pc[p] = "wait" THEN "asleep" ELSE "request")
  /\ UNCHANGED <<clock, remote, attempt, deadline>>

\* verifyGated: only a refusal of an anonymous read makes a private artifact a
\* success; an answer that never comes does not.
verifyGated(p) ==
  /\ pc[p] = "verify"
  /\ \/ p \notin open /\ pc' = [pc EXCEPT ![p] = "ok"] /\ UNCHANGED <<why, wake>>
     \/ p \in open /\ Fail(p, "ungated")
     \/ Fail(p, "request")
  /\ UNCHANGED <<clock, remote, attempt, deadline>>

\* Time passes, but no sleeper oversleeps by more than Slack and no context
\* that is over goes unnoticed.
Tick ==
  /\ clock < MaxTime
  /\ \A p \in Pubs : pc[p] = "wait" => clock < wake[p] + Slack
  /\ \A p \in Pubs : ~Overdue(p)
  /\ clock' = clock + 1
  /\ UNCHANGED <<remote, pc, attempt, wake, deadline, why>>

Next ==
  \/ Tick
  \/ \E p \in Pubs : \/ Begin(p) \/ Refuse(p) \/ Accept(p) \/ RequestFails(p)
                     \/ RateLimited(p) \/ Wake(p) \/ Expire(p) \/ verifyGated(p)

Spec == Init /\ [][Next]_vars

-----------------------------------------------------------------------------
Uploads == Cardinality({p \in Pubs : accepted[p] # Never})

\* No publish dies in its sleep: the deadline never strikes during a wait, so
\* that a rate limit is reported as one ("Never sleep past the caller's
\* deadline", hart.go:126-132).
NeverDiesWaiting == \A p \in Pubs : why[p] # "asleep"

\* Running out of attempts means a crowd.  Without Retry-After the schedule
\* outlasts the window, so two windows were full; with it every wait ends when
\* room appears, so somebody else was quicker each time (hart.go:32-34).
GivesUpOnlyIfCrowded ==
  \A p \in Pubs : why[p] = "exhausted" =>
    Uploads >= IF hints THEN Cap + Len(Delays) ELSE 2 * Cap

\* A publish that reports success was accepted, and if it is private the
\* artifact refuses anonymous reads (hart.go:158-167).
SuccessIsGated ==
  \A p \in Pubs : pc[p] = "ok" =>
    accepted[p] # Never /\ (p \in Private => p \notin open)

\* What a publish reports is what happened on hart.
OutcomeIsTrue == TypeOK /\ SuccessIsGated /\ GivesUpOnlyIfCrowded

\* Stopping before the deadline costs nothing where hart says how long to wait:
\* there is no room until the last Slack units of a run that stopped early.
EarlyIsRight ==
  \A p \in Pubs : hints /\ why[p] = "early" /\ clock < deadline[p] - Slack => ~Room

=============================================================================
