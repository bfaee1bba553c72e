----------------------------- MODULE RelaisPoll ------------------------------
(***************************************************************************)
(* The wall clock of `fleet relais-poll` (internal/relais/poll.go).  A     *)
(* poll lists the pending proposals, oldest first, and walks the list      *)
(* within a budget of time: each request gets a share of what is left, and *)
(* the walk stops when too little is left or when relais seems to be down. *)
(* A timer starts polls again and again, each from the top of a new list.  *)
(*                                                                         *)
(* Approval.tla is about which decision is applied to which row; here it   *)
(* is about whether an inbox is looked at at all, and when.  Time passes   *)
(* only while a request is on its way.  A proposal is its place in the     *)
(* queue file.  Any request may be answered, in whatever part of its time  *)
(* it takes, and any may fail, at once or when its time is up: an inbox    *)
(* may be gone, slower than its share, or fail now and then.               *)
(***************************************************************************)
EXTENDS Integers, FiniteSets

CONSTANTS
  N,             \* bound: proposals that are ever queued with a link and a token
  Budget,        \* FLEET_RELAIS_BUDGET, in units of time
  MinPerRequest,
  MaxPerRequest,
  MaxErrors      \* maxConsecutiveErrors

ASSUME PollAssumption ==
  /\ N \in Nat /\ Budget \in Nat /\ MaxErrors \in Nat \ {0}
  /\ MinPerRequest \in Nat \ {0} /\ MaxPerRequest \in Nat
  /\ MinPerRequest <= MaxPerRequest

Ids == 1..N

VARIABLES
  queued,    \* how many proposals have been queued
  tapped,    \* proposals whose inbox holds a decision
  decided,   \* proposals that are no longer pending
  pc,        \* where the poll is; "over" before, between and after polls
  list,      \* what it listed as pending
  todo,      \* the part of the list it has not looked at
  at,        \* the proposal it is looking at
  left,      \* time until its deadline
  timeout,   \* what the request on its way may take
  errors,    \* consecutive errors
  failed,    \* the proposals it has an error for
  polled, unpolled, stoppedBy   \* its stats

queue == <<queued, tapped, decided>>
stats == <<failed, polled, unpolled, stoppedBy>>
vars == <<queue, pc, list, todo, at, left, timeout, errors, stats>>

Least(S) == CHOOSE i \in S : \A j \in S : i <= j

Init ==
  /\ queued = 0
  /\ tapped = {} /\ decided = {}
  /\ pc = "over" /\ list = {} /\ todo = {} /\ at = 0
  /\ left = 0 /\ timeout = 0 /\ errors = 0
  /\ failed = {} /\ polled = 0 /\ unpolled = 0 /\ stoppedBy = "nothing"

-----------------------------------------------------------------------------
(* The loops queue proposals, the human taps                                  *)

Queue ==
  /\ queued < N
  /\ queued' = queued + 1
  /\ UNCHANGED <<tapped, decided, pc, list, todo, at, left, timeout, errors, stats>>

Tap(id) ==
  /\ id <= queued
  /\ tapped' = tapped \cup {id}
  /\ UNCHANGED <<queued, decided, pc, list, todo, at, left, timeout, errors, stats>>

-----------------------------------------------------------------------------
(* PollQueue                                                                  *)

\* The timer starts a poll: the list, the deadline, the counters.
Start ==
  LET pending == (1..queued) \ decided
  IN  /\ pc = "over" /\ pending # {}
      /\ pc' = "walk"
      /\ list' = pending /\ todo' = pending
      /\ left' = Budget /\ errors' = 0
      /\ failed' = {} /\ polled' = 0 /\ unpolled' = 0 /\ stoppedBy' = "nothing"
      /\ UNCHANGED <<queue, at, timeout>>

\* The process ends; what the properties compare stays visible.
Exit == pc' = "over" /\ at' = 0 /\ timeout' = 0 /\ errors' = 0

Stop(why) ==
  /\ Exit
  /\ unpolled' = Cardinality(todo)
  /\ stoppedBy' = why
  /\ UNCHANGED <<queue, list, todo, left, failed, polled>>

OutOfTime == left <= MinPerRequest

StopForBudget ==
  /\ pc = "walk" /\ todo # {}
  /\ OutOfTime
  /\ Stop("budget")

StopForErrors ==
  /\ pc = "walk" /\ todo # {}
  /\ ~OutOfTime /\ errors >= MaxErrors
  /\ Stop("relais_unreachable")

\* Seeded faults: each request may take the client's default, as it once did; each
\* may take all there is left.
ShareFixed == MaxPerRequest

ShareGreedy == IF left > MaxPerRequest THEN MaxPerRequest ELSE left

\* What is left is shared between the proposals still to check.
Share ==
  LET even == left \div Cardinality(todo)
  IN  IF even < MinPerRequest THEN MinPerRequest
      ELSE IF even > MaxPerRequest THEN MaxPerRequest ELSE even

\* A request for the next proposal's messages leaves.
Ask ==
  /\ pc = "walk" /\ todo # {}
  /\ ~OutOfTime /\ errors < MaxErrors
  /\ at' = Least(todo) /\ todo' = todo \ {at'}
  /\ timeout' = Share
  /\ pc' = "ask"
  /\ UNCHANGED <<queue, list, left, errors, stats>>

\* Seeded fault: an answer does not start the count of errors again.
AnswerNoReset(spent) ==
  /\ pc = "ask"
  /\ left' = left - spent
  /\ polled' = polled + 1
  /\ pc' = IF at \in tapped THEN "apply" ELSE "walk"
  /\ UNCHANGED <<queue, list, todo, at, timeout, errors, failed, unpolled, stoppedBy>>

\* The messages arrive.
Answer(spent) ==
  /\ pc = "ask"
  /\ left' = left - spent
  /\ errors' = 0
  /\ polled' = polled + 1
  /\ pc' = IF at \in tapped THEN "apply" ELSE "walk"
  /\ UNCHANGED <<queue, list, todo, at, timeout, failed, unpolled, stoppedBy>>

\* The request fails: refused at once, or not answered in time.
NoAnswer(spent) ==
  /\ pc = "ask"
  /\ left' = left - spent
  /\ errors' = errors + 1
  /\ failed' = failed \cup {at}
  /\ pc' = "walk"
  /\ UNCHANGED <<queue, list, todo, at, timeout, polled, unpolled, stoppedBy>>

\* UpdateStatus.  Where it fails the walk goes on, and the tap stays where it is.
Apply ==
  /\ pc = "apply"
  /\ decided' = decided \cup {at}
  /\ pc' = "clear"
  /\ UNCHANGED <<queued, tapped, list, todo, at, left, timeout, errors, stats>>

ApplyFails ==
  /\ pc = "apply"
  /\ pc' = "walk"
  /\ UNCHANGED <<queue, list, todo, at, left, timeout, errors, stats>>

\* DeleteMessages, with the timeout of the request before it.  Its error is dropped.
Clear(spent) ==
  /\ pc = "clear"
  /\ left' = left - spent
  /\ pc' = "walk"
  /\ UNCHANGED <<queue, list, todo, at, timeout, errors, stats>>

End ==
  /\ pc = "walk" /\ todo = {}
  /\ Exit
  /\ UNCHANGED <<queue, list, todo, left, stats>>

-----------------------------------------------------------------------------

Request == \E spent \in 0..timeout : Answer(spent) \/ NoAnswer(spent) \/ Clear(spent)

Walk == StopForBudget \/ StopForErrors \/ Ask \/ Request \/ End

Next ==
  \/ Queue \/ \E id \in Ids : Tap(id)
  \/ Start \/ Walk \/ Apply \/ ApplyFails

Spec == Init /\ [][Next]_vars

\* The timer goes on starting polls, a poll goes on, and a queue file that can be
\* written now and then is written for each proposal in the end.  Nobody promises
\* to queue, to tap or to answer.
Fairness ==
  /\ WF_vars(Start) /\ WF_vars(Walk)
  /\ WF_vars(Apply \/ ApplyFails)
  /\ \A id \in Ids : SF_vars(Apply /\ at = id)

FairSpec == Spec /\ Fairness

-----------------------------------------------------------------------------
(* Properties *)

Asked == list \ todo

TypeOK ==
  /\ queued \in 0..N
  /\ tapped \subseteq Ids /\ decided \subseteq tapped
  /\ pc \in {"over", "walk", "ask", "apply", "clear"}
  /\ list \subseteq Ids /\ todo \subseteq list
  /\ at \in 0..N /\ (pc \in {"ask", "apply", "clear"} => at \in list \ todo)
  /\ left \in -MaxPerRequest..Budget
  /\ timeout \in 0..MaxPerRequest
  /\ errors \in 0..MaxErrors /\ failed \subseteq Asked
  /\ polled \in 0..N /\ unpolled \in 0..N
  /\ stoppedBy \in {"nothing", "budget", "relais_unreachable"}

\* The budget "stops before the budget runs out" (poll.go:21-23), but for one
\* request: no inbox is asked for longer than there is time left, and what is
\* overrun is at most the clearing of one inbox, after which the walk is over.
OverrunIsOneClear ==
  /\ pc = "ask" => timeout <= left
  /\ left < 0 => Asked \cap decided # {} /\ pc \in {"walk", "over"}

\* "one slow call cannot eat the allowance for all the others" (poll.go:97-98):
\* when the list fits the budget at the minimum each, a walk in which nothing was
\* decided is not cut short by the budget, even if each request takes all of its
\* share.  It looks at the whole list, or stops after MaxErrors failures in a row.
ShareIsKept ==
  /\ stoppedBy = "budget"
  /\ Cardinality(list) * MinPerRequest < Budget
  => list \cap decided # {}

\* "says how many proposals it did not get to" (poll.go:21-23): when a poll is over,
\* each listed proposal has been polled, has an error of its own or is counted as
\* unpolled, and a stop is reported exactly when something is left over.
EveryoneIsCounted ==
  pc = "over" => /\ polled + Cardinality(failed) + unpolled = Cardinality(list)
                 /\ stoppedBy = "nothing" <=> unpolled = 0

\* The walk gives up on relais only after that many requests in a row have failed:
\* one answer in between starts the count again (poll.go:31-33, 118).
LastAsked == {i \in Asked : Cardinality({j \in Asked : j > i}) < MaxErrors}
GivesUpAfterARow ==
  stoppedBy = "relais_unreachable" => Cardinality(LastAsked) = MaxErrors /\ LastAsked \subseteq failed

\* What a poll reports is what happened: who was polled and who was not, and that
\* relais is "unreachable" only if so many inboxes in a row did not answer.
ReportIsTrue == TypeOK /\ EveryoneIsCounted /\ GivesUpAfterARow

\* A tap (which is never taken back) is applied in the end, whatever else is queued
\* and however long the answers take, if the queue fits the budget at the minimum
\* each and if there is again and again a poll in which the request for it does not
\* fail and fewer than MaxErrors of those before it do.  Every poll starts at the
\* oldest: with MaxErrors failures before it in each, it would never be asked for.
MayReach(id) ==
  /\ pc = "over" /\ id \in list \ failed
  /\ Cardinality({f \in failed : f < id}) < MaxErrors
TapsAreApplied ==
  N * MinPerRequest < Budget =>
    \A id \in Ids : []<>MayReach(id) => []<>(id \in tapped => id \in decided)
=============================================================================
