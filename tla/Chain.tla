-------------------------------- MODULE Chain --------------------------------
(***************************************************************************)
(* One `fleet run` or `fleet emit` (cmd/fleet/run.go, emit.go): a loop is  *)
(* run, and then every loop that listens to an event one of them emitted,  *)
(* breadth first, each at most once.  Running a loop is runner.Run: gates, *)
(* the loop itself, then its outputs take effect one after the other, and  *)
(* each of them may fail.  All of it shares one deadline.                  *)
(*                                                                         *)
(* What the loop does while it executes is its own business; here it       *)
(* leaves a set of outputs, fails, or never comes back.                    *)
(***************************************************************************)
EXTENDS Sequences, Naturals

CONSTANTS
  Order,      \* the loops of fleet.yml, in its order
  Events,     \* event names
  PublishedEvent,  \* "artifact.published"
  On,         \* On[l]: the events l listens to
  Outbound,   \* loops declared outbound
  Publishes,  \* loops declared to publish an artifact
  Outputs,    \* bound: what a loop may leave in its run directory
  MaxRuns,    \* bound: the runs of a chain; more than there are loops
  None        \* no loop, no outputs, no event

Loops == {Order[n] : n \in 1..Len(Order)}

OutputOf == [events : Seq(Events), sent : BOOLEAN, keys : Nat, artifact : BOOLEAN,
             proposals : Nat]

ASSUME FleetAssumption ==
  /\ Order \in Seq(Loops)
  /\ \A m, n \in 1..Len(Order) : Order[m] = Order[n] => m = n
  /\ On \in [Loops -> SUBSET Events]
  /\ Outbound \subseteq Loops /\ Publishes \subseteq Loops
  /\ PublishedEvent \in Events
ASSUME BoundAssumption == MaxRuns \in Nat /\ MaxRuns > Len(Order)
ASSUME OutputsAssumption == Outputs \subseteq OutputOf /\ None \notin Loops \cup OutputOf \cup Events

VARIABLES
  dry,       \* --dry-run
  chained,   \* FALSE with --no-chain
  emitted,   \* the event that fleet emit was given, None in a fleet run
  expired,   \* the deadline has passed
  pc,        \* where the command is
  cur,       \* the loop that is running
  events,    \* runEventBFS: the events to be heard, in order
  ev, pos,   \* runEventBFS: the event at hand, the last loop looked at
  visited,   \* loops that have been run
  done,      \* the runs that are over: loop, status, events
  wrote,     \* wrote[l]: the outputs l left
  effect     \* effect[l]: those that have taken effect

vars == <<dry, chained, emitted, expired, pc, cur, events, ev, pos, visited, done, wrote, effect>>
walk == <<events, ev, pos, visited>>
command == <<dry, chained, emitted>>

NoEffect == [logged |-> FALSE, keys |-> 0, uploaded |-> FALSE, queued |-> 0, recorded |-> FALSE]

Init ==
  /\ dry \in BOOLEAN /\ chained = TRUE /\ emitted = None /\ expired = FALSE
  /\ pc = "begin" /\ cur = None
  /\ events = <<>> /\ ev = 1 /\ pos = 0
  /\ visited = {} /\ done = <<>>
  /\ wrote = [l \in Loops |-> None]
  /\ effect = [l \in Loops |-> NoEffect]

-----------------------------------------------------------------------------
(* The command and the walk over events                                       *)

CmdRun(l, chain) ==
  /\ pc = "begin"
  /\ cur' = l /\ chained' = chain /\ pc' = "gates"
  /\ UNCHANGED <<dry, emitted, expired, walk, done, wrote, effect>>

CmdEmit(e) ==
  /\ pc = "begin"
  /\ emitted' = e /\ events' = <<e>> /\ pc' = "walk"
  /\ UNCHANGED <<dry, chained, expired, cur, ev, pos, visited, done, wrote, effect>>

Listens(n) == Order[n] \notin visited /\ events[ev] \in On[Order[n]]

\* Seeded fault: the loops that already ran are not passed over.
ListenersAgain == {n \in (pos + 1)..Len(Order) : events[ev] \in On[Order[n]]}

Listeners == {n \in (pos + 1)..Len(Order) : Listens(n)}

\* The deadline is looked at before each event, not before each of its listeners.
AtEvent == pc = "walk" /\ ev <= Len(events) /\ (expired => pos > 0)

RunListener(n) ==
  /\ AtEvent /\ Len(done) < MaxRuns
  /\ n \in Listeners /\ \A m \in Listeners : n <= m
  /\ cur' = Order[n] /\ pos' = n /\ pc' = "gates"
  /\ UNCHANGED <<command, expired, events, ev, visited, done, wrote, effect>>

\* Seeded fault: the loops are not looked at from the first one again.
NextEventOnly ==
  /\ AtEvent
  /\ Listeners = {}
  /\ ev' = ev + 1
  /\ UNCHANGED <<command, expired, pc, cur, events, pos, visited, done, wrote, effect>>

\* Seeded fault: an event that no loop listens to is not passed over.
NextEventHeard ==
  /\ AtEvent
  /\ Listeners = {}
  /\ ev' = IF pos = 0 THEN ev ELSE ev + 1
  /\ pos' = 0
  /\ UNCHANGED <<command, expired, pc, cur, events, visited, done, wrote, effect>>

NextEvent ==
  /\ AtEvent
  /\ Listeners = {}
  /\ ev' = ev + 1 /\ pos' = 0
  /\ UNCHANGED <<command, expired, pc, cur, events, visited, done, wrote, effect>>

EndWalk ==
  /\ pc = "walk"
  /\ ev > Len(events) \/ (expired /\ pos = 0)
  /\ pc' = "end"
  /\ UNCHANGED <<command, expired, cur, walk, done, wrote, effect>>

\* At any moment.  A loop that executes is killed, and what it started is not:
\* cmd.Run waits for whoever still has the loop's output open.
Expire ==
  /\ ~expired /\ pc # "end"
  /\ expired' = TRUE
  /\ UNCHANGED <<command, pc, cur, walk, done, wrote, effect>>

-----------------------------------------------------------------------------
(* The end of a run: runOneLoop                                               *)

First == done = <<>> /\ events = <<>>

\* Seeded fault: the events of a listener that failed are heard as well.
FollowedAlways(st) == TRUE

\* The first loop's events are heard whatever its status, a listener's if it is ok.
Followed(st) == First \/ st = "ok"

\* The record is dropped when it cannot be appended.
Over(st, evs, eff) ==
  /\ \E rec \in BOOLEAN :
       /\ dry => ~rec
       /\ effect' = [effect EXCEPT ![cur] = [eff EXCEPT !.recorded = rec]]
  /\ done' = Append(done, [loop |-> cur, status |-> st, events |-> evs, followed |-> Followed(st)])
  /\ visited' = visited \cup {cur}
  /\ events' = IF Followed(st) THEN events \o evs ELSE events
  /\ cur' = None
  /\ pc' = IF chained THEN "walk" ELSE "end"
  /\ UNCHANGED <<command, expired, ev, pos>>

\* An error whose text mentions a budget is reported as skipped (main.go:280).
Failed(evs, eff) == Over("error", evs, eff)
BudgetFailed(evs, eff) == Over("skipped", evs, eff)

Wrote == wrote[cur]
Done == effect[cur]

-----------------------------------------------------------------------------
(* runner.Run                                                                 *)

\* The machine is under pressure, or the budget is used up.
GateSkips ==
  /\ pc = "gates" /\ ~dry
  /\ Over("skipped", <<>>, Done)
  /\ UNCHANGED wrote

\* No run directory, or quiet hours that do not parse.
GateFails ==
  /\ pc = "gates"
  /\ Failed(<<>>, Done) \/ (cur \in Outbound /\ ~dry /\ BudgetFailed(<<>>, Done))
  /\ UNCHANGED wrote

GatePasses ==
  /\ pc = "gates"
  /\ pc' = "exec"
  /\ UNCHANGED <<command, expired, cur, walk, done, wrote, effect>>

\* The loop exits nonzero or is killed: what it wrote is not looked at.
ExecFails ==
  /\ pc = "exec"
  /\ Failed(<<>>, Done)
  /\ UNCHANGED wrote

\* Its outputs do not parse; the events may have been read before that.
ParseFails(o) ==
  /\ pc = "exec" /\ ~expired
  /\ wrote' = [wrote EXCEPT ![cur] = o]
  /\ \E evs \in {<<>>, o.events} : Failed(evs, Done)

Exec(o) ==
  /\ pc = "exec" /\ ~expired
  /\ wrote' = [wrote EXCEPT ![cur] = o]
  /\ pc' = "record"
  /\ UNCHANGED <<command, expired, cur, walk, done, effect>>

MustLog == cur \in Outbound /\ ~dry /\ Wrote.sent

RecordOutbound ==
  /\ pc = "record"
  /\ effect' = [effect EXCEPT ![cur].logged = MustLog]
  /\ pc' = "state"
  /\ UNCHANGED <<command, expired, cur, walk, done, wrote>>

RecordFails ==
  /\ pc = "record" /\ MustLog
  /\ BudgetFailed(Wrote.events, Done)
  /\ UNCHANGED wrote

ApplyState ==
  /\ pc = "state"
  /\ effect' = [effect EXCEPT ![cur].keys = IF dry THEN 0 ELSE Wrote.keys]
  /\ pc' = "publish"
  /\ UNCHANGED <<command, expired, cur, walk, done, wrote>>

\* Seeded fault: a key that is not stored is left out.
ApplyStateFailsOn ==
  /\ pc = "state" /\ ~dry
  /\ \E n \in 0..(Wrote.keys - 1) : effect' = [effect EXCEPT ![cur].keys = n]
  /\ pc' = "publish"
  /\ UNCHANGED <<command, expired, cur, walk, done, wrote>>

\* Key by key: the ones before the failure stay.
ApplyStateFails ==
  /\ pc = "state" /\ ~dry
  /\ \E n \in 0..(Wrote.keys - 1) : Failed(Wrote.events, [Done EXCEPT !.keys = n])
  /\ UNCHANGED wrote

MustPublish == cur \in Publishes /\ Wrote.artifact

\* A dry run uploads nothing and emits the event all the same.
Publish ==
  /\ pc = "publish"
  /\ MustPublish /\ ~dry => ~expired
  /\ effect' = [effect EXCEPT ![cur].uploaded = MustPublish /\ ~dry]
  /\ wrote' = IF MustPublish
                THEN [wrote EXCEPT ![cur].events = Append(@, PublishedEvent)] ELSE wrote
  /\ pc' = "queue"
  /\ UNCHANGED <<command, expired, cur, walk, done>>

\* Seeded fault: the error is dropped and the run goes on.
PublishFailsOn ==
  /\ pc = "publish" /\ cur \in Publishes
  /\ pc' = "queue"
  /\ UNCHANGED <<command, expired, cur, walk, done, wrote, effect>>

\* The artifact may have arrived although the answer did not.
PublishFails ==
  /\ pc = "publish" /\ cur \in Publishes
  /\ \E up \in BOOLEAN : /\ up => MustPublish /\ ~dry
                         /\ Failed(Wrote.events, [Done EXCEPT !.uploaded = up])
  /\ UNCHANGED wrote

\* Every proposal is added, and the cost of the run.
Enqueue ==
  /\ pc = "queue"
  /\ Over("ok", Wrote.events, [Done EXCEPT !.queued = IF dry THEN 0 ELSE Wrote.proposals])
  /\ UNCHANGED wrote

\* One by one: a proposal, or the cost that comes after them, is not stored.
EnqueueFails ==
  /\ pc = "queue" /\ ~dry
  /\ \E n \in 0..Wrote.proposals : Failed(Wrote.events, [Done EXCEPT !.queued = n])
  /\ UNCHANGED wrote

-----------------------------------------------------------------------------

\* The loop itself.
LoopReturns == ExecFails \/ \E o \in Outputs : Exec(o) \/ ParseFails(o)

\* What the command does before and after it.
RunSteps ==
  \/ GateSkips \/ GateFails \/ GatePasses
  \/ RecordOutbound \/ RecordFails
  \/ ApplyState \/ ApplyStateFails
  \/ Publish \/ PublishFails
  \/ Enqueue \/ EnqueueFails

RunLoop == RunSteps \/ LoopReturns

Walk == (\E n \in 1..Len(Order) : RunListener(n)) \/ NextEvent \/ EndWalk

Start == (\E l \in Loops, chain \in BOOLEAN : CmdRun(l, chain)) \/ \E e \in Events : CmdEmit(e)

Next == Start \/ Walk \/ RunLoop \/ Expire

Spec == Init /\ [][Next]_vars

\* The process may die anywhere, which is a behaviour that stops there: nothing of
\* the chain is kept that a later command would take up.

\* The command goes on.  Nothing is promised of the loops it executes, nor that the
\* deadline ever comes (a loop whose timeout is "0s" has none).
FairSpec == Spec /\ WF_vars(Walk \/ RunSteps)

-----------------------------------------------------------------------------
(* Properties *)

EffectOf == [logged : BOOLEAN, keys : Nat, uploaded : BOOLEAN, queued : Nat, recorded : BOOLEAN]
Statuses == {"ok", "skipped", "error"}

\* Everything has its type; a loop is running exactly inside runner.Run.
TypeOK ==
  /\ dry \in BOOLEAN /\ chained \in BOOLEAN /\ expired \in BOOLEAN
  /\ emitted \in Events \cup {None}
  /\ pc \in {"begin", "walk", "gates", "exec", "record", "state", "publish", "queue", "end"}
  /\ cur \in Loops \cup {None}
  /\ pc \in {"gates", "exec", "record", "state", "publish", "queue"} => cur \in Loops
  /\ pc \in {"record", "state", "publish", "queue"} => wrote[cur] # None
  /\ events \in Seq(Events) /\ ev \in 1..(Len(events) + 1) /\ pos \in 0..Len(Order)
  /\ visited \subseteq Loops
  /\ done \in Seq([loop : Loops, status : Statuses, events : Seq(Events), followed : BOOLEAN])
  /\ wrote \in [Loops -> OutputOf \cup {None}]
  /\ effect \in [Loops -> EffectOf]

Runs == 1..Len(done)

\* No loop runs twice in one chain, however the events lead back to it.
OncePerChain ==
  /\ \A j, k \in Runs : done[j].loop = done[k].loop => j = k
  /\ \A k \in Runs : done[k].loop # cur

\* The first loop of a `fleet run` is the one that was asked for.  Every other one
\* runs only because of an event that it listens to and that came before it: the one
\* `fleet emit` was given, or one of a run that ended well, or of the first loop of a
\* `fleet run`, however that ended.
Asked(k) == k = 1 /\ emitted = None

Heard(k, e) ==
  \/ e = emitted
  \/ \E j \in 1..(k - 1) : /\ Asked(j) \/ done[j].status = "ok"
                           /\ \E n \in 1..Len(done[j].events) : done[j].events[n] = e

RunsAreCaused == \A k \in Runs : Asked(k) \/ \E e \in On[done[k].loop] : Heard(k, e)

\* A chain that was not cut short has run every listener of every event that
\* was emitted along it, including the events of the last loops to run.
EveryListenerRan ==
  pc = "end" /\ chained /\ ~expired =>
    \A n \in 1..Len(events), l \in Loops : events[n] \in On[l] => l \in visited

\* Loop l left o, and e of it has taken effect: the state is stored, what was sent
\* is counted, the artifact is up.
Complete(l, o, e) ==
  /\ e.keys = o.keys
  /\ l \in Outbound /\ o.sent => e.logged
  /\ l \in Publishes /\ o.artifact => e.uploaded

\* "ok" means that everything the loop left has taken effect, the proposals too.
OkMeansDone ==
  ~dry => \A k \in Runs : done[k].status = "ok" =>
            LET l == done[k].loop
            IN  Complete(l, wrote[l], effect[l]) /\ effect[l].queued = wrote[l].proposals

\* A human is asked about a proposal only after everything else the run left has
\* taken effect (runner.go:212-214).
ProposalsComeLast ==
  \A l \in Loops : effect[l].queued > 0 => Complete(l, wrote[l], effect[l])

\* A dry run leaves no trace: not even in the run log.
DryRunTouchesNothing == dry => \A l \in Loops : effect[l] = NoEffect

\* The command comes to an end, with a deadline or without, although loops may
\* trigger each other in a circle; unless a loop never comes back.
ChainEnds == pc # "begin" ~> (pc = "end" \/ [](pc = "exec"))

\* "a failed publish stops the chain rather than half of it" (runner.go:212-214).
\* This does not hold: the first loop's events are heard whatever its status, so it
\* is not among the invariants of MCChain (README, section 6).
FailureStopsChain ==
  \A k \in Runs : k > 1 => \A j \in 1..(k - 1) :
    done[j].status = "error" => ~done[j].followed \/ done[j].events = <<>>
=============================================================================
