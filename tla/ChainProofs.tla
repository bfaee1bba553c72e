----------------------------- MODULE ChainProofs -----------------------------
(***************************************************************************)
(* What one chain guarantees for every fleet: any loops, any events they   *)
(* listen to and emit, any outputs.                                        *)
(*                                                                         *)
(* The invariant says where the running loop's effects have got to at each *)
(* stage (StageInv), that a loop that is over is in visited and nowhere    *)
(* else (VisitInv), and what its effects are then (DoneInv).               *)
(***************************************************************************)
EXTENDS Chain, SequenceTheorems, TLAPS

Stages == {"gates", "exec", "record", "state", "publish", "queue"}

\* What the effects of loop l, which left o, are when it has reached stage st; d says
\* whether this is a dry run.
Expected(d, l, o, st) ==
  [logged |-> st \in {"state", "publish", "queue"} /\ l \in Outbound /\ ~d /\ o.sent,
   keys |-> IF st \in {"publish", "queue"} /\ ~d THEN o.keys ELSE 0,
   uploaded |-> st = "queue" /\ l \in Publishes /\ o.artifact /\ ~d,
   queued |-> 0, recorded |-> FALSE]

StageInv ==
  /\ cur # None <=> pc \in Stages
  /\ pc \in {"gates", "exec"} => effect[cur] = NoEffect
  /\ pc \in {"record", "state", "publish", "queue"} => effect[cur] = Expected(dry, cur, wrote[cur], pc)

VisitInv ==
  /\ cur \notin visited
  /\ \A k \in Runs : done[k].loop \in visited
  /\ \A j, k \in Runs : done[j].loop = done[k].loop => j = k
  /\ \A l \in Loops : l \notin visited /\ l # cur => effect[l] = NoEffect
  /\ pc = "begin" => visited = {} /\ ev = 1

\* A run of loop l that ended with status st, left o and had effects e.
EndedWell(d, l, st, o, e) ==
  ~d /\ st = "ok" => Complete(l, o, e) /\ e.queued = o.proposals

DoneInv ==
  /\ \A k \in Runs : EndedWell(dry, done[k].loop, done[k].status, wrote[done[k].loop],
                               effect[done[k].loop])
  /\ ProposalsComeLast
  /\ DryRunTouchesNothing

IInv == TypeOK /\ StageInv /\ VisitInv /\ DoneInv

-----------------------------------------------------------------------------

\* The first state.
LEMMA InitInv == Init => IInv
<1> SUFFICES ASSUME Init PROVE IInv
  OBVIOUS
<1> USE FleetAssumption, OutputsAssumption
<1>1. TypeOK
  <2>1. effect \in [Loops -> EffectOf]
    BY DEF Init, NoEffect, EffectOf
  <2>2. wrote \in [Loops -> OutputOf \cup {None}]
    BY DEF Init
  <2>3. events \in Seq(Events) /\ ev \in 1..(Len(events) + 1) /\ pos \in 0..Len(Order)
    BY DEF Init
  <2>4. done \in Seq([loop : Loops, status : Statuses, events : Seq(Events), followed : BOOLEAN])
    BY DEF Init
  <2>5. QED
    BY <2>1, <2>2, <2>3, <2>4 DEF Init, TypeOK
<1>2. StageInv
  BY DEF Init, StageInv, Stages
<1>3. VisitInv
  BY DEF Init, VisitInv, Runs
<1>4. DoneInv
  BY DEF Init, DoneInv, Runs, ProposalsComeLast, DryRunTouchesNothing, NoEffect
<1>5. QED
  BY <1>1, <1>2, <1>3, <1>4 DEF IInv

\* A run that is over leaves everything as it should be, whatever its status, if
\* its effects eff were in order.
LEMMA OverKeeps ==
  ASSUME IInv, cur \in Loops,
         NEW st \in Statuses, NEW evs \in Seq(Events), NEW eff \in EffectOf,
         wrote' \in [Loops -> OutputOf \cup {None}],
         \A l \in Loops : l # cur => wrote'[l] = wrote[l],
         dry => eff = NoEffect,
         eff.queued > 0 => Complete(cur, wrote'[cur], eff),
         EndedWell(dry, cur, st, wrote'[cur], eff),
         Over(st, evs, eff)
  PROVE  IInv'
<1> USE FleetAssumption, OutputsAssumption
<1> DEFINE r == [loop |-> cur, status |-> st, events |-> evs, followed |-> Followed(st)]
<1>1. PICK rec \in BOOLEAN : (dry => ~rec) /\ effect' = [effect EXCEPT ![cur] = [eff EXCEPT !.recorded = rec]]
  BY DEF Over
<1> DEFINE e == [eff EXCEPT !.recorded = rec]
<1>2. /\ e \in EffectOf
      /\ e.keys = eff.keys /\ e.logged = eff.logged
      /\ e.uploaded = eff.uploaded /\ e.queued = eff.queued
      /\ dry => e = NoEffect
  <2>1. e = [logged |-> eff.logged, keys |-> eff.keys, uploaded |-> eff.uploaded,
             queued |-> eff.queued, recorded |-> rec]
    BY DEF EffectOf
  <2>2. e \in EffectOf
    BY <2>1, <1>1 DEF EffectOf
  <2>3. ASSUME dry PROVE e = NoEffect
    <3>1. rec = FALSE
      BY <1>1, <2>3
    <3>2. eff = NoEffect
      BY <2>3
    <3>3. QED
      BY <2>1, <3>1, <3>2 DEF NoEffect
  <2>4. QED
    BY <2>1, <2>2, <2>3
<1>3. /\ TypeOK /\ StageInv /\ VisitInv /\ DoneInv
      /\ effect \in [Loops -> EffectOf]
      /\ visited \subseteq Loops
      /\ done \in Seq([loop : Loops, status : Statuses, events : Seq(Events), followed : BOOLEAN])
      /\ events \in Seq(Events)
  BY DEF IInv, TypeOK
<1>4. /\ effect'[cur] = e
      /\ \A l \in Loops : l # cur => effect'[l] = effect[l]
      /\ effect' \in [Loops -> EffectOf]
  BY <1>1, <1>2, <1>3
<1>5. /\ done' = Append(done, r) /\ visited' = visited \cup {cur} /\ cur' = None
      /\ pc' \in {"walk", "end"} /\ dry' = dry /\ chained' = chained /\ expired' = expired
      /\ emitted' = emitted
      /\ ev' = ev /\ pos' = pos
      /\ events' = events \o evs \/ events' = events
  BY DEF Over, command
<1>6. /\ Len(done') = Len(done) + 1
      /\ done'[Len(done) + 1] = r
      /\ \A k \in Runs : done'[k] = done[k] /\ k # Len(done) + 1
      /\ Runs' = Runs \cup {Len(done) + 1}
  BY <1>3, <1>5 DEF Runs
<1>7. Followed(st) \in BOOLEAN
  BY DEF Followed, First
<1>8. TypeOK'
  <2>1. done' \in Seq([loop : Loops, status : Statuses, events : Seq(Events), followed : BOOLEAN])
    BY <1>3, <1>5, <1>7
  <2>2. events' \in Seq(Events) /\ Len(events') >= Len(events)
    <3>1. events \o evs \in Seq(Events) /\ Len(events \o evs) = Len(events) + Len(evs)
      BY <1>3, ConcatProperties
    <3>2. Len(events) \in Nat /\ Len(evs) \in Nat
      BY <1>3
    <3>3. CASE events' = events
      BY <1>3, <3>2, <3>3
    <3>4. CASE events' = events \o evs
      BY <3>1, <3>2, <3>4
    <3>5. QED
      BY <1>5, <3>3, <3>4
  <2>3. ev' \in 1..(Len(events') + 1) /\ pos' \in 0..Len(Order)
    BY <1>3, <1>5, <2>2 DEF TypeOK
  <2>4. QED
    BY <1>3, <1>4, <1>5, <2>1, <2>2, <2>3 DEF TypeOK
<1>9. StageInv'
  BY <1>5 DEF StageInv, Stages
<1>10. VisitInv'
  <2>1. \A k \in Runs : done[k].loop \in visited /\ done[k].loop # cur
    BY <1>3 DEF VisitInv
  <2>2. r.loop = cur
    OBVIOUS
  <2>3. \A k \in Runs' : done'[k].loop \in visited'
    BY <1>5, <1>6, <2>1, <2>2
  <2>4. \A j, k \in Runs' : done'[j].loop = done'[k].loop => j = k
    <3>1. \A j, k \in Runs : done'[j].loop = done'[k].loop => j = k
      BY <1>3, <1>6 DEF VisitInv
    <3>2. \A k \in Runs : done'[k].loop # done'[Len(done) + 1].loop
      BY <1>6, <2>1, <2>2
    <3>3. QED
      BY <1>6, <3>1, <3>2
  <2>5. \A l \in Loops : l \notin visited' => effect'[l] = NoEffect
    BY <1>3, <1>4, <1>5 DEF VisitInv
  <2>6. QED
    BY <1>3, <1>5, <2>3, <2>4, <2>5 DEF VisitInv
<1>11. DoneInv'
  <2>1. Complete(cur, wrote'[cur], eff) => Complete(cur, wrote'[cur], e)
    BY <1>2 DEF Complete
  <2>2. EndedWell(dry, cur, st, wrote'[cur], e)
    BY <1>2, <1>5, <2>1 DEF EndedWell
  <2>3. \A k \in Runs : done[k].loop \in Loops /\ done[k].loop # cur
    BY <1>3 DEF VisitInv
  <2>4. \A k \in Runs' : EndedWell(dry, done'[k].loop, done'[k].status, wrote'[done'[k].loop],
                                   effect'[done'[k].loop])
    <3>1. r.loop = cur /\ r.status = st
      OBVIOUS
    <3>2. \A k \in Runs : /\ wrote'[done[k].loop] = wrote[done[k].loop]
                          /\ effect'[done[k].loop] = effect[done[k].loop]
      BY <1>4, <2>3
    <3>3. \A k \in Runs : EndedWell(dry, done'[k].loop, done'[k].status, wrote'[done'[k].loop],
                                    effect'[done'[k].loop])
      BY <1>3, <1>6, <3>2 DEF DoneInv
    <3>4. EndedWell(dry, r.loop, r.status, wrote'[r.loop], effect'[r.loop])
      BY <1>4, <2>2, <3>1
    <3> HIDE DEF r, e
    <3>5. QED
      BY <1>6, <3>3, <3>4
  <2>5. ProposalsComeLast'
    BY <1>2, <1>3, <1>4, <2>1 DEF ProposalsComeLast, DoneInv
  <2>6. DryRunTouchesNothing'
    BY <1>2, <1>3, <1>4, <1>5 DEF DryRunTouchesNothing, DoneInv
  <2>7. QED
    BY <1>5, <2>4, <2>5, <2>6 DEF DoneInv
<1>12. QED
  BY <1>8, <1>9, <1>10, <1>11 DEF IInv

\* A step from one stage of runner.Run to the next, which touches nothing but the
\* effects and outputs of the running loop.
LEMMA MoveKeeps ==
  ASSUME IInv, cur \in Loops, pc' \in Stages, cur' = cur,
         dry' = dry, chained' = chained, emitted' = emitted, expired' = expired,
         events' = events, ev' = ev, pos' = pos, visited' = visited, done' = done,
         wrote' \in [Loops -> OutputOf \cup {None}],
         effect' \in [Loops -> EffectOf],
         \A l \in Loops : l # cur => wrote'[l] = wrote[l] /\ effect'[l] = effect[l],
         pc' \in {"gates", "exec"} => effect'[cur] = NoEffect,
         pc' \in {"record", "state", "publish", "queue"} =>
           wrote'[cur] # None /\ effect'[cur] = Expected(dry, cur, wrote'[cur], pc')
  PROVE  IInv'
<1>1. /\ TypeOK /\ StageInv /\ VisitInv /\ DoneInv
      /\ \A k \in Runs : done[k].loop \in Loops /\ done[k].loop # cur
  BY DEF IInv, TypeOK, VisitInv
<1>2. effect'[cur].queued = 0 /\ (dry => effect'[cur] = NoEffect)
  <2>1. CASE pc' \in {"gates", "exec"}
    BY <2>1 DEF NoEffect
  <2>2. CASE pc' \in {"record", "state", "publish", "queue"}
    <3>1. effect'[cur].queued = 0
      BY <2>2 DEF Expected
    <3>2. ASSUME dry PROVE effect'[cur] = NoEffect
      BY <2>2, <3>2 DEF Expected, NoEffect
    <3>3. QED
      BY <3>1, <3>2
  <2>3. QED
    BY <2>1, <2>2 DEF Stages
<1>3. TypeOK'
  BY <1>1 DEF TypeOK, Stages
<1>4. StageInv'
  BY OutputsAssumption DEF StageInv, Stages
<1>5. VisitInv'
  BY <1>1 DEF VisitInv, Runs, Stages
<1>6. DoneInv'
  <2>1. \A k \in Runs : /\ wrote'[done[k].loop] = wrote[done[k].loop]
                        /\ effect'[done[k].loop] = effect[done[k].loop]
    BY <1>1
  <2>2. \A k \in Runs : EndedWell(dry, done[k].loop, done[k].status, wrote'[done[k].loop],
                                  effect'[done[k].loop])
    BY <1>1, <2>1 DEF DoneInv
  <2>3. ProposalsComeLast'
    BY <1>1, <1>2 DEF ProposalsComeLast, DoneInv
  <2>4. DryRunTouchesNothing'
    BY <1>1, <1>2 DEF DryRunTouchesNothing, DoneInv
  <2>5. QED
    BY <2>2, <2>3, <2>4 DEF DoneInv, Runs
<1>7. QED
  BY <1>3, <1>4, <1>5, <1>6 DEF IInv

\* The walk between runs: no loop is running, no effect changes.
LEMMA WalkKeeps ==
  ASSUME IInv, Start \/ Walk \/ Expire
  PROVE  IInv'
<1> USE FleetAssumption, OutputsAssumption
<1>1. /\ TypeOK /\ StageInv /\ VisitInv /\ DoneInv
  BY DEF IInv
<1>2. /\ dry' = dry /\ done' = done /\ visited' = visited /\ wrote' = wrote /\ effect' = effect
  BY DEF Start, Walk, Expire, CmdRun, CmdEmit, RunListener, NextEvent, EndWalk, command, walk
<1>0. emitted' \in Events \cup {None}
  BY <1>1 DEF TypeOK, Start, Walk, Expire, CmdRun, CmdEmit, RunListener, NextEvent, EndWalk, command
<1>3. DoneInv'
  BY <1>1, <1>2 DEF DoneInv, Runs, ProposalsComeLast, DryRunTouchesNothing
<1>4. ASSUME NEW l \in Loops, NEW chain \in BOOLEAN, CmdRun(l, chain) PROVE IInv'
  <2>1. /\ pc = "begin" /\ cur' = l /\ chained' = chain /\ pc' = "gates"
        /\ expired' = expired /\ events' = events /\ ev' = ev /\ pos' = pos
    BY <1>4 DEF CmdRun, walk
  <2>2. visited = {} /\ cur = None
    BY <1>1, <2>1 DEF VisitInv, StageInv, Stages
  <2>3. TypeOK'
    BY <1>0, <1>1, <1>2, <2>1 DEF TypeOK
  <2>4. StageInv'
    BY <1>1, <1>2, <2>1, <2>2 DEF StageInv, Stages, VisitInv
  <2>5. VisitInv'
    BY <1>1, <1>2, <2>1, <2>2 DEF VisitInv, Runs
  <2>6. QED
    BY <1>3, <2>3, <2>4, <2>5 DEF IInv
<1>5. ASSUME NEW e \in Events, CmdEmit(e) PROVE IInv'
  <2>1. /\ pc = "begin" /\ events' = <<e>> /\ pc' = "walk" /\ chained' = chained
        /\ expired' = expired /\ cur' = cur /\ ev' = ev /\ pos' = pos
    BY <1>5 DEF CmdEmit, command
  <2>2. TypeOK'
    <3>1. events' \in Seq(Events) /\ Len(events') = 1
      BY <2>1
    <3>2. ev' \in 1..(Len(events') + 1)
      BY <1>1, <2>1, <3>1 DEF VisitInv
    <3>3. QED
      BY <1>0, <1>1, <1>2, <2>1, <3>1, <3>2 DEF TypeOK
  <2>3. StageInv'
    BY <1>1, <1>2, <2>1 DEF StageInv, Stages
  <2>4. VisitInv'
    BY <1>1, <1>2, <2>1 DEF VisitInv, Runs
  <2>5. QED
    BY <1>3, <2>2, <2>3, <2>4 DEF IInv
<1>6. ASSUME NEW n \in 1..Len(Order), RunListener(n) PROVE IInv'
  <2>1. /\ pc = "walk" /\ cur' = Order[n] /\ pos' = n /\ pc' = "gates" /\ n \in Listeners
        /\ chained' = chained /\ expired' = expired /\ events' = events /\ ev' = ev
    BY <1>6 DEF RunListener, AtEvent, command
  <2>2. /\ cur = None /\ cur' \in Loops /\ cur' # None /\ cur' \notin visited
    BY <1>1, <2>1 DEF StageInv, Stages, Listeners, Listens, Loops
  <2>3. TypeOK'
    BY <1>0, <1>1, <1>2, <2>1, <2>2 DEF TypeOK
  <2>4. StageInv'
    BY <1>1, <1>2, <2>1, <2>2 DEF StageInv, Stages, VisitInv
  <2>5. VisitInv'
    BY <1>1, <1>2, <2>1, <2>2 DEF VisitInv, Runs
  <2>6. QED
    BY <1>3, <2>3, <2>4, <2>5 DEF IInv
<1>7. CASE NextEvent
  <2>1. /\ pc = "walk" /\ ev <= Len(events) /\ ev' = ev + 1 /\ pos' = 0 /\ pc' = pc /\ cur' = cur
        /\ chained' = chained /\ expired' = expired /\ events' = events
    BY <1>7 DEF NextEvent, AtEvent, command
  <2>2. TypeOK'
    BY <1>0, <1>1, <1>2, <2>1 DEF TypeOK
  <2>3. StageInv' /\ VisitInv'
    BY <1>1, <1>2, <2>1 DEF StageInv, Stages, VisitInv, Runs
  <2>4. QED
    BY <1>3, <2>2, <2>3 DEF IInv
<1>8. CASE EndWalk \/ Expire
  <2>1. /\ pc' = pc \/ (pc = "walk" /\ pc' = "end")
        /\ expired' \in BOOLEAN /\ cur' = cur /\ chained' = chained
        /\ events' = events /\ ev' = ev /\ pos' = pos
    BY <1>1, <1>8 DEF EndWalk, Expire, command, walk, TypeOK
  <2>2. TypeOK'
    BY <1>0, <1>1, <1>2, <2>1 DEF TypeOK
  <2>3. StageInv' /\ VisitInv'
    BY <1>1, <1>2, <2>1 DEF StageInv, Stages, VisitInv, Runs
  <2>4. QED
    BY <1>3, <2>2, <2>3 DEF IInv
<1>9. QED
  BY <1>4, <1>5, <1>6, <1>7, <1>8 DEF Start, Walk

\* The actions that end a run: what the running loop has achieved by then is in order.
LEMMA EndingKeeps ==
  ASSUME IInv,
         \/ GateSkips \/ GateFails \/ ExecFails
         \/ (\E o \in Outputs : ParseFails(o))
         \/ RecordFails \/ ApplyStateFails \/ PublishFails
         \/ Enqueue \/ EnqueueFails
  PROVE  IInv'
<1> USE FleetAssumption, OutputsAssumption
<1>1. /\ TypeOK /\ StageInv /\ cur \in Loops
      /\ wrote \in [Loops -> OutputOf \cup {None}] /\ dry \in BOOLEAN
      /\ Done \in EffectOf /\ <<>> \in Seq(Events)
  BY DEF IInv, TypeOK, Done, GateSkips, GateFails, ExecFails, ParseFails, RecordFails,
         ApplyStateFails, PublishFails, Enqueue, EnqueueFails
<1>2. pc \in {"gates", "exec"} => Done = NoEffect
  BY <1>1 DEF StageInv, Done
<1>3. pc \in {"record", "state", "publish", "queue"} =>
        /\ Wrote \in OutputOf
        /\ Done = Expected(dry, cur, Wrote, pc)
  BY <1>1 DEF StageInv, TypeOK, Done, Wrote
<1>4. OutputOf = [events : Seq(Events), sent : BOOLEAN, keys : Nat, artifact : BOOLEAN,
                  proposals : Nat]
  BY DEF OutputOf
<1> DEFINE InOrder(st, eff) == /\ eff \in EffectOf
                               /\ dry => eff = NoEffect
                               /\ eff.queued > 0 => Complete(cur, wrote'[cur], eff)
                               /\ EndedWell(dry, cur, st, wrote'[cur], eff)
<1>5. ASSUME NEW st \in Statuses, NEW evs \in Seq(Events), NEW eff, InOrder(st, eff),
             Over(st, evs, eff), wrote' \in [Loops -> OutputOf \cup {None}],
             \A l \in Loops : l # cur => wrote'[l] = wrote[l]
      PROVE  IInv'
  BY <1>1, <1>5, OverKeeps
<1>6. {"skipped", "error", "ok"} \subseteq Statuses
  BY DEF Statuses
\* An error or a skip with nothing queued is always in order.
<1>7. ASSUME NEW st \in {"skipped", "error"}, NEW eff \in EffectOf, eff.queued = 0,
             dry => eff = NoEffect
      PROVE  InOrder(st, eff)
  BY <1>7 DEF EndedWell
<1>8. Done.queued = 0 /\ NoEffect.queued = 0 /\ (dry => Done = NoEffect)
  <2>1. CASE pc \in {"gates", "exec"}
    BY <1>2, <2>1 DEF NoEffect
  <2>2. CASE pc \in {"record", "state", "publish", "queue"}
    <3>1. Done.queued = 0 /\ NoEffect.queued = 0
      BY <1>3, <2>2 DEF Expected, NoEffect
    <3>2. ASSUME dry PROVE Expected(dry, cur, Wrote, pc) = NoEffect
      BY <3>2 DEF Expected, NoEffect
    <3>3. QED
      BY <1>3, <2>2, <3>1, <3>2
  <2>3. pc \in {"gates", "exec", "record", "state", "publish", "queue"}
    BY DEF GateSkips, GateFails, ExecFails, ParseFails, RecordFails,
           ApplyStateFails, PublishFails, Enqueue, EnqueueFails
  <2>4. QED
    BY <2>1, <2>2, <2>3 DEF NoEffect
<1> HIDE DEF InOrder
<1>9. CASE GateSkips \/ GateFails \/ ExecFails
  <2>1. wrote' = wrote /\ (Over("skipped", <<>>, Done) \/ Over("error", <<>>, Done))
    BY <1>9 DEF GateSkips, GateFails, ExecFails, Failed, BudgetFailed
  <2>2. InOrder("skipped", Done) /\ InOrder("error", Done)
    BY <1>1, <1>7, <1>8
  <2>3. QED
    BY <1>1, <1>5, <1>6, <2>1, <2>2
<1>10. ASSUME NEW o \in Outputs, ParseFails(o) PROVE IInv'
  <2>1. PICK evs \in {<<>>, o.events} : Over("error", evs, Done)
    BY <1>10 DEF ParseFails, Failed
  <2>2. o \in OutputOf /\ evs \in Seq(Events)
    <3>1. o \in OutputOf
      OBVIOUS
    <3>2. o.events \in Seq(Events)
      BY <1>4, <3>1
    <3>3. QED
      BY <1>1, <3>1, <3>2
  <2>3. wrote' = [wrote EXCEPT ![cur] = o]
    BY <1>10 DEF ParseFails
  <2>4. InOrder("error", Done)
    BY <1>1, <1>7, <1>8
  <2>5. QED
    BY <1>1, <1>5, <1>6, <2>1, <2>2, <2>3, <2>4
<1>11. CASE RecordFails
  <2>1. wrote' = wrote /\ Over("skipped", Wrote.events, Done) /\ Wrote.events \in Seq(Events)
    BY <1>3, <1>4, <1>11 DEF RecordFails, BudgetFailed
  <2>2. InOrder("skipped", Done)
    BY <1>1, <1>7, <1>8
  <2>3. QED
    BY <1>1, <1>5, <1>6, <2>1, <2>2
<1>12. CASE ApplyStateFails
  <2>1. PICK n \in 0..(Wrote.keys - 1) : Over("error", Wrote.events, [Done EXCEPT !.keys = n])
    BY <1>12 DEF ApplyStateFails, Failed
  <2>2. wrote' = wrote /\ ~dry /\ Wrote.events \in Seq(Events)
    BY <1>3, <1>4, <1>12 DEF ApplyStateFails
  <2> DEFINE eff == [Done EXCEPT !.keys = n]
  <2>3. eff \in EffectOf /\ eff.queued = 0
    BY <1>1, <1>8, <2>1 DEF EffectOf
  <2>4. InOrder("error", eff)
    BY <1>7, <2>2, <2>3
  <2>5. QED
    BY <1>1, <1>5, <1>6, <2>1, <2>2, <2>4
<1>13. CASE PublishFails
  <2>1. PICK up \in BOOLEAN : /\ up => MustPublish /\ ~dry
                              /\ Over("error", Wrote.events, [Done EXCEPT !.uploaded = up])
    BY <1>13 DEF PublishFails, Failed
  <2>2. wrote' = wrote /\ pc = "publish" /\ Wrote.events \in Seq(Events)
    BY <1>3, <1>4, <1>13 DEF PublishFails
  <2> DEFINE eff == [Done EXCEPT !.uploaded = up]
  <2>3. eff \in EffectOf /\ eff.queued = 0
    BY <1>1, <1>8 DEF EffectOf
  <2>4. ASSUME dry PROVE eff = NoEffect
    <3>1. up = FALSE
      BY <2>1, <2>4
    <3>2. Done = NoEffect
      BY <1>8, <2>4
    <3>3. eff = [logged |-> Done.logged, keys |-> Done.keys, uploaded |-> up,
                 queued |-> Done.queued, recorded |-> Done.recorded]
      BY <1>1 DEF EffectOf
    <3>4. QED
      BY <3>1, <3>2, <3>3 DEF NoEffect
  <2>5. InOrder("error", eff)
    BY <1>7, <2>3, <2>4
  <2>6. QED
    BY <1>1, <1>5, <1>6, <2>1, <2>2, <2>5
\* Only here is anything queued: what the loop left has taken effect by now.
<1>14. ASSUME pc = "queue", wrote' = wrote, NEW q \in 0..Wrote.proposals, dry => q = 0,
              NEW eff, eff = [Done EXCEPT !.queued = q]
       PROVE  /\ eff \in EffectOf
              /\ dry => eff = NoEffect
              /\ ~dry => Complete(cur, wrote'[cur], eff)
              /\ eff.queued = q
  <2>1. eff = [logged |-> cur \in Outbound /\ ~dry /\ Wrote.sent,
               keys |-> IF ~dry THEN Wrote.keys ELSE 0,
               uploaded |-> cur \in Publishes /\ Wrote.artifact /\ ~dry,
               queued |-> q, recorded |-> FALSE]
    <3>1. Done = Expected(dry, cur, Wrote, "queue")
      BY <1>3, <1>14
    <3>2. Done = [logged |-> cur \in Outbound /\ ~dry /\ Wrote.sent,
                  keys |-> IF ~dry THEN Wrote.keys ELSE 0,
                  uploaded |-> cur \in Publishes /\ Wrote.artifact /\ ~dry,
                  queued |-> 0, recorded |-> FALSE]
      BY <3>1 DEF Expected
    <3>3. QED
      BY <1>14, <3>2
  <2>2. q \in Nat /\ Wrote.keys \in Nat /\ Wrote.sent \in BOOLEAN /\ Wrote.artifact \in BOOLEAN
    <3>1. Wrote \in OutputOf
      BY <1>3, <1>14
    <3>2. Wrote.proposals \in Nat /\ Wrote.keys \in Nat /\ Wrote.sent \in BOOLEAN /\ Wrote.artifact \in BOOLEAN
      BY <1>4, <3>1
    <3>3. QED
      BY <1>14, <3>2
  <2>3. eff \in EffectOf /\ eff.queued = q
    BY <2>1, <2>2 DEF EffectOf
  <2>4. dry => eff = NoEffect
    BY <2>1, <1>14 DEF NoEffect
  <2>5. ~dry => Complete(cur, Wrote, eff)
    BY <2>1 DEF Complete
  <2>6. wrote'[cur] = Wrote
    BY <1>14 DEF Wrote
  <2>7. QED
    BY <2>3, <2>4, <2>5, <2>6
<1>15. CASE Enqueue
  <2> DEFINE q == IF dry THEN 0 ELSE Wrote.proposals
             eff == [Done EXCEPT !.queued = q]
  <2>1. wrote' = wrote /\ pc = "queue" /\ Wrote.events \in Seq(Events) /\ Over("ok", Wrote.events, eff)
    BY <1>3, <1>4, <1>15 DEF Enqueue
  <2>2. q \in 0..Wrote.proposals /\ (dry => q = 0)
    <3>1. Wrote \in OutputOf
      BY <1>3, <2>1
    <3>2. Wrote.proposals \in Nat
      BY <1>4, <3>1
    <3>3. QED
      BY <3>2
  <2>3. /\ eff \in EffectOf
        /\ dry => eff = NoEffect
        /\ ~dry => Complete(cur, wrote'[cur], eff)
        /\ eff.queued = q
    BY <1>14, <2>1, <2>2
  <2>4. wrote'[cur] = Wrote
    BY <2>1 DEF Wrote
  <2> HIDE DEF eff
  <2>5. EndedWell(dry, cur, "ok", wrote'[cur], eff)
    BY <2>3, <2>4 DEF EndedWell
  <2>6. InOrder("ok", eff)
    BY <2>2, <2>3, <2>5 DEF InOrder
  <2>7. QED
    BY <1>1, <1>5, <1>6, <2>1, <2>6
<1>16. CASE EnqueueFails
  <2>1. PICK n \in 0..Wrote.proposals : Over("error", Wrote.events, [Done EXCEPT !.queued = n])
    BY <1>16 DEF EnqueueFails, Failed
  <2>2. wrote' = wrote /\ pc = "queue" /\ ~dry /\ Wrote.events \in Seq(Events)
    BY <1>3, <1>4, <1>16 DEF EnqueueFails
  <2> DEFINE eff == [Done EXCEPT !.queued = n]
  <2>3. eff \in EffectOf /\ Complete(cur, wrote'[cur], eff)
    BY <1>14, <2>2
  <2> HIDE DEF eff
  <2>4. InOrder("error", eff)
    BY <2>2, <2>3 DEF InOrder, EndedWell
  <2>5. Over("error", Wrote.events, eff)
    BY <2>1 DEF eff
  <2>6. QED
    BY <1>1, <1>5, <1>6, <2>2, <2>4, <2>5
<1>17. QED
  BY <1>9, <1>10, <1>11, <1>12, <1>13, <1>15, <1>16

\* Records with one field replaced, field by field.
LEMMA EffectWith ==
  ASSUME NEW x \in EffectOf, NEW v
  PROVE  /\ [x EXCEPT !.logged = v] = [logged |-> v, keys |-> x.keys, uploaded |-> x.uploaded,
                                       queued |-> x.queued, recorded |-> x.recorded]
         /\ [x EXCEPT !.keys = v] = [logged |-> x.logged, keys |-> v, uploaded |-> x.uploaded,
                                     queued |-> x.queued, recorded |-> x.recorded]
         /\ [x EXCEPT !.uploaded = v] = [logged |-> x.logged, keys |-> x.keys, uploaded |-> v,
                                         queued |-> x.queued, recorded |-> x.recorded]
  BY DEF EffectOf

LEMMA OutputWith ==
  ASSUME NEW o \in OutputOf, NEW v
  PROVE  [o EXCEPT !.events = v] = [events |-> v, sent |-> o.sent, keys |-> o.keys,
                                    artifact |-> o.artifact, proposals |-> o.proposals]
  BY DEF OutputOf

\* The actions that take the run from one stage to the next.
LEMMA PassingKeeps ==
  ASSUME IInv,
         \/ GatePasses
         \/ (\E o \in Outputs : Exec(o))
         \/ RecordOutbound \/ ApplyState \/ Publish
  PROVE  IInv'
<1> USE FleetAssumption, OutputsAssumption
<1>1. /\ TypeOK /\ StageInv /\ cur \in Loops /\ dry \in BOOLEAN
      /\ wrote \in [Loops -> OutputOf \cup {None}] /\ effect \in [Loops -> EffectOf]
  BY DEF IInv, TypeOK, GatePasses, Exec, RecordOutbound, ApplyState, Publish
<1>0. effect[cur] \in EffectOf
  BY <1>1
<1>2. /\ cur' = cur /\ dry' = dry /\ chained' = chained /\ expired' = expired
      /\ emitted' = emitted
      /\ events' = events /\ ev' = ev /\ pos' = pos /\ visited' = visited /\ done' = done
  BY DEF GatePasses, Exec, RecordOutbound, ApplyState, Publish, command, walk
<1>3. pc \in {"record", "state", "publish", "queue"} =>
        /\ wrote[cur] \in OutputOf /\ wrote[cur] # None
        /\ effect[cur] = Expected(dry, cur, wrote[cur], pc)
  BY <1>1 DEF StageInv, TypeOK
<1>4. OutputOf = [events : Seq(Events), sent : BOOLEAN, keys : Nat, artifact : BOOLEAN,
                  proposals : Nat]
  BY DEF OutputOf
<1>5. CASE GatePasses
  <2>1. pc = "gates" /\ pc' = "exec" /\ wrote' = wrote /\ effect' = effect
    BY <1>5 DEF GatePasses
  <2>2. effect'[cur] = NoEffect
    BY <1>1, <2>1 DEF StageInv
  <2>3. QED
    BY <1>1, <1>2, <2>1, <2>2, MoveKeeps DEF Stages
<1>6. ASSUME NEW o \in Outputs, Exec(o) PROVE IInv'
  <2>1. pc = "exec" /\ pc' = "record" /\ wrote' = [wrote EXCEPT ![cur] = o] /\ effect' = effect
    BY <1>6 DEF Exec
  <2>2. o \in OutputOf /\ wrote' \in [Loops -> OutputOf \cup {None}] /\ wrote'[cur] = o /\ o # None
    BY <1>1, <2>1
  <2>3. effect'[cur] = Expected(dry, cur, o, "record")
    BY <1>1, <2>1 DEF StageInv, Expected, NoEffect
  <2>4. QED
    BY <1>1, <1>2, <2>1, <2>2, <2>3, MoveKeeps DEF Stages
\* An action that takes the effects of the running loop to what the next stage expects.
<1>7. ASSUME NEW st \in {"state", "publish", "queue"}, pc' = st,
             effect' \in [Loops -> EffectOf],
             wrote' \in [Loops -> OutputOf \cup {None}], wrote'[cur] # None,
             \A l \in Loops : l # cur => wrote'[l] = wrote[l] /\ effect'[l] = effect[l],
             effect'[cur] = Expected(dry, cur, wrote'[cur], st)
      PROVE  IInv'
  BY <1>1, <1>2, <1>7, MoveKeeps DEF Stages
<1>8. CASE RecordOutbound
  <2> DEFINE w == wrote[cur]
  <2>1. /\ pc = "record" /\ pc' = "state" /\ wrote' = wrote
        /\ effect' = [effect EXCEPT ![cur] = [effect[cur] EXCEPT !.logged = MustLog]]
    BY <1>1, <1>8 DEF RecordOutbound
  <2>2. effect[cur] = [logged |-> FALSE, keys |-> 0, uploaded |-> FALSE,
                       queued |-> 0, recorded |-> FALSE]
    BY <1>3, <2>1 DEF Expected
  <2>3. effect'[cur] = [logged |-> MustLog, keys |-> 0, uploaded |-> FALSE,
                        queued |-> 0, recorded |-> FALSE]
    <3>1. effect'[cur] = [effect[cur] EXCEPT !.logged = MustLog]
      BY <1>1, <2>1
    <3>2. [effect[cur] EXCEPT !.logged = MustLog] =
            [logged |-> MustLog, keys |-> effect[cur].keys,
             uploaded |-> effect[cur].uploaded, queued |-> effect[cur].queued, recorded |-> effect[cur].recorded]
      BY <1>0, EffectWith
    <3>3. QED
      BY <3>1, <3>2, <2>2
  <2>4. MustLog = (cur \in Outbound /\ ~dry /\ w.sent) /\ MustLog \in BOOLEAN
    BY <1>1, <1>3, <1>4, <2>1 DEF MustLog, Wrote
  <2>5. effect'[cur] = Expected(dry, cur, w, "state")
    BY <2>3, <2>4 DEF Expected
  <2>6. effect' \in [Loops -> EffectOf]
    <3>1. effect'[cur] \in EffectOf
      BY <2>3, <2>4 DEF EffectOf
    <3>2. QED
      BY <1>1, <2>1, <3>1
  <2>7. QED
    BY <1>1, <1>3, <1>7, <2>1, <2>5, <2>6
<1>9. CASE ApplyState
  <2> DEFINE w == wrote[cur]
             n == IF dry THEN 0 ELSE w.keys
  <2>1. /\ pc = "state" /\ pc' = "publish" /\ wrote' = wrote
        /\ effect' = [effect EXCEPT ![cur] = [effect[cur] EXCEPT !.keys = n]]
    BY <1>1, <1>9 DEF ApplyState, Wrote
  <2>2. effect[cur] = [logged |-> cur \in Outbound /\ ~dry /\ w.sent, keys |-> 0,
                       uploaded |-> FALSE, queued |-> 0, recorded |-> FALSE]
    BY <1>3, <2>1 DEF Expected
  <2>3. n \in Nat /\ w.sent \in BOOLEAN
    BY <1>3, <1>4, <2>1
  <2>4. effect'[cur] = [logged |-> cur \in Outbound /\ ~dry /\ w.sent, keys |-> n,
                        uploaded |-> FALSE, queued |-> 0, recorded |-> FALSE]
    <3>1. effect'[cur] = [effect[cur] EXCEPT !.keys = n]
      BY <1>1, <2>1
    <3>2. [effect[cur] EXCEPT !.keys = n] =
            [logged |-> effect[cur].logged, keys |-> n,
             uploaded |-> effect[cur].uploaded, queued |-> effect[cur].queued, recorded |-> effect[cur].recorded]
      BY <1>0, EffectWith
    <3>3. QED
      BY <3>1, <3>2, <2>2
  <2>5. effect'[cur] = Expected(dry, cur, w, "publish")
    BY <2>4 DEF Expected
  <2>6. effect' \in [Loops -> EffectOf]
    <3>1. effect'[cur] \in EffectOf
      BY <1>1, <2>3, <2>4 DEF EffectOf
    <3>2. QED
      BY <1>1, <2>1, <3>1
  <2>7. QED
    BY <1>1, <1>3, <1>7, <2>1, <2>5, <2>6
\* The event of the published artifact is nothing the effects are compared with.
<1>10. CASE Publish
  <2> DEFINE w == wrote[cur]
             evs == IF MustPublish THEN Append(w.events, PublishedEvent) ELSE w.events
             v == [w EXCEPT !.events = evs]
  <2>1. /\ pc = "publish" /\ pc' = "queue"
        /\ effect' = [effect EXCEPT ![cur] = [effect[cur] EXCEPT !.uploaded = MustPublish /\ ~dry]]
    BY <1>1, <1>10 DEF Publish
  <2>2. w \in OutputOf /\ w # None
    BY <1>3, <2>1
  <2>3. /\ w.events \in Seq(Events) /\ w.sent \in BOOLEAN /\ w.keys \in Nat
        /\ w.artifact \in BOOLEAN /\ w.proposals \in Nat
    BY <1>4, <2>2
  <2>4. wrote' = [wrote EXCEPT ![cur] = v]
    <3>1. CASE MustPublish
      BY <1>1, <1>10, <3>1 DEF Publish
    <3>2. CASE ~MustPublish
      <4>1. v = w
        BY <1>4, <2>2, <3>2
      <4>2. QED
        BY <1>1, <1>10, <3>2, <4>1 DEF Publish
    <3>3. QED
      BY <3>1, <3>2
  <2>5. evs \in Seq(Events)
    BY <2>3
  <2>6. v = [events |-> evs, sent |-> w.sent, keys |-> w.keys, artifact |-> w.artifact,
             proposals |-> w.proposals]
    <3>1. \A o \in OutputOf : [o EXCEPT !.events = evs] =
            [events |-> evs, sent |-> o.sent, keys |-> o.keys, artifact |-> o.artifact,
             proposals |-> o.proposals]
      BY OutputWith
    <3>2. QED
      BY <2>2, <3>1
  <2>7. /\ v \in OutputOf /\ v.sent = w.sent /\ v.keys = w.keys /\ v.artifact = w.artifact
    BY <1>4, <2>3, <2>5, <2>6
  <2>8. effect[cur] = [logged |-> cur \in Outbound /\ ~dry /\ w.sent,
                       keys |-> IF ~dry THEN w.keys ELSE 0,
                       uploaded |-> FALSE, queued |-> 0, recorded |-> FALSE]
    BY <1>3, <2>1 DEF Expected
  <2>9. MustPublish = (cur \in Publishes /\ w.artifact) /\ MustPublish \in BOOLEAN
    BY <2>3 DEF MustPublish, Wrote
  <2> HIDE DEF v, evs
  <2>10. effect'[cur] = [logged |-> cur \in Outbound /\ ~dry /\ w.sent,
                         keys |-> IF ~dry THEN w.keys ELSE 0,
                         uploaded |-> MustPublish /\ ~dry, queued |-> 0, recorded |-> FALSE]
    <3>1. effect'[cur] = [effect[cur] EXCEPT !.uploaded = (MustPublish /\ ~dry)]
      BY <1>1, <2>1
    <3>2. [effect[cur] EXCEPT !.uploaded = (MustPublish /\ ~dry)] =
            [logged |-> effect[cur].logged, keys |-> effect[cur].keys,
             uploaded |-> (MustPublish /\ ~dry), queued |-> effect[cur].queued, recorded |-> effect[cur].recorded]
      BY <1>0, EffectWith
    <3>3. QED
      BY <3>1, <3>2, <2>8
  <2>11. effect'[cur] = Expected(dry, cur, v, "queue")
    BY <2>7, <2>9, <2>10 DEF Expected
  <2>12. effect' \in [Loops -> EffectOf]
    <3>1. effect'[cur] \in EffectOf
      BY <2>3, <2>9, <2>10, <1>1 DEF EffectOf
    <3>2. QED
      BY <1>1, <2>1, <3>1
  <2>13. /\ wrote' \in [Loops -> OutputOf \cup {None}] /\ wrote'[cur] = v /\ v # None
         /\ \A l \in Loops : l # cur => wrote'[l] = wrote[l] /\ effect'[l] = effect[l]
    BY <1>1, <2>1, <2>4, <2>7
  <2>14. QED
    BY <1>1, <1>7, <2>1, <2>11, <2>12, <2>13
<1>11. QED
  BY <1>5, <1>6, <1>8, <1>9, <1>10

-----------------------------------------------------------------------------

\* The invariant holds in every state of every chain (runChainFromLoop,
\* runChainFromEvent with runner.Run inside).
THEOREM Inductive == Spec => []IInv
<1>1. Init => IInv
  BY InitInv
<1>2. IInv /\ [Next]_vars => IInv'
  <2> SUFFICES ASSUME IInv, [Next]_vars PROVE IInv'
    OBVIOUS
  <2>1. CASE Start \/ Walk \/ Expire
    BY <2>1, WalkKeeps
  <2>2. CASE RunLoop
    BY <2>2, EndingKeeps, PassingKeeps DEF RunLoop, RunSteps, LoopReturns
  <2>3. CASE UNCHANGED vars
    BY <2>3 DEF vars, walk, command, IInv, TypeOK, StageInv, VisitInv, DoneInv, Runs,
                ProposalsComeLast, DryRunTouchesNothing
  <2>4. QED
    BY <2>1, <2>2, <2>3 DEF Next
<1>3. QED
  BY <1>1, <1>2, PTL DEF Spec

\* Everything keeps its type, and a loop is running exactly inside runner.Run.
THEOREM TypeCorrect == Spec => []TypeOK
<1>1. IInv => TypeOK
  BY DEF IInv
<1>2. QED
  BY <1>1, Inductive, PTL

\* runEventBFS: no loop runs twice in one chain, however the events lead back to it.
THEOREM RunsOnce == Spec => []OncePerChain
<1>1. IInv => OncePerChain
  BY DEF IInv, VisitInv, OncePerChain
<1>2. QED
  BY <1>1, Inductive, PTL

\* runner.Run: a run reported ok has stored, counted, uploaded and queued everything
\* its loop left, whichever step of it or of another run failed.
THEOREM OkIsDone == Spec => []OkMeansDone
<1>1. IInv => OkMeansDone
  BY DEF IInv, DoneInv, EndedWell, OkMeansDone
<1>2. QED
  BY <1>1, Inductive, PTL

\* runner.Run: nothing is put before a human unless the rest of the run took effect.
THEOREM HumanComesLast == Spec => []ProposalsComeLast
<1>1. IInv => ProposalsComeLast
  BY DEF IInv, DoneInv
<1>2. QED
  BY <1>1, Inductive, PTL

\* --dry-run: no run of the chain leaves anything behind.
THEOREM DryIsDry == Spec => []DryRunTouchesNothing
<1>1. IInv => DryRunTouchesNothing
  BY DEF IInv, DoneInv
<1>2. QED
  BY <1>1, Inductive, PTL

-----------------------------------------------------------------------------
(* What is heard, and who hears it                                            *)

\* Every event of the queue has a cause, and so has the loop that runs because of
\* one: the runs that are over are the only sources.
HeardInv ==
  /\ pc = "begin" => emitted = None
  /\ emitted # None => events # <<>>
  /\ \A n \in 1..Len(events) : Heard(Len(done) + 1, events[n])
  /\ cur # None /\ (done # <<>> \/ emitted # None) => \E e \in On[cur] : Heard(Len(done) + 1, e)
  /\ RunsAreCaused

Met(l) == l \in visited \cup {cur}

\* Why EveryListenerRan is inductive: the events before ev are done with, and of the
\* loops up to pos none is left that listens to ev itself; events are only ever
\* appended, so an event that is added late is met with pos at 0.
WalkInv ==
  /\ pc = "begin" => events = <<>> /\ done = <<>>
  /\ \A n \in 1..(ev - 1), l \in Loops : events[n] \in On[l] => Met(l)
  /\ ev <= Len(events) => \A m \in 1..pos : events[ev] \in On[Order[m]] => Met(Order[m])
  /\ ev > Len(events) => pos = 0
  /\ pc = "end" /\ chained /\ ~expired => ev > Len(events)

\* The run of cur ends with status st and emitted evs (runOneLoop).
EndsWith(st, evs) ==
  /\ cur \in Loops
  /\ done' = Append(done, [loop |-> cur, status |-> st, events |-> evs, followed |-> Followed(st)])
  /\ visited' = visited \cup {cur}
  /\ events' = IF Followed(st) THEN events \o evs ELSE events
  /\ cur' = None
  /\ pc' = IF chained THEN "walk" ELSE "end"
  /\ UNCHANGED <<chained, emitted, expired, ev, pos>>

\* The run of cur goes on.
GoesOn ==
  /\ cur \in Loops /\ pc' \in Stages
  /\ UNCHANGED <<chained, emitted, expired, cur, events, ev, pos, visited, done>>

LEMMA RunCases ==
  ASSUME IInv, RunLoop
  PROVE  GoesOn \/ \E st \in Statuses, evs \in Seq(Events) : EndsWith(st, evs)
<1> USE OutputsAssumption
<1>1. /\ TypeOK /\ cur \in Loops
      /\ pc \in {"record", "state", "publish", "queue"} => Wrote.events \in Seq(Events)
  BY DEF IInv, TypeOK, OutputOf, Wrote, RunLoop, RunSteps, LoopReturns, GateSkips, GateFails, GatePasses,
         ExecFails, Exec, ParseFails, RecordOutbound, RecordFails, ApplyState,
         ApplyStateFails, Publish, PublishFails, Enqueue, EnqueueFails
<1> DEFINE Cases == GoesOn \/ \E st \in Statuses, evs \in Seq(Events) : EndsWith(st, evs)
<1>2. ASSUME NEW st \in Statuses, NEW evs \in Seq(Events), NEW eff, Over(st, evs, eff)
      PROVE  Cases
  BY <1>1, <1>2 DEF Over, EndsWith, command
<1>3. CASE GatePasses \/ RecordOutbound \/ ApplyState \/ Publish \/ \E o \in Outputs : Exec(o)
  BY <1>1, <1>3 DEF GatePasses, RecordOutbound, ApplyState, Publish, Exec, GoesOn, Stages,
         command, walk
<1>4. CASE GateSkips \/ GateFails \/ ExecFails
  <2>1. \E st \in Statuses : Over(st, <<>>, Done)
    BY <1>4 DEF GateSkips, GateFails, ExecFails, Failed, BudgetFailed, Statuses
  <2>2. <<>> \in Seq(Events)
    OBVIOUS
  <2> QED BY <1>2, <2>1, <2>2
<1>5. ASSUME NEW o \in Outputs, ParseFails(o) PROVE Cases
  <2>1. o.events \in Seq(Events) /\ <<>> \in Seq(Events) /\ "error" \in Statuses
    BY DEF OutputOf, Statuses
  <2>2. PICK evs \in {<<>>, o.events} : Over("error", evs, Done)
    BY <1>5 DEF ParseFails, Failed
  <2> QED BY <1>2, <2>1, <2>2
<1>6. CASE RecordFails \/ ApplyStateFails \/ PublishFails \/ Enqueue \/ EnqueueFails
  <2>1. \E st \in Statuses : \E eff : Over(st, Wrote.events, eff)
    BY <1>6 DEF RecordFails, ApplyStateFails, PublishFails, Enqueue, EnqueueFails, Failed,
           BudgetFailed, Statuses
  <2>2. Wrote.events \in Seq(Events)
    BY <1>1, <1>6 DEF RecordFails, ApplyStateFails, PublishFails, Enqueue, EnqueueFails
  <2> QED BY <1>2, <2>1, <2>2
<1> QED BY <1>3, <1>4, <1>5, <1>6 DEF RunLoop, RunSteps, LoopReturns

\* The events that are waiting, and the runs that are over, after the run of cur.
LEMMA Extended ==
  ASSUME TypeOK, NEW st \in Statuses, NEW evs \in Seq(Events), EndsWith(st, evs)
  PROVE  /\ Len(events) \in Nat /\ Len(done) \in Nat
         /\ Len(done') = Len(done) + 1
         /\ \A k \in 1..Len(done) : done'[k] = done[k]
         /\ LET r == done'[Len(done) + 1]
            IN  r.loop = cur /\ r.status = st /\ r.events = evs
         /\ Len(events') >= Len(events) /\ Len(events') \in Nat
         /\ \A n \in 1..Len(events) : events'[n] = events[n]
         /\ \A n \in 1..Len(events') :
              n > Len(events) => /\ Followed(st)
                                 /\ \E i \in 1..Len(evs) : evs[i] = events'[n]
<1> DEFINE r == [loop |-> cur, status |-> st, events |-> evs, followed |-> Followed(st)]
<1>1. events \in Seq(Events) /\ Len(events) \in Nat /\ Len(evs) \in Nat /\ Len(done) \in Nat
  BY DEF TypeOK
<1>2. /\ done' = Append(done, r) /\ r.loop = cur /\ r.status = st /\ r.events = evs
      /\ done \in Seq([loop : Loops, status : Statuses, events : Seq(Events), followed : BOOLEAN])
      /\ r \in [loop : Loops, status : Statuses, events : Seq(Events), followed : BOOLEAN]
  BY DEF EndsWith, TypeOK, Followed, First
<1>3. /\ Len(done') = Len(done) + 1
      /\ \A k \in 1..Len(done) : done'[k] = done[k]
      /\ done'[Len(done) + 1] = r
  <2> HIDE DEF r
  <2> QED BY <1>2, AppendProperties
<1>4. CASE ~Followed(st)
  <2>1. events' = events
    BY <1>4 DEF EndsWith
  <2> QED BY <1>1, <1>2, <1>3, <2>1
<1>5. CASE Followed(st)
  <2>1. events' = events \o evs
    BY <1>5 DEF EndsWith
  <2>2. /\ Len(events') = Len(events) + Len(evs)
        /\ \A i \in 1..(Len(events) + Len(evs)) :
             events'[i] = IF i <= Len(events) THEN events[i] ELSE evs[i - Len(events)]
    BY <1>1, <2>1, ConcatProperties
  <2>3. \A n \in 1..Len(events') :
          n > Len(events) => \E i \in 1..Len(evs) : evs[i] = events'[n]
    <3> SUFFICES ASSUME NEW n \in 1..Len(events'), n > Len(events)
                 PROVE  \E i \in 1..Len(evs) : evs[i] = events'[n]
      OBVIOUS
    <3>1. n - Len(events) \in 1..Len(evs) /\ evs[n - Len(events)] = events'[n]
      BY <1>1, <2>2
    <3> QED BY <3>1
  <2>4. /\ Len(events') >= Len(events) /\ Len(events') \in Nat
        /\ \A n \in 1..Len(events) : events'[n] = events[n]
    BY <1>1, <2>2
  <2>5. LET q == done'[Len(done) + 1] IN q.loop = cur /\ q.status = st /\ q.events = evs
    BY <1>2, <1>3
  <2> HIDE DEF r
  <2> QED BY <1>1, <1>3, <1>5, <2>3, <2>4, <2>5
<1> QED BY <1>4, <1>5

\* A cause remains a cause.
LEMMA StillHeard ==
  ASSUME TypeOK, NEW st \in Statuses, NEW evs \in Seq(Events), EndsWith(st, evs),
         NEW k \in Nat, k <= Len(done) + 1, NEW e, Heard(k, e),
         NEW later \in Nat, k <= later
  PROVE  Heard(later, e)'
<1>0. emitted' = emitted
  BY DEF EndsWith
<1>1. CASE e = emitted
  BY <1>0, <1>1 DEF Heard
<1>2. ASSUME NEW j \in 1..(k - 1), Asked(j) \/ done[j].status = "ok",
             NEW n \in 1..Len(done[j].events), done[j].events[n] = e
      PROVE  Heard(later, e)'
  <2>1. j \in 1..Len(done) /\ j \in 1..(later - 1)
    BY Extended
  <2>2. done'[j] = done[j]
    BY <2>1, Extended
  <2> QED BY <1>0, <1>2, <2>1, <2>2 DEF Heard, Asked
<1> QED BY <1>1, <1>2 DEF Heard

LEMMA HeardStep ==
  ASSUME IInv, HeardInv, WalkInv, [Next]_vars
  PROVE  HeardInv'
<1>1. TypeOK /\ Len(events) \in Nat /\ Len(done) \in Nat
  BY DEF IInv, TypeOK
<1>2. ASSUME UNCHANGED <<emitted, events, done, cur>>, pc' # "begin" \/ pc' = pc PROVE HeardInv'
  BY <1>2 DEF HeardInv, Heard, Asked, RunsAreCaused, Runs
<1>3. ASSUME NEW l \in Loops, NEW chain \in BOOLEAN, CmdRun(l, chain) PROVE HeardInv'
  <2>1. done' = <<>> /\ events' = <<>> /\ emitted' = None
    BY <1>3 DEF CmdRun, HeardInv, WalkInv, walk
  <2> QED BY <2>1 DEF HeardInv, RunsAreCaused, Runs
<1>4. ASSUME NEW e \in Events, CmdEmit(e) PROVE HeardInv'
  <2>1. /\ done' = <<>> /\ events' = <<e>> /\ emitted' = e /\ cur' = None
        /\ pc' = "walk"
    BY <1>4 DEF CmdEmit, WalkInv, IInv, StageInv, Stages
  <2> QED BY <2>1 DEF HeardInv, Heard, RunsAreCaused, Runs
<1>5. ASSUME NEW n \in 1..Len(Order), RunListener(n) PROVE HeardInv'
  <2>1. /\ cur' = Order[n] /\ UNCHANGED <<events, done, emitted>> /\ pc' = "gates"
        /\ ev \in 1..Len(events) /\ events[ev] \in On[Order[n]]
    BY <1>1, <1>5 DEF RunListener, AtEvent, Listeners, Listens, TypeOK, command
  <2>2. Heard(Len(done) + 1, events[ev])
    BY <2>1 DEF HeardInv
  <2>3. \A k, e : Heard(k, e)' <=> Heard(k, e)
    BY <2>1 DEF Heard, Asked
  <2>4. RunsAreCaused'
    BY <2>1 DEF HeardInv, RunsAreCaused, Runs, Heard, Asked
  <2> QED BY <2>1, <2>2, <2>3, <2>4 DEF HeardInv
<1>6. ASSUME NEW st \in Statuses, NEW evs \in Seq(Events), EndsWith(st, evs) PROVE HeardInv'
  <2> PICK new \in Nat : new = Len(done) + 1
    BY <1>1
  <2>0. cur # None /\ cur' = None /\ emitted' = emitted /\ pc' # "begin"
    BY <1>6, OutputsAssumption DEF EndsWith
  <2>1. /\ Len(done') = new /\ new \in Nat
        /\ done'[new].loop = cur /\ done'[new].status = st /\ done'[new].events = evs
        /\ \A k \in 1..Len(done) : done'[k] = done[k]
    BY <1>1, <1>6, Extended
  <2>2. ASSUME NEW n \in 1..Len(events'), NEW e, e = events'[n]
        PROVE  Heard(new + 1, e)'
    <3>1. CASE n <= Len(events)
      <4>1. n \in 1..Len(events) /\ events[n] = e
        BY <1>1, <1>6, <2>2, <3>1, Extended
      <4>2. Heard(new, e)
        BY <4>1 DEF HeardInv
      <4> QED BY <1>1, <1>6, <4>2, StillHeard
    <3>2. CASE n > Len(events)
      <4>1. Followed(st) /\ \E i \in 1..Len(evs) : evs[i] = e
        BY <1>1, <1>6, <2>2, <3>2, Extended
      <4>2. (new = 1 /\ emitted = None) \/ st = "ok"
        BY <1>1, <4>1 DEF Followed, First, HeardInv
      <4> QED BY <2>0, <2>1, <4>1, <4>2 DEF Heard, Asked
    <3> QED BY <1>1, <2>1, <2>2, <3>1, <3>2, Extended
  <2>3. ASSUME NEW k \in 1..new, ~Asked(k) PROVE \E e \in On[done'[k].loop] : Heard(k, e)'
    <3>1. CASE k \in 1..Len(done)
      <4>1. PICK e \in On[done[k].loop] : Heard(k, e)
        BY <2>3, <3>1 DEF HeardInv, RunsAreCaused, Runs
      <4>2. Heard(k, e)'
        BY <1>1, <1>6, <3>1, <4>1, StillHeard
      <4> QED BY <2>1, <3>1, <4>1, <4>2
    <3>2. CASE k = new
      <4>1. PICK e \in On[cur] : Heard(new, e)
        BY <1>1, <2>0, <2>3, <3>2 DEF HeardInv, Asked
      <4>2. new \in Nat /\ new <= Len(done) + 1
        BY <1>1
      <4>3. Heard(new, e)'
        BY <1>1, <1>6, <4>1, <4>2, StillHeard
      <4> QED BY <2>1, <3>2, <4>1, <4>3
    <3> QED BY <1>1, <2>3, <3>1, <3>2
  <2>4. RunsAreCaused'
    BY <2>0, <2>1, <2>3 DEF RunsAreCaused, Runs, Heard, Asked
  <2>5. (\A n \in 1..Len(events) : Heard(Len(done) + 1, events[n]))'
    <3>1. Len(done') + 1 = new + 1
      BY <1>1, <2>1
    <3> QED BY <2>2, <3>1 DEF Heard
  <2>6. emitted # None => events' # <<>>
    <3>1. Len(events') >= Len(events)
      BY <1>1, <1>6, Extended
    <3> QED BY <1>1, <3>1 DEF HeardInv
  <2> QED BY <2>0, <2>4, <2>5, <2>6 DEF HeardInv
<1>7. ASSUME RunLoop PROVE HeardInv'
  BY <1>2, <1>6, <1>7, RunCases DEF GoesOn, Stages
<1>8. ASSUME NextEvent \/ EndWalk \/ Expire \/ UNCHANGED vars PROVE HeardInv'
  BY <1>2, <1>8 DEF NextEvent, EndWalk, Expire, vars, walk, command
<1> QED BY <1>3, <1>4, <1>5, <1>7, <1>8 DEF Next, Start, Walk

LEMMA WalkStep ==
  ASSUME IInv, WalkInv, [Next]_vars
  PROVE  WalkInv'
<1>1. /\ TypeOK /\ StageInv /\ Len(events) \in Nat /\ Len(done) \in Nat /\ ev \in Nat
      /\ Len(Order) \in Nat /\ ev >= 1 /\ pos \in 0..Len(Order)
  BY FleetAssumption DEF IInv, TypeOK
<1>2. ASSUME UNCHANGED <<events, done, ev, pos, visited, chained>>, pc' # "begin",
             cur = None \/ cur' = cur,
             pc' = "end" /\ chained /\ ~expired' => ev > Len(events)
      PROVE  WalkInv'
  <2>1. \A l \in Loops : Met(l) => Met(l)'
    BY <1>2, OutputsAssumption DEF Met
  <2>2. \A m \in 1..pos : Order[m] \in Loops
    BY <1>1 DEF Loops
  <2> QED BY <1>2, <2>1, <2>2 DEF WalkInv
<1>3. ASSUME NEW l \in Loops, NEW chain \in BOOLEAN, CmdRun(l, chain) PROVE WalkInv'
  <2>1. /\ events' = <<>> /\ done' = <<>> /\ ev' = 1 /\ pos' = 0 /\ pc' = "gates"
    BY <1>1, <1>3 DEF CmdRun, WalkInv, walk, IInv, VisitInv
  <2> QED BY <2>1 DEF WalkInv
<1>4. ASSUME NEW e \in Events, CmdEmit(e) PROVE WalkInv'
  <2>1. /\ events' = <<e>> /\ done' = <<>> /\ ev' = 1 /\ pos' = 0 /\ pc' = "walk"
    BY <1>1, <1>4 DEF CmdEmit, WalkInv, IInv, VisitInv
  <2> QED BY <2>1 DEF WalkInv
<1>5. ASSUME NEW n \in 1..Len(Order), RunListener(n) PROVE WalkInv'
  <2>1. /\ cur' = Order[n] /\ pos' = n /\ pc' = "gates" /\ ev <= Len(events)
        /\ UNCHANGED <<events, done, ev, visited>>
        /\ n \in Listeners /\ \A m \in Listeners : n <= m
    BY <1>5 DEF RunListener, AtEvent
  <2>2. cur = None
    BY <1>1, <1>5 DEF RunListener, AtEvent, StageInv, Stages
  <2>3. \A l \in Loops : Met(l) => Met(l)'
    BY <2>1, <2>2, OutputsAssumption DEF Met
  <2>4. ASSUME NEW m \in 1..n, events[ev] \in On[Order[m]] PROVE Met(Order[m])'
    <3>1. Order[m] \in Loops /\ m \in 1..Len(Order)
      BY <1>1 DEF Loops
    <3>2. CASE m <= pos
      BY <1>1, <2>1, <2>3, <2>4, <3>1, <3>2 DEF WalkInv
    <3>3. CASE m = n
      BY <2>1, <3>3 DEF Met
    <3>4. CASE m > pos /\ m < n
      <4>1. m \notin Listeners /\ m \in (pos + 1)..Len(Order)
        BY <1>1, <2>1, <3>1, <3>4
      <4>2. Order[m] \in visited
        BY <2>4, <4>1 DEF Listeners, Listens
      <4> QED BY <2>1, <4>2 DEF Met
    <3> QED BY <1>1, <3>2, <3>3, <3>4
  <2>5. \A k \in 1..(ev' - 1), l \in Loops : events'[k] \in On[l] => Met(l)'
    BY <2>1, <2>3 DEF WalkInv
  <2>6. \A m \in 1..pos' : events'[ev'] \in On[Order[m]] => Met(Order[m])'
    BY <2>1, <2>4
  <2>7. ~(ev' > Len(events')) /\ pc' \notin {"begin", "end"}
    BY <1>1, <2>1
  <2> QED BY <2>5, <2>6, <2>7 DEF WalkInv
<1>6. CASE NextEvent
  <2>1. /\ UNCHANGED <<events, done, cur, visited, pc>> /\ pc = "walk" /\ ev <= Len(events)
        /\ ev' = ev + 1 /\ pos' = 0 /\ Listeners = {}
    BY <1>6 DEF NextEvent, AtEvent
  <2>2. ASSUME NEW l \in Loops, events[ev] \in On[l] PROVE Met(l)
    <3>1. PICK m \in 1..Len(Order) : Order[m] = l
      BY DEF Loops
    <3>2. CASE m <= pos
      BY <1>1, <2>1, <2>2, <3>1, <3>2 DEF WalkInv
    <3>3. CASE m > pos
      <4>1. m \in (pos + 1)..Len(Order)
        BY <1>1, <3>3
      <4>2. l \in visited
        BY <2>1, <2>2, <3>1, <4>1 DEF Listeners, Listens
      <4> QED BY <4>2 DEF Met
    <3> QED BY <1>1, <3>2, <3>3
  <2>3. \A n \in 1..(ev' - 1), l \in Loops : events[n] \in On[l] => Met(l)
    BY <1>1, <2>1, <2>2 DEF WalkInv
  <2> QED BY <1>1, <2>1, <2>3 DEF WalkInv, Met
<1>7. ASSUME NEW st \in Statuses, NEW evs \in Seq(Events), EndsWith(st, evs) PROVE WalkInv'
  <2>1. /\ pc' # "begin" /\ (pc' = "end" => ~chained')
        /\ ev' = ev /\ pos' = pos
    BY <1>7 DEF EndsWith
  <2>2. \A l \in Loops : Met(l) => Met(l)'
    BY <1>7 DEF EndsWith, Met
  <2>3. /\ Len(events') >= Len(events) /\ Len(events') \in Nat
        /\ \A n \in 1..Len(events) : events'[n] = events[n]
    BY <1>1, <1>7, Extended
  <2>4. ev - 1 <= Len(events)
    BY <1>1 DEF TypeOK
  <2>5. \A n \in 1..(ev - 1), l \in Loops : events'[n] \in On[l] => Met(l)'
    BY <1>1, <2>2, <2>3, <2>4 DEF WalkInv
  <2>6. \A m \in 1..Len(Order) : Order[m] \in Loops
    BY DEF Loops
  <2>7. CASE ev <= Len(events)
    <3>1. events'[ev'] = events[ev] /\ \A m \in 1..pos : Order[m] \in Loops
      BY <1>1, <2>1, <2>3, <2>6, <2>7
    <3>2. \A m \in 1..pos' : events'[ev'] \in On[Order[m]] => Met(Order[m])'
      BY <2>1, <2>2, <2>7, <3>1 DEF WalkInv
    <3>3. ~(ev' > Len(events'))
      BY <1>1, <2>1, <2>3, <2>7
    <3> QED BY <2>1, <2>5, <3>2, <3>3 DEF WalkInv
  <2>8. CASE ev > Len(events)
    <3>1. pos' = 0
      BY <2>1, <2>8 DEF WalkInv
    <3>2. 1..pos' = {}
      BY <3>1
    <3> QED BY <2>1, <2>5, <3>1, <3>2 DEF WalkInv
  <2> QED BY <1>1, <2>7, <2>8
<1>8. ASSUME RunLoop PROVE WalkInv'
  BY <1>2, <1>7, <1>8, RunCases DEF GoesOn, Stages
<1>9. CASE EndWalk
  BY <1>1, <1>2, <1>9 DEF EndWalk, walk, command
<1>10. CASE Expire
  BY <1>10 DEF Expire, walk, command, WalkInv, Met
<1>11. CASE UNCHANGED vars
  BY <1>11 DEF vars, walk, command, WalkInv, Met
<1> QED BY <1>3, <1>4, <1>5, <1>6, <1>8, <1>9, <1>10, <1>11 DEF Next, Start, Walk

LEMMA HearingInductive == Spec => [](HeardInv /\ WalkInv)
<1>1. Init => HeardInv /\ WalkInv
  BY DEF Init, HeardInv, WalkInv, RunsAreCaused, Runs
<1>2. IInv /\ (HeardInv /\ WalkInv) /\ [Next]_vars => (HeardInv /\ WalkInv)'
  BY HeardStep, WalkStep
<1> QED BY <1>1, <1>2, Inductive, PTL DEF Spec

\* runEventBFS: whatever runs after the first loop was asked for, by an event that
\* the command, the first loop or a listener that ended well had emitted before.
THEOREM RunsHaveCauses == Spec => []RunsAreCaused
<1>1. HeardInv => RunsAreCaused
  BY DEF HeardInv
<1> QED BY <1>1, HearingInductive, PTL

\* runEventBFS: a chain that reached its end in time has left out no loop that
\* listens to an event emitted along it.
THEOREM ListenersRan == Spec => []EveryListenerRan
<1>1. IInv /\ WalkInv => EveryListenerRan
  <2> SUFFICES ASSUME IInv, WalkInv, pc = "end", chained, ~expired,
                      NEW n \in 1..Len(events), NEW l \in Loops, events[n] \in On[l]
               PROVE  l \in visited
    BY DEF EveryListenerRan
  <2>1. n \in 1..(ev - 1) /\ cur = None
    BY DEF IInv, TypeOK, StageInv, Stages, WalkInv
  <2> QED BY <2>1, OutputsAssumption DEF WalkInv, Met
<1> QED BY <1>1, Inductive, HearingInductive, PTL
=============================================================================
