------------------------------ MODULE Outbound -------------------------------
(***************************************************************************)
(* The outbound budget: runs of outbound loops, each in a process of its   *)
(* own, read the outbound_log key of the state file and decide whether the *)
(* loop may run; what the loop sent is added to the log when it is over    *)
(* (internal/budget/budget.go, internal/runner/runner.go).  Get and Update *)
(* of the store are atomic (Store.tla); between them anything may happen,  *)
(* and time passes.                                                        *)
(***************************************************************************)
EXTENDS Sequences, Naturals, FiniteSets

CONSTANTS
  Procs,       \* concurrent runs of outbound loops
  Second, Minute, Hour, Day, Retain,   \* in ticks of the clock; Retain is 25 hours
  PerDay, PerHour,         \* outbound_per_day and outbound_per_hour, 0 for no limit
  QuietStart, QuietEnd,    \* quiet_hours, in minutes since midnight
  MaxSend,     \* bound: what one run of a loop sends
  LastTick     \* bound: how long the clock runs

ASSUME ClockAssumption ==
  /\ {Second, Minute, Hour, Day, Retain} \subseteq Nat \ {0}
  /\ Hour <= Day /\ Day <= Retain
  /\ {PerDay, PerHour, MaxSend, LastTick} \subseteq Nat /\ IsFiniteSet(Procs)
  /\ Day % Minute = 0 /\ Hour % Second = 0
  /\ {QuietStart, QuietEnd} \subseteq 0..(Day \div Minute - 1)

VARIABLES
  now,
  stamps,   \* stamps[n]: the time that the n-th entry ever recorded was given
  left,     \* left[n]: when the action behind it really left
  log,      \* outbound_log: the entries it has
  phase,    \* phase[p]: how far p is in runner.Run
  seen,     \* seen[p]: the entries p has read
  out       \* out[p]: when p's loop sent what it sent

outboundVars == <<now, stamps, left, log, phase, seen, out>>

-----------------------------------------------------------------------------
(* budget.go                                                                  *)

MinutesPerDay == Day \div Minute
MinuteOf(t) == (t \div Minute) % MinutesPerDay

\* Seeded fault: a window across midnight is taken for an empty one.
QuietSameDay(t) == QuietStart <= MinuteOf(t) /\ MinuteOf(t) < QuietEnd

QuietHours(t) ==
  LET cur == MinuteOf(t)
  IN  \/ QuietStart < QuietEnd /\ QuietStart <= cur /\ cur < QuietEnd
      \/ QuietStart > QuietEnd /\ (QuietStart <= cur \/ cur < QuietEnd)

\* t.After(now - window), with nothing below zero.
Within(t, window, at) == t + window > at

CountSince(l, window, at) == Cardinality({n \in l : Within(stamps[n], window, at)})

\* Seeded fault: at the limit one more run is let through.
CheckLate(l, at) ==
  /\ ~QuietHours(at)
  /\ PerHour > 0 => CountSince(l, Hour, at) <= PerHour
  /\ PerDay > 0 => CountSince(l, Day, at) <= PerDay

Check(l, at) ==
  /\ ~QuietHours(at)
  /\ PerHour > 0 => CountSince(l, Hour, at) < PerHour
  /\ PerDay > 0 => CountSince(l, Day, at) < PerDay

\* Times are stored as RFC 3339, in whole seconds.
Encode(t) == (t \div Second) * Second

Added(n) == stamps \o [k \in 1..n |-> Encode(now)]
Grown(n) == log \cup ((Len(stamps) + 1)..(Len(stamps) + n))

\* Seeded fault: the log is pruned to the last hour, not to the last day.
RecordHour(n) == {k \in Grown(n) : Within(Added(n)[k], Hour, now)}

Record(n) == {k \in Grown(n) : Within(Added(n)[k], Retain, now)}

-----------------------------------------------------------------------------

OutboundInit ==
  /\ now = 0
  /\ stamps = <<>> /\ left = <<>> /\ log = {}
  /\ phase = [p \in Procs |-> "idle"]
  /\ seen = [p \in Procs |-> {}]
  /\ out = [p \in Procs |-> <<>>]

Pass ==
  /\ now < LastTick
  /\ now' = now + 1
  /\ UNCHANGED <<stamps, left, log, phase, seen, out>>

Get(p) ==
  /\ phase[p] = "idle"
  /\ seen' = [seen EXCEPT ![p] = log]
  /\ phase' = [phase EXCEPT ![p] = "check"]
  /\ UNCHANGED <<now, stamps, left, log, out>>

Forget(p) ==
  /\ phase' = [phase EXCEPT ![p] = "idle"]
  /\ seen' = [seen EXCEPT ![p] = {}]
  /\ out' = [out EXCEPT ![p] = <<>>]

\* The loop is executed, or skipped.
Allow(p) ==
  /\ phase[p] = "check" /\ Check(seen[p], now)
  /\ phase' = [phase EXCEPT ![p] = "runs"]
  /\ seen' = [seen EXCEPT ![p] = {}]
  /\ UNCHANGED <<now, stamps, left, log, out>>

Skip(p) ==
  /\ phase[p] = "check" /\ ~Check(seen[p], now)
  /\ Forget(p)
  /\ UNCHANGED <<now, stamps, left, log>>

\* The loop, which the runner does not watch.
Send(p) ==
  /\ phase[p] = "runs" /\ Len(out[p]) < MaxSend
  /\ out' = [out EXCEPT ![p] = Append(@, now)]
  /\ UNCHANGED <<now, stamps, left, log, phase, seen>>

\* The loop is over and reports what it sent, and that is added to the log as it is
\* now, in one critical section.
Finish(p) ==
  /\ phase[p] = "runs"
  /\ LET sent == Len(out[p])
     IN  IF sent = 0 THEN UNCHANGED <<stamps, left, log>>
         ELSE /\ stamps' = Added(sent) /\ left' = left \o out[p]
              /\ log' = Record(sent)
  /\ Forget(p)
  /\ UNCHANGED now

\* The loop exits nonzero, its outputs do not parse, the log cannot be written or
\* the process dies: whatever was sent is not in the log.
GiveUp(p) ==
  /\ phase[p] \in {"check", "runs"}
  /\ Forget(p)
  /\ UNCHANGED <<now, stamps, left, log>>

RunStep(p) == Get(p) \/ Allow(p) \/ Skip(p) \/ Send(p) \/ Finish(p) \/ GiveUp(p)

OutboundNext == Pass \/ \E p \in Procs : RunStep(p)

OutboundSpec == OutboundInit /\ [][OutboundNext]_outboundVars

-----------------------------------------------------------------------------
(* Properties *)

Times == Seq(0..LastTick)
Entries == 1..Len(stamps)

OutboundTypeOK ==
  /\ now \in 0..LastTick
  /\ stamps \in Times /\ left \in Times /\ Len(left) = Len(stamps)
  /\ log \subseteq Entries
  /\ phase \in [Procs -> {"idle", "check", "runs"}]
  /\ seen \in [Procs -> SUBSET Entries] /\ out \in [Procs -> Times]
  /\ \A p \in Procs : Len(out[p]) <= MaxSend /\ (out[p] # <<>> => phase[p] = "runs")

\* What was dropped from the log can never matter to a decision again, now or
\* later (budget.go:24-26).
PruningIsInvisible ==
  /\ OutboundTypeOK
  /\ \A at \in now..LastTick : Check(log, at) <=> Check(Entries, at)

\* The actions of a window, by when they really left: what was recorded, and what
\* runs that are not over have sent.  A failed run's are not among them.
Recorded(window, at) == {n \in Entries : Within(left[n], window, at)}
UnderWay(window) ==
  {s \in Procs \X (1..MaxSend) :
     s[2] <= Len(out[s[1]]) /\ Within(out[s[1]][s[2]], window, now)}
Left(window) == Cardinality(Recorded(window, now)) + Cardinality(UnderWay(window))

Overshoot == Cardinality(Procs) * MaxSend

\* However the runs overlap, what leaves in any day, and in any hour, exceeds the
\* budget by less than what the runs that overlap can send between them.  The
\* window is a second short: a stored time is up to a second older than the
\* action.
BudgetHolds ==
  /\ PerDay > 0 => Left(Day - Second) < PerDay + Overshoot
  /\ PerHour > 0 => Left(Hour - Second) < PerHour + Overshoot

\* No outbound loop is started in quiet hours, which may span midnight: the
\* minutes are counted forward from their start.
QuietMinutes ==
  {(QuietStart + k) % MinutesPerDay :
     k \in {k \in 0..(MinutesPerDay - 1) :
              k < (QuietEnd + MinutesPerDay - QuietStart) % MinutesPerDay}}

QuietIsQuiet ==
  [][\A p \in Procs : phase[p] = "check" /\ phase'[p] = "runs" => MinuteOf(now) \notin QuietMinutes]_outboundVars

\* "at most five a day" (budget.go:3-8).  This does not hold, not even without
\* overlap; BudgetHolds is what does (README, section 6).
CapKept == PerDay > 0 => Left(Day) <= PerDay
=============================================================================
