------------------------------- MODULE Deploy -------------------------------
(***************************************************************************)
(* A machine that fleets are deployed on: the unit commands of Units and   *)
(* the self-updates of Update are runs of the same program file, which has *)
(* to be there for a command to start.  A command that has started keeps   *)
(* the program it started with; a restart of the machine ends all of them. *)
(***************************************************************************)
EXTENDS Units, Update

CONSTANT MaxMinutes \* bound: the intervals for which the triggers are compared
ASSUME DeployAssumption == MaxMinutes \in Nat

vars == <<unitVars, updateVars>>

Init == UnitsInit /\ UpdateInit

\* MaxCommands bounds the commands of both kinds together.
Updates == Cardinality({p \in Updaters : upc[p] # "idle"})
InBound == commands + Updates < MaxCommands
Start(f) == exe # Gone /\ InBound /\ (BeginInstall(f) \/ BeginUninstall(f))

\* Every update dies with the machine, at whatever step it is; what it wrote is on disk.
Running == {p \in Updaters :
              upc[p] \notin {"idle", "ok", "current", "failed", "dead"}}
Restart ==
  /\ Reboot
  /\ upc' = [p \in Updaters |-> IF p \in Running THEN "dead" ELSE upc[p]]
  /\ UNCHANGED <<exe, candidate, backup, local, manifest>>

Next ==
  \/ /\ \/ \E f \in Fleets : Start(f) \/ Edit(f)
        \/ Command \/ Kill
     /\ UNCHANGED updateVars
  \/ /\ \E p \in Updaters : \/ UpdateStep(p) /\ (upc[p] = "idle" => InBound)
                            \/ Die(p) \/ Restore(p)
     /\ UNCHANGED unitVars
  \/ Restart

Spec == Init /\ [][Next]_vars

-----------------------------------------------------------------------------
\* Every interval has a trigger that stands for it, which for one over a day means
\* no more than that it is daily (systemd.go:283-325), and an
\* install that reports success leaves that in the timer.  The first part has
\* no variable in it and is asked once, before the first command.
TimersKeepTime ==
  /\ commands + Updates = 0 =>
       \A t \in 1..MaxMinutes : \A secs \in {60 * t - 31, 60 * t - 30, 60 * t} :
         StandsFor(intervalTrigger(secs), secs)
  /\ Just("install") =>
       \A l \in Range(cmd.loops) : l.schedule[1] = "every" =>
         StandsFor(files[Timer(cmd.f, l)], l.schedule[2])
=============================================================================
