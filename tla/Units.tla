-------------------------------- MODULE Units --------------------------------
(***************************************************************************)
(* fleet install and fleet uninstall (cmd/fleet/install.go over            *)
(* internal/systemd): the unit files of the fleets of a machine, which of  *)
(* them systemd has enabled and active, and what is left when a write, a   *)
(* systemctl call or the machine fails half way.  One command runs at a    *)
(* time, and fleet.yml may change between two.                             *)
(*                                                                         *)
(* A name is the sequence of the words between its dashes, so that a unit  *)
(* name is its fleet's name followed by its loop's, and a fleet whose name *)
(* begins with another's is one that fleet's prefix matches too.           *)
(***************************************************************************)
EXTENDS Integers, FiniteSetsExt, SequencesExt

CONSTANTS
  Words,      \* what names are made of
  Fleets,     \* fleet names
  Yamls,      \* bound: Yamls[f], the loop lists that f's fleet.yml may hold
  MaxCommands \* bound: how many commands are run

\* A schedule is none, one that does not parse, a minute of the day, or an
\* interval in seconds.
None == <<"none", 0>>
Bad == <<"bad", 0>>
Schedules == {None, Bad} \cup ({"daily", "every"} \X Nat)

Loops == [name : Seq(Words), mode : {"oneshot", "daemon"}, schedule : Schedules, on : BOOLEAN]

\* Validate, as far as units go: every loop has a name, names differ, and a
\* daemon has no schedule.
Validate(ls) ==
  /\ \A i, j \in DOMAIN ls : ls[i].name = ls[j].name => i = j
  /\ \A i \in DOMAIN ls : /\ ls[i].name # <<>>
                          /\ ls[i].mode = "daemon" => ls[i].schedule = None

ASSUME UnitsAssumption ==
  /\ MaxCommands \in Nat
  /\ Fleets \subseteq Seq(Words)
  /\ \A f \in Fleets : \A ls \in Yamls[f] : ls \in Seq(Loops) /\ Validate(ls)

-----------------------------------------------------------------------------
\* The next divisor of period from n on.
snapDivisor(n, period) == Min({i \in Max({n, 1})..period : period % i = 0} \cup {period})

\* Seeded fault: what divides nothing is not rounded up.
intervalTriggerUnsnapped(secs) ==
  LET mins == Max({(secs + 30) \div 60, 1})
  IN IF mins < 60 THEN <<"minutes", mins>> ELSE <<"hours", (mins + 30) \div 60>>

\* A repeating interval as a calendar expression: at every so many minutes of
\* each hour, or at every so many hours of each day.
intervalTrigger(secs) ==
  LET mins == Max({(secs + 30) \div 60, 1})
      step == snapDivisor(mins, 60)
  IN IF mins < 60 /\ step < 60
     THEN <<"minutes", step>>
     ELSE <<"hours", snapDivisor((Max({mins, 60}) + 30) \div 60, 24)>>

renderTimerTrigger(s) == IF s[1] = "every" THEN intervalTrigger(s[2]) ELSE s

\* What a trigger owes the interval it stands for: a gap that divides the hour
\* or the day, so that it is the same all day long; for an interval of up to a
\* day, one that is never shorter than it beyond the rounding to a minute (and
\* from an hour on, to an hour), nor longer than the next such gap.  Any longer
\* interval becomes a day, and its loop runs more often than it asks for.
EvenGaps == {m \in 1..30 : 60 % m = 0} \cup {60 * h : h \in {h \in 1..24 : 24 % h = 0}}
Day == 24 * 3600
Gap(t) == IF t[1] = "minutes" THEN t[2] ELSE 60 * t[2]
StandsFor(t, secs) ==
  /\ Gap(t) \in EvenGaps
  /\ IF secs <= Day THEN 60 * Gap(t) >= secs - (IF secs < 3570 THEN 30 ELSE 1800)
                    ELSE 60 * Gap(t) = Day
  /\ \A g \in EvenGaps : g < Gap(t) => 60 * g < secs + 30

-----------------------------------------------------------------------------
unitName(f, l) == f \o l.name
Service(f, l) == [name |-> unitName(f, l), kind |-> "service"]
Timer(f, l) == [name |-> unitName(f, l), kind |-> "timer"]
AllLoops(f) == UNION {Range(ls) : ls \in Yamls[f]}
AllUnits == UNION {UNION {{Service(f, l), Timer(f, l)} : l \in AllLoops(f)} : f \in Fleets}

HasUnits(l) == l.schedule # None \/ l.on \/ l.mode = "daemon"
\* What a service file says: which loop of which fleet to run, and how.
renderService(f, l) == <<f, l.name, l.mode>>
\* The unit that enableUnits enables for a loop.
Wanted(f, l) == IF l.mode = "daemon" THEN Service(f, l) ELSE Timer(f, l)
IsWanted(l) == l.mode = "daemon" \/ l.schedule # None

VARIABLES
  yaml,     \* yaml[f]: the loops in f's fleet.yml
  files,    \* files[u]: what the unit file holds, <<>> when there is none
  enabled,  \* units with a link in a *.wants directory
  active,   \* timers that are waiting and daemons that run
  cmd,      \* the command that runs, or ran last
  commands  \* how many were run

unitVars == <<yaml, files, enabled, active, cmd, commands>>
onDisk == <<files, enabled, active>>

Piece == <<"piece">>
Present == {u \in AllUnits : files[u] # <<>>}
\* strings.HasPrefix(name, "fleet-" + f + "-")
Matches(f) == {u \in AllUnits : Len(u.name) > Len(f) /\ IsPrefix(f, u.name)}

\* A command's record: loops, and which of them it is at, are an install's, left and slips (what it
\* failed to stop, disable or remove) an uninstall's.  fresh says that there was
\* no trace of the fleet, or for an uninstall none without its unit file.
Idle == [op |-> "", f |-> <<>>, pc |-> "ok", loops |-> <<>>, at |-> 1,
         left |-> {}, fresh |-> FALSE, start |-> FALSE, slips |-> {}]
Ended == cmd.pc \in {"ok", "failed"}

\* The state has its type, and the services that systemd starts by itself are
\* daemons: a oneshot loop runs when its timer says so (install.go:107-132).
UnitsTypeOK ==
  /\ DOMAIN yaml = Fleets /\ \A f \in Fleets : yaml[f] \in Yamls[f]
  /\ DOMAIN files = AllUnits
  /\ enabled \subseteq AllUnits /\ active \subseteq AllUnits
  /\ \A u \in enabled \cup active : u.kind = "service" =>
       \E f \in Fleets : \E l \in AllLoops(f) : u = Service(f, l) /\ l.mode = "daemon"
  /\ cmd.pc \in {"ok", "failed", "service", "timer", "enable", "silence", "remove"}
  /\ cmd.left \subseteq AllUnits /\ cmd.slips \subseteq AllUnits
  /\ commands \in 0..MaxCommands

UnitsInit ==
  /\ yaml \in {y \in [Fleets -> UNION {Yamls[f] : f \in Fleets}] :
                 \A f \in Fleets : y[f] \in Yamls[f]}
  /\ files = [u \in AllUnits |-> <<>>] /\ enabled = {} /\ active = {}
  /\ cmd = Idle /\ commands = 0

-----------------------------------------------------------------------------
\* Somebody edits fleet.yml, between two commands: a command reads it once, when
\* it begins, so that a change under it is one after it.
Edit(f) ==
  /\ Ended
  /\ yaml' \in {[yaml EXCEPT ![f] = ls] : ls \in Yamls[f] \ {yaml[f]}}
  /\ UNCHANGED <<onDisk, cmd, commands>>
Begin(op, f, c) ==
  /\ Ended /\ commands < MaxCommands
  /\ commands' = commands + 1
  /\ cmd' = [c EXCEPT !.op = op, !.f = f]
  /\ UNCHANGED <<yaml, onDisk>>

\* cmdInstall, once fleet.yml is loaded; an install that is refused because it
\* is not valid or the fleet has a .disabled file changes nothing and is no step.
BeginInstall(f) ==
  \E start \in BOOLEAN :
    Begin("install", f,
      [Idle EXCEPT !.pc = "service", !.loops = yaml[f], !.start = start,
                   !.fresh = Matches(f) \cap (Present \cup enabled \cup active) = {}])

Failed == [Idle EXCEPT !.op = cmd.op, !.f = cmd.f, !.pc = "failed"]
Fails == cmd' = Failed /\ UNCHANGED onDisk

\* os.WriteFile, which empties the file first: what fails, or is killed, may
\* leave a piece of it.
Writes(u, content, next) ==
  /\ \/ files' = [files EXCEPT ![u] = content] /\ cmd' = next
     \/ files' \in {files, [files EXCEPT ![u] = Piece]} /\ cmd' = Failed
  /\ UNCHANGED <<enabled, active>>

\* The loops are walked twice, to write the units and to enable them; what a
\* walk has nothing to do for it passes over.
ThisLoop == cmd.loops[cmd.at]
AtLoop == cmd.at <= Len(cmd.loops)
NextLoop == [cmd EXCEPT !.at = @ + 1]
PassOver == cmd' = NextLoop /\ UNCHANGED onDisk

\* Seeded fault: a service file that cannot be written is left out.
WriteServiceOrGoOn ==
  /\ cmd.pc = "service" /\ AtLoop
  /\ \/ ~HasUnits(ThisLoop) /\ PassOver
     \/ /\ HasUnits(ThisLoop)
        /\ files' \in {files, [files EXCEPT ![Service(cmd.f, ThisLoop)]
                                        = renderService(cmd.f, ThisLoop)]}
        /\ cmd' = IF ThisLoop.schedule = None THEN NextLoop ELSE [cmd EXCEPT !.pc = "timer"]
        /\ UNCHANGED <<enabled, active>>
  /\ UNCHANGED <<yaml, commands>>

WriteService ==
  /\ cmd.pc = "service" /\ AtLoop
  /\ \/ ~HasUnits(ThisLoop) /\ PassOver
     \/ /\ HasUnits(ThisLoop)
        /\ Writes(Service(cmd.f, ThisLoop), renderService(cmd.f, ThisLoop),
                  IF ThisLoop.schedule = None THEN NextLoop ELSE [cmd EXCEPT !.pc = "timer"])
  /\ UNCHANGED <<yaml, commands>>

\* A schedule that does not parse is found out here and not by Validate.
WriteTimer ==
  /\ cmd.pc = "timer"
  /\ \/ ThisLoop.schedule = Bad /\ Fails
     \/ /\ ThisLoop.schedule # Bad
        /\ Writes(Timer(cmd.f, ThisLoop), renderTimerTrigger(ThisLoop.schedule),
                  [NextLoop EXCEPT !.pc = "service"])
  /\ UNCHANGED <<yaml, commands>>

\* systemctl daemon-reload, on whose failure nothing is enabled.
Reload ==
  /\ cmd.pc = "service" /\ ~AtLoop
  /\ \/ /\ cmd' = [cmd EXCEPT !.pc = "enable", !.at = 1]
        /\ UNCHANGED onDisk
     \/ Fails
  /\ UNCHANGED <<yaml, commands>>

\* Seeded fault: a unit that cannot be enabled is left out.
EnableOrGoOn ==
  /\ cmd.pc = "enable" /\ AtLoop
  /\ enabled' \in {enabled, enabled \cup {Wanted(cmd.f, l) : l \in {l \in {ThisLoop} : IsWanted(l)}}}
  /\ cmd' = NextLoop
  /\ UNCHANGED <<yaml, files, active, commands>>

\* systemctl enable, which refuses a unit without a file, and start, whose
\* failure is ignored.
EnableOne ==
  /\ cmd.pc = "enable" /\ AtLoop
  /\ LET u == Wanted(cmd.f, ThisLoop) IN
     \/ ~IsWanted(ThisLoop) /\ PassOver
     \/ /\ IsWanted(ThisLoop) /\ files[u] # <<>>
        /\ enabled' = enabled \cup {u}
        /\ active' \in {active, IF cmd.start THEN active \cup {u} ELSE active}
        /\ cmd' = NextLoop
        /\ UNCHANGED files
     \/ IsWanted(ThisLoop) /\ Fails
  /\ UNCHANGED <<yaml, commands>>

\* The unit files that a successful install reports.
UnitPaths(f, ls) ==
  UNION {{Service(f, l)} \cup (IF l.schedule = None THEN {} ELSE {Timer(f, l)}) :
           l \in {l \in Range(ls) : HasUnits(l)}}

Installed ==
  /\ cmd.pc = "enable" /\ ~AtLoop
  /\ cmd' = [cmd EXCEPT !.pc = "ok"]
  /\ UNCHANGED <<yaml, onDisk, commands>>

-----------------------------------------------------------------------------
\* cmdUninstall takes the name it is given and reads no fleet.yml.  When the
\* directory cannot be listed, there is nothing to stop or disable.
BeginUninstall(f) ==
  LET there == Matches(f) \cap Present IN
  \E seen \in {there, {}} :
    Begin("uninstall", f,
      [Idle EXCEPT !.pc = "silence", !.left = seen, !.slips = there \ seen,
                   !.fresh = Matches(f) \cap (enabled \cup active) \subseteq there])

\* What systemctl stop, and disable --now, may leave of the units they act on.
MayDrop(units, u) == {units, units \ {u}}

\* stop, then disable --now; the command goes on whatever they answer.
Silence ==
  /\ cmd.pc = "silence"
  /\ \E u \in cmd.left :
       /\ enabled' \in MayDrop(enabled, u)
       /\ active' \in MayDrop(active, u)
       /\ cmd' = [cmd EXCEPT !.left = @ \ {u},
                             !.slips = @ \cup ({u} \cap (enabled' \cup active'))]
  /\ UNCHANGED <<yaml, files, commands>>

\* Seeded fault: the files go first, before their units are stopped.
RemoveUnsilenced ==
  /\ cmd.pc = "silence"
  /\ cmd' = [cmd EXCEPT !.pc = "remove", !.left = Matches(cmd.f) \cap Present]
  /\ UNCHANGED <<yaml, onDisk, commands>>

\* The directory is listed again, and this time that has to work.
ReadAgain ==
  /\ cmd.pc = "silence" /\ cmd.left = {}
  /\ cmd' \in {[cmd EXCEPT !.pc = "remove", !.left = Matches(cmd.f) \cap Present], Failed}
  /\ UNCHANGED <<yaml, onDisk, commands>>

RemoveOne ==
  /\ cmd.pc = "remove"
  /\ \E u \in cmd.left :
       \/ /\ files' = [files EXCEPT ![u] = <<>>]
          /\ cmd' = [cmd EXCEPT !.left = @ \ {u}]
       \/ /\ cmd' = [cmd EXCEPT !.left = @ \ {u}, !.slips = @ \cup {u}]
          /\ UNCHANGED files
  /\ UNCHANGED <<yaml, enabled, active, commands>>

Uninstalled ==
  /\ cmd.pc = "remove" /\ cmd.left = {}
  /\ cmd' \in {[cmd EXCEPT !.pc = "ok"], Failed}
  /\ UNCHANGED <<yaml, onDisk, commands>>

-----------------------------------------------------------------------------
\* The command is killed, or the machine restarts and systemd starts what is
\* enabled.
Kill ==
  /\ ~Ended
  /\ cmd' = Failed
  /\ UNCHANGED <<yaml, onDisk, commands>>
Reboot ==
  /\ cmd' = IF Ended THEN Idle ELSE Failed
  /\ active' = {u \in enabled \cap Present : files[u] # Piece}
  /\ UNCHANGED <<yaml, files, enabled, commands>>

Command == \/ WriteService \/ WriteTimer \/ Reload \/ EnableOne \/ Installed
           \/ Silence \/ ReadAgain \/ RemoveOne \/ Uninstalled

-----------------------------------------------------------------------------
Just(op) == cmd.op = op /\ cmd.pc = "ok"

\* An install that reports success has every loop of the fleet.yml it read
\* scheduled as that says: the timer is there, holds the loop's trigger and is
\* enabled, the service runs the loop, and where it began from nothing, there
\* is no other unit of the fleet (install.go:59-67, UnitPaths).
InstallIsExact ==
  UnitsTypeOK /\ (Just("install") =>
    LET ls == Range(cmd.loops)
        wanted == {Wanted(cmd.f, l) : l \in {l \in ls : IsWanted(l)}}
    IN /\ \A l \in {l \in ls : HasUnits(l)} :
            /\ files[Service(cmd.f, l)] = renderService(cmd.f, l)
            /\ l.schedule # None => files[Timer(cmd.f, l)] = renderTimerTrigger(l.schedule)
       /\ wanted \subseteq enabled
       /\ cmd.fresh =>
            /\ enabled \cap Matches(cmd.f) = wanted
            /\ Present \cap Matches(cmd.f) = UnitPaths(cmd.f, cmd.loops))

\* An uninstall that reports success leaves no unit of the fleet in place,
\* enabled or running, except where a systemctl call or a removal failed and
\* the command went on, or a unit had lost its file before (systemd.go:66-90).
UninstallSilences ==
  Just("uninstall") =>
    /\ Matches(cmd.f) \cap Present \subseteq cmd.slips
    /\ cmd.fresh => Matches(cmd.f) \cap (enabled \cup active) \subseteq cmd.slips

\* A unit is enabled only when every unit file of its fleet has been written as
\* the fleet.yml says, so that a bad schedule in one loop starts none of the
\* others (install.go:59-65).
NothingHalfInstalled ==
  [][\A u \in enabled' \ enabled :
       /\ cmd.op = "install" /\ u \in Matches(cmd.f)
       /\ \A l \in Range(cmd.loops) :
            /\ l.schedule # Bad
            /\ HasUnits(l) => files[Service(cmd.f, l)] = renderService(cmd.f, l)
            /\ l.schedule # None =>
                 files[Timer(cmd.f, l)] = renderTimerTrigger(l.schedule)]_unitVars
=============================================================================
