# fleet-cli: a TLA+ verification project

`fleet` is a small Go binary that runs *loops* (executables declared in
`fleet.yml`), keeps a JSON state file and a proposal queue per fleet, gates
outbound loops on budgets and machine pressure, lets a human approve outbound
proposals (on the command line or by tapping a relais link), and chains loops
through events. Every `fleet ...` invocation is its own operating-system
process; systemd timers, loops that shell back into `fleet`, and a human at a
terminal start them concurrently. There is no server: the only shared state is
files, and two remote services (relais inboxes, the hart artifact store).

Line numbers refer to the repository's sources under `src/`.

## 1. Inventory

| Component | Source | State it keeps | Operations |
|---|---|---|---|
| State store | `internal/state/state.go` | `<fleet>.json` (a map), `<fleet>.json.lock`, `<fleet>.json.tmp`; each process's in-memory copy | `Open` (with migration of legacy `runs`), `Get`, `All`, `Set`, `Append`, `Update` |
| Run log | `internal/state/state.go` | `<fleet>-runs.jsonl` | `RunRecord` (append, then size-triggered `compactRuns`), `Runs`, `RunCount`, `migrateRunsLocked` |
| Proposal queue | `internal/hitl/hitl.go` | `<fleet>-proposals.jsonl`, `.tmp` | `Add`, `List`, `UpdateStatus`, `SetRelais`, `SetDraft`/`SetBody`, `Redraft`, `Drafts`, `Approved` |
| Queue commands | `cmd/fleet/main.go` | none of their own | `draft fill`, `redraft`, `approve`, `reject`, `dispatched`, `relais-poll`, `state`, `status`, `queue` |
| Relais | `internal/relais/*.go` | `relais_tokens` in the state file, relais metadata on the queue row, messages in remote inboxes | `Attach`, `SetToken`, `GetToken`, `PollQueue`, `NewInbox`, `Messages`, `DeleteMessages` |
| Outbound budget | `internal/budget/budget.go` | `outbound_log` in the state file | `Check`, `Record`, `QuietHours`, `Decode`, `Encode` |
| Runner | `internal/runner/runner.go` | the run directory; effects on store, queue, hart | `Run`: pressure, budget, exec, parse, record, apply state, publish, queue, cost |
| Chain | `cmd/fleet/run.go`, `emit.go` | visited set, event list | `runOneLoop`, `runChainFromLoop`, `runChainFromEvent`, `runEventBFS`, `status` |
| Pressure gate | `internal/pressure/pressure.go` | none | `Check`, `psiPaths`, `FromEnv` |
| Hart publisher | `internal/hart/hart.go` | remote artifact | `Publish` (retry on 429, deadline), `verifyGated` |
| Self-update | `cmd/fleet/update.go` | the executable, its `.bak-*`, `.fleet-update-*` | `cmdUpdate` |
| systemd units | `internal/systemd/systemd.go`, `cmd/fleet/install.go` | unit files, enablement | `Install`, `Uninstall`, `enableUnits`, `intervalTrigger`, `snapDivisor` |
| Config | `internal/config/config.go` | none | `Load`, `Validate`, `TimeoutDuration`, `NextRun` |
| CLI surface | `cmd/fleet/guide.go`, `feedback.go`, `errors.go`, `main.go` | none | help, guide, feedback, init |
| Shell guard | `bin/fleet-guard` | none | a one-shot resource check |

### How they interact

* `cmdRun` -> `runChainFromLoop` -> `runOneLoop` -> `runner.Run` -> store, queue,
  relais, hart; then `RunRecord`; then the listeners of the emitted events.
* `runner.Run` reads the budget log *before* it executes the loop and records
  what was sent *after* it; it calls `Queue.Add` and then `relais.Attach` for
  every proposal, including one `Add` refused as a duplicate.
* `relais.Attach` makes a network call, then `SetToken` (a `Get` followed by a
  `Set` of the whole token map), then `SetRelais`.
* `relais-poll` lists pending proposals once, then for each makes a network call
  of up to 30 s and applies the decision with `UpdateStatus`, which checks
  nothing about the row it overwrites.
* `approve` lists, checks the body, then calls `UpdateStatus`.
* Store mutations are serialised across processes by `flock`; queue mutations
  only by a `sync.Mutex`, which other processes do not see.

### What is hard, and what makes each component correct

* **Store.** Read-modify-write from several processes, crashes between writing
  the temporary file and renaming it, lock release by process death. Correct
  when every completed mutation takes effect exactly once, atomically, on the
  current file, and touches no other key.
* **Run log.** Appends happen outside the lock that compaction and migration
  hold. Correct when the newest records survive and migration loses nothing.
* **Queue.** A proposal's text must be settled before a human sees it and must
  not change afterwards; a sent proposal must never look unsent; a re-emitted
  proposal must not appear twice; all of this while decisions arrive late and
  from several processes.
* **Relais.** Decisions travel through an inbox and arrive after arbitrary
  delay; links can be rotated; polling has a wall-clock budget.
* **Budget.** Check-then-act over a window; what was sent must be counted.
* **Runner and chain.** Partial failure between effects; each loop at most once
  per chain; a failed step must stop what depends on it.
* **Hart.** Publishers that share a rate-limited window retry against the deadline
  of their own loop. Correct when no wait outlives that deadline, and a publisher
  that gives up had no slot to get.
* **Update.** Two renames without a lock between processes. Correct when a program
  that passed its checks is in place, or can be moved back, after any crash.
* **systemd.** Many small calls, most of whose failures are dropped. Correct when
  a command that reports success left the units as `fleet.yml` says, a failed one
  started nothing half written, and a timer keeps the time it was asked for.

## 2. Plan

The modules, in the order in which they were written.

| Module | Kind | Composes | Runs | Proofs |
|---|---|---|---|---|
| `HitlQueue` | abstract specification: each queue method is atomic | - | (through `approval` and `queuefile`) | `ApprovalProofs` |
| `Approval` | every command around a proposal, as processes | `HitlQueue` (calls its actions) | `approval`, `approval_live`, `approval_redraft` | `ApprovalProofs` |
| `KV` | abstract specification: an atomic map | - | (through `store`) | (through `StoreProofs`) |
| `Store` | the state file with lock, temporary file, errors, crashes | implements `KV` | `store` | `StoreProofs` |
| `QueueFile` | the JSONL file with its appends and rewrites | implements `HitlQueue` for processes that do not overlap | `queuefile`, `queuefile_marks` | `QueueFileProofs` |
| `RunLog` | run log: append, trim, migrate | - | `runlog` | `RunLogProofs` |
| `Outbound` | the budget as overlapping runs use it | - | `outbound` | `OutwardProofs` |
| `Chain` | `fleet run` / `fleet emit` and `runner.Run` | - | `chain` | `ChainProofs` |
| `RelaisPoll` | the time a poll has for its list | - | `relaispoll` | `RelaisPollProofs` |
| `HartPublish` | publishers that share hart's window | - | `hart` | `OutwardProofs` |
| `Units` | `fleet install`, `fleet uninstall`, and the calendar triggers | - | (through `deploy`) | `DeployProofs` |
| `Update` | concurrent `fleet update` processes | - | (through `deploy`) | `DeployProofs` |
| `Deploy` | one machine: unit commands, updates, restarts | `Units`, `Update` | `deploy` | `DeployProofs` |

Every safety property of a passing run is stated by a theorem. `OutwardProofs` is
about two modules that have no step in common but the same kind of argument, who
was counted when.

## 3. The modules and the code

Each definition's lines are listed in `PROJECT.json` under `map`. Definitions
whose comment starts with "Seeded fault" are not part of any next-state
relation: each is a way the code could have been wrong, used to make sure that
the property in question notices.

### HitlQueue

`queue[id]` is the row of the JSONL file with that id: its status, body, relais
link (inbox and nonce in one), approver, and whether `dispatched_at` is set. One
action per method of `hitl.Queue`. `UpdateStatus` overwrites whatever status is
there, as the code does (hitl.go:144-175); only `SetDraft` and `Redraft` check.
Body hashes, reasons, subjects and times are left out: nothing reads them.

### Approval

One process per `fleet run` (`Runs`), per `relais-poll` (`Pollers`), per
`fleet approve` (`Clis`), one sender, and the human. A step is one queue or
store method or one request to relais; a process may die between any two.

| Actor | Actions | Code |
|---|---|---|
| run | `RunAdd`, `AttachMint`, `SetToken`, `AttachLink`, `AttachFails`, `RunCrash` | runner.go:232-257, attach.go, store.go |
| poll | `PollList`, `PollFetch`, `PollError`, `PollStop`, `PollApply`, `PollClear`, `PollCrash` | poll.go:61-158 |
| approve | `ApproveCheck`, `ApproveApply`, `CliCrash` | main.go:528-550 |
| human | `Show`, `TapLink`, `CliReject`, `CliRedraft`, `DraftFill` | main.go, relais (external) |
| sender | `SendPick`, `Send`, `Mark`, `SendCrash` | main.go:412-460, the loop (external) |

What a process read stays with it (`run[r].snap`, `poll[p].work`, `cli[c]`), so
it may be stale when it is used. `shown`, `taps`, `sent`, `lost`, `redrafted`,
`final` and `halfway` are history the properties compare with. That each step is
one method of `HitlQueue` is how the actions are written, and no property of its own. There is one sender, as the
repository's documents describe it; two senders would send twice with nothing
in the code to stop them.

### KV and Store

`KV` is what the state file promises: every call takes effect once, at one
moment, on its own key, or not at all. `Store` has the file, the shared
temporary name, the two modes of the `flock`, and each process's copy in
memory. A mutation goes `want -> locked -> loaded -> applied -> created ->
written -> renamed`, may fail at every step, and its process may die at every
step. `KVSpec` is `KV`'s specification under the mapping: the map is the file,
and `Phase` says how far a call has got as far as its caller can tell.
A `Get` goes `want -> locked -> fresh -> got`: it unlocks (`Unlock`) before it
reads its answer from memory, so that others may rename in between; for `KV` it
takes effect when it reloads. One whose reload fails (`kept`, `stale`) answers from
the memory it had (state.go:196); `KV` counts it as a call that failed. `since` is
history: the values a `Get`'s key has had since the call began.

### QueueFile

Names (`path`, `tmp`) that lead to inodes, since a rename under an open file
leaves its writer on an inode no name leads to. A row is one `write(2)`
(`writeAllLocked` writes with one unbuffered `Fprintf` per row), so writes of two
processes interleave line by line; when they write the same inode at different
offsets, `Written` gives every outcome: a line in the middle of another, past
the end, over part of a longer one (`Scrap`). A write that stops part way leaves a
`Torn` line, or the whole row without its newline (`ends` is false), which readers
take (`splitLines`, hitl.go:345) and the next append continues: the two are then
one line that does not parse (`Appended`). A line that is cut short inside what
another process has written there is taken not to parse, although two rows of just
the right lengths could join into one. `HitlQueue` is instantiated with
the rows read from the file, so its actions and properties apply as they are.
`Parsed` is what `readAllLocked` returns: the lines that parse, in order, written
with an increasing enumeration of their numbers because that can be reasoned
about. `LinesAssumption` says that `Torn` and `Scrap` are no rows, `RoomAssumption`
that there are more inodes than names and open files.

### RunLog

`RunRecord` appends to an open file without the lock that `compactRuns` and
`migrateRunsLocked` hold; both rewrite the log through a temporary file and a
rename. `stale` is who has the log open under a name that now leads elsewhere.
Whether the log is too big is a free choice after every append, because size
depends on the output of the runs.

### Outbound

`Get`, `Allow` or `Skip` (with the time of the check, which is later than the
read), `Send` any number of times while the loop runs, `Finish` with one atomic
`Update`, or `GiveUp`, which counts nothing. Time passes between any two (`Pass`).
Entries are numbered as they are recorded: `log` is the set of those that the state
file still has, `seen[p]` of those that a run has read, and `stamps` gives each its
time, cut to seconds on the way to the log (RFC 3339). `Record` prunes at 25
hours. `left` is when the action behind each entry really left, so that the budget
can be held against what happened as well as against what was recorded.

### Chain

`runner.Run` as one action per stage (`gates`, `exec`, `record`, `state`,
`publish`, `queue`), each with its failure, and `runEventBFS` around it:
`events` is the list that is appended to while it is walked, `ev` and `pos` are
the two loop variables, and `emitted` is the event that `fleet emit` was given. The
loop itself (`LoopReturns`) is apart from what the command does around it
(`RunSteps`), because nobody promises that it returns. Pressure, the budget and the loop itself are free
choices; `effect[l]` is what took effect, `wrote[l]` what the loop left.

### RelaisPoll

`PollQueue` in time. `list` is what `q.List` returned, oldest first, `todo` what
is left of it, `left` the time until the deadline, `timeout` what `client.HTTP` is
set to. `Ask` computes the share (poll.go:99-106), `Answer`, `NoAnswer` and
`Clear` spend any part of it. `DeleteMessages` runs under the same timeout, but
nobody looks at the clock before it. Any request may fail, whether its inbox is
gone, slower than its share or fails now and then; `failed` remembers for whom it
did. `Approval` is about what is done with an answer; here an answer is a tap or
none.

### HartPublish

One process per run that publishes. A `POST` is one step (`Accept`,
`RateLimited`, `RequestFails`); a 429 leads to `Exhausted`, `TooLate` or a wait, in
the order of hart.go:117-141, and a wait to the next `POST`. `Overdue` ends what
outlives its context, and time does not pass before it has. hart's window and
whether it sends `Retry-After` are outside the repository. `verifyGated` follows
an accepted artifact that is private. `Elapsed[n]` is the sum of the first n delays,
given with the recurrence that makes it one (`ScheduleAssumption`).

### Units, Update and Deploy

`Units` has the unit files (`files`, with `Piece` for one that was cut short),
the links in `*.wants` (`enabled`), what runs (`active`), and one command at a
time with its place in the code: an install writes file by file (`WriteService`,
`WriteTimer`), reloads and enables unit by unit; an uninstall stops and disables
what its prefix matches (`Silence`), lists again and removes. Fleet and loop
names are sequences of the words between their dashes, so that `Matches` is the
prefix of systemd.go:66. Both walks of an install go by the place in the list
(`cmd.at`) and pass over loops that get no unit (systemd.go:34, install.go:105).
`intervalTrigger` and `snapDivisor` are translated as they
are. The random delay, the text of a unit and `linger` are left out.

`Update` has the program's file, and for each process its candidate, its backup,
what it hashed and what its manifest said; a build is its hash. Every step of
`cmdUpdate` may fail, and `failCode` exits the process, so that a candidate stays
(update.go:97). `Restore` is the operator the error message sends for, and
waits until no update is between its renames.

`Deploy` puts both on a machine: no command starts while the program is away,
and a restart ends every process and starts what is enabled.

## 4. The runs

All are exhaustive. Properties are stated, with the code they are about, in the
modules; sizes are distinct states.

| Run | Size | Question | Bounds, and why they are enough |
|---|---|---|---|
| `approval` | 3.4M | Late and contradictory taps, rotating links, two overlapping polls, an approve command, a crash: is what is approved and sent what was tapped? Does a leftover tap overrule a decision? | One id: the theorems cover several. Two links, so that a link is rotated under a tap; two texts, so that a redraft matters; two taps; one crash at any step. |
| `approval_live` | 129k | Is a tap on a current link ever lost? When is the stored token not that of the published link? | One poll, restarted for ever; one crash; one approve command beside it. |
| `approval_redraft` | - | Refuted: section 6. | As `approval`. |
| `queuefile` | 2.9M | Does the file implement the atomic queue when processes do not overlap, with full disks, lines cut short and crashes at every step, and where exactly not? When they do, is a row ever made of parts of two? | Two ids and lines: a rewrite that copies another row, an append that continues a row, a duplicate. Four inodes: queue, two temporaries, spare. Overlap once begun never counts as over. |
| `queuefile_marks` | - | Refuted: section 6. | Two processes, one id, no faults. |
| `store` | 1.1M | Is the state file an atomic map, whatever a stale process remembers? Is an answer ever older than its call? Does every call end, whoever dies with the lock? | Two processes; a key that is worked on and one beside it; arrays of at most two items; a crash or an I/O error at every step, without limit. No symmetry, because one property is temporal. |
| `runlog` | 172k | Is a run ever missing from the log for a reason other than trimming or an overlapping rewrite? Does a migration that dies lose one? | Three processes (one rewrites, one has the old file open, one appends), retention of three, two older runs, six new ones: enough to trim twice. |
| `outbound` | 8.4M | Does pruning ever change a decision? How far can the cap be exceeded? Does anything start in quiet hours? | Days of 12 ticks, hours of 4, seconds of 2: windows end inside seconds and across midnight. The clock runs for 15 ticks, past a day and past the retention. |
| `chain` | 651k | Through a circle of events and failures at every stage: at most once, for a reason, everything that was to run has run, and ok means done? | Three loops, two of which trigger each other while one also listens to a published artifact and comes earlier in `fleet.yml` than the loop that emits its event. `MaxRuns` is one more than there are loops, and so never reached; it makes a chain that would go on for ever stop short of its end, which is how `ChainEnds` fails if `ListenersAgain` lets loops trigger each other again. |
| `relaispoll` | 56k | Can slow or failing requests keep the others from being looked at? By how much does a poll outlast its budget? When is a tap heeded in the end? | Four proposals against two errors in a row, so that failures may end a poll before, at and behind a tap; a budget of six, a minimum of one and a maximum of three, so that all three branches of the share are taken, and a full list fits at the minimum. |
| `hart` | 6.2M | Does a publisher ever sleep past its deadline, give up without a crowd, or stop early when there was a slot? | Four publishers and one slot: one more than the attempts. A window of two against delays of 2 + 1 (60 s against 5 + 20 + 40): two waits, the first longer. They come up to a unit apart; a deadline of three, or none. |
| `deploy` | 1.3M | Are units as `fleet.yml` says after a success, and is nothing started after a failure? Is there always a program to come back to? Does a timer keep its interval? | Fleets a, a-b (which a's prefix matches) and c; three versions of a's `fleet.yml`, with a daemon, a listener and a bad schedule; three commands or updates, two of them updates at the same time: install, change, install; install, break, uninstall. All intervals up to 26 hours, at and beside each point of rounding, and so on both sides of the day above which every interval is daily. |

Type invariants are part of a property of their run, or proved, or both:
`RowsAreWhole`, `NewestLast`, `PruningIsInvisible`, `ReportIsTrue`, `OutcomeIsTrue`,
`InstallIsExact` and `ProgramIsSafe`.

Deadlock is not checked where the system may stop: a chain that is over, and
instances whose clock, lines or records are bounded.

### Fairness

* `approval_live` assumes that the timer starts `relais-poll` again and again
  and that a poll that runs takes its steps (weak fairness on listing, applying
  and clearing), and that a proposal that is listed over and over is fetched
  successfully at some point (strong fairness on `PollFetch`). The last one
  needs the list to fit the poll's time budget, which `relaispoll` looks at.
  Errors and early stops may recur for ever. The
  human, the loops and the sender promise nothing.
* `store`: a process that runs goes on (weak fairness on each step), and
  the kernel does not pass a waiter for the `flock` over for ever (strong
  fairness on `Lock`). Nobody is promised to live.
* `chain`: weak fairness on the command's own steps (`Walk`, `RunSteps`). Nothing is
  promised of the loops, nor of the deadline: `fleet.yml` may set it to `0s`, and a
  killed loop's grandchild that keeps its standard output open still blocks
  `runner.Run`. `ChainEnds` therefore allows the chain to stay in a loop for ever.
* `relaispoll`: the timer starts polls for ever and a poll takes its steps (weak
  fairness); a queue file that can be written again and again is written for each
  proposal at some point (strong fairness on `Apply` for it). Nothing is assumed of
  relais: any request may fail, each time. What a tap needs is the premise of
  `TapsAreApplied` instead, that again and again a poll ends in which its request
  did not fail and fewer than the limit of those before it did (`MayReach`).

The other runs check safety properties only.

## 5. What is proved

Proved with TLAPS for every value of the constants, from the assumptions each
module names (no more than that sentinels differ from real values, and bounds
are numbers).

* **HitlQueue** (`ApprovalProofs`, through its instance `Q`): `TypeOK`, `PendingHasBody`,
  `DecidedIsFrozen`, `DispatchedNeverReoffered`. The last needs one more
  invariant, `OnlyRowsAreSent`: an id without a row is not marked as sent, so
  `Add` cannot clear a mark.
* **Approval** (`ApprovalProofs`): `TypeOK`; `SentOnce`, from
  `SendInv`, which says what the mark and the sender's place imply about how
  often a proposal has left; `RelaisApprovalIsATap`, from `LinkInv` (a link
  belongs to one proposal wherever it occurs: in tokens, rows, taps, or a
  process's memory) and `TapInv` (what the poll holds was tapped, on text that
  still stands unless the proposal was redrafted); `SentTextIsApproved`;
  `DecisionsAreFinal`, from `FinalInv` (no poll is at a proposal whose decision is
  final, and none takes it up, because it is never pending again). These
  hold for any number of proposals, runs, polls, commands and crashes, while
  the run has one proposal and one crash. `PendingCopy`, `DecisionsStand` and
  `SentIsNotOfferedAgain` carry the promises of `HitlQueue` over to the commands,
  which do nothing to the queue but call it (`CallsOnly`).
* **Store** (`StoreProofs`): `TypeOK`, `AnswersAreRecent`, `UntouchedKeysKept`,
  `KVSpec`. The invariant is `TypeOK /\ LockInv /\ MemInv`: who is past `locked`
  holds the lock in the mode its call needs, and from `loaded` on its memory is
  the file (after `applied`, the file with its change), which is inductive
  because nobody else can write meanwhile. A `Get` has let go of the lock when it
  answers; that its memory is still what it read rests on nobody else moving it. It
  all rests on `flock` excluding: on a
  filesystem where it cannot be taken the code goes on without (state.go:66-76),
  and nothing of this holds.
* **QueueFile** (`QueueFileProofs`): `RowsAreWhole`, `AnsweredTookEffect`,
  `NoDuplicates`, and `QueueSpec`, which joins `Approval`, where queue methods
  are atomic, to the file they really run on. Two invariants. `FilesInv` holds
  however methods overlap: every line of every file, and everything a process is
  about to write, is a row that one method wrote as a whole (`Sound`), or `Torn`,
  or `Scrap`. `AloneInv` is about methods that do not overlap: what a method
  holds is the queue on disk with its one change (`Rewritten`), and the temporary
  file is what it has written so far (`Stage`); without it a rename could put
  anything in place. The lemmas say what reading, changing a row and appending
  do to the rows that a reader finds (`ParsedLines`, `OtherRow`, `AppendedRow`).
  `QueueSpec` names its one exception: `RowVanishes`, an append that continues the
  row of an `Add` which failed at its newline. An `Add` that answers with an error
  may have taken effect, as a call that is killed may.
  `NeverTwice` assumes that the queue can be read: `Add` takes a queue it cannot
  read for one that does not hold the id (section 6).
* **RunLog** (`RunLogProofs`): `NewestLast`, `NewestKept`, `MigrationKeeps`,
  `TrimsToKeep`, for any number of processes, any retention and any number of
  older runs. The invariant says the same of the log and of the lines that
  whoever rewrites it has read, because those will be the log: they are in order
  (`InLine`), no recorded or older run is missing from them without a reason
  (`HasNew`, `HasOld`), and they are not fewer than the log has by now, or enough
  (`NoLess`). `InLine` also bounds what a run has behind it by how many were
  recorded since; without that, a trim could cut a run that is not old enough.
  `BeforeInv` says that nobody records before one migration is over, which is
  why a migration cannot lose a race that a trim can. The lemmas are about
  taking the newest lines (`NewestIsTail`, `TailInLine`, `TailIsEnough`) and
  about recording a run in the log or beside it (`AppendKeeps`, `RaceKeeps`).
* **Chain** (`ChainProofs`): `TypeOK`, `OncePerChain`, `OkMeansDone`,
  `ProposalsComeLast`, `DryRunTouchesNothing`, `RunsAreCaused` and
  `EveryListenerRan`, for any fleet, events and outputs. The invariant adds where
  a loop's effects have got to at each stage (`StageInv`), that a loop which is
  over is in `visited` and the running one is not (`VisitInv`), and what is true
  of a run that is over (`DoneInv`). Two lemmas carry the steps: `MoveKeeps` for
  a step to the next stage, `OverKeeps` for one that ends the run. Causes and
  listeners need two more: that each event on the list is the one that was emitted
  or was heard from a run that is over (`HeardInv`), and that the two loop variables have left no
  listener behind (`WalkInv`), although the list grows while it is walked.
* **RelaisPoll** (`RelaisPollProofs`): `OverrunIsOneClear`, `ShareIsKept`,
  `ReportIsTrue`, for any number of proposals, budget, minimum, maximum and
  limit of errors. `ShareInv` is the argument for the shares: while nothing is
  decided, there is more time left than the minimum for each of the rest, even
  if the request on its way takes all it may. `RunInv` ties the counter of
  errors to the proposals that were asked last.
* **Units, Update, Deploy** (`DeployProofs`), for any number of commands,
  processes, fleets and builds, with kills and restarts: `ProgramIsSafe` and
  `GapIsAccounted`, because whoever is between the two renames has moved the
  program aside himself, which keeps everybody else out (`GapInv`);
  `InstallIsExact`, `UninstallSilences` and `NothingHalfInstalled`, because
  behind the place the walk has reached every file is as `fleet.yml` says
  (`WalkInv`), nothing but an install's own units is enabled meanwhile
  (`EnabledInv`), and what an uninstall has not listed yet is still to come
  (`UninstallInv`); `TimersKeepTime`, from a case for each branch of
  `intervalTrigger`. They assume that `fleet.yml` passed `Validate`
  (`UnitsAssumption`), as the commands do.

* **HartPublish** (`OutwardProofs`): `NeverDiesWaiting`, `OutcomeIsTrue` and
  `EarlyIsRight`, for any number of publishers, any slots per window, any deadlines
  and any schedule that outlasts the window. `WaitInv`: a wait was begun only if it
  ends `Slack` before the deadline, and no sleeper is later than that. `CrowdInv` is
  what giving up needs, and neither follows from the state hart is in by then. With
  `Retry-After`, each wait ends when an upload leaves the window, so after n waits
  at least n uploads have left it (`Gone`); those and the full window of the last
  attempt have nobody in common (`TwoCrowds`). Without, whoever made hart full at
  the first attempt is as old as the waits since, and so out of the window when the
  schedule is through. `EarlyInv`: the uploads that were counted when a publisher
  stopped early (`Lasting`) still count until `Slack` before its deadline.
* **Outbound** (`OutwardProofs`): `PruningIsInvisible`, `BudgetHolds` and
  `QuietIsQuiet`, for any number of runs, budgets, windows and lengths of a second.
  `LogInv` says that a stored time is less than a second older than the action, and
  that what was dropped is older than the retention. `BudgetHolds` by itself is not
  inductive: it says nothing of the runs that have read the log and not begun.
  `Bounded` counts them. A run is `Bold` at a time if it sends, or would be allowed
  to by the log it has read; at every time from now on, what is recorded by then
  and `MaxSend` for every bold run stay below the budget and `Overshoot`. Reading
  the log makes a run bold only if the log has room, a decision makes nobody bold
  who was not, and recording takes off the run what it puts on the log
  (`BoundedStep`, `Balance`). `QuietIsQuiet` compares the code's two cases with
  minutes counted forward around midnight (`QuietMinutesAreQuiet`).

`Approval` also has `LinksHaveTokens`, under `OneRun` (one `fleet run` at a time,
as the run has it; with two, a token can be lost, section 6): between minting
an inbox and storing its token the run's copy of the token map is the stored one,
and until it publishes its link the stored token is that link's (`AttachInv`).

Only model-checked: liveness (`TapIsHeeded`, `CallsEnd`, `ChainEnds`,
`TapsAreApplied`), which is out of the prover's reach. What the proofs rest on that
the code does not enforce is named: queue methods of different processes do not
overlap (Approval takes each as one step; `queuefile_marks` shows that nothing keeps
them from it and what is lost then) and no append continues a row (`RowVanishes`),
there is one sender (Approval), `flock` excludes (Store), one run at a time
(`LinksHaveTokens`), a queue that can be read (`NeverTwice`), hart counts what it
accepted in one window and a sleeper is late by `Slack` at most (HartPublish), and
the bounds on what one run sends and how long the clock runs (Outbound).

## 6. Where code and documents part

Two runs end in a violation, by design:

* `approval_redraft`: "the text they approved is the text that goes"
  (hitl.go:241-244). `Redraft` keeps the row's relais nonce, so a tap on the old
  copy that has not been applied yet approves the copy written afterwards.
* `queuefile_marks`: "the queue's own record that the action left"
  (main.go:418-422). A rewrite of the queue by a process that read it before
  `fleet dispatched` takes the mark away, and the proposal is offered again.

Others came up while modelling. The first three are stated as definitions that
no run uses, because TLC refutes them within seconds; the invariants that are
checked are the weaker ones the code does keep.

* `NoBlankApproval` (Approval): `approve` checks the body in one read of the
  queue and approves in another (main.go:538 and 545); a redraft between the two
  leaves an approved blank body.
* `FailureStopsChain` (Chain): "a failed publish stops the chain"
  (runner.go:212-214) is true of listeners, but the events of the first loop are
  heard whatever its status (run.go:132).
* `CapKept` (Outbound): "at most five a day" (budget.go:3-8) may be exceeded by
  what overlapping runs, or one large run, send between the check and the record
  (`BudgetHolds` bounds it), and what a run sent that then failed is not
  counted at all.
* Two runs that attach at the same time lose a relais token
  (relais/store.go:12): the proposal has a link nobody polls.
* An attach that fails or dies after it has stored the token (attach.go:27-42) and
  before it publishes the link leaves a proposal that was linked before with the
  old link and the token of the new inbox: taps on the link the human holds are never
  seen, and nothing reports it. `LinkHasToken` says that this is the only way.
* A poll decides on the list it made first (poll.go:62, 148). A proposal that is
  rejected on the command line while a poll has it in hand is approved again by an
  older tap, and sent. `DecisionsAreFinal` says that no later poll does that.
* Two runs that add the same id at the same time queue it twice, and so does one
  that cannot read the queue (hitl.go:98).
* An append behind a line that was cut short continues it: `Add` answers with
  success and the proposal is lost (hitl.go:115). If only the newline is missing,
  the row before it is lost too: its `Add` answered with an error, but readers took
  the row (hitl.go:345-346), and unless another method has rewritten the queue since,
  with its newline, the next `Add` destroys both. `Continued` and `RowVanishes` are
  the names of these two in the properties.
* An error whose text contains "budget", by its loop's name for instance, is
  reported as skipped (main.go:280).
* A mutation whose save failed stays in memory (state.go:104-109). A later `Get` of
  that process that cannot read the file answers with it, although it was never
  stored; `AnswersAreRecent` is about the `Get`s that can.
* A run recorded while another process rewrites the log is lost
  (state.go:264-279); a binary of an older version that writes `runs` back
  makes the next migration put those runs behind newer ones (state.go:168).
* "the next tick picks up where it stopped" (main.go:494-496): every poll starts
  again at the oldest proposal. While three requests in a row fail at the head of
  the list, for dead inboxes or for live ones slower than their share, every poll
  ends there and no proposal behind them is looked at; `TapsAreApplied` says under
  which condition a tap is heeded.
* A poll "stops before the budget runs out" (poll.go:21-23) but for the clearing
  of one inbox, which nothing was left for (`OverrunIsOneClear`).
* "atomically install" (update.go:33-34): there are two renames, and between them
  no program. A crash there takes `fleet` away until somebody moves the backup
  back, and every timer fails until then.
* A failed update leaves its candidate beside the program: the deferred removal
  (update.go:97) does not happen when `failCode` exits. An update whose manifest
  was fetched before another one finished replaces the newer build, and its
  `from` is not what it replaced.
* "removes units for a fleet" (systemd.go:60): and of every fleet whose name
  begins with its name and a dash. `fleet uninstall` takes the name as it was
  typed, where `fleet install` takes it from `fleet.yml` (install.go:43-48), so
  `uninstall .` removes nothing and reports success.
* An interval is rounded to the nearest hour before it is rounded up, so 80
  minutes become hourly although rounding up is there to keep "an odd interval
  from silently costing more runs per day" (systemd.go:312-314). Every interval
  over a day becomes daily: `@every 48h` runs twice as often as it asks to.
  `StandsFor` promises what is true: up to a day no shorter than asked for but for
  these roundings, and above it a day.
* Installing again removes nothing: the timer of a loop that left `fleet.yml`, or
  lost its schedule, goes on. A failed start is not reported (install.go:115-131),
  and a schedule that does not parse is found while the files are being written,
  not by `Validate`.
* Times in the budget log are cut to whole seconds, so a window is up to a
  second short.

## 7. What is not modelled

* `internal/pressure`: compares a few numbers read from `/proc`; `Chain` takes
  its answer as a free choice.
* `internal/config`: parsing, durations and `NextRun` are data only; `Units` takes
  what `Validate` lets through.
* Loss of power. Nothing is synced before a rename (update.go:98-127, hitl.go:307-326,
  state.go:241), so a file that has just been put in place may be empty afterwards;
  a crash here is of a process, or a machine that is restarted in order.
* Unit texts, the random delay of timers, `linger`, and what systemd does between
  the calls beyond enabling, starting and stopping.
* Request and response bodies of hart and relais, and the parsing of
  `Retry-After`.
* The command surface (help, guide, init, feedback, output formats) and
  `bin/fleet-guard`: input and output only, no state that another part reads.
* The run directory, named after a time in seconds: two runs of one loop that
  start in the same second share it (runner.go:65-69), which no module looks
  into yet.
* Time zones, the parsing of `quiet_hours`, costs and digests.
