------------------------------ MODULE Approval -------------------------------
(***************************************************************************)
(* How an outbound proposal gets from a loop to its recipient: the runner  *)
(* queues it and attaches a relais link, a draft command writes its copy,  *)
(* a human decides by tapping the link or on the command line, relais-poll *)
(* applies the taps, and a sender carries the approved ones out.  Every    *)
(* participant is a process of its own; what they share is the queue, the  *)
(* relais_tokens key of the state file and the relais inboxes.             *)
(*                                                                         *)
(* A step is one Queue or Store method, or one request to relais: each is  *)
(* taken as atomic here (QueueFile.tla and Store.tla are about their       *)
(* insides).  A process may die between any two steps.                     *)
(***************************************************************************)
EXTENDS Naturals, FiniteSets

CONSTANTS
  Ids, Texts, Blank, Links, NoLink,   \* as in HitlQueue
  Runs,        \* concurrent `fleet run` processes
  Pollers,     \* concurrent `fleet relais-poll` processes
  Clis,        \* concurrent `fleet approve` processes
  None,        \* a field that holds nothing
  MaxTaps,     \* bound: different taps the human makes
  MaxCrashes   \* bound: processes that die part way

ASSUME NoneAssumption == None \notin Ids
ASSUME ApprovalAssumption == NoLink \notin Links /\ Blank \notin Texts

VARIABLES
  queue,    \* the proposal queue
  tokens,   \* relais_tokens: for each proposal, the link whose token is stored
  owner,    \* relais: the proposal an inbox was minted for
  inbox,    \* relais: the taps waiting in the inboxes
  shown,    \* what has been put in front of the human
  taps,     \* every tap the human ever made
  run,      \* run[r]: where `fleet run` r is in queue-then-attach
  poll,     \* poll[p]: what relais-poll p still has to do
  cli,      \* cli[c]: the proposal `fleet approve` c has checked
  sender,   \* the loop that carries approved proposals out
  sent,     \* sent[id]: how often id really left
  lost,     \* proposals whose sender died between sending and marking
  redrafted,\* proposals that went back to drafting at least once
  final,    \* final[id]: the decision that no tap on id should change any more
  halfway,  \* proposals whose last attach stored a token and published no link
  crashes

Q == INSTANCE HitlQueue

relais == <<owner, inbox, shown, taps>>
history == <<redrafted, final, halfway>>
vars == <<queue, tokens, relais, run, poll, cli, sender, sent, lost, history, crashes>>

LinkOrNot == Links \cup {NoLink}
Verdicts == {Q!Approved, Q!Rejected}
Bodies == Texts \cup {Blank}
Copy == [id : Ids, link : Links, text : Bodies]
Tap == [id : Ids, link : Links, text : Bodies, verdict : Verdicts]
Found == [id : Ids, tap : Tap]

NoWork == [id \in Ids |-> NoLink]
RunIdle == [pc |-> "idle", id |-> None, link |-> NoLink, snap |-> NoWork]
PollIdle == [pc |-> "walk", work |-> NoWork, found |-> None]
SenderIdle == [pc |-> "idle", id |-> None, text |-> Blank]

Init ==
  /\ Q!Init
  /\ tokens = NoWork
  /\ owner = [l \in Links |-> None]
  /\ inbox = {} /\ shown = {} /\ taps = {}
  /\ run = [r \in Runs |-> RunIdle]
  /\ poll = [p \in Pollers |-> PollIdle]
  /\ cli = [c \in Clis |-> None]
  /\ sender = SenderIdle
  /\ sent = [id \in Ids |-> 0]
  /\ lost = {} /\ redrafted = {} /\ halfway = {}
  /\ final = [id \in Ids |-> None]
  /\ crashes = 0

-----------------------------------------------------------------------------
(* fleet run: queue a proposal, then relais.Attach                            *)

\* The runner attaches whatever Add answered: a proposal the queue already
\* held is attached again.
RunAdd(r, id, b) ==
  /\ run[r].pc = "idle"
  /\ Q!Add(id, b)
  /\ run' = [run EXCEPT ![r].pc = "attach", ![r].id = id]
  /\ UNCHANGED <<tokens, relais, poll, cli, sender, sent, lost, history, crashes>>

\* relais answers with a new inbox; SetToken then reads the token map.
AttachMint(r, l) ==
  /\ run[r].pc = "attach"
  /\ owner[l] = None
  /\ owner' = [owner EXCEPT ![l] = run[r].id]
  /\ run' = [run EXCEPT ![r] = [pc |-> "token", id |-> @.id, link |-> l, snap |-> tokens]]
  /\ UNCHANGED <<queue, tokens, inbox, shown, taps, poll, cli, sender, sent, lost,
                 history, crashes>>

\* Attach gives up: relais refused, no nonce, or the token or the link could not be
\* stored.  The error is dropped: the proposal is approvable on the command line.
AttachFails(r) ==
  /\ run[r].pc \in {"attach", "token", "link"}
  /\ run' = [run EXCEPT ![r] = RunIdle]
  /\ UNCHANGED <<queue, tokens, relais, poll, cli, sender, sent, lost, history, crashes>>

\* Seeded fault: a proposal that has a token keeps it.
SetTokenOnce(r) ==
  /\ run[r].pc = "token"
  /\ tokens' = IF tokens[run[r].id] = NoLink
                 THEN [run[r].snap EXCEPT ![run[r].id] = run[r].link] ELSE tokens
  /\ run' = [run EXCEPT ![r].pc = "link"]
  /\ halfway' = halfway \cup {run[r].id}
  /\ UNCHANGED <<queue, relais, poll, cli, sender, sent, lost, redrafted, final, crashes>>

\* SetToken writes the whole map it read, with its own entry replaced.
SetToken(r) ==
  /\ run[r].pc = "token"
  /\ tokens' = [run[r].snap EXCEPT ![run[r].id] = run[r].link]
  /\ run' = [run EXCEPT ![r].pc = "link"]
  /\ halfway' = halfway \cup {run[r].id}
  /\ UNCHANGED <<queue, relais, poll, cli, sender, sent, lost, redrafted, final, crashes>>

AttachLink(r) ==
  /\ run[r].pc = "link"
  /\ Q!SetRelais(run[r].id, run[r].link)
  /\ run' = [run EXCEPT ![r] = RunIdle]
  /\ halfway' = halfway \ {run[r].id}
  /\ UNCHANGED <<tokens, relais, poll, cli, sender, sent, lost, redrafted, final, crashes>>

-----------------------------------------------------------------------------
(* The human: reads what is pending, taps, or uses the command line           *)

\* The digest puts a pending proposal in front of the human, with its link.
Show(id) ==
  /\ queue[id].status = Q!Pending
  /\ queue[id].link # NoLink
  /\ shown' = shown \cup {[id |-> id, link |-> queue[id].link, text |-> queue[id].body]}
  /\ UNCHANGED <<queue, tokens, owner, inbox, taps, run, poll, cli, sender, sent, lost,
                 history, crashes>>

\* The human taps, at any later time, on something that was shown.
TapLink(s, v) ==
  LET m == [id |-> s.id, link |-> s.link, text |-> s.text, verdict |-> v]
  IN  /\ m \in taps \/ Cardinality(taps) < MaxTaps
      /\ taps' = taps \cup {m}
      /\ inbox' = inbox \cup {m}
      /\ UNCHANGED <<queue, tokens, owner, shown, run, poll, cli, sender, sent, lost,
                     history, crashes>>

\* The polls that have id on their list, or hold a decision on it.
Handling(id) == {p \in Pollers : \/ poll[p].work[id] # NoLink
                                 \/ poll[p].pc = "apply" /\ poll[p].found.id = id}

\* A command decides: no tap should change that if no poll is at it meanwhile.
Ruled(id, st) == [final EXCEPT ![id] = IF Handling(id) = {} THEN st ELSE None]

\* fleet approve refuses a blank body, on the list it reads first.
ApproveCheck(c, id) ==
  /\ cli[c] = None
  /\ Q!Present(id)
  /\ queue[id].body # Blank
  /\ cli' = [cli EXCEPT ![c] = id]
  /\ UNCHANGED <<queue, tokens, relais, run, poll, sender, sent, lost, history, crashes>>

ApproveApply(c) ==
  /\ cli[c] # None
  /\ Q!UpdateStatus(cli[c], Q!Approved, "cli")
  /\ cli' = [cli EXCEPT ![c] = None]
  /\ final' = Ruled(cli[c], Q!Approved)
  /\ UNCHANGED <<tokens, relais, run, poll, sender, sent, lost, redrafted, halfway, crashes>>

CliReject(id) ==
  /\ Q!UpdateStatus(id, Q!Rejected, "cli")
  /\ final' = Ruled(id, Q!Rejected)
  /\ UNCHANGED <<tokens, relais, run, poll, cli, sender, sent, lost, redrafted, halfway,
                 crashes>>

DraftFill(id, b) ==
  /\ Q!SetDraft(id, b)
  /\ UNCHANGED <<tokens, relais, run, poll, cli, sender, sent, lost, history, crashes>>

CliRedraft(id) ==
  /\ Q!Redraft(id)
  /\ redrafted' = redrafted \cup {id}
  /\ UNCHANGED <<tokens, relais, run, poll, cli, sender, sent, lost, final, halfway, crashes>>

-----------------------------------------------------------------------------
(* fleet relais-poll                                                          *)

Walking(p) == poll[p].pc = "walk"

\* PollQueue lists the pending proposals once and keeps those with a link and a
\* stored token; what it decides later it decides from this list.
Lists(p, pollable) ==
  /\ Walking(p) /\ poll[p].work = NoWork
  /\ pollable # {}
  /\ poll' = [poll EXCEPT ![p].work =
                 [id \in Ids |-> IF id \in pollable THEN queue[id].link ELSE NoLink]]
  /\ UNCHANGED <<queue, tokens, relais, run, cli, sender, sent, lost, history, crashes>>

Linked == {id \in Ids : queue[id].link # NoLink /\ tokens[id] # NoLink}

\* Seeded fault: the list is not limited to what is pending.
PollListAll(p) == Lists(p, Linked)

PollList(p) == Lists(p, {id \in Linked : queue[id].status = Q!Pending})

\* What the inbox of the stored token holds for the nonce of the listed row.
Decisions(p, id) == {m \in inbox : m.link = tokens[id] /\ m.link = poll[p].work[id]}

\* Seeded fault: the inbox is emptied before the decision is applied.
PollFetchAndClear(p, id) ==
  /\ Walking(p) /\ poll[p].work[id] # NoLink
  /\ \/ /\ Decisions(p, id) = {}
        /\ poll' = [poll EXCEPT ![p].work[id] = NoLink]
        /\ UNCHANGED inbox
     \/ \E m \in Decisions(p, id) :
          /\ poll' = [poll EXCEPT ![p] = [pc |-> "apply", work |-> [@.work EXCEPT ![id] = NoLink],
                                          found |-> [id |-> id, tap |-> m]]]
          /\ inbox' = inbox \ {m}
  /\ UNCHANGED <<queue, tokens, owner, shown, taps, run, cli, sender, sent, lost,
                 history, crashes>>

\* Messages answers.  The first match in relais' order decides; without one the
\* walk goes on.
PollFetch(p, id) ==
  /\ Walking(p) /\ poll[p].work[id] # NoLink
  /\ \/ /\ Decisions(p, id) = {}
        /\ poll' = [poll EXCEPT ![p].work[id] = NoLink]
     \/ \E m \in Decisions(p, id) :
          poll' = [poll EXCEPT ![p] = [pc |-> "apply", work |-> [@.work EXCEPT ![id] = NoLink],
                                       found |-> [id |-> id, tap |-> m]]]
  /\ UNCHANGED <<queue, tokens, relais, run, cli, sender, sent, lost, history, crashes>>

\* Messages fails: the walk goes on with the next proposal.
PollError(p, id) ==
  /\ Walking(p) /\ poll[p].work[id] # NoLink
  /\ poll' = [poll EXCEPT ![p].work[id] = NoLink]
  /\ UNCHANGED <<queue, tokens, relais, run, cli, sender, sent, lost, history, crashes>>

\* Out of budget, or three errors in a row: the rest of the list is left.
PollStop(p) ==
  /\ Walking(p) /\ poll[p].work # NoWork
  /\ poll' = [poll EXCEPT ![p] = PollIdle]
  /\ UNCHANGED <<queue, tokens, relais, run, cli, sender, sent, lost, history, crashes>>

\* Nothing about the row is read again before its status is overwritten.
PollApply(p) ==
  /\ poll[p].pc = "apply"
  /\ Q!UpdateStatus(poll[p].found.id, poll[p].found.tap.verdict, "relais")
  /\ poll' = [poll EXCEPT ![p].pc = "clear"]
  /\ LET id == poll[p].found.id
     IN  final' = IF final[id] = None /\ Handling(id) = {p}
                    THEN [final EXCEPT ![id] = poll[p].found.tap.verdict] ELSE final
  /\ UNCHANGED <<tokens, relais, run, cli, sender, sent, lost, redrafted, halfway, crashes>>

\* DeleteMessages empties the inbox, or fails and leaves it.
PollClear(p) ==
  /\ poll[p].pc = "clear"
  /\ \/ inbox' = {m \in inbox : m.link # poll[p].found.tap.link}
     \/ UNCHANGED inbox
  /\ poll' = [poll EXCEPT ![p] = [pc |-> "walk", work |-> @.work, found |-> None]]
  /\ UNCHANGED <<queue, tokens, owner, shown, taps, run, cli, sender, sent, lost,
                 history, crashes>>

-----------------------------------------------------------------------------
(* The sender, and fleet dispatched                                           *)

\* The sender takes an approved proposal from the queue file as it is now.
SendPick(id) ==
  /\ sender.pc = "idle"
  /\ id \in Q!ApprovedUnsent
  /\ sender' = [pc |-> "picked", id |-> id, text |-> queue[id].body]
  /\ UNCHANGED <<queue, tokens, relais, run, poll, cli, sent, lost, history, crashes>>

Send ==
  /\ sender.pc = "picked"
  /\ sent' = [sent EXCEPT ![sender.id] = @ + 1]
  /\ sender' = [sender EXCEPT !.pc = "sent"]
  /\ UNCHANGED <<queue, tokens, relais, run, poll, cli, lost, history, crashes>>

\* fleet dispatched: already marked is success.  Only the one sender marks, so its
\* list and its update are one step.  It may call it again.
Mark ==
  /\ sender.pc = "sent"
  /\ IF queue[sender.id].dispatched
       THEN UNCHANGED <<queue, final>>
       ELSE /\ Q!UpdateStatus(sender.id, Q!Dispatched, "nobody")
            /\ final' = Ruled(sender.id, Q!Dispatched)
  /\ sender' \in {sender, SenderIdle}
  /\ UNCHANGED <<tokens, relais, run, poll, cli, sent, lost, redrafted, halfway, crashes>>

-----------------------------------------------------------------------------
(* Crashes                                                                    *)

Crash ==
  /\ crashes < MaxCrashes
  /\ crashes' = crashes + 1
  /\ UNCHANGED <<queue, tokens, relais, sent, history>>

RunCrash(r) ==
  /\ run[r] # RunIdle
  /\ run' = [run EXCEPT ![r] = RunIdle]
  /\ Crash /\ UNCHANGED <<poll, cli, sender, lost>>

PollCrash(p) ==
  /\ poll[p] # PollIdle
  /\ poll' = [poll EXCEPT ![p] = PollIdle]
  /\ Crash /\ UNCHANGED <<run, cli, sender, lost>>

CliCrash(c) ==
  /\ cli[c] # None
  /\ cli' = [cli EXCEPT ![c] = None]
  /\ Crash /\ UNCHANGED <<run, poll, sender, lost>>

SendCrash ==
  /\ sender # SenderIdle
  /\ sender' = SenderIdle
  /\ lost' = IF sender.pc = "sent" THEN lost \cup {sender.id} ELSE lost
  /\ Crash /\ UNCHANGED <<run, poll, cli>>

-----------------------------------------------------------------------------

RunStep(r) ==
  \/ \E id \in Ids, b \in Bodies : RunAdd(r, id, b)
  \/ \E l \in Links : AttachMint(r, l)
  \/ AttachFails(r) \/ SetToken(r) \/ AttachLink(r) \/ RunCrash(r)

PollStep(p) ==
  \/ PollList(p) \/ PollStop(p) \/ PollApply(p) \/ PollClear(p) \/ PollCrash(p)
  \/ \E id \in Ids : PollFetch(p, id) \/ PollError(p, id)

CliStep(c) == (\E id \in Ids : ApproveCheck(c, id)) \/ ApproveApply(c) \/ CliCrash(c)

HumanStep ==
  \/ \E s \in shown, v \in Verdicts : TapLink(s, v)
  \/ \E id \in Ids : Show(id) \/ CliReject(id) \/ CliRedraft(id)
  \/ \E id \in Ids, b \in Bodies : DraftFill(id, b)

SenderStep == (\E id \in Ids : SendPick(id)) \/ Send \/ Mark \/ SendCrash

Next ==
  \/ \E r \in Runs : RunStep(r)
  \/ \E p \in Pollers : PollStep(p)
  \/ \E c \in Clis : CliStep(c)
  \/ HumanStep
  \/ SenderStep

Spec == Init /\ [][Next]_vars

\* The timer starts relais-poll again and again, and a poll that runs takes its
\* steps.  Errors and early stops may recur, but a proposal that is listed over
\* and over gets an answer from relais in the end.  The human, the loops and the
\* sender promise nothing.
PollFairness ==
  \A p \in Pollers :
    /\ WF_vars(PollList(p)) /\ WF_vars(PollApply(p)) /\ WF_vars(PollClear(p))
    /\ \A id \in Ids : SF_vars(PollFetch(p, id))

FairSpec == Spec /\ PollFairness

-----------------------------------------------------------------------------
(* Properties *)

RelaisOK ==
  /\ owner \in [Links -> Ids \cup {None}]
  /\ inbox \subseteq Tap /\ shown \subseteq Copy /\ taps \subseteq Tap

RunOK ==
  /\ run \in [Runs -> [pc : {"idle", "attach", "token", "link"}, id : Ids \cup {None},
                        link : LinkOrNot, snap : [Ids -> LinkOrNot]]]
  /\ \A r \in Runs : /\ run[r].pc # "idle" => run[r].id \in Ids
                     /\ run[r].pc \in {"token", "link"} => run[r].link \in Links

PollOK ==
  /\ poll \in [Pollers -> [pc : {"walk", "apply", "clear"}, work : [Ids -> LinkOrNot],
                            found : Found \cup {None}]]
  /\ \A p \in Pollers : poll[p].pc # "walk" => poll[p].found \in Found

SenderOK ==
  /\ sender \in [pc : {"idle", "picked", "sent"}, id : Ids \cup {None},
                  text : Bodies]
  /\ sender.pc # "idle" => sender.id \in Ids

\* Everything has its type, and a process holds what its place in the code says.
TypeOK ==
  /\ Q!TypeOK /\ RelaisOK /\ RunOK /\ PollOK /\ SenderOK
  /\ tokens \in [Ids -> LinkOrNot]
  /\ cli \in [Clis -> Ids \cup {None}]
  /\ sent \in [Ids -> Nat]
  /\ lost \subseteq Ids /\ redrafted \subseteq Ids /\ halfway \subseteq Ids
  /\ DOMAIN final = Ids
  /\ crashes \in Nat

\* A proposal approved through relais was approved by a tap of the human on a
\* link of that very proposal, and unless it went back to drafting its body is
\* the text that stood over the link (hitl.go:198-203): however late the tap
\* arrives, whoever polls, whatever links were minted in between.
RelaisApprovalIsATap ==
  \A id \in Ids :
    queue[id].status = Q!Approved /\ queue[id].approver = "relais" =>
      \E m \in taps : /\ m.id = id /\ m.verdict = Q!Approved
                      /\ id \in redrafted \/ m.text = queue[id].body

\* The sender sends a proposal at most once, unless a sender died between
\* sending and `fleet dispatched` (main.go:416-422): late decisions that put a
\* dispatched proposal back to approved do not send it again.
SentOnce == \A id \in Ids : sent[id] > 1 => id \in lost

\* While a sender is about to send, or has just sent, the text it holds is the
\* text of the row, and the row has been decided: nothing rewrites copy that is
\* on its way out (hitl.go:241-244).
SentTextIsApproved ==
  sender.pc # "idle" => /\ queue[sender.id].body = sender.text
                        /\ queue[sender.id].status \in Q!Decided

\* The promises of the queue methods, kept when the commands interleave them: what
\* is pending has copy and a draft has none; a decision, also one that arrives
\* late or twice, re-opens nothing and leaves the text; a proposal that was marked
\* as sent is not offered again (hitl.go:198-203, 241-244, main.go:416-422).
PendingHasBody == Q!PendingHasBody
DecidedIsFrozen == Q!DecidedIsFrozen
DispatchedNeverReoffered == Q!DispatchedNeverReoffered

\* UpdateStatus overwrites any decision, and a tap that was applied may stay in its
\* inbox, with a contradicting one beside it (poll.go:148-153).  Still a decision
\* made while no other poll is at the proposal stands until a command decides
\* again: no tap, however old and on whatever link, puts it back.
DecisionsAreFinal == \A id \in Ids : final[id] # None => queue[id].status = final[id]

\* With one `fleet run` at a time, the token of a proposal is that of the link in its
\* row, so that relais-poll looks where the human taps, in spite of crashes and
\* failures, unless the last attach stopped after it had stored the token: then the
\* link that was published before leads to an inbox nobody reads (attach.go:27-42).
LinkHasToken ==
  \A id \in Ids : queue[id].link # NoLink => tokens[id] = queue[id].link \/ id \in halfway

\* A tap on the current link of a pending proposal is not lost: the proposal is
\* decided, or is redrafted or re-linked first.
Tapped(id, l) ==
  /\ queue[id].status = Q!Pending /\ queue[id].link = l /\ tokens[id] = l
  /\ \E m \in inbox : m.link = l

TapIsHeeded ==
  \A id \in Ids, l \in Links :
    Tapped(id, l) ~> (queue[id].status # Q!Pending \/ queue[id].link # l \/ tokens[id] # l)

\* What the docs say and the code does not do: the first is refuted by
\* MCApprovalRedraft.cfg, the second by any instance with a Clis process.

\* "once a human has approved something, the text they approved is the text that
\* goes" (hitl.go:241-244).  Blank bodies are for NoBlankApproval.
ApprovedTextWasShown ==
  \A id \in Ids :
    queue[id].status = Q!Approved /\ queue[id].approver = "relais" /\ queue[id].body # Blank =>
      \E m \in taps : m.id = id /\ m.verdict = Q!Approved /\ m.text = queue[id].body

\* "Never let an empty body be approved" (main.go:533-536).
NoBlankApproval == \A id \in Ids : queue[id].status = Q!Approved => queue[id].body # Blank
=============================================================================
