--------------------------- MODULE ApprovalProofs ----------------------------
(* What a human tapped is what is approved and sent, and decisions stand: for *)
(* any number of proposals, runs, polls and commands.                         *)
EXTENDS Approval, TLAPS

-----------------------------------------------------------------------------
(* What the queue promises by itself, for every set of ids, texts and links    *)

\* A queue method keeps every row in its type; Approval's own TypeOK rests on it.
LEMMA QueueTypeStep == Q!TypeOK /\ [Q!Next]_queue => Q!TypeOK'
<1> SUFFICES ASSUME Q!TypeOK, [Q!Next]_queue PROVE Q!TypeOK'
  OBVIOUS
<1> USE DEF Q!TypeOK, Q!Row, Q!Statuses, Q!Decided, Q!Pending, Q!Approved, Q!Rejected,
            Q!Dispatched, Q!Drafting, Q!Absent, Q!Approvers
<1>1. CASE UNCHANGED queue
  BY <1>1
<1>2. CASE Q!Next
  <2>1. PICK id \in Ids : Q!Step(id)
    BY <1>2 DEF Q!Next
  <2>2. ASSUME NEW b \in Texts \cup {Blank}, Q!Add(id, b) PROVE Q!TypeOK'
    <3>1. Q!NewRow(IF b = Blank THEN Q!Drafting ELSE Q!Pending, b) \in Q!Row
      BY DEF Q!NewRow
    <3> QED BY <2>2, <3>1 DEF Q!Add
  <2>3. ASSUME NEW st \in Q!Decided, NEW by \in Q!Approvers \ {"nobody"},
               Q!UpdateStatus(id, st, by)
        PROVE  Q!TypeOK'
    <3>1. by \in Q!Approvers /\ st \in Q!Statuses /\ queue[id] \in Q!Row
      OBVIOUS
    <3> QED BY <2>3, <3>1 DEF Q!UpdateStatus
  <2>4. ASSUME NEW l \in Links, Q!SetRelais(id, l) PROVE Q!TypeOK'
    BY <2>4 DEF Q!SetRelais
  <2>5. ASSUME NEW b \in Texts \cup {Blank}, Q!SetDraft(id, b) PROVE Q!TypeOK'
    BY <2>5 DEF Q!SetDraft
  <2>6. CASE Q!Redraft(id)
    BY <2>6 DEF Q!Redraft
  <2> QED BY <2>1, <2>2, <2>3, <2>4, <2>5, <2>6 DEF Q!Step
<1> QED BY <1>1, <1>2

\* Every row of the queue keeps its type under every method of hitl.go.
THEOREM QueueTypeCorrect == Q!Spec => []Q!TypeOK
<1>1. Q!Init => Q!TypeOK
  BY DEF Q!Init, Q!TypeOK, Q!Row, Q!NewRow, Q!Statuses, Q!Decided, Q!Absent, Q!Approvers
<1> QED BY <1>1, QueueTypeStep, PTL DEF Q!Spec

\* A pending proposal always has copy, a drafting one never does: the three
\* writers of body (Add, SetDraft, Redraft) set the status that goes with it.
THEOREM BodyMatchesStatus == Q!Spec => []Q!PendingHasBody
<1>1. Q!Init => Q!PendingHasBody
  <2> SUFFICES ASSUME Q!Init, NEW id \in Ids
               PROVE  queue[id].status \notin {Q!Pending, Q!Drafting}
    BY DEF Q!PendingHasBody
  <2>1. queue[id] = Q!NewRow(Q!Absent, Blank)
    BY DEF Q!Init
  <2> QED BY <2>1 DEF Q!NewRow, Q!Absent, Q!Pending, Q!Drafting
<1>2. Q!TypeOK /\ Q!PendingHasBody /\ [Q!Next]_queue => Q!PendingHasBody'
  <2> SUFFICES ASSUME Q!TypeOK, Q!PendingHasBody, [Q!Next]_queue PROVE Q!PendingHasBody'
    OBVIOUS
  <2> USE DEF Q!TypeOK, Q!Row, Q!PendingHasBody, Q!Pending, Q!Drafting
  <2>1. CASE UNCHANGED queue
    BY <2>1
  <2>2. CASE Q!Next
    <3>1. PICK id \in Ids : Q!Step(id)
      BY <2>2 DEF Q!Next
    <3>2. ASSUME NEW b \in Texts \cup {Blank}, Q!Add(id, b) PROVE Q!PendingHasBody'
      BY <3>2 DEF Q!Add, Q!NewRow
    <3>3. ASSUME NEW st \in Q!Decided, NEW by \in Q!Approvers \ {"nobody"},
                 Q!UpdateStatus(id, st, by)
          PROVE  Q!PendingHasBody'
      BY <3>3 DEF Q!UpdateStatus, Q!Decided, Q!Approved, Q!Rejected, Q!Dispatched
    <3>4. ASSUME NEW l \in Links, Q!SetRelais(id, l) PROVE Q!PendingHasBody'
      BY <3>4 DEF Q!SetRelais
    <3>5. ASSUME NEW b \in Texts \cup {Blank}, Q!SetDraft(id, b) PROVE Q!PendingHasBody'
      BY <3>5 DEF Q!SetDraft
    <3>6. CASE Q!Redraft(id)
      BY <3>6 DEF Q!Redraft
    <3> QED BY <3>1, <3>2, <3>3, <3>4, <3>5, <3>6 DEF Q!Step
  <2> QED BY <2>1, <2>2
<1> QED BY <1>1, <1>2, QueueTypeCorrect, PTL DEF Q!Spec

\* No method re-opens a decided proposal or touches its text.
THEOREM DecisionsFreezeText == Q!Spec => Q!DecidedIsFrozen
<1> DEFINE Frozen == \A id \in Ids : queue[id].status \in Q!Decided =>
                        /\ queue'[id].status \in Q!Decided
                        /\ queue'[id].body = queue[id].body
<1>1. Q!TypeOK /\ [Q!Next]_queue => [Frozen]_queue
  <2> SUFFICES ASSUME Q!TypeOK, Q!Next PROVE Frozen
    OBVIOUS
  <2> USE DEF Q!TypeOK, Q!Row, Q!Decided, Q!Pending, Q!Approved, Q!Rejected, Q!Dispatched,
              Q!Drafting, Q!Absent
  <2>1. PICK id \in Ids : Q!Step(id)
    BY DEF Q!Next
  <2>2. ASSUME NEW b \in Texts \cup {Blank}, Q!Add(id, b) PROVE Frozen
    BY <2>2 DEF Q!Add, Q!Present
  <2>3. ASSUME NEW st \in Q!Decided, NEW by \in Q!Approvers \ {"nobody"},
               Q!UpdateStatus(id, st, by)
        PROVE  Frozen
    BY <2>3 DEF Q!UpdateStatus
  <2>4. ASSUME NEW l \in Links, Q!SetRelais(id, l) PROVE Frozen
    BY <2>4 DEF Q!SetRelais
  <2>5. ASSUME NEW b \in Texts \cup {Blank}, Q!SetDraft(id, b) PROVE Frozen
    BY <2>5 DEF Q!SetDraft
  <2>6. CASE Q!Redraft(id)
    BY <2>6 DEF Q!Redraft
  <2> QED BY <2>1, <2>2, <2>3, <2>4, <2>5, <2>6 DEF Q!Step
<1> QED BY <1>1, QueueTypeCorrect, PTL DEF Q!Spec, Q!DecidedIsFrozen

\* An id without a row has never been sent: only a row that exists gets a
\* dispatched_at, and no method removes a row.
OnlyRowsAreSent == \A id \in Ids : ~Q!Present(id) => queue[id].dispatched = FALSE

\* The strengthening that SentIsNotOffered rests on.
THEOREM AbsentUnsent == Q!Spec => []OnlyRowsAreSent
<1>1. Q!Init => OnlyRowsAreSent
  BY DEF Q!Init, OnlyRowsAreSent, Q!NewRow
<1>2. Q!TypeOK /\ OnlyRowsAreSent /\ [Q!Next]_queue => OnlyRowsAreSent'
  <2> SUFFICES ASSUME Q!TypeOK, OnlyRowsAreSent, [Q!Next]_queue PROVE OnlyRowsAreSent'
    OBVIOUS
  <2> USE DEF Q!TypeOK, Q!Row, OnlyRowsAreSent, Q!Present, Q!Absent, Q!Decided, Q!Pending,
              Q!Approved, Q!Rejected, Q!Dispatched, Q!Drafting
  <2>1. CASE UNCHANGED queue
    BY <2>1
  <2>2. CASE Q!Next
    <3>1. PICK id \in Ids : Q!Step(id)
      BY <2>2 DEF Q!Next
    <3>2. ASSUME NEW b \in Texts \cup {Blank}, Q!Add(id, b) PROVE OnlyRowsAreSent'
      BY <3>2 DEF Q!Add, Q!NewRow
    <3>3. ASSUME NEW st \in Q!Decided, NEW by \in Q!Approvers \ {"nobody"},
                 Q!UpdateStatus(id, st, by)
          PROVE  OnlyRowsAreSent'
      BY <3>3 DEF Q!UpdateStatus
    <3>4. ASSUME NEW l \in Links, Q!SetRelais(id, l) PROVE OnlyRowsAreSent'
      BY <3>4 DEF Q!SetRelais
    <3>5. ASSUME NEW b \in Texts \cup {Blank}, Q!SetDraft(id, b) PROVE OnlyRowsAreSent'
      BY <3>5 DEF Q!SetDraft
    <3>6. CASE Q!Redraft(id)
      BY <3>6 DEF Q!Redraft
    <3> QED BY <3>1, <3>2, <3>3, <3>4, <3>5, <3>6 DEF Q!Step
  <2> QED BY <2>1, <2>2
<1> QED BY <1>1, <1>2, QueueTypeCorrect, PTL DEF Q!Spec

\* dispatched_at is never cleared, and Approved filters on it: a sender is not
\* offered the same proposal twice however late a decision arrives.
THEOREM SentIsNotOffered == Q!Spec => Q!DispatchedNeverReoffered
<1> DEFINE Kept == \A id \in Ids : queue[id].dispatched =>
                      queue'[id].dispatched /\ id \notin Q!ApprovedUnsent'
<1>1. Q!TypeOK /\ OnlyRowsAreSent /\ [Q!Next]_queue => [Kept]_queue
  <2> SUFFICES ASSUME Q!TypeOK, OnlyRowsAreSent, Q!Next, NEW i \in Ids,
                      queue[i].dispatched
               PROVE  queue'[i].dispatched
    BY DEF Q!ApprovedUnsent
  <2> USE DEF Q!TypeOK, Q!Row
  <2>1. PICK id \in Ids : Q!Step(id)
    BY DEF Q!Next
  <2>2. ASSUME NEW b \in Texts \cup {Blank}, Q!Add(id, b) PROVE queue'[i].dispatched
    BY <2>2 DEF Q!Add, OnlyRowsAreSent
  <2>3. ASSUME NEW st \in Q!Decided, NEW by \in Q!Approvers \ {"nobody"},
               Q!UpdateStatus(id, st, by)
        PROVE  queue'[i].dispatched
    BY <2>3 DEF Q!UpdateStatus
  <2>4. ASSUME NEW l \in Links, Q!SetRelais(id, l) PROVE queue'[i].dispatched
    BY <2>4 DEF Q!SetRelais
  <2>5. ASSUME NEW b \in Texts \cup {Blank}, Q!SetDraft(id, b)
        PROVE  queue'[i].dispatched
    BY <2>5 DEF Q!SetDraft
  <2>6. CASE Q!Redraft(id)
    BY <2>6 DEF Q!Redraft
  <2> QED BY <2>1, <2>2, <2>3, <2>4, <2>5, <2>6 DEF Q!Step
<1> QED BY <1>1, QueueTypeCorrect, AbsentUnsent, PTL DEF Q!Spec, Q!DispatchedNeverReoffered

-----------------------------------------------------------------------------
(* The commands do to the queue what its methods do                            *)

\* Which queue method a step of the flow calls, and for whom.
QueueChange ==
  \/ UNCHANGED queue
  \/ \E id \in Ids, b \in Bodies : Q!Add(id, b)
  \/ \E r \in Runs : AttachLink(r)
  \/ \E p \in Pollers : PollApply(p)
  \/ \E id \in Ids, st \in Q!Decided : Q!UpdateStatus(id, st, "cli")
  \/ \E id \in Ids : CliRedraft(id)
  \/ \E id \in Ids, b \in Bodies : Q!SetDraft(id, b)

LEMMA QueueChanges ==
  ASSUME TypeOK, Next
  PROVE  QueueChange
<1> USE DEF QueueChange
<1>1. ASSUME NEW r \in Runs, RunStep(r) PROVE QueueChange
  BY <1>1 DEF RunStep, RunAdd, AttachMint, AttachFails, SetToken, RunCrash, Crash
<1>2. ASSUME NEW p \in Pollers, PollStep(p) PROVE QueueChange
  BY <1>2 DEF PollStep, PollList, Lists, PollFetch, PollError, PollStop, PollClear, PollCrash,
              Crash
<1>3. ASSUME NEW c \in Clis, CliStep(c) PROVE QueueChange
  <2>1. CASE ApproveApply(c)
    <3>1. cli[c] \in Ids /\ Q!Approved \in Q!Decided
      BY <2>1 DEF ApproveApply, TypeOK, Q!Decided
    <3> QED BY <2>1, <3>1 DEF ApproveApply
  <2>2. CASE UNCHANGED queue
    BY <2>2
  <2> QED BY <1>3, <2>1, <2>2 DEF CliStep, ApproveCheck, CliCrash, Crash
<1>4. ASSUME HumanStep PROVE QueueChange
  <2>1. ASSUME NEW id \in Ids, CliReject(id) PROVE QueueChange
    BY <2>1 DEF CliReject, Q!Decided
  <2>2. ASSUME NEW id \in Ids, NEW b \in Bodies, DraftFill(id, b) PROVE QueueChange
    BY <2>2 DEF DraftFill
  <2>3. CASE UNCHANGED queue
    BY <2>3
  <2> QED BY <1>4, <2>1, <2>2, <2>3 DEF HumanStep, TapLink, Show
<1>5. ASSUME SenderStep PROVE QueueChange
  <2>1. CASE Mark
    <3>1. sender.id \in Ids /\ Q!Dispatched \in Q!Decided
      BY <2>1 DEF Mark, TypeOK, SenderOK, Q!Decided
    <3>2. CASE Q!UpdateStatus(sender.id, Q!Dispatched, "nobody")
      <4>1. Q!UpdateStatus(sender.id, Q!Dispatched, "cli")
        BY <3>2 DEF Q!UpdateStatus, Q!Dispatched, Q!Approved
      <4> QED BY <3>1, <4>1
    <3> QED BY <2>1, <3>2 DEF Mark
  <2>2. CASE UNCHANGED queue
    BY <2>2
  <2> QED BY <1>5, <2>1, <2>2 DEF SenderStep, SendPick, Send, SendCrash, Crash
<1> QED BY <1>1, <1>2, <1>3, <1>4, <1>5 DEF Next

\* What PollApply and AttachLink hold when they call the queue.
LEMMA HeldByPoll ==
  ASSUME TypeOK, NEW p \in Pollers, PollApply(p)
  PROVE  /\ poll[p].found.id \in Ids
         /\ poll[p].found.tap.verdict \in {Q!Approved, Q!Rejected}
BY DEF PollApply, TypeOK, PollOK, Found, Tap, Verdicts

LEMMA HeldByRun ==
  ASSUME TypeOK, NEW r \in Runs, AttachLink(r)
  PROVE  run[r].id \in Ids /\ run[r].link \in Links
BY DEF AttachLink, TypeOK, RunOK

\* A step of the flow is a queue method or leaves the queue alone.
LEMMA QueueStep == TypeOK /\ [Next]_vars => [Q!Next]_queue
<1> SUFFICES ASSUME TypeOK, Next PROVE Q!Next \/ UNCHANGED queue
  BY DEF vars
<1> USE DEF Q!Next, Q!Step, Bodies
<1>0. "relais" \in Q!Approvers \ {"nobody"} /\ "cli" \in Q!Approvers \ {"nobody"}
  BY DEF Q!Approvers
<1>1. ASSUME NEW id \in Ids, NEW b \in Bodies, Q!Add(id, b) PROVE Q!Next
  BY <1>1
<1>2. ASSUME NEW r \in Runs, AttachLink(r) PROVE Q!Next
  BY <1>2, HeldByRun DEF AttachLink
<1>3. ASSUME NEW p \in Pollers, PollApply(p) PROVE Q!Next
  BY <1>0, <1>3, HeldByPoll DEF PollApply, Q!Decided
<1>4. ASSUME NEW id \in Ids, NEW st \in Q!Decided, Q!UpdateStatus(id, st, "cli")
      PROVE  Q!Next
  BY <1>0, <1>4
<1>5. ASSUME NEW id \in Ids, CliRedraft(id) PROVE Q!Next
  BY <1>5 DEF CliRedraft
<1>6. ASSUME NEW id \in Ids, NEW b \in Bodies, Q!SetDraft(id, b) PROVE Q!Next
  BY <1>6
<1> QED BY <1>1, <1>2, <1>3, <1>4, <1>5, <1>6, QueueChanges DEF QueueChange

LEMMA QueueTyped == TypeOK /\ [Next]_vars => Q!TypeOK'
<1>1. Q!TypeOK /\ [Q!Next]_queue => Q!TypeOK'
  BY QueueTypeStep
<1> QED BY <1>1, QueueStep DEF TypeOK

\* Each process keeps its own place: only its own steps move it.
LEMMA Frames ==
  ASSUME Next
  PROVE  /\ (\E r \in Runs : RunStep(r)) \/ UNCHANGED run
         /\ (\E p \in Pollers : PollStep(p)) \/ UNCHANGED poll
         /\ (\E c \in Clis : CliStep(c)) \/ UNCHANGED cli
         /\ SenderStep \/ UNCHANGED <<sender, sent, lost>>
         /\ HumanStep \/ UNCHANGED <<shown, taps, redrafted>>
<1>1. ASSUME NEW r \in Runs, RunStep(r)
      PROVE  UNCHANGED <<poll, cli, sender, sent, lost, shown, taps, redrafted>>
  BY <1>1 DEF RunStep, RunAdd, AttachMint, AttachFails, SetToken, AttachLink, RunCrash,
              Crash, relais, history
<1>2. ASSUME NEW p \in Pollers, PollStep(p)
      PROVE  UNCHANGED <<run, cli, sender, sent, lost, shown, taps, redrafted>>
  BY <1>2 DEF PollStep, PollList, Lists, PollFetch, PollError, PollStop, PollApply, PollClear,
              PollCrash, Crash, relais, history
<1>3. ASSUME NEW c \in Clis, CliStep(c)
      PROVE  UNCHANGED <<run, poll, sender, sent, lost, shown, taps, redrafted>>
  BY <1>3 DEF CliStep, ApproveCheck, ApproveApply, CliCrash, Crash, relais, history
<1>4. ASSUME HumanStep PROVE UNCHANGED <<run, poll, cli, sender, sent, lost>>
  BY <1>4 DEF HumanStep, TapLink, Show, CliReject, CliRedraft, DraftFill, relais, history
<1>5. ASSUME SenderStep PROVE UNCHANGED <<run, poll, cli, shown, taps, redrafted>>
  BY <1>5 DEF SenderStep, SendPick, Send, Mark, SendCrash, Crash, relais, history
<1> QED BY <1>1, <1>2, <1>3, <1>4, <1>5 DEF Next

LEMMA RunTyped == TypeOK /\ [Next]_vars => RunOK'
<1> SUFFICES ASSUME TypeOK, [Next]_vars PROVE RunOK'
  OBVIOUS
<1>1. CASE UNCHANGED run
  BY <1>1 DEF TypeOK, RunOK
<1>2. ASSUME NEW r \in Runs, RunStep(r) PROVE RunOK'
  <2> USE <1>2 DEF TypeOK, RunOK, LinkOrNot
  <2>0. RunIdle \in [pc : {"idle", "attach", "token", "link"}, id : Ids \cup {None},
                     link : LinkOrNot, snap : [Ids -> LinkOrNot]]
    BY DEF RunIdle, NoWork
  <2>1. ASSUME NEW id \in Ids, NEW b \in Bodies, RunAdd(r, id, b) PROVE RunOK'
    BY <2>1 DEF RunAdd
  <2>2. ASSUME NEW l \in Links, AttachMint(r, l) PROVE RunOK'
    BY <2>2 DEF AttachMint
  <2>3. CASE SetToken(r)
    BY <2>3 DEF SetToken
  <2>4. CASE AttachFails(r) \/ AttachLink(r) \/ RunCrash(r)
    <3>1. run' = [run EXCEPT ![r] = RunIdle] /\ RunIdle.pc = "idle"
      BY <2>4 DEF AttachFails, AttachLink, RunCrash, RunIdle
    <3> QED BY <2>0, <3>1
  <2> QED BY <2>1, <2>2, <2>3, <2>4 DEF RunStep
<1> QED BY <1>1, <1>2, Frames DEF vars

LEMMA PollTyped == TypeOK /\ [Next]_vars => PollOK'
<1> SUFFICES ASSUME TypeOK, [Next]_vars PROVE PollOK'
  OBVIOUS
<1>1. CASE UNCHANGED poll
  BY <1>1 DEF TypeOK, PollOK
<1>2. ASSUME NEW p \in Pollers, PollStep(p) PROVE PollOK'
  <2> USE <1>2 DEF TypeOK, PollOK, LinkOrNot
  <2>0. PollIdle \in [pc : {"walk", "apply", "clear"}, work : [Ids -> LinkOrNot],
                      found : Found \cup {None}]
    BY DEF PollIdle, NoWork
  <2>1. CASE PollList(p)
    BY <2>1 DEF PollList, Lists, Linked, Walking, Q!TypeOK, Q!Row
  <2>2. ASSUME NEW id \in Ids, PollFetch(p, id) PROVE PollOK'
    <3>1. CASE poll' = [poll EXCEPT ![p].work[id] = NoLink]
      BY <3>1, <2>2 DEF PollFetch, Walking
    <3>2. ASSUME NEW m \in Decisions(p, id),
                 poll' = [poll EXCEPT ![p] =
                   [pc |-> "apply", work |-> [@.work EXCEPT ![id] = NoLink],
                    found |-> [id |-> id, tap |-> m]]]
          PROVE  PollOK'
      <4>1. [id |-> id, tap |-> m] \in Found
        BY DEF Decisions, RelaisOK, Found
      <4>2. [poll[p].work EXCEPT ![id] = NoLink] \in [Ids -> LinkOrNot]
        OBVIOUS
      <4> QED BY <3>2, <4>1, <4>2
    <3> QED BY <2>2, <3>1, <3>2 DEF PollFetch
  <2>3. ASSUME NEW id \in Ids, PollError(p, id) PROVE PollOK'
    BY <2>3 DEF PollError, Walking
  <2>4. CASE PollApply(p)
    BY <2>4 DEF PollApply
  <2>5. CASE PollClear(p)
    BY <2>5 DEF PollClear
  <2>6. CASE PollStop(p) \/ PollCrash(p)
    <3>1. poll' = [poll EXCEPT ![p] = PollIdle] /\ PollIdle.pc = "walk"
      BY <2>6 DEF PollStop, PollCrash, PollIdle
    <3> QED BY <2>0, <3>1
  <2> QED BY <2>1, <2>2, <2>3, <2>4, <2>5, <2>6 DEF PollStep
<1> QED BY <1>1, <1>2, Frames DEF vars

LEMMA SenderTyped ==
  TypeOK /\ [Next]_vars => SenderOK' /\ sent' \in [Ids -> Nat] /\ lost' \subseteq Ids
<1> SUFFICES ASSUME TypeOK, [Next]_vars
             PROVE  SenderOK' /\ sent' \in [Ids -> Nat] /\ lost' \subseteq Ids
  OBVIOUS
<1> USE DEF TypeOK, SenderOK
<1>1. CASE UNCHANGED <<sender, sent, lost>>
  BY <1>1
<1>2. CASE SenderStep
  <2>0. SenderIdle \in [pc : {"idle", "picked", "sent"}, id : Ids \cup {None},
                        text : Bodies] /\ SenderIdle.pc = "idle"
    BY DEF SenderIdle, Bodies
  <2>1. ASSUME NEW id \in Ids, SendPick(id)
        PROVE  SenderOK' /\ UNCHANGED <<sent, lost>>
    BY <2>1 DEF SendPick, Q!TypeOK, Q!Row, Bodies
  <2>2. CASE Send
    BY <2>2 DEF Send
  <2>3. CASE Mark
    BY <2>0, <2>3 DEF Mark
  <2>4. CASE SendCrash
    BY <2>0, <2>4 DEF SendCrash, Crash
  <2> QED BY <1>2, <2>1, <2>2, <2>3, <2>4 DEF SenderStep
<1> QED BY <1>1, <1>2, Frames DEF vars

\* The relais service is used by minting, showing, tapping and clearing only.
LEMMA RelaisFrame ==
  Next => \/ UNCHANGED relais
          \/ \E r \in Runs, l \in Links : AttachMint(r, l)
          \/ \E id \in Ids : Show(id)
          \/ \E s \in shown, v \in Verdicts : TapLink(s, v)
          \/ \E p \in Pollers : PollClear(p)
<1>1. ASSUME NEW r \in Runs, RunStep(r)
      PROVE  UNCHANGED relais \/ \E l \in Links : AttachMint(r, l)
  BY <1>1 DEF RunStep, RunAdd, AttachFails, SetToken, AttachLink, RunCrash, Crash
<1>2. ASSUME NEW p \in Pollers, PollStep(p) PROVE UNCHANGED relais \/ PollClear(p)
  BY <1>2 DEF PollStep, PollList, Lists, PollFetch, PollError, PollStop, PollApply, PollCrash,
              Crash
<1>3. ASSUME NEW c \in Clis, CliStep(c) PROVE UNCHANGED relais
  BY <1>3 DEF CliStep, ApproveCheck, ApproveApply, CliCrash, Crash
<1>4. ASSUME HumanStep
      PROVE  \/ UNCHANGED relais
             \/ \E id \in Ids : Show(id)
             \/ \E s \in shown, v \in Verdicts : TapLink(s, v)
  BY <1>4 DEF HumanStep, CliReject, CliRedraft, DraftFill
<1>5. ASSUME SenderStep PROVE UNCHANGED relais
  BY <1>5 DEF SenderStep, SendPick, Send, Mark, SendCrash, Crash
<1> QED BY <1>1, <1>2, <1>3, <1>4, <1>5 DEF Next

LEMMA RelaisTyped == TypeOK /\ [Next]_vars => RelaisOK'
<1> SUFFICES ASSUME TypeOK, [Next]_vars PROVE RelaisOK'
  OBVIOUS
<1> USE DEF TypeOK, RelaisOK
<1>1. CASE UNCHANGED relais
  BY <1>1 DEF relais
<1>2. ASSUME NEW r \in Runs, NEW l \in Links, AttachMint(r, l) PROVE RelaisOK'
  BY <1>2 DEF AttachMint, RunOK
<1>3. ASSUME NEW id \in Ids, Show(id) PROVE RelaisOK'
  <2>1. [id |-> id, link |-> queue[id].link, text |-> queue[id].body] \in Copy
    BY <1>3 DEF Show, Copy, LinkOrNot, Bodies, Q!TypeOK, Q!Row
  <2> QED BY <1>3, <2>1 DEF Show
<1>4. ASSUME NEW s \in shown, NEW v \in Verdicts, TapLink(s, v) PROVE RelaisOK'
  <2>1. [id |-> s.id, link |-> s.link, text |-> s.text, verdict |-> v] \in Tap
    BY DEF Copy, Tap
  <2> QED BY <1>4, <2>1 DEF TapLink
<1>5. ASSUME NEW p \in Pollers, PollClear(p) PROVE RelaisOK'
  BY <1>5 DEF PollClear
<1> QED BY <1>1, <1>2, <1>3, <1>4, <1>5, RelaisFrame DEF vars

\* Who writes the tokens, and what was remembered of the decisions and of the attaches.
LEMMA MemoryFrame ==
  ASSUME Next
  PROVE  /\ UNCHANGED tokens \/ \E r \in Runs : SetToken(r)
         /\ UNCHANGED halfway \/ \E r \in Runs : SetToken(r) \/ AttachLink(r)
         /\ UNCHANGED crashes \/ Crash
         /\ DOMAIN final' = DOMAIN final
<1> USE DEF history
<1>1. ASSUME NEW r \in Runs, RunStep(r)
      PROVE  /\ UNCHANGED final /\ (UNCHANGED crashes \/ Crash)
             /\ UNCHANGED tokens \/ SetToken(r)
             /\ UNCHANGED halfway \/ SetToken(r) \/ AttachLink(r)
  BY <1>1 DEF RunStep, RunAdd, AttachMint, AttachFails, SetToken, AttachLink, RunCrash, Crash
<1>2. ASSUME NEW p \in Pollers, PollStep(p)
      PROVE  /\ UNCHANGED <<tokens, halfway>> /\ (UNCHANGED crashes \/ Crash)
             /\ DOMAIN final' = DOMAIN final
  BY <1>2 DEF PollStep, PollList, Lists, PollFetch, PollError, PollStop, PollApply, PollClear,
              PollCrash, Crash
<1>3. ASSUME NEW c \in Clis, CliStep(c)
      PROVE  /\ UNCHANGED <<tokens, halfway>> /\ (UNCHANGED crashes \/ Crash)
             /\ DOMAIN final' = DOMAIN final
  BY <1>3 DEF CliStep, ApproveCheck, ApproveApply, CliCrash, Crash, Ruled
<1>4. ASSUME HumanStep
      PROVE  UNCHANGED <<tokens, halfway, crashes>> /\ DOMAIN final' = DOMAIN final
  BY <1>4 DEF HumanStep, TapLink, Show, CliReject, CliRedraft, DraftFill, Ruled
<1>5. ASSUME SenderStep
      PROVE  /\ UNCHANGED <<tokens, halfway>> /\ (UNCHANGED crashes \/ Crash)
             /\ DOMAIN final' = DOMAIN final
  BY <1>5 DEF SenderStep, SendPick, Send, Mark, SendCrash, Crash, Ruled
<1> QED BY <1>1, <1>2, <1>3, <1>4, <1>5 DEF Next

LEMMA RestTyped ==
  TypeOK /\ [Next]_vars => /\ tokens' \in [Ids -> LinkOrNot]
                           /\ cli' \in [Clis -> Ids \cup {None}]
                           /\ redrafted' \subseteq Ids /\ halfway' \subseteq Ids
                           /\ DOMAIN final' = Ids
                           /\ crashes' \in Nat
<1> SUFFICES ASSUME TypeOK, [Next]_vars
             PROVE  /\ tokens' \in [Ids -> LinkOrNot]
                    /\ cli' \in [Clis -> Ids \cup {None}]
                    /\ redrafted' \subseteq Ids /\ halfway' \subseteq Ids
                    /\ DOMAIN final' = Ids
                    /\ crashes' \in Nat
  OBVIOUS
<1> USE DEF TypeOK
<1>0. CASE UNCHANGED vars
  BY <1>0 DEF vars, history
<1>1. ASSUME NEW r \in Runs, SetToken(r)
      PROVE  tokens' \in [Ids -> LinkOrNot] /\ halfway' \subseteq Ids
  BY <1>1 DEF SetToken, RunOK, LinkOrNot
<1>2. ASSUME NEW c \in Clis, CliStep(c) PROVE cli' \in [Clis -> Ids \cup {None}]
  BY <1>2 DEF CliStep, ApproveCheck, ApproveApply, CliCrash
<1>3. ASSUME HumanStep PROVE redrafted' \subseteq Ids
  BY <1>3 DEF HumanStep, TapLink, Show, CliReject, CliRedraft, DraftFill, history
<1>4. ASSUME NEW r \in Runs, AttachLink(r) PROVE halfway' \subseteq Ids
  BY <1>4 DEF AttachLink
<1>5. ASSUME Crash PROVE crashes' \in Nat
  BY <1>5 DEF Crash
<1> QED BY <1>0, <1>1, <1>2, <1>3, <1>4, <1>5, Frames, MemoryFrame

\* Everything the flow keeps has its type, and a process holds a proposal, a link
\* or a decision exactly where the code has one in hand.
THEOREM ApprovalTypeCorrect == Spec => []TypeOK
<1>1. Init => TypeOK
  BY DEF Init, TypeOK, RelaisOK, RunOK, PollOK, SenderOK, RunIdle, PollIdle, SenderIdle,
         NoWork, LinkOrNot, Bodies, Q!Init, Q!TypeOK, Q!NewRow, Q!Row, Q!Statuses,
         Q!Absent, Q!Approvers
<1>2. TypeOK /\ [Next]_vars => TypeOK'
  BY QueueTyped, RelaisTyped, RunTyped, PollTyped, SenderTyped, RestTyped DEF TypeOK
<1> QED BY <1>1, <1>2, PTL DEF Spec

\* Each step is one call of the queue package or leaves the queue alone, as the
\* actions are written; so what the methods promise carries over to the commands.
LEMMA CallsOnly == Spec => Q!Spec
<1>1. Init => Q!Init
  BY DEF Init
<1> QED BY <1>1, QueueStep, ApprovalTypeCorrect, PTL DEF Spec, Q!Spec

\* The promises of the atomic queue hold of the commands, which only call it: a
\* pending proposal has copy, and a draft has none, for any commands.
THEOREM PendingCopy == Spec => []PendingHasBody
BY CallsOnly, BodyMatchesStatus, PTL DEF PendingHasBody

\* No command re-opens a decided proposal or touches its text.
THEOREM DecisionsStand == Spec => DecidedIsFrozen
BY CallsOnly, DecisionsFreezeText, PTL DEF DecidedIsFrozen

\* What is marked as sent is offered to no sender again.
THEOREM SentIsNotOfferedAgain == Spec => DispatchedNeverReoffered
BY CallsOnly, SentIsNotOffered, PTL DEF DispatchedNeverReoffered

-----------------------------------------------------------------------------
(* Sending once                                                               *)

\* Why SentOnce is inductive: a proposal that left is marked, or its sender died
\* before marking it, or the sender is at it; and what is picked has not left.
SendInv ==
  /\ \A id \in Ids : sent[id] > 0 => \/ queue[id].dispatched /\ Q!Present(id)
                                     \/ id \in lost
                                     \/ sender.pc = "sent" /\ sender.id = id
  /\ sender.pc = "picked" => sent[sender.id] = 0 \/ sender.id \in lost
  /\ sender.pc = "sent" => Q!Present(sender.id)
  /\ sender.pc = "picked" => Q!Present(sender.id)
  /\ SentOnce

\* No step removes a row or clears its dispatched_at.
LEMMA MarkKept ==
  ASSUME TypeOK, [Next]_vars, NEW i \in Ids, Q!Present(i)
  PROVE  Q!Present(i)' /\ (queue[i].dispatched => queue'[i].dispatched)
<1> SUFFICES ASSUME Q!TypeOK, Q!Next
             PROVE  Q!Present(i)' /\ (queue[i].dispatched => queue'[i].dispatched)
  BY QueueStep DEF TypeOK, Q!Present
<1> USE DEF Q!TypeOK, Q!Row, Q!Present, Q!Absent
<1>1. PICK id \in Ids : Q!Step(id)
  BY DEF Q!Next
<1> DEFINE Kept == Q!Present(i)' /\ (queue[i].dispatched => queue'[i].dispatched)
<1>2. ASSUME NEW b \in Bodies, Q!Add(id, b) PROVE Kept
  BY <1>2 DEF Q!Add
<1>3. ASSUME NEW st \in Q!Decided, NEW by \in Q!Approvers, Q!UpdateStatus(id, st, by)
      PROVE  Kept
  BY <1>3 DEF Q!UpdateStatus, Q!Decided, Q!Approved, Q!Rejected, Q!Dispatched
<1>4. ASSUME NEW l \in Links, Q!SetRelais(id, l) PROVE Kept
  BY <1>4 DEF Q!SetRelais
<1>5. ASSUME NEW b \in Bodies, Q!SetDraft(id, b) PROVE Kept
  BY <1>5 DEF Q!SetDraft, Q!Pending
<1>6. CASE Q!Redraft(id)
  BY <1>6 DEF Q!Redraft, Q!Drafting
<1> QED BY <1>1, <1>2, <1>3, <1>4, <1>5, <1>6 DEF Q!Step, Bodies

LEMMA SendStep == TypeOK /\ SendInv /\ [Next]_vars => SendInv'
<1> SUFFICES ASSUME TypeOK, SendInv, [Next]_vars PROVE SendInv'
  OBVIOUS
<1> USE DEF SendInv, SentOnce, TypeOK, SenderOK
<1>1. CASE UNCHANGED <<sender, sent, lost>>
  BY <1>1, MarkKept
<1>2. CASE SenderStep
  <2>1. ASSUME NEW id \in Ids, SendPick(id) PROVE SendInv'
    <3>1. ~queue[id].dispatched /\ Q!Present(id)
      BY <2>1 DEF SendPick, Q!ApprovedUnsent, Q!Present, Q!Approved, Q!Absent
    <3>2. UNCHANGED <<queue, sent, lost>> /\ sender'.pc = "picked" /\ sender'.id = id
          /\ sender.pc = "idle"
      BY <2>1 DEF SendPick
    <3>3. sent[id] = 0 \/ id \in lost
      BY <3>1, <3>2
    <3> QED BY <3>1, <3>2, <3>3 DEF Q!Present
  <2>2. CASE Send
    BY <2>2 DEF Send, Q!Present
  <2>3. CASE Mark
    <3>0. PICK i \in Ids : i = sender.id /\ Q!Present(i)
      BY <2>3 DEF Mark
    <3>1. queue'[i].dispatched
      <4>1. CASE queue[i].dispatched
        BY <3>0, <4>1, MarkKept
      <4>2. CASE ~queue[i].dispatched
        <5>1. Q!UpdateStatus(i, Q!Dispatched, "nobody")
          BY <2>3, <3>0, <4>2 DEF Mark
        <5> QED BY <5>1 DEF Q!UpdateStatus, Q!TypeOK, Q!Row
      <4> QED BY <4>1, <4>2
    <3>2. \A id \in Ids : Q!Present(id) =>
            Q!Present(id)' /\ (queue[id].dispatched => queue'[id].dispatched)
      BY MarkKept
    <3>3. UNCHANGED <<sent, lost>> /\ (sender' = sender \/ sender'.pc = "idle")
      BY <2>3 DEF Mark, SenderIdle
    <3>4. CASE sender' = sender
      BY <2>3, <3>0, <3>1, <3>2, <3>3, <3>4 DEF Mark, Q!Present
    <3>5. CASE sender'.pc = "idle"
      BY <2>3, <3>0, <3>1, <3>2, <3>3, <3>5 DEF Mark
    <3> QED BY <3>3, <3>4, <3>5
  <2>4. CASE SendCrash
    BY <2>4 DEF SendCrash, Crash, SenderIdle, Q!Present
  <2> QED BY <1>2, <2>1, <2>2, <2>3, <2>4 DEF SenderStep
<1> QED BY <1>1, <1>2, Frames DEF vars

\* A proposal leaves at most once unless a sender died between sending it and
\* `fleet dispatched`, however many decisions arrive late.
THEOREM SentAtMostOnce == Spec => []SentOnce
<1>1. Init => SendInv
  BY DEF Init, SendInv, SentOnce, SenderIdle
<1>2. SendInv => SentOnce
  BY DEF SendInv
<1> QED BY <1>1, <1>2, SendStep, ApprovalTypeCorrect, PTL DEF Spec

-----------------------------------------------------------------------------
(* What is approved is what was tapped                                        *)

\* The copy of proposal id is settled: written, and not being rewritten.
Settled(id) == queue[id].status \notin {Q!Absent, Q!Drafting}

\* What the human saw still stands, unless the proposal was redrafted since.
Stands(m) == m.id \in redrafted \/ (Settled(m.id) /\ queue[m.id].body = m.text)

\* Every link in anyone's hands is the link of the proposal it is held for.
LinkInv ==
  /\ \A id \in Ids : queue[id].link # NoLink => owner[queue[id].link] = id
  /\ \A r \in Runs : run[r].pc \in {"token", "link"} => owner[run[r].link] = run[r].id
  /\ \A p \in Pollers, id \in Ids :
       poll[p].work[id] # NoLink => owner[poll[p].work[id]] = id
  /\ \A s \in shown : owner[s.link] = s.id
  /\ \A m \in taps : owner[m.link] = m.id

TapInv ==
  /\ LinkInv
  /\ \A s \in shown : Stands(s)
  /\ \A m \in taps : Stands(m)
  /\ inbox \subseteq taps
  /\ \A p \in Pollers : poll[p].pc = "apply" =>
       poll[p].found.tap \in taps /\ poll[p].found.tap.id = poll[p].found.id
  /\ RelaisApprovalIsATap

\* What UpdateStatus does to a row.
LEMMA UpdateEffect ==
  ASSUME Q!TypeOK, NEW id \in Ids, NEW st \in Q!Decided, NEW by \in {"relais", "cli", "nobody"},
         Q!UpdateStatus(id, st, by), NEW i \in Ids
  PROVE  /\ queue'[i].link = queue[i].link
         /\ i # id => queue'[i] = queue[i]
         /\ i = id /\ st = Q!Approved => queue'[i].approver = by
         /\ i = id => queue'[i].status = st
<1> USE DEF Q!TypeOK, Q!Row
<1>1. queue' = [queue EXCEPT ![id].status = st,
                             ![id].approver = IF st = Q!Approved THEN by ELSE @,
                             ![id].dispatched = IF st = Q!Dispatched THEN TRUE ELSE @]
  BY DEF Q!UpdateStatus
<1>2. i # id => queue'[i] = queue[i]
  BY <1>1
<1>3. i = id => queue'[i].link = queue[i].link
  BY <1>1
<1>4. i = id => queue'[i].status = st
  BY <1>1
<1>5. i = id /\ st = Q!Approved => queue'[i].approver = by
  BY <1>1
<1> QED BY <1>2, <1>3, <1>4, <1>5

\* Only CliRedraft unsettles copy, and it leaves a trace.
LEMMA SettledKept ==
  ASSUME TypeOK, [Next]_vars, NEW i \in Ids, Settled(i)
  PROVE  /\ redrafted \subseteq redrafted'
         /\ i \in redrafted' \/ (Settled(i)' /\ queue'[i].body = queue[i].body)
<1>1. redrafted \subseteq redrafted'
  BY Frames DEF vars, HumanStep, TapLink, Show, CliReject, CliRedraft, DraftFill, history
<1> DEFINE Kept == Settled(i)' /\ queue'[i].body = queue[i].body
<1> USE DEF TypeOK, Q!TypeOK, Q!Row, Settled, Q!Absent, Q!Drafting
<1>2. CASE UNCHANGED queue
  BY <1>1, <1>2
<1>3. CASE Next
  <2>1. ASSUME NEW id \in Ids, NEW b \in Bodies, Q!Add(id, b) PROVE Kept
    BY <2>1 DEF Q!Add, Q!Present
  <2>2. ASSUME NEW r \in Runs, AttachLink(r) PROVE Kept
    BY <2>2, HeldByRun DEF AttachLink, Q!SetRelais
  <2>3. ASSUME NEW p \in Pollers, PollApply(p) PROVE Kept
    <3>1. PICK id \in Ids, st \in {Q!Approved, Q!Rejected} : Q!UpdateStatus(id, st, "relais")
      BY <2>3, HeldByPoll DEF PollApply
    <3> QED BY <3>1 DEF Q!UpdateStatus, Q!Approved, Q!Rejected
  <2>4. ASSUME NEW id \in Ids, NEW st \in Q!Decided, Q!UpdateStatus(id, st, "cli")
        PROVE  Kept
    BY <2>4 DEF Q!UpdateStatus, Q!Decided, Q!Approved, Q!Rejected, Q!Dispatched
  <2>5. ASSUME NEW id \in Ids, CliRedraft(id) PROVE i \in redrafted' \/ Kept
    BY <2>5 DEF CliRedraft, Q!Redraft
  <2>6. ASSUME NEW id \in Ids, NEW b \in Bodies, Q!SetDraft(id, b) PROVE Kept
    BY <2>6 DEF Q!SetDraft
  <2> QED BY <1>1, <1>2, <1>3, <2>1, <2>2, <2>3, <2>4, <2>5, <2>6, QueueChanges
          DEF QueueChange
<1> QED BY <1>2, <1>3 DEF vars

\* An inbox is minted for one proposal and never handed to another.
LEMMA OwnerKept ==
  ASSUME TypeOK, [Next]_vars, NEW l \in Links, owner[l] \in Ids
  PROVE  owner'[l] = owner[l]
<1>1. owner' = owner \/ \E r \in Runs, k \in Links : AttachMint(r, k)
  BY DEF vars, relais, Next, RunStep, RunAdd, AttachFails, SetToken, AttachLink, RunCrash,
         PollStep, PollList, Lists, Linked, PollFetch, PollError, PollStop, PollApply, PollClear,
         PollCrash, CliStep, ApproveCheck, ApproveApply, CliCrash, HumanStep, TapLink,
         Show, CliReject, CliRedraft, DraftFill, SenderStep, SendPick, Send, Mark,
         SendCrash, Crash
<1>2. ASSUME NEW r \in Runs, NEW k \in Links, AttachMint(r, k)
      PROVE  owner'[l] = owner[l]
  BY <1>2, NoneAssumption DEF AttachMint, TypeOK, RelaisOK
<1> QED BY <1>1, <1>2

LEMMA LinkStep == TypeOK /\ LinkInv /\ inbox \subseteq taps /\ [Next]_vars => LinkInv'
<1> SUFFICES ASSUME TypeOK, LinkInv, [Next]_vars PROVE LinkInv'
  OBVIOUS
<1>0. \A l \in Links : owner[l] \in Ids => owner'[l] = owner[l]
  BY OwnerKept
<1>1. \A id \in Ids : queue'[id].link # NoLink => owner'[queue'[id].link] = id
  <2> SUFFICES ASSUME NEW i \in Ids, queue'[i].link # NoLink
               PROVE  owner'[queue'[i].link] = i
    OBVIOUS
  <2>1. CASE queue'[i].link = queue[i].link
    <3>1. queue[i].link \in Links
      BY <2>1 DEF TypeOK, Q!TypeOK, Q!Row
    <3> QED BY <1>0, <2>1, <3>1 DEF LinkInv
  <2>2. CASE queue'[i].link # queue[i].link
    <3>1. PICK r \in Runs : AttachLink(r) /\ run[r].id = i /\ queue'[i].link = run[r].link
      <4> USE DEF TypeOK, Q!TypeOK, Q!Row
      <4>1. ASSUME NEW id \in Ids, NEW b \in Bodies PROVE ~Q!Add(id, b)
        BY <2>2 DEF Q!Add, Q!NewRow
      <4>2. ASSUME NEW id \in Ids, NEW st \in Q!Decided, NEW by \in {"relais", "cli"}
            PROVE  ~Q!UpdateStatus(id, st, by)
        BY <2>2, UpdateEffect
      <4>3. ASSUME NEW id \in Ids, CliRedraft(id) PROVE FALSE
        BY <2>2, <4>3 DEF CliRedraft, Q!Redraft
      <4>4. ASSUME NEW id \in Ids, NEW b \in Bodies PROVE ~Q!SetDraft(id, b)
        BY <2>2 DEF Q!SetDraft
      <4>5. ASSUME NEW p \in Pollers, PollApply(p) PROVE FALSE
        BY <4>2, <4>5, HeldByPoll DEF PollApply, Q!Decided
      <4>6. PICK r \in Runs : AttachLink(r)
        BY <2>2, <4>1, <4>2, <4>3, <4>4, <4>5, QueueChanges DEF QueueChange, vars
      <4>7. run[r].id = i /\ queue'[i].link = run[r].link
        BY <2>2, <4>6, HeldByRun DEF AttachLink, Q!SetRelais
      <4> QED BY <4>6, <4>7
    <3>2. run[r].link \in Links /\ owner[run[r].link] = i
      BY <3>1, HeldByRun DEF AttachLink, LinkInv
    <3> QED BY <1>0, <3>1, <3>2
  <2> QED BY <2>1, <2>2
<1>2. \A r \in Runs : run'[r].pc \in {"token", "link"} => owner'[run'[r].link] = run'[r].id
  <2> SUFFICES ASSUME NEW k \in Runs, run'[k].pc \in {"token", "link"}
               PROVE  owner'[run'[k].link] = run'[k].id
    OBVIOUS
  <2> USE DEF TypeOK, RunOK
  <2>1. CASE run'[k].pc = run[k].pc /\ run'[k].link = run[k].link /\ run'[k].id = run[k].id
    BY <1>0, <2>1 DEF LinkInv
  <2>2. ASSUME NEW r \in Runs, RunStep(r) PROVE owner'[run'[k].link] = run'[k].id
    <3>1. ASSUME NEW id \in Ids, NEW b \in Bodies, RunAdd(r, id, b)
          PROVE  owner'[run'[k].link] = run'[k].id
      BY <2>1, <3>1 DEF RunAdd
    <3>2. ASSUME NEW l \in Links, AttachMint(r, l)
          PROVE  owner'[run'[k].link] = run'[k].id
      BY <2>1, <3>2 DEF AttachMint, RelaisOK
    <3>3. CASE SetToken(r)
      BY <1>0, <3>3 DEF SetToken, LinkInv
    <3>4. CASE AttachFails(r) \/ AttachLink(r) \/ RunCrash(r)
      <4>1. run' = [run EXCEPT ![r] = RunIdle] /\ RunIdle.pc = "idle"
        BY <3>4 DEF AttachFails, AttachLink, RunCrash, RunIdle
      <4> QED BY <2>1, <4>1
    <3> QED BY <2>2, <3>1, <3>2, <3>3, <3>4 DEF RunStep
  <2> QED BY <2>1, <2>2, Frames DEF vars
<1>3. \A p \in Pollers, id \in Ids :
        poll'[p].work[id] # NoLink => owner'[poll'[p].work[id]] = id
  <2> SUFFICES ASSUME NEW q \in Pollers, NEW i \in Ids, poll'[q].work[i] # NoLink
               PROVE  owner'[poll'[q].work[i]] = i
    OBVIOUS
  <2> USE DEF TypeOK, PollOK, LinkOrNot
  <2>1. CASE poll'[q].work[i] = poll[q].work[i]
    BY <1>0, <2>1 DEF LinkInv
  <2>2. ASSUME NEW p \in Pollers, PollStep(p) PROVE owner'[poll'[q].work[i]] = i
    <3>1. CASE PollList(p)
      <4>1. CASE q # p
        BY <2>1, <3>1, <4>1 DEF PollList, Lists, Linked
      <4>2. CASE q = p
        <5>1. poll'[q].work[i] = queue[i].link /\ queue[i].link # NoLink
          BY <3>1, <4>2 DEF PollList, Lists, Linked
        <5> QED BY <1>0, <5>1 DEF LinkInv, Q!TypeOK, Q!Row
      <4> QED BY <4>1, <4>2
    <3>2. ASSUME NEW id \in Ids, PollFetch(p, id) \/ PollError(p, id)
          PROVE  owner'[poll'[q].work[i]] = i
      BY <2>1, <3>2 DEF PollFetch, PollError
    <3>3. CASE PollApply(p) \/ PollClear(p)
      BY <2>1, <3>3 DEF PollApply, PollClear
    <3>4. CASE PollStop(p) \/ PollCrash(p)
      BY <2>1, <3>4 DEF PollStop, PollCrash, PollIdle, NoWork
    <3> QED BY <2>2, <3>1, <3>2, <3>3, <3>4 DEF PollStep
  <2> QED BY <2>1, <2>2, Frames DEF vars
<1>4. (\A s \in shown' : owner'[s.link] = s.id) /\ (\A m \in taps' : owner'[m.link] = m.id)
  <2> USE DEF TypeOK, RelaisOK, Copy, Tap
  <2>1. CASE UNCHANGED <<shown, taps>>
    BY <1>0, <2>1 DEF LinkInv
  <2>2. ASSUME NEW id \in Ids, Show(id)
        PROVE  /\ \A s \in shown' : owner'[s.link] = s.id
               /\ \A m \in taps' : owner'[m.link] = m.id
    BY <2>2 DEF Show, LinkInv
  <2>3. ASSUME NEW s \in shown, NEW v \in Verdicts, TapLink(s, v)
        PROVE  /\ \A t \in shown' : owner'[t.link] = t.id
               /\ \A m \in taps' : owner'[m.link] = m.id
    BY <2>3 DEF TapLink, LinkInv
  <2>4. HumanStep => \/ UNCHANGED <<shown, taps>>
                     \/ \E id \in Ids : Show(id)
                     \/ \E s \in shown, v \in Verdicts : TapLink(s, v)
    BY DEF HumanStep, CliReject, CliRedraft, DraftFill, relais
  <2> QED BY <2>1, <2>2, <2>3, <2>4, Frames DEF vars, relais
<1> QED BY <1>1, <1>2, <1>3, <1>4 DEF LinkInv

\* An approval that relais-poll has just applied comes from the tap it holds.
LEMMA NewApproval ==
  ASSUME TypeOK, [Next]_vars, NEW i \in Ids,
         queue'[i].status = Q!Approved, queue'[i].approver = "relais",
         ~(queue[i].status = Q!Approved /\ queue[i].approver = "relais")
  PROVE  \E p \in Pollers : /\ PollApply(p) /\ poll[p].found.id = i
                            /\ poll[p].found.tap.verdict = Q!Approved
<1> USE DEF TypeOK, Q!TypeOK, Q!Row, Q!Approved, Q!Pending, Q!Drafting
<1>1. ASSUME NEW id \in Ids, NEW b \in Bodies PROVE ~Q!Add(id, b)
  BY DEF Q!Add, Q!NewRow
<1>2. ASSUME NEW id \in Ids, NEW st \in Q!Decided, Q!UpdateStatus(id, st, "cli") PROVE FALSE
  BY <1>2, UpdateEffect
<1>3. ASSUME NEW id \in Ids, CliRedraft(id) PROVE FALSE
  BY <1>3 DEF CliRedraft, Q!Redraft
<1>4. ASSUME NEW id \in Ids, NEW b \in Bodies PROVE ~Q!SetDraft(id, b)
  BY DEF Q!SetDraft
<1>5. ASSUME NEW r \in Runs, AttachLink(r) PROVE FALSE
  BY <1>5, HeldByRun DEF AttachLink, Q!SetRelais
<1>6. PICK p \in Pollers : PollApply(p)
  BY <1>1, <1>2, <1>3, <1>4, <1>5, QueueChanges DEF QueueChange, vars
<1>7. PICK id \in Ids, st \in {Q!Approved, Q!Rejected} :
        /\ id = poll[p].found.id /\ st = poll[p].found.tap.verdict
        /\ Q!UpdateStatus(id, st, "relais")
  BY <1>6, HeldByPoll DEF PollApply
<1>8. id = i /\ st = Q!Approved
  BY <1>7, UpdateEffect DEF Q!Decided, Q!Rejected
<1> QED BY <1>6, <1>7, <1>8

LEMMA TapStep == TypeOK /\ TapInv /\ [Next]_vars => TapInv'
<1> SUFFICES ASSUME TypeOK, TapInv, [Next]_vars PROVE TapInv'
  OBVIOUS
<1>1. LinkInv'
  BY LinkStep DEF TapInv
<1>2. ASSUME NEW m, m.id \in Ids, Stands(m) PROVE Stands(m)'
  BY <1>2, SettledKept, Frames DEF Stands, Settled, vars, HumanStep, TapLink, Show,
     CliReject, CliRedraft, DraftFill, history
<1>3. \A s \in shown' : Stands(s)'
  <2> SUFFICES ASSUME NEW s \in shown' PROVE Stands(s)'
    OBVIOUS
  <2>1. CASE s \in shown
    BY <1>2, <2>1 DEF TapInv, TypeOK, RelaisOK, Copy
  <2>2. CASE s \notin shown
    <3>1. PICK id \in Ids : Show(id)
      BY <2>2, Frames DEF vars, HumanStep, TapLink, CliReject, CliRedraft, DraftFill, relais
    <3>2. s = [id |-> id, link |-> queue[id].link, text |-> queue[id].body]
      BY <2>2, <3>1 DEF Show
    <3> QED BY <3>1, <3>2 DEF Show, Stands, Settled, Q!Pending, Q!Absent, Q!Drafting
  <2> QED BY <2>1, <2>2
<1>4. \A m \in taps' : Stands(m)'
  <2> SUFFICES ASSUME NEW m \in taps' PROVE Stands(m)'
    OBVIOUS
  <2>1. CASE m \in taps
    BY <1>2, <2>1 DEF TapInv, TypeOK, RelaisOK, Tap
  <2>2. CASE m \notin taps
    <3>1. PICK s \in shown, v \in Verdicts : TapLink(s, v)
      BY <2>2, Frames DEF vars, HumanStep, Show, CliReject, CliRedraft, DraftFill, relais
    <3>2. m.id = s.id /\ m.text = s.text
      BY <2>2, <3>1 DEF TapLink
    <3>3. Stands(s)'
      BY <1>2 DEF TapInv, TypeOK, RelaisOK, Copy
    <3> QED BY <3>2, <3>3 DEF Stands
  <2> QED BY <2>1, <2>2
<1>5. inbox' \subseteq taps' /\ taps \subseteq taps'
  <2>1. CASE UNCHANGED relais
    BY <2>1 DEF relais, TapInv
  <2>2. ASSUME NEW r \in Runs, NEW l \in Links, AttachMint(r, l)
        PROVE  inbox' \subseteq taps' /\ taps \subseteq taps'
    BY <2>2 DEF AttachMint, TapInv
  <2>3. ASSUME NEW id \in Ids, Show(id)
        PROVE  inbox' \subseteq taps' /\ taps \subseteq taps'
    BY <2>3 DEF Show, TapInv
  <2>4. ASSUME NEW s \in shown, NEW v \in Verdicts, TapLink(s, v)
        PROVE  inbox' \subseteq taps' /\ taps \subseteq taps'
    BY <2>4 DEF TapLink, TapInv
  <2>5. ASSUME NEW p \in Pollers, PollClear(p)
        PROVE  inbox' \subseteq taps' /\ taps \subseteq taps'
    BY <2>5 DEF PollClear, TapInv
  <2> QED BY <2>1, <2>2, <2>3, <2>4, <2>5, RelaisFrame DEF vars, relais
<1>6. \A p \in Pollers : poll'[p].pc = "apply" =>
        poll'[p].found.tap \in taps' /\ poll'[p].found.tap.id = poll'[p].found.id
  <2> SUFFICES ASSUME NEW q \in Pollers, poll'[q].pc = "apply"
               PROVE  /\ poll'[q].found.tap \in taps'
                      /\ poll'[q].found.tap.id = poll'[q].found.id
    OBVIOUS
  <2> USE DEF TypeOK, PollOK
  <2>1. CASE poll'[q].pc = poll[q].pc /\ poll'[q].found = poll[q].found
    BY <1>5, <2>1 DEF TapInv
  <2>2. ASSUME NEW p \in Pollers, PollStep(p), q # p
        PROVE  poll'[q].pc = poll[q].pc /\ poll'[q].found = poll[q].found
    BY <2>2 DEF PollStep, PollList, Lists, PollFetch, PollError, PollStop, PollApply, PollClear,
                PollCrash
  <2>3. ASSUME PollStep(q)
        PROVE  \E id \in Ids : PollFetch(q, id) /\ Decisions(q, id) # {}
    BY <2>3 DEF PollStep, PollList, Lists, PollFetch, PollError, PollStop, PollApply, PollClear,
                PollCrash, PollIdle, Walking
  <2>4. ASSUME NEW id \in Ids, PollFetch(q, id)
        PROVE  /\ poll'[q].found.tap \in taps'
               /\ poll'[q].found.tap.id = poll'[q].found.id
    <3>1. PICK m \in Decisions(q, id) : poll'[q].found = [id |-> id, tap |-> m]
      BY <2>4 DEF PollFetch, Walking
    <3>2. m \in taps /\ owner[m.link] = m.id /\ owner[poll[q].work[id]] = id
      BY <2>4, <3>1 DEF Decisions, TapInv, LinkInv, PollFetch
    <3>3. m.id = id
      BY <3>1, <3>2 DEF Decisions
    <3> QED BY <1>5, <3>1, <3>2, <3>3
  <2> QED BY <2>1, <2>2, <2>3, <2>4, Frames DEF vars
<1>7. RelaisApprovalIsATap'
  <2> SUFFICES ASSUME NEW i \in Ids, queue'[i].status = Q!Approved,
                      queue'[i].approver = "relais"
               PROVE  \E m \in taps' : /\ m.id = i /\ m.verdict = Q!Approved
                                       /\ i \in redrafted' \/ m.text = queue'[i].body
    BY DEF RelaisApprovalIsATap
  <2>1. CASE queue[i].status = Q!Approved /\ queue[i].approver = "relais"
    <3>1. PICK m \in taps : /\ m.id = i /\ m.verdict = Q!Approved
                            /\ i \in redrafted \/ m.text = queue[i].body
      BY <2>1 DEF TapInv, RelaisApprovalIsATap
    <3>2. Settled(i)
      BY <2>1 DEF Settled, Q!Approved, Q!Absent, Q!Drafting
    <3>3. i \in redrafted' \/ m.text = queue'[i].body
      BY <3>1, <3>2, SettledKept
    <3>4. m \in taps'
      BY <1>5
    <3> QED BY <3>1, <3>3, <3>4
  <2>2. CASE ~(queue[i].status = Q!Approved /\ queue[i].approver = "relais")
    <3>1. PICK p \in Pollers : /\ PollApply(p) /\ poll[p].found.id = i
                               /\ poll[p].found.tap.verdict = Q!Approved
      BY <2>2, NewApproval
    <3>2. poll[p].found.tap \in taps /\ poll[p].found.tap.id = i
      BY <3>1 DEF PollApply, TapInv
    <3>3. Stands(poll[p].found.tap) /\ redrafted' = redrafted
      BY <3>1, <3>2 DEF TapInv, PollApply
    <3>4. i \in redrafted \/ (Settled(i) /\ queue[i].body = poll[p].found.tap.text)
      BY <3>2, <3>3 DEF Stands
    <3>5. i \in redrafted' \/ poll[p].found.tap.text = queue'[i].body
      BY <3>3, <3>4, SettledKept
    <3> QED BY <1>5, <3>1, <3>2, <3>5
  <2> QED BY <2>1, <2>2
<1> QED BY <1>1, <1>3, <1>4, <1>5, <1>6, <1>7 DEF TapInv

\* A proposal approved through relais was approved by a tap on its own link, and
\* unless it was redrafted its body is the text that stood over that link.
THEOREM ApprovalsAreTaps == Spec => []RelaisApprovalIsATap
<1>1. Init => TapInv
  BY DEF Init, TapInv, LinkInv, RelaisApprovalIsATap, RunIdle, PollIdle, NoWork, Q!Init,
         Q!NewRow, Q!Absent, Q!Approved
<1>2. TapInv => RelaisApprovalIsATap
  BY DEF TapInv
<1> QED BY <1>1, <1>2, TapStep, ApprovalTypeCorrect, PTL DEF Spec

-----------------------------------------------------------------------------
(* What is sent is what was approved                                          *)

\* A decided proposal stays decided and keeps its text through any command.
LEMMA DecidedKept ==
  ASSUME TypeOK, [Next]_vars, NEW i \in Ids, queue[i].status \in Q!Decided
  PROVE  queue'[i].status \in Q!Decided /\ queue'[i].body = queue[i].body
<1> USE DEF TypeOK, Q!TypeOK, Q!Row
<1>1. Settled(i)
  BY DEF Settled, Q!Decided, Q!Approved, Q!Rejected, Q!Dispatched, Q!Absent, Q!Drafting
<1> DEFINE Kept == queue'[i].status \in Q!Decided /\ queue'[i].body = queue[i].body
<1>2. CASE UNCHANGED queue
  BY <1>2
<1>3. ASSUME Q!Next PROVE Kept
  <2>1. PICK id \in Ids : Q!Step(id)
    BY <1>3 DEF Q!Next
  <2> USE DEF Q!Decided, Q!Approved, Q!Rejected, Q!Dispatched, Q!Absent, Q!Drafting,
              Q!Pending
  <2>2. ASSUME NEW b \in Bodies, Q!Add(id, b) PROVE Kept
    BY <2>2 DEF Q!Add, Q!Present
  <2>3. ASSUME NEW st \in Q!Decided, NEW by \in Q!Approvers, Q!UpdateStatus(id, st, by)
        PROVE  Kept
    BY <2>3 DEF Q!UpdateStatus
  <2>4. ASSUME NEW l \in Links, Q!SetRelais(id, l) PROVE Kept
    BY <2>4 DEF Q!SetRelais
  <2>5. ASSUME NEW b \in Bodies, Q!SetDraft(id, b) PROVE Kept
    BY <2>5 DEF Q!SetDraft
  <2>6. CASE Q!Redraft(id)
    BY <2>6 DEF Q!Redraft
  <2> QED BY <2>1, <2>2, <2>3, <2>4, <2>5, <2>6 DEF Q!Step, Bodies
<1> QED BY <1>2, <1>3, QueueStep

\* Between picking a proposal and marking it, the sender's text is the text of the
\* row: nothing rewrites copy that is on its way out.
THEOREM SentTextStands == Spec => []SentTextIsApproved
<1>1. Init => SentTextIsApproved
  BY DEF Init, SentTextIsApproved, SenderIdle
<1>2. TypeOK /\ SentTextIsApproved /\ [Next]_vars => SentTextIsApproved'
  <2> SUFFICES ASSUME TypeOK, SentTextIsApproved, [Next]_vars PROVE SentTextIsApproved'
    OBVIOUS
  <2>1. CASE \/ sender' = sender
             \/ sender' = [sender EXCEPT !.pc = "sent"] /\ sender.pc = "picked"
    <3>1. CASE sender.pc # "idle"
      <4>1. /\ queue'[sender.id].status \in Q!Decided
            /\ queue'[sender.id].body = sender.text
        BY <3>1, DecidedKept DEF SentTextIsApproved, TypeOK, SenderOK
      <4> QED BY <2>1, <4>1 DEF SentTextIsApproved, TypeOK, SenderOK
    <3>2. CASE sender.pc = "idle"
      BY <2>1, <3>2 DEF SentTextIsApproved
    <3> QED BY <3>1, <3>2
  <2>2. CASE sender' = SenderIdle
    BY <2>2 DEF SenderIdle, SentTextIsApproved
  <2>3. ASSUME NEW id \in Ids, SendPick(id) PROVE SentTextIsApproved'
    BY <2>3 DEF SendPick, SentTextIsApproved, TypeOK, Q!ApprovedUnsent, Q!Decided
  <2>4. CASE Send
    BY <2>1, <2>4 DEF Send
  <2>5. CASE Mark
    <3>1. sender' = sender \/ sender' = SenderIdle
      BY <2>5 DEF Mark
    <3> QED BY <2>1, <2>2, <3>1
  <2>6. CASE SendCrash
    BY <2>2, <2>6 DEF SendCrash
  <2>7. SenderStep \/ sender' = sender
    BY Frames DEF vars
  <2> QED BY <2>1, <2>3, <2>4, <2>5, <2>6, <2>7 DEF SenderStep
<1> QED BY <1>1, <1>2, ApprovalTypeCorrect, PTL DEF Spec

-----------------------------------------------------------------------------
(* A link and its token                                                       *)

\* What Attach has done so far: SetToken will write the map as it is now, and the
\* link it is about to publish has its token.
AttachInv ==
  \A r \in Runs : /\ run[r].pc = "token" => run[r].snap = tokens
                  /\ run[r].pc = "link" => tokens[run[r].id] = run[r].link

TokenInv == LinkHasToken /\ AttachInv

OneRun == \A r1, r2 \in Runs : r1 = r2

\* The only method that gives a row a link is SetRelais, which Attach calls.
LEMMA LinksCome ==
  ASSUME TypeOK, Next
  PROVE  \/ \A id \in Ids : queue'[id].link \in {queue[id].link, NoLink}
         \/ \E r \in Runs : AttachLink(r)
<1> USE DEF TypeOK, Q!TypeOK, Q!Row
<1> DEFINE Kept == \A id \in Ids : queue'[id].link \in {queue[id].link, NoLink}
<1>1. CASE UNCHANGED queue
  BY <1>1
<1>2. ASSUME NEW id \in Ids, NEW b \in Bodies, Q!Add(id, b) PROVE Kept
  BY <1>2 DEF Q!Add, Q!NewRow
<1>3. ASSUME NEW p \in Pollers, PollApply(p) PROVE Kept
  <2>1. PICK id \in Ids, st \in {Q!Approved, Q!Rejected} : Q!UpdateStatus(id, st, "relais")
    BY <1>3, HeldByPoll DEF PollApply
  <2> QED BY <2>1 DEF Q!UpdateStatus
<1>4. ASSUME NEW id \in Ids, NEW st \in Q!Decided, Q!UpdateStatus(id, st, "cli") PROVE Kept
  BY <1>4 DEF Q!UpdateStatus
<1>5. ASSUME NEW id \in Ids, CliRedraft(id) PROVE Kept
  BY <1>5 DEF CliRedraft, Q!Redraft
<1>6. ASSUME NEW id \in Ids, NEW b \in Bodies, Q!SetDraft(id, b) PROVE Kept
  BY <1>6 DEF Q!SetDraft
<1> QED BY <1>1, <1>2, <1>3, <1>4, <1>5, <1>6, QueueChanges DEF QueueChange

\* With one run, what Attach holds stays true of the tokens.
LEMMA AttachStep ==
  ASSUME OneRun, TypeOK, AttachInv, [Next]_vars
  PROVE  AttachInv'
<1> USE DEF TypeOK, AttachInv
<1>1. CASE UNCHANGED <<run, tokens>>
  BY <1>1
<1>2. ASSUME NEW r \in Runs, RunStep(r), Runs = {r} PROVE AttachInv'
  <2> USE <1>2 DEF RunOK
  <2>1. ASSUME NEW id \in Ids, NEW b \in Bodies, RunAdd(r, id, b) PROVE AttachInv'
    BY <2>1 DEF RunAdd
  <2>2. ASSUME NEW l \in Links, AttachMint(r, l) PROVE AttachInv'
    BY <2>2 DEF AttachMint
  <2>3. CASE SetToken(r)
    BY <2>3 DEF SetToken
  <2>4. CASE AttachFails(r) \/ AttachLink(r) \/ RunCrash(r)
    BY <2>4 DEF AttachFails, AttachLink, RunCrash, RunIdle
  <2> QED BY <2>1, <2>2, <2>3, <2>4 DEF RunStep
<1>3. ASSUME Next, ~UNCHANGED <<run, tokens>> PROVE \E r \in Runs : RunStep(r)
  BY <1>3, Frames, MemoryFrame DEF RunStep
<1>4. \A r \in Runs : Runs = {r}
  BY DEF OneRun
<1> QED BY <1>1, <1>2, <1>3, <1>4 DEF vars

\* When one `fleet run` at a time attaches links, the token of a proposal is that of
\* its link, but for an attach that stopped half-way: SetToken writes the whole map it
\* read, nobody wrote in between, and so it takes no other proposal's token away.
THEOREM LinksHaveTokens ==
  ASSUME OneRun
  PROVE  Spec => []LinkHasToken
<1>1. Init => TokenInv
  BY DEF Init, TokenInv, LinkHasToken, AttachInv, RunIdle, Q!Init, Q!NewRow
<1>2. TypeOK /\ TokenInv /\ [Next]_vars => TokenInv'
  <2> SUFFICES ASSUME TypeOK, LinkHasToken, AttachInv, [Next]_vars PROVE LinkHasToken'
    BY AttachStep DEF TokenInv
  <2> USE DEF TypeOK, LinkHasToken
  <2>1. CASE UNCHANGED vars
    BY <2>1 DEF vars, history
  <2>2. ASSUME NEW r \in Runs, SetToken(r) PROVE LinkHasToken'
    <3>1. /\ run[r].id \in Ids /\ UNCHANGED queue /\ halfway' = halfway \cup {run[r].id}
          /\ tokens' = [tokens EXCEPT ![run[r].id] = run[r].link]
      BY <2>2 DEF SetToken, RunOK, AttachInv
    <3> QED BY <3>1
  <2>3. ASSUME NEW r \in Runs, AttachLink(r) PROVE LinkHasToken'
    <3>1. /\ run[r].id \in Ids /\ tokens[run[r].id] = run[r].link /\ UNCHANGED tokens
          /\ halfway' = halfway \ {run[r].id}
      BY <2>3, HeldByRun DEF AttachLink, AttachInv
    <3>2. queue'[run[r].id].link = run[r].link
      BY <2>3, <3>1 DEF AttachLink, Q!SetRelais, Q!TypeOK, Q!Row
    <3>3. \A id \in Ids \ {run[r].id} : queue'[id] = queue[id]
      BY <2>3, <3>1 DEF AttachLink, Q!SetRelais, Q!TypeOK, Q!Row
    <3> QED BY <3>1, <3>2, <3>3
  <2>4. ASSUME UNCHANGED <<tokens, halfway>>,
               \A id \in Ids : queue'[id].link \in {queue[id].link, NoLink}
        PROVE  LinkHasToken'
    BY <2>4
  <2> QED BY <2>1, <2>2, <2>3, <2>4, LinksCome, MemoryFrame
<1>3. TokenInv => LinkHasToken
  BY DEF TokenInv
<1> QED BY <1>1, <1>2, <1>3, ApprovalTypeCorrect, PTL DEF Spec

-----------------------------------------------------------------------------
(* A decision that stands                                                     *)

\* A poll that holds a decision has taken its proposal off the list.  What is final
\* is what the row says, and no poll is at it.
FinalInv ==
  /\ \A p \in Pollers : poll[p].pc = "apply" => poll[p].work[poll[p].found.id] = NoLink
  /\ \A id \in Ids : final[id] # None => /\ queue[id].status = final[id]
                                         /\ queue[id].status \in Q!Decided
                                         /\ Handling(id) = {}

\* How a decision comes about: by a command, by a poll, or not at all.
LEMMA Rulings ==
  ASSUME TypeOK, Next
  PROVE  \/ \E id \in Ids, st \in Q!Decided, by \in {"cli", "nobody"} :
              Q!UpdateStatus(id, st, by) /\ final' = Ruled(id, st) /\ UNCHANGED poll
         \/ \E p \in Pollers : PollApply(p)
         \/ /\ UNCHANGED final
            /\ \A id \in Ids : queue[id].status \in Q!Decided =>
                                 queue'[id].status = queue[id].status
<1> DEFINE Command == \E id \in Ids, st \in Q!Decided, by \in {"cli", "nobody"} :
              Q!UpdateStatus(id, st, by) /\ final' = Ruled(id, st) /\ UNCHANGED poll
           Rest == /\ UNCHANGED final
                   /\ \A id \in Ids : queue[id].status \in Q!Decided =>
                                        queue'[id].status = queue[id].status
<1>0. Q!Approved \in Q!Decided /\ Q!Rejected \in Q!Decided /\ Q!Dispatched \in Q!Decided
  BY DEF Q!Decided
<1>1. UNCHANGED <<queue, final>> => Rest
  OBVIOUS
<1> USE DEF history
<1>2. ASSUME NEW r \in Runs, RunStep(r) PROVE Rest
  <2>1. UNCHANGED final
    BY <1>2 DEF RunStep, RunAdd, AttachMint, AttachFails, SetToken, AttachLink, RunCrash, Crash
  <2>2. ASSUME NEW id \in Ids, NEW b \in Bodies, Q!Add(id, b) PROVE Rest
    BY <2>1, <2>2 DEF Q!Add, Q!Present, Q!Absent, Q!Decided, Q!Approved, Q!Rejected,
       Q!Dispatched, TypeOK, Q!TypeOK
  <2>3. CASE AttachLink(r)
    BY <2>1, <2>3, HeldByRun DEF AttachLink, Q!SetRelais, TypeOK, Q!TypeOK, Q!Row
  <2> HIDE DEF Rest
  <2> QED BY <1>1, <1>2, <2>1, <2>2, <2>3
          DEF RunStep, RunAdd, AttachMint, AttachFails, SetToken, RunCrash, Crash
<1>3. ASSUME NEW p \in Pollers, PollStep(p) PROVE PollApply(p) \/ Rest
  BY <1>3 DEF PollStep, PollList, Lists, PollFetch, PollError, PollStop, PollClear, PollCrash,
              Crash
<1>4. ASSUME NEW c \in Clis, CliStep(c) PROVE Command \/ Rest
  <2>1. CASE ApproveApply(c)
    <3>1. cli[c] \in Ids /\ UNCHANGED poll /\ final' = Ruled(cli[c], Q!Approved)
          /\ Q!UpdateStatus(cli[c], Q!Approved, "cli")
      BY <2>1 DEF ApproveApply, TypeOK
    <3> QED BY <1>0, <3>1
  <2>2. CASE ~ApproveApply(c)
    BY <1>4, <2>2 DEF CliStep, ApproveCheck, CliCrash, Crash
  <2> QED BY <2>1, <2>2
<1>5. ASSUME HumanStep PROVE Command \/ Rest
  <2>1. ASSUME NEW id \in Ids, CliReject(id) PROVE Command
    BY <1>0, <2>1 DEF CliReject
  <2>2. ASSUME NEW id \in Ids, CliRedraft(id) PROVE Rest
    BY <2>2 DEF CliRedraft, Q!Redraft, Q!Pending, Q!Decided, Q!Approved, Q!Rejected,
       Q!Dispatched, TypeOK, Q!TypeOK, Q!Row
  <2>3. ASSUME NEW id \in Ids, NEW b \in Bodies, DraftFill(id, b) PROVE Rest
    BY <2>3 DEF DraftFill, Q!SetDraft, Q!Drafting, Q!Decided, Q!Approved, Q!Rejected,
       Q!Dispatched, TypeOK, Q!TypeOK, Q!Row
  <2> HIDE DEF Rest, Command
  <2> QED BY <1>1, <1>5, <2>1, <2>2, <2>3 DEF HumanStep, TapLink, Show
<1>6. ASSUME SenderStep PROVE Command \/ Rest
  <2>1. CASE Mark
    <3>1. sender.id \in Ids /\ UNCHANGED poll
      BY <2>1 DEF Mark, TypeOK, SenderOK
    <3>2. \/ UNCHANGED <<queue, final>>
          \/ /\ Q!UpdateStatus(sender.id, Q!Dispatched, "nobody")
             /\ final' = Ruled(sender.id, Q!Dispatched)
      BY <2>1 DEF Mark
    <3> QED BY <1>0, <1>1, <3>1, <3>2
  <2>2. CASE ~Mark
    BY <1>6, <2>2 DEF SenderStep, SendPick, Send, SendCrash, Crash
  <2> QED BY <2>1, <2>2
<1> HIDE DEF Command, Rest
<1>7. Command \/ Rest \/ \E p \in Pollers : PollApply(p)
  BY <1>2, <1>3, <1>4, <1>5, <1>6 DEF Next
<1> QED BY <1>7 DEF Command, Rest

\* A poll takes up only what is pending.
LEMMA PollsLetGo ==
  ASSUME TypeOK, FinalInv, [Next]_vars
  PROVE  /\ \A p \in Pollers : poll'[p].pc = "apply" =>
              poll'[p].work[poll'[p].found.id] = NoLink
         /\ \A id \in Ids : queue[id].status \in Q!Decided => Handling(id)' \subseteq Handling(id)
<1> DEFINE Off(q) == poll'[q].pc = "apply" => poll'[q].work[poll'[q].found.id] = NoLink
           Fewer(q) == \A id \in Ids : queue[id].status \in Q!Decided =>
             /\ poll'[q].work[id] # NoLink => poll[q].work[id] # NoLink
             /\ poll'[q].pc = "apply" /\ poll'[q].found.id = id =>
                  poll[q].work[id] # NoLink \/ (poll[q].pc = "apply" /\ poll[q].found.id = id)
<1>1. ASSUME NEW q \in Pollers PROVE Off(q) /\ Fewer(q)
  <2> USE DEF TypeOK, PollOK
  <2>1. CASE poll'[q] = poll[q]
    BY <2>1 DEF FinalInv
  <2>2. ASSUME NEW p \in Pollers, PollStep(p), q # p PROVE poll'[q] = poll[q]
    BY <2>2 DEF PollStep, PollList, Lists, PollFetch, PollError, PollStop, PollApply, PollClear,
                PollCrash
  <2>3. CASE PollList(q)
    <3>1. poll'[q].pc = "walk" /\ \A id \in Ids :
            poll'[q].work[id] # NoLink => queue[id].status = Q!Pending
      BY <2>3 DEF PollList, Lists, Linked, Walking
    <3> QED BY <3>1 DEF Q!Pending, Q!Decided, Q!Approved, Q!Rejected, Q!Dispatched
  <2>4. ASSUME NEW id \in Ids, PollFetch(q, id) \/ PollError(q, id) PROVE Off(q) /\ Fewer(q)
    <3>1. /\ poll'[q].work = [poll[q].work EXCEPT ![id] = NoLink] /\ poll[q].work[id] # NoLink
          /\ poll'[q].pc = "apply" => poll'[q].found.id = id
      <4>1. ASSUME poll' = [poll EXCEPT ![q].work[id] = NoLink], Walking(q)
            PROVE  /\ poll'[q].work = [poll[q].work EXCEPT ![id] = NoLink]
                   /\ poll'[q].pc # "apply"
        BY <4>1 DEF Walking
      <4>2. ASSUME NEW m, poll' = [poll EXCEPT ![q] =
                     [pc |-> "apply", work |-> [@.work EXCEPT ![id] = NoLink],
                      found |-> [id |-> id, tap |-> m]]]
            PROVE  /\ poll'[q].work = [poll[q].work EXCEPT ![id] = NoLink]
                   /\ poll'[q].found.id = id
        BY <4>2
      <4> QED BY <2>4, <4>1, <4>2 DEF PollFetch, PollError
    <3> QED BY <3>1
  <2>5. CASE PollApply(q) \/ PollClear(q)
    <3>1. poll'[q].work = poll[q].work /\ poll'[q].pc # "apply"
      BY <2>5 DEF PollApply, PollClear
    <3> QED BY <3>1
  <2>6. CASE PollStop(q) \/ PollCrash(q)
    <3>1. poll'[q].work = NoWork /\ poll'[q].pc # "apply"
      BY <2>6 DEF PollStop, PollCrash, PollIdle
    <3> QED BY <3>1 DEF NoWork
  <2> HIDE DEF Off, Fewer
  <2> QED BY <2>1, <2>2, <2>3, <2>4, <2>5, <2>6, Frames DEF PollStep, vars
<1> QED BY <1>1 DEF Handling

\* A decision made while no other poll is at the proposal is changed by commands only:
\* the polls that list it afterwards do not, whatever taps their inboxes hold.
THEOREM DecisionsStayFinal == Spec => []DecisionsAreFinal
<1>1. Init => FinalInv
  BY DEF Init, FinalInv, PollIdle
<1>2. TypeOK /\ FinalInv /\ [Next]_vars => FinalInv'
  <2> SUFFICES ASSUME TypeOK, FinalInv, [Next]_vars, NEW i \in Ids, final'[i] # None
               PROVE  /\ queue'[i].status = final'[i] /\ queue'[i].status \in Q!Decided
                      /\ Handling(i)' = {}
    BY PollsLetGo DEF FinalInv
  <2> DEFINE Good == /\ queue'[i].status = final'[i] /\ queue'[i].status \in Q!Decided
                     /\ Handling(i)' = {}
  <2>0. queue[i].status \in Q!Decided => Handling(i)' \subseteq Handling(i)
    BY PollsLetGo
  <2>1. ASSUME final'[i] = final[i], queue[i].status \in Q!Decided =>
               queue'[i].status = queue[i].status
        PROVE  Good
    BY <2>0, <2>1 DEF FinalInv
  <2>2. ASSUME NEW id \in Ids, NEW st \in Q!Decided, NEW by \in {"cli", "nobody"},
               Q!UpdateStatus(id, st, by), final' = Ruled(id, st), UNCHANGED poll
        PROVE  Good
    <3>1. CASE i # id
      BY <2>1, <2>2, <3>1, UpdateEffect DEF TypeOK, Ruled
    <3>2. CASE i = id
      <4>1. Handling(i) = {} /\ final'[i] = st
        BY <2>2, <3>2 DEF TypeOK, Ruled
      <4>2. queue'[i].status = st
        BY <2>2, <3>2, UpdateEffect DEF TypeOK
      <4> QED BY <2>2, <4>1, <4>2 DEF Handling
    <3> QED BY <3>1, <3>2
  <2>3. ASSUME NEW p \in Pollers, PollApply(p) PROVE Good
    <3>1. PICK id \in Ids, st \in Q!Decided :
            /\ id = poll[p].found.id /\ st = poll[p].found.tap.verdict
            /\ Q!UpdateStatus(id, st, "relais")
      BY <2>3, HeldByPoll DEF PollApply, Q!Decided
    <3>2. p \in Handling(id)
      BY <2>3, <3>1 DEF Handling, PollApply
    <3>3. final' = IF final[id] = None /\ Handling(id) = {p}
                     THEN [final EXCEPT ![id] = st] ELSE final
      BY <2>3, <3>1 DEF PollApply
    <3>4. CASE i # id
      BY <2>1, <3>1, <3>3, <3>4, UpdateEffect DEF TypeOK
    <3>5. CASE i = id
      <4>1. Handling(i) = {p} /\ final'[i] = st
        BY <3>2, <3>3, <3>5 DEF FinalInv, TypeOK
      <4>2. queue'[i].status = st
        BY <3>1, <3>5, UpdateEffect DEF TypeOK
      <4>3. p \notin Handling(i)'
        <5>1. poll'[p].pc = "clear" /\ poll'[p].work = poll[p].work
          BY <2>3 DEF PollApply, TypeOK, PollOK
        <5>2. poll[p].work[i] = NoLink
          BY <2>3, <3>1, <3>5 DEF PollApply, FinalInv
        <5> QED BY <5>1, <5>2 DEF Handling
      <4>4. \A q \in Pollers \ {p} : poll'[q] = poll[q]
        BY <2>3 DEF PollApply, TypeOK, PollOK
      <4>5. Handling(i)' \subseteq Handling(i)
        BY <4>3, <4>4 DEF Handling
      <4> QED BY <4>1, <4>2, <4>3, <4>5
    <3> QED BY <3>4, <3>5
  <2>4. CASE UNCHANGED vars
    BY <2>1, <2>4 DEF vars, history
  <2> HIDE DEF Good
  <2>5. ASSUME Next PROVE Good
    <3>1. CASE UNCHANGED final /\ \A id \in Ids : queue[id].status \in Q!Decided =>
                                   queue'[id].status = queue[id].status
      BY <2>1, <3>1
    <3>2. CASE \E id \in Ids, st \in Q!Decided, by \in {"cli", "nobody"} :
                 Q!UpdateStatus(id, st, by) /\ final' = Ruled(id, st) /\ UNCHANGED poll
      BY <2>2, <3>2
    <3> QED BY <2>3, <2>5, <3>1, <3>2, Rulings
  <2> QED BY <2>4, <2>5 DEF Good
<1>3. FinalInv => DecisionsAreFinal
  BY DEF FinalInv, DecisionsAreFinal
<1> QED BY <1>1, <1>2, <1>3, ApprovalTypeCorrect, PTL DEF Spec
=============================================================================
