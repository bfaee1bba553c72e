------------------------------ MODULE HitlQueue ------------------------------
(***************************************************************************)
(* The proposal queue of internal/hitl/hitl.go, one atomic action per      *)
(* Queue method: what the package promises to a process whose calls do not *)
(* overlap those of another process.  Approval.tla composes these actions  *)
(* into the commands that use them; QueueFile.tla is the read-all /        *)
(* write-all implementation on the JSONL file.                             *)
(*                                                                         *)
(* A row keeps what the code's decisions read: the status, the body, the   *)
(* relais link (inbox and nonce), who approved, and whether dispatched_at  *)
(* is set.  BodyHash is a function of the body wherever the body is        *)
(* written (hitl.go:91,228,260) and nothing reads it; reasons, subjects    *)
(* and times are left out.                                                 *)
(***************************************************************************)

CONSTANTS
  Ids,     \* proposal ids
  Texts,   \* bodies that are not blank after TrimSpace
  Blank,   \* the blank body
  Links,   \* relais links: an inbox together with its nonce
  NoLink   \* a row without relais metadata

VARIABLE queue   \* queue[id]: the row of the file whose id is id

\* hitl.go:18-30.  "absent" is the id that has no row; Expired is never set.
Pending == "pending"
Approved == "approved"
Rejected == "rejected"
Dispatched == "dispatched"
Drafting == "drafting"
Absent == "absent"

Decided == {Approved, Rejected, Dispatched}
Statuses == Decided \cup {Pending, Drafting, Absent}
Approvers == {"nobody", "cli", "relais"}

Row == [status : Statuses, body : Texts \cup {Blank}, link : Links \cup {NoLink},
        approver : Approvers, dispatched : BOOLEAN]

NewRow(st, b) == [status |-> st, body |-> b, link |-> NoLink,
                  approver |-> "nobody", dispatched |-> FALSE]

Present(id) == queue[id].status # Absent

Init == queue = [id \in Ids |-> NewRow(Absent, Blank)]

-----------------------------------------------------------------------------
(* The methods *)

\* Add refuses an id the queue already holds and reports success either way.
Add(id, b) ==
  \/ Present(id) /\ UNCHANGED queue
  \/ /\ ~Present(id)
     /\ queue' = [queue EXCEPT ![id] =
                    NewRow(IF b = Blank THEN Drafting ELSE Pending, b)]

\* UpdateStatus overwrites whatever status the row has.  approved_at and the
\* approver change only on approval, dispatched_at is only ever set.
UpdateStatus(id, st, by) ==
  /\ Present(id)
  /\ queue' = [queue EXCEPT
       ![id].status = st,
       ![id].approver = IF st = Approved THEN by ELSE @,
       ![id].dispatched = IF st = Dispatched THEN TRUE ELSE @]

SetRelais(id, l) ==
  /\ Present(id)
  /\ queue' = [queue EXCEPT ![id].link = l]

\* Seeded fault: copy can be rewritten while the proposal is pending.
SetDraftPending(id, b) ==
  /\ b # Blank
  /\ queue[id].status \in {Drafting, Pending}
  /\ queue' = [queue EXCEPT ![id].body = b, ![id].status = Pending]

SetDraft(id, b) ==
  /\ b # Blank
  /\ queue[id].status = Drafting
  /\ queue' = [queue EXCEPT ![id].body = b, ![id].status = Pending]

\* Seeded fault: redraft accepts any proposal that is not already a draft.
RedraftAny(id) ==
  /\ queue[id].status \notin {Drafting, Absent}
  /\ queue' = [queue EXCEPT ![id].body = Blank, ![id].status = Drafting]

Redraft(id) ==
  /\ queue[id].status = Pending
  /\ queue' = [queue EXCEPT ![id].body = Blank, ![id].status = Drafting]

\* Seeded fault: the filter on dispatched_at is gone.
ApprovedAll == {id \in Ids : queue[id].status = Approved}

\* Queue.Approved: what a sender may still send.
ApprovedUnsent == {id \in Ids : queue[id].status = Approved /\ ~queue[id].dispatched}

-----------------------------------------------------------------------------

Step(id) ==
  \/ \E b \in Texts \cup {Blank} : Add(id, b)
  \/ \E st \in Decided, by \in Approvers \ {"nobody"} : UpdateStatus(id, st, by)
  \/ \E l \in Links : SetRelais(id, l)
  \/ \E b \in Texts \cup {Blank} : SetDraft(id, b)
  \/ Redraft(id)

Next == \E id \in Ids : Step(id)

Spec == Init /\ [][Next]_queue

-----------------------------------------------------------------------------
(* Properties *)

\* Every row has the fields and values above.
TypeOK == queue \in [Ids -> Row]

\* What is put in front of a human has copy to read, and what is still being
\* drafted has none (hitl.go:24-29, 85-90): no sequence of methods leads to a
\* pending row without a body or to a draft that carries an old body.
PendingHasBody ==
  \A id \in Ids : /\ queue[id].status = Pending => queue[id].body # Blank
                  /\ queue[id].status = Drafting => queue[id].body = Blank

\* Once a human has decided, the row stays decided and its text is the text
\* it had at that moment (hitl.go:198-203, 241-244): no method re-opens it.
DecidedIsFrozen ==
  [][\A id \in Ids : queue[id].status \in Decided =>
       /\ queue'[id].status \in Decided
       /\ queue'[id].body = queue[id].body]_queue

\* A proposal recorded as sent is never offered to a sender again, even when a
\* late decision puts its status back to approved (main.go:416-422).
DispatchedNeverReoffered ==
  [][\A id \in Ids : queue[id].dispatched =>
       queue'[id].dispatched /\ id \notin ApprovedUnsent']_queue

=============================================================================
