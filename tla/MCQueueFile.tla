----------------------------- MODULE MCQueueFile -----------------------------
(* Instances of QueueFile for TLC.  The inputs are the calls of a proposal's  *)
(* life, for two proposals when methods do not overlap; overlapping ones get  *)
(* fewer calls, on one proposal.                                              *)
EXTENDS QueueFile, TLC

CONSTANTS
  T,   \* the text of every copy
  P    \* the proposal that overlapping methods work on

AddOf(id, b) == [kind |-> "add", id |-> id, body |-> b]
Approve(id) == [kind |-> "update", id |-> id, status |-> "approved", by |-> "cli"]
Late(id) == [kind |-> "update", id |-> id, status |-> "rejected", by |-> "relais"]
Sent(id) == [kind |-> "update", id |-> id, status |-> "dispatched", by |-> "cli"]
RedraftOf(id) == [kind |-> "redraft", id |-> id]
DraftOf(id) == [kind |-> "draft", id |-> id, body |-> T]

AloneInputs ==
  Attaches \cup UNION {{AddOf(id, T), AddOf(id, Blank), Approve(id), Late(id), Sent(id),
                        RedraftOf(id), DraftOf(id)} : id \in Ids}
RaceInputs == {AddOf(P, T), Approve(P), RedraftOf(P), DraftOf(P)}
DecideInputs == {AddOf(P, T), Approve(P), Sent(P)}

LifeInputs == [o \in BOOLEAN |-> IF o THEN RaceInputs ELSE AloneInputs]
LifeFaults == [o \in BOOLEAN |-> IF o THEN {"read"} ELSE {"write"}]
MarkInputs == [o \in BOOLEAN |-> DecideInputs]
NoFaults == [o \in BOOLEAN |-> {}]

Symmetric == Permutations(Procs)
=============================================================================
