------------------------------ MODULE QueueFile ------------------------------
(***************************************************************************)
(* The JSONL file under internal/hitl/hitl.go, and what its methods do to  *)
(* it.  Add reads the file for its id and appends a line; every other      *)
(* method reads all rows, changes one, writes all of them to a temporary   *)
(* file and renames it over the queue.  Methods of one process exclude     *)
(* each other by a mutex that other processes do not see: between two      *)
(* steps of one process another takes any of its own.  The file system is  *)
(* kept as names that lead to inodes, because a rename under an open file  *)
(* leaves the writer on an inode no name leads to.                         *)
(*                                                                         *)
(* A line is one write(2).  It is a row, or Torn (a write stopped part way *)
(* and the file ends there), or Scrap (it ends in a newline and does not   *)
(* parse).  A write that stops just before the newline leaves a row that   *)
(* readers take (splitLines, hitl.go:345) and that the next append         *)
(* continues: row.ends says whether the newline is there.                  *)
(***************************************************************************)
EXTENDS Sequences, Naturals, FiniteSets

CONSTANTS
  Ids, Texts, Blank, Links, NoLink,   \* as in HitlQueue
  Procs,     \* processes that use the queue
  Inodes,    \* bound: files that can exist at once
  NoFile,    \* a name that leads nowhere, a process that has no file open
  Torn, Scrap, \* lines that hold no row
  Idle,      \* a process outside the methods
  Inputs,    \* bound: Inputs[overlap] are the calls that are made
  MaxLines,  \* bound: lines a file grows to
  Faults     \* bound: Faults[overlap] is what may fail: "read", "write"

VARIABLES
  overlap,     \* whether methods of different processes ever overlap; fixed at the start
  path, tmp,   \* the inodes of the queue file and of <queue file>.tmp
  data,        \* data[i]: the lines of inode i
  call,        \* call[p]: the method p is in
  pc,          \* pc[p]: how far
  rows,        \* rows[p]: what it will write out
  at,          \* at[p]: how many of them it has written
  fd           \* fd[p]: the inode it has open

vars == <<overlap, path, tmp, data, call, pc, rows, at, fd>>

-----------------------------------------------------------------------------
(* Lines and rows                                                             *)

Parses(l) == l \notin {Torn, Scrap}

Whole(l) == [l EXCEPT !.ends = TRUE]
Unended(l) == [l EXCEPT !.ends = FALSE]
Ends(l) == IF Parses(l) THEN l.ends ELSE l = Scrap

HasRow(ls, id) == \E n \in 1..Len(ls) : Parses(ls[n]) /\ ls[n].id = id

\* The methods look for an id from the top and stop at the first.
First(ls, id) ==
  CHOOSE n \in 1..Len(ls) : /\ Parses(ls[n]) /\ ls[n].id = id
                            /\ \A m \in 1..(n - 1) : Parses(ls[m]) => ls[m].id # id

RowOf(ls, id) == ls[First(ls, id)].row

\* The rows of the lines that parse, in their order.
Parsing(ls) == {n \in 1..Len(ls) : Parses(ls[n])}
InOrder(ns) == CHOOSE f \in [1..Cardinality(ns) -> ns] : \A j, k \in DOMAIN f : j < k => f[j] < f[k]
Parsed(ls) == [k \in 1..Cardinality(Parsing(ls)) |-> Whole(ls[InOrder(Parsing(ls))[k]])]

OnDisk == IF path = NoFile THEN <<>> ELSE data[path]

NoRow == [status |-> "absent", body |-> Blank, link |-> NoLink,
          approver |-> "nobody", dispatched |-> FALSE]

\* The queue that a reader of the file sees.
Rows == [id \in Ids |-> IF HasRow(OnDisk, id) THEN RowOf(OnDisk, id) ELSE NoRow]

H == INSTANCE HitlQueue WITH queue <- Rows

RowLine == [id : Ids, row : H!Row, ends : BOOLEAN]
Line == RowLine \cup {Torn, Scrap}

Adds == [kind : {"add"}, id : Ids, body : Texts \cup {Blank}]
Updates == [kind : {"update"}, id : Ids, status : H!Decided, by : H!Approvers \ {"nobody"}]
Attaches == [kind : {"relais"}, id : Ids, link : Links]
Drafts == [kind : {"draft"}, id : Ids, body : Texts]
Redrafts == [kind : {"redraft"}, id : Ids]
Calls == Adds \cup Updates \cup Attaches \cup Drafts \cup Redrafts

ASSUME InputsAssumption ==
  /\ Inputs \in [BOOLEAN -> SUBSET Calls]
  /\ Faults \in [BOOLEAN -> SUBSET {"read", "write"}]
  /\ MaxLines \in Nat
ASSUME NamesAssumption == NoFile \notin Inodes /\ Idle \notin Calls
ASSUME QueueAssumption == Blank \notin Texts /\ NoLink \notin Links
ASSUME LinesAssumption == Torn # Scrap /\ {Torn, Scrap} \cap RowLine = {}
\* There is room for one more file, whatever the processes have open.
ASSUME RoomAssumption ==
  \A open \in [Procs -> Inodes \cup {NoFile}], i \in Inodes \cup {NoFile} :
    \E j \in Inodes : j # i /\ \A p \in Procs : open[p] # j

Init ==
  /\ overlap \in BOOLEAN
  /\ path = NoFile /\ tmp = NoFile
  /\ data = [i \in Inodes |-> <<>>]
  /\ call = [p \in Procs |-> Idle]
  /\ pc = [p \in Procs |-> "idle"]
  /\ rows = [p \in Procs |-> <<>>]
  /\ at = [p \in Procs |-> 0]
  /\ fd = [p \in Procs |-> NoFile]

\* A process may start a method now.
Free(p) == pc[p] = "idle" /\ (overlap \/ \A q \in Procs : pc[q] = "idle")

MayFail(what) == what \in Faults[overlap]

Goto(p, to) == pc' = [pc EXCEPT ![p] = to]

\* A file that no name leads to and nobody has open is gone.
Named == {path, tmp} \cup {fd[p] : p \in Procs}
Reachable(d) == [i \in Inodes |-> IF i \in Named' THEN d[i] ELSE <<>>]
Fresh == CHOOSE i \in Inodes : i \notin Named

\* The method is over; what it held is gone with it, and d is left on disk.
Over(p, d) ==
  /\ Goto(p, "idle")
  /\ call' = [call EXCEPT ![p] = Idle]
  /\ rows' = [rows EXCEPT ![p] = <<>>]
  /\ at' = [at EXCEPT ![p] = 0]
  /\ fd' = [fd EXCEPT ![p] = NoFile]
  /\ data' = Reachable(d)

-----------------------------------------------------------------------------
(* Add                                                                        *)

NewLine(c) ==
  [id |-> c.id, ends |-> TRUE,
   row |-> H!NewRow(IF c.body = Blank THEN H!Drafting ELSE H!Pending, c.body)]

\* What a write of l can leave when it stops before the end.
CutShort(l) == {Torn, Unended(l)}

\* A line appended behind one without a newline continues it: the two are one line
\* that does not parse, whatever the first was.
Appended(ls, l) ==
  IF ls = <<>> \/ Ends(ls[Len(ls)]) THEN Append(ls, l)
  ELSE [ls EXCEPT ![Len(ls)] = IF Ends(l) THEN Scrap ELSE Torn]

\* Seeded fault: the id is not looked for.
AddUnchecked(p, c) ==
  /\ Free(p) /\ c.kind = "add"
  /\ call' = [call EXCEPT ![p] = c]
  /\ Goto(p, "append")
  /\ UNCHANGED <<overlap, path, tmp, data, rows, at, fd>>

\* An id the queue holds is refused, and reported as added.  A queue that cannot
\* be read is taken for one that does not hold the id.
AddCheck(p, c) ==
  /\ Free(p) /\ c.kind = "add"
  /\ call' = [call EXCEPT ![p] = c]
  /\ \/ HasRow(OnDisk, c.id) /\ Goto(p, "done")
     \/ (~HasRow(OnDisk, c.id) \/ MayFail("read")) /\ Goto(p, "append")
  /\ UNCHANGED <<overlap, path, tmp, data, rows, at, fd>>

AddOpen(p) ==
  /\ pc[p] = "append"
  /\ IF path = NoFile
       THEN /\ path' = Fresh
            /\ data' = [data EXCEPT ![Fresh] = <<>>]
            /\ fd' = [fd EXCEPT ![p] = Fresh]
       ELSE /\ fd' = [fd EXCEPT ![p] = path]
            /\ UNCHANGED <<path, data>>
  /\ Goto(p, "opened")
  /\ UNCHANGED <<overlap, tmp, call, rows, at>>

AddWrite(p) ==
  /\ pc[p] = "opened" /\ Len(data[fd[p]]) < MaxLines
  /\ data' = [data EXCEPT ![fd[p]] = Appended(@, NewLine(call[p]))]
  /\ Goto(p, "done")
  /\ UNCHANGED <<overlap, path, tmp, call, rows, at, fd>>

\* The disk is full: part of the line is there, or all but its newline, and Add
\* answers with an error.
AddTears(p) ==
  /\ MayFail("write")
  /\ pc[p] = "opened" /\ Len(data[fd[p]]) < MaxLines
  /\ UNCHANGED <<overlap, path, tmp>>
  /\ \E l \in CutShort(NewLine(call[p])) : Over(p, [data EXCEPT ![fd[p]] = Appended(@, l)])

-----------------------------------------------------------------------------
(* UpdateStatus, SetRelais, SetDraft and Redraft                              *)

Accepts(c, r) ==
  CASE c.kind \in {"update", "relais"} -> TRUE
    [] c.kind = "draft" -> r.status = H!Drafting
    [] c.kind = "redraft" -> r.status = H!Pending

\* Seeded fault: redraft leaves the old copy.
ChangedKeepsBody(c, r) ==
  CASE c.kind = "update" -> [r EXCEPT !.status = c.status, !.approver = c.by]
    [] c.kind = "relais" -> [r EXCEPT !.link = c.link]
    [] c.kind = "draft" -> [r EXCEPT !.body = c.body, !.status = H!Pending]
    [] c.kind = "redraft" -> [r EXCEPT !.status = H!Drafting]

Changed(c, r) ==
  CASE c.kind = "update" ->
         [r EXCEPT !.status = c.status,
                   !.approver = IF c.status = H!Approved THEN c.by ELSE @,
                   !.dispatched = IF c.status = H!Dispatched THEN TRUE ELSE @]
    [] c.kind = "relais" -> [r EXCEPT !.link = c.link]
    [] c.kind = "draft" -> [r EXCEPT !.body = c.body, !.status = H!Pending]
    [] c.kind = "redraft" -> [r EXCEPT !.body = Blank, !.status = H!Drafting]

\* Seeded fault: the loop changes a copy of the row.
ReadAllCopy(p, c) ==
  LET ls == Parsed(OnDisk)
  IN  /\ Free(p) /\ c.kind # "add"
      /\ HasRow(ls, c.id) /\ Accepts(c, RowOf(ls, c.id))
      /\ call' = [call EXCEPT ![p] = c]
      /\ rows' = [rows EXCEPT ![p] = ls]
      /\ Goto(p, "create")
      /\ UNCHANGED <<overlap, path, tmp, data, at, fd>>

\* readAllLocked, the method's own check, and its change, all in memory.  A
\* method that cannot read, finds no row or refuses it answers with an error.
ReadAll(p, c) ==
  LET ls == Parsed(OnDisk)
  IN  /\ Free(p) /\ c.kind # "add"
      /\ HasRow(ls, c.id) /\ Accepts(c, RowOf(ls, c.id))
      /\ call' = [call EXCEPT ![p] = c]
      /\ rows' = [rows EXCEPT ![p] =
                    [ls EXCEPT ![First(ls, c.id)].row = Changed(c, @)]]
      /\ Goto(p, "create")
      /\ UNCHANGED <<overlap, path, tmp, data, at, fd>>

\* Seeded fault: the queue file itself is created anew and written.
CreateInPlace(p) ==
  /\ pc[p] = "create" /\ path # NoFile
  /\ data' = [data EXCEPT ![path] = <<>>]
  /\ fd' = [fd EXCEPT ![p] = path]
  /\ Goto(p, "write")
  /\ UNCHANGED <<overlap, path, tmp, call, rows, at>>

\* os.Create empties the temporary file that is there, whoever has it open.
CreateTmp(p) ==
  /\ pc[p] = "create"
  /\ LET i == IF tmp = NoFile THEN Fresh ELSE tmp
     IN  /\ tmp' = i
         /\ data' = [data EXCEPT ![i] = <<>>]
         /\ fd' = [fd EXCEPT ![p] = i]
  /\ Goto(p, "write")
  /\ UNCHANGED <<overlap, path, call, rows, at>>

\* What lies beyond a line that is written over line k of ls: later lines, behind
\* the rest of one that was longer.
Beyond(ls, k) ==
  LET rest(m) == SubSeq(ls, m, Len(ls))
      cut(m) == <<IF Ends(ls[m - 1]) THEN Scrap ELSE Torn>>
  IN  IF k > Len(ls) THEN {<<>>}
      ELSE UNION {{rest(m), cut(m) \o rest(m)} : m \in (k + 1)..(Len(ls) + 1)}

\* What is left when m is written over line k + 1 of ls.  A line that is cut short
\* inside what is already there is taken not to parse.
PutAt(ls, k, m) ==
  {SubSeq(ls, 1, k) \o <<IF rest # <<>> /\ ~Ends(m) THEN Scrap ELSE m>> \o rest :
     rest \in Beyond(ls, k + 1)}

\* The outcomes of writing l where p's offset is.  If the file holds what p has
\* written so far, that is the start of the next line; if another process has
\* created or written it in between, it is anywhere, in a line or past the end.
Written(p, l) ==
  LET ls == data[fd[p]]
      n == at[p]
      mine == n <= Len(ls) /\ SubSeq(ls, 1, n) = SubSeq(rows[p], 1, n)
      starts == IF mine THEN {n} ELSE 0..Len(ls)
      lines == IF mine THEN {l} ELSE {l, Scrap}
      outcomes == UNION {UNION {PutAt(ls, k, m) : m \in lines} : k \in starts}
  IN  {new \in outcomes : Len(new) <= MaxLines}

\* One line is written; the last one is followed by the rename.
WriteLine(p) ==
  /\ pc[p] = "write"
  /\ \E ls \in Written(p, rows[p][at[p] + 1]) : data' = [data EXCEPT ![fd[p]] = ls]
  /\ at' = [at EXCEPT ![p] = @ + 1]
  /\ IF at[p] + 1 = Len(rows[p]) THEN Goto(p, "rename") ELSE UNCHANGED pc
  /\ UNCHANGED <<overlap, path, tmp, call, rows, fd>>

\* The disk is full: the method answers with an error and leaves its file there.
WriteFails(p) ==
  /\ MayFail("write")
  /\ pc[p] = "write"
  /\ UNCHANGED <<overlap, path, tmp>>
  /\ \E ls \in {data[fd[p]]} \cup UNION {Written(p, l) : l \in CutShort(rows[p][at[p] + 1])} :
       Over(p, [data EXCEPT ![fd[p]] = ls])

\* The name is renamed, not the file that is open.
Rename(p) ==
  /\ pc[p] = "rename" /\ tmp # NoFile
  /\ path' = tmp /\ tmp' = NoFile
  /\ Goto(p, "done")
  /\ UNCHANGED <<overlap, call, rows, at, fd>>
  /\ data' = Reachable(data)

\* Another process has renamed the temporary file away.
RenameFails(p) ==
  /\ pc[p] = "rename" /\ tmp = NoFile
  /\ UNCHANGED <<overlap, path, tmp>>
  /\ Over(p, data)

-----------------------------------------------------------------------------

\* The method answers without an error.
Return(p) ==
  /\ pc[p] = "done"
  /\ UNCHANGED <<overlap, path, tmp>>
  /\ Over(p, data)

\* The process is killed inside the method.
Die(p) ==
  /\ pc[p] \notin {"idle", "done"}
  /\ UNCHANGED <<overlap, path, tmp>>
  /\ Over(p, data)

Step(p) ==
  \/ \E c \in Inputs[overlap] : AddCheck(p, c) \/ ReadAll(p, c)
  \/ AddOpen(p) \/ AddWrite(p) \/ AddTears(p)
  \/ CreateTmp(p) \/ WriteLine(p) \/ WriteFails(p) \/ Rename(p) \/ RenameFails(p)
  \/ Return(p) \/ Die(p)

Next == \E p \in Procs : Step(p)

Spec == Init /\ [][Next]_vars

-----------------------------------------------------------------------------
(* Properties *)

TypeOK ==
  /\ overlap \in BOOLEAN
  /\ {path, tmp} \subseteq Inodes \cup {NoFile}
  /\ data \in [Inodes -> Seq(Line)]
  /\ call \in [Procs -> Calls \cup {Idle}]
  /\ pc \in [Procs -> {"idle", "append", "opened", "create", "write", "rename", "done"}]
  /\ rows \in [Procs -> Seq(Line)]
  /\ at \in [Procs -> Nat]
  /\ fd \in [Procs -> Inodes \cup {NoFile}]
  /\ \A p \in Procs : /\ pc[p] \in {"opened", "write"} => fd[p] # NoFile
                      /\ pc[p] = "write" => at[p] < Len(rows[p])

\* "A loop that re-emits the same proposal must not queue it twice"
\* (hitl.go:93-97): while the queue can be read, and one process at a time adds to
\* it, no id has two rows.
NoDuplicates ==
  ~overlap => \A m, n \in 1..Len(OnDisk) :
    Parses(OnDisk[m]) /\ Parses(OnDisk[n]) /\ OnDisk[m].id = OnDisk[n].id => m = n

\* While methods do not overlap, a call that is about to answer without an error
\* has taken effect: the queue on disk holds what it was asked for.  The one
\* exception is an Add whose line continued one without a newline (hitl.go:115).
Took(c, r) ==
  CASE c.kind = "add" -> TRUE
    [] c.kind = "update" -> /\ r.status = c.status
                            /\ c.status = H!Approved => r.approver = c.by
                            /\ c.status = H!Dispatched => r.dispatched
    [] c.kind = "relais" -> r.link = c.link
    [] c.kind = "draft" -> r.status = H!Pending /\ r.body = c.body
    [] c.kind = "redraft" -> r.status = H!Drafting

Continued(c) == c.kind = "add" /\ OnDisk # <<>> /\ OnDisk[Len(OnDisk)] = Scrap

AnsweredTookEffect ==
  \A p \in Procs : ~overlap /\ pc[p] = "done" =>
    \/ HasRow(OnDisk, call[p].id) /\ Took(call[p], RowOf(OnDisk, call[p].id))
    \/ Continued(call[p])

\* An Add appends behind a row that has no newline: the two are one line that does
\* not parse, and the row is gone.
RowVanishes ==
  LET last == OnDisk[Len(OnDisk)]
  IN  /\ \E p \in Procs : AddWrite(p) \/ AddTears(p)
      /\ OnDisk # <<>> /\ Parses(last) /\ ~last.ends
      /\ Rows' = [Rows EXCEPT ![last.id] = NoRow]

\* While methods do not overlap the file implements the atomic queue, crashes,
\* writes that are cut short and unreadable files included: each method takes effect
\* at its rename (or its append), or not at all, and an Add that answers with an error
\* may have taken effect.  The one step that is not the queue's takes away the row of
\* such an Add, when the next one continues its line.
QueueSpec == (overlap \/ H!Init) /\ [][overlap \/ H!Next \/ RowVanishes]_Rows

\* Whatever overlapping processes do to each other's changes, no row is ever made
\* of parts of two, since a line is one write: what asks for a decision has copy,
\* a draft has none, and everything else has its type (hitl.go:292-310).
RowsAreWhole == TypeOK /\ H!PendingHasBody

\* A proposal that was marked as sent stays marked: "approved [...] with
\* dispatched_at still null looks, to every consumer, exactly like one that has
\* never been acted on" (main.go:418-421).
MarksStay ==
  [][\A id \in Ids : HasRow(OnDisk, id) /\ RowOf(OnDisk, id).dispatched =>
        HasRow(OnDisk, id)' /\ RowOf(OnDisk, id)'.dispatched]_vars
=============================================================================
