--------------------------------- MODULE KV ---------------------------------
(***************************************************************************)
(* What a fleet's state file promises the processes that share it: an      *)
(* atomic map.  A call takes effect once, at one moment between its start  *)
(* and its return, and on its own key only; a call that answers with an    *)
(* error, or whose process dies, has had its effect or has had none.       *)
(***************************************************************************)
EXTENDS Sequences, Naturals

CONSTANTS
  Procs,     \* processes that have the state file open
  Keys,
  Items,     \* what Append adds to an array
  Scalars,   \* values that are not arrays
  Absent     \* a key that is not in the map

Value == Scalars \cup Seq(Items)
ValueOrAbsent == {Absent} \cup Value

VARIABLES
  map,      \* the map
  call,     \* call[p]: "none", "pending", "done" or "failed"
  what,     \* what[p]: the call p is in
  answer    \* answer[p]: what its Get returns

kv == <<map, call, what, answer>>

-----------------------------------------------------------------------------
(* The calls, and what they do to the value of their key                      *)

Sets == [kind : {"set"}, key : Keys, value : Value]
Appends == [kind : {"append"}, key : Keys, item : Items]
Updates == [kind : {"update"}, key : Keys, item : Items, drop : Nat]
Gets == [kind : {"get"}, key : Keys]
Opens == {[kind |-> "open"]}
Mutations == Sets \cup Appends \cup Updates
Calls == Mutations \cup Gets \cup Opens

\* Append starts a new array when the key is absent or holds something else.
AsArray(v) == IF v = Absent \/ v \in Scalars THEN <<>> ELSE v

\* The one caller of Update keeps a log: the entries that have grown too old by
\* then are dropped from its front, and one is added (budget.Record).
Record(c, log) == Append(SubSeq(log, c.drop + 1, Len(log)), c.item)

Apply(c, v) ==
  CASE c.kind = "set" -> c.value
    [] c.kind = "append" -> Append(AsArray(v), c.item)
    [] c.kind = "update" -> Record(c, AsArray(v))

Applied(c, m) == [m EXCEPT ![c.key] = Apply(c, @)]

-----------------------------------------------------------------------------

EmptyMap == [k \in Keys |-> Absent]

Init ==
  /\ map = EmptyMap
  /\ call = [p \in Procs |-> "none"]
  /\ what \in [Procs -> Calls]
  /\ answer \in [Procs -> ValueOrAbsent]

Start(p) ==
  /\ call[p] = "none"
  /\ call' = [call EXCEPT ![p] = "pending"]
  /\ what' = [what EXCEPT ![p] = what'[p]] /\ what'[p] \in Calls
  /\ UNCHANGED <<map, answer>>

Mutate(p) ==
  /\ call[p] = "pending" /\ what[p] \in Mutations
  /\ map' = Applied(what[p], map)
  /\ call' = [call EXCEPT ![p] = "done"]
  /\ UNCHANGED <<what, answer>>

Read(p) ==
  /\ call[p] = "pending" /\ what[p] \in Gets
  /\ answer' = [answer EXCEPT ![p] = map[what[p].key]]
  /\ call' = [call EXCEPT ![p] = "done"]
  /\ UNCHANGED <<map, what>>

Opened(p) ==
  /\ call[p] = "pending" /\ what[p] \in Opens
  /\ call' = [call EXCEPT ![p] = "done"]
  /\ UNCHANGED <<map, what, answer>>

\* The call has no effect; a Get that fails answers with anything.
Fail(p) ==
  /\ call[p] = "pending"
  /\ call' = [call EXCEPT ![p] = "failed"]
  /\ answer' = [answer EXCEPT ![p] = answer'[p]] /\ answer'[p] \in ValueOrAbsent
  /\ UNCHANGED <<map, what>>

\* The call returns, or its process dies; it is then over and forgotten.
End(p) ==
  /\ call' = [call EXCEPT ![p] = "none"]
  /\ what' = [what EXCEPT ![p] = what'[p]] /\ what'[p] \in Calls
  /\ answer' = [answer EXCEPT ![p] = answer'[p]] /\ answer'[p] \in ValueOrAbsent
  /\ UNCHANGED map

Next ==
  \E p \in Procs :
    \/ Start(p) \/ Mutate(p) \/ Read(p) \/ Opened(p) \/ Fail(p) \/ End(p)

Spec == Init /\ [][Next]_kv
=============================================================================
