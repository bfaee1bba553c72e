------------------------------- MODULE MCStore -------------------------------
(* An instance of Store for TLC: two processes and two keys.  One key is set, *)
(* appended to and updated, the other is set beside it: what one mutation     *)
(* could do to a key it does not name shows on either.                        *)
EXTENDS Store, TLC

CONSTANTS Worked, Beside, Item, Scalar   \* the two keys, what is stored in them

SetTo(k) == [kind |-> "set", key |-> k, value |-> Scalar]
GetOf(k) == [kind |-> "get", key |-> k]

TwoKeys ==
  {SetTo(Worked), SetTo(Beside), GetOf(Worked),
   [kind |-> "append", key |-> Worked, item |-> Item],
   [kind |-> "update", key |-> Worked, item |-> Item, drop |-> 1]}
=============================================================================
