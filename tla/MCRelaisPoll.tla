---------------------------- MODULE MCRelaisPoll -----------------------------
(* Four proposals, any request for which may fail: two in a row before,       *)
(* between and after others.                                                  *)
EXTENDS RelaisPoll
=============================================================================
