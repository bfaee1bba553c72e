------------------------------ MODULE MCRunLog -------------------------------
(* Three processes, two runs from an older version, a retention of three.     *)
EXTENDS RunLog, TLC

Symmetric == Permutations(Procs)
=============================================================================
