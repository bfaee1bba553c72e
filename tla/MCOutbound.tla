----------------------------- MODULE MCOutbound ------------------------------
(* Days of twelve ticks, hours of four; a quiet night across midnight.        *)
EXTENDS Outbound, TLC

Symmetric == Permutations(Procs)
=============================================================================
