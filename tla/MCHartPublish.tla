--------------------------- MODULE MCHartPublish ---------------------------
(* Four runs of which one publishes a private artifact, against a  *)
(* hart that takes one submission per window of two units.                 *)
EXTENDS HartPublish, TLC

CONSTANTS p1, p2, p3, p4

MCDelays == <<2, 1>>
MCElapsed == [n \in 0..2 |-> <<0, 2, 3>>[n + 1]]
MCSymmetry == Permutations(Pubs \ Private)
=============================================================================
