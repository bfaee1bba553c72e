----------------------------- MODULE MCApproval ------------------------------
(* One proposal, two links (so that a re-attach rotates the link), two texts, *)
(* two polls that overlap, one approve command, one crash.                    *)
EXTENDS Approval, TLC

Symmetry == Permutations(Ids) \cup Permutations(Texts) \cup Permutations(Links)
              \cup Permutations(Runs) \cup Permutations(Pollers) \cup Permutations(Clis)
=============================================================================
