------------------------------ MODULE MCGreenCut ------------------------------
(* Two workflows, and a list longer than the pages the guard reads. *)
EXTENDS GreenCut, TLC

Symmetric == Permutations(Workflows)

=============================================================================
