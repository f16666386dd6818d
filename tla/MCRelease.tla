------------------------------- MODULE MCRelease -------------------------------
(* Two working trees, of one clone or of two, and two versions. *)
EXTENDS Release, TLC

Symmetric ==
  {trees @@ clones : trees \in Permutations(Checkouts), clones \in Permutations(Clones)}

=============================================================================
