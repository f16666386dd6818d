--------------------------------- MODULE MCBar ---------------------------------
(* A repository with a root module and one below it, and beside the suite and
   what folds into it a gate that reads Go and that a laptop narrows by the root
   module alone, and one with inputs of its own. *)
EXTENDS Bar

MCOrder == <<"vuln", "suite", "e2e", "test", "race", "hermetic", "tempdir", "containers", "cover">>

=============================================================================
