------------------------------- MODULE MCShip -------------------------------
\* Two workstations, a release and one more, one image pushed again.
EXTENDS Ship

CONSTANTS a, b

MCTags == 1 .. 2
MCCommitOf == [t \in MCTags |-> t]
MCPushed == {1}
MCMay == (a :> {"deploy", "credential"}) @@ (b :> {"push", "deploy", "release"})
=============================================================================
