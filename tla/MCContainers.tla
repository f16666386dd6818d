----------------------------- MODULE MCContainers -----------------------------
(* One machine with a gate run of one test process and a bare go test, a
   second machine on the same engine, and a helper that sweeps. *)
EXTENDS Containers, TLC

CONSTANTS here, there, p1, p2, p3, g, s

MCHostOf == [x \in {p1, p2, g, s} |-> here] @@ (p3 :> there)
MCGateOf == (p1 :> g) @@ (p2 :> NoRun) @@ (p3 :> NoRun)

=============================================================================
