--------------------------------- MODULE MCE2E ---------------------------------
(* Two suites: Go tests with both services and a fetched tool, and a command
   that may skip tests and uses what the runner provides. *)
EXTENDS E2E, TLC

CONSTANTS store, walk, kind, bun

MCSuites     == <<store, walk>>
MCEventsOf   == (store :> {"push"}) @@ (walk :> {"push", "tag"})
MCServicesOf == (store :> <<"postgres", "minio">>) @@ (walk :> <<>>)
MCToolsOf    == (store :> <<kind>>) @@ (walk :> <<bun>>)

(* Everything; a laptop's change under what the command reads; the suites of
   a tag. *)
Whole    == [narrows |-> FALSE, ci |-> FALSE, goInert |-> FALSE, changed |-> TRUE, touched |-> {}]
Docs     == [narrows |-> TRUE, ci |-> FALSE, goInert |-> TRUE, changed |-> FALSE, touched |-> {walk}]
MCRequests == {[only |-> Nobody, on |-> "push", scope |-> Whole],
               [only |-> Nobody, on |-> "push", scope |-> Docs],
               [only |-> store, on |-> "tag", scope |-> Whole]}

=============================================================================
