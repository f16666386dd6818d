------------------------------ MODULE ReleaseLine ------------------------------
(***************************************************************************)
(* What `lateregate release` promises the people who read a repository's   *)
(* releases: changes land one at a time, and a release takes all of those  *)
(* not yet released, at once, under a version above every other.  Nothing  *)
(* is released twice, or leaves a release again.                           *)
(***************************************************************************)
EXTENDS Naturals

CONSTANTS
  Versions,  \* the versions there are, ordered as semver orders them
  Changes    \* what can land

VARIABLES
  waiting,   \* the changes landed and not released
  shipped    \* what each version released, {} for one that never was

vars == <<waiting, shipped>>

Seen == waiting \cup UNION {shipped[v] : v \in Versions}

Init ==
  /\ waiting \in SUBSET Changes
  /\ shipped = [v \in Versions |-> {}]

Land(c) ==
  /\ c \in Changes \ Seen
  /\ waiting' = waiting \cup {c}
  /\ UNCHANGED shipped

Release(v) ==
  /\ waiting # {}
  /\ \A w \in Versions : shipped[w] # {} => w < v
  /\ shipped' = [shipped EXCEPT ![v] = waiting]
  /\ waiting' = {}

Next == (\E c \in Changes : Land(c)) \/ (\E v \in Versions : Release(v))

Spec == Init /\ [][Next]_vars

=============================================================================
