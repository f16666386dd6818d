-------------------------------- MODULE MCScope --------------------------------
(* Three packages: c, which holds the statements, lies below a.  da lies in a's
   directory and dc in c's. *)
EXTENDS Scope, TLC

CONSTANTS a, b, c, da, dc

MCWithin == (da :> {a}) @@ (dc :> {a, c})
MCDepth  == (a :> 1) @@ (b :> 1) @@ (c :> 2)

CONSTANTS s1, s2
MCStatements == (a :> {}) @@ (b :> {}) @@ (c :> {s1, s2})

None == [p \in Packages |-> {}]

(* What imports what, and what tests import. *)
Imports == {None,
            [None EXCEPT ![a] = {b}],
            [None EXCEPT ![b] = {c}],
            [None EXCEPT ![a] = {b, c}, ![b] = {c}]}
TestImports == {None, [None EXCEPT ![a] = {c}], [None EXCEPT ![b] = {a}],
                [None EXCEPT ![c] = {b}]}

(* What becomes of the data files: a's is opened or embedded by a, or c's is
   embedded by a. *)
Uses == {[patterns |-> None, opens |-> [None EXCEPT ![a] = {da}]],
         [patterns |-> [None EXCEPT ![a] = {da}], opens |-> None],
         [patterns |-> [None EXCEPT ![a] = {dc}], opens |-> None]}

MkTree(pkgs, d, t, u, files) ==
  [pkgs |-> pkgs, deps |-> d, tests |-> t, patterns |-> u.patterns, files |-> files,
   opens |-> u.opens]

Plain == [patterns |-> None, opens |-> None]

Graphs  == {MkTree(Packages, d, t, Plain, {da, dc}) : d \in Imports, t \in TestImports}
Reading == {MkTree(Packages, d, t, u, fs) :
              d \in {[None EXCEPT ![b] = {c}]}, t \in {None, [None EXCEPT ![a] = {c}]},
              u \in Uses, fs \in {{da, dc}, {da}, {dc}}}
Smaller == {MkTree({a, c}, [None EXCEPT ![a] = d], t, Plain, {da, dc}) :
              d \in {{}, {c}}, t \in {None, [None EXCEPT ![a] = {c}]}}

MCSymmetry == Permutations({s1, s2})

MCTrees == Graphs \cup Reading \cup Smaller

MCChanges ==
  {[go |-> g, data |-> d, global |-> w] :
     g \in {x \in SUBSET Packages : Cardinality(x) <= 1},
     d \in {{}, {da}, {dc}}, w \in {FALSE}}
  \cup {[go |-> {a, b}, data |-> {}, global |-> FALSE],
        [go |-> {}, data |-> {}, global |-> TRUE]}

=============================================================================
