------------------------------ MODULE ScopeProofs ------------------------------
(***************************************************************************)
(* Theorems of Scope, for any module, any trees and any change: a scoped   *)
(* check leaves out nothing that moved, and agrees with the whole bar,     *)
(* when no change deletes a file embedded from further up.                 *)
(***************************************************************************)
EXTENDS Scope, FiniteSetTheorems, TLAPS

(* The trees and what their tests do: what Change leaves. *)
TreeInv ==
  /\ base \in Trees /\ tree \in Trees
  /\ OwnFiles(base) /\ OwnFiles(tree)
  /\ change \in Changes
  /\ was \in [Packages -> Outcomes] /\ now \in [Packages -> Outcomes]
  /\ \A p \in Packages : was[p] \in MayDo(base, p) /\ now[p] \in MayDo(tree, p)
  /\ Green(base, was)
  /\ phase # "green" => Edits(base, tree, change)
  /\ phase # "green" => \A p \in Packages : ~Moved(p) => now[p] = was[p]

(* What Measure reads. *)
ScopedTo(owners, importers) ==
  /\ ~change.global /\ change.go \subseteq tree.pkgs
  /\ owners = Owners(tree, change)
  /\ importers = Importers(tree, owners)

Scoped == ScopedTo(changed, reached)

(* What the floor finds of a package it compares and does not count as lost:
   the run covers what the base's tests of the same packages covered. *)
Compared ==
  /\ untouched = Unchanged(LinkedBy(reached))
  /\ lost \subseteq untouched
  /\ \A p \in untouched \ lost : \A r \in reached \cap base.pkgs :
       was[r] \cap Statements[p] \subseteq Covered(now, reached)

PhaseInv ==
  /\ phase \in {"green", "changed", "measured", "ran", "compared", "done"}
  /\ verdict \in Verdicts
  /\ phase # "done" => verdict = "none"
  /\ phase \in {"green", "changed"} => changed = {} /\ reached = {} /\ untouched = {} /\ lost = {}
  /\ phase \in {"measured", "ran", "compared"} \/ Narrowed => Scoped
  /\ phase = "done" /\ ~Narrowed => changed = {} /\ reached = {}
  /\ phase \in {"ran", "compared"} => \A p \in reached : now[p] # Failed
  /\ untouched \subseteq Packages \ changed /\ lost \subseteq untouched
  /\ phase = "compared" => Compared

IInv == TreeInv /\ PhaseInv /\ Agreement

-----------------------------------------------------------------------------
(* Lemmas about listings *)

(* The sets a listing holds are sets of packages and of files, and a package's
   test binary links packages of the tree. *)
LEMMA TreeFacts ==
  ASSUME NEW t \in Trees
  PROVE  /\ t.pkgs \subseteq Packages
         /\ t.files \subseteq Data
         /\ \A p \in Packages : /\ t.deps[p] \subseteq Packages
                                /\ t.tests[p] \subseteq Packages
                                /\ t.patterns[p] \subseteq Data
                                /\ t.opens[p] \subseteq Data
         /\ \A p \in t.pkgs : p \in Links(t, p) /\ Links(t, p) \subseteq t.pkgs
<1>1. t \in Tree
  BY TreesAssumption
<1>2. /\ t.pkgs \subseteq Packages
      /\ t.files \subseteq Data
      /\ \A p \in Packages : /\ t.deps[p] \subseteq Packages
                             /\ t.tests[p] \subseteq Packages
                             /\ t.patterns[p] \subseteq Data
                             /\ t.opens[p] \subseteq Data
  BY <1>1 DEF Tree
<1>3. \A p \in t.pkgs : p \in Links(t, p) /\ Links(t, p) \subseteq t.pkgs
  <2>1. \A p \in t.pkgs : t.deps[p] \subseteq t.pkgs /\ t.tests[p] \subseteq t.pkgs
    BY TreesAssumption
  <2>2. QED
    BY <2>1 DEF Links
<1>4. QED
  BY <1>2, <1>3

(* The importers of some packages are those whose test binary links one. *)
LEMMA ImportersLink ==
  ASSUME NEW t \in Trees, NEW pkgs \in SUBSET Packages
  PROVE  Importers(t, pkgs) = {p \in t.pkgs : Links(t, p) \cap pkgs # {}}
BY DEF Importers, Reaches, Links

(* A package that is not edited, whose binary links nothing that is, links
   what it linked. *)
LEMMA SameLinks ==
  ASSUME NEW t \in Trees, NEW u \in Trees, NEW c \in Changes, Edits(t, u, c),
         NEW p \in Packages, Links(u, p) \cap c.go = {}
  PROVE  Links(t, p) = Links(u, p)
<1>1. p \notin c.go
  BY DEF Links
<1>2. t.tests[p] = u.tests[p]
  BY <1>1 DEF Edits
<1>3. ASSUME NEW q \in {p} \cup u.tests[p]
      PROVE  t.deps[q] = u.deps[q]
  <2>1. q \notin c.go /\ u.deps[q] \cap c.go = {}
    BY <1>3 DEF Links
  <2>2. q \in Packages
    BY <1>3, TreeFacts
  <2>3. QED
    BY <2>1, <2>2 DEF Edits
<1>4. QED
  BY <1>2, <1>3 DEF Links

-----------------------------------------------------------------------------
(* Lemmas about a scope that was measured *)

(* The owners of a change are packages of the tree, and import themselves. *)
LEMMA OwnersInTree ==
  ASSUME TreeInv, NEW owners, NEW importers, ScopedTo(owners, importers)
  PROVE  /\ change.go \subseteq owners /\ owners \subseteq importers
         /\ importers \subseteq tree.pkgs /\ owners \subseteq Packages
<1>1. owners \subseteq tree.pkgs /\ change.go \subseteq owners
  BY DEF ScopedTo, Owners, Nearest
<1>2. tree.pkgs \subseteq Packages /\ \A p \in tree.pkgs : p \in Links(tree, p)
  BY TreeFacts DEF TreeInv
<1>3. importers = {p \in tree.pkgs : Links(tree, p) \cap owners # {}}
  BY <1>1, <1>2, ImportersLink DEF TreeInv, ScopedTo
<1>4. QED
  BY <1>1, <1>2, <1>3

(* A test binary outside Reached links and reads nothing that moved. *)
LEMMA OutsideUnmoved ==
  ASSUME TreeInv, phase # "green", ~DropsEmbedded,
         NEW owners, NEW importers, ScopedTo(owners, importers),
         NEW p \in tree.pkgs \ importers
  PROVE  ~Moved(p)
<1>1. /\ tree \in Trees /\ base \in Trees /\ change \in Changes
      /\ Edits(base, tree, change) /\ OwnFiles(tree)
  BY DEF TreeInv
<1>2. p \in Packages /\ p \in Links(tree, p) /\ Links(tree, p) \subseteq tree.pkgs
  BY <1>1, TreeFacts
<1>3. Links(tree, p) \cap owners = {}
  BY <1>1, OwnersInTree, ImportersLink DEF ScopedTo
<1>4. Links(tree, p) \cap change.go = {}
  BY <1>3, OwnersInTree
<1>5. Links(base, p) = Links(tree, p)
  BY <1>1, <1>2, <1>4, SameLinks
<1>6. p \in base.pkgs
  BY <1>1, <1>2, <1>4 DEF Edits
<1>7. /\ base.opens[p] = tree.opens[p]
      /\ \A q \in Links(tree, p) : base.patterns[q] = tree.patterns[q]
  <2>1. \A q \in Links(tree, p) : q \in Packages \ change.go
    BY <1>1, <1>2, <1>4, TreeFacts
  <2>2. QED
    BY <1>1, <1>2, <2>1 DEF Edits
<1>8. Opened(base, p) = Opened(tree, p)
  BY <1>5, <1>7 DEF Opened
<1>9. ASSUME NEW f \in Opened(tree, p), f \in change.data
      PROVE  FALSE
  <2>1. CASE f \in tree.opens[p]
    <3>1. Nearest(tree, f) = {p}
      BY <1>1, <2>1 DEF OwnFiles
    <3>2. p \in owners
      BY <1>9, <3>1 DEF ScopedTo, Owners
    <3>3. QED
      BY <1>2, <1>3, <3>2
  <2>2. ASSUME NEW q \in Links(tree, p), f \in tree.patterns[q]
        PROVE  FALSE
    <3>1. q \in tree.pkgs /\ q \notin owners
      BY <1>2, <1>3
    <3>2. CASE f \in tree.files
      BY <1>9, <2>2, <3>1, <3>2 DEF ScopedTo, Owners, EmbedFiles
    <3>3. CASE f \notin tree.files
      <4>1. f \in base.files \ tree.files
        BY <1>1, <1>9, <3>3 DEF Edits
      <4>2. Nearest(tree, f) = {q}
        BY <1>1, <2>2, <3>1, <4>1 DEF Edits
      <4>3. q \in owners
        BY <1>9, <4>2 DEF ScopedTo, Owners
      <4>4. QED
        BY <3>1, <4>3
    <3>4. QED
      BY <3>2, <3>3
  <2>3. QED
    BY <2>1, <2>2 DEF Opened
<1>10. QED
  BY <1>4, <1>5, <1>6, <1>8, <1>9 DEF Moved, Moves, ScopedTo

-----------------------------------------------------------------------------
(* Lemmas about coverage *)

(* Covering more of a package clears the floor as well. *)
LEMMA ClearsMore ==
  ASSUME NEW p \in Packages, NEW A, NEW B,
         A \cap Statements[p] \subseteq B \cap Statements[p], Clears(p, A)
  PROVE  Clears(p, B)
<1> DEFINE SA == A \cap Statements[p]
           SB == B \cap Statements[p]
<1>1. IsFiniteSet(Statements[p])
  BY ScopeAssumption
<1>2. IsFiniteSet(SB)
  BY <1>1, FS_Subset
<1>3. /\ Cardinality(SA) \in Nat /\ Cardinality(SB) \in Nat
      /\ Cardinality(SA) <= Cardinality(SB)
  BY <1>2, FS_Subset, FS_CardinalityType
<1>4. Cardinality(Statements[p]) \in Nat /\ Threshold \in Nat
  BY <1>1, FS_CardinalityType, ScopeAssumption
<1>5. 100 * Cardinality(SA) >= Threshold * Cardinality(Statements[p])
  BY DEF Clears
<1> HIDE DEF SA, SB
<1>6. Threshold * Cardinality(Statements[p]) \in Nat
  BY <1>4
<1>7. 100 * Cardinality(SB) >= Threshold * Cardinality(Statements[p])
  BY <1>3, <1>5, <1>6
<1>8. QED
  BY <1>7 DEF Clears, SB

(* Tests that cover a statement of a package link it. *)
LEMMA CoversLinked ==
  ASSUME NEW t \in Trees, NEW q \in t.pkgs, NEW did, did \in MayDo(t, q), did # Failed,
         NEW p \in Packages, NEW s \in did \cap Statements[p]
  PROVE  p \in Links(t, q)
<1>1. PICK r \in Links(t, q) : s \in Statements[r]
  BY DEF MayDo
<1>2. r \in Packages
  BY TreeFacts
<1>3. QED
  BY <1>1, <1>2, ScopeAssumption

(* A package's figure is that of the tests that link it. *)
LEMMA CoveredByLinkers ==
  ASSUME TreeInv, NEW p \in Packages, NEW pkgs \in SUBSET tree.pkgs,
         \A q \in tree.pkgs \ pkgs : p \notin Links(tree, q)
  PROVE  Covered(now, tree.pkgs) \cap Statements[p] = Covered(now, pkgs) \cap Statements[p]
<1>1. ASSUME NEW q \in tree.pkgs, now[q] # Failed, NEW s \in now[q] \cap Statements[p]
      PROVE  q \in pkgs
  <2>1. tree \in Trees /\ q \in Packages /\ now[q] \in MayDo(tree, q)
    BY TreeFacts DEF TreeInv
  <2>2. p \in Links(tree, q)
    BY <1>1, <2>1, CoversLinked
  <2>3. QED
    BY <2>2
<1>2. QED
  BY <1>1 DEF Covered

-----------------------------------------------------------------------------
(* Lemmas about the verdict *)

(* A package whose tree has all of the base's is one of both or is edited. *)
LEMMA BaseInTree ==
  ASSUME TreeInv, phase # "green", change.go \subseteq tree.pkgs
  PROVE  /\ base.pkgs \subseteq tree.pkgs
         /\ tree.pkgs \ change.go \subseteq base.pkgs
<1>1. base \in Trees /\ tree \in Trees /\ Edits(base, tree, change)
  BY DEF TreeInv
<1>2. base.pkgs \subseteq Packages /\ tree.pkgs \subseteq Packages
  BY <1>1, TreeFacts
<1>3. \A p \in Packages \ change.go : p \in base.pkgs <=> p \in tree.pkgs
  BY <1>1 DEF Edits
<1>4. QED
  BY <1>2, <1>3

(* A change that owns no package leaves the whole bar's verdict. *)
LEMMA SkipIsGreen ==
  ASSUME TreeInv, phase # "green", ~DropsEmbedded,
         ScopedTo({}, Importers(tree, {}))
  PROVE  Green(tree, now)
<1>1. change.go = {}
  BY OwnersInTree
<1>2. base.pkgs = tree.pkgs
  BY <1>1, BaseInTree DEF ScopedTo
<1>3. tree \in Trees /\ tree.pkgs \subseteq Packages
  BY TreeFacts DEF TreeInv
<1>4. Importers(tree, {}) = {}
  BY <1>3, ImportersLink
<1>5. \A p \in tree.pkgs : now[p] = was[p]
  BY <1>3, <1>4, OutsideUnmoved DEF TreeInv
<1>6. Green(base, was)
  BY DEF TreeInv
<1>7. Covered(now, tree.pkgs) = Covered(was, base.pkgs)
  BY <1>2, <1>5 DEF Covered
<1>8. QED
  BY <1>2, <1>5, <1>6, <1>7 DEF Green

(* A package the floor compared and did not count as lost still clears it. *)
LEMMA KeptClears ==
  ASSUME TreeInv, phase # "green", ~DropsEmbedded, Scoped, Compared,
         NEW p \in tree.pkgs \ (changed \cup lost), Measurable(p)
  PROVE  Clears(p, Covered(now, tree.pkgs))
<1>1. /\ base \in Trees /\ tree \in Trees /\ p \in Packages
      /\ base.pkgs \subseteq tree.pkgs
      /\ tree.pkgs \subseteq Packages
      /\ change.go \subseteq changed /\ reached \subseteq tree.pkgs
  BY TreeFacts, BaseInTree, OwnersInTree DEF TreeInv, Scoped, ScopedTo
<1>2. p \in base.pkgs
  BY <1>1, BaseInTree DEF Scoped, ScopedTo
<1>3. Clears(p, Covered(was, base.pkgs))
  BY <1>2 DEF TreeInv, Green
<1>4. ASSUME NEW q \in base.pkgs, NEW s \in was[q] \cap Statements[p]
      PROVE  s \in Covered(now, tree.pkgs)
  <2>1. q \in Packages /\ was[q] \in MayDo(base, q) /\ was[q] # Failed
    BY <1>1 DEF TreeInv, Green
  <2>2. CASE q \notin reached
    <3>1. q \in tree.pkgs /\ ~Moved(q)
      BY <1>1, <2>2, OutsideUnmoved DEF Scoped
    <3>2. now[q] = was[q]
      BY <2>1, <3>1 DEF TreeInv
    <3>3. QED
      BY <1>4, <2>1, <3>1, <3>2 DEF Covered
  <2>3. CASE q \in reached
    <3>1. p \in Links(base, q)
      BY <1>1, <1>4, <2>1, CoversLinked
    <3>2. p \in untouched
      BY <2>3, <3>1 DEF Compared, Unchanged, LinkedBy, BaseLinks
    <3>3. s \in Covered(now, reached)
      BY <1>4, <2>3, <3>2 DEF Compared
    <3>4. QED
      BY <1>1, <3>3 DEF Covered
  <2>4. QED
    BY <2>2, <2>3
<1>5. Covered(was, base.pkgs) \cap Statements[p] \subseteq Covered(now, tree.pkgs) \cap Statements[p]
  BY <1>4 DEF Covered
<1>6. QED
  BY <1>1, <1>3, <1>5, ClearsMore

(* What is measured for the packages that lost coverage is of the tree. *)
LEMMA RestInTree == Rest \subseteq tree.pkgs
BY DEF Rest, Contributors, Importers

(* The floor judges a package at the whole suite's figure. *)
LEMMA JudgedWhole ==
  ASSUME TreeInv, Scoped, lost \subseteq Packages, NEW p \in Judged
  PROVE  /\ p \in Packages
         /\ Covered(now, tree.pkgs) \cap Statements[p]
              = Covered(now, reached \cup Rest) \cap Statements[p]
<1>1. tree \in Trees /\ reached \subseteq tree.pkgs /\ changed \subseteq Packages
  BY OwnersInTree DEF TreeInv, Scoped
<1>2. p \in Packages
  BY <1>1 DEF Judged, Costed
<1>3. reached = {q \in tree.pkgs : Links(tree, q) \cap changed # {}}
  BY <1>1, ImportersLink DEF Scoped, ScopedTo
<1>4. Rest = {q \in tree.pkgs : Links(tree, q) \cap Costed # {}} \ reached
  <2>1. Costed \in SUBSET Packages
    BY DEF Costed
  <2>2. QED
    BY <1>1, <2>1, ImportersLink DEF Rest, Contributors
<1>5. \A q \in tree.pkgs \ (reached \cup Rest) : p \notin Links(tree, q)
  BY <1>3, <1>4 DEF Judged
<1>6. reached \cup Rest \in SUBSET tree.pkgs
  BY <1>1, RestInTree
<1>7. QED
  BY <1>2, <1>5, <1>6, CoveredByLinkers

(* The verdict of Judge is the whole bar's. *)
LEMMA JudgeAgrees ==
  ASSUME TreeInv, phase = "compared", ~DropsEmbedded, Scoped, Compared, lost \subseteq Packages,
         \A p \in reached : now[p] # Failed,
         Judge
  PROVE  verdict' = (IF Green(tree, now) THEN "pass" ELSE "fail") /\ phase' = "done"
<1> DEFINE fails == \/ \E p \in Rest : now[p] = Failed
                    \/ \E p \in Judged : ~Clears(p, Covered(now, reached \cup Rest))
<1>1. /\ tree \in Trees /\ base \in Trees
      /\ base.pkgs \subseteq tree.pkgs /\ tree.pkgs \subseteq Packages
  BY TreeFacts, BaseInTree DEF TreeInv, Scoped, ScopedTo
<1>2. \A p \in Judged :
        /\ p \in Packages
        /\ Covered(now, tree.pkgs) \cap Statements[p]
             = Covered(now, reached \cup Rest) \cap Statements[p]
  BY JudgedWhole
<1>3. changed \subseteq tree.pkgs /\ Costed \subseteq tree.pkgs
  <2>1. reached \subseteq tree.pkgs /\ changed \subseteq reached
    BY OwnersInTree DEF Scoped
  <2>2. LinkedBy(reached) \subseteq tree.pkgs
    BY <1>1, <2>1, TreeFacts DEF LinkedBy, BaseLinks
  <2>3. QED
    BY <2>1, <2>2 DEF Compared, Unchanged, Costed
<1>4. CASE fails
  <2>1. ~Green(tree, now)
    <3>1. ASSUME NEW p \in Rest, now[p] = Failed
          PROVE  ~Green(tree, now)
      BY <3>1, RestInTree DEF Green
    <3>2. ASSUME NEW p \in Judged, ~Clears(p, Covered(now, reached \cup Rest))
          PROVE  ~Green(tree, now)
      <4>1. ~Clears(p, Covered(now, tree.pkgs))
        BY <1>2, <3>2, ClearsMore
      <4>2. p \in tree.pkgs /\ Measurable(p)
        BY <1>3 DEF Judged, Costed
      <4>3. QED
        BY <4>1, <4>2 DEF Green
    <3>3. QED
      BY <1>4, <3>1, <3>2
  <2>2. QED
    BY <1>4, <2>1 DEF Judge, End
<1>5. CASE ~fails
  <2>1. ASSUME NEW p \in tree.pkgs
        PROVE  now[p] # Failed
    <3>1. CASE p \notin reached
      <4>1. ~Moved(p)
        BY <3>1, OutsideUnmoved DEF Scoped
      <4>2. p \in base.pkgs /\ now[p] = was[p]
        BY <1>1, <4>1 DEF TreeInv, Moved, Moves
      <4>3. QED
        BY <4>2 DEF TreeInv, Green
    <3>2. QED
      BY <3>1
  <2>2. ASSUME NEW p \in tree.pkgs, Measurable(p)
        PROVE  Clears(p, Covered(now, tree.pkgs))
    <3>1. CASE p \in Judged
      <4>1. Clears(p, Covered(now, reached \cup Rest))
        BY <1>5, <3>1
      <4>2. QED
        BY <1>2, <3>1, <4>1, ClearsMore
    <3>2. CASE p \notin Judged
      <4>1. p \notin changed \cup lost
        BY <2>2, <3>2 DEF Judged, Costed
      <4>2. QED
        BY <2>2, <4>1, KeptClears
    <3>3. QED
      BY <3>1, <3>2
  <2>3. \E p \in tree.pkgs : Measurable(p)
    BY <1>1 DEF TreeInv, Green
  <2>4. Green(tree, now)
    BY <2>1, <2>2, <2>3 DEF Green
  <2>5. QED
    BY <1>5, <2>4 DEF Judge, End
<1>6. QED
  BY <1>4, <1>5

(* Compare leaves out of lost only packages whose base coverage was kept. *)
LEMMA CompareKeeps ==
  ASSUME TreeInv, phase = "ran", Scoped, Compare
  PROVE  Compared'
<1> DEFINE unreplayed == Unchanged(LinkedBy(reached \cap Unreplayed))
<1>1. /\ UNCHANGED <<treeVars, scopeVars>>
      /\ untouched' = Unchanged(LinkedBy(reached))
  BY DEF Compare
<1>2. /\ base \in Trees /\ OwnFiles(base) /\ Edits(base, tree, change)
      /\ base.pkgs \subseteq Packages
  BY TreeFacts DEF TreeInv
<1>3. unreplayed \subseteq untouched'
  BY <1>1 DEF Unchanged, LinkedBy
<1>4. CASE lost' = untouched'
  BY <1>1, <1>4 DEF Compared, Unchanged, LinkedBy, BaseLinks, Links, treeVars, scopeVars
<1>5. ASSUME NEW replay \in [Replays -> Outcomes \ {Failed}],
             \A p \in Replays : replay[p] \in MayReplay(p),
             lost' = unreplayed \cup (untouched' \cap LostBlocks(replay))
      PROVE  Compared'
  <2>1. ASSUME NEW p \in untouched' \ lost', NEW r \in reached \cap base.pkgs,
               NEW s \in was[r] \cap Statements[p]
        PROVE  s \in Covered(now, reached)
    <3>1. /\ r \in Packages /\ was[r] \in MayDo(base, r) /\ was[r] # Failed
          /\ p \in Packages
      <4>1. r \in Packages /\ was[r] \in MayDo(base, r) /\ was[r] # Failed
        BY <1>2 DEF TreeInv, Green
      <4>2. p \in Packages
        BY <1>1, <2>1, TreeFacts, OwnersInTree
           DEF Unchanged, LinkedBy, BaseLinks, TreeInv, Scoped
      <4>3. QED
        BY <4>1, <4>2
    <3>2. p \in Links(base, r)
      BY <1>2, <2>1, <3>1, CoversLinked
    <3>3. r \notin Unreplayed
      BY <1>1, <1>5, <2>1, <3>2 DEF Unchanged, LinkedBy, BaseLinks
    <3>4. r \in Replays
      BY <3>3 DEF Replays
    <3>5. base.opens[r] \cap change.data = {}
      <4>1. ASSUME NEW f \in base.opens[r] \cap change.data
            PROVE  FALSE
        <5>1. Nearest(tree, f) = {r}
          BY <1>2, <4>1 DEF Edits
        <5>2. \A q \in base.pkgs : f \notin base.patterns[q]
          BY <1>2, <4>1 DEF OwnFiles
        <5>3. r \in Unreplayed
          BY <3>1, <4>1, <5>1, <5>2 DEF Unreplayed, EmbedFiles
        <5>4. QED
          BY <3>3, <5>3
      <4>2. QED
        BY <4>1
    <3>6. replay[r] = was[r]
      BY <1>5, <3>4, <3>5 DEF MayReplay
    <3>7. s \in Covered(replay, Replays)
      BY <2>1, <3>1, <3>4, <3>6 DEF Covered
    <3>8. p \notin LostBlocks(replay)
      BY <1>5, <2>1
    <3>9. QED
      BY <2>1, <3>1, <3>7, <3>8 DEF LostBlocks
  <2>2. lost' \subseteq untouched'
    BY <1>3, <1>5
  <2>3. \A p \in untouched' \ lost' : \A r \in reached \cap base.pkgs :
          was[r] \cap Statements[p] \subseteq Covered(now, reached)
    BY <2>1
  <2>4. QED
    BY <1>1, <2>2, <2>3
       DEF Compared, Unchanged, LinkedBy, BaseLinks, Links, Covered, treeVars, scopeVars
<1>6. QED
  BY <1>4, <1>5 DEF Compare

-----------------------------------------------------------------------------
(* The invariant *)

(* A package a change does not move does what it may at the base. *)
LEMMA UnmovedDoes ==
  ASSUME base \in Trees, NEW u \in Trees, NEW c \in Changes, Edits(base, u, c),
         NEW p \in Packages, ~Moves(c, u, p)
  PROVE  MayDo(base, p) = MayDo(u, p)
<1>1. p \in base.pkgs /\ Links(u, p) \cap c.go = {}
  BY DEF Moves
<1>2. Links(base, p) = Links(u, p)
  BY <1>1, SameLinks
<1>3. p \notin c.go
  BY <1>1, <1>2, TreeFacts
<1>4. p \in u.pkgs
  BY <1>1, <1>3 DEF Edits
<1>5. QED
  BY <1>1, <1>2, <1>4 DEF MayDo

LEMMA InitInv == Init => IInv
<1> SUFFICES ASSUME Init PROVE IInv
  OBVIOUS
<1>1. TreeInv
  BY ScopeAssumption DEF Init, TreeInv
<1>2. PhaseInv
  BY DEF Init, PhaseInv, Narrowed, Verdicts
<1>3. Agreement
  BY DEF Init, Agreement
<1>4. QED
  BY <1>1, <1>2, <1>3 DEF IInv

LEMMA ChangeTree == TreeInv /\ Change => TreeInv'
<1> SUFFICES ASSUME TreeInv, Change PROVE TreeInv'
  OBVIOUS
<1>1. PICK c \in Changes, u \in Trees :
        /\ OwnFiles(u) /\ Edits(base, u, c)
        /\ change' = c /\ tree' = u
        /\ now' \in [Packages -> Outcomes]
        /\ \A p \in Packages : now'[p] \in (IF Moves(c, u, p) THEN MayDo(u, p) ELSE {was[p]})
  BY DEF Change
<1>2. base' = base /\ was' = was /\ base \in Trees
  BY DEF Change, TreeInv
<1>3. ASSUME NEW p \in Packages
      PROVE  now'[p] \in MayDo(u, p)
  <2>1. CASE Moves(c, u, p)
    BY <1>1, <2>1
  <2>2. CASE ~Moves(c, u, p)
    <3>1. now'[p] = was[p]
      BY <1>1, <2>2
    <3>2. MayDo(base, p) = MayDo(u, p)
      BY <1>1, <1>2, <2>2, UnmovedDoes
    <3>3. QED
      BY <3>1, <3>2 DEF TreeInv
  <2>3. QED
    BY <2>1, <2>2
<1>4. \A p \in Packages : ~Moved(p)' => now'[p] = was[p]
  <2>1. \A p \in Packages : Moved(p)' <=> Moves(c, u, p)
    BY <1>1, <1>2 DEF Moved, Moves
  <2>2. QED
    BY <1>1, <2>1
<1>5. QED
  BY <1>1, <1>2, <1>3, <1>4 DEF TreeInv

(* The steps of the check leave the trees. *)
LEMMA TreeStays ==
  ASSUME TreeInv, phase # "green", UNCHANGED treeVars
  PROVE  TreeInv'
BY DEF TreeInv, treeVars, Moved, Moves

(* They end on the whole bar's verdict. *)
LEMMA EndsAgree ==
  ASSUME UNCHANGED treeVars,
         verdict' \in {"pass", "skip"} => Green(tree, now),
         verdict' = "fail" => ~Green(tree, now)
  PROVE  Agreement'
BY DEF Agreement, treeVars

LEMMA ScopeStays ==
  ASSUME UNCHANGED <<treeVars, scopeVars>>
  PROVE  Scoped' <=> Scoped
BY DEF Scoped, ScopedTo, treeVars, scopeVars

(* What a scope that was measured is worth to the steps that follow. *)
LEMMA ScopeInTree ==
  ASSUME IInv, Scoped
  PROVE  change.go \subseteq changed /\ changed \subseteq reached /\ reached \subseteq tree.pkgs
BY OwnersInTree DEF IInv, Scoped

LEMMA MeasureInv == ASSUME IInv, ~DropsEmbedded, Measure PROVE IInv'
<1>1. /\ phase = "changed" /\ verdict = "none"
      /\ changed = {} /\ untouched = {} /\ lost = {}
      /\ UNCHANGED <<treeVars, floorVars>>
  BY DEF Measure, IInv, PhaseInv
<1>2. \/ phase' = "measured" /\ verdict' = "none"
      \/ changed' = {} /\ phase' = "done" /\ verdict' = "skip"
  BY <1>1 DEF Measure, End
<1>3. ScopedTo(changed', reached')
  BY DEF Measure, ScopedTo
<1>4. TreeInv /\ TreeInv'
  BY <1>1, TreeStays DEF IInv
<1>5. Scoped'
  BY <1>1, <1>3 DEF Scoped, ScopedTo, treeVars
<1>6. changed' = {} => Green(tree, now)
  BY <1>1, <1>3, <1>4, SkipIsGreen DEF ScopedTo
<1>7. Agreement'
  BY <1>1, <1>2, <1>6, EndsAgree
<1>8. PhaseInv'
  <2>1. untouched' = {} /\ lost' = {}
    BY <1>1 DEF floorVars
  <2>2. Narrowed' \/ phase' = "measured"
    BY <1>2 DEF Narrowed
  <2>3. QED
    BY <1>1, <1>2, <1>5, <2>1, <2>2 DEF PhaseInv, Verdicts
<1>9. QED
  BY <1>4, <1>7, <1>8 DEF IInv

(* A step that ends the check without a word on the scope or the floor. *)
LEMMA EndInv ==
  ASSUME IInv, phase # "green", phase' = "done", verdict' \in {"pass", "fail", "error"},
         UNCHANGED <<treeVars, scopeVars, floorVars>>, Agreement'
  PROVE  IInv'
<1>1. TreeInv'
  BY TreeStays DEF IInv
<1>2. (Scoped' <=> Scoped) /\ (Narrowed' => Narrowed) /\ (~Narrowed' => reached = {})
  BY ScopeStays DEF Narrowed, scopeVars
<1>3. ~Narrowed' => changed = {}
  <2>1. CASE Scoped
    BY <1>2, <2>1, ScopeInTree
  <2>2. CASE ~Scoped
    BY <1>2, <2>2 DEF IInv, PhaseInv, Narrowed
  <2>3. QED
    BY <2>1, <2>2
<1>4. PhaseInv'
  BY <1>2, <1>3 DEF IInv, PhaseInv, Verdicts, scopeVars, floorVars
<1>5. QED
  BY <1>1, <1>4 DEF IInv

LEMMA WholeTreeInv == ASSUME IInv, WholeTree PROVE IInv'
<1>1. /\ phase = "changed" /\ phase' = "done"
      /\ verdict' = (IF Green(tree, now) THEN "pass" ELSE "fail")
      /\ UNCHANGED <<treeVars, scopeVars, floorVars>>
  BY DEF WholeTree, End
<1>2. Agreement'
  BY <1>1, EndsAgree
<1>3. QED
  BY <1>1, <1>2, EndInv

LEMMA RunSuiteInv == ASSUME IInv, RunSuite PROVE IInv'
<1>1. phase = "measured" /\ UNCHANGED <<treeVars, scopeVars, floorVars>> /\ verdict = "none" /\ Scoped
  BY DEF RunSuite, IInv, PhaseInv
<1>2. CASE \E p \in reached : now[p] = Failed
  <2>1. ~Green(tree, now)
    BY <1>1, <1>2, ScopeInTree DEF Green
  <2>2. phase' = "done" /\ verdict' = "fail"
    BY <1>2 DEF RunSuite, End
  <2>3. Agreement'
    BY <1>1, <2>1, <2>2, EndsAgree
  <2>4. QED
    BY <1>1, <2>2, <2>3, EndInv
<1>3. CASE ~\E p \in reached : now[p] = Failed
  <2>1. phase' = "ran" /\ verdict' = "none"
    BY <1>1, <1>3 DEF RunSuite
  <2>2. TreeInv' /\ Agreement' /\ Scoped'
    BY <1>1, <2>1, TreeStays, EndsAgree, ScopeStays DEF IInv
  <2>3. \A p \in reached' : now'[p] # Failed
    BY <1>1, <1>3 DEF scopeVars, treeVars
  <2>4. PhaseInv'
    BY <1>1, <2>1, <2>2, <2>3 DEF IInv, PhaseInv, Verdicts, scopeVars, floorVars
  <2>5. QED
    BY <2>2, <2>4 DEF IInv
<1>4. QED
  BY <1>2, <1>3

LEMMA NoBaselineInv == ASSUME IInv, NoBaseline PROVE IInv'
<1>1. /\ phase = "ran" /\ phase' = "done" /\ verdict' = "error"
      /\ UNCHANGED <<treeVars, scopeVars, floorVars>>
  BY DEF NoBaseline, End
<1>2. Agreement'
  BY <1>1, EndsAgree
<1>3. QED
  BY <1>1, <1>2, EndInv

LEMMA CompareInv == ASSUME IInv, Compare PROVE IInv'
<1>1. /\ phase = "ran" /\ phase' = "compared"
      /\ UNCHANGED <<treeVars, scopeVars, verdict>>
      /\ untouched' = Unchanged(LinkedBy(reached))
  BY DEF Compare
<1>2. verdict = "none" /\ Scoped /\ TreeInv /\ \A p \in reached : now[p] # Failed
  BY <1>1 DEF IInv, PhaseInv
<1>3. TreeInv' /\ Agreement' /\ Scoped'
  BY <1>1, <1>2, TreeStays, EndsAgree, ScopeStays
<1>4. Compared'
  BY <1>1, <1>2, CompareKeeps
<1>5. untouched' \subseteq Packages \ changed'
  <2>1. LinkedBy(reached) \subseteq Packages
    BY <1>2, TreeFacts, ScopeInTree DEF LinkedBy, BaseLinks, TreeInv
  <2>2. QED
    BY <1>1, <2>1 DEF Unchanged, scopeVars
<1>6. lost' \subseteq untouched'
  BY <1>4 DEF Compared
<1>7. \A p \in reached' : now'[p] # Failed
  BY <1>1, <1>2 DEF scopeVars, treeVars
<1>8. PhaseInv'
  BY <1>1, <1>2, <1>3, <1>4, <1>5, <1>6, <1>7 DEF PhaseInv, Verdicts
<1>9. QED
  BY <1>3, <1>8 DEF IInv

LEMMA JudgeInv == ASSUME IInv, ~DropsEmbedded, Judge PROVE IInv'
<1>1. phase = "compared" /\ UNCHANGED <<treeVars, scopeVars, floorVars>>
  BY DEF Judge
<1>2. /\ TreeInv /\ Scoped /\ Compared /\ lost \subseteq Packages
      /\ \A p \in reached : now[p] # Failed
  BY <1>1 DEF IInv, PhaseInv
<1>3. verdict' = (IF Green(tree, now) THEN "pass" ELSE "fail") /\ phase' = "done"
  BY <1>1, <1>2, JudgeAgrees
<1>4. Agreement'
  BY <1>1, <1>3, EndsAgree
<1>5. QED
  BY <1>1, <1>3, <1>4, EndInv

LEMMA ChangeInv == ASSUME IInv, Change PROVE IInv'
<1>1. /\ phase = "green" /\ phase' = "changed" /\ UNCHANGED <<scopeVars, floorVars, verdict>>
      /\ verdict = "none" /\ changed = {} /\ reached = {} /\ untouched = {} /\ lost = {}
  BY DEF Change, IInv, PhaseInv
<1>2. TreeInv'
  BY ChangeTree DEF IInv
<1>3. Agreement'
  BY <1>1 DEF Agreement
<1>4. PhaseInv'
  BY <1>1 DEF PhaseInv, Narrowed, Verdicts, scopeVars, floorVars
<1>5. QED
  BY <1>2, <1>3, <1>4 DEF IInv

(* A state the system stays in. *)
LEMMA StutterInv == ASSUME IInv, UNCHANGED vars PROVE IInv'
<1>1. TreeInv'
  BY DEF IInv, TreeInv, vars, treeVars, Moved, Moves
<1>2. (Scoped' <=> Scoped) /\ (Compared' <=> Compared)
  BY ScopeStays DEF vars, treeVars, scopeVars, floorVars, Compared, Unchanged, LinkedBy, BaseLinks, Links, Covered
<1>3. PhaseInv'
  BY <1>2 DEF IInv, PhaseInv, vars, treeVars, scopeVars, floorVars, Narrowed
<1>4. Agreement'
  BY DEF IInv, Agreement, vars, treeVars
<1>5. QED
  BY <1>1, <1>3, <1>4 DEF IInv

-----------------------------------------------------------------------------
(* Theorems *)

(* The invariant holds of a check of any change that deletes no file embedded
   from further up. *)
THEOREM Invariance == ~DropsEmbedded => (Spec => []IInv)
<1> SUFFICES ASSUME ~DropsEmbedded PROVE Spec => []IInv
  OBVIOUS
<1>1. IInv /\ [Next]_vars => IInv'
  <2> SUFFICES ASSUME IInv, [Next]_vars PROVE IInv'
    OBVIOUS
  <2>1. CASE Change
    BY <2>1, ChangeInv
  <2>2. CASE WholeTree
    BY <2>2, WholeTreeInv
  <2>3. CASE Measure
    BY <2>3, MeasureInv
  <2>4. CASE RunSuite
    BY <2>4, RunSuiteInv
  <2>5. CASE NoBaseline
    BY <2>5, NoBaselineInv
  <2>6. CASE Compare
    BY <2>6, CompareInv
  <2>7. CASE Judge
    BY <2>7, JudgeInv
  <2>8. CASE UNCHANGED vars
    BY <2>8, StutterInv
  <2>9. QED
    BY <2>1, <2>2, <2>3, <2>4, <2>5, <2>6, <2>7, <2>8 DEF Next
<1>2. QED
  BY <1>1, InitInv, PTL DEF Spec

(* Every variable has its type (the fields of the check's own records). *)
THEOREM Typing == ~DropsEmbedded => (Spec => []TypeOK)
<1>1. IInv => TypeOK
  <2> SUFFICES ASSUME IInv PROVE TypeOK
    OBVIOUS
  <2>1. changed \subseteq reached /\ reached \subseteq tree.pkgs
    <3>1. CASE Scoped
      BY <3>1, ScopeInTree
    <3>2. CASE ~Scoped
      BY <3>2 DEF IInv, PhaseInv
    <3>3. QED
      BY <3>1, <3>2
  <2>2. QED
    BY <2>1 DEF IInv, TreeInv, PhaseInv, TypeOK
<1>2. QED
  BY <1>1, Invariance, PTL

(* What a scoped run leaves out is the base's, whatever the module imports and
   embeds (base.go Baseline, scope.go Resolve). *)
THEOREM Outside == ~DropsEmbedded => (Spec => []OutsideIsTheBases)
<1> SUFFICES ASSUME ~DropsEmbedded PROVE Spec => []OutsideIsTheBases
  OBVIOUS
<1>1. IInv => OutsideIsTheBases
  <2> SUFFICES ASSUME IInv, Narrowed PROVE \A p \in tree.pkgs \ reached : ~Moved(p)
    BY DEF OutsideIsTheBases
  <2>1. TreeInv /\ Scoped /\ phase # "green"
    BY DEF IInv, PhaseInv, Narrowed
  <2>2. QED
    BY <2>1, OutsideUnmoved DEF Scoped
<1>2. QED
  BY <1>1, Invariance, PTL

(* A scoped check gives the verdict of the whole bar, whatever the tests do
   (bar/scope.go scopedFloor). *)
THEOREM Agrees == ~DropsEmbedded => (Spec => []Agreement)
<1>1. IInv => Agreement
  BY DEF IInv
<1>2. QED
  BY <1>1, Invariance, PTL

=============================================================================
