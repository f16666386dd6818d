--------------------------------- MODULE Scope ---------------------------------
(***************************************************************************)
(* A check scoped to a change (internal/scope, internal/bar/scope.go,      *)
(* internal/cover): on a laptop the suite reads the packages the change    *)
(* reaches, and the coverage floor is put together from their run, the     *)
(* base's run of the same tests under an overlay, and the other tests of   *)
(* what lost coverage.  The base has passed the whole bar.                 *)
(*                                                                         *)
(* A tree is a checkout as the go command lists it.  What the tests of a   *)
(* package do is a function of what their binary links and reads, which is *)
(* all that is said of it: it may change when one of those changed, and    *)
(* not otherwise.  A package without tests is one whose tests cover        *)
(* nothing, and one without coverage data is at none of its statements.    *)
(***************************************************************************)
EXTENDS Integers, FiniteSets

CONSTANTS
  Packages,    \* of the module; a package stands for its Go source too
  Data,        \* files that are not Go source
  Within,      \* the packages whose directory a file lies in or below
  Depth,       \* of a package's directory
  Statements,  \* the statement blocks of a package
  Exempt,      \* packages outside the floor
  Threshold,   \* of the floor, in percent
  Trees,       \* the trees a checkout can hold
  Changes,     \* bound: what one change edits, [go, data, global]
  DropsEmbedded, \* whether a change deletes a file embedded from further up
  Failed       \* the outcome of tests that fail

NoChange == [go |-> {}, data |-> {}, global |-> FALSE]

ASSUME ScopeAssumption ==
  /\ Within \in [Data -> SUBSET Packages]
  /\ Depth \in [Packages -> Nat]
  /\ \A f \in Data : \A p, q \in Within[f] : Depth[p] = Depth[q] => p = q
  /\ \A p \in Packages : IsFiniteSet(Statements[p])
  /\ \A p, q \in Packages : p # q => Statements[p] \cap Statements[q] = {}
  /\ Exempt \subseteq Packages
  /\ Threshold \in 1..100
  /\ Changes \subseteq [go : SUBSET Packages, data : SUBSET Data, global : BOOLEAN]
  /\ NoChange \in Changes
  /\ DropsEmbedded \in BOOLEAN

(* What go list says: the packages, what the build of each imports directly or
   through others, what its tests import, and the patterns it embeds; with the
   data files there are, and those a package's tests open. *)
Tree == [pkgs : SUBSET Packages,
         deps : [Packages -> SUBSET Packages],
         tests : [Packages -> SUBSET Packages],
         patterns : [Packages -> SUBSET Data],
         files : SUBSET Data,
         opens : [Packages -> SUBSET Data]]

ASSUME TreesAssumption ==
  /\ Trees \subseteq Tree
  /\ \A t \in Trees : \A p \in t.pkgs : t.deps[p] \cup t.tests[p] \subseteq t.pkgs

VARIABLES
  phase,
  base, was,      \* the tree at the base, and what its tests did there
  tree, now,      \* the checkout, and what its tests would do
  change,         \* what differs between them
  changed, reached,   \* the scope
  untouched, lost,    \* packages compared with the base, and those it cost
  verdict

treeVars  == <<base, was, tree, now, change>>
scopeVars == <<changed, reached>>
floorVars == <<untouched, lost>>
vars == <<phase, treeVars, scopeVars, floorVars, verdict>>

Outcomes == {Failed} \cup SUBSET UNION {Statements[p] : p \in Packages}
Verdicts == {"none", "pass", "fail", "skip", "error"}

TypeOK ==
  /\ phase \in {"green", "changed", "measured", "ran", "compared", "done"}
  /\ base \in Trees /\ tree \in Trees
  /\ was \in [Packages -> Outcomes] /\ now \in [Packages -> Outcomes]
  /\ change \in Changes
  /\ changed \subseteq reached /\ reached \subseteq tree.pkgs
  /\ untouched \subseteq Packages \ changed /\ lost \subseteq untouched
  /\ verdict \in Verdicts

-----------------------------------------------------------------------------
(* What the go command lists, and what the scope asks of it *)

EmbedFiles(t, p) == t.patterns[p] \cap t.files

(* The packages the test binary of p links. *)
Links(t, p) == UNION {{q} \cup t.deps[q] : q \in {p} \cup t.tests[p]}

(* The package whose directory is the nearest, none when the file is under no
   package. *)
Nearest(t, f) ==
  {p \in t.pkgs \cap Within[f] : \A q \in t.pkgs \cap Within[f] : Depth[q] <= Depth[p]}

(* Mutant: a file is an input of its nearest package alone. *)
NearestOwners(t, c) == c.go \cup (UNION {Nearest(t, f) : f \in c.data})

(* Go source is its package's; a data file is the nearest package's, and that
   of every package that embeds it. *)
Owners(t, c) ==
  c.go \cup (UNION {Nearest(t, f) : f \in c.data})
       \cup {p \in t.pkgs : EmbedFiles(t, p) \cap c.data # {}}

Reaches(t, pkgs, p) == p \in pkgs \/ t.deps[p] \cap pkgs # {}

(* Mutant: what tests import is not asked. *)
BuildImporters(t, pkgs) == {p \in t.pkgs : Reaches(t, pkgs, p)}

(* The packages whose build or whose tests reach one of pkgs. *)
Importers(t, pkgs) ==
  {p \in t.pkgs : \E q \in {p} \cup t.tests[p] : Reaches(t, pkgs, q)}

-----------------------------------------------------------------------------
(* What the toolchain and the tests do *)

(* The data files that decide what the tests of p do, with the source it
   links. *)
Opened(t, p) == t.opens[p] \cup UNION {t.patterns[q] : q \in Links(t, p)}

Moves(c, u, p) ==
  \/ c.global \/ p \notin base.pkgs
  \/ \E t \in {base, u} : Links(t, p) \cap c.go # {} \/ Opened(t, p) \cap c.data # {}

Moved(p) == Moves(change, tree, p)

MayDo(t, p) ==
  IF p \in t.pkgs
    THEN {Failed} \cup SUBSET UNION {Statements[q] : q \in Links(t, p)}
    ELSE {{}}

Measurable(p) == p \notin Exempt /\ Statements[p] # {}

Covered(did, pkgs) == UNION {did[p] : p \in {q \in pkgs : did[q] # Failed}}

Clears(p, covered) ==
  100 * Cardinality(covered \cap Statements[p]) >= Threshold * Cardinality(Statements[p])

(* The whole bar's verdict on a tree whose tests do that: every test passes
   and the floor, which must measure something, is held by every package. *)
Green(t, did) ==
  /\ \A p \in t.pkgs : did[p] # Failed
  /\ \A p \in t.pkgs : Measurable(p) => Clears(p, Covered(did, t.pkgs))
  /\ \E p \in t.pkgs : Measurable(p)

(* Tests open files of their own package alone, and none a package embeds. *)
OwnFiles(t) ==
  \A p \in t.pkgs : \A f \in t.opens[p] :
    /\ Nearest(t, f) = {p}
    /\ \A q \in t.pkgs : f \notin t.patterns[q]

(* What an edit changes in a listing: that of a package whose source is not
   edited stays, and so does what it depends on while nothing of that is
   edited; nor is a package made between a file and tests that open it. *)
Edits(t, u, c) ==
  /\ \A p \in Packages \ c.go :
       /\ p \in t.pkgs <=> p \in u.pkgs
       /\ u.tests[p] = t.tests[p] /\ u.patterns[p] = t.patterns[p] /\ u.opens[p] = t.opens[p]
       /\ \/ t.deps[p] \cap c.go = {} /\ u.deps[p] = t.deps[p]
          \/ t.deps[p] \cap c.go # {} /\ u.deps[p] \cap c.go # {}
  /\ c.go \subseteq t.pkgs \cup u.pkgs
  /\ t.files \ c.data = u.files \ c.data
  /\ c.data \subseteq t.files \cup u.files
  /\ \A p \in t.pkgs : \A f \in t.opens[p] \cap c.data : Nearest(u, f) = {p}
  /\ DropsEmbedded \/ \A f \in t.files \ u.files : \A p \in u.pkgs :
       f \in u.patterns[p] => Nearest(u, f) = {p}

-----------------------------------------------------------------------------
(* The check, a step a phase *)

Init ==
  /\ base \in {t \in Trees : OwnFiles(t)}
  /\ was \in [Packages -> Outcomes]
  /\ \A p \in Packages : was[p] \in MayDo(base, p)
  /\ Green(base, was)
  /\ tree = base /\ now = was
  /\ change = NoChange
  /\ phase = "green"
  /\ changed = {} /\ reached = {}
  /\ untouched = {} /\ lost = {}
  /\ verdict = "none"

Change ==
  /\ phase = "green"
  /\ \E c \in Changes : \E u \in {t \in Trees : OwnFiles(t) /\ Edits(base, t, c)} :
       /\ change' = c /\ tree' = u
       /\ now' \in {did \in [Packages -> Outcomes] : \A p \in Packages :
                      did[p] \in (IF Moves(c, u, p) THEN MayDo(u, p) ELSE {was[p]})}
  /\ phase' = "changed"
  /\ UNCHANGED <<base, was, scopeVars, floorVars, verdict>>

End(v) == verdict' = v /\ phase' = "done"

(* The scope falls back: a file that moves any verdict, Go source in a
   directory that is no package, or an answer git or go list did not give. *)
WholeTree ==
  /\ phase = "changed"
  /\ End(IF Green(tree, now) THEN "pass" ELSE "fail")
  /\ UNCHANGED <<treeVars, scopeVars, floorVars>>

Measure ==
  /\ phase = "changed"
  /\ ~change.global /\ change.go \subseteq tree.pkgs
  /\ changed' = Owners(tree, change)
  /\ reached' = Importers(tree, changed')
  /\ IF changed' = {}
       THEN End("skip")
       ELSE phase' = "measured" /\ UNCHANGED verdict
  /\ UNCHANGED <<treeVars, floorVars>>

(* go test over what the change reaches: the floor is not put to a red run. *)
RunSuite ==
  /\ phase = "measured"
  /\ IF \E p \in reached : now[p] = Failed
       THEN End("fail")
       ELSE phase' = "ran" /\ UNCHANGED verdict
  /\ UNCHANGED <<treeVars, scopeVars, floorVars>>

(* The base cannot be rebuilt: git or go list fails, or there is no place for
   the overlay. *)
NoBaseline ==
  /\ phase = "ran"
  /\ End("error")
  /\ UNCHANGED <<treeVars, scopeVars, floorVars>>

(* The packages whose tests read a changed file at run time. *)
Unreplayed ==
  {p \in Packages : \E f \in change.data :
     p \in Nearest(tree, f) /\ ~\E q \in reached \cap base.pkgs : f \in EmbedFiles(base, q)}

(* The Reached packages whose tests are run as the base had them. *)
Replays == (reached \cap base.pkgs) \ Unreplayed

BaseLinks(p) == IF p \in base.pkgs THEN Links(base, p) ELSE {}

(* Mutant: what the tests linked at the base is not asked. *)
LinkedNow(pkgs) == UNION {Links(tree, p) : p \in pkgs}

LinkedBy(pkgs) == UNION {Links(tree, p) \cup BaseLinks(p) : p \in pkgs}

(* What the tests of p do under the overlay, which gives the go command the
   base's files and a test that opens one the checkout's. *)
MayReplay(p) ==
  IF base.opens[p] \cap change.data = {} THEN {was[p]} ELSE MayDo(base, p)

(* The blocks of untouched packages the base's run covered and this run does
   not, by package. *)
LostBlocks(replay) ==
  {p \in Packages : (Covered(replay, Replays) \ Covered(now, reached)) \cap Statements[p] # {}}

Unchanged(pkgs) == pkgs \ changed

(* The base's run, over the untouched packages alone; when its tests do not
   pass here, every one of those is taken for lost. *)
Compare ==
  /\ phase = "ran"
  /\ untouched' = Unchanged(LinkedBy(reached))
  /\ LET unreplayed == Unchanged(LinkedBy(reached \cap Unreplayed)) IN
     \/ \E replay \in [Replays -> Outcomes \ {Failed}] :
          /\ \A p \in Replays : replay[p] \in MayReplay(p)
          /\ lost' = unreplayed \cup (untouched' \cap LostBlocks(replay))
     \/ Replays # {} /\ untouched' # {} /\ lost' = untouched'
  /\ phase' = "compared"
  /\ UNCHANGED <<treeVars, scopeVars, verdict>>

(* Mutant: what lost coverage is measured on this run alone. *)
NoContributors(pkgs) == {}

(* The packages outside the run whose tests reach one of pkgs. *)
Contributors(pkgs) == Importers(tree, pkgs) \ reached

Costed == {p \in lost : Measurable(p)}
Rest   == Contributors(Costed)
Judged == {p \in changed : Measurable(p)} \cup Costed

(* The floor: over what the change touched, and what lost coverage, measured
   by every test that reaches it. *)
Judge ==
  /\ phase = "compared"
  /\ IF (\E p \in Rest : now[p] = Failed)
        \/ (\E p \in Judged : ~Clears(p, Covered(now, reached \cup Rest)))
       THEN End("fail") ELSE End("pass")
  /\ UNCHANGED <<treeVars, scopeVars, floorVars>>

Next == Change \/ WholeTree \/ Measure \/ RunSuite \/ NoBaseline \/ Compare \/ Judge

Spec == Init /\ [][Next]_vars

-----------------------------------------------------------------------------
(* Properties *)

Narrowed == reached # {} \/ verdict = "skip"

(* What is left out of a scoped run is the base's: no test binary outside
   Reached links or reads anything the change moved (base.go Baseline: "A test
   binary outside Reached links no changed package and holds no changed
   file, so it is the base's"). *)
OutsideIsTheBases ==
  Narrowed => \A p \in tree.pkgs \ reached : ~Moved(p)

(* A scoped check and the whole bar agree: it passes, or skips the suite, on a
   change the whole bar passes and no other, over a base the whole bar passed
   (bar/scope.go scopedFloor, scope.go Resolve). *)
Agreement ==
  /\ verdict \in {"pass", "skip"} => Green(tree, now)
  /\ verdict = "fail" => ~Green(tree, now)

=============================================================================
