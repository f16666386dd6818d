---------------------------------- MODULE Bar ----------------------------------
(***************************************************************************)
(* `lateregate` with no arguments: the plan that decides which gates run   *)
(* (internal/bar/bar.go Plan), the loop that runs them (Check), and the    *)
(* suite, the one go test run that holds six gates' properties at once, in *)
(* the root module and in each listed one (internal/bar/modules.go,        *)
(* internal/gates/suite.go Suite).                                         *)
(*                                                                         *)
(* What is wrong with a module is named by the folded gate whose property  *)
(* it breaks; "test" is a red test or a go vet finding.  The sandbox and   *)
(* the engine are here only whether they could be read: Sandbox.tla and    *)
(* Containers.tla are about their own concurrency.                         *)
(***************************************************************************)
EXTENDS Naturals, Sequences, FiniteSets, Functions

CONSTANTS
  Order,       \* the gates, in the order a check runs them
  Modules,     \* the modules the configuration lists, below the root
  Root,        \* the root module
  Waivable,    \* bound: the gates a configuration may waive
  MaxWaivers,  \* bound: how many it waives at once
  MaxDefects,  \* bound: how many properties the modules break, all together
  None

Folds == {"test", "race", "hermetic", "tempdir", "containers", "cover"}
Suite == "suite"
Gates == Range(Order)
(* The gates that read Go over the whole tree, and the ones that take minutes
   and read something else, each left out by a change that touches none of its
   own inputs. *)
ReadsGo == {"fmt-check", "modernize", "cgo-free", "otel-client", "lint", "vuln", Suite}
OwnInputs == {"e2e", "frontend", "image", "lean"}
AllModules == Modules \cup {Root}

ASSUME BarAssumption ==
  /\ Order \in Seq(STRING)
  /\ IsInjective(Order)
  /\ Folds \cup {Suite} \subseteq Gates
  /\ Waivable \subseteq Gates
  /\ Root \notin Modules
  /\ None \notin AllModules
  /\ MaxWaivers \in Nat /\ MaxDefects \in Nat

VARIABLES
  cfg,      \* the configuration and the change: see Configs
  plan,     \* what Plan decided for each gate
  next,     \* the place in Order Check has come to
  failed,   \* the gates that failed
  verdict,  \* the check's own
  left,     \* the modules the suite gate has still to run in
  here,     \* the module whose suite is running
  step,     \* where that run is
  defects,  \* what is wrong with each module
  found,    \* the failures the run has recorded
  watched,  \* the modules whose run has a containerWatch
  up,       \* the modules whose run's containers are on the engine
  judged,   \* each module's outcome
  reported  \* what a failing outcome names

checkVars == <<next, failed, verdict>>
suiteVars == <<left, here, step, defects, found, watched, up, judged, reported>>
vars == <<cfg, plan, checkVars, suiteVars>>

Statuses == {"undecided", "run", "skip", "waived", "folded"}
Steps == {"off", "modules", "vet", "path", "sandbox", "watch", "test", "floor",
          "after", "leftovers"}
(* What ends a module's run where it stands, and what cannot be read after it. *)
Stops == {"module", "vet", "path", "sandbox"}
Failures == Folds \cup Stops \cup {"engine"}

(* A change: whole is a check with no base.  inert is GoInert, changed whether
   a package of the root module changed, modules the ones it touches and moved
   the gates that read something other than Go whose own inputs it touches: a
   frontend project or what it reads, a file an image is built from, a Lake
   project, what an e2e suite reads. *)
Moved == SUBSET (OwnInputs \cap Gates)
Scopes ==
  [kind : {"whole"}, inert : {FALSE}, changed : {FALSE}, modules : {{}}, moved : {{}}]
  \cup [kind : {"ci"}, inert : BOOLEAN, changed : {FALSE}, modules : {{}}, moved : Moved]
  \cup [kind : {"laptop"}, inert : {FALSE}, changed : BOOLEAN,
        modules : SUBSET Modules, moved : Moved]

Waivers ==
  {w \in [Gates -> {"none", "live", "expired"}] :
     LET waived == {g \in Gates : w[g] # "none"}
     IN  waived \subseteq Waivable /\ Cardinality(waived) <= MaxWaivers}

Configs == [waive : Waivers, command : BOOLEAN, go : BOOLEAN, scope : Scopes]

TypeOK ==
  /\ cfg \in Configs
  /\ plan \in [Gates -> Statuses]
  /\ next \in 1..Len(Order) + 1
  /\ failed \subseteq Gates
  /\ verdict \in {"none", "passed", "failed", "error"}
  /\ left \subseteq AllModules
  /\ here \in AllModules \cup {None}
  /\ step \in Steps
  /\ defects \in [AllModules -> SUBSET Folds]
  /\ found \subseteq Failures
  /\ watched \subseteq AllModules
  /\ up \subseteq AllModules
  /\ judged \in [AllModules -> {"unread", "passed", "failed"}]
  /\ reported \in [AllModules -> SUBSET Failures]

Init ==
  /\ cfg \in Configs
  /\ plan = [g \in Gates |-> "undecided"]
  /\ next = 1 /\ failed = {} /\ verdict = "none"
  /\ left = {} /\ here = None /\ step = "off"
  /\ defects = [m \in AllModules |-> {}]
  /\ found = {} /\ watched = {} /\ up = {}
  /\ judged = [m \in AllModules |-> "unread"]
  /\ reported = [m \in AllModules |-> {}]

-----------------------------------------------------------------------------
(* The plan *)

Live(g) == cfg.waive[g] = "live"
Own(g) == cfg.waive[g] # "none"

(* folded: tempdir keeps to itself once tempdir.command names its runner. *)
Folded == Folds \ (IF cfg.command THEN {"tempdir"} ELSE {})

(* suiteRun: the properties the run has on. *)
On(p) == p \in Folded /\ ~Live(p)

(* Applies: the gates that read Go have no subject without it; tempdir has its
   own command's.  Any other gate is taken to have its subject, a list the
   configuration gives or a file git tracks. *)
Applies(g) ==
  \/ cfg.go
  \/ g \notin Folds \cup ReadsGo
  \/ g = "tempdir" /\ cfg.command

(* selectModules and rootSkipped *)
Packages == cfg.scope.kind = "laptop"
Touched == IF Packages THEN cfg.scope.modules ELSE Modules
RootSkipped == Packages /\ Touched # {} /\ ~cfg.scope.changed
Selected == Touched \cup (IF RootSkipped THEN {} ELSE {Root})

(* scoped: the gates a check of a change leaves out. *)
LeftOut(g) ==
  LET s == cfg.scope
  IN  \/ s.kind = "ci" /\ g \in ReadsGo /\ s.inert
      \/ s.kind = "laptop" /\ g \in {Suite, "lint"} /\ ~s.changed /\ Touched = {}
      \/ s.kind = "laptop" /\ g = "vuln" /\ ~s.changed
      \/ s.kind # "whole" /\ g \in OwnInputs \ s.moved

(* A waived test is a waived suite, unless the suite has a waiver of its own. *)
TestWaivesSuite == Live("test") /\ ~Own(Suite)

EntryTrustingDates(g) ==
  IF g \in Folded THEN (IF Applies(g) THEN "folded" ELSE "skip")
  ELSE IF g = Suite /\ TestWaivesSuite THEN "waived"
  ELSE IF ~Applies(g) THEN "skip"
  ELSE IF Own(g) THEN "waived"
  ELSE IF LeftOut(g) THEN "skip"
  ELSE "run"

Entry(g) ==
  IF g \in Folded THEN (IF Applies(g) THEN "folded" ELSE "skip")
  ELSE IF g = Suite /\ TestWaivesSuite THEN "waived"
  ELSE IF ~Applies(g) THEN "skip"
  ELSE IF Live(g) THEN "waived"
  ELSE IF LeftOut(g) THEN "skip"
  ELSE "run"

Undecided == \A g \in Gates : plan[g] = "undecided"

Plan ==
  /\ verdict = "none" /\ Undecided
  /\ plan' = [g \in Gates |-> Entry(g)]
  /\ UNCHANGED <<cfg, checkVars, suiteVars>>

(* Applicability that git cannot answer is an error, never a skip. *)
PlanFails ==
  /\ verdict = "none" /\ Undecided
  /\ verdict' = "error"
  /\ UNCHANGED <<cfg, plan, next, failed, suiteVars>>

-----------------------------------------------------------------------------
(* Check's loop *)

Turn(g) == next <= Len(Order) /\ Order[next] = g /\ ~Undecided /\ step = "off"

PassOver(g) ==
  /\ Turn(g)
  /\ plan[g] # "run"
  /\ next' = next + 1
  /\ UNCHANGED <<cfg, plan, failed, verdict, suiteVars>>

(* Any gate but the suite: it holds or it does not. *)
RunGate(g) ==
  /\ Turn(g)
  /\ plan[g] = "run" /\ g # Suite
  /\ next' = next + 1
  /\ failed' \in {failed, failed \cup {g}}
  /\ UNCHANGED <<cfg, plan, verdict, suiteVars>>

Summary ==
  /\ verdict = "none"
  /\ next = Len(Order) + 1
  /\ verdict' = IF failed = {} THEN "passed" ELSE "failed"
  /\ UNCHANGED <<cfg, plan, next, failed, suiteVars>>

-----------------------------------------------------------------------------
(* inModules: the root, then each listed module, and every failure of them *)

StartSuite ==
  /\ Turn(Suite)
  /\ plan[Suite] = "run"
  /\ step' = "modules"
  /\ left' = Selected
  /\ UNCHANGED <<cfg, plan, checkVars, here, defects, found, watched, up, judged, reported>>

(* requireModules: git tracks no go.mod where the configuration names one. *)
ModulesMissing ==
  /\ Turn(Suite)
  /\ plan[Suite] = "run" /\ Modules # {}
  /\ failed' = failed \cup {Suite}
  /\ next' = next + 1
  /\ UNCHANGED <<cfg, plan, verdict, suiteVars>>

EnterModule(m) ==
  /\ step = "modules"
  /\ m \in left /\ (Root \in left => m = Root)
  /\ left' = left \ {m}
  /\ here' = m
  /\ step' = "vet"
  /\ \E d \in SUBSET Folds :
       /\ Cardinality(d) + Cardinality(UNION Range(defects)) <= MaxDefects
       /\ defects' = [defects EXCEPT ![m] = d]
  /\ UNCHANGED <<cfg, plan, checkVars, found, watched, up, judged, reported>>

(* A module's run ends, with the failures it names or with none. *)
Return(names) ==
  /\ judged' = [judged EXCEPT ![here] = IF names = {} THEN "passed" ELSE "failed"]
  /\ reported' = [reported EXCEPT ![here] = names]
  /\ found' = {}
  /\ here' = None
  /\ step' = "modules"

(* A step that ends the run there and then, with nothing else said. *)
Stop(why) == Return({why}) /\ UNCHANGED <<cfg, plan, checkVars, left, defects, watched, up>>

Go(to) ==
  /\ step' = to
  /\ UNCHANGED <<cfg, plan, checkVars, left, here, defects, judged, reported>>

AnyFailed == \E m \in AllModules : judged[m] = "failed"

EndSuiteAtFailure ==
  /\ step = "modules" /\ (left = {} \/ AnyFailed)
  /\ step' = "off"
  /\ next' = next + 1
  /\ failed' = IF AnyFailed THEN failed \cup {Suite} ELSE failed
  /\ UNCHANGED <<cfg, plan, verdict, left, here, defects, found, watched, up, judged, reported>>
EndSuite ==
  /\ step = "modules" /\ left = {}
  /\ step' = "off"
  /\ next' = next + 1
  /\ failed' = IF AnyFailed THEN failed \cup {Suite} ELSE failed
  /\ UNCHANGED <<cfg, plan, verdict, left, here, defects, found, watched, up, judged, reported>>

-----------------------------------------------------------------------------
(* Suite, in one module *)

Wrong(p) == p \in defects[here]

(* go list cannot name a listed module, or go vet finds something. *)
Vet ==
  /\ step = "vet"
  /\ \/ here # Root /\ On("cover") /\ Stop("module")
     \/ Wrong("test") /\ Stop("vet")
     \/ Go("path") /\ UNCHANGED <<found, watched, up>>

(* suitePath: a toolchain or a C compiler that cannot be found. *)
Path ==
  /\ step = "path"
  /\ \/ On("hermetic") /\ Stop("path")
     \/ Go("sandbox") /\ UNCHANGED <<found, watched, up>>

(* claimSandbox and the first touchedAt *)
ClaimSandbox ==
  /\ step = "sandbox"
  /\ \/ On("tempdir") /\ Stop("sandbox")
     \/ Go("watch") /\ UNCHANGED <<found, watched, up>>

(* watchContainers: no engine, or one that does not answer, watches nothing. *)
Watch ==
  /\ step = "watch"
  /\ Go("test")
  /\ \/ On("containers") /\ watched' = watched \cup {here}
     \/ UNCHANGED watched
  /\ UNCHANGED <<found, up>>

(* runFailure names one property for a red run. *)
RunFailureAsIfAllOn ==
  IF Wrong("race") THEN {"race"}
  ELSE IF Wrong("hermetic") THEN {"hermetic"}
  ELSE IF Wrong("test") THEN {"test"}
  ELSE {}
RunFailure ==
  IF On("race") /\ Wrong("race") THEN {"race"}
  ELSE IF On("hermetic") /\ Wrong("hermetic") THEN {"hermetic"}
  ELSE IF Wrong("test") THEN {"test"}
  ELSE {}

RunTests ==
  /\ step = "test"
  /\ Go("floor")
  /\ found' = RunFailure
  /\ up' = IF Wrong("containers") THEN up \cup {here} ELSE up
  /\ UNCHANGED watched

(* The floor is read over a run that passed, and over no other. *)
Floor ==
  /\ step = "floor"
  /\ Go("after")
  /\ found' = IF On("cover") /\ found = {} /\ Wrong("cover") THEN {"cover"} ELSE found
  /\ UNCHANGED <<watched, up>>

(* The second touchedAt ends the run when the sandbox cannot be read, as when a
   test removed it; survivors judges it otherwise. *)
AfterOnGreen ==
  /\ step = "after"
  /\ \/ On("tempdir") /\ Stop("sandbox")
     \/ /\ Go("leftovers")
        /\ found' = IF On("tempdir") /\ found = {} /\ Wrong("tempdir")
                      THEN found \cup {"tempdir"} ELSE found
        /\ UNCHANGED <<watched, up>>
After ==
  /\ step = "after"
  /\ \/ On("tempdir") /\ Stop("sandbox")
     \/ /\ Go("leftovers")
        /\ found' = IF On("tempdir") /\ Wrong("tempdir") THEN found \cup {"tempdir"} ELSE found
        /\ UNCHANGED <<watched, up>>

(* leftovers removes and names what carries the run's label; an engine that no
   longer answers is a failure too. *)
Leftovers ==
  /\ step = "leftovers"
  /\ \/ here \in watched /\ Return(found \cup {"engine"}) /\ UNCHANGED up
     \/ /\ Return(found \cup (IF here \in watched \cap up THEN {"containers"} ELSE {}))
        /\ up' = IF here \in watched THEN up \ {here} ELSE up
  /\ UNCHANGED <<cfg, plan, checkVars, left, defects, watched>>

InSuite ==
  \/ Vet \/ Path \/ ClaimSandbox \/ Watch \/ RunTests \/ Floor \/ After \/ Leftovers

Next ==
  \/ Plan \/ PlanFails \/ Summary
  \/ \E g \in Gates : PassOver(g) \/ RunGate(g)
  \/ StartSuite \/ ModulesMissing \/ EndSuite
  \/ \E m \in AllModules : EnterModule(m)
  \/ InSuite

Spec == Init /\ [][Next]_vars

-----------------------------------------------------------------------------
(* Properties *)

(* What excuses a gate that applies: a waiver still live, or a change that the
   scope says cannot move its verdict. *)
Excused(g) == Live(g) \/ LeftOut(g) \/ (g = Suite /\ TestWaivesSuite)

Held(m, p) ==
  /\ judged[m] = "passed"
  /\ p \notin defects[m] \/ (p = "containers" /\ m \notin watched)

(* No vacuous pass: a check that passes ran every gate that applies and is not
   excused, and holds each folded property, in every module it selects, through
   the suite; a waiver that has expired excuses nothing. *)
PassIsEarned ==
  verdict = "passed" =>
    \A g \in Gates : Applies(g) =>
      \/ Excused(g)
      \/ g \notin Folded /\ plan[g] = "run" /\ g \notin failed
      \/ g \in Folded /\ (Excused(Suite) \/ \A m \in Selected : Held(m, g))

(* A leak is reported whatever the tests did, unless the run stopped before it
   could be read: "a red suite gets re-run, and a leak shown only on a green
   one is never seen". *)
LeaksReported ==
  \A m \in AllModules :
    judged[m] # "unread" /\ reported[m] \cap Stops = {} =>
      /\ On("tempdir") /\ "tempdir" \in defects[m] => "tempdir" \in reported[m]
      /\ m \in watched /\ "containers" \in defects[m]
           => reported[m] \cap {"containers", "engine"} # {}

(* A module fails for a property only where the property is really broken and
   no live waiver has turned it off; a waived test is the exception, when the
   suite's own waiver has expired. *)
FailureIsOwed ==
  \A m \in AllModules : \A p \in reported[m] \cap Folds :
    p \in defects[m] /\ (On(p) \/ p = "test")

(* One failing module does not stop the next: when a check that ran the suite
   is done, every module it selects was judged, unless a listed one is missing
   and none was. *)
EveryModuleJudged ==
  verdict \in {"passed", "failed"} /\ plan[Suite] = "run" =>
    \/ \A m \in Selected : judged[m] # "unread"
    \/ Suite \in failed /\ \A m \in AllModules : judged[m] = "unread"

=============================================================================
