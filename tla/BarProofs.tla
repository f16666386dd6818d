------------------------------- MODULE BarProofs -------------------------------
(***************************************************************************)
(* Theorems about Bar, for any order of any gates, any modules, any        *)
(* configuration and any defects: what a pass of the check holds, that     *)
(* leaks are reported, that a failure is owed, and that no module goes     *)
(* unjudged.  And about four of the gates of Gates, which are asked once   *)
(* and keep nothing: a theorem about one is that its answer is right for   *)
(* every input, which the lemma before it says.                            *)
(***************************************************************************)
EXTENDS Bar, Gates, TLAPS, FiniteSetTheorems, SequenceTheorems

-----------------------------------------------------------------------------
(* The invariant *)

(* The plan is made once, whole, before anything runs. *)
Decided == plan = [g \in Gates |-> Entry(g)]
AllUnread == \A m \in AllModules : judged[m] = "unread"
PlanInv ==
  /\ Undecided \/ Decided
  /\ Undecided => /\ next = 1 /\ step = "off" /\ failed = {} /\ AllUnread
                  /\ verdict \in {"none", "error"}
  /\ verdict = "error" => Undecided
  /\ verdict \in {"passed", "failed"} => next = Len(Order) + 1 /\ step = "off"
  /\ verdict = "passed" => failed = {}

(* The suite runs in its place, in every module selected; once its place is
   past, all were judged, or a listed one was missing and none was. *)
Place == {i \in 1..Len(Order) : Order[i] = Suite}
InPlace == step # "off" => next \in Place /\ plan[Suite] = "run"
SuiteInv ==
  /\ step # "off" => \A m \in Selected : m \in left \/ m = here \/ judged[m] # "unread"
  /\ plan[Suite] = "run" =>
       \A i \in Place :
         /\ next < i \/ (next = i /\ step = "off") => AllUnread
         /\ next > i => \/ /\ \A m \in Selected : judged[m] # "unread"
                           /\ AnyFailed => Suite \in failed
                        \/ Suite \in failed /\ AllUnread

(* The module whose suite is running, and those still to come, have no
   judgement and nothing of theirs on the engine. *)
HereKind ==
  /\ step \in {"off", "modules"} => here = None
  /\ step \notin {"off", "modules"} => here \in AllModules
Waiting ==
  /\ here \notin left
  /\ \A m \in left : judged[m] = "unread"
  /\ \A m \in AllModules \ {here} : judged[m] = "unread" => m \notin up
  /\ here # None => judged[here] = "unread"
  /\ step \in {"vet", "path", "sandbox", "watch", "test"} => here \notin up
WatchedWhenOn == watched # {} => On("containers")

(* What the running module's suite has found so far. *)
FoundInv ==
  /\ step \notin {"floor", "after", "leftovers"} => found = {}
  /\ step \in {"floor", "after", "leftovers"} =>
       /\ \A p \in found : p \in Folds /\ Wrong(p) /\ (On(p) \/ p = "test")
       /\ here \in up <=> Wrong("containers")
       /\ found = {} => /\ On("race") => ~Wrong("race")
                        /\ On("hermetic") => ~Wrong("hermetic")
                        /\ ~Wrong("test")
  /\ step \in {"after", "leftovers"} /\ found = {} /\ On("cover") => ~Wrong("cover")
  /\ step = "leftovers" /\ On("tempdir") /\ Wrong("tempdir") => "tempdir" \in found

(* What a judgement says of its module. *)
LeakTold(m) ==
  reported[m] \cap Stops = {} =>
    /\ On("tempdir") /\ "tempdir" \in defects[m] => "tempdir" \in reported[m]
    /\ m \in watched /\ "containers" \in defects[m]
         => reported[m] \cap {"containers", "engine"} # {}
Owed(m) == \A p \in reported[m] \cap Folds : p \in defects[m] /\ (On(p) \/ p = "test")
PassHolds(m) == judged[m] = "passed" => \A p \in Folds : On(p) => Held(m, p)
Settled(m) ==
  IF judged[m] = "unread" THEN reported[m] = {}
  ELSE LeakTold(m) /\ Owed(m) /\ PassHolds(m)

ModuleInv == Waiting /\ WatchedWhenOn /\ FoundInv /\ \A m \in AllModules : Settled(m)

BarInv == PlanInv /\ SuiteInv /\ ModuleInv

-----------------------------------------------------------------------------
(* Typing *)

Typed == TypeOK /\ HereKind /\ InPlace

LEMMA OrderFacts ==
  ASSUME BarAssumption
  PROVE  /\ Order \in Seq(STRING) /\ Len(Order) \in Nat
         /\ \A i \in 1..Len(Order) : Order[i] \in Gates
         /\ \A g \in Gates : \E i \in 1..Len(Order) : Order[i] = g
         /\ \A i, j \in 1..Len(Order) : Order[i] = Order[j] => i = j
         /\ Suite \in Gates /\ Folds \subseteq Gates /\ Place # {}
<1>1. Order \in Seq(STRING) /\ Len(Order) \in Nat /\ DOMAIN Order = 1..Len(Order)
  BY DEF BarAssumption
<1>2. Gates = {Order[i] : i \in 1..Len(Order)}
  BY <1>1 DEF Gates, Range
<1>. QED
  BY <1>1, <1>2 DEF BarAssumption, IsInjective, Place

LEMMA SelectedTyped == ASSUME TypeOK PROVE Selected \subseteq AllModules
<1>1. cfg.scope \in Scopes
  BY DEF TypeOK, Configs
<1>2. Packages => cfg.scope.modules \subseteq Modules
  BY <1>1 DEF Packages, Scopes
<1>. QED
  BY <1>2 DEF Selected, Touched, AllModules

LEMMA InitTyped == BarAssumption /\ Init => Typed
<1> SUFFICES ASSUME BarAssumption, Init PROVE Typed
  OBVIOUS
<1>1. next \in 1..Len(Order) + 1
  BY OrderFacts DEF Init
<1>. QED
  BY <1>1 DEF Init, Typed, TypeOK, HereKind, InPlace, Statuses, Steps

LEMMA NextTyped == BarAssumption /\ Typed /\ [Next]_vars => Typed'
<1> SUFFICES ASSUME BarAssumption, Typed, [Next]_vars PROVE Typed'
  OBVIOUS
<1> USE OrderFacts DEF Typed, TypeOK, HereKind, InPlace, checkVars, suiteVars, Statuses, Steps
<1>0. None \notin AllModules
  BY DEF BarAssumption
<1>1. CASE Plan
  <2>1. \A g \in Gates : Entry(g) \in Statuses
    BY DEF Entry
  <2>. QED
    BY <1>1, <2>1 DEF Plan, Undecided
<1>2. CASE PlanFails
  BY <1>2 DEF PlanFails
<1>3. CASE Summary
  BY <1>3 DEF Summary
<1>4. ASSUME NEW g \in Gates, PassOver(g) PROVE Typed'
  BY <1>4 DEF PassOver, Turn
<1>5. ASSUME NEW g \in Gates, RunGate(g) PROVE Typed'
  BY <1>5 DEF RunGate, Turn
<1>6. CASE StartSuite
  <2>1. Selected \subseteq AllModules
    BY SelectedTyped
  <2>2. next \in Place
    BY <1>6 DEF StartSuite, Turn, Place
  <2>. QED
    BY <1>0, <1>6, <2>1, <2>2 DEF StartSuite, Turn
<1>7. CASE ModulesMissing
  BY <1>7 DEF ModulesMissing, Turn
<1>8. CASE EndSuite
  <2>1. next + 1 \in 1..Len(Order) + 1
    BY <1>8 DEF EndSuite, Place
  <2>. QED
    BY <1>8, <2>1 DEF EndSuite
<1>9. ASSUME NEW m \in AllModules, EnterModule(m) PROVE Typed'
  BY <1>9 DEF EnterModule
<1>10. CASE InSuite
  <2>0. here \in AllModules
    BY <1>10 DEF InSuite, Vet, Path, ClaimSandbox, Watch, RunTests, Floor, After, Leftovers
  <2>1. ASSUME NEW names \in SUBSET Failures, Return(names), step # "off",
               UNCHANGED <<cfg, plan, checkVars, left, defects, watched>>, up' \subseteq AllModules
        PROVE  Typed'
    BY <1>0, <2>0, <2>1 DEF Return
  <2>2. ASSUME NEW to \in Steps \ {"off", "modules"}, Go(to), step # "off",
               found' \subseteq Failures, watched' \subseteq AllModules, up' \subseteq AllModules
        PROVE  Typed'
    BY <2>0, <2>2 DEF Go
  <2>3. ASSUME NEW why \in Stops, Stop(why), step # "off" PROVE Typed'
    BY <2>1, <2>3 DEF Stop, Failures
  <2>4. CASE Vet
    BY <2>2, <2>3, <2>4 DEF Vet, Stops
  <2>5. CASE Path
    BY <2>2, <2>3, <2>5 DEF Path, Stops
  <2>6. CASE ClaimSandbox
    BY <2>2, <2>3, <2>6 DEF ClaimSandbox, Stops
  <2>7. CASE Watch
    BY <2>0, <2>2, <2>7 DEF Watch
  <2>8. CASE RunTests
    BY <2>0, <2>2, <2>8 DEF RunTests, RunFailure, Failures, Folds
  <2>9. CASE Floor
    BY <2>2, <2>9 DEF Floor, Failures, Folds
  <2>10. CASE After
    BY <2>2, <2>3, <2>10 DEF After, Failures, Folds, Stops
  <2>11. CASE Leftovers
    BY <2>0, <2>1, <2>11 DEF Leftovers, Failures, Folds
  <2>. QED
    BY <1>10, <2>4, <2>5, <2>6, <2>7, <2>8, <2>9, <2>10, <2>11 DEF InSuite
<1>11. CASE UNCHANGED vars
  BY <1>11 DEF vars
<1>. QED
  BY <1>1, <1>2, <1>3, <1>4, <1>5, <1>6, <1>7, <1>8, <1>9, <1>10, <1>11 DEF Next

-----------------------------------------------------------------------------
(* The plan and the check's loop *)

LEMMA EntryFacts ==
  /\ \A g \in Gates : Entry(g) # "undecided"
  /\ UNCHANGED cfg => \A g \in Gates : Entry(g)' = Entry(g)
  BY DEF Entry, Applies, LeftOut, TestWaivesSuite, Live, Own, Folded, Packages, Touched

LEMMA PlanStep ==
  ASSUME BarAssumption, Typed, PlanInv, [Next]_vars
  PROVE  PlanInv' /\ UNCHANGED cfg
<1> USE OrderFacts DEF checkVars, suiteVars
<1>1. UNCHANGED cfg
  BY DEF Next, Plan, PlanFails, Summary, PassOver, RunGate, StartSuite, ModulesMissing,
         EnterModule, EndSuite, InSuite, Vet, Path, ClaimSandbox, Watch, RunTests, Floor,
         After, Leftovers, Stop, Go, vars
<1>2. CASE Plan
  <2>1. Decided'
    BY <1>1, <1>2, EntryFacts DEF Plan, Decided
  <2>2. ~Undecided'
    BY <1>2, EntryFacts DEF Plan, Undecided
  <2>. QED
    BY <1>1, <1>2, <2>1, <2>2 DEF Plan, PlanInv
<1>3. UNCHANGED plan => (Decided => Decided') /\ Undecided' = Undecided
  BY <1>1, EntryFacts DEF Decided, Undecided
<1>4. CASE PlanFails
  BY <1>1, <1>3, <1>4 DEF PlanFails, PlanInv, AllUnread
<1>5. CASE Summary
  BY <1>1, <1>3, <1>5 DEF Summary, PlanInv, AllUnread, Typed, InPlace, Place, TypeOK
<1>6. ASSUME NEW g \in Gates, PassOver(g) \/ RunGate(g) PROVE PlanInv'
  BY <1>1, <1>3, <1>6 DEF PassOver, RunGate, Turn, PlanInv
<1>7. CASE StartSuite \/ ModulesMissing
  BY <1>1, <1>3, <1>7 DEF StartSuite, ModulesMissing, Turn, PlanInv
<1>8. CASE EndSuite
  BY <1>1, <1>3, <1>8 DEF EndSuite, PlanInv, AllUnread
<1>9. CASE (\E m \in AllModules : EnterModule(m)) \/ InSuite
  <2>1. step # "off" /\ UNCHANGED <<plan, next, failed, verdict>>
    BY <1>9 DEF EnterModule, InSuite, Vet, Path, ClaimSandbox, Watch, RunTests, Floor, After,
                Leftovers, Stop, Go
  <2>. QED
    BY <1>1, <1>3, <2>1 DEF PlanInv
<1>10. CASE UNCHANGED vars
  BY <1>1, <1>3, <1>10 DEF vars, PlanInv, AllUnread
<1>. QED
  BY <1>1, <1>2, <1>4, <1>5, <1>6, <1>7, <1>8, <1>9, <1>10 DEF Next

-----------------------------------------------------------------------------
(* The suite's place *)

(* A module's run goes on, or ends with the names it gives. *)
Goes ==
  /\ step' \in Steps \ {"off", "modules"}
  /\ UNCHANGED <<cfg, plan, checkVars, left, here, defects, judged, reported>>
Ends(names) ==
  /\ Return(names)
  /\ UNCHANGED <<cfg, plan, checkVars, left, defects, watched>> /\ up' \subseteq up

LEMMA InSuiteSteps ==
  ASSUME InSuite
  PROVE  /\ step \notin {"off", "modules"}
         /\ Goes \/ \E names : Ends(names)
  BY DEF InSuite, Vet, Path, ClaimSandbox, Watch, RunTests, Floor, After, Leftovers, Goes, Ends,
         Go, Stop, Steps

LEMMA SuiteStep ==
  ASSUME BarAssumption, Typed, PlanInv, SuiteInv, [Next]_vars
  PROVE  SuiteInv'
<1> USE DEF Typed, TypeOK, HereKind, InPlace, checkVars, suiteVars
<1>0. UNCHANGED cfg
  BY PlanStep
<1>1. UNCHANGED <<Selected, Place>>
  BY <1>0 DEF Selected, Touched, RootSkipped, Packages, Place
<1>2. \A i, j \in Place : i = j
  BY OrderFacts DEF Place
<1>3. Place \subseteq 1..Len(Order) /\ Len(Order) \in Nat /\ Selected \subseteq AllModules
  BY OrderFacts, SelectedTyped DEF Place
<1>4. CASE Plan
  BY <1>1, <1>3, <1>4 DEF Plan, SuiteInv, PlanInv, AllUnread
<1>5. CASE PlanFails \/ Summary
  BY <1>1, <1>5 DEF PlanFails, Summary, SuiteInv, AllUnread, AnyFailed
<1>6. ASSUME NEW g \in Gates, PassOver(g) \/ RunGate(g) PROVE SuiteInv'
  <2>1. /\ step = "off" /\ step' = step /\ plan' = plan /\ judged' = judged
        /\ next' = next + 1 /\ failed \subseteq failed'
        /\ plan[Suite] = "run" => next \notin Place
    BY <1>6 DEF PassOver, RunGate, Turn, Place
  <2>. QED
    BY <1>1, <1>3, <2>1 DEF SuiteInv, AllUnread, AnyFailed
<1>7. CASE StartSuite
  BY <1>1, <1>2, <1>7 DEF StartSuite, Turn, SuiteInv, AllUnread, AnyFailed, Place
<1>8. CASE ModulesMissing
  BY <1>1, <1>2, <1>3, <1>8 DEF ModulesMissing, Turn, SuiteInv, AllUnread, AnyFailed, Place
<1>9. CASE EndSuite
  BY <1>1, <1>2, <1>3, <1>9, BarAssumption
  DEF EndSuite, SuiteInv, AllUnread, AnyFailed, BarAssumption
<1>10. ASSUME NEW m \in AllModules, EnterModule(m) PROVE SuiteInv'
  BY <1>1, <1>2, <1>3, <1>10 DEF EnterModule, SuiteInv, AllUnread, AnyFailed
<1>11. CASE InSuite
  <2>1. step # "off" /\ step' # "off" /\ UNCHANGED <<plan, next, left>>
    BY <1>11, InSuiteSteps DEF Goes, Ends, Return
  <2>2. \A m \in Selected : m \in left \/ m = here \/ judged[m] # "unread"
    BY <2>1 DEF SuiteInv
  <2>3. \A m \in Selected : (m \in left \/ m = here \/ judged[m] # "unread")'
    BY <1>3, <1>11, <2>2, InSuiteSteps DEF Goes, Ends, Return
  <2>4. \A i \in Place : i = next
    BY <1>2, <2>1
  <2>. QED
    BY <1>1, <1>3, <2>1, <2>3, <2>4 DEF SuiteInv
<1>12. CASE UNCHANGED vars
  BY <1>1, <1>12 DEF vars, SuiteInv, AllUnread, AnyFailed
<1>. QED
  BY <1>4, <1>5, <1>6, <1>7, <1>8, <1>9, <1>10, <1>11, <1>12 DEF Next

-----------------------------------------------------------------------------
(* A module's run *)

(* What is judged is judged for good, and nothing about it changes. *)
LEMMA SettledKept ==
  ASSUME NEW m \in AllModules, Settled(m), UNCHANGED <<cfg>>,
         judged'[m] = judged[m], reported'[m] = reported[m],
         judged[m] # "unread" =>
           defects'[m] = defects[m] /\ (m \in watched' => m \in watched)
  PROVE  Settled(m)'
  BY DEF Settled, LeakTold, Owed, PassHolds, Held, On, Folded, Live

(* Held property by property, the run's own findings are what its judgement
   says. *)
LEMMA EndsSettled ==
  ASSUME Typed, HereKind, step \notin {"off", "modules"}, ModuleInv, NEW names, Ends(names),
         LET told == names \cap Stops = {}
         IN  /\ told /\ On("tempdir") /\ Wrong("tempdir") => "tempdir" \in names
             /\ told /\ here \in watched /\ Wrong("containers")
                  => names \cap {"containers", "engine"} # {}
             /\ \A p \in names \cap Folds : Wrong(p) /\ (On(p) \/ p = "test")
             /\ names = {} => \A p \in Folds : On(p) =>
                  ~Wrong(p) \/ (p = "containers" /\ here \notin watched)
  PROVE  ModuleInv'
<1> USE DEF Typed, TypeOK, HereKind
<1>1. /\ here \in AllModules /\ judged' = [judged EXCEPT ![here] = IF names = {} THEN "passed" ELSE "failed"]
      /\ reported' = [reported EXCEPT ![here] = names]
      /\ found' = {} /\ here' = None /\ step' = "modules" /\ up' \subseteq up
      /\ UNCHANGED <<cfg, left, defects, watched>>
  BY DEF Ends, Return
<1>2. \A p \in Folds : On(p)' = On(p)
  BY <1>1 DEF On, Folded, Live
<1>3. ASSUME NEW m \in AllModules, m = here PROVE Settled(m)'
  <2>1. /\ judged'[m] # "unread" /\ reported'[m] = names /\ defects'[m] = defects[here]
        /\ m \in watched' <=> here \in watched
        /\ judged'[m] = "passed" => names = {}
    BY <1>1, <1>3
  <2>2. LeakTold(m)'
    BY <1>2, <2>1 DEF LeakTold, Wrong, Folds
  <2>3. Owed(m)'
    BY <1>2, <2>1 DEF Owed, Wrong
  <2>4. PassHolds(m)'
    BY <1>2, <2>1 DEF PassHolds, Held, Wrong
  <2>. QED
    BY <2>1, <2>2, <2>3, <2>4 DEF Settled
<1>4. \A m \in AllModules \ {here} : Settled(m)'
  BY <1>1, SettledKept DEF ModuleInv
<1>5. Waiting'
  BY <1>1, BarAssumption DEF ModuleInv, Waiting, BarAssumption
<1>6. WatchedWhenOn' /\ FoundInv'
  BY <1>1, <1>2 DEF ModuleInv, WatchedWhenOn, FoundInv, Folds
<1>. QED
  BY <1>3, <1>4, <1>5, <1>6 DEF ModuleInv

LEMMA GoesSettled ==
  ASSUME Typed, step \notin {"off", "modules"}, ModuleInv, Goes,
         watched' \subseteq watched \cup {here}, up' \subseteq up \cup {here},
         step' \in {"vet", "path", "sandbox", "watch", "test"} => here \notin up',
         WatchedWhenOn', FoundInv'
  PROVE  ModuleInv'
<1> USE DEF Typed, TypeOK, HereKind
<1>1. /\ here \in AllModules /\ UNCHANGED <<cfg, left, here, defects, judged, reported>>
      /\ judged[here] = "unread" /\ here \notin left
  BY BarAssumption DEF Goes, ModuleInv, Waiting, BarAssumption
<1>2. Waiting'
  BY <1>1 DEF ModuleInv, Waiting
<1>3. \A m \in AllModules : Settled(m)'
  <2>1. ASSUME NEW m \in AllModules, m = here PROVE Settled(m)'
    BY <1>1, <2>1 DEF ModuleInv, Settled
  <2>2. ASSUME NEW m \in AllModules, m # here PROVE Settled(m)'
    BY <1>1, <2>2, SettledKept DEF ModuleInv
  <2>. QED
    BY <2>1, <2>2
<1>. QED
  BY <1>2, <1>3 DEF ModuleInv

(* A step that ends the run there and then says only why. *)
LEMMA StopSettled ==
  ASSUME Typed, step \notin {"off", "modules"}, ModuleInv, NEW why \in Stops, Stop(why)
  PROVE  ModuleInv'
<1>1. Ends({why})
  BY DEF Stop, Ends, Return
<1>2. why \notin Folds /\ {why} \cap Stops # {}
  BY DEF Stops, Folds
<1>. QED
  BY <1>1, <1>2, EndsSettled DEF Typed

LEMMA InSuiteSettled ==
  ASSUME Typed, ModuleInv, InSuite
  PROVE  ModuleInv'
<1> USE DEF Steps, checkVars
<1>0. /\ step \notin {"off", "modules"} /\ here \in AllModules
      /\ here \in up => step \notin {"vet", "path", "sandbox", "watch", "test"}
      /\ WatchedWhenOn /\ FoundInv
  BY InSuiteSteps DEF Typed, HereKind, ModuleInv, Waiting
<1>1. ASSUME NEW why \in Stops, Stop(why) PROVE ModuleInv'
  BY <1>0, <1>1, StopSettled
<1>2. ASSUME NEW to \in {"vet", "path", "sandbox", "watch", "test"}, Go(to),
             UNCHANGED <<found, up>>, watched' \subseteq watched \cup {here}, WatchedWhenOn',
             step \in {"vet", "path", "sandbox", "watch"}
      PROVE  ModuleInv'
  <2>1. FoundInv'
    BY <1>0, <1>2 DEF Go, FoundInv
  <2>. QED
    BY <1>0, <1>2, <2>1, GoesSettled DEF Go, Goes
<1>3. UNCHANGED cfg => (\A p \in Folds : On(p)' = On(p)) /\ (UNCHANGED watched => WatchedWhenOn')
  BY <1>0 DEF On, Folded, Live, WatchedWhenOn
<1>4. CASE Vet \/ Path \/ ClaimSandbox
  BY <1>1, <1>2, <1>3, <1>4 DEF Vet, Path, ClaimSandbox, Stops, Go
<1>5. CASE Watch
  <2>1. WatchedWhenOn'
    BY <1>0, <1>3, <1>5 DEF Watch, Go, WatchedWhenOn, Folds
  <2>. QED
    BY <1>2, <1>5, <2>1 DEF Watch
<1>6. CASE RunTests
  <2>1. /\ found' = RunFailure /\ step' = "floor" /\ UNCHANGED <<cfg, here, defects, watched>>
        /\ up' = IF Wrong("containers") THEN up \cup {here} ELSE up
    BY <1>6 DEF RunTests, Go
  <2>2. FoundInv'
    BY <1>0, <1>3, <1>6, <2>1 DEF RunTests, RunFailure, FoundInv, Wrong, Folds
  <2>. QED
    BY <1>0, <1>3, <1>6, <2>1, <2>2, GoesSettled DEF RunTests, Go, Goes
<1>7. CASE Floor
  <2>1. FoundInv'
    BY <1>0, <1>3, <1>7 DEF Floor, Go, FoundInv, Wrong, Folds
  <2>. QED
    BY <1>0, <1>3, <1>7, <2>1, GoesSettled DEF Floor, Go, Goes
<1>8. CASE After
  <2>1. ASSUME ~Stop("sandbox") PROVE ModuleInv'
    <3>1. FoundInv'
      BY <1>0, <1>3, <1>8, <2>1 DEF After, Go, FoundInv, Wrong, Folds
    <3>. QED
      BY <1>0, <1>3, <1>8, <2>1, <3>1, GoesSettled DEF After, Go, Goes
  <2>. QED
    BY <1>1, <2>1 DEF Stops
<1>9. CASE Leftovers
  <2>1. PICK names :
          /\ Return(names) /\ up' \subseteq up
          /\ \/ names = found \cup {"engine"}
             \/ names = found \cup (IF here \in watched \cap up THEN {"containers"} ELSE {})
    BY <1>9 DEF Leftovers
  <2>2. Ends(names)
    BY <1>9, <2>1 DEF Leftovers, Ends
  <2>3. /\ \A p \in found : p \in Folds /\ Wrong(p) /\ (On(p) \/ p = "test")
        /\ here \in up <=> Wrong("containers")
        /\ found = {} => /\ On("race") => ~Wrong("race")
                         /\ On("hermetic") => ~Wrong("hermetic")
                         /\ ~Wrong("test")
        /\ found = {} /\ On("cover") => ~Wrong("cover")
        /\ On("tempdir") /\ Wrong("tempdir") => "tempdir" \in found
        /\ here \in watched => On("containers")
    BY <1>0, <1>9 DEF Leftovers, FoundInv, WatchedWhenOn
  <2>4. On("tempdir") /\ Wrong("tempdir") => "tempdir" \in names
    BY <2>1, <2>3
  <2>5. here \in watched /\ Wrong("containers") => names \cap {"containers", "engine"} # {}
    BY <2>1, <2>3
  <2>6. \A p \in names \cap Folds : Wrong(p) /\ (On(p) \/ p = "test")
    BY <2>1, <2>3 DEF Folds
  <2>7. names = {} => \A p \in Folds : On(p) =>
          ~Wrong(p) \/ (p = "containers" /\ here \notin watched)
    BY <2>1, <2>3 DEF Folds
  <2>. QED
    BY <1>0, <2>2, <2>4, <2>5, <2>6, <2>7, EndsSettled DEF Typed
<1>. QED
  BY <1>4, <1>5, <1>6, <1>7, <1>8, <1>9 DEF InSuite

LEMMA ModuleStep ==
  ASSUME BarAssumption, Typed, PlanInv, SuiteInv, ModuleInv, [Next]_vars
  PROVE  ModuleInv'
<1> USE DEF checkVars, suiteVars
<1>1. UNCHANGED cfg
  BY PlanStep
<1>2. \A p \in Folds : On(p)' = On(p)
  BY <1>1 DEF On, Folded, Live
<1>3. CASE UNCHANGED suiteVars
  BY <1>1, <1>2, <1>3 DEF ModuleInv, Waiting, WatchedWhenOn, FoundInv, Wrong, Folds,
       Settled, LeakTold, Owed, PassHolds, Held
<1>4. CASE Plan \/ PlanFails \/ Summary \/ ModulesMissing \/ \E g \in Gates : PassOver(g) \/ RunGate(g)
  BY <1>3, <1>4 DEF Plan, PlanFails, Summary, PassOver, RunGate, ModulesMissing
<1>5. CASE StartSuite
  <2>1. /\ step = "off" /\ AllUnread /\ here = None /\ None \notin AllModules
        /\ Selected \subseteq AllModules
    <3>1. step = "off" /\ next \in Place /\ plan[Suite] = "run"
      BY <1>5, OrderFacts DEF StartSuite, Turn, Place, Typed, TypeOK
    <3>2. AllUnread
      BY <3>1 DEF SuiteInv
    <3>. QED
      BY <3>1, <3>2, SelectedTyped, BarAssumption DEF BarAssumption, Typed, HereKind
  <2>2. /\ left' = Selected /\ step' = "modules"
        /\ UNCHANGED <<cfg, here, defects, found, watched, up, judged, reported>>
    BY <1>5 DEF StartSuite
  <2>3. Waiting'
    BY <2>1, <2>2 DEF ModuleInv, Waiting, AllUnread
  <2>4. WatchedWhenOn' /\ FoundInv'
    BY <1>2, <2>1, <2>2 DEF ModuleInv, WatchedWhenOn, FoundInv, Folds
  <2>5. \A m \in AllModules : Settled(m)'
    BY <2>2, SettledKept DEF ModuleInv
  <2>. QED
    BY <2>3, <2>4, <2>5 DEF ModuleInv
<1>6. CASE EndSuite
  <2>1. /\ step = "modules" /\ step' = "off"
        /\ UNCHANGED <<cfg, left, here, defects, found, watched, up, judged, reported>>
    BY <1>6 DEF EndSuite
  <2>2. Waiting' /\ WatchedWhenOn' /\ FoundInv'
    BY <1>2, <2>1 DEF ModuleInv, Waiting, WatchedWhenOn, FoundInv, Folds
  <2>3. \A m \in AllModules : Settled(m)'
    BY <2>1, SettledKept DEF ModuleInv
  <2>. QED
    BY <2>2, <2>3 DEF ModuleInv
<1>7. ASSUME NEW m \in AllModules, EnterModule(m) PROVE ModuleInv'
  <2>1. /\ step = "modules" /\ step' = "vet" /\ here = None /\ here' = m
        /\ m \in left /\ left' = left \ {m} /\ None \notin AllModules /\ left \subseteq AllModules
        /\ UNCHANGED <<cfg, found, watched, up, judged, reported>>
        /\ \A k \in AllModules \ {m} : defects'[k] = defects[k]
    BY <1>7, BarAssumption DEF EnterModule, Typed, TypeOK, HereKind, BarAssumption
  <2>2. Waiting'
    BY <2>1 DEF ModuleInv, Waiting
  <2>3. WatchedWhenOn' /\ FoundInv'
    BY <1>2, <2>1 DEF ModuleInv, WatchedWhenOn, FoundInv, Folds
  <2>4. ASSUME NEW k \in AllModules PROVE Settled(k)'
    BY <2>1, <2>4, SettledKept DEF ModuleInv, Waiting
  <2>. QED
    BY <2>2, <2>3, <2>4 DEF ModuleInv
<1>8. CASE InSuite
  BY <1>8, InSuiteSettled
<1>9. CASE UNCHANGED vars
  BY <1>3, <1>9 DEF vars
<1>. QED
  BY <1>4, <1>5, <1>6, <1>7, <1>8, <1>9 DEF Next

-----------------------------------------------------------------------------
(* The theorems *)

LEMMA InitBar == BarAssumption /\ Init => BarInv
<1> SUFFICES ASSUME BarAssumption, Init PROVE BarInv
  OBVIOUS
<1>1. PlanInv /\ SuiteInv
  BY OrderFacts DEF Init, PlanInv, SuiteInv, Undecided, AllUnread, Place
<1>2. ModuleInv
  BY BarAssumption
  DEF Init, ModuleInv, Waiting, WatchedWhenOn, FoundInv, Settled, BarAssumption
<1>. QED
  BY <1>1, <1>2 DEF BarInv

LEMMA Invariant == Spec => [](Typed /\ BarInv)
<1>1. Init => Typed /\ BarInv
  BY InitTyped, InitBar, BarAssumption
<1>2. Typed /\ BarInv /\ [Next]_vars => (Typed /\ BarInv)'
  BY NextTyped, PlanStep, SuiteStep, ModuleStep, BarAssumption DEF BarInv
<1>. QED
  BY <1>1, <1>2, PTL DEF Spec

(* Every variable keeps its type, whatever the plan, the modules and their
   defects. *)
THEOREM Typing == Spec => []TypeOK
  BY Invariant, PTL DEF Typed

(* Once the check is done, its plan was made and the suite's place is past. *)
LEMMA SuiteIsPast ==
  ASSUME BarAssumption, Typed, BarInv, verdict \in {"passed", "failed"}
  PROVE  /\ Decided /\ step = "off"
         /\ plan[Suite] = "run" =>
              \/ /\ \A m \in Selected : judged[m] # "unread"
                 /\ AnyFailed => Suite \in failed
              \/ Suite \in failed /\ AllUnread
<1>1. PlanInv /\ SuiteInv
  BY DEF BarInv
<1>2. next = Len(Order) + 1 /\ step = "off"
  BY <1>1 DEF PlanInv
<1>3. PICK i \in Place : i \in 1..Len(Order)
  BY OrderFacts DEF Place
<1>4. next # 1 /\ next > i
  BY <1>2, <1>3, OrderFacts
<1>5. Decided
  BY <1>1, <1>4 DEF PlanInv
<1>. QED
  BY <1>1, <1>2, <1>3, <1>4, <1>5 DEF SuiteInv

(* A module fails for a folded gate only where that property is broken and on,
   a waived test being the one exception the code makes. *)
THEOREM Failure == Spec => []FailureIsOwed
<1>1. BarInv => FailureIsOwed
  BY DEF BarInv, ModuleInv, Settled, Owed, FailureIsOwed
<1>. QED
  BY <1>1, Invariant, PTL

(* A leak of a module's tests is in its report, red or green, unless the run
   stopped before the leak could be read. *)
THEOREM Leaks == Spec => []LeaksReported
<1>1. BarInv => LeaksReported
  BY DEF BarInv, ModuleInv, Settled, LeakTold, LeaksReported
<1>. QED
  BY <1>1, Invariant, PTL

(* No module goes unjudged behind one that failed. *)
THEOREM Judged == Spec => []EveryModuleJudged
<1>1. Typed /\ BarInv => EveryModuleJudged
  BY SuiteIsPast, BarAssumption DEF EveryModuleJudged, AllUnread
<1>. QED
  BY <1>1, Invariant, PTL

(* A pass is earned: every gate that applies and is not excused ran and did not
   fail, and every folded one holds in every module selected. *)
THEOREM Pass == Spec => []PassIsEarned
<1>1. ASSUME BarAssumption, Typed, BarInv PROVE PassIsEarned
  <2>1. SUFFICES ASSUME verdict = "passed", NEW g \in Gates, Applies(g), ~Excused(g)
                 PROVE  \/ g \notin Folded /\ plan[g] = "run" /\ g \notin failed
                        \/ g \in Folded /\ (Excused(Suite) \/ \A m \in Selected : Held(m, g))
    BY DEF PassIsEarned
  <2>2. failed = {} /\ plan = [h \in Gates |-> Entry(h)]
    BY <1>1, <2>1, SuiteIsPast DEF BarInv, PlanInv, Decided
  <2>3. CASE g \notin Folded
    <3>1. Entry(g) = "run"
      BY <2>1, <2>3 DEF Entry, Excused
    <3>. QED
      BY <2>2, <2>3, <3>1
  <2>4. CASE g \in Folded /\ ~Excused(Suite)
    <3>1. g \in Folds /\ Suite \notin Folded /\ Suite \in Gates
      BY <1>1, <2>4, OrderFacts DEF Folded, Folds, Suite
    <3>2. Applies(Suite)
      BY <2>1, <2>4 DEF Applies, Folded, Folds
    <3>3. plan[Suite] = "run"
      BY <2>2, <2>4, <3>1, <3>2 DEF Entry, Excused
    <3>4. \A m \in Selected : judged[m] # "unread"
      BY <1>1, <2>1, <2>2, <3>3, SuiteIsPast
    <3>5. ~AnyFailed
      BY <1>1, <2>1, <2>2, <3>3, SuiteIsPast
    <3>6. On(g)
      BY <2>1, <2>4 DEF On, Excused
    <3>7. Selected \subseteq AllModules
      BY <1>1, SelectedTyped DEF Typed
    <3>8. \A m \in Selected : judged[m] = "passed"
      BY <1>1, <3>4, <3>5, <3>7 DEF Typed, TypeOK, AnyFailed
    <3>. QED
      BY <1>1, <2>4, <3>1, <3>6, <3>7, <3>8 DEF BarInv, ModuleInv, Settled, PassHolds
  <2>. QED
    BY <2>3, <2>4
<1>. QED
  BY <1>1, BarAssumption, Invariant, PTL

-----------------------------------------------------------------------------
(* The postgres gate *)

(* A reading that passes holds what its role says, file by file. *)
LEMMA PassedRole ==
  ASSUME NEW r
  PROVE  PG!RoleIsHeld(r)
<1> DEFINE files == PG!ClientImports(r.tree)
           role == PG!Role(r.block)
           read == UNION {PG!Reads(r.tree, f) : f \in PG!Scanned(r.tree)}
<1>1. SUFFICES ASSUME PG!Valid(r.block), PG!Run(r.block, r.waiver, r.tree, r.day)
               PROVE  CASE role = "none" -> files = {}
                        [] role = "direct" -> r.waiver # 0 /\ r.day <= r.waiver
                        [] role = "pooled" ->
                             /\ files # {}
                             /\ {PG!PoolURL(r.block), PG!DirectURL(r.block)} \subseteq read
                             /\ PG!PoolURL(r.block) # PG!DirectURL(r.block)
  BY DEF PG!RoleIsHeld, PG!ClientImports
<1> DEFINE checks == PG!Checks(r.block, r.waiver, r.tree, r.day)
<1>2. "fail" \notin checks /\ checks # {"skip"}
  BY <1>1 DEF PG!Run
<1>3. role \in {"none", "direct", "pooled"}
  BY <1>1 DEF PG!Valid, PG!Roles, PG!Role
<1>4. CASE role = "none"
  <2>1. checks = {PG!RuleJSONBytes(r.tree)} \cup {PG!FailIf(files # {})}
    BY <1>4 DEF PG!Checks
  <2>. QED
    BY <2>1, <1>2, <1>4 DEF PG!FailIf
<1>5. CASE role = "direct"
  <2>1. PG!FailIf(~PG!LiveWaiver(r.waiver, r.day)) \in checks
    BY <1>5 DEF PG!Checks
  <2>. QED
    BY <2>1, <1>2, <1>5 DEF PG!FailIf, PG!LiveWaiver
<1>6. CASE role = "pooled"
  <2>1. checks = {PG!RuleJSONBytes(r.tree), PG!Held(r.tree, files = {}),
                  PG!ReadsName(r.tree, PG!PoolURL(r.block)),
                  PG!ReadsName(r.tree, PG!DirectURL(r.block))}
    BY <1>6 DEF PG!Checks
  <2> HIDE DEF checks
  <2>2. PG!Scanned(r.tree) # {}
    BY <2>1, <1>2 DEF PG!RuleJSONBytes, PG!Held, PG!ReadsName
  <2>3. files # {}
    BY <2>1, <2>2, <1>2 DEF PG!Held, PG!FailIf
  <2>4. ASSUME NEW name, PG!ReadsName(r.tree, name) \in checks PROVE name \in read
    BY <2>4, <2>2, <1>2 DEF PG!Held, PG!FailIf, PG!ReadsName
  <2>5. PG!PoolURL(r.block) # PG!DirectURL(r.block)
    BY <1>1, <1>6 DEF PG!Valid, PG!ValidNames, PG!PoolURL, PG!DirectURL, PG!Name, PG!Role
  <2>. QED
    BY <2>1, <2>3, <2>4, <2>5, <1>6
<1>. QED
  BY <1>3, <1>4, <1>5, <1>6

-----------------------------------------------------------------------------
(* Spec-lint *)

(* Of a tree that passes no rule names a spec. *)
LEMMA NoProblem ==
  ASSUME NEW conf, NEW tree, Specs!Run(conf, tree)
  PROVE  /\ Specs!CheckArchive(conf, tree) = {}
         /\ Specs!CheckRegister(conf, tree) = {}
         /\ Specs!CheckDependencies(tree) = {}
         /\ Specs!CheckNumbering(conf, tree) = {}
         /\ conf.index => Specs!CheckIndex(conf, tree) = {}
<1>1. Specs!Problems(conf, tree) = {}
  BY DEF Specs!Run
<1>2. Specs!CheckArchive(conf, tree) \subseteq Specs!Problems(conf, tree)
  BY DEF Specs!Problems
<1>3. Specs!CheckRegister(conf, tree) \subseteq Specs!Problems(conf, tree)
  BY DEF Specs!Problems
<1>4. Specs!CheckDependencies(tree) \subseteq Specs!Problems(conf, tree)
  BY DEF Specs!Problems
<1>5. Specs!CheckNumbering(conf, tree) \subseteq Specs!Problems(conf, tree)
  BY DEF Specs!Problems
<1>6. conf.index => Specs!CheckIndex(conf, tree) \subseteq Specs!Problems(conf, tree)
  BY DEF Specs!Problems
<1>. QED
  BY <1>1, <1>2, <1>3, <1>4, <1>5, <1>6

(* A rule that reports nothing has found none. *)
LEMMA NoneNamed ==
  ASSUME NEW rule, NEW S, Specs!Problem(rule, S) = {}
  PROVE  S = {}
BY DEF Specs!Problem

(* An instance's Cardinality is the library's. *)
LEMMA SameCardinality ==
  ASSUME NEW S
  PROVE  Specs!Cardinality(S) = Cardinality(S)
BY DEF Specs!Cardinality, Cardinality

(* A sequence without repetitions that has every number up to how many there
   are has these and no other, each once. *)
LEMMA RowsAreCounted ==
  ASSUME NEW q \in Seq(Nat), Specs!IsInjective(q),
         1..Cardinality(Specs!ToSet(q)) \subseteq Specs!ToSet(q)
  PROVE  Specs!ToSet(q) = 1..Len(q)
<1> DEFINE rows == Specs!ToSet(q)
<1>1. Len(q) \in Nat /\ DOMAIN q = 1..Len(q) /\ \A i \in 1..Len(q) : q[i] \in Nat
  OBVIOUS
<1>2. IsFiniteSet(1..Len(q)) /\ Cardinality(1..Len(q)) = Len(q)
  BY <1>1, FS_Interval
<1>3. q \in Surjection(1..Len(q), rows)
  BY <1>1 DEF Surjection, Specs!ToSet
<1>4. q \in Injection(1..Len(q), rows)
  BY <1>1, <1>3 DEF Surjection, Injection, IsInjective, Specs!IsInjective
<1>5. IsFiniteSet(rows) /\ Cardinality(rows) = Len(q)
  BY <1>2, <1>3, <1>4, FS_Surjection
<1> HIDE DEF rows
<1>6. 1..Len(q) \in SUBSET rows
  BY <1>5 DEF rows
<1>7. rows = 1..Len(q)
  BY <1>2, <1>5, <1>6, FS_Subset
<1>. QED
  BY <1>7 DEF rows

LEMMA HasRows ==
  ASSUME NEW q \in Seq(Nat), Specs!ToSet(q) # {}
  PROVE  q # <<>>
<1>1. DOMAIN q # {} /\ DOMAIN q = 1..Len(q)
  BY DEF Specs!ToSet
<1>2. Len(q) # 0
  BY <1>1
<1>. QED
  BY <1>2

(* The register that passes is one spec's, no row twice, numbered without a gap
   and cited by its rows alone where these are asked for. *)
LEMMA RegisterLeads ==
  ASSUME NEW conf, NEW tree, Specs!IsTree(tree), conf.register # "",
         Specs!CheckRegister(conf, tree) = {}
  PROVE  \E s \in Specs!Active(tree) :
           /\ s.name = conf.register /\ s.body.rows # <<>> /\ Specs!IsInjective(s.body.rows)
           /\ conf.sequential => Specs!ToSet(s.body.rows) = 1..Len(s.body.rows)
           /\ conf.cite => \A t \in Specs!Active(tree) \ {s} :
                             t.body.cites \subseteq Specs!ToSet(s.body.rows)
<1> DEFINE owners == {s \in Specs!Active(tree) : s.name = conf.register}
           rows == UNION {Specs!ToSet(s.body.rows) : s \in owners}
           twice == Specs!Problem("row twice", {s \in owners : ~Specs!IsInjective(s.body.rows)})
           gone == {<<"row gone", i>> : i \in {j \in 1..Specs!Cardinality(rows) :
                                                  conf.sequential /\ j \notin rows}}
           none == Specs!Problem("no row", {s \in Specs!Active(tree) \ owners :
                                              conf.cite /\ ~s.body.cites \subseteq rows})
<1>1. Specs!CheckRegister(conf, tree) =
        IF rows = {} THEN {<<"register", conf.register>>} ELSE twice \cup gone \cup none
  BY DEF Specs!CheckRegister
<1> HIDE DEF twice, gone, none
<1>2. rows # {} /\ twice = {} /\ gone = {} /\ none = {}
  BY <1>1
<1>3. PICK s \in owners : TRUE
  BY <1>2
<1>4. owners = {s}
  BY <1>3 DEF Specs!IsTree, Specs!Active
<1>5. rows = Specs!ToSet(s.body.rows)
  BY <1>4
<1>6. Specs!IsInjective(s.body.rows)
  BY <1>2, <1>3, NoneNamed DEF twice
<1>7. s.body.rows \in Seq(Nat)
  BY <1>3 DEF Specs!IsTree, Specs!Active
<1>8. s.body.rows # <<>>
  BY <1>2, <1>5, <1>7, HasRows
<1>9. conf.sequential => rows = 1..Len(s.body.rows)
  <2>1. conf.sequential => 1..Cardinality(rows) \subseteq rows
    BY <1>2, SameCardinality DEF gone
  <2>. QED
    BY <1>5, <1>6, <1>7, <2>1, RowsAreCounted
<1>10. conf.cite => \A t \in Specs!Active(tree) \ {s} : t.body.cites \subseteq rows
  BY <1>2, <1>4, NoneNamed DEF none
<1>. QED
  BY <1>3, <1>5, <1>6, <1>8, <1>9, <1>10

(* A spec at work has a row of the index of its own, with its status, unless an
   archived one bears its name: CheckIndex takes a row for either. *)
LEMMA IndexLeads ==
  ASSUME NEW conf, NEW tree, Specs!IsTree(tree), Specs!CheckIndex(conf, tree) = {},
         NEW s \in Specs!Active(tree), s.name \notin Specs!Names(Specs!Archived(tree))
  PROVE  \E i \in Specs!Rows(tree.index) : tree.index[i].href = [at |-> "here", name |-> s.name]
           /\ (conf.status # {} => tree.index[i].status = s.status)
<1> DEFINE rows == {tree.index[i] : i \in Specs!Rows(tree.index)}
           away == {r \in rows : r.href.at = "archive"}
           listed == {r.href.name : r \in rows}
           lost == {q \in away : q.href.name \notin Specs!Names(Specs!Archived(tree))}
                     \cup {q \in rows \ away : q.href.name \notin Specs!Names(Specs!Active(tree))}
           strays == {<<"row", r.href.name>> : r \in lost}
           wrong == Specs!Problem("row status", {t \in Specs!Active(tree) : conf.status # {} /\
                      \E r \in rows \ away : r.href.name = t.name /\ r.status # t.status})
           missing == Specs!Problem("unlisted", {t \in Specs!Active(tree) : t.name \notin listed})
           others == IF away = {} THEN {}
                     ELSE Specs!Problem("unlisted", {t \in Specs!Archived(tree) : t.name \notin listed})
<1>1. Specs!CheckIndex(conf, tree) = strays \cup wrong \cup missing \cup others
  BY DEF Specs!CheckIndex
<1> HIDE DEF strays, wrong, missing, others
<1>2. strays = {} /\ wrong = {} /\ missing = {}
  BY <1>1
<1>3. s.name \in listed
  BY <1>2, NoneNamed DEF missing
<1>4. PICK i \in Specs!Rows(tree.index) : tree.index[i].href.name = s.name
  BY <1>3
<1>5. lost = {}
  BY <1>2 DEF strays
<1>6. tree.index[i].href.at # "archive"
  BY <1>4, <1>5
<1>7. tree.index[i].href \in [at : Specs!Places, name : STRING] /\ tree.index[i].href.at # "elsewhere"
  BY <1>4 DEF Specs!IsTree, Specs!Rows
<1>8. tree.index[i].href = [at |-> "here", name |-> s.name]
  BY <1>4, <1>6, <1>7 DEF Specs!Places
<1>9. conf.status # {} => tree.index[i].status = s.status
  BY <1>2, <1>4, <1>6, NoneNamed DEF wrong
<1>. QED
  BY <1>4, <1>8, <1>9

LEMMA PassedCites ==
  ASSUME NEW conf, NEW tree, Specs!IsTree(tree)
  PROVE  Specs!CitationsLead(conf, tree)
<1> SUFFICES ASSUME Specs!Run(conf, tree)
             PROVE  Specs!CitationsLead(conf, tree)
  BY DEF Specs!CitationsLead
<1> USE NoProblem
<1>1. \A s \in tree.specs : \A i \in 1..Len(s.deps) :
        s.deps[i].at # "elsewhere" => \E t \in tree.specs :
          t.name = s.deps[i].name /\ (s.deps[i].at = "archive" => t.archived)
  <2>1. TAKE s \in tree.specs
  <2>2. TAKE i \in 1..Len(s.deps)
  <2> DEFINE d == s.deps[i]
  <2>3. ~ \/ d.at = "archive" /\ d.name \notin Specs!Names(Specs!Archived(tree))
          \/ d.at = "here" /\ d.name \notin Specs!Names(tree.specs)
    BY NoneNamed DEF Specs!CheckDependencies
  <2>4. d.at \in Specs!Places
    BY DEF Specs!IsTree
  <2>. QED
    BY <2>3, <2>4 DEF Specs!Places, Specs!Names, Specs!Archived
<1>2. conf.numbered => \A s, t \in tree.specs : s # t => s.number # t.number
  <2> SUFFICES ASSUME conf.numbered, NEW s \in tree.specs, NEW t \in tree.specs, s # t
               PROVE  s.number # t.number
    OBVIOUS
  <2>1. /\ Specs!Problem("numberless", {u \in tree.specs : u.number = 0}) = {}
        /\ Specs!Problem("reused", {u \in tree.specs : u.number # 0 /\
             \E v \in tree.specs : v # u /\ v.number = u.number}) = {}
    BY DEF Specs!CheckNumbering
  <2>2. s.number # 0
    BY <2>1, NoneNamed
  <2>. QED
    BY <2>1, <2>2, NoneNamed
<1>3. conf.archive => \A s \in tree.specs : s.archived = (s.status \in conf.terminal)
  <2> SUFFICES ASSUME conf.archive, NEW s \in tree.specs
               PROVE  s.archived = (s.status \in conf.terminal)
    OBVIOUS
  <2>1. /\ Specs!Problem("terminal", {u \in Specs!Active(tree) : u.status \in conf.terminal}) = {}
        /\ Specs!Problem("open", {u \in Specs!Archived(tree) : u.status \notin conf.terminal}) = {}
    BY DEF Specs!CheckArchive
  <2>2. /\ {u \in Specs!Active(tree) : u.status \in conf.terminal} = {}
        /\ {u \in Specs!Archived(tree) : u.status \notin conf.terminal} = {}
    BY <2>1, NoneNamed
  <2>3. s.archived \in BOOLEAN
    BY DEF Specs!IsTree
  <2>. QED
    BY <2>2, <2>3 DEF Specs!Active, Specs!Archived
<1>4. conf.register # "" =>
        \E s \in Specs!Active(tree) :
          /\ s.name = conf.register /\ s.body.rows # <<>> /\ Specs!IsInjective(s.body.rows)
          /\ conf.sequential => Specs!ToSet(s.body.rows) = 1..Len(s.body.rows)
          /\ conf.cite => \A t \in Specs!Active(tree) \ {s} :
                            t.body.cites \subseteq Specs!ToSet(s.body.rows)
  BY RegisterLeads
<1>5. conf.index => \A s \in Specs!Active(tree) : s.name \notin Specs!Names(Specs!Archived(tree)) =>
        \E i \in Specs!Rows(tree.index) : tree.index[i].href = [at |-> "here", name |-> s.name]
          /\ (conf.status # {} => tree.index[i].status = s.status)
  <2> SUFFICES ASSUME conf.index, NEW s \in Specs!Active(tree),
                      s.name \notin Specs!Names(Specs!Archived(tree))
               PROVE  \E i \in Specs!Rows(tree.index) :
                        tree.index[i].href = [at |-> "here", name |-> s.name]
                        /\ (conf.status # {} => tree.index[i].status = s.status)
    OBVIOUS
  <2>1. Specs!CheckIndex(conf, tree) = {}
    OBVIOUS
  <2>. QED
    BY <2>1, IndexLeads
<1>. QED
  BY <1>1, <1>2, <1>3, <1>4, <1>5 DEF Specs!CitationsLead

-----------------------------------------------------------------------------
(* Init: what each of its writes leaves of its own part *)

Calling(repo, text) ==
  IF Wiring!CheckWorkflow(repo) = "nocaller" /\ ~repo.cfg.ships
    THEN [f \in DOMAIN repo.workflows \cup {"ci"} |->
            IF f = "ci" THEN Wiring!Called(text) ELSE repo.workflows[f]]
    ELSE repo.workflows
Hooked(hook, text) == IF Wiring!Shape(hook) THEN hook ELSE Wiring!Script(hook, text)
Pushed(hook, text) == IF hook.there THEN hook ELSE Wiring!Script(hook, text)
Listed(lines, text) ==
  IF Wiring!Ignored \subseteq lines THEN lines ELSE IF text = "whole" THEN lines \cup Wiring!Ignored ELSE {}
Seeded(log, text) ==
  IF log.there THEN log ELSE [there |-> TRUE, tracked |-> FALSE, unreleased |-> text = "whole", by |-> "init"]

(* The repository after the first n writes, and after the n-th has failed with
   its file there: the others are whole. *)
Part(n, k, before, at, after) == IF n < k THEN before ELSE IF n = k THEN at ELSE after
Partly(n, repo, text) ==
  [workflows |-> Part(n, 1, repo.workflows, Calling(repo, text), Calling(repo, "whole")),
   hook |-> Part(n, 2, repo.hook, Hooked(repo.hook, text), Hooked(repo.hook, "whole")),
   prepush |-> Part(n, 3, repo.prepush, Pushed(repo.prepush, text), Pushed(repo.prepush, "whole")),
   hooksPath |-> Part(n, 4, repo.hooksPath, IF text = "whole" THEN ".githooks" ELSE repo.hooksPath, ".githooks"),
   ignored |-> Part(n, 5, repo.ignored, Listed(repo.ignored, text), Listed(repo.ignored, "whole")),
   changelog |-> Part(n, 6, repo.changelog, Seeded(repo.changelog, text), Seeded(repo.changelog, "whole")),
   lintConfig |-> repo.lintConfig, make |-> repo.make, pins |-> repo.pins, cfg |-> repo.cfg]
Written(n, repo) == Partly(n, repo, "whole")

(* What the workflow's check reads. *)
LEMMA SameWorkflow ==
  ASSUME NEW q, NEW r, q.workflows = r.workflows, q.pins = r.pins
  PROVE  /\ Wiring!CheckWorkflow(q) = Wiring!CheckWorkflow(r)
         /\ Wiring!PinIn(q) = Wiring!PinIn(r)
<1>1. \A what : Wiring!Callers(q, what) = Wiring!Callers(r, what)
  BY DEF Wiring!Callers
<1>2. \A w : Wiring!ModuleNamed(q, w) = Wiring!ModuleNamed(r, w)
  BY DEF Wiring!ModuleNamed
<1>3. Wiring!CheckWorkflow(q) = Wiring!CheckWorkflow(r)
  BY <1>1, <1>2 DEF Wiring!CheckWorkflow
<1>4. Wiring!Explicit(q) = Wiring!Explicit(r)
  <2>1. Wiring!Callers(q, "shared") = Wiring!Callers(r, "shared")
    BY <1>1
  <2> DEFINE named(t) == \E c \in Wiring!Callers(t, "shared") : t.workflows[c].module \notin {"", "."}
  <2>2. named(q) = named(r)
    BY <2>1
  <2> HIDE DEF named
  <2>3. \A t : Wiring!Explicit(t) = (Wiring!CheckWorkflow(t) = "sound" /\ named(t))
    BY DEF Wiring!Explicit, named
  <2>. QED
    BY <1>3, <2>2, <2>3
<1>5. Wiring!Pinning(q) = Wiring!Pinning(r) /\ Wiring!FindPin(q) = Wiring!FindPin(r)
  BY DEF Wiring!Pinning, Wiring!FindPin
<1>6. Wiring!PinIn(q) = Wiring!PinIn(r)
  BY <1>1, <1>4, <1>5 DEF Wiring!PinIn
<1>. QED
  BY <1>3, <1>6

(* A write is of one part of the repository. *)
LEMMA OneWrite ==
  ASSUME NEW repo, Wiring!IsRepository(repo), NEW n \in 1..6, NEW text \in {"whole", "empty"}
  PROVE  Wiring!Write(n, Written(n - 1, repo), text) = Partly(n, repo, text)
<1> DEFINE r == Written(n - 1, repo)
<1>1. CASE n = 1
  <2>1. r.workflows = repo.workflows /\ r.pins = repo.pins /\ r.cfg = repo.cfg
    BY <1>1 DEF Written, Partly, Part
  <2>2. Wiring!CheckWorkflow(r) = Wiring!CheckWorkflow(repo)
    BY <2>1, SameWorkflow
  <2>3. Wiring!WriteCaller(r, text) = [r EXCEPT !.workflows = Calling(repo, text)]
    BY <2>1, <2>2 DEF Wiring!WriteCaller, Calling, Written, Partly, Part
  <2>4. Wiring!WriteCaller(r, text) = Partly(1, repo, text)
    BY <2>3, <1>1 DEF Written, Partly, Part
  <2>. QED
    BY <2>4, <1>1 DEF Wiring!Write
<1>2. CASE n = 2
  <2>1. Wiring!WriteHook(r, text) = Partly(2, repo, text)
    BY <1>2 DEF Wiring!WriteHook, Hooked, Written, Partly, Part
  <2>. QED
    BY <2>1, <1>2 DEF Wiring!Write
<1>3. CASE n = 3
  <2>1. Wiring!WritePrepush(r, text) = Partly(3, repo, text)
    BY <1>3 DEF Wiring!WritePrepush, Pushed, Written, Partly, Part
  <2>. QED
    BY <2>1, <1>3 DEF Wiring!Write
<1>4. CASE n = 4
  <2>1. Wiring!SetHooksPath(r, text) = Partly(4, repo, text)
    BY <1>4 DEF Wiring!SetHooksPath, Written, Partly, Part
  <2>. QED
    BY <2>1, <1>4 DEF Wiring!Write
<1>5. CASE n = 5
  <2>1. r.ignored = repo.ignored
    BY <1>5 DEF Written, Partly, Part
  <2>2. Wiring!WriteGitignore(r, text) = [r EXCEPT !.ignored = Listed(repo.ignored, text)]
    BY <2>1 DEF Wiring!WriteGitignore, Listed, Written, Partly, Part
  <2>3. Wiring!WriteGitignore(r, text) = Partly(5, repo, text)
    BY <2>2, <1>5 DEF Written, Partly, Part
  <2>. QED
    BY <2>3, <1>5 DEF Wiring!Write
<1>6. CASE n = 6
  <2>0. r.changelog = repo.changelog
    BY <1>6 DEF Written, Partly, Part
  <2>1. Wiring!SeedChangelog(r, text) = Partly(6, repo, text)
    <3>1. CASE repo.changelog.there
      BY <2>0, <3>1, <1>6 DEF Wiring!SeedChangelog, Seeded, Written, Partly, Part
    <3>2. CASE ~repo.changelog.there
      <4>1. Wiring!SeedChangelog(r, text) = [r EXCEPT !.changelog = Seeded(repo.changelog, text)]
        BY <2>0, <3>2 DEF Wiring!SeedChangelog, Seeded
      <4>. QED
        BY <4>1, <1>6 DEF Written, Partly, Part
    <3>. QED
      BY <3>1, <3>2
  <2>. QED
    BY <2>1, <1>6 DEF Wiring!Write
<1>. QED
  BY <1>1, <1>2, <1>3, <1>4, <1>5, <1>6

(* Upto's recursion, and that Written is what it computes: it has six steps, so
   it needs no induction. *)
WrittenInTurn(F, n, repo) ==
  F = [m \in 0..n |-> IF m = 0 THEN repo ELSE Wiring!Write(m, F[m - 1], "whole")]

LEMMA UptoIsWritten ==
  ASSUME NEW repo, Wiring!IsRepository(repo), NEW n \in 0..6
  PROVE  Wiring!Upto(n, repo) = Written(n, repo)
<1> DEFINE G == [m \in 0..n |-> Written(m, repo)]
           F == CHOOSE f : WrittenInTurn(f, n, repo)
<1>1. Written(0, repo) = repo
  BY DEF Written, Partly, Part, Wiring!IsRepository
<1>2. WrittenInTurn(G, n, repo)
  <2>1. ASSUME NEW m \in 0..n, m # 0 PROVE Written(m, repo) = Wiring!Write(m, G[m - 1], "whole")
    <3>1. m \in 1..6 /\ m - 1 \in 0..n
      BY <2>1
    <3>2. G[m - 1] = Written(m - 1, repo)
      BY <3>1
    <3>. QED
      BY <3>1, <3>2, OneWrite DEF Written
  <2>. QED
    BY <1>1, <2>1 DEF WrittenInTurn
<1>3. WrittenInTurn(F, n, repo)
  BY <1>2
<1>4. Wiring!Upto(n, repo) = F[n]
  BY DEF Wiring!Upto, WrittenInTurn
<1> HIDE DEF F
<1>5. F[0] = Written(0, repo)
  BY <1>1, <1>3 DEF WrittenInTurn
<1>6. ASSUME NEW m \in 1..6, m <= n, F[m - 1] = Written(m - 1, repo)
      PROVE  F[m] = Written(m, repo)
  <2>1. F[m] = Wiring!Write(m, F[m - 1], "whole")
    BY <1>3, <1>6 DEF WrittenInTurn
  <2>. QED
    BY <2>1, <1>6, OneWrite DEF Written
<1>7. \A m \in 1..6 : m <= n /\ F[m - 1] = Written(m - 1, repo) => F[m] = Written(m, repo)
  BY <1>6
<1>8. 1 <= n => F[1] = Written(1, repo)
  BY <1>5, <1>7
<1>9. 2 <= n => F[2] = Written(2, repo)
  BY <1>8, <1>7
<1>10. 3 <= n => F[3] = Written(3, repo)
  BY <1>9, <1>7
<1>11. 4 <= n => F[4] = Written(4, repo)
  BY <1>10, <1>7
<1>12. 5 <= n => F[5] = Written(5, repo)
  BY <1>11, <1>7
<1>13. 6 <= n => F[6] = Written(6, repo)
  BY <1>12, <1>7
<1>. QED
  BY <1>4, <1>5, <1>8, <1>9, <1>10, <1>11, <1>12, <1>13

(* A caller written where none was is one the check takes, and no pin moves. *)
LEMMA CallerWritten ==
  ASSUME NEW repo, Wiring!CheckWorkflow(repo) = "nocaller",
         NEW new, new.pins = repo.pins,
         new.workflows = [f \in DOMAIN repo.workflows \cup {"ci"} |->
                            IF f = "ci" THEN Wiring!Called("whole") ELSE repo.workflows[f]]
  PROVE  /\ Wiring!CheckWorkflow(new) = "sound"
         /\ Wiring!PinIn(new) = Wiring!PinIn(repo)
<1>0. Wiring!Called("whole") = Wiring!Caller
  BY DEF Wiring!Called
<1>1. Wiring!Callers(repo, "shared") = {}
  BY DEF Wiring!CheckWorkflow
<1>2. Wiring!Callers(new, "shared") = {"ci"}
  <2>1. DOMAIN new.workflows = DOMAIN repo.workflows \cup {"ci"}
    OBVIOUS
  <2>2. \A f \in DOMAIN new.workflows :
          new.workflows[f] = IF f = "ci" THEN Wiring!Caller ELSE repo.workflows[f]
    BY <1>0
  <2>3. Wiring!Caller.calls = "shared"
    BY DEF Wiring!Caller
  <2>4. \A f \in DOMAIN repo.workflows : repo.workflows[f].calls # "shared"
    BY <1>1 DEF Wiring!Callers
  <2>. QED
    BY <2>1, <2>2, <2>3, <2>4 DEF Wiring!Callers
<1>3. new.workflows["ci"] = Wiring!Caller
  BY <1>0
<1>4. /\ Wiring!Triggered(Wiring!Caller) /\ Wiring!Concurrent(Wiring!Caller)
      /\ Wiring!ModuleNamed(new, Wiring!Caller)
  BY DEF Wiring!Caller, Wiring!Triggered, Wiring!Concurrent, Wiring!ModuleNamed
<1>5. Wiring!Cardinality({"ci"}) = 1
  <2>1. Wiring!Cardinality({"ci"}) = Cardinality({"ci"})
    BY DEF Wiring!Cardinality, Cardinality
  <2>. QED
    BY <2>1, FS_Singleton
<1>6. Wiring!CheckWorkflow(new) = "sound"
  BY <1>2, <1>3, <1>4, <1>5 DEF Wiring!CheckWorkflow
<1>7. ~Wiring!Explicit(repo)
  BY DEF Wiring!Explicit
<1>8. ~Wiring!Explicit(new)
  <2>0. Wiring!Caller.module = ""
    BY DEF Wiring!Caller
  <2>1. \A c \in Wiring!Callers(new, "shared") : new.workflows[c].module = ""
    BY <1>2, <1>3, <2>0
  <2>. QED
    BY <2>1 DEF Wiring!Explicit
<1>9. Wiring!FindPin(new) = Wiring!FindPin(repo)
  BY DEF Wiring!FindPin, Wiring!Pinning
<1>. QED
  BY <1>6, <1>7, <1>8, <1>9 DEF Wiring!PinIn

(* A caller that was cut off calls no pipeline, and is written again. *)
LEMMA CalledAgain ==
  ASSUME NEW repo, NEW new, NEW text \in {"whole", "empty"}, new.pins = repo.pins, new.cfg = repo.cfg,
         new.workflows \in {repo.workflows, Calling(repo, text)}
  PROVE  Calling(new, "whole") = Calling(repo, "whole")
<1>1. CASE new.workflows = repo.workflows
  BY <1>1, SameWorkflow DEF Calling
<1>2. CASE new.workflows # repo.workflows
  <2>1. /\ Wiring!CheckWorkflow(repo) = "nocaller" /\ ~repo.cfg.ships
        /\ new.workflows = Calling(repo, text)
        /\ new.workflows = [f \in DOMAIN repo.workflows \cup {"ci"} |->
                              IF f = "ci" THEN Wiring!Called(text) ELSE repo.workflows[f]]
    BY <1>2 DEF Calling
  <2>2. CASE text = "whole"
    <3>1. Wiring!CheckWorkflow(new) = "sound"
      BY <2>1, <2>2, CallerWritten
    <3>. QED
      BY <2>1, <2>2, <3>1 DEF Calling
  <2>3. CASE text = "empty"
    <3>1. Wiring!Callers(repo, "shared") = {} /\ Wiring!Callers(repo, "old") = {}
      BY <2>1 DEF Wiring!CheckWorkflow
    <3>2. DOMAIN new.workflows = DOMAIN repo.workflows \cup {"ci"}
      BY <2>1
    <3>3. \A f \in DOMAIN new.workflows :
            new.workflows[f] = IF f = "ci" THEN Wiring!Called("empty") ELSE repo.workflows[f]
      BY <2>1, <2>3
    <3>4. Wiring!Called("empty").calls = "nothing"
      BY DEF Wiring!Called, Wiring!Caller
    <3>5. Wiring!Callers(new, "shared") = {} /\ Wiring!Callers(new, "old") = {}
      BY <3>1, <3>2, <3>3, <3>4 DEF Wiring!Callers
    <3>6. Wiring!Cardinality({}) = 0
      <4>1. Wiring!Cardinality({}) = Cardinality({})
        BY DEF Wiring!Cardinality, Cardinality
      <4>. QED
        BY <4>1, FS_EmptySet
    <3>7. Wiring!CheckWorkflow(new) = "nocaller"
      BY <3>5, <3>6 DEF Wiring!CheckWorkflow
    <3>8. Calling(new, "whole") = [f \in DOMAIN new.workflows \cup {"ci"} |->
                                 IF f = "ci" THEN Wiring!Called("whole") ELSE new.workflows[f]]
      BY <2>1, <3>7 DEF Calling
    <3>9. Calling(repo, "whole") = [f \in DOMAIN repo.workflows \cup {"ci"} |->
                                  IF f = "ci" THEN Wiring!Called("whole") ELSE repo.workflows[f]]
      BY <2>1 DEF Calling
    <3>. QED
      BY <3>2, <3>3, <3>8, <3>9
  <2>. QED
    BY <2>2, <2>3
<1>. QED
  BY <1>1, <1>2

(* What is written again is as it was, but for the three files of Unmended. *)
LEMMA WrittenAgain ==
  ASSUME NEW repo, NEW n \in 0..6, NEW text \in {"whole", "empty"},
         NEW new, new = Partly(n, repo, text)
  PROVE  /\ new.pins = repo.pins /\ new.cfg = repo.cfg
         /\ new.lintConfig = repo.lintConfig /\ new.make = repo.make
         /\ Calling(new, "whole") = Calling(repo, "whole")
         /\ Hooked(new.hook, "whole") = Hooked(repo.hook, "whole")
         /\ n # 3 \/ text = "whole" => Pushed(new.prepush, "whole") = Pushed(repo.prepush, "whole")
         /\ n # 5 \/ text = "whole" => Listed(new.ignored, "whole") = Listed(repo.ignored, "whole")
         /\ n # 6 \/ text = "whole" => Seeded(new.changelog, "whole") = Seeded(repo.changelog, "whole")
<1>1. /\ new.pins = repo.pins /\ new.cfg = repo.cfg
      /\ new.lintConfig = repo.lintConfig /\ new.make = repo.make
  BY DEF Partly, Part
<1>2. Calling(new, "whole") = Calling(repo, "whole")
  <2>1. PICK w \in {"whole", "empty"} : new.workflows \in {repo.workflows, Calling(repo, w)}
    BY DEF Partly, Part
  <2>. QED
    BY <1>1, <2>1, CalledAgain
<1>3. Hooked(new.hook, "whole") = Hooked(repo.hook, "whole")
  <2>1. PICK w \in {"whole", "empty"} : new.hook \in {repo.hook, Hooked(repo.hook, w)}
    BY DEF Partly, Part
  <2>2. Hooked(Hooked(repo.hook, w), "whole") = Hooked(repo.hook, "whole")
    BY DEF Hooked, Wiring!Script, Wiring!Shape
  <2>. QED
    BY <2>1, <2>2
<1>4. n # 3 \/ text = "whole" => Pushed(new.prepush, "whole") = Pushed(repo.prepush, "whole")
  <2>1. n # 3 \/ text = "whole" => new.prepush \in {repo.prepush, Pushed(repo.prepush, "whole")}
    BY DEF Partly, Part
  <2>2. Pushed(Pushed(repo.prepush, "whole"), "whole") = Pushed(repo.prepush, "whole")
    BY DEF Pushed, Wiring!Script
  <2>. QED
    BY <2>1, <2>2
<1>5. n # 5 \/ text = "whole" => Listed(new.ignored, "whole") = Listed(repo.ignored, "whole")
  <2>1. n # 5 \/ text = "whole" => new.ignored \in {repo.ignored, Listed(repo.ignored, "whole")}
    BY DEF Partly, Part
  <2>2. Listed(Listed(repo.ignored, "whole"), "whole") = Listed(repo.ignored, "whole")
    BY DEF Listed
  <2>. QED
    BY <2>1, <2>2
<1>6. n # 6 \/ text = "whole" => Seeded(new.changelog, "whole") = Seeded(repo.changelog, "whole")
  <2>1. n # 6 \/ text = "whole" => new.changelog \in {repo.changelog, Seeded(repo.changelog, "whole")}
    BY DEF Partly, Part
  <2>2. Seeded(Seeded(repo.changelog, "whole"), "whole") = Seeded(repo.changelog, "whole")
    BY DEF Seeded
  <2>. QED
    BY <2>1, <2>2
<1>. QED
  BY <1>1, <1>2, <1>3, <1>4, <1>5, <1>6

(* A file of a person's is as it was, whichever write comes or fails. *)
LEMMA PartlyKeeps ==
  ASSUME NEW repo, NEW n \in 0..6, NEW text \in {"whole", "empty"}
  PROVE  /\ Wiring!Keeps(repo, Partly(n, repo, text))
         /\ n # 5 \/ text = "whole" => repo.ignored \subseteq Partly(n, repo, text).ignored
         /\ Wiring!IsRepository(Partly(n, repo, text))
<1> DEFINE r == Partly(n, repo, text)
<1>1. repo.prepush.there => r.prepush = repo.prepush
  BY DEF Partly, Part, Pushed
<1>2. repo.changelog.there => r.changelog = repo.changelog
  BY DEF Partly, Part, Seeded
<1>3. Wiring!Shape(repo.hook) => r.hook = repo.hook
  BY DEF Partly, Part, Hooked
<1>4. \A f \in DOMAIN repo.workflows :
        (f = "ci" => Wiring!CheckWorkflow(repo) # "nocaller") => r.workflows[f] = repo.workflows[f]
  BY DEF Partly, Part, Calling
<1>5. n # 5 \/ text = "whole" => repo.ignored \subseteq r.ignored
  BY DEF Partly, Part, Listed
<1>6. Wiring!IsRepository(r)
  BY DEF Wiring!IsRepository, Partly, Part
<1>. QED
  BY <1>1, <1>2, <1>3, <1>4, <1>5, <1>6 DEF Wiring!Keeps

(* An init that is run again after another ends where one does, but for the
   file the other may have cut off. *)
LEMMA Mends ==
  ASSUME NEW repo, Wiring!IsRepository(repo), NEW n \in 0..6, NEW text \in {"whole", "empty"},
         NEW stop, stop = Partly(n, repo, text)
  PROVE  LET done == Wiring!InitRepo(repo)  again == Wiring!InitRepo(stop)
         IN  IF text = "whole" THEN again = done ELSE again = done \/ Wiring!Unmended(n, again, done)
<1> DEFINE done == Written(6, repo)
           again == Written(6, stop)
<1>1. Wiring!InitRepo(repo) = done
  BY UptoIsWritten DEF Wiring!InitRepo, Wiring!Writes
<1>2. Wiring!InitRepo(stop) = again
  BY PartlyKeeps, UptoIsWritten DEF Wiring!InitRepo, Wiring!Writes
<1>3. \A q : Written(6, q) =
        [workflows |-> Calling(q, "whole"), hook |-> Hooked(q.hook, "whole"),
         prepush |-> Pushed(q.prepush, "whole"), hooksPath |-> ".githooks",
         ignored |-> Listed(q.ignored, "whole"), changelog |-> Seeded(q.changelog, "whole"),
         lintConfig |-> q.lintConfig, make |-> q.make, pins |-> q.pins, cfg |-> q.cfg]
  BY DEF Written, Partly, Part
<1>4. /\ stop.pins = repo.pins /\ stop.cfg = repo.cfg
      /\ stop.lintConfig = repo.lintConfig /\ stop.make = repo.make
      /\ Calling(stop, "whole") = Calling(repo, "whole")
      /\ Hooked(stop.hook, "whole") = Hooked(repo.hook, "whole")
      /\ n # 3 \/ text = "whole" => Pushed(stop.prepush, "whole") = Pushed(repo.prepush, "whole")
      /\ n # 5 \/ text = "whole" => Listed(stop.ignored, "whole") = Listed(repo.ignored, "whole")
      /\ n # 6 \/ text = "whole" => Seeded(stop.changelog, "whole") = Seeded(repo.changelog, "whole")
  BY WrittenAgain
<1>5. CASE text = "whole" \/ n \notin {3, 5, 6}
  BY <1>1, <1>2, <1>3, <1>4, <1>5
<1>6. CASE text = "empty" /\ n = 3
  <2>1. again = [done EXCEPT !.prepush = again.prepush]
    BY <1>3, <1>4, <1>6
  <2>2. CASE repo.prepush.there
    <3>1. stop.prepush = repo.prepush
      BY <1>6, <2>2 DEF Partly, Part, Pushed
    <3>. QED
      BY <1>1, <1>2, <1>3, <1>4, <1>6, <3>1
  <2>3. CASE ~repo.prepush.there
    <3>1. stop.prepush = Wiring!Script(repo.prepush, "empty")
      BY <1>6, <2>3 DEF Partly, Part, Pushed
    <3>2. stop.prepush.there /\ ~stop.prepush.delegates
      <4>1. \A h : Wiring!Script(h, "empty").there /\ ~Wiring!Script(h, "empty").delegates
        BY DEF Wiring!Script
      <4>. QED
        BY <3>1, <4>1
    <3>3. again.prepush = stop.prepush
      BY <1>3, <3>2 DEF Pushed
    <3>4. ~Wiring!Shape(again.prepush)
      BY <3>2, <3>3 DEF Wiring!Shape
    <3>5. "prepush" \in Wiring!Findings(again)
      BY <3>4 DEF Wiring!Findings, Wiring!Finding
    <3>. QED
      BY <1>1, <1>2, <1>6, <2>1, <3>5 DEF Wiring!Unmended
  <2>. QED
    BY <2>2, <2>3
<1>7. CASE text = "empty" /\ n = 5
  <2>1. again = [done EXCEPT !.ignored = again.ignored]
    BY <1>3, <1>4, <1>7
  <2>2. Wiring!Ignored \subseteq again.ignored
    BY <1>3 DEF Listed
  <2>. QED
    BY <1>1, <1>2, <1>7, <2>1, <2>2 DEF Wiring!Unmended
<1>8. CASE text = "empty" /\ n = 6
  <2>1. again = [done EXCEPT !.changelog = again.changelog]
    BY <1>3, <1>4, <1>8
  <2>2. CASE repo.changelog.there
    <3>1. stop.changelog = repo.changelog
      BY <1>8, <2>2 DEF Partly, Part, Seeded
    <3>. QED
      BY <1>1, <1>2, <1>3, <1>4, <1>8, <3>1
  <2>3. CASE ~repo.changelog.there
    <3>1. stop.changelog.there /\ ~stop.changelog.tracked
      <4>1. stop.changelog = Seeded(repo.changelog, "empty")
        BY <1>8 DEF Partly, Part
      <4>. QED
        BY <2>3, <4>1 DEF Seeded
    <3>2. again.changelog = stop.changelog
      <4>1. again.changelog = Seeded(stop.changelog, "whole")
        BY <1>3
      <4>2. Seeded(stop.changelog, "whole") = stop.changelog
        BY <3>1 DEF Seeded
      <4>. QED
        BY <4>1, <4>2
    <3>3. "untracked" \in Wiring!Findings(again)
      BY <3>1, <3>2 DEF Wiring!Findings, Wiring!Finding
    <3>. QED
      BY <1>1, <1>2, <1>8, <2>1, <3>3 DEF Wiring!Unmended
  <2>. QED
    BY <2>2, <2>3
<1>. QED
  BY <1>5, <1>6, <1>7, <1>8

(* What contract says after an init was said before it, and is for a person. *)
LEMMA SaysLess ==
  ASSUME NEW repo, Wiring!IsRepository(repo)
  PROVE  LET done == Wiring!InitRepo(repo)
         IN  /\ Wiring!Findings(done) \subseteq Wiring!ByHand(repo)
             /\ Wiring!Findings(done) \ {"untracked"} \subseteq Wiring!Findings(repo)
<1> DEFINE done == Written(6, repo)
<1>1. Wiring!InitRepo(repo) = done
  BY UptoIsWritten DEF Wiring!InitRepo, Wiring!Writes
<1>3. /\ done.pins = repo.pins /\ done.cfg = repo.cfg /\ done.make = repo.make
      /\ done.lintConfig = repo.lintConfig
      /\ done.hook = Hooked(repo.hook, "whole") /\ done.prepush = Pushed(repo.prepush, "whole")
      /\ Wiring!Ignored \subseteq done.ignored /\ done.changelog = Seeded(repo.changelog, "whole")
      /\ done.workflows = Calling(repo, "whole")
  BY DEF Written, Partly, Part, Listed
<1>4. /\ Wiring!PinIn(done) = Wiring!PinIn(repo)
      /\ \/ Wiring!CheckWorkflow(done) = "sound"
         \/ /\ Wiring!CheckWorkflow(done) = Wiring!CheckWorkflow(repo)
            /\ Wiring!CheckWorkflow(repo) # "nocaller" \/ repo.cfg.ships
  <2>1. CASE Wiring!CheckWorkflow(repo) = "nocaller" /\ ~repo.cfg.ships
    <3>1. done.workflows = [f \in DOMAIN repo.workflows \cup {"ci"} |->
                              IF f = "ci" THEN Wiring!Called("whole") ELSE repo.workflows[f]]
      BY <1>3, <2>1 DEF Calling
    <3>. QED
      BY <1>3, <2>1, <3>1, CallerWritten
  <2>2. CASE ~(Wiring!CheckWorkflow(repo) = "nocaller" /\ ~repo.cfg.ships)
    <3>1. done.workflows = repo.workflows
      BY <1>3, <2>2 DEF Calling
    <3>. QED
      BY <1>3, <2>2, <3>1, SameWorkflow
  <2>. QED
    BY <2>1, <2>2
<1> HIDE DEF done
<1>5. Wiring!CheckWorkflow(done) \in {"caller", "sound", "callers", "old", "nocaller"}
  BY DEF Wiring!CheckWorkflow
<1>6. Wiring!HandRolled(done) = Wiring!HandRolled(repo)
  BY <1>3 DEF Wiring!HandRolled
<1>7. /\ ~Wiring!Shape(done.hook) => repo.hook.there /\ ~repo.hook.exec /\ ~Wiring!Shape(repo.hook)
      /\ ~Wiring!Shape(done.prepush) => repo.prepush.there /\ ~Wiring!Shape(repo.prepush)
  <2>1. ASSUME NEW h, ~Wiring!Shape(Wiring!Script(h, "whole")) PROVE h.there /\ ~h.exec
    <3>1. /\ Wiring!Script(h, "whole").there /\ Wiring!Script(h, "whole").delegates
          /\ Wiring!Script(h, "whole").exec = (h.there => h.exec)
      BY DEF Wiring!Script
    <3>. QED
      BY <2>1, <3>1 DEF Wiring!Shape
  <2>2. ~Wiring!Shape(done.hook) => repo.hook.there /\ ~repo.hook.exec /\ ~Wiring!Shape(repo.hook)
    BY <1>3, <2>1 DEF Hooked
  <2>3. ~Wiring!Shape(done.prepush) => repo.prepush.there /\ ~Wiring!Shape(repo.prepush)
    BY <1>3, <2>1 DEF Pushed
  <2>. QED
    BY <2>2, <2>3
<1>8. /\ done.changelog.there
      /\ done.changelog.tracked => done.changelog = repo.changelog /\ repo.changelog.there
  BY <1>3 DEF Seeded
<1>9. Wiring!Findings(done) \subseteq Wiring!ByHand(repo)
  BY <1>3, <1>4, <1>5, <1>6, <1>7, <1>8 DEF Wiring!Findings, Wiring!Finding, Wiring!ByHand
<1>10. Wiring!Findings(done) \ {"untracked"} \subseteq Wiring!Findings(repo)
  BY <1>3, <1>4, <1>5, <1>6, <1>7, <1>8 DEF Wiring!Findings, Wiring!Finding
<1>. QED
  BY <1>1, <1>9, <1>10

LEMMA Settles ==
  ASSUME NEW repo, Wiring!IsRepository(repo)
  PROVE  Wiring!InitSettles(repo)
<1> DEFINE done == Wiring!InitRepo(repo)
<1>1. ASSUME NEW n \in 1..6, NEW stop \in Wiring!FailsAt(n, repo)
      PROVE  /\ Wiring!Keeps(repo, stop) /\ (n # 5 => repo.ignored \subseteq stop.ignored)
             /\ Wiring!InitRepo(stop) = done \/ Wiring!Unmended(n, Wiring!InitRepo(stop), done)
  <2>1. n - 1 \in 0..5 /\ n \in 0..6 /\ (n - 1) \in 0..6
    OBVIOUS
  <2>2. Wiring!Upto(n - 1, repo) = Partly(n - 1, repo, "whole")
    BY <2>1, UptoIsWritten DEF Written
  <2>3. Wiring!Write(n, Wiring!Upto(n - 1, repo), "empty") = Partly(n, repo, "empty")
    BY <2>2, OneWrite DEF Written
  <2>4. CASE stop = Partly(n - 1, repo, "whole")
    BY <2>1, <2>4, PartlyKeeps, Mends
  <2>5. CASE stop = Partly(n, repo, "empty")
    BY <2>1, <2>5, PartlyKeeps, Mends
  <2>. QED
    BY <2>2, <2>3, <2>4, <2>5 DEF Wiring!FailsAt
<1>2. Wiring!Keeps(repo, done) /\ Wiring!InitRepo(done) = done
  <2>1. done = Partly(6, repo, "whole")
    BY UptoIsWritten DEF Wiring!InitRepo, Wiring!Writes, Written
  <2>. QED
    BY <2>1, PartlyKeeps, Mends
<1>. QED
  BY <1>1, <1>2, SaysLess DEF Wiring!InitSettles, Wiring!Writes

-----------------------------------------------------------------------------
(* The configuration *)

(* The keys of the two tables of defaults. *)
Texts == {"spec.dir", "ship.image.dockerfile", "ship.image.context", "ship.image.platform",
          "ship.deploy.rollout_timeout", "ship.deploy.smoke"}
Choices == {"modernize.disable", "spec.require"}

LEMMA DefaultDomains ==
  /\ DOMAIN Reading!DefaultTexts = Texts /\ \A k \in Texts : Reading!DefaultTexts[k] = "default"
  /\ DOMAIN Reading!DefaultChoices = Choices
BY DEF Reading!DefaultTexts, Reading!DefaultChoices, Texts, Choices

(* The values that are read, key by key. *)
Reads(e, file, onDisk) ==
  /\ e = [k \in Reading!FilledKeys |-> e[k]]
  /\ \A k \in Texts : k \in Reading!FilledKeys /\ e[k] = Reading!Text(file, k)
  /\ \A k \in Choices : k \in Reading!FilledKeys /\
       e[k] = IF Reading!Says(file, k) THEN file[k] ELSE Reading!DefaultChoices[k]
  /\ e["cover.threshold"] =
       IF Reading!Says(file, "cover.threshold") /\ file["cover.threshold"] # 0
         THEN file["cover.threshold"] ELSE 90
  /\ e["release.require_green"] =
       (Reading!Says(file, "release.require_green") => file["release.require_green"])
  /\ e["golangci.sloglint"] =
       IF Reading!Says(file, "golangci.sloglint") THEN file["golangci.sloglint"]
       ELSE Reading!DefaultSloglint
  /\ e["spec.index"] = Reading!Index(file, onDisk)
  /\ e["identity.registry"] =
       IF Reading!Registry(file) = "" /\ Reading!Role(file) = "issuer"
         THEN Reading!DefaultRegistry ELSE Reading!Registry(file)

(* Effective reads a file that way. *)
LEMMA Filled ==
  ASSUME NEW file, NEW onDisk
  PROVE  Reads(Reading!Effective(file, onDisk), file, onDisk)
<1> DEFINE e == Reading!Effective(file, onDisk)
<1>1. Reading!FilledKeys = Texts \cup Choices \cup {"cover.threshold", "release.require_green",
        "golangci.sloglint", "spec.index", "identity.registry"}
  BY DefaultDomains DEF Reading!FilledKeys
<1>2. e = [k \in Reading!FilledKeys |-> e[k]]
  <2> DEFINE value(k) ==
    CASE k \in DOMAIN Reading!DefaultTexts     -> Reading!Text(file, k)
      [] k \in DOMAIN Reading!DefaultChoices   ->
           IF Reading!Says(file, k) THEN file[k] ELSE Reading!DefaultChoices[k]
      [] k = "cover.threshold"         ->
           IF Reading!Says(file, k) /\ file[k] # 0 THEN file[k] ELSE 90
      [] k = "release.require_green"   -> Reading!Says(file, k) => file[k]
      [] k = "golangci.sloglint"       ->
           IF Reading!Says(file, k) THEN file[k] ELSE Reading!DefaultSloglint
      [] k = "spec.index"              -> Reading!Index(file, onDisk)
      [] k = "identity.registry"       ->
           IF Reading!Registry(file) = "" /\ Reading!Role(file) = "issuer"
             THEN Reading!DefaultRegistry ELSE Reading!Registry(file)
  <2>1. e = [k \in Reading!FilledKeys |-> value(k)]
    BY DEF Reading!Effective
  <2> HIDE DEF e, value
  <2>. QED
    BY <2>1
<1>3. \A k \in Texts : k \in Reading!FilledKeys /\ e[k] = Reading!Text(file, k)
  BY <1>1, DefaultDomains DEF Reading!Effective, Texts, Choices
<1>4. \A k \in Choices : k \in Reading!FilledKeys /\
        e[k] = IF Reading!Says(file, k) THEN file[k] ELSE Reading!DefaultChoices[k]
  BY <1>1, DefaultDomains DEF Reading!Effective, Texts, Choices
<1>5. e["cover.threshold"] =
        IF Reading!Says(file, "cover.threshold") /\ file["cover.threshold"] # 0
          THEN file["cover.threshold"] ELSE 90
  BY <1>1, DefaultDomains DEF Reading!Effective, Texts, Choices
<1>6. e["release.require_green"] =
        (Reading!Says(file, "release.require_green") => file["release.require_green"])
  BY <1>1, DefaultDomains DEF Reading!Effective, Texts, Choices
<1>7. e["golangci.sloglint"] =
        IF Reading!Says(file, "golangci.sloglint") THEN file["golangci.sloglint"]
        ELSE Reading!DefaultSloglint
  BY <1>1, DefaultDomains DEF Reading!Effective, Texts, Choices
<1>8. e["spec.index"] = Reading!Index(file, onDisk)
  BY <1>1, DefaultDomains DEF Reading!Effective, Texts, Choices
<1>9. e["identity.registry"] =
        IF Reading!Registry(file) = "" /\ Reading!Role(file) = "issuer"
          THEN Reading!DefaultRegistry ELSE Reading!Registry(file)
  BY <1>1, DefaultDomains DEF Reading!Effective, Texts, Choices
<1> HIDE DEF e
<1>. QED
  BY <1>2, <1>3, <1>4, <1>5, <1>6, <1>7, <1>8, <1>9 DEF e, Reads

(* Two files are read the same when what is read of each key is. *)
LEMMA SameRead ==
  ASSUME NEW f, NEW g, NEW onDisk,
         \A k \in Reading!FilledKeys :
           Reading!Effective(f, onDisk)[k] = Reading!Effective(g, onDisk)[k]
  PROVE  Reading!Effective(f, onDisk) = Reading!Effective(g, onDisk)
<1>1. Reading!Effective(f, onDisk) = [k \in Reading!FilledKeys |-> Reading!Effective(f, onDisk)[k]]
  BY Filled DEF Reads
<1>2. Reading!Effective(g, onDisk) = [k \in Reading!FilledKeys |-> Reading!Effective(g, onDisk)[k]]
  BY Filled DEF Reads
<1>. QED
  BY <1>1, <1>2

LEMMA Keys ==
  Reading!FilledKeys = Texts \cup Choices \cup {"cover.threshold", "release.require_green",
        "golangci.sloglint", "spec.index", "identity.registry"}
BY DefaultDomains DEF Reading!FilledKeys

(* The keys Delete takes out of the file's own, and no block's. *)
Plain == {"cover.threshold", "release.require_green", "golangci.sloglint", "spec.index"}
Deletable == Texts \cup Choices \cup Plain

(* A file without one key. *)
LEMMA Deleted ==
  ASSUME NEW file, NEW k \in DOMAIN file \cap Deletable
  PROVE  LET g == Reading!Delete(file, k) IN
         /\ DOMAIN g = DOMAIN file \ {k}
         /\ \A j \in DOMAIN g : g[j] = file[j]
         /\ \A j : j # k => Reading!Says(g, j) = Reading!Says(file, j)
         /\ ~Reading!Says(g, k)
         /\ Reading!Registry(g) = Reading!Registry(file) /\ Reading!Role(g) = Reading!Role(file)
         /\ Reading!Excluded(g) = Reading!Excluded(file)
         /\ \A j : Reading!ShipBlock(g, j) = Reading!ShipBlock(file, j)
<1> DEFINE g == Reading!Delete(file, k)
<1>1. k \notin {"identity", "ship", "spec.exclude", "identity.registry"}
  BY DEF Deletable, Texts, Choices, Plain
<1>2. g = [j \in DOMAIN file \ {k} |-> file[j]]
  BY <1>1 DEF Reading!Delete, Reading!Without
<1> HIDE DEF g
<1>3. DOMAIN g = DOMAIN file \ {k} /\ \A j \in DOMAIN g : g[j] = file[j]
  BY <1>2
<1>4. (\A j : j # k => Reading!Says(g, j) = Reading!Says(file, j)) /\ ~Reading!Says(g, k)
  BY <1>3 DEF Reading!Says
<1>5. \A j \in {"identity", "ship", "spec.exclude"} :
        Reading!Says(g, j) = Reading!Says(file, j) /\ (Reading!Says(file, j) => g[j] = file[j])
  BY <1>1, <1>3 DEF Reading!Says
<1>6. Reading!Registry(g) = Reading!Registry(file) /\ Reading!Role(g) = Reading!Role(file)
  BY <1>5 DEF Reading!Registry, Reading!Role
<1>7. Reading!Excluded(g) = Reading!Excluded(file)
  BY <1>5 DEF Reading!Excluded
<1>8. \A j : Reading!ShipBlock(g, j) = Reading!ShipBlock(file, j)
  BY <1>5 DEF Reading!ShipBlock
<1>. QED
  BY <1>3, <1>4, <1>6, <1>7, <1>8 DEF g

(* A key that only restates what is filled in goes and nothing is read of the
   file that was not. *)
LEMMA DeletesClean ==
  ASSUME NEW file, NEW onDisk, Reading!Accepted(file), Reading!IsFile(file),
         NEW k \in Reading!Restated(file), k # "identity.registry",
         k = "spec.index" => onDisk /\ "README.md" \notin Reading!Excluded(file)
  PROVE  Reading!Accepted(Reading!Delete(file, k)) /\ Reading!Same(file, k, onDisk)
<1> DEFINE g == Reading!Delete(file, k)
           e == Reading!Effective(file, onDisk)
           d == Reading!Effective(g, onDisk)
<1>1. k \in DOMAIN file \cap Deletable
  BY DefaultDomains DEF Reading!Restated, Deletable, Plain
<1>2. /\ DOMAIN g = DOMAIN file \ {k}
      /\ \A j \in DOMAIN g : g[j] = file[j]
      /\ \A j : j # k => Reading!Says(g, j) = Reading!Says(file, j)
      /\ ~Reading!Says(g, k)
      /\ Reading!Registry(g) = Reading!Registry(file) /\ Reading!Role(g) = Reading!Role(file)
      /\ Reading!Excluded(g) = Reading!Excluded(file)
      /\ \A j : Reading!ShipBlock(g, j) = Reading!ShipBlock(file, j)
  BY <1>1, Deleted
<1> HIDE DEF g
<1>3. Reading!Accepted(g)
  BY <1>2 DEF Reading!Accepted
<1>t. ASSUME NEW j \in Texts PROVE Reading!Text(g, j) = Reading!Text(file, j)
  <2>1. CASE j # k
    BY <1>2, <2>1 DEF Reading!Text, Reading!Says
  <2>2. CASE j = k
    <3>1. file[k] = Reading!DefaultTexts[k] /\ Reading!DefaultTexts[k] = "default"
      BY <2>2, DefaultDomains DEF Reading!Restated, Texts, Choices
    <3>. QED
      BY <1>1, <1>2, <2>2, <3>1 DEF Reading!Text, Reading!Says
  <2>. QED
    BY <2>1, <2>2
<1>c. ASSUME NEW j \in Choices
      PROVE  (IF Reading!Says(g, j) THEN g[j] ELSE Reading!DefaultChoices[j])
               = (IF Reading!Says(file, j) THEN file[j] ELSE Reading!DefaultChoices[j])
  <2>1. CASE j # k
    BY <1>2, <2>1 DEF Reading!Says
  <2>2. CASE j = k
    <3>1. file[k] = Reading!DefaultChoices[k]
      BY <2>2, DefaultDomains DEF Reading!Restated, Texts, Choices, Reading!SameSet
    <3>. QED
      BY <1>1, <1>2, <2>2, <3>1 DEF Reading!Says
  <2>. QED
    BY <2>1, <2>2
<1>i. Reading!Index(g, onDisk) = Reading!Index(file, onDisk)
  <2>1. CASE k # "spec.index"
    BY <1>2, <2>1 DEF Reading!Index, Reading!Says
  <2>2. CASE k = "spec.index"
    <3>1. file[k] = Reading!DefaultIndex
      BY <2>2, DefaultDomains DEF Reading!Restated, Texts, Choices
    <3>. QED
      BY <1>1, <1>2, <2>2, <3>1 DEF Reading!Index, Reading!Says
  <2>. QED
    BY <2>1, <2>2
<1>p. k \in {"cover.threshold", "release.require_green", "golangci.sloglint"} =>
        /\ k = "cover.threshold" => file[k] = 90
        /\ k = "release.require_green" => file[k]
        /\ k = "golangci.sloglint" => file[k] = Reading!DefaultSloglint
  BY DefaultDomains DEF Reading!Restated, Texts, Choices
<1>f. Reads(e, file, onDisk) /\ Reads(d, g, onDisk)
  BY Filled
<1> HIDE DEF e, d
<1>4. ASSUME NEW j \in Texts PROVE d[j] = e[j]
  <2>1. d[j] = Reading!Text(g, j) /\ e[j] = Reading!Text(file, j)
    BY <1>f DEF Reads
  <2>. QED
    BY <2>1, <1>t
<1>5. \A j \in Choices : d[j] = e[j]
  BY <1>c, <1>f DEF Reads
<1>6. d["spec.index"] = e["spec.index"] /\ d["identity.registry"] = e["identity.registry"]
  BY <1>i, <1>2, <1>f DEF Reads
<1>7. d["cover.threshold"] = e["cover.threshold"]
  BY <1>2, <1>p, <1>f DEF Reads, Reading!Says
<1>8. d["release.require_green"] = e["release.require_green"]
  BY <1>2, <1>p, <1>f DEF Reads, Reading!Says, Reading!IsFile
<1>9. d["golangci.sloglint"] = e["golangci.sloglint"]
  BY <1>2, <1>p, <1>f DEF Reads, Reading!Says
<1>10. \A j \in Reading!FilledKeys : d[j] = e[j]
  BY <1>4, <1>5, <1>6, <1>7, <1>8, <1>9, Keys
<1>. QED
  BY <1>3, <1>10, SameRead DEF Reading!Same, g, e, d

(* The registry of an identity that names the default one. *)
LEMMA RegistryDeletesClean ==
  ASSUME NEW file, NEW onDisk, Reading!Accepted(file), Reading!IsFile(file),
         Reading!Registry(file) = Reading!DefaultRegistry
  PROVE  /\ Reading!Accepted(Reading!Delete(file, "identity.registry"))
         /\ Reading!Same(file, "identity.registry", onDisk)
<1> DEFINE g == Reading!Delete(file, "identity.registry")
           block == file["identity"]
           e == Reading!Effective(file, onDisk)
           d == Reading!Effective(g, onDisk)
<1>1. Reading!Says(file, "identity") /\ block.registry = Reading!DefaultRegistry
  BY DEF Reading!Registry, Reading!DefaultRegistry
<1>2. g = [file EXCEPT !["identity"].registry = ""]
  BY DEF Reading!Delete
<1> DEFINE unnamed == [block EXCEPT !.registry = ""]
<1>3. /\ DOMAIN g = DOMAIN file /\ g["identity"] = unnamed
      /\ \A k \in DOMAIN file : k # "identity" => g[k] = file[k]
  BY <1>1, <1>2 DEF Reading!Says
<1> HIDE DEF g
<1>4. /\ unnamed.role = block.role /\ unnamed.audience = block.audience
      /\ unnamed.configPrefix = block.configPrefix /\ unnamed.apiGroup = block.apiGroup
      /\ unnamed.registry = "" /\ unnamed.reachedBy = block.reachedBy /\ unnamed.bff = block.bff
      /\ unnamed.image = block.image /\ unnamed.envelopeExempt = block.envelopeExempt
      /\ unnamed.overlays = block.overlays /\ unnamed.audiences = block.audiences
      /\ unnamed.waive = block.waive
  BY <1>1 DEF Reading!IsFile
<1> HIDE DEF unnamed
<1>5. Reading!ValidIdentity(block)
  BY <1>1 DEF Reading!Accepted, Reading!Allowed, Reading!Says
<1>6. Reading!ValidIdentity(unnamed)
  BY <1>4, <1>5 DEF Reading!ValidIdentity
<1>7. Reading!Accepted(g)
  <2>1. SUFFICES ASSUME NEW k \in DOMAIN file PROVE Reading!Allowed(k, g[k])
    BY <1>3 DEF Reading!Accepted
  <2>2. CASE k = "identity"
    BY <2>2, <1>3, <1>6 DEF Reading!Allowed
  <2>3. CASE k # "identity"
    BY <2>3, <1>3 DEF Reading!Accepted
  <2>. QED
    BY <2>2, <2>3
<1>8. block.role = "issuer"
  BY <1>1, <1>5 DEF Reading!ValidIdentity, Reading!DefaultRegistry
<1>9. \A k : Reading!Says(g, k) = Reading!Says(file, k)
  BY <1>3 DEF Reading!Says
<1>10. \A k \in DOMAIN file : k # "identity" => g[k] = file[k]
  BY <1>3
<1>11. /\ Reading!Registry(g) = "" /\ Reading!Role(g) = "issuer"
       /\ Reading!Registry(file) = Reading!DefaultRegistry
  BY <1>1, <1>3, <1>4, <1>8, <1>9 DEF Reading!Registry, Reading!Role
<1>f. Reads(e, file, onDisk) /\ Reads(d, g, onDisk)
  BY Filled
<1> HIDE DEF e, d
<1>12. ASSUME NEW j \in Texts PROVE d[j] = e[j]
  <2>1. \A k : Reading!ShipBlock(g, k) = Reading!ShipBlock(file, k)
    BY <1>9, <1>10 DEF Reading!ShipBlock, Reading!Says
  <2>2. j # "identity"
    BY DEF Texts
  <2>3. Reading!Text(g, j) = Reading!Text(file, j)
    BY <2>1, <2>2, <1>9, <1>10 DEF Reading!Text, Reading!Says
  <2>4. d[j] = Reading!Text(g, j) /\ e[j] = Reading!Text(file, j)
    BY <1>f DEF Reads
  <2>. QED
    BY <2>3, <2>4
<1>13. \A j \in Choices : d[j] = e[j]
  BY <1>f, <1>9, <1>10 DEF Reads, Reading!Says, Choices
<1>14. d["spec.index"] = e["spec.index"]
  <2>1. Reading!Excluded(g) = Reading!Excluded(file)
    BY <1>9, <1>10 DEF Reading!Excluded, Reading!Says
  <2>2. Reading!Index(g, onDisk) = Reading!Index(file, onDisk)
    BY <2>1, <1>9, <1>10 DEF Reading!Index, Reading!Says
  <2>. QED
    BY <2>2, <1>f DEF Reads
<1>15. d["identity.registry"] = e["identity.registry"]
  BY <1>f, <1>11 DEF Reads, Reading!DefaultRegistry
<1>16. /\ d["cover.threshold"] = e["cover.threshold"]
       /\ d["release.require_green"] = e["release.require_green"]
       /\ d["golangci.sloglint"] = e["golangci.sloglint"]
  BY <1>f, <1>9, <1>10 DEF Reads, Reading!Says
<1>17. \A j \in Reading!FilledKeys : d[j] = e[j]
  BY <1>12, <1>13, <1>14, <1>15, <1>16, Keys
<1>. QED
  BY <1>7, <1>17, SameRead DEF Reading!Same, g, e, d

(* A key the file is read the same without restates, or says nothing. *)
LEMMA OnlyRestated ==
  ASSUME NEW file, NEW onDisk, Reading!IsFile(file),
         NEW k \in DOMAIN file \cap DOMAIN Reading!Effective(file, onDisk),
         Reading!Same(file, k, onDisk)
  PROVE  k \in Reading!Restated(file) \/ Reading!Nothing(file, k)
<1> DEFINE g == Reading!Delete(file, k)
           e == Reading!Effective(file, onDisk)
           d == Reading!Effective(g, onDisk)
<1>f. Reads(e, file, onDisk) /\ Reads(d, g, onDisk)
  BY Filled
<1>1. d = e
  BY DEF Reading!Same
<1>2. k \in Reading!FilledKeys /\ k \in DOMAIN file
  <2>1. DOMAIN e = Reading!FilledKeys
    BY DEF Reading!Effective
  <2>. QED
    BY <2>1
<1>3. k \in DOMAIN file \cap Deletable
  BY <1>2, Keys DEF Reading!IsFile, Deletable, Plain
<1>4. /\ DOMAIN g = DOMAIN file \ {k}
      /\ \A j \in DOMAIN g : g[j] = file[j]
      /\ ~Reading!Says(g, k) /\ Reading!Says(file, k)
      /\ Reading!Excluded(g) = Reading!Excluded(file)
      /\ \A j : Reading!ShipBlock(g, j) = Reading!ShipBlock(file, j)
  BY <1>3, Deleted DEF Reading!Says
<1> HIDE DEF g, e, d
<1>5. CASE k \in Texts
  <2>1. Reading!Text(g, k) = Reading!Text(file, k)
    BY <1>f, <1>1, <1>5 DEF Reads
  <2>2. k = "spec.dir" \/ Reading!ShipBlock(file, k)
    BY <1>3, <1>5, DefaultDomains DEF Reading!IsFile
  <2>3. file[k] = "" \/ file[k] = Reading!DefaultTexts[k]
    BY <2>1, <2>2, <1>4 DEF Reading!Text
  <2>. QED
    BY <2>2, <2>3, <1>3, <1>5, DefaultDomains DEF Reading!Restated, Reading!Nothing
<1>6. CASE k \in Choices
  <2>1. file[k] = Reading!DefaultChoices[k]
    BY <1>f, <1>1, <1>4, <1>6 DEF Reads
  <2>. QED
    BY <2>1, <1>3, <1>6, DefaultDomains DEF Reading!Restated, Reading!SameSet
<1>7. CASE k = "cover.threshold"
  <2>1. file[k] = 0 \/ file[k] = 90
    BY <1>f, <1>1, <1>4, <1>7 DEF Reads
  <2>. QED
    BY <2>1, <1>3, <1>7 DEF Reading!Restated, Reading!Nothing
<1>8. CASE k = "release.require_green"
  <2>1. file[k]
    BY <1>f, <1>1, <1>4, <1>8 DEF Reads
  <2>. QED
    BY <2>1, <1>3, <1>8 DEF Reading!Restated
<1>9. CASE k = "golangci.sloglint"
  <2>1. file[k] = Reading!DefaultSloglint
    BY <1>f, <1>1, <1>4, <1>9 DEF Reads
  <2>. QED
    BY <2>1, <1>3, <1>9 DEF Reading!Restated
<1>10. CASE k = "spec.index"
  <2>1. Reading!Index(g, onDisk) = Reading!Index(file, onDisk)
    BY <1>f, <1>1 DEF Reads
  <2>2. file[k] = "" \/ file[k] = Reading!DefaultIndex
    BY <2>1, <1>4, <1>10 DEF Reading!Index
  <2>. QED
    BY <2>2, <1>3, <1>10 DEF Reading!Restated, Reading!Nothing
<1>. QED
  BY <1>2, <1>3, <1>5, <1>6, <1>7, <1>8, <1>9, <1>10 DEF Deletable, Plain

LEMMA RestatedExactly ==
  ASSUME NEW file, NEW onDisk, Reading!IsFile(file)
  PROVE  Reading!RestatedIsExact(file, onDisk)
<1> SUFFICES ASSUME Reading!Accepted(file)
             PROVE  Reading!RestatedIsExact(file, onDisk)
  BY DEF Reading!RestatedIsExact
<1>1. ASSUME NEW k \in Reading!Restated(file),
             k = "spec.index" => onDisk /\ "README.md" \notin Reading!Excluded(file)
      PROVE  Reading!Accepted(Reading!Delete(file, k)) /\ Reading!Same(file, k, onDisk)
  <2>1. CASE k # "identity.registry"
    BY <1>1, <2>1, DeletesClean
  <2>2. CASE k = "identity.registry"
    <3>1. Reading!Registry(file) = Reading!DefaultRegistry
      BY <2>2 DEF Reading!Restated, Reading!IsFile
    <3>. QED
      BY <2>2, <3>1, RegistryDeletesClean
  <2>. QED
    BY <2>1, <2>2
<1>2. \A k \in DOMAIN file \cap DOMAIN Reading!Effective(file, onDisk) :
        Reading!Same(file, k, onDisk) => k \in Reading!Restated(file) \/ Reading!Nothing(file, k)
  BY OnlyRestated
<1>. QED
  BY <1>1, <1>2 DEF Reading!RestatedIsExact

-----------------------------------------------------------------------------
(* The theorems about the gates.  A gate is asked once, about one of its
   inputs. *)

AskedOfIts == /\ gate = "spec-lint" => input \in SpecTrees
              /\ gate = "contract" => input \in Wirings
              /\ gate = "config" => input \in Settings

LEMMA Asked == GatesSpec => []AskedOfIts
<1>1. GatesInit => AskedOfIts
  BY DEF GatesInit, AskedOfIts
<1>2. AskedOfIts /\ [GatesNext]_gatesVars => AskedOfIts'
  <2> SUFFICES ASSUME AskedOfIts, [GatesNext]_gatesVars PROVE AskedOfIts'
    OBVIOUS
  <2>1. CASE AnalyzeJSON
    BY <2>1 DEF AnalyzeJSON, Ask, AskedOfIts
  <2>2. CASE RunPostgres
    BY <2>2 DEF RunPostgres, Ask, AskedOfIts
  <2>3. CASE RunSpecLint
    BY <2>3 DEF RunSpecLint, Ask, AskedOfIts
  <2>4. CASE RunContract
    BY <2>4 DEF RunContract, Ask, AskedOfIts
  <2>5. CASE LoadConfig
    BY <2>5 DEF LoadConfig, Ask, AskedOfIts
  <2>6. CASE UNCHANGED gatesVars
    BY <2>6 DEF gatesVars, AskedOfIts
  <2>. QED
    BY <2>1, <2>2, <2>3, <2>4, <2>5, <2>6 DEF GatesNext
<1>. QED
  BY <1>1, <1>2, PTL DEF GatesSpec

(* A repository the postgres gate passes is what its role says, whatever its
   files, its constants, its waiver and the day. *)
THEOREM RoleHeld == GatesSpec => []PostgresRoleIsHeld
<1>1. PostgresRoleIsHeld
  BY PassedRole DEF PostgresRoleIsHeld
<1>. QED
  BY <1>1, PTL

(* In a tree spec-lint passes each citation leads to one spec, and to a row of
   the register where the configuration names what a citation is; the register
   has no row twice, and no gap where it is to be sequential.  This holds
   whatever the specs, the index and what configures it. *)
THEOREM Citations == GatesSpec => []CitationsHold
<1>1. AskedOfIts => CitationsHold
  BY TreesAreRead, PassedCites DEF AskedOfIts, CitationsHold
<1>. QED
  BY <1>1, Asked, PTL

(* In any repository, and wherever init stops, a write that failed in the middle
   included: it has kept the pre-push, the changelog and the workflows a person
   wrote, and a pre-commit in shape.  Run again it settles, but for a pre-push
   and a changelog it left empty, and what .gitignore held. *)
THEOREM InitSettled == GatesSpec => []WiringSettles
<1>1. AskedOfIts => WiringSettles
  BY WiringsAreRepositories, Settles DEF AskedOfIts, WiringSettles
<1>. QED
  BY <1>1, Asked, PTL

(* The keys of a file that restate a default are those it is read the same
   without, in any file that is accepted. *)
THEOREM RestatedKeys == GatesSpec => []RestatedIsExact
<1>1. AskedOfIts => RestatedIsExact
  BY SettingsAreFiles, RestatedExactly DEF AskedOfIts, RestatedIsExact
<1>. QED
  BY <1>1, Asked, PTL
=============================================================================
