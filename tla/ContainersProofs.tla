--------------------------- MODULE ContainersProofs ---------------------------
(***************************************************************************)
(* Theorems about Containers, for any hosts, processes, pids, gates and    *)
(* sweepers, any containers and networks, and any number of faults: the    *)
(* typing, whom a gate's failure is about, what a pass leaves, and that a  *)
(* live owner's things are taken by nobody else.                           *)
(***************************************************************************)
EXTENDS Containers, TLAPS

-----------------------------------------------------------------------------
(* The invariant *)

(* A thing is made once: until then it is nobody's, and then it is its maker's
   for good.  Its run label is its maker's gate, which watches. *)
MadeOnce ==
  \A t \in Things :
    IF state[t] = "none"
      THEN t \notin labelled /\ run[t] = NoRun
      ELSE owner[t] \in Procs
RunIsOwners ==
  \A t \in Things : run[t] \in Gates =>
    t \in labelled /\ owner[t] \in Procs /\ GateOf[owner[t]] = run[t]

(* A gate that checks, or has ended by itself, has no process left. *)
GateAlone ==
  \A g \in Gates : phase[g] \in {"check", "passed", "failed"} =>
    \A p \in ProcsOf(g) : alive[p] # "live"

(* A walk of containers has containers in hand, and awaits one of them. *)
HandKind ==
  \A x \in Removers :
    /\ step[x] \in {"containers", "await"} => todo[x] \subseteq Ctrs
    /\ step[x] = "await" => current[x] \in todo[x]

(* Outside remove nothing is in hand, and before the first list is read. *)
HandEmpty ==
  \A x \in Removers :
    phase[x] \notin {"sweep", "check"} \/ step[x] \in {"off", "list"}
      => todo[x] = {} /\ took[x] = {}
OffDuty == \A x \in Removers : phase[x] \notin {"sweep", "check"} => step[x] = "off"

(* What a walk has in hand was made, and what a check has in hand carries its
   run's label. *)
InHand(x) == todo[x] \cup took[x]
HandMade == \A x \in Removers : \A t \in InHand(x) : state[t] # "none"
HandOwn ==
  \A x \in Removers : phase[x] = "check" =>
    x \in Gates /\ \A t \in InHand(x) : run[t] = x

(* A check that has found nothing and met no error has walked over nothing of
   its run's that is still there. *)
OwnGone(g, kind) == \A t \in kind : run[t] = g => state[t] = "gone"
OwnListed(g, kind) == \A t \in kind : run[t] = g => state[t] = "gone" \/ t \in todo[g]
CleanWalk ==
  \A g \in Gates : phase[g] = "check" /\ ~failed[g] /\ took[g] = {} =>
    /\ step[g] \in {"containers", "await"} => OwnListed(g, Ctrs)
    /\ step[g] = "networks" => OwnGone(g, Ctrs) /\ OwnListed(g, Nets)

PassedClean == \A g \in watched : phase[g] = "passed" => OwnGone(g, Things)

-----------------------------------------------------------------------------
(* Typing *)

Typed == TypeOK /\ HandKind

LEMMA InitTyped == ContainersAssumption /\ Init => Typed
<1> SUFFICES ASSUME ContainersAssumption, Init PROVE Typed
  OBVIOUS
<1>1. (CHOOSE i \in Pids : TRUE) \in Pids
  BY DEF ContainersAssumption
<1>2. pid \in [Procs -> Pids]
  BY <1>1 DEF Init
<1>3. faults \in 0..MaxFaults
  BY DEF Init, ContainersAssumption
<1>4. HandKind
  BY DEF Init, HandKind
<1>. QED
  BY <1>2, <1>3, <1>4 DEF Init, Typed, TypeOK, States, GatePhases

LEMMA MakeTyped ==
  ASSUME Typed, NEW p \in Procs, NEW t \in Things,
         NEW with \in SUBSET Nets, Make(p, t, with)
  PROVE  Typed'
<1>1. RunOf(p) \in Gates \cup {NoRun}
  BY DEF RunOf, Typed, TypeOK
<1>. QED
  BY <1>1 DEF Make, Typed, TypeOK, HandKind, States, procVars, walkVars

LEMMA NextTyped == ContainersAssumption /\ Typed /\ [Next]_vars => Typed'
<1> SUFFICES ASSUME ContainersAssumption, Typed, [Next]_vars PROVE Typed'
  OBVIOUS
<1> USE DEF ContainersAssumption, Typed, TypeOK, HandKind, States, GatePhases,
            procVars, engineVars, walkVars
<1>1. ASSUME NEW p \in Procs, StartProc(p) PROVE Typed'
  BY <1>1 DEF StartProc
<1>2. ASSUME NEW p \in Procs, ExitProc(p) PROVE Typed'
  BY <1>2 DEF ExitProc
<1>3. ASSUME NEW p \in Procs, MakeNetwork(p) \/ StartContainer(p) PROVE Typed'
  BY <1>3, MakeTyped DEF MakeNetwork, StartContainer, OwnNets, Things
<1>4. ASSUME NEW p \in Procs, NEW t \in Things, Stop(p, t) PROVE Typed'
  BY <1>4 DEF Stop
<1>5. ASSUME NEW c \in Ctrs, FinishRemoval(c) PROVE Typed'
  BY <1>5 DEF FinishRemoval
<1>6. ASSUME NEW x \in Removers, ListContainers(x) PROVE Typed'
  BY <1>6 DEF ListContainers, Listed, Things
<1>7. ASSUME NEW x \in Removers, SkipOne(x) PROVE Typed'
  BY <1>7 DEF SkipOne, Drop
<1>8. ASSUME NEW x \in Removers, RemoveContainer(x) PROVE Typed'
  BY <1>8 DEF RemoveContainer, Drop
<1>9. ASSUME NEW x \in Removers, RemovalAnswered(x) PROVE Typed'
  <2>1. current[x] \in todo[x] /\ todo[x] \subseteq Things
    BY <1>9 DEF RemovalAnswered
  <2>. QED
    BY <1>9, <2>1 DEF RemovalAnswered, Drop
<1>10. ASSUME NEW x \in Removers, ListNetworks(x) PROVE Typed'
  BY <1>10 DEF ListNetworks, Listed, Things
<1>11. ASSUME NEW x \in Removers, RemoveNetwork(x) PROVE Typed'
  <2>1. PICK n \in todo[x] :
          /\ Drop(x, n)
          /\ \/ /\ failed' = [failed EXCEPT ![x] = TRUE]
                /\ UNCHANGED <<state, took>>
             \/ /\ state' = [state EXCEPT ![n] = "gone"]
                /\ took' = [took EXCEPT ![x] = @ \cup {n}]
                /\ UNCHANGED failed
    BY <1>11 DEF RemoveNetwork
  <2>2. n \in Things
    OBVIOUS
  <2>3. state' \in [Things -> States] /\ took' \in [Removers -> SUBSET Things]
        /\ failed' \in [Removers -> BOOLEAN]
    <3>1. CASE UNCHANGED <<state, took>> /\ failed' = [failed EXCEPT ![x] = TRUE]
      BY <3>1
    <3>2. CASE /\ state' = [state EXCEPT ![n] = "gone"]
               /\ took' = [took EXCEPT ![x] = @ \cup {n}]
               /\ UNCHANGED failed
      <4>1. took[x] \cup {n} \in SUBSET Things
        BY <2>2
      <4>. QED
        BY <3>2, <4>1
    <3>. QED
      BY <2>1, <3>1, <3>2
  <2>4. todo' \in [Removers -> SUBSET Things]
    BY <2>1 DEF Drop
  <2>5. /\ step[x] = "networks"
        /\ UNCHANGED <<alive, pid, owner, run, labelled, nets, step, current, phase,
                       watched, faults>>
    BY <1>11 DEF RemoveNetwork
  <2>. QED
    BY <2>1, <2>3, <2>4, <2>5 DEF Drop
<1>12. ASSUME NEW x \in Removers, RemovalFails(x) PROVE Typed'
  <2>1. faults' \in 0..MaxFaults
    BY <1>12 DEF RemovalFails
  <2>. QED
    BY <1>12, <2>1 DEF RemovalFails, Drop
<1>13. ASSUME NEW x \in Removers, BeginSweep(x) PROVE Typed'
  BY <1>13 DEF BeginSweep, BeginRemove
<1>14. ASSUME NEW x \in Sweepers, EndSweep(x) PROVE Typed'
  <2>1. faults' \in 0..MaxFaults
    BY <1>14 DEF EndSweep
  <2>. QED
    BY <1>14, <2>1 DEF EndSweep, StopWalk, Removers
<1>15. ASSUME NEW g \in Gates, Watch(g) PROVE Typed'
  <2>1. faults' \in 0..MaxFaults
    BY <1>15 DEF Watch, ListFails
  <2>2. watched' \subseteq Gates
    BY <1>15 DEF Watch
  <2>. QED
    BY <1>15, <2>1, <2>2 DEF Watch, StopWalk, Removers
<1>16. ASSUME NEW g \in Gates, SuiteExits(g) PROVE Typed'
  <2>1. CASE g \in watched
    <3>1. g \in Removers
      BY DEF Removers
    <3>2. /\ phase' = [phase EXCEPT ![g] = "check"]
          /\ step' = [step EXCEPT ![g] = "list"]
          /\ failed' = [failed EXCEPT ![g] = FALSE]
          /\ took' = [took EXCEPT ![g] = {}]
          /\ UNCHANGED <<alive, pid, engineVars, todo, current, watched, faults>>
      BY <1>16, <2>1 DEF SuiteExits, BeginRemove
    <3>. QED
      BY <3>1, <3>2
  <2>2. CASE g \notin watched
    BY <1>16, <2>2 DEF SuiteExits, Removers
  <2>. QED
    BY <2>1, <2>2
<1>17. ASSUME NEW g \in Gates, Verdict(g) PROVE Typed'
  <2>1. faults' \in 0..MaxFaults
    BY <1>17 DEF Verdict, ListFails
  <2>. QED
    BY <1>17, <2>1 DEF Verdict, StopWalk, Removers
<1>18. ASSUME NEW g \in Gates, KillGate(g) PROVE Typed'
  BY <1>18 DEF KillGate, StopWalk, Removers
<1>19. CASE UNCHANGED vars
  BY <1>19 DEF vars
<1>20. Sweepers \subseteq Removers /\ Gates \subseteq Removers
  BY DEF Removers
<1>. QED
  BY <1>1, <1>2, <1>3, <1>4, <1>5, <1>6, <1>7, <1>8, <1>9, <1>10, <1>11, <1>12,
     <1>13, <1>14, <1>15, <1>16, <1>17, <1>18, <1>19, <1>20
  DEF Next, Process, Gate, Walk

(* Every variable keeps its type, whatever the processes, the gates, the
   helpers and the engine do. *)
THEOREM Typing == Spec => []TypeOK
<1>1. Spec => []Typed
  BY InitTyped, NextTyped, ContainersAssumption, PTL DEF Spec
<1>2. Typed => TypeOK
  BY DEF Typed
<1>. QED
  BY <1>1, <1>2, PTL
-----------------------------------------------------------------------------
(* What the steps do to the engine *)

(* A step makes one thing, which was not there, or only ages what is there: no
   label or owner changes, and what changes goes further to its removal. *)
Aged(t) == state[t] \notin {"none", "gone"} /\ state'[t] \in {"removing", "gone"}
Ages ==
  /\ UNCHANGED <<owner, run, labelled>>
  /\ \A t \in Things : state'[t] = state[t] \/ Aged(t)
Makes == \E p \in Procs, t \in Things, with \in SUBSET Nets : Make(p, t, with)

LEMMA EngineSteps ==
  ASSUME ContainersAssumption, Typed, HandMade, [Next]_vars
  PROVE  Makes \/ Ages
<1> USE DEF ContainersAssumption, Typed, TypeOK, States, engineVars, Ages, Aged
<1>1. ASSUME NEW p \in Procs, MakeNetwork(p) \/ StartContainer(p) PROVE Makes
  BY <1>1 DEF Makes, MakeNetwork, StartContainer, OwnNets, Things
<1>2. ASSUME NEW p \in Procs, StartProc(p) \/ ExitProc(p) PROVE Ages
  BY <1>2 DEF StartProc, ExitProc
<1>3. ASSUME NEW p \in Procs, NEW t \in Things, Stop(p, t) PROVE Ages
  BY <1>3 DEF Stop
<1>4. ASSUME NEW c \in Ctrs, FinishRemoval(c) PROVE Ages
  BY <1>4 DEF FinishRemoval
<1>5. ASSUME NEW x \in Removers, RemoveContainer(x) PROVE Ages
  <2>1. \E c \in todo[x] :
          \/ state' = state
          \/ state[c] = "up" /\ state' = [state EXCEPT ![c] = "removing"]
    <3>1. PICK c \in todo[x] :
            \/ state[c] = "up" /\ state' = [state EXCEPT ![c] = "removing"]
            \/ UNCHANGED <<state, step, current>>
      BY <1>5, Zenon DEF RemoveContainer
    <3>. QED
      BY <3>1
  <2>2. UNCHANGED <<owner, run, labelled>>
    BY <1>5 DEF RemoveContainer
  <2>. QED
    BY <2>1, <2>2
<1>6. ASSUME NEW x \in Removers, RemoveNetwork(x) PROVE Ages
  <2>1. \E n \in todo[x] : state' = state \/ state' = [state EXCEPT ![n] = "gone"]
    BY <1>6 DEF RemoveNetwork
  <2>2. \A n \in todo[x] : n \in Things /\ state[n] # "none"
    BY DEF HandMade, InHand
  <2>3. UNCHANGED <<owner, run, labelled>>
    BY <1>6 DEF RemoveNetwork
  <2>. QED
    BY <2>1, <2>2, <2>3
<1>7. ASSUME NEW x \in Removers,
             ListContainers(x) \/ SkipOne(x) \/ RemovalAnswered(x) \/ ListNetworks(x) \/ RemovalFails(x)
      PROVE  Ages
  BY <1>7 DEF ListContainers, SkipOne, RemovalAnswered, ListNetworks, RemovalFails
<1>8. ASSUME NEW x \in Removers, BeginSweep(x) \/ EndSweep(x) PROVE Ages
  BY <1>8 DEF BeginSweep, EndSweep
<1>9. ASSUME NEW g \in Gates, Watch(g) \/ SuiteExits(g) \/ Verdict(g) \/ KillGate(g) PROVE Ages
  BY <1>9 DEF Watch, SuiteExits, Verdict, KillGate
<1>10. CASE UNCHANGED vars
  BY <1>10 DEF vars
<1>. QED
  BY <1>1, <1>2, <1>3, <1>4, <1>5, <1>6, <1>7, <1>8, <1>9, <1>10
  DEF Next, Process, Gate, Walk, Removers

-----------------------------------------------------------------------------
(* Labels and processes *)

Labels == MadeOnce /\ RunIsOwners /\ GateAlone

LEMMA LabelsStep ==
  ASSUME ContainersAssumption, Typed, HandMade, Labels, [Next]_vars
  PROVE  MadeOnce' /\ RunIsOwners'
<1> USE DEF ContainersAssumption, Typed, TypeOK, States, Labels, MadeOnce, RunIsOwners
<1>1. CASE Ages
  BY <1>1 DEF Ages, Aged
<1>2. CASE Makes
  <2>1. PICK p \in Procs, t \in Things, with \in SUBSET Nets : Make(p, t, with)
    BY <1>2 DEF Makes
  <2>2. RunOf(p) \in Gates => GateOf[p] = RunOf(p)
    BY DEF RunOf
  <2>3. /\ state' = [state EXCEPT ![t] = "up"]
        /\ owner' = [owner EXCEPT ![t] = p]
        /\ \/ labelled' = labelled \cup {t} /\ run' = [run EXCEPT ![t] = RunOf(p)]
           \/ UNCHANGED <<labelled, run>>
        /\ state[t] = "none"
    BY <2>1 DEF Make
  <2>4. MadeOnce'
    BY <2>3
  <2>5. RunIsOwners'
    BY <2>2, <2>3
  <2>. QED
    BY <2>4, <2>5
<1>. QED
  BY <1>1, <1>2, EngineSteps

LEMMA GateAloneStep ==
  ASSUME ContainersAssumption, Typed, GateAlone, [Next]_vars
  PROVE  GateAlone'
<1> USE DEF ContainersAssumption, Typed, TypeOK, GateAlone, ProcsOf, GatePhases
<1>1. ASSUME NEW p \in Procs, StartProc(p) PROVE GateAlone'
  BY <1>1 DEF StartProc
<1>2. ASSUME NEW p \in Procs, ExitProc(p) PROVE GateAlone'
  BY <1>2 DEF ExitProc
<1>3. ASSUME NEW p \in Procs, MakeNetwork(p) \/ StartContainer(p) \/ \E t \in Things : Stop(p, t)
      PROVE  GateAlone'
  BY <1>3 DEF MakeNetwork, StartContainer, Make, Stop, procVars
<1>4. ASSUME NEW x \in Removers, Walk(x) \/ RemovalFails(x) PROVE GateAlone'
  BY <1>4 DEF Walk, ListContainers, SkipOne, RemoveContainer, RemovalAnswered,
              ListNetworks, RemoveNetwork, RemovalFails, procVars
<1>5. ASSUME NEW x \in Removers, BeginSweep(x) \/ EndSweep(x) PROVE GateAlone'
  <2>1. \E ph \in {"sweep", "idle"} : phase' = [phase EXCEPT ![x] = ph]
    BY <1>5 DEF BeginSweep, EndSweep
  <2>2. alive' = alive
    BY <1>5 DEF BeginSweep, EndSweep, procVars
  <2>. QED
    BY <2>1, <2>2
<1>6. ASSUME NEW g \in Gates, Watch(g) \/ KillGate(g) PROVE GateAlone'
  <2>1. \E ph \in {"test", "killed"} : phase' = [phase EXCEPT ![g] = ph]
    BY <1>6 DEF Watch, KillGate
  <2>2. alive' = alive
    BY <1>6 DEF Watch, KillGate, procVars
  <2>. QED
    BY <2>1, <2>2
<1>7. ASSUME NEW g \in Gates, SuiteExits(g) PROVE GateAlone'
  <2>1. \A p \in ProcsOf(g) : alive[p] # "live"
    BY <1>7 DEF SuiteExits
  <2>2. \E ph \in GatePhases : phase' = [phase EXCEPT ![g] = ph]
    BY <1>7 DEF SuiteExits
  <2>3. alive' = alive
    BY <1>7 DEF SuiteExits, procVars
  <2>. QED
    BY <2>1, <2>2, <2>3
<1>8. ASSUME NEW g \in Gates, Verdict(g) PROVE GateAlone'
  <2>1. phase[g] = "check" /\ alive' = alive
    BY <1>8 DEF Verdict, procVars
  <2>2. \E ph \in GatePhases : phase' = [phase EXCEPT ![g] = ph]
    BY <1>8 DEF Verdict
  <2>. QED
    BY <2>1, <2>2
<1>9. ASSUME NEW c \in Ctrs, FinishRemoval(c) PROVE GateAlone'
  BY <1>9 DEF FinishRemoval, procVars
<1>10. CASE UNCHANGED vars
  BY <1>10 DEF vars, procVars
<1>. QED
  BY <1>1, <1>2, <1>3, <1>4, <1>5, <1>6, <1>7, <1>8, <1>9, <1>10
  DEF Next, Process, Gate, Removers

-----------------------------------------------------------------------------
(* What a walk has in hand *)

Hands == OffDuty /\ HandEmpty /\ HandMade /\ HandOwn

(* What was made stays made, under the label it was made with. *)
MadeStays ==
  \A t \in Things : state[t] # "none" => state'[t] # "none" /\ run'[t] = run[t]

LEMMA MadeStaysStep ==
  ASSUME ContainersAssumption, Typed, HandMade, [Next]_vars
  PROVE  MadeStays
<1> USE DEF Typed, TypeOK
<1>1. CASE Ages
  BY <1>1 DEF Ages, Aged, MadeStays
<1>2. CASE Makes
  BY <1>2 DEF Makes, Make, MadeStays
<1>. QED
  BY <1>1, <1>2, EngineSteps

LEMMA HandsStep ==
  ASSUME ContainersAssumption, Typed, Labels, Hands, [Next]_vars
  PROVE  Hands'
<1> USE DEF ContainersAssumption, Typed, TypeOK, HandKind, Hands, OffDuty, HandEmpty,
            HandMade, HandOwn, InHand, MadeStays, Removers
<1>0. MadeStays
  BY MadeStaysStep
<1>1. CASE UNCHANGED <<walkVars, phase>>
  BY <1>0, <1>1 DEF walkVars
<1>2. ASSUME NEW x \in Removers, ListContainers(x) PROVE Hands'
  BY <1>0, <1>2 DEF ListContainers, Listed, Carries, Things
<1>3. ASSUME NEW x \in Removers, SkipOne(x) PROVE Hands'
  BY <1>0, <1>3 DEF SkipOne, Drop
<1>4. ASSUME NEW x \in Removers, RemoveContainer(x) PROVE Hands'
  BY <1>0, <1>4 DEF RemoveContainer, Drop
<1>5. ASSUME NEW x \in Removers, RemovalAnswered(x) PROVE Hands'
  BY <1>0, <1>5 DEF RemovalAnswered, Drop
<1>6. ASSUME NEW x \in Removers, ListNetworks(x) PROVE Hands'
  BY <1>0, <1>6 DEF ListNetworks, Listed, Carries, Things
<1>7. ASSUME NEW x \in Removers, RemoveNetwork(x) PROVE Hands'
  BY <1>0, <1>7 DEF RemoveNetwork, Drop
<1>8. ASSUME NEW x \in Removers, RemovalFails(x) PROVE Hands'
  BY <1>0, <1>8 DEF RemovalFails, Drop
<1>9. ASSUME NEW x \in Removers, BeginSweep(x) PROVE Hands'
  BY <1>0, <1>9 DEF BeginSweep, BeginRemove
<1>10. ASSUME NEW x \in Sweepers, EndSweep(x) PROVE Hands'
  BY <1>0, <1>10 DEF EndSweep, StopWalk
<1>11. ASSUME NEW g \in Gates, Watch(g) PROVE Hands'
  BY <1>0, <1>11 DEF Watch, StopWalk
<1>12. ASSUME NEW g \in Gates, SuiteExits(g) PROVE Hands'
  BY <1>0, <1>12 DEF SuiteExits, BeginRemove, walkVars
<1>13. ASSUME NEW g \in Gates, Verdict(g) PROVE Hands'
  BY <1>0, <1>13 DEF Verdict, StopWalk
<1>14. ASSUME NEW g \in Gates, KillGate(g) PROVE Hands'
  BY <1>0, <1>14 DEF KillGate, StopWalk
<1>15. ASSUME NEW p \in Procs, Process(p) PROVE UNCHANGED <<walkVars, phase>>
  BY <1>15 DEF Process, StartProc, ExitProc, MakeNetwork, StartContainer, Make, Stop
<1>16. ASSUME NEW c \in Ctrs, FinishRemoval(c) PROVE UNCHANGED <<walkVars, phase>>
  BY <1>16 DEF FinishRemoval
<1>17. CASE UNCHANGED vars
  BY <1>1, <1>17 DEF vars
<1>. QED
  BY <1>1, <1>2, <1>3, <1>4, <1>5, <1>6, <1>7, <1>8, <1>9, <1>10,
     <1>11, <1>12, <1>13, <1>14, <1>15, <1>16, <1>17
  DEF Next, Gate, Walk

-----------------------------------------------------------------------------
(* What a check has walked over *)

Checked == CleanWalk /\ PassedClean

(* What carries a run's label, once the run is over, is only ever taken down:
   none of its processes is left to make more. *)
OwnShrinks(g) ==
  \A t \in Things : run'[t] = g =>
    run[t] = g /\ state[t] # "none" /\ (state[t] = "gone" => state'[t] = "gone")

LEMMA OwnShrinksStep ==
  ASSUME ContainersAssumption, Typed, Labels, HandMade, [Next]_vars,
         NEW g \in Gates, phase[g] \in {"check", "passed", "failed"}
  PROVE  OwnShrinks(g)
<1> USE DEF ContainersAssumption, Typed, TypeOK, Labels, MadeOnce
<1>1. CASE Ages
  BY <1>1 DEF Ages, Aged, OwnShrinks
<1>2. CASE Makes
  <2>1. PICK p \in Procs, t \in Things, with \in SUBSET Nets : Make(p, t, with)
    BY <1>2 DEF Makes
  <2>2. RunOf(p) # g
    BY <2>1 DEF Make, RunOf, GateAlone, ProcsOf
  <2>3. /\ state' = [state EXCEPT ![t] = "up"]
        /\ run' = run \/ run' = [run EXCEPT ![t] = RunOf(p)]
        /\ state[t] = "none"
    BY <2>1 DEF Make
  <2>. QED
    BY <2>2, <2>3 DEF OwnShrinks
<1>. QED
  BY <1>1, <1>2, EngineSteps

LEMMA CheckedStep ==
  ASSUME ContainersAssumption, Typed, Labels, Hands, Checked, [Next]_vars
  PROVE  Checked'
<1> USE DEF ContainersAssumption, Typed, TypeOK, HandKind, Checked, CleanWalk, PassedClean,
            OwnGone, OwnListed, OwnShrinks, Removers, Things
<1>0. \A g \in Gates : phase[g] \in {"check", "passed", "failed"} => OwnShrinks(g)
  BY OwnShrinksStep DEF Hands
<1>1. CASE UNCHANGED <<walkVars, phase, watched>>
  BY <1>0, <1>1 DEF walkVars
<1>2. ASSUME NEW x \in Removers, ListContainers(x) PROVE Checked'
  BY <1>0, <1>2 DEF ListContainers, Listed, Carries, Labels, MadeOnce, RunIsOwners, States
<1>3. ASSUME NEW x \in Removers, SkipOne(x) PROVE Checked'
  BY <1>0, <1>3 DEF SkipOne, Drop, Picks
<1>4. ASSUME NEW x \in Removers, RemoveContainer(x) PROVE Checked'
  <2>1. PICK c \in todo[x] :
          \/ /\ step' = [step EXCEPT ![x] = "await"]
             /\ UNCHANGED <<todo, took>>
          \/ /\ Drop(x, c)
             /\ took' = [took EXCEPT ![x] = @ \cup {c}]
             /\ UNCHANGED <<state, step, current>>
    BY <1>4, Zenon DEF RemoveContainer
  <2>2. step[x] = "containers" /\ UNCHANGED <<failed, phase, watched>>
    BY <1>4 DEF RemoveContainer
  <2>3. CASE step' = [step EXCEPT ![x] = "await"] /\ UNCHANGED <<todo, took>>
    BY <1>0, <2>2, <2>3
  <2>4. CASE /\ Drop(x, c)
             /\ took' = [took EXCEPT ![x] = @ \cup {c}]
             /\ UNCHANGED <<state, step, current>>
    <3>1. took'[x] # {}
      BY <2>4
    <3>2. \A g \in Gates : g # x => took'[g] = took[g] /\ todo'[g] = todo[g]
      BY <2>4 DEF Drop
    <3>3. CleanWalk'
      <4>1. SUFFICES ASSUME NEW g \in Gates,
                            (phase[g] = "check" /\ ~failed[g] /\ took[g] = {})'
                     PROVE  /\ (step[g] \in {"containers", "await"} => OwnListed(g, Ctrs))'
                            /\ (step[g] = "networks" => OwnGone(g, Ctrs) /\ OwnListed(g, Nets))'
        OBVIOUS
      <4>2. g # x /\ took'[g] = took[g] /\ todo'[g] = todo[g]
        BY <3>1, <3>2, <4>1
      <4>. QED
        BY <1>0, <2>2, <2>4, <4>1, <4>2
    <3>4. PassedClean'
      BY <1>0, <2>2, <2>4
    <3>. QED
      BY <3>3, <3>4
  <2>. QED
    BY <2>1, <2>3, <2>4
<1>5. ASSUME NEW x \in Removers, RemovalAnswered(x) PROVE Checked'
  BY <1>0, <1>5 DEF RemovalAnswered, Drop
<1>6. ASSUME NEW x \in Removers, ListNetworks(x) PROVE Checked'
  BY <1>0, <1>6 DEF ListNetworks, Listed, Carries, Labels, MadeOnce, RunIsOwners, States
<1>7. ASSUME NEW x \in Removers, RemoveNetwork(x) PROVE Checked'
  BY <1>0, <1>7 DEF RemoveNetwork, Drop
<1>8. ASSUME NEW x \in Removers, RemovalFails(x) PROVE Checked'
  BY <1>0, <1>8 DEF RemovalFails, Drop
<1>9. ASSUME NEW x \in Removers, BeginSweep(x) PROVE Checked'
  BY <1>0, <1>9 DEF BeginSweep, BeginRemove
<1>10. ASSUME NEW x \in Sweepers, EndSweep(x) PROVE Checked'
  BY <1>0, <1>10 DEF EndSweep, StopWalk
<1>11. ASSUME NEW g \in Gates, Watch(g) PROVE Checked'
  BY <1>0, <1>11 DEF Watch, StopWalk
<1>12. ASSUME NEW g \in Gates, SuiteExits(g) PROVE Checked'
  BY <1>0, <1>12 DEF SuiteExits, BeginRemove, walkVars
<1>13. ASSUME NEW g \in Gates, Verdict(g) PROVE Checked'
  BY <1>0, <1>13 DEF Verdict, StopWalk, Walked
<1>14. ASSUME NEW g \in Gates, KillGate(g) PROVE Checked'
  BY <1>0, <1>14 DEF KillGate, StopWalk
<1>15. ASSUME NEW p \in Procs, Process(p) PROVE UNCHANGED <<walkVars, phase, watched>>
  BY <1>15 DEF Process, StartProc, ExitProc, MakeNetwork, StartContainer, Make, Stop
<1>16. ASSUME NEW c \in Ctrs, FinishRemoval(c) PROVE UNCHANGED <<walkVars, phase, watched>>
  BY <1>16 DEF FinishRemoval
<1>17. CASE UNCHANGED vars
  BY <1>1, <1>17 DEF vars
<1>. QED
  BY <1>1, <1>2, <1>3, <1>4, <1>5, <1>6, <1>7, <1>8, <1>9, <1>10,
     <1>11, <1>12, <1>13, <1>14, <1>15, <1>16, <1>17
  DEF Next, Gate, Walk

-----------------------------------------------------------------------------
(* The theorems *)

WalkInv == Labels /\ Hands /\ Checked

LEMMA InitWalk == ContainersAssumption /\ Init => WalkInv
<1> SUFFICES ASSUME ContainersAssumption, Init PROVE WalkInv
  OBVIOUS
<1>1. Labels
  BY DEF ContainersAssumption, Init, Labels, MadeOnce, RunIsOwners, GateAlone, Removers
<1>2. Hands
  BY DEF Init, Hands, OffDuty, HandEmpty, HandMade, HandOwn, InHand
<1>3. Checked
  BY DEF Init, Checked, CleanWalk, PassedClean, Removers
<1>. QED
  BY <1>1, <1>2, <1>3 DEF WalkInv

LEMMA NextWalk ==
  ContainersAssumption /\ Typed /\ WalkInv /\ [Next]_vars => WalkInv'
<1> SUFFICES ASSUME ContainersAssumption, Typed, WalkInv, [Next]_vars PROVE WalkInv'
  OBVIOUS
<1>1. Labels /\ Hands /\ Checked /\ HandMade /\ GateAlone
  BY DEF WalkInv, Labels, Hands
<1>2. MadeOnce' /\ RunIsOwners'
  BY <1>1, LabelsStep
<1>3. GateAlone'
  BY <1>1, GateAloneStep
<1>4. Hands' /\ Checked'
  BY <1>1, HandsStep, CheckedStep
<1>. QED
  BY <1>2, <1>3, <1>4 DEF WalkInv, Labels

LEMMA Invariant == Spec => [](Typed /\ WalkInv)
  BY InitTyped, InitWalk, NextTyped, NextWalk, ContainersAssumption, PTL DEF Spec

(* A gate's check takes only what its own run's processes made: what it fails
   over is never another run's. *)
THEOREM Blame == Spec => []BlamesOnlyOwn
<1>1. Typed /\ WalkInv => BlamesOnlyOwn
  BY DEF Typed, TypeOK, WalkInv, Labels, Hands, RunIsOwners, HandOwn, InHand, BlamesOnlyOwn,
         Removers
<1>. QED
  BY <1>1, Invariant, PTL

(* A watched gate that has passed leaves nothing of its run's on the engine,
   whatever the engine failed on and whoever swept beside it. *)
THEOREM Pass == Spec => []PassLeavesNothing
<1>1. WalkInv => PassLeavesNothing
  BY DEF WalkInv, Checked, PassedClean, OwnGone, PassLeavesNothing
<1>. QED
  BY <1>1, Invariant, PTL

(* No remover takes the things of a live process: what a check has in hand is
   its own run's, and that has exited; a sweep asks for the pid first. *)
LEMMA LiveIsNotPicked ==
  ASSUME ContainersAssumption, Typed, WalkInv,
         NEW x \in Removers, NEW t \in todo[x], Picks(x, t)
  PROVE  alive[owner[t]] # "live"
<1> USE DEF ContainersAssumption, Typed, TypeOK, WalkInv, Labels, Hands
<1>1. t \in Things /\ owner[t] \in Procs
  BY DEF MadeOnce, HandMade, InHand
<1>2. CASE phase[x] = "check"
  <2>1. x \in Gates /\ run[t] = x
    BY <1>2 DEF HandOwn, InHand
  <2>2. GateOf[owner[t]] = x
    BY <1>1, <2>1 DEF RunIsOwners
  <2>. QED
    BY <1>1, <1>2, <2>1, <2>2 DEF GateAlone, ProcsOf
<1>3. CASE phase[x] # "check"
  BY <1>1, <1>3 DEF Picks, SeemsAlive, Alive
<1>. QED
  BY <1>2, <1>3

LEMMA LiveKeptStep ==
  ASSUME ContainersAssumption, Typed, WalkInv, [Next]_vars,
         NEW t \in Things, state[t] = "up", state'[t] # "up"
  PROVE  alive[owner[t]] # "live" \/ Stop(owner[t], t)
<1> USE DEF Typed, TypeOK
<1>1. ASSUME NEW x \in Removers, RemoveContainer(x) PROVE alive[owner[t]] # "live"
  <2>1. PICK c \in todo[x] :
          Picks(x, c) /\ (state' = state \/ state' = [state EXCEPT ![c] = "removing"])
    BY <1>1, Zenon DEF RemoveContainer
  <2>2. c = t
    BY <2>1
  <2>. QED
    BY <2>1, <2>2, LiveIsNotPicked
<1>2. ASSUME NEW x \in Removers, RemoveNetwork(x) PROVE alive[owner[t]] # "live"
  <2>1. PICK n \in todo[x] :
          Picks(x, n) /\ (state' = state \/ state' = [state EXCEPT ![n] = "gone"])
    BY <1>2, Zenon DEF RemoveNetwork
  <2>2. n = t
    BY <2>1
  <2>. QED
    BY <2>1, <2>2, LiveIsNotPicked
<1>3. ASSUME NEW p \in Procs, NEW s \in Things, Stop(p, s) PROVE Stop(owner[t], t)
  <2>1. s = t /\ owner[s] = p
    BY <1>3 DEF Stop
  <2>. QED
    BY <1>3, <2>1
<1>4. ASSUME NEW c \in Ctrs, FinishRemoval(c) PROVE FALSE
  BY <1>4 DEF FinishRemoval
<1>5. ASSUME NEW p \in Procs, MakeNetwork(p) \/ StartContainer(p) PROVE FALSE
  BY <1>5 DEF MakeNetwork, StartContainer, Make
<1>6. CASE UNCHANGED state
  BY <1>6
<1>7. ASSUME NEW p \in Procs, StartProc(p) \/ ExitProc(p) PROVE UNCHANGED state
  BY <1>7 DEF StartProc, ExitProc, engineVars
<1>8. ASSUME NEW x \in Removers,
             \/ ListContainers(x) \/ SkipOne(x) \/ RemovalAnswered(x)
             \/ ListNetworks(x) \/ RemovalFails(x) \/ BeginSweep(x) \/ EndSweep(x)
      PROVE  UNCHANGED state
  BY <1>8 DEF ListContainers, SkipOne, RemovalAnswered, ListNetworks, RemovalFails,
              BeginSweep, EndSweep, engineVars
<1>9. ASSUME NEW g \in Gates, Watch(g) \/ SuiteExits(g) \/ Verdict(g) \/ KillGate(g)
      PROVE  UNCHANGED state
  BY <1>9 DEF Watch, SuiteExits, Verdict, KillGate, engineVars
<1>10. CASE UNCHANGED vars
  BY <1>6, <1>10 DEF vars, engineVars
<1>. QED
  BY <1>1, <1>2, <1>3, <1>4, <1>5, <1>6, <1>7, <1>8, <1>9, <1>10
  DEF Next, Process, Gate, Walk, Removers

(* What a live process has up is taken down by that process alone: no sweep and
   no check of any gate, on any host, touches it, whatever pids were reused. *)
THEOREM LiveOwner == Spec => LiveOwnerKept
<1> DEFINE Kept ==
      \A t \in Things : state[t] = "up" /\ state'[t] # "up"
        => alive[owner[t]] # "live" \/ Stop(owner[t], t)
<1>1. ContainersAssumption /\ Typed /\ WalkInv /\ [Next]_vars => [Kept]_vars
  BY LiveKeptStep
<1>. QED
  BY <1>1, Invariant, ContainersAssumption, PTL DEF Spec, LiveOwnerKept
=============================================================================
