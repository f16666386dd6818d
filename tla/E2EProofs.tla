------------------------------- MODULE E2EProofs -------------------------------
(***************************************************************************)
(* Theorems about E2E, for every set of runs, of suites, of services and   *)
(* tools, of requests, and for every bound on the engine's faults.         *)
(*                                                                         *)
(* The types rest on what a run is asked for being a sequence of suites,   *)
(* which the loop of e2eItems builds one at a time: that is proved by      *)
(* least number, on the standard order of the naturals (Least).            *)
(***************************************************************************)
EXTENDS E2E, TLAPS, WellFoundedInduction

-----------------------------------------------------------------------------
(* What a run is asked for *)

(* A set of naturals that has a member has a least one. *)
LEMMA Least ==
  ASSUME NEW T \in SUBSET Nat, T # {}
  PROVE  \E x \in T : \A y \in T : x <= y
<1> DEFINE R == {p \in Nat \X Nat : p[1] < p[2]}
<1>1. IsWellFoundedOn(R, Nat)
  BY NatLessThanWellFounded DEF OpToRel
<1>2. PICK x \in T : \A y \in T : <<y, x>> \notin R
  BY <1>1, WFMin
<1>3. \A y \in T : ~(y < x)
  BY <1>2
<1>. QED
  BY <1>3

Took(q, i) == [suite |-> Suites[i], skip |-> E2ESkip(q.scope, Suites[i])]
Asked(q, s) == IF q.only = Nobody THEN q.on \in EventsOf[s] ELSE s = q.only

(* The items after one more suite, from those after each one before it. *)
OneMore(q, F, i) ==
  IF i = 0 THEN <<>>
  ELSE IF Asked(q, Suites[i]) THEN Append(F[i - 1], Took(q, i)) ELSE F[i - 1]

Takes(q, F, n) == F = [i \in 0..n |-> OneMore(q, F, i)]

(* The loop of e2eItems has a result over every prefix of the suites. *)
LEMMA TakenMade ==
  ASSUME NEW q
  PROVE  \A n \in Nat : \E F : Takes(q, F, n)
<1> DEFINE T == {n \in Nat : ~ \E F : Takes(q, F, n)}
<1>1. SUFFICES ASSUME T # {} PROVE FALSE
  OBVIOUS
<1>2. PICK n \in T : \A m \in T : n <= m
  BY <1>1, Least
<1>3. n # 0
  <2>1. Takes(q, [i \in 0..0 |-> <<>>], 0)
    BY DEF Takes, OneMore
  <2>. QED
    BY <2>1
<1>4. n - 1 \in Nat /\ n - 1 \notin T
  BY <1>2, <1>3
<1>5. PICK F : Takes(q, F, n - 1)
  BY <1>4
<1> DEFINE G == [i \in 0..n |-> IF i < n THEN F[i] ELSE OneMore(q, F, n)]
<1>6. \A i \in 0..n : G[i] = OneMore(q, G, i)
  <2>1. TAKE i \in 0..n
  <2>2. OneMore(q, G, i) = OneMore(q, F, i)
    <3>1. CASE i = 0
      BY <3>1 DEF OneMore
    <3>2. CASE i # 0
      <4>1. G[i - 1] = F[i - 1]
        BY <3>2, <1>3, <1>4
      <4>. QED
        BY <4>1 DEF OneMore
    <3>. QED
      BY <3>1, <3>2
  <2>3. CASE i < n
    <3>1. F[i] = OneMore(q, F, i)
      BY <1>5, <2>3, <1>3, <1>4 DEF Takes
    <3>. QED
      BY <3>1, <2>2, <2>3
  <2>4. CASE i = n
    BY <2>2, <2>4
  <2>. QED
    BY <2>3, <2>4, <1>4
<1>7. Takes(q, G, n)
  BY <1>6 DEF Takes
<1>. QED
  BY <1>7, <1>2

(* A run is asked for suites of the repository, in a sequence, each to be run
   or skipped (bar/e2e.go e2eItems). *)
LEMMA ItemsTyped ==
  ASSUME NEW q
  PROVE  E2EItems(q) \in Seq([suite : SuiteNames, skip : BOOLEAN])
<1> DEFINE Item1 == [suite : SuiteNames, skip : BOOLEAN]
           taken == CHOOSE F : Takes(q, F, Len(Suites))
<1>1. Len(Suites) \in Nat
  BY E2EAssumption
<1>2. Takes(q, taken, Len(Suites))
  BY <1>1, TakenMade
<1>3. E2EItems(q) = taken[Len(Suites)]
  BY DEF E2EItems, Takes, OneMore, Asked, Took
<1> HIDE DEF taken
<1>4. \A i \in 0..Len(Suites) : taken[i] \in Seq(Item1)
  <2> DEFINE T == {i \in 0..Len(Suites) : taken[i] \notin Seq(Item1)}
  <2>1. SUFFICES ASSUME T # {} PROVE FALSE
    OBVIOUS
  <2>2. PICK i \in T : \A j \in T : i <= j
    <3>1. T \in SUBSET Nat
      BY <1>1
    <3>. QED
      BY <3>1, <2>1, Least
  <2>2a. i \in 0..Len(Suites) /\ i \in Nat /\ taken[i] \notin Seq(Item1)
    BY <2>2, <1>1
  <2>3. taken[i] = OneMore(q, taken, i)
    BY <1>2, <2>2a DEF Takes
  <2>3b. <<>> \in Seq(Item1)
    OBVIOUS
  <2>4. i # 0
    BY <2>3, <2>2a, <2>3b DEF OneMore
  <2>4c. i - 1 \in 0..Len(Suites) /\ ~(i <= i - 1)
    BY <2>2a, <2>4, <1>1
  <2>5. i - 1 \in 0..Len(Suites) /\ i - 1 \notin T
    BY <2>2, <2>4c
  <2>6. taken[i - 1] \in Seq(Item1)
    BY <2>5
  <2>7. Took(q, i) \in Item1
    <3>1. Suites[i] \in SuiteNames
      BY <2>2a, <2>4, <1>1, E2EAssumption DEF SuiteNames
    <3>2. E2ESkip(q.scope, Suites[i]) \in BOOLEAN
      BY DEF E2ESkip
    <3>. QED
      BY <3>1, <3>2 DEF Took
  <2> HIDE DEF Item1
  <2>8. Append(taken[i - 1], Took(q, i)) \in Seq(Item1)
    BY <2>6, <2>7
  <2>. QED
    BY <2>2a, <2>3, <2>4, <2>6, <2>8 DEF OneMore
<1>5. Len(Suites) \in 0..Len(Suites)
  BY <1>1
<1>6. taken[Len(Suites)] \in Seq(Item1)
  BY <1>4, <1>5
<1>. QED
  BY <1>3, <1>6

-----------------------------------------------------------------------------
(* The invariant *)

Busy(r) == pc[r] \notin {"new", "next", "done", "dead"}

(* A run that has not begun has recorded nothing.  One at a suite has that
   suite still to record, and the suite is one that is not skipped; one at a
   service has one there. *)
AtSuite ==
  \A r \in Runs :
    /\ pc[r] = "new" => results[r] = <<>>
    /\ Busy(r) => Len(results[r]) < Len(items[r]) /\ ~Item(r).skip
    /\ k[r] >= 1
    /\ pc[r] \in {"launch", "inspect", "probe"} => k[r] <= Len(ServicesOf[Suite(r)])

Typed == TypeOK /\ AtSuite

(* The pid of a live process is its own. *)
Distinct == \A r, s \in Live : pid[r] = pid[s] => r = s

(* A suite has an error only at its stop, and is there without one because
   its process proved it. *)
Proven ==
  \A r \in Runs :
    /\ ~fine[r] => pc[r] = "stop"
    /\ pc[r] = "stop" /\ fine[r] => proved[r]

(* What Stop is to remove has the run's pid in its name; before the services
   and after the stop there is nothing. *)
StartedOwn ==
  \A r \in Runs :
    /\ r \in Live => \A i \in DOMAIN started[r] : started[r][i][3] = pid[r]
    /\ pc[r] \in {"new", "next", "done", "dead", "tools", "download", "verify"} =>
         started[r] = <<>>

(* The container that is probed is there, and is the run's. *)
Probing == \A r \in Runs : pc[r] = "probe" => box[Container(r)] = r

(* How the suites that are over are recorded. *)
Recorded ==
  \A r \in Runs :
    /\ \A i \in DOMAIN results[r] : results[r][i] = "skip" <=> items[r][i].skip
    /\ pc[r] = "done" => Len(results[r]) = Len(items[r])

(* No error has been met that a fault of the engine could hide behind. *)
Clean(r) ==
  \/ faults = 0
  \/ fine[r] /\ pc[r] # "inspect" /\ \A i \in DOMAIN results[r] : results[r][i] # "fail"

(* Then nothing is still to be made in the run's name, and Stop knows, or is
   about to ask for, every container that is the run's. *)
Kept ==
  \A r \in Runs : pc[r] # "dead" /\ Clean(r) =>
    \A n \in Names :
      /\ <<n, r>> \notin late
      /\ box[n] = r =>
           \/ n \in Elements(started[r])
           \/ pc[r] = "inspect" /\ n = Container(r)

RunInv ==
  /\ Distinct
  /\ Proven
  /\ StartedOwn
  /\ Probing
  /\ ServicesHold
  /\ Recorded
  /\ Kept
  /\ CacheIsVerified

-----------------------------------------------------------------------------
(* Types *)

(* The suite a run is at, and the container it is at, are of the
   configuration. *)
LEMMA SuiteIs ==
  ASSUME Typed, NEW r \in Runs, Busy(r)
  PROVE  /\ Item(r) \in [suite : SuiteNames, skip : BOOLEAN]
         /\ Suite(r) \in SuiteNames
         /\ ServicesOf[Suite(r)] \in Seq(Services)
         /\ ToolsOf[Suite(r)] \in Seq(RunnerTools \cup Fetched)
<1>1. /\ items[r] \in Seq([suite : SuiteNames, skip : BOOLEAN])
      /\ results[r] \in Seq({"skip", "pass", "fail"})
  BY DEF Typed, TypeOK
<1>2. Len(results[r]) < Len(items[r])
  BY DEF Typed, AtSuite
<1>3. Item(r) \in [suite : SuiteNames, skip : BOOLEAN]
  <2>1. Len(results[r]) + 1 \in 1..Len(items[r])
    BY <1>1, <1>2
  <2>2. ASSUME NEW I, NEW q \in Seq(I), NEW j \in 1..Len(q) PROVE q[j] \in I
    BY <2>2
  <2>. QED
    BY <1>1, <2>1, <2>2, Zenon DEF Item
<1>4. Suite(r) \in SuiteNames
  BY <1>3 DEF Suite
<1>. QED
  BY <1>3, <1>4, E2EAssumption

LEMMA ContainerIs ==
  ASSUME Typed, NEW r \in Runs, pc[r] \in {"launch", "inspect", "probe"}
  PROVE  /\ Container(r) \in Names
         /\ Container(r)[3] = pid[r]
<1>1. Busy(r)
  BY DEF Busy
<1>2. Suite(r) \in SuiteNames /\ ServicesOf[Suite(r)] \in Seq(Services)
  BY <1>1, SuiteIs
<1>3. k[r] \in 1..Len(ServicesOf[Suite(r)])
  BY <1>2 DEF Typed, TypeOK, AtSuite
<1>4. Service(r) \in Services
  BY <1>2, <1>3 DEF Service
<1>5. pid[r] \in Pids
  BY DEF Typed, TypeOK
<1>. QED
  BY <1>2, <1>4, <1>5 DEF Container, Name, Names

LEMMA ToolIs ==
  ASSUME Typed, NEW r \in Runs, Busy(r), k[r] <= Len(ToolsOf[Suite(r)])
  PROVE  Tool(r) \in RunnerTools \cup Fetched
<1>1. ToolsOf[Suite(r)] \in Seq(RunnerTools \cup Fetched)
  BY SuiteIs
<1>2. k[r] \in 1..Len(ToolsOf[Suite(r)])
  BY <1>1 DEF Typed, TypeOK, AtSuite
<1>. QED
  BY <1>1, <1>2 DEF Tool

LEMMA InitTyped == Init => Typed
<1> SUFFICES ASSUME Init PROVE Typed
  OBVIOUS
<1> USE E2EAssumption DEF Init
<1>1. TypeOK
  BY DEF TypeOK, Places, Bytes
<1>2. AtSuite
  BY DEF AtSuite, Busy
<1>. QED
  BY <1>1, <1>2 DEF Typed

(* Every step of a run keeps the types. *)
LEMMA RunTyped ==
  ASSUME Typed, NEW r \in Runs,
         Begin(r) \/ OwnStep(r) \/ EngineStep(r) \/ DownloadStep(r) \/ Interrupt(r) \/ Kill(r)
  PROVE  TypeOK'
<1> USE E2EAssumption DEF Typed, TypeOK
<1>2. CASE Begin(r)
  <2>1. PICK p \in Pids : pid' = [pid EXCEPT ![r] = p]
    BY <1>2, Zenon DEF Begin
  <2>2. PICK q \in Requests : items' = [items EXCEPT ![r] = E2EItems(q)]
    BY <1>2, Zenon DEF Begin
  <2>3. E2EItems(q) \in Seq([suite : SuiteNames, skip : BOOLEAN])
    BY ItemsTyped
  <2>4. pid' \in [Runs -> Pids] /\ items' \in [Runs -> Seq([suite : SuiteNames, skip : BOOLEAN])]
    BY <2>1, <2>2, <2>3
  <2>5. pc' \in [Runs -> Places] /\ results[r] = <<>> /\ UNCHANGED results
    BY <1>2 DEF Begin, Goto, Places, AtSuite
  <2>6. \A s \in Runs : Len(results'[s]) <= Len(items'[s])
    BY <2>2, <2>3, <2>5
  <2>. QED
    BY <1>2, <2>4, <2>5, <2>6 DEF Begin, suiteVars, toolVars, engineVars
<1>3. CASE SkipSuite(r)
  <2>1. results[r] \in Seq({"skip", "pass", "fail"}) /\ items[r] \in Seq([suite : SuiteNames, skip : BOOLEAN])
    OBVIOUS
  <2>2. /\ Append(results[r], "skip") \in Seq({"skip", "pass", "fail"})
        /\ Len(Append(results[r], "skip")) = Len(results[r]) + 1
    BY <2>1
  <2>3. results' = [results EXCEPT ![r] = Append(results[r], "skip")] /\ UNCHANGED items
    BY <1>3 DEF SkipSuite, Record
  <2>4. results' \in [Runs -> Seq({"skip", "pass", "fail"})]
    BY <2>2, <2>3
  <2>5. \A s \in Runs : Len(results'[s]) <= Len(items'[s])
    BY <1>3, <2>1, <2>2, <2>3 DEF SkipSuite, AnotherItem
  <2>. QED
    BY <1>3, <2>4, <2>5 DEF SkipSuite, suiteVars, toolVars, engineVars
<1>4. CASE BeginSuite(r)
  BY <1>4 DEF BeginSuite, AnotherItem, Goto, runVars, toolVars, engineVars, Places, Bytes
<1>5. CASE EndRun(r)
  BY <1>5 DEF EndRun, Goto, runVars, suiteVars, toolVars, engineVars, Places, Bytes
<1>6. CASE HasTool(r)
  <2>1. k' = [k EXCEPT ![r] = k[r] + 1] /\ pc' = [pc EXCEPT ![r] = "tools"]
    BY <1>6 DEF HasTool, NextTool, Goto
  <2>2. k' \in [Runs -> Nat] /\ pc' \in [Runs -> Places]
    BY <2>1 DEF Places
  <2>. QED
    BY <1>6, <2>2 DEF HasTool, runVars, toolVars, engineVars
<1>7. CASE LacksTool(r)
  BY <1>7 DEF LacksTool, AtTool, Fail, Goto, runVars, toolVars, engineVars, Places, Bytes
<1>8. CASE MissesTool(r)
  BY <1>8 DEF MissesTool, AtTool, Goto, runVars, suiteVars, engineVars, Places, Bytes
<1>9. CASE InstallTool(r)
  <2>1. k' = [k EXCEPT ![r] = k[r] + 1] /\ pc' = [pc EXCEPT ![r] = "tools"]
    BY <1>9 DEF InstallTool, NextTool, Goto
  <2>2. k' \in [Runs -> Nat] /\ pc' \in [Runs -> Places]
    BY <2>1 DEF Places
  <2>3. cache' = [cache EXCEPT ![Tool(r)] = "good"] /\ tmp' = [tmp EXCEPT ![r] = "none"]
    BY <1>9 DEF InstallTool
  <2>4. cache' \in [Fetched -> Bytes] /\ tmp' \in [Runs -> Bytes]
    BY <2>3 DEF Bytes
  <2>. QED
    BY <1>9, <2>2, <2>4 DEF InstallTool, runVars, engineVars
<1>10. CASE WrongChecksum(r)
  BY <1>10 DEF WrongChecksum, Fail, Goto, runVars, engineVars, Places, Bytes
<1>11. CASE ToolsReady(r)
  BY <1>11 DEF ToolsReady, Goto, runVars, toolVars, engineVars, Places, Bytes
<1>12. CASE NoEngine(r)
  BY <1>12 DEF NoEngine, Fail, Goto, runVars, toolVars, engineVars, Places, Bytes
<1>13. CASE ContainerStarts(r)
  <2>1. Container(r) \in Names
    BY <1>13, ContainerIs DEF ContainerStarts, AtLaunch
  <2>2. /\ box' = [box EXCEPT ![Container(r)] = r]
        /\ started' = [started EXCEPT ![r] = Append(started[r], Container(r))]
        /\ pc' = [pc EXCEPT ![r] = "probe"]
    BY <1>13 DEF ContainerStarts, Goto
  <2>3. pc' \in [Runs -> Places] /\ box' \in [Names -> Runs \cup {Nobody}]
    BY <2>2 DEF Places
  <2>4. Append(started[r], Container(r)) \in Seq(Names)
    BY <2>1
  <2>5. started' \in [Runs -> Seq(Names)]
    BY <2>2, <2>4
  <2>6. ready \subseteq {n \in Names : box'[n] # Nobody}
    BY <2>1, <2>2
  <2>. QED
    BY <1>13, <2>3, <2>5, <2>6 DEF ContainerStarts, runVars, toolVars
<1>14. CASE StartFails(r)
  <2>1. Container(r) \in Names
    BY <1>14, ContainerIs DEF StartFails, AtLaunch
  <2>2. box' \in {box, [box EXCEPT ![Container(r)] = r]}
    BY <1>14 DEF StartFails
  <2>3. box' \in [Names -> Runs \cup {Nobody}] /\ ready \subseteq {n \in Names : box'[n] # Nobody}
    BY <2>1, <2>2
  <2>4. pc' \in [Runs -> Places]
    BY <1>14 DEF StartFails, Goto, Places
  <2>. QED
    BY <1>14, <2>3, <2>4 DEF StartFails, runVars, suiteVars, toolVars
<1>15. CASE StartIsLost(r)
  <2>1. Container(r) \in Names
    BY <1>15, ContainerIs DEF StartIsLost, AtLaunch
  <2>2. late' \subseteq Names \X Runs
    BY <1>15, <2>1 DEF StartIsLost
  <2>3. faults' \in 0..MaxFaults
    BY <1>15 DEF StartIsLost, Fault
  <2>4. pc' \in [Runs -> Places]
    BY <1>15 DEF StartIsLost, Goto, Places
  <2>. QED
    BY <1>15, <2>2, <2>3, <2>4 DEF StartIsLost, runVars, suiteVars, toolVars
<1>16. CASE Inspect(r)
  <2>1. Container(r) \in Names
    BY <1>16, ContainerIs DEF Inspect
  <2>2. faults' \in 0..MaxFaults
    BY <1>16 DEF Inspect, Fault
  <2>3. Append(started[r], Container(r)) \in Seq(Names)
    BY <2>1
  <2>4. started' \in {started, [started EXCEPT ![r] = Append(started[r], Container(r))]}
    BY <1>16 DEF Inspect
  <2>5. started' \in [Runs -> Seq(Names)]
    BY <2>3, <2>4
  <2>6. pc' \in [Runs -> Places] /\ fine' \in [Runs -> BOOLEAN]
    BY <1>16 DEF Inspect, Fail, Goto, Places
  <2>. QED
    BY <1>16, <2>2, <2>5, <2>6 DEF Inspect, runVars, toolVars
<1>17. CASE ServiceAnswers(r)
  <2>1. Container(r) \in Names
    BY <1>17, ContainerIs DEF ServiceAnswers
  <2>2. ready' \subseteq {n \in Names : box[n] # Nobody} /\ UNCHANGED box
    BY <1>17, <2>1 DEF ServiceAnswers
  <2>3. k' = [k EXCEPT ![r] = k[r] + 1]
    BY <1>17 DEF ServiceAnswers
  <2>4. k' \in [Runs -> Nat]
    BY <2>3
  <2>5. pc' \in [Runs -> Places]
    BY <1>17 DEF ServiceAnswers, Goto, Places
  <2>. QED
    BY <1>17, <2>2, <2>4, <2>5 DEF ServiceAnswers, runVars, toolVars
<1>18. CASE ServiceFails(r)
  BY <1>18 DEF ServiceFails, Fail, Goto, runVars, toolVars, engineVars, Places, Bytes
<1>19. CASE StartTests(r)
  BY <1>19 DEF StartTests, Fail, Goto, runVars, toolVars, engineVars, Places, Bytes
<1>20. CASE TestsEnd(r)
  <2>1. PICK w \in Doings(r) :
          /\ proved' = [proved EXCEPT ![r] = Proves(Suite(r), w)]
          /\ fine' = [fine EXCEPT ![r] = Problems(Suite(r), w) = {}]
    BY <1>20, Zenon DEF TestsEnd
  <2>2. Proves(Suite(r), w) \in BOOLEAN /\ (Problems(Suite(r), w) = {}) \in BOOLEAN
    BY DEF Proves
  <2>3. proved' \in [Runs -> BOOLEAN] /\ fine' \in [Runs -> BOOLEAN]
    BY <2>1, <2>2
  <2>4. pc' \in [Runs -> Places]
    BY <1>20 DEF TestsEnd, Goto, Places
  <2>. QED
    BY <1>20, <2>3, <2>4 DEF TestsEnd, runVars, toolVars, engineVars
<1>21. CASE StopOne(r)
  <2>1. started[r] \in Seq(Names) /\ started[r] # <<>>
    BY <1>21 DEF StopOne, StopFirst
  <2>2. Tail(started[r]) \in Seq(Names) /\ Head(started[r]) \in Names
    BY <2>1
  <2>3. started' = [started EXCEPT ![r] = Tail(started[r])]
    BY <1>21 DEF StopOne, StopFirst
  <2>4. started' \in [Runs -> Seq(Names)]
    BY <2>2, <2>3
  <2>5. box' = [box EXCEPT ![Head(started[r])] = Nobody] /\ ready' = ready \ {Head(started[r])}
    BY <1>21 DEF StopOne
  <2>6. box' \in [Names -> Runs \cup {Nobody}] /\ ready' \subseteq {n \in Names : box'[n] # Nobody}
    BY <2>2, <2>5
  <2>. QED
    BY <1>21, <2>4, <2>6 DEF StopOne, runVars, toolVars
<1>22. CASE StopFails(r)
  <2>1. started[r] \in Seq(Names) /\ started[r] # <<>>
    BY <1>22 DEF StopFails, StopFirst
  <2>2. Tail(started[r]) \in Seq(Names)
    BY <2>1
  <2>3. started' = [started EXCEPT ![r] = Tail(started[r])]
    BY <1>22 DEF StopFails, StopFirst
  <2>4. started' \in [Runs -> Seq(Names)]
    BY <2>2, <2>3
  <2>5. faults' \in 0..MaxFaults
    BY <1>22 DEF StopFails, Fault
  <2>6. fine' \in [Runs -> BOOLEAN]
    BY <1>22 DEF StopFails
  <2>. QED
    BY <1>22, <2>4, <2>5, <2>6 DEF StopFails, runVars, toolVars
<1>23. CASE Conclude(r)
  <2>1. results[r] \in Seq({"skip", "pass", "fail"}) /\ items[r] \in Seq([suite : SuiteNames, skip : BOOLEAN])
    OBVIOUS
  <2>2. PICK v \in {"pass", "fail"} : results' = [results EXCEPT ![r] = Append(results[r], v)]
    BY <1>23 DEF Conclude, Record
  <2>3. /\ Append(results[r], v) \in Seq({"skip", "pass", "fail"})
        /\ Len(Append(results[r], v)) = Len(results[r]) + 1
    BY <2>1
  <2>4. results' \in [Runs -> Seq({"skip", "pass", "fail"})]
    BY <2>2, <2>3
  <2>5. Len(results[r]) < Len(items[r]) /\ UNCHANGED items
    BY <1>23 DEF Conclude, AtSuite, Busy
  <2>6. \A s \in Runs : Len(results'[s]) <= Len(items'[s])
    BY <2>1, <2>2, <2>3, <2>5
  <2>7. /\ pc' \in [Runs -> Places] /\ k' \in [Runs -> Nat]
        /\ fine' \in [Runs -> BOOLEAN] /\ proved' \in [Runs -> BOOLEAN]
    BY <1>23 DEF Conclude, Goto, Places
  <2>. QED
    BY <1>23, <2>4, <2>6, <2>7 DEF Conclude, toolVars, engineVars
<1>24. CASE Downloaded(r)
  <2>1. tmp' \in [Runs -> Bytes]
    BY <1>24 DEF Downloaded, Bytes
  <2>2. pc' \in [Runs -> Places]
    BY <1>24 DEF Downloaded, Goto, Places
  <2>. QED
    BY <1>24, <2>1, <2>2 DEF Downloaded, runVars, suiteVars, engineVars
<1>25. CASE DownloadFails(r)
  BY <1>25 DEF DownloadFails, Fail, Goto, runVars, engineVars, Places, Bytes
<1>26. CASE Interrupt(r)
  BY <1>26 DEF Interrupt, suiteVars, toolVars, engineVars, Places, Bytes
<1>27. CASE Kill(r)
  <2>1. pc[r] = "launch" => Container(r) \in Names
    BY ContainerIs
  <2>2. late' \subseteq Names \X Runs
    BY <1>27, <2>1 DEF Kill, AtLaunch
  <2>3. items' = [items EXCEPT ![r] = <<>>] /\ results' = [results EXCEPT ![r] = <<>>]
    BY <1>27 DEF Kill
  <2>4. /\ items' \in [Runs -> Seq([suite : SuiteNames, skip : BOOLEAN])]
        /\ results' \in [Runs -> Seq({"skip", "pass", "fail"})]
    <3>1. ASSUME NEW I, NEW f \in [Runs -> Seq(I)] PROVE [f EXCEPT ![r] = <<>>] \in [Runs -> Seq(I)]
      BY <3>1
    <3>. QED
      BY <2>3, <3>1, Zenon
  <2>5. \A s \in Runs : Len(results'[s]) <= Len(items'[s])
    <3>1. Len(<<>>) <= Len(<<>>)
      OBVIOUS
    <3>. QED
      BY <2>3, <3>1
  <2>6. started' = [started EXCEPT ![r] = <<>>]
    BY <1>27 DEF Kill
  <2>7. started' \in [Runs -> Seq(Names)]
    BY <2>6
  <2>8. /\ pc' \in [Runs -> Places] /\ k' \in [Runs -> Nat] /\ tmp' \in [Runs -> Bytes]
        /\ fine' \in [Runs -> BOOLEAN] /\ proved' \in [Runs -> BOOLEAN]
    BY <1>27 DEF Kill, Goto, Places, Bytes
  <2>. QED
    BY <1>27, <2>2, <2>4, <2>5, <2>7, <2>8 DEF Kill
<1>. QED
  BY <1>2, <1>3, <1>4, <1>5, <1>6, <1>7, <1>8, <1>9, <1>10, <1>11, <1>12, <1>13, <1>14,
     <1>15, <1>16, <1>17, <1>18, <1>19, <1>20, <1>21, <1>22, <1>23, <1>24, <1>25, <1>26,
     <1>27 DEF OwnStep, EngineStep, ToolStep, ServiceStep, DownloadStep

(* Every step of a run keeps it at a suite. *)
LEMMA RunAtSuite ==
  ASSUME Typed, NEW r \in Runs,
         Begin(r) \/ OwnStep(r) \/ EngineStep(r) \/ DownloadStep(r) \/ Interrupt(r) \/ Kill(r)
  PROVE  AtSuite'
<1> USE DEF Typed, AtSuite, Busy, Item, Suite, Goto
<1>2. CASE Begin(r)
  BY <1>2 DEF Begin, suiteVars, toolVars, engineVars, TypeOK
<1>3. CASE SkipSuite(r)
  BY <1>3 DEF SkipSuite, AnotherItem, Record, suiteVars, toolVars, engineVars, TypeOK
<1>4. CASE BeginSuite(r)
  BY <1>4 DEF BeginSuite, AnotherItem, runVars, toolVars, engineVars, TypeOK
<1>5. CASE EndRun(r)
  BY <1>5 DEF EndRun, runVars, suiteVars, toolVars, engineVars, TypeOK
<1>6. CASE HasTool(r)
  BY <1>6 DEF HasTool, AtTool, NextTool, runVars, toolVars, engineVars, TypeOK
<1>7. CASE LacksTool(r)
  BY <1>7 DEF LacksTool, AtTool, Fail, runVars, toolVars, engineVars, TypeOK
<1>8. CASE MissesTool(r)
  BY <1>8 DEF MissesTool, AtTool, runVars, suiteVars, engineVars, TypeOK
<1>9. CASE InstallTool(r)
  BY <1>9 DEF InstallTool, NextTool, runVars, engineVars, TypeOK
<1>10. CASE WrongChecksum(r)
  BY <1>10 DEF WrongChecksum, Fail, runVars, engineVars, TypeOK
<1>11. CASE ToolsReady(r)
  BY <1>11 DEF ToolsReady, runVars, toolVars, engineVars, TypeOK
<1>12. CASE NoEngine(r)
  BY <1>12 DEF NoEngine, Fail, runVars, toolVars, engineVars, TypeOK
<1>13. CASE ContainerStarts(r)
  BY <1>13 DEF ContainerStarts, AtLaunch, runVars, toolVars, TypeOK
<1>14. CASE StartFails(r)
  BY <1>14 DEF StartFails, AtLaunch, runVars, suiteVars, toolVars, TypeOK
<1>15. CASE StartIsLost(r)
  BY <1>15 DEF StartIsLost, AtLaunch, Fault, runVars, suiteVars, toolVars, TypeOK
<1>16. CASE Inspect(r)
  BY <1>16 DEF Inspect, Fault, Fail, runVars, toolVars, TypeOK
<1>17. CASE ServiceAnswers(r)
  BY <1>17 DEF ServiceAnswers, runVars, toolVars, TypeOK
<1>18. CASE ServiceFails(r)
  BY <1>18 DEF ServiceFails, Fail, runVars, toolVars, engineVars, TypeOK
<1>19. CASE StartTests(r)
  BY <1>19 DEF StartTests, Fail, runVars, toolVars, engineVars, TypeOK
<1>20. CASE TestsEnd(r)
  BY <1>20 DEF TestsEnd, runVars, toolVars, engineVars, TypeOK
<1>21. CASE StopOne(r)
  BY <1>21 DEF StopOne, StopFirst, runVars, toolVars, TypeOK
<1>22. CASE StopFails(r)
  BY <1>22 DEF StopFails, StopFirst, Fault, runVars, toolVars, TypeOK
<1>23. CASE Conclude(r)
  BY <1>23 DEF Conclude, Record, toolVars, engineVars, TypeOK
<1>24. CASE Downloaded(r)
  BY <1>24 DEF Downloaded, runVars, suiteVars, engineVars, TypeOK
<1>25. CASE DownloadFails(r)
  BY <1>25 DEF DownloadFails, Fail, runVars, engineVars, TypeOK
<1>26. CASE Interrupt(r)
  BY <1>26 DEF Interrupt, suiteVars, toolVars, engineVars, TypeOK
<1>27. CASE Kill(r)
  BY <1>27 DEF Kill, AtLaunch, TypeOK
<1>. QED
  BY <1>2, <1>3, <1>4, <1>5, <1>6, <1>7, <1>8, <1>9, <1>10, <1>11, <1>12, <1>13, <1>14,
     <1>15, <1>16, <1>17, <1>18, <1>19, <1>20, <1>21, <1>22, <1>23, <1>24, <1>25, <1>26,
     <1>27 DEF OwnStep, EngineStep, ToolStep, ServiceStep, DownloadStep

(* So does the engine, and what sweeps it. *)
LEMMA EngineTyped ==
  ASSUME Typed, MakeLate \/ Sweep
  PROVE  Typed'
<1>1. UNCHANGED <<pc, runVars, suiteVars, toolVars, faults>>
  BY DEF MakeLate, Sweep
<1>2. AtSuite'
  BY <1>1 DEF Typed, AtSuite, Busy, Item, Suite, runVars, suiteVars
<1>3. /\ box' \in [Names -> Runs \cup {Nobody}]
      /\ ready' \subseteq {n \in Names : box'[n] # Nobody}
      /\ late' \subseteq Names \X Runs
  <2>1. CASE MakeLate
    <3>1. PICK l \in late :
            /\ late' = late \ {l}
            /\ box' = IF box[l[1]] = Nobody THEN [box EXCEPT ![l[1]] = l[2]] ELSE box
            /\ UNCHANGED ready
      BY <2>1, Zenon DEF MakeLate
    <3>2. l[1] \in Names /\ l[2] \in Runs
      BY DEF Typed, TypeOK
    <3>3. l[2] # Nobody
      BY <3>2, E2EAssumption
    <3>. QED
      BY <3>1, <3>2, <3>3 DEF Typed, TypeOK
  <2>2. CASE Sweep
    BY <2>2 DEF Sweep, Typed, TypeOK
  <2>. QED
    BY <2>1, <2>2
<1>. QED
  BY <1>1, <1>2, <1>3 DEF Typed, TypeOK, runVars, suiteVars, toolVars

LEMMA StepTyped ==
  ASSUME Typed, [Next]_vars
  PROVE  Typed'
<1>1. CASE \E r \in Runs : Begin(r) \/ OwnStep(r) \/ EngineStep(r) \/ DownloadStep(r) \/ Interrupt(r) \/ Kill(r)
  <2>1. TypeOK' /\ AtSuite'
    BY <1>1, RunTyped, RunAtSuite
  <2>. QED
    BY <2>1 DEF Typed
<1>2. CASE MakeLate \/ Sweep
  BY <1>2, EngineTyped
<1>3. CASE UNCHANGED vars
  BY <1>3 DEF Typed, TypeOK, AtSuite, Busy, Item, Suite, vars, runVars, suiteVars,
              toolVars, engineVars
<1>. QED
  BY <1>1, <1>2, <1>3 DEF Next

LEMMA AlwaysTyped == Spec => []Typed
<1>. QED
  BY InitTyped, StepTyped, PTL DEF Spec

(* Every variable keeps its type; in particular no run records more suites
   than it was asked for, and none is recorded but by its outcome
   (run.go Run). *)
THEOREM Typing == Spec => []TypeOK
<1>1. Typed => TypeOK
  BY DEF Typed
<1>. QED
  BY <1>1, AlwaysTyped, PTL

LEMMA StepCache ==
  ASSUME Typed, CacheIsVerified, [Next]_vars
  PROVE  CacheIsVerified'
<1>1. \/ UNCHANGED cache
      \/ \E r \in Runs : cache' = [cache EXCEPT ![Tool(r)] = "good"]
  BY DEF Next, OwnStep, EngineStep, ToolStep, ServiceStep, DownloadStep, Begin, SkipSuite,
       BeginSuite, EndRun, HasTool, LacksTool, MissesTool, InstallTool, WrongChecksum, ToolsReady,
       NoEngine, ContainerStarts, StartFails, StartIsLost, Inspect, ServiceAnswers, ServiceFails,
       StartTests, TestsEnd, StopOne, StopFails, Conclude, Downloaded, DownloadFails, Interrupt,
       Kill, MakeLate, Sweep, vars, toolVars
<1>. QED
  BY <1>1 DEF CacheIsVerified, Typed, TypeOK

-----------------------------------------------------------------------------
(* Each part of the invariant *)

(* A run takes a pid no live process has. *)
LEMMA RunDistinct ==
  ASSUME Typed, Distinct, NEW r \in Runs,
         Begin(r) \/ OwnStep(r) \/ EngineStep(r) \/ DownloadStep(r) \/ Interrupt(r) \/ Kill(r)
  PROVE  Distinct'
<1> USE DEF Typed, TypeOK, Distinct, Live, Alive, Goto
<1>2. CASE Begin(r)
  BY <1>2 DEF Begin, suiteVars, toolVars, engineVars
<1>3. CASE SkipSuite(r)
  BY <1>3 DEF SkipSuite, AnotherItem, Record, suiteVars, toolVars, engineVars
<1>4. CASE BeginSuite(r)
  BY <1>4 DEF BeginSuite, AnotherItem, runVars, toolVars, engineVars
<1>5. CASE EndRun(r)
  BY <1>5 DEF EndRun, runVars, suiteVars, toolVars, engineVars
<1>6. CASE HasTool(r)
  BY <1>6 DEF HasTool, AtTool, NextTool, runVars, toolVars, engineVars
<1>7. CASE LacksTool(r)
  BY <1>7 DEF LacksTool, AtTool, Fail, runVars, toolVars, engineVars
<1>8. CASE MissesTool(r)
  BY <1>8 DEF MissesTool, AtTool, runVars, suiteVars, engineVars
<1>9. CASE InstallTool(r)
  BY <1>9 DEF InstallTool, NextTool, runVars, engineVars
<1>10. CASE WrongChecksum(r)
  BY <1>10 DEF WrongChecksum, Fail, runVars, engineVars
<1>11. CASE ToolsReady(r)
  BY <1>11 DEF ToolsReady, runVars, toolVars, engineVars
<1>12. CASE NoEngine(r)
  BY <1>12 DEF NoEngine, Fail, runVars, toolVars, engineVars
<1>13. CASE ContainerStarts(r)
  BY <1>13 DEF ContainerStarts, AtLaunch, runVars, toolVars
<1>14. CASE StartFails(r)
  BY <1>14 DEF StartFails, AtLaunch, runVars, suiteVars, toolVars
<1>15. CASE StartIsLost(r)
  BY <1>15 DEF StartIsLost, AtLaunch, Fault, runVars, suiteVars, toolVars
<1>16. CASE Inspect(r)
  BY <1>16 DEF Inspect, Fault, Fail, runVars, toolVars
<1>17. CASE ServiceAnswers(r)
  BY <1>17 DEF ServiceAnswers, runVars, toolVars
<1>18. CASE ServiceFails(r)
  BY <1>18 DEF ServiceFails, Fail, runVars, toolVars, engineVars
<1>19. CASE StartTests(r)
  BY <1>19 DEF StartTests, Fail, runVars, toolVars, engineVars
<1>20. CASE TestsEnd(r)
  BY <1>20 DEF TestsEnd, runVars, toolVars, engineVars
<1>21. CASE StopOne(r)
  BY <1>21 DEF StopOne, StopFirst, runVars, toolVars
<1>22. CASE StopFails(r)
  BY <1>22 DEF StopFails, StopFirst, Fault, runVars, toolVars
<1>23. CASE Conclude(r)
  BY <1>23 DEF Conclude, Record, toolVars, engineVars
<1>24. CASE Downloaded(r)
  BY <1>24 DEF Downloaded, runVars, suiteVars, engineVars
<1>25. CASE DownloadFails(r)
  BY <1>25 DEF DownloadFails, Fail, runVars, engineVars
<1>26. CASE Interrupt(r)
  BY <1>26 DEF Interrupt, suiteVars, toolVars, engineVars
<1>27. CASE Kill(r)
  BY <1>27 DEF Kill, AtLaunch
<1>. QED
  BY <1>2, <1>3, <1>4, <1>5, <1>6, <1>7, <1>8, <1>9, <1>10, <1>11, <1>12, <1>13, <1>14,
     <1>15, <1>16, <1>17, <1>18, <1>19, <1>20, <1>21, <1>22, <1>23, <1>24, <1>25, <1>26,
     <1>27 DEF OwnStep, EngineStep, ToolStep, ServiceStep, DownloadStep

(* A process over which no problem is reported proved its suite: without a
   failed test, an error or a deadline, without a skip that has no leave, and
   for Go tests with something that ran (stream.go verdict, run.go command). *)
LEMMA VerdictProves ==
  ASSUME NEW s, NEW w \in SUBSET Outcomes, Problems(s, w) = {}
  PROVE  Proves(s, w)
<1> USE DEF Problems, Proves
<1>1. "timeout" \notin w
  OBVIOUS
<1>2. "fail" \notin w
  BY <1>1
<1>3. "error" \notin w
  BY <1>1, <1>2
<1>4. "skip" \in w => s \in AllowSkip
  BY <1>1
<1>5. s \in TestSuites => w # {}
  BY <1>1
<1>. QED
  BY <1>1, <1>2, <1>3, <1>4, <1>5

(* No suite comes to its stop without an error but proved. *)
LEMMA RunProven ==
  ASSUME Typed, Proven, NEW r \in Runs,
         Begin(r) \/ OwnStep(r) \/ EngineStep(r) \/ DownloadStep(r) \/ Interrupt(r) \/ Kill(r)
  PROVE  Proven'
<1> USE DEF Typed, TypeOK, Proven, Goto
<1>2. CASE Begin(r)
  BY <1>2 DEF Begin, suiteVars, toolVars, engineVars
<1>3. CASE SkipSuite(r)
  BY <1>3 DEF SkipSuite, AnotherItem, Record, suiteVars, toolVars, engineVars
<1>4. CASE BeginSuite(r)
  BY <1>4 DEF BeginSuite, AnotherItem, runVars, toolVars, engineVars
<1>5. CASE EndRun(r)
  BY <1>5 DEF EndRun, runVars, suiteVars, toolVars, engineVars
<1>6. CASE HasTool(r)
  BY <1>6 DEF HasTool, AtTool, NextTool, runVars, toolVars, engineVars
<1>7. CASE LacksTool(r)
  BY <1>7 DEF LacksTool, AtTool, Fail, runVars, toolVars, engineVars
<1>8. CASE MissesTool(r)
  BY <1>8 DEF MissesTool, AtTool, runVars, suiteVars, engineVars
<1>9. CASE InstallTool(r)
  BY <1>9 DEF InstallTool, NextTool, runVars, engineVars
<1>10. CASE WrongChecksum(r)
  BY <1>10 DEF WrongChecksum, Fail, runVars, engineVars
<1>11. CASE ToolsReady(r)
  BY <1>11 DEF ToolsReady, runVars, toolVars, engineVars
<1>12. CASE NoEngine(r)
  BY <1>12 DEF NoEngine, Fail, runVars, toolVars, engineVars
<1>13. CASE ContainerStarts(r)
  BY <1>13 DEF ContainerStarts, AtLaunch, runVars, toolVars
<1>14. CASE StartFails(r)
  BY <1>14 DEF StartFails, AtLaunch, runVars, suiteVars, toolVars
<1>15. CASE StartIsLost(r)
  BY <1>15 DEF StartIsLost, AtLaunch, Fault, runVars, suiteVars, toolVars
<1>16. CASE Inspect(r)
  BY <1>16 DEF Inspect, Fault, Fail, runVars, toolVars
<1>17. CASE ServiceAnswers(r)
  BY <1>17 DEF ServiceAnswers, runVars, toolVars
<1>18. CASE ServiceFails(r)
  BY <1>18 DEF ServiceFails, Fail, runVars, toolVars, engineVars
<1>19. CASE StartTests(r)
  BY <1>19 DEF StartTests, Fail, runVars, toolVars, engineVars
<1>20. CASE TestsEnd(r)
  <2>1. PICK w \in Doings(r) :
          /\ proved' = [proved EXCEPT ![r] = Proves(Suite(r), w)]
          /\ fine' = [fine EXCEPT ![r] = Problems(Suite(r), w) = {}]
    BY <1>20, Zenon DEF TestsEnd
  <2>2. Problems(Suite(r), w) = {} => Proves(Suite(r), w)
    BY VerdictProves DEF Doings
  <2>3. pc'[r] = "stop" /\ (fine'[r] => proved'[r])
    BY <1>20, <2>1, <2>2 DEF TestsEnd
  <2>4. \A s \in Runs \ {r} : fine'[s] = fine[s] /\ proved'[s] = proved[s] /\ pc'[s] = pc[s]
    BY <1>20, <2>1 DEF TestsEnd
  <2>. QED
    BY <2>3, <2>4
<1>21. CASE StopOne(r)
  BY <1>21 DEF StopOne, StopFirst, runVars, toolVars
<1>22. CASE StopFails(r)
  BY <1>22 DEF StopFails, StopFirst, Fault, runVars, toolVars
<1>23. CASE Conclude(r)
  BY <1>23 DEF Conclude, Record, toolVars, engineVars
<1>24. CASE Downloaded(r)
  BY <1>24 DEF Downloaded, runVars, suiteVars, engineVars
<1>25. CASE DownloadFails(r)
  BY <1>25 DEF DownloadFails, Fail, runVars, engineVars
<1>26. CASE Interrupt(r)
  BY <1>26 DEF Interrupt, suiteVars, toolVars, engineVars
<1>27. CASE Kill(r)
  BY <1>27 DEF Kill, AtLaunch
<1>. QED
  BY <1>2, <1>3, <1>4, <1>5, <1>6, <1>7, <1>8, <1>9, <1>10, <1>11, <1>12, <1>13, <1>14,
     <1>15, <1>16, <1>17, <1>18, <1>19, <1>20, <1>21, <1>22, <1>23, <1>24, <1>25, <1>26,
     <1>27 DEF OwnStep, EngineStep, ToolStep, ServiceStep, DownloadStep

(* What a run starts has its pid in its name. *)
LEMMA RunStartedOwn ==
  ASSUME Typed, StartedOwn, NEW r \in Runs,
         Begin(r) \/ OwnStep(r) \/ EngineStep(r) \/ DownloadStep(r) \/ Interrupt(r) \/ Kill(r)
  PROVE  StartedOwn'
<1> USE DEF Typed, TypeOK, StartedOwn, Live, Goto
<1>2. CASE Begin(r)
  BY <1>2 DEF Begin, suiteVars, toolVars, engineVars
<1>3. CASE SkipSuite(r)
  BY <1>3 DEF SkipSuite, AnotherItem, Record, suiteVars, toolVars, engineVars
<1>4. CASE BeginSuite(r)
  BY <1>4 DEF BeginSuite, AnotherItem, runVars, toolVars, engineVars
<1>5. CASE EndRun(r)
  BY <1>5 DEF EndRun, runVars, suiteVars, toolVars, engineVars
<1>6. CASE HasTool(r)
  BY <1>6 DEF HasTool, AtTool, NextTool, runVars, toolVars, engineVars
<1>7. CASE LacksTool(r)
  BY <1>7 DEF LacksTool, AtTool, Fail, runVars, toolVars, engineVars
<1>8. CASE MissesTool(r)
  BY <1>8 DEF MissesTool, AtTool, runVars, suiteVars, engineVars
<1>9. CASE InstallTool(r)
  BY <1>9 DEF InstallTool, NextTool, runVars, engineVars
<1>10. CASE WrongChecksum(r)
  BY <1>10 DEF WrongChecksum, Fail, runVars, engineVars
<1>11. CASE ToolsReady(r)
  BY <1>11 DEF ToolsReady, runVars, toolVars, engineVars
<1>12. CASE NoEngine(r)
  BY <1>12 DEF NoEngine, Fail, runVars, toolVars, engineVars
<1>13. CASE ContainerStarts(r)
  <2>1. Container(r)[3] = pid[r]
    BY <1>13, ContainerIs DEF ContainerStarts, AtLaunch
  <2>2. started' = [started EXCEPT ![r] = Append(started[r], Container(r))]
    BY <1>13 DEF ContainerStarts
  <2>3. \A i \in DOMAIN started'[r] : started'[r][i][3] = pid[r]
    BY <1>13, <2>1, <2>2 DEF ContainerStarts, AtLaunch
  <2>4. \A s \in Runs \ {r} : started'[s] = started[s]
    BY <2>2
  <2>. QED
    BY <1>13, <2>3, <2>4 DEF ContainerStarts, AtLaunch, runVars
<1>14. CASE StartFails(r)
  BY <1>14 DEF StartFails, AtLaunch, runVars, suiteVars, toolVars
<1>15. CASE StartIsLost(r)
  BY <1>15 DEF StartIsLost, AtLaunch, Fault, runVars, suiteVars, toolVars
<1>16. CASE Inspect(r)
  <2>1. Container(r)[3] = pid[r]
    BY <1>16, ContainerIs DEF Inspect
  <2>2. started' \in {started, [started EXCEPT ![r] = Append(started[r], Container(r))]}
    BY <1>16 DEF Inspect
  <2>3. \A i \in DOMAIN started'[r] : started'[r][i][3] = pid[r]
    <3>1. \A i \in DOMAIN started[r] : started[r][i][3] = pid[r]
      BY <1>16 DEF Inspect
    <3>2. CASE started' = started
      BY <3>1, <3>2
    <3>3. CASE started' = [started EXCEPT ![r] = Append(started[r], Container(r))]
      BY <3>1, <3>3, <2>1
    <3>. QED
      BY <2>2, <3>2, <3>3
  <2>4. \A s \in Runs \ {r} : started'[s] = started[s]
    BY <2>2
  <2>. QED
    BY <1>16, <2>3, <2>4 DEF Inspect, Fail, runVars
<1>17. CASE ServiceAnswers(r)
  BY <1>17 DEF ServiceAnswers, runVars, toolVars
<1>18. CASE ServiceFails(r)
  BY <1>18 DEF ServiceFails, Fail, runVars, toolVars, engineVars
<1>19. CASE StartTests(r)
  BY <1>19 DEF StartTests, Fail, runVars, toolVars, engineVars
<1>20. CASE TestsEnd(r)
  BY <1>20 DEF TestsEnd, runVars, toolVars, engineVars
<1>21. CASE StopOne(r)
  <2>1. started[r] \in Seq(Names) /\ started[r] # <<>>
    BY <1>21 DEF StopOne, StopFirst
  <2>2. \A i \in DOMAIN Tail(started[r]) : Tail(started[r])[i] = started[r][i + 1] /\ i + 1 \in DOMAIN started[r]
    BY <2>1
  <2>3. started' = [started EXCEPT ![r] = Tail(started[r])]
    BY <1>21 DEF StopOne, StopFirst
  <2>4. \A i \in DOMAIN started'[r] : started'[r][i][3] = pid[r]
    BY <1>21, <2>2, <2>3 DEF StopOne, StopFirst
  <2>. QED
    BY <1>21, <2>3, <2>4 DEF StopOne, StopFirst, runVars
<1>22. CASE StopFails(r)
  <2>1. started[r] \in Seq(Names) /\ started[r] # <<>>
    BY <1>22 DEF StopFails, StopFirst
  <2>2. \A i \in DOMAIN Tail(started[r]) : Tail(started[r])[i] = started[r][i + 1] /\ i + 1 \in DOMAIN started[r]
    BY <2>1
  <2>3. started' = [started EXCEPT ![r] = Tail(started[r])]
    BY <1>22 DEF StopFails, StopFirst
  <2>4. \A i \in DOMAIN started'[r] : started'[r][i][3] = pid[r]
    BY <1>22, <2>2, <2>3 DEF StopFails, StopFirst
  <2>. QED
    BY <1>22, <2>3, <2>4 DEF StopFails, StopFirst, runVars
<1>23. CASE Conclude(r)
  BY <1>23 DEF Conclude, Record, toolVars, engineVars
<1>24. CASE Downloaded(r)
  BY <1>24 DEF Downloaded, runVars, suiteVars, engineVars
<1>25. CASE DownloadFails(r)
  BY <1>25 DEF DownloadFails, Fail, runVars, engineVars
<1>26. CASE Interrupt(r)
  BY <1>26 DEF Interrupt, suiteVars, toolVars, engineVars
<1>27. CASE Kill(r)
  BY <1>27 DEF Kill, AtLaunch
<1>. QED
  BY <1>2, <1>3, <1>4, <1>5, <1>6, <1>7, <1>8, <1>9, <1>10, <1>11, <1>12, <1>13, <1>14,
     <1>15, <1>16, <1>17, <1>18, <1>19, <1>20, <1>21, <1>22, <1>23, <1>24, <1>25, <1>26,
     <1>27 DEF OwnStep, EngineStep, ToolStep, ServiceStep, DownloadStep

(* A suite is recorded as skipped just when it is to be. *)
LEMMA RunRecorded ==
  ASSUME Typed, Recorded, NEW r \in Runs,
         Begin(r) \/ OwnStep(r) \/ EngineStep(r) \/ DownloadStep(r) \/ Interrupt(r) \/ Kill(r)
  PROVE  Recorded'
<1> USE DEF Typed, TypeOK, Recorded, Goto
<1>2. CASE Begin(r)
  <2>1. results[r] = <<>> /\ UNCHANGED results
    BY <1>2 DEF Begin, AtSuite
  <2>2. \A s \in Runs \ {r} : items'[s] = items[s]
    BY <1>2 DEF Begin
  <2>. QED
    BY <1>2, <2>1, <2>2 DEF Begin
<1>3. CASE SkipSuite(r)
  <2>1. results[r] \in Seq({"skip", "pass", "fail"}) /\ items[r] \in Seq([suite : SuiteNames, skip : BOOLEAN])
    OBVIOUS
  <2>2. results' = [results EXCEPT ![r] = Append(results[r], "skip")] /\ UNCHANGED <<items, pc>>
    BY <1>3 DEF SkipSuite, Record
  <2>3. items[r][Len(results[r]) + 1].skip
    BY <1>3 DEF SkipSuite, Item
  <2>4. \A i \in DOMAIN results'[r] : results'[r][i] = "skip" <=> items'[r][i].skip
    BY <2>1, <2>2, <2>3
  <2>. QED
    BY <1>3, <2>2, <2>4 DEF SkipSuite, AnotherItem
<1>4. CASE BeginSuite(r)
  BY <1>4 DEF BeginSuite, AnotherItem, runVars, toolVars, engineVars
<1>5. CASE EndRun(r)
  BY <1>5 DEF EndRun, runVars, suiteVars, toolVars, engineVars
<1>6. CASE HasTool(r)
  BY <1>6 DEF HasTool, AtTool, NextTool, runVars, toolVars, engineVars
<1>7. CASE LacksTool(r)
  BY <1>7 DEF LacksTool, AtTool, Fail, runVars, toolVars, engineVars
<1>8. CASE MissesTool(r)
  BY <1>8 DEF MissesTool, AtTool, runVars, suiteVars, engineVars
<1>9. CASE InstallTool(r)
  BY <1>9 DEF InstallTool, NextTool, runVars, engineVars
<1>10. CASE WrongChecksum(r)
  BY <1>10 DEF WrongChecksum, Fail, runVars, engineVars
<1>11. CASE ToolsReady(r)
  BY <1>11 DEF ToolsReady, runVars, toolVars, engineVars
<1>12. CASE NoEngine(r)
  BY <1>12 DEF NoEngine, Fail, runVars, toolVars, engineVars
<1>13. CASE ContainerStarts(r)
  BY <1>13 DEF ContainerStarts, AtLaunch, runVars, toolVars
<1>14. CASE StartFails(r)
  BY <1>14 DEF StartFails, AtLaunch, runVars, suiteVars, toolVars
<1>15. CASE StartIsLost(r)
  BY <1>15 DEF StartIsLost, AtLaunch, Fault, runVars, suiteVars, toolVars
<1>16. CASE Inspect(r)
  BY <1>16 DEF Inspect, Fault, Fail, runVars, toolVars
<1>17. CASE ServiceAnswers(r)
  BY <1>17 DEF ServiceAnswers, runVars, toolVars
<1>18. CASE ServiceFails(r)
  BY <1>18 DEF ServiceFails, Fail, runVars, toolVars, engineVars
<1>19. CASE StartTests(r)
  BY <1>19 DEF StartTests, Fail, runVars, toolVars, engineVars
<1>20. CASE TestsEnd(r)
  BY <1>20 DEF TestsEnd, runVars, toolVars, engineVars
<1>21. CASE StopOne(r)
  BY <1>21 DEF StopOne, StopFirst, runVars, toolVars
<1>22. CASE StopFails(r)
  BY <1>22 DEF StopFails, StopFirst, Fault, runVars, toolVars
<1>23. CASE Conclude(r)
  <2>1. results[r] \in Seq({"skip", "pass", "fail"}) /\ items[r] \in Seq([suite : SuiteNames, skip : BOOLEAN])
    OBVIOUS
  <2>2. PICK v \in {"pass", "fail"} : results' = [results EXCEPT ![r] = Append(results[r], v)]
    BY <1>23 DEF Conclude, Record
  <2>3. ~ items[r][Len(results[r]) + 1].skip
    BY <1>23 DEF Conclude, AtSuite, Busy, Item
  <2>4. \A i \in DOMAIN results'[r] : results'[r][i] = "skip" <=> items[r][i].skip
    BY <2>1, <2>2, <2>3
  <2>. QED
    BY <1>23, <2>2, <2>4 DEF Conclude
<1>24. CASE Downloaded(r)
  BY <1>24 DEF Downloaded, runVars, suiteVars, engineVars
<1>25. CASE DownloadFails(r)
  BY <1>25 DEF DownloadFails, Fail, runVars, engineVars
<1>26. CASE Interrupt(r)
  BY <1>26 DEF Interrupt, suiteVars, toolVars, engineVars
<1>27. CASE Kill(r)
  BY <1>27 DEF Kill, AtLaunch
<1>. QED
  BY <1>2, <1>3, <1>4, <1>5, <1>6, <1>7, <1>8, <1>9, <1>10, <1>11, <1>12, <1>13, <1>14,
     <1>15, <1>16, <1>17, <1>18, <1>19, <1>20, <1>21, <1>22, <1>23, <1>24, <1>25, <1>26,
     <1>27 DEF OwnStep, EngineStep, ToolStep, ServiceStep, DownloadStep

(* A step of a run leaves every other run as it is. *)
LEMMA OthersStay ==
  ASSUME Typed, NEW r \in Runs,
         Begin(r) \/ OwnStep(r) \/ EngineStep(r) \/ DownloadStep(r) \/ Interrupt(r) \/ Kill(r),
         NEW s \in Runs \ {r}
  PROVE  /\ pc'[s] = pc[s] /\ pid'[s] = pid[s]
         /\ items'[s] = items[s] /\ results'[s] = results[s]
         /\ k'[s] = k[s] /\ fine'[s] = fine[s] /\ started'[s] = started[s]
<1> USE DEF Typed, TypeOK, Goto
<1>2. CASE Begin(r)
  BY <1>2 DEF Begin, suiteVars, toolVars, engineVars
<1>3. CASE SkipSuite(r)
  BY <1>3 DEF SkipSuite, AnotherItem, Record, suiteVars, toolVars, engineVars
<1>4. CASE BeginSuite(r)
  BY <1>4 DEF BeginSuite, AnotherItem, runVars, toolVars, engineVars
<1>5. CASE EndRun(r)
  BY <1>5 DEF EndRun, runVars, suiteVars, toolVars, engineVars
<1>6. CASE HasTool(r)
  BY <1>6 DEF HasTool, AtTool, NextTool, runVars, toolVars, engineVars
<1>7. CASE LacksTool(r)
  BY <1>7 DEF LacksTool, AtTool, Fail, runVars, toolVars, engineVars
<1>8. CASE MissesTool(r)
  BY <1>8 DEF MissesTool, AtTool, runVars, suiteVars, engineVars
<1>9. CASE InstallTool(r)
  BY <1>9 DEF InstallTool, NextTool, runVars, engineVars
<1>10. CASE WrongChecksum(r)
  BY <1>10 DEF WrongChecksum, Fail, runVars, engineVars
<1>11. CASE ToolsReady(r)
  BY <1>11 DEF ToolsReady, runVars, toolVars, engineVars
<1>12. CASE NoEngine(r)
  BY <1>12 DEF NoEngine, Fail, runVars, toolVars, engineVars
<1>13. CASE ContainerStarts(r)
  BY <1>13 DEF ContainerStarts, AtLaunch, runVars, toolVars
<1>14. CASE StartFails(r)
  BY <1>14 DEF StartFails, AtLaunch, runVars, suiteVars, toolVars
<1>15. CASE StartIsLost(r)
  BY <1>15 DEF StartIsLost, AtLaunch, Fault, runVars, suiteVars, toolVars
<1>16. CASE Inspect(r)
  BY <1>16 DEF Inspect, Fault, Fail, runVars, toolVars
<1>17. CASE ServiceAnswers(r)
  BY <1>17 DEF ServiceAnswers, runVars, toolVars
<1>18. CASE ServiceFails(r)
  BY <1>18 DEF ServiceFails, Fail, runVars, toolVars, engineVars
<1>19. CASE StartTests(r)
  BY <1>19 DEF StartTests, Fail, runVars, toolVars, engineVars
<1>20. CASE TestsEnd(r)
  BY <1>20 DEF TestsEnd, runVars, toolVars, engineVars
<1>21. CASE StopOne(r)
  BY <1>21 DEF StopOne, StopFirst, runVars, toolVars
<1>22. CASE StopFails(r)
  BY <1>22 DEF StopFails, StopFirst, Fault, runVars, toolVars
<1>23. CASE Conclude(r)
  BY <1>23 DEF Conclude, Record, toolVars, engineVars
<1>24. CASE Downloaded(r)
  BY <1>24 DEF Downloaded, runVars, suiteVars, engineVars
<1>25. CASE DownloadFails(r)
  BY <1>25 DEF DownloadFails, Fail, runVars, engineVars
<1>26. CASE Interrupt(r)
  BY <1>26 DEF Interrupt, suiteVars, toolVars, engineVars
<1>27. CASE Kill(r)
  BY <1>27 DEF Kill, AtLaunch
<1>. QED
  BY <1>2, <1>3, <1>4, <1>5, <1>6, <1>7, <1>8, <1>9, <1>10, <1>11, <1>12, <1>13, <1>14,
     <1>15, <1>16, <1>17, <1>18, <1>19, <1>20, <1>21, <1>22, <1>23, <1>24, <1>25, <1>26,
     <1>27 DEF OwnStep, EngineStep, ToolStep, ServiceStep, DownloadStep

(* A step of the engine, or of a sweep, leaves every run as it is. *)
LEMMA RunsStay ==
  ASSUME MakeLate \/ Sweep \/ UNCHANGED vars
  PROVE  /\ pc' = pc /\ pid' = pid /\ items' = items /\ results' = results
         /\ k' = k /\ fine' = fine /\ started' = started
<1>. QED
  BY DEF MakeLate, Sweep, vars, runVars, suiteVars

(* A container a live run has under its own name stays there, and stays ready
   if it was, but for the run's own stop: no name of another live run has the
   same pid, what is made takes a free name, and a sweep spares a live pid. *)
LEMMA HoldsOn ==
  ASSUME Typed, Distinct, StartedOwn, [Next]_vars,
         NEW s \in Live, NEW n \in Names, n[3] = pid[s], box[n] = s, ~StopOne(s)
  PROVE  box'[n] = s /\ (n \in ready => n \in ready')
<1>0. s \in Runs /\ s # Nobody
  BY E2EAssumption DEF Live
<1>1. CASE \E r \in Runs : Begin(r) \/ OwnStep(r) \/ EngineStep(r) \/ DownloadStep(r) \/ Interrupt(r) \/ Kill(r)
  <2>1. PICK r \in Runs : Begin(r) \/ OwnStep(r) \/ EngineStep(r) \/ DownloadStep(r) \/ Interrupt(r) \/ Kill(r)
    BY <1>1
  <2>2. CASE StopOne(r)
    <3>1. r \in Live /\ r # s
      BY <2>2 DEF StopOne, StopFirst, Live
    <3>2. started[r] \in Seq(Names) /\ started[r] # <<>>
      BY <2>2 DEF StopOne, StopFirst, Typed, TypeOK
    <3>3. Head(started[r])[3] = pid[r]
      BY <3>1, <3>2 DEF StartedOwn
    <3>4. Head(started[r]) # n
      BY <3>1, <3>3 DEF Distinct
    <3>5. Head(started[r]) \in Names
      BY <3>2
    <3>. QED
      BY <2>2, <3>4, <3>5 DEF StopOne, Typed, TypeOK
  <2>3. CASE ~StopOne(r)
    <3>1. /\ ready \subseteq ready'
          /\ \/ UNCHANGED box
             \/ box[Container(r)] = Nobody /\ box' = [box EXCEPT ![Container(r)] = r]
      BY <2>1, <2>3 DEF OwnStep, EngineStep, ToolStep, ServiceStep, DownloadStep, Begin,
         SkipSuite, BeginSuite, EndRun, HasTool, LacksTool, MissesTool, InstallTool,
         WrongChecksum, ToolsReady, NoEngine, ContainerStarts, StartFails, StartIsLost,
         Inspect, ServiceAnswers, ServiceFails, StartTests, TestsEnd, StopFails, Conclude,
         Downloaded, DownloadFails, Interrupt, Kill, engineVars
    <3>2. box[Container(r)] = Nobody => Container(r) # n
      BY <1>0
    <3>. QED
      BY <3>1, <3>2 DEF Typed, TypeOK
  <2>. QED
    BY <2>2, <2>3
<1>2. CASE MakeLate
  <2>1. PICK l \in late :
          /\ box' = IF box[l[1]] = Nobody THEN [box EXCEPT ![l[1]] = l[2]] ELSE box
          /\ UNCHANGED ready
    BY <1>2, Zenon DEF MakeLate
  <2>. QED
    BY <1>0, <2>1 DEF Typed, TypeOK
<1>3. CASE Sweep
  <2>1. PICK m \in Names :
          /\ ~Alive(m[3])
          /\ box' = [box EXCEPT ![m] = Nobody]
          /\ ready' = ready \ {m}
    BY <1>3, Zenon DEF Sweep
  <2>2. m # n
    BY <2>1 DEF Alive
  <2>. QED
    BY <2>1, <2>2 DEF Typed, TypeOK
<1>4. CASE UNCHANGED vars
  BY <1>4 DEF vars, engineVars
<1>. QED
  BY <1>1, <1>2, <1>3, <1>4 DEF Next

(* A probe is of a container just started, and found as it was. *)
LEMMA RunProbes ==
  ASSUME Typed, NEW r \in Runs,
         Begin(r) \/ OwnStep(r) \/ EngineStep(r) \/ DownloadStep(r) \/ Interrupt(r) \/ Kill(r)
  PROVE  pc'[r] = "probe" =>
           \/ box'[Container(r)'] = r
           \/ /\ pc[r] = "probe" /\ Container(r)' = Container(r) /\ ~StopOne(r)
<1> USE DEF Typed, TypeOK, Goto, Container, Service, Name, Suite, Item, StopOne, StopFirst
<1>2. CASE Begin(r)
  BY <1>2 DEF Begin, suiteVars, toolVars, engineVars
<1>3. CASE SkipSuite(r)
  BY <1>3 DEF SkipSuite, AnotherItem, Record, suiteVars, toolVars, engineVars
<1>4. CASE BeginSuite(r)
  BY <1>4 DEF BeginSuite, AnotherItem, runVars, toolVars, engineVars
<1>5. CASE EndRun(r)
  BY <1>5 DEF EndRun, runVars, suiteVars, toolVars, engineVars
<1>6. CASE HasTool(r)
  BY <1>6 DEF HasTool, AtTool, NextTool, runVars, toolVars, engineVars
<1>7. CASE LacksTool(r)
  BY <1>7 DEF LacksTool, AtTool, Fail, runVars, toolVars, engineVars
<1>8. CASE MissesTool(r)
  BY <1>8 DEF MissesTool, AtTool, runVars, suiteVars, engineVars
<1>9. CASE InstallTool(r)
  BY <1>9 DEF InstallTool, NextTool, runVars, engineVars
<1>10. CASE WrongChecksum(r)
  BY <1>10 DEF WrongChecksum, Fail, runVars, engineVars
<1>11. CASE ToolsReady(r)
  BY <1>11 DEF ToolsReady, runVars, toolVars, engineVars
<1>12. CASE NoEngine(r)
  BY <1>12 DEF NoEngine, Fail, runVars, toolVars, engineVars
<1>13. CASE ContainerStarts(r)
  <2>1. Container(r) \in Names
    BY <1>13, ContainerIs DEF ContainerStarts, AtLaunch
  <2>. QED
    BY <1>13, <2>1 DEF ContainerStarts, Container, Service, Name, Suite, Item, runVars
<1>14. CASE StartFails(r)
  BY <1>14 DEF StartFails, AtLaunch, runVars, suiteVars, toolVars
<1>15. CASE StartIsLost(r)
  BY <1>15 DEF StartIsLost, AtLaunch, Fault, runVars, suiteVars, toolVars
<1>16. CASE Inspect(r)
  BY <1>16 DEF Inspect, Fault, Fail, runVars, toolVars
<1>17. CASE ServiceAnswers(r)
  BY <1>17 DEF ServiceAnswers, runVars, toolVars
<1>18. CASE ServiceFails(r)
  BY <1>18 DEF ServiceFails, Fail, runVars, toolVars, engineVars
<1>19. CASE StartTests(r)
  BY <1>19 DEF StartTests, Fail, runVars, toolVars, engineVars
<1>20. CASE TestsEnd(r)
  BY <1>20 DEF TestsEnd, runVars, toolVars, engineVars
<1>21. CASE StopOne(r)
  BY <1>21 DEF runVars, toolVars
<1>22. CASE StopFails(r)
  BY <1>22 DEF StopFails, StopFirst, Fault, runVars, toolVars
<1>23. CASE Conclude(r)
  BY <1>23 DEF Conclude, Record, toolVars, engineVars
<1>24. CASE Downloaded(r)
  BY <1>24 DEF Downloaded, runVars, suiteVars, engineVars
<1>25. CASE DownloadFails(r)
  BY <1>25 DEF DownloadFails, Fail, runVars, engineVars
<1>26. CASE Interrupt(r)
  BY <1>26 DEF Interrupt, suiteVars, toolVars, engineVars
<1>27. CASE Kill(r)
  BY <1>27 DEF Kill, AtLaunch
<1>. QED
  BY <1>2, <1>3, <1>4, <1>5, <1>6, <1>7, <1>8, <1>9, <1>10, <1>11, <1>12, <1>13, <1>14,
     <1>15, <1>16, <1>17, <1>18, <1>19, <1>20, <1>21, <1>22, <1>23, <1>24, <1>25, <1>26,
     <1>27 DEF OwnStep, EngineStep, ToolStep, ServiceStep, DownloadStep

LEMMA StepProbes ==
  ASSUME Typed, Distinct, StartedOwn, Probing, [Next]_vars
  PROVE  Probing'
<1> SUFFICES ASSUME NEW s \in Runs, pc'[s] = "probe" PROVE box'[Container(s)'] = s
  BY DEF Probing
<1>1. ASSUME pc[s] = "probe", Container(s)' = Container(s), ~StopOne(s) PROVE box'[Container(s)'] = s
  <2>1. Container(s) \in Names /\ Container(s)[3] = pid[s]
    BY <1>1, ContainerIs
  <2>2. box[Container(s)] = s /\ s \in Live
    BY <1>1 DEF Probing, Live
  <2>. QED
    BY <1>1, <2>1, <2>2, HoldsOn
<1>2. ASSUME pc[s] = pc'[s], pid'[s] = pid[s], items'[s] = items[s], results'[s] = results[s], k'[s] = k[s]
      PROVE  box'[Container(s)'] = s
  <2>1. Container(s)' = Container(s)
    BY <1>2 DEF Container, Service, Name, Suite, Item
  <2>. QED
    BY <1>1, <1>2, <2>1 DEF StopOne, StopFirst
<1>3. CASE \E r \in Runs : Begin(r) \/ OwnStep(r) \/ EngineStep(r) \/ DownloadStep(r) \/ Interrupt(r) \/ Kill(r)
  <2>1. PICK r \in Runs : Begin(r) \/ OwnStep(r) \/ EngineStep(r) \/ DownloadStep(r) \/ Interrupt(r) \/ Kill(r)
    BY <1>3
  <2>2. CASE r = s
    BY <1>1, <2>1, <2>2, RunProbes
  <2>3. CASE r # s
    BY <1>2, <2>1, <2>3, OthersStay
  <2>. QED
    BY <2>2, <2>3
<1>4. CASE MakeLate \/ Sweep \/ UNCHANGED vars
  BY <1>2, <1>4, RunsStay
<1>. QED
  BY <1>3, <1>4 DEF Next

Serving == {"launch", "inspect", "probe", "start", "testing"}

LEMMA AnsweredIs ==
  ASSUME Typed, NEW r \in Runs, pc[r] \in Serving, NEW n \in Answered(r)
  PROVE  n \in Names /\ n[3] = pid[r]
<1>1. Busy(r)
  BY DEF Busy, Serving
<1>2. Suite(r) \in SuiteNames /\ ServicesOf[Suite(r)] \in Seq(Services)
  BY <1>1, SuiteIs
<1>3. pid[r] \in Pids /\ k[r] \in Nat
  BY DEF Typed, TypeOK
<1>4. k[r] <= Len(ServicesOf[Suite(r)]) \/ pc[r] \in {"start", "testing"}
  BY DEF Typed, AtSuite, Serving
<1>5. PICK i \in 1..Len(ServicesOf[Suite(r)]) : n = Name(r, Suite(r), ServicesOf[Suite(r)][i])
  BY <1>2, <1>3, <1>4 DEF Answered
<1>6. ServicesOf[Suite(r)][i] \in Services
  BY <1>2
<1>. QED
  BY <1>2, <1>3, <1>5, <1>6 DEF Name, Names

(* A run at the services of a suite, or at the suite itself, came there by the last
   tool, by an answer of the service it probed, or was there. *)
LEMMA RunServes ==
  ASSUME Typed, NEW r \in Runs,
         Begin(r) \/ OwnStep(r) \/ EngineStep(r) \/ DownloadStep(r) \/ Interrupt(r) \/ Kill(r)
  PROVE  pc'[r] \in Serving =>
           \/ pc[r] \in Serving /\ Answered(r)' = Answered(r) /\ ~StopOne(r)
           \/ ToolsReady(r)
           \/ ServiceAnswers(r)
<1> USE DEF Typed, TypeOK, Goto, Serving, Answered, Name, Suite, Item, StopOne, StopFirst
<1>2. CASE Begin(r)
  BY <1>2 DEF Begin, suiteVars, toolVars, engineVars
<1>3. CASE SkipSuite(r)
  BY <1>3 DEF SkipSuite, AnotherItem, Record, suiteVars, toolVars, engineVars
<1>4. CASE BeginSuite(r)
  BY <1>4 DEF BeginSuite, AnotherItem, runVars, toolVars, engineVars
<1>5. CASE EndRun(r)
  BY <1>5 DEF EndRun, runVars, suiteVars, toolVars, engineVars
<1>6. CASE HasTool(r)
  BY <1>6 DEF HasTool, AtTool, NextTool, runVars, toolVars, engineVars
<1>7. CASE LacksTool(r)
  BY <1>7 DEF LacksTool, AtTool, Fail, runVars, toolVars, engineVars
<1>8. CASE MissesTool(r)
  BY <1>8 DEF MissesTool, AtTool, runVars, suiteVars, engineVars
<1>9. CASE InstallTool(r)
  BY <1>9 DEF InstallTool, NextTool, runVars, engineVars
<1>10. CASE WrongChecksum(r)
  BY <1>10 DEF WrongChecksum, Fail, runVars, engineVars
<1>11. CASE ToolsReady(r)
  BY <1>11 DEF ToolsReady, runVars, toolVars, engineVars
<1>12. CASE NoEngine(r)
  BY <1>12 DEF NoEngine, Fail, runVars, toolVars, engineVars
<1>13. CASE ContainerStarts(r)
  BY <1>13 DEF ContainerStarts, AtLaunch, runVars, toolVars
<1>14. CASE StartFails(r)
  BY <1>14 DEF StartFails, AtLaunch, runVars, suiteVars, toolVars
<1>15. CASE StartIsLost(r)
  BY <1>15 DEF StartIsLost, AtLaunch, Fault, runVars, suiteVars, toolVars
<1>16. CASE Inspect(r)
  BY <1>16 DEF Inspect, Fault, Fail, runVars, toolVars
<1>17. CASE ServiceAnswers(r)
  BY <1>17 DEF ServiceAnswers, runVars, toolVars
<1>18. CASE ServiceFails(r)
  BY <1>18 DEF ServiceFails, Fail, runVars, toolVars, engineVars
<1>19. CASE StartTests(r)
  BY <1>19 DEF StartTests, Fail, runVars, toolVars, engineVars
<1>20. CASE TestsEnd(r)
  BY <1>20 DEF TestsEnd, runVars, toolVars, engineVars
<1>21. CASE StopOne(r)
  BY <1>21 DEF runVars, toolVars
<1>22. CASE StopFails(r)
  BY <1>22 DEF StopFails, StopFirst, Fault, runVars, toolVars
<1>23. CASE Conclude(r)
  BY <1>23 DEF Conclude, Record, toolVars, engineVars
<1>24. CASE Downloaded(r)
  BY <1>24 DEF Downloaded, runVars, suiteVars, engineVars
<1>25. CASE DownloadFails(r)
  BY <1>25 DEF DownloadFails, Fail, runVars, engineVars
<1>26. CASE Interrupt(r)
  BY <1>26 DEF Interrupt, suiteVars, toolVars, engineVars
<1>27. CASE Kill(r)
  BY <1>27 DEF Kill, AtLaunch
<1>. QED
  BY <1>2, <1>3, <1>4, <1>5, <1>6, <1>7, <1>8, <1>9, <1>10, <1>11, <1>12, <1>13, <1>14,
     <1>15, <1>16, <1>17, <1>18, <1>19, <1>20, <1>21, <1>22, <1>23, <1>24, <1>25, <1>26,
     <1>27 DEF OwnStep, EngineStep, ToolStep, ServiceStep, DownloadStep

LEMMA StepServes ==
  ASSUME Typed, Distinct, StartedOwn, Probing, ServicesHold, [Next]_vars
  PROVE  ServicesHold'
<1> SUFFICES ASSUME NEW s \in Runs, pc'[s] \in Serving, NEW n \in Answered(s)'
             PROVE  box'[n] = s /\ n \in ready'
  BY DEF ServicesHold, Serving
<1>1. ASSUME pc[s] \in Serving, n \in Answered(s), ~StopOne(s) PROVE box'[n] = s /\ n \in ready'
  <2>1. n \in Names /\ n[3] = pid[s]
    BY <1>1, AnsweredIs
  <2>2. box[n] = s /\ n \in ready /\ s \in Live
    BY <1>1 DEF ServicesHold, Serving, Live
  <2>. QED
    BY <1>1, <2>1, <2>2, HoldsOn
<1>2. ASSUME pc[s] = pc'[s], pid'[s] = pid[s], items'[s] = items[s], results'[s] = results[s], k'[s] = k[s]
      PROVE  box'[n] = s /\ n \in ready'
  <2>1. Answered(s)' = Answered(s)
    BY <1>2 DEF Answered, Name, Suite, Item
  <2>. QED
    BY <1>1, <1>2, <2>1 DEF StopOne, StopFirst, Serving
<1>3. CASE ToolsReady(s)
  <2>1. k'[s] = 1 /\ pc'[s] = IF ServicesOf[Suite(s)] = <<>> THEN "start" ELSE "launch"
    BY <1>3 DEF ToolsReady, Goto, Typed, TypeOK
  <2>2. Suite(s)' = Suite(s)
    BY <1>3 DEF ToolsReady, runVars, Suite, Item
  <2>3. pc'[s] = "start" => Len(ServicesOf[Suite(s)]) = 0
    BY <2>1
  <2>. QED
    BY <2>1, <2>2, <2>3 DEF Answered
<1>4. CASE ServiceAnswers(s)
  <2>1. /\ k'[s] = k[s] + 1 /\ k[s] \in Nat /\ pid'[s] = pid[s]
        /\ pc'[s] = IF k[s] = Len(ServicesOf[Suite(s)]) THEN "start" ELSE "launch"
        /\ ready' = ready \cup {Container(s)} /\ box' = box
        /\ pc[s] = "probe"
    BY <1>4 DEF ServiceAnswers, Goto, Typed, TypeOK, runVars
  <2>2. Suite(s)' = Suite(s)
    BY <1>4 DEF ServiceAnswers, runVars, Suite, Item
  <2>3. PICK i \in 1..k[s] : n = Name(s, Suite(s), ServicesOf[Suite(s)][i])
    BY <2>1, <2>2 DEF Answered, Name
  <2>4. CASE i = k[s]
    <3>1. n = Container(s)
      BY <2>3, <2>4 DEF Container, Service
    <3>. QED
      BY <2>1, <3>1 DEF Probing
  <2>5. CASE i # k[s]
    <3>1. i \in 1..(k[s] - 1)
      BY <2>1, <2>5
    <3>2. n \in Answered(s)
      BY <2>1, <2>3, <3>1 DEF Answered
    <3>. QED
      BY <1>1, <2>1, <3>2 DEF Serving, StopOne, StopFirst
  <2>. QED
    BY <2>4, <2>5
<1>5. CASE \E r \in Runs : Begin(r) \/ OwnStep(r) \/ EngineStep(r) \/ DownloadStep(r) \/ Interrupt(r) \/ Kill(r)
  <2>1. PICK r \in Runs : Begin(r) \/ OwnStep(r) \/ EngineStep(r) \/ DownloadStep(r) \/ Interrupt(r) \/ Kill(r)
    BY <1>5
  <2>2. CASE r = s
    BY <1>1, <1>3, <1>4, <2>1, <2>2, RunServes
  <2>3. CASE r # s
    BY <1>2, <2>1, <2>3, OthersStay
  <2>. QED
    BY <2>2, <2>3
<1>6. CASE MakeLate \/ Sweep \/ UNCHANGED vars
  BY <1>2, <1>6, RunsStay
<1>. QED
  BY <1>5, <1>6 DEF Next

LEMMA ElementsAppend ==
  ASSUME NEW S, NEW q \in Seq(S), NEW e \in S
  PROVE  Elements(Append(q, e)) = Elements(q) \cup {e}
<1>1. /\ DOMAIN Append(q, e) = 1..(Len(q) + 1) /\ DOMAIN q = 1..Len(q) /\ Len(q) \in Nat
      /\ \A i \in 1..(Len(q) + 1) : Append(q, e)[i] = IF i = Len(q) + 1 THEN e ELSE q[i]
  OBVIOUS
<1>2. \A i \in 1..Len(q) : i \in 1..(Len(q) + 1) /\ i # Len(q) + 1
  BY <1>1
<1>3. Len(q) + 1 \in 1..(Len(q) + 1)
  BY <1>1
<1>4. \A i \in 1..(Len(q) + 1) : i # Len(q) + 1 => i \in 1..Len(q)
  BY <1>1
<1>. QED
  BY <1>1, <1>2, <1>3, <1>4 DEF Elements

LEMMA ElementsTail ==
  ASSUME NEW S, NEW q \in Seq(S), q # <<>>
  PROVE  /\ Elements(q) \subseteq Elements(Tail(q)) \cup {Head(q)}
         /\ Head(q) \in S
<1>1. /\ Tail(q) \in Seq(S) /\ DOMAIN Tail(q) = 1..(Len(q) - 1) /\ DOMAIN q = 1..Len(q) /\ Len(q) \in Nat
      /\ \A i \in 1..(Len(q) - 1) : Tail(q)[i] = q[i + 1]
      /\ Head(q) = q[1] /\ Head(q) \in S
  OBVIOUS
<1>2. \A i \in 1..Len(q) : i # 1 => i - 1 \in 1..(Len(q) - 1) /\ Tail(q)[i - 1] = q[i]
  BY <1>1
<1>3. ASSUME NEW i \in 1..Len(q) PROVE q[i] \in Elements(Tail(q)) \cup {Head(q)}
  <2>1. CASE i = 1
    BY <1>1, <2>1
  <2>2. CASE i # 1
    BY <1>1, <1>2, <2>2 DEF Elements
  <2>. QED
    BY <2>1, <2>2
<1>. QED
  BY <1>1, <1>3 DEF Elements

(* What a run makes, Stop knows, or the run is about to ask for. *)
LEMMA RunKept ==
  ASSUME Typed, StartedOwn, Proven, Kept, NEW r \in Runs,
         Begin(r) \/ OwnStep(r) \/ EngineStep(r) \/ DownloadStep(r) \/ Interrupt(r) \/ Kill(r)
  PROVE  pc'[r] # "dead" /\ Clean(r)' =>
           \A n \in Names :
             /\ <<n, r>> \notin late'
             /\ box'[n] = r =>
                  \/ n \in Elements(started'[r])
                  \/ pc'[r] = "inspect" /\ n = Container(r)'
<1> SUFFICES ASSUME pc'[r] # "dead", Clean(r)'
             PROVE  \A n \in Names :
                      /\ <<n, r>> \notin late'
                      /\ box'[n] = r =>
                           \/ n \in Elements(started'[r])
                           \/ pc'[r] = "inspect" /\ n = Container(r)'
  OBVIOUS
<1> USE DEF Typed, TypeOK, Goto, Clean
<1>1. pc[r] # "dead" /\ Clean(r) =>
        \A n \in Names : /\ <<n, r>> \notin late
                         /\ box[n] = r =>
                              \/ n \in Elements(started[r])
                              \/ pc[r] = "inspect" /\ n = Container(r)
  BY DEF Kept
<1>2. CASE Begin(r)
  BY <1>1, <1>2 DEF Begin, suiteVars, toolVars, engineVars
<1>3. CASE SkipSuite(r)
  <2>1. results[r] \in Seq({"skip", "pass", "fail"}) /\ results'[r] = Append(results[r], "skip")
    BY <1>3 DEF SkipSuite, Record
  <2>2. \A i \in DOMAIN results[r] : i \in DOMAIN results'[r] /\ results'[r][i] = results[r][i]
    BY <2>1
  <2>3. Clean(r) /\ UNCHANGED <<late, box, started>> /\ pc[r] = "next"
    BY <1>3, <2>2 DEF SkipSuite, AnotherItem, suiteVars, engineVars
  <2>. QED
    BY <1>1, <2>3
<1>4. CASE BeginSuite(r)
  BY <1>1, <1>4 DEF BeginSuite, AnotherItem, runVars, toolVars, engineVars
<1>5. CASE EndRun(r)
  BY <1>1, <1>5 DEF EndRun, runVars, suiteVars, toolVars, engineVars
<1>6. CASE HasTool(r)
  BY <1>1, <1>6 DEF HasTool, AtTool, NextTool, runVars, toolVars, engineVars
<1>7. CASE LacksTool(r)
  BY <1>1, <1>7 DEF LacksTool, AtTool, Fail, runVars, toolVars, engineVars
<1>8. CASE MissesTool(r)
  BY <1>1, <1>8 DEF MissesTool, AtTool, runVars, suiteVars, engineVars
<1>9. CASE InstallTool(r)
  BY <1>1, <1>9 DEF InstallTool, NextTool, runVars, engineVars
<1>10. CASE WrongChecksum(r)
  BY <1>1, <1>10 DEF WrongChecksum, Fail, runVars, engineVars
<1>11. CASE ToolsReady(r)
  BY <1>1, <1>11 DEF ToolsReady, runVars, toolVars, engineVars
<1>12. CASE NoEngine(r)
  BY <1>1, <1>12 DEF NoEngine, Fail, runVars, toolVars, engineVars
<1>13. CASE ContainerStarts(r)
  <2>1. Container(r) \in Names /\ started[r] \in Seq(Names)
    BY <1>13, ContainerIs DEF ContainerStarts, AtLaunch
  <2>2. started'[r] = Append(started[r], Container(r))
    BY <1>13 DEF ContainerStarts
  <2>3. Elements(started'[r]) = Elements(started[r]) \cup {Container(r)}
    BY <2>1, <2>2, ElementsAppend
  <2>4. Clean(r) /\ pc[r] # "inspect" /\ box' = [box EXCEPT ![Container(r)] = r] /\ UNCHANGED late
    BY <1>13 DEF ContainerStarts, AtLaunch, runVars
  <2>5. pc[r] # "dead"
    BY <1>13 DEF ContainerStarts, AtLaunch
  <2>6. \A n \in Names : <<n, r>> \notin late /\ (box[n] = r => n \in Elements(started[r]))
    BY <1>1, <2>4, <2>5
  <2>7. \A n \in Names : box'[n] = r => box[n] = r \/ n = Container(r)
    BY <2>1, <2>4
  <2>. QED
    BY <2>3, <2>4, <2>6, <2>7
<1>14. CASE StartFails(r)
  <2>1. Container(r) \in Names
    BY <1>14, ContainerIs DEF StartFails, AtLaunch
  <2>2. Container(r)' = Container(r)
    BY <1>14 DEF StartFails, runVars, suiteVars, Container, Service, Name, Suite, Item
  <2>3. Clean(r) /\ pc[r] # "inspect" /\ pc'[r] = "inspect" /\ UNCHANGED <<late, started>>
    BY <1>14 DEF StartFails, AtLaunch, runVars, suiteVars
  <2>4. box' \in {box, [box EXCEPT ![Container(r)] = r]}
    BY <1>14 DEF StartFails
  <2>5. \A n \in Names : box'[n] = r => box[n] = r \/ n = Container(r)
    BY <2>1, <2>4
  <2>6. pc[r] # "dead"
    BY <1>14 DEF StartFails, AtLaunch
  <2>7. \A n \in Names : <<n, r>> \notin late /\ (box[n] = r => n \in Elements(started[r]))
    BY <1>1, <2>3, <2>6
  <2>. QED
    BY <2>2, <2>3, <2>5, <2>7
<1>15. CASE StartIsLost(r)
  <2>1. faults' # 0 /\ pc'[r] = "inspect"
    BY <1>15 DEF StartIsLost, Fault
  <2>. QED
    BY <2>1
<1>16. CASE Inspect(r)
  <2>1. Container(r) \in Names /\ started[r] \in Seq(Names)
    BY <1>16, ContainerIs DEF Inspect
  <2>2. faults' = 0
    BY <1>16 DEF Inspect, Fail
  <2>3. Clean(r) /\ UNCHANGED <<late, box>>
    BY <1>16, <2>2 DEF Inspect, Fault
  <2>4. pc[r] # "dead"
    BY <1>16 DEF Inspect
  <2>5. \A n \in Names : <<n, r>> \notin late /\ (box[n] = r => n \in Elements(started[r]) \/ n = Container(r))
    BY <1>1, <2>3, <2>4
  <2>6. CASE box[Container(r)] # Nobody
    <3>1. started'[r] = Append(started[r], Container(r))
      BY <1>16, <2>2, <2>6 DEF Inspect, Fault
    <3>2. Elements(started'[r]) = Elements(started[r]) \cup {Container(r)}
      BY <2>1, <3>1, ElementsAppend
    <3>. QED
      BY <2>3, <2>5, <3>2
  <2>7. CASE box[Container(r)] = Nobody
    <3>1. started' = started
      BY <1>16, <2>2, <2>7 DEF Inspect, Fault
    <3>2. r # Nobody
      BY E2EAssumption
    <3>. QED
      BY <2>3, <2>7, <2>5, <3>1, <3>2
  <2>. QED
    BY <2>6, <2>7
<1>17. CASE ServiceAnswers(r)
  BY <1>1, <1>17 DEF ServiceAnswers, runVars, toolVars
<1>18. CASE ServiceFails(r)
  BY <1>1, <1>18 DEF ServiceFails, Fail, runVars, toolVars, engineVars
<1>19. CASE StartTests(r)
  BY <1>1, <1>19 DEF StartTests, Fail, runVars, toolVars, engineVars
<1>20. CASE TestsEnd(r)
  <2>1. fine[r] /\ pc[r] = "testing" /\ UNCHANGED <<late, box, started, results>>
    BY <1>20 DEF TestsEnd, Proven, runVars, engineVars
  <2>2. Clean(r)
    BY <1>20, <2>1 DEF TestsEnd, engineVars
  <2>. QED
    BY <1>1, <2>1, <2>2
<1>21. CASE StopOne(r)
  <2>1. started[r] \in Seq(Names) /\ started[r] # <<>>
    BY <1>21 DEF StopOne, StopFirst
  <2>2. started'[r] = Tail(started[r]) /\ pc[r] = "stop"
    BY <1>21 DEF StopOne, StopFirst
  <2>3. Elements(started[r]) \subseteq Elements(started'[r]) \cup {Head(started[r])} /\ Head(started[r]) \in Names
    BY <2>1, <2>2, ElementsTail
  <2>4. Clean(r) /\ box' = [box EXCEPT ![Head(started[r])] = Nobody] /\ UNCHANGED late
    BY <1>21, <2>2 DEF StopOne, runVars
  <2>5. r # Nobody
    BY E2EAssumption
  <2>. QED
    BY <1>1, <2>2, <2>3, <2>4, <2>5
<1>22. CASE StopFails(r)
  <2>1. faults' # 0 /\ ~fine'[r]
    BY <1>22 DEF StopFails, Fault
  <2>. QED
    BY <2>1
<1>23. CASE Conclude(r)
  <2>1. fine[r] \/ faults = 0
    <3>1. results[r] \in Seq({"skip", "pass", "fail"})
      OBVIOUS
    <3>2. ~fine[r] => results'[r] = Append(results[r], "fail")
      BY <1>23 DEF Conclude, Record
    <3>3. ~fine[r] => Len(results[r]) + 1 \in DOMAIN results'[r] /\ results'[r][Len(results[r]) + 1] = "fail"
      BY <3>1, <3>2
    <3>. QED
      BY <1>23, <3>3 DEF Conclude, engineVars
  <2>2. \A i \in DOMAIN results[r] : i \in DOMAIN results'[r] /\ results'[r][i] = results[r][i]
    <3>1. results[r] \in Seq({"skip", "pass", "fail"})
      OBVIOUS
    <3>2. PICK v \in {"pass", "fail"} : results'[r] = Append(results[r], v)
      BY <1>23 DEF Conclude, Record
    <3>. QED
      BY <3>1, <3>2
  <2>3. Clean(r) /\ UNCHANGED <<late, box, started>> /\ pc[r] = "stop"
    BY <1>23, <2>1, <2>2 DEF Conclude, engineVars
  <2>. QED
    BY <1>1, <2>3
<1>24. CASE Downloaded(r)
  BY <1>1, <1>24 DEF Downloaded, runVars, suiteVars, engineVars
<1>25. CASE DownloadFails(r)
  BY <1>1, <1>25 DEF DownloadFails, Fail, runVars, engineVars
<1>26. CASE Interrupt(r)
  <2>1. Container(r)' = Container(r)
    BY <1>26 DEF Interrupt, suiteVars, Container, Service, Name, Suite, Item
  <2>2. Clean(r) /\ UNCHANGED <<pc, late, box, started>>
    BY <1>26 DEF Interrupt, suiteVars, engineVars
  <2>. QED
    BY <1>1, <2>1, <2>2
<1>27. CASE Kill(r)
  BY <1>1, <1>27 DEF Kill, AtLaunch
<1>. QED
  BY <1>2, <1>3, <1>4, <1>5, <1>6, <1>7, <1>8, <1>9, <1>10, <1>11, <1>12, <1>13, <1>14,
     <1>15, <1>16, <1>17, <1>18, <1>19, <1>20, <1>21, <1>22, <1>23, <1>24, <1>25, <1>26,
     <1>27 DEF OwnStep, EngineStep, ToolStep, ServiceStep, DownloadStep

LEMMA StepKept ==
  ASSUME Typed, StartedOwn, Proven, Kept, [Next]_vars
  PROVE  Kept'
<1> SUFFICES ASSUME NEW s \in Runs, pc'[s] # "dead", Clean(s)', NEW n \in Names
             PROVE  /\ <<n, s>> \notin late'
                    /\ box'[n] = s =>
                         \/ n \in Elements(started'[s])
                         \/ pc'[s] = "inspect" /\ n = Container(s)'
  BY DEF Kept, Elements
<1>1. ASSUME /\ pc'[s] = pc[s] /\ pid'[s] = pid[s] /\ items'[s] = items[s] /\ results'[s] = results[s]
             /\ k'[s] = k[s] /\ fine'[s] = fine[s] /\ started'[s] = started[s],
             faults' = 0 => faults = 0,
             <<n, s>> \in late' => <<n, s>> \in late,
             box'[n] = s => box[n] = s \/ <<n, s>> \in late
      PROVE  /\ <<n, s>> \notin late'
             /\ box'[n] = s =>
                  \/ n \in Elements(started'[s])
                  \/ pc'[s] = "inspect" /\ n = Container(s)'
  <2>1. Clean(s)
    BY <1>1 DEF Clean
  <2>2. /\ <<n, s>> \notin late
        /\ box[n] = s => n \in Elements(started[s]) \/ (pc[s] = "inspect" /\ n = Container(s))
    BY <1>1, <2>1 DEF Kept
  <2>3. Container(s)' = Container(s)
    BY <1>1 DEF Container, Service, Name, Suite, Item
  <2>. QED
    BY <1>1, <2>2, <2>3
<1>2. CASE \E r \in Runs : Begin(r) \/ OwnStep(r) \/ EngineStep(r) \/ DownloadStep(r) \/ Interrupt(r) \/ Kill(r)
  <2>1. PICK r \in Runs : Begin(r) \/ OwnStep(r) \/ EngineStep(r) \/ DownloadStep(r) \/ Interrupt(r) \/ Kill(r)
    BY <1>2
  <2>2. CASE r = s
    <3>1. Begin(s) \/ OwnStep(s) \/ EngineStep(s) \/ DownloadStep(s) \/ Interrupt(s) \/ Kill(s)
      BY <2>1, <2>2
    <3>2. \A m \in Names : /\ <<m, s>> \notin late'
                           /\ box'[m] = s =>
                                \/ m \in Elements(started'[s])
                                \/ pc'[s] = "inspect" /\ m = Container(s)'
      BY <3>1, RunKept
    <3>. QED
      BY <3>2, Zenon
  <2>3. CASE r # s
    <3>1. faults \in Nat
      BY E2EAssumption DEF Typed, TypeOK
    <3>2. faults' = 0 => faults = 0
      BY <2>1, <3>1 DEF Fault, engineVars, OwnStep, EngineStep, ToolStep, ServiceStep,
         DownloadStep, Begin, SkipSuite, BeginSuite, EndRun, HasTool, LacksTool, MissesTool,
         InstallTool, WrongChecksum, ToolsReady, NoEngine, ContainerStarts, StartFails,
         StartIsLost, Inspect, ServiceAnswers, ServiceFails, StartTests, TestsEnd, StopOne,
         StopFails, Conclude, Downloaded, DownloadFails, Interrupt, Kill
    <3>3. late' \subseteq late \cup (Names \X {r})
      <4>1. CASE StartIsLost(r) \/ Kill(r)
        <5>1. pc[r] = "launch" => Container(r) \in Names
          BY ContainerIs
        <5>. QED
          BY <4>1, <5>1 DEF StartIsLost, Kill, AtLaunch
      <4>2. CASE ~(StartIsLost(r) \/ Kill(r))
        BY <2>1, <4>2 DEF engineVars, OwnStep, EngineStep, ToolStep, ServiceStep,
           DownloadStep, Begin, SkipSuite, BeginSuite, EndRun, HasTool, LacksTool,
           MissesTool, InstallTool, WrongChecksum, ToolsReady, NoEngine, ContainerStarts,
           StartFails, Inspect, ServiceAnswers, ServiceFails, StartTests, TestsEnd, StopOne,
           StopFails, Conclude, Downloaded, DownloadFails, Interrupt, StartIsLost, Kill
      <4>. QED
        BY <4>1, <4>2
    <3>4. \/ UNCHANGED box
          \/ box' = [box EXCEPT ![Container(r)] = r]
          \/ box' = [box EXCEPT ![Head(started[r])] = Nobody]
      BY <2>1 DEF engineVars, OwnStep, EngineStep, ToolStep, ServiceStep, DownloadStep,
         Begin, SkipSuite, BeginSuite, EndRun, HasTool, LacksTool, MissesTool, InstallTool,
         WrongChecksum, ToolsReady, NoEngine, ContainerStarts, StartFails, StartIsLost,
         Inspect, ServiceAnswers, ServiceFails, StartTests, TestsEnd, StopOne, StopFails,
         Conclude, Downloaded, DownloadFails, Interrupt, Kill
    <3>5. s # Nobody
      BY E2EAssumption
    <3>6. box'[n] = s => box[n] = s
      BY <2>3, <3>4, <3>5 DEF Typed, TypeOK
    <3>. QED
      BY <1>1, <2>1, <2>3, <3>2, <3>3, <3>6, OthersStay
  <2>. QED
    BY <2>2, <2>3
<1>3. CASE MakeLate \/ Sweep
  <2>1. faults' = faults /\ late' \subseteq late
    BY <1>3 DEF MakeLate, Sweep
  <2>2. s # Nobody
    BY E2EAssumption
  <2>3. box'[n] = s => box[n] = s \/ <<n, s>> \in late
    <3>1. CASE MakeLate
      <4>1. PICK l \in late : box' = IF box[l[1]] = Nobody THEN [box EXCEPT ![l[1]] = l[2]] ELSE box
        BY <3>1, Zenon DEF MakeLate
      <4>2. l = <<l[1], l[2]>>
        BY DEF Typed, TypeOK
      <4>. QED
        BY <4>1, <4>2 DEF Typed, TypeOK
    <3>2. CASE Sweep
      BY <2>2, <3>2 DEF Sweep, Typed, TypeOK
    <3>. QED
      BY <1>3, <3>1, <3>2
  <2>. QED
    BY <1>1, <1>3, <2>1, <2>3, RunsStay
<1>4. CASE UNCHANGED vars
  BY <1>1, <1>4, RunsStay DEF vars, engineVars
<1>. QED
  BY <1>2, <1>3, <1>4 DEF Next

-----------------------------------------------------------------------------
(* The invariant, and what follows from it *)

LEMMA InitRunInv == Init => RunInv
<1> SUFFICES ASSUME Init PROVE RunInv
  OBVIOUS
<1> USE DEF Init
<1>1. Distinct /\ Proven /\ Probing /\ ServicesHold
  BY DEF Distinct, Live, Proven, Probing, ServicesHold
<1>2. StartedOwn /\ Recorded
  BY DEF StartedOwn, Recorded
<1>3. Kept
  <2>1. \A r \in Runs, n \in Names : <<n, r>> \notin late /\ box[n] # r
    BY E2EAssumption
  <2>. QED
    BY <2>1 DEF Kept
<1>4. CacheIsVerified
  BY DEF CacheIsVerified
<1>. QED
  BY <1>1, <1>2, <1>3, <1>4 DEF RunInv

LEMMA StepRunInv ==
  ASSUME Typed, RunInv, [Next]_vars
  PROVE  RunInv'
<1> USE DEF RunInv
<1>1. CASE \E r \in Runs : Begin(r) \/ OwnStep(r) \/ EngineStep(r) \/ DownloadStep(r) \/ Interrupt(r) \/ Kill(r)
  BY <1>1, RunDistinct, RunProven, RunStartedOwn, RunRecorded, StepProbes, StepServes, StepKept, StepCache
<1>2. CASE MakeLate \/ Sweep \/ UNCHANGED vars
  <2>1. /\ pc' = pc /\ pid' = pid /\ items' = items /\ results' = results
        /\ fine' = fine /\ started' = started /\ proved' = proved
    BY <1>2 DEF MakeLate, Sweep, vars, runVars, suiteVars
  <2>2. Distinct' /\ Proven' /\ StartedOwn' /\ Recorded'
    BY <2>1 DEF Distinct, Live, Proven, StartedOwn, Recorded
  <2>. QED
    BY <2>2, StepProbes, StepServes, StepKept, StepCache
<1>. QED
  BY <1>1, <1>2 DEF Next

LEMMA AlwaysRunInv == Spec => []RunInv
<1>. QED
  BY InitRunInv, StepRunInv, AlwaysTyped, PTL DEF Spec

(* What a run finds under a tool's path in the cache is a whole download that
   had its checksum, whatever the runs do, wherever they are killed and
   however they race (tools.go Dir, install). *)
THEOREM Cache == Spec => []CacheIsVerified
<1>. QED
  BY AlwaysRunInv, PTL DEF RunInv

(* No other run, no sweep and no late request takes a service from under a
   suite that has been told of it, or puts another in its place
   (services.go launch, Stop). *)
THEOREM ServicesStay == Spec => []ServicesHold
<1>. QED
  BY AlwaysRunInv, PTL DEF RunInv

(* A run without a failed suite has run every suite it was not to skip, and
   leaves no container behind nor one to come (run.go Run, suite). *)
THEOREM Whole == Spec => []PassIsWhole
<1>1. ASSUME Typed, RunInv PROVE PassIsWhole
  <2> SUFFICES ASSUME NEW r \in Runs, Passed(r)
               PROVE  /\ Left(r) = {}
                      /\ \A i \in DOMAIN items[r] :
                           results[r][i] = (IF items[r][i].skip THEN "skip" ELSE "pass")
    BY DEF PassIsWhole
  <2>1. pc[r] = "done" /\ \A i \in DOMAIN results[r] : results[r][i] # "fail"
    BY DEF Passed
  <2>2. fine[r] /\ started[r] = <<>>
    BY <1>1, <2>1 DEF RunInv, Proven, StartedOwn
  <2>3. Clean(r)
    BY <2>1, <2>2 DEF Clean
  <2>4. Left(r) = {}
    BY <1>1, <2>1, <2>2, <2>3 DEF RunInv, Kept, Left, Elements
  <2>5. /\ results[r] \in Seq({"skip", "pass", "fail"})
        /\ items[r] \in Seq([suite : SuiteNames, skip : BOOLEAN])
        /\ Len(results[r]) = Len(items[r])
    BY <1>1, <2>1 DEF Typed, TypeOK, RunInv, Recorded
  <2>6. DOMAIN results[r] = DOMAIN items[r] /\ \A i \in DOMAIN results[r] : results[r][i] \in {"skip", "pass", "fail"}
    BY <2>5
  <2>7. \A i \in DOMAIN results[r] : results[r][i] = "skip" <=> items[r][i].skip
    BY <1>1 DEF RunInv, Recorded
  <2>. QED
    BY <2>1, <2>4, <2>6, <2>7
<1>. QED
  BY <1>1, AlwaysTyped, AlwaysRunInv, PTL

(* As long as the engine did what it was asked, a run that has ended has left
   no container, however it ended and whoever else runs
   (services.go launch, run.go suite). *)
THEOREM Ended == Spec => []EndedLeavesNothing
<1>1. ASSUME RunInv PROVE EndedLeavesNothing
  <2> SUFFICES ASSUME faults = 0, NEW r \in Runs, pc[r] = "done" PROVE Left(r) = {}
    BY DEF EndedLeavesNothing
  <2>1. started[r] = <<>> /\ Clean(r)
    BY <1>1 DEF RunInv, StartedOwn, Clean
  <2>. QED
    BY <1>1, <2>1 DEF RunInv, Kept, Left, Elements
<1>. QED
  BY <1>1, AlwaysRunInv, PTL

(* No suite is recorded as passed but over a process that proved it
   (stream.go verdict, run.go command, suite). *)
THEOREM Earned == Spec => PassProves
<1>1. ASSUME Typed, RunInv, [Next]_vars
      PROVE  \A r \in Runs :
               Len(results'[r]) > Len(results[r]) /\ results'[r][Len(results'[r])] = "pass" => proved[r]
  <2> SUFFICES ASSUME NEW r \in Runs, Len(results'[r]) > Len(results[r]),
                      results'[r][Len(results'[r])] = "pass"
               PROVE  proved[r]
    OBVIOUS
  <2>1. results[r] \in Seq({"skip", "pass", "fail"}) /\ Len(results[r]) \in Nat /\ Len(<<>>) = 0
    BY <1>1 DEF Typed, TypeOK
  <2>2. results'[r] # results[r]
    BY <2>1
  <2>3. PICK s \in Runs : SkipSuite(s) \/ Conclude(s) \/ Kill(s)
    BY <1>1, <2>2 DEF Next, vars, MakeLate, Sweep, runVars, OwnStep, EngineStep, ToolStep,
       ServiceStep, DownloadStep, Begin, SkipSuite, BeginSuite, EndRun, HasTool, LacksTool,
       MissesTool, InstallTool, WrongChecksum, ToolsReady, NoEngine, ContainerStarts,
       StartFails, StartIsLost, Inspect, ServiceAnswers, ServiceFails, StartTests, TestsEnd,
       StopOne, StopFails, Conclude, Downloaded, DownloadFails, Interrupt, Kill
  <2>4. r = s /\ ~Kill(s)
    BY <1>1, <2>1, <2>2, <2>3 DEF Typed, TypeOK, SkipSuite, Conclude, Kill, Record
  <2>5. ~SkipSuite(s)
    <3>1. SkipSuite(s) => results'[r] = Append(results[r], "skip")
      BY <1>1, <2>4 DEF SkipSuite, Record, Typed, TypeOK
    <3>2. results'[r] = Append(results[r], "skip") => results'[r][Len(results'[r])] = "skip"
      BY <2>1
    <3>. QED
      BY <3>1, <3>2
  <2>6. Conclude(r) /\ results'[r] = Append(results[r], IF fine[r] THEN "pass" ELSE "fail")
    BY <1>1, <2>3, <2>4, <2>5 DEF Conclude, Record, Typed, TypeOK
  <2>7. fine[r]
    <3>1. ~fine[r] => results'[r] = Append(results[r], "fail")
      BY <2>6
    <3>2. results'[r] = Append(results[r], "fail") => results'[r][Len(results'[r])] = "fail"
      BY <2>1
    <3>. QED
      BY <3>1, <3>2
  <2>. QED
    BY <1>1, <2>6, <2>7 DEF Conclude, RunInv, Proven
<1>2. ASSUME Typed, RunInv, [Next]_vars
      PROVE  [\A r \in Runs :
               Len(results'[r]) > Len(results[r]) /\ results'[r][Len(results'[r])] = "pass" => proved[r]]_vars
  BY <1>1, <1>2
<1>. QED
  BY <1>2, AlwaysTyped, AlwaysRunInv, PTL DEF Spec, PassProves

=============================================================================
