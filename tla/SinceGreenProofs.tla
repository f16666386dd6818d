---------------------------- MODULE SinceGreenProofs ----------------------------
(***************************************************************************)
(* That a green commit is held to the whole bar, whatever was pushed,      *)
(* passed, failed, cancelled or started over, for any trees, waivers and   *)
(* any number of commits, runs and days; and that a gate is left out only  *)
(* when what it reads is the same on both sides, for any paths, modules,   *)
(* literals and embed patterns (UnmovedReads, which the first rests on).   *)
(* Both but for what the rule for inert files does not see (Unseen).       *)
(***************************************************************************)
EXTENDS SinceGreen, TLAPS, WellFoundedInduction, SequenceTheorems

Held(c) == \A g \in Gates \ TreeOf(c).bar : Proven(g, TreeOf(c))

(* Why it is kept: a run that is green is held, and so is one that was green
   when it was seen, since nothing a gate has passed on is forgotten; and a
   run under way with nothing red has every gate proved that it does not
   still have to run. *)
GreenHeld == \A i \in 1..Len(runs) : runs[i].state = "success" => Held(runs[i].commit)
SeenHeld  == \A i \in 1..Len(runs) : \A j \in runs[i].seen : Held(runs[j].commit)
PlanHeld  ==
  \A i \in 1..Len(runs) : runs[i].state = "planned" /\ ~runs[i].red =>
    \A g \in Gates \ (runs[i].left \cup TreeOf(runs[i].commit).bar) :
      Proven(g, TreeOf(runs[i].commit))

HeldInv == GreenHeld /\ SeenHeld /\ PlanHeld

-----------------------------------------------------------------------------
(* Types *)

(* What starting a run afresh makes. *)
LEMMA FreshRun ==
  ASSUME NEW c \in Nat
  PROVE  /\ Fresh(c) \in Run
         /\ Fresh(c).commit = c /\ Fresh(c).state = "started"
         /\ Fresh(c).seen = {} /\ Fresh(c).base = 0
BY DEF Fresh, Run, States

(* A base is a commit a green run was on, or none. *)
LEMMA BaseIsSeen ==
  ASSUME NEW c, NEW seen, NEW b \in Bases(c, seen)
  PROVE  b = 0 \/ \E j \in seen : b = runs[j].commit
BY DEF Bases, Contained

(* Every variable keeps its type. *)
LEMMA InitTyped == SinceGreenAssumption /\ Init => TypeOK
<1> SUFFICES ASSUME SinceGreenAssumption, Init PROVE TypeOK
  OBVIOUS
<1>1. PICK t \in Begins : commits = <<[parent |-> 0, tree |-> t]>>
  BY DEF Init
<1>2. t \in Trees
  BY DEF SinceGreenAssumption
<1>3. commits \in Seq([parent : Nat, tree : Trees]) /\ Len(commits) = 1
  BY <1>1, <1>2
<1>4. [Fresh(1) EXCEPT !.state = "success", !.day = 1] \in Run
  BY DEF Fresh, Run, States, Concluded
<1>5. runs \in Seq(Run) /\ Len(runs) = 1
  BY <1>4 DEF Init
<1>6. runs[1].commit = 1 /\ runs[1].base = 0 /\ runs[1].seen = {}
  BY DEF Init, Fresh
<1>7. \A i \in 1..Len(runs) : i = 1
  BY <1>5
<1>8. \A i \in 1..Len(runs) :
        /\ runs[i].commit \in 1..Len(commits)
        /\ runs[i].base \in 0..Len(commits)
        /\ runs[i].seen \subseteq 1..Len(runs)
  BY <1>3, <1>6, <1>7
<1>9. main \in 1..Len(commits) /\ day \in Nat /\ reruns \in Nat /\ reds \in Nat
  BY <1>3 DEF Init
<1>. QED
  BY <1>3, <1>5, <1>8, <1>9 DEF TypeOK

(* A step that replaces one run with another of the same commit. *)
LEMMA ReplaceTyped ==
  ASSUME TypeOK, NEW i \in 1..Len(runs), NEW r \in Run,
         r.commit = runs[i].commit, r.base \in 0..Len(commits),
         r.seen \subseteq 1..Len(runs),
         runs' = [runs EXCEPT ![i] = r], UNCHANGED <<commits, main>>,
         day' \in Nat, reruns' \in Nat, reds' \in Nat
  PROVE  TypeOK'
<1>1. runs' \in Seq(Run) /\ Len(runs') = Len(runs)
  BY DEF TypeOK
<1>2. \A k \in 1..Len(runs) : runs'[k] = IF k = i THEN r ELSE runs[k]
  BY DEF TypeOK
<1>. QED
  BY <1>1, <1>2 DEF TypeOK

LEMMA PlannedTyped ==
  ASSUME TypeOK, NEW i \in 1..Len(runs), NEW b \in 0..Len(commits)
  PROVE  /\ Planned(i, b) \in Run
         /\ Planned(i, b).commit = runs[i].commit
         /\ Planned(i, b).base = b /\ Planned(i, b).seen = {}
<1>1. runs[i] \in Run /\ b \in Nat /\ day \in Nat
  BY DEF TypeOK
<1>2. LeftOut(runs[i].commit, b) \subseteq Gates
  BY DEF LeftOut
<1>3. "planned" \in States
  BY DEF States
<1>4. \A s, l \in SUBSET Gates :
        LET r == [runs[i] EXCEPT !.state = "planned", !.seen = {}, !.base = b,
                                 !.day = day, !.skipped = s, !.left = l]
        IN  r \in Run /\ r.commit = runs[i].commit /\ r.base = b /\ r.seen = {}
  BY <1>1, <1>3 DEF Run
<1>. QED
  BY <1>2, <1>4 DEF Planned

LEMMA SeenTyped ==
  ASSUME TypeOK, NEW c, NEW seen, seen \subseteq 1..Len(runs), NEW b \in Bases(c, seen)
  PROVE  b \in 0..Len(commits)
<1>1. CASE b = 0
  BY <1>1 DEF TypeOK
<1>2. CASE \E j \in seen : b = runs[j].commit
  BY <1>2 DEF TypeOK
<1>3. b = 0 \/ \E j \in seen : b = runs[j].commit
  BY BaseIsSeen
<1>. QED
  BY <1>1, <1>2, <1>3

(* What a gate's verdict changes of its run. *)
LEMMA JudgeTyped ==
  ASSUME TypeOK, NEW i \in 1..Len(runs), NEW g, Judge(i, g),
         UNCHANGED <<commits, main, day, reruns>>
  PROVE  TypeOK'
<1>1. runs[i] \in Run
  BY DEF TypeOK
<1>2. reds' \in Nat
  BY DEF Judge, TypeOK
<1>3. PICK r : /\ runs' = [runs EXCEPT ![i] = r]
               /\ r \in {[runs[i] EXCEPT !.left = @ \ {g}],
                         [runs[i] EXCEPT !.left = @ \ {g}, !.red = TRUE]}
  BY DEF Judge
<1>4. r \in Run /\ r.commit = runs[i].commit /\ r.base = runs[i].base /\ r.seen = runs[i].seen
  BY <1>1, <1>3 DEF Run
<1>. QED
  BY <1>2, <1>3, <1>4, ReplaceTyped DEF TypeOK

LEMMA NextTyped == SinceGreenAssumption /\ TypeOK /\ [Next]_vars => TypeOK'
<1> SUFFICES ASSUME SinceGreenAssumption, TypeOK, [Next]_vars PROVE TypeOK'
  OBVIOUS
<1>0. \A i \in 1..Len(runs) : runs[i] \in Run /\ runs[i].commit \in Nat
  <2>1. \A i \in 1..Len(runs) : runs[i] \in Run
    BY DEF TypeOK
  <2>. QED
    BY <2>1 DEF Run
<1>1. CASE Push
  <2>1. PICK p \in 1..Len(commits), t \in Trees :
          commits' = Append(commits, [parent |-> p, tree |-> t])
    BY <1>1 DEF Push
  <2>2. p \in Nat /\ commits \in Seq([parent : Nat, tree : Trees])
    BY DEF TypeOK
  <2>3. commits' \in Seq([parent : Nat, tree : Trees]) /\ Len(commits') = Len(commits) + 1
    BY <2>1, <2>2
  <2>4. main' = Len(commits) + 1 /\ runs' = Append(runs, Fresh(Len(commits) + 1))
    BY <1>1, <2>3 DEF Push
  <2>5. Fresh(Len(commits) + 1) \in Run
    BY <2>2, FreshRun
  <2>6. runs' \in Seq(Run) /\ Len(runs') = Len(runs) + 1
    BY <2>4, <2>5 DEF TypeOK
  <2>7. \A k \in 1..Len(runs') :
          runs'[k] = IF k = Len(runs) + 1 THEN Fresh(Len(commits) + 1) ELSE runs[k]
    BY <2>4 DEF TypeOK
  <2>8. \A k \in 1..Len(runs') :
          /\ runs'[k].commit \in 1..Len(commits')
          /\ runs'[k].base \in 0..Len(commits')
          /\ runs'[k].seen \subseteq 1..Len(runs')
    <3>1. Len(commits) \in Nat /\ Len(runs) \in Nat
      BY DEF TypeOK
    <3>2. \A k \in 1..Len(runs) :
            /\ runs[k].commit \in 1..Len(commits')
            /\ runs[k].base \in 0..Len(commits')
            /\ runs[k].seen \subseteq 1..Len(runs')
      <4>1. \A k \in 1..Len(runs) :
              /\ runs[k].commit \in 1..Len(commits)
              /\ runs[k].base \in 0..Len(commits)
              /\ runs[k].seen \subseteq 1..Len(runs)
        BY DEF TypeOK
      <4>2. /\ 1..Len(commits) \subseteq 1..Len(commits')
            /\ 0..Len(commits) \subseteq 0..Len(commits')
            /\ 1..Len(runs) \subseteq 1..Len(runs')
        BY <2>3, <2>6, <3>1
      <4>. QED
        BY <4>1, <4>2
    <3>3. LET f == Fresh(Len(commits) + 1)
          IN  /\ f.commit \in 1..Len(commits') /\ f.base \in 0..Len(commits')
              /\ f.seen \subseteq 1..Len(runs')
      BY <2>3, <2>6, <3>1, FreshRun
    <3>4. \A k \in 1..Len(runs') : k # Len(runs) + 1 => k \in 1..Len(runs)
      BY <2>6, <3>1
    <3>. QED
      BY <2>7, <3>2, <3>3, <3>4
  <2>. QED
    BY <1>1, <2>2, <2>3, <2>4, <2>6, <2>8 DEF Push, TypeOK
<1>2. CASE NextDay
  BY <1>2 DEF NextDay, TypeOK
<1>3. ASSUME NEW i \in 1..Len(runs), ListRuns(i) PROVE TypeOK'
  <2>1. GreenRuns \subseteq 1..Len(runs)
    BY DEF GreenRuns
  <2> DEFINE r == [runs[i] EXCEPT !.state = "listed", !.seen = GreenRuns]
  <2>2. runs' = [runs EXCEPT ![i] = r]
    BY <1>3 DEF ListRuns
  <2>3. r \in Run /\ r.commit = runs[i].commit /\ r.base = runs[i].base /\ r.seen = GreenRuns
    <3>1. "listed" \in States /\ GreenRuns \in SUBSET Nat
      BY <2>1 DEF States
    <3>. QED
      BY <1>0, <3>1 DEF Run
  <2> HIDE DEF r
  <2>. QED
    BY <1>3, <2>1, <2>2, <2>3, ReplaceTyped DEF ListRuns, TypeOK
<1>4. ASSUME NEW i \in 1..Len(runs), Plan(i) PROVE TypeOK'
  <2>1. PICK b \in Bases(runs[i].commit, runs[i].seen) :
          runs' = [runs EXCEPT ![i] = Planned(i, b)]
    BY <1>4 DEF Plan
  <2>2. b \in 0..Len(commits)
    BY SeenTyped DEF TypeOK
  <2>3. /\ Planned(i, b) \in Run /\ Planned(i, b).commit = runs[i].commit
        /\ Planned(i, b).base = b /\ Planned(i, b).seen = {}
    BY <2>2, PlannedTyped
  <2>4. UNCHANGED <<commits, main>> /\ day' \in Nat /\ reruns' \in Nat /\ reds' \in Nat
    BY <1>4 DEF Plan, TypeOK
  <2>. QED
    BY <2>1, <2>2, <2>3, <2>4, ReplaceTyped
<1>w. ASSUME NEW i \in 1..Len(runs), PlanWhole(i) PROVE TypeOK'
  <2>1. 0 \in 0..Len(commits) /\ runs' = [runs EXCEPT ![i] = Planned(i, 0)]
    BY <1>w DEF PlanWhole, TypeOK
  <2>2. /\ Planned(i, 0) \in Run /\ Planned(i, 0).commit = runs[i].commit
        /\ Planned(i, 0).base = 0 /\ Planned(i, 0).seen = {}
    BY <2>1, PlannedTyped
  <2>3. UNCHANGED <<commits, main>> /\ day' \in Nat /\ reruns' \in Nat /\ reds' \in Nat
    BY <1>w DEF PlanWhole, TypeOK
  <2>. QED
    BY <2>1, <2>2, <2>3, ReplaceTyped
<1>5. ASSUME NEW i \in 1..Len(runs), RunGate(i) PROVE TypeOK'
  BY <1>5, JudgeTyped DEF RunGate
<1>6. ASSUME NEW i \in 1..Len(runs), RunE2E(i) PROVE TypeOK'
  <2>1. CASE Judge(i, "e2e")
    BY <1>6, <2>1, JudgeTyped DEF RunE2E
  <2> DEFINE r == [runs[i] EXCEPT !.left = @ \ {"e2e"}]
  <2>2. CASE runs' = [runs EXCEPT ![i] = r] /\ UNCHANGED <<reds, passed>>
    <3>1. r \in Run /\ r.commit = runs[i].commit /\ r.base = runs[i].base
                    /\ r.seen = runs[i].seen
      BY <1>0 DEF Run
    <3> HIDE DEF r
    <3>. QED
      BY <1>6, <2>2, <3>1, ReplaceTyped DEF RunE2E, TypeOK
  <2>. QED
    BY <1>6, <2>1, <2>2 DEF RunE2E
<1>7. ASSUME NEW i \in 1..Len(runs), Conclude(i) \/ Cancel(i) \/ Rerun(i) PROVE TypeOK'
  <2>1. PICK r : /\ runs' = [runs EXCEPT ![i] = r]
                 /\ r \in Run /\ r.commit = runs[i].commit /\ r.base = 0 /\ r.seen = {}
    <3>1. \A s \in States : \A d \in Nat :
            LET f == [Fresh(runs[i].commit) EXCEPT !.state = s, !.day = d]
            IN  f \in Run /\ f.commit = runs[i].commit /\ f.base = 0 /\ f.seen = {}
      BY <1>0 DEF Fresh, Run
    <3>2. CASE Conclude(i)
      <4>1. runs[i].day \in Nat
        BY <1>0 DEF Run
      <4>2. (IF runs[i].red THEN "failure" ELSE "success") \in States
        BY DEF States, Concluded
      <4>. QED
        BY <3>1, <3>2, <4>1, <4>2 DEF Conclude
    <3>3. CASE Cancel(i)
      <4>1. runs' = [runs EXCEPT ![i] = [Fresh(runs[i].commit) EXCEPT !.state = "cancelled"]]
        BY <3>3 DEF Cancel
      <4>2. LET f == [Fresh(runs[i].commit) EXCEPT !.state = "cancelled"]
            IN  f \in Run /\ f.commit = runs[i].commit /\ f.base = 0 /\ f.seen = {}
        BY <1>0 DEF Fresh, Run, States, Concluded
      <4>. QED
        BY <4>1, <4>2
    <3>4. CASE Rerun(i)
      BY <1>0, <3>4, FreshRun DEF Rerun
    <3>. QED
      BY <1>7, <3>2, <3>3, <3>4
  <2>2. UNCHANGED <<commits, main>> /\ day' \in Nat /\ reruns' \in Nat /\ reds' \in Nat
    BY <1>7 DEF Conclude, Cancel, Rerun, TypeOK
  <2>. QED
    BY <2>1, <2>2, ReplaceTyped DEF TypeOK
<1>8. CASE UNCHANGED vars
  BY <1>8 DEF vars, TypeOK
<1>. QED
  BY <1>1, <1>2, <1>3, <1>4, <1>w, <1>5, <1>6, <1>7, <1>8 DEF Next

(* The variables keep their types, for any trees, waivers and bounds. *)
THEOREM Typing == Spec => []TypeOK
<1>1. SinceGreenAssumption
  BY SinceGreenAssumption
<1>. QED
  BY <1>1, InitTyped, NextTyped, PTL DEF Spec

-----------------------------------------------------------------------------
(* What a joined path names *)

(* A set of naturals that has a member has a least one. *)
LEMMA Least ==
  ASSUME NEW T \in SUBSET Nat, T # {}
  PROVE  \E x \in T : \A y \in T : x <= y
<1> DEFINE R == {p \in Nat \X Nat : p[1] < p[2]}
<1>1. IsWellFoundedOn(R, Nat)
  BY NatLessThanWellFounded DEF OpToRel
<1>2. PICK x \in T : \A y \in T : <<y, x>> \notin R
  BY <1>1, WFMin
<1>3. \A y \in T : ~(y < x)
  BY <1>2
<1>. QED
  BY <1>3

(* The elements kept of a path once n of them are read. *)
Cleans(path, F, n) ==
  F = [i \in 0..n |-> IF i = 0 THEN Root ELSE CleanOne(F[i - 1], path[i])]

(* The loop of path.Clean has a result over every prefix of the path. *)
LEMMA CleansMade ==
  ASSUME NEW path
  PROVE  \A n \in Nat : \E F : Cleans(path, F, n)
<1> DEFINE T == {n \in Nat : ~ \E F : Cleans(path, F, n)}
<1>1. SUFFICES ASSUME T # {} PROVE FALSE
  OBVIOUS
<1>2. PICK n \in T : \A m \in T : n <= m
  BY <1>1, Least
<1>3. n # 0
  <2>1. Cleans(path, [i \in 0..0 |-> Root], 0)
    BY DEF Cleans
  <2>. QED
    BY <2>1
<1>4. n - 1 \in Nat /\ n - 1 \notin T
  BY <1>2, <1>3
<1>5. PICK F : Cleans(path, F, n - 1)
  BY <1>4
<1> DEFINE G == [i \in 0..n |-> IF i < n THEN F[i] ELSE CleanOne(F[n - 1], path[n])]
<1>6. \A i \in 0..n : G[i] = IF i = 0 THEN Root ELSE CleanOne(G[i - 1], path[i])
  <2>1. TAKE i \in 0..n
  <2>2. i # 0 => G[i - 1] = F[i - 1]
    BY <1>3, <1>4
  <2>3. CASE i < n
    <3>1. F[i] = IF i = 0 THEN Root ELSE CleanOne(F[i - 1], path[i])
      BY <1>5, <2>3, <1>3, <1>4 DEF Cleans
    <3>. QED
      BY <3>1, <2>2, <2>3
  <2>4. CASE i = n
    BY <2>2, <2>4, <1>3
  <2>. QED
    BY <2>3, <2>4, <1>4
<1>7. Cleans(path, G, n)
  BY <1>6 DEF Cleans
<1>. QED
  BY <1>7, <1>2

(* What cleaning d followed by q has kept: the first m elements of d, and then
   elements of q that are not ".". *)
Kept(c, d, q, m) ==
  /\ c \in Path /\ m \in 0..Len(c) /\ m <= Len(d)
  /\ \A x \in 1..m : c[x] = d[x]
  /\ \A x \in (m + 1)..Len(c) : c[x] \in ToSet(q) \ {"."}

(* All of a path but its last element. *)
LEMMA FrontOf ==
  ASSUME NEW S, NEW c \in Seq(S), Len(c) > 0
  PROVE  /\ Front(c) \in Seq(S) /\ Len(Front(c)) = Len(c) - 1
         /\ \A x \in 1..(Len(c) - 1) : Front(c)[x] = c[x]
<1>1. PICK n \in Nat : n = Len(c) - 1
  OBVIOUS
<1>2. \A x \in 1..n : c[x] \in S
  BY <1>1
<1>3. /\ SubSeq(c, 1, n) \in Seq(S)
      /\ Len(SubSeq(c, 1, n)) = IF 1 <= n THEN n - 1 + 1 ELSE 0
      /\ \A x \in 1..(n - 1 + 1) : SubSeq(c, 1, n)[x] = c[1 + x - 1]
  BY <1>2, SubSeqProperties
<1>4. PICK f : f = SubSeq(c, 1, n)
  OBVIOUS
<1>5. Len(f) = n /\ \A x \in 1..n : f[x] = c[x]
  BY <1>3, <1>4
<1>. QED
  BY <1>1, <1>3, <1>4, <1>5 DEF Front

(* One element of d more. *)
LEMMA KeepsDir ==
  ASSUME NEW d \in Path, NEW q \in Path, NEW c, NEW m,
         Kept(c, d, q, m), m = Len(c), m < Len(d), d[m + 1] \notin {".", ".."}
  PROVE  /\ Kept(CleanOne(c, d[m + 1]), d, q, m + 1)
         /\ Len(CleanOne(c, d[m + 1])) = m + 1
<1>0. c \in Seq(STRING) /\ d \in Seq(STRING) /\ Len(c) \in Nat /\ m = Len(c) /\ Len(d) \in Nat
  BY DEF Kept, Path
<1>1. CleanOne(c, d[m + 1]) = Append(c, d[m + 1]) /\ d[m + 1] \in STRING
  BY <1>0 DEF CleanOne
<1> DEFINE a == Append(c, d[m + 1])
<1>2. a \in Seq(STRING) /\ Len(a) = m + 1 /\ \A x \in 1..(m + 1) : a[x] = IF x = m + 1 THEN d[m + 1] ELSE c[x]
  BY <1>0, <1>1
<1>3. \A x \in 1..(m + 1) : a[x] = d[x]
  BY <1>0, <1>2 DEF Kept
<1> HIDE DEF a
<1>. QED
  BY <1>0, <1>1, <1>2, <1>3 DEF Kept, Path, a

(* One element of q more. *)
LEMMA KeepsText ==
  ASSUME NEW d \in Path, NEW q \in Path, NEW c, NEW m,
         Kept(c, d, q, m), NEW e \in ToSet(q)
  PROVE  \E k : Kept(CleanOne(c, e), d, q, k)
<1>0. /\ c \in Seq(STRING) /\ d \in Seq(STRING) /\ q \in Seq(STRING)
      /\ Len(c) \in Nat /\ Len(d) \in Nat /\ m \in 0..Len(c)
  BY DEF Kept, Path
<1>e. e \in STRING
  BY <1>0 DEF ToSet
<1>1. CASE e = "."
  BY <1>1 DEF CleanOne
<1>2. CASE e = ".." /\ c # Root /\ Last(c) # ".."
  <2>1. CleanOne(c, e) = Front(c)
    BY <1>2 DEF CleanOne
  <2>2. Len(c) > 0
    BY <1>0, <1>2 DEF Root
  <2>3. /\ Front(c) \in Seq(STRING) /\ Len(Front(c)) = Len(c) - 1
        /\ \A x \in 1..(Len(c) - 1) : Front(c)[x] = c[x]
    BY <1>0, <2>2, FrontOf
  <2>4. CASE m = Len(c)
    <3>1. Kept(Front(c), d, q, m - 1)
      BY <1>0, <2>2, <2>3, <2>4 DEF Kept, Path
    <3>. QED
      BY <2>1, <3>1
  <2>5. CASE m # Len(c)
    <3>1. Kept(Front(c), d, q, m)
      BY <1>0, <2>2, <2>3, <2>5 DEF Kept, Path
    <3>. QED
      BY <2>1, <3>1
  <2>. QED
    BY <2>4, <2>5
<1>3. CASE e # "." /\ ~(e = ".." /\ c # Root /\ Last(c) # "..")
  <2>1. CleanOne(c, e) = Append(c, e)
    BY <1>3 DEF CleanOne
  <2>2. /\ Append(c, e) \in Seq(STRING) /\ Len(Append(c, e)) = Len(c) + 1
        /\ \A x \in 1..(Len(c) + 1) : Append(c, e)[x] = IF x = Len(c) + 1 THEN e ELSE c[x]
    <3>1. PICK S : S = STRING
      OBVIOUS
    <3>2. c \in Seq(S) /\ e \in S
      BY <1>0, <1>e, <3>1
    <3>3. /\ Append(c, e) \in Seq(S) /\ Len(Append(c, e)) = Len(c) + 1
          /\ \A x \in 1..Len(c) : Append(c, e)[x] = c[x]
          /\ Append(c, e)[Len(c) + 1] = e
      BY <3>2, AppendProperties
    <3>4. \A x \in 1..(Len(c) + 1) : x # Len(c) + 1 => x \in 1..Len(c)
      BY <1>0
    <3>. QED
      BY <3>1, <3>3, <3>4
  <2>3. Kept(Append(c, e), d, q, m)
    BY <1>0, <1>3, <2>2 DEF Kept, Path
  <2>. QED
    BY <2>1, <2>3
<1>. QED
  BY <1>1, <1>2, <1>3

(* Cleaning a package's directory and a text after it keeps the directory's
   first elements, then only elements the text spells. *)
LEMMA Joined ==
  ASSUME NEW d \in Path, ToSet(d) \cap {".", ".."} = {}, NEW q \in Path
  PROVE  \E m : Kept(Clean(d \o q), d, q, m)
<1> DEFINE path == d \o q
           done == CHOOSE F : Cleans(path, F, Len(path))
<1>0. /\ d \in Seq(STRING) /\ q \in Seq(STRING) /\ path \in Seq(STRING)
      /\ Len(d) \in Nat /\ Len(q) \in Nat /\ Len(path) = Len(d) + Len(q)
  BY DEF Path
<1>1. /\ \A i \in 1..Len(d) : path[i] = d[i]
      /\ \A i \in (Len(d) + 1)..Len(path) : path[i] \in ToSet(q)
  BY <1>0 DEF ToSet
<1>2. Cleans(path, done, Len(path))
  <2>1. Len(path) \in Nat
    BY <1>0
  <2> HIDE DEF path
  <2>. QED
    BY <2>1, CleansMade
<1>3. Clean(path) = done[Len(path)]
  BY DEF Clean, Cleans
<1> HIDE DEF done, path
<1>4. \A i \in 0..Len(path) : done[i] = IF i = 0 THEN Root ELSE CleanOne(done[i - 1], path[i])
  BY <1>2 DEF Cleans
<1> DEFINE P(i) == \E m : /\ Kept(done[i], d, q, m)
                          /\ i <= Len(d) => m = i /\ Len(done[i]) = i
           T == {i \in 0..Len(path) : ~P(i)}
<1>5. T = {}
  <2>1. SUFFICES ASSUME T # {} PROVE FALSE
    OBVIOUS
  <2>2. PICK i \in T : \A j \in T : i <= j
    <3>1. T \in SUBSET Nat
      BY <1>0
    <3> HIDE DEF T
    <3>. QED
      BY <3>1, <2>1, Least
  <2>3. i \in 0..Len(path) /\ i \in Nat /\ ~P(i)
    BY <1>0, <2>2
  <2>4. i # 0
    <3>1. Kept(Root, d, q, 0) /\ Len(Root) = 0
      BY <1>0 DEF Kept, Root, Path
    <3>2. done[0] = Root
      BY <1>0, <1>4
    <3>3. P(0)
      BY <3>1, <3>2
    <3>. QED
      BY <2>3, <3>3
  <2>5. i - 1 \in 0..Len(path) /\ ~(i <= i - 1)
    BY <1>0, <2>3, <2>4
  <2>6. P(i - 1)
    BY <2>2, <2>5
  <2> HIDE DEF T
  <2>7. PICK m : /\ Kept(done[i - 1], d, q, m)
                 /\ i - 1 <= Len(d) => m = i - 1 /\ Len(done[i - 1]) = i - 1
    BY <2>6
  <2>8. done[i] = CleanOne(done[i - 1], path[i])
    BY <1>4, <2>3, <2>4
  <2>9. CASE i <= Len(d)
    <3>1. m = i - 1 /\ Len(done[i - 1]) = m /\ m < Len(d) /\ m + 1 = i
      BY <1>0, <2>3, <2>7, <2>9
    <3>2. d[m + 1] \notin {".", ".."}
      <4>1. m + 1 \in 1..Len(d) /\ DOMAIN d = 1..Len(d)
        BY <1>0, <2>3, <2>4, <2>9, <3>1
      <4>2. d[m + 1] \in ToSet(d)
        BY <4>1 DEF ToSet
      <4>. QED
        BY <4>2
    <3>3. path[i] = d[m + 1]
      BY <1>1, <2>3, <2>4, <2>9, <3>1
    <3>4. /\ Kept(CleanOne(done[i - 1], d[m + 1]), d, q, m + 1)
          /\ Len(CleanOne(done[i - 1], d[m + 1])) = m + 1
      BY <2>7, <3>1, <3>2, KeepsDir
    <3>5. P(i)
      BY <2>8, <3>1, <3>3, <3>4
    <3>. QED
      BY <2>3, <3>5
  <2>10. CASE i > Len(d)
    <3>1. path[i] \in ToSet(q)
      BY <1>0, <1>1, <2>3, <2>10
    <3>2. \E k : Kept(CleanOne(done[i - 1], path[i]), d, q, k)
      BY <2>7, <3>1, KeepsText
    <3>3. P(i)
      BY <1>0, <2>3, <2>8, <2>10, <3>2
    <3>. QED
      BY <2>3, <3>3
  <2>. QED
    BY <1>0, <2>3, <2>9, <2>10
<1>6. P(Len(path))
  BY <1>0, <1>5
<1>. QED
  BY <1>3, <1>6 DEF path

-----------------------------------------------------------------------------
(* What an inert change is not read by *)

(* A piece of a path. *)
LEMMA PieceOf ==
  ASSUME NEW S, NEW c \in Seq(S), NEW m \in Nat, NEW n \in Nat, m + n <= Len(c)
  PROVE  /\ SubSeq(c, m + 1, m + n) \in Seq(S) /\ Len(SubSeq(c, m + 1, m + n)) = n
         /\ \A x \in 1..n : SubSeq(c, m + 1, m + n)[x] = c[m + x]
<1>1. PICK a \in Int, b \in Int : a = m + 1 /\ b = m + n
  OBVIOUS
<1>2. \A x \in a..b : c[x] \in S
  BY <1>1
<1>3. /\ SubSeq(c, a, b) \in Seq(S)
      /\ Len(SubSeq(c, a, b)) = IF a <= b THEN b - a + 1 ELSE 0
      /\ \A x \in 1..(b - a + 1) : SubSeq(c, a, b)[x] = c[a + x - 1]
  BY <1>2, SubSeqProperties
<1>4. PICK f : f = SubSeq(c, a, b)
  OBVIOUS
<1>5. Len(f) = n
  BY <1>1, <1>3, <1>4
<1>6. \A x \in 1..n : f[x] = c[m + x]
  <2>1. TAKE x \in 1..n
  <2>2. x \in 1..(b - a + 1) /\ a + x - 1 = m + x
    BY <1>1
  <2>. QED
    BY <1>3, <1>4, <2>2
<1>. QED
  BY <1>1, <1>3, <1>4, <1>5, <1>6

(* A prefix is what it agrees with. *)
LEMMA PrefixOf ==
  ASSUME NEW S, NEW c \in Seq(S), NEW p \in Seq(S)
  PROVE  Within(c, p) <=> Len(p) <= Len(c) /\ \A x \in 1..Len(p) : p[x] = c[x]
<1>1. Within(c, p) <=> Len(p) <= Len(c) /\ SubSeq(p, 1, Len(p)) = SubSeq(c, 1, Len(p))
  BY DEF Within, IsPrefix
<1>2. ASSUME Len(p) <= Len(c)
      PROVE  (SubSeq(p, 1, Len(p)) = SubSeq(c, 1, Len(p))) <=> \A x \in 1..Len(p) : p[x] = c[x]
  <2>1. PICK n \in Nat, z \in Nat, o \in Nat : n = Len(p) /\ z = 0 /\ o = z + 1 /\ n = z + n
    OBVIOUS
  <2>2. /\ SubSeq(p, z + 1, z + n) \in Seq(S) /\ Len(SubSeq(p, z + 1, z + n)) = n
        /\ \A x \in 1..n : SubSeq(p, z + 1, z + n)[x] = p[z + x]
    BY <2>1, PieceOf
  <2>3. /\ SubSeq(c, z + 1, z + n) \in Seq(S) /\ Len(SubSeq(c, z + 1, z + n)) = n
        /\ \A x \in 1..n : SubSeq(c, z + 1, z + n)[x] = c[z + x]
    BY <1>2, <2>1, PieceOf
  <2>4. PICK u \in Seq(S), v \in Seq(S) :
          u = SubSeq(p, z + 1, z + n) /\ v = SubSeq(c, z + 1, z + n)
    BY <2>2, <2>3
  <2>5. /\ Len(u) = n /\ \A x \in 1..n : u[x] = p[x]
        /\ Len(v) = n /\ \A x \in 1..n : v[x] = c[x]
    BY <2>1, <2>2, <2>3, <2>4
  <2>6. u = v <=> \A x \in 1..n : p[x] = c[x]
    BY <2>5, SeqEqual
  <2>7. z + 1 = 1 /\ z + n = Len(p)
    BY <2>1
  <2>. QED
    BY <2>1, <2>4, <2>6, <2>7
<1>. QED
  BY <1>1, <1>2

(* An element of two texts joined is one of the first or of the second. *)
LEMMA EitherText ==
  ASSUME NEW S, NEW a \in Seq(S), NEW b \in Seq(S), NEW x \in ToSet(a \o b)
  PROVE  x \in ToSet(a) \/ x \in ToSet(b)
<1>1. PICK c : c = a \o b
  OBVIOUS
<1>2. /\ c \in Seq(S) /\ Len(c) = Len(a) + Len(b)
      /\ \A i \in 1..(Len(a) + Len(b)) : c[i] = IF i <= Len(a) THEN a[i] ELSE b[i - Len(a)]
  BY <1>1, ConcatProperties
<1>3. PICK i \in 1..(Len(a) + Len(b)) : x = c[i]
  BY <1>1, <1>2 DEF ToSet
<1>4. CASE i <= Len(a)
  BY <1>2, <1>3, <1>4 DEF ToSet
<1>5. CASE i > Len(a)
  <2>1. i - Len(a) \in 1..Len(b) /\ x = b[i - Len(a)]
    BY <1>2, <1>3, <1>5
  <2>. QED
    BY <2>1 DEF ToSet
<1>. QED
  BY <1>3, <1>4, <1>5

(* A test opens no file of an inert change: to climb out of its package the
   path it spells takes an element of the file's own path from a literal. *)
LEMMA NotOpened ==
  ASSUME NEW t \in Trees, NEW files, Inert(t.source, files), NEW f \in files \cap Files
  PROVE  ~Opens(t.source, f)
<1> SUFFICES ASSUME Opens(t.source, f) PROVE FALSE
  OBVIOUS
<1>0. PICK d \in t.source.pkgs : \E p \in Spelled(t.source, d) : Within(f, p) /\ ~Within(d, p)
  BY DEF Opens
<1>1. PICK p \in Spelled(t.source, d) : Within(f, p) /\ ~Within(d, p)
  BY <1>0
<1> DEFINE texts == {Root} \cup {l.text : l \in {m \in t.source.literals : m.dir = d}}
<1>2. PICK a \in texts, b \in texts : p = Clean(d \o (a \o b))
  BY <1>1 DEF Spelled
<1>3. d \in Path /\ ToSet(d) \cap {".", ".."} = {} /\ f \in Path
  BY SourcesAssumption
<1>4. \A x \in texts : x \in Path
  <2>1. Root \in Path
    BY DEF Root, Path
  <2>2. \A l \in t.source.literals : l.text \in Path
    BY SourcesAssumption
  <2>. QED
    BY <2>1, <2>2
<1> HIDE DEF texts
<1>5. a \in Path /\ b \in Path
  BY <1>4
<1>6. PICK q : q = a \o b
  OBVIOUS
<1>7. q \in Path
  BY <1>5, <1>6, ConcatProperties DEF Path
<1>8. PICK m : Kept(p, d, q, m)
  BY <1>2, <1>3, <1>6, <1>7, Joined
<1>9. m # Len(p)
  <2>1. p \in Seq(STRING) /\ d \in Seq(STRING)
    BY <1>3, <1>8 DEF Kept, Path
  <2>2. ~(Len(p) <= Len(d) /\ \A x \in 1..Len(p) : p[x] = d[x])
    BY <1>1, <2>1, PrefixOf
  <2>. QED
    BY <1>8, <2>2 DEF Kept
<1>10. PICK x : x = p[m + 1]
  OBVIOUS
<1>11. m + 1 \in (m + 1)..Len(p) /\ m + 1 \in 1..Len(p)
  BY <1>8, <1>9 DEF Kept, Path
<1>12. x \in ToSet(q) /\ x # "."
  BY <1>8, <1>10, <1>11 DEF Kept
<1>13. x \in Elements(files)
  <2>1. p \in Seq(STRING) /\ f \in Seq(STRING)
    BY <1>3, <1>8 DEF Kept, Path
  <2>2. Len(p) <= Len(f) /\ p[m + 1] = f[m + 1]
    BY <1>1, <1>11, <2>1, PrefixOf
  <2>3. m + 1 \in 1..Len(f) /\ DOMAIN f = 1..Len(f)
    BY <1>11, <2>1, <2>2
  <2>4. x \in ToSet(f)
    BY <1>10, <2>2, <2>3 DEF ToSet
  <2>. QED
    BY <2>4 DEF Elements
<1>14. \A l \in t.source.literals : x \notin ToSet(l.text)
  BY <1>12, <1>13 DEF Inert, Names
<1>15. \A y \in texts : x \notin ToSet(y)
  <2>1. x \notin ToSet(Root)
    BY DEF ToSet, Root
  <2>. QED
    BY <1>14, <2>1 DEF texts
<1>16. x \in ToSet(a) \/ x \in ToSet(b)
  BY <1>5, <1>6, <1>12, EitherText DEF Path
<1>. QED
  BY <1>15, <1>16

(* A pattern that matches a file or a directory above it has done so below
   the directory the pattern is in. *)
LEMMA EmbedsAbove ==
  ASSUME NEW S, NEW f \in Seq(S), NEW d \in Seq(S), NEW e \in Seq(S), Len(e) > 0,
         NEW i \in 1..Len(f), Within(SubSeq(f, 1, i), d), Matches(d \o e, SubSeq(f, 1, i))
  PROVE  Within(f, d) /\ \E p \in Parts(Below(f, d)) : Matches(e, p)
<1>1. PICK k \in Nat, m \in Nat, l \in Nat : k = Len(f) /\ m = Len(d) /\ l = Len(e)
  OBVIOUS
<1>2. i \in Nat /\ i <= k /\ l > 0
  BY <1>1
<1>3. PICK z \in Nat : z = 0 /\ z + 1 = 1
  OBVIOUS
<1>4. \A c \in Seq(S), n \in Nat : n <= Len(c) =>
        /\ SubSeq(c, 1, n) \in Seq(S) /\ Len(SubSeq(c, 1, n)) = n
        /\ \A x \in 1..n : SubSeq(c, 1, n)[x] = c[x]
  <2>1. TAKE c \in Seq(S), n \in Nat
  <2>2. HAVE n <= Len(c)
  <2>3. z + n = n /\ z + n <= Len(c) /\ \A x \in 1..n : z + x = x
    BY <1>3, <2>2
  <2>4. /\ SubSeq(c, z + 1, z + n) \in Seq(S) /\ Len(SubSeq(c, z + 1, z + n)) = n
        /\ \A x \in 1..n : SubSeq(c, z + 1, z + n)[x] = c[z + x]
    BY <2>3, PieceOf
  <2>. QED
    BY <1>3, <2>3, <2>4
<1>5. PICK n : n = SubSeq(f, 1, i)
  OBVIOUS
<1>6. n \in Seq(S) /\ Len(n) = i /\ \A x \in 1..i : n[x] = f[x]
  BY <1>1, <1>2, <1>4, <1>5
<1>7. m <= i /\ \A x \in 1..m : d[x] = n[x]
  BY <1>1, <1>5, <1>6, PrefixOf
<1>8. PICK w : w = d \o e
  OBVIOUS
<1>9. Len(w) = m + l /\ \A x \in 1..(m + l) : w[x] = IF x <= m THEN d[x] ELSE e[x - m]
  BY <1>1, <1>8, ConcatProperties
<1>10. Len(w) = i /\ \A x \in 1..i : w[x] \in {"*", n[x]}
  BY <1>5, <1>6, <1>8 DEF Matches
<1>11. \A x \in 1..l : e[x] \in {"*", f[m + x]}
  <2>1. TAKE x \in 1..l
  <2>2. m + x \in 1..(m + l) /\ ~(m + x <= m) /\ m + x - m = x /\ m + l = i
    BY <1>9, <1>10
  <2>3. w[m + x] = e[x]
    BY <1>9, <2>2
  <2>4. w[m + x] \in {"*", n[m + x]} /\ n[m + x] = f[m + x]
    BY <1>6, <1>10, <2>2
  <2>. QED
    BY <2>3, <2>4
<1>12. Within(f, d)
  <2>1. m <= k /\ \A x \in 1..m : d[x] = f[x]
    <3>1. \A x \in 1..m : x \in 1..i
      BY <1>2, <1>7
    <3>. QED
      BY <1>2, <1>6, <1>7, <3>1
  <2>. QED
    BY <1>1, <2>1, PrefixOf
<1>13. PICK o \in Nat : o = k - m /\ m + o = k /\ l <= o
  BY <1>2, <1>7, <1>9, <1>10
<1>14. PICK b : b = Below(f, d)
  OBVIOUS
<1>15. b \in Seq(S) /\ Len(b) = o /\ \A x \in 1..o : b[x] = f[m + x]
  <2>1. b = SubSeq(f, m + 1, m + o)
    BY <1>1, <1>13, <1>14 DEF Below
  <2>. QED
    BY <1>1, <1>13, <2>1, PieceOf
<1>16. PICK p : p = SubSeq(b, 1, l)
  OBVIOUS
<1>17. Len(p) = l /\ \A x \in 1..l : p[x] = f[m + x]
  <2>1. Len(p) = l /\ \A x \in 1..l : p[x] = b[x]
    BY <1>4, <1>13, <1>15, <1>16
  <2>2. \A x \in 1..l : x \in 1..o
    BY <1>13
  <2>. QED
    BY <1>15, <2>1, <2>2
<1>18. Matches(e, p)
  BY <1>1, <1>11, <1>17 DEF Matches
<1>19. p \in Parts(Below(f, d))
  <2>1. l \in 1..Len(b)
    BY <1>2, <1>13, <1>15
  <2>. QED
    BY <1>14, <1>16, <2>1 DEF Parts
<1>. QED
  BY <1>12, <1>18, <1>19

(* The go command builds no file of an inert change, but for what the root
   package has compiled beside its own source. *)
LEMMA NotBuilt ==
  ASSUME NEW t \in Trees, NEW files, Inert(t.source, files), NEW f \in files \cap Files,
         Root \in t.source.pkgs => ~(f \in Compiled /\ Front(f) = Root)
  PROVE  ~Built(t.source, f)
<1>0. f \in Seq(STRING) /\ f \notin t.source.pkgs
  BY SourcesAssumption DEF Path
<1>s. PICK S : S = STRING
  OBVIOUS
<1>1. ~UnderPackage(t.source, f)
  BY DEF Inert
<1>2. ASSUME NEW d \in t.source.pkgs \ {Root} PROVE ~Within(f, d)
  <2>1. SUFFICES ASSUME Within(f, d) PROVE Within(Front(f), d)
    BY <1>1 DEF UnderPackage
  <2>2. d \in Seq(S) /\ f \in Seq(S) /\ d # f /\ d # <<>>
    BY <1>0, <1>s, SourcesAssumption DEF Path, Root
  <2>3. Len(d) <= Len(f) /\ \A x \in 1..Len(d) : d[x] = f[x]
    BY <2>1, <2>2, PrefixOf
  <2>4. Len(d) # Len(f)
    BY <2>2, <2>3, SeqEqual
  <2>5. Len(f) > 0 /\ Len(d) <= Len(f) - 1
    BY <2>2, <2>3, <2>4
  <2>6. /\ Front(f) \in Seq(S) /\ Len(Front(f)) = Len(f) - 1
        /\ \A x \in 1..(Len(f) - 1) : Front(f)[x] = f[x]
    BY <2>2, <2>5, FrontOf
  <2>7. Len(d) <= Len(Front(f)) /\ \A x \in 1..Len(d) : d[x] = Front(f)[x]
    BY <2>2, <2>3, <2>5, <2>6
  <2>. QED
    BY <2>2, <2>6, <2>7, PrefixOf
<1>3. \A m \in t.source.modules : ~Within(f, m)
  BY <1>1 DEF UnderPackage
<1>4. ASSUME NEW e \in t.source.embeds, NEW i \in 1..Len(f),
             Within(SubSeq(f, 1, i), e.dir), Matches(e.dir \o e.text, SubSeq(f, 1, i))
      PROVE  FALSE
  <2>1. e.dir \in Seq(S) /\ e.text \in Seq(S) /\ e.text # <<>> /\ f \in Seq(S)
    <3>1. e \in [dir : Path, text : Path \ {Root}]
      BY SourcesAssumption
    <3>. QED
      BY <1>0, <1>s, <3>1 DEF Path, Root
  <2>2. Len(e.text) > 0
    BY <2>1
  <2>3. Within(f, e.dir) /\ \E p \in Parts(Below(f, e.dir)) : Matches(e.text, p)
    BY <1>4, <2>1, <2>2, EmbedsAbove
  <2>. QED
    BY <2>3 DEF Inert, Embeds
<1>5. ASSUME f \in Compiled, Front(f) \in t.source.pkgs PROVE FALSE
  <2>1. Front(f) # Root
    BY <1>5
  <2>2. Front(f) \in Seq(S)
    BY <1>5, <1>s, SourcesAssumption DEF Path
  <2>3. Within(Front(f), Front(f))
    BY <2>2, PrefixOf
  <2>. QED
    BY <1>1, <1>5, <2>1, <2>3 DEF UnderPackage
<1>. QED
  BY <1>2, <1>3, <1>4, <1>5 DEF Built

(* What a directory holds lies under it. *)
LEMMA HeldWithin ==
  ASSUME NEW S, NEW m \in Seq(S), NEW e \in S
  PROVE  Within(Append(m, e), m)
<1>1. PICK c : c = Append(m, e)
  OBVIOUS
<1>2. c \in Seq(S) /\ Len(c) = Len(m) + 1 /\ \A x \in 1..Len(m) : c[x] = m[x]
  BY <1>1
<1>3. Len(m) <= Len(c) /\ \A x \in 1..Len(m) : m[x] = c[x]
  BY <1>2
<1>. QED
  BY <1>1, <1>2, <1>3, PrefixOf

LEMMA ModFileWithin ==
  ASSUME NEW m \in Path
  PROVE  Within(ModFile(m), m)
<1>1. PICK S : S = STRING \cup {"go.mod"}
  OBVIOUS
<1>2. Seq(STRING) \subseteq Seq(S)
  BY <1>1, SeqMonotonic
<1>3. m \in Seq(S) /\ "go.mod" \in S
  BY <1>1, <1>2 DEF Path
<1>. QED
  BY <1>3, HeldWithin DEF ModFile

(* A change that is inert and seen is on one Go source, the same modules: one
   that is made is in the checkout's listing. *)
LEMMA SameSource ==
  ASSUME NEW t \in Trees, NEW u \in Trees, GoInert(t, u), ~Unseen(t, u)
  PROVE  t.source = u.source
<1>1. u.source.modules \subseteq t.source.modules
  <2>1. SUFFICES ASSUME NEW m \in u.source.modules, m \notin t.source.modules PROVE FALSE
    OBVIOUS
  <2>2. ModFile(m) \in Changed(t, u)
    BY <2>1 DEF Changed
  <2>3. Within(ModFile(m), m)
    BY <2>1, ModFileWithin, SourcesAssumption
  <2>. QED
    BY <2>1, <2>2, <2>3 DEF GoInert, Inert, UnderPackage
<1>2. t.source.modules = u.source.modules
  BY <1>1 DEF Unseen
<1>3. /\ t.source.pkgs = u.source.pkgs /\ t.source.literals = u.source.literals
      /\ t.source.embeds = u.source.embeds
  BY DEF GoInert, SameGo
<1>. QED
  BY <1>2, <1>3, SourcesAssumption

(* A gate that is left out of a change the rule sees reads the same on both
   sides. *)
LEMMA UnmovedReads ==
  ASSUME NEW g \in Gates, NEW t \in Trees, NEW u \in Trees, Unmoved(g, t, u), ~Unseen(t, u)
  PROVE  Inputs(g, t) = Inputs(g, u)
<1>1. ASSUME NEW files \in SUBSET Files, files \cap Changed(t, u) = {}
      PROVE  On(t, files) = On(u, files)
  BY <1>1 DEF On, Changed
<1>2. ASSUME GoInert(t, u)
      PROVE  t.source = u.source /\ GoInputs(t) = GoInputs(u) /\ GoInputs(t) \cap Changed(t, u) = {}
  <2>1. t.source = u.source /\ Inert(t.source, Changed(t, u))
    BY <1>2, SameSource DEF GoInert
  <2>2. \A f \in Changed(t, u) \cap Files : ~ReadByGo(t.source, f)
    BY <2>1, NotOpened, NotBuilt DEF ReadByGo, Unseen
  <2>. QED
    BY <2>1, <2>2 DEF GoInputs
<1>3. ASSUME NEW dirs, ~Touches(Changed(t, u), dirs)
      PROVE  Under(dirs) \in SUBSET Files /\ Under(dirs) \cap Changed(t, u) = {}
  BY <1>3 DEF Under, Touches
<1>4. CASE g = "suite"
  <2>1. GoInert(t, u)
    BY <1>4 DEF Unmoved
  <2>2. On(t, GoInputs(t)) = On(u, GoInputs(u))
    BY <1>1, <1>2, <2>1 DEF GoInputs
  <2>. QED
    BY <1>2, <1>4, <2>1, <2>2 DEF Inputs
<1>5. CASE g = "e2e"
  <2>1. GoInert(t, u) /\ ~Touches(Changed(t, u), SuiteDirs)
    BY <1>5 DEF Unmoved
  <2>2. PICK read : read = GoInputs(t) \cup Under(SuiteDirs)
    OBVIOUS
  <2>3. read \in SUBSET Files /\ read \cap Changed(t, u) = {}
    <3>1. GoInputs(t) \in SUBSET Files
      BY DEF GoInputs
    <3>. QED
      BY <1>2, <1>3, <2>1, <2>2, <3>1
  <2>4. On(t, read) = On(u, read)
    BY <1>1, <2>3
  <2>5. t.source = u.source /\ GoInputs(t) = GoInputs(u)
    BY <1>2, <2>1
  <2>. QED
    BY <1>5, <2>2, <2>4, <2>5 DEF Inputs
<1>6. CASE g = "frontend"
  <2>1. ~Touches(Changed(t, u), FrontendDirs)
    BY <1>6 DEF Unmoved
  <2>2. On(t, Under(FrontendDirs)) = On(u, Under(FrontendDirs))
    BY <1>1, <1>3, <2>1
  <2>. QED
    BY <1>6, <2>2 DEF Inputs
<1>. QED
  BY <1>4, <1>5, <1>6 DEF Gates

-----------------------------------------------------------------------------
(* A green commit is held *)

(* Commits and what was passed only grow, so what is held stays held. *)
LEMMA HeldStays ==
  ASSUME TypeOK, NEW c \in 1..Len(commits), Held(c),
         commits'[c] = commits[c], passed \subseteq passed'
  PROVE  Held(c)'
BY DEF Held, Proven, TreeOf

LEMMA TreeTyped == TypeOK => \A d \in 1..Len(commits) : commits[d].tree \in Trees
<1> SUFFICES ASSUME TypeOK, NEW d \in 1..Len(commits) PROVE commits[d].tree \in Trees
  OBVIOUS
<1> DEFINE Commit == [parent : Nat, tree : Trees]
<1>1. commits \in Seq(Commit)
  BY DEF TypeOK
<1> HIDE DEF Commit
<1>2. commits[d] \in Commit
  BY <1>1
<1>. QED
  BY <1>2 DEF Commit

(* A gate the change leaves out was proved at the base. *)
LEMMA LeftOutHeld ==
  ASSUME TypeOK, AllSeen, NEW c \in 1..Len(commits), NEW b \in 0..Len(commits),
         b = 0 \/ Held(b), NEW g \in LeftOut(c, b), g \notin TreeOf(c).bar
  PROVE  Proven(g, TreeOf(c))
<1>1. b # 0 /\ g \in Gates /\ Unmoved(g, TreeOf(b), TreeOf(c))
  BY DEF LeftOut
<1>2. TreeOf(b) \in Trees /\ TreeOf(c) \in Trees
  <2>1. b \in 1..Len(commits)
    BY <1>1
  <2>. QED
    BY <2>1, TreeTyped DEF TreeOf
<1>3. TreeOf(b).bar = TreeOf(c).bar
  BY <1>1 DEF Unmoved
<1>4. Proven(g, TreeOf(b))
  BY <1>1, <1>3 DEF Held
<1>5. ~Unseen(TreeOf(b), TreeOf(c))
  BY <1>1 DEF AllSeen
<1>6. Inputs(g, TreeOf(b)) = Inputs(g, TreeOf(c))
  BY <1>1, <1>2, <1>5, UnmovedReads
<1>. QED
  BY <1>4, <1>6 DEF Proven

(* The base of a lookup among runs that were green is held. *)
LEMMA BaseHeld ==
  ASSUME TypeOK, NEW c, NEW seen, seen \subseteq 1..Len(runs),
         \A j \in seen : Held(runs[j].commit), NEW b \in Bases(c, seen)
  PROVE  b \in 0..Len(commits) /\ (b = 0 \/ Held(b))
<1>1. b \in 0..Len(commits)
  BY SeenTyped
<1>2. b = 0 \/ \E j \in seen : b = runs[j].commit
  BY BaseIsSeen
<1>. QED
  BY <1>1, <1>2

LEMMA InitHeld == SinceGreenAssumption /\ Init => HeldInv
<1> SUFFICES ASSUME SinceGreenAssumption, Init PROVE HeldInv
  OBVIOUS
<1>1. PICK t \in Begins : /\ commits = <<[parent |-> 0, tree |-> t]>>
                          /\ passed = {<<g, Inputs(g, t)>> : g \in Gates \ t.bar}
  BY DEF Init
<1>2. TreeOf(1) = t
  BY <1>1 DEF TreeOf
<1>3. Held(1)
  BY <1>1, <1>2 DEF Held, Proven
<1>4. \A i \in 1..Len(runs) : i = 1
  BY DEF Init
<1>5. runs[1].commit = 1 /\ runs[1].seen = {} /\ runs[1].state = "success"
  BY DEF Init, Fresh
<1>. QED
  BY <1>3, <1>4, <1>5 DEF HeldInv, GreenHeld, SeenHeld, PlanHeld

(* A step that replaces one run, on commits there are: the run it leaves must
   be held by its own state. *)
LEMMA ReplaceHeld ==
  ASSUME TypeOK, HeldInv, NEW i \in 1..Len(runs), NEW r,
         runs' = [runs EXCEPT ![i] = r], r.commit = runs[i].commit,
         UNCHANGED commits, passed \subseteq passed',
         r.state = "success" => Held(r.commit),
         r.seen \subseteq 1..Len(runs),
         \A j \in r.seen : Held(runs[j].commit),
         r.state = "planned" /\ ~r.red =>
           \A g \in Gates \ (r.left \cup TreeOf(r.commit).bar) : Proven(g, TreeOf(r.commit))'
  PROVE  HeldInv'
<1>1. \A k \in 1..Len(runs) : /\ runs'[k] = IF k = i THEN r ELSE runs[k]
                              /\ runs'[k].commit = runs[k].commit
                              /\ runs[k].commit \in 1..Len(commits)
                              /\ runs[k].seen \subseteq 1..Len(runs)
  BY DEF TypeOK
<1>2. 1..Len(runs') = 1..Len(runs)
  BY DEF TypeOK
<1>3. \A c \in 1..Len(commits) : Held(c) => Held(c)'
  BY DEF Held, Proven, TreeOf
<1>4. \A c, g : Proven(g, TreeOf(c)) => Proven(g, TreeOf(c))'
  BY DEF Proven, TreeOf
<1>5. \A c : TreeOf(c)' = TreeOf(c)
  BY DEF TreeOf
<1>6. GreenHeld'
  BY <1>1, <1>2, <1>3 DEF HeldInv, GreenHeld, Held, Proven, TreeOf
<1>7. SeenHeld'
  <2>1. \A k \in 1..Len(runs) : \A j \in runs'[k].seen :
          j \in 1..Len(runs) /\ Held(runs[j].commit)
    BY <1>1 DEF HeldInv, SeenHeld
  <2>2. \A j \in 1..Len(runs) : Held(runs[j].commit) => Held(runs[j].commit)'
    BY <1>1, <1>3 DEF Held, Proven, TreeOf
  <2>. QED
    BY <1>2, <2>1, <2>2 DEF SeenHeld
<1>8. PlanHeld'
  BY <1>1, <1>2, <1>4, <1>5 DEF HeldInv, PlanHeld, Proven, TreeOf
<1>. QED
  BY <1>6, <1>7, <1>8 DEF HeldInv

(* A gate that is judged: passed, it is proved; failed, the run is red. *)
LEMMA JudgeHeld ==
  ASSUME TypeOK, HeldInv, NEW i \in 1..Len(runs), runs[i].state = "planned",
         NEW g, Judge(i, g), UNCHANGED commits
  PROVE  HeldInv'
<1>p. PICK p : p = [runs[i] EXCEPT !.left = @ \ {g}]
  OBVIOUS
<1>q. PICK q : q = [runs[i] EXCEPT !.left = @ \ {g}, !.red = TRUE]
  OBVIOUS
<1>c. PICK c : c = runs[i].commit
  OBVIOUS
<1>0. runs[i] \in Run
  BY DEF TypeOK
<1>1. \A r \in {p, q} : /\ r.commit = c /\ r.state = "planned"
                        /\ r.seen = runs[i].seen /\ r.left = runs[i].left \ {g}
  BY <1>0, <1>p, <1>q, <1>c DEF Run
<1>2. p.red = runs[i].red /\ q.red
  BY <1>0, <1>p, <1>q DEF Run
<1>3. runs[i].seen \subseteq 1..Len(runs) /\ \A j \in runs[i].seen : Held(runs[j].commit)
  BY DEF TypeOK, HeldInv, SeenHeld
<1>4. CASE /\ runs' = [runs EXCEPT ![i] = p]
           /\ passed' = passed \cup {<<g, Inputs(g, TreeOf(c))>>}
  <2>0. TreeOf(c)' = TreeOf(c)
    BY DEF TreeOf
  <2>1. ~p.red => \A h \in Gates \ (p.left \cup TreeOf(c).bar) :
                    Proven(h, TreeOf(c))'
    <3> SUFFICES ASSUME ~p.red, NEW h \in Gates \ (p.left \cup TreeOf(c).bar)
                 PROVE  Proven(h, TreeOf(c))'
      OBVIOUS
    <3>1. CASE h = g
      BY <1>4, <2>0, <3>1 DEF Proven
    <3>2. CASE h # g
      <4>1. Proven(h, TreeOf(c))
        BY <1>1, <1>2, <1>c, <3>2 DEF HeldInv, PlanHeld
      <4>. QED
        BY <1>4, <2>0, <4>1 DEF Proven
    <3>. QED
      BY <3>1, <3>2
  <2>. QED
    BY <1>1, <1>3, <1>4, <1>c, <2>1, ReplaceHeld
<1>5. CASE runs' = [runs EXCEPT ![i] = q] /\ UNCHANGED passed
  BY <1>1, <1>2, <1>3, <1>5, <1>c, ReplaceHeld
<1>. QED
  BY <1>4, <1>5, <1>c, <1>p, <1>q DEF Judge

(* What Plan leaves of a run, from a base that is held. *)
LEMMA PlannedHeld ==
  ASSUME TypeOK, AllSeen, HeldInv, NEW i \in 1..Len(runs), NEW b \in 0..Len(commits),
         b = 0 \/ Held(b), runs' = [runs EXCEPT ![i] = Planned(i, b)],
         UNCHANGED <<commits, passed>>
  PROVE  HeldInv'
<1>0. runs[i] \in Run /\ runs[i].commit \in 1..Len(commits)
  BY DEF TypeOK
<1>c. PICK c : c = runs[i].commit
  OBVIOUS
<1>r. PICK r : r = Planned(i, b)
  OBVIOUS
<1>w. PICK w : w = Waived(TreeOf(c))
  OBVIOUS
<1>3. /\ r.commit = c /\ r.state = "planned" /\ r.seen = {}
      /\ r.left = Gates \ (w \cup (LeftOut(c, b) \ w))
  BY <1>0, <1>c, <1>r, <1>w DEF Planned, Run
<1>4. w \subseteq TreeOf(c).bar
  BY <1>w DEF Waived
<1>5. \A g \in Gates \ (r.left \cup TreeOf(c).bar) : g \in LeftOut(c, b)
  BY <1>3, <1>4
<1>6. \A g \in Gates \ (r.left \cup TreeOf(c).bar) : Proven(g, TreeOf(c))
  BY <1>0, <1>5, <1>c, LeftOutHeld
<1>7. \A g : Proven(g, TreeOf(c)) => Proven(g, TreeOf(r.commit))'
  BY <1>3 DEF Proven, TreeOf
<1>8. \A g \in Gates \ (r.left \cup TreeOf(r.commit).bar) : Proven(g, TreeOf(r.commit))'
  BY <1>3, <1>6, <1>7
<1>9. runs' = [runs EXCEPT ![i] = r] /\ r.commit = runs[i].commit
  BY <1>3, <1>c, <1>r
<1>. QED
  BY <1>3, <1>8, <1>9, ReplaceHeld

(* Every step keeps it. *)
LEMMA NextHeld == TypeOK /\ AllSeen /\ HeldInv /\ [Next]_vars => HeldInv'
<1> SUFFICES ASSUME TypeOK, AllSeen, HeldInv, [Next]_vars PROVE HeldInv'
  OBVIOUS
<1>0. \A i \in 1..Len(runs) :
        /\ runs[i] \in Run /\ runs[i].commit \in 1..Len(commits)
        /\ runs[i].commit \in Nat /\ runs[i].seen \subseteq 1..Len(runs)
        /\ \A j \in runs[i].seen : Held(runs[j].commit)
  BY DEF TypeOK, HeldInv, SeenHeld
<1>g. GreenRuns \subseteq 1..Len(runs) /\ \A j \in GreenRuns : Held(runs[j].commit)
  BY DEF GreenRuns, HeldInv, GreenHeld
<1>1. CASE Push
  <2>1. PICK p \in 1..Len(commits), t \in Trees :
          commits' = Append(commits, [parent |-> p, tree |-> t])
    BY <1>1 DEF Push
  <2>2. \A c \in 1..Len(commits) : commits'[c] = commits[c]
    BY <2>1 DEF TypeOK
  <2>3. Len(runs) \in Nat /\ Len(commits') = Len(commits) + 1 /\ Len(commits) \in Nat
    BY <2>1 DEF TypeOK
  <2>4. runs' = Append(runs, Fresh(Len(commits) + 1)) /\ passed' = passed
    BY <1>1, <2>3 DEF Push
  <2>5. /\ Len(runs') = Len(runs) + 1
        /\ \A k \in 1..Len(runs) : runs'[k] = runs[k]
        /\ runs'[Len(runs) + 1] = Fresh(Len(commits) + 1)
    BY <2>3, <2>4 DEF TypeOK
  <2>6. /\ runs'[Len(runs) + 1].state = "started"
        /\ runs'[Len(runs) + 1].seen = {}
    BY <2>3, <2>5, FreshRun
  <2>7. \A c \in 1..Len(commits) : TreeOf(c)' = TreeOf(c)
    BY <2>2 DEF TreeOf
  <2>8. \A c \in 1..Len(commits) : Held(c) => Held(c)'
    BY <2>4, <2>7 DEF Held, Proven
  <2>9. \A k \in 1..Len(runs') : k # Len(runs) + 1 => k \in 1..Len(runs)
    BY <2>3, <2>5
  <2>10. GreenHeld'
    BY <1>0, <2>5, <2>6, <2>7, <2>4, <2>9 DEF HeldInv, GreenHeld, Held, Proven
  <2>11. SeenHeld'
    <3>1. \A k \in 1..Len(runs') : \A j \in runs'[k].seen :
            j \in 1..Len(runs) /\ Held(runs[j].commit)
      BY <1>0, <2>5, <2>6, <2>9
    <3>2. \A j \in 1..Len(runs) : Held(runs[j].commit) => Held(runs[j].commit)'
      BY <1>0, <2>4, <2>5, <2>7 DEF Held, Proven
    <3>. QED
      BY <3>1, <3>2 DEF SeenHeld
  <2>12. PlanHeld'
    BY <1>0, <2>4, <2>5, <2>6, <2>7, <2>9 DEF HeldInv, PlanHeld, Proven
  <2>. QED
    BY <2>10, <2>11, <2>12 DEF HeldInv
<1>2. CASE NextDay
  BY <1>2 DEF NextDay, HeldInv, GreenHeld, SeenHeld, PlanHeld, Held, Proven, TreeOf
<1>3. ASSUME NEW i \in 1..Len(runs), ListRuns(i) PROVE HeldInv'
  <2> DEFINE r == [runs[i] EXCEPT !.state = "listed", !.seen = GreenRuns]
  <2>1. runs' = [runs EXCEPT ![i] = r] /\ UNCHANGED <<commits, passed>>
    BY <1>3 DEF ListRuns
  <2>2. r.commit = runs[i].commit /\ r.state = "listed" /\ r.seen = GreenRuns
    BY <1>0 DEF Run
  <2> HIDE DEF r
  <2>. QED
    BY <1>g, <2>1, <2>2, ReplaceHeld
<1>4. ASSUME NEW i \in 1..Len(runs), Plan(i) PROVE HeldInv'
  <2>1. PICK b \in Bases(runs[i].commit, runs[i].seen) :
          runs' = [runs EXCEPT ![i] = Planned(i, b)] /\ UNCHANGED <<commits, passed>>
    BY <1>4 DEF Plan
  <2>2. b \in 0..Len(commits) /\ (b = 0 \/ Held(b))
    BY <1>0, BaseHeld
  <2>. QED
    BY <2>1, <2>2, PlannedHeld
<1>w. ASSUME NEW i \in 1..Len(runs), PlanWhole(i) PROVE HeldInv'
  <2>1. 0 \in 0..Len(commits) /\ runs' = [runs EXCEPT ![i] = Planned(i, 0)]
    BY <1>w DEF PlanWhole, TypeOK
  <2>. QED
    BY <1>w, <2>1, PlannedHeld DEF PlanWhole
<1>5. ASSUME NEW i \in 1..Len(runs), RunGate(i) PROVE HeldInv'
  BY <1>5, JudgeHeld DEF RunGate
<1>6. ASSUME NEW i \in 1..Len(runs), RunE2E(i) PROVE HeldInv'
  <2>1. CASE Judge(i, "e2e")
    BY <1>6, <2>1, JudgeHeld DEF RunE2E
  <2>c. PICK c : c = runs[i].commit
    OBVIOUS
  <2>r. PICK r : r = [runs[i] EXCEPT !.left = @ \ {"e2e"}]
    OBVIOUS
  <2>2. ASSUME NEW b \in Bases(c, GreenRuns), "e2e" \in LeftOut(c, b),
               runs' = [runs EXCEPT ![i] = r], UNCHANGED <<reds, passed>>
        PROVE  HeldInv'
    <3>1. /\ r.commit = c /\ r.state = "planned" /\ r.seen = runs[i].seen
          /\ r.left = runs[i].left \ {"e2e"} /\ r.red = runs[i].red
      BY <1>0, <1>6, <2>c, <2>r DEF Run, RunE2E
    <3>2. b \in 0..Len(commits) /\ (b = 0 \/ Held(b))
      BY <1>g, BaseHeld
    <3>3. "e2e" \notin TreeOf(c).bar => Proven("e2e", TreeOf(c))
      BY <1>0, <2>2, <2>c, <3>2, LeftOutHeld
    <3>4. UNCHANGED commits /\ runs[i].state = "planned"
      BY <1>6 DEF RunE2E
    <3>5. ~r.red => \A g \in Gates \ (r.left \cup TreeOf(c).bar) : Proven(g, TreeOf(c))
      BY <2>c, <3>1, <3>3, <3>4 DEF HeldInv, PlanHeld
    <3>6. \A g : Proven(g, TreeOf(c)) => Proven(g, TreeOf(r.commit))'
      BY <2>2, <3>1, <3>4 DEF Proven, TreeOf
    <3>7. ~r.red => \A g \in Gates \ (r.left \cup TreeOf(r.commit).bar) :
                      Proven(g, TreeOf(r.commit))'
      BY <3>1, <3>5, <3>6
    <3>8. r.commit = runs[i].commit
      BY <2>c, <3>1
    <3>. QED
      BY <1>0, <2>2, <3>1, <3>4, <3>7, <3>8, ReplaceHeld
  <2>. QED
    BY <1>6, <2>1, <2>2, <2>c, <2>r DEF RunE2E
<1>7. ASSUME NEW i \in 1..Len(runs), Conclude(i) PROVE HeldInv'
  <2> DEFINE s == IF runs[i].red THEN "failure" ELSE "success"
             r == [Fresh(runs[i].commit) EXCEPT !.state = s, !.day = runs[i].day]
  <2>1. /\ runs' = [runs EXCEPT ![i] = r] /\ UNCHANGED <<commits, passed>>
        /\ runs[i].state = "planned" /\ runs[i].left = {}
    BY <1>7 DEF Conclude
  <2>2. r.commit = runs[i].commit /\ r.state = s /\ r.seen = {}
    BY DEF Fresh
  <2>3. s = "success" => ~runs[i].red
    OBVIOUS
  <2>4. s # "planned"
    OBVIOUS
  <2>5. ~runs[i].red => Held(runs[i].commit)
    BY <2>1 DEF HeldInv, PlanHeld, Held
  <2> HIDE DEF r, s
  <2>. QED
    BY <2>1, <2>2, <2>3, <2>4, <2>5, ReplaceHeld
<1>8. ASSUME NEW i \in 1..Len(runs), Cancel(i) PROVE HeldInv'
  <2> DEFINE r == [Fresh(runs[i].commit) EXCEPT !.state = "cancelled"]
  <2>1. runs' = [runs EXCEPT ![i] = r] /\ UNCHANGED <<commits, passed>>
    BY <1>8 DEF Cancel
  <2>2. r.commit = runs[i].commit /\ r.state = "cancelled" /\ r.seen = {}
    BY DEF Fresh
  <2> HIDE DEF r
  <2>. QED
    BY <2>1, <2>2, ReplaceHeld
<1>9. ASSUME NEW i \in 1..Len(runs), Rerun(i) PROVE HeldInv'
  <2>1. runs' = [runs EXCEPT ![i] = Fresh(runs[i].commit)] /\ UNCHANGED <<commits, passed>>
    BY <1>9 DEF Rerun
  <2>r. PICK r : r = Fresh(runs[i].commit)
    OBVIOUS
  <2>2. r.commit = runs[i].commit /\ r.state = "started" /\ r.seen = {}
    BY <1>0, <2>r, FreshRun
  <2>. QED
    BY <2>1, <2>2, <2>r, ReplaceHeld
<1>10. CASE UNCHANGED vars
  BY <1>10 DEF vars, HeldInv, GreenHeld, SeenHeld, PlanHeld, Held, Proven, TreeOf
<1>. QED
  BY <1>1, <1>2, <1>3, <1>4, <1>w, <1>5, <1>6, <1>7, <1>8, <1>9, <1>10 DEF Next

(* Commits are only added, so what is seen of all of them was. *)
LEMMA StillSeen == TypeOK /\ [Next]_vars /\ AllSeen' => AllSeen
<1> SUFFICES ASSUME TypeOK, [Next]_vars, AllSeen' PROVE AllSeen
  OBVIOUS
<1>1. /\ 1..Len(commits) \subseteq 1..Len(commits')
      /\ \A c \in 1..Len(commits) : commits'[c] = commits[c]
  <2>1. CASE Push
    <3>1. PICK p \in 1..Len(commits), t \in Trees :
            commits' = Append(commits, [parent |-> p, tree |-> t])
      BY <2>1 DEF Push
    <3>. QED
      BY <3>1 DEF TypeOK
  <2>2. CASE UNCHANGED commits
    BY <2>2
  <2>. QED
    BY <2>1, <2>2 DEF Next, NextDay, ListRuns, Plan, PlanWhole, RunGate, RunE2E, Conclude,
       Cancel, Rerun, vars
<1>2. \A c \in 1..Len(commits) : TreeOf(c)' = TreeOf(c)
  BY <1>1 DEF TreeOf
<1>3. \A b, c \in 1..Len(commits) : ~Unseen(TreeOf(b)', TreeOf(c)')
  BY <1>1 DEF AllSeen
<1>. QED
  BY <1>2, <1>3 DEF AllSeen

(* Main is held to the whole bar by induction: while no commit differs from
   another in a way the rule for inert files does not see, every gate of a
   green commit passed on what that commit gives it to read, unless the commit
   waives it, however many runs in a row left it out
   (internal/greencut/since.go). *)
THEOREM Induction == Spec => []GreenIsHeld
<1>1. (AllSeen => HeldInv) => GreenIsHeld
  BY DEF HeldInv, GreenHeld, GreenIsHeld, Held
<1>2. Init => (AllSeen => HeldInv)
  BY InitHeld, SinceGreenAssumption
<1>3. TypeOK /\ (AllSeen => HeldInv) /\ [Next]_vars => (AllSeen => HeldInv)'
  BY NextHeld, StillSeen
<1>. QED
  BY <1>1, <1>2, <1>3, Typing, PTL DEF Spec

-----------------------------------------------------------------------------
(* What a run leaves out *)

(* A run leaves out only what the change since its base does not move. *)
LeftOutKept ==
  \A i \in 1..Len(runs) : runs[i].skipped \subseteq LeftOut(runs[i].commit, runs[i].base)

LEMMA LeftOutReads ==
  ASSUME TypeOK, NEW c \in 1..Len(commits), NEW b \in 0..Len(commits), NEW g \in LeftOut(c, b)
  PROVE  Inputs(g, TreeOf(b)) = Inputs(g, TreeOf(c)) \/ Unseen(TreeOf(b), TreeOf(c))
<1>1. b # 0 /\ g \in Gates /\ Unmoved(g, TreeOf(b), TreeOf(c))
  BY DEF LeftOut
<1>2. b \in 1..Len(commits)
  BY <1>1
<1>3. TreeOf(b) \in Trees /\ TreeOf(c) \in Trees
  BY <1>2, TreeTyped DEF TreeOf
<1>. QED
  BY <1>1, <1>3, UnmovedReads

(* A step that replaces one run, on commits there are. *)
LEMMA ReplaceLeftOut ==
  ASSUME TypeOK, LeftOutKept, NEW i \in 1..Len(runs), NEW r,
         runs' = [runs EXCEPT ![i] = r], UNCHANGED commits,
         r.skipped \subseteq LeftOut(r.commit, r.base)
  PROVE  LeftOutKept'
<1>1. Len(runs') = Len(runs) /\ \A k \in 1..Len(runs) : runs'[k] = IF k = i THEN r ELSE runs[k]
  BY DEF TypeOK
<1>2. \A c, b : LeftOut(c, b)' = LeftOut(c, b)
  BY DEF LeftOut, TreeOf
<1>. QED
  BY <1>1, <1>2 DEF LeftOutKept

LEMMA NextLeftOut == TypeOK /\ LeftOutKept /\ [Next]_vars => LeftOutKept'
<1> SUFFICES ASSUME TypeOK, LeftOutKept, [Next]_vars PROVE LeftOutKept'
  OBVIOUS
<1>0. \A i \in 1..Len(runs) : runs[i] \in Run
  BY DEF TypeOK
<1>1. CASE Push
  <2>1. PICK p \in 1..Len(commits), t \in Trees :
          commits' = Append(commits, [parent |-> p, tree |-> t])
    BY <1>1 DEF Push
  <2>2. /\ Len(commits) \in Nat /\ Len(runs) \in Nat
        /\ \A c \in 1..Len(commits) : commits'[c] = commits[c]
    BY <2>1 DEF TypeOK
  <2>3. PICK f : f = Fresh(main')
    OBVIOUS
  <2>4. /\ Len(runs') = Len(runs) + 1
        /\ \A k \in 1..Len(runs) : runs'[k] = runs[k]
        /\ runs'[Len(runs) + 1] = f
    BY <1>1, <2>2, <2>3 DEF Push, TypeOK
  <2>5. f.skipped = {}
    BY <2>3 DEF Fresh
  <2>6. \A k \in 1..Len(runs') : k # Len(runs) + 1 => k \in 1..Len(runs)
    BY <2>2, <2>4
  <2>7. \A c \in 1..Len(commits), b \in 0..Len(commits) : LeftOut(c, b)' = LeftOut(c, b)
    <3>1. \A c \in 1..Len(commits) : TreeOf(c)' = TreeOf(c)
      BY <2>2 DEF TreeOf
    <3>2. \A b \in 0..Len(commits) : b = 0 \/ b \in 1..Len(commits)
      BY <2>2
    <3>. QED
      BY <3>1, <3>2 DEF LeftOut
  <2>8. \A k \in 1..Len(runs) :
          runs[k].commit \in 1..Len(commits) /\ runs[k].base \in 0..Len(commits)
    BY DEF TypeOK
  <2>9. \A k \in 1..Len(runs) :
          LeftOut(runs[k].commit, runs[k].base)' = LeftOut(runs[k].commit, runs[k].base)
    BY <2>4, <2>7, <2>8 DEF LeftOut, TreeOf
  <2>10. \A k \in 1..Len(runs) :
           runs'[k].skipped \subseteq LeftOut(runs[k].commit, runs[k].base)'
    BY <2>4, <2>9 DEF LeftOutKept
  <2>. QED
    BY <2>4, <2>5, <2>6, <2>10 DEF LeftOutKept
<1>2. CASE NextDay
  BY <1>2 DEF NextDay, LeftOutKept, LeftOut, TreeOf
<1>3. ASSUME NEW i \in 1..Len(runs),
             \/ ListRuns(i)
             \/ /\ UNCHANGED commits
                /\ \E g : Judge(i, g)
             \/ /\ UNCHANGED commits
                /\ runs' = [runs EXCEPT ![i].left = @ \ {"e2e"}]
      PROVE  LeftOutKept'
  <2>1. PICK r : /\ runs' = [runs EXCEPT ![i] = r] /\ UNCHANGED commits
                 /\ \/ r = [runs[i] EXCEPT !.state = "listed", !.seen = GreenRuns]
                    \/ \E l : r = [runs[i] EXCEPT !.left = l]
                    \/ \E l : r = [runs[i] EXCEPT !.left = l, !.red = TRUE]
    <3>1. CASE ListRuns(i)
      BY <3>1 DEF ListRuns
    <3>2. ASSUME UNCHANGED commits, NEW g, Judge(i, g)
          PROVE  \E l : \/ runs' = [runs EXCEPT ![i] = [runs[i] EXCEPT !.left = l]]
                        \/ runs' = [runs EXCEPT ![i] = [runs[i] EXCEPT !.left = l, !.red = TRUE]]
      BY <3>2 DEF Judge
    <3>3. CASE UNCHANGED commits /\ \E g : Judge(i, g)
      BY <3>2, <3>3
    <3>. QED
      BY <1>3, <3>1, <3>3
  <2>2. /\ r.skipped = runs[i].skipped /\ r.commit = runs[i].commit
        /\ r.base = runs[i].base
    BY <1>0, <2>1 DEF Run
  <2>3. r.skipped \subseteq LeftOut(r.commit, r.base)
    BY <2>2 DEF LeftOutKept
  <2>. QED
    BY <2>1, <2>3, ReplaceLeftOut
<1>4. ASSUME NEW i \in 1..Len(runs), NEW b, UNCHANGED commits,
             runs' = [runs EXCEPT ![i] = Planned(i, b)]
      PROVE  LeftOutKept'
  <2>1. PICK r : r = Planned(i, b)
    OBVIOUS
  <2>2. /\ r.commit = runs[i].commit /\ r.base = b
        /\ r.skipped = LeftOut(runs[i].commit, b) \ Waived(TreeOf(runs[i].commit))
    BY <1>0, <2>1 DEF Planned, Run
  <2>. QED
    BY <1>4, <2>1, <2>2, ReplaceLeftOut
<1>5. ASSUME NEW i \in 1..Len(runs), Plan(i) \/ PlanWhole(i) PROVE LeftOutKept'
  BY <1>4, <1>5 DEF Plan, PlanWhole
<1>6. ASSUME NEW i \in 1..Len(runs), RunGate(i) \/ RunE2E(i) PROVE LeftOutKept'
  BY <1>3, <1>6 DEF RunGate, RunE2E
<1>7. ASSUME NEW i \in 1..Len(runs), Conclude(i) \/ Cancel(i) \/ Rerun(i) PROVE LeftOutKept'
  <2>1. UNCHANGED commits
    BY <1>7 DEF Conclude, Cancel, Rerun
  <2>2. PICK r : runs' = [runs EXCEPT ![i] = r] /\ r.skipped = {}
    <3>1. CASE Conclude(i)
      <4> DEFINE r == [Fresh(runs[i].commit) EXCEPT
                         !.state = IF runs[i].red THEN "failure" ELSE "success",
                         !.day = runs[i].day]
      <4>1. runs' = [runs EXCEPT ![i] = r]
        BY <3>1 DEF Conclude
      <4>2. r.skipped = {}
        BY DEF Fresh
      <4>. QED
        BY <4>1, <4>2
    <3>2. CASE Cancel(i)
      <4> DEFINE r == [Fresh(runs[i].commit) EXCEPT !.state = "cancelled"]
      <4>1. runs' = [runs EXCEPT ![i] = r]
        BY <3>2 DEF Cancel
      <4>2. r.skipped = {}
        BY DEF Fresh
      <4>. QED
        BY <4>1, <4>2
    <3>3. CASE Rerun(i)
      <4>1. runs' = [runs EXCEPT ![i] = Fresh(runs[i].commit)]
        BY <3>3 DEF Rerun
      <4>2. Fresh(runs[i].commit).skipped = {}
        BY DEF Fresh
      <4>. QED
        BY <4>1, <4>2
    <3>. QED
      BY <1>7, <3>1, <3>2, <3>3
  <2>3. r.skipped \subseteq LeftOut(r.commit, r.base)
    BY <2>2
  <2>. QED
    BY <2>1, <2>2, <2>3, ReplaceLeftOut
<1>8. ASSUME NEW i \in 1..Len(runs), ListRuns(i) PROVE LeftOutKept'
  BY <1>3, <1>8
<1>9. CASE UNCHANGED vars
  BY <1>9 DEF vars, LeftOutKept, LeftOut, TreeOf
<1>. QED
  BY <1>1, <1>2, <1>5, <1>6, <1>7, <1>8, <1>9 DEF Next

(* The names in the literals, the embed patterns, and the package and module
   directories of the checkout stand for every file the tests and the go
   command open: a gate a run leaves out would have read, on the run's commit,
   what it read on the base, unless a nested go.mod was taken away or a file
   the root package has compiled beside its source was changed
   (internal/scope/inert.go). *)
THEOREM LeftOutIsRead == Spec => []LeftOutIsUnmoved
<1>1. Init => LeftOutKept
  <2>1. SUFFICES ASSUME Init PROVE LeftOutKept
    OBVIOUS
  <2>2. \A i \in 1..Len(runs) : i = 1
    BY <2>1 DEF Init
  <2>3. runs[1].skipped = {}
    BY <2>1 DEF Init, Fresh
  <2>. QED
    BY <2>2, <2>3 DEF LeftOutKept
<1>2. TypeOK /\ LeftOutKept => LeftOutIsUnmoved
  <2>1. SUFFICES ASSUME TypeOK, LeftOutKept, NEW i \in 1..Len(runs), NEW g \in runs[i].skipped
                 PROVE  \/ Inputs(g, TreeOf(runs[i].base)) = Inputs(g, TreeOf(runs[i].commit))
                        \/ Unseen(TreeOf(runs[i].base), TreeOf(runs[i].commit))
    BY DEF LeftOutIsUnmoved
  <2>2. runs[i].commit \in 1..Len(commits) /\ runs[i].base \in 0..Len(commits)
    BY <2>1 DEF TypeOK
  <2>3. g \in LeftOut(runs[i].commit, runs[i].base)
    BY <2>1 DEF LeftOutKept
  <2>. QED
    BY <2>1, <2>2, <2>3, LeftOutReads
<1>. QED
  BY <1>1, <1>2, NextLeftOut, Typing, PTL DEF Spec
=============================================================================
