------------------------------- MODULE SinceGreen -------------------------------
(***************************************************************************)
(* CI on the default branch with -since green (internal/greencut/since.go, *)
(* internal/scope, internal/bar): a run looks up the newest commit its     *)
(* workflow passed that HEAD contains, and leaves out the gates no file    *)
(* changed since can move.  The branch moves under the runs, runs overlap, *)
(* are cancelled and started over, and waivers die of age.                 *)
(*                                                                         *)
(* A tree is its Go source, the nested modules it is divided into, the     *)
(* content of its other files, and its bar: the gates .lateregate.yaml     *)
(* waives.  A gate that runs may pass or fail on the same tree; passed     *)
(* remembers what it has passed on.  The gates that take seconds always    *)
(* run and are not modelled.                                               *)
(***************************************************************************)
EXTENDS Inert

CONSTANTS
  Files,       \* the files that are not Go source, nor a nested go.mod
  Trees,       \* the trees commits hold: [source, data, bar]
  Begins,      \* bound: those of the first commit
  FrontendDirs,  \* frontend.projects, and the directories frontend.reads adds
  SuiteDirs,   \* the directories the e2e command suite reads
  Until,       \* the last day of each gate's waiver
  LastDay,     \* bound
  MaxStarts, MaxReds  \* bounds: the runs started, the gates that fail

Gates == {"suite", "e2e", "frontend"}

ASSUME SinceGreenAssumption ==
  /\ \A t \in Trees : t.data \in [Files -> {0, 1}] /\ t.bar \subseteq Gates
  /\ Begins \subseteq Trees
  /\ Until \in [Gates -> Nat]
  /\ LastDay \in Nat /\ MaxStarts \in Nat /\ MaxReds \in Nat

(* Paths as a walk of the checkout gives them: nothing is a file and the
   directory of a package, and no embed pattern is empty. *)
Path == Seq(STRING)

ASSUME SourcesAssumption ==
  /\ Files \subseteq Path /\ Compiled \subseteq Files
  /\ \A t \in Trees :
       /\ t.source \in [pkgs : SUBSET (Path \ Files), modules : SUBSET Path,
                       literals : SUBSET [dir : Path, text : Path],
                       embeds : SUBSET [dir : Path, text : Path \ {Root}]]
       /\ \A d \in t.source.pkgs : ToSet(d) \cap {".", ".."} = {}

VARIABLES
  commits,  \* each with its parent, 0 for the first, and its tree
  main,     \* the tip of the default branch
  day,
  runs,     \* the workflow's push runs on it, oldest first
  reruns,   \* how many were started over
  reds,     \* how many gates failed
  passed    \* the gates and what each has passed on

vars == <<commits, main, day, runs, reruns, reds, passed>>

(* A run's base is 0 when it reads the whole tree.  seen is what the runs
   endpoint answered, left the gates that have still to run. *)
Fresh(c) ==
  [commit |-> c, state |-> "started", seen |-> {}, base |-> 0, day |-> 0,
   skipped |-> {}, left |-> {}, red |-> FALSE]

Concluded == {"success", "failure", "cancelled"}
States == Concluded \cup {"started", "listed", "planned"}

Run == [commit : Nat, state : States, seen : SUBSET Nat, base : Nat, day : Nat,
        skipped : SUBSET Gates, left : SUBSET Gates, red : BOOLEAN]

TypeOK ==
  /\ commits \in Seq([parent : Nat, tree : Trees])
  /\ runs \in Seq(Run)
  /\ \A i \in 1..Len(runs) :
       /\ runs[i].commit \in 1..Len(commits)
       /\ runs[i].base \in 0..Len(commits)
       /\ runs[i].seen \subseteq 1..Len(runs)
  /\ main \in 1..Len(commits)
  /\ day \in Nat /\ reruns \in Nat /\ reds \in Nat

-----------------------------------------------------------------------------
(* What a gate reads, and what moves it *)

TreeOf(c) == commits[c].tree

On(t, files) == [f \in files |-> t.data[f]]
Under(dirs) == {f \in Files : \E d \in dirs : Within(f, d)}

GoInputs(t) == {f \in Files : ReadByGo(t.source, f)}

(* All that decides a gate's verdict, but chance.  A command suite may run Go
   besides the directories it says it reads. *)
Inputs(g, t) ==
  CASE g = "suite"    -> <<t.source, On(t, GoInputs(t))>>
    [] g = "e2e"      -> <<t.source, On(t, GoInputs(t) \cup Under(SuiteDirs))>>
    [] g = "frontend" -> <<On(t, Under(FrontendDirs))>>

ModFile(m) == Append(m, "go.mod")

(* The files git diff lists, the go.mod of a module made or taken away too. *)
Changed(t, u) ==
  LET made == u.source.modules \ t.source.modules
      gone == t.source.modules \ u.source.modules
  IN  {f \in Files : t.data[f] # u.data[f]} \cup {ModFile(m) : m \in made \cup gone}

Touches(files, dirs) == \E f \in files, d \in dirs : Within(f, d)

SameGo(t, u) == \A part \in {"pkgs", "literals", "embeds"} : t.source[part] = u.source[part]

(* No Go source changed, and by what the checkout lists, no other file that
   did is read. *)
GoInert(t, u) == SameGo(t, u) /\ Inert(u.source, Changed(t, u))

(* Mutant: a change to the bar does not check everything. *)
UnmovedByFiles(g, t, u) ==
  CASE g = "suite"    -> GoInert(t, u)
    [] g = "e2e"      -> GoInert(t, u) /\ ~Touches(Changed(t, u), SuiteDirs)
    [] g = "frontend" -> ~Touches(Changed(t, u), FrontendDirs)

(* Whether the change from t to u leaves a gate out: never when it touches the
   bar, and by each gate's own rule otherwise. *)
Unmoved(g, t, u) ==
  /\ t.bar = u.bar
  /\ CASE g = "suite"    -> GoInert(t, u)
       [] g = "e2e"      -> GoInert(t, u) /\ ~Touches(Changed(t, u), SuiteDirs)
       [] g = "frontend" -> ~Touches(Changed(t, u), FrontendDirs)

LeftOut(c, base) ==
  IF base = 0 THEN {} ELSE {g \in Gates : Unmoved(g, TreeOf(base), TreeOf(c))}

-----------------------------------------------------------------------------
(* The lookup *)

(* The history of a commit, itself included. *)
Behind(c) ==
  LET up[n \in 0..c] == IF n = 0 THEN {c}
                        ELSE up[n-1] \cup {commits[d].parent : d \in up[n-1] \ {0}}
  IN  up[c] \ {0}

(* Mutant: any run that ended is a base. *)
AnyEnded == {i \in 1..Len(runs) : runs[i].state \in Concluded}

(* The successful push runs. *)
GreenRuns == {i \in 1..Len(runs) : runs[i].state = "success"}

(* Those of them whose commit HEAD is at or past. *)
Contained(c, seen) == {i \in seen : runs[i].commit \in Behind(c)}

(* The commit of the newest of those; none when there is none, or when an
   answer or a fetch fails. *)
Bases(c, seen) ==
  LET behind == Contained(c, seen)
  IN  {0} \cup {runs[i].commit : i \in {j \in behind : \A k \in behind : k <= j}}

-----------------------------------------------------------------------------
(* A run *)

(* Green: the runs endpoint is read. *)
ListRuns(i) ==
  /\ runs[i].state = "started"
  /\ runs' = [runs EXCEPT ![i].state = "listed", ![i].seen = GreenRuns]
  /\ UNCHANGED <<commits, main, day, reruns, reds, passed>>

Waived(t) == {g \in t.bar : day <= Until[g]}

Planned(i, base) ==
  LET c == runs[i].commit
      waived == Waived(TreeOf(c))
      skipped == LeftOut(c, base) \ waived
  IN  [runs[i] EXCEPT !.state = "planned", !.seen = {}, !.base = base, !.day = day,
                      !.skipped = skipped, !.left = Gates \ (waived \cup skipped)]

(* Green ends, and Plan decides each gate: a live waiver first, then what the
   change leaves out. *)
Plan(i) ==
  /\ runs[i].state = "listed"
  /\ \E base \in Bases(runs[i].commit, runs[i].seen) :
       runs' = [runs EXCEPT ![i] = Planned(i, base)]
  /\ UNCHANGED <<commits, main, day, reruns, reds, passed>>

(* The environment does not name the repository, the workflow or a token. *)
PlanWhole(i) ==
  /\ runs[i].state = "started"
  /\ runs' = [runs EXCEPT ![i] = Planned(i, 0)]
  /\ UNCHANGED <<commits, main, day, reruns, reds, passed>>

Judge(i, g) ==
  \/ /\ runs' = [runs EXCEPT ![i].left = @ \ {g}]
     /\ passed' = passed \cup {<<g, Inputs(g, TreeOf(runs[i].commit))>>}
     /\ UNCHANGED reds
  \/ /\ runs' = [runs EXCEPT ![i].left = @ \ {g}, ![i].red = TRUE]
     /\ reds < MaxReds /\ reds' = reds + 1
     /\ UNCHANGED passed

(* The jobs of the gates run side by side; what the suite and the frontend say
   depends on nothing else, so one order stands for both. *)
RunGate(i) ==
  /\ runs[i].state = "planned"
  /\ IF "suite" \in runs[i].left THEN Judge(i, "suite")
     ELSE "frontend" \in runs[i].left /\ Judge(i, "frontend")
  /\ UNCHANGED <<commits, main, day, reruns>>

(* The e2e gate asks the scope again, suite by suite, of a base its own job
   looked up; a suite no change since can move is passed over. *)
RunE2E(i) ==
  LET c == runs[i].commit IN
  /\ runs[i].state = "planned" /\ "e2e" \in runs[i].left
  /\ \E base \in Bases(c, GreenRuns) :
       IF "e2e" \in LeftOut(c, base)
         THEN runs' = [runs EXCEPT ![i].left = @ \ {"e2e"}] /\ UNCHANGED <<reds, passed>>
         ELSE Judge(i, "e2e")
  /\ UNCHANGED <<commits, main, day, reruns>>

Conclude(i) ==
  /\ runs[i].state = "planned" /\ runs[i].left = {}
  /\ runs' = [runs EXCEPT ![i] =
       [Fresh(@.commit) EXCEPT !.state = IF runs[i].red THEN "failure" ELSE "success",
                               !.day = runs[i].day]]
  /\ UNCHANGED <<commits, main, day, reruns, reds, passed>>

-----------------------------------------------------------------------------

(* The first commit's run read the whole tree, and passed. *)
Init ==
  /\ \E t \in Begins :
       /\ commits = <<[parent |-> 0, tree |-> t]>>
       /\ passed = {<<g, Inputs(g, t)>> : g \in Gates \ t.bar}
  /\ main = 1 /\ day = 1
  /\ runs = <<[Fresh(1) EXCEPT !.state = "success", !.day = 1]>>
  /\ reruns = 0 /\ reds = 0

-----------------------------------------------------------------------------
(* GitHub *)

(* A push, of a commit on the tip or of one that leaves it behind. *)
Push ==
  /\ Len(commits) + reruns < MaxStarts
  /\ \E p \in 1..Len(commits), t \in Trees :
       commits' = Append(commits, [parent |-> p, tree |-> t])
  /\ main' = Len(commits')
  /\ runs' = Append(runs, Fresh(main'))
  /\ UNCHANGED <<day, reruns, reds, passed>>

(* A newer push cancels the runs before it, if they are not done first. *)
Cancel(i) ==
  /\ i < Len(runs) /\ runs[i].state \notin Concluded
  /\ runs' = [runs EXCEPT ![i] = [Fresh(@.commit) EXCEPT !.state = "cancelled"]]
  /\ UNCHANGED <<commits, main, day, reruns, reds, passed>>

Rerun(i) ==
  /\ Len(commits) + reruns < MaxStarts /\ reruns' = reruns + 1
  /\ runs[i].state \in Concluded
  /\ runs' = [runs EXCEPT ![i] = Fresh(runs[i].commit)]
  /\ UNCHANGED <<commits, main, day, reds, passed>>

NextDay ==
  /\ day < LastDay /\ day' = day + 1
  /\ UNCHANGED <<commits, main, runs, reruns, reds, passed>>

Next ==
  \/ Push \/ NextDay
  \/ \E i \in 1..Len(runs) :
       \/ ListRuns(i) \/ Plan(i) \/ PlanWhole(i) \/ RunGate(i) \/ RunE2E(i)
       \/ Conclude(i) \/ Cancel(i) \/ Rerun(i)

Spec == Init /\ [][Next]_vars

-----------------------------------------------------------------------------

Proven(g, t) == <<g, Inputs(g, t)>> \in passed

(* What the rule for inert files does not see.  A go.mod that is taken away is
   in no listing of the checkout, and the packages below it join ./... of the
   root module.  And a file of the root package's own directory that the go
   command compiles with it is under no directory underPackage asks about. *)
Unseen(t, u) ==
  \/ t.source.modules \ u.source.modules # {}
  \/ Root \in u.source.pkgs /\ \E f \in Changed(t, u) \cap Compiled : Front(f) = Root

AllSeen == \A b, c \in 1..Len(commits) : ~Unseen(TreeOf(b), TreeOf(c))

(* "Main stays held to the whole bar by induction": while no commit differs
   from another in a way the rule does not see, every gate of a green commit
   passed on exactly what that commit gives it to read, in some run, unless the
   commit's own configuration waives the gate, however many runs in a row left
   it out. *)
GreenIsHeld ==
  AllSeen =>
    \A i \in 1..Len(runs) : runs[i].state = "success" =>
      \A g \in Gates \ TreeOf(runs[i].commit).bar : Proven(g, TreeOf(runs[i].commit))

(* A gate is left out only when nothing it reads differs from the base, but for
   what the rule does not see: the names in the literals, the embed patterns,
   and the package and module directories of the checkout stand for every other
   file the tests and the go command open on either side. *)
LeftOutIsUnmoved ==
  \A i \in 1..Len(runs) : \A g \in runs[i].skipped :
    LET t == TreeOf(runs[i].base)
        u == TreeOf(runs[i].commit)
    IN  Inputs(g, t) = Inputs(g, u) \/ Unseen(t, u)

(* "An expired waiver does not skip the gate.  It runs and fails on its own
   terms": a run planned when no waiver lives is green only if every gate
   passed on its tree. *)
ExpiredIsRun ==
  \A i \in 1..Len(runs) :
    runs[i].state = "success" /\ (\A g \in Gates : runs[i].day > Until[g]) =>
      \A g \in Gates : Proven(g, TreeOf(runs[i].commit))
=============================================================================
