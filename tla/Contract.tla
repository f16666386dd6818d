-------------------------------- MODULE Contract --------------------------------
(***************************************************************************)
(* `lateregate contract`, which names every way a repository has drifted   *)
(* from the shared wiring, and `lateregate init`, which writes that wiring *)
(* (internal/contract/contract.go).                                        *)
(*                                                                         *)
(* A file is what the two tell apart in it, and who wrote it.  A           *)
(* repository is                                                           *)
(*   workflows   file name -> what it calls ("shared", "old" or nothing),  *)
(*               what it runs on, its concurrency, its gate_module, by     *)
(*   hook        pre-commit, pre-push: there, executable, delegates, by    *)
(*   hooksPath   what core.hooksPath says                                  *)
(*   ignored     what .gitignore lists, of the generated files and besides *)
(*   changelog   there, tracked, with an Unreleased heading, by            *)
(*   lintConfig  the rendered config: on disk, tracked                     *)
(*   make        target named for a gate -> its recipe delegates           *)
(*   pins        the module directories, and which of them pin the tool    *)
(*   cfg         ships, keeps its own lint config, declares an identity,   *)
(*               restates a default                                        *)
(***************************************************************************)
EXTENDS Naturals, Sequences, FiniteSets, SequencesExt

IsRepository(repo) ==
  repo = [workflows |-> repo.workflows, hook |-> repo.hook, prepush |-> repo.prepush,
          hooksPath |-> repo.hooksPath, ignored |-> repo.ignored, changelog |-> repo.changelog,
          lintConfig |-> repo.lintConfig, make |-> repo.make, pins |-> repo.pins, cfg |-> repo.cfg]

Ignored == {".golangci.yml", "coverage.out"}

-----------------------------------------------------------------------------
(* The workflow *)

Callers(repo, what) == {w \in DOMAIN repo.workflows : repo.workflows[w].calls = what}

(* on: both events, and main among the branches of the push where it lists
   any. *)
Triggered(w) == {"push", "pull_request"} \subseteq w.on /\ w.branches \in {"unsaid", "main"}

Concurrent(w) == w.concurrency = "superseded"

(* gate_module: unsaid or the root, or a directory inside that has a go.mod. *)
ModuleNamed(repo, w) == w.module \in {"", "."} \cup DOMAIN repo.pins

(* checkWorkflow: what is wrong with the callers, "sound" when nothing is. *)
CheckWorkflow(repo) ==
  LET shared == Callers(repo, "shared") IN
  IF \E c \in shared : LET w == repo.workflows[c]
                       IN  ~Triggered(w) \/ ~Concurrent(w) \/ ~ModuleNamed(repo, w) THEN "caller"
  ELSE IF Cardinality(shared) = 1 THEN "sound"
  ELSE IF shared # {} THEN "callers"
  ELSE IF Callers(repo, "old") # {} THEN "old" ELSE "nocaller"

-----------------------------------------------------------------------------
(* The rest of the wiring *)

Pinning(repo) == {d \in DOMAIN repo.pins : repo.pins[d]}

(* Whether the caller names a module other than the root. *)
Explicit(repo) ==
  CheckWorkflow(repo) = "sound"
    /\ \E c \in Callers(repo, "shared") : repo.workflows[c].module \notin {"", "."}

(* findPin: the root if it pins the tool, or the one module that does. *)
FindPin(repo) ==
  IF "." \in Pinning(repo) THEN {"."} ELSE Pinning(repo)

(* checkPin: the module the caller names, or the one that is found. *)
PinIn(repo) ==
  IF Explicit(repo)
    THEN {repo.workflows[c].module : c \in Callers(repo, "shared")} \cap Pinning(repo)
    ELSE FindPin(repo)

Shape(hook) == hook.there /\ hook.exec /\ hook.delegates

(* checkMakefile: a target named for a gate whose recipe does not reach the
   tool. *)
HandRolled(repo) == {t \in DOMAIN repo.make : ~repo.make[t]}

Finding(label, found) == IF found THEN {label} ELSE {}

(* Run: every drift. *)
Findings(repo) ==
  LET workflow == CheckWorkflow(repo) IN
  Finding(workflow, workflow # "sound" /\ ~(workflow = "nocaller" /\ repo.cfg.ships))
  \cup Finding("hook", ~Shape(repo.hook))
  \cup Finding("prepush", ~Shape(repo.prepush))
  \cup Finding("lintconfig", IF repo.cfg.own THEN ~repo.lintConfig.there
                                             ELSE repo.lintConfig.tracked)
  \cup Finding("gitignore", ~(Ignored \subseteq repo.ignored))
  \cup Finding("changelog", ~repo.changelog.there)
  \cup Finding("untracked", repo.changelog.there /\ ~repo.changelog.tracked)
  \cup Finding("heading", repo.changelog.there /\ repo.changelog.tracked /\ ~repo.changelog.unreleased)
  \cup Finding("identity", ~repo.cfg.identity)
  \cup Finding("restated", repo.cfg.restates)
  \cup Finding("makefile", HandRolled(repo) # {})
  \cup Finding("pin", Cardinality(PinIn(repo)) # 1)

-----------------------------------------------------------------------------
(* Init.  A write of a file empties or makes it before it fills it, and may fail
   before the one or the other: `text` says what it holds, "whole" or "empty". *)

Caller ==
  [calls |-> "shared", on |-> {"push", "pull_request"}, branches |-> "main",
   concurrency |-> "superseded", module |-> "", by |-> "init"]

(* `uses` is its last line. *)
Called(text) == IF text = "whole" THEN Caller ELSE [Caller EXCEPT !.calls = "nothing"]

(* A file that is there keeps its mode when it is written. *)
Script(hook, text) ==
  [there |-> TRUE, exec |-> hook.there => hook.exec, delegates |-> text = "whole", by |-> "init"]

WriteCaller(repo, text) ==
  IF CheckWorkflow(repo) = "nocaller" /\ ~repo.cfg.ships
    THEN [repo EXCEPT !.workflows =
            [f \in DOMAIN @ \cup {"ci"} |-> IF f = "ci" THEN Called(text) ELSE @[f]]]
    ELSE repo

(* Whoever wrote it: one that holds checks of its own is replaced. *)
WriteHook(repo, text) ==
  IF Shape(repo.hook) THEN repo ELSE [repo EXCEPT !.hook = Script(@, text)]

(* Mutant: a pre-push that is not the shared one is replaced too. *)
ReplacePrepush(repo, text) ==
  IF Shape(repo.prepush) THEN repo ELSE [repo EXCEPT !.prepush = Script(@, text)]

(* Only when there is none: it may hold a check somebody wrote. *)
WritePrepush(repo, text) ==
  IF repo.prepush.there THEN repo ELSE [repo EXCEPT !.prepush = Script(@, text)]

(* git puts its own file in place in one step. *)
SetHooksPath(repo, text) == IF text = "whole" THEN [repo EXCEPT !.hooksPath = ".githooks"] ELSE repo

(* It is read, and written anew with what it held. *)
WriteGitignore(repo, text) ==
  IF Ignored \subseteq repo.ignored THEN repo
  ELSE [repo EXCEPT !.ignored = IF text = "whole" THEN @ \cup Ignored ELSE {}]

SeedChangelog(repo, text) ==
  IF repo.changelog.there THEN repo
  ELSE [repo EXCEPT !.changelog = [there |-> TRUE, tracked |-> FALSE, unreleased |-> text = "whole", by |-> "init"]]

(* The writes, in order. *)
Writes == 6
Write(n, repo, text) ==
  CASE n = 1 -> WriteCaller(repo, text)
    [] n = 2 -> WriteHook(repo, text)
    [] n = 3 -> WritePrepush(repo, text)
    [] n = 4 -> SetHooksPath(repo, text)
    [] n = 5 -> WriteGitignore(repo, text)
    [] n = 6 -> SeedChangelog(repo, text)

(* What is there after the first n. *)
Upto(n, repo) ==
  LET after[m \in 0..n] == IF m = 0 THEN repo ELSE Write(m, after[m - 1], "whole")
  IN  after[n]

InitRepo(repo) == Upto(Writes, repo)

(* What is there when the n-th fails: nothing of it, or a file with nothing in
   it that anybody asks for. *)
FailsAt(n, repo) == {Upto(n - 1, repo), Write(n, Upto(n - 1, repo), "empty")}

-----------------------------------------------------------------------------

(* What init leaves to a person: the files that hold decisions, a pre-push
   somebody wrote, and a hook git does not run for its mode. *)
ByHand(repo) ==
  {"caller", "callers", "old", "lintconfig", "untracked", "heading", "identity", "restated",
   "makefile", "pin"}
  \cup Finding("prepush", repo.prepush.there)
  \cup Finding("hook", repo.hook.there /\ ~repo.hook.exec)

(* What a person wrote and init may not touch: the pre-push, the changelog, a
   pre-commit in shape, and every workflow but one that has init's own name and
   calls no pipeline.  It replaces that one, and a pre-commit of one's own. *)
Keeps(old, new) ==
  /\ old.prepush.there => new.prepush = old.prepush
  /\ old.changelog.there => new.changelog = old.changelog
  /\ Shape(old.hook) => new.hook = old.hook
  /\ \A f \in DOMAIN old.workflows :
       (f = "ci" => CheckWorkflow(old) # "nocaller") => new.workflows[f] = old.workflows[f]

(* What an init that is run again does not mend: an empty pre-push and an empty
   changelog are there, so they count as a person's, and contract names them;
   what .gitignore held beside the lines of init is gone, and nobody names it. *)
Unmended(n, again, done) ==
  \/ /\ n = 3 /\ again = [done EXCEPT !.prepush = again.prepush]
     /\ "prepush" \in Findings(again)
  \/ /\ n = 5 /\ again = [done EXCEPT !.ignored = again.ignored]
     /\ Ignored \subseteq again.ignored
  \/ /\ n = 6 /\ again = [done EXCEPT !.changelog = again.changelog]
     /\ "untracked" \in Findings(again)

(* An init that fails at any write, before it or in the middle of it, has kept
   what is a person's, the lines of .gitignore too unless it was that write.
   One that is run again ends where one that never failed does, but for the one
   file Unmended allows; and one that does not fail leaves nothing to say that
   is not for a person. *)
InitSettles(repo) ==
  LET done == InitRepo(repo) IN
  /\ \A n \in 1..Writes : \A stop \in FailsAt(n, repo) :
       /\ Keeps(repo, stop) /\ (n # 5 => repo.ignored \subseteq stop.ignored)
       /\ InitRepo(stop) = done \/ Unmended(n, InitRepo(stop), done)
  /\ Keeps(repo, done) /\ InitRepo(done) = done
  /\ Findings(done) \subseteq ByHand(repo)
  /\ Findings(done) \ {"untracked"} \subseteq Findings(repo)
=============================================================================
