# A verification development of lateregate

TLA+ models of the concurrent and stateful parts of `lateregate`
(`latere.ai/x/ci-gate`), the TLC runs that check them and the theorems proved
about them with TLAPS. Every definition is translated from the Go source;
`PROJECT.json` names the lines each one stands for.

## The system

`lateregate` is the local bar of a repository: one command that runs every
quality gate, a release command that cuts a tag over a green bar, an end-to-end
runner, and a deployment from a workstation. What is hardest to get right, and
what most of this project is about, is where runs of the tool meet each other or
something that changes under them. Most gates are static scanners with no state;
those whose rules meet each other are modelled too, as functions of what they
read.

| Part | State it keeps | Operations | What makes it correct |
|---|---|---|---|
| Suite sandbox (`internal/gates/tempdir*.go`) | one directory and one lock file per repository, user and machine | claim, run, judge, release | runs take turns; a run reports its own leaks and no others; a killed run blocks nobody |
| Container sweep and check (`internal/containers`, `reap`, `internal/gates/containers.go`) | labels on the containers and networks of one engine | `reap.Sweep`, the opening sweep, the check after the run | a live owner's container is never taken; a run fails on what it left, and on that alone; orphans go |
| The bar (`internal/bar`, `internal/gates/suite.go`) | a plan, the gates' verdicts, one suite per module | `Plan`, `Check`, `inModules`, `Suite` | no vacuous pass, no hidden leak, no failure nobody owes |
| Release cut (`internal/changelog`, `cmd/lateregate`) | a checkout, its tags, origin | `Ready`, the bar, `Cut`, undo | a tag is origin's tip plus one commit, over a bar that passed on it; a failed cut is undone |
| Green guard (`internal/greencut`) | what it has read of GitHub | the paged read of runs, the release run, the Release | no red slips by, nothing passes vacuously |
| End-to-end runner (`internal/e2e`) | a tool cache, the services of a suite | fetch, start, run, stop | services go whatever happens; a pass proves something |
| Change scope and coverage floor (`internal/scope`, `internal/bar/scope.go`, `internal/cover`) | an overlay of the base, for the length of a run | the packages a change reaches; the base's run of their tests; the floor over both | what is skipped cannot move the verdict; a scoped check and the whole bar agree |
| Runs since the last green (`internal/greencut/since.go`, `internal/scope/inert.go`, `internal/bar`) | CI's record of which commits it passed | the lookup of a base, the plan without the gates no change can move, the run | a green commit has passed the whole bar, however many runs in a row left a gate out |
| Ship (`internal/ship`) | a registry, a cluster, a vault, GitHub's releases, a temporary kubeconfig | push, deploy, publish, deploy-credential, the signal goroutine | what is said to be live is; the credential goes; what is stored was proven |
| Configuration, contract and init (`internal/config`, `internal/contract`) | a repository's wiring | load, the drift report, `init`'s writes | init ends in shape and keeps what it says it keeps, but for three writes that fail half way; a key reported as restated can go |
| Postgres gate (`internal/postgres`), spec-lint (`internal/speclint`) | none | one reading of the tree | a tree that passes is what it declares |
| Other static gates (`internal/identity`, `platformsdk`, `words`, `license`, `enumcheck`, ...) | none | one scan each | a finding where the rule is broken |

How they interact: a check (`bar.Check`) runs the gates one after another; the
suite gate claims the sandbox, opens the container watch, runs `go test` in each
module and judges all of it. Test processes call `reap.Sweep` and label what
they start; the watch gives them the run's name through the environment. The
release command asks the green guard, then `Ready`, then runs the whole bar, then
`Cut`, which asks `Ready`'s questions again. In CI the bar is given a base, looked
up at GitHub, and `Plan` leaves out the gates that no file changed since can move.
Ship takes the tag a cut has pushed, and touches nothing else of the tool's.
Nothing but the file system, the engine, git, GitHub and what ship deploys to is
shared between processes, and each is modelled as what the code asks of it.

What is hard here: two runs of one repository on one machine (a push and a pull
request on two runner slots); runs killed anywhere, by a cancelled pipeline or a
timeout; lists read from an engine or from GitHub and acted on after they have
changed; pids that are reused; pushes whose answer is lost; a signal that arrives
while a credential is being written; and gates that are folded, waived, skipped
and narrowed by rules that meet each other.
`PROJECT.json` lists each hazard at its line, with the properties that would see
it go wrong.

## The modules

**`Sandbox`** is `TempDir` and `claimSandbox` with `lockFile`. `pc` is the run's
place in that code; `flocks` the kernel's table, so killing a run drops its lock
as closing its descriptor does; `files` the directory's entries, each with the
run whose suite made it. The suite is a process of its own, `child`, which writes
to the path whatever directory is there. `Pinned` names are the ones `RemoveAll`
cannot delete. `OrphansOutlive` says whether the suite of a killed run may go on.

**`PrivateSandbox`** is the abstract specification: a run with a directory nobody
else uses, judged on what it holds. It is also what a platform without `flock`
has, where the code makes a directory per run. `Sandbox` refines it
(`AsIfPrivate`).

**`Containers`** is `remove` of `owner.go`, one engine request a step, run by
three callers: helpers that sweep, the sweep that opens a gate's run, and the
check after it. A label holds the owner and the run, written when the thing is
made; `Alive` is what `kill(pid, 0)` answers, so a reused pid looks alive. The
engine may take a while over a removal, answer 409 or 404, refuse a network in
use, or fail a request (`MaxFaults`).

**`Bar`** is `Plan`, the loop of `Check`, `inModules` and `Suite`. A gate other
than the suite holds or does not. The suite's steps follow the code's order, with
each early return; what is wrong with a module is a set of broken properties. A
change is what the scope tells apart in one: whether it is inert to Go, the modules it
touches, and the gates beside Go whose own inputs it moves (`OwnInputs`: the e2e
suites, the frontends, the image, Lake).

**`Release`** is `Ready`, the bar and `Cut` in several checkouts of one or more
clones. A commit is its history, its Unreleased section and its released
sections; a push is atomic at the remote, and may be accepted and its answer
lost. People pull, commit, reset and delete tags in a checkout at rest, and pull in
one while its bar runs (`PullUnderBar`): the gates then read one tree and then
another (`Mixed`), and `Cut`, which looks at HEAD again, goes on over the new tip.
Nobody moves a checkout in the moments of the cut itself. Nobody deletes a tag that a
cut in another worktree has made and not yet pushed (`InUse`), although the refusal of
a second release of a version tells one to. The push names the tag and not its
commit, so a tag deleted and made again in between would land off the branch.

**`ReleaseLine`** is what readers of releases are promised: each release takes
all that waits, under a version above every other. `Release` refines it
(`AsALine`).

**`GreenCut`** is `scan` and `Check` of the guard: a page of runs a step, while
runs start, conclude and are started over. `steady` remembers which runs have not
changed since the check began, so that a property can speak of a run that was red
throughout.

**`E2E`** is `RunSignals`, the loop over the suites, `tools.Dir` and `Host`: runs
that take suites in turn, fetch tools into one cache and start services on one
engine, a request or a download a step. A service is known by its name, made of
suite, service and pid, so a pid used again meets what a killed run left. A start
whose client goes may be carried out later (`late`); a run is interrupted, which
ends its context, or killed, which forgets what it started. `proved` remembers
what the suite's process did, so that a property can hold a verdict against it.
The code counts a skip as a test that ran, so Go tests that all skip pass where
`allow_skip` gives leave; the model says the same.

**`Scope`** is a check scoped to a change, a phase a step: `measure` over the
listing of the checkout, the suite over what it reaches, `Baseline` and
`untouchedLost`, and the floor. A tree is what `go list` says of it. What the
tests of a package cover is an arbitrary function of the tree, which a change may
move only where it moves something their binary links or reads (`Moved`): that is
all the model knows of Go. `Green` is the verdict of the whole bar, and the
properties hold the scoped one against it. The environment's side of it is
`Edits` (what an edit can do to a listing), `OwnFiles` and `DropsEmbedded`:

- the base passed the whole bar, on this machine's tests, and tests do the same
  each time they read the same;
- a test opens files of its own package alone (`specs/031` says the scope does
  not see others), and none that a package also embeds: the code takes an
  embedded file for replayed even where a test opens it too;
- an edit puts no new package between a file and the tests that open it;
- a package's statements have one name at the base and in the checkout. Only
  those of unchanged packages are compared, and their source is the same;
- the module is one: changes in nested modules are judged by suites of their own,
  and a `go.mod` that turns a package into one is not seen by the scope.

**`Inert`** is `internal/scope/inert.go`: which changed files no Go gate reads, from
the names in the literals, the embed patterns, and the package directories and nested
modules of the checkout. Beside the code's answer it says what the toolchain and the
tests of a tree really open: a literal's path with its `..` resolved, a pattern's
matches and what lies below them, a package's own directory, the files the go command
compiles beside Go source (`Compiled`) in any package, the root's among them. A path
is a sequence of elements.

**`SinceGreen`** is CI of the default branch with `-since green`, over `Inert`. A
run reads GitHub's list of runs (`ListRuns`), takes the newest commit among the
green ones that HEAD contains as its base (`Plan`) or the whole tree (`PlanWhole`),
leaves out the gates the change cannot move, runs the rest and concludes.
Meanwhile commits are pushed and force-pushed, runs overlap, are cancelled and
started over, and waivers die of age. A gate may pass or fail on one tree, as a
flaky test does; `passed` remembers what each has passed on, so that a property
can hold a green commit against it. Two changes are not seen by the rule: one that
takes a nested `go.mod` away, whose directory is then in no listing, and one of a file
that the root package compiles. The properties except them by name (`Unseen`, and
`SinceGreen.AllSeen` for a history without one), and the run's trees have both.

**`Ship`** is `push`, `deploy`, the GitHub release and `deploy-credential`. A
command is a process with three parts that move by themselves: its main goroutine
(`pc`, `job`), the goroutine `guard` starts for signals (`handler`), and the
program it runs (`child`), which goes on when its parent is gone. `removal` is the
`sync.Once` of the secrets' removal, which both goroutines call and the later one
waits in. Others deploy, push the same version again, roll the deployment and
rotate the identity's token at any step. `past` holds what properties ask of the
past: the tokens the cluster took once, who has been overtaken by another's
`kubectl`, and in `late` the commands whose credential was written too late for the
removal: by the command itself or by the program it waits for, once the signal's
removal had begun, or by a program the command did not outlive.

**`Gates`** asks each of five stateless gates about one input, an action each; the
gates are modules of operators:

- **`JSONBytes`**, the typed pass of the postgres gate: a program's functions are
  read in order, what an expression may hold is traced through locals and through
  summaries settled in rounds, and each statement's parameter is judged. The
  reference is `Values`, a least fixed point over the same program, and `Fails`,
  what pgx in exec mode and the server refuse.
- **`Postgres`**, the block of the configuration and the checks of each role over a
  tree of Go files.
- **`SpecLint`**, every rule of the gate over specs at work and archived, each under
  the keys that ask for it (`sequential`, `cite`, a status vocabulary, an exempt
  section), with `CheckAcyclic`'s depth-first search in the code's order, a recursive function from
  a spec and the walk so far to the walk after it.
- **`Contract`**, each drift the report names, and `init` as six writes in order,
  any of which may fail before it begins or in the middle (`FailsAt`): `os.WriteFile`
  creates and truncates first, so the file is then there and empty.
- **`Config`**, what a file may say, what is filled in, and which keys are reported
  as restating a default, over a file as a function from its keys.

The theorems about a component are in a module beside it: `SandboxProofs`,
`ScopeProofs`, `ContainersProofs`, `E2EProofs`, `ShipProofs`; `ReleaseProofs` for
`Release` and the guard of its cut, `GreenCut`; `BarProofs` for `Bar` and the gates
of `Gates`; and `SinceGreenProofs` for `SinceGreen` and `Inert`. Where one module
proves about two specifications it extends both, which is why `GreenCut` and `Gates`
have `Init`, `Next` and `Spec` under names of their own (`GreenSpec`, `GatesSpec`).

The `MC` modules give the constants that are functions, sequences or sets of inputs,
and the symmetry.

## The runs

| Run | Asks | Bounds |
|---|---|---|
| `sandbox` | turns, isolation, no hidden leak, the refinement (a suite starts over an empty directory among it), progress | 3 runs, an entry of each kind (a leak, an allowed one, an undeletable one); a third run is what makes a waiter overtaken |
| `containers` | live owners kept, blame, nothing left behind a pass, orphans go | 3 processes on 2 hosts with 1 pid each (so pids are reused), 1 gate, 1 sweeper, 1 container, 1 network, 1 fault |
| `bar` | vacuous passes, hidden leaks, wrong blame, modules left out | root and one module, 9 gates, one for each rule of the scope (`vuln`, which reads Go and which a laptop narrows by the root module alone, `e2e` with inputs of its own, the suite, narrowed as `lint` is, and what folds into it), 2 waivers, 2 defects, every change |
| `release` | tags and branch agree, undo, what is shipped, one line | 2 checkouts of 1 or 2 clones, 2 versions, 4 commits, 1 fault or crash, a pull at any time but during a cut |
| `green_cut` | red between pages, answered red, passes that were not earned | 2 workflows, up to 3 runs listed and 2 events during the read, pages of 1 row, 2 pages |
| `e2e` | services kept, a verified cache, whole passes, nothing left, an interrupt ends a run that the engine answers | 2 runs over 2 pids (so a killed run's pid is reused), Go tests with 2 services and a fetched tool, a command with a runner's tool that may skip, 3 requests, 1 engine fault |
| `scope` | is anything that moved left out, and does the scoped verdict differ from the whole bar's | 3 packages, one below another, with 2 statements in one of them; 2 data files, opened, embedded, or embedded from further up; 38 trees; edits of at most one package and one file, of two packages, or of a global file; every outcome of every test it moves |
| `scope_dropped` | does deleting a file embedded from further up escape the scope? It does | the same |
| `ship` | is what is said to be live live, does the credential go, was what is stored proven, does an interrupt end a command | 2 workstations, one that deploys and stores credentials and is interrupted, one that pushes, deploys and publishes; 2 commands over both, 2 tags (one a prerelease), 1 further build, 2 tokens, 2 attempts of the live check |
| `since_green` | is a green commit held to the whole bar, is what was left out unmoved | 3 gates that may be left out, 7 files that literals, patterns and directories cover or do not, one of them assembly, a nested module that loses its `go.mod`, 9 trees, waivers of 1 day over 2 days, 3 runs started, 1 gate that fails |
| `since_expired` | does a waiver that expires bring its gate back? It does not | the same |
| `gates` | the five stateless gates, each against what it is for | 70 444 inputs: programs of two helpers and a statement; pairs of Go files under every role; every graph over 3 specs and 2 specs that move; each file of the wiring in each state; files of up to 3 keys |

The bounds are the smallest at which each hazard occurs: two removers and a
killed gate around one container; two releasers and one lost answer; a page
boundary with a run on each side of it, one more than the pages hold, and two
events between the pages, one to shift a row and one to change it. Pages of one
row stand for pages of a hundred: only where a boundary falls matters. Two commands
suffice for ship's hazards, each a meeting of one command with a signal, a program
it left running, or one other command. Three runs are a green one, one left out
on its account, and one more on the account of that, which is where the induction
would break. The gates' inputs hold each value their rules tell apart, and pairs of
the places where two rules meet.

Deadlock is checked in the sandbox's run, whose last state is the explicit
`Quiet`. The others really stop: a check ends, a gate has answered, the bounds on
commits, events and ids run out.

The modules' type invariants (`TypeOK`) are theorems (below) and no question of a
run. `Gates` has none: what its inputs are is what its assumptions say.

### Fairness

`Sandbox.FairSpec` has weak fairness of each run's own steps, its suite's end
among them: `go test` has a timeout of its own, and a blocked `flock` is granted
when the lock is free. Nothing makes a run start, or a suite write. `WaitLock` is
weakly fair only: a run waiting on a lock is not overtaken for ever, because
there are finitely many runs and each ends.

`Containers.FairSpec` has the engine finish what it has begun, and the helpers'
sweeps go on and come back: a test helper sweeps before every container it
starts. Nothing makes a gate, a process or a failing request go on.

`E2E.FairSpec` has weak fairness of each run's own steps (`OwnStep`): a wait for a
service and a suite have deadlines in the code. The engine is owed nothing: a run asks
it through `gates.OSExec`, under `context.Background()` and with no deadline, so a
request that is not answered holds even an interrupted run, and `InterruptStops`
excepts a run that is on the engine for ever (`OnEngine`). A download has no deadline
either (`http.Client` without a timeout) but has the context, so it is sure to end
once that has: `DownloadCancelled`. An uninterrupted run need not end, and no
property says it does.

`Ship.Spec` has weak fairness of the signal goroutine alone: it takes the signal,
removes the files and exits, whatever the program the command waits for does. A
script may hang, `kubectl` may hang, and a command nobody interrupts need not end.

## The theorems

About `Sandbox`, for any sets of runs and names, from `SandboxAssumption` alone:

- `Typing`: `Spec => []TypeOK`.
- `Exclusion`: `Spec => []MutualExclusion`. The inductive invariant `LockInv`
  says that a run past the lock holds the file at the lock's path, that the path
  never changes once made, and that one file has one holder. Mutual exclusion
  alone is not inductive: it does not say which file a run holds, and removing
  the file at release would break it (the mutant `UnlockRemovingFile`).
- `Isolation`: `Spec => []ReportsOnlyOwn` when suites do not outlive their runs
  (`~OrphansOutlive`). `OwnInv` adds that from `EmptySandbox` to the release the
  directory holds the holder's entries only, and that a running suite's run is
  testing. The assumption is needed: with
  `OrphansOutlive = TRUE`, 2 runs and 1 entry, TLC finds a run that reports what the
  suite of a killed one wrote.
- `Emptiness` and `Visibility`: `Spec => StartsEmpty` and `Spec => LeaksStayVisible`,
  action properties, under the same assumption. `OwnInv` has the directory empty from
  `EmptySandbox` to the start of the suite, and by `LockInv` no run that could empty
  it is beside one that tests.
- `Implements`: `Spec => AsIfPrivate`, under the same assumption, which the code does
  not ensure (`OSExec` leaves the suite of a killed run to itself): the initial
  state maps to the initial state, and each action to a start, a change, a
  judgement, a refusal, a kill or a stutter of that run's private sandbox.

About `Scope`, for any packages, trees, statements, threshold and changes, from
`ScopeAssumption`, `TreesAssumption` and `~DropsEmbedded`, which `scope_dropped`
shows to be needed:

- `Outside`: `Spec => []OutsideIsTheBases`. A package outside Reached links no
  owner of the change (`ImportersLink`); an edit that touches nothing a package
  links leaves what it links (`SameLinks`); so what it links and reads is the
  base's (`OutsideUnmoved`).
- `Agrees`: `Spec => []Agreement`. Agreement alone is not inductive: the verdict
  of `Judge` rests on what `Compare` found two steps before. The invariant `IInv`
  keeps the facts in between: what was measured (`Scoped`), that the run was
  green, and that a package compared and not counted as lost is covered by the
  run wherever the base's tests of the same packages covered it (`Compared`).
  From these a package kept clears the floor (`KeptClears`: its base figure was
  enough, and every test either did not move or lost nothing), and one judged is
  judged at the whole suite's figure (`JudgedWhole`: no test outside the two runs
  links it). `ClearsMore` is the one fact about cardinalities.
- `Typing`: `Spec => []TypeOK`, from the same invariant.

About `SinceGreen` and `Inert`, for any files, trees, waivers, and any number of
commits, runs and days, from `SinceGreenAssumption` and `SourcesAssumption`. The
second says what a walk of a checkout gives: paths are sequences of elements, no
file is the directory of a package, a package's directory has no `.` or `..` in it,
and no embed pattern is empty, which `go build` refuses. It makes the compiled files
some of the files, and nothing more of them.

- `Typing`: `Spec => []TypeOK`.
- `LeftOutIsRead`: `Spec => []LeftOutIsUnmoved`. The heart of it is `UnmovedReads`,
  about the rules alone: a gate left out by the change from one tree to another
  reads the same of both, unless the change is one the rules do not see: a nested
  `go.mod` that goes, or a file the root package compiles (`Unseen`). A file the go command takes lies under a package or a
  pattern that the needles have (`NotBuilt`, `EmbedsAbove`). A file that a test
  opens by joining literals to its own directory is the harder case: whatever `..`
  does, the cleaned path is a prefix of the directory followed by elements of the
  literals (`Joined`, by induction over the path), so to name a file outside the
  directory some literal spells an element of that file's path (`NotOpened`), and
  `needles.names` asks for just that. The trees may be any; the run has a few.
- `Induction`: `Spec => []GreenIsHeld`, with `UnmovedReads` behind it, of histories
  that hold no change the rules do not see.
  `GreenIsHeld` alone is not inductive: a run that is under way has seen a list of
  green runs and planned on it, and the list may have changed since. `HeldInv` adds
  that a run seen green is held though it is no longer listed so (`SeenHeld`; what a
  gate has passed on is not forgotten), and that a run under way with nothing red
  has every gate proved that it has not still to run (`PlanHeld`). `LeftOutHeld` is
  the step where one green run stands on another: a gate left out is proved on the
  base, and `UnmovedReads` carries that to the commit.

About `Containers`, for any hosts, processes, pids, gates and sweepers, any
containers and networks and any bound on faults, from `ContainersAssumption`:

- `Typing`: `Spec => []TypeOK`.
- `Blame`: `Spec => []BlamesOnlyOwn`, and `Pass`: `Spec => []PassLeavesNothing`.
  A label is written once (`MadeOnce`, `RunIsOwners`); a gate at its check has no
  process left that could make more (`GateAlone`); what a check has in hand carries
  its run's label (`HandOwn`); and a check that has met nothing and no error has
  walked over nothing of its run's that is still there, kind by kind in the order
  of the walk (`CleanWalk`).
- `LiveOwner`: `Spec => LiveOwnerKept`, an action property. What is picked has an
  owner that answers no `kill`, or is of a check's own run, whose processes have
  ended (`LiveIsNotPicked`, from `GateAlone` and `HandOwn`); a reused pid can only
  make the dead look alive.

About `Bar`, for any order of any gates, any modules, configuration and defects,
from `BarAssumption`:

- `Typing`: `Spec => []TypeOK`.
- `Failure`, `Leaks`, `Judged` and `Pass`: `FailureIsOwed`, `LeaksReported`,
  `EveryModuleJudged` and `PassIsEarned`. None is inductive: they speak of the end of
  a walk over modules inside a walk over gates. `BarInv` says what each place of
  both means: the plan is made once (`PlanInv`); before the suite's place no module
  is judged, and after it all are or a listed one was missing (`SuiteInv`); and for
  the module whose suite runs, what it has found so far is what is wrong of the
  properties already asked (`FoundInv`), which its judgement then keeps (`Settled`).

About `Release`, for any checkouts of any clones, any versions and bounds, from
`ReleaseAssumption`:

- `Typing`: `Spec => []TypeOK`.
- `TagsMatch`, `Undone`: `Spec => []TagsMatchBranch`, `Spec => []UndoneIsClean`.
- `Shipped`: `Spec => ShipsWhatWasBarred`, an action property of the push.
- `Refinement`: `Spec => AsALine`: the initial state maps to the initial state of
  `ReleaseLine`; a push that the remote takes maps to one release of all that waits,
  a commit people land to one more change that waits, and every other step to a
  stutter.

All of these rest on `LineInv`, one conjunct for each thing a cut relies on and another
checkout could undo: the base it stands on is on the branch (`OnBranch`), the bar
passed on it and its version is the newest as long as origin has not moved
(`Justified`), its head is its own changelog commit (`HasCut`) that nobody has
pushed (`Unsent`), and the tag at its head is its own (`OwnTag`). A push is taken
only if origin is where the cut found it, which turns "as long as origin has not
moved" into the fact the push needs.

About `GreenCut`, for any workflows, page size and number of pages, any list of
runs and whatever GitHub does meanwhile, from `GreenCutAssumption`:

- `GreenTyping`: `GreenSpec => []GreenTypeOK`.
- `NoRed`, `OnTheAnswer`, `Unforced`: `NoRedSlipsBy`, `RefusedOnTheAnswer`,
  `UnforcedIsEarned`. A row that is put on top while the pages are read pushes the
  others down, so one that was there before the first page may be read twice, and is
  never passed over. `WalkInv` says so: a steady row that the pages have
  reached is listed, and if it answers for its workflow, it or a newer one has been
  taken (`Taken`); and what was taken is right about its workflow (`Right`).

About `E2E`, for any runs, suites, services, tools, requests and bound on faults,
from `E2EAssumption` and `RequestsAssumption`:

- `Typing`: `Spec => []TypeOK`. That what a run is asked for is a sequence of suites
  is proved of `e2eItems`' loop, over its length (`ItemsTyped`).
- `Cache`: `Spec => []CacheIsVerified`; `ServicesStay`: `Spec => []ServicesHold`;
  `Whole`: `Spec => []PassIsWhole`; `Ended`: `Spec => []EndedLeavesNothing`.
  `RunInv` adds to them that live processes have different pids (`Distinct`), that
  what `Stop` is to remove has the run's own name (`StartedOwn`), which service is
  being brought up (`Probing`), that a suite is at its stop without an error only if
  its process proved it (`Proven`), that results are recorded in the order of the
  items (`Recorded`), and that whatever is on the engine under a run's name is one
  the run still has to stop, or the engine has failed a request (`Kept`).
- `Earned`: `Spec => PassProves`, an action property.

About `Ship`, for any workstations, tags, builds, tokens and attempts, from
`ShipAssumption`:

- `Typing`: `Spec => []TypeOK`. A command about a tag has one until it ends
  (`TagInv`), which typing needs: the reference a push makes is a tag's. That there is
  a highest of the tags at HEAD is by least number again (`Least`, `HighestIn`).
- `Credential`: `Spec => []CredentialGoes`. `CommandInv` says how a command's parts go
  together: the signal goroutine and the secrets' directory are there from `MkdirTemp`
  to the removal and nowhere else (`GuardInv`), a program that runs is the one its
  command waits for (`ChildInv`), and a removal has been asked for by the end or the
  signal, the end waiting for whichever came first (`RemovalInv`). On it stands
  `LateInv`: a credential that is there after the removal has listed the directory was
  written later, by the command itself or the program it waits for beside the signal's
  goroutine or by a program that outlived the command, or its command was killed.
  The documents promise a removal on every exit path; the late writes are a finding.
- `Stored`: `Spec => []StoredIsProven`. `ProvenInv` adds the two places between the
  cluster's answer and 1Password's: the dry run that was answered, and the program
  that stores.
- `Live`: `Spec => []DeployedIsLive`. An image is of its command's tag, in the
  registry too (`ImageInv`, `RegistryInv`); what a command has applied, set and seen
  answer is still so if no other has touched the cluster since, place by place
  (`RolloutInv`); and one that ends well has published (`PublishInv`). A step of
  another's `kubectl` either changes nothing of this or records the touch
  (`ClusterMoves`).

About the gates of `Gates`, which are asked once and keep nothing, so that the
invariant is only which inputs a gate is asked about (`AskedOfIts`) and the proof is
of the rules themselves, for every input:

- `RoleHeld`: `GatesSpec => []PostgresRoleIsHeld`, from no assumption (`PassedRole`).
- `Citations`: `GatesSpec => []CitationsHold`, from `TreesAreRead`: a directory has one
  file of a name, and the readings of a line are what the regular expressions give.
  A register has no gap where it is configured to be sequential, and a row for each
  citation where the configuration says what one is. That a register without a
  repetition, holding each number up to how many it has, is numbered without a gap is
  a fact of cardinalities (`RowsAreCounted`).
- `InitSettled`: `GatesSpec => []WiringSettles`, from `WiringsAreRepositories`.
  `Written` says what the first n writes leave, one part of the repository each
  (`OneWrite`, `UptoIsWritten`); the later parts do not move what a check of an earlier
  one reads, and writing again changes nothing (`WrittenAgain`). An init that fails in
  the middle of a write has kept what init leaves to people (`PartlyKeeps`), and one
  that is run again ends where it would have, but for the one file `Unmended` names
  (`Mends`): an empty pre-push or changelog that now counts as a person's, or the lost
  lines of `.gitignore`.
- `RestatedKeys`: `GatesSpec => []RestatedIsExact`, from `SettingsAreFiles`. `Filled`
  says what is read of each key; a deleted key moves that of no other (`Deleted`), and
  its own comes to the default it restated (`DeletesClean`, `RegistryDeletesClean`),
  or else it was no restatement (`OnlyRestated`).

Induction over data: the library's induction theorems take an operator, which the
provers here cannot instantiate. What is needed of a loop is proved by least number
instead: a set of naturals has a least member (`Least`, from the well-founded order
of the naturals), so a counterexample has a shortest one.

Before a theorem was tried, TLC checked its invariant on the instance of the
component's run: `Typed` and the invariants of `Containers`, `Bar`, `Release`,
`GreenCut`, `E2E` and `Ship` hold in every state there.

Model-checked only:

- liveness (`EveryRunEnds`, `OrphansGo`, `InterruptStops`, `InterruptEnds`), which is
  out of the prover's reach;
- `CyclesAreNamed`: what the recursive search of `CheckAcyclic` computes for every
  graph is an induction over data;
- `JSONVerdictsAreRight`: the judgement's three readings of a program, and the least
  fixed point it is held to, are loops over programs of any length. The code's rounds
  are bounded, so that three are enough holds of the run's programs and need not hold
  of longer chains of helpers.

## Where the code and its documents disagree

`PROJECT.json` quotes the lines. Two are runs whose counterexample is a behaviour of
the code:

- A deleted file that a package embedded from the directory of a package below it is
  charged to the one below alone (`scope_dropped`).
- A waiver that expires does not bring its gate back where the change since the last
  green commit touches nothing the gate reads (`since_expired`).

The others were met while modelling; the models do what the code does, and the
properties that hold are stated around them.

- The suite of a killed run can be reported by the next, as above.
- A sweep with one error leaves a run unwatched, and a stale network with an
  unlabelled container on it makes every sweep fail. `PassLeavesNothing` is about
  runs that were watched.
- A test that removes TMPDIR keeps its containers: `Suite` returns before the check.
- A red rollout is a warning, where the documents say it refuses.
- A pull in the releasing checkout while its bar runs: `Ready` hands nothing to `Cut`,
  which asks again of the new HEAD and tags a tree the bar has only half read.
  `ShipsWhatWasBarred` excepts it (`Mixed`).
- A request to the engine has neither the run's context nor a deadline: an interrupted
  end-to-end run waits on an engine that does not answer, its services up.
- A nested `go.mod` that a change deletes, and a file the root package compiles, are
  taken for inert (`Unseen`).
- A kubeconfig written after the signal's `RemoveAll` has listed the directory is left
  (`late`), although the documents have it go on every exit path.
- A write of `init` that fails in the middle leaves an empty pre-push or `CHANGELOG.md`,
  which the next one takes for somebody's, or a `.gitignore` without the lines it had
  (`Unmended`).
- A SIGHUP ends a deployment with its kubeconfig left behind; `guard` listens for two
  other signals. `CredentialGoes` counts it as a kill.
- `init` leaves a hook's mode as it was, so one that git does not run stays one
  (`ByHand`), and writes `ci.yml` over a workflow of that name that calls no pipeline
  (`Keeps`). A pre-commit of one's own that does not delegate is replaced too, which is
  intended and tested (`TestInitReplacesAHandRolledHook`).
- A `spec.index` reported as restating the default is not one where that file is
  missing or excluded (`RestatedIsExact`).
- The typed pass of the postgres gate depends on the order functions and assignments
  are read in (`InOrder`).
- A dependency cycle closed by a path into the archive is no cycle to spec-lint
  (`Follows`).
- A row of the index that links to an archived spec lists one at work of the same name
  too, which then needs no row of its own. `CitationsHold` excepts such a spec; the
  run's inputs (`MCNamesakes`) have one.
- `ExemptFor` breaks a tie between two exemptions by the order of a map.

## Not modelled

- The identity and platform SDK gates: each rule is a pattern over the Go and YAML of
  one repository, and no two rules meet. `Bar` sees their verdict, as it does those
  of the gates over text (words, links, licenses, names), of enums, dependencies and
  action pins, and of frontend, image, hook, otel, statics and cgo: a scan or a
  command each, with no state kept.
- `lint`, which renders a configuration and runs another linter, and the installs of
  single gates' tools, which have the shape of the e2e runner's cache.
- In the configuration: YAML itself, unknown keys, the blocks of enums and the values
  of ship's commands. In the postgres gate: parsing and type-checking, which are
  `go/types`. In spec-lint: the regular expressions, abstracted to what they find.
- The scope of a change in nested modules, the profiles of other tiers, and the
  parsing of a profile.
- HTTP, git, the engine, `kubectl`, `docker` and `op` beyond what the code asks of
  them, which is marked external in `PROJECT.json`. The one-minute deadline of a
  request of `reap`'s client is a failed request in `Containers`; the requests of the
  end-to-end runner have none.
- Output and wording, except which properties a failure names. `Notes`, `Prepush` and
  `ship build`, which change nothing that is shared.

## What is left

Nested modules in `Scope`, and `Scope` composed with `Bar`, whose `LeftOut` takes the
answer as given.
