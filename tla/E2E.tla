---------------------------------- MODULE E2E ----------------------------------
(***************************************************************************)
(* The end-to-end runner (internal/e2e, internal/bar/e2e.go): runs of      *)
(* lateregate that take the suites a repository declares in turn, fetch    *)
(* the tools a suite names into the one cache of the machine, start its    *)
(* services on the one engine, run it and remove what they started.        *)
(*                                                                         *)
(* A run is a process: it may be interrupted, which ends the context its   *)
(* suites run under, or killed.  A container is known by its name, which   *)
(* is made of the suite, the service and the pid, so a pid used again      *)
(* after a kill makes the name of what the killed run left.                *)
(*                                                                         *)
(* A request to the engine is a step, and so is a download.  A download    *)
(* ends with the context, or with its server; a request to the engine runs *)
(* under no context and no deadline, and ends with the engine alone.       *)
(* Every other wait has a clock.                                           *)
(***************************************************************************)
EXTENDS Naturals, Sequences, FiniteSets

CONSTANTS
  Runs,         \* processes of lateregate e2e, an incarnation each
  Pids,
  Suites,       \* the suites, in the configuration's order
  TestSuites,   \* those that name Go tests; the others name a command
  AllowSkip,    \* those that say why a skipped test is allowed
  EventsOf,     \* what each runs on
  ServicesOf,   \* the services each names, in order
  ToolsOf,      \* and the tools
  RunnerTools,  \* the tools the machine provides
  Requests,     \* what runs are asked for, and the change they measure
  MaxFaults,    \* bound: requests the engine fails or answers too late
  Nobody

SuiteNames == {Suites[i] : i \in DOMAIN Suites}
Events     == {"push", "tag"}
Elements(q) == {q[i] : i \in DOMAIN q}
Services   == UNION {Elements(ServicesOf[s]) : s \in SuiteNames}
Fetched    == (UNION {Elements(ToolsOf[s]) : s \in SuiteNames}) \ RunnerTools

ASSUME E2EAssumption ==
  /\ Suites \in Seq(SuiteNames)
  /\ \A i, j \in DOMAIN Suites : Suites[i] = Suites[j] => i = j
  /\ ServicesOf \in [SuiteNames -> Seq(Services)]
  /\ ToolsOf \in [SuiteNames -> Seq(RunnerTools \cup Fetched)]
  /\ Pids # {}
  /\ TestSuites \subseteq SuiteNames /\ AllowSkip \subseteq SuiteNames
  /\ EventsOf \in [SuiteNames -> SUBSET Events]
  /\ MaxFaults \in Nat
  /\ Nobody \notin Runs \cup SuiteNames

VARIABLES
  pc,         \* where each run is
  pid,
  items,      \* the suites it was asked for, and whether each is skipped
  results,    \* how the first of them ended
  signalled,  \* the runs whose context has ended
  k,          \* the tool or the service of the suite it is at
  fine,       \* the suite has met no error
  proved,     \* history: what the suite's process did proves the suite
  started,    \* Host.started: the containers Stop removes
  tmp,        \* the download in its own directory of the cache
  cache,      \* what is at each tool's path
  box,        \* the run that made the container of a name, or Nobody
  ready,      \* the containers that answer
  late,       \* containers the engine is still to make, nobody waiting
  faults

runVars    == <<pid, items, results, signalled>>
suiteVars  == <<k, fine, proved, started>>
toolVars   == <<tmp, cache>>
engineVars == <<box, ready, late, faults>>
vars == <<pc, runVars, suiteVars, toolVars, engineVars>>

Names  == SuiteNames \X Services \X Pids
Places == {"new", "next", "tools", "download", "verify", "launch", "inspect",
           "probe", "start", "testing", "stop", "done", "dead"}
Bytes  == {"none", "part", "good", "bad"}
Outcomes == {"pass", "fail", "skip", "error", "timeout"}

TypeOK ==
  /\ pc \in [Runs -> Places]
  /\ pid \in [Runs -> Pids]
  /\ items \in [Runs -> Seq([suite : SuiteNames, skip : BOOLEAN])]
  /\ results \in [Runs -> Seq({"skip", "pass", "fail"})]
  /\ \A r \in Runs : Len(results[r]) <= Len(items[r])
  /\ signalled \subseteq Runs
  /\ k \in [Runs -> Nat]
  /\ fine \in [Runs -> BOOLEAN]
  /\ proved \in [Runs -> BOOLEAN]
  /\ started \in [Runs -> Seq(Names)]
  /\ tmp \in [Runs -> Bytes]
  /\ cache \in [Fetched -> Bytes]
  /\ box \in [Names -> Runs \cup {Nobody}]
  /\ ready \subseteq {n \in Names : box[n] # Nobody}
  /\ late \subseteq Names \X Runs
  /\ faults \in 0..MaxFaults

Init ==
  /\ pc = [r \in Runs |-> "new"]
  /\ pid = [r \in Runs |-> CHOOSE p \in Pids : TRUE]
  /\ items = [r \in Runs |-> <<>>]
  /\ results = [r \in Runs |-> <<>>]
  /\ signalled = {}
  /\ k = [r \in Runs |-> 1]
  /\ fine = [r \in Runs |-> TRUE]
  /\ proved = [r \in Runs |-> FALSE]
  /\ started = [r \in Runs |-> <<>>]
  /\ tmp = [r \in Runs |-> "none"]
  /\ cache = [t \in Fetched |-> "none"]
  /\ box = [n \in Names |-> Nobody]
  /\ ready = {}
  /\ late = {}
  /\ faults = 0

Goto(r, place) == pc' = [pc EXCEPT ![r] = place]

Live == {r \in Runs : pc[r] \notin {"new", "done", "dead"}}
Alive(p) == \E r \in Live : pid[r] = p

Item(r)  == items[r][Len(results[r]) + 1]
Suite(r) == Item(r).suite

(* Mutant: the name leaves the pid out. *)
SharedName(r, s, svc) == <<s, svc, CHOOSE p \in Pids : TRUE>>

Name(r, s, svc) == <<s, svc, pid[r]>>
Service(r)   == ServicesOf[Suite(r)][k[r]]
Container(r) == Name(r, Suite(r), Service(r))

-----------------------------------------------------------------------------
(* Which suites a run takes, and which of them the change leaves out *)

(* What the scope of a change says: that it narrows anything, whose rule
   holds, whether all of it is inert to Go, whether a Go package changed, and
   the command suites with a changed file under their reads. *)
Scopes == [narrows : BOOLEAN, ci : BOOLEAN, goInert : BOOLEAN, changed : BOOLEAN,
           touched : SUBSET (SuiteNames \ TestSuites)]

ASSUME RequestsAssumption ==
  Requests \subseteq [only : SuiteNames \cup {Nobody}, on : Events, scope : Scopes]

E2ESkip(c, s) ==
  /\ c.narrows
  /\ s \notin TestSuites => s \notin c.touched
  /\ IF c.ci THEN c.goInert ELSE ~c.changed

E2EItems(q) ==
  LET asked(s) == IF q.only = Nobody THEN q.on \in EventsOf[s] ELSE s = q.only
      taken[i \in 0..Len(Suites)] ==
        IF i = 0 THEN <<>>
        ELSE IF asked(Suites[i])
          THEN Append(taken[i - 1], [suite |-> Suites[i], skip |-> E2ESkip(q.scope, Suites[i])])
          ELSE taken[i - 1]
  IN taken[Len(Suites)]

Begin(r) ==
  /\ pc[r] = "new"
  /\ \E p \in Pids : ~Alive(p) /\ pid' = [pid EXCEPT ![r] = p]
  /\ \E q \in Requests : items' = [items EXCEPT ![r] = E2EItems(q)]
  /\ Goto(r, "next")
  /\ UNCHANGED <<results, signalled, suiteVars, toolVars, engineVars>>

Record(r, verdict) == results' = [results EXCEPT ![r] = Append(@, verdict)]

AnotherItem(r) == pc[r] = "next" /\ Len(results[r]) < Len(items[r])

SkipSuite(r) ==
  /\ AnotherItem(r) /\ Item(r).skip
  /\ Record(r, "skip")
  /\ UNCHANGED <<pc, pid, items, signalled, suiteVars, toolVars, engineVars>>

(* The loop does not ask whether the context has ended: a suite of an
   interrupted run is begun as any other. *)
BeginSuite(r) ==
  /\ AnotherItem(r) /\ ~Item(r).skip
  /\ k' = [k EXCEPT ![r] = 1]
  /\ Goto(r, "tools")
  /\ UNCHANGED <<runVars, fine, proved, started, toolVars, engineVars>>

EndRun(r) ==
  /\ pc[r] = "next" /\ Len(results[r]) = Len(items[r])
  /\ Goto(r, "done")
  /\ UNCHANGED <<runVars, suiteVars, toolVars, engineVars>>

(* An error of the suite: what was started is removed, and the suite fails. *)
Fail(r) ==
  /\ fine' = [fine EXCEPT ![r] = FALSE]
  /\ Goto(r, "stop")

-----------------------------------------------------------------------------
(* The tools of a suite *)

Tool(r) == ToolsOf[Suite(r)][k[r]]
AtTool(r) == pc[r] = "tools" /\ k[r] <= Len(ToolsOf[Suite(r)])
NextTool(r) == k' = [k EXCEPT ![r] = @ + 1] /\ Goto(r, "tools")

(* It is on PATH, or a file of its name is in the cache. *)
HasTool(r) ==
  /\ AtTool(r) /\ (Tool(r) \notin RunnerTools => cache[Tool(r)] # "none")
  /\ NextTool(r)
  /\ UNCHANGED <<runVars, fine, proved, started, toolVars, engineVars>>

(* It is not on PATH, not pinned for the platform, or the cache directory
   cannot be made. *)
LacksTool(r) ==
  /\ AtTool(r) /\ (Tool(r) \notin RunnerTools => cache[Tool(r)] = "none")
  /\ Fail(r)
  /\ UNCHANGED <<runVars, k, proved, started, toolVars, engineVars>>

(* Mutant: it is downloaded where it is to be found. *)
MissInPlace(r) ==
  /\ AtTool(r) /\ Tool(r) \notin RunnerTools /\ cache[Tool(r)] = "none"
  /\ tmp' = [tmp EXCEPT ![r] = "part"]
  /\ cache' = [cache EXCEPT ![Tool(r)] = "part"]
  /\ Goto(r, "download")
  /\ UNCHANGED <<runVars, suiteVars, engineVars>>

(* The stat finds nothing: a directory of the run's own, made in the tool's,
   takes the download. *)
MissesTool(r) ==
  /\ AtTool(r) /\ Tool(r) \notin RunnerTools /\ cache[Tool(r)] = "none"
  /\ tmp' = [tmp EXCEPT ![r] = "part"]
  /\ Goto(r, "download")
  /\ UNCHANGED <<runVars, suiteVars, cache, engineVars>>

Downloaded(r) ==
  /\ pc[r] = "download" /\ r \notin signalled
  /\ \E got \in {"good", "bad"} : tmp' = [tmp EXCEPT ![r] = got]
  /\ Goto(r, "verify")
  /\ UNCHANGED <<runVars, suiteVars, cache, engineVars>>

(* A connection that fails, another answer than 200, too many bytes, or the
   context's end. *)
DownloadFails(r) ==
  /\ pc[r] = "download"
  /\ tmp' = [tmp EXCEPT ![r] = "none"]
  /\ Fail(r)
  /\ UNCHANGED <<runVars, k, proved, started, cache, engineVars>>

(* The rename, over a file another run may have put there since the stat. *)
InstallTool(r) ==
  /\ pc[r] = "verify" /\ tmp[r] = "good"
  /\ cache' = [cache EXCEPT ![Tool(r)] = tmp[r]]
  /\ tmp' = [tmp EXCEPT ![r] = "none"]
  /\ NextTool(r)
  /\ UNCHANGED <<runVars, fine, proved, started, engineVars>>

WrongChecksum(r) ==
  /\ pc[r] = "verify" /\ tmp[r] = "bad"
  /\ tmp' = [tmp EXCEPT ![r] = "none"]
  /\ Fail(r)
  /\ UNCHANGED <<runVars, k, proved, started, cache, engineVars>>

ToolsReady(r) ==
  /\ pc[r] = "tools" /\ k[r] > Len(ToolsOf[Suite(r)])
  /\ k' = [k EXCEPT ![r] = 1]
  /\ Goto(r, IF ServicesOf[Suite(r)] = <<>> THEN "start" ELSE "launch")
  /\ UNCHANGED <<runVars, fine, proved, started, toolVars, engineVars>>

(* No engine on PATH. *)
NoEngine(r) ==
  /\ pc[r] = "tools" /\ k[r] > Len(ToolsOf[Suite(r)])
  /\ ServicesOf[Suite(r)] # <<>>
  /\ Fail(r)
  /\ UNCHANGED <<runVars, k, proved, started, toolVars, engineVars>>

ToolStep(r) ==
  \/ HasTool(r) \/ LacksTool(r) \/ MissesTool(r) \/ InstallTool(r)
  \/ WrongChecksum(r) \/ ToolsReady(r) \/ NoEngine(r)

-----------------------------------------------------------------------------
(* The services of a suite: launch and until, for each in turn *)

AtLaunch(r) == pc[r] = "launch"
Fault == faults < MaxFaults /\ faults' = faults + 1

(* engine run answers: Stop has the name from here on. *)
ContainerStarts(r) ==
  /\ AtLaunch(r) /\ box[Container(r)] = Nobody
  /\ box' = [box EXCEPT ![Container(r)] = r]
  /\ started' = [started EXCEPT ![r] = Append(@, Container(r))]
  /\ Goto(r, "probe")
  /\ UNCHANGED <<runVars, k, fine, proved, toolVars, ready, late, faults>>

(* engine run fails: the name is taken, or the image cannot be had, or the
   container was made and would not start. *)
StartFails(r) ==
  /\ AtLaunch(r)
  /\ \/ UNCHANGED box
     \/ /\ box[Container(r)] = Nobody
        /\ box' = [box EXCEPT ![Container(r)] = r]
  /\ Goto(r, "inspect")
  /\ UNCHANGED <<runVars, suiteVars, toolVars, ready, late, faults>>

(* The engine's client is gone, with the terminal's interrupt say, and the
   engine goes on. *)
StartIsLost(r) ==
  /\ AtLaunch(r) /\ Fault
  /\ late' = late \cup {<<Container(r), r>>}
  /\ Goto(r, "inspect")
  /\ UNCHANGED <<runVars, suiteVars, toolVars, box, ready>>

(* Mutant: a start that failed is taken to have made nothing. *)
InspectNothing(r) ==
  /\ pc[r] = "inspect"
  /\ Fail(r)
  /\ UNCHANGED <<runVars, k, proved, started, toolVars, engineVars>>

(* Whatever is under the name goes to Stop. *)
Inspect(r) ==
  /\ pc[r] = "inspect"
  /\ \/ /\ box[Container(r)] # Nobody
        /\ started' = [started EXCEPT ![r] = Append(@, Container(r))]
        /\ UNCHANGED faults
     \/ /\ box[Container(r)] = Nobody
        /\ UNCHANGED <<started, faults>>
     \/ Fault /\ UNCHANGED started
  /\ Fail(r)
  /\ UNCHANGED <<runVars, k, proved, toolVars, box, ready, late>>

(* The host port is read, and the service answers on it, under the context;
   for MinIO, its buckets are made. *)
ServiceAnswers(r) ==
  /\ pc[r] = "probe" /\ r \notin signalled
  /\ box[Container(r)] # Nobody
  /\ ready' = ready \cup {Container(r)}
  /\ k' = [k EXCEPT ![r] = @ + 1]
  /\ Goto(r, IF k[r] = Len(ServicesOf[Suite(r)]) THEN "start" ELSE "launch")
  /\ UNCHANGED <<runVars, fine, proved, started, toolVars, box, late, faults>>

(* No port, no answer within the wait or before the context ends, or no
   bucket. *)
ServiceFails(r) ==
  /\ pc[r] = "probe"
  /\ Fail(r)
  /\ UNCHANGED <<runVars, k, proved, started, toolVars, engineVars>>

ServiceStep(r) ==
  \/ ContainerStarts(r) \/ StartFails(r) \/ StartIsLost(r) \/ Inspect(r)
  \/ ServiceAnswers(r) \/ ServiceFails(r)

-----------------------------------------------------------------------------
(* The suite's process, and the verdict on it *)

(* What a process may have done by its end.  go test exits non-zero over a
   failed test; a process that was asked to stop is an error; the events of a
   command are its skips alone. *)
Doings(r) ==
  {w \in SUBSET Outcomes :
     /\ Suite(r) \in TestSuites => ("fail" \in w => "error" \in w)
     /\ Suite(r) \notin TestSuites => w \cap {"pass", "fail"} = {}
     /\ r \in signalled => "error" \in w}

(* What a suite's process did proves the suite: no failed test, no process
   that failed or was stopped, no skip without leave, no deadline, and of Go
   tests, something that ran. *)
Proves(s, w) ==
  /\ w \cap {"fail", "error", "timeout"} = {}
  /\ "skip" \in w => s \in AllowSkip
  /\ s \in TestSuites => w # {}

(* Mutant: a skip says a test ran, and needs no leave. *)
SkipsProve(s, w) ==
  IF "timeout" \in w THEN {"timeout"}
  ELSE (w \cap {"error", "fail"}) \cup (IF w = {} /\ s \in TestSuites THEN {"none ran"} ELSE {})

(* The problems verdict and command report. *)
Problems(s, w) ==
  IF "timeout" \in w THEN {"timeout"}
  ELSE LET failed  == w \cap {"fail"}
           stopped == IF failed = {} THEN w \cap {"error"} ELSE {}
           skipped == IF s \in AllowSkip THEN {} ELSE w \cap {"skip"}
           all     == failed \cup stopped \cup skipped
       IN IF s \in TestSuites /\ all = {} /\ w \cap {"pass", "fail", "skip"} = {}
            THEN {"none ran"} ELSE all

(* exec starts nothing under a context that has ended. *)
StartTests(r) ==
  /\ pc[r] = "start"
  /\ IF r \in signalled
       THEN Fail(r)
       ELSE Goto(r, "testing") /\ UNCHANGED fine
  /\ UNCHANGED <<runVars, k, proved, started, toolVars, engineVars>>

TestsEnd(r) ==
  /\ pc[r] = "testing"
  /\ \E w \in Doings(r) :
       /\ proved' = [proved EXCEPT ![r] = Proves(Suite(r), w)]
       /\ fine' = [fine EXCEPT ![r] = Problems(Suite(r), w) = {}]
  /\ Goto(r, "stop")
  /\ UNCHANGED <<runVars, k, started, toolVars, engineVars>>

-----------------------------------------------------------------------------
(* Host.Stop, which runs under no context, and the end of a suite *)

StopFirst(r) ==
  /\ pc[r] = "stop" /\ started[r] # <<>>
  /\ started' = [started EXCEPT ![r] = Tail(@)]

StopOne(r) ==
  LET n == Head(started[r]) IN
  /\ StopFirst(r)
  /\ box' = [box EXCEPT ![n] = Nobody]
  /\ ready' = ready \ {n}
  /\ UNCHANGED <<pc, runVars, k, fine, proved, toolVars, late, faults>>

(* Mutant: what Stop says is not joined to the suite's error. *)
StopFailureDropped(r) ==
  /\ StopFirst(r)
  /\ Fault
  /\ UNCHANGED <<pc, runVars, k, fine, proved, toolVars, box, ready, late>>

(* A removal that fails is an error of the suite, and the next is tried. *)
StopFails(r) ==
  /\ StopFirst(r)
  /\ Fault
  /\ fine' = [fine EXCEPT ![r] = FALSE]
  /\ UNCHANGED <<pc, runVars, k, proved, toolVars, box, ready, late>>

Conclude(r) ==
  /\ pc[r] = "stop" /\ started[r] = <<>>
  /\ Record(r, IF fine[r] THEN "pass" ELSE "fail")
  /\ fine' = [fine EXCEPT ![r] = TRUE]
  /\ proved' = [proved EXCEPT ![r] = FALSE]
  /\ k' = [k EXCEPT ![r] = 1]
  /\ Goto(r, "next")
  /\ UNCHANGED <<pid, items, signalled, started, toolVars, engineVars>>

-----------------------------------------------------------------------------
(* What happens to runs and to the engine *)

(* signal.NotifyContext: further signals are taken and change nothing. *)
Interrupt(r) ==
  /\ r \in Live \ signalled
  /\ signalled' = signalled \cup {r}
  /\ UNCHANGED <<pc, pid, items, results, suiteVars, toolVars, engineVars>>

(* The run's memory is gone and nothing it made is undone: what it had of a
   download stays in a directory nobody looks into, and a request it had under
   way may still be carried out. *)
Kill(r) ==
  /\ r \in Live
  /\ Goto(r, "dead")
  /\ late' \in IF AtLaunch(r) THEN {late, late \cup {<<Container(r), r>>}} ELSE {late}
  /\ items' = [items EXCEPT ![r] = <<>>]
  /\ results' = [results EXCEPT ![r] = <<>>]
  /\ k' = [k EXCEPT ![r] = 1]
  /\ fine' = [fine EXCEPT ![r] = TRUE]
  /\ proved' = [proved EXCEPT ![r] = FALSE]
  /\ started' = [started EXCEPT ![r] = <<>>]
  /\ tmp' = [tmp EXCEPT ![r] = "none"]
  /\ UNCHANGED <<pid, signalled, cache, box, ready, faults>>

(* The engine comes to a request nobody waits for: a name that is taken is
   refused. *)
MakeLate ==
  \E l \in late :
    /\ late' = late \ {l}
    /\ box' = IF box[l[1]] = Nobody THEN [box EXCEPT ![l[1]] = l[2]] ELSE box
    /\ UNCHANGED <<pc, runVars, suiteVars, toolVars, ready, faults>>

(* A sweep (Containers) takes what is labelled with a pid no process has. *)
Sweep ==
  \E n \in Names :
    /\ box[n] # Nobody /\ ~Alive(n[3])
    /\ box' = [box EXCEPT ![n] = Nobody]
    /\ ready' = ready \ {n}
    /\ UNCHANGED <<pc, runVars, suiteVars, toolVars, late, faults>>

(* The requests to the engine: run, inspect, port, exec and rm. *)
EngineStep(r) == ServiceStep(r) \/ StopOne(r) \/ StopFails(r)

(* What a run does on its own, or under a deadline. *)
OwnStep(r) ==
  \/ SkipSuite(r) \/ BeginSuite(r) \/ EndRun(r) \/ ToolStep(r)
  \/ StartTests(r) \/ TestsEnd(r) \/ Conclude(r)

DownloadStep(r) == Downloaded(r) \/ DownloadFails(r)

Next ==
  \/ \E r \in Runs :
       Begin(r) \/ OwnStep(r) \/ EngineStep(r) \/ DownloadStep(r) \/ Interrupt(r) \/ Kill(r)
  \/ MakeLate \/ Sweep

Spec == Init /\ [][Next]_vars

(* Mutant: the download is not made under the context. *)
DownloadUncancelled(r) == FALSE

(* The download of an interrupted run fails at once. *)
DownloadCancelled(r) == r \in signalled /\ DownloadFails(r)

(* A run goes on by itself, a suite has its deadline, and a download ends with
   the context.  Nothing says that the engine answers: OSExec gives a request
   no deadline and not the run's context. *)
FairSpec == Spec /\ \A r \in Runs : WF_vars(OwnStep(r) \/ DownloadCancelled(r))

-----------------------------------------------------------------------------
(* Properties *)

Answered(r) ==
  LET s == Suite(r)
      upto == IF pc[r] \in {"start", "testing"} THEN Len(ServicesOf[s]) ELSE k[r] - 1
  IN {Name(r, s, ServicesOf[s][i]) : i \in 1..upto}

(* While a suite's services are brought up and while it runs, those that have
   answered are there, answering, and its own: no other run, no sweep and no
   late request has taken one away or put another under its name
   (services.go launch, Stop). *)
ServicesHold ==
  \A r \in Runs :
    pc[r] \in {"launch", "inspect", "probe", "start", "testing"} =>
      \A n \in Answered(r) : box[n] = r /\ n \in ready

(* What a run finds under a tool's path in the cache is a whole download that
   had its checksum, whoever was killed and whoever raced
   (tools.go Dir: "an interrupted run never leaves a partial tool"). *)
CacheIsVerified == \A t \in Fetched : cache[t] \in {"none", "good"}

Passed(r) == pc[r] = "done" /\ \A i \in DOMAIN results[r] : results[r][i] # "fail"

Left(r) == {n \in Names : box[n] = r \/ <<n, r>> \in late}

(* A run that passes ran every suite the change did not leave out, and has
   left no container behind nor one to come (run.go Run and suite: "a
   container that will not go fails a suite that passed"). *)
PassIsWhole ==
  \A r \in Runs : Passed(r) =>
    /\ Left(r) = {}
    /\ \A i \in DOMAIN items[r] : results[r][i] = (IF items[r][i].skip THEN "skip" ELSE "pass")

(* As long as the engine has done what it was asked, a run that has ended,
   passed, failed or interrupted, has left no container: not one of a start
   that failed half way either (services.go launch, run.go suite). *)
EndedLeavesNothing ==
  faults = 0 => \A r \in Runs : pc[r] = "done" => Left(r) = {}

(* No suite is recorded as passed but over a process that proved it, and not
   one before it (stream.go verdict, run.go command, suite). *)
PassProves ==
  [][\A r \in Runs :
       Len(results'[r]) > Len(results[r]) /\ results'[r][Len(results'[r])] = "pass"
         => proved[r]]_vars

(* A request to the engine is out, or the next thing the run does is one. *)
OnEngine(r) ==
  pc[r] \in {"launch", "inspect", "probe"} \/ (pc[r] = "stop" /\ started[r] # <<>>)

(* An interrupted run ends, unless one of its requests to the engine is never
   answered: no download and no process of a suite under way, nor of the suites
   after it, outlasts the context or its own clock (run.go RunSignals).  The
   exception is the code's: the engine is run under no context. *)
InterruptStops ==
  \A r \in Runs : (r \in signalled ~> pc[r] \in {"done", "dead"}) \/ <>[]OnEngine(r)

=============================================================================
