------------------------------- MODULE GreenCut -------------------------------
(***************************************************************************)
(* The guard that reads CI before a release is cut (internal/greencut      *)
(* greencut.go and github.go): the newest completed run of each workflow   *)
(* over the commits being tagged, read a page at a time from a list GitHub *)
(* goes on changing, and then what the previous tag's release run left.    *)
(*                                                                         *)
(* runs holds the default branch's workflow runs, the oldest first; the    *)
(* API lists them the newest first.  "success" stands for every conclusion *)
(* the guard takes for an answer, "failure" for every red one but          *)
(* "cancelled".                                                            *)
(***************************************************************************)
EXTENDS Naturals, Sequences

CONSTANTS
  Workflows,
  PerPage,    \* runs a page holds
  RunPages,   \* pages the guard reads at most
  MaxRuns,    \* bound: runs listed when the check begins
  MaxEvents   \* bound: what happens at GitHub while it reads

ASSUME GreenCutAssumption ==
  PerPage \in Nat \ {0} /\ RunPages \in Nat \ {0} /\ MaxRuns \in Nat /\ MaxEvents \in Nat

VARIABLES
  runs,       \* the workflow, whether its commit is in the window, the status
  events,
  release,    \* the previous tag's release run, "absent" when there is none,
              \* and "untagged" when the checkout has no release tag
  published,  \* a GitHub Release exists for the previous tag
  steady,     \* the runs that were there when the check began and have not
              \* changed since
  settled,    \* the same of the release run and its Release
  force,      \* -force-red
  step,       \* where the check is
  page,
  listed,     \* the workflows it has seen a run of
  latest,     \* the run of each workflow it goes by
  told,       \* the red runs it names, whether it refuses or is overridden
  silence,    \* it found a green release run that published nothing
  verdict

githubVars == <<runs, events, release, published, steady, settled>>
walkVars   == <<page, listed, latest>>
greenVars == <<githubVars, force, step, walkVars, told, silence, verdict>>

Running == "running"
Conclusions == {"success", "failure", "cancelled"}
Red == {"failure", "cancelled"}
Steps == {"pages", "release", "published", "judge", "done"}

Row == [workflow : Workflows, inside : BOOLEAN, status : Conclusions \cup {Running}]
Releases == {"absent", Running, "success", "neutral", "failure"}

GreenTypeOK ==
  /\ runs \in Seq(Row)
  /\ events \in 0..MaxEvents
  /\ release \in {"untagged"} \cup Releases
  /\ published \in BOOLEAN /\ settled \in BOOLEAN
  /\ steady \subseteq DOMAIN runs
  /\ force \in BOOLEAN
  /\ step \in Steps
  /\ page \in 1..RunPages
  /\ listed \subseteq Workflows
  /\ latest \in SUBSET [workflow : Workflows, of : DOMAIN runs, conclusion : Conclusions]
  /\ \A q, r \in latest : q.workflow = r.workflow => q = r
  /\ told \subseteq DOMAIN runs
  /\ silence \in BOOLEAN
  /\ verdict \in {"none", "error", "unknown", "refused", "cut"}

GreenInit ==
  /\ runs \in UNION {[1..n -> Row] : n \in 0..MaxRuns}
  /\ events = 0
  /\ \/ release \in {"untagged", "absent", Running} /\ published = FALSE
     \/ release \in {"success", "neutral", "failure"} /\ published \in BOOLEAN
  /\ steady = DOMAIN runs /\ settled = TRUE
  /\ force = FALSE
  /\ step = "pages"
  /\ page = 1 /\ listed = {} /\ latest = {}
  /\ told = {} /\ silence = FALSE /\ verdict = "none"

guardVars == <<force, step, walkVars, told, silence, verdict>>

-----------------------------------------------------------------------------
(* GitHub *)

Event ==
  /\ step # "done"
  /\ events < MaxEvents
  /\ events' = events + 1

(* A push, to the window's commits or past them, starts a workflow. *)
StartRun ==
  /\ Event
  /\ \E w \in Workflows, in \in BOOLEAN :
       runs' = Append(runs, [workflow |-> w, inside |-> in, status |-> Running])
  /\ UNCHANGED <<release, published, steady, settled, guardVars>>

(* A run concludes, or somebody runs it again: it keeps its place in the list. *)
ChangeRun(i) ==
  /\ Event
  /\ \E status \in IF runs[i].status = Running THEN Conclusions ELSE {Running} :
       runs' = [runs EXCEPT ![i].status = status]
  /\ steady' = steady \ {i}
  /\ UNCHANGED <<release, published, settled, guardVars>>

(* The release workflow the previous tag starts, and what it publishes. *)
ChangeRelease ==
  /\ Event
  /\ \/ /\ release = "absent" /\ release' = Running
        /\ UNCHANGED published
     \/ /\ release = Running /\ release' \in {"success", "neutral", "failure"}
        /\ published' \in {published, TRUE}
     \/ /\ release \notin {"untagged", "absent", Running} /\ release' = Running
        /\ UNCHANGED published
     \/ /\ release = "success" /\ ~published /\ published' = TRUE
        /\ UNCHANGED release
  /\ settled' = FALSE
  /\ UNCHANGED <<runs, steady, guardVars>>

-----------------------------------------------------------------------------
(* The check *)

(* A read git or the API does not answer, or not with a 200. *)
ReadFails ==
  /\ step # "done"
  /\ step' = "done"
  /\ verdict' = "error"
  /\ UNCHANGED <<githubVars, force, walkVars, told, silence>>

(* The places in runs of the page's rows, when it is asked for. *)
Rows == {i \in DOMAIN runs : LET place == Len(runs) - i
                             IN  place >= (page - 1) * PerPage /\ place < page * PerPage}

Seen(w) == \E r \in latest : r.workflow = w

(* A row's workflow was listed already, on an earlier page or above it here. *)
Superseded(i) ==
  \/ runs[i].workflow \in listed
  \/ \E j \in Rows : j > i /\ runs[j].workflow = runs[i].workflow

(* Mutation of Answers: every cancelled run is passed over. *)
AnswersCancelledNever(i) == runs[i].inside /\ runs[i].status \in {"success", "failure"}

(* A completed run of the window, unless a newer run replaced it. *)
Answers(i) ==
  /\ runs[i].status # Running
  /\ runs[i].inside
  /\ ~(Superseded(i) /\ runs[i].status = "cancelled")

(* Mutation of Deciding: a workflow decided on an earlier page is forgotten. *)
DecidingAfresh ==
  {i \in Rows : Answers(i) /\ ~\E j \in Rows : j > i /\ Answers(j) /\ runs[j].workflow = runs[i].workflow}

(* The rows that decide for their workflow: the first that answers. *)
Deciding ==
  {i \in Rows : /\ Answers(i)
                /\ ~Seen(runs[i].workflow)
                /\ ~\E j \in Rows : j > i /\ Answers(j) /\ runs[j].workflow = runs[i].workflow}

HasPrev == release # "untagged"

(* A page that is not full is the last, and so is the RunPages-th. *)
LastPage == Len(runs) < page * PerPage \/ page = RunPages

(* latestPerWorkflow, one request. *)
ReadPage ==
  /\ step = "pages"
  /\ latest' = latest \cup {[workflow |-> runs[i].workflow, of |-> i,
                             conclusion |-> runs[i].status] : i \in Deciding}
  /\ listed' = listed \cup {runs[i].workflow : i \in Rows}
  /\ page' = IF LastPage THEN page ELSE page + 1
  /\ step' = IF ~LastPage THEN "pages" ELSE IF HasPrev THEN "release" ELSE "judge"
  /\ UNCHANGED <<githubVars, force, told, silence, verdict>>

(* The pages held no completed run of the window: scan ends there. *)
Unknown == step \in {"release", "judge"} /\ latest = {}

(* releaseRun: a run still going, or none, has nothing to say, and a red one is
   a warning. *)
ReadRelease ==
  /\ step = "release" /\ ~Unknown
  /\ step' = IF release = "success" THEN "published" ELSE "judge"
  /\ UNCHANGED <<githubVars, force, walkVars, told, silence, verdict>>

(* Mutation of ReadPublished: a missing Release is said and nothing more. *)
ReadPublishedAsWarning ==
  /\ step = "published"
  /\ step' = "judge"
  /\ UNCHANGED <<githubVars, force, walkVars, told, silence, verdict>>

ReadPublished ==
  /\ step = "published"
  /\ step' = "judge"
  /\ silence' = ~published
  /\ UNCHANGED <<githubVars, force, walkVars, told, verdict>>

(* The findings that refuse a cut. *)
RedRuns == {r.of : r \in {q \in latest : q.conclusion \in Red}}
Refuses == RedRuns # {} \/ silence

(* Mutation of Judge: no run at all is no red run. *)
JudgeVacuously ==
  /\ step = "judge" \/ Unknown
  /\ step' = "done"
  /\ told' = RedRuns
  /\ force' \in BOOLEAN
  /\ verdict' = IF force' \/ ~Refuses THEN "cut" ELSE "refused"
  /\ UNCHANGED <<githubVars, walkVars, silence>>

(* The refusal, or the cut.  -force-red, which nothing reads before, has the
   findings printed all the same, and the cut goes on. *)
Judge ==
  /\ step = "judge" \/ Unknown
  /\ step' = "done"
  /\ told' = RedRuns
  /\ force' \in BOOLEAN
  /\ verdict' = IF force' THEN "cut"
                ELSE IF Unknown THEN "unknown"
                ELSE IF Refuses THEN "refused" ELSE "cut"
  /\ UNCHANGED <<githubVars, walkVars, silence>>

GreenNext ==
  \/ StartRun \/ ChangeRelease
  \/ \E i \in DOMAIN runs : ChangeRun(i)
  \/ ReadPage \/ ReadRelease \/ ReadPublished \/ Judge \/ ReadFails

GreenSpec == GreenInit /\ [][GreenNext]_greenVars

-----------------------------------------------------------------------------
(* Properties *)

Same(i, j) == runs[i].workflow = runs[j].workflow
Newer(i) == {j \in DOMAIN runs : j > i /\ Same(i, j)}

(* Through the whole check, j answered nothing: it ran, or it was cancelled and
   a newer run had replaced it. *)
SilentThroughout(j) ==
  /\ j \in steady
  /\ \/ runs[j].status = Running
     \/ runs[j].status = "cancelled" /\ \E k \in Newer(j) : k \in steady

(* i was red through the whole check and its workflow's answer to the window. *)
RedThroughout(i) ==
  /\ i \in steady /\ runs[i].inside /\ runs[i].status \in Red
  /\ \A j \in Newer(i) : runs[i].status # "cancelled" /\ (runs[j].inside => SilentThroughout(j))

InReach(i) == Len(runs) - i < RunPages * PerPage

(* No red slips between two pages: a run that was red, and its workflow's
   answer, for as long as the check took is named, refused or overridden, as
   long as the pages reach back to it. *)
NoRedSlipsBy ==
  step = "done" /\ verdict # "error" =>
    \A i \in steady : RedThroughout(i) /\ InReach(i) => i \in told

(* A run is refused on only while it is its workflow's answer: neither one a
   newer green run had answered for when the check began, nor one cancelled
   because a newer run replaced it, nor one outside the window. *)
RefusedOnTheAnswer ==
  step = "done" =>
    \A i \in told :
      /\ runs[i].inside
      /\ ~\E j \in Newer(i) \cap steady : runs[j].inside /\ runs[j].status = "success"
      /\ i \in steady /\ runs[i].status = "cancelled" => Newer(i) \cap steady = {}

(* A cut nobody forced had an answer to go by, which a run of the window gave
   before or during the check, and no release before it that went green and
   published nothing. *)
UnforcedIsEarned ==
  verdict = "cut" /\ ~force =>
    /\ \E i \in DOMAIN runs : runs[i].inside /\ (i \in steady => runs[i].status = "success")
    /\ settled => ~(release = "success" /\ ~published)

=============================================================================
