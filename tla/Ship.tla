-------------------------------- MODULE Ship --------------------------------
(***************************************************************************)
(* The workstation flow of internal/ship: `push` builds the image of a     *)
(* release tag and publishes it, `deploy` rolls a tag out to the cluster   *)
(* and proves it live, `deploy-credential` stores the identity `deploy`    *)
(* rolls out with.  Several people run these against one registry, one     *)
(* cluster and one 1Password vault; a tag names one commit in every clone. *)
(*                                                                         *)
(* A command is a process: `pc` is where its main goroutine is, `handler`  *)
(* is the goroutine that waits for a signal, `child` is the program it has *)
(* started, which lives on when its parent is gone.  What only prints, and *)
(* what only builds a command line, is left out.                           *)
(***************************************************************************)
EXTENDS Naturals, Sequences, FiniteSets, FiniteSetsExt, SequencesExt

CONSTANTS
    Operators,    \* workstations
    Tags,         \* release tags on origin, numbers in version order
    Prereleases,  \* those with a prerelease suffix
    CommitOf,     \* the commit a tag names, the same in every clone
    Deployable,   \* tags whose tree holds deploy/prod and the live check
    Pushed,       \* tags released and pushed before, by a credential stored
    May,          \* the commands an operator runs
    Interrupted,  \* operators who may press ^C or close the terminal
    MaxJobs,      \* bound: commands begun, over all operators
    MaxBuilds,    \* bound: images built
    MaxTokens,    \* bound: tokens the identity ever has
    MaxAttempts   \* LiveCheckWindow over LiveCheckInterval, in attempts

ASSUME ShipAssumption ==
    /\ Tags \subseteq Nat \ {0} /\ Tags # {} /\ IsFiniteSet(Tags)
    /\ Prereleases \subseteq Tags
    /\ Deployable \subseteq Tags /\ Pushed \subseteq Tags
    /\ May \in [Operators -> SUBSET {"push", "deploy", "release", "credential"}]
    /\ Interrupted \subseteq Operators
    /\ {MaxJobs, MaxBuilds, MaxTokens, MaxAttempts} \subseteq Nat \ {0}

VARIABLES
    registry,  \* what each image reference names
    cluster,   \* what was applied, the image set, who answers, the identity
    document,  \* the token of the kubeconfig in 1Password, 0 for none
    releases,  \* the tags with a GitHub release
    spent,     \* how many jobs and builds the bounds have seen
    pc, job,   \* an operator's command: its step, and what it knows
    dir,       \* its temporary directory
    handler,   \* its signal goroutine
    removal,   \* its secrets.once
    child,     \* the program it runs, and the answer of the last one
    past       \* what the properties ask of the past

vars == <<registry, cluster, document, releases, spent,
          pc, job, dir, handler, removal, child, past>>
outside == <<registry, cluster, document, releases>>
own == <<pc, job, dir, handler, removal, child>>
held == <<job, handler, removal>>

NoTag == 0
NoImage == [version |-> NoTag, build |-> 0]  \* also what deploy/prod names itself
Images == [version: Tags, build: 0 .. MaxBuilds]
Gone == {"gone"}       \* a directory that is not there

TagRef(t) == <<"tag", t>>
ShaRef(t) == <<"sha", CommitOf[t]>>
Latest == <<"latest", 0>>
Refs == {TagRef(t) : t \in Tags} \cup {ShaRef(t) : t \in Tags} \cup {Latest}

Highest(S) == CHOOSE t \in S : \A u \in S : u <= t

NoJob == [tag |-> NoTag, image |-> NoImage, token |-> 0, left |-> <<>>,
          tries |-> 0, err |-> FALSE]
NoChild == [runs |-> "none", ok |-> TRUE]

\* The programs whose effect another process can see half way.
Children == {"op", "apply", "set", "dry", "store", "back"}

Init ==
    /\ registry = [r \in Refs |->
                      IF \E t \in Pushed : r = TagRef(t)
                      THEN [version |-> r[2], build |-> 0] ELSE NoImage]
    /\ cluster = [tree |-> NoTag, image |-> NoImage, answers |-> {NoImage}, token |-> 1]
    /\ document = IF Pushed = {} THEN 0 ELSE 1
    /\ releases = {}
    /\ spent = [jobs |-> 0, builds |-> 0]
    /\ pc = [w \in Operators |-> "idle"]
    /\ job = [w \in Operators |-> NoJob]
    /\ dir = [w \in Operators |-> Gone]
    /\ handler = [w \in Operators |-> "off"]
    /\ removal = [w \in Operators |-> "no"]
    /\ child = [w \in Operators |-> NoChild]
    /\ past = [touched |-> {}, late |-> {},
               proven |-> IF Pushed = {} THEN {} ELSE {1}]

-----------------------------------------------------------------------------
(* The steps of a command. *)

\* The main goroutine goes to another step, and runs its program there.
Goto(w, step) ==
    /\ pc' = [pc EXCEPT ![w] = step]
    /\ child' = [child EXCEPT ![w] =
                    IF step \in Children THEN [NoChild EXCEPT !.runs = step] ELSE @]

\* The process is gone; a program it runs is not.  What nobody asks for again
\* is forgotten.
End(w, how) ==
    /\ pc' = [pc EXCEPT ![w] = how]
    /\ handler' = [handler EXCEPT ![w] = "off"]
    /\ removal' = [removal EXCEPT ![w] = "no"]
    /\ job' = [job EXCEPT ![w] =
                  IF how = "deployed" \/ child[w].runs # "none" THEN @ ELSE NoJob]

Outcomes == {"idle", "refused", "failed", "unremoved", "interrupted", "killed",
             "pushed", "deployed", "stored", "published"}
Ended(w) == pc[w] \in Outcomes

\* Mutant for CredentialGoes: the removal is at the end of the function, and
\* an early return passes it over.
ReturnPastRemoval(w, how) ==
    IF handler[w] = "off" \/ how = "failed"
    THEN End(w, how) /\ UNCHANGED child
    ELSE Goto(w, "remove") /\ UNCHANGED held

\* A return: before the directory is made it ends the command, and from then
\* on the deferred removal runs, whatever is returned.
Return(w, how) ==
    IF handler[w] = "off"
    THEN End(w, how) /\ UNCHANGED child
    ELSE /\ Goto(w, "remove")
         /\ job' = [job EXCEPT ![w].err = how = "failed"]
         /\ UNCHANGED <<handler, removal>>

Advance(w, step) == Goto(w, step) /\ UNCHANGED held

Begin(w, command, step) ==
    /\ command \in May[w]
    /\ Ended(w) /\ child[w].runs = "none"
    /\ spent.jobs < MaxJobs
    /\ spent' = [spent EXCEPT !.jobs = @ + 1]
    /\ Goto(w, step)
    /\ dir' = [dir EXCEPT ![w] = Gone]
    /\ past' = [past EXCEPT !.touched = @ \ {w}, !.late = @ \ {w}]
    /\ UNCHANGED <<outside, handler, removal>>

OfTag(w, t) == job' = [job EXCEPT ![w] = [NoJob EXCEPT !.tag = t]]

-----------------------------------------------------------------------------
(* push *)

\* The release tag HEAD is at, the highest when several are.
HeadTag(c) == Highest({t \in Tags : CommitOf[t] = c})

PushedRefs(t) ==
    <<TagRef(t), ShaRef(t)>> \o IF t \in Prereleases THEN <<>> ELSE <<Latest>>

\* A clean checkout at a release tag; any other is refused before it starts.
BeginPush(w) ==
    /\ Begin(w, "push", "build")
    /\ \E at \in Tags : OfTag(w, HeadTag(CommitOf[at]))

\* What it builds is a new image each time, of the tag's commit.
BuildImage(w) ==
    /\ pc[w] = "build"
    /\ \/ /\ spent.builds < MaxBuilds
          /\ spent' = [spent EXCEPT !.builds = @ + 1]
          /\ LET image == [version |-> job[w].tag, build |-> spent.builds + 1] IN
             job' = [job EXCEPT ![w].image = image, ![w].left = PushedRefs(job[w].tag)]
          /\ Goto(w, "push")
          /\ UNCHANGED <<handler, removal>>
       \/ Return(w, "failed") /\ UNCHANGED spent
    /\ UNCHANGED <<outside, dir, past>>

\* The references one after another; the first refusal stops it.
PushRef(w) ==
    /\ pc[w] = "push" /\ job[w].left # <<>>
    /\ \/ /\ registry' = [registry EXCEPT ![Head(job[w].left)] = job[w].image]
          /\ job' = [job EXCEPT ![w].left = Tail(@)]
          /\ UNCHANGED <<pc, child, handler, removal>>
       \/ Return(w, "failed") /\ UNCHANGED registry
    /\ UNCHANGED <<cluster, document, releases, spent, dir, past>>

\* An engine that reported no digest fails the command after the pushes.
PushEnds(w) ==
    /\ pc[w] = "push" /\ job[w].left = <<>>
    /\ \E how \in {"pushed", "failed"} : Return(w, how)
    /\ UNCHANGED <<outside, spent, dir, past>>

-----------------------------------------------------------------------------
(* deploy *)

NewestTag == Highest(Tags \ Prereleases)

\* Of the tag a person names, or else of the newest stable one on origin.
BeginDeploy(w) ==
    /\ Begin(w, "deploy", "resolve")
    /\ \/ \E t \in Tags : OfTag(w, t)
       \/ Tags # Prereleases /\ OfTag(w, NewestTag)

\* The tag's commit, fetched from origin when the clone has no such tag.
CommitOfTag(w) ==
    /\ pc[w] = "resolve"
    /\ Advance(w, "digest") \/ Return(w, "refused")
    /\ UNCHANGED <<outside, spent, dir, past>>

\* What the registry has for the tag now; nothing is read from it again.
Digest(w) ==
    /\ pc[w] = "digest"
    /\ LET image == registry[TagRef(job[w].tag)] IN
       \/ /\ image # NoImage
          /\ job' = [job EXCEPT ![w].image = image]
          /\ Goto(w, "mkdir") /\ UNCHANGED <<handler, removal>>
       \/ Return(w, "refused")
    /\ UNCHANGED <<outside, spent, dir, past>>

\* The tag's archive is in memory; from here on a signal is listened for.
MkdirTemp(w, next) ==
    /\ pc[w] = "mkdir"
    /\ \/ /\ dir' = [dir EXCEPT ![w] = {}]
          /\ handler' = [handler EXCEPT ![w] = "listening"]
          /\ Goto(w, next) /\ UNCHANGED <<job, removal>>
       \/ Return(w, "failed") /\ UNCHANGED dir
    /\ UNCHANGED <<outside, spent, past>>

\* It makes the directories it writes into, the temporary one included.
Extract(w) ==
    /\ pc[w] = "extract"
    /\ dir' = [dir EXCEPT ![w] = (@ \ Gone) \cup {"tree"}]
    /\ IF job[w].tag \in Deployable THEN Advance(w, "op") ELSE Return(w, "failed")
    /\ UNCHANGED <<outside, spent, past>>

\* The steps of a rollout, in order; a step that fails stops the deploy.
Steps == <<"op", "preflight", "apply", "set", "status", "after", "live", "view">>
StepAfter(step) == Steps[(CHOOSE n \in DOMAIN Steps : Steps[n] = step) + 1]

\* Of the configuration: preflight and after_roll.
Script(w) ==
    /\ pc[w] \in {"preflight", "after"}
    /\ Advance(w, StepAfter(pc[w])) \/ Return(w, "failed")
    /\ UNCHANGED <<outside, spent, dir, past>>

\* A program with its effects below has answered.
ProgramAnswers(w) ==
    /\ pc[w] \in {"op", "apply", "set"} /\ child[w].runs = "none"
    /\ IF child[w].ok THEN Advance(w, StepAfter(pc[w])) ELSE Return(w, "failed")
    /\ UNCHANGED <<outside, spent, dir, past>>

\* kubectl's identity: the file, and a token the cluster still takes.
Admitted(w) == "kubeconfig" \in dir[w] /\ job[w].token = cluster.token

\* Old pods may go on answering when the new ones are all there.
RolloutStatus(w) ==
    /\ pc[w] = "status"
    /\ \/ Admitted(w) /\ cluster.image \in cluster.answers /\ Advance(w, "after")
       \/ Return(w, "failed")
    /\ UNCHANGED <<outside, spent, dir, past>>

\* The tag's own check asks whoever answers whether it is the tag, and may
\* fail all the same; it is run again until its window has passed.
LiveCheck(w) ==
    /\ pc[w] = "live"
    /\ \/ /\ \E i \in cluster.answers : i.version = job[w].tag
          /\ Advance(w, "view")
       \/ /\ job[w].tries + 1 < MaxAttempts
          /\ job' = [job EXCEPT ![w].tries = @ + 1]
          /\ UNCHANGED <<pc, child, handler, removal>>
       \/ job[w].tries + 1 = MaxAttempts /\ Return(w, "failed")
    /\ UNCHANGED <<outside, spent, dir, past>>

\* PublishRelease, which `release` calls too, asks for the GitHub release and
\* creates it; another may create it in between, and then this one fails.
BeginPublish(w) ==
    /\ Begin(w, "release", "view")
    /\ \E t \in Tags : OfTag(w, t)

ViewRelease(w) ==
    /\ pc[w] = "view"
    /\ \/ job[w].tag \in releases /\ Return(w, "published")
       \/ job[w].tag \notin releases /\ Advance(w, "create")
       \/ Return(w, "failed")
    /\ UNCHANGED <<outside, spent, dir, past>>

CreateRelease(w) ==
    /\ pc[w] = "create"
    /\ \/ /\ job[w].tag \notin releases
          /\ releases' = releases \cup {job[w].tag}
          /\ Return(w, "published")
       \/ Return(w, "failed") /\ UNCHANGED releases
    /\ UNCHANGED <<registry, cluster, document, spent, dir, past>>

-----------------------------------------------------------------------------
(* deploy-credential *)

\* rollout-identity.yaml names one ServiceAccount and its token Secret.
BeginCredential(w) ==
    /\ Begin(w, "credential", "admin")
    /\ job' = [job EXCEPT ![w] = NoJob]

\* An administrator's reads of the Secret, which may have no token yet.
AdminReads(w) ==
    /\ pc[w] = "admin"
    /\ \/ /\ job' = [job EXCEPT ![w].token = cluster.token]
          /\ Goto(w, "mkdir") /\ UNCHANGED <<handler, removal>>
       \/ Return(w, "refused")
    /\ UNCHANGED <<outside, spent, dir, past>>

\* For CredentialGoes: a credential that was written once the removal had listed
\* what it removes, or by a program that has outlived its command.
Late(w) == IF removal[w] # "no" \/ Ended(w)
           THEN [past EXCEPT !.late = @ \cup {w}] ELSE past

WriteFile(w) ==
    /\ pc[w] = "write"
    /\ IF dir[w] = Gone
       THEN Return(w, "failed") /\ UNCHANGED <<dir, past>>
       ELSE /\ dir' = [dir EXCEPT ![w] = @ \cup {"kubeconfig"}]
            /\ past' = Late(w)
            /\ Advance(w, "dry")
    /\ UNCHANGED <<outside, spent>>

\* Mutant for StoredIsProven: the dry run's failure is only shown.
CredentialAnswersAnyway(w) ==
    /\ pc[w] \in {"dry", "store", "back"} /\ child[w].runs = "none"
    /\ IF ~child[w].ok /\ pc[w] # "dry" THEN Return(w, "failed")
       ELSE \/ pc[w] = "dry" /\ Advance(w, "store")
            \/ pc[w] = "store" /\ Advance(w, "back")
            \/ pc[w] = "back" /\ Return(w, "stored")
    /\ UNCHANGED <<outside, spent, dir, past>>

\* Stored only once the cluster has taken it, and read back before it ends.
CredentialAnswers(w) ==
    /\ pc[w] \in {"dry", "store", "back"} /\ child[w].runs = "none"
    /\ IF ~child[w].ok THEN Return(w, "failed")
       ELSE \/ pc[w] = "dry" /\ Advance(w, "store")
            \/ pc[w] = "store" /\ Advance(w, "back")
            \/ pc[w] = "back" /\ Return(w, "stored")
    /\ UNCHANGED <<outside, spent, dir, past>>

-----------------------------------------------------------------------------
(* The programs a command runs: their parent may be gone by now. *)

Answer(w, good) == child' = [child EXCEPT ![w] = [runs |-> "none", ok |-> good]]

\* `op read` makes its file in a directory that is there.
OpRead(w) ==
    /\ child[w].runs = "op"
    /\ \/ /\ document # 0 /\ dir[w] # Gone
          /\ dir' = [dir EXCEPT ![w] = @ \cup {"kubeconfig"}]
          /\ job' = [job EXCEPT ![w].token = document]
          /\ past' = Late(w)
          /\ Answer(w, TRUE)
       \/ Answer(w, FALSE) /\ UNCHANGED <<dir, job, past>>
    /\ UNCHANGED <<outside, spent, pc, handler, removal>>

\* Whoever set something in the cluster before has been overtaken.
Overtakes(w) == [past EXCEPT !.touched = @ \cup (Operators \ {w})]

\* `kubectl apply`: the image of the deployment becomes deploy/prod's own when
\* it names one.  One that fails has applied all of it, some of it or nothing.
Apply(w) ==
    /\ child[w].runs = "apply"
    /\ \/ /\ Admitted(w) /\ "tree" \in dir[w]
          /\ \E i \in {cluster.image, NoImage}, good \in BOOLEAN, tree \in {job[w].tag, NoTag} :
                 /\ good => tree = job[w].tag
                 /\ cluster' = [cluster EXCEPT !.tree = tree, !.image = i]
                 /\ past' = [Overtakes(w) EXCEPT !.touched = @ \ {w}]
                 /\ Answer(w, good)
       \/ Answer(w, FALSE) /\ UNCHANGED <<cluster, past>>
    /\ UNCHANGED <<registry, document, releases, spent, pc, job, dir, handler, removal>>

\* Mutant for DeployedIsLive: the tag is set, not the digest it had.
SetImageByTag(w) ==
    /\ child[w].runs = "set"
    /\ \/ /\ Admitted(w)
          /\ cluster' = [cluster EXCEPT !.image = registry[TagRef(job[w].tag)]]
          /\ past' = Overtakes(w)
          /\ Answer(w, TRUE)
       \/ Answer(w, FALSE) /\ UNCHANGED <<cluster, past>>
    /\ UNCHANGED <<registry, document, releases, spent, pc, job, dir, handler, removal>>

\* `kubectl set image`, to the digest the deploy resolved at its start.
SetImage(w) ==
    /\ child[w].runs = "set"
    /\ \/ /\ Admitted(w)
          /\ cluster' = [cluster EXCEPT !.image = job[w].image]
          /\ past' = Overtakes(w)
          /\ Answer(w, TRUE)
       \/ Answer(w, FALSE) /\ UNCHANGED <<cluster, past>>
    /\ UNCHANGED <<registry, document, releases, spent, pc, job, dir, handler, removal>>

\* The server's dry run of deploy/prod: a Role that lacks a kind fails it.
DryRun(w) ==
    /\ child[w].runs = "dry"
    /\ \/ /\ Admitted(w)
          /\ past' = [past EXCEPT !.proven = @ \cup {job[w].token}]
          /\ Answer(w, TRUE)
       \/ Answer(w, FALSE) /\ UNCHANGED past
    /\ UNCHANGED <<outside, spent, pc, job, dir, handler, removal>>

\* `op document edit` or `create`; one that fails may have stored it.
Store(w) ==
    /\ child[w].runs = "store"
    /\ \/ /\ "kubeconfig" \in dir[w]
          /\ document' = job[w].token
          /\ \E good \in BOOLEAN : Answer(w, good)
       \/ Answer(w, FALSE) /\ UNCHANGED document
    /\ UNCHANGED <<registry, cluster, releases, spent,
                   pc, job, dir, handler, removal, past>>

\* `op read` of what was stored, and whether it is what was written.
ReadBack(w) ==
    /\ child[w].runs = "back"
    /\ \/ /\ document # 0 /\ dir[w] # Gone
          /\ dir' = [dir EXCEPT ![w] = @ \cup {"kubeconfig"}]
          /\ past' = Late(w)
          /\ Answer(w, document = job[w].token)
       \/ Answer(w, FALSE) /\ UNCHANGED <<dir, past>>
    /\ UNCHANGED <<outside, spent, pc, job, handler, removal>>

-----------------------------------------------------------------------------
(* Signals, and the removal of the directory. *)

\* Mutant for InterruptEnds: the removal is left to the deferred call.
RemovesWhenDone(w) == pc[w] = "remove"

\* What is listed is removed, then the directory itself, which something made
\* in between keeps.  Whoever asks first does it, and only once.
Removes(w) == pc[w] = "remove" \/ handler[w] = "taken"

RemoveEntries(w) ==
    /\ Removes(w) /\ removal[w] = "no"
    /\ removal' = [removal EXCEPT ![w] = "busy"]
    /\ dir' = [dir EXCEPT ![w] = {}]
    /\ UNCHANGED <<outside, spent, pc, job, handler, child, past>>

RemoveDir(w) ==
    /\ Removes(w) /\ removal[w] = "busy"
    /\ IF dir[w] = {}
       THEN /\ removal' = [removal EXCEPT ![w] = "gone"]
            /\ dir' = [dir EXCEPT ![w] = Gone]
       ELSE removal' = [removal EXCEPT ![w] = "failed"] /\ UNCHANGED dir
    /\ UNCHANGED <<outside, spent, pc, job, handler, child, past>>

\* The deferred removal has returned: its error counts when there is no other.
Removed(w) ==
    /\ pc[w] = "remove" /\ removal[w] \in {"gone", "failed"}
    /\ Goto(w, "unlisten")
    /\ UNCHANGED <<outside, spent, job, dir, handler, removal, past>>

Outcome(w) ==
    IF job[w].err THEN "failed"
    ELSE IF removal[w] = "failed" THEN "unremoved"
    ELSE IF job[w].image # NoImage THEN "deployed" ELSE "stored"

\* The goroutine ends by `done`, or has a signal in hand and is waited for.
Unlisten(w) ==
    /\ pc[w] = "unlisten" /\ handler[w] \in {"listening", "signalled"}
    /\ End(w, Outcome(w))
    /\ UNCHANGED <<outside, spent, dir, child, past>>

Interrupt(w) ==
    /\ w \in Interrupted /\ handler[w] = "listening" /\ pc[w] # "unlisten"
    /\ handler' = [handler EXCEPT ![w] = "signalled"]
    /\ UNCHANGED <<outside, spent, pc, job, dir, removal, child, past>>

TakeSignal(w) ==
    /\ handler[w] = "signalled"
    /\ handler' = [handler EXCEPT ![w] = "taken"]
    /\ UNCHANGED <<outside, spent, pc, job, dir, removal, child, past>>

\* The goroutine has removed the directory, or failed to, and exits.
ExitOnSignal(w) ==
    /\ handler[w] = "taken" /\ removal[w] \in {"gone", "failed"}
    /\ End(w, "interrupted")
    /\ UNCHANGED <<outside, spent, dir, child, past>>

\* A signal nothing is listening for: SIGHUP and SIGKILL at any time, and an
\* interrupt before the directory is made.
Killed(w) ==
    /\ w \in Interrupted /\ ~Ended(w)
    /\ End(w, "killed")
    /\ UNCHANGED <<outside, spent, dir, child, past>>

-----------------------------------------------------------------------------
(* What happens elsewhere. *)

\* The cluster starts pods of the image set, and stops the others.
Roll ==
    /\ \E S \in {cluster.answers \cup {cluster.image}, {cluster.image}} :
           /\ S # cluster.answers
           /\ cluster' = [cluster EXCEPT !.answers = S]
    /\ cluster.image \notin cluster.answers => cluster.image \in cluster'.answers
    /\ UNCHANGED <<registry, document, releases, spent, own, past>>

\* The identity's token is made anew, and the old one is no longer taken.
Rotate ==
    /\ cluster.token < MaxTokens
    /\ cluster' = [cluster EXCEPT !.token = @ + 1]
    /\ UNCHANGED <<registry, document, releases, spent, own, past>>

-----------------------------------------------------------------------------
Push(w) == BeginPush(w) \/ BuildImage(w) \/ PushRef(w) \/ PushEnds(w)

Deploy(w) ==
    \/ BeginDeploy(w) \/ CommitOfTag(w) \/ Digest(w) \/ Extract(w)
    \/ job[w].tag # NoTag /\ MkdirTemp(w, "extract")
    \/ ProgramAnswers(w) \/ Script(w) \/ RolloutStatus(w) \/ LiveCheck(w)

PublishRelease(w) == BeginPublish(w) \/ ViewRelease(w) \/ CreateRelease(w)

DeployCredential(w) ==
    \/ BeginCredential(w) \/ AdminReads(w) \/ WriteFile(w) \/ CredentialAnswers(w)
    \/ job[w].tag = NoTag /\ MkdirTemp(w, "write")

Program(w) ==
    OpRead(w) \/ Apply(w) \/ SetImage(w) \/ DryRun(w) \/ Store(w) \/ ReadBack(w)

Guard(w) ==
    \/ RemoveEntries(w) \/ RemoveDir(w) \/ Removed(w) \/ Unlisten(w)
    \/ Interrupt(w) \/ TakeSignal(w) \/ ExitOnSignal(w) \/ Killed(w)

Next ==
    \/ \E w \in Operators :
           \/ Push(w) \/ Deploy(w) \/ PublishRelease(w) \/ DeployCredential(w)
           \/ Program(w) \/ Guard(w)
    \/ Roll \/ Rotate

\* The signal goroutine runs; nothing else is owed, a script may hang.
Fairness ==
    \A w \in Operators :
        /\ WF_vars(TakeSignal(w)) /\ WF_vars(RemoveEntries(w))
        /\ WF_vars(RemoveDir(w)) /\ WF_vars(ExitOnSignal(w))

Spec == Init /\ [][Next]_vars /\ Fairness

-----------------------------------------------------------------------------
(* What holds. *)

Jobs == [tag: Tags \cup {NoTag}, image: Images \cup {NoImage}, token: 0 .. MaxTokens,
         left: Seq(Refs), tries: 0 .. (MaxAttempts - 1), err: BOOLEAN]

Places == Outcomes \cup Children
              \cup {"build", "push", "resolve", "digest", "mkdir", "extract",
                    "preflight", "status", "after", "live", "view", "create",
                    "admin", "write", "remove", "unlisten"}

\* The variables keep their types.
TypeOK ==
    /\ releases \subseteq Tags
    /\ registry \in [Refs -> Images \cup {NoImage}]
    /\ cluster \in [tree: Tags \cup {NoTag}, image: Images \cup {NoImage},
                    answers: SUBSET (Images \cup {NoImage}), token: 1 .. MaxTokens]
    /\ document \in 0 .. MaxTokens
    /\ spent \in [jobs: 0 .. MaxJobs, builds: 0 .. MaxBuilds]
    /\ pc \in [Operators -> Places]
    /\ job \in [Operators -> Jobs]
    /\ dir \in [Operators -> (SUBSET {"tree", "kubeconfig"}) \cup {Gone}]
    /\ handler \in [Operators -> {"off", "listening", "signalled", "taken"}]
    /\ removal \in [Operators -> {"no", "busy", "gone", "failed"}]
    /\ child \in [Operators -> [runs: Children \cup {"none"}, ok: BOOLEAN]]
    /\ past \in [touched: SUBSET Operators, late: SUBSET Operators,
                 proven: SUBSET (1 .. MaxTokens)]

\* A deploy that says it is live is: until another's kubectl comes after its
\* apply, the cluster has the tree of its tag and answers with the image that
\* the registry had for that tag, and the tag has its GitHub release, whatever
\* was pushed, applied by halves or interrupted before.
DeployedIsLive ==
    \A w \in Operators : pc[w] = "deployed" =>
        /\ job[w].tag \in releases
        /\ w \notin past.touched =>
               /\ cluster.tree = job[w].tag
               /\ cluster.image = job[w].image /\ job[w].image \in cluster.answers
               /\ job[w].image.version = job[w].tag

\* The credential goes with the command, whatever step failed and whenever the
\* signal came.  Left are that of a command that was killed, and one that was
\* written too late: when the signal's removal had listed the directory, by the
\* command's own WriteFile or by the program it waits for, or by a program that
\* has outlived the command.
CredentialGoes ==
    \A w \in Operators :
        Ended(w) /\ "kubeconfig" \in dir[w] => pc[w] = "killed" \/ w \in past.late

\* What 1Password holds is an identity that the cluster took once, whichever
\* of several operators stored it and however their runs ended.
StoredIsProven == document # 0 => document \in past.proven

\* A command told to stop does, though the program it waits for never ends.
InterruptEnds == \A w \in Operators : handler[w] = "taken" ~> Ended(w)
=============================================================================
