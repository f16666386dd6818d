-------------------------------- MODULE Release --------------------------------
(***************************************************************************)
(* `lateregate release vX.Y.Z` (cmd/lateregate/main.go, and                *)
(* internal/changelog/changelog.go Ready and Cut) from several checkouts   *)
(* of one repository at once, against the one origin they share, while     *)
(* others land commits on the release branch.  Git is modelled by what the *)
(* code asks of it.                                                        *)
(*                                                                         *)
(* A commit is a number, its history the set of commits it holds.  A work  *)
(* commit adds one entry, its own number, under Unreleased of CHANGELOG.md;*)
(* a changelog commit moves what is there to its version's section.        *)
(***************************************************************************)
EXTENDS Naturals, Sequences, FiniteSets

CONSTANTS
  Checkouts,   \* the working trees releases are cut from
  Clones,      \* the repositories they are checked out of, each of one or several
               \* trees: a clone's worktrees share its tags and its refs
  Versions,    \* the release tags, ordered as semver orders them
  MaxCommits,  \* bound: commits ever made, in any checkout
  MaxFaults,   \* bound: steps that fail, crashes and answers lost
  Elsewhere    \* who makes the work commits

NoTag == 0

(* What a bar passes on when the tree moves under it: no one commit. *)
Mixed == MaxCommits + 1

ASSUME ReleaseAssumption ==
  /\ Versions \subseteq Nat \ {0}
  /\ MaxCommits \in Nat \ {0}
  /\ MaxFaults \in Nat
  /\ Elsewhere \notin Checkouts

VARIABLES
  log,      \* every commit ever made: its history, its CHANGELOG.md, its author
  tip,      \* origin's tip of the release branch
  tags,     \* origin's tags: the commit of each, or NoTag
  clone,    \* the clone of each checkout
  head,     \* HEAD of each checkout
  dirty,    \* whether its working tree differs from HEAD
  tracking, \* each clone's remote-tracking ref of the release branch
  local,    \* each clone's own tags
  phase,    \* where its release is
  version,  \* the version asked for
  base,     \* release.base, 0 until ready has read it
  barred,   \* the commit the bar passed on in this run, or Mixed
  faults

originVars == <<tip, tags>>
treeVars   == <<clone, head, dirty, local>>
runVars    == <<version, base, barred>>
vars == <<log, originVars, treeVars, tracking, phase, runVars, faults>>

Phases ==
  {"idle", "fetch", "tags", "bar", "moved", "refetch", "retags", "write", "commit", "tag",
   "push", "untag", "reset", "undone"}
Commits == 1..Len(log)

TypeOK ==
  /\ log \in Seq([history : SUBSET (1..MaxCommits), unreleased : SUBSET (1..MaxCommits),
                  section : [Versions -> SUBSET (1..MaxCommits)],
                  by : Checkouts \cup {Elsewhere}])
  /\ Len(log) <= MaxCommits
  /\ tip \in Commits
  /\ tags \in [Versions -> Commits \cup {NoTag}]
  /\ clone \in [Checkouts -> Clones]
  /\ head \in [Checkouts -> Commits]
  /\ dirty \in [Checkouts -> BOOLEAN]
  /\ tracking \in [Clones -> Commits]
  /\ local \in [Clones -> [Versions -> Commits \cup {NoTag}]]
  /\ phase \in [Checkouts -> Phases]
  /\ version \in [Checkouts -> Versions \cup {0}]
  /\ base \in [Checkouts -> Commits \cup {0}]
  /\ barred \in [Checkouts -> Commits \cup {0, Mixed}]
  /\ faults \in 0..MaxFaults

(* A branch of one commit, with its entry under Unreleased. *)
Init ==
  /\ log = <<[history |-> {1}, unreleased |-> {1}, section |-> [v \in Versions |-> {}],
             by |-> Elsewhere]>>
  /\ tip = 1
  /\ tags = [v \in Versions |-> NoTag]
  /\ clone \in [Checkouts -> Clones]
  /\ head = [c \in Checkouts |-> 1]
  /\ dirty = [c \in Checkouts |-> FALSE]
  /\ tracking = [r \in Clones |-> 1]
  /\ local = [r \in Clones |-> [v \in Versions |-> NoTag]]
  /\ phase = [c \in Checkouts |-> "idle"]
  /\ version = [c \in Checkouts |-> 0]
  /\ base = [c \in Checkouts |-> 0]
  /\ barred = [c \in Checkouts |-> 0]
  /\ faults = 0

-----------------------------------------------------------------------------
(* Git *)

New == Len(log) + 1
Holds(commit, other) == other \in log[commit].history

Work(parent) ==
  [log[parent] EXCEPT !.history = @ \cup {New}, !.unreleased = @ \cup {New},
                      !.by = Elsewhere]

(* c's changelog commit: what sits under Unreleased moves to v's section. *)
Changelog(c, v) ==
  LET parent == log[head[c]]
  IN  [parent EXCEPT !.history = @ \cup {New}, !.unreleased = {},
                     !.section[v] = parent.unreleased, !.by = c]

(* Someone lands a change on the release branch. *)
Land ==
  /\ Len(log) < MaxCommits
  /\ log' = Append(log, Work(tip))
  /\ tip' = New
  /\ UNCHANGED <<tags, treeVars, tracking, phase, runVars, faults>>

(* What a person does in a checkout no release is running in: pull, commit,
   drop what the tree has over the branch, delete a tag left behind. *)
Resting(c) == phase[c] \in {"idle", "undone"}

To(c, p) == phase' = [phase EXCEPT ![c] = p] /\ UNCHANGED runVars

(* The process ends, and what it knew with it; a cut that was undone is kept
   apart until something else happens in its checkout. *)
Quit(c) ==
  /\ phase' = [phase EXCEPT ![c] = "idle"]
  /\ version' = [version EXCEPT ![c] = 0]
  /\ base' = [base EXCEPT ![c] = 0]
  /\ barred' = [barred EXCEPT ![c] = 0]
Track(c, commit) == tracking' = [tracking EXCEPT ![clone[c]] = commit]

Pull(c) ==
  /\ Resting(c) /\ ~dirty[c]
  /\ Holds(tip, head[c]) /\ head[c] # tip
  /\ Track(c, tip)
  /\ head' = [head EXCEPT ![c] = tip]
  /\ Quit(c)
  /\ UNCHANGED <<log, originVars, clone, dirty, local, faults>>

(* The bar takes minutes and holds neither HEAD nor the tree: a pull in that
   time, and the bar has read some of one commit and some of another. *)
PullUnderBar(c) ==
  /\ phase[c] \in {"bar", "moved"}
  /\ Holds(tip, head[c]) /\ head[c] # tip
  /\ Track(c, tip)
  /\ head' = [head EXCEPT ![c] = tip]
  /\ To(c, "moved")
  /\ UNCHANGED <<log, originVars, clone, dirty, local, faults>>

(* A change committed here and not yet pushed. *)
WorkHere(c) ==
  /\ Resting(c) /\ ~dirty[c]
  /\ Len(log) < MaxCommits
  /\ log' = Append(log, Work(head[c]))
  /\ head' = [head EXCEPT ![c] = New]
  /\ Quit(c)
  /\ UNCHANGED <<originVars, clone, dirty, local, tracking, faults>>

ResetToTracking(c) ==
  /\ Resting(c)
  /\ dirty[c] \/ head[c] # tracking[clone[c]]
  /\ head' = [head EXCEPT ![c] = tracking[clone[c]]]
  /\ dirty' = [dirty EXCEPT ![c] = FALSE]
  /\ Quit(c)
  /\ UNCHANGED <<log, originVars, clone, tracking, local, faults>>

(* A tag a cut of the clone has made and not yet pushed: nobody deletes it. *)
InUse(r, v) ==
  \E c \in Checkouts : clone[c] = r /\ version[c] = v /\ phase[c] \in {"push", "untag"}

DeleteTag(c) ==
  /\ Resting(c)
  /\ \E v \in Versions : /\ local[clone[c]][v] # NoTag
                         /\ ~InUse(clone[c], v)
                         /\ local' = [local EXCEPT ![clone[c]][v] = NoTag]
  /\ Quit(c)
  /\ UNCHANGED <<log, originVars, clone, head, dirty, tracking, faults>>

-----------------------------------------------------------------------------
(* ready, before the bar and again in Cut *)

Begin(c, v) ==
  /\ Resting(c)
  /\ phase' = [phase EXCEPT ![c] = "fetch"]
  /\ version' = [version EXCEPT ![c] = v]
  /\ base' = [base EXCEPT ![c] = 0]
  /\ barred' = [barred EXCEPT ![c] = 0]
  /\ UNCHANGED <<log, originVars, treeVars, tracking, faults>>

(* synced: HEAD is origin's tip, neither behind nor ahead. *)
SyncedIgnoringAhead(c) == Holds(head[c], tip)
Synced(c) == head[c] = tip

(* git status, then a fetch of the tip and the comparison with it. *)
Fetch(c, from, to) ==
  /\ phase[c] = from
  /\ IF dirty[c] THEN Quit(c) /\ UNCHANGED tracking
     ELSE /\ Track(c, tip)
          /\ IF Synced(c) THEN To(c, to) ELSE Quit(c)
  /\ UNCHANGED <<log, originVars, treeVars, faults>>

(* newest: above every version origin has. *)
NewestOnlyUntaken(v) == tags[v] = NoTag
Newest(v) == \A w \in Versions : tags[w] # NoTag => w < v

Base(c) == head[c]

(* The read of origin's tags, then of this checkout's own and its changelog. *)
ReadTags(c, from, to) ==
  /\ phase[c] = from
  /\ IF /\ Newest(version[c])
        /\ local[clone[c]][version[c]] = NoTag
        /\ log[head[c]].unreleased # {}
       THEN /\ phase' = [phase EXCEPT ![c] = to]
            /\ base' = [base EXCEPT ![c] = Base(c)]
            /\ UNCHANGED <<version, barred>>
       ELSE Quit(c)
  /\ UNCHANGED <<log, originVars, treeVars, tracking, faults>>

(* The bar over the tree, minutes of it; a red one ends the release. *)
Bar(c) ==
  /\ phase[c] \in {"bar", "moved"}
  /\ \/ /\ phase' = [phase EXCEPT ![c] = "refetch"]
        /\ barred' = [barred EXCEPT ![c] = IF phase[c] = "bar" THEN head[c] ELSE Mixed]
        /\ UNCHANGED <<version, base>>
     \/ Quit(c)
  /\ UNCHANGED <<log, originVars, treeVars, tracking, faults>>

-----------------------------------------------------------------------------
(* Cut, from its first write *)

Write(c) ==
  /\ phase[c] = "write"
  /\ dirty' = [dirty EXCEPT ![c] = TRUE]
  /\ To(c, "commit")
  /\ UNCHANGED <<log, originVars, clone, head, local, tracking, faults>>

Commit(c) ==
  /\ phase[c] = "commit"
  /\ Len(log) < MaxCommits
  /\ log' = Append(log, Changelog(c, version[c]))
  /\ head' = [head EXCEPT ![c] = New]
  /\ dirty' = [dirty EXCEPT ![c] = FALSE]
  /\ To(c, "tag")
  /\ UNCHANGED <<originVars, clone, local, tracking, faults>>

(* git tag refuses a name the clone has, which another of its worktrees may
   have taken since ready looked. *)
Tag(c) ==
  /\ phase[c] = "tag"
  /\ IF local[clone[c]][version[c]] = NoTag
       THEN /\ local' = [local EXCEPT ![clone[c]][version[c]] = head[c]]
            /\ To(c, "push")
       ELSE To(c, "reset") /\ UNCHANGED local
  /\ UNCHANGED <<log, originVars, clone, head, dirty, tracking, faults>>

(* git push --atomic: the branch moves forward and the tag is new, or neither
   ref is taken. *)
Sent(c) == local[clone[c]][version[c]]
Forward(c) == Holds(head[c], tip)
Acceptable(c) == Forward(c) /\ Sent(c) # NoTag /\ tags[version[c]] = NoTag

AcceptEither(c) ==
  /\ tip' = IF Forward(c) THEN head[c] ELSE tip
  /\ tags' = IF Sent(c) # NoTag /\ tags[version[c]] = NoTag
               THEN [tags EXCEPT ![version[c]] = Sent(c)] ELSE tags
Accept(c) ==
  IF Acceptable(c)
    THEN tip' = head[c] /\ tags' = [tags EXCEPT ![version[c]] = Sent(c)]
    ELSE UNCHANGED originVars

Push(c) ==
  /\ phase[c] = "push"
  /\ Accept(c)
  /\ IF Acceptable(c) THEN Track(c, head[c]) /\ Quit(c)
                      ELSE Track(c, tip) /\ To(c, "untag")
  /\ UNCHANGED <<log, treeVars, faults>>

(* A push that fails for a reason of its own, or whose answer is lost once the
   remote has taken it; rejected then reads origin again, if it can. *)
PushFails(c) ==
  /\ faults < MaxFaults
  /\ phase[c] = "push"
  /\ Accept(c) \/ UNCHANGED originVars
  /\ Track(c, tip') \/ UNCHANGED tracking
  /\ To(c, "untag")
  /\ faults' = faults + 1
  /\ UNCHANGED <<log, treeVars>>

(* Any step before it: ready refuses, and from the first write fail undoes. *)
StepFails(c) ==
  /\ faults < MaxFaults
  /\ \/ phase[c] \in {"fetch", "tags", "refetch", "retags"} /\ Quit(c)
     \/ phase[c] \in {"write", "commit", "tag"} /\ To(c, "reset")
  /\ faults' = faults + 1
  /\ UNCHANGED <<log, originVars, treeVars, tracking>>

(* undo: the tag first, if the cut made it, then a hard reset to the base. *)
UndoKeepingTag(c) ==
  /\ phase[c] = "untag"
  /\ To(c, "reset")
  /\ UNCHANGED <<log, originVars, treeVars, tracking, faults>>
UndoTag(c) ==
  /\ phase[c] = "untag"
  /\ IF Sent(c) = NoTag
       THEN Quit(c) /\ UNCHANGED local
       ELSE /\ local' = [local EXCEPT ![clone[c]][version[c]] = NoTag]
            /\ To(c, "reset")
  /\ UNCHANGED <<log, originVars, clone, head, dirty, tracking, faults>>

UndoReset(c) ==
  /\ phase[c] = "reset"
  /\ head' = [head EXCEPT ![c] = base[c]]
  /\ dirty' = [dirty EXCEPT ![c] = FALSE]
  /\ To(c, "undone")
  /\ UNCHANGED <<log, originVars, clone, local, tracking, faults>>

UndoFails(c) ==
  /\ faults < MaxFaults
  /\ phase[c] \in {"untag", "reset"}
  /\ Quit(c)
  /\ faults' = faults + 1
  /\ UNCHANGED <<log, originVars, treeVars, tracking>>

(* The process is killed: what it wrote, committed and tagged stays. *)
Crash(c) ==
  /\ faults < MaxFaults
  /\ ~Resting(c)
  /\ Quit(c)
  /\ faults' = faults + 1
  /\ UNCHANGED <<log, originVars, treeVars, tracking>>

-----------------------------------------------------------------------------
Release(c) ==
  \/ \E v \in Versions : Begin(c, v)
  \/ Fetch(c, "fetch", "tags") \/ ReadTags(c, "tags", "bar")
  \/ Bar(c)
  \/ Fetch(c, "refetch", "retags") \/ ReadTags(c, "retags", "write")
  \/ Write(c) \/ Commit(c) \/ Tag(c) \/ Push(c)
  \/ PushFails(c) \/ StepFails(c)
  \/ UndoTag(c) \/ UndoReset(c) \/ UndoFails(c)
  \/ Crash(c)

Person(c) == Pull(c) \/ PullUnderBar(c) \/ WorkHere(c) \/ ResetToTracking(c) \/ DeleteTag(c)

Next == Land \/ \E c \in Checkouts : Release(c) \/ Person(c)

Spec == Init /\ [][Next]_vars

-----------------------------------------------------------------------------
(* Properties *)

(* The tip agrees with the tags: every tag is on the release branch, and its
   section of the changelog is there as the tag has it, with no section for a
   version that has no tag. *)
TagsMatchBranch ==
  \A v \in Versions :
    /\ tags[v] # NoTag => /\ Holds(tip, tags[v])
                          /\ log[tip].section[v] = log[tags[v]].section[v]
    /\ tags[v] = NoTag => log[tip].section[v] = {}

(* A tag ships origin's tip and one changelog commit on top, and the bar passed
   on that tip in the run that pushes the tag: nothing another checkout landed
   meanwhile, and nothing left behind in this one, goes out with it.  A checkout
   somebody pulls in while its bar runs is the exception: ready looks at HEAD
   again after the bar, and never at what HEAD was before it. *)
ShipsWhatWasBarred ==
  [][\A v \in Versions : tags'[v] # tags[v] =>
       /\ log[tags'[v]].history = log[tip].history \cup {tags'[v]}
       /\ \E c \in Checkouts : barred[c] \in {tip, Mixed} /\ version[c] = v]_vars

(* A cut that failed and was undone leaves a checkout the next run starts from:
   clean, at a commit the branch still holds, so a pull goes forward, and
   without the tag it made. *)
UndoneIsClean ==
  \A c \in Checkouts : phase[c] = "undone" =>
    /\ ~dirty[c]
    /\ Holds(tip, head[c])
    /\ Sent(c) # NoTag => log[Sent(c)].by # c

(* Every release is one step of the abstract line of releases: the changes that
   wait, all of them, under a version above every other. *)
Line == INSTANCE ReleaseLine WITH
  Changes <- 1..MaxCommits,
  waiting <- log[tip].unreleased,
  shipped <- [v \in Versions |-> IF tags[v] = NoTag THEN {} ELSE log[tags[v]].section[v]]
AsALine == Line!Spec

=============================================================================
