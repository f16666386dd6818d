----------------------------- MODULE ReleaseProofs -----------------------------
(***************************************************************************)
(* Theorems about the release command: its cut, and the guard that reads   *)
(* CI before it.                                                           *)
(*                                                                         *)
(* About Release, for any checkouts of any clones, any versions and any    *)
(* bound on commits and faults: the typing, that the tags agree with the   *)
(* branch, what a tag ships, what an undone cut leaves, and that the       *)
(* releases are steps of ReleaseLine.                                      *)
(*                                                                         *)
(* About GreenCut, for every set of workflows, every page size and number  *)
(* of pages, every list of runs the check begins with and whatever happens *)
(* at GitHub while it reads.  A list read a page at a time while rows are  *)
(* put on top of it has its rows pushed to later pages: a row may be read  *)
(* twice, and none that was there from the beginning is passed over.  The  *)
(* invariant says what the rows behind the page that is read next have     *)
(* done for their workflows.                                               *)
(***************************************************************************)
EXTENDS Release, GreenCut, TLAPS, WellFoundedInduction

-----------------------------------------------------------------------------
(* Release: the invariant *)

(* A commit's history ends with it, and its changelog is about its history. *)
LogOrdered ==
  \A k \in Commits :
    /\ k \in log[k].history
    /\ log[k].history \subseteq 1..k
    /\ log[k].unreleased \subseteq 1..k
    /\ \A v \in Versions : log[k].section[v] \subseteq 1..k

Read    == {"bar", "refetch", "retags", "write", "commit"}
Passed  == {"refetch", "retags", "write", "commit", "tag", "push"}
Cutting == {"write", "commit", "tag", "push"}
Undoing == {"reset", "undone"}

(* A release that runs has a version, and once ready has looked a base. *)
Based == Read \cup {"moved", "tag", "push", "untag"} \cup Undoing
Versioned ==
  \A c \in Checkouts :
    /\ phase[c] # "idle" => version[c] \in Versions
    /\ phase[c] \in Based => base[c] \in Commits

(* From its first answer of origin's tip a release stands on what the branch
   holds, and so does the base it returns to; after a bar the tree moved under
   it is on that base again once ready has read it. *)
OnBranch(c) ==
  /\ phase[c] \in {"tags", "retags"} => Holds(tip, head[c])
  /\ phase[c] \in Based => Holds(tip, base[c])
  /\ phase[c] \in {"bar", "write", "commit", "undone"} => head[c] = base[c]
  /\ phase[c] \in {"refetch", "retags"} => head[c] = base[c] \/ barred[c] = Mixed

(* The bar passed on the base, or on no one commit; while origin is still there, what was waiting
   waits, and no version is above the one being cut. *)
Justified(c) ==
  /\ phase[c] \in Passed => barred[c] \in {base[c], Mixed}
  /\ phase[c] \in Cutting =>
       /\ log[base[c]].unreleased # {}
       /\ tip = base[c] => Newest(version[c])

(* Once it has committed, its head is its own changelog commit on the base. *)
HasCut(c) ==
  phase[c] \in {"tag", "push", "untag"} =>
    /\ log[head[c]].by = c
    /\ log[head[c]].history = log[base[c]].history \cup {head[c]}
    /\ log[head[c]].unreleased = {}
    /\ log[head[c]].section =
         [log[base[c]].section EXCEPT ![version[c]] = log[base[c]].unreleased]
Unsent(c) == phase[c] \in {"tag", "push"} => ~Holds(tip, head[c])

(* The tag it made is its head's until it is pushed or undone; at any other
   time the clone's tag of its version is another worktree's. *)
OwnTag(c) ==
  /\ phase[c] \in {"push", "untag"} => Sent(c) = head[c]
  /\ phase[c] \in {"write", "commit", "tag"} \cup Undoing =>
       (Sent(c) # NoTag => log[Sent(c)].by # c)
Tidy(c) == phase[c] = "undone" => ~dirty[c]

CutInv(c) ==
  OnBranch(c) /\ Justified(c) /\ HasCut(c) /\ Unsent(c) /\ OwnTag(c) /\ Tidy(c)

LineInv == LogOrdered /\ TagsMatchBranch /\ \A c \in Checkouts : CutInv(c)

-----------------------------------------------------------------------------
(* Typing *)

Sections == [Versions -> SUBSET (1..MaxCommits)]
Entries ==
  [history : SUBSET (1..MaxCommits), unreleased : SUBSET (1..MaxCommits),
   section : Sections, by : Checkouts \cup {Elsewhere}]

LEMMA LogTyped ==
  ASSUME TypeOK
  PROVE  log \in Seq(Entries) /\ Len(log) \in Nat /\ \A k \in Commits : log[k] \in Entries
<1>1. log \in Seq(Entries)
  BY DEF TypeOK, Entries, Sections
<1>. QED
  BY <1>1 DEF Commits

LEMMA InitTyped == ReleaseAssumption /\ Init => TypeOK
<1> SUFFICES ASSUME ReleaseAssumption, Init PROVE TypeOK
  OBVIOUS
<1> USE DEF ReleaseAssumption, Init
<1>1. log \in Seq(Entries) /\ Len(log) = 1
  BY DEF Entries, Sections
<1>2. faults \in 0..MaxFaults
  OBVIOUS
<1>. QED
  BY <1>1, <1>2 DEF TypeOK, Entries, Sections, Commits, Phases, NoTag

LEMMA AppendTyped ==
  ASSUME ReleaseAssumption, TypeOK, NEW e \in Entries, Len(log) < MaxCommits,
         log' = Append(log, e)
  PROVE  /\ log' \in Seq(Entries)
         /\ Len(log') <= MaxCommits
         /\ Len(log') = New
         /\ log'[New] = e
         /\ \A k \in Commits : log'[k] = log[k]
  BY DEF ReleaseAssumption, TypeOK, Entries, Sections, Commits, New

LEMMA WorkTyped ==
  ASSUME ReleaseAssumption, TypeOK, Len(log) < MaxCommits, NEW parent \in Commits
  PROVE  /\ Work(parent) \in Entries
         /\ Work(parent).history = log[parent].history \cup {New}
         /\ Work(parent).unreleased = log[parent].unreleased \cup {New}
         /\ Work(parent).section = log[parent].section
         /\ Work(parent).by = Elsewhere
<1> USE DEF ReleaseAssumption, TypeOK, Entries, Sections, Commits
<1>1. New \in 1..MaxCommits
  BY DEF New
<1>2. log[parent] \in Entries
  BY LogTyped
<1>. QED
  BY <1>1, <1>2 DEF Work

LEMMA ChangelogTyped ==
  ASSUME ReleaseAssumption, TypeOK, Len(log) < MaxCommits,
         NEW c \in Checkouts, NEW v \in Versions
  PROVE  /\ Changelog(c, v) \in Entries
         /\ Changelog(c, v).history = log[head[c]].history \cup {New}
         /\ Changelog(c, v).unreleased = {}
         /\ Changelog(c, v).section =
              [log[head[c]].section EXCEPT ![v] = log[head[c]].unreleased]
         /\ Changelog(c, v).by = c
<1> USE DEF ReleaseAssumption, TypeOK, Entries, Sections, Commits
<1>1. New \in 1..MaxCommits
  BY DEF New
<1>2. log[head[c]] \in Entries
  BY LogTyped
<1>. QED
  BY <1>1, <1>2 DEF Changelog

(* One tag of a clone changes. *)
LEMMA TagTyped ==
  ASSUME NEW Old, NEW Now, Old \subseteq Now, NEW f \in [Versions -> Old], NEW v, NEW k \in Now
  PROVE  [f EXCEPT ![v] = k] \in [Versions -> Now]
  OBVIOUS

(* The tags of one clone change. *)
LEMMA LocalTyped ==
  ASSUME NEW Old, NEW Now, Old \subseteq Now, NEW tagged \in [Clones -> [Versions -> Old]],
         NEW r \in Clones, NEW f \in [Versions -> Now]
  PROVE  [tagged EXCEPT ![r] = f] \in [Clones -> [Versions -> Now]]
<1>1. \A q \in Clones : tagged[q] \in [Versions -> Now]
  OBVIOUS
<1>. QED
  BY <1>1

Typed == TypeOK /\ Versioned

LEMMA NextTyped == ReleaseAssumption /\ Typed /\ [Next]_vars => Typed'
<1> SUFFICES ASSUME ReleaseAssumption, Typed, [Next]_vars PROVE Typed'
  OBVIOUS
<1> DEFINE LogOK == log \in Seq(Entries) /\ Len(log) <= MaxCommits
           Grown == LogOK' /\ Commits \subseteq Commits'
<1>1. LogOK /\ Len(log) \in Nat
  BY LogTyped DEF Typed, TypeOK
<1>2. UNCHANGED log => Grown
  BY <1>1 DEF Commits
<1>3. \A e \in Entries : Len(log) < MaxCommits /\ log' = Append(log, e)
        => Grown /\ New \in Commits'
  BY <1>1, AppendTyped DEF Typed, Commits, New, ReleaseAssumption
<1> DEFINE RunOK ==
      /\ phase' \in [Checkouts -> Phases]
      /\ version' \in [Checkouts -> Versions \cup {0}]
      /\ base' \in [Checkouts -> Commits' \cup {0}]
      /\ barred' \in [Checkouts -> Commits' \cup {0, Mixed}]
      /\ Versioned'
<1>4. ASSUME Grown, RunOK, UNCHANGED clone,
             tip' \in Commits', tags' \in [Versions -> Commits' \cup {NoTag}],
             head' \in [Checkouts -> Commits'], dirty' \in [Checkouts -> BOOLEAN],
             tracking' \in [Clones -> Commits'],
             local' \in [Clones -> [Versions -> Commits' \cup {NoTag}]],
             faults' \in 0..MaxFaults
      PROVE  Typed'
  <2>1. clone' \in [Checkouts -> Clones]
    BY <1>4 DEF Typed, TypeOK
  <2>2. TypeOK'
    BY <1>4, <2>1, Zenon DEF TypeOK, Entries, Sections
  <2>. QED
    BY <1>4, <2>2 DEF Typed
<1> USE DEF Typed, TypeOK, Versioned, Based, Read, Undoing, Phases,
            originVars, treeVars, runVars, Track, Resting
<1>5. ASSUME NEW c \in Checkouts, Grown, Quit(c) PROVE RunOK
  BY <1>5 DEF Quit
<1>6. ASSUME NEW c \in Checkouts, NEW p \in Phases, phase[c] # "idle",
              phase[c] \in Based \/ p \notin Based, Grown, To(c, p)
       PROVE  RunOK
  BY <1>6 DEF To
<1>7. Grown /\ UNCHANGED <<phase, runVars>> => RunOK
  OBVIOUS
<1> HIDE DEF LogOK, RunOK, Versioned
<1>8. CASE Land
  <2>1. Work(tip) \in Entries
    BY <1>8, WorkTyped DEF Land
  <2>2. Grown /\ New \in Commits'
    BY <1>3, <1>8, <2>1 DEF Land
  <2>. QED
    BY <1>4, <1>8, <1>7, <2>2 DEF Land
<1>9. ASSUME NEW c \in Checkouts, WorkHere(c) PROVE Typed'
  <2>1. Work(head[c]) \in Entries
    BY <1>9, WorkTyped DEF WorkHere
  <2>2. Grown /\ New \in Commits'
    BY <1>3, <1>9, <2>1 DEF WorkHere
  <2>. QED
    BY <1>4, <1>5, <1>9, <2>2 DEF WorkHere
<1>10. ASSUME NEW c \in Checkouts, Commit(c) PROVE Typed'
  <2>1. Changelog(c, version[c]) \in Entries
    BY <1>10, ChangelogTyped DEF Commit, Versioned
  <2>2. Grown /\ New \in Commits'
    BY <1>3, <1>10, <2>1 DEF Commit
  <2>. QED
    BY <1>4, <1>10, <1>6, <2>2 DEF Commit
<1>11. ASSUME NEW c \in Checkouts, Pull(c) PROVE Typed'
  BY <1>2, <1>4, <1>5, <1>11 DEF Pull
<1>26. ASSUME NEW c \in Checkouts, PullUnderBar(c) PROVE Typed'
  <2>1. Grown
    BY <1>2, <1>26 DEF PullUnderBar
  <2>2. RunOK
    BY <1>26, <1>6, <2>1 DEF PullUnderBar
  <2>. QED
    BY <1>4, <1>26, <2>1, <2>2 DEF PullUnderBar
<1>12. ASSUME NEW c \in Checkouts, ResetToTracking(c) PROVE Typed'
  BY <1>2, <1>4, <1>5, <1>12 DEF ResetToTracking
<1>13. ASSUME NEW c \in Checkouts, DeleteTag(c) PROVE Typed'
  BY <1>2, <1>4, <1>5, <1>13 DEF DeleteTag
<1>14. ASSUME NEW c \in Checkouts, NEW v \in Versions, Begin(c, v) PROVE Typed'
  <2>1. Grown
    BY <1>2, <1>14 DEF Begin
  <2>2. RunOK
    BY <1>14, <2>1 DEF Begin, RunOK, Versioned
  <2>. QED
    BY <1>4, <1>14, <2>1, <2>2 DEF Begin
<1>15. ASSUME NEW c \in Checkouts, NEW from \in Phases, NEW to \in Phases,
              Fetch(c, from, to), from # "idle", from \in Based \/ to \notin Based
       PROVE  Typed'
  <2>1. Grown
    BY <1>2, <1>15 DEF Fetch
  <2>2. RunOK
    BY <1>5, <1>15, <1>6, <2>1 DEF Fetch
  <2>3. tracking' \in [Clones -> Commits']
    BY <1>15, <2>1 DEF Fetch
  <2>. QED
    BY <1>4, <1>15, <2>1, <2>2, <2>3 DEF Fetch
<1>16. ASSUME NEW c \in Checkouts, NEW from \in Phases, NEW to \in Phases,
              ReadTags(c, from, to), from # "idle"
       PROVE  Typed'
  <2>1. Grown
    BY <1>2, <1>16 DEF ReadTags
  <2>2. RunOK
    <3>1. CASE Quit(c)
      BY <1>5, <2>1, <3>1
    <3>2. CASE /\ phase' = [phase EXCEPT ![c] = to]
               /\ base' = [base EXCEPT ![c] = Base(c)]
               /\ UNCHANGED <<version, barred>>
      BY <1>16, <2>1, <3>2 DEF ReadTags, Base, RunOK, Versioned
    <3>. QED
      BY <1>16, <3>1, <3>2 DEF ReadTags
  <2>. QED
    BY <1>4, <1>16, <2>1, <2>2 DEF ReadTags
<1>17. ASSUME NEW c \in Checkouts, Bar(c) PROVE Typed'
  <2>1. Grown
    BY <1>2, <1>17 DEF Bar
  <2>2. RunOK
    <3>1. CASE Quit(c)
      BY <1>5, <2>1, <3>1
    <3>2. CASE /\ phase' = [phase EXCEPT ![c] = "refetch"]
               /\ barred' = [barred EXCEPT ![c] = IF phase[c] = "bar" THEN head[c] ELSE Mixed]
               /\ UNCHANGED <<version, base>>
      BY <1>17, <2>1, <3>2 DEF Bar, RunOK, Versioned
    <3>. QED
      BY <1>17, <3>1, <3>2 DEF Bar
  <2>. QED
    BY <1>4, <1>17, <2>1, <2>2 DEF Bar
<1>18. ASSUME NEW c \in Checkouts, Write(c) PROVE Typed'
  BY <1>2, <1>4, <1>18, <1>6 DEF Write
<1>19. ASSUME NEW c \in Checkouts, Tag(c) PROVE Typed'
  <2>1. Grown
    BY <1>2, <1>19 DEF Tag
  <2>2. RunOK
    BY <1>19, <1>6, <2>1 DEF Tag
  <2>3. local' \in [Clones -> [Versions -> Commits' \cup {NoTag}]]
    <3>1. version[c] \in Versions /\ head[c] \in Commits'
      BY <1>19, <2>1 DEF Tag, Versioned
    <3>. QED
      <4>1. clone[c] \in Clones
        OBVIOUS
      <4>2. local[clone[c]] \in [Versions -> Commits \cup {NoTag}]
        BY <4>1
      <4>3. [local[clone[c]] EXCEPT ![version[c]] = head[c]] \in [Versions -> Commits' \cup {NoTag}]
        BY <2>1, <3>1, <4>2
      <4>4. local' = local \/ local' = [local EXCEPT ![clone[c]] = [local[clone[c]] EXCEPT ![version[c]] = head[c]]]
        BY <1>19 DEF Tag
      <4>5. Commits \cup {NoTag} \subseteq Commits' \cup {NoTag}
        BY <2>1
      <4>6. local \in [Clones -> [Versions -> Commits \cup {NoTag}]]
        OBVIOUS
      <4>7. [local EXCEPT ![clone[c]] = [local[clone[c]] EXCEPT ![version[c]] = head[c]]]
              \in [Clones -> [Versions -> Commits' \cup {NoTag}]]
        BY <4>1, <4>3, <4>5, <4>6, LocalTyped
      <4>. QED
        BY <4>4, <4>5, <4>6, <4>7
  <2>. QED
    BY <1>4, <1>19, <2>1, <2>2, <2>3 DEF Tag
<1>20. ASSUME NEW c \in Checkouts, Push(c) \/ PushFails(c) PROVE Typed'
  <2>1. Grown
    BY <1>2, <1>20 DEF Push, PushFails
  <2>2. RunOK
    BY <1>5, <1>20, <1>6, <2>1 DEF Push, PushFails
  <2>3. Sent(c) \in Commits \cup {NoTag}
    <3>1. version[c] \in Versions
      BY <1>20 DEF Push, PushFails, Versioned
    <3>. QED
      <4>1. clone[c] \in Clones
        OBVIOUS
      <4>2. local[clone[c]] \in [Versions -> Commits \cup {NoTag}]
        BY <4>1
      <4>. QED
        BY <3>1, <4>2 DEF Sent
  <2>4. tip' \in Commits' /\ tags' \in [Versions -> Commits' \cup {NoTag}]
    BY <1>20, <2>1, <2>3 DEF Push, PushFails, Accept
  <2>5. tracking' \in [Clones -> Commits']
    BY <1>20, <2>1, <2>4 DEF Push, PushFails
  <2>6. faults' \in 0..MaxFaults
    BY <1>20 DEF Push, PushFails
  <2>7. UNCHANGED treeVars
    BY <1>20 DEF Push, PushFails
  <2>. QED
    BY <1>4, <2>1, <2>2, <2>4, <2>5, <2>6, <2>7
<1>21. ASSUME NEW c \in Checkouts, StepFails(c) PROVE Typed'
  <2>1. Grown
    BY <1>2, <1>21 DEF StepFails
  <2>2. RunOK
    BY <1>5, <1>21, <1>6, <2>1 DEF StepFails
  <2>3. faults' \in 0..MaxFaults
    BY <1>21 DEF StepFails
  <2>. QED
    BY <1>4, <1>21, <2>1, <2>2, <2>3 DEF StepFails
<1>22. ASSUME NEW c \in Checkouts, UndoTag(c) PROVE Typed'
  <2>1. Grown
    BY <1>2, <1>22 DEF UndoTag
  <2>2. RunOK
    BY <1>5, <1>22, <1>6, <2>1 DEF UndoTag
  <2>3. local' \in [Clones -> [Versions -> Commits' \cup {NoTag}]]
    <3>1. Commits \cup {NoTag} \subseteq Commits' \cup {NoTag}
      BY <2>1
    <3>2. local \in [Clones -> [Versions -> Commits \cup {NoTag}]] /\ clone[c] \in Clones
      OBVIOUS
    <3>3. [local[clone[c]] EXCEPT ![version[c]] = NoTag] \in [Versions -> Commits' \cup {NoTag}]
      <4>1. local[clone[c]] \in [Versions -> Commits \cup {NoTag}]
        BY <3>2
      <4>. QED
        BY <3>1, <4>1, TagTyped
    <3>4. [local EXCEPT ![clone[c]] = [local[clone[c]] EXCEPT ![version[c]] = NoTag]]
            \in [Clones -> [Versions -> Commits' \cup {NoTag}]]
      BY <3>1, <3>2, <3>3, LocalTyped
    <3>5. local \in [Clones -> [Versions -> Commits' \cup {NoTag}]]
      BY <3>1, <3>2
    <3>6. local' = local
          \/ local' = [local EXCEPT ![clone[c]] = [local[clone[c]] EXCEPT ![version[c]] = NoTag]]
      BY <1>22 DEF UndoTag
    <3>. QED
      BY <3>4, <3>5, <3>6
  <2>. QED
    BY <1>4, <1>22, <2>1, <2>2, <2>3 DEF UndoTag
<1>23. ASSUME NEW c \in Checkouts, UndoReset(c) PROVE Typed'
  BY <1>2, <1>4, <1>23, <1>6 DEF UndoReset, Versioned
<1>24. ASSUME NEW c \in Checkouts, UndoFails(c) \/ Crash(c) PROVE Typed'
  <2>1. Grown
    BY <1>2, <1>24 DEF UndoFails, Crash
  <2>2. RunOK
    BY <1>5, <1>24, <2>1 DEF UndoFails, Crash
  <2>3. faults' \in 0..MaxFaults
    BY <1>24 DEF UndoFails, Crash
  <2>. QED
    BY <1>4, <1>24, <2>1, <2>2, <2>3 DEF UndoFails, Crash
<1>25. CASE UNCHANGED vars
  BY <1>2, <1>4, <1>25, <1>7 DEF vars
<1>. QED
  BY <1>8, <1>9, <1>10, <1>11, <1>12, <1>13, <1>14, <1>15, <1>16, <1>17, <1>18, <1>19,
     <1>20, <1>21, <1>22, <1>23, <1>24, <1>25, <1>26
  DEF Next, Release, Person

-----------------------------------------------------------------------------
(* The commits *)

(* No commit is changed, and at most one is made. *)
LogKept == Commits \subseteq Commits' /\ \A k \in Commits : log'[k] = log[k]

LEMMA LogSteps ==
  ASSUME [Next]_vars
  PROVE  UNCHANGED log \/ Land \/ \E c \in Checkouts : WorkHere(c) \/ Commit(c)
  BY DEF Next, Release, Person, Pull, PullUnderBar, ResetToTracking, DeleteTag, Begin, Fetch, ReadTags, Bar,
         Write, Tag, Push, PushFails, StepFails, UndoTag, UndoReset, UndoFails, Crash, vars

LEMMA LogKeptStep ==
  ASSUME ReleaseAssumption, Typed, LogOrdered, [Next]_vars
  PROVE  LogKept /\ LogOrdered'
<1> DEFINE Ordered(e, k) ==
      /\ k \in e.history
      /\ e.history \subseteq 1..k
      /\ e.unreleased \subseteq 1..k
      /\ \A v \in Versions : e.section[v] \subseteq 1..k
<1>1. TypeOK /\ Len(log) \in Nat
  BY LogTyped DEF Typed
<1>2. CASE UNCHANGED log
  BY <1>2 DEF LogKept, LogOrdered, Commits
<1>3. ASSUME NEW e \in Entries, Len(log) < MaxCommits, log' = Append(log, e), Ordered(e, New)
      PROVE  LogKept /\ LogOrdered'
  <2>1. /\ Len(log') = New /\ log'[New] = e
        /\ \A k \in Commits : log'[k] = log[k]
    BY <1>1, <1>3, AppendTyped
  <2>2. Commits' = Commits \cup {New} /\ Commits \subseteq Commits'
    BY <1>1, <2>1 DEF Commits, New
  <2>. QED
    BY <1>3, <2>1, <2>2 DEF LogKept, LogOrdered
<1>4. ASSUME NEW k \in Commits
      PROVE  /\ log[k].history \subseteq 1..New
             /\ log[k].unreleased \subseteq 1..New
             /\ \A v \in Versions : log[k].section[v] \subseteq 1..New
  <2>1. 1..k \subseteq 1..New
    BY <1>1, <1>4 DEF Commits, New
  <2>. QED
    BY <1>4, <2>1 DEF LogOrdered
<1>5. New \in 1..New
  BY <1>1 DEF New
<1>6. CASE Land
  <2>1. tip \in Commits /\ Len(log) < MaxCommits /\ log' = Append(log, Work(tip))
    BY <1>1, <1>6 DEF Land, TypeOK
  <2>2. Ordered(Work(tip), New)
    BY <1>1, <1>4, <1>5, <2>1, WorkTyped
  <2>. QED
    BY <1>1, <1>3, <2>1, <2>2, WorkTyped
<1>7. ASSUME NEW c \in Checkouts, WorkHere(c) PROVE LogKept /\ LogOrdered'
  <2>1. head[c] \in Commits /\ Len(log) < MaxCommits /\ log' = Append(log, Work(head[c]))
    BY <1>1, <1>7 DEF WorkHere, TypeOK
  <2>2. Ordered(Work(head[c]), New)
    BY <1>1, <1>4, <1>5, <2>1, WorkTyped
  <2>. QED
    BY <1>1, <1>3, <2>1, <2>2, WorkTyped
<1>8. ASSUME NEW c \in Checkouts, Commit(c) PROVE LogKept /\ LogOrdered'
  <2>1. /\ head[c] \in Commits /\ Len(log) < MaxCommits /\ version[c] \in Versions
        /\ log' = Append(log, Changelog(c, version[c]))
    BY <1>1, <1>8 DEF Commit, TypeOK, Typed, Versioned
  <2>2. log[head[c]].section \in Sections
    BY <1>1, <2>1, LogTyped DEF Entries
  <2> DEFINE e == Changelog(c, version[c])
  <2>3. /\ e \in Entries /\ e.history = log[head[c]].history \cup {New}
        /\ e.unreleased = {}
        /\ e.section = [log[head[c]].section EXCEPT ![version[c]] = log[head[c]].unreleased]
    BY <1>1, <2>1, ChangelogTyped
  <2> HIDE DEF e
  <2>4. \A v \in Versions : e.section[v] \in {log[head[c]].section[v], log[head[c]].unreleased}
    BY <2>2, <2>3 DEF Sections
  <2>5. Ordered(e, New)
    BY <1>1, <1>4, <1>5, <2>1, <2>3, <2>4
  <2>. QED
    BY <1>3, <2>1, <2>3, <2>5 DEF e
<1>. QED
  BY <1>2, <1>6, <1>7, <1>8, LogSteps

-----------------------------------------------------------------------------
(* What origin accepts *)

(* A push that origin takes: its branch moves to the head that is pushed, and
   the tag to its own commit. *)
Ships(c) ==
  /\ phase[c] = "push" /\ Acceptable(c)
  /\ tip' = head[c]
  /\ tags' = [tags EXCEPT ![version[c]] = head[c]]
  /\ UNCHANGED <<log, treeVars>> /\ phase'[c] # "push"

LEMMA PushSteps ==
  ASSUME Typed, NEW c \in Checkouts, CutInv(c), Push(c) \/ PushFails(c)
  PROVE  UNCHANGED originVars \/ Ships(c)
<1>1. /\ phase[c] = "push" /\ UNCHANGED <<log, treeVars>>
      /\ Accept(c) \/ UNCHANGED originVars
  BY DEF Push, PushFails
<1>2. phase \in [Checkouts -> Phases] /\ version \in [Checkouts -> Versions \cup {0}]
  BY DEF Typed, TypeOK
<1>3. CASE UNCHANGED originVars
  BY <1>3
<1>4. CASE Acceptable(c) /\ Accept(c)
  <2>1. Sent(c) = head[c]
    BY <1>1 DEF CutInv, OwnTag
  <2>2. phase'[c] # "push"
    BY <1>1, <1>2 DEF Push, PushFails, Quit, To, runVars
  <2>. QED
    BY <1>1, <1>4, <2>1, <2>2 DEF Accept, Ships
<1>. QED
  BY <1>1, <1>3, <1>4 DEF Accept

LEMMA OriginSteps ==
  ASSUME Typed, LineInv, [Next]_vars
  PROVE  UNCHANGED originVars \/ Land \/ \E c \in Checkouts : Ships(c)
<1>1. ASSUME NEW c \in Checkouts, Push(c) \/ PushFails(c)
      PROVE  UNCHANGED originVars \/ Ships(c)
  BY <1>1, PushSteps DEF LineInv
<1>2. ASSUME NEW c \in Checkouts, Person(c) PROVE UNCHANGED originVars
  BY <1>2 DEF Person, Pull, PullUnderBar, WorkHere, ResetToTracking, DeleteTag
<1>3. ASSUME NEW c \in Checkouts, Release(c), ~Push(c), ~PushFails(c)
      PROVE  UNCHANGED originVars
  BY <1>3 DEF Release, Begin, Fetch, ReadTags, Bar, Write, Commit, Tag, StepFails, UndoTag,
              UndoReset, UndoFails, Crash
<1>. QED
  BY <1>1, <1>2, <1>3 DEF Next, vars, originVars

(* It takes only a cut on its own tip: what a checkout based its cut on is
   what the bar passed on, and nothing has landed since. *)
LEMMA ShipsOnTip ==
  ASSUME Typed, LineInv, NEW c \in Checkouts, phase[c] = "push", Acceptable(c)
  PROVE  /\ tip = base[c] /\ barred[c] \in {tip, Mixed}
         /\ version[c] \in Versions /\ Newest(version[c]) /\ Sent(c) = head[c]
         /\ log[tip].unreleased # {}
         /\ log[head[c]].history = log[tip].history \cup {head[c]}
         /\ log[head[c]].unreleased = {}
         /\ log[head[c]].section =
              [log[tip].section EXCEPT ![version[c]] = log[tip].unreleased]
         /\ tip \in Commits /\ head[c] \in Commits /\ head[c] \notin log[tip].history
         /\ log[tip].section \in Sections
<1> USE DEF Based, Read, Passed, Cutting, Undoing
<1>1. /\ version[c] \in Versions /\ base[c] \in Commits /\ tip \in Commits
      /\ head[c] \in Commits
  BY DEF Typed, TypeOK, Versioned
<1>2. /\ OnBranch(c) /\ Justified(c) /\ HasCut(c) /\ Unsent(c) /\ OwnTag(c) /\ LogOrdered
  BY DEF LineInv, CutInv
<1>3. tip \in log[base[c]].history \cup {head[c]} /\ base[c] \in log[tip].history
  BY <1>2 DEF Acceptable, Forward, Holds, HasCut, OnBranch
<1>4. head[c] \notin log[tip].history /\ tip \in log[tip].history
  BY <1>1, <1>2 DEF Unsent, Holds, LogOrdered
<1>5. tip \in 1..base[c] /\ base[c] \in 1..tip
  BY <1>1, <1>2, <1>3, <1>4 DEF LogOrdered
<1>6. tip = base[c]
  BY <1>1, <1>5 DEF Commits
<1>7. log[tip].section \in Sections
  BY <1>1, LogTyped DEF Typed, Entries
<1>. QED
  BY <1>1, <1>2, <1>4, <1>6, <1>7 DEF Justified, HasCut, OwnTag

(* What the branch holds it holds for good. *)
LEMMA HeldForGood ==
  ASSUME ReleaseAssumption, Typed, LineInv, [Next]_vars, NEW k \in Commits, Holds(tip, k)
  PROVE  Holds(tip, k)'
<1>1. LogKept /\ TypeOK /\ tip \in Commits
  BY LogKeptStep DEF LineInv, Typed, TypeOK
<1>2. CASE UNCHANGED originVars
  BY <1>1, <1>2 DEF originVars, Holds, LogKept
<1>3. CASE Land
  <2>1. log'[tip'] = Work(tip)
    BY <1>1, <1>3, WorkTyped, AppendTyped DEF Land
  <2>. QED
    BY <1>1, <1>3, <2>1, WorkTyped DEF Holds, Land
<1>4. ASSUME NEW c \in Checkouts, Ships(c) PROVE Holds(tip, k)'
  BY <1>4, ShipsOnTip DEF Ships, Holds
<1>. QED
  BY <1>2, <1>3, <1>4, OriginSteps

LEMMA TagsMatchStep ==
  ASSUME ReleaseAssumption, Typed, LineInv, [Next]_vars
  PROVE  TagsMatchBranch'
<1>1. LogKept /\ TypeOK /\ tip \in Commits /\ tags \in [Versions -> Commits \cup {NoTag}]
  BY LogKeptStep DEF LineInv, Typed, TypeOK
<1>2. TagsMatchBranch
  BY DEF LineInv
<1>3. CASE UNCHANGED originVars
  BY <1>1, <1>2, <1>3 DEF TagsMatchBranch, originVars, Holds, LogKept
<1>4. CASE Land
  <2>1. log'[tip'] = Work(tip) /\ tags' = tags
    BY <1>1, <1>4, WorkTyped, AppendTyped DEF Land
  <2>2. /\ log'[tip'].section = log[tip].section
        /\ log[tip].history \subseteq log'[tip'].history
    BY <1>1, <1>4, <2>1, WorkTyped DEF Land
  <2>3. \A v \in Versions : tags[v] # NoTag => log'[tags[v]] = log[tags[v]]
    BY <1>1 DEF LogKept
  <2>. QED
    BY <1>2, <2>1, <2>2, <2>3 DEF TagsMatchBranch, Holds
<1>5. ASSUME NEW c \in Checkouts, Ships(c) PROVE TagsMatchBranch'
  <2>1. /\ tip' = head[c] /\ log' = log /\ version[c] \in Versions
        /\ tags' = [tags EXCEPT ![version[c]] = head[c]]
        /\ log[head[c]].history = log[tip].history \cup {head[c]}
        /\ log[head[c]].section =
             [log[tip].section EXCEPT ![version[c]] = log[tip].unreleased]
        /\ log[tip].section \in Sections /\ head[c] \in Commits
    BY <1>5, ShipsOnTip DEF Ships
  <2>2. \A v \in Versions \ {version[c]} :
          tags'[v] = tags[v] /\ log[head[c]].section[v] = log[tip].section[v]
    BY <1>1, <2>1 DEF Sections
  <2>3. tags'[version[c]] = head[c] /\ head[c] # NoTag
    BY <1>1, <2>1 DEF Commits, NoTag
  <2>4. ASSUME NEW v \in Versions, v # version[c]
        PROVE  /\ tags'[v] # NoTag => /\ Holds(tip, tags[v])'
                                      /\ log'[tip'].section[v] = log'[tags'[v]].section[v]
               /\ tags'[v] = NoTag => log'[tip'].section[v] = {}
    BY <1>2, <2>1, <2>2, <2>4 DEF TagsMatchBranch, Holds
  <2>. QED
    BY <2>1, <2>3, <2>4 DEF TagsMatchBranch, Holds
<1>. QED
  BY <1>3, <1>4, <1>5, OriginSteps

-----------------------------------------------------------------------------
(* The cut of each checkout *)

(* What the steps of the others leave of a checkout's release. *)
Untouched(c) ==
  /\ phase'[c] = phase[c] /\ head'[c] = head[c] /\ base'[c] = base[c]
  /\ barred'[c] = barred[c] /\ version'[c] = version[c] /\ dirty'[c] = dirty[c]

(* A worktree of the same clone takes a tag that is another's neither by
   tagging, nor by undoing its own, nor by hand. *)
LEMMA OwnTagKept ==
  ASSUME Typed, LineInv, LogKept, NEW c \in Checkouts, NEW d \in Checkouts \ {c},
         DeleteTag(d) \/ Tag(d) \/ UndoTag(d), Untouched(c)
  PROVE  OwnTag(c)'
<1> USE DEF Typed, TypeOK, Versioned, LineInv, CutInv, LogKept, Undoing, Untouched
<1>1. CASE phase[c] \in {"push", "untag"} \cup {"write", "commit", "tag"} \cup Undoing
  <2>1. clone'[c] = clone[c] /\ clone[c] \in Clones /\ version[c] \in Versions /\ log' = log
        /\ UNCHANGED clone
    BY <1>1 DEF DeleteTag, Tag, UndoTag, Quit, To
  <2>2. CASE local'[clone[c]][version[c]] = local[clone[c]][version[c]]
    BY <2>1, <2>2 DEF OwnTag, Sent
  <2>3. CASE DeleteTag(d)
    <3>1. PICK v \in Versions :
            ~InUse(clone[d], v) /\ local' = [local EXCEPT ![clone[d]][v] = NoTag]
      BY <2>3, Zenon DEF DeleteTag
    <3>2. clone[d] = clone[c] /\ v = version[c] => phase[c] \notin {"push", "untag"}
      BY <3>1 DEF InUse
    <3>. QED
      BY <1>1, <2>1, <2>2, <3>1, <3>2 DEF OwnTag, Sent
  <2>4. CASE Tag(d)
    <3>1. /\ phase[d] = "tag" /\ version[d] \in Versions /\ clone[d] \in Clones
          /\ head[d] \in Commits /\ log[head[d]].by = d
      BY <2>4 DEF Tag, HasCut
    <3>2. CASE UNCHANGED local
      BY <2>2, <3>2
    <3>3. CASE /\ local[clone[d]][version[d]] = NoTag
               /\ local' = [local EXCEPT ![clone[d]][version[d]] = head[d]]
      <4>1. clone[d] = clone[c] /\ version[d] = version[c] => phase[c] \notin {"push", "untag"}
        BY <3>3 DEF OwnTag, Sent, Commits, NoTag
      <4>2. clone[d] = clone[c] /\ version[d] = version[c] => Sent(c)' = head[d]
        BY <2>1, <3>1, <3>3 DEF Sent
      <4>3. ~(clone[d] = clone[c] /\ version[d] = version[c]) => Sent(c)' = Sent(c)
        BY <2>1, <3>1, <3>3 DEF Sent
      <4>. QED
        BY <2>1, <2>2, <3>1, <4>1, <4>2, <4>3 DEF OwnTag, Sent
    <3>. QED
      BY <2>4, <3>2, <3>3 DEF Tag
  <2>5. CASE UndoTag(d)
    <3>1. /\ phase[d] = "untag" /\ version[d] \in Versions /\ clone[d] \in Clones
          /\ log[head[d]].by = d /\ Sent(d) = head[d]
      BY <2>5 DEF UndoTag, HasCut, OwnTag
    <3>2. clone[d] = clone[c] /\ version[d] = version[c] => phase[c] \notin {"push", "untag"}
      <4>1. OwnTag(c) /\ HasCut(c)
        OBVIOUS
      <4>. QED
        BY <3>1, <4>1 DEF OwnTag, Sent, HasCut
    <3>3. local' = local \/ local' = [local EXCEPT ![clone[d]][version[d]] = NoTag]
      BY <2>5 DEF UndoTag
    <3>4. clone[d] = clone[c] /\ version[d] = version[c] => Sent(c)' \in {Sent(c), NoTag}
      BY <2>1, <3>1, <3>3 DEF Sent
    <3>5. ~(clone[d] = clone[c] /\ version[d] = version[c]) => Sent(c)' = Sent(c)
      BY <2>1, <3>1, <3>3 DEF Sent
    <3>. QED
      BY <2>1, <2>2, <3>2, <3>4, <3>5 DEF OwnTag, Sent
  <2>. QED
    BY <2>3, <2>4, <2>5
<1>2. CASE phase[c] \notin {"push", "untag"} \cup {"write", "commit", "tag"} \cup Undoing
  BY <1>2 DEF OwnTag
<1>. QED
  BY <1>1, <1>2

LEMMA LocalSteps ==
  ASSUME [Next]_vars
  PROVE  UNCHANGED <<clone, local>> \/ \E d \in Checkouts : DeleteTag(d) \/ Tag(d) \/ UndoTag(d)
  BY DEF Next, Release, Person, Land, Pull, PullUnderBar, WorkHere, ResetToTracking, Begin, Fetch, ReadTags,
         Bar, Write, Commit, Push, PushFails, StepFails, UndoReset, UndoFails, Crash, vars,
         treeVars

LEMMA OtherStep ==
  ASSUME ReleaseAssumption, Typed, LineInv, [Next]_vars, NEW c \in Checkouts, Untouched(c),
         ~DeleteTag(c), ~Tag(c), ~UndoTag(c)
  PROVE  CutInv(c)'
<1> USE DEF Based, Read, Passed, Cutting, Undoing
<1>1. LogKept /\ LogOrdered /\ CutInv(c) /\ tip \in Commits /\ head[c] \in Commits
  BY LogKeptStep DEF LineInv, Typed, TypeOK
<1>2. phase[c] \in Based => base[c] \in Commits
  BY DEF Typed, Versioned
<1>3. OnBranch(c)'
  BY <1>1, <1>2, HeldForGood DEF Untouched, CutInv, OnBranch
<1>4. HasCut(c)'
  BY <1>1, <1>2 DEF Untouched, CutInv, HasCut, LogKept
<1>5. Tidy(c)'
  BY <1>1 DEF Untouched, CutInv, Tidy
<1>6. OwnTag(c)'
  <2>1. CASE UNCHANGED <<clone, local>>
    <3>1. Sent(c)' = Sent(c)
      BY <2>1 DEF Untouched, Sent
    <3>2. phase[c] # "idle" => Sent(c) \in Commits \cup {NoTag}
      <4>1. phase[c] # "idle" => version[c] \in Versions
        BY DEF Typed, Versioned
      <4>2. local[clone[c]] \in [Versions -> Commits \cup {NoTag}]
        BY DEF Typed, TypeOK
      <4>. QED
        BY <4>1, <4>2 DEF Sent
    <3>. QED
      BY <1>1, <3>1, <3>2 DEF Untouched, CutInv, OwnTag, LogKept
  <2>. QED
    BY <1>1, <2>1, LocalSteps, OwnTagKept
(* What lands, or another ships, is above the base of this cut. *)
<1>7. Unsent(c)' /\ (phase[c] \in Based /\ tip' = base[c] => UNCHANGED originVars)
  <2>1. CASE UNCHANGED originVars
    BY <1>1, <2>1 DEF Untouched, CutInv, Unsent, Holds, LogKept, originVars
  <2>2. CASE Land
    <3>1. /\ log'[tip'].history = log[tip].history \cup {New} /\ tip' = New
      BY <1>1, <2>2, WorkTyped, AppendTyped DEF Land, Typed
    <3>2. New \notin Commits
      BY LogTyped DEF Typed, Commits, New
    <3>. QED
      BY <1>1, <1>2, <3>1, <3>2 DEF Untouched, CutInv, Unsent, Holds
  <2>3. ASSUME NEW d \in Checkouts, Ships(d) PROVE Unsent(c)' /\ (phase[c] \in Based => tip' # base[c])
    <3>1. /\ log'[tip'].history = log[tip].history \cup {head[d]} /\ tip' = head[d]
          /\ head[d] \notin log[tip].history /\ log[head[d]].by = d
      BY <2>3, ShipsOnTip DEF Ships, LineInv, CutInv, HasCut
    <3>2. d # c
      BY <2>3 DEF Ships, Untouched
    <3>3. phase[c] \in {"tag", "push"} => head[c] # head[d]
      BY <1>1, <3>1, <3>2 DEF CutInv, HasCut
    <3>4. phase[c] \in Based => base[c] \in log[tip].history
      BY <1>1 DEF CutInv, OnBranch, Holds
    <3>. QED
      BY <1>1, <3>1, <3>3, <3>4 DEF Untouched, CutInv, Unsent, Holds
  <2>. QED
    BY <2>1, <2>2, <2>3, OriginSteps
<1>8. Justified(c)'
  BY <1>1, <1>2, <1>7 DEF Untouched, CutInv, Justified, LogKept, Newest, originVars
<1>. QED
  BY <1>3, <1>4, <1>5, <1>6, <1>7, <1>8 DEF CutInv

(* A step of the checkout's own. *)
LEMMA OwnStep ==
  ASSUME ReleaseAssumption, Typed, LineInv, [Next]_vars, NEW c \in Checkouts,
         Release(c) \/ Person(c)
  PROVE  CutInv(c)'
<1> USE DEF Based, Read, Passed, Cutting, Undoing
<1>1. /\ LogKept /\ LogOrdered /\ CutInv(c) /\ tip \in Commits /\ head[c] \in Commits
      /\ clone[c] \in Clones
  BY LogKeptStep DEF LineInv, Typed, TypeOK
<1>2. /\ phase[c] \in Based => base[c] \in Commits
      /\ phase[c] # "idle" => version[c] \in Versions
  BY DEF Typed, Versioned
<1>3. /\ phase \in [Checkouts -> Phases] /\ head \in [Checkouts -> Commits]
      /\ base \in [Checkouts -> Commits \cup {0}] /\ barred \in [Checkouts -> Commits \cup {0, Mixed}]
      /\ version \in [Checkouts -> Versions \cup {0}] /\ dirty \in [Checkouts -> BOOLEAN]
      /\ local \in [Clones -> [Versions -> Commits \cup {NoTag}]]
  BY DEF Typed, TypeOK
<1>4. ASSUME phase'[c] \in {"idle", "fetch"} PROVE CutInv(c)'
  BY <1>4 DEF CutInv, OnBranch, Justified, HasCut, Unsent, OwnTag, Tidy
<1>5. Quit(c) => CutInv(c)'
  BY <1>3, <1>4 DEF Quit
<1> USE DEF CutInv, OnBranch, Justified, HasCut, Unsent, OwnTag, Tidy
<1>18. CASE PullUnderBar(c)
  BY <1>1, <1>2, <1>3, <1>18 DEF PullUnderBar, To, Holds, originVars, runVars
<1>6. CASE (Person(c) /\ ~PullUnderBar(c)) \/ \E v \in Versions : Begin(c, v)
  BY <1>3, <1>4, <1>5, <1>6 DEF Person, Pull, WorkHere, ResetToTracking, DeleteTag, Begin
<1>7. ASSUME Fetch(c, "fetch", "tags") \/ Fetch(c, "refetch", "retags"), ~Quit(c)
      PROVE  CutInv(c)'
  <2>1. /\ head[c] = tip /\ phase' \in {[phase EXCEPT ![c] = "tags"], [phase EXCEPT ![c] = "retags"]}
        /\ phase[c] = "refetch" => phase' = [phase EXCEPT ![c] = "retags"]
        /\ phase[c] # "refetch" => phase' = [phase EXCEPT ![c] = "tags"]
        /\ UNCHANGED <<log, originVars, treeVars, runVars>>
    BY <1>7 DEF Fetch, Synced, To
  <2>. QED
    BY <1>1, <1>2, <1>3, <2>1 DEF LogOrdered, Holds, originVars, treeVars, runVars
<1>8. ASSUME ReadTags(c, "tags", "bar"), ~Quit(c) PROVE CutInv(c)'
  BY <1>1, <1>2, <1>3, <1>8 DEF ReadTags, Base, Holds, originVars, treeVars
<1>9. ASSUME ReadTags(c, "retags", "write"), ~Quit(c) PROVE CutInv(c)'
  BY <1>1, <1>2, <1>3, <1>9 DEF ReadTags, Base, Holds, Newest, Sent, originVars, treeVars
<1>10. ASSUME Bar(c), ~Quit(c) PROVE CutInv(c)'
  BY <1>1, <1>2, <1>3, <1>10 DEF Bar, Holds, originVars, treeVars
<1>11. ASSUME Write(c) PROVE CutInv(c)'
  BY <1>1, <1>2, <1>3, <1>11 DEF Write, To, Holds, Newest, Sent, originVars, runVars
<1>12. ASSUME Commit(c) PROVE CutInv(c)'
  <2>1. /\ head'[c] = New /\ log'[New] = Changelog(c, version[c]) /\ phase'[c] = "tag"
        /\ UNCHANGED <<originVars, clone, local, runVars>>
    BY <1>2, <1>3, <1>12, ChangelogTyped, AppendTyped DEF Commit, To, Typed
  <2>2. New \notin Commits
    BY LogTyped DEF Typed, Commits, New
  <2> DEFINE e == Changelog(c, version[c])
  <2>3. phase[c] = "commit" /\ head[c] = base[c]
    BY <1>1, <1>12 DEF Commit
  <2>4. /\ e.by = c /\ e.history = log[head[c]].history \cup {New}
        /\ e.unreleased = {}
        /\ e.section = [log[head[c]].section EXCEPT ![version[c]] = log[head[c]].unreleased]
    BY <1>2, <1>12, <2>3, ChangelogTyped DEF Commit, Typed
  <2> HIDE DEF e
  <2>5. /\ log'[head'[c]] = e /\ log'[base'[c]] = log[base[c]] /\ log'[tip'] = log[tip]
        /\ base'[c] = base[c] /\ version'[c] = version[c] /\ barred'[c] = barred[c]
        /\ tip' = tip /\ tags' = tags /\ phase'[c] = "tag"
    BY <1>1, <1>2, <2>1, <2>3 DEF e, LogKept, originVars, runVars
  <2>6. HasCut(c)'
    BY <2>1, <2>3, <2>4, <2>5
  <2>7. Unsent(c)'
    BY <1>1, <2>1, <2>2, <2>5 DEF LogOrdered, Holds, Commits
  <2>8. Justified(c)' /\ OnBranch(c)' /\ Tidy(c)'
    BY <1>1, <2>3, <2>5 DEF Holds, Newest
  <2>9. OwnTag(c)'
    <3>1. Sent(c)' = Sent(c)
      BY <2>1, <2>5 DEF Sent
    <3>2. Sent(c) \in Commits \cup {NoTag}
      <4>1. version[c] \in Versions
        BY <1>2, <2>3
      <4>2. local[clone[c]] \in [Versions -> Commits \cup {NoTag}]
        BY <1>1, <1>3
      <4>. QED
        BY <4>1, <4>2 DEF Sent
    <3>. QED
      BY <1>1, <2>3, <2>5, <3>1, <3>2 DEF LogKept
  <2>. QED
    BY <2>6, <2>7, <2>8, <2>9
<1>13. ASSUME Tag(c) PROVE CutInv(c)'
  BY <1>1, <1>2, <1>3, <1>13 DEF Tag, To, Holds, Newest, Sent, originVars, runVars
<1>14. ASSUME Push(c) \/ PushFails(c), ~Quit(c) PROVE CutInv(c)'
  BY <1>1, <1>2, <1>3, <1>14, HeldForGood
  DEF Push, PushFails, To, Sent, treeVars, runVars
<1>15. ASSUME StepFails(c), ~Quit(c) PROVE CutInv(c)'
  BY <1>1, <1>2, <1>3, <1>15 DEF StepFails, To, Holds, Sent, originVars, treeVars, runVars
<1>16. ASSUME UndoTag(c), ~Quit(c) PROVE CutInv(c)'
  BY <1>1, <1>2, <1>3, <1>16 DEF UndoTag, To, Holds, Sent, originVars, runVars
<1>17. ASSUME UndoReset(c) PROVE CutInv(c)'
  BY <1>1, <1>2, <1>3, <1>17 DEF UndoReset, To, Holds, Sent, originVars, runVars
<1>. QED
  BY <1>5, <1>6, <1>7, <1>8, <1>9, <1>10, <1>11, <1>12, <1>13, <1>14, <1>15, <1>16, <1>17, <1>18
  DEF Release, UndoFails, Crash

-----------------------------------------------------------------------------
(* The theorems *)

LEMMA InitLine == ReleaseAssumption /\ Init => Versioned /\ LineInv
<1> SUFFICES ASSUME ReleaseAssumption, Init PROVE Versioned /\ LineInv
  OBVIOUS
<1> DEFINE first == [history |-> {1}, unreleased |-> {1},
                     section |-> [v \in Versions |-> {}], by |-> Elsewhere]
<1>1. Commits = {1} /\ log[1] = first
  BY DEF Init, Commits
<1>2. LogOrdered /\ TagsMatchBranch
  BY <1>1 DEF Init, LogOrdered, TagsMatchBranch, NoTag
<1>3. \A c \in Checkouts : CutInv(c)
  BY DEF Init, CutInv, OnBranch, Justified, HasCut, Unsent, OwnTag, Tidy, Based, Read, Passed,
         Cutting, Undoing
<1>4. Versioned
  BY DEF Init, Versioned, Based, Read, Undoing
<1>. QED
  BY <1>2, <1>3, <1>4 DEF LineInv

LEMMA NextLine == ReleaseAssumption /\ Typed /\ LineInv /\ [Next]_vars => LineInv'
<1> SUFFICES ASSUME ReleaseAssumption, Typed, LineInv, [Next]_vars PROVE LineInv'
  OBVIOUS
<1>1. LogOrdered' /\ TagsMatchBranch'
  BY LogKeptStep, TagsMatchStep DEF LineInv
<1>2. ASSUME NEW c \in Checkouts PROVE CutInv(c)'
  <2>1. CASE Release(c) \/ Person(c)
    BY <2>1, OwnStep
  <2>2. CASE ~(Release(c) \/ Person(c))
    <3>1. Untouched(c)
      <4>1. CASE Land \/ UNCHANGED vars
        BY <4>1 DEF Untouched, Land, vars, treeVars, runVars
      <4>2. ASSUME NEW d \in Checkouts \ {c}, Release(d) \/ Person(d) PROVE Untouched(c)
        BY <4>2 DEF Typed, TypeOK, Untouched, Release, Person, Pull, PullUnderBar, WorkHere, ResetToTracking,
                    DeleteTag, Begin, Fetch, ReadTags, Bar, Write, Commit, Tag, Push, PushFails,
                    StepFails, UndoTag, UndoReset, UndoFails, Crash, Quit, To, treeVars, runVars
      <4>. QED
        BY <2>2, <4>1, <4>2 DEF Next
    <3>. QED
      BY <2>2, <3>1, OtherStep DEF Release, Person
  <2>. QED
    BY <2>1, <2>2
<1>. QED
  BY <1>1, <1>2 DEF LineInv

LEMMA Invariant == Spec => [](Typed /\ LineInv)
<1>1. Init => Typed /\ LineInv
  BY InitTyped, InitLine, ReleaseAssumption DEF Typed
<1>2. Typed /\ LineInv /\ [Next]_vars => (Typed /\ LineInv)'
  BY NextTyped, NextLine, ReleaseAssumption
<1>. QED
  BY <1>1, <1>2, PTL DEF Spec

(* Every variable keeps its type, from whatever checkouts and clones releases
   are cut, and wherever they fail. *)
THEOREM Typing == Spec => []TypeOK
  BY Invariant, PTL DEF Typed

(* Origin's tags and the changelog at its tip say the same: every tag is on the
   branch with its section, and no section is of a version that has no tag,
   whatever releases race, fail, crash or lose the answer of a push. *)
THEOREM TagsMatch == Spec => []TagsMatchBranch
  BY Invariant, PTL DEF LineInv

(* A cut that was undone leaves its checkout clean, at a commit the branch
   holds, and no tag of its own. *)
THEOREM Undone == Spec => []UndoneIsClean
<1>1. Typed /\ LineInv => UndoneIsClean
  BY DEF LineInv, CutInv, OnBranch, OwnTag, Tidy, Based, Read, Undoing, UndoneIsClean
<1>. QED
  BY <1>1, Invariant, PTL

(* The push origin takes carries its own tip and one changelog commit on top,
   and the bar passed on that tip in the run that pushes, unless somebody pulled
   in that checkout while the bar ran. *)
THEOREM Shipped == Spec => ShipsWhatWasBarred
<1> DEFINE Barred ==
      \A v \in Versions : tags'[v] # tags[v] =>
        /\ log[tags'[v]].history = log[tip].history \cup {tags'[v]}
        /\ \E c \in Checkouts : barred[c] \in {tip, Mixed} /\ version[c] = v
<1>1. ReleaseAssumption /\ Typed /\ LineInv /\ [Next]_vars => [Barred]_vars
  <2> SUFFICES ASSUME ReleaseAssumption, Typed, LineInv, [Next]_vars PROVE Barred
    OBVIOUS
  <2>1. CASE UNCHANGED tags
    BY <2>1
  <2>2. ASSUME NEW c \in Checkouts, Ships(c) PROVE Barred
    <3>1. /\ tags' = [tags EXCEPT ![version[c]] = head[c]] /\ version[c] \in Versions
          /\ log[head[c]].history = log[tip].history \cup {head[c]} /\ barred[c] \in {tip, Mixed}
      BY <2>2, ShipsOnTip DEF Ships
    <3>. QED
      BY <3>1 DEF Typed, TypeOK
  <2>. QED
    BY <2>1, <2>2, OriginSteps DEF Land, originVars
<1>. QED
  BY <1>1, Invariant, ReleaseAssumption, PTL DEF Spec, ShipsWhatWasBarred

-----------------------------------------------------------------------------
(* The refinement *)

Waiting == log[tip].unreleased
ShippedBy == [v \in Versions |-> IF tags[v] = NoTag THEN {} ELSE log[tags[v]].section[v]]

(* What waits and what shipped is older than what lands next. *)
LEMMA SeenBefore ==
  ASSUME Typed, LineInv
  PROVE  Waiting \subseteq Commits /\ \A v \in Versions : ShippedBy[v] \subseteq Commits
<1>1. tip \in Commits /\ tags \in [Versions -> Commits \cup {NoTag}] /\ Len(log) \in Nat
  BY LogTyped DEF Typed, TypeOK
<1>2. \A k \in Commits : 1..k \subseteq Commits
  BY <1>1 DEF Commits
<1>. QED
  BY <1>1, <1>2 DEF LineInv, LogOrdered, Waiting, ShippedBy

LEMMA LineInit == ReleaseAssumption /\ Init => Line!Init
<1> SUFFICES ASSUME ReleaseAssumption, Init PROVE Line!Init
  OBVIOUS
<1>1. log[tip].unreleased = {1} /\ 1 \in 1..MaxCommits
  BY DEF Init, ReleaseAssumption
<1>. QED
  BY <1>1 DEF Init, Line!Init, NoTag

LEMMA LineStep ==
  ReleaseAssumption /\ Typed /\ LineInv /\ [Next]_vars => [Line!Next]_(Line!vars)
<1> SUFFICES ASSUME ReleaseAssumption, Typed, LineInv, [Next]_vars
             PROVE  Line!Next \/ UNCHANGED <<Waiting, ShippedBy>>
  BY DEF Line!vars, Waiting, ShippedBy
<1>1. /\ LogKept /\ TypeOK /\ tip \in Commits
      /\ tags \in [Versions -> Commits \cup {NoTag}]
  BY LogKeptStep DEF LineInv, Typed, TypeOK
<1>2. CASE UNCHANGED originVars
  BY <1>1, <1>2 DEF originVars, LogKept, Waiting, ShippedBy
<1>3. CASE Land
  <2>1. log'[tip'] = Work(tip) /\ tags' = tags
    BY <1>1, <1>3, WorkTyped, AppendTyped DEF Land
  <2>2. Waiting' = Waiting \cup {New}
    BY <1>1, <1>3, <2>1, WorkTyped DEF Waiting, Land
  <2>3. UNCHANGED ShippedBy
    BY <1>1, <2>1 DEF LogKept, ShippedBy
  <2>4. New \in (1..MaxCommits) \ Commits
    BY <1>1, <1>3, LogTyped DEF Land, Commits, New, ReleaseAssumption
  <2>5. New \notin Line!Seen
    BY <2>4, SeenBefore DEF Line!Seen, Waiting, ShippedBy
  <2>. QED
    BY <2>2, <2>3, <2>4, <2>5 DEF Line!Next, Line!Land, Waiting, ShippedBy
<1>4. ASSUME NEW c \in Checkouts, Ships(c) PROVE Line!Next
  <2> DEFINE v == version[c]
  <2>1. /\ tip' = head[c] /\ log' = log /\ v \in Versions /\ Newest(v)
        /\ tags' = [tags EXCEPT ![v] = head[c]] /\ head[c] \in Commits
        /\ log[tip].unreleased # {} /\ log[head[c]].unreleased = {}
        /\ log[head[c]].section = [log[tip].section EXCEPT ![v] = log[tip].unreleased]
        /\ log[tip].section \in Sections
    BY <1>4, ShipsOnTip DEF Ships
  <2> HIDE DEF v
  <2>2. Waiting # {} /\ Waiting' = {}
    BY <2>1 DEF Waiting
  <2>3. \A w \in Versions : ShippedBy[w] # {} => w < v
    BY <1>1, <2>1 DEF Newest, ShippedBy
  <2>4. log[head[c]].section[v] = Waiting /\ head[c] # NoTag
    BY <2>1 DEF Sections, Waiting, Commits, NoTag
  <2>5. ShippedBy' = [ShippedBy EXCEPT ![v] = Waiting]
    BY <1>1, <2>1, <2>4 DEF ShippedBy
  <2>. QED
    BY <2>1, <2>2, <2>3, <2>5 DEF Line!Next, Line!Release, Waiting, ShippedBy
<1>. QED
  BY <1>2, <1>3, <1>4, OriginSteps

(* Every release, raced or retried, is one step of ReleaseLine: all the changes
   that wait go out at once, under a version above every other, and what has
   shipped never changes again. *)
THEOREM Refinement == Spec => AsALine
<1>1. Init => Line!Init
  BY LineInit, ReleaseAssumption
<1>2. Typed /\ LineInv /\ [Next]_vars => [Line!Next]_(Line!vars)
  BY LineStep, ReleaseAssumption
<1>. QED
  BY <1>1, <1>2, Invariant, PTL DEF Spec, AsALine, Line!Spec

-----------------------------------------------------------------------------
(* GreenCut: the invariant *)

(* A row that is there since the check began, and unchanged, answers for its
   workflow, whichever page it is read on. *)
Answering(i) ==
  /\ i \in steady /\ runs[i].inside
  /\ runs[i].status # Running
  /\ runs[i].status = "cancelled" => Newer(i) = {}

(* The pages read so far reach back to the row. *)
Reached(i) ==
  /\ verdict # "error"
  /\ IF step = "pages" THEN Len(runs) - i < (page - 1) * PerPage ELSE InReach(i)

(* A row the pages have reached has its workflow listed. *)
Listed == \A i \in steady : Reached(i) => runs[i].workflow \in listed

(* One that answers has been taken, or a newer one of its workflow. *)
Taken ==
  \A i \in steady : Reached(i) /\ Answering(i) =>
    \E q \in latest : q.workflow = runs[i].workflow /\ q.of >= i

(* The newest row of a workflow has been taken if its workflow was listed. *)
NewestTaken ==
  \A i \in steady :
    Answering(i) /\ Newer(i) = {} /\ runs[i].workflow \in listed => Seen(runs[i].workflow)

(* A row that was taken is of the window, with what it said as long as it has
   not changed; no row that answers is above it, and when it is a cancelled
   run, no row at all of those that were there. *)
Right(q) ==
  /\ runs[q.of].workflow = q.workflow
  /\ runs[q.of].inside
  /\ q.of \in steady => runs[q.of].status = q.conclusion
  /\ \A j \in Newer(q.of) : ~Answering(j)
  /\ q.of \in steady /\ q.conclusion = "cancelled" => Newer(q.of) \cap steady = {}

(* What the check says is what it found. *)
Said ==
  /\ IF step = "done" THEN verdict # "none" ELSE verdict = "none" /\ told = {}
  /\ verdict \notin {"none", "error"} => told = RedRuns
  /\ told # {} => told = RedRuns
  /\ verdict = "cut" /\ ~force => latest # {} /\ ~Refuses

(* The previous release is as it was when the check began, and the check has
   read it: a green run without a Release is noted. *)
Noted ==
  settled /\ release = "success" /\ ~published =>
    /\ step = "judge" => silence
    /\ verdict = "cut" /\ ~force => silence

WalkInv ==
  /\ Listed
  /\ Taken
  /\ NewestTaken
  /\ \A q \in latest : Right(q)
  /\ Said
  /\ Noted

-----------------------------------------------------------------------------
(* Types *)

LEMMA GreenInitTyped == GreenInit => GreenTypeOK
<1> SUFFICES ASSUME GreenInit PROVE GreenTypeOK
  OBVIOUS
<1> USE GreenCutAssumption DEF GreenInit
<1>1. runs \in Seq(Row)
  <2>1. PICK n \in 0..MaxRuns : runs \in [1..n -> Row]
    OBVIOUS
  <2>. QED
    BY <2>1
<1>2. page \in 1..RunPages
  OBVIOUS
<1>3. release \in {"untagged"} \cup Releases /\ published \in BOOLEAN
  BY DEF Releases, Running
<1>4. events \in 0..MaxEvents /\ step \in Steps
  BY DEF Steps
<1>. QED
  BY <1>1, <1>2, <1>3, <1>4 DEF GreenTypeOK

LEMMA RowIs ==
  ASSUME GreenTypeOK, NEW i \in DOMAIN runs
  PROVE  /\ runs[i].workflow \in Workflows /\ runs[i].inside \in BOOLEAN
         /\ runs[i].status \in Conclusions \cup {Running}
         /\ runs[i] = [workflow |-> runs[i].workflow, inside |-> runs[i].inside,
                       status |-> runs[i].status]
<1>1. runs[i] \in Row
  BY DEF GreenTypeOK
<1>. QED
  BY <1>1 DEF Row

(* What the lists of the guard hold after a page. *)
Decided(i) == [workflow |-> runs[i].workflow, of |-> i, conclusion |-> runs[i].status]

LEMMA DecidingIs ==
  ASSUME GreenTypeOK, NEW i \in Deciding
  PROVE  /\ i \in DOMAIN runs /\ i \in Rows /\ Answers(i) /\ ~Seen(runs[i].workflow)
         /\ \A j \in Rows : j > i /\ Answers(j) => runs[j].workflow # runs[i].workflow
         /\ Decided(i) \in [workflow : Workflows, of : DOMAIN runs, conclusion : Conclusions]
<1>1. /\ i \in DOMAIN runs /\ i \in Rows /\ Answers(i) /\ ~Seen(runs[i].workflow)
      /\ \A j \in Rows : j > i /\ Answers(j) => runs[j].workflow # runs[i].workflow
  BY DEF Deciding, Rows
<1>2. runs[i].status # Running
  BY <1>1 DEF Answers
<1>. QED
  BY <1>1, <1>2, RowIs DEF Decided

LEMMA StepTyped == GreenTypeOK /\ [GreenNext]_greenVars => GreenTypeOK'
<1> SUFFICES ASSUME GreenTypeOK, [GreenNext]_greenVars PROVE GreenTypeOK'
  OBVIOUS
<1> USE GreenCutAssumption
<1>1. CASE StartRun
  <2>1. PICK w \in Workflows, in \in BOOLEAN :
          runs' = Append(runs, [workflow |-> w, inside |-> in, status |-> Running])
    BY <1>1, Zenon DEF StartRun
  <2>2. [workflow |-> w, inside |-> in, status |-> Running] \in Row
    BY DEF Row
  <2>3. runs' \in Seq(Row) /\ DOMAIN runs \subseteq DOMAIN runs'
    BY <2>1, <2>2 DEF GreenTypeOK
  <2>4. events' \in 0..MaxEvents
    BY <1>1 DEF StartRun, Event, GreenTypeOK
  <2>5. /\ latest' \in SUBSET [workflow : Workflows, of : DOMAIN runs', conclusion : Conclusions]
        /\ \A q, r \in latest' : q.workflow = r.workflow => q = r
    BY <1>1, <2>3 DEF StartRun, guardVars, walkVars, GreenTypeOK
  <2>. QED
    BY <1>1, <2>3, <2>4, <2>5 DEF StartRun, guardVars, walkVars, GreenTypeOK
<1>2. ASSUME NEW i \in DOMAIN runs, ChangeRun(i) PROVE GreenTypeOK'
  <2>1. PICK status \in Conclusions \cup {Running} : runs' = [runs EXCEPT ![i].status = status]
    BY <1>2 DEF ChangeRun
  <2>2. [runs[i] EXCEPT !.status = status] \in Row
    BY RowIs DEF Row
  <2>3. runs' \in Seq(Row) /\ DOMAIN runs' = DOMAIN runs
    BY <2>1, <2>2 DEF GreenTypeOK
  <2>4. events' \in 0..MaxEvents
    BY <1>2 DEF ChangeRun, Event, GreenTypeOK
  <2>. QED
    BY <1>2, <2>3, <2>4 DEF ChangeRun, guardVars, walkVars, GreenTypeOK
<1>3. CASE ChangeRelease
  <2>1. events' \in 0..MaxEvents
    BY <1>3 DEF ChangeRelease, Event, GreenTypeOK
  <2>2. release' \in {"untagged"} \cup Releases /\ published' \in BOOLEAN
    BY <1>3 DEF ChangeRelease, Releases, Running, GreenTypeOK
  <2>. QED
    BY <1>3, <2>1, <2>2 DEF ChangeRelease, guardVars, walkVars, GreenTypeOK
<1>4. CASE ReadPage
  <2>1. latest' = latest \cup {Decided(i) : i \in Deciding}
    BY <1>4 DEF ReadPage, Decided
  <2>2. latest' \in SUBSET [workflow : Workflows, of : DOMAIN runs, conclusion : Conclusions]
    BY <2>1, DecidingIs DEF GreenTypeOK
  <2>3. \A q \in latest, i \in Deciding : q.workflow # Decided(i).workflow
    BY DecidingIs DEF Seen, Decided
  <2>4. \A i, j \in Deciding : Decided(i).workflow = Decided(j).workflow => i = j
    <3>1. TAKE i, j \in Deciding
    <3>2. /\ i \in Nat /\ j \in Nat /\ i \in Rows /\ j \in Rows /\ Answers(i) /\ Answers(j)
          /\ j > i => runs[j].workflow # runs[i].workflow
          /\ i > j => runs[i].workflow # runs[j].workflow
      BY DecidingIs DEF GreenTypeOK
    <3>. QED
      BY <3>2 DEF Decided
  <2>5. \A q, r \in latest' : q.workflow = r.workflow => q = r
    BY <2>1, <2>3, <2>4 DEF GreenTypeOK
  <2>6. listed' \subseteq Workflows
    <3>1. \A i \in Rows : runs[i].workflow \in Workflows
      BY RowIs DEF Rows
    <3>. QED
      BY <1>4, <3>1 DEF ReadPage, GreenTypeOK
  <2>7. page' \in 1..RunPages /\ step' \in Steps
    BY <1>4 DEF ReadPage, LastPage, GreenTypeOK, Steps
  <2>. QED
    BY <1>4, <2>2, <2>5, <2>6, <2>7 DEF ReadPage, githubVars, GreenTypeOK
<1>5. CASE ReadRelease
  BY <1>5 DEF ReadRelease, githubVars, walkVars, GreenTypeOK, Steps
<1>6. CASE ReadPublished
  BY <1>6 DEF ReadPublished, githubVars, walkVars, GreenTypeOK, Steps
<1>7. CASE Judge
  <2>1. told' \subseteq DOMAIN runs
    BY <1>7 DEF Judge, RedRuns, GreenTypeOK
  <2>2. verdict' \in {"none", "error", "unknown", "refused", "cut"} /\ force' \in BOOLEAN
    BY <1>7 DEF Judge
  <2>. QED
    BY <1>7, <2>1, <2>2 DEF Judge, githubVars, walkVars, GreenTypeOK, Steps
<1>8. CASE ReadFails
  BY <1>8 DEF ReadFails, githubVars, walkVars, GreenTypeOK, Steps
<1>9. CASE UNCHANGED greenVars
  BY <1>9 DEF greenVars, githubVars, walkVars, GreenTypeOK
<1>. QED
  BY <1>1, <1>2, <1>3, <1>4, <1>5, <1>6, <1>7, <1>8, <1>9 DEF GreenNext

LEMMA GreenAlwaysTyped == GreenSpec => []GreenTypeOK
<1>. QED
  BY GreenInitTyped, StepTyped, PTL DEF GreenSpec

(* Every variable keeps its type: the guard goes by one run of each workflow
   at most, a run that is on the list and has concluded
   (github.go latestPerWorkflow). *)
THEOREM GreenTyping == GreenSpec => []GreenTypeOK
<1>. QED
  BY GreenAlwaysTyped

-----------------------------------------------------------------------------
(* What happens at GitHub *)

(* The list only grows at its new end, and a row that changes is no longer
   one that has not. *)
Grows ==
  /\ DOMAIN runs \subseteq DOMAIN runs' /\ Len(runs) <= Len(runs')
  /\ steady' \subseteq steady
  /\ \A i \in DOMAIN runs : /\ runs'[i].workflow = runs[i].workflow
                            /\ runs'[i].inside = runs[i].inside
                            /\ i \in steady' => runs'[i].status = runs[i].status
  /\ UNCHANGED guardVars

LEMMA GitHubGrows ==
  ASSUME GreenTypeOK, StartRun \/ ChangeRelease \/ \E i \in DOMAIN runs : ChangeRun(i)
  PROVE  Grows
<1>1. CASE StartRun
  <2>1. PICK w \in Workflows, in \in BOOLEAN :
          runs' = Append(runs, [workflow |-> w, inside |-> in, status |-> Running])
    BY <1>1, Zenon DEF StartRun
  <2>2. /\ DOMAIN runs \subseteq DOMAIN runs' /\ Len(runs) <= Len(runs')
        /\ \A i \in DOMAIN runs : runs'[i] = runs[i]
    BY <2>1 DEF GreenTypeOK
  <2>. QED
    BY <1>1, <2>2 DEF StartRun, Grows
<1>2. CASE ChangeRelease
  BY <1>2 DEF ChangeRelease, Grows, GreenTypeOK
<1>3. ASSUME NEW i \in DOMAIN runs, ChangeRun(i) PROVE Grows
  <2>1. PICK status \in Conclusions \cup {Running} : runs' = [runs EXCEPT ![i].status = status]
    BY <1>3 DEF ChangeRun
  <2>2. \A j \in DOMAIN runs : j # i => runs'[j] = runs[j]
    BY <2>1
  <2>3. runs'[i].workflow = runs[i].workflow /\ runs'[i].inside = runs[i].inside
    <3>1. runs'[i] = [runs[i] EXCEPT !.status = status]
      BY <2>1
    <3>. QED
      BY <3>1, RowIs
  <2>4. DOMAIN runs' = DOMAIN runs /\ Len(runs') = Len(runs) /\ Len(runs) \in Nat
    BY <2>1 DEF GreenTypeOK
  <2>5. steady' = steady \ {i} /\ UNCHANGED guardVars
    BY <1>3 DEF ChangeRun
  <2>. QED
    BY <2>2, <2>3, <2>4, <2>5 DEF Grows
<1>. QED
  BY <1>1, <1>2, <1>3

(* What answered nothing before still does, and a page reaches no further. *)
LEMMA GrowsKeeps ==
  ASSUME GreenTypeOK, GreenTypeOK', Grows
  PROVE  /\ \A i \in DOMAIN runs : Newer(i) \subseteq Newer(i)'
         /\ \A i \in DOMAIN runs : Newer(i)' \cap DOMAIN runs \subseteq Newer(i)
         /\ \A i : Answering(i)' => Answering(i)
         /\ \A i \in steady : Reached(i)' => Reached(i)
<1>1. steady \subseteq DOMAIN runs
  BY DEF GreenTypeOK
<1>2. \A i \in DOMAIN runs : /\ Newer(i) \subseteq Newer(i)'
                             /\ Newer(i)' \cap DOMAIN runs \subseteq Newer(i)
  BY DEF Newer, Same, Grows
<1>3. ASSUME NEW i, Answering(i)' PROVE Answering(i)
  <2>1. i \in steady' /\ i \in steady /\ i \in DOMAIN runs
    BY <1>1, <1>3 DEF Answering, Grows
  <2>2. runs'[i].inside = runs[i].inside /\ runs'[i].status = runs[i].status
    BY <2>1 DEF Grows
  <2>3. Newer(i) \subseteq Newer(i)'
    BY <1>2, <2>1
  <2>. QED
    BY <1>3, <2>1, <2>2, <2>3 DEF Answering
<1>4. ASSUME NEW i \in steady, Reached(i)' PROVE Reached(i)
  <2>1. Len(runs) \in Nat /\ Len(runs') \in Nat /\ i \in Nat /\ page \in Nat /\ Len(runs) <= Len(runs')
    <3>1. Len(runs) \in Nat /\ Len(runs') \in Nat /\ i \in Nat /\ page \in Nat
      BY <1>1, GreenCutAssumption DEF GreenTypeOK
    <3>. QED
      BY <3>1 DEF Grows
  <2>2. page' = page /\ step' = step /\ verdict' = verdict
    BY DEF Grows, guardVars, walkVars
  <2>3. (page - 1) * PerPage \in Int /\ RunPages * PerPage \in Int
    BY <2>1, GreenCutAssumption
  <2> DEFINE a == (page - 1) * PerPage
             b == RunPages * PerPage
  <2>4. Len(runs') - i < a => Len(runs) - i < a
    <3> HIDE DEF a
    <3>. QED
      BY <2>1, <2>3 DEF a
  <2>5. Len(runs') - i < b => Len(runs) - i < b
    BY <2>1, <2>3
  <2>. QED
    BY <1>4, <2>2, <2>4, <2>5 DEF Reached, InReach
<1>. QED
  BY <1>2, <1>3, <1>4

LEMMA GrowsWalk ==
  ASSUME GreenTypeOK, GreenTypeOK', WalkInv, Grows
  PROVE  Listed' /\ Taken' /\ NewestTaken' /\ (\A q \in latest : Right(q))' /\ Said'
<1>1. /\ steady' \subseteq steady /\ steady \subseteq DOMAIN runs
      /\ latest' = latest /\ listed' = listed /\ step' = step /\ told' = told
      /\ verdict' = verdict /\ force' = force /\ silence' = silence
  BY DEF Grows, guardVars, walkVars, GreenTypeOK
<1>2. \A i \in steady : runs'[i].workflow = runs[i].workflow
  BY <1>1 DEF Grows
<1>3. Listed'
  BY <1>1, <1>2, GrowsKeeps DEF WalkInv, Listed
<1>4. Taken'
  BY <1>1, <1>2, GrowsKeeps DEF WalkInv, Taken
<1>5. NewestTaken'
  <2>1. SUFFICES ASSUME NEW i \in steady', Answering(i)', Newer(i)' = {}, runs'[i].workflow \in listed
                 PROVE  Seen(runs[i].workflow)'
    BY <1>1 DEF NewestTaken
  <2>2. i \in steady /\ i \in DOMAIN runs /\ Answering(i) /\ Newer(i) = {}
    BY <1>1, <2>1, GrowsKeeps
  <2>3. Seen(runs[i].workflow)
    BY <1>2, <2>1, <2>2 DEF WalkInv, NewestTaken
  <2>. QED
    BY <1>1, <1>2, <2>2, <2>3 DEF Seen
<1>6. (\A q \in latest : Right(q))'
  <2>1. SUFFICES ASSUME NEW q \in latest PROVE Right(q)'
    BY <1>1
  <2>2. Right(q) /\ q.of \in DOMAIN runs
    BY DEF WalkInv, GreenTypeOK
  <2>3. runs'[q.of].workflow = q.workflow /\ runs'[q.of].inside
    BY <2>2 DEF Right, Grows
  <2>4. q.of \in steady' => runs'[q.of].status = q.conclusion
    BY <1>1, <2>2 DEF Right, Grows
  <2>5. ASSUME NEW j \in Newer(q.of)', Answering(j)' PROVE FALSE
    <3>1. Answering(j) /\ j \in DOMAIN runs
      BY <1>1, <2>5, GrowsKeeps DEF Answering
    <3>2. j \in Newer(q.of)
      BY <2>2, <2>5, <3>1, GrowsKeeps
    <3>. QED
      BY <2>2, <3>1, <3>2 DEF Right
  <2>6. q.of \in steady' /\ q.conclusion = "cancelled" => Newer(q.of)' \cap steady' = {}
    <3>1. Newer(q.of)' \cap steady' \subseteq Newer(q.of) \cap steady
      BY <1>1, <2>2, GrowsKeeps
    <3>. QED
      BY <1>1, <2>2, <3>1 DEF Right
  <2>. QED
    BY <2>3, <2>4, <2>5, <2>6 DEF Right
<1>7. Said'
  BY <1>1 DEF WalkInv, Said, RedRuns, Refuses
<1>. QED
  BY <1>3, <1>4, <1>5, <1>6, <1>7

LEMMA GitHubWalk ==
  ASSUME GreenTypeOK, GreenTypeOK', WalkInv, StartRun \/ ChangeRelease \/ \E i \in DOMAIN runs : ChangeRun(i)
  PROVE  WalkInv'
<1>1. Grows
  BY GitHubGrows
<1>2. Listed' /\ Taken' /\ NewestTaken' /\ (\A q \in latest : Right(q))' /\ Said'
  BY <1>1, GrowsWalk
<1>3. Noted'
  BY DEF WalkInv, Noted, StartRun, ChangeRelease, ChangeRun, guardVars
<1>. QED
  BY <1>2, <1>3 DEF WalkInv

-----------------------------------------------------------------------------
(* A page *)

LEMMA PageReaches ==
  ASSUME GreenTypeOK, Said, ReadPage, NEW i \in DOMAIN runs
  PROVE  /\ Reached(i)' => Reached(i) \/ i \in Rows
         /\ \A j \in DOMAIN runs : i \in Rows /\ j > i => Reached(j) \/ j \in Rows
<1> DEFINE a == (page - 1) * PerPage
           b == page * PerPage
<1>1. /\ Len(runs) \in Nat /\ DOMAIN runs = 1..Len(runs) /\ page \in Nat /\ PerPage \in Nat
      /\ RunPages \in Nat
  BY GreenCutAssumption DEF GreenTypeOK
<1>2. a \in Int /\ b \in Int
  BY <1>1
<1>3. step = "pages" /\ verdict = "none" /\ runs' = runs
  BY DEF ReadPage, Said, githubVars
<1>4. \A j \in DOMAIN runs : Reached(j) <=> Len(runs) - j < a
  BY <1>3 DEF Reached
<1>5. \A j \in DOMAIN runs : j \in Rows <=> Len(runs) - j >= a /\ Len(runs) - j < b
  BY DEF Rows
<1>6. Reached(i)' => Len(runs) - i < b
  <2>1. CASE ~LastPage
    <3>1. page' = page + 1 /\ step' = "pages" /\ page' - 1 = page
      BY <1>1, <2>1 DEF ReadPage
    <3>. QED
      BY <1>3, <3>1 DEF Reached
  <2>2. CASE Len(runs) < page * PerPage
    <3> HIDE DEF b
    <3>1. Len(runs) < b
      BY <2>2 DEF b
    <3>. QED
      BY <1>1, <1>2, <3>1
  <2>3. CASE page = RunPages /\ LastPage
    <3>1. step' # "pages"
      BY <2>3 DEF ReadPage
    <3>. QED
      BY <1>3, <2>3, <3>1 DEF Reached, InReach
  <2>. QED
    BY <2>1, <2>2, <2>3 DEF LastPage
<1> HIDE DEF a, b
<1>7. \A j \in DOMAIN runs : i \in Rows /\ j > i => Len(runs) - j < b
  BY <1>1, <1>2, <1>5
<1>. QED
  BY <1>1, <1>2, <1>4, <1>5, <1>6, <1>7

(* The newest of some rows. *)
LEMMA NewestOf ==
  ASSUME GreenTypeOK, NEW T \in SUBSET DOMAIN runs, T # {}
  PROVE  \E x \in T : \A y \in T : y <= x
<1>1. Len(runs) \in Nat /\ T \subseteq 1..Len(runs)
  BY DEF GreenTypeOK
<1> DEFINE D == {d \in Nat : \E x \in T : d = Len(runs) - x}
           R == {p \in Nat \X Nat : p[1] < p[2]}
<1>2. D # {}
  BY <1>1
<1>3. IsWellFoundedOn(R, Nat)
  BY NatLessThanWellFounded DEF OpToRel
<1>4. PICK d \in D : \A e \in D : <<e, d>> \notin R
  BY <1>2, <1>3, WFMin
<1>5. PICK x \in T : d = Len(runs) - x
  BY <1>4
<1>6. ASSUME NEW y \in T PROVE y <= x
  <2>1. Len(runs) - y \in D
    BY <1>1
  <2>2. ~(Len(runs) - y < Len(runs) - x)
    BY <1>4, <1>5, <2>1
  <2>. QED
    BY <1>1, <2>2
<1>. QED
  BY <1>6

(* On the page, a row that answers, or a newer one of its workflow, is the one
   that decides, unless the workflow is decided already. *)
LEMMA PageDecides ==
  ASSUME GreenTypeOK, NEW i \in Rows, Answers(i), ~Seen(runs[i].workflow)
  PROVE  \E m \in Deciding : runs[m].workflow = runs[i].workflow /\ m >= i
<1> DEFINE T == {m \in Rows : Answers(m) /\ runs[m].workflow = runs[i].workflow}
<1>1. i \in T /\ T \in SUBSET DOMAIN runs
  BY DEF Rows
<1>2. PICK m \in T : \A y \in T : y <= m
  BY <1>1, NewestOf
<1>3. m \in Nat /\ i \in Nat /\ Rows \subseteq Nat
  BY <1>1 DEF GreenTypeOK, Rows
<1>4. ~\E j \in Rows : j > m /\ Answers(j) /\ runs[j].workflow = runs[m].workflow
  BY <1>2, <1>3
<1>5. m \in Deciding
  BY <1>2, <1>4 DEF Deciding
<1>. QED
  BY <1>1, <1>2, <1>3, <1>5

(* A row that answers has its workflow taken once its page is read. *)
LEMMA AnsweringDecides ==
  ASSUME GreenTypeOK, WalkInv, NEW i \in Rows, Answering(i), ~Seen(runs[i].workflow)
  PROVE  Answers(i)
<1>1. i \in steady /\ i \in DOMAIN runs
  BY DEF Answering, Rows
<1>2. CASE runs[i].status = "cancelled"
  <2>1. Newer(i) = {}
    BY <1>2 DEF Answering
  <2>2. runs[i].workflow \notin listed
    BY <1>1, <2>1 DEF WalkInv, NewestTaken
  <2>3. ~\E j \in Rows : j > i /\ runs[j].workflow = runs[i].workflow
    BY <2>1 DEF Newer, Same, Rows
  <2>. QED
    BY <2>2, <2>3 DEF Answers, Superseded, Answering
<1>. QED
  BY <1>2 DEF Answers, Answering

LEMMA PageWalk ==
  ASSUME GreenTypeOK, WalkInv, ReadPage
  PROVE  WalkInv'
<1>1. /\ latest' = latest \cup {Decided(i) : i \in Deciding}
      /\ listed' = listed \cup {runs[i].workflow : i \in Rows}
      /\ runs' = runs /\ steady' = steady /\ settled' = settled
      /\ release' = release /\ published' = published
      /\ force' = force /\ told' = told /\ silence' = silence /\ verdict' = verdict
      /\ step = "pages"
  BY DEF ReadPage, Decided, githubVars
<1>2. verdict = "none" /\ told = {} /\ step' # "done"
  BY <1>1 DEF ReadPage, WalkInv, Said
<1>3. steady \subseteq DOMAIN runs
  BY DEF GreenTypeOK
<1>4. \A i : (Answering(i)' <=> Answering(i)) /\ Newer(i)' = Newer(i)
  BY <1>1 DEF Answering, Newer, Same
<1>5. ASSUME NEW i \in DOMAIN runs, Reached(i)' PROVE Reached(i) \/ i \in Rows
  BY <1>5, PageReaches DEF WalkInv
<1>6. ASSUME NEW i \in Rows, NEW j \in DOMAIN runs, j > i PROVE Reached(j) \/ j \in Rows
  <2>1. i \in DOMAIN runs
    BY DEF Rows
  <2>. QED
    BY <1>6, <2>1, PageReaches DEF WalkInv
<1>7. Listed'
  BY <1>1, <1>3, <1>5 DEF WalkInv, Listed
<1>8. Taken'
  <2>1. SUFFICES ASSUME NEW i \in steady, Reached(i)', Answering(i)
                 PROVE  \E q \in latest' : q.workflow = runs[i].workflow /\ q.of >= i
    BY <1>1, <1>4 DEF Taken
  <2>2. CASE Reached(i)
    BY <1>1, <2>1, <2>2 DEF WalkInv, Taken
  <2>3. CASE i \in Rows /\ Seen(runs[i].workflow)
    <3>1. PICK q \in latest : q.workflow = runs[i].workflow
      BY <2>3 DEF Seen
    <3>2. Right(q) /\ q.of \in DOMAIN runs /\ i \in DOMAIN runs
      BY <1>3 DEF WalkInv, GreenTypeOK
    <3>3. i \notin Newer(q.of)
      BY <2>1, <3>2 DEF Right
    <3>4. q.of >= i
      BY <3>1, <3>2, <3>3 DEF Newer, Same, Right, GreenTypeOK
    <3>. QED
      BY <1>1, <3>1, <3>4
  <2>4. CASE i \in Rows /\ ~Seen(runs[i].workflow)
    <3>1. Answers(i)
      BY <2>1, <2>4, AnsweringDecides
    <3>2. PICK m \in Deciding : runs[m].workflow = runs[i].workflow /\ m >= i
      BY <2>4, <3>1, PageDecides
    <3>3. Decided(m) \in latest' /\ Decided(m).workflow = runs[i].workflow /\ Decided(m).of = m
      BY <1>1, <3>2 DEF Decided
    <3>. QED
      BY <3>2, <3>3
  <2>. QED
    BY <1>3, <1>5, <2>1, <2>2, <2>3, <2>4
<1>9. NewestTaken'
  <2>1. SUFFICES ASSUME NEW i \in steady, Answering(i), Newer(i) = {}, runs[i].workflow \in listed',
                        ~Seen(runs[i].workflow)
                 PROVE  \E q \in latest' : q.workflow = runs[i].workflow
    BY <1>1, <1>4 DEF NewestTaken, Seen
  <2>2. runs[i].workflow \notin listed
    BY <2>1 DEF WalkInv, NewestTaken
  <2>3. PICK m \in Rows : runs[m].workflow = runs[i].workflow
    BY <1>1, <2>1, <2>2
  <2>4. m \in DOMAIN runs /\ i \in DOMAIN runs /\ m \in Nat /\ i \in Nat
    BY <1>3 DEF Rows, GreenTypeOK
  <2>5. m = i \/ i > m
    BY <2>1, <2>3, <2>4 DEF Newer, Same
  <2>6. ~Reached(i)
    BY <2>2 DEF WalkInv, Listed
  <2>7. i \in Rows
    BY <1>6, <2>4, <2>5, <2>6
  <2>8. Answers(i)
    BY <2>1, <2>7, AnsweringDecides
  <2>9. PICK d \in Deciding : runs[d].workflow = runs[i].workflow
    BY <2>1, <2>7, <2>8, PageDecides
  <2>10. Decided(d) \in latest' /\ Decided(d).workflow = runs[d].workflow
    BY <1>1, <2>9 DEF Decided
  <2>. QED
    BY <2>9, <2>10
<1>10. ASSUME NEW m \in Deciding PROVE Right(Decided(m))
  <2>1. /\ m \in DOMAIN runs /\ m \in Rows /\ Answers(m) /\ ~Seen(runs[m].workflow)
        /\ \A j \in Rows : j > m /\ Answers(j) => runs[j].workflow # runs[m].workflow
    BY DecidingIs
  <2>2. ASSUME NEW j \in Newer(m), Answering(j) PROVE FALSE
    <3>1. j \in DOMAIN runs /\ j > m /\ runs[j].workflow = runs[m].workflow /\ j \in steady
      BY <2>2 DEF Newer, Same, Answering
    <3>2. ~Reached(j)
      BY <2>1, <2>2, <3>1 DEF WalkInv, Taken, Seen
    <3>3. j \in Rows
      BY <1>6, <2>1, <3>1, <3>2
    <3>4. Answers(j)
      BY <2>1, <2>2, <3>1, <3>3, AnsweringDecides
    <3>. QED
      BY <2>1, <3>1, <3>3, <3>4
  <2>3. ASSUME runs[m].status = "cancelled", NEW j \in Newer(m) \cap steady PROVE FALSE
    <3>1. j \in DOMAIN runs /\ j > m /\ runs[j].workflow = runs[m].workflow
      BY <2>3 DEF Newer, Same
    <3>2. runs[m].workflow \notin listed /\ j \notin Rows
      BY <2>1, <2>3, <3>1 DEF Answers, Superseded
    <3>3. Reached(j)
      BY <1>6, <2>1, <3>1, <3>2
    <3>. QED
      BY <2>3, <3>1, <3>2, <3>3 DEF WalkInv, Listed
  <2>. QED
    BY <2>1, <2>2, <2>3 DEF Right, Decided, Answers
<1>11. (\A q \in latest : Right(q))'
  <2>1. \A q : Right(q) => Right(q)'
    BY <1>1, <1>4 DEF Right
  <2>. QED
    BY <1>1, <1>10, <2>1 DEF WalkInv
<1>12. Said'
  BY <1>1, <1>2 DEF Said
<1>13. Noted'
  <2>1. release = "success" => step' # "judge"
    BY DEF ReadPage, HasPrev
  <2>. QED
    BY <1>1, <1>2, <2>1 DEF Noted
<1>. QED
  BY <1>7, <1>8, <1>9, <1>11, <1>12, <1>13 DEF WalkInv

-----------------------------------------------------------------------------
(* The rest of the check *)

LEMMA InitWalk == GreenInit => WalkInv
<1> SUFFICES ASSUME GreenInit PROVE WalkInv
  OBVIOUS
<1>1. GreenTypeOK
  BY GreenInitTyped
<1> USE DEF GreenInit
<1>2. \A i \in steady : ~Reached(i)
  <2>1. Len(runs) \in Nat /\ DOMAIN runs = 1..Len(runs)
    BY <1>1 DEF GreenTypeOK
  <2>2. (page - 1) * PerPage = 0
    BY GreenCutAssumption
  <2>. QED
    BY <2>1, <2>2 DEF Reached
<1>3. Listed /\ Taken /\ NewestTaken /\ \A q \in latest : Right(q)
  BY <1>2 DEF Listed, Taken, NewestTaken
<1>. QED
  BY <1>3 DEF WalkInv, Said, Noted

(* A step of the check that reads no page leaves what the pages gave it. *)
LEMMA WalkKept ==
  ASSUME WalkInv, UNCHANGED <<githubVars, walkVars>>, step # "pages",
         step' # "pages", verdict # "error"
  PROVE  Listed' /\ Taken' /\ NewestTaken' /\ (\A q \in latest : Right(q))'
<1> USE DEF githubVars, walkVars
<1>1. \A i : Reached(i)' => Reached(i)
  BY DEF Reached, InReach
<1>2. \A i : (Answering(i)' <=> Answering(i)) /\ Newer(i)' = Newer(i)
  BY DEF Answering, Newer, Same
<1>3. Listed' /\ Taken' /\ NewestTaken'
  BY <1>1, <1>2 DEF WalkInv, Listed, Taken, NewestTaken, Seen
<1>4. \A q : Right(q) => Right(q)'
  BY <1>2 DEF Right
<1>. QED
  BY <1>3, <1>4 DEF WalkInv

LEMMA StepWalk == GreenTypeOK /\ WalkInv /\ [GreenNext]_greenVars => WalkInv'
<1> SUFFICES ASSUME GreenTypeOK, WalkInv, [GreenNext]_greenVars PROVE WalkInv'
  OBVIOUS
<1>0. GreenTypeOK'
  BY StepTyped
<1>1. CASE StartRun \/ ChangeRelease \/ \E i \in DOMAIN runs : ChangeRun(i)
  BY <1>0, <1>1, GitHubWalk
<1>2. CASE ReadPage
  BY <1>2, PageWalk
<1>3. CASE ReadRelease \/ ReadPublished
  <2>1. /\ UNCHANGED <<githubVars, walkVars, force, told, verdict>>
        /\ step \in {"release", "published"} /\ step' \in {"published", "judge"}
    BY <1>3 DEF ReadRelease, ReadPublished
  <2>2. verdict = "none" /\ told = {}
    BY <2>1 DEF WalkInv, Said
  <2>3. Listed' /\ Taken' /\ NewestTaken' /\ (\A q \in latest : Right(q))'
    BY <2>1, <2>2, WalkKept
  <2>4. Said'
    BY <2>1, <2>2 DEF Said
  <2>5. Noted'
    BY <1>3, <2>1, <2>2 DEF Noted, ReadRelease, ReadPublished, githubVars
  <2>. QED
    BY <2>3, <2>4, <2>5 DEF WalkInv
<1>4. CASE Judge
  <2>1. /\ UNCHANGED <<githubVars, walkVars, silence>> /\ step # "pages" /\ step # "done"
        /\ step' = "done" /\ told' = RedRuns
        /\ verdict' = IF force' THEN "cut"
                      ELSE IF Unknown THEN "unknown" ELSE IF Refuses THEN "refused" ELSE "cut"
    BY <1>4 DEF Judge, Unknown
  <2>2. verdict = "none" /\ told = {}
    BY <2>1 DEF WalkInv, Said
  <2>3. Listed' /\ Taken' /\ NewestTaken' /\ (\A q \in latest : Right(q))'
    BY <2>1, <2>2, WalkKept
  <2>4. RedRuns' = RedRuns /\ (Refuses' <=> Refuses) /\ latest' = latest
    BY <2>1 DEF RedRuns, Refuses, walkVars
  <2>5. verdict' = "cut" /\ ~force' => latest # {} /\ ~Refuses
    BY <1>4, <2>1 DEF Judge, Unknown
  <2>6. Said'
    BY <2>1, <2>4, <2>5 DEF Said
  <2>7. Noted'
    <3>1. SUFFICES ASSUME settled, release = "success", ~published, verdict' = "cut", ~force' PROVE silence
      BY <2>1 DEF Noted, githubVars
    <3>2. step = "judge"
      BY <1>4, <2>5, <3>1 DEF Judge, Unknown
    <3>. QED
      BY <3>1, <3>2 DEF WalkInv, Noted
  <2>. QED
    BY <2>3, <2>6, <2>7 DEF WalkInv
<1>5. CASE ReadFails
  <2>1. UNCHANGED <<githubVars, walkVars, force, told, silence>> /\ step # "done" /\ step' = "done"
        /\ verdict' = "error"
    BY <1>5 DEF ReadFails
  <2>2. told = {}
    BY <2>1 DEF WalkInv, Said
  <2>3. Listed' /\ Taken'
    BY <2>1 DEF Listed, Taken, Reached
  <2>4. \A i : (Answering(i)' <=> Answering(i)) /\ Newer(i)' = Newer(i)
    BY <2>1 DEF Answering, Newer, Same, githubVars
  <2>5. NewestTaken'
    BY <2>1, <2>4 DEF WalkInv, NewestTaken, Seen, githubVars, walkVars
  <2>6. \A q : Right(q) => Right(q)'
    BY <2>1, <2>4 DEF Right, githubVars
  <2>7. (\A q \in latest : Right(q))' /\ Said' /\ Noted'
    BY <2>1, <2>2, <2>6 DEF WalkInv, Said, Noted, walkVars
  <2>. QED
    BY <2>3, <2>5, <2>7 DEF WalkInv
<1>6. CASE UNCHANGED greenVars
  BY <1>6 DEF greenVars, githubVars, walkVars, WalkInv, Listed, Taken, NewestTaken, Right, Said, Noted,
     Reached, InReach, Answering, Newer, Same, Seen, RedRuns, Refuses
<1>. QED
  BY <1>1, <1>2, <1>3, <1>4, <1>5, <1>6 DEF GreenNext

LEMMA AlwaysWalk == GreenSpec => []WalkInv
<1>. QED
  BY InitWalk, StepWalk, GreenAlwaysTyped, PTL DEF GreenSpec

-----------------------------------------------------------------------------
(* The guard's promises *)

(* A run that was red, and its workflow's answer, for as long as the check
   took is named, however the list moved under the pages, as long as the pages
   reach back to it (github.go latestPerWorkflow, greencut.go Check). *)
THEOREM NoRed == GreenSpec => []NoRedSlipsBy
<1>1. ASSUME GreenTypeOK, WalkInv PROVE NoRedSlipsBy
  <2>1. SUFFICES ASSUME step = "done", verdict # "error", NEW i \in steady, RedThroughout(i), InReach(i)
                 PROVE  i \in told
    BY DEF NoRedSlipsBy
  <2>2. Reached(i)
    BY <2>1 DEF Reached
  <2>3. /\ runs[i].inside /\ runs[i].status \in Red /\ i \in DOMAIN runs
        /\ \A j \in Newer(i) : runs[i].status # "cancelled" /\ (runs[j].inside => SilentThroughout(j))
    BY <1>1, <2>1 DEF RedThroughout, GreenTypeOK
  <2>4. Answering(i)
    BY <2>3 DEF Answering, Red, Running
  <2>5. PICK q \in latest : q.workflow = runs[i].workflow /\ q.of >= i
    BY <1>1, <2>2, <2>4 DEF WalkInv, Taken
  <2>6. Right(q) /\ q.of \in DOMAIN runs /\ q.conclusion \in Conclusions
    BY <1>1 DEF WalkInv, GreenTypeOK
  <2>7. q.of = i
    <3>1. SUFFICES ASSUME q.of # i PROVE FALSE
      OBVIOUS
    <3>2. q.of \in Newer(i)
      BY <1>1, <2>3, <2>5, <2>6, <3>1 DEF Newer, Same, Right, GreenTypeOK
    <3>3. SilentThroughout(q.of)
      BY <2>3, <2>6, <3>2 DEF Right
    <3>4. q.of \in steady /\ runs[q.of].status = q.conclusion
      BY <2>6, <3>3 DEF SilentThroughout, Right
    <3>5. q.conclusion # Running
      BY <2>6 DEF Conclusions, Running
    <3>6. q.conclusion = "cancelled" /\ Newer(q.of) \cap steady # {}
      BY <3>3, <3>4, <3>5 DEF SilentThroughout
    <3>. QED
      BY <2>6, <3>4, <3>6 DEF Right
  <2>8. q.conclusion \in Red
    BY <2>3, <2>6, <2>7 DEF Right
  <2>9. i \in RedRuns
    BY <2>7, <2>8 DEF RedRuns
  <2>10. verdict # "none"
    BY <1>1, <2>1 DEF WalkInv, Said
  <2>. QED
    BY <1>1, <2>1, <2>9, <2>10 DEF WalkInv, Said
<1>. QED
  BY <1>1, GreenAlwaysTyped, AlwaysWalk, PTL

(* A cut is refused on a run only while it is its workflow's answer to the
   window: not on one a newer green run had answered for, nor on one cancelled
   because a newer run replaced it (github.go latestPerWorkflow). *)
THEOREM OnTheAnswer == GreenSpec => []RefusedOnTheAnswer
<1>1. ASSUME GreenTypeOK, WalkInv PROVE RefusedOnTheAnswer
  <2>1. SUFFICES ASSUME NEW i \in told
                 PROVE  /\ runs[i].inside
                        /\ ~\E j \in Newer(i) \cap steady : runs[j].inside /\ runs[j].status = "success"
                        /\ i \in steady /\ runs[i].status = "cancelled" => Newer(i) \cap steady = {}
    BY DEF RefusedOnTheAnswer
  <2>2. i \in RedRuns
    BY <1>1, <2>1 DEF WalkInv, Said
  <2>3. PICK q \in latest : q.of = i
    BY <2>2 DEF RedRuns
  <2>4. Right(q)
    BY <1>1 DEF WalkInv
  <2>5. \A j \in Newer(i) \cap steady : ~(runs[j].inside /\ runs[j].status = "success")
    BY <2>3, <2>4 DEF Right, Answering, Running
  <2>. QED
    BY <2>3, <2>4, <2>5 DEF Right
<1>. QED
  BY <1>1, GreenAlwaysTyped, AlwaysWalk, PTL

(* A cut nobody forced had a green run of the window to go by, and no release
   before it that went green and published nothing (greencut.go Check, scan). *)
THEOREM Unforced == GreenSpec => []UnforcedIsEarned
<1>1. ASSUME GreenTypeOK, WalkInv PROVE UnforcedIsEarned
  <2>1. SUFFICES ASSUME verdict = "cut", ~force
                 PROVE  /\ \E i \in DOMAIN runs : runs[i].inside /\ (i \in steady => runs[i].status = "success")
                        /\ settled => ~(release = "success" /\ ~published)
    BY DEF UnforcedIsEarned
  <2>2. latest # {} /\ ~Refuses
    BY <1>1, <2>1 DEF WalkInv, Said
  <2>3. PICK q \in latest : TRUE
    BY <2>2
  <2>4. Right(q) /\ q.of \in DOMAIN runs /\ q.conclusion \in Conclusions
    BY <1>1 DEF WalkInv, GreenTypeOK
  <2>5. q.conclusion = "success"
    BY <2>2, <2>4 DEF Refuses, RedRuns, Conclusions, Red
  <2>6. settled => ~(release = "success" /\ ~published)
    BY <1>1, <2>1, <2>2 DEF WalkInv, Noted, Refuses
  <2>. QED
    BY <2>4, <2>5, <2>6 DEF Right
<1>. QED
  BY <1>1, GreenAlwaysTyped, AlwaysWalk, PTL

=============================================================================
