---------------------------- MODULE SandboxProofs ----------------------------
(***************************************************************************)
(* Theorems about Sandbox for any set of runs and any entries: the typing, *)
(* the mutual exclusion of the claim, and, when a killed run's suite dies  *)
(* with it, that no run reports another's files and that the shared        *)
(* directory implements a private one (PrivateSandbox).                    *)
(***************************************************************************)
EXTENDS Sandbox, TLAPS

-----------------------------------------------------------------------------
(* Typing *)

(* Every variable keeps its type: what each action of Sandbox assigns. *)
THEOREM Typing == Spec => []TypeOK
<1>1. Init => TypeOK
  <2> SUFFICES ASSUME Init PROVE TypeOK
    OBVIOUS
  <2>1. made \in BOOLEAN /\ touched \in [Runs -> BOOLEAN]
    BY DEF Init
  <2>2. pc \in [Runs -> PCs] /\ child \in [Runs -> Children]
    BY DEF Init, PCs, Children
  <2>3. verdict \in [Runs -> Verdicts] /\ reported \in [Runs -> SUBSET File]
    BY DEF Init, Verdicts
  <2>. QED
    BY <2>1, <2>2, <2>3 DEF Init, TypeOK
<1>2. TypeOK /\ [Next]_vars => TypeOK'
  <2> SUFFICES ASSUME TypeOK, [Next]_vars PROVE TypeOK'
    OBVIOUS
  <2> USE DEF TypeOK, PCs, Queueing, Holding, Ended, dirVars, lockVars
  <2>1. ASSUME NEW r \in Runs, OpenLock(r) PROVE TypeOK'
    BY <2>1 DEF OpenLock
  <2>2. ASSUME NEW r \in Runs, LockFails(r) PROVE TypeOK'
    BY <2>2 DEF LockFails, Verdicts
  <2>3. ASSUME NEW r \in Runs, TryLock(r) PROVE TypeOK'
    BY <2>3 DEF TryLock
  <2>4. ASSUME NEW r \in Runs, WaitLock(r) PROVE TypeOK'
    BY <2>4 DEF WaitLock
  <2>5. ASSUME NEW r \in Runs, EmptySandbox(r) PROVE TypeOK'
    BY <2>5 DEF EmptySandbox, RemoveAll, Touch, Undeletable, Verdicts
  <2>6. ASSUME NEW r \in Runs, MakeSandbox(r) PROVE TypeOK'
    BY <2>6 DEF MakeSandbox, Touch, Verdicts
  <2>7. ASSUME NEW r \in Runs, StartSuite(r) PROVE TypeOK'
    BY <2>7 DEF StartSuite, Verdicts, Children
  <2>8. ASSUME NEW r \in Runs, SuiteExits(r) PROVE TypeOK'
    BY <2>8 DEF SuiteExits, Children
  <2>9. ASSUME NEW r \in Runs, Judge(r) PROVE TypeOK'
    <3>1. verdict' \in [Runs -> Verdicts]
      BY <2>9 DEF Judge, Judgement, Verdicts
    <3>2. reported' \in [Runs -> SUBSET File]
      BY <2>9 DEF Judge, Leaked
    <3>. QED
      BY <2>9, <3>1, <3>2 DEF Judge
  <2>10. ASSUME NEW r \in Runs, ReleaseDir(r) PROVE TypeOK'
    BY <2>10 DEF ReleaseDir, RemoveAll, Touch, Undeletable
  <2>11. ASSUME NEW r \in Runs, Unlock(r) PROVE TypeOK'
    BY <2>11 DEF Unlock
  <2>12. ASSUME NEW r \in Runs, LeaveEntry(r) PROVE TypeOK'
    BY <2>12 DEF LeaveEntry, Touch, File
  <2>13. ASSUME NEW r \in Runs, RemoveEntry(r) PROVE TypeOK'
    BY <2>13 DEF RemoveEntry, Touch
  <2>14. ASSUME NEW r \in Runs, RemoveTempDir(r) PROVE TypeOK'
    BY <2>14 DEF RemoveTempDir, RemoveAll, Touch, Undeletable
  <2>15. ASSUME NEW r \in Runs, Kill(r) PROVE TypeOK'
    BY <2>15 DEF Kill, Children
  <2>16. CASE UNCHANGED vars
    BY <2>16 DEF vars
  <2>. QED
    BY <2>1, <2>2, <2>3, <2>4, <2>5, <2>6, <2>7, <2>8, <2>9, <2>10, <2>11,
       <2>12, <2>13, <2>14, <2>15, <2>16 DEF Next, Step, Suite, Quiet
<1>. QED
  BY <1>1, <1>2, PTL DEF Spec

-----------------------------------------------------------------------------
(* Mutual exclusion *)

(* Why the lock excludes: the lock file stays, so every run that queues or
   holds has the same file open; a run that holds is in the kernel's table;
   and no two runs hold. *)
OneLockFile ==
  \A r \in Runs : pc[r] \in Queueing \cup Holding => fd[r] = inode /\ inode # 0
HoldersLocked == \A r \in Runs : pc[r] \in Holding => <<inode, r>> \in flocks
OneHolder == \A q, r \in Runs : pc[q] \in Holding /\ pc[r] \in Holding => q = r

LockInv == OneLockFile /\ HoldersLocked /\ OneHolder

(* Taking the lock keeps the invariant: a free lock means nobody holds. *)
LEMMA TakeLock ==
  ASSUME TypeOK, LockInv, NEW r \in Runs, pc[r] \in Queueing, ~Locked(fd[r]),
         flocks' = flocks \cup {<<fd[r], r>>},
         pc' = [pc EXCEPT ![r] = "locked"],
         UNCHANGED <<inode, fd>>
  PROVE  LockInv'
<1>1. \A q \in Runs : pc[q] \notin Holding
  BY DEF Locked, LockInv, OneLockFile, HoldersLocked
<1>. QED
  BY <1>1 DEF TypeOK, LockInv, OneLockFile, HoldersLocked, OneHolder, Queueing, Holding

(* Every step keeps it. *)
LEMMA LockStep == TypeOK /\ LockInv /\ [Next]_vars => LockInv'
<1> SUFFICES ASSUME TypeOK, LockInv, [Next]_vars PROVE LockInv'
  OBVIOUS
<1> USE DEF TypeOK, dirVars, lockVars, LockInv, OneLockFile, HoldersLocked,
            OneHolder, Queueing, Holding, Ended
<1>1. ASSUME NEW r \in Runs, OpenLock(r) PROVE LockInv'
  BY <1>1 DEF OpenLock
<1>2. ASSUME NEW r \in Runs, LockFails(r) PROVE LockInv'
  BY <1>2 DEF LockFails
<1>3. ASSUME NEW r \in Runs, TryLock(r) PROVE LockInv'
  <2>1. CASE ~Locked(fd[r])
    BY <1>3, <2>1, TakeLock DEF TryLock
  <2>2. CASE Locked(fd[r])
    BY <1>3, <2>2 DEF TryLock
  <2>. QED
    BY <2>1, <2>2
<1>4. ASSUME NEW r \in Runs, WaitLock(r) PROVE LockInv'
  BY <1>4, TakeLock DEF WaitLock
<1>5. ASSUME NEW r \in Runs, EmptySandbox(r) PROVE LockInv'
  BY <1>5 DEF EmptySandbox
<1>6. ASSUME NEW r \in Runs, MakeSandbox(r) PROVE LockInv'
  BY <1>6 DEF MakeSandbox
<1>7. ASSUME NEW r \in Runs, StartSuite(r) PROVE LockInv'
  BY <1>7 DEF StartSuite
<1>8. ASSUME NEW r \in Runs, SuiteExits(r) PROVE LockInv'
  BY <1>8 DEF SuiteExits
<1>9. ASSUME NEW r \in Runs, Judge(r) PROVE LockInv'
  BY <1>9 DEF Judge
<1>10. ASSUME NEW r \in Runs, ReleaseDir(r) PROVE LockInv'
  BY <1>10 DEF ReleaseDir
<1>11. ASSUME NEW r \in Runs, Unlock(r) PROVE LockInv'
  BY <1>11 DEF Unlock
<1>12. ASSUME NEW r \in Runs, Suite(r) PROVE LockInv'
  BY <1>12 DEF Suite, LeaveEntry, RemoveEntry, RemoveTempDir
<1>13. ASSUME NEW r \in Runs, Kill(r) PROVE LockInv'
  BY <1>13 DEF Kill
<1>14. CASE UNCHANGED vars
  BY <1>14 DEF vars
<1>. QED
  BY <1>1, <1>2, <1>3, <1>4, <1>5, <1>6, <1>7, <1>8, <1>9, <1>10, <1>11,
     <1>12, <1>13, <1>14 DEF Next, Step, Quiet

(* Two runs of a repository never have the sandbox at once, whichever of them
   are killed and whatever their orphans do: claimSandbox's taking of turns. *)
THEOREM Exclusion == Spec => []MutualExclusion
<1>1. Init => LockInv
  BY DEF Init, LockInv, OneLockFile, HoldersLocked, OneHolder, Queueing, Holding
<1>2. LockInv => MutualExclusion
  BY DEF LockInv, OneHolder, MutualExclusion, InUse, Holding
<1>. QED
  BY <1>1, <1>2, LockStep, Typing, PTL DEF Spec

-----------------------------------------------------------------------------
(* Isolation, when a killed run's suite dies with it *)

(* Why the files are the run's own: a suite runs only under the run that has
   the directory, which was emptied and made anew for it. *)
SuiteUnderRun == \A r \in Runs : child[r] = "running" => pc[r] = "testing"
EmptiedFirst ==
  \A r \in Runs : /\ pc[r] = "emptied" => files = {} /\ ~made
                  /\ pc[r] = "made" => files = {} /\ made
OwnFiles == \A r \in Runs : pc[r] = "testing" => \A f \in files : f.by = r

OwnInv == SuiteUnderRun /\ EmptiedFirst /\ OwnFiles /\ ReportsOnlyOwn

(* Every step keeps it. *)
LEMMA OwnStep ==
  ASSUME ~OrphansOutlive
  PROVE  TypeOK /\ LockInv /\ OwnInv /\ [Next]_vars => OwnInv'
<1> SUFFICES ASSUME TypeOK, LockInv, OwnInv, [Next]_vars PROVE OwnInv'
  OBVIOUS
<1> USE DEF OwnInv, SuiteUnderRun, EmptiedFirst, OwnFiles, ReportsOnlyOwn,
            dirVars, lockVars
<1>0. \A q, r \in Runs : pc[q] \in Holding /\ pc[r] \in Holding => q = r
  BY DEF LockInv, OneHolder
<1>1. ASSUME NEW r \in Runs, OpenLock(r) PROVE OwnInv'
  BY <1>1 DEF OpenLock, TypeOK
<1>2. ASSUME NEW r \in Runs, LockFails(r) PROVE OwnInv'
  BY <1>2 DEF LockFails, TypeOK, Queueing
<1>3. ASSUME NEW r \in Runs, TryLock(r) \/ WaitLock(r) PROVE OwnInv'
  BY <1>3 DEF TryLock, WaitLock, TypeOK
<1>4. ASSUME NEW r \in Runs, EmptySandbox(r) PROVE OwnInv'
  <2>1. \A q \in Runs : q # r => pc[q] \notin Holding
    BY <1>4, <1>0 DEF EmptySandbox, Holding
  <2>. QED
    BY <1>4, <2>1 DEF EmptySandbox, RemoveAll, Undeletable, TypeOK, Holding
<1>5. ASSUME NEW r \in Runs, MakeSandbox(r) PROVE OwnInv'
  <2>1. \A q \in Runs : q # r => pc[q] \notin Holding
    BY <1>5, <1>0 DEF MakeSandbox, Holding
  <2>. QED
    BY <1>5, <2>1 DEF MakeSandbox, TypeOK, Holding
<1>6. ASSUME NEW r \in Runs, StartSuite(r) PROVE OwnInv'
  BY <1>6 DEF StartSuite, TypeOK
<1>7. ASSUME NEW r \in Runs, SuiteExits(r) PROVE OwnInv'
  BY <1>7 DEF SuiteExits, TypeOK
<1>8. ASSUME NEW r \in Runs, Judge(r) PROVE OwnInv'
  BY <1>8 DEF Judge, Leaked, TypeOK
<1>9. ASSUME NEW r \in Runs, ReleaseDir(r) PROVE OwnInv'
  <2>1. \A q \in Runs : q # r => pc[q] \notin Holding
    BY <1>9, <1>0 DEF ReleaseDir, Holding
  <2>. QED
    BY <1>9, <2>1 DEF ReleaseDir, TypeOK, Holding
<1>10. ASSUME NEW r \in Runs, Unlock(r) PROVE OwnInv'
  BY <1>10 DEF Unlock, TypeOK
<1>11. ASSUME NEW r \in Runs, Suite(r) PROVE OwnInv'
  <2>1. pc[r] = "testing"
    BY <1>11 DEF Suite, LeaveEntry, RemoveEntry, RemoveTempDir
  <2>2. \A q \in Runs : q # r => pc[q] \notin Holding
    BY <2>1, <1>0 DEF Holding
  <2>3. \A f \in files' : f.by = r
    BY <1>11, <2>1 DEF Suite, LeaveEntry, RemoveEntry, RemoveTempDir,
                       RemoveAll, Undeletable
  <2>4. UNCHANGED <<pc, child, reported>>
    BY <1>11 DEF Suite, LeaveEntry, RemoveEntry, RemoveTempDir
  <2>. QED
    BY <2>1, <2>2, <2>3, <2>4 DEF Holding
<1>12. ASSUME NEW r \in Runs, Kill(r) PROVE OwnInv'
  BY <1>12 DEF Kill, TypeOK
<1>13. CASE UNCHANGED vars
  BY <1>13 DEF vars
<1>. QED
  BY <1>1, <1>2, <1>3, <1>4, <1>5, <1>6, <1>7, <1>8, <1>9, <1>10, <1>11,
     <1>12, <1>13 DEF Next, Step, Quiet

LEMMA InitInv == Init => LockInv /\ OwnInv
BY DEF Init, LockInv, OneLockFile, HoldersLocked, OneHolder, Queueing, Holding,
       OwnInv, SuiteUnderRun, EmptiedFirst, OwnFiles, ReportsOnlyOwn

(* No run reports an entry another run's suite left: what a killed run left is
   emptied first and a run beside it waits. *)
THEOREM Isolation ==
  ASSUME ~OrphansOutlive
  PROVE  Spec => []ReportsOnlyOwn
<1>1. OwnInv => ReportsOnlyOwn
  BY DEF OwnInv
<1>. QED
  BY <1>1, InitInv, LockStep, OwnStep, Typing, PTL DEF Spec

(* A suite starts over a directory with nothing in it: emptied and made anew by
   its own run, under the lock no other run has. *)
THEOREM Emptiness ==
  ASSUME ~OrphansOutlive
  PROVE  Spec => StartsEmpty
<1>1. ASSUME TypeOK, OwnInv, [Next]_vars,
             NEW r \in Runs, child[r] = "none", child'[r] = "running"
      PROVE  files = {}
  <2>1. StartSuite(r)
    BY <1>1 DEF Next, Step, Suite, Quiet, TypeOK, vars, OpenLock, LockFails, TryLock,
       WaitLock, EmptySandbox, MakeSandbox, StartSuite, SuiteExits, Judge, ReleaseDir,
       Unlock, LeaveEntry, RemoveEntry, RemoveTempDir, Kill
  <2>. QED
    BY <2>1, <1>1 DEF StartSuite, OwnInv, EmptiedFirst
<1>2. TypeOK /\ OwnInv /\ [Next]_vars =>
        [\A r \in Runs : child[r] = "none" /\ child'[r] = "running" => files = {}]_vars
  BY <1>1
<1>. QED
  BY <1>2, InitInv, LockStep, OwnStep, Typing, PTL DEF Spec, StartsEmpty

(* No entry of a suite that runs goes before it is judged but by that suite's
   own hand: the other runs that empty the directory are not in it, and the
   suite of another that could remove it does not run. *)
THEOREM Visibility ==
  ASSUME ~OrphansOutlive
  PROVE  Spec => LeaksStayVisible
<1>1. ASSUME TypeOK, LockInv, OwnInv, [Next]_vars,
             NEW r \in Runs, pc[r] = "testing", NEW f \in files \ files', f.by = r
      PROVE  Suite(r)
  <2>1. \A q \in Runs : pc[q] \in Holding => q = r
    BY <1>1 DEF LockInv, OneHolder, Holding
  <2>2. ~UNCHANGED files
    BY <1>1
  <2>3. PICK q \in Runs : EmptySandbox(q) \/ ReleaseDir(q) \/ Suite(q)
    BY <1>1, <2>2 DEF Next, Step, Quiet, vars, dirVars, OpenLock, LockFails, TryLock,
       WaitLock, MakeSandbox, StartSuite, SuiteExits, Judge, Unlock, Kill
  <2>4. CASE EmptySandbox(q) \/ ReleaseDir(q)
    BY <2>1, <2>4, <1>1 DEF EmptySandbox, ReleaseDir, Holding
  <2>5. CASE Suite(q)
    <3>1. child[q] = "running"
      BY <2>5 DEF Suite, LeaveEntry, RemoveEntry, RemoveTempDir
    <3>. QED
      BY <3>1, <2>1, <2>5, <1>1 DEF OwnInv, SuiteUnderRun, Holding
  <2>. QED
    BY <2>3, <2>4, <2>5
<1>2. TypeOK /\ LockInv /\ OwnInv /\ [Next]_vars =>
        [\A r \in Runs :
           pc[r] = "testing" /\ (\E f \in files \ files' : f.by = r) => Suite(r)]_vars
  BY <1>1
<1>. QED
  BY <1>2, InitInv, LockStep, OwnStep, Typing, PTL DEF Spec, LeaksStayVisible

-----------------------------------------------------------------------------
(* The shared directory implements a private one *)

Names == {f.name : f \in files}

(* Where a run is, what its directory holds and what it saw, as the
   refinement mapping of Sandbox gives them to PrivateSandbox. *)
Phase == [r \in Runs |-> IF Open(r) THEN "open" ELSE IF Over(r) THEN "over" ELSE "out"]
Content == [r \in Runs |-> IF Open(r) THEN Names ELSE {}]
Present == [r \in Runs |-> IF Open(r) THEN made ELSE FALSE]
Used    == [r \in Runs |-> IF Open(r) THEN touched[r] ELSE FALSE]

(* Only run r moves in the abstraction. *)
Others(r) == \A q \in Runs : q # r => /\ Phase'[q] = Phase[q]
                                     /\ Content'[q] = Content[q]
                                     /\ Present'[q] = Present[q]
                                     /\ Used'[q] = Used[q]

(* The other runs' phases follow from their pc, and one that is not open has
   nothing to change. *)
LEMMA OnlyTheMover ==
  ASSUME TypeOK, NEW r \in Runs, \A q \in Runs : q # r => pc'[q] = pc[q],
         \A q \in Runs : q # r => ~Open(q) \/ UNCHANGED <<files, made, touched[q]>>
  PROVE  Others(r)
<1> SUFFICES ASSUME NEW q \in Runs, q # r
             PROVE  /\ Phase'[q] = Phase[q]
                    /\ Content'[q] = Content[q]
                    /\ Present'[q] = Present[q]
                    /\ Used'[q] = Used[q]
  BY DEF Others
<1>1. pc'[q] = pc[q] /\ Open(q)' = Open(q) /\ Over(q)' = Over(q)
  BY DEF Open, Over
<1>2. Phase'[q] = Phase[q]
  BY <1>1 DEF Phase, Open, Over
<1>3. CASE ~Open(q)
  BY <1>1, <1>2, <1>3 DEF Content, Present, Used
<1>4. CASE UNCHANGED <<files, made, touched[q]>>
  BY <1>1, <1>2, <1>4 DEF Content, Present, Used, Names
<1>. QED
  BY <1>3, <1>4

(* A step in which the mover's phase stays and it is not open is not seen. *)
LEMMA Stutter ==
  ASSUME NEW r \in Runs, Others(r), Phase'[r] = Phase[r],
         ~Open(r), ~Open(r)', verdict' = verdict
  PROVE  UNCHANGED Private!vars
<1>1. Content'[r] = Content[r] /\ Present'[r] = Present[r] /\ Used'[r] = Used[r]
  BY DEF Content, Present, Used
<1>2. Phase' = Phase /\ Content' = Content /\ Present' = Present /\ Used' = Used
  BY <1>1 DEF Phase, Content, Present, Used, Others
<1>. QED
  BY <1>2 DEF Private!vars, Phase, Content, Present, Used, Names

(* A run whose phase becomes over drops what it had. *)
LEMMA Shutting ==
  ASSUME NEW r \in Runs, Others(r), Phase'[r] = "over", ~Open(r)'
  PROVE  Private!Shut(r)
<1>1. Content'[r] = {} /\ Present'[r] = FALSE /\ Used'[r] = FALSE
  BY DEF Content, Present, Used
<1>2. /\ Phase' = [Phase EXCEPT ![r] = "over"]
      /\ Content' = [Content EXCEPT ![r] = {}]
      /\ Present' = [Present EXCEPT ![r] = FALSE]
      /\ Used' = [Used EXCEPT ![r] = FALSE]
  BY <1>1 DEF Phase, Content, Present, Used, Others
<1>. QED
  BY <1>2 DEF Private!Shut, Phase, Content, Present, Used, Names

(* What an open run's suite does to the shared directory it does to the run's
   private one: no other entry is there to be confused with its own. *)
LEMMA Changing ==
  ASSUME TypeOK, LockInv, OwnInv, NEW r \in Runs, Open(r), Suite(r)
  PROVE  Private!Change(r)
<1>1. Open(r)' /\ pc' = pc /\ verdict' = verdict /\ \A f \in files : f.by = r
  BY DEF Suite, LeaveEntry, RemoveEntry, RemoveTempDir, Open, OwnInv, OwnFiles
<1>2. \A q \in Runs : q # r => ~Open(q)
  BY DEF LockInv, OneHolder, Open, Holding
<1>3. Others(r)
  BY <1>1, <1>2, OnlyTheMover
<1>4. Phase' = Phase /\ Phase[r] = "open"
  BY <1>1 DEF Phase, Open, Over
<1>5. Used' = [Used EXCEPT ![r] = TRUE]
  <2>1. Used'[r] = TRUE
    BY <1>1 DEF Suite, LeaveEntry, RemoveEntry, RemoveTempDir, RemoveAll, Touch, Used
  <2>. QED
    BY <2>1, <1>3 DEF Used, Others
<1>6. Content[r] = Names /\ Content'[r] = Names' /\ Present[r] = made /\ Present'[r] = made'
  BY <1>1 DEF Content, Present
<1>7. CASE LeaveEntry(r)
  <2>1. PICK e \in Entries : files' = files \cup {[name |-> e, by |-> r]}
    BY <1>7 DEF LeaveEntry
  <2>2. Names' = Names \cup {e}
    <3> DEFINE new == [name |-> e, by |-> r]
    <3>1. files' = files \cup {new} /\ new.name = e
      BY <2>1
    <3> HIDE DEF new
    <3>. QED
      BY <3>1 DEF Names
  <2>3. /\ Content' = [Content EXCEPT ![r] = Content[r] \cup {e}]
        /\ Present' = [Present EXCEPT ![r] = TRUE]
    BY <1>3, <1>6, <1>7, <2>2 DEF LeaveEntry, Content, Present, Others
  <2>. QED
    BY <1>1, <1>4, <1>5, <2>3
    DEF Private!Change, Phase, Content, Present, Used, Names
<1>8. CASE RemoveEntry(r)
  <2>1. PICK gone \in SUBSET (Names \ Pinned) : Names' = Names \ gone
    <3>1. CASE UNCHANGED files
      BY <3>1 DEF Names
    <3>2. ASSUME NEW f \in files, f.by = r, f.name \notin Pinned, files' = files \ {f}
          PROVE  \E gone \in SUBSET (Names \ Pinned) : Names' = Names \ gone
      <4>1. \A g \in files : g.name = f.name => g = f
        BY <1>1, <3>2 DEF TypeOK, File
      <4>2. Names' = Names \ {f.name}
        BY <3>2, <4>1 DEF Names
      <4>3. {f.name} \in SUBSET (Names \ Pinned)
        BY <3>2 DEF Names
      <4>. QED
        BY <4>2, <4>3
    <3>. QED
      BY <1>8, <3>1, <3>2 DEF RemoveEntry
  <2>2. /\ Content' = [Content EXCEPT ![r] = Content[r] \ gone]
        /\ Present' = Present
    BY <1>3, <1>6, <1>8, <2>1 DEF RemoveEntry, Content, Present, Others
  <2>3. Present[r]
    BY <1>6, <1>8 DEF RemoveEntry
  <2>. QED
    BY <1>1, <1>4, <1>5, <1>6, <2>1, <2>2, <2>3
    DEF Private!Change, Phase, Content, Present, Used, Names
<1>9. CASE RemoveTempDir(r)
  <2>1. Names' = Names \cap Pinned /\ made' = (Names' # {})
    BY <1>9 DEF RemoveTempDir, RemoveAll, Undeletable, Names
  <2>2. /\ Content' = [Content EXCEPT ![r] = Content[r] \cap Pinned]
        /\ Present' = [Present EXCEPT ![r] = Content'[r] # {}]
    BY <1>3, <1>6, <2>1 DEF Content, Present, Others
  <2>. QED
    BY <1>1, <1>4, <1>5, <2>2
    DEF Private!Change, Phase, Content, Present, Used, Names
<1>. QED
  BY <1>7, <1>8, <1>9 DEF Suite

(* Every step is a step of the private sandbox or is not seen there. *)
LEMMA ImplementsStep ==
  ASSUME ~OrphansOutlive
  PROVE  TypeOK /\ LockInv /\ OwnInv /\ [Next]_vars => [Private!Next]_(Private!vars)
<1> SUFFICES ASSUME TypeOK, LockInv, OwnInv, [Next]_vars
             PROVE  Private!Next \/ UNCHANGED Private!vars
  OBVIOUS
<1> USE DEF dirVars, lockVars
<1>0. \A q, r \in Runs : pc[q] \in Holding /\ pc[r] \in Holding => q = r
  BY DEF LockInv, OneHolder
<1>1. ASSUME NEW r \in Runs, OpenLock(r) \/ TryLock(r) \/ WaitLock(r)
      PROVE  UNCHANGED Private!vars
  <2>1. /\ ~Open(r) /\ ~Open(r)' /\ verdict' = verdict
        /\ \A q \in Runs : q # r => pc'[q] = pc[q]
        /\ UNCHANGED <<files, made, touched>>
    BY <1>1 DEF OpenLock, TryLock, WaitLock, Open, TypeOK
  <2>2. Phase'[r] = Phase[r]
    BY <1>1 DEF OpenLock, TryLock, WaitLock, TypeOK, Phase, Open, Over, Ended
  <2>. QED
    BY <2>1, <2>2, OnlyTheMover, Stutter
<1>2. ASSUME NEW r \in Runs, LockFails(r) PROVE Private!Refuse(r)
  <2>1. /\ ~Open(r)' /\ verdict' = [verdict EXCEPT ![r] = "error"]
        /\ \A q \in Runs : q # r => pc'[q] = pc[q]
        /\ UNCHANGED <<files, made, touched>>
    BY <1>2 DEF LockFails, Open, TypeOK
  <2>2. Phase[r] = "out" /\ Phase'[r] = "over"
    BY <1>2 DEF LockFails, TypeOK, Phase, Open, Over, Ended, Queueing
  <2>3. Private!Shut(r)
    BY <2>1, <2>2, OnlyTheMover, Shutting
  <2>. QED
    BY <2>1, <2>2, <2>3 DEF Private!Refuse, Phase
<1>3. ASSUME NEW r \in Runs, EmptySandbox(r) \/ MakeSandbox(r)
      PROVE  Private!Refuse(r) \/ UNCHANGED Private!vars
  <2>1. /\ ~Open(r) /\ ~Open(r)' /\ pc[r] \in Holding
        /\ \A q \in Runs : q # r => pc'[q] = pc[q]
    BY <1>3 DEF EmptySandbox, MakeSandbox, Open, TypeOK, Holding
  <2>2. \A q \in Runs : q # r => ~Open(q)
    BY <1>0, <2>1 DEF Open, Holding
  <2>3. Others(r)
    BY <2>1, <2>2, OnlyTheMover
  <2>4. Phase[r] = "out"
    BY <1>3 DEF EmptySandbox, MakeSandbox, Phase, Open, Over, Ended
  <2>5. CASE pc'[r] = "unlocking"
    <3>1. Phase'[r] = "over" /\ verdict' = [verdict EXCEPT ![r] = "error"]
      BY <1>3, <2>5 DEF EmptySandbox, MakeSandbox, TypeOK, Phase, Open, Over
    <3>2. Private!Shut(r)
      BY <2>1, <2>3, <3>1, Shutting
    <3>. QED
      BY <2>4, <3>1, <3>2 DEF Private!Refuse, Phase
  <2>6. CASE pc'[r] # "unlocking"
    <3>1. Phase'[r] = "out" /\ verdict' = verdict
      BY <1>3, <2>6 DEF EmptySandbox, MakeSandbox, TypeOK, Phase, Open, Over, Ended
    <3>. QED
      BY <2>1, <2>3, <2>4, <3>1, Stutter
  <2>. QED
    BY <2>5, <2>6
<1>4. ASSUME NEW r \in Runs, StartSuite(r) PROVE Private!Start(r)
  <2>1. /\ made /\ files = {} /\ ~Open(r) /\ Open(r)' /\ pc[r] \in Holding
        /\ \A q \in Runs : q # r => pc'[q] = pc[q]
        /\ verdict' = verdict /\ made' = made /\ files' = files /\ touched'[r] = FALSE
    BY <1>4 DEF StartSuite, Open, TypeOK, Holding, OwnInv, EmptiedFirst
  <2>2. \A q \in Runs : q # r => ~Open(q)
    BY <1>0, <2>1 DEF Open, Holding
  <2>3. Others(r)
    BY <2>1, <2>2, OnlyTheMover
  <2>4. Phase[r] = "out" /\ Phase'[r] = "open"
    BY <1>4, <2>1 DEF StartSuite, Phase, Open, Over, Ended
  <2>5. Content'[r] = Content[r] /\ Present'[r] = TRUE /\ Used'[r] = Used[r]
    BY <2>1 DEF Content, Present, Used, Names
  <2>6. /\ Phase' = [Phase EXCEPT ![r] = "open"] /\ Content' = Content
        /\ Present' = [Present EXCEPT ![r] = TRUE] /\ Used' = Used
    BY <2>3, <2>4, <2>5 DEF Others, Phase, Content, Present, Used
  <2>. QED
    BY <2>1, <2>4, <2>6 DEF Private!Start, Phase, Content, Present, Used, Names
<1>5. ASSUME NEW r \in Runs, SuiteExits(r) PROVE UNCHANGED Private!vars
  BY <1>5 DEF SuiteExits, Private!vars, Open, Over
<1>6. ASSUME NEW r \in Runs, Judge(r) PROVE Private!Judge(r)
  <2>1. /\ Open(r) /\ ~Open(r)' /\ child[r] \in {"passed", "failed"}
        /\ \A q \in Runs : q # r => pc'[q] = pc[q]
        /\ UNCHANGED <<files, made, touched>>
    BY <1>6 DEF Judge, Open, TypeOK
  <2>2. Phase[r] = "open" /\ Phase'[r] = "over"
    BY <1>6 DEF Judge, TypeOK, Phase, Open, Over
  <2>3. Private!Shut(r)
    BY <2>1, <2>2, OnlyTheMover, Shutting
  <2>4. Content[r] = Names /\ Present[r] = made /\ Used[r] = touched[r]
    BY <2>1 DEF Content, Present, Used
  <2>5. (files = {} <=> Names = {}) /\ (Leaked # {} <=> Names \ Allowed # {})
    BY DEF Names, Leaked
  <2>6. Judgement(r) = IF ~Present[r] THEN "error"
                       ELSE IF Content[r] = {} /\ ~Used[r] THEN "unused"
                       ELSE IF Content[r] \ Allowed # {} THEN "leaked"
                       ELSE child[r]
    BY <2>4, <2>5 DEF Judgement
  <2>7. verdict' = [verdict EXCEPT ![r] = Judgement(r)]
    BY <1>6 DEF Judge
  <2>. QED
    BY <2>1, <2>2, <2>3, <2>6, <2>7
    DEF Private!Judge, Phase, Content, Present, Used, Names
<1>7. ASSUME NEW r \in Runs, ReleaseDir(r) \/ Unlock(r)
      PROVE  UNCHANGED Private!vars
  <2>1. /\ ~Open(r) /\ ~Open(r)' /\ pc[r] \in Holding /\ verdict' = verdict
        /\ \A q \in Runs : q # r => pc'[q] = pc[q]
    BY <1>7 DEF ReleaseDir, Unlock, Open, TypeOK, Holding
  <2>2. \A q \in Runs : q # r => ~Open(q)
    BY <1>0, <2>1 DEF Open, Holding
  <2>3. Phase'[r] = Phase[r]
    BY <1>7 DEF ReleaseDir, Unlock, TypeOK, Phase, Open, Over, Ended
  <2>. QED
    BY <2>1, <2>2, <2>3, OnlyTheMover, Stutter
<1>8. ASSUME NEW r \in Runs, Suite(r) PROVE Private!Change(r)
  <2>1. Open(r)
    BY <1>8 DEF Suite, LeaveEntry, RemoveEntry, RemoveTempDir, Open, OwnInv, SuiteUnderRun
  <2>. QED
    BY <1>8, <2>1, Changing
<1>9. ASSUME NEW r \in Runs, Kill(r) PROVE Private!Kill(r) \/ UNCHANGED Private!vars
  <2>1. /\ ~Open(r)' /\ verdict' = verdict
        /\ \A q \in Runs : q # r => pc'[q] = pc[q]
        /\ UNCHANGED <<files, made, touched>>
    BY <1>9 DEF Kill, Open, TypeOK
  <2>2. Phase'[r] = "over"
    BY <1>9 DEF Kill, TypeOK, Phase, Open, Over, Ended
  <2>3. CASE Phase[r] = "over"
    <3>1. ~Open(r)
      BY <2>3 DEF Phase
    <3>. QED
      BY <2>1, <2>2, <2>3, <3>1, OnlyTheMover, Stutter
  <2>4. CASE Phase[r] # "over"
    <3>1. Private!Shut(r)
      BY <2>1, <2>2, OnlyTheMover, Shutting
    <3>. QED
      BY <2>1, <2>4, <3>1 DEF Private!Kill, Phase
  <2>. QED
    BY <2>3, <2>4
<1>10. CASE UNCHANGED vars
  BY <1>10 DEF vars, Private!vars, Open, Over
<1>. QED
  BY <1>1, <1>2, <1>3, <1>4, <1>5, <1>6, <1>7, <1>8, <1>9, <1>10
  DEF Next, Step, Quiet, Private!Next

(* When suites do not outlive their runs, the shared sandbox implements a private
   one, and every run's verdict is the one it would have had alone.  The code
   does not make that so (gates.go OSExec ties a suite's life to nothing), and
   where a killed run's suite goes on, the next run may report what it wrote. *)
THEOREM Implements ==
  ASSUME ~OrphansOutlive
  PROVE  Spec => AsIfPrivate
<1>1. Init => Private!Init
  <2> SUFFICES ASSUME Init PROVE Private!Init
    OBVIOUS
  <2>1. \A r \in Runs : ~Open(r) /\ ~Over(r)
    BY DEF Init, Open, Over, Ended
  <2>. QED
    BY <2>1 DEF Init, Private!Init
<1>. QED
  BY <1>1, InitInv, LockStep, OwnStep, ImplementsStep, Typing, PTL
  DEF Spec, AsIfPrivate, Private!Spec

=============================================================================
