------------------------------- MODULE Sandbox -------------------------------
(***************************************************************************)
(* The shared TMPDIR sandbox of internal/gates/tempdir.go: one directory   *)
(* per repository and user on a machine, which the runs of that            *)
(* repository's suite use in turn through an flock beside it               *)
(* (tempdir_flock.go, the lockable platforms).  The body around the claim  *)
(* is TempDir, the gate that runs the suite and judges what survives it.   *)
(*                                                                         *)
(* A run is one lateregate process.  Its suite is a child process tree,    *)
(* `child', which writes into the directory at the sandbox's path whatever *)
(* run made that directory; the lock's descriptor is close-on-exec, so a   *)
(* child never holds the lock.  Killing a run may leave its child running  *)
(* (OrphansOutlive): the gate starts it with exec.Command and nothing ties *)
(* its life to the run's.                                                  *)
(***************************************************************************)
EXTENDS Naturals, FiniteSets

CONSTANTS
  Runs,            \* the runs of one repository's suite by one user
  Entries,         \* names a suite may leave directly under TMPDIR
  Allowed,         \* the names tempdir.allow admits
  Pinned,          \* the names RemoveAll cannot delete (a read-only tree)
  OrphansOutlive   \* whether a killed run's suite may go on running

ASSUME SandboxAssumption ==
  /\ Allowed \subseteq Entries
  /\ Pinned \subseteq Entries
  /\ OrphansOutlive \in BOOLEAN

VARIABLES
  pc,         \* where each run is in TempDir
  child,      \* each run's suite process
  verdict,    \* what each run returned
  reported,   \* the survivors each run reported as leaked
  made,       \* the sandbox directory exists
  files,      \* its entries, each with the run whose suite left it
  touched,    \* the directory changed since the run read its time
  inode,      \* the file at the lock's path, 0 when there is none
  inodes,     \* lock files ever created
  fd,         \* the lock file each run has open, 0 when none
  flocks      \* the kernel's table: <<lock file, run>> holds the lock

vars == <<pc, child, verdict, reported, made, files, touched,
          inode, inodes, fd, flocks>>

lockVars == <<inode, inodes, fd, flocks>>
dirVars  == <<made, files, touched>>

(* Before the run has the lock, and from then until it gives it back.      *)
Queueing == {"try", "waiting"}
Holding  == {"locked", "emptied", "made", "testing", "releasing", "unlocking"}
Ended    == {"done", "killed"}
PCs      == {"idle"} \cup Queueing \cup Holding \cup Ended

Verdicts == {"none", "passed", "failed", "leaked", "unused", "error"}
Children == {"none", "running", "passed", "failed", "gone"}
File     == [name : Entries, by : Runs]

TypeOK ==
  /\ pc \in [Runs -> PCs]
  /\ child \in [Runs -> Children]
  /\ verdict \in [Runs -> Verdicts]
  /\ reported \in [Runs -> SUBSET File]
  /\ made \in BOOLEAN
  /\ files \subseteq File
  /\ touched \in [Runs -> BOOLEAN]
  /\ inode \in Nat
  /\ inodes \in Nat
  /\ fd \in [Runs -> Nat]
  /\ flocks \subseteq (Nat \X Runs)

Init ==
  /\ pc = [r \in Runs |-> "idle"]
  /\ child = [r \in Runs |-> "none"]
  /\ verdict = [r \in Runs |-> "none"]
  /\ reported = [r \in Runs |-> {}]
  /\ made = FALSE
  /\ files = {}
  /\ touched = [r \in Runs |-> FALSE]
  /\ inode = 0
  /\ inodes = 0
  /\ fd = [r \in Runs |-> 0]
  /\ flocks = {}

-----------------------------------------------------------------------------
(* claimSandbox and lockFile                                               *)

(* lockFile's OpenFile: O_CREATE makes the lock file when the path has none. *)
OpenLock(r) ==
  /\ pc[r] = "idle"
  /\ pc' = [pc EXCEPT ![r] = "try"]
  /\ inodes' = IF inode = 0 THEN inodes + 1 ELSE inodes
  /\ inode' = IF inode = 0 THEN inodes' ELSE inode
  /\ fd' = [fd EXCEPT ![r] = inode']
  /\ UNCHANGED <<child, verdict, reported, flocks, dirVars>>

Locked(i) == \E q \in Runs : <<i, q>> \in flocks

(* Mutation of TryLock: EWOULDBLOCK taken for success. *)
TryLockIgnoringBusy(r) ==
  /\ pc[r] = "try"
  /\ flocks' = flocks \cup {<<fd[r], r>>}
  /\ pc' = [pc EXCEPT ![r] = "locked"]
  /\ UNCHANGED <<child, verdict, reported, dirVars, inode, inodes, fd>>

(* LOCK_EX|LOCK_NB: the lock, or EWOULDBLOCK and the wait. *)
TryLock(r) ==
  /\ pc[r] = "try"
  /\ \/ /\ ~Locked(fd[r])
        /\ flocks' = flocks \cup {<<fd[r], r>>}
        /\ pc' = [pc EXCEPT ![r] = "locked"]
     \/ /\ Locked(fd[r])
        /\ pc' = [pc EXCEPT ![r] = "waiting"]
        /\ UNCHANGED flocks
  /\ UNCHANGED <<child, verdict, reported, dirVars, inode, inodes, fd>>

(* Mutation of WaitLock: a wait a signal interrupts counts as the lock. *)
WaitLockInterrupted(r) ==
  /\ pc[r] = "waiting"
  /\ flocks' = flocks \cup {<<fd[r], r>>}
  /\ pc' = [pc EXCEPT ![r] = "locked"]
  /\ UNCHANGED <<child, verdict, reported, dirVars, inode, inodes, fd>>

(* The blocking LOCK_EX, retried over EINTR, returns once the lock is free. *)
WaitLock(r) ==
  /\ pc[r] = "waiting"
  /\ ~Locked(fd[r])
  /\ flocks' = flocks \cup {<<fd[r], r>>}
  /\ pc' = [pc EXCEPT ![r] = "locked"]
  /\ UNCHANGED <<child, verdict, reported, dirVars, inode, inodes, fd>>

(* An open or an flock the kernel refuses: the descriptor is closed and the
   run ends with the error. *)
LockFails(r) ==
  /\ pc[r] \in {"idle"} \cup Queueing
  /\ pc' = [pc EXCEPT ![r] = "done"]
  /\ verdict' = [verdict EXCEPT ![r] = "error"]
  /\ fd' = [fd EXCEPT ![r] = 0]
  /\ UNCHANGED <<child, reported, dirVars, inode, inodes, flocks>>

Undeletable(fs) == {f \in fs : f.name \in Pinned}

(* The directory changed: every run that reads its time again sees a later
   one. *)
Touch == touched' = [r \in Runs |-> TRUE]

(* os.RemoveAll: everything goes but what cannot be deleted, and the directory
   with it unless something stays. *)
RemoveAll ==
  /\ files' = Undeletable(files)
  /\ made' = (files' # {})
  /\ Touch

(* Mutation of EmptySandbox: its error dropped and the directory reused. *)
EmptySandboxIgnoringErrors(r) ==
  /\ pc[r] = "locked"
  /\ RemoveAll
  /\ pc' = [pc EXCEPT ![r] = IF made' THEN "made" ELSE "emptied"]
  /\ UNCHANGED <<child, verdict, reported, lockVars>>

(* RemoveAll before the run: an error unlocks and refuses the run. *)
EmptySandbox(r) ==
  /\ pc[r] = "locked"
  /\ RemoveAll
  /\ IF made'
       THEN /\ pc' = [pc EXCEPT ![r] = "unlocking"]
            /\ verdict' = [verdict EXCEPT ![r] = "error"]
       ELSE /\ pc' = [pc EXCEPT ![r] = "emptied"]
            /\ UNCHANGED verdict
  /\ UNCHANGED <<child, reported, lockVars>>

(* os.Mkdir, which refuses a directory that is already there. *)
MakeSandbox(r) ==
  /\ pc[r] = "emptied"
  /\ IF made
       THEN /\ pc' = [pc EXCEPT ![r] = "unlocking"]
            /\ verdict' = [verdict EXCEPT ![r] = "error"]
            /\ UNCHANGED dirVars
       ELSE /\ pc' = [pc EXCEPT ![r] = "made"]
            /\ made' = TRUE
            /\ Touch
            /\ UNCHANGED <<verdict, files>>
  /\ UNCHANGED <<child, reported, lockVars>>

-----------------------------------------------------------------------------
(* TempDir around the claim                                                *)

(* touchedAt before the run, then the suite is started under TMPDIR.  A
   directory that is gone ends the run, its claim released. *)
StartSuite(r) ==
  /\ pc[r] = "made"
  /\ IF made
       THEN /\ pc' = [pc EXCEPT ![r] = "testing"]
            /\ touched' = [touched EXCEPT ![r] = FALSE]
            /\ child' = [child EXCEPT ![r] = "running"]
            /\ UNCHANGED verdict
       ELSE /\ pc' = [pc EXCEPT ![r] = "releasing"]
            /\ verdict' = [verdict EXCEPT ![r] = "error"]
            /\ UNCHANGED <<touched, child>>
  /\ UNCHANGED <<reported, made, files, lockVars>>

(* The suite exits, green or red. *)
SuiteExits(r) ==
  /\ child[r] = "running"
  /\ \E result \in {"passed", "failed"} : child' = [child EXCEPT ![r] = result]
  /\ UNCHANGED <<pc, verdict, reported, dirVars, lockVars>>

(* classify: the survivors the config does not admit. *)
Leaked == {f \in files : f.name \notin Allowed}

(* Mutation of Judgement: a red suite hides its leak. *)
JudgementSuiteFirst(r) ==
  IF ~made THEN "error"
  ELSE IF child[r] = "failed" THEN "failed"
  ELSE IF files = {} /\ ~touched[r] THEN "unused"
  ELSE IF Leaked # {} THEN "leaked"
  ELSE child[r]

(* touchedAt and ReadDir after the run, and the verdict: a directory that
   cannot be read, one nothing wrote to, a leak before the suite's own
   failure, and a pass. *)
Judgement(r) ==
  IF ~made THEN "error"
  ELSE IF files = {} /\ ~touched[r] THEN "unused"
  ELSE IF Leaked # {} THEN "leaked"
  ELSE child[r]

Judge(r) ==
  /\ pc[r] = "testing"
  /\ child[r] \in {"passed", "failed"}
  /\ pc' = [pc EXCEPT ![r] = "releasing"]
  /\ verdict' = [verdict EXCEPT ![r] = Judgement(r)]
  /\ reported' = [reported EXCEPT ![r] = IF Judgement(r) = "leaked" THEN Leaked ELSE {}]
  /\ UNCHANGED <<child, dirVars, lockVars>>

(* The deferred release: the directory removed, errors ignored... *)
ReleaseDir(r) ==
  /\ pc[r] = "releasing"
  /\ RemoveAll
  /\ pc' = [pc EXCEPT ![r] = "unlocking"]
  /\ UNCHANGED <<child, verdict, reported, lockVars>>

(* Mutation of Unlock: the lock file is removed with the lock. *)
UnlockRemovingFile(r) ==
  /\ pc[r] = "unlocking"
  /\ pc' = [pc EXCEPT ![r] = "done"]
  /\ flocks' = flocks \ {<<fd[r], r>>}
  /\ fd' = [fd EXCEPT ![r] = 0]
  /\ inode' = 0
  /\ UNCHANGED <<child, verdict, reported, dirVars, inodes>>

(* ...then the lock.  The lock file stays at its path. *)
Unlock(r) ==
  /\ pc[r] = "unlocking"
  /\ pc' = [pc EXCEPT ![r] = "done"]
  /\ flocks' = flocks \ {<<fd[r], r>>}
  /\ fd' = [fd EXCEPT ![r] = 0]
  /\ UNCHANGED <<child, verdict, reported, dirVars, inode, inodes>>

-----------------------------------------------------------------------------
(* The suite's processes, and what ends a run from outside                 *)

(* A test makes an entry under TMPDIR.  One that makes its whole path brings
   back a directory that is not there. *)
LeaveEntry(r) ==
  /\ child[r] = "running"
  /\ \E e \in Entries : files' = files \cup {[name |-> e, by |-> r]}
  /\ made' = TRUE
  /\ Touch
  /\ UNCHANGED <<pc, child, verdict, reported, lockVars>>

(* A test removes an entry it made, as t.TempDir's cleanup does; and the go
   command makes and removes its build directory. *)
RemoveEntry(r) ==
  /\ child[r] = "running"
  /\ made
  /\ \/ UNCHANGED files
     \/ \E f \in files : /\ f.by = r
                         /\ f.name \notin Pinned
                         /\ files' = files \ {f}
  /\ Touch
  /\ UNCHANGED <<pc, child, verdict, reported, made, lockVars>>

(* A test that removes os.TempDir() itself. *)
RemoveTempDir(r) ==
  /\ child[r] = "running"
  /\ RemoveAll
  /\ UNCHANGED <<pc, child, verdict, reported, lockVars>>

(* Mutation of Kill: a lock file that outlives its holder, as one whose
   existence is the lock does. *)
KillLeavingLock(r) ==
  /\ pc[r] \notin {"idle"} \cup Ended
  /\ pc' = [pc EXCEPT ![r] = "killed"]
  /\ child' = [child EXCEPT ![r] = IF child[r] = "running" THEN "gone" ELSE @]
  /\ UNCHANGED <<verdict, reported, dirVars, lockVars>>

(* SIGKILL: nothing deferred runs, the kernel closes the descriptor and drops
   the lock.  The suite dies with the run, or is left to itself. *)
Kill(r) ==
  /\ pc[r] \notin {"idle"} \cup Ended
  /\ pc' = [pc EXCEPT ![r] = "killed"]
  /\ flocks' = flocks \ {<<fd[r], r>>}
  /\ fd' = [fd EXCEPT ![r] = 0]
  /\ \/ /\ child[r] = "running"
        /\ child' = [child EXCEPT ![r] = "gone"]
     \/ /\ OrphansOutlive \/ child[r] # "running"
        /\ UNCHANGED child
  /\ UNCHANGED <<verdict, reported, dirVars, inode, inodes>>

-----------------------------------------------------------------------------
(* What a run does on its own once it has started. *)
Step(r) ==
  \/ TryLock(r) \/ WaitLock(r)
  \/ EmptySandbox(r) \/ MakeSandbox(r) \/ StartSuite(r)
  \/ SuiteExits(r) \/ Judge(r) \/ ReleaseDir(r) \/ Unlock(r)

Suite(r) == LeaveEntry(r) \/ RemoveEntry(r) \/ RemoveTempDir(r)

(* Every run has ended and no suite runs: the machine is quiet. *)
Quiet ==
  /\ \A r \in Runs : pc[r] \in Ended /\ child[r] # "running"
  /\ UNCHANGED vars

Next ==
  \/ \E r \in Runs : OpenLock(r) \/ LockFails(r) \/ Step(r) \/ Suite(r) \/ Kill(r)
  \/ Quiet

Spec == Init /\ [][Next]_vars

(* A started run keeps taking its steps and its suite ends: go test has a
   timeout of its own. *)
FairSpec == Spec /\ \A r \in Runs : WF_vars(Step(r))

-----------------------------------------------------------------------------
(* Properties                                                              *)

InUse == {"locked", "emptied", "made", "testing", "releasing"}

(* Two runs never empty, use or read the sandbox at once: claimSandbox's
   "they take turns through a lock beside the directory". *)
MutualExclusion ==
  \A q, r \in Runs : pc[q] \in InUse /\ pc[r] \in InUse => q = r

(* A run reports what its own suite left and nothing else: neither a run
   beside it nor one killed before it is its to report. *)
ReportsOnlyOwn == \A r \in Runs : \A f \in reported[r] : f.by = r

(* A suite starts over an empty directory, whatever the runs before it left
   and however they ended. *)
StartsEmpty ==
  [][\A r \in Runs : child[r] = "none" /\ child'[r] = "running" => files = {}]_vars

(* While a suite runs under a live run, only that suite takes its entries
   away: no other run's cleanup hides a leak before it is judged. *)
LeaksStayVisible ==
  [][\A r \in Runs :
       pc[r] = "testing" /\ (\E f \in files \ files' : f.by = r) => Suite(r)]_vars

(* A started run is never stuck behind one that was killed: it ends. *)
EveryRunEnds == \A r \in Runs : pc[r] = "try" ~> pc[r] \in Ended

(* The refinement: each run's private directory is what the shared one holds
   while that run's suite has it. *)
Open(r) == pc[r] = "testing"
Over(r) == pc[r] \in {"releasing", "unlocking"} \cup Ended

Private == INSTANCE PrivateSandbox WITH
  phase   <- [r \in Runs |-> IF Open(r) THEN "open" ELSE IF Over(r) THEN "over" ELSE "out"],
  content <- [r \in Runs |-> IF Open(r) THEN {f.name : f \in files} ELSE {}],
  present <- [r \in Runs |-> IF Open(r) THEN made ELSE FALSE],
  used    <- [r \in Runs |-> IF Open(r) THEN touched[r] ELSE FALSE],
  verdict <- verdict

(* Sharing one directory is invisible: every run is judged as if it had one of
   its own, which is what a platform without flock gives it. *)
AsIfPrivate == Private!Spec

=============================================================================
