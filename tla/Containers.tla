------------------------------ MODULE Containers ------------------------------
(***************************************************************************)
(* The container engine a machine's test runs share, and the three who     *)
(* take containers off it: reap.Sweep, which a test helper calls before it *)
(* starts a container; the sweep that opens a suite (watchContainers); and *)
(* the check of what the run left, after go test has exited (leftovers).   *)
(* All three are remove of internal/containers/owner.go, one request at a  *)
(* time, against an engine the others are changing.                        *)
(*                                                                         *)
(* A label is a value, written when the container is made: pid@host of the *)
(* process that made it, and the gate run it belongs to.  A pid is reused  *)
(* once its process has exited.  A gate here is a run of the containers    *)
(* gate (gates/containers.go Containers), whose body Suite wraps.          *)
(***************************************************************************)
EXTENDS Naturals, FiniteSets

CONSTANTS
  Hosts,      \* the machines that reach this engine, each with its pids
  Procs,      \* test processes, an incarnation each
  Pids,       \* process numbers of one host
  Gates,      \* runs of the gate
  Sweepers,   \* test helpers that call reap.Sweep, time and again
  HostOf,     \* where each process, gate and sweeper runs
  GateOf,     \* the gate a test process runs under, NoRun for a bare go test
  Ctrs, Nets, \* container and network ids, each made at most once
  MaxFaults,  \* bound: requests the engine fails or loses the answer of
  NoRun, Nobody

Removers == Gates \cup Sweepers

ASSUME ContainersAssumption ==
  /\ HostOf \in [Procs \cup Removers -> Hosts]
  /\ GateOf \in [Procs -> Gates \cup {NoRun}]
  /\ MaxFaults \in Nat
  /\ Pids # {}
  /\ NoRun \notin Gates
  /\ Nobody \notin Procs
  /\ Ctrs \cap Nets = {}

VARIABLES
  alive,      \* test processes: "new", "live" or "dead"
  pid,        \* the number each was given when it started
  state,      \* containers and networks: "none", "up", "removing", "gone"
  owner,      \* the process that made each, whose pid@host is its label
  run,        \* the run label, NoRun when it carries none
  labelled,   \* the ones made with reap.Labels()
  nets,       \* the networks each container is attached to
  phase,      \* where each remover is in its own work
  step,       \* where it is in remove
  todo,       \* what is left of the list it is walking
  current,    \* the container whose removal it awaits
  failed,     \* whether a request of this remove failed
  took,       \* Removed: what this remove took off the engine
  watched,    \* the gates that have a containerWatch
  faults

procVars   == <<alive, pid>>
engineVars == <<state, owner, run, labelled, nets>>
walkVars   == <<step, todo, current, failed, took>>
vars == <<procVars, engineVars, walkVars, phase, watched, faults>>

Things == Ctrs \cup Nets
States == {"none", "up", "removing", "gone"}
GatePhases == {"idle", "sweep", "test", "check", "passed", "failed", "killed"}

TypeOK ==
  /\ alive \in [Procs -> {"new", "live", "dead"}]
  /\ pid \in [Procs -> Pids]
  /\ state \in [Things -> States]
  /\ owner \in [Things -> Procs \cup {Nobody}]
  /\ run \in [Things -> Gates \cup {NoRun}]
  /\ labelled \subseteq Things
  /\ nets \in [Ctrs -> SUBSET Nets]
  /\ phase \in [Removers -> GatePhases]
  /\ step \in [Removers -> {"off", "list", "containers", "await", "networks"}]
  /\ todo \in [Removers -> SUBSET Things]
  /\ current \in [Removers -> Ctrs \cup {Nobody}]
  /\ failed \in [Removers -> BOOLEAN]
  /\ took \in [Removers -> SUBSET Things]
  /\ watched \subseteq Gates
  /\ faults \in 0..MaxFaults

Init ==
  /\ alive = [p \in Procs |-> "new"]
  /\ pid \in [Procs -> {CHOOSE i \in Pids : TRUE}]
  /\ state = [t \in Things |-> "none"]
  /\ owner = [t \in Things |-> Nobody]
  /\ run = [t \in Things |-> NoRun]
  /\ labelled = {}
  /\ nets = [c \in Ctrs |-> {}]
  /\ phase = [x \in Removers |-> "idle"]
  /\ step = [x \in Removers |-> "off"]
  /\ todo = [x \in Removers |-> {}]
  /\ current = [x \in Removers |-> Nobody]
  /\ failed = [x \in Removers |-> FALSE]
  /\ took = [x \in Removers |-> {}]
  /\ watched = {}
  /\ faults = 0

-----------------------------------------------------------------------------
(* The test processes and what they make *)

(* Alive(pid) on a host: kill(pid, 0) finds a process there. *)
Alive(h, i) == \E p \in Procs : alive[p] = "live" /\ HostOf[p] = h /\ pid[p] = i

(* The owner a label names, as a host's process table answers for it. *)
SeemsAlive(t) == Alive(HostOf[owner[t]], pid[owner[t]])

StartProc(p) ==
  /\ alive[p] = "new"
  /\ GateOf[p] \in Gates => phase[GateOf[p]] = "test"
  /\ \E i \in Pids : /\ ~Alive(HostOf[p], i)
                     /\ pid' = [pid EXCEPT ![p] = i]
  /\ alive' = [alive EXCEPT ![p] = "live"]
  /\ UNCHANGED <<engineVars, walkVars, phase, watched, faults>>

(* It returns, panics on -timeout or is killed: whatever it had up stays up. *)
ExitProc(p) ==
  /\ alive[p] = "live"
  /\ alive' = [alive EXCEPT ![p] = "dead"]
  /\ UNCHANGED <<pid, engineVars, walkVars, phase, watched, faults>>

(* The run label a process finds in LATEREGATE_RUN: set by a gate that
   watches, and only by it. *)
RunOf(p) == IF GateOf[p] \in watched THEN GateOf[p] ELSE NoRun

Make(p, t, with) ==
  /\ alive[p] = "live"
  /\ state[t] = "none"
  /\ state' = [state EXCEPT ![t] = "up"]
  /\ owner' = [owner EXCEPT ![t] = p]
  /\ \/ /\ labelled' = labelled \cup {t}
        /\ run' = [run EXCEPT ![t] = RunOf(p)]
     \/ UNCHANGED <<labelled, run>>
  /\ nets' = IF t \in Ctrs THEN [nets EXCEPT ![t] = with] ELSE nets
  /\ UNCHANGED <<procVars, walkVars, phase, watched, faults>>

OwnNets(p) == {n \in Nets : state[n] = "up" /\ owner[n] = p}

MakeNetwork(p) == \E n \in Nets : Make(p, n, {})
StartContainer(p) ==
  \E c \in Ctrs : \E with \in SUBSET OwnNets(p) : Make(p, c, with)

(* A network the engine will not remove: a container still has it. *)
InUse(n) == \E c \in Ctrs : state[c] \in {"up", "removing"} /\ n \in nets[c]

(* A test stops what it started: Terminate on a container, Remove on a network. *)
Stop(p, t) ==
  /\ alive[p] = "live"
  /\ owner[t] = p
  /\ state[t] = "up"
  /\ \/ /\ t \in Ctrs
        /\ state' = [state EXCEPT ![t] = "removing"]
     \/ /\ t \in Nets
        /\ ~InUse(t)
        /\ state' = [state EXCEPT ![t] = "gone"]
  /\ UNCHANGED <<procVars, owner, run, labelled, nets, walkVars, phase, watched, faults>>

(* The engine finishes a removal it has begun. *)
FinishRemoval(c) ==
  /\ state[c] = "removing"
  /\ state' = [state EXCEPT ![c] = "gone"]
  /\ UNCHANGED <<procVars, owner, run, labelled, nets, walkVars, phase, watched, faults>>

-----------------------------------------------------------------------------
(* remove: Sweep with the owner label, Leftovers with the run's            *)

(* What List and Networks return for the remover's label. *)
CarriesOwner(x, t) == t \in labelled
CarriesNoRun(x, t) == t \in labelled /\ run[t] = IF phase[x] = "check" THEN x ELSE NoRun
Carries(x, t) == t \in labelled /\ (phase[x] = "check" => run[t] = x)
Listed(x, kind) == {t \in kind : state[t] \in {"up", "removing"} /\ Carries(x, t)}

(* pick: everything for Leftovers; for Sweep an owner of this host, by its
   label, that no process of this host answers to. *)
PicksByPid(x, t) == phase[x] = "check" \/ ~Alive(HostOf[x], pid[owner[t]])
Picks(x, t) ==
  phase[x] = "check" \/ (HostOf[owner[t]] = HostOf[x] /\ ~SeemsAlive(t))

BeginRemove(x) ==
  /\ step' = [step EXCEPT ![x] = "list"]
  /\ failed' = [failed EXCEPT ![x] = FALSE]
  /\ took' = [took EXCEPT ![x] = {}]
  /\ UNCHANGED <<todo, current>>

ListContainers(x) ==
  /\ step[x] = "list"
  /\ step' = [step EXCEPT ![x] = "containers"]
  /\ todo' = [todo EXCEPT ![x] = Listed(x, Ctrs)]
  /\ UNCHANGED <<procVars, engineVars, current, failed, took, phase, watched, faults>>

Drop(x, t) == todo' = [todo EXCEPT ![x] = @ \ {t}]

SkipOne(x) ==
  /\ step[x] \in {"containers", "networks"}
  /\ \E t \in todo[x] : ~Picks(x, t) /\ Drop(x, t)
  /\ UNCHANGED <<procVars, engineVars, step, current, failed, took, phase, watched, faults>>

(* Remove: the engine begins the removal and answers when it is done; 409 when
   another has begun it and 404 when it is gone count as removed. *)
RemoveContainer(x) ==
  /\ step[x] = "containers"
  /\ \E c \in todo[x] :
       /\ Picks(x, c)
       /\ \/ /\ state[c] = "up"
             /\ state' = [state EXCEPT ![c] = "removing"]
             /\ step' = [step EXCEPT ![x] = "await"]
             /\ current' = [current EXCEPT ![x] = c]
             /\ UNCHANGED <<todo, took>>
          \/ /\ state[c] \in {"removing", "gone"}
             /\ Drop(x, c)
             /\ took' = [took EXCEPT ![x] = @ \cup {c}]
             /\ UNCHANGED <<state, step, current>>
  /\ UNCHANGED <<procVars, owner, run, labelled, nets, failed, phase, watched, faults>>

RemovalAnswered(x) ==
  /\ step[x] = "await"
  /\ state[current[x]] = "gone"
  /\ step' = [step EXCEPT ![x] = "containers"]
  /\ Drop(x, current[x])
  /\ took' = [took EXCEPT ![x] = @ \cup {current[x]}]
  /\ current' = [current EXCEPT ![x] = Nobody]
  /\ UNCHANGED <<procVars, engineVars, failed, phase, watched, faults>>

(* A removal the engine refuses, or begins without its answer coming back in
   time: noted, and the walk goes on. *)
RemovalFails(x) ==
  /\ faults < MaxFaults
  /\ faults' = faults + 1
  /\ failed' = [failed EXCEPT ![x] = TRUE]
  /\ \/ /\ step[x] = "containers"
        /\ \E c \in todo[x] : Picks(x, c) /\ Drop(x, c)
        /\ UNCHANGED <<step, current>>
     \/ /\ step[x] = "await"
        /\ Drop(x, current[x])
        /\ step' = [step EXCEPT ![x] = "containers"]
        /\ current' = [current EXCEPT ![x] = Nobody]
     \/ /\ step[x] = "networks"
        /\ \E n \in todo[x] : Picks(x, n) /\ Drop(x, n)
        /\ UNCHANGED <<step, current>>
  /\ UNCHANGED <<procVars, engineVars, took, phase, watched>>

ListNetworks(x) ==
  /\ step[x] = "containers"
  /\ todo[x] = {}
  /\ step' = [step EXCEPT ![x] = "networks"]
  /\ todo' = [todo EXCEPT ![x] = Listed(x, Nets)]
  /\ UNCHANGED <<procVars, engineVars, current, failed, took, phase, watched, faults>>

(* RemoveNetwork: 404 counts as removed, a network in use is an error. *)
RemoveNetwork(x) ==
  /\ step[x] = "networks"
  /\ \E n \in todo[x] :
       /\ Picks(x, n)
       /\ Drop(x, n)
       /\ \/ /\ state[n] = "up" /\ InUse(n)
             /\ failed' = [failed EXCEPT ![x] = TRUE]
             /\ UNCHANGED <<state, took>>
          \/ /\ state[n] = "gone" \/ ~InUse(n)
             /\ state' = [state EXCEPT ![n] = "gone"]
             /\ took' = [took EXCEPT ![x] = @ \cup {n}]
             /\ UNCHANGED failed
  /\ UNCHANGED <<procVars, owner, run, labelled, nets, step, current, phase, watched, faults>>

(* remove has walked both lists, or a list could not be read and it returns
   there with the error. *)
Walked(x) == step[x] = "networks" /\ todo[x] = {}
ListFails(x) ==
  /\ \/ step[x] = "list"
     \/ step[x] = "containers" /\ todo[x] = {}
  /\ faults < MaxFaults

StopWalk(x) ==
  /\ step' = [step EXCEPT ![x] = "off"]
  /\ todo' = [todo EXCEPT ![x] = {}]
  /\ current' = [current EXCEPT ![x] = Nobody]
  /\ failed' = [failed EXCEPT ![x] = FALSE]
  /\ took' = [took EXCEPT ![x] = {}]

Walk(x) ==
  \/ ListContainers(x) \/ SkipOne(x) \/ RemoveContainer(x) \/ RemovalAnswered(x)
  \/ ListNetworks(x) \/ RemoveNetwork(x)

-----------------------------------------------------------------------------
(* reap.Sweep, called by a helper and again by the next one *)

BeginSweep(x) ==
  /\ phase[x] = "idle"
  /\ phase' = [phase EXCEPT ![x] = "sweep"]
  /\ BeginRemove(x)
  /\ UNCHANGED <<procVars, engineVars, watched, faults>>

(* The helper ignores the error; its process may also die in mid-sweep. *)
EndSweep(x) ==
  /\ x \in Sweepers
  /\ phase[x] = "sweep"
  /\ \/ Walked(x) /\ UNCHANGED faults
     \/ faults < MaxFaults /\ faults' = faults + 1
  /\ phase' = [phase EXCEPT ![x] = "idle"]
  /\ StopWalk(x)
  /\ UNCHANGED <<procVars, engineVars, watched>>

-----------------------------------------------------------------------------
(* The gate: watchContainers, the suite, leftovers *)

(* watchContainers: a sweep with any error leaves the run unwatched. *)
Watch(g) ==
  /\ phase[g] = "sweep"
  /\ \/ /\ Walked(g)
        /\ watched' = IF failed[g] THEN watched ELSE watched \cup {g}
        /\ UNCHANGED faults
     \/ /\ ListFails(g)
        /\ faults' = faults + 1
        /\ UNCHANGED watched
  /\ phase' = [phase EXCEPT ![g] = "test"]
  /\ StopWalk(g)
  /\ UNCHANGED <<procVars, engineVars>>

ProcsOf(g) == {p \in Procs : GateOf[p] = g}

(* go test has exited, and with it every process of the run.  An unwatched run
   is judged by its tests alone. *)
SuiteExits(g) ==
  /\ phase[g] = "test"
  /\ \A p \in ProcsOf(g) : alive[p] # "live"
  /\ IF g \in watched
       THEN phase' = [phase EXCEPT ![g] = "check"] /\ BeginRemove(g)
       ELSE /\ \E verdict \in {"passed", "failed"} : phase' = [phase EXCEPT ![g] = verdict]
            /\ UNCHANGED walkVars
  /\ UNCHANGED <<procVars, engineVars, watched, faults>>

(* leftovers' verdict comes first, then the suite's own: the gate fails on what
   it took off the engine and on what it could not. *)
VerdictOnRemoved(g) ==
  /\ phase[g] = "check"
  /\ Walked(g)
  /\ phase' = [phase EXCEPT ![g] = IF took[g] # {} THEN "failed" ELSE "passed"]
  /\ StopWalk(g)
  /\ UNCHANGED <<procVars, engineVars, watched, faults>>
Verdict(g) ==
  /\ phase[g] = "check"
  /\ \/ /\ Walked(g)
        /\ IF failed[g] \/ took[g] # {}
             THEN phase' = [phase EXCEPT ![g] = "failed"]
             ELSE \E verdict \in {"passed", "failed"} :
                    phase' = [phase EXCEPT ![g] = verdict]
        /\ UNCHANGED faults
     \/ /\ ListFails(g)
        /\ faults' = faults + 1
        /\ phase' = [phase EXCEPT ![g] = "failed"]
  /\ StopWalk(g)
  /\ UNCHANGED <<procVars, engineVars, watched>>

(* The gate is killed; its processes may live on. *)
KillGate(g) ==
  /\ phase[g] \in {"sweep", "test", "check"}
  /\ phase' = [phase EXCEPT ![g] = "killed"]
  /\ StopWalk(g)
  /\ UNCHANGED <<procVars, engineVars, watched, faults>>

-----------------------------------------------------------------------------
Process(p) ==
  \/ StartProc(p) \/ ExitProc(p) \/ MakeNetwork(p) \/ StartContainer(p)
  \/ \E t \in Things : Stop(p, t)

Gate(g) == BeginSweep(g) \/ Watch(g) \/ SuiteExits(g) \/ Verdict(g) \/ KillGate(g)

Next ==
  \/ \E p \in Procs : Process(p)
  \/ \E c \in Ctrs : FinishRemoval(c)
  \/ \E x \in Removers : Walk(x) \/ RemovalFails(x)
  \/ \E x \in Sweepers : BeginSweep(x) \/ EndSweep(x)
  \/ \E g \in Gates : Gate(g)

Spec == Init /\ [][Next]_vars

(* The engine finishes what it began; helpers keep coming and their sweeps go
   on. *)
FairSpec ==
  /\ Spec
  /\ \A c \in Ctrs : WF_vars(FinishRemoval(c))
  /\ \A x \in Sweepers : WF_vars(Walk(x)) /\ WF_vars(BeginSweep(x) \/ EndSweep(x))

-----------------------------------------------------------------------------
(* Properties *)

(* A container or network whose owner is alive is taken by nobody but its
   owner, whoever sweeps and whatever pids were used before: reap.Sweep's "one
   whose owner is alive is never touched". *)
LiveOwnerKept ==
  [][\A t \in Things :
       state[t] = "up" /\ state'[t] # "up"
         => alive[owner[t]] # "live" \/ Stop(owner[t], t)]_vars

(* A gate fails over its own run's containers and no other's: what its
   leftovers took was made by its own processes. *)
BlamesOnlyOwn ==
  \A g \in Gates : phase[g] = "check" =>
    \A t \in took[g] : GateOf[owner[t]] = g

(* A watched gate that passes has left nothing that carries its label. *)
PassLeavesNothing ==
  \A g \in watched : phase[g] = "passed" =>
    \A t \in Things : run[t] = g => state[t] = "gone"

(* An orphan goes in the end: a labelled container whose owner has died on a
   host where helpers sweep is removed, unless its owner's pid is in use again,
   which hides it for as long as that lasts. *)
Orphaned(c) == /\ c \in labelled /\ state[c] = "up"
               /\ alive[owner[c]] = "dead"
               /\ \E x \in Sweepers : HostOf[x] = HostOf[owner[c]]
OrphansGo ==
  \A c \in Ctrs :
    Orphaned(c) ~> (owner[c] # Nobody => state[c] = "gone" \/ SeemsAlive(c))

=============================================================================
