--------------------------------- MODULE Gates ---------------------------------
(***************************************************************************)
(* The gates that read a tree and keep no state: each is asked about one   *)
(* input, and answers.  A module per gate has what it answers and what     *)
(* that is held to; here each is an action over the inputs it is asked     *)
(* about.                                                                  *)
(***************************************************************************)
EXTENDS Naturals, Sequences

CONSTANTS
  Programs,      \* for the postgres gate's json parameters
  Repositories,  \* for its roles
  SpecTrees,     \* for spec-lint, each with what configures it
  Wirings,       \* for contract and init
  Settings       \* for the reader of .lateregate.yaml

VARIABLES gate, input

gatesVars == <<gate, input>>

JSON == INSTANCE JSONBytes
PG == INSTANCE Postgres
Specs == INSTANCE SpecLint
Wiring == INSTANCE Contract
Reading == INSTANCE Config

(* What the inputs are: the reading of two directories, the files of one
   repository, and one file of settings. *)
ASSUME TreesAreRead == \A t \in SpecTrees : Specs!IsTree(t.tree)
ASSUME WiringsAreRepositories == \A r \in Wirings : Wiring!IsRepository(r)
ASSUME SettingsAreFiles == \A s \in Settings : Reading!IsFile(s.file)

GatesInit == gate = "none" /\ input = <<>>

Ask(name, inputs) ==
  /\ gate = "none" /\ gate' = name
  /\ input' \in inputs

AnalyzeJSON == Ask("jsonbytes", Programs)
RunPostgres == Ask("postgres", Repositories)
RunSpecLint == Ask("spec-lint", SpecTrees)
RunContract == Ask("contract", Wirings)
LoadConfig == Ask("config", Settings)

GatesNext == AnalyzeJSON \/ RunPostgres \/ RunSpecLint \/ RunContract \/ LoadConfig

GatesSpec == GatesInit /\ [][GatesNext]_gatesVars

-----------------------------------------------------------------------------

(* The json check of the postgres gate names no parameter that pgx and the
   server would take, however the value came to it.  In a program that writes
   each local before it reads it and declares each function before its callers
   it names every other, and a struct, a map or a list of them that no plan
   encodes in any program. *)
JSONVerdictsAreRight ==
  gate = "jsonbytes" =>
    /\ JSON!ReportsAreReal(input)
    /\ JSON!InOrder(input) => JSON!NothingMissed(input)
    /\ JSON!NoPlanFound(input)

(* A repository the postgres gate passes is what its role says, on two
   endpoints when it is pooled. *)
PostgresRoleIsHeld == gate = "postgres" => PG!RoleIsHeld(input)

(* spec-lint names a dependency cycle exactly when there is one, and each it
   names is one. *)
CyclesAreNamed == gate = "spec-lint" => Specs!CyclesAreFound(input.tree)

(* In a tree spec-lint passes each citation, by name, number, register row or
   index row, leads to one spec, and says of it what it says. *)
CitationsHold == gate = "spec-lint" => Specs!CitationsLead(input.cfg, input.tree)

(* An init that fails before or in the middle of a write has kept the pre-push,
   the changelog and the workflows a person wrote, and one run again ends in the
   shape one that did not fail ends in, which contract finds nothing in that is
   not left to a person: but for a pre-push and a changelog it left empty, which
   contract goes on to name, and what .gitignore held when its write failed. *)
WiringSettles == gate = "contract" => Wiring!InitSettles(input)

(* A key contract asks to be deleted because it restates a default is one the
   file is read the same without, and no other key is. *)
RestatedIsExact == gate = "config" => Reading!RestatedIsExact(input.file, input.onDisk)
=============================================================================
