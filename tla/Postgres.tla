-------------------------------- MODULE Postgres --------------------------------
(***************************************************************************)
(* The postgres gate (internal/postgres/postgres.go) and the block it is   *)
(* configured by (internal/config/postgres.go): a repository declares its  *)
(* relationship to the shared database and the tree is held to it, by the  *)
(* gate alone or in the bar, which a live waiver takes the gate out of.    *)
(*                                                                         *)
(* A tree is its Go files.  Of a file it matters where it is, whether it   *)
(* is a test, whether it parses, whether it imports a client, the calls    *)
(* named for the environment with their arguments, the package's string    *)
(* constants it binds, and its statements: none, sound ones, or one that   *)
(* binds what its parameter cannot take (JSONBytes has which).             *)
(***************************************************************************)
EXTENDS Naturals

Unset == ""
Roles == {"none", "direct", "pooled"}
Undeclared == [present |-> FALSE, role |-> Unset, prefix |-> "", direct |-> "", pool |-> ""]

(* An environment name is a prefix and what follows it. *)
Name(prefix, base) == <<prefix, base>>
Shaped(name) == name # "lower-case"

-----------------------------------------------------------------------------
(* The block *)

(* Mutant: the two names may be one. *)
NamesInPair(block) ==
  /\ (block.direct = "") = (block.pool = "")
  /\ block.direct # "" =>
       /\ block.prefix = "" /\ block.role = "pooled"
       /\ Shaped(block.direct) /\ Shaped(block.pool)

(* Declared together, never beside a prefix, for the pooled role alone, shaped
   as names, and two of them. *)
ValidNames(block) ==
  /\ (block.direct = "") = (block.pool = "")
  /\ block.direct # "" =>
       /\ block.prefix = "" /\ block.role = "pooled"
       /\ Shaped(block.direct) /\ Shaped(block.pool)
       /\ block.direct # block.pool

Valid(block) ==
  block.present =>
    /\ block.role \in Roles
    /\ ValidNames(block)
    /\ block.prefix # "" => block.role = "pooled" /\ Shaped(block.prefix)

(* A repository that declares nothing has no client. *)
Role(block) == IF block.present THEN block.role ELSE "none"

PoolURL(block) ==
  IF block.pool # "" THEN Name("", block.pool) ELSE Name(block.prefix, "DATABASE_POOL_URL")

DirectURL(block) ==
  IF block.direct # "" THEN Name("", block.direct) ELSE Name(block.prefix, "DATABASE_URL")

-----------------------------------------------------------------------------
(* The scan *)

(* The non-test files that parse, outside the directories nobody wrote. *)
Scanned(tree) ==
  {f \in tree.files : ~f.test /\ f.parses /\ f.dir \notin {"testdata", "node_modules"}}

(* A constant of the package a file is in, whichever of its files binds it. *)
Constants(tree, f) == UNION {g.binds : g \in {h \in Scanned(tree) : h.dir = f.dir}}

(* What an argument names: itself, or what its package binds it to. *)
Reads(tree, f) ==
  {a.name : a \in {b \in f.env : b.kind = "literal"}}
  \cup {c.name : c \in {d \in Constants(tree, f) :
                          \E a \in f.env : a.kind = "constant" /\ a.name = d.of}}

ClientImports(tree) == {f \in Scanned(tree) : f.client}

Queries(tree) == \E f \in Scanned(tree) : f.statements # "none"

(* The typed pass loads the module at the root, and no nested one. *)
Analyzed(tree) == {f \in Scanned(tree) : f.dir # "nested"}

-----------------------------------------------------------------------------
(* The checks: "pass", "skip" or "fail" *)

FailIf(found) == IF found THEN "fail" ELSE "pass"
Held(tree, found) == IF Scanned(tree) = {} THEN "skip" ELSE FailIf(found)

LiveWaiver(waiver, day) == waiver # 0 /\ day <= waiver

ReadsName(tree, name) == Held(tree, \A f \in Scanned(tree) : name \notin Reads(tree, f))

RuleJSONBytes(tree) == Held(tree, \E f \in Analyzed(tree) : f.statements = "wrong")

(* What the checks of each role's row say; a waiver is its last day, 0 for
   none. *)
Checks(block, waiver, tree, day) ==
  {RuleJSONBytes(tree)} \cup
  CASE Role(block) = "none"   -> {FailIf(ClientImports(tree) # {})}
    [] Role(block) = "direct" -> {FailIf(~LiveWaiver(waiver, day))}
    [] Role(block) = "pooled" ->
         {Held(tree, ClientImports(tree) = {}),
          ReadsName(tree, PoolURL(block)), ReadsName(tree, DirectURL(block))}

(* `lateregate postgres`: the tree has to type-check when a statement makes
   the pass read its types. *)
Run(block, waiver, tree, day) ==
  LET checks == Checks(block, waiver, tree, day) IN
  /\ Queries(tree) => tree.typechecks
  /\ "fail" \notin checks
  /\ checks # {"skip"}

-----------------------------------------------------------------------------

(* A repository that passes is what it says: none or nothing has no client, a
   direct one has a reason with a date to come, a pooled one connects and reads
   two endpoints, which no two of its names spell alike. *)
RoleIsHeld(r) ==
  Valid(r.block) /\ Run(r.block, r.waiver, r.tree, r.day) =>
    LET files == {f \in Scanned(r.tree) : f.client}
        read == UNION {Reads(r.tree, f) : f \in Scanned(r.tree)}
    IN  CASE Role(r.block) = "none"   -> files = {}
          [] Role(r.block) = "direct" -> r.waiver # 0 /\ r.day <= r.waiver
          [] Role(r.block) = "pooled" ->
               /\ files # {} /\ {PoolURL(r.block), DirectURL(r.block)} \subseteq read
               /\ PoolURL(r.block) # DirectURL(r.block)
=============================================================================
