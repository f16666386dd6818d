--------------------------------- MODULE Config ---------------------------------
(***************************************************************************)
(* Reading .lateregate.yaml (internal/config): what a file may say, what   *)
(* is filled in where it says nothing, and which of its keys only restate  *)
(* what would be filled in, which `lateregate contract` asks a person to   *)
(* delete.                                                                 *)
(*                                                                         *)
(* A file is a function from the keys it holds to their values; a key it   *)
(* does not hold reads as the zero value of its type.  Lists whose order   *)
(* and repetitions nothing reads are sets.                                 *)
(***************************************************************************)
EXTENDS Naturals, Sequences, FiniteSets, SequencesExt

Says(file, key) == key \in DOMAIN file
Without(file, key) == [k \in DOMAIN file \ {key} |-> file[k]]

-----------------------------------------------------------------------------
(* What a file may say *)

(* Each entry has its reason. *)
Argued(allowed) == \A e \in DOMAIN allowed : allowed[e] # ""

Dated(waivers) == \A g \in DOMAIN waivers : waivers[g].reason # "" /\ waivers[g].until # "unreadable"

(* A list of directories inside the repository, none twice; clean stands for
   filepath.Clean, and a path that climbs or is empty is not inside. *)
LocalDirs(list) ==
  /\ \A i \in 1..Len(list) : list[i].local
  /\ \A i, j \in 1..Len(list) : list[i].clean = list[j].clean => i = j

(* modules: each below the root, written as its clean slash path. *)
ValidModules(list) ==
  /\ LocalDirs(list)
  /\ \A i \in 1..Len(list) : list[i].clean # "." /\ list[i].text = list[i].clean

Projects(f) == {f.projects[i].clean : i \in 1..Len(f.projects)}

ValidFrontend(f) ==
  /\ LocalDirs(f.projects) /\ LocalDirs(f.browser)
  /\ \A i \in 1..Len(f.browser) : f.browser[i].clean \in Projects(f)
  /\ \A p \in DOMAIN f.reads : p \in Projects(f) /\ LocalDirs(f.reads[p])

(* test.os: runner labels, none empty, none twice. *)
ValidTest(os) == (\A i \in 1..Len(os) : os[i] # "") /\ Len(os) = Cardinality(ToSet(os))

ValidImage(images) ==
  \A i \in 1..Len(images) :
    LET s == images[i] IN
    /\ s.name # "" /\ \A j \in 1..(i - 1) : images[j].name # s.name
    /\ s.dockerfile.local /\ s.context.local
    /\ s.version # "" /\ ~s.negative
    /\ s.skipStart = "" => s.port \in 1..65535 /\ s.probe = "path"

(* Where a words block names a list, an older version or an exception, it names
   something to read as well. *)
ValidWords(w) ==
  LET reads == w.model \cup w.person # {} \/ w.specs IN
  /\ ~reads => w.vocabulary = "" /\ w.allow = {}
  /\ w.older # {} => w.model # {}
  /\ "not a glob" \notin w.model \cup w.person \cup w.older
  /\ \A a \in w.allow : a.reason # "" /\ (a.text # "" \/ a.path # "") /\ a.path # "not a glob"

(* The statuses rules turn on: a started one needs a settled one, the archive
   its terminal ones and its directory, and each is in the vocabulary. *)
ValidStatuses(s) ==
  /\ s.started # {} => s.settled # {}
  /\ (s.archiveDir = "") = (s.terminal = {})
  /\ s.status # {} => s.started \cup s.settled \cup s.terminal \subseteq s.status

(* Roles of the family's identity shape. *)
Roles == {"issuer", "core", "platform", "service", "bff", "client", "none"}
Verifies == {"core", "service", "platform"}
Deploys == {"issuer", "core", "service", "platform"}

(* Mutant: any role may name a registry. *)
AnyRegistry(i) ==
  /\ i.role \in Roles
  /\ i.role \in Verifies => i.audience # ""
  /\ i.role = "core" => i.configPrefix # "" /\ i.apiGroup # ""
  /\ Dated(i.waive)

(* identity: a block says what its role's rules read, and nothing another
   role's would. *)
ValidIdentity(i) ==
  /\ i.role \in Roles
  /\ i.role \in Verifies => i.audience # ""
  /\ i.role = "core" => i.configPrefix # "" /\ i.apiGroup # ""
  /\ i.registry # "" => i.role = "issuer"
  /\ i.reachedBy # "" => i.reachedBy \in {"clients", "services", "self-hosted"} /\ i.role \in Verifies
  /\ i.bff # {} => i.role \in Verifies
  /\ i.image # "" => i.role \in Deploys /\ i.image # "registry/name:tag"
  /\ i.envelopeExempt # {} => i.role # "none"
  /\ i.overlays # {} => i.role = "core"
  /\ i.audiences # {} => i.role = "client"
  /\ Dated(i.waive)

(* ship: a deployment needs an image; a key with no value is refused. *)
ValidShip(s) ==
  /\ s.block # "null" /\ s.image # "null" /\ s.deploy # "null"
  /\ s.deploy # "absent" => s.image # "absent"

Threshold(t) == t \in 0..100

(* What a key may hold.  The timeout and the license types are what a check of
   theirs makes of them. *)
Allowed(key, value) ==
  CASE key = "cover.threshold" -> Threshold(value)
    [] key \in {"cover.exempt", "depcheck.allow", "platform_via_sdk.allow", "tempdir.allow"} -> Argued(value)
    [] key = "waive" -> Dated(value)
    [] key = "modules" -> ValidModules(value)
    [] key = "frontend" -> ValidFrontend(value)
    [] key = "test.os" -> ValidTest(value)
    [] key = "image" -> ValidImage(value)
    [] key = "words" -> ValidWords(value)
    [] key = "spec.statuses" -> ValidStatuses(value)
    [] key = "identity" -> ValidIdentity(value)
    [] key = "ship" -> ValidShip(value)
    [] key \in {"race.timeout", "license", "registers"} -> value # "unreadable"
    [] OTHER -> TRUE

(* Every block the file has passes its check. *)
Accepted(file) == \A k \in DOMAIN file : Allowed(k, file[k])

-----------------------------------------------------------------------------
(* What is filled in *)

DefaultIndex == "specs/README.md"
DefaultRegistry == "deploy/base/clients.yaml"

(* A text or a number that is empty, or 0, is one the file does not say. *)
DefaultTexts ==
  [k \in {"spec.dir", "ship.image.dockerfile", "ship.image.context", "ship.image.platform",
          "ship.deploy.rollout_timeout", "ship.deploy.smoke"} |-> "default"]

(* A list set to nothing, a false and an empty block are decisions. *)
DefaultChoices ==
  [k \in {"modernize.disable", "spec.require"} |->
     IF k = "spec.require" THEN {"title", "status"} ELSE {"newexpr", "errorsastype"}]

DefaultSloglint == [context |-> "scope", paths |-> "", exempt |-> {}]

(* Mutant: a list within the default's restates it. *)
Covers(list, default) == list \subseteq default

(* sameSet *)
SameSet(list, default) == list = default

(* The block a key of ship is in. *)
ShipBlock(file, key) ==
  /\ Says(file, "ship")
  /\ \/ key \in {"ship.image.dockerfile", "ship.image.context", "ship.image.platform"}
          /\ file["ship"].image = "there"
     \/ key \in {"ship.deploy.rollout_timeout", "ship.deploy.smoke"} /\ file["ship"].deploy = "there"

Text(file, key) ==
  IF key # "spec.dir" /\ ~ShipBlock(file, key) THEN "none"
  ELSE IF Says(file, key) /\ file[key] # "" THEN file[key] ELSE DefaultTexts[key]

Role(file) == IF Says(file, "identity") THEN file["identity"].role ELSE ""
Registry(file) == IF Says(file, "identity") THEN file["identity"].registry ELSE ""
Excluded(file) == IF Says(file, "spec.exclude") THEN file["spec.exclude"] ELSE {}

(* The index: what the file names, or the default one where it is on disk and
   is not excluded. *)
Index(file, onDisk) ==
  IF Says(file, "spec.index") /\ file["spec.index"] # "" THEN file["spec.index"]
  ELSE IF onDisk /\ "README.md" \notin Excluded(file) THEN DefaultIndex ELSE ""

(* defaults: the values the gates read. *)
FilledKeys ==
  DOMAIN DefaultTexts \cup DOMAIN DefaultChoices
  \cup {"cover.threshold", "release.require_green", "golangci.sloglint", "spec.index",
        "identity.registry"}

Effective(file, onDisk) ==
  [k \in FilledKeys |->
     CASE k \in DOMAIN DefaultTexts     -> Text(file, k)
       [] k \in DOMAIN DefaultChoices   -> IF Says(file, k) THEN file[k] ELSE DefaultChoices[k]
       [] k = "cover.threshold"         -> IF Says(file, k) /\ file[k] # 0 THEN file[k] ELSE 90
       [] k = "release.require_green"   -> Says(file, k) => file[k]
       [] k = "golangci.sloglint"       -> IF Says(file, k) THEN file[k] ELSE DefaultSloglint
       [] k = "spec.index"              -> Index(file, onDisk)
       [] k = "identity.registry"       ->
            IF Registry(file) = "" /\ Role(file) = "issuer" THEN DefaultRegistry ELSE Registry(file)]

(* defaults: the keys that only say what it would fill in. *)
Restated(file) ==
  {k \in DOMAIN file \cap DOMAIN DefaultTexts :
     file[k] = DefaultTexts[k] /\ (k = "spec.dir" \/ ShipBlock(file, k))}
  \cup {k \in DOMAIN file \cap DOMAIN DefaultChoices : SameSet(file[k], DefaultChoices[k])}
  \cup {k \in DOMAIN file \cap {"cover.threshold"} : file[k] = 90}
  \cup {k \in DOMAIN file \cap {"release.require_green"} : file[k]}
  \cup {k \in DOMAIN file \cap {"golangci.sloglint"} : file[k] = DefaultSloglint}
  \cup {k \in DOMAIN file \cap {"spec.index"} : file[k] = DefaultIndex}
  \cup (IF Registry(file) = DefaultRegistry THEN {"identity.registry"} ELSE {})

-----------------------------------------------------------------------------

(* What a file is: an identity is a block of its own keys, and ship's keys are
   in ship's blocks. *)
IsFile(file) ==
  /\ file = [k \in DOMAIN file |-> file[k]]
  /\ "identity.registry" \notin DOMAIN file
  /\ Says(file, "identity") =>
       {"role", "audience", "configPrefix", "apiGroup", "registry", "reachedBy", "bff", "image",
        "envelopeExempt", "overlays", "audiences", "waive"} \subseteq DOMAIN file["identity"]
  /\ Says(file, "release.require_green") => file["release.require_green"] \in BOOLEAN
  /\ \A k \in DOMAIN file \cap DOMAIN DefaultTexts : k = "spec.dir" \/ ShipBlock(file, k)

Delete(file, key) ==
  IF key = "identity.registry" THEN [file EXCEPT !["identity"].registry = ""] ELSE Without(file, key)

(* A text or a number said to be nothing. *)
Nothing(file, key) ==
  \/ key \in DOMAIN DefaultTexts \cup {"spec.index"} /\ file[key] = ""
  \/ key = "cover.threshold" /\ file[key] = 0

Same(file, key, onDisk) == Effective(Delete(file, key), onDisk) = Effective(file, onDisk)

(* Each key the drift report asks to be deleted can be: the file is read the
   same without it.  And each that could be is named, unless it was said to be
   nothing.  The default index is told apart by what is on disk. *)
RestatedIsExact(file, onDisk) ==
  Accepted(file) =>
    /\ \A k \in Restated(file) :
         (k = "spec.index" => onDisk /\ "README.md" \notin Excluded(file))
           => Accepted(Delete(file, k)) /\ Same(file, k, onDisk)
    /\ \A k \in DOMAIN file \cap DOMAIN Effective(file, onDisk) :
         Same(file, k, onDisk) => k \in Restated(file) \/ Nothing(file, k)
=============================================================================
