------------------------------ MODULE ShipProofs ------------------------------
(***************************************************************************)
(* Theorems about Ship, for any number of operators, tags, images, tokens  *)
(* and attempts: what is said to be live is, what 1Password holds was      *)
(* proven, and the credential goes with the command.                       *)
(***************************************************************************)
EXTENDS Ship, TLAPS, WellFoundedInduction, SequenceTheorems

-----------------------------------------------------------------------------
(* The invariant *)

(* push, deploy and release are about a tag, until they end. *)
OfATag == {"build", "push", "resolve", "digest", "extract", "op", "preflight", "apply",
           "set", "status", "after", "live", "view", "create"}
TagInv(w) == pc[w] \in OfATag => job[w].tag # NoTag
Typed == TypeOK /\ \A w \in Operators : TagInv(w)

(* The signal goroutine and the directory are there between MkdirTemp and the
   removal, and in no other place; only `view` and `create` are reached both
   ways, by deploy and by release. *)
Outside == {"build", "push", "resolve", "digest", "mkdir", "admin"}
Inside == {"extract", "op", "preflight", "apply", "set", "status", "after", "live",
           "write", "dry", "store", "back", "remove", "unlisten"}
GuardInv(w) ==
  /\ Ended(w) \/ pc[w] \in Outside => handler[w] = "off"
  /\ pc[w] \in Inside => handler[w] # "off"
  /\ handler[w] = "off" => removal[w] = "no"
  /\ handler[w] = "off" /\ ~Ended(w) => dir[w] = Gone

(* A command that goes on runs the program of its place; one that says it is
   live runs none. *)
ChildInv(w) ==
  /\ ~Ended(w) => child[w].runs \in {"none", pc[w]}
  /\ pc[w] = "deployed" => child[w].runs = "none"

(* The removal is asked for at the end or by the signal, and the end waits. *)
RemovalInv(w) ==
  /\ removal[w] # "no" => handler[w] = "taken" \/ pc[w] \in {"remove", "unlisten"}
  /\ pc[w] = "unlisten" => removal[w] \in {"gone", "failed"}

(* Once the removal has begun, a credential is one that came late. *)
LateInv(w) ==
  (removal[w] # "no" \/ Ended(w)) /\ "kubeconfig" \in dir[w]
    => pc[w] = "killed" \/ w \in past.late

(* A token is stored only where the cluster has taken it. *)
ProvenInv(w) ==
  /\ child[w].runs = "store" => job[w].token \in past.proven
  /\ pc[w] = "dry" /\ child[w].runs = "none" /\ child[w].ok => job[w].token \in past.proven

(* An image is of the tag its command is about, in the registry too. *)
RegistryInv ==
  \A t \in Tags : registry[TagRef(t)] # NoImage => registry[TagRef(t)].version = t
ImageInv(w) ==
  /\ job[w].image # NoImage => job[w].image.version = job[w].tag
  /\ pc[w] = "push" =>
       job[w].left \in Seq({TagRef(job[w].tag), ShaRef(job[w].tag), Latest})
  /\ pc[w] = "mkdir" => (job[w].tag = NoTag <=> job[w].image = NoImage)
  /\ pc[w] = "admin" => job[w].tag = NoTag
  /\ pc[w] \in {"admin", "write", "dry", "store", "back"} => job[w].image = NoImage

(* What a deploy has done to the cluster stays, until another comes. *)
Answered(w, program) == pc[w] = program /\ child[w].runs = "none" /\ child[w].ok
Closing(w) == (pc[w] \in {"remove", "unlisten"} /\ ~job[w].err) \/ pc[w] = "deployed"
RolloutInv(w) ==
  job[w].image # NoImage /\ w \notin past.touched =>
    /\ Answered(w, "apply") \/ pc[w] \in {"set", "status", "after", "live", "view", "create"}
         \/ Closing(w) => cluster.tree = job[w].tag
    /\ Answered(w, "set") \/ pc[w] \in {"status", "after", "live", "view", "create"}
         \/ Closing(w) => cluster.image = job[w].image
    /\ pc[w] \in {"after", "live", "view", "create"} \/ Closing(w)
         => job[w].image \in cluster.answers
PublishInv(w) ==
  /\ job[w].image # NoImage /\ Closing(w) => job[w].tag \in releases
  /\ pc[w] = "deployed" => job[w].image # NoImage

OwnInv(w) == GuardInv(w) /\ ChildInv(w) /\ RemovalInv(w)
CommandInv == \A w \in Operators : OwnInv(w)
OwnLive(w) == ImageInv(w) /\ RolloutInv(w) /\ PublishInv(w)
LiveInv == RegistryInv /\ \A w \in Operators : OwnLive(w)
StoreInv == StoredIsProven /\ \A w \in Operators : ProvenInv(w)
CredentialInv == \A w \in Operators : LateInv(w)

-----------------------------------------------------------------------------
(* Tags *)

LEMMA Least ==
  ASSUME NEW T \in SUBSET Nat, T # {}
  PROVE  \E x \in T : \A y \in T : x <= y
<1> DEFINE R == {p \in Nat \X Nat : p[1] < p[2]}
<1>1. IsWellFoundedOn(R, Nat)
  BY NatLessThanWellFounded DEF OpToRel
<1>2. PICK x \in T : \A y \in T : <<y, x>> \notin R
  BY <1>1, WFMin
<1>3. \A y \in T : ~(y < x)
  BY <1>2
<1>. QED
  BY <1>3

(* A list of numbers has a number no member exceeds: of the shortest that had
   none, the rest would have one. *)
LEMMA ListBounded ==
  \A n \in Nat : \A Q \in [1 .. n -> Nat] : \E b \in Nat : \A i \in 1 .. n : Q[i] <= b
<1> DEFINE Bounded(n, Q) == \E b \in Nat : \A i \in 1 .. n : Q[i] <= b
           T == {n \in Nat : \E Q \in [1 .. n -> Nat] : ~Bounded(n, Q)}
<1>1. SUFFICES ASSUME T # {} PROVE FALSE
  OBVIOUS
<1>2. PICK n \in T : \A m \in T : n <= m
  BY <1>1, Least
<1>3. PICK Q \in [1 .. n -> Nat] : ~Bounded(n, Q)
  BY <1>2
<1>4. n \in Nat /\ n # 0
  BY <1>3
<1>5. n - 1 \in Nat /\ n - 1 \notin T
  <2>1. n - 1 \in Nat /\ ~(n <= n - 1)
    BY <1>4
  <2>. QED
    BY <2>1, <1>2
<1>6. [i \in 1 .. (n - 1) |-> Q[i]] \in [1 .. (n - 1) -> Nat]
  <2>1. \A i \in 1 .. (n - 1) : i \in 1 .. n
    BY <1>4
  <2>. QED
    BY <2>1
<1>7. Bounded(n - 1, [i \in 1 .. (n - 1) |-> Q[i]])
  BY <1>5, <1>6
<1>8. PICK b \in Nat : \A i \in 1 .. (n - 1) : Q[i] <= b
  BY <1>7
<1>9. Q[n] \in Nat /\ n \in 1 .. n
  BY <1>4
<1>10. PICK c \in Nat : b <= c /\ Q[n] <= c
  <2>1. \A x, y \in Nat : \E z \in Nat : x <= z /\ y <= z
    <3>1. \A x, y \in Nat : x <= y \/ y <= x
      OBVIOUS
    <3>. QED
      BY <3>1
  <2>. QED
    BY <1>9, <2>1
<1>11. \A i \in 1 .. n : Q[i] <= c
  <2> SUFFICES ASSUME NEW i \in 1 .. n PROVE Q[i] <= c
    OBVIOUS
  <2>1. CASE i = n
    BY <2>1, <1>10
  <2>2. CASE i # n
    <3>0. Q[i] \in Nat
      OBVIOUS
    <3>1. i \in 1 .. (n - 1)
      BY <2>2, <1>4
    <3>2. Q[i] <= b
      BY <3>1, <1>8
    <3>3. \A x, y, z \in Nat : x <= y /\ y <= z => x <= z
      OBVIOUS
    <3>. QED
      BY <3>0, <3>2, <3>3, <1>10
  <2>. QED
    BY <2>1, <2>2
<1>12. Bounded(n, Q)
  BY <1>10, <1>11
<1>. QED
  BY <1>3, <1>12

(* There is a highest of any tags. *)
LEMMA HighestIn ==
  ASSUME ShipAssumption, NEW S \in SUBSET Tags, S # {}
  PROVE  Highest(S) \in S
<1>1. PICK Q \in Seq(Tags) : \A t \in Tags : \E n \in 1 .. Len(Q) : Q[n] = t
  BY DEF ShipAssumption, IsFiniteSet
<1>2. Q \in [1 .. Len(Q) -> Nat] /\ Len(Q) \in Nat
  <2>1. Len(Q) \in Nat /\ Q \in [1 .. Len(Q) -> Tags]
    BY <1>1
  <2>2. \A t \in Tags : t \in Nat
    BY DEF ShipAssumption
  <2>. QED
    BY <2>1, <2>2
<1>3. PICK b \in Nat : \A i \in 1 .. Len(Q) : Q[i] <= b
  BY <1>2, ListBounded
<1>4. \A t \in S : t \in Nat /\ t <= b
  BY <1>1, <1>3 DEF ShipAssumption
<1> DEFINE T == {b - t : t \in S}
<1>5. T \in SUBSET Nat /\ T # {}
  <2>1. \A t \in S : b - t \in Nat
    <3>1. \A x \in Nat : x <= b => b - x \in Nat
      BY <1>3
    <3>. QED
      BY <3>1, <1>4
  <2>2. T \subseteq Nat
    BY <2>1
  <2>3. PICK t \in S : TRUE
    OBVIOUS
  <2>4. b - t \in T
    BY <2>3
  <2>. QED
    BY <2>2, <2>4
<1>6. PICK d \in T : \A e \in T : d <= e
  BY <1>5, Least
<1>7. PICK t \in S : d = b - t
  BY <1>6
<1>8. \A u \in S : u <= t
  <2> SUFFICES ASSUME NEW u \in S PROVE u <= t
    OBVIOUS
  <2>1. b - t <= b - u
    BY <1>6, <1>7
  <2>. QED
    BY <2>1, <1>4, <1>7
<1>. QED
  BY <1>8 DEF Highest

LEMMA HeadTagIn ==
  ASSUME ShipAssumption, NEW at \in Tags
  PROVE  HeadTag(CommitOf[at]) \in Tags
<1> DEFINE S == {t \in Tags : CommitOf[t] = CommitOf[at]}
<1>1. S \in SUBSET Tags /\ S # {}
  OBVIOUS
<1>2. Highest(S) \in S
  BY <1>1, HighestIn
<1>. QED
  BY <1>2 DEF HeadTag

LEMMA NewestTagIn ==
  ASSUME ShipAssumption, Tags # Prereleases
  PROVE  NewestTag \in Tags
<1>1. Tags \ Prereleases \in SUBSET Tags /\ Tags \ Prereleases # {}
  BY DEF ShipAssumption
<1>2. Highest(Tags \ Prereleases) \in Tags \ Prereleases
  BY <1>1, HighestIn
<1>. QED
  BY <1>2 DEF NewestTag

(* A reference names at most one thing, and no image is none. *)
LEMMA RefFacts ==
  ASSUME ShipAssumption
  PROVE  /\ NoTag \notin Tags /\ NoImage \notin Images /\ NoImage.version = NoTag
         /\ \A t \in Tags : {TagRef(t), ShaRef(t), Latest} \subseteq Refs
         /\ \A t, u : TagRef(t) = TagRef(u) => t = u
         /\ \A t, u : TagRef(t) # ShaRef(u) /\ TagRef(t) # Latest
         /\ \A t \in Tags : PushedRefs(t) \in Seq({TagRef(t), ShaRef(t), Latest})
<1>1. NoTag \notin Tags /\ NoImage \notin Images /\ NoImage.version = NoTag
  BY DEF ShipAssumption, NoTag, NoImage, Images
<1>2. \A t \in Tags : {TagRef(t), ShaRef(t), Latest} \subseteq Refs
  BY DEF Refs
<1>3. \A t, u : TagRef(t) = TagRef(u) => t = u
  BY DEF TagRef
<1>4. \A t, u : TagRef(t) # ShaRef(u) /\ TagRef(t) # Latest
  BY DEF TagRef, ShaRef, Latest
<1>5. ASSUME NEW t \in Tags PROVE PushedRefs(t) \in Seq({TagRef(t), ShaRef(t), Latest})
  <2> DEFINE R == {TagRef(t), ShaRef(t), Latest}
  <2>1. TagRef(t) \in R /\ ShaRef(t) \in R /\ Latest \in R
    OBVIOUS
  <2> HIDE DEF R
  <2>2. <<TagRef(t), ShaRef(t)>> \in Seq(R) /\ <<Latest>> \in Seq(R) /\ <<>> \in Seq(R)
    BY <2>1
  <2>3. PushedRefs(t) \in Seq(R)
    BY <2>2, ConcatProperties DEF PushedRefs
  <2>. QED
    BY <2>3 DEF R
<1>. QED
  BY <1>1, <1>2, <1>3, <1>4, <1>5

-----------------------------------------------------------------------------
(* Typing *)

(* What of a command's own state its moves leave typed. *)
OwnTyped ==
  /\ pc \in [Operators -> Places] /\ job \in [Operators -> Jobs]
  /\ handler \in [Operators -> {"off", "listening", "signalled", "taken"}]
  /\ removal \in [Operators -> {"no", "busy", "gone", "failed"}]
  /\ child \in [Operators -> [runs: Children \cup {"none"}, ok: BOOLEAN]]

LEMMA NoJobTyped == ASSUME ShipAssumption PROVE NoJob \in Jobs
<1>1. <<>> \in Seq(Refs) /\ 0 \in 0 .. MaxTokens /\ 0 \in 0 .. (MaxAttempts - 1)
  BY DEF ShipAssumption
<1>. QED
  BY <1>1 DEF NoJob, Jobs

LEMMA GotoTyped ==
  ASSUME TypeOK, NEW w \in Operators, NEW step \in Places, Goto(w, step)
  PROVE  /\ pc' \in [Operators -> Places]
         /\ child' \in [Operators -> [runs: Children \cup {"none"}, ok: BOOLEAN]]
BY DEF TypeOK, Goto, NoChild

LEMMA EndTyped ==
  ASSUME ShipAssumption, TypeOK, NEW w \in Operators, NEW how \in Outcomes, End(w, how)
  PROVE  /\ pc' \in [Operators -> Places] /\ job' \in [Operators -> Jobs]
         /\ handler' \in [Operators -> {"off", "listening", "signalled", "taken"}]
         /\ removal' \in [Operators -> {"no", "busy", "gone", "failed"}]
BY NoJobTyped DEF TypeOK, End, Places

(* A job whose fields are set is a job. *)
LEMMA JobFields ==
  ASSUME NEW j \in Jobs
  PROVE  /\ \A b \in BOOLEAN : [j EXCEPT !.err = b] \in Jobs
         /\ \A i \in Images : [j EXCEPT !.image = i] \in Jobs
         /\ \A l \in Seq(Refs) : [j EXCEPT !.left = l] \in Jobs
         /\ \A k \in 0 .. MaxTokens : [j EXCEPT !.token = k] \in Jobs
         /\ \A n \in 0 .. (MaxAttempts - 1) : [j EXCEPT !.tries = n] \in Jobs
         /\ \A i \in Images, l \in Seq(Refs) : [j EXCEPT !.image = i, !.left = l] \in Jobs
<1>1. \A b \in BOOLEAN : [j EXCEPT !.err = b] \in Jobs
  BY DEF Jobs
<1>2. \A i \in Images : [j EXCEPT !.image = i] \in Jobs
  BY DEF Jobs
<1>3. \A l \in Seq(Refs) : [j EXCEPT !.left = l] \in Jobs
  BY DEF Jobs
<1>4. \A k \in 0 .. MaxTokens : [j EXCEPT !.token = k] \in Jobs
  BY DEF Jobs
<1>5. \A n \in 0 .. (MaxAttempts - 1) : [j EXCEPT !.tries = n] \in Jobs
  BY DEF Jobs
<1>6. \A i \in Images, l \in Seq(Refs) : [j EXCEPT !.image = i, !.left = l] \in Jobs
  BY DEF Jobs
<1>. QED
  BY <1>1, <1>2, <1>3, <1>4, <1>5, <1>6

LEMMA ReturnTyped ==
  ASSUME ShipAssumption, TypeOK, NEW w \in Operators, NEW how \in Outcomes, Return(w, how)
  PROVE  OwnTyped'
<1>1. CASE handler[w] = "off"
  BY <1>1, EndTyped DEF Return, OwnTyped, TypeOK
<1>2. CASE handler[w] # "off"
  <2>1. Goto(w, "remove") /\ UNCHANGED <<handler, removal>>
    BY <1>2 DEF Return
  <2>2. job' = [job EXCEPT ![w] = [job[w] EXCEPT !.err = (how = "failed")]]
    BY <1>2 DEF Return
  <2>3. "remove" \in Places /\ (how = "failed") \in BOOLEAN
    BY DEF Places
  <2>4. job' \in [Operators -> Jobs]
    BY <2>2, <2>3, JobFields DEF TypeOK
  <2>. QED
    BY <2>1, <2>3, <2>4, GotoTyped DEF OwnTyped, TypeOK
<1>. QED
  BY <1>1, <1>2

LEMMA AdvanceTyped ==
  ASSUME TypeOK, NEW w \in Operators, NEW step \in Places, Advance(w, step)
  PROVE  OwnTyped'
BY GotoTyped DEF Advance, OwnTyped, TypeOK, held

LEMMA StepAfterTyped ==
  ASSUME NEW step \in {"op", "preflight", "apply", "set", "status", "after", "live"}
  PROVE  /\ StepAfter(step) \in Places
         /\ step = "op" => StepAfter(step) = "preflight"
         /\ step = "preflight" => StepAfter(step) = "apply"
         /\ step = "apply" => StepAfter(step) = "set"
         /\ step = "set" => StepAfter(step) = "status"
         /\ step = "after" => StepAfter(step) = "live"
<1>1. \A n \in DOMAIN Steps : n \in 1 .. 8
  BY DEF Steps
<1>2. /\ Steps[1] = "op" /\ Steps[2] = "preflight" /\ Steps[3] = "apply" /\ Steps[4] = "set"
      /\ Steps[5] = "status" /\ Steps[6] = "after" /\ Steps[7] = "live" /\ Steps[8] = "view"
      /\ DOMAIN Steps = 1 .. 8
  BY DEF Steps
<1> DEFINE n == CHOOSE m \in DOMAIN Steps : Steps[m] = step
<1>3. n \in DOMAIN Steps /\ Steps[n] = step
  BY <1>2
<1>4. StepAfter(step) = Steps[n + 1]
  BY DEF StepAfter
<1> HIDE DEF n
<1>5. n \in {1, 2, 3, 4, 5, 6, 7, 8}
  BY <1>2, <1>3
<1>. QED
  BY <1>2, <1>3, <1>4, <1>5 DEF Places, Children

LEMMA BeginTyped ==
  ASSUME ShipAssumption, TypeOK, NEW w \in Operators, NEW command, NEW step \in Places,
         Begin(w, command, step)
  PROVE  /\ pc' \in [Operators -> Places]
         /\ child' \in [Operators -> [runs: Children \cup {"none"}, ok: BOOLEAN]]
         /\ spent' \in [jobs: 0 .. MaxJobs, builds: 0 .. MaxBuilds]
         /\ dir' \in [Operators -> (SUBSET {"tree", "kubeconfig"}) \cup {Gone}]
         /\ past' \in [touched: SUBSET Operators, late: SUBSET Operators,
                       proven: SUBSET (1 .. MaxTokens)]
         /\ UNCHANGED <<registry, cluster, document, releases, handler, removal>>
<1>1. spent.jobs + 1 \in 0 .. MaxJobs
  BY DEF Begin, TypeOK, ShipAssumption
<1>. QED
  BY <1>1, GotoTyped DEF Begin, TypeOK, outside

LEMMA OfTagTyped ==
  ASSUME ShipAssumption, TypeOK, NEW w \in Operators, NEW t \in Tags, OfTag(w, t)
  PROVE  job' \in [Operators -> Jobs]
BY NoJobTyped DEF OfTag, TypeOK, Jobs

LEMMA InitTyped == ShipAssumption /\ Init => TypeOK
<1> SUFFICES ASSUME ShipAssumption, Init PROVE TypeOK
  OBVIOUS
<1>1. registry \in [Refs -> Images \cup {NoImage}]
  <2> SUFFICES ASSUME NEW r \in Refs, NEW t \in Pushed, r = TagRef(t)
               PROVE  [version |-> r[2], build |-> 0] \in Images
    BY DEF Init
  <2>1. r[2] = t
    BY DEF TagRef
  <2>2. t \in Tags /\ 0 \in 0 .. MaxBuilds
    BY DEF ShipAssumption
  <2>. QED
    BY <2>1, <2>2 DEF Images
<1>2. /\ cluster \in [tree: Tags \cup {NoTag}, image: Images \cup {NoImage},
                      answers: SUBSET (Images \cup {NoImage}), token: 1 .. MaxTokens]
      /\ document \in 0 .. MaxTokens
      /\ spent \in [jobs: 0 .. MaxJobs, builds: 0 .. MaxBuilds]
      /\ past \in [touched: SUBSET Operators, late: SUBSET Operators,
                   proven: SUBSET (1 .. MaxTokens)]
  BY DEF Init, ShipAssumption
<1>. QED
  BY <1>1, <1>2, NoJobTyped DEF Init, TypeOK, Places, Outcomes, NoChild

LEMMA TagIn == ASSUME Typed, NEW w \in Operators, pc[w] \in OfATag PROVE job[w].tag \in Tags
BY DEF Typed, TypeOK, TagInv, Jobs

(* A move of one command leaves the others where they are. *)
LEMMA TagMoves ==
  ASSUME Typed, NEW w \in Operators, TagInv(w)',
         \A v \in Operators \ {w} : pc'[v] = pc[v] /\ job'[v] = job[v]
  PROVE  \A v \in Operators : TagInv(v)'
BY DEF Typed, TagInv

(* A return ends the command, or goes on to the removal, which is of no tag. *)
LEMMA ReturnMoves ==
  ASSUME ShipAssumption, Typed, NEW w \in Operators, NEW how \in Outcomes, Return(w, how)
  PROVE  OwnTyped' /\ \A v \in Operators : TagInv(v)'
<1>1. pc'[w] \in {how, "remove"} /\ \A v \in Operators \ {w} : pc'[v] = pc[v] /\ job'[v] = job[v]
  BY DEF Return, End, Goto, Typed, TypeOK
<1>2. TagInv(w)'
  BY <1>1 DEF TagInv, OfATag, Outcomes
<1>. QED
  BY <1>1, <1>2, TagMoves, ReturnTyped DEF Typed

(* So does a step on, to a place about the same tag or about none. *)
LEMMA AdvanceMoves ==
  ASSUME Typed, NEW w \in Operators, NEW step \in Places, Advance(w, step),
         pc[w] \in OfATag \/ step \notin OfATag
  PROVE  OwnTyped' /\ \A v \in Operators : TagInv(v)'
<1>1. pc'[w] = step /\ job' = job /\ \A v \in Operators \ {w} : pc'[v] = pc[v]
  BY DEF Advance, Goto, held, Typed, TypeOK
<1>2. TagInv(w)'
  BY <1>1 DEF TagInv, Typed
<1>. QED
  BY <1>1, <1>2, TagMoves, AdvanceTyped DEF Typed

LEMMA RefsInSeq ==
  ASSUME ShipAssumption, NEW t \in Tags
  PROVE  Seq({TagRef(t), ShaRef(t), Latest}) \subseteq Seq(Refs)
<1> DEFINE R == {TagRef(t), ShaRef(t), Latest}
<1>1. R \subseteq Refs
  BY RefFacts
<1> HIDE DEF R
<1>2. Seq(R) \subseteq Seq(Refs)
  BY <1>1
<1>. QED
  BY <1>2 DEF R

LEMMA BuildTyped ==
  ASSUME ShipAssumption, Typed, NEW w \in Operators, BuildImage(w)
  PROVE  Typed'
<1>1. pc[w] = "build" /\ job[w].tag \in Tags
  BY TagIn DEF BuildImage, OfATag
<1>2. CASE Return(w, "failed") /\ UNCHANGED spent
  BY <1>2, ReturnMoves DEF BuildImage, OwnTyped, Typed, TypeOK, outside, Outcomes
<1>3. CASE ~(Return(w, "failed") /\ UNCHANGED spent)
  <2> DEFINE image == [version |-> job[w].tag, build |-> spent.builds + 1]
             left == PushedRefs(job[w].tag)
             j == [job[w] EXCEPT !.image = image, !.left = left]
  <2>1. /\ spent.builds < MaxBuilds /\ spent' = [spent EXCEPT !.builds = @ + 1]
        /\ job' = [job EXCEPT ![w] = j]
        /\ Goto(w, "push")
        /\ UNCHANGED <<handler, removal, registry, cluster, document, releases, dir, past>>
    BY <1>3 DEF BuildImage, outside
  <2>2. image \in Images /\ spent' \in [jobs: 0 .. MaxJobs, builds: 0 .. MaxBuilds]
    BY <1>1, <2>1 DEF Typed, TypeOK, Images, ShipAssumption
  <2>3. left \in Seq(Refs)
    BY <1>1, RefFacts, RefsInSeq
  <2> HIDE DEF image, left
  <2>4. j \in Jobs /\ j.tag = job[w].tag
    <3>1. job[w] \in Jobs
      BY DEF Typed, TypeOK
    <3>2. j \in Jobs
      BY <2>2, <2>3, <3>1, JobFields
    <3>. QED
      BY <3>1, <3>2 DEF Jobs
  <2> HIDE DEF j
  <2>5. "push" \in Places
    BY DEF Places
  <2>6. OwnTyped'
    BY <2>1, <2>4, <2>5, GotoTyped DEF OwnTyped, Typed, TypeOK
  <2>7. \A v \in Operators : TagInv(v)'
    <3>1. pc' = [pc EXCEPT ![w] = "push"]
      BY <2>1 DEF Goto
    <3>. QED
      BY <1>1, <2>1, <2>4, <3>1, TagMoves, RefFacts DEF Typed, TypeOK, TagInv
  <2>. QED
    BY <2>1, <2>2, <2>6, <2>7 DEF OwnTyped, Typed, TypeOK
<1>. QED
  BY <1>2, <1>3

LEMMA MovesTyped ==
  ASSUME Typed, OwnTyped', \A v \in Operators : TagInv(v)',
         UNCHANGED <<registry, cluster, document, spent>>,
         releases' \subseteq Tags,
         dir' \in [Operators -> (SUBSET {"tree", "kubeconfig"}) \cup {Gone}],
         past' \in [touched: SUBSET Operators, late: SUBSET Operators,
                    proven: SUBSET (1 .. MaxTokens)]
  PROVE  Typed'
BY DEF OwnTyped, Typed, TypeOK

LEMMA BeginMoves ==
  ASSUME ShipAssumption, Typed, NEW w \in Operators, NEW command, NEW step \in Places,
         Begin(w, command, step), job' \in [Operators -> Jobs],
         step \in OfATag => job'[w].tag # NoTag,
         \A v \in Operators \ {w} : job'[v] = job[v]
  PROVE  Typed'
<1>1. pc'[w] = step /\ \A v \in Operators \ {w} : pc'[v] = pc[v]
  BY DEF Begin, Goto, Typed, TypeOK
<1>2. TagInv(w)'
  BY <1>1 DEF TagInv
<1>. QED
  BY <1>1, <1>2, TagMoves, BeginTyped DEF Typed, TypeOK

LEMMA OfTagMoves ==
  ASSUME ShipAssumption, Typed, NEW w \in Operators, NEW t \in Tags, OfTag(w, t)
  PROVE  /\ job' \in [Operators -> Jobs] /\ job'[w].tag # NoTag
         /\ \A v \in Operators \ {w} : job'[v] = job[v]
         /\ job'[w].tag = t /\ job'[w].image = NoImage
<1>1. job' \in [Operators -> Jobs] /\ \A v \in Operators \ {w} : job'[v] = job[v]
  BY OfTagTyped DEF OfTag, Typed, TypeOK
<1>2. job'[w] = [NoJob EXCEPT !.tag = t]
  BY DEF OfTag, Typed, TypeOK
<1>3. job'[w].tag = t /\ job'[w].image = NoImage
  BY <1>2 DEF NoJob
<1>. QED
  BY <1>1, <1>3, RefFacts

LEMMA BeginsTyped ==
  ASSUME ShipAssumption, Typed, NEW w \in Operators,
         BeginPush(w) \/ BeginDeploy(w) \/ BeginPublish(w) \/ BeginCredential(w)
  PROVE  Typed'
<1>0. {"build", "resolve", "view", "admin"} \subseteq Places /\ "admin" \notin OfATag
  BY DEF Places, OfATag
<1>1. CASE BeginPush(w)
  <2>1. PICK at \in Tags : OfTag(w, HeadTag(CommitOf[at]))
    BY <1>1 DEF BeginPush
  <2>. QED
    BY <1>0, <1>1, <2>1, HeadTagIn, OfTagMoves, BeginMoves DEF BeginPush
<1>2. CASE BeginDeploy(w)
  <2>1. PICK t \in Tags : OfTag(w, t)
    BY <1>2, NewestTagIn DEF BeginDeploy
  <2>. QED
    BY <1>0, <1>2, <2>1, OfTagMoves, BeginMoves DEF BeginDeploy
<1>3. CASE BeginPublish(w)
  <2>1. PICK t \in Tags : OfTag(w, t)
    BY <1>3 DEF BeginPublish
  <2>. QED
    BY <1>0, <1>3, <2>1, OfTagMoves, BeginMoves DEF BeginPublish
<1>4. CASE BeginCredential(w)
  <2>1. job' \in [Operators -> Jobs] /\ \A v \in Operators \ {w} : job'[v] = job[v]
    BY <1>4, NoJobTyped DEF BeginCredential, Typed, TypeOK
  <2>. QED
    BY <1>0, <1>4, <2>1, BeginMoves DEF BeginCredential
<1>. QED
  BY <1>1, <1>2, <1>3, <1>4

LEMMA PushTyped ==
  ASSUME ShipAssumption, Typed, NEW w \in Operators, PushRef(w) \/ PushEnds(w)
  PROVE  Typed'
<1>1. CASE PushRef(w) /\ Return(w, "failed") /\ UNCHANGED registry
  BY <1>1, ReturnMoves, MovesTyped DEF PushRef, Outcomes, Typed, TypeOK
<1>2. CASE PushRef(w) /\ ~(Return(w, "failed") /\ UNCHANGED registry)
  <2>1. /\ job[w].left # <<>> /\ pc[w] = "push"
        /\ registry' = [registry EXCEPT ![Head(job[w].left)] = job[w].image]
        /\ job' = [job EXCEPT ![w] = [job[w] EXCEPT !.left = Tail(job[w].left)]]
        /\ UNCHANGED <<pc, child, handler, removal, cluster, document, releases, spent, dir, past>>
    BY <1>2 DEF PushRef
  <2>2. job[w].left \in Seq(Refs) /\ job[w].image \in Images \cup {NoImage} /\ job[w] \in Jobs
    BY DEF Typed, TypeOK, Jobs
  <2>3. Tail(job[w].left) \in Seq(Refs) /\ Head(job[w].left) \in Refs
    BY <2>1, <2>2
  <2>4. job' \in [Operators -> Jobs]
    BY <2>1, <2>2, <2>3, JobFields DEF Typed, TypeOK
  <2>5. job'[w].tag = job[w].tag /\ \A v \in Operators \ {w} : job'[v] = job[v]
    BY <2>1, <2>2 DEF Typed, TypeOK, Jobs
  <2>6. \A v \in Operators : TagInv(v)'
    BY <2>1, <2>5, TagMoves DEF Typed, TagInv
  <2>7. registry' \in [Refs -> Images \cup {NoImage}]
    BY <2>1, <2>2, <2>3 DEF Typed, TypeOK
  <2>. QED
    BY <2>1, <2>4, <2>6, <2>7 DEF Typed, TypeOK
<1>3. CASE PushEnds(w)
  <2>1. PICK how \in {"pushed", "failed"} : Return(w, how)
    BY <1>3 DEF PushEnds
  <2>2. how \in Outcomes
    BY DEF Outcomes
  <2>3. OwnTyped' /\ \A v \in Operators : TagInv(v)'
    BY <2>1, <2>2, ReturnMoves
  <2>. QED
    BY <1>3, <2>3, MovesTyped DEF PushEnds, outside, Typed, TypeOK
<1>. QED
  BY <1>1, <1>2, <1>3

(* The steps that do nothing but go on or return. *)
LEMMA PlainTyped ==
  ASSUME ShipAssumption, Typed, NEW w \in Operators,
         \/ CommitOfTag(w) \/ Script(w) \/ ProgramAnswers(w) \/ RolloutStatus(w)
         \/ ViewRelease(w) \/ CredentialAnswers(w)
  PROVE  Typed'
<1>1. UNCHANGED <<outside, spent, dir, past>>
  BY DEF CommitOfTag, Script, ProgramAnswers, RolloutStatus, ViewRelease, CredentialAnswers
<1>2. \/ \E how \in Outcomes : Return(w, how)
      \/ \E step \in Places : Advance(w, step) /\ (pc[w] \in OfATag \/ step \notin OfATag)
  <2>0. {"failed", "refused", "published", "stored"} \subseteq Outcomes
        /\ {"digest", "after", "create", "store", "back"} \subseteq Places
        /\ {"store", "back"} \cap OfATag = {}
    BY DEF Outcomes, Places, Children, OfATag
  <2>1. CASE CommitOfTag(w)
    BY <2>0, <2>1 DEF CommitOfTag, OfATag
  <2>2. CASE Script(w)
    BY <2>0, <2>2, StepAfterTyped DEF Script, OfATag
  <2>3. CASE ProgramAnswers(w)
    BY <2>0, <2>3, StepAfterTyped DEF ProgramAnswers, OfATag
  <2>4. CASE RolloutStatus(w)
    BY <2>0, <2>4 DEF RolloutStatus, OfATag
  <2>5. CASE ViewRelease(w)
    BY <2>0, <2>5 DEF ViewRelease, OfATag
  <2>6. CASE CredentialAnswers(w)
    BY <2>0, <2>6 DEF CredentialAnswers
  <2>. QED
    BY <2>1, <2>2, <2>3, <2>4, <2>5, <2>6
<1>3. OwnTyped' /\ \A v \in Operators : TagInv(v)'
  BY <1>2, ReturnMoves, AdvanceMoves
<1>. QED
  BY <1>1, <1>3, MovesTyped DEF outside, Typed, TypeOK

(* A move to a place with a job of the same tag. *)
LEMMA GoesTyped ==
  ASSUME Typed, NEW w \in Operators, NEW step \in Places, Goto(w, step),
         NEW j \in Jobs, job' = [job EXCEPT ![w] = j],
         step \in OfATag => j.tag # NoTag,
         UNCHANGED removal,
         handler' \in [Operators -> {"off", "listening", "signalled", "taken"}]
  PROVE  OwnTyped' /\ \A v \in Operators : TagInv(v)'
<1>1. /\ pc'[w] = step /\ job'[w] = j
      /\ \A v \in Operators \ {w} : pc'[v] = pc[v] /\ job'[v] = job[v]
  BY DEF Goto, Typed, TypeOK
<1>2. TagInv(w)'
  BY <1>1 DEF TagInv
<1>3. OwnTyped'
  BY GotoTyped DEF OwnTyped, Typed, TypeOK
<1>. QED
  BY <1>1, <1>2, <1>3, TagMoves

LEMMA JobIn == ASSUME Typed, NEW w \in Operators PROVE job[w] \in Jobs
BY DEF Typed, TypeOK

LEMMA DigestTyped ==
  ASSUME ShipAssumption, Typed, NEW w \in Operators, Digest(w)
  PROVE  Typed'
<1>0. pc[w] = "digest" /\ job[w].tag \in Tags /\ UNCHANGED <<outside, spent, dir, past>>
  BY TagIn DEF Digest, OfATag
<1>1. CASE Return(w, "refused")
  <2>1. OwnTyped' /\ \A v \in Operators : TagInv(v)'
    BY <1>1, ReturnMoves DEF Outcomes
  <2>. QED
    BY <1>0, <2>1, MovesTyped DEF outside, Typed, TypeOK
<1>2. CASE ~Return(w, "refused")
  <2> DEFINE image == registry[TagRef(job[w].tag)]
             j == [job[w] EXCEPT !.image = image]
  <2>1. /\ image # NoImage /\ job' = [job EXCEPT ![w] = j]
        /\ Goto(w, "mkdir") /\ UNCHANGED <<handler, removal>>
    BY <1>2 DEF Digest
  <2>2. TagRef(job[w].tag) \in Refs
    BY <1>0, RefFacts
  <2>3. image \in Images
    BY <2>1, <2>2 DEF Typed, TypeOK
  <2> HIDE DEF image
  <2>4. j \in Jobs
    BY <2>3, JobIn, JobFields
  <2> HIDE DEF j
  <2>5. "mkdir" \in Places /\ "mkdir" \notin OfATag
    BY DEF Places, OfATag
  <2>6. OwnTyped' /\ \A v \in Operators : TagInv(v)'
    BY <2>1, <2>4, <2>5, GoesTyped DEF Typed, TypeOK
  <2>. QED
    BY <1>0, <2>6, MovesTyped DEF outside, Typed, TypeOK
<1>. QED
  BY <1>1, <1>2

LEMMA MkdirTyped ==
  ASSUME ShipAssumption, Typed, NEW w \in Operators, NEW next \in {"extract", "write"},
         next = "extract" => job[w].tag # NoTag, MkdirTemp(w, next)
  PROVE  Typed'
<1>0. UNCHANGED <<outside, spent, past>>
  BY DEF MkdirTemp
<1>1. CASE Return(w, "failed") /\ UNCHANGED dir
  <2>1. OwnTyped' /\ \A v \in Operators : TagInv(v)'
    BY <1>1, ReturnMoves DEF Outcomes
  <2>. QED
    BY <1>0, <1>1, <2>1, MovesTyped DEF outside, Typed, TypeOK
<1>2. CASE ~(Return(w, "failed") /\ UNCHANGED dir)
  <2>1. /\ dir' = [dir EXCEPT ![w] = {}]
        /\ handler' = [handler EXCEPT ![w] = "listening"]
        /\ Goto(w, next) /\ UNCHANGED <<job, removal>>
    BY <1>2 DEF MkdirTemp
  <2>2. next \in Places /\ (next \in OfATag => job[w].tag # NoTag)
    BY DEF Places, OfATag
  <2>3. job' = [job EXCEPT ![w] = job[w]] /\ job[w] \in Jobs
    BY <2>1 DEF Typed, TypeOK
  <2>4. OwnTyped' /\ \A v \in Operators : TagInv(v)'
    <3>1. handler' \in [Operators -> {"off", "listening", "signalled", "taken"}]
      BY <2>1 DEF Typed, TypeOK
    <3>. QED
      BY <2>1, <2>2, <2>3, <3>1, GoesTyped
  <2>5. dir' \in [Operators -> (SUBSET {"tree", "kubeconfig"}) \cup {Gone}]
    BY <2>1 DEF Typed, TypeOK
  <2>. QED
    BY <1>0, <2>4, <2>5, MovesTyped DEF outside, Typed, TypeOK
<1>. QED
  BY <1>1, <1>2

LEMMA ExtractTyped ==
  ASSUME ShipAssumption, Typed, NEW w \in Operators, Extract(w)
  PROVE  Typed'
<1>1. pc[w] = "extract" /\ UNCHANGED <<outside, spent, past>>
  BY DEF Extract
<1>2. OwnTyped' /\ \A v \in Operators : TagInv(v)'
  <2>1. Advance(w, "op") \/ Return(w, "failed")
    BY DEF Extract
  <2>2. "op" \in Places /\ "failed" \in Outcomes /\ pc[w] \in OfATag
    BY <1>1 DEF Outcomes, Places, Children, OfATag
  <2>3. CASE Advance(w, "op")
    BY <2>2, <2>3, AdvanceMoves
  <2>4. CASE Return(w, "failed")
    BY <2>2, <2>4, ReturnMoves
  <2>. QED
    BY <2>1, <2>3, <2>4
<1>3. dir' \in [Operators -> (SUBSET {"tree", "kubeconfig"}) \cup {Gone}]
  <2>1. dir[w] \in (SUBSET {"tree", "kubeconfig"}) \cup {Gone}
    BY DEF Typed, TypeOK
  <2>2. (dir[w] \ Gone) \cup {"tree"} \in SUBSET {"tree", "kubeconfig"}
    BY <2>1 DEF Gone
  <2>. QED
    BY <2>2 DEF Extract, Typed, TypeOK
<1>. QED
  BY <1>1, <1>2, <1>3, MovesTyped DEF outside, Typed, TypeOK

LEMMA LiveTyped ==
  ASSUME ShipAssumption, Typed, NEW w \in Operators, LiveCheck(w)
  PROVE  Typed'
<1>0. pc[w] = "live" /\ UNCHANGED <<outside, spent, dir, past>>
  BY DEF LiveCheck
<1>1. CASE Advance(w, "view") \/ Return(w, "failed")
  <2>1. OwnTyped' /\ \A v \in Operators : TagInv(v)'
    BY <1>0, <1>1, AdvanceMoves, ReturnMoves DEF Outcomes, Places, OfATag
  <2>. QED
    BY <1>0, <2>1, MovesTyped DEF outside, Typed, TypeOK
<1>2. CASE ~(Advance(w, "view") \/ Return(w, "failed"))
  <2>1. /\ job[w].tries + 1 < MaxAttempts
        /\ job' = [job EXCEPT ![w] = [job[w] EXCEPT !.tries = job[w].tries + 1]]
        /\ UNCHANGED <<pc, child, handler, removal>>
    BY <1>2 DEF LiveCheck
  <2>2. job[w].tries + 1 \in 0 .. (MaxAttempts - 1) /\ job[w] \in Jobs
    BY <2>1 DEF Typed, TypeOK, Jobs, ShipAssumption
  <2>3. job' \in [Operators -> Jobs] 
    BY <2>1, <2>2, JobFields DEF Typed, TypeOK
  <2>4. job'[w].tag = job[w].tag /\ \A v \in Operators \ {w} : job'[v] = job[v]
    BY <2>1, <2>2 DEF Typed, TypeOK, Jobs
  <2>5. \A v \in Operators : TagInv(v)'
    BY <2>1, <2>4, TagMoves DEF Typed, TagInv
  <2>. QED
    BY <1>0, <2>1, <2>3, <2>5 DEF outside, Typed, TypeOK
<1>. QED
  BY <1>1, <1>2

LEMMA CreateTyped ==
  ASSUME ShipAssumption, Typed, NEW w \in Operators, CreateRelease(w)
  PROVE  Typed'
<1>1. pc[w] = "create" /\ job[w].tag \in Tags
  BY TagIn DEF CreateRelease, OfATag
<1>2. OwnTyped' /\ \A v \in Operators : TagInv(v)'
  <2>1. Return(w, "published") \/ Return(w, "failed")
    BY DEF CreateRelease
  <2>. QED
    BY <2>1, ReturnMoves DEF Outcomes
<1>3. releases' \subseteq Tags
  BY <1>1 DEF CreateRelease, Typed, TypeOK
<1>. QED
  BY <1>2, <1>3, MovesTyped DEF CreateRelease, Typed, TypeOK

LEMMA AdminTyped ==
  ASSUME ShipAssumption, Typed, NEW w \in Operators, AdminReads(w)
  PROVE  Typed'
<1>0. UNCHANGED <<outside, spent, dir, past>>
  BY DEF AdminReads
<1>1. CASE Return(w, "refused")
  <2>1. OwnTyped' /\ \A v \in Operators : TagInv(v)'
    BY <1>1, ReturnMoves DEF Outcomes
  <2>. QED
    BY <1>0, <2>1, MovesTyped DEF outside, Typed, TypeOK
<1>2. CASE ~Return(w, "refused")
  <2> DEFINE j == [job[w] EXCEPT !.token = cluster.token]
  <2>1. job' = [job EXCEPT ![w] = j] /\ Goto(w, "mkdir") /\ UNCHANGED <<handler, removal>>
    BY <1>2 DEF AdminReads
  <2>2. cluster.token \in 0 .. MaxTokens
    BY DEF Typed, TypeOK, ShipAssumption
  <2>3. j \in Jobs
    BY <2>2, JobIn, JobFields
  <2> HIDE DEF j
  <2>4. "mkdir" \in Places /\ "mkdir" \notin OfATag
    BY DEF Places, OfATag
  <2>5. OwnTyped' /\ \A v \in Operators : TagInv(v)'
    BY <2>1, <2>3, <2>4, GoesTyped DEF Typed, TypeOK
  <2>. QED
    BY <1>0, <2>5, MovesTyped DEF outside, Typed, TypeOK
<1>. QED
  BY <1>1, <1>2

(* A credential that is written is a file of the directory. *)
LEMMA LateTyped ==
  ASSUME Typed, NEW w \in Operators, dir[w] # Gone,
         dir' = [dir EXCEPT ![w] = @ \cup {"kubeconfig"}], past' = Late(w)
  PROVE  /\ dir' \in [Operators -> (SUBSET {"tree", "kubeconfig"}) \cup {Gone}]
         /\ past' \in [touched: SUBSET Operators, late: SUBSET Operators,
                       proven: SUBSET (1 .. MaxTokens)]
BY DEF Typed, TypeOK, Late

LEMMA WriteTyped ==
  ASSUME ShipAssumption, Typed, NEW w \in Operators, WriteFile(w)
  PROVE  Typed'
<1>0. UNCHANGED <<outside, spent>>
  BY DEF WriteFile
<1>1. OwnTyped' /\ \A v \in Operators : TagInv(v)'
  <2>1. Advance(w, "dry") \/ Return(w, "failed")
    BY DEF WriteFile
  <2>. QED
    BY <2>1, AdvanceMoves, ReturnMoves DEF Outcomes, Places, Children, OfATag
<1>2. /\ dir' \in [Operators -> (SUBSET {"tree", "kubeconfig"}) \cup {Gone}]
      /\ past' \in [touched: SUBSET Operators, late: SUBSET Operators,
                    proven: SUBSET (1 .. MaxTokens)]
  <2>1. CASE dir[w] = Gone
    BY <2>1 DEF WriteFile, Typed, TypeOK
  <2>2. CASE dir[w] # Gone
    BY <2>2, LateTyped DEF WriteFile
  <2>. QED
    BY <2>1, <2>2
<1>. QED
  BY <1>0, <1>1, <1>2, MovesTyped DEF outside, Typed, TypeOK

(* A program moves no command: what it leaves typed is what it writes. *)
LEMMA AnswerTyped ==
  ASSUME Typed, NEW w \in Operators, NEW good \in BOOLEAN, Answer(w, good)
  PROVE  child' \in [Operators -> [runs: Children \cup {"none"}, ok: BOOLEAN]]
BY DEF Typed, TypeOK, Answer

LEMMA OutsideTyped ==
  ASSUME Typed, UNCHANGED <<spent, pc, handler, removal, registry, releases>>,
         cluster' \in [tree: Tags \cup {NoTag}, image: Images \cup {NoImage},
                       answers: SUBSET (Images \cup {NoImage}), token: 1 .. MaxTokens],
         document' \in 0 .. MaxTokens,
         job' \in [Operators -> Jobs],
         \A v \in Operators : job'[v].tag = job[v].tag,
         dir' \in [Operators -> (SUBSET {"tree", "kubeconfig"}) \cup {Gone}],
         child' \in [Operators -> [runs: Children \cup {"none"}, ok: BOOLEAN]],
         past' \in [touched: SUBSET Operators, late: SUBSET Operators,
                    proven: SUBSET (1 .. MaxTokens)]
  PROVE  Typed'
<1>1. \A v \in Operators : TagInv(v)'
  BY DEF Typed, TagInv
<1>. QED
  BY <1>1 DEF Typed, TypeOK

LEMMA OpReadTyped ==
  ASSUME ShipAssumption, Typed, NEW w \in Operators, OpRead(w)
  PROVE  Typed'
<1>0. UNCHANGED <<outside, spent, pc, handler, removal>>
  BY DEF OpRead
<1>1. child' \in [Operators -> [runs: Children \cup {"none"}, ok: BOOLEAN]]
  BY AnswerTyped DEF OpRead
<1>2. /\ job' \in [Operators -> Jobs] /\ \A v \in Operators : job'[v].tag = job[v].tag
      /\ dir' \in [Operators -> (SUBSET {"tree", "kubeconfig"}) \cup {Gone}]
      /\ past' \in [touched: SUBSET Operators, late: SUBSET Operators,
                    proven: SUBSET (1 .. MaxTokens)]
  <2>1. CASE UNCHANGED <<dir, job, past>>
    BY <2>1 DEF Typed, TypeOK
  <2>2. CASE ~UNCHANGED <<dir, job, past>>
    <3> DEFINE j == [job[w] EXCEPT !.token = document]
    <3>1. /\ dir[w] # Gone /\ dir' = [dir EXCEPT ![w] = @ \cup {"kubeconfig"}]
          /\ job' = [job EXCEPT ![w] = j] /\ past' = Late(w)
      BY <2>2 DEF OpRead
    <3>2. job[w] \in Jobs /\ document \in 0 .. MaxTokens
      BY DEF Typed, TypeOK
    <3>3. j \in Jobs /\ j.tag = job[w].tag
      <4>1. j \in Jobs
        BY <3>2, JobFields
      <4>. QED
        BY <4>1, <3>2 DEF Jobs
    <3> HIDE DEF j
    <3>4. job' \in [Operators -> Jobs] /\ \A v \in Operators : job'[v].tag = job[v].tag
      BY <3>1, <3>3 DEF Typed, TypeOK
    <3>. QED
      BY <3>1, <3>4, LateTyped
  <2>. QED
    BY <2>1, <2>2
<1>. QED
  BY <1>0, <1>1, <1>2, OutsideTyped DEF outside, Typed, TypeOK

LEMMA OvertakesTyped ==
  ASSUME Typed, NEW w \in Operators
  PROVE  /\ Overtakes(w) \in [touched: SUBSET Operators, late: SUBSET Operators,
                              proven: SUBSET (1 .. MaxTokens)]
         /\ Overtakes(w).touched = past.touched \cup (Operators \ {w})
         /\ Overtakes(w).late = past.late /\ Overtakes(w).proven = past.proven
BY DEF Typed, TypeOK, Overtakes

LEMMA ApplyTyped ==
  ASSUME ShipAssumption, Typed, NEW w \in Operators, Apply(w)
  PROVE  Typed'
<1>0. UNCHANGED <<registry, document, releases, spent, pc, job, dir, handler, removal>>
  BY DEF Apply
<1>1. CASE Answer(w, FALSE) /\ UNCHANGED <<cluster, past>>
  BY <1>0, <1>1, AnswerTyped, OutsideTyped DEF Typed, TypeOK
<1>2. CASE ~(Answer(w, FALSE) /\ UNCHANGED <<cluster, past>>)
  <2>1. PICK i \in {cluster.image, NoImage}, good \in BOOLEAN, tree \in {job[w].tag, NoTag} :
          /\ cluster' = [cluster EXCEPT !.tree = tree, !.image = i]
          /\ past' = [Overtakes(w) EXCEPT !.touched = @ \ {w}]
          /\ Answer(w, good)
    BY <1>2 DEF Apply
  <2>2. tree \in Tags \cup {NoTag} /\ i \in Images \cup {NoImage}
    BY DEF Typed, TypeOK, Jobs
  <2>3. cluster' \in [tree: Tags \cup {NoTag}, image: Images \cup {NoImage},
                      answers: SUBSET (Images \cup {NoImage}), token: 1 .. MaxTokens]
    BY <2>1, <2>2 DEF Typed, TypeOK
  <2>4. past' \in [touched: SUBSET Operators, late: SUBSET Operators,
                   proven: SUBSET (1 .. MaxTokens)]
    BY <2>1, OvertakesTyped
  <2>5. child' \in [Operators -> [runs: Children \cup {"none"}, ok: BOOLEAN]]
    BY <2>1, AnswerTyped
  <2>. QED
    BY <1>0, <2>3, <2>4, <2>5, OutsideTyped DEF Typed, TypeOK
<1>. QED
  BY <1>1, <1>2

LEMMA SetTyped ==
  ASSUME ShipAssumption, Typed, NEW w \in Operators, SetImage(w)
  PROVE  Typed'
<1>0. UNCHANGED <<registry, document, releases, spent, pc, job, dir, handler, removal>>
  BY DEF SetImage
<1>1. child' \in [Operators -> [runs: Children \cup {"none"}, ok: BOOLEAN]]
  BY AnswerTyped DEF SetImage
<1>2. job[w].image \in Images \cup {NoImage}
  BY DEF Typed, TypeOK, Jobs
<1>3. cluster' \in [tree: Tags \cup {NoTag}, image: Images \cup {NoImage},
                    answers: SUBSET (Images \cup {NoImage}), token: 1 .. MaxTokens]
  BY <1>2 DEF SetImage, Typed, TypeOK
<1>4. past' \in [touched: SUBSET Operators, late: SUBSET Operators,
                 proven: SUBSET (1 .. MaxTokens)]
  <2>1. past' = Overtakes(w) \/ past' = past
    BY DEF SetImage
  <2>2. past \in [touched: SUBSET Operators, late: SUBSET Operators,
                  proven: SUBSET (1 .. MaxTokens)]
    BY DEF Typed, TypeOK
  <2>. QED
    BY <2>1, <2>2, OvertakesTyped
<1>. QED
  BY <1>0, <1>1, <1>3, <1>4, OutsideTyped DEF Typed, TypeOK

LEMMA DryTyped ==
  ASSUME ShipAssumption, Typed, NEW w \in Operators, DryRun(w)
  PROVE  Typed'
<1>0. UNCHANGED <<outside, spent, pc, job, dir, handler, removal>>
  BY DEF DryRun
<1>1. child' \in [Operators -> [runs: Children \cup {"none"}, ok: BOOLEAN]]
  BY AnswerTyped DEF DryRun
<1>2. past' \in [touched: SUBSET Operators, late: SUBSET Operators,
                 proven: SUBSET (1 .. MaxTokens)]
  <2>1. CASE UNCHANGED past
    BY <2>1 DEF Typed, TypeOK
  <2>2. CASE ~UNCHANGED past
    <3>1. Admitted(w) /\ past' = [past EXCEPT !.proven = @ \cup {job[w].token}]
      BY <2>2 DEF DryRun
    <3>2. job[w].token \in 1 .. MaxTokens
      BY <3>1 DEF Admitted, Typed, TypeOK
    <3>. QED
      BY <3>1, <3>2 DEF Typed, TypeOK
  <2>. QED
    BY <2>1, <2>2
<1>. QED
  BY <1>0, <1>1, <1>2, OutsideTyped DEF outside, Typed, TypeOK

LEMMA StoreTyped ==
  ASSUME ShipAssumption, Typed, NEW w \in Operators, Store(w)
  PROVE  Typed'
<1>0. UNCHANGED <<registry, cluster, releases, spent, pc, job, dir, handler, removal, past>>
  BY DEF Store
<1>1. child' \in [Operators -> [runs: Children \cup {"none"}, ok: BOOLEAN]]
  BY AnswerTyped DEF Store
<1>2. document' \in 0 .. MaxTokens
  <2>1. job[w].token \in 0 .. MaxTokens /\ document \in 0 .. MaxTokens
    BY DEF Typed, TypeOK, Jobs
  <2>2. document' = job[w].token \/ document' = document
    BY DEF Store
  <2>. QED
    BY <2>1, <2>2
<1>. QED
  BY <1>0, <1>1, <1>2, OutsideTyped DEF Typed, TypeOK

LEMMA ReadBackTyped ==
  ASSUME ShipAssumption, Typed, NEW w \in Operators, ReadBack(w)
  PROVE  Typed'
<1>0. UNCHANGED <<outside, spent, pc, job, handler, removal>>
  BY DEF ReadBack
<1>1. child' \in [Operators -> [runs: Children \cup {"none"}, ok: BOOLEAN]]
  <2>1. (document = job[w].token) \in BOOLEAN
    OBVIOUS
  <2>. QED
    BY <2>1, AnswerTyped DEF ReadBack
<1>2. /\ dir' \in [Operators -> (SUBSET {"tree", "kubeconfig"}) \cup {Gone}]
      /\ past' \in [touched: SUBSET Operators, late: SUBSET Operators,
                    proven: SUBSET (1 .. MaxTokens)]
  <2>1. CASE UNCHANGED <<dir, past>>
    BY <2>1 DEF Typed, TypeOK
  <2>2. CASE ~UNCHANGED <<dir, past>>
    BY <2>2, LateTyped DEF ReadBack
  <2>. QED
    BY <2>1, <2>2
<1>. QED
  BY <1>0, <1>1, <1>2, OutsideTyped DEF outside, Typed, TypeOK

LEMMA ProgramTyped ==
  ASSUME ShipAssumption, Typed, NEW w \in Operators, Program(w)
  PROVE  Typed'
BY OpReadTyped, ApplyTyped, SetTyped, DryTyped, StoreTyped, ReadBackTyped DEF Program

LEMMA EndMoves ==
  ASSUME ShipAssumption, Typed, NEW w \in Operators, NEW how \in Outcomes, End(w, how),
         UNCHANGED <<outside, spent, dir, child, past>>
  PROVE  Typed'
<1>1. pc'[w] = how /\ \A v \in Operators \ {w} : pc'[v] = pc[v] /\ job'[v] = job[v]
  BY DEF End, Typed, TypeOK
<1>2. TagInv(w)'
  BY <1>1 DEF TagInv, OfATag, Outcomes
<1>. QED
  BY <1>1, <1>2, EndTyped, TagMoves DEF outside, Typed, TypeOK

LEMMA GuardTyped ==
  ASSUME ShipAssumption, Typed, NEW w \in Operators, Guard(w)
  PROVE  Typed'
<1>1. CASE RemoveEntries(w) \/ RemoveDir(w)
  <2>1. UNCHANGED <<outside, spent, pc, job, handler, child, past>>
    BY <1>1 DEF RemoveEntries, RemoveDir
  <2>2. /\ dir' \in [Operators -> (SUBSET {"tree", "kubeconfig"}) \cup {Gone}]
        /\ removal' \in [Operators -> {"no", "busy", "gone", "failed"}]
    <3>1. dir \in [Operators -> (SUBSET {"tree", "kubeconfig"}) \cup {Gone}]
          /\ removal \in [Operators -> {"no", "busy", "gone", "failed"}]
      BY DEF Typed, TypeOK
    <3>2. \/ dir' = [dir EXCEPT ![w] = {}]
          \/ dir' = [dir EXCEPT ![w] = Gone]
          \/ dir' = dir
      BY <1>1 DEF RemoveEntries, RemoveDir
    <3>3. \E r \in {"busy", "gone", "failed"} : removal' = [removal EXCEPT ![w] = r]
      BY <1>1 DEF RemoveEntries, RemoveDir
    <3>4. dir' \in [Operators -> (SUBSET {"tree", "kubeconfig"}) \cup {Gone}]
      BY <3>1, <3>2
    <3>. QED
      BY <3>1, <3>3, <3>4
  <2>. QED
    BY <2>1, <2>2 DEF outside, Typed, TypeOK, TagInv
<1>2. CASE Removed(w)
  <2>1. "unlisten" \in Places /\ "unlisten" \notin OfATag
    BY DEF Places, OfATag
  <2>2. Advance(w, "unlisten") /\ UNCHANGED <<outside, spent, dir, past>>
    BY <1>2 DEF Removed, Advance, held
  <2>3. OwnTyped' /\ \A v \in Operators : TagInv(v)'
    BY <2>1, <2>2, AdvanceMoves
  <2>. QED
    BY <2>2, <2>3, MovesTyped DEF outside, Typed, TypeOK
<1>3. CASE Unlisten(w)
  <2>1. Outcome(w) \in Outcomes
    BY DEF Outcome, Outcomes
  <2>. QED
    BY <1>3, <2>1, EndMoves DEF Unlisten
<1>4. CASE Interrupt(w) \/ TakeSignal(w)
  <2>1. UNCHANGED <<outside, spent, pc, job, dir, removal, child, past>>
    BY <1>4 DEF Interrupt, TakeSignal
  <2>2. handler' \in [Operators -> {"off", "listening", "signalled", "taken"}]
    BY <1>4 DEF Interrupt, TakeSignal, Typed, TypeOK
  <2>. QED
    BY <2>1, <2>2 DEF outside, Typed, TypeOK, TagInv
<1>5. CASE ExitOnSignal(w) \/ Killed(w)
  BY <1>5, EndMoves DEF ExitOnSignal, Killed, Outcomes
<1>. QED
  BY <1>1, <1>2, <1>3, <1>4, <1>5 DEF Guard

LEMMA ElsewhereTyped ==
  ASSUME ShipAssumption, Typed, Roll \/ Rotate
  PROVE  Typed'
<1>1. UNCHANGED <<registry, document, releases, spent, own, past>>
  BY DEF Roll, Rotate
<1>2. cluster' \in [tree: Tags \cup {NoTag}, image: Images \cup {NoImage},
                    answers: SUBSET (Images \cup {NoImage}), token: 1 .. MaxTokens]
  <2>1. CASE Roll
    BY <2>1 DEF Roll, Typed, TypeOK
  <2>2. CASE Rotate
    <3>1. cluster.token + 1 \in 1 .. MaxTokens
      BY <2>2 DEF Rotate, Typed, TypeOK, ShipAssumption
    <3>. QED
      BY <2>2, <3>1 DEF Rotate, Typed, TypeOK
  <2>. QED
    BY <2>1, <2>2
<1>. QED
  BY <1>1, <1>2 DEF own, Typed, TypeOK, TagInv

LEMMA NextTyped == ShipAssumption /\ Typed /\ [Next]_vars => Typed'
<1> SUFFICES ASSUME ShipAssumption, Typed, [Next]_vars PROVE Typed'
  OBVIOUS
<1>1. ASSUME NEW w \in Operators, Push(w) PROVE Typed'
  BY <1>1, BeginsTyped, BuildTyped, PushTyped DEF Push
<1>2. ASSUME NEW w \in Operators, Deploy(w) PROVE Typed'
  BY <1>2, BeginsTyped, PlainTyped, DigestTyped, ExtractTyped, MkdirTyped, LiveTyped DEF Deploy
<1>3. ASSUME NEW w \in Operators, PublishRelease(w) PROVE Typed'
  BY <1>3, BeginsTyped, PlainTyped, CreateTyped DEF PublishRelease
<1>4. ASSUME NEW w \in Operators, DeployCredential(w) PROVE Typed'
  BY <1>4, BeginsTyped, PlainTyped, AdminTyped, WriteTyped, MkdirTyped DEF DeployCredential
<1>5. ASSUME NEW w \in Operators, Program(w) \/ Guard(w) PROVE Typed'
  BY <1>5, ProgramTyped, GuardTyped
<1>6. CASE UNCHANGED vars
  BY <1>6 DEF vars, Typed, TypeOK, TagInv
<1>. QED
  BY <1>1, <1>2, <1>3, <1>4, <1>5, <1>6, ElsewhereTyped DEF Next

-----------------------------------------------------------------------------
(* Where a command is, what it runs and who removes its directory *)

(* What a step of one operator leaves of the others. *)
OthersStay(w) ==
  \A v \in Operators \ {w} :
    /\ pc'[v] = pc[v] /\ job'[v] = job[v] /\ dir'[v] = dir[v]
    /\ handler'[v] = handler[v] /\ removal'[v] = removal[v] /\ child'[v] = child[v]

Acts(w) == Push(w) \/ Deploy(w) \/ PublishRelease(w) \/ DeployCredential(w)
             \/ Program(w) \/ Guard(w)

LEMMA ReturnAt ==
  ASSUME Typed, NEW w \in Operators, NEW how, Return(w, how)
  PROVE  /\ pc' = [pc EXCEPT ![w] = IF handler[w] = "off" THEN how ELSE "remove"]
         /\ UNCHANGED <<child>> /\ handler'[w] = handler[w]
         /\ removal'[w] = IF handler[w] = "off" THEN "no" ELSE removal[w]
         /\ \A v \in Operators \ {w} : job'[v] = job[v] /\ handler'[v] = handler[v]
                                       /\ removal'[v] = removal[v]
<1>1. CASE handler[w] = "off"
  BY <1>1 DEF Return, End, Typed, TypeOK
<1>2. CASE handler[w] # "off"
  <2>1. child' = child
    BY <1>2 DEF Return, Goto, Typed, TypeOK, Children
  <2>. QED
    BY <1>2, <2>1 DEF Return, Goto, Typed, TypeOK
<1>. QED
  BY <1>1, <1>2

LEMMA GotoAt ==
  ASSUME Typed, NEW w \in Operators, NEW step, Goto(w, step)
  PROVE  /\ pc' = [pc EXCEPT ![w] = step]
         /\ pc'[w] = step
         /\ step \in Children => child'[w].runs = step
         /\ step \notin Children => child'[w] = child[w]
         /\ \A v \in Operators \ {w} : child'[v] = child[v]
<1>1. pc' = [pc EXCEPT ![w] = step] /\ pc'[w] = step
  BY DEF Goto, Typed, TypeOK
<1>2. /\ step \in Children => child'[w].runs = step
      /\ step \notin Children => child'[w] = child[w]
      /\ \A v \in Operators \ {w} : child'[v] = child[v]
  BY DEF Goto, NoChild, Typed, TypeOK
<1>. QED
  BY <1>1, <1>2

LEMMA ReturnOthers ==
  ASSUME Typed, NEW w \in Operators, NEW how, Return(w, how), UNCHANGED dir
  PROVE  OthersStay(w)
BY ReturnAt DEF OthersStay, Typed, TypeOK

(* Each move of a command sets functions at that command alone. *)
LEMMA GoesOthers ==
  ASSUME Typed, NEW w \in Operators, NEW step, Goto(w, step), NEW j, NEW d, NEW h,
         job' = [job EXCEPT ![w] = j] \/ UNCHANGED job,
         dir' = [dir EXCEPT ![w] = d] \/ UNCHANGED dir,
         handler' = [handler EXCEPT ![w] = h] \/ UNCHANGED handler,
         UNCHANGED removal
  PROVE  OthersStay(w)
<1>1. \A v \in Operators \ {w} : pc'[v] = pc[v] /\ child'[v] = child[v]
  <2>1. pc' = [pc EXCEPT ![w] = step] /\ \A v \in Operators \ {w} : child'[v] = child[v]
    BY GotoAt
  <2>. QED
    BY <2>1 DEF Typed, TypeOK
<1>2. \A v \in Operators \ {w} : job'[v] = job[v]
  BY DEF Typed, TypeOK
<1>3. \A v \in Operators \ {w} : dir'[v] = dir[v]
  BY DEF Typed, TypeOK
<1>4. \A v \in Operators \ {w} : handler'[v] = handler[v]
  BY DEF Typed, TypeOK
<1>. QED
  BY <1>1, <1>2, <1>3, <1>4 DEF OthersStay

LEMMA BeginOthers ==
  ASSUME Typed, NEW w \in Operators, NEW command, NEW step, Begin(w, command, step),
         NEW j, job' = [job EXCEPT ![w] = j]
  PROVE  OthersStay(w)
BY GoesOthers DEF Begin

LEMMA AdvanceOthers ==
  ASSUME Typed, NEW w \in Operators, NEW step, Advance(w, step), NEW d,
         dir' = [dir EXCEPT ![w] = d] \/ UNCHANGED dir
  PROVE  OthersStay(w)
BY GoesOthers DEF Advance, held

LEMMA OnlyOwn ==
  ASSUME Typed, NEW w \in Operators, Acts(w)
  PROVE  OthersStay(w)
<1>1. CASE Push(w)
  <2>1. CASE BeginPush(w)
    BY <2>1, BeginOthers DEF BeginPush, OfTag
  <2>2. CASE BuildImage(w) /\ Return(w, "failed")
    BY <2>2, ReturnOthers DEF BuildImage
  <2>3. CASE BuildImage(w) /\ ~Return(w, "failed")
    <3>1. \E j : job' = [job EXCEPT ![w] = j]
      BY <2>3 DEF BuildImage
    <3>. QED
      BY <2>3, <3>1, GoesOthers DEF BuildImage
  <2>4. CASE PushRef(w) /\ Return(w, "failed")
    BY <2>4, ReturnOthers DEF PushRef
  <2>5. CASE PushRef(w) /\ ~Return(w, "failed")
    BY <2>5 DEF PushRef, OthersStay, Typed, TypeOK
  <2>6. CASE PushEnds(w)
    BY <2>6, ReturnOthers DEF PushEnds
  <2>. QED
    BY <1>1, <2>1, <2>2, <2>3, <2>4, <2>5, <2>6 DEF Push
<1>2. CASE Deploy(w)
  <2>1. CASE BeginDeploy(w)
    BY <2>1, BeginOthers DEF BeginDeploy, OfTag
  <2>2. CASE CommitOfTag(w)
    BY <2>2, AdvanceOthers, ReturnOthers DEF CommitOfTag
  <2>3. CASE Digest(w) /\ Return(w, "refused")
    BY <2>3, ReturnOthers DEF Digest
  <2>4. CASE Digest(w) /\ ~Return(w, "refused")
    BY <2>4, GoesOthers DEF Digest
  <2>5. CASE Extract(w)
    <3>1. dir' = [dir EXCEPT ![w] = (dir[w] \ Gone) \cup {"tree"}]
      BY <2>5 DEF Extract
    <3>2. CASE Advance(w, "op")
      BY <3>1, <3>2, AdvanceOthers
    <3>3. CASE Return(w, "failed")
      BY <3>1, <3>3, ReturnAt DEF OthersStay, Typed, TypeOK
    <3>. QED
      BY <2>5, <3>2, <3>3 DEF Extract
  <2>6. CASE MkdirTemp(w, "extract") /\ Return(w, "failed") /\ UNCHANGED dir
    BY <2>6, ReturnOthers
  <2>7. CASE MkdirTemp(w, "extract") /\ ~(Return(w, "failed") /\ UNCHANGED dir)
    BY <2>7, GoesOthers DEF MkdirTemp
  <2>8. CASE ProgramAnswers(w)
    BY <2>8, AdvanceOthers, ReturnOthers DEF ProgramAnswers
  <2>9. CASE Script(w)
    BY <2>9, AdvanceOthers, ReturnOthers DEF Script
  <2>10. CASE RolloutStatus(w)
    BY <2>10, AdvanceOthers, ReturnOthers DEF RolloutStatus
  <2>11. CASE LiveCheck(w) /\ (Advance(w, "view") \/ Return(w, "failed"))
    BY <2>11, AdvanceOthers, ReturnOthers DEF LiveCheck
  <2>12. CASE LiveCheck(w) /\ ~(Advance(w, "view") \/ Return(w, "failed"))
    BY <2>12 DEF LiveCheck, OthersStay, Typed, TypeOK
  <2>. QED
    BY <1>2, <2>1, <2>2, <2>3, <2>4, <2>5, <2>6, <2>7, <2>8, <2>9, <2>10, <2>11, <2>12 DEF Deploy
<1>3. CASE PublishRelease(w)
  <2>1. CASE BeginPublish(w)
    BY <2>1, BeginOthers DEF BeginPublish, OfTag
  <2>2. CASE ViewRelease(w)
    BY <2>2, AdvanceOthers, ReturnOthers DEF ViewRelease
  <2>3. CASE CreateRelease(w)
    BY <2>3, ReturnOthers DEF CreateRelease
  <2>. QED
    BY <1>3, <2>1, <2>2, <2>3 DEF PublishRelease
<1>4. CASE DeployCredential(w)
  <2>1. CASE BeginCredential(w)
    BY <2>1, BeginOthers DEF BeginCredential
  <2>2. CASE AdminReads(w) /\ Return(w, "refused")
    BY <2>2, ReturnOthers DEF AdminReads
  <2>3. CASE AdminReads(w) /\ ~Return(w, "refused")
    <3>1. job' = [job EXCEPT ![w] = [job[w] EXCEPT !.token = cluster.token]]
      BY <2>3 DEF AdminReads
    <3>. QED
      BY <2>3, <3>1, GoesOthers DEF AdminReads
  <2>4. CASE WriteFile(w) /\ dir[w] = Gone
    BY <2>4, ReturnOthers DEF WriteFile
  <2>5. CASE WriteFile(w) /\ dir[w] # Gone
    BY <2>5, AdvanceOthers DEF WriteFile
  <2>6. CASE CredentialAnswers(w)
    BY <2>6, AdvanceOthers, ReturnOthers DEF CredentialAnswers
  <2>7. CASE MkdirTemp(w, "write") /\ Return(w, "failed") /\ UNCHANGED dir
    BY <2>7, ReturnOthers
  <2>8. CASE MkdirTemp(w, "write") /\ ~(Return(w, "failed") /\ UNCHANGED dir)
    BY <2>8, GoesOthers DEF MkdirTemp
  <2>. QED
    BY <1>4, <2>1, <2>2, <2>3, <2>4, <2>5, <2>6, <2>7, <2>8 DEF DeployCredential
<1>5. CASE Program(w)
  <2>1. UNCHANGED <<pc, handler, removal>>
    BY <1>5 DEF Program, OpRead, Apply, SetImage, DryRun, Store, ReadBack
  <2>2. \A v \in Operators \ {w} : child'[v] = child[v]
    BY <1>5 DEF Program, OpRead, Apply, SetImage, DryRun, Store, ReadBack, Answer, Typed, TypeOK
  <2>3. \A v \in Operators \ {w} : job'[v] = job[v] /\ dir'[v] = dir[v]
    BY <1>5 DEF Program, OpRead, Apply, SetImage, DryRun, Store, ReadBack, Typed, TypeOK
  <2>. QED
    BY <2>1, <2>2, <2>3 DEF OthersStay
<1>6. CASE Guard(w)
  <2>1. CASE Removed(w)
    <3>1. Goto(w, "unlisten") /\ UNCHANGED <<job, dir, handler, removal>>
      BY <2>1 DEF Removed
    <3>. QED
      BY <3>1, GoesOthers
  <2>2. CASE Unlisten(w) \/ ExitOnSignal(w) \/ Killed(w)
    <3>1. UNCHANGED <<dir, child>> /\ \E how : End(w, how)
      BY <2>2 DEF Unlisten, ExitOnSignal, Killed
    <3>2. \A v \in Operators \ {w} : pc'[v] = pc[v] /\ handler'[v] = handler[v]
      BY <3>1 DEF End, Typed, TypeOK
    <3>3. \A v \in Operators \ {w} : removal'[v] = removal[v]
      BY <3>1 DEF End, Typed, TypeOK
    <3>4. \A v \in Operators \ {w} : job'[v] = job[v]
      BY <3>1 DEF End, Typed, TypeOK
    <3>. QED
      BY <3>1, <3>2, <3>3, <3>4 DEF OthersStay
  <2>3. CASE RemoveEntries(w) \/ RemoveDir(w)
    <3>1. UNCHANGED <<pc, job, handler, child>>
      BY <2>3 DEF RemoveEntries, RemoveDir
    <3>2. \A v \in Operators \ {w} : dir'[v] = dir[v]
      BY <2>3 DEF RemoveEntries, RemoveDir, Typed, TypeOK
    <3>3. \A v \in Operators \ {w} : removal'[v] = removal[v]
      BY <2>3 DEF RemoveEntries, RemoveDir, Typed, TypeOK
    <3>. QED
      BY <3>1, <3>2, <3>3 DEF OthersStay
  <2>4. CASE Interrupt(w) \/ TakeSignal(w)
    BY <2>4 DEF Interrupt, TakeSignal, OthersStay, Typed, TypeOK
  <2>. QED
    BY <1>6, <2>1, <2>2, <2>3, <2>4 DEF Guard
<1>. QED
  BY <1>1, <1>2, <1>3, <1>4, <1>5, <1>6 DEF Acts

(* A return of a command that goes on, and whose program has answered. *)
LEMMA ReturnOwn ==
  ASSUME Typed, NEW w \in Operators, OwnInv(w), NEW how \in Outcomes \ {"deployed"},
         Return(w, how), ~Ended(w), child[w].runs = "none"
  PROVE  OwnInv(w)'
<1>1. pc'[w] = IF handler[w] = "off" THEN how ELSE "remove"
  BY ReturnAt DEF Typed, TypeOK
<1>2. /\ handler'[w] = handler[w] /\ child'[w] = child[w]
      /\ removal'[w] = IF handler[w] = "off" THEN "no" ELSE removal[w]
  BY ReturnAt
<1>3. handler[w] = "off" => removal[w] = "no"
  BY DEF OwnInv, GuardInv
<1>4. how \notin Outside /\ how \notin Inside /\ "remove" \in Inside /\ "remove" \notin Outside
      /\ "remove" \notin Outcomes
  BY DEF Outside, Inside, Outcomes
<1>5. GuardInv(w)'
  BY <1>1, <1>2, <1>3, <1>4 DEF GuardInv, Ended
<1>6. ChildInv(w)'
  BY <1>1, <1>2, <1>4 DEF ChildInv, Ended
<1>7. RemovalInv(w)'
  BY <1>1, <1>2, <1>4 DEF RemovalInv, OwnInv, Outcomes
<1>. QED
  BY <1>5, <1>6, <1>7 DEF OwnInv

(* A step on, to a place of the same kind. *)
Kept(w) == handler'[w] = handler[w] /\ removal'[w] = removal[w]
LEMMA GoesOwn ==
  ASSUME Typed, NEW w \in Operators, OwnInv(w),
         NEW step \in Places \ (Outcomes \cup {"remove", "unlisten"}),
         Goto(w, step), Kept(w), ~Ended(w),
         pc[w] \notin {"remove", "unlisten"}, child[w].runs = "none",
         step \in Outside => handler[w] = "off",
         step \in Inside => handler[w] # "off",
         handler[w] = "off" => dir'[w] = dir[w]
  PROVE  OwnInv(w)'
<1>1. pc'[w] = step
  BY GotoAt
<1>2. child'[w].runs \in {step, "none"}
  BY GotoAt
<1>3. GuardInv(w)'
  BY <1>1 DEF GuardInv, OwnInv, Ended, Kept
<1>4. ChildInv(w)'
  BY <1>1, <1>2 DEF ChildInv, Outcomes
<1>5. RemovalInv(w)'
  BY <1>1 DEF RemovalInv, OwnInv, Kept
<1>. QED
  BY <1>3, <1>4, <1>5 DEF OwnInv

LEMMA BeginOwn ==
  ASSUME Typed, NEW w \in Operators, OwnInv(w), NEW command,
         NEW step \in {"build", "resolve", "view", "admin"}, Begin(w, command, step)
  PROVE  OwnInv(w)'
<1>1. Goto(w, step) /\ Ended(w) /\ child[w].runs = "none" /\ UNCHANGED <<handler, removal>>
      /\ dir'[w] = Gone
  BY DEF Begin, Typed, TypeOK
<1>2. pc'[w] = step /\ child'[w].runs = "none"
  BY <1>1, GotoAt DEF Children
<1>3. handler'[w] = "off" /\ removal'[w] = "no"
  BY <1>1 DEF OwnInv, GuardInv
<1>. QED
  BY <1>1, <1>2, <1>3 DEF OwnInv, GuardInv, ChildInv, RemovalInv, Inside, Ended, Outcomes

(* What a place says of who listens and what runs. *)
LEMMA PlaceFacts ==
  ASSUME Typed, NEW w \in Operators, OwnInv(w)
  PROVE  /\ pc[w] \in Outside \cup Inside \cup {"view", "create"} => ~Ended(w)
         /\ pc[w] \in {"build", "push", "resolve", "digest", "mkdir", "extract", "preflight",
                       "status", "after", "live", "view", "create", "admin", "write",
                       "remove", "unlisten"} => child[w].runs = "none"
         /\ pc[w] \in Outside => handler[w] = "off"
         /\ pc[w] \in Inside => handler[w] # "off"
<1>1. (Outside \cup Inside \cup {"view", "create"}) \cap Outcomes = {}
  BY DEF Outside, Inside, Outcomes
<1>2. pc[w] \in Outside \cup Inside \cup {"view", "create"} => ~Ended(w)
  BY <1>1 DEF Ended
<1>3. {"build", "push", "resolve", "digest", "mkdir", "extract", "preflight", "status", "after",
       "live", "view", "create", "admin", "write", "remove", "unlisten"}
         \subseteq Outside \cup Inside \cup {"view", "create"}
  BY DEF Outside, Inside
<1>4. child[w].runs \in Children \cup {"none"}
  BY DEF Typed, TypeOK
<1>. QED
  BY <1>2, <1>3, <1>4 DEF OwnInv, GuardInv, ChildInv, Children

LEMMA AdvanceOwn ==
  ASSUME Typed, NEW w \in Operators, OwnInv(w),
         NEW step \in Places \ (Outcomes \cup {"remove", "unlisten"}),
         Advance(w, step), ~Ended(w),
         pc[w] \notin {"remove", "unlisten"}, child[w].runs = "none",
         step \in Outside => handler[w] = "off",
         step \in Inside => handler[w] # "off",
         handler[w] = "off" => dir'[w] = dir[w]
  PROVE  OwnInv(w)'
BY GoesOwn DEF Advance, Kept, held

LEMMA StillOwn ==
  ASSUME NEW w \in Operators, OwnInv(w),
         pc'[w] = pc[w], child'[w] = child[w], handler'[w] = handler[w],
         removal'[w] = removal[w], dir'[w] = dir[w]
  PROVE  OwnInv(w)'
BY DEF OwnInv, GuardInv, ChildInv, RemovalInv, Ended

LEMMA PushOwn ==
  ASSUME Typed, NEW w \in Operators, OwnInv(w), Push(w)
  PROVE  OwnInv(w)'
<1>1. CASE BeginPush(w)
  BY <1>1, BeginOwn DEF BeginPush
<1>2. CASE ~BeginPush(w)
  <2>1. pc[w] \in {"build", "push"}
    BY <1>2 DEF Push, BuildImage, PushRef, PushEnds
  <2>2. ~Ended(w) /\ child[w].runs = "none" /\ handler[w] = "off"
    BY <2>1, PlaceFacts DEF Outside
  <2>3. dir' = dir
    BY <1>2 DEF Push, BuildImage, PushRef, PushEnds
  <2>4. CASE \E how \in {"failed", "pushed"} : Return(w, how)
    BY <2>2, <2>4, ReturnOwn DEF Outcomes
  <2>5. CASE Goto(w, "push") /\ UNCHANGED <<handler, removal>>
    <3>1. "push" \in Places \ (Outcomes \cup {"remove", "unlisten"}) /\ "push" \notin Inside
      BY DEF Places, Outcomes, Inside
    <3>. QED
      BY <2>1, <2>2, <2>3, <2>5, <3>1, GoesOwn DEF Kept
  <2>6. CASE UNCHANGED <<pc, child, handler, removal>>
    BY <2>3, <2>6, StillOwn
  <2>. QED
    BY <1>2, <2>4, <2>5, <2>6 DEF Push, BuildImage, PushRef, PushEnds
<1>. QED
  BY <1>1, <1>2

(* The steps that leave the directory, and go on or return. *)
LEMMA PlainOwn ==
  ASSUME Typed, NEW w \in Operators, OwnInv(w),
         \/ CommitOfTag(w) \/ Digest(w) \/ Script(w) \/ ProgramAnswers(w) \/ RolloutStatus(w)
         \/ LiveCheck(w) \/ ViewRelease(w) \/ CreateRelease(w) \/ AdminReads(w)
         \/ CredentialAnswers(w)
  PROVE  OwnInv(w)'
<1>1. dir' = dir /\ child[w].runs = "none" /\ ~Ended(w) /\ pc[w] \notin {"remove", "unlisten"}
  <2>1. /\ dir' = dir
        /\ \/ pc[w] \in {"resolve", "digest", "preflight", "after", "status", "live", "view",
                         "create", "admin"}
           \/ pc[w] \in {"op", "apply", "set", "dry", "store", "back"} /\ child[w].runs = "none"
    BY DEF CommitOfTag, Digest, Script, ProgramAnswers, RolloutStatus, LiveCheck, ViewRelease,
           CreateRelease, AdminReads, CredentialAnswers
  <2>. QED
    BY <2>1, PlaceFacts DEF Outside, Inside
<1>2. ASSUME NEW how \in {"failed", "refused", "published", "stored"}, Return(w, how)
      PROVE  OwnInv(w)'
  BY <1>1, <1>2, ReturnOwn DEF Outcomes
<1>3. ASSUME NEW step, Goto(w, step), UNCHANGED <<handler, removal>>,
             \/ step \in {"digest", "mkdir"} /\ handler[w] = "off"
             \/ step \in {"preflight", "apply", "set", "status", "after", "live", "store", "back"}
                  /\ handler[w] # "off"
             \/ step \in {"view", "create"}
      PROVE  OwnInv(w)'
  <2>1. step \in Places \ (Outcomes \cup {"remove", "unlisten"})
    BY <1>3 DEF Places, Children, Outcomes
  <2>2. (step \in Outside => handler[w] = "off") /\ (step \in Inside => handler[w] # "off")
    BY <1>3 DEF Outside, Inside
  <2>. QED
    BY <1>1, <1>3, <2>1, <2>2, GoesOwn DEF Kept
<1>4. ASSUME NEW step, Advance(w, step),
             \/ step \in {"digest", "mkdir"} /\ handler[w] = "off"
             \/ step \in {"preflight", "apply", "set", "status", "after", "live", "store", "back"}
                  /\ handler[w] # "off"
             \/ step \in {"view", "create"}
      PROVE  OwnInv(w)'
  BY <1>3, <1>4 DEF Advance, held
<1>5. CASE CommitOfTag(w)
  BY <1>2, <1>4, <1>5, PlaceFacts DEF CommitOfTag, Outside
<1>6. CASE Digest(w)
  BY <1>2, <1>3, <1>6, PlaceFacts DEF Digest, Outside
<1>7. CASE Script(w)
  BY <1>2, <1>4, <1>7, PlaceFacts, StepAfterTyped DEF Script, Inside
<1>8. CASE ProgramAnswers(w)
  BY <1>2, <1>4, <1>8, PlaceFacts, StepAfterTyped DEF ProgramAnswers, Inside
<1>9. CASE RolloutStatus(w)
  BY <1>2, <1>4, <1>9, PlaceFacts DEF RolloutStatus, Inside
<1>10. CASE LiveCheck(w)
  BY <1>1, <1>2, <1>4, <1>10, StillOwn DEF LiveCheck
<1>11. CASE ViewRelease(w)
  BY <1>2, <1>4, <1>11 DEF ViewRelease
<1>12. CASE CreateRelease(w)
  BY <1>2, <1>12 DEF CreateRelease
<1>13. CASE AdminReads(w)
  BY <1>2, <1>3, <1>13, PlaceFacts DEF AdminReads, Outside
<1>14. CASE CredentialAnswers(w)
  BY <1>2, <1>4, <1>14, PlaceFacts DEF CredentialAnswers, Inside
<1>. QED
  BY <1>5, <1>6, <1>7, <1>8, <1>9, <1>10, <1>11, <1>12, <1>13, <1>14

LEMMA MkdirOwn ==
  ASSUME Typed, NEW w \in Operators, OwnInv(w), NEW next \in {"extract", "write"},
         MkdirTemp(w, next)
  PROVE  OwnInv(w)'
<1>1. pc[w] = "mkdir" /\ ~Ended(w) /\ child[w].runs = "none" /\ handler[w] = "off"
      /\ removal[w] = "no"
  BY PlaceFacts DEF MkdirTemp, Outside, OwnInv, GuardInv
<1>2. CASE Return(w, "failed") /\ UNCHANGED dir
  BY <1>1, <1>2, ReturnOwn DEF Outcomes
<1>3. CASE ~(Return(w, "failed") /\ UNCHANGED dir)
  <2>1. /\ Goto(w, next) /\ handler'[w] = "listening" /\ UNCHANGED removal
    BY <1>3 DEF MkdirTemp, Typed, TypeOK
  <2>2. pc'[w] = next /\ child'[w] = child[w]
    BY <2>1, GotoAt DEF Children
  <2>. QED
    BY <1>1, <2>1, <2>2 DEF OwnInv, GuardInv, ChildInv, RemovalInv, Ended, Outside, Outcomes
<1>. QED
  BY <1>2, <1>3

LEMMA FileOwn ==
  ASSUME Typed, NEW w \in Operators, OwnInv(w), Extract(w) \/ WriteFile(w)
  PROVE  OwnInv(w)'
<1>1. ~Ended(w) /\ child[w].runs = "none" /\ handler[w] # "off" /\ pc[w] \notin {"remove", "unlisten"}
  BY PlaceFacts DEF Extract, WriteFile, Inside
<1>2. CASE Return(w, "failed")
  BY <1>1, <1>2, ReturnOwn DEF Outcomes
<1>3. ASSUME NEW step \in {"op", "dry"}, Advance(w, step) PROVE OwnInv(w)'
  <2>1. step \in Places \ (Outcomes \cup {"remove", "unlisten"}) /\ step \notin Outside
    BY DEF Places, Children, Outcomes, Outside
  <2>. QED
    BY <1>1, <1>3, <2>1, AdvanceOwn
<1>. QED
  BY <1>2, <1>3 DEF Extract, WriteFile

LEMMA ProgramOwn ==
  ASSUME Typed, NEW w \in Operators, OwnInv(w), Program(w)
  PROVE  OwnInv(w)'
<1>1. UNCHANGED <<pc, handler, removal>> /\ \E good : Answer(w, good)
  BY DEF Program, OpRead, Apply, SetImage, DryRun, Store, ReadBack
<1>2. child'[w].runs = "none"
  BY <1>1 DEF Answer, Typed, TypeOK
<1>3. dir'[w] # dir[w] => Ended(w) \/ handler[w] # "off"
  <2>1. child[w].runs \in Children
    BY DEF Program, OpRead, Apply, SetImage, DryRun, Store, ReadBack, Children
  <2>2. ~Ended(w) => pc[w] \in Children
    BY <2>1 DEF OwnInv, ChildInv, Children
  <2>. QED
    BY <2>2 DEF OwnInv, GuardInv, Children, Inside
<1>. QED
  BY <1>1, <1>2, <1>3 DEF OwnInv, GuardInv, ChildInv, RemovalInv, Ended

LEMMA EndOwn ==
  ASSUME Typed, NEW w \in Operators, NEW how \in Outcomes, End(w, how), UNCHANGED child,
         how = "deployed" => child[w].runs = "none"
  PROVE  OwnInv(w)'
<1>1. pc'[w] = how /\ handler'[w] = "off" /\ removal'[w] = "no" /\ child'[w] = child[w]
  BY DEF End, Typed, TypeOK
<1>2. how \notin Inside /\ how # "unlisten"
  BY DEF Inside, Outcomes
<1>. QED
  BY <1>1, <1>2 DEF OwnInv, GuardInv, ChildInv, RemovalInv, Ended

LEMMA GuardOwn ==
  ASSUME Typed, NEW w \in Operators, OwnInv(w), Guard(w)
  PROVE  OwnInv(w)'
<1>1. CASE RemoveEntries(w) \/ RemoveDir(w)
  <2>1. /\ UNCHANGED <<pc, handler, child>> /\ Removes(w)
        /\ removal'[w] # "no"
    BY <1>1 DEF RemoveEntries, RemoveDir, Typed, TypeOK
  <2>2. handler[w] # "off" /\ (pc[w] = "remove" \/ handler[w] = "taken")
    BY <2>1, PlaceFacts DEF Removes, Inside
  <2>3. pc[w] = "unlisten" => removal'[w] \in {"gone", "failed"}
    BY <1>1 DEF RemoveEntries, RemoveDir, OwnInv, RemovalInv, Typed, TypeOK
  <2>. QED
    BY <2>1, <2>2, <2>3 DEF OwnInv, GuardInv, ChildInv, RemovalInv, Ended
<1>2. CASE Removed(w)
  <2>1. /\ pc'[w] = "unlisten" /\ child'[w] = child[w]
        /\ UNCHANGED <<handler, removal>> /\ removal[w] \in {"gone", "failed"}
    BY <1>2, GotoAt DEF Removed, Children
  <2>2. handler[w] # "off" /\ child[w].runs = "none"
    BY <1>2, PlaceFacts DEF Removed, Inside
  <2>. QED
    BY <2>1, <2>2 DEF OwnInv, GuardInv, ChildInv, RemovalInv, Ended, Outcomes, Outside
<1>3. CASE Unlisten(w)
  <2>1. Outcome(w) \in Outcomes
    BY DEF Outcome, Outcomes
  <2>2. child[w].runs = "none"
    BY <1>3, PlaceFacts DEF Unlisten
  <2>. QED
    BY <1>3, <2>1, <2>2, EndOwn DEF Unlisten
<1>4. CASE Interrupt(w) \/ TakeSignal(w)
  <2>1. /\ UNCHANGED <<pc, child, removal, dir>> /\ handler[w] # "off"
        /\ handler'[w] # "off" /\ handler[w] # "taken"
    BY <1>4 DEF Interrupt, TakeSignal, Typed, TypeOK
  <2>. QED
    BY <2>1 DEF OwnInv, GuardInv, ChildInv, RemovalInv, Ended
<1>5. CASE ExitOnSignal(w) \/ Killed(w)
  BY <1>5, EndOwn DEF ExitOnSignal, Killed, Outcomes
<1>. QED
  BY <1>1, <1>2, <1>3, <1>4, <1>5 DEF Guard

LEMMA ActsOwn ==
  ASSUME Typed, NEW w \in Operators, OwnInv(w), Acts(w)
  PROVE  OwnInv(w)'
<1>1. CASE Deploy(w)
  <2>1. CASE BeginDeploy(w)
    BY <2>1, BeginOwn DEF BeginDeploy
  <2>. QED
    BY <1>1, <2>1, PlainOwn, FileOwn, MkdirOwn DEF Deploy
<1>2. CASE PublishRelease(w)
  <2>1. CASE BeginPublish(w)
    BY <2>1, BeginOwn DEF BeginPublish
  <2>. QED
    BY <1>2, <2>1, PlainOwn DEF PublishRelease
<1>3. CASE DeployCredential(w)
  <2>1. CASE BeginCredential(w)
    BY <2>1, BeginOwn DEF BeginCredential
  <2>. QED
    BY <1>3, <2>1, PlainOwn, FileOwn, MkdirOwn DEF DeployCredential
<1>. QED
  BY <1>1, <1>2, <1>3, PushOwn, ProgramOwn, GuardOwn DEF Acts

LEMMA CommandStep == Typed /\ CommandInv /\ [Next]_vars => CommandInv'
<1> SUFFICES ASSUME Typed, CommandInv, [Next]_vars PROVE CommandInv'
  OBVIOUS
<1>1. ASSUME NEW w \in Operators, Acts(w) PROVE CommandInv'
  <2>1. OthersStay(w) /\ OwnInv(w)'
    BY <1>1, OnlyOwn, ActsOwn DEF CommandInv
  <2>. QED
    BY <2>1, StillOwn DEF CommandInv, OthersStay
<1>2. CASE Roll \/ Rotate \/ UNCHANGED vars
  <2>1. UNCHANGED own
    BY <1>2 DEF Roll, Rotate, vars, own
  <2>. QED
    BY <2>1, StillOwn DEF CommandInv, own
<1>. QED
  BY <1>1, <1>2 DEF Next, Acts

-----------------------------------------------------------------------------
(* The credential goes with the command *)

(* The steps that begin a command, and the others of its main goroutine. *)
Begins(w) == BeginPush(w) \/ BeginDeploy(w) \/ BeginPublish(w) \/ BeginCredential(w)
Goes(w) == (Push(w) \/ Deploy(w) \/ PublishRelease(w) \/ DeployCredential(w)) /\ ~Begins(w)
Onward == Places \ (Outcomes \cup {"remove", "unlisten"})

(* A command that goes on returns, goes to a place, or stays where it is. *)
LEMMA MovesOf ==
  ASSUME Typed, NEW w \in Operators, OwnInv(w), Goes(w)
  PROVE  /\ ~Ended(w) /\ child[w].runs = "none" /\ pc[w] \notin {"remove", "unlisten"}
         /\ \/ \E how \in Outcomes \ {"deployed"} : Return(w, how)
            \/ \E step \in Onward : Goto(w, step) /\ UNCHANGED removal
            \/ UNCHANGED <<pc, child, handler, removal>>
<1>0. /\ {"failed", "refused", "published", "stored", "pushed"} \subseteq Outcomes \ {"deployed"}
      /\ {"push", "digest", "mkdir", "extract", "write", "op", "preflight", "apply", "set", "status",
          "after", "live", "view", "create", "dry", "store", "back"} \subseteq Onward
  BY DEF Onward, Places, Children, Outcomes
<1>1. CASE Push(w)
  <2>1. pc[w] \in {"build", "push"}
    BY <1>1 DEF Goes, Begins, Push, BuildImage, PushRef, PushEnds
  <2>2. \/ \E how \in {"failed", "pushed"} : Return(w, how)
        \/ Goto(w, "push") /\ UNCHANGED removal
        \/ UNCHANGED <<pc, child, handler, removal>>
    BY <1>1 DEF Goes, Begins, Push, BuildImage, PushRef, PushEnds
  <2>. QED
    BY <1>0, <2>1, <2>2, PlaceFacts DEF Outside
<1>2. CASE Deploy(w)
  <2>1. \/ pc[w] \in {"resolve", "digest", "mkdir", "extract", "preflight", "after", "status", "live"}
        \/ pc[w] \in {"op", "apply", "set"} /\ child[w].runs = "none"
    BY <1>2 DEF Goes, Begins, Deploy, CommitOfTag, Digest, MkdirTemp, Extract, ProgramAnswers,
                Script, RolloutStatus, LiveCheck
  <2>2. \/ \E how \in {"failed", "refused"} : Return(w, how)
        \/ \E step \in {"digest", "mkdir", "extract", "op", "preflight", "apply", "set", "status",
                        "after", "live", "view"} : Goto(w, step) /\ UNCHANGED removal
        \/ UNCHANGED <<pc, child, handler, removal>>
    <3>1. CASE CommitOfTag(w) \/ Digest(w) \/ Extract(w) \/ RolloutStatus(w) \/ LiveCheck(w)
      BY <3>1 DEF CommitOfTag, Digest, Extract, RolloutStatus, LiveCheck, Advance, held
    <3>2. CASE MkdirTemp(w, "extract")
      BY <3>2 DEF MkdirTemp
    <3>3. CASE ProgramAnswers(w) \/ Script(w)
      BY <3>3, StepAfterTyped DEF ProgramAnswers, Script, Advance, held
    <3>. QED
      BY <1>2, <3>1, <3>2, <3>3 DEF Goes, Begins, Deploy
  <2>. QED
    BY <1>0, <2>1, <2>2, PlaceFacts DEF Outside, Inside
<1>3. CASE PublishRelease(w)
  <2>1. pc[w] \in {"view", "create"}
    BY <1>3 DEF Goes, Begins, PublishRelease, ViewRelease, CreateRelease
  <2>2. \/ \E how \in {"failed", "published"} : Return(w, how)
        \/ Goto(w, "create") /\ UNCHANGED removal
    BY <1>3 DEF Goes, Begins, PublishRelease, ViewRelease, CreateRelease, Advance, held
  <2>. QED
    BY <1>0, <2>1, <2>2, PlaceFacts
<1>4. CASE DeployCredential(w)
  <2>1. \/ pc[w] \in {"admin", "mkdir", "write"}
        \/ pc[w] \in {"dry", "store", "back"} /\ child[w].runs = "none"
    BY <1>4 DEF Goes, Begins, DeployCredential, AdminReads, MkdirTemp, WriteFile, CredentialAnswers
  <2>2. \/ \E how \in {"failed", "refused", "stored"} : Return(w, how)
        \/ \E step \in {"mkdir", "write", "dry", "store", "back"} : Goto(w, step) /\ UNCHANGED removal
    <3>1. CASE AdminReads(w) \/ WriteFile(w)
      BY <3>1 DEF AdminReads, WriteFile, Advance, held
    <3>2. CASE MkdirTemp(w, "write")
      BY <3>2 DEF MkdirTemp
    <3>3. CASE CredentialAnswers(w)
      BY <3>3 DEF CredentialAnswers, Advance, held
    <3>. QED
      BY <1>4, <3>1, <3>2, <3>3 DEF Goes, Begins, DeployCredential
  <2>. QED
    BY <1>0, <2>1, <2>2, PlaceFacts DEF Outside, Inside
<1>. QED
  BY <1>1, <1>2, <1>3, <1>4 DEF Goes

(* It keeps what it has of a credential, and what was late. *)
LEMMA LateMoves ==
  ASSUME Typed, NEW w \in Operators, OwnInv(w), LateInv(w), Goes(w),
         "kubeconfig" \in dir'[w] => "kubeconfig" \in dir[w],
         w \in past.late => w \in past'.late
  PROVE  LateInv(w)'
<1>1. ~Ended(w) /\ pc[w] # "killed"
  BY MovesOf DEF Ended, Outcomes
<1>2. CASE \E how \in Outcomes : Return(w, how)
  <2>1. PICK how \in Outcomes : Return(w, how)
    BY <1>2
  <2>2. CASE handler[w] = "off"
    <3>1. "kubeconfig" \notin dir'[w]
      BY <1>1, <2>2 DEF OwnInv, GuardInv, Gone
    <3>. QED
      BY <3>1 DEF LateInv
  <2>3. CASE handler[w] # "off"
    <3>1. removal'[w] = removal[w] /\ pc'[w] = "remove"
      BY <2>1, <2>3, ReturnAt DEF Typed, TypeOK
    <3>. QED
      BY <1>1, <3>1 DEF LateInv, Ended, Outcomes
  <2>. QED
    BY <2>2, <2>3
<1>3. CASE \E step \in Onward : Goto(w, step) /\ UNCHANGED removal
  <2>1. pc'[w] \in Onward /\ removal'[w] = removal[w]
    BY <1>3, GotoAt
  <2>. QED
    BY <1>1, <2>1 DEF LateInv, Ended, Onward
<1>4. CASE UNCHANGED <<pc, child, handler, removal>>
  BY <1>1, <1>4 DEF LateInv, Ended
<1>. QED
  BY <1>2, <1>3, <1>4, MovesOf

(* What the steps of a command do to its directory and to what was late. *)
LEMMA LateKept ==
  ASSUME Typed, NEW w \in Operators, Goes(w)
  PROVE  \/ /\ past' = past
            /\ "kubeconfig" \in dir'[w] => "kubeconfig" \in dir[w]
         \/ WriteFile(w) /\ dir[w] # Gone
<1>1. CASE Push(w) \/ PublishRelease(w)
  BY <1>1 DEF Goes, Begins, Push, BuildImage, PushRef, PushEnds, PublishRelease, ViewRelease,
              CreateRelease
<1>2. CASE Deploy(w)
  <2>1. CASE Extract(w)
    BY <2>1 DEF Extract, Typed, TypeOK
  <2>2. CASE MkdirTemp(w, "extract")
    BY <2>2 DEF MkdirTemp, Typed, TypeOK
  <2>. QED
    BY <1>2, <2>1, <2>2 DEF Goes, Begins, Deploy, CommitOfTag, Digest, ProgramAnswers, Script,
                            RolloutStatus, LiveCheck
<1>3. CASE DeployCredential(w)
  <2>1. CASE WriteFile(w)
    BY <2>1 DEF WriteFile
  <2>2. CASE MkdirTemp(w, "write")
    BY <2>2 DEF MkdirTemp, Typed, TypeOK
  <2>. QED
    BY <1>3, <2>1, <2>2 DEF Goes, Begins, DeployCredential, AdminReads, CredentialAnswers
<1>. QED
  BY <1>1, <1>2, <1>3 DEF Goes

LEMMA LateHas ==
  ASSUME Typed, NEW w \in Operators, past' = Late(w)
  PROVE  /\ removal[w] # "no" \/ Ended(w) => w \in past'.late
         /\ past.late \subseteq past'.late /\ past'.proven = past.proven
         /\ past'.touched = past.touched
BY DEF Late, Typed, TypeOK

LEMMA WriteLate ==
  ASSUME Typed, NEW w \in Operators, OwnInv(w), LateInv(w), WriteFile(w), dir[w] # Gone
  PROVE  LateInv(w)'
<1>1. pc[w] = "write" /\ past' = Late(w) /\ Advance(w, "dry")
  BY DEF WriteFile
<1>2. pc'[w] = "dry" /\ removal'[w] = removal[w]
  BY <1>1, GotoAt DEF Advance, held
<1>. QED
  BY <1>1, <1>2, LateHas DEF LateInv, Ended, Outcomes

LEMMA ProgramLate ==
  ASSUME Typed, NEW w \in Operators, OwnInv(w), LateInv(w), Program(w)
  PROVE  LateInv(w)'
<1>1. UNCHANGED <<pc, handler, removal>>
  BY DEF Program, OpRead, Apply, SetImage, DryRun, Store, ReadBack
<1>2. CASE (OpRead(w) \/ ReadBack(w)) /\ past' = Late(w)
  BY <1>1, <1>2, LateHas DEF LateInv, Ended
<1>3. CASE ~((OpRead(w) \/ ReadBack(w)) /\ past' = Late(w))
  <2>1. dir' = dir
    BY <1>3 DEF Program, OpRead, Apply, SetImage, DryRun, Store, ReadBack
  <2>2. past'.late = past.late
    <3>1. CASE Apply(w)
      BY <3>1, OvertakesTyped DEF Apply
    <3>2. CASE SetImage(w)
      BY <3>2, OvertakesTyped DEF SetImage
    <3>3. CASE DryRun(w)
      BY <3>3 DEF DryRun, Typed, TypeOK
    <3>. QED
      BY <1>3, <3>1, <3>2, <3>3 DEF Program, OpRead, Store, ReadBack
  <2>. QED
    BY <1>1, <2>1, <2>2 DEF LateInv, Ended
<1>. QED
  BY <1>2, <1>3

LEMMA GuardLate ==
  ASSUME Typed, NEW w \in Operators, OwnInv(w), LateInv(w), Guard(w)
  PROVE  LateInv(w)'
<1>0. past' = past
  BY DEF Guard, RemoveEntries, RemoveDir, Removed, Unlisten, Interrupt, TakeSignal, ExitOnSignal, Killed
<1>1. CASE RemoveEntries(w)
  <2>1. dir'[w] = {}
    BY <1>1 DEF RemoveEntries, Typed, TypeOK
  <2>. QED
    BY <2>1 DEF LateInv
<1>2. CASE RemoveDir(w)
  <2>1. removal[w] = "busy" /\ UNCHANGED pc
    BY <1>2 DEF RemoveDir
  <2>2. "kubeconfig" \in dir'[w] => "kubeconfig" \in dir[w]
    BY <1>2 DEF RemoveDir, Gone, Typed, TypeOK
  <2>. QED
    BY <1>0, <2>1, <2>2 DEF LateInv, Ended
<1>3. CASE Removed(w)
  <2>1. pc'[w] = "unlisten" /\ UNCHANGED <<dir, removal>> /\ pc[w] = "remove"
    BY <1>3, GotoAt DEF Removed
  <2>. QED
    BY <1>0, <2>1 DEF LateInv, Ended, Outcomes
<1>4. CASE Unlisten(w) \/ ExitOnSignal(w)
  <2>1. removal[w] # "no" /\ UNCHANGED dir
    BY <1>4 DEF Unlisten, ExitOnSignal, OwnInv, RemovalInv
  <2>2. pc[w] # "killed"
    BY <1>4 DEF Unlisten, ExitOnSignal, OwnInv, GuardInv, Ended, Outcomes
  <2>. QED
    BY <1>0, <2>1, <2>2 DEF LateInv
<1>5. CASE Interrupt(w) \/ TakeSignal(w)
  BY <1>0, <1>5 DEF Interrupt, TakeSignal, LateInv, Ended
<1>6. CASE Killed(w)
  <2>1. pc'[w] = "killed"
    BY <1>6 DEF Killed, End, Typed, TypeOK
  <2>. QED
    BY <2>1 DEF LateInv
<1>. QED
  BY <1>1, <1>2, <1>3, <1>4, <1>5, <1>6 DEF Guard

LEMMA BeginsPlain ==
  ASSUME Typed, NEW w \in Operators, Begins(w)
  PROVE  /\ Ended(w) /\ child[w].runs = "none" /\ UNCHANGED outside
         /\ pc'[w] \in {"build", "resolve", "view", "admin"} /\ child'[w] = child[w]
         /\ dir'[w] = Gone
         /\ past'.touched = past.touched \ {w} /\ past'.late = past.late \ {w}
         /\ past'.proven = past.proven
<1>1. PICK step \in {"build", "resolve", "view", "admin"} :
         \E command : Begin(w, command, step)
  BY DEF Begins, BeginPush, BeginDeploy, BeginPublish, BeginCredential
<1>2. pc'[w] = step /\ child'[w] = child[w]
  BY <1>1, GotoAt DEF Begin, Children
<1>. QED
  BY <1>1, <1>2 DEF Begin, Typed, TypeOK

LEMMA ActsSplit ==
  ASSUME NEW w \in Operators, Acts(w)
  PROVE  Begins(w) \/ Goes(w) \/ Program(w) \/ Guard(w)
BY DEF Acts, Goes

LEMMA ActsLate ==
  ASSUME Typed, NEW w \in Operators, OwnInv(w), LateInv(w), Acts(w)
  PROVE  LateInv(w)'
<1>1. CASE Begins(w)
  BY <1>1, BeginsPlain DEF LateInv, Gone
<1>2. CASE Goes(w)
  BY <1>2, LateKept, LateMoves, WriteLate
<1>. QED
  BY <1>1, <1>2, ProgramLate, GuardLate, ActsSplit

(* What was late stays late for the others, and a proven token stays proven. *)
LEMMA PastStays ==
  ASSUME Typed, NEW w \in Operators, Acts(w)
  PROVE  /\ \A v \in Operators \ {w} : v \in past.late => v \in past'.late
         /\ past.proven \subseteq past'.proven
<1>1. CASE Begins(w)
  BY <1>1, BeginsPlain
<1>2. CASE Goes(w)
  <2>1. past' = past \/ past' = Late(w)
    BY <1>2, LateKept DEF WriteFile
  <2>. QED
    BY <2>1, LateHas
<1>3. CASE Program(w)
  <2>1. CASE Apply(w)
    BY <2>1, OvertakesTyped DEF Apply
  <2>2. CASE SetImage(w)
    BY <2>2, OvertakesTyped DEF SetImage
  <2>3. CASE DryRun(w)
    <3>1. past' = past \/ past' = [past EXCEPT !.proven = past.proven \cup {job[w].token}]
      BY <2>3 DEF DryRun
    <3>2. past'.late = past.late /\ past.proven \subseteq past'.proven
      BY <3>1 DEF Typed, TypeOK
    <3>. QED
      BY <3>2
  <2>4. CASE OpRead(w) \/ Store(w) \/ ReadBack(w)
    <3>1. past' = past \/ past' = Late(w)
      BY <2>4 DEF OpRead, Store, ReadBack
    <3>. QED
      BY <3>1, LateHas
  <2>. QED
    BY <1>3, <2>1, <2>2, <2>3, <2>4 DEF Program
<1>4. CASE Guard(w)
  BY <1>4 DEF Guard, RemoveEntries, RemoveDir, Removed, Unlisten, Interrupt, TakeSignal,
              ExitOnSignal, Killed
<1>. QED
  BY <1>1, <1>2, <1>3, <1>4, ActsSplit

LEMMA CredentialStep == Typed /\ CommandInv /\ CredentialInv /\ [Next]_vars => CredentialInv'
<1> SUFFICES ASSUME Typed, CommandInv, CredentialInv, [Next]_vars PROVE CredentialInv'
  OBVIOUS
<1>1. ASSUME NEW w \in Operators, Acts(w) PROVE CredentialInv'
  <2>1. OthersStay(w) /\ LateInv(w)'
    BY <1>1, OnlyOwn, ActsLate DEF CommandInv, CredentialInv
  <2>2. ASSUME NEW v \in Operators \ {w} PROVE LateInv(v)'
    BY <1>1, <2>1, PastStays DEF OthersStay, LateInv, CredentialInv, Ended
  <2>. QED
    BY <2>1, <2>2 DEF CredentialInv
<1>2. CASE Roll \/ Rotate \/ UNCHANGED vars
  <2>1. UNCHANGED <<own, past>>
    BY <1>2 DEF Roll, Rotate, vars, own
  <2>. QED
    BY <2>1 DEF CredentialInv, LateInv, Ended, own
<1>. QED
  BY <1>1, <1>2 DEF Next, Acts

-----------------------------------------------------------------------------
(* What is stored was proven *)

LEMMA StartsStore ==
  ASSUME Typed, NEW w \in Operators, OwnInv(w), Goes(w), pc'[w] = "store"
  PROVE  pc[w] = "dry" /\ child[w].ok /\ UNCHANGED job
<1>1. ASSUME NEW how \in {"failed", "refused", "pushed", "published", "stored"}, Return(w, how)
      PROVE  FALSE
  BY <1>1, ReturnAt DEF Typed, TypeOK
<1>2. ASSUME NEW step \in {"push", "digest", "mkdir", "extract", "write", "op", "preflight",
                           "apply", "set", "status", "after", "live", "view", "create", "dry",
                           "back"}, Goto(w, step)
      PROVE  FALSE
  BY <1>2, GotoAt
<1>3. ASSUME NEW step \in {"push", "digest", "mkdir", "extract", "write", "op", "preflight",
                           "apply", "set", "status", "after", "live", "view", "create", "dry",
                           "back"}, Advance(w, step)
      PROVE  FALSE
  BY <1>2, <1>3 DEF Advance
<1>4. CASE Push(w)
  BY <1>1, <1>2, <1>4 DEF Goes, Begins, Push, BuildImage, PushRef, PushEnds
<1>5. CASE Deploy(w)
  <2>1. CASE ProgramAnswers(w) \/ Script(w)
    BY <1>1, <1>3, <2>1, StepAfterTyped DEF ProgramAnswers, Script
  <2>2. CASE CommitOfTag(w) \/ Digest(w) \/ Extract(w) \/ MkdirTemp(w, "extract")
    BY <1>1, <1>2, <1>3, <2>2 DEF CommitOfTag, Digest, Extract, MkdirTemp
  <2>3. CASE RolloutStatus(w) \/ LiveCheck(w)
    BY <1>1, <1>3, <2>3 DEF RolloutStatus, LiveCheck
  <2>. QED
    BY <1>5, <2>1, <2>2, <2>3 DEF Goes, Begins, Deploy
<1>6. CASE PublishRelease(w)
  BY <1>1, <1>3, <1>6 DEF Goes, Begins, PublishRelease, ViewRelease, CreateRelease
<1>7. CASE DeployCredential(w)
  <2>1. CASE AdminReads(w) \/ WriteFile(w) \/ MkdirTemp(w, "write")
    BY <1>1, <1>2, <1>3, <2>1 DEF AdminReads, WriteFile, MkdirTemp
  <2>2. CASE CredentialAnswers(w)
    BY <1>1, <1>3, <2>2 DEF CredentialAnswers, Advance, held
  <2>. QED
    BY <1>7, <2>1, <2>2 DEF Goes, Begins, DeployCredential
<1>. QED
  BY <1>4, <1>5, <1>6, <1>7 DEF Goes

LEMMA GoesProven ==
  ASSUME Typed, NEW w \in Operators, OwnInv(w), ProvenInv(w), Goes(w)
  PROVE  ProvenInv(w)'
<1>0. child[w].runs = "none"
  BY MovesOf
<1>1. CASE \E how \in Outcomes : Return(w, how)
  <2>1. pc'[w] # "dry" /\ child'[w] = child[w]
    BY <1>1, ReturnAt DEF Outcomes, Typed, TypeOK
  <2>. QED
    BY <1>0, <2>1 DEF ProvenInv
<1>2. CASE \E step \in Onward : Goto(w, step)
  <2>1. PICK step \in Onward : Goto(w, step)
    BY <1>2
  <2>2. CASE step = "store"
    <3>1. job[w].token \in past.proven /\ UNCHANGED job
      BY <1>0, <2>1, <2>2, StartsStore, GotoAt DEF ProvenInv
    <3>2. past.proven \subseteq past'.proven
      BY PastStays DEF Acts, Goes
    <3>. QED
      BY <2>1, <2>2, <3>1, <3>2, GotoAt DEF ProvenInv
  <2>3. CASE step = "dry"
    BY <2>1, <2>3, GotoAt DEF ProvenInv, Children
  <2>4. CASE step \notin {"store", "dry"}
    BY <1>0, <2>1, <2>4, GotoAt DEF ProvenInv
  <2>. QED
    BY <2>2, <2>3, <2>4
<1>3. CASE UNCHANGED <<pc, child, handler, removal>>
  <2>1. pc[w] # "dry"
    <3>1. pc[w] = "dry" => CredentialAnswers(w)
      BY DEF Goes, Begins, Push, BuildImage, PushRef, PushEnds, Deploy, CommitOfTag, Digest,
             MkdirTemp, Extract, ProgramAnswers, Script, RolloutStatus, LiveCheck,
             PublishRelease, ViewRelease, CreateRelease, DeployCredential, AdminReads, WriteFile
    <3>2. pc[w] = "dry" => Advance(w, "store") \/ Return(w, "failed")
      BY <3>1 DEF CredentialAnswers
    <3>3. CASE Return(w, "failed")
      BY <1>3, <3>3, ReturnAt DEF Typed, TypeOK
    <3>4. CASE Advance(w, "store")
      BY <1>3, <3>4, GotoAt DEF Advance
    <3>. QED
      BY <3>2, <3>3, <3>4
  <2>. QED
    BY <1>0, <1>3, <2>1 DEF ProvenInv
<1>. QED
  BY <1>1, <1>2, <1>3, MovesOf

LEMMA ProgramProven ==
  ASSUME Typed, NEW w \in Operators, OwnInv(w), ProvenInv(w), Program(w)
  PROVE  ProvenInv(w)'
<1>1. UNCHANGED pc /\ child'[w].runs = "none"
  BY DEF Program, OpRead, Apply, SetImage, DryRun, Store, ReadBack, Answer, Typed, TypeOK
<1>2. pc[w] = "dry" => child[w].runs \in {"none", "dry"}
  BY DEF OwnInv, ChildInv, Ended, Outcomes
<1>3. pc[w] = "dry" => DryRun(w)
  BY <1>2 DEF Program, OpRead, Apply, SetImage, Store, ReadBack
<1>4. CASE DryRun(w)
  <2>1. CASE Answer(w, FALSE)
    <3>1. ~child'[w].ok
      BY <2>1 DEF Answer, Typed, TypeOK
    <3>. QED
      BY <1>1, <3>1 DEF ProvenInv
  <2>2. CASE ~Answer(w, FALSE)
    <3>1. past' = [past EXCEPT !.proven = past.proven \cup {job[w].token}] /\ UNCHANGED job
      BY <1>4, <2>2 DEF DryRun
    <3>2. job'[w].token \in past'.proven
      BY <3>1 DEF Typed, TypeOK
    <3>. QED
      BY <3>2 DEF ProvenInv
  <2>. QED
    BY <2>1, <2>2
<1>. QED
  BY <1>1, <1>3, <1>4 DEF ProvenInv

LEMMA GuardProven ==
  ASSUME Typed, NEW w \in Operators, OwnInv(w), ProvenInv(w), Guard(w)
  PROVE  ProvenInv(w)'
<1>0. past' = past
  BY DEF Guard, RemoveEntries, RemoveDir, Removed, Unlisten, Interrupt, TakeSignal, ExitOnSignal, Killed
<1>1. CASE RemoveEntries(w) \/ RemoveDir(w) \/ Interrupt(w) \/ TakeSignal(w)
  BY <1>0, <1>1 DEF RemoveEntries, RemoveDir, Interrupt, TakeSignal, ProvenInv
<1>2. CASE Removed(w)
  <2>1. pc'[w] = "unlisten" /\ UNCHANGED job /\ child'[w] = child[w]
    BY <1>2, GotoAt DEF Removed, Children
  <2>. QED
    BY <1>0, <2>1 DEF ProvenInv
<1>3. CASE Unlisten(w) \/ ExitOnSignal(w) \/ Killed(w)
  <2>1. PICK how \in Outcomes : End(w, how) /\ UNCHANGED child
    BY <1>3 DEF Unlisten, ExitOnSignal, Killed, Outcome, Outcomes
  <2>2. pc'[w] # "dry"
    BY <2>1 DEF End, Outcomes, Typed, TypeOK
  <2>3. child[w].runs = "store" => job'[w] = job[w]
    BY <2>1 DEF End, Typed, TypeOK
  <2>. QED
    BY <1>0, <2>1, <2>2, <2>3 DEF ProvenInv
<1>. QED
  BY <1>1, <1>2, <1>3 DEF Guard

LEMMA ActsProven ==
  ASSUME Typed, NEW w \in Operators, OwnInv(w), ProvenInv(w), Acts(w)
  PROVE  ProvenInv(w)'
<1>1. CASE Begins(w)
  BY <1>1, BeginsPlain DEF ProvenInv
<1>. QED
  BY <1>1, GoesProven, ProgramProven, GuardProven, ActsSplit

LEMMA DocumentMoves ==
  ASSUME Typed, NEW w \in Operators, OwnInv(w), ProvenInv(w), Acts(w)
  PROVE  document' = document \/ document' \in past.proven
<1>1. CASE Begins(w)
  BY <1>1, BeginsPlain DEF outside
<1>2. CASE Goes(w)
  BY <1>2 DEF Goes, Begins, Push, BuildImage, PushRef, PushEnds, Deploy, CommitOfTag, Digest,
              MkdirTemp, Extract, ProgramAnswers, Script, RolloutStatus, LiveCheck, PublishRelease,
              ViewRelease, CreateRelease, DeployCredential, AdminReads, WriteFile,
              CredentialAnswers, outside
<1>3. CASE Program(w)
  BY <1>3 DEF Program, OpRead, Apply, SetImage, DryRun, Store, ReadBack, ProvenInv, outside
<1>4. CASE Guard(w)
  BY <1>4 DEF Guard, RemoveEntries, RemoveDir, Removed, Unlisten, Interrupt, TakeSignal,
              ExitOnSignal, Killed, outside
<1>. QED
  BY <1>1, <1>2, <1>3, <1>4, ActsSplit

LEMMA StoreStep == Typed /\ CommandInv /\ StoreInv /\ [Next]_vars => StoreInv'
<1> SUFFICES ASSUME Typed, CommandInv, StoreInv, [Next]_vars PROVE StoreInv'
  OBVIOUS
<1>1. ASSUME NEW w \in Operators, Acts(w) PROVE StoreInv'
  <2>1. OthersStay(w) /\ ProvenInv(w)' /\ past.proven \subseteq past'.proven
    BY <1>1, OnlyOwn, ActsProven, PastStays DEF CommandInv, StoreInv
  <2>2. ASSUME NEW v \in Operators \ {w} PROVE ProvenInv(v)'
    BY <2>1 DEF OthersStay, ProvenInv, StoreInv
  <2>3. StoredIsProven'
    BY <1>1, <2>1, DocumentMoves DEF CommandInv, StoreInv, StoredIsProven
  <2>. QED
    BY <2>1, <2>2, <2>3 DEF StoreInv
<1>2. CASE Roll \/ Rotate \/ UNCHANGED vars
  <2>1. UNCHANGED <<own, past, document>>
    BY <1>2 DEF Roll, Rotate, vars, own
  <2>. QED
    BY <2>1 DEF StoreInv, ProvenInv, StoredIsProven, own
<1>. QED
  BY <1>1, <1>2 DEF Next, Acts

-----------------------------------------------------------------------------
(* What is said to be live is *)

(* What a return leaves of the job. *)
LEMMA ReturnJob ==
  ASSUME Typed, NEW w \in Operators, NEW how, Return(w, how)
  PROVE  /\ \/ job'[w].image = job[w].image /\ job'[w].tag = job[w].tag
            \/ job'[w].image = NoImage
         /\ handler[w] # "off" => job'[w].err = (how = "failed")
         /\ handler[w] = "off" => pc'[w] = how
         /\ handler[w] # "off" => pc'[w] = "remove"
<1>1. CASE handler[w] = "off"
  <2>1. job'[w] = job[w] \/ job'[w] = NoJob
    BY <1>1 DEF Return, End, Typed, TypeOK
  <2>2. pc'[w] = how
    BY <1>1, ReturnAt DEF Typed, TypeOK
  <2>. QED
    BY <1>1, <2>1, <2>2 DEF NoJob
<1>2. CASE handler[w] # "off"
  <2>1. job'[w] = [job[w] EXCEPT !.err = (how = "failed")] /\ job[w] \in Jobs
    BY <1>2 DEF Return, Typed, TypeOK
  <2>2. pc'[w] = "remove"
    BY <1>2, ReturnAt DEF Typed, TypeOK
  <2>3. job'[w].image = job[w].image /\ job'[w].tag = job[w].tag /\ job'[w].err = (how = "failed")
    BY <2>1 DEF Jobs
  <2>. QED
    BY <1>2, <2>2, <2>3
<1>. QED
  BY <1>1, <1>2

(* A command that fails, or ends before it has a directory, claims nothing. *)
LEMMA FailsLive ==
  ASSUME Typed, NEW w \in Operators, ImageInv(w), NEW how \in Outcomes \ {"deployed"},
         Return(w, how), how = "failed" \/ handler[w] = "off"
  PROVE  OwnLive(w)'
<1>1. pc'[w] \in Outcomes \ {"deployed"} \/ (pc'[w] = "remove" /\ job'[w].err)
  BY ReturnJob
<1>2. ~Closing(w)' /\ pc'[w] \notin {"apply", "set", "status", "after", "live", "view", "create",
        "push", "mkdir", "admin", "write", "dry", "store", "back", "deployed"}
  BY <1>1 DEF Closing, Outcomes
<1>3. job'[w].image # NoImage => job'[w].image.version = job'[w].tag
  BY ReturnJob DEF ImageInv
<1>. QED
  BY <1>2, <1>3 DEF OwnLive, ImageInv, RolloutInv, PublishInv, Answered

(* One that returns well has had its release published, or stored a credential. *)
LEMMA ReturnsLive ==
  ASSUME Typed, NEW w \in Operators, OwnLive(w), NEW how \in {"published", "stored"},
         Return(w, how), handler[w] # "off", UNCHANGED <<cluster, past>>,
         how = "published" => pc[w] \in {"view", "create"} /\ job[w].tag \in releases',
         how = "stored" => job[w].image = NoImage
  PROVE  OwnLive(w)'
<1>1. pc'[w] = "remove"
  BY ReturnJob
<1>2. job'[w].image # NoImage =>
        pc[w] \in {"view", "create"} /\ job'[w].tag \in releases'
        /\ job'[w].image = job[w].image /\ job'[w].tag = job[w].tag
  BY ReturnJob
<1>3. ImageInv(w)'
  BY <1>1, <1>2 DEF ImageInv, OwnLive
<1>4. PublishInv(w)'
  BY <1>1, <1>2 DEF PublishInv
<1>5. RolloutInv(w)'
  BY <1>1, <1>2 DEF RolloutInv, OwnLive, Answered
<1>. QED
  BY <1>3, <1>4, <1>5 DEF OwnLive

(* A step to a place where the cluster is as others left it. *)
LEMMA QuietLive ==
  ASSUME Typed, NEW w \in Operators, ImageInv(w),
         NEW step \in {"digest", "extract", "op", "preflight", "apply", "write", "dry", "store", "back"},
         Goto(w, step), job'[w] = job[w],
         step \in {"write", "dry", "store", "back"} => job[w].image = NoImage
  PROVE  OwnLive(w)'
<1>1. pc'[w] = step /\ ~Answered(w, "apply")' /\ ~Answered(w, "set")' /\ ~Closing(w)'
  BY GotoAt DEF Answered, Closing, Children
<1>. QED
  BY <1>1 DEF OwnLive, ImageInv, RolloutInv, PublishInv

(* A step of the rollout, from what the one before has established. *)
LEMMA StageLive ==
  ASSUME Typed, NEW w \in Operators, OwnLive(w),
         NEW step \in {"set", "status", "after", "live", "view", "create"},
         Goto(w, step), job'[w] = job[w], UNCHANGED <<cluster, past>>,
         \/ Answered(w, "apply") /\ step = "set"
         \/ Answered(w, "set") /\ step = "status"
         \/ pc[w] = "status" /\ step = "after" /\ cluster.image \in cluster.answers
         \/ pc[w] = "after" /\ step = "live"
         \/ pc[w] = "live" /\ step = "view"
         \/ pc[w] = "view" /\ step = "create"
  PROVE  OwnLive(w)'
<1>1. pc'[w] = step /\ ~Answered(w, "apply")' /\ ~Answered(w, "set")' /\ ~Closing(w)'
  BY GotoAt DEF Answered, Closing, Children
<1>2. ImageInv(w)' /\ PublishInv(w)'
  BY <1>1 DEF OwnLive, ImageInv, PublishInv
<1>3. ASSUME job[w].image # NoImage, w \notin past.touched
      PROVE  /\ cluster.tree = job[w].tag
             /\ step # "set" => cluster.image = job[w].image
             /\ step \in {"after", "live", "view", "create"} => job[w].image \in cluster.answers
  BY <1>3 DEF OwnLive, RolloutInv, Answered
<1>4. RolloutInv(w)'
  BY <1>1, <1>3 DEF RolloutInv
<1>. QED
  BY <1>2, <1>4 DEF OwnLive

LEMMA PushLive ==
  ASSUME ShipAssumption, Typed, NEW w \in Operators, OwnInv(w), OwnLive(w), Push(w), ~Begins(w)
  PROVE  OwnLive(w)'
<1>0. handler[w] = "off" /\ pc[w] \in {"build", "push"}
  <2>1. pc[w] \in {"build", "push"}
    BY DEF Begins, Push, BuildImage, PushRef, PushEnds
  <2>. QED
    BY <2>1, PlaceFacts DEF Outside
<1>1. CASE \E how \in {"failed", "pushed"} : Return(w, how)
  BY <1>0, <1>1, FailsLive DEF OwnLive, Outcomes
<1>2. CASE BuildImage(w) /\ ~Return(w, "failed")
  <2> DEFINE image == [version |-> job[w].tag, build |-> spent.builds + 1]
             left == PushedRefs(job[w].tag)
  <2>1. /\ job' = [job EXCEPT ![w] = [job[w] EXCEPT !.image = image, !.left = left]]
        /\ Goto(w, "push") /\ pc[w] = "build"
    BY <1>2 DEF BuildImage
  <2>2. job[w] \in Jobs /\ job[w].tag \in Tags /\ image.version = job[w].tag
    BY <2>1, JobIn, TagIn DEF OfATag
  <2>3. left \in Seq({TagRef(job[w].tag), ShaRef(job[w].tag), Latest})
    BY <2>2, RefFacts
  <2> HIDE DEF image, left
  <2>4. job'[w].image = image /\ job'[w].left = left /\ job'[w].tag = job[w].tag
    BY <2>1, <2>2 DEF Jobs, Typed, TypeOK
  <2>5. pc'[w] = "push"
    BY <2>1, GotoAt
  <2>. QED
    BY <2>2, <2>3, <2>4, <2>5 DEF OwnLive, ImageInv, RolloutInv, PublishInv, Answered, Closing
<1>3. CASE PushRef(w) /\ ~Return(w, "failed")
  <2>1. /\ job' = [job EXCEPT ![w] = [job[w] EXCEPT !.left = Tail(job[w].left)]]
        /\ UNCHANGED pc /\ pc[w] = "push" /\ job[w].left # <<>>
    BY <1>3 DEF PushRef
  <2>2. /\ job'[w].image = job[w].image /\ job'[w].tag = job[w].tag
        /\ job'[w].left = Tail(job[w].left)
    BY <2>1, JobIn DEF Jobs, Typed, TypeOK
  <2> DEFINE R == {TagRef(job[w].tag), ShaRef(job[w].tag), Latest}
  <2>3. job[w].left \in Seq(R)
    BY <2>1 DEF OwnLive, ImageInv
  <2> HIDE DEF R
  <2>4. Tail(job[w].left) \in Seq(R)
    BY <2>1, <2>3
  <2>. QED
    BY <2>1, <2>2, <2>4 DEF OwnLive, ImageInv, RolloutInv, PublishInv, Answered, Closing, R
<1>. QED
  BY <1>1, <1>2, <1>3 DEF Begins, Push, PushEnds, BuildImage, PushRef

LEMMA DeployLive ==
  ASSUME ShipAssumption, Typed, NEW w \in Operators, OwnInv(w), OwnLive(w), RegistryInv,
         Deploy(w), ~Begins(w)
  PROVE  OwnLive(w)'
<1>0. ImageInv(w)
  BY DEF OwnLive
<1>1. CASE Return(w, "failed")
  BY <1>0, <1>1, FailsLive DEF Outcomes
<1>2. CASE Return(w, "refused") /\ pc[w] \in {"resolve", "digest"}
  BY <1>0, <1>2, FailsLive, PlaceFacts DEF Outcomes, Outside
<1>3. CASE CommitOfTag(w) /\ ~Return(w, "refused")
  BY <1>0, <1>3, QuietLive DEF CommitOfTag, Advance, held
<1>4. CASE Digest(w) /\ ~Return(w, "refused")
  <2> DEFINE image == registry[TagRef(job[w].tag)]
  <2>1. /\ job' = [job EXCEPT ![w] = [job[w] EXCEPT !.image = image]] /\ image # NoImage
        /\ Goto(w, "mkdir") /\ pc[w] = "digest"
    BY <1>4 DEF Digest
  <2>2. job[w] \in Jobs /\ job[w].tag \in Tags /\ job[w].tag # NoTag
    BY <2>1, JobIn, TagIn, RefFacts DEF OfATag
  <2>3. image.version = job[w].tag
    BY <2>1, <2>2 DEF RegistryInv
  <2> HIDE DEF image
  <2>4. job'[w].image = image /\ job'[w].tag = job[w].tag
    BY <2>1, <2>2 DEF Jobs, Typed, TypeOK
  <2>5. pc'[w] = "mkdir"
    BY <2>1, GotoAt
  <2>. QED
    BY <2>1, <2>2, <2>3, <2>4, <2>5 DEF OwnLive, ImageInv, RolloutInv, PublishInv, Answered, Closing
<1>5. CASE MkdirTemp(w, "extract") /\ ~Return(w, "failed")
  BY <1>0, <1>5, QuietLive DEF MkdirTemp
<1>6. CASE Extract(w) /\ ~Return(w, "failed")
  BY <1>0, <1>6, QuietLive DEF Extract, Advance, held
<1>7. CASE ProgramAnswers(w) /\ ~Return(w, "failed")
  <2>1. /\ Goto(w, StepAfter(pc[w])) /\ UNCHANGED <<job, cluster, past>>
        /\ pc[w] \in {"op", "apply", "set"} /\ Answered(w, pc[w])
    BY <1>7 DEF ProgramAnswers, Advance, held, outside, Answered
  <2>2. CASE pc[w] = "op"
    BY <1>0, <2>1, <2>2, QuietLive, StepAfterTyped
  <2>3. CASE pc[w] = "apply"
    BY <2>1, <2>3, StageLive, StepAfterTyped
  <2>4. CASE pc[w] = "set"
    BY <2>1, <2>4, StageLive, StepAfterTyped
  <2>. QED
    BY <2>1, <2>2, <2>3, <2>4
<1>8. CASE Script(w) /\ ~Return(w, "failed")
  <2>1. /\ Goto(w, StepAfter(pc[w])) /\ UNCHANGED <<job, cluster, past>>
        /\ pc[w] \in {"preflight", "after"}
    BY <1>8 DEF Script, Advance, held, outside
  <2>2. CASE pc[w] = "preflight"
    BY <1>0, <2>1, <2>2, QuietLive, StepAfterTyped
  <2>3. CASE pc[w] = "after"
    BY <2>1, <2>3, StageLive, StepAfterTyped
  <2>. QED
    BY <2>1, <2>2, <2>3
<1>9. CASE RolloutStatus(w) /\ ~Return(w, "failed")
  <2>1. /\ Goto(w, "after") /\ UNCHANGED <<job, cluster, past>>
        /\ pc[w] = "status" /\ cluster.image \in cluster.answers
    BY <1>9 DEF RolloutStatus, Advance, held, outside
  <2>. QED
    BY <2>1, StageLive
<1>10. CASE LiveCheck(w) /\ Advance(w, "view")
  <2>1. Goto(w, "view") /\ UNCHANGED <<job, cluster, past>> /\ pc[w] = "live"
    BY <1>10 DEF LiveCheck, Advance, held, outside
  <2>. QED
    BY <2>1, StageLive
<1>11. CASE LiveCheck(w) /\ ~Advance(w, "view") /\ ~Return(w, "failed")
  <2>1. /\ job' = [job EXCEPT ![w] = [job[w] EXCEPT !.tries = job[w].tries + 1]]
        /\ UNCHANGED <<pc, child, cluster, past>> /\ pc[w] = "live"
    BY <1>11 DEF LiveCheck, outside
  <2>2. job'[w].image = job[w].image /\ job'[w].tag = job[w].tag
    BY <2>1, JobIn DEF Jobs, Typed, TypeOK
  <2>. QED
    BY <2>1, <2>2 DEF OwnLive, ImageInv, RolloutInv, PublishInv, Answered, Closing
<1>. QED
  BY <1>1, <1>2, <1>3, <1>4, <1>5, <1>6, <1>7, <1>8, <1>9, <1>10, <1>11
     DEF Begins, Deploy, CommitOfTag, Digest

LEMMA PublishLive ==
  ASSUME ShipAssumption, Typed, NEW w \in Operators, OwnInv(w), OwnLive(w),
         PublishRelease(w), ~Begins(w)
  PROVE  OwnLive(w)'
<1>0. ImageInv(w) /\ UNCHANGED <<cluster, past>> /\ pc[w] \in {"view", "create"}
  BY DEF OwnLive, Begins, PublishRelease, ViewRelease, CreateRelease, outside
<1>1. CASE Return(w, "failed")
  BY <1>0, <1>1, FailsLive DEF Outcomes
<1>2. ASSUME Return(w, "published"), job[w].tag \in releases' PROVE OwnLive(w)'
  <2>1. CASE handler[w] = "off"
    BY <1>0, <1>2, <2>1, FailsLive DEF Outcomes
  <2>2. CASE handler[w] # "off"
    BY <1>0, <1>2, <2>2, ReturnsLive
  <2>. QED
    BY <2>1, <2>2
<1>3. CASE ViewRelease(w) /\ Advance(w, "create")
  BY <1>0, <1>3, StageLive DEF ViewRelease, Advance, held
<1>. QED
  BY <1>1, <1>2, <1>3 DEF Begins, PublishRelease, ViewRelease, CreateRelease, outside

LEMMA CredentialLive ==
  ASSUME ShipAssumption, Typed, NEW w \in Operators, OwnInv(w), OwnLive(w),
         DeployCredential(w), ~Begins(w)
  PROVE  OwnLive(w)'
<1>0. ImageInv(w)
  BY DEF OwnLive
<1>1. CASE Return(w, "failed")
  BY <1>0, <1>1, FailsLive DEF Outcomes
<1>2. CASE AdminReads(w) /\ Return(w, "refused")
  BY <1>0, <1>2, FailsLive, PlaceFacts DEF AdminReads, Outcomes, Outside
<1>3. CASE AdminReads(w) /\ ~Return(w, "refused")
  <2>1. /\ job' = [job EXCEPT ![w] = [job[w] EXCEPT !.token = cluster.token]]
        /\ Goto(w, "mkdir") /\ pc[w] = "admin"
    BY <1>3 DEF AdminReads
  <2>2. job'[w].image = job[w].image /\ job'[w].tag = job[w].tag
    BY <2>1, JobIn DEF Jobs, Typed, TypeOK
  <2>3. job[w].image = NoImage /\ job[w].tag = NoTag
    BY <1>0, <2>1 DEF ImageInv
  <2>4. pc'[w] = "mkdir"
    BY <2>1, GotoAt
  <2>. QED
    BY <2>2, <2>3, <2>4 DEF OwnLive, ImageInv, RolloutInv, PublishInv
<1>4. CASE MkdirTemp(w, "write") /\ job[w].tag = NoTag /\ ~Return(w, "failed")
  <2>1. Goto(w, "write") /\ UNCHANGED job /\ pc[w] = "mkdir"
    BY <1>4 DEF MkdirTemp
  <2>. QED
    BY <1>0, <1>4, <2>1, QuietLive DEF ImageInv
<1>5. CASE WriteFile(w) /\ ~Return(w, "failed")
  BY <1>0, <1>5, QuietLive DEF WriteFile, Advance, held, ImageInv
<1>6. CASE CredentialAnswers(w) /\ ~Return(w, "failed")
  <2>1. /\ pc[w] \in {"dry", "store", "back"} /\ job[w].image = NoImage
        /\ UNCHANGED <<cluster, past>>
    BY <1>0, <1>6 DEF CredentialAnswers, outside, ImageInv
  <2>2. CASE Return(w, "stored")
    <3>1. handler[w] # "off"
      BY <2>1, PlaceFacts DEF Inside
    <3>. QED
      BY <2>1, <2>2, <3>1, ReturnsLive
  <2>3. ASSUME NEW step \in {"store", "back"}, Advance(w, step) PROVE OwnLive(w)'
    BY <1>0, <2>1, <2>3, QuietLive DEF Advance, held
  <2>. QED
    BY <1>6, <2>2, <2>3 DEF CredentialAnswers
<1>. QED
  BY <1>1, <1>2, <1>3, <1>4, <1>5, <1>6 DEF Begins, DeployCredential

LEMMA BeginsLive ==
  ASSUME Typed, NEW w \in Operators, Begins(w)
  PROVE  OwnLive(w)'
<1>1. pc'[w] \in {"build", "resolve", "view", "admin"}
  BY BeginsPlain
<1>2. job'[w].image = NoImage /\ (pc'[w] = "admin" => job'[w].tag = NoTag)
  <2>1. CASE BeginCredential(w)
    BY <2>1 DEF BeginCredential, NoJob, Typed, TypeOK
  <2>2. CASE ~BeginCredential(w)
    <3>1. \E t : OfTag(w, t)
      BY <2>2 DEF Begins, BeginPush, BeginDeploy, BeginPublish
    <3>2. job'[w].image = NoImage
      BY <3>1 DEF OfTag, NoJob, Typed, TypeOK
    <3>3. pc'[w] # "admin"
      BY <2>2, GotoAt DEF Begins, BeginPush, BeginDeploy, BeginPublish, Begin
    <3>. QED
      BY <3>2, <3>3
  <2>. QED
    BY <2>1, <2>2
<1>. QED
  BY <1>1, <1>2 DEF OwnLive, ImageInv, RolloutInv, PublishInv, Closing

LEMMA ProgramLive ==
  ASSUME ShipAssumption, Typed, NEW w \in Operators, OwnInv(w), OwnLive(w), Program(w)
  PROVE  OwnLive(w)'
<1>1. /\ UNCHANGED <<pc, registry, releases>> /\ child'[w].runs = "none"
      /\ ~Ended(w) => pc[w] = child[w].runs
      /\ pc[w] # "deployed"
      /\ child[w].runs \in Children
  <2>1. UNCHANGED <<pc, registry, releases>> /\ child'[w].runs = "none"
    BY DEF Program, OpRead, Apply, SetImage, DryRun, Store, ReadBack, Answer, outside, Typed, TypeOK
  <2>2. child[w].runs \in Children
    BY DEF Program, OpRead, Apply, SetImage, DryRun, Store, ReadBack, Children
  <2>. QED
    BY <2>1, <2>2 DEF OwnInv, ChildInv, Children
<1>2. job'[w].image = job[w].image /\ job'[w].tag = job[w].tag /\ job'[w].left = job[w].left
      /\ job'[w].err = job[w].err
  <2>1. CASE UNCHANGED job
    BY <2>1
  <2>2. CASE ~UNCHANGED job
    <3>1. job' = [job EXCEPT ![w] = [job[w] EXCEPT !.token = document]]
      BY <2>2 DEF Program, OpRead, Apply, SetImage, DryRun, Store, ReadBack
    <3>. QED
      BY <3>1, JobIn DEF Jobs, Typed, TypeOK
  <2>. QED
    BY <2>1, <2>2
<1>3. ImageInv(w)' /\ PublishInv(w)'
  BY <1>1, <1>2 DEF OwnLive, ImageInv, PublishInv, Closing
<1>4. Ended(w) \/ pc[w] \in Children
  BY <1>1
<1>5. ~Closing(w)' /\ pc'[w] \notin {"status", "after", "live", "view", "create"}
  BY <1>1, <1>4 DEF Closing, Children, Ended, Outcomes
<1>6. SUFFICES ASSUME job[w].image # NoImage, w \notin past'.touched
      PROVE  /\ Answered(w, "apply")' \/ pc[w] = "set" => cluster'.tree = job[w].tag
             /\ Answered(w, "set")' => cluster'.image = job[w].image
  BY <1>1, <1>2, <1>3, <1>5 DEF RolloutInv, OwnLive
<1>7. CASE pc[w] = "apply"
  <2>1. Apply(w)
    BY <1>1, <1>7 DEF Program, OpRead, SetImage, DryRun, Store, ReadBack, Ended, Outcomes
  <2>2. child'[w].ok => cluster'.tree = job[w].tag
    <3>1. CASE Answer(w, FALSE)
      BY <3>1 DEF Answer, Typed, TypeOK
    <3>2. CASE ~Answer(w, FALSE)
      <4>1. PICK i \in {cluster.image, NoImage}, good \in BOOLEAN, tree \in {job[w].tag, NoTag} :
              /\ good => tree = job[w].tag
              /\ cluster' = [cluster EXCEPT !.tree = tree, !.image = i]
              /\ Answer(w, good)
        BY <2>1, <3>2 DEF Apply
      <4>2. child'[w].ok = good
        BY <4>1 DEF Answer, Typed, TypeOK
      <4>3. cluster'.tree = tree
        BY <4>1 DEF Typed, TypeOK
      <4>. QED
        BY <4>1, <4>2, <4>3
    <3>. QED
      BY <3>1, <3>2
  <2>. QED
    BY <1>1, <1>7, <2>2 DEF Answered
<1>8. CASE pc[w] = "set"
  <2>1. SetImage(w)
    BY <1>1, <1>8 DEF Program, OpRead, Apply, DryRun, Store, ReadBack, Ended, Outcomes
  <2>2. w \notin past.touched
    BY <1>6, <2>1, OvertakesTyped DEF SetImage
  <2>3. cluster.tree = job[w].tag
    BY <1>6, <1>8, <2>2 DEF OwnLive, RolloutInv
  <2>4. cluster'.tree = cluster.tree
    BY <2>1 DEF SetImage, Typed, TypeOK
  <2>5. child'[w].ok => cluster'.image = job[w].image
    BY <2>1 DEF SetImage, Answer, Typed, TypeOK
  <2>. QED
    BY <1>1, <1>8, <2>3, <2>4, <2>5 DEF Answered
<1>. QED
  BY <1>1, <1>7, <1>8 DEF Answered

LEMMA GuardLive ==
  ASSUME Typed, NEW w \in Operators, OwnInv(w), OwnLive(w), Guard(w)
  PROVE  OwnLive(w)'
<1>0. UNCHANGED <<outside, past>> /\ child' [w] = child[w]
  <2>1. CASE Removed(w)
    BY <2>1, GotoAt DEF Removed, Children
  <2>. QED
    BY <2>1 DEF Guard, RemoveEntries, RemoveDir, Unlisten, Interrupt, TakeSignal,
                ExitOnSignal, Killed
<1>1. CASE RemoveEntries(w) \/ RemoveDir(w) \/ Interrupt(w) \/ TakeSignal(w)
  <2>1. UNCHANGED <<pc, job>>
    BY <1>1 DEF RemoveEntries, RemoveDir, Interrupt, TakeSignal
  <2>. QED
    BY <1>0, <2>1 DEF OwnLive, ImageInv, RolloutInv, PublishInv, Answered, Closing, outside
<1>2. CASE Removed(w)
  <2>1. pc'[w] = "unlisten" /\ UNCHANGED job /\ pc[w] = "remove"
    BY <1>2, GotoAt DEF Removed
  <2>. QED
    BY <1>0, <2>1 DEF OwnLive, ImageInv, RolloutInv, PublishInv, Answered, Closing, outside
<1>3. CASE Unlisten(w)
  <2>1. End(w, Outcome(w)) /\ pc[w] = "unlisten"
    BY <1>3 DEF Unlisten
  <2>2. child[w].runs = "none"
    BY <2>1, PlaceFacts
  <2>3. pc'[w] = Outcome(w) /\ job'[w] = IF Outcome(w) = "deployed" THEN job[w] ELSE NoJob
    BY <2>1, <2>2 DEF End, Typed, TypeOK
  <2>4. CASE Outcome(w) = "deployed"
    <3>1. ~job[w].err /\ job[w].image # NoImage
      BY <2>4 DEF Outcome
    <3>2. Closing(w)
      BY <2>1, <3>1 DEF Closing
    <3>. QED
      BY <1>0, <2>3, <2>4, <3>1, <3>2
         DEF OwnLive, ImageInv, RolloutInv, PublishInv, Answered, outside
  <2>5. CASE Outcome(w) # "deployed"
    <3>1. pc'[w] \in {"failed", "unremoved", "stored"} /\ job'[w].image = NoImage
      BY <2>3, <2>5 DEF Outcome, NoJob
    <3>. QED
      BY <3>1 DEF OwnLive, ImageInv, RolloutInv, PublishInv, Closing
  <2>. QED
    BY <2>4, <2>5
<1>4. CASE ExitOnSignal(w) \/ Killed(w)
  <2>1. PICK how \in {"interrupted", "killed"} : End(w, how)
    BY <1>4 DEF ExitOnSignal, Killed
  <2>2. pc'[w] = how
    BY <2>1 DEF End, Typed, TypeOK
  <2>3. job'[w] = job[w] \/ job'[w] = NoJob
    BY <2>1 DEF End, Typed, TypeOK
  <2>4. job'[w].image # NoImage => job'[w].image.version = job'[w].tag
    BY <2>3 DEF NoJob, OwnLive, ImageInv
  <2>. QED
    BY <2>2, <2>4 DEF OwnLive, ImageInv, RolloutInv, PublishInv, Answered, Closing
<1>. QED
  BY <1>1, <1>2, <1>3, <1>4 DEF Guard

LEMMA ActsLive ==
  ASSUME ShipAssumption, Typed, NEW w \in Operators, OwnInv(w), OwnLive(w), RegistryInv, Acts(w)
  PROVE  OwnLive(w)'
BY BeginsLive, PushLive, DeployLive, PublishLive, CredentialLive, ProgramLive, GuardLive
   DEF Acts

(* Only a push writes the registry, and only the references of its tag. *)
LEMMA RegistryStep ==
  ASSUME ShipAssumption, Typed, NEW w \in Operators, OwnLive(w), RegistryInv, Acts(w)
  PROVE  RegistryInv'
<1>1. CASE UNCHANGED registry
  BY <1>1 DEF RegistryInv
<1>2. CASE ~UNCHANGED registry
  <2>1. PushRef(w) /\ registry' = [registry EXCEPT ![Head(job[w].left)] = job[w].image]
    <3>1. ~Begins(w)
      BY <1>2, BeginsPlain DEF outside
    <3>2. ~Program(w)
      BY <1>2 DEF Program, OpRead, Apply, SetImage, DryRun, Store, ReadBack, outside
    <3>3. ~Guard(w)
      BY <1>2 DEF Guard, RemoveEntries, RemoveDir, Removed, Unlisten, Interrupt, TakeSignal,
                  ExitOnSignal, Killed, outside
    <3>4. PushRef(w)
      BY <1>2, <3>1, <3>2, <3>3, ActsSplit
         DEF Goes, Begins, Push, BuildImage, PushEnds, Deploy, CommitOfTag, Digest,
             MkdirTemp, Extract, ProgramAnswers, Script, RolloutStatus, LiveCheck, PublishRelease,
             ViewRelease, CreateRelease, DeployCredential, AdminReads, WriteFile,
             CredentialAnswers, outside
    <3>. QED
      BY <1>2, <3>4 DEF PushRef
  <2> DEFINE R == {TagRef(job[w].tag), ShaRef(job[w].tag), Latest}
  <2>2. job[w].left \in Seq(R) /\ job[w].left # <<>>
    BY <2>1 DEF PushRef, OwnLive, ImageInv
  <2> HIDE DEF R
  <2>3. Head(job[w].left) \in R
    BY <2>2
  <2>4. ASSUME NEW t \in Tags, registry'[TagRef(t)] # NoImage
        PROVE  registry'[TagRef(t)].version = t
    <3>1. TagRef(t) \in Refs
      BY RefFacts
    <3>2. CASE TagRef(t) = Head(job[w].left)
      <4>1. t = job[w].tag
        BY <2>3, <3>2, RefFacts DEF R
      <4>2. registry'[TagRef(t)] = job[w].image
        BY <2>1, <3>1, <3>2 DEF Typed, TypeOK
      <4>. QED
        BY <2>4, <4>1, <4>2 DEF OwnLive, ImageInv
    <3>3. CASE TagRef(t) # Head(job[w].left)
      <4>1. registry'[TagRef(t)] = registry[TagRef(t)]
        BY <2>1, <3>1, <3>3 DEF Typed, TypeOK
      <4>. QED
        BY <2>4, <4>1 DEF RegistryInv
    <3>. QED
      BY <3>2, <3>3
  <2>. QED
    BY <2>4 DEF RegistryInv
<1>. QED
  BY <1>1, <1>2

(* What a step does to the cluster overtakes every other deploy. *)
LEMMA ClusterMoves ==
  ASSUME Typed, NEW w \in Operators, Acts(w), NEW v \in Operators \ {w}
  PROVE  /\ v \notin past'.touched => v \notin past.touched /\ cluster' = cluster
         /\ releases \subseteq releases'
<1>1. CASE Begins(w)
  BY <1>1, BeginsPlain DEF outside
<1>2. CASE Goes(w)
  <2>1. past'.touched = past.touched
    <3>1. past' = past \/ past' = Late(w)
      BY <1>2, LateKept DEF WriteFile
    <3>. QED
      BY <3>1, LateHas
  <2>2. cluster' = cluster /\ releases \subseteq releases'
    BY <1>2 DEF Goes, Begins, Push, BuildImage, PushRef, PushEnds, Deploy, CommitOfTag, Digest,
              MkdirTemp, Extract, ProgramAnswers, Script, RolloutStatus, LiveCheck, PublishRelease,
              ViewRelease, CreateRelease, DeployCredential, AdminReads, WriteFile,
              CredentialAnswers, outside
  <2>. QED
    BY <2>1, <2>2
<1>3. CASE Program(w)
  <2>0. releases' = releases
    BY <1>3 DEF Program, OpRead, Apply, SetImage, DryRun, Store, ReadBack, outside
  <2>1. CASE Apply(w) /\ ~UNCHANGED <<cluster, past>>
    <3>1. past' = [Overtakes(w) EXCEPT !.touched = Overtakes(w).touched \ {w}]
      BY <2>1 DEF Apply
    <3>2. v \in past'.touched
      BY <3>1, OvertakesTyped
    <3>. QED
      BY <2>0, <3>2
  <2>2. CASE SetImage(w) /\ ~UNCHANGED <<cluster, past>>
    <3>1. past' = Overtakes(w)
      BY <2>2 DEF SetImage
    <3>. QED
      BY <2>0, <3>1, OvertakesTyped
  <2>3. CASE DryRun(w)
    <3>1. past'.touched = past.touched /\ cluster' = cluster
      BY <2>3 DEF DryRun, outside, Typed, TypeOK
    <3>. QED
      BY <2>0, <3>1
  <2>4. CASE OpRead(w) \/ Store(w) \/ ReadBack(w) \/ UNCHANGED <<cluster, past>>
    <3>1. cluster' = cluster /\ (past' = past \/ past' = Late(w))
      BY <2>4 DEF OpRead, Store, ReadBack, outside
    <3>. QED
      BY <2>0, <3>1, LateHas
  <2>. QED
    BY <1>3, <2>1, <2>2, <2>3, <2>4 DEF Program
<1>4. CASE Guard(w)
  BY <1>4 DEF Guard, RemoveEntries, RemoveDir, Removed, Unlisten, Interrupt, TakeSignal,
              ExitOnSignal, Killed, outside
<1>. QED
  BY <1>1, <1>2, <1>3, <1>4, ActsSplit

LEMMA ElsewhereLive ==
  ASSUME Typed, NEW w \in Operators, OwnLive(w), Roll \/ Rotate
  PROVE  OwnLive(w)'
<1>1. UNCHANGED <<pc, job, child, releases, past>>
  BY DEF Roll, Rotate, own
<1>2. /\ cluster'.tree = cluster.tree /\ cluster'.image = cluster.image
      /\ cluster.image \in cluster.answers => cluster.image \in cluster'.answers
  <2>1. CASE Roll
    <3>1. PICK S \in {cluster.answers \cup {cluster.image}, {cluster.image}} :
            cluster' = [cluster EXCEPT !.answers = S]
      BY <2>1 DEF Roll
    <3>. QED
      BY <3>1 DEF Typed, TypeOK
  <2>2. CASE Rotate
    BY <2>2 DEF Rotate, Typed, TypeOK
  <2>. QED
    BY <2>1, <2>2
<1>3. ImageInv(w)' /\ PublishInv(w)'
  BY <1>1 DEF OwnLive, ImageInv, PublishInv, Closing
<1>4. RolloutInv(w)'
  BY <1>1, <1>2 DEF OwnLive, RolloutInv, Answered, Closing
<1>. QED
  BY <1>3, <1>4 DEF OwnLive

LEMMA LiveStep == ShipAssumption /\ Typed /\ CommandInv /\ LiveInv /\ [Next]_vars => LiveInv'
<1> SUFFICES ASSUME ShipAssumption, Typed, CommandInv, LiveInv, [Next]_vars PROVE LiveInv'
  OBVIOUS
<1>0. \A w \in Operators : OwnLive(w)
  BY DEF LiveInv, OwnLive
<1>1. ASSUME NEW w \in Operators, Acts(w) PROVE LiveInv'
  <2>1. OthersStay(w) /\ OwnLive(w)' /\ RegistryInv'
    BY <1>0, <1>1, OnlyOwn, ActsLive, RegistryStep DEF CommandInv, LiveInv
  <2>2. ASSUME NEW v \in Operators \ {w} PROVE OwnLive(v)'
    <3>1. pc'[v] = pc[v] /\ job'[v] = job[v] /\ child'[v] = child[v]
      BY <2>1 DEF OthersStay
    <3>2. /\ v \notin past'.touched => v \notin past.touched /\ cluster' = cluster
          /\ releases \subseteq releases'
      BY <1>1, ClusterMoves
    <3>3. OwnLive(v)
      BY <1>0
    <3>. QED
      BY <3>1, <3>2, <3>3 DEF OwnLive, ImageInv, RolloutInv, PublishInv, Answered, Closing
  <2>. QED
    BY <2>1, <2>2 DEF LiveInv, OwnLive
<1>2. CASE Roll \/ Rotate
  <2>1. UNCHANGED registry
    BY <1>2 DEF Roll, Rotate
  <2>. QED
    BY <1>0, <1>2, <2>1, ElsewhereLive DEF LiveInv, OwnLive, RegistryInv
<1>3. CASE UNCHANGED vars
  BY <1>3 DEF vars, LiveInv, OwnLive, RegistryInv, ImageInv, RolloutInv, PublishInv, Answered, Closing
<1>. QED
  BY <1>1, <1>2, <1>3 DEF Next, Acts

-----------------------------------------------------------------------------
(* The theorems *)

Invariant == Typed /\ CommandInv /\ LiveInv /\ StoreInv /\ CredentialInv

LEMMA InitInvariant == ShipAssumption /\ Init => Invariant
<1> SUFFICES ASSUME ShipAssumption, Init PROVE Invariant
  OBVIOUS
<1>1. TypeOK
  BY InitTyped
<1>2. /\ \A w \in Operators : pc[w] = "idle" /\ handler[w] = "off" /\ removal[w] = "no"
                              /\ dir[w] = Gone /\ child[w] = NoChild /\ job[w] = NoJob
  BY DEF Init
<1>3. Typed /\ CommandInv /\ CredentialInv
  BY <1>1, <1>2 DEF Typed, TagInv, OfATag, CommandInv, OwnInv, GuardInv, ChildInv, RemovalInv,
                    CredentialInv, LateInv, Ended, Outcomes, Outside, Inside, Gone, NoChild
<1>4. StoreInv
  BY <1>2 DEF Init, StoreInv, StoredIsProven, ProvenInv, NoChild
<1>5. RegistryInv
  <2> SUFFICES ASSUME NEW t \in Tags, registry[TagRef(t)] # NoImage
               PROVE  registry[TagRef(t)].version = t
    BY DEF RegistryInv
  <2>1. TagRef(t) \in Refs /\ TagRef(t)[2] = t
    BY RefFacts DEF TagRef
  <2>2. registry[TagRef(t)] = [version |-> TagRef(t)[2], build |-> 0]
    BY <2>1 DEF Init
  <2>. QED
    BY <2>1, <2>2
<1>6. LiveInv
  BY <1>2, <1>5 DEF LiveInv, OwnLive, ImageInv, RolloutInv, PublishInv, NoJob, Answered, Closing
<1>. QED
  BY <1>3, <1>4, <1>6 DEF Invariant

LEMMA Always == Spec => []Invariant
<1>1. Init => Invariant
  BY ShipAssumption, InitInvariant
<1>2. Invariant /\ [Next]_vars => Invariant'
  BY ShipAssumption, NextTyped, CommandStep, LiveStep, StoreStep, CredentialStep DEF Invariant
<1>. QED
  BY <1>1, <1>2, PTL DEF Spec

(* The variables keep their types in every run. *)
THEOREM Typing == Spec => []TypeOK
<1>1. Invariant => TypeOK
  BY DEF Invariant, Typed
<1>. QED
  BY <1>1, Always, PTL

(* A deploy that says its tag is live has had the whole of it applied, its image
   set and taken by the pods, and its release published, and no step of its own
   and no program left over from a command that was interrupted undoes that:
   only another's kubectl may. *)
THEOREM Live == Spec => []DeployedIsLive
<1>1. ASSUME Invariant, NEW w \in Operators, pc[w] = "deployed"
      PROVE  /\ job[w].tag \in releases
             /\ w \notin past.touched =>
                    /\ cluster.tree = job[w].tag
                    /\ cluster.image = job[w].image /\ job[w].image \in cluster.answers
                    /\ job[w].image.version = job[w].tag
  BY <1>1 DEF Invariant, LiveInv, OwnLive, ImageInv, RolloutInv, PublishInv, Closing
<1>2. Invariant => DeployedIsLive
  BY <1>1 DEF DeployedIsLive
<1>. QED
  BY <1>2, Always, PTL

(* What 1Password holds is a token the cluster has taken, however the commands
   of several operators interleave, end or are killed between the dry run and
   the read back, and though a program they started outlives them. *)
THEOREM Stored == Spec => []StoredIsProven
<1>1. Invariant => StoredIsProven
  BY DEF Invariant, StoreInv
<1>. QED
  BY <1>1, Always, PTL

(* No end of a command leaves the credential on the disk, but a kill, and a
   write that came too late: when the removal had listed the directory, by the
   command itself or by the program it waits for, or by a program that has
   outlived the command. *)
THEOREM Credential == Spec => []CredentialGoes
<1>1. Invariant => CredentialGoes
  BY DEF Invariant, CredentialInv, LateInv, CredentialGoes
<1>. QED
  BY <1>1, Always, PTL
=============================================================================
