-------------------------------- MODULE SpecLint --------------------------------
(***************************************************************************)
(* The spec-lint gate (internal/speclint): whether a tree of specs, beside *)
(* each other and in an archive, describes itself.  The rules run over one *)
(* reading of the tree, some over the specs at work and some over all.     *)
(*                                                                         *)
(* A spec is its base name with the number it starts with (0: none), where *)
(* it lies, its status, the texts of its other frontmatter keys ("":       *)
(* none), its dependencies in order, and what is in its body.  An href has *)
(* the place it leads to, "here", "archive" or "elsewhere", and a name.    *)
(* The index is its lines.                                                 *)
(***************************************************************************)
EXTENDS Naturals, Sequences, FiniteSets, SequencesExt

Places == {"here", "archive", "elsewhere"}

(* What a reading of two directories and an index is: no directory has two
   files of one name. *)
IsTree(tree) ==
  /\ \A s, t \in tree.specs : s.name = t.name /\ s.archived = t.archived => s = t
  /\ \A s \in tree.specs : s.archived \in BOOLEAN /\ s.body.rows \in Seq(Nat)
  /\ \A s \in tree.specs : \A i \in 1..Len(s.deps) : s.deps[i].at \in Places
  /\ \A i \in 1..Len(tree.index) : tree.index[i].href \in [at : Places, name : STRING]

Names(specs) == {s.name : s \in specs}
Active(tree) == {s \in tree.specs : ~s.archived}
Archived(tree) == {s \in tree.specs : s.archived}

Problem(rule, specs) == {<<rule, s.name>> : s \in specs}

-----------------------------------------------------------------------------
(* What a spec says of itself *)

(* A vocabulary that names no status allows every one. *)
AllowsStatus(cfg, status) == cfg.status = {} \/ status \in cfg.status

CheckFrontmatter(cfg, specs) ==
  Problem("require", {s \in specs : \E k \in cfg.require : s.fields[k] = ""})
  \cup Problem("status", {s \in specs : s.status # "" /\ ~AllowsStatus(cfg, s.status)})

CheckVocabulary(cfg, specs) ==
  Problem("vocabulary", {s \in specs : \E k \in DOMAIN cfg.vocabulary :
                           s.fields[k] \notin cfg.vocabulary[k] \cup {""}})

(* A field a status needs is there at that status, and at no other. *)
CheckStatusRequires(cfg, specs) ==
  Problem("status_requires", {s \in specs : \E st \in DOMAIN cfg.statusRequires :
                                (s.status = st) # (s.fields[cfg.statusRequires[st]] # "")})

CheckSections(cfg, specs) ==
  Problem("section", {s \in specs : s.name \notin cfg.sectionExempt /\
    ~cfg.sections \cup (IF s.status \in DOMAIN cfg.sectionsOf THEN cfg.sectionsOf[s.status] ELSE {})
       \subseteq s.body.headings})

CheckScopedIDs(cfg, specs) ==
  Problem("scoped", {s \in specs : cfg.scoped /\ s.number # 0 /\ ~s.body.ids \subseteq {s.number}})

CheckMarker(cfg, specs) ==
  Problem("marker", {s \in specs :
    \/ s.body.marker = "" /\ s.status \in cfg.marked
    \/ s.body.marker # "" /\ s.status \in DOMAIN cfg.opens /\ s.body.marker # cfg.opens[s.status]})

(* Every row of a table is as wide as its header. *)
CheckTables(cfg, specs) ==
  Problem("tables", {s \in specs : cfg.tables /\ \E t \in s.body.tables :
                       \E i \in 1..Len(t) : t[i] # t[1]})

-----------------------------------------------------------------------------
(* What it says of others *)

CheckArchive(cfg, tree) ==
  IF ~cfg.archive THEN {} ELSE
  Problem("terminal", {s \in Active(tree) : s.status \in cfg.terminal})
  \cup Problem("open", {s \in Archived(tree) : s.status \notin cfg.terminal})

CheckDependencies(tree) ==
  Problem("dangling", {s \in tree.specs : \E i \in 1..Len(s.deps) :
    LET d == s.deps[i] IN
    \/ d.at = "archive" /\ d.name \notin Names(Archived(tree))
    \/ d.at = "here" /\ d.name \notin Names(tree.specs)})

(* The edges the search follows: the ones written as a bare name. *)
Follows(tree, n) ==
  LET mine(s) == SelectSeq(s.deps, LAMBDA d : d.at = "here" /\ d.name \in Names(tree.specs))
      all == FoldLeft(LAMBDA l, s : l \o mine(s), <<>>, SetToSeq({s \in tree.specs : s.name = n}))
  IN  [i \in 1..Len(all) |-> all[i].name]

Walks(names) ==
  [state : [names -> {"unvisited", "onStack", "done"}], stack : Seq(names), cycles : SUBSET Seq(names)]

(* Mutant: a spec counts as done when the search enters it. *)
EnterDone(walk, n) == [walk EXCEPT !.state[n] = "done", !.stack = Append(@, n)]

(* visit, around its loop: a spec is on the stack while what it depends on is
   visited. *)
Enter(walk, n) == [walk EXCEPT !.state[n] = "onStack", !.stack = Append(@, n)]
Leave(walk, n) == [walk EXCEPT !.state[n] = "done", !.stack = Front(@)]

(* An edge back into the stack is a cycle. *)
Meet(walk, d) ==
  IF walk.state[d] # "onStack" THEN walk
  ELSE [walk EXCEPT !.cycles = @ \cup {SubSeq(walk.stack, SelectInSeq(walk.stack, LAMBDA x : x = d),
                                              Len(walk.stack))}]

(* The search in depth, from each spec that is not visited yet. *)
Cycles(tree) ==
  LET names == Names(tree.specs)
      visit[n \in names, walk \in Walks(names)] ==
        LET edge(w, d) == IF w.state[d] = "unvisited" THEN visit[d, w] ELSE Meet(w, d)
        IN  Leave(FoldLeft(edge, Enter(walk, n), Follows(tree, n)), n)
      from(w, s) == IF w.state[s.name] = "unvisited" THEN visit[s.name, w] ELSE w
      start == [state |-> [n \in names |-> "unvisited"], stack |-> <<>>, cycles |-> {}]
  IN  FoldLeft(from, start, SetToSeq(tree.specs)).cycles

CheckAcyclic(tree) == {<<"cycle", c[1]>> : c \in Cycles(tree)}

(* Mutant: a number in the archive is free again. *)
CheckNumberingActive(cfg, tree) ==
  IF ~cfg.numbered THEN {} ELSE
  Problem("reused", {s \in Active(tree) : \E t \in Active(tree) : t # s /\ t.number = s.number})

CheckNumbering(cfg, tree) ==
  IF ~cfg.numbered THEN {} ELSE
  Problem("numberless", {s \in tree.specs : s.number = 0})
  \cup Problem("reused", {s \in tree.specs : s.number # 0 /\
                            \E t \in tree.specs : t # s /\ t.number = s.number})

CheckReadiness(cfg, tree) ==
  Problem("unready", {s \in Active(tree) : s.status \in cfg.started /\
    \E i \in 1..Len(s.deps), t \in Active(tree) :
      s.deps[i] = [at |-> "here", name |-> t.name] /\ t.status \notin cfg.settled})

(* Identifiers the register defines, in order; a row is cited by its own.  That
   they leave no gap and that citations lead to one is each asked for apart. *)
CheckRegister(cfg, tree) ==
  IF cfg.register = "" THEN {} ELSE
  LET owners == {s \in Active(tree) : s.name = cfg.register}
      rows == UNION {ToSet(s.body.rows) : s \in owners}
  IN  IF rows = {} THEN {<<"register", cfg.register>>}
      ELSE Problem("row twice", {s \in owners : ~IsInjective(s.body.rows)})
           \cup {<<"row gone", i>> : i \in {j \in 1..Cardinality(rows) : cfg.sequential /\ j \notin rows}}
           \cup Problem("no row", {s \in Active(tree) \ owners : cfg.cite /\ ~s.body.cites \subseteq rows})

CheckStatusLinked(cfg, tree) ==
  UNION {LET file == cfg.linkedFrom[st]
             owners == {s \in Active(tree) : s.name = file}
         IN  IF owners = {} THEN {<<"status_linked", file>>}
             ELSE Problem("unlinked", {s \in Active(tree) \ owners : s.status = st /\
                                         \E o \in owners : s.name \notin o.body.links})
         : st \in DOMAIN cfg.linkedFrom}

CheckWikilinks(cfg, tree) ==
  Problem("wikilink", {s \in Active(tree) : cfg.wikilinks /\ ~s.body.wikilinks \subseteq Names(tree.specs)})

-----------------------------------------------------------------------------
(* The index.  A line is prose, a table's separator, or a table row, which may
   be a header with a Status column, and may link to a spec. *)

(* The Status column of the table a line is read under; 0 for none. *)
StatusCol(index, i) ==
  LET at[j \in 0..i] ==
        IF j = 0 \/ index[j].kind = "prose" THEN 0
        ELSE IF index[j].kind = "row" /\ j < Len(index) /\ index[j+1].kind = "separator"
                /\ index[j].statusCol # 0
             THEN index[j].statusCol
        ELSE at[j-1]
  IN  at[i]

(* The rows that claim something of a spec: its link comes before the status. *)
Rows(index) ==
  {i \in 1..Len(index) :
     /\ index[i].kind = "row" /\ index[i].href.name # ""
     /\ index[i].statusCol = 0 \/ i = Len(index) \/ index[i+1].kind # "separator"
     /\ StatusCol(index, i) > index[i].linkCol
     /\ index[i].href.at # "elsewhere"}

CheckIndex(cfg, tree) ==
  LET rows == {tree.index[i] : i \in Rows(tree.index)}
      away == {r \in rows : r.href.at = "archive"}
      listed == {r.href.name : r \in rows}
  IN  {<<"row", r.href.name>> : r \in
         {q \in away : q.href.name \notin Names(Archived(tree))}
         \cup {q \in rows \ away : q.href.name \notin Names(Active(tree))}}
      \cup Problem("row status", {s \in Active(tree) : cfg.status # {} /\
                                    \E r \in rows \ away : r.href.name = s.name /\ r.status # s.status})
      \cup Problem("unlisted", {s \in Active(tree) : s.name \notin listed})
      \cup (IF away = {} THEN {}
            ELSE Problem("unlisted", {s \in Archived(tree) : s.name \notin listed}))

-----------------------------------------------------------------------------

(* A tree without a spec, and an index without a row, are errors of their own. *)
Readable(cfg, tree) ==
  Active(tree) # {} /\ (cfg.index => Rows(tree.index) # {})

Problems(cfg, tree) ==
  CheckFrontmatter(cfg, tree.specs)
  \cup CheckVocabulary(cfg, Active(tree)) \cup CheckStatusRequires(cfg, Active(tree))
  \cup CheckSections(cfg, Active(tree)) \cup CheckScopedIDs(cfg, Active(tree))
  \cup CheckMarker(cfg, Active(tree)) \cup CheckTables(cfg, Active(tree))
  \cup CheckArchive(cfg, tree) \cup CheckRegister(cfg, tree) \cup CheckStatusLinked(cfg, tree)
  \cup CheckDependencies(tree) \cup CheckAcyclic(tree) \cup CheckNumbering(cfg, tree)
  \cup CheckReadiness(cfg, tree) \cup CheckWikilinks(cfg, tree)
  \cup (IF cfg.index THEN CheckIndex(cfg, tree) ELSE {})

Run(cfg, tree) == Readable(cfg, tree) /\ Problems(cfg, tree) = {}

-----------------------------------------------------------------------------

(* Everything a spec reaches by dependencies written as bare names. *)
Reach(tree, n) ==
  LET step(ns) == UNION {ToSet(Follows(tree, m)) : m \in ns}
      up[k \in 1..Cardinality(tree.specs)] ==
        IF k = 1 THEN ToSet(Follows(tree, n)) ELSE up[k-1] \cup step(up[k-1])
  IN  up[Cardinality(tree.specs)]

(* The lint names a cycle exactly when there is one, and each it names is one:
   "what must land first" has an answer in a tree it passes. *)
CyclesAreFound(tree) ==
  /\ (\E n \in Names(tree.specs) : n \in Reach(tree, n)) = (Cycles(tree) # {})
  /\ \A c \in Cycles(tree) : \A i \in 1..Len(c) :
       c[IF i = Len(c) THEN 1 ELSE i + 1] \in ToSet(Follows(tree, c[i]))

(* Specs that finish, move to the archive or are renumbered leave nothing
   behind in a tree that passes: each citation, by name, by number, by row of
   the register or in the index, leads to one spec or row, the register has no
   gap where it is asked for, and the index says what the spec says.  A spec
   whose name an archived one bears may be listed by the row of that one. *)
CitationsLead(cfg, tree) ==
  Run(cfg, tree) =>
    /\ \A s \in tree.specs : \A i \in 1..Len(s.deps) :
         s.deps[i].at # "elsewhere" => \E t \in tree.specs :
           t.name = s.deps[i].name /\ (s.deps[i].at = "archive" => t.archived)
    /\ cfg.numbered => \A s, t \in tree.specs : s # t => s.number # t.number
    /\ cfg.archive => \A s \in tree.specs : s.archived = (s.status \in cfg.terminal)
    /\ cfg.register # "" =>
         \E s \in Active(tree) :
           /\ s.name = cfg.register /\ s.body.rows # <<>> /\ IsInjective(s.body.rows)
           /\ cfg.sequential => ToSet(s.body.rows) = 1..Len(s.body.rows)
           /\ cfg.cite => \A t \in Active(tree) \ {s} : t.body.cites \subseteq ToSet(s.body.rows)
    /\ cfg.index => \A s \in Active(tree) : s.name \notin Names(Archived(tree)) =>
         \E i \in Rows(tree.index) : tree.index[i].href = [at |-> "here", name |-> s.name]
           /\ (cfg.status # {} => tree.index[i].status = s.status)
=============================================================================
