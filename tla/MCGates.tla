-------------------------------- MODULE MCGates --------------------------------
\* Small inputs for each gate, the ones its rules tell apart.
EXTENDS Gates, SequencesExt

-----------------------------------------------------------------------------
\* Programs of two helpers and a function with one statement.

Loc(x)        == [op |-> "local", x |-> x]
New(t)        == [op |-> "new", t |-> t]
Conv(t)       == [op |-> "convert", t |-> t]
CallOf(f)     == [op |-> "call", f |-> f]
Encode(x)     == [do |-> "encode", x |-> x]
Assign(x, e)  == [do |-> "assign", x |-> x, e |-> e]
Return(e)     == [do |-> "return", e |-> e]
Bind(e, c)    == [do |-> "bind", e |-> e, cast |-> c]
Func(t, body) == [result |-> t, body |-> body]

Leaves ==
  {Func("any", <<Encode("b"), Return(Loc("b"))>>),
   Func("string", <<Encode("b"), Return(Conv("string"))>>),
   Func("bytes", <<Encode("b"), Return(Loc("b"))>>),
   Func("any", <<Encode("v"), Return(Loc("v"))>>),
   Func("any", <<Encode("b"), Assign("w", Loc("v")), Assign("v", Loc("b")), Return(Loc("w"))>>),
   Func("any", <<Return(New("struct")), Return(New("string"))>>)}

Wraps(g) ==
  {Func("any", <<Assign("v", CallOf(g)), Return(Loc("v"))>>),
   Func("any", <<Return(New("string")), Return(CallOf(g))>>),
   Func("any", <<Encode("b"), Assign("v", Conv("string")), Assign("v", CallOf(g)), Return(Loc("v"))>>)}

Casts == {"none", "jsonb", "bytea"}

Statement(e) == {<<Bind(e, c)>> : c \in Casts}

Mains ==
  UNION {Statement(New(t)) : t \in DOMAIN JSON!Go \ {"any", "byte"}}
  \cup UNION {Statement(CallOf(f)) : f \in {1, 2}}
  \cup {<<Encode("b")>> \o s : s \in Statement(Loc("b")) \cup Statement(Conv("string")) \cup Statement(Conv("blob"))}
  \cup {<<Assign("v", CallOf(f)), Assign("v", New(t)), Bind(Loc("v"), c)>> :
          f \in {1, 2}, t \in {"raw", "bool"}, c \in Casts}

Main(body) == Func("any", body)

MCPrograms ==
  {<<f, g, Main(m)>> : f \in Leaves \cup Wraps(2), g \in Leaves \cup Wraps(1), m \in Mains}

-----------------------------------------------------------------------------
\* Repositories of up to two Go files.

Literal(n)  == [kind |-> "literal", name |-> PG!Name("", n)]
Constant(n) == [kind |-> "constant", name |-> n]
Bound(of, n) == [of |-> of, name |-> PG!Name("", n)]

Empty == [dir |-> "root", test |-> FALSE, parses |-> TRUE, client |-> FALSE, env |-> {},
          binds |-> {}, statements |-> "none"]

Store == [Empty EXCEPT !.client = TRUE, !.statements = "sound",
                       !.env = {Literal("DATABASE_URL"), Constant("poolName")}]

MCFiles ==
  {Empty, Store, [Store EXCEPT !.statements = "wrong"], [Store EXCEPT !.dir = "nested"],
   [Store EXCEPT !.test = TRUE], [Store EXCEPT !.dir = "testdata"], [Store EXCEPT !.parses = FALSE],
   [Empty EXCEPT !.binds = {Bound("poolName", "DATABASE_POOL_URL")}],
   [Empty EXCEPT !.binds = {Bound("poolName", "DATABASE_URL")}],
   [Store EXCEPT !.env = {Literal("DB_URL"), Literal("DB_POOL_URL")}]}

Pooled == [PG!Undeclared EXCEPT !.present = TRUE, !.role = "pooled"]

MCBlocks ==
  {PG!Undeclared, Pooled}
  \cup {[Pooled EXCEPT !.role = r] : r \in {PG!Unset, "none", "direct"}}
  \cup {[Pooled EXCEPT !.direct = "DB_URL", !.pool = n] : n \in {"", "DB_URL", "DB_POOL_URL", "lower-case"}}
  \cup {[Pooled EXCEPT !.prefix = "lower-case"], [Pooled EXCEPT !.role = "none", !.prefix = "EVAL"]}

MCRepositories ==
  {[block |-> b, waiver |-> w, day |-> 2, tree |-> [files |-> fs, typechecks |-> t]] :
     b \in MCBlocks, w \in 0..2, t \in BOOLEAN,
     fs \in {{f, g} : f, g \in MCFiles} \cup {{}}}

-----------------------------------------------------------------------------
\* Spec trees: every graph over three specs, and small trees whose specs move.

Here(n) == [at |-> "here", name |-> n]
Away(n) == [at |-> "archive", name |-> n]
Other(n) == [at |-> "elsewhere", name |-> n]

Body == [headings |-> {"outcome"}, ids |-> {}, marker |-> "", tables |-> {<<2, 2>>}, rows |-> <<1, 2>>,
         cites |-> {}, links |-> {}, wikilinks |-> {}]
Spec1(n, k, st) ==
  [name |-> n, number |-> k, archived |-> FALSE, status |-> st, fields |-> [shipped |-> "", layer |-> ""],
   deps |-> <<>>, body |-> Body]

SpecCfg ==
  [require |-> {}, status |-> {"draft", "built", "dropped"}, vocabulary |-> [layer |-> {"core"}],
   statusRequires |-> [built |-> "shipped"], sections |-> {}, sectionExempt |-> {}, sectionsOf |-> [built |-> {"outcome"}],
   scoped |-> TRUE, marked |-> {}, opens |-> [built |-> "shipped"], tables |-> TRUE,
   archive |-> TRUE, terminal |-> {"built", "dropped"}, numbered |-> TRUE, started |-> {}, settled |-> {},
   register |-> "", sequential |-> FALSE, cite |-> FALSE, linkedFrom |-> <<>>, wikilinks |-> TRUE, index |-> FALSE]

Edges(ns) == SetToSeq({Here(n) : n \in ns})

Graphs3 ==
  {[cfg |-> SpecCfg,
    tree |-> [index |-> <<>>,
              specs |-> {[Spec1("a", 1, "draft") EXCEPT !.deps = Edges(da)],
                         [Spec1("b", 2, "draft") EXCEPT !.deps = Edges(db)],
                         [Spec1("c", 3, "draft") EXCEPT !.deps = Edges(dc)]}]] :
     da, db, dc \in SUBSET {"a", "b", "c"}}

Header(col) == [kind |-> "row", statusCol |-> col, linkCol |-> 0, href |-> Other(""), status |-> ""]
Separator == [Header(0) EXCEPT !.kind = "separator"]
Prose == [Header(0) EXCEPT !.kind = "prose"]
Row(href, st) == [Header(0) EXCEPT !.linkCol = 1, !.href = href, !.status = st]
Legend(href, st) == [Row(href, st) EXCEPT !.linkCol = 3]

MCIndexes ==
  {<<Header(2), Separator>> \o rows :
     rows \in {<<>>, <<Row(Here("a"), "draft")>>, <<Row(Here("a"), "built")>>, <<Legend(Here("a"), "draft")>>,
               <<Row(Here("a"), "draft"), Row(Here("b"), "draft")>>,
               <<Row(Here("a"), "draft"), Row(Away("b"), "shipped")>>,
               <<Row(Here("a"), "draft"), Prose, Row(Here("b"), "draft")>>}}

Registers ==
  {[SpecCfg EXCEPT !.index = TRUE],
   [SpecCfg EXCEPT !.index = TRUE, !.sections = {"purpose"}, !.sectionExempt = {"a", "b"}]}
  \cup {[SpecCfg EXCEPT !.index = TRUE, !.register = "a", !.sequential = q, !.cite = c] : q, c \in BOOLEAN}

Moving ==
  {[cfg |-> c,
    tree |-> [index |-> ix,
              specs |-> {[Spec1("a", 1, "draft") EXCEPT !.deps = d, !.body.rows = rows],
                         [Spec1("b", k, st) EXCEPT !.archived = away, !.body.cites = cites,
                            !.fields.shipped = IF st = "built" THEN "v1" ELSE ""]}]] :
     c \in Registers, cites \in {{}, {3}}, ix \in MCIndexes, d \in {<<>>, <<Here("b")>>, <<Away("b")>>, <<Other("b")>>, <<Here("c")>>},
     rows \in {<<1, 2>>, <<1, 3>>, <<1, 1>>}, k \in 1..2, st \in {"draft", "built"}, away \in BOOLEAN}

\* A spec taken up again under the name of one in the archive.
MCNamesakes ==
  {[cfg |-> [SpecCfg EXCEPT !.numbered = FALSE, !.index = TRUE, !.status = sts],
    tree |-> [index |-> <<Header(2), Separator, row>>,
              specs |-> {[Spec1("a", 1, "draft") EXCEPT !.deps = <<d>>],
                         [Spec1("a", 1, "built") EXCEPT !.archived = TRUE, !.fields.shipped = "v1"]}]] :
     row \in {Row(Here("a"), "draft"), Row(Away("a"), "shipped")}, d \in {Away("a"), Other("a")},
     sts \in {{}, SpecCfg.status}}

MCSpecTrees == Graphs3 \cup Moving \cup MCNamesakes

-----------------------------------------------------------------------------
\* Repositories in drift: each file of the wiring in the ways it can be.

ByHand(calls) == [Wiring!Caller EXCEPT !.calls = calls, !.by = "hand"]

MCWorkflows ==
  {<<>>} \cup
  {("ci" :> w) : w \in {Wiring!Caller, ByHand("old"), ByHand("nothing"),
                        [ByHand("shared") EXCEPT !.module = "tools"],
                        [ByHand("shared") EXCEPT !.concurrency = "none"]}}
  \cup {("gate" :> w) @@ ("ci" :> v) :
          w \in {ByHand("shared"), ByHand("old")}, v \in {ByHand("shared"), ByHand("nothing")}}

NoScript == [there |-> FALSE, exec |-> FALSE, delegates |-> FALSE, by |-> "nobody"]
MCScripts ==
  {NoScript} \cup [there : {TRUE}, exec : BOOLEAN, delegates : BOOLEAN, by : {"hand"}]

MCChangelogs ==
  {[there |-> FALSE, tracked |-> FALSE, unreleased |-> FALSE, by |-> "nobody"]}
  \cup [there : {TRUE}, tracked : BOOLEAN, unreleased : BOOLEAN, by : {"hand"}]

MCWirings ==
  {[workflows |-> w, hook |-> h, prepush |-> p, hooksPath |-> "", ignored |-> ig, changelog |-> c,
    lintConfig |-> [there |-> TRUE, tracked |-> t], make |-> [test |-> ~t],
    pins |-> ("." :> r) @@ ("tools" :> ~t),
    cfg |-> [ships |-> s, own |-> FALSE, identity |-> r, restates |-> t]] :
     w \in MCWorkflows, h \in MCScripts, p \in MCScripts,
     ig \in {{}, {"coverage.out"}, {"dist"}, Wiring!Ignored},
     c \in MCChangelogs, t \in BOOLEAN, r \in BOOLEAN, s \in BOOLEAN}

-----------------------------------------------------------------------------
\* Files of up to three keys, beside a ship block.

Dir(text, clean) == [text |-> text, clean |-> clean, local |-> clean # ".."]
Web == Dir("web", "web")

Pages(browser, reads) == [projects |-> <<Web>>, browser |-> browser, reads |-> reads]
Words(person, vocabulary) ==
  [model |-> {}, person |-> person, specs |-> FALSE, older |-> {}, vocabulary |-> vocabulary, allow |-> {}]
Statuses(settled) ==
  [status |-> {"draft", "built"}, started |-> {"built"}, settled |-> settled, archiveDir |-> "", terminal |-> {}]
Img(port, skip) ==
  [name |-> "app", dockerfile |-> Web, context |-> Web, version |-> "v1", negative |-> FALSE,
   skipStart |-> skip, port |-> port, probe |-> "path"]

Ident(role, registry) ==
  [role |-> role, audience |-> "", configPrefix |-> "", apiGroup |-> "", registry |-> registry,
   reachedBy |-> "", bff |-> {}, image |-> "", envelopeExempt |-> {}, overlays |-> {}, audiences |-> {},
   waive |-> <<>>]

Values ==
  [k \in {"cover.threshold"} |-> {0, 80, 90, 101}]
  @@ [k \in {"spec.dir", "ship.image.platform", "ship.deploy.smoke"} |-> {"", "default", "other"}]
  @@ [k \in {"modernize.disable"} |-> {{}, {"newexpr"}, {"newexpr", "errorsastype"}}]
  @@ [k \in {"spec.require"} |-> {{}, {"title", "status"}, {"title", "status", "layer"}}]
  @@ [k \in {"spec.index"} |-> {"", Reading!DefaultIndex, "INDEX.md"}]
  @@ [k \in {"spec.exclude"} |-> {{"README.md"}}]
  @@ [k \in {"release.require_green"} |-> BOOLEAN]
  @@ [k \in {"golangci.sloglint"} |-> {Reading!DefaultSloglint, [Reading!DefaultSloglint EXCEPT !.context = "all"]}]
  @@ [k \in {"identity"} |-> {Ident(r, g) : r \in {"issuer", "bff", "service"}, g \in {"", Reading!DefaultRegistry, "other"}}]
  @@ [k \in {"waive", "tempdir.allow"} |-> {<<>>}]
  @@ [k \in {"modules"} |-> {<<Web>>, <<Web, Dir("web/", "web")>>}]
  @@ [k \in {"frontend"} |-> {Pages(<<Web>>, "web" :> <<Web>>), Pages(<<Dir("e2e", "e2e")>>, <<>>)}]
  @@ [k \in {"test.os"} |-> {<<"macos">>, <<"macos", "macos">>}]
  @@ [k \in {"image"} |-> {<<Img(0, "needs a database")>>, <<Img(0, "")>>}]
  @@ [k \in {"words"} |-> {Words({"*.json"}, "list"), Words({}, "list")}]
  @@ [k \in {"spec.statuses"} |-> {Statuses({"built"}), Statuses({})}]
  @@ [k \in {"race.timeout"} |-> {"45m", "unreadable"}]

ShipBlocks ==
  {[block |-> "there", image |-> i, deploy |-> d] : i \in {"there", "absent"}, d \in {"there", "absent", "null"}}

Pairs ==
  UNION {{(j :> v) @@ (k :> w) : v \in Values[j], w \in Values[k]} : j, k \in DOMAIN Values}

ShipKeys == {"ship.image.platform", "ship.deploy.smoke"}

MCSettings ==
  {[file |-> p @@ s, onDisk |-> o] : o \in BOOLEAN, s \in {<<>>},
     p \in {q \in Pairs : DOMAIN q \cap ShipKeys = {}}}
  \cup
  {s \in {[file |-> p @@ ("ship" :> b), onDisk |-> FALSE] : p \in Pairs, b \in ShipBlocks} :
     \A k \in ShipKeys \cap DOMAIN s.file : Reading!ShipBlock(s.file, k)}
=============================================================================
