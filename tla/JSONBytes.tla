------------------------------- MODULE JSONBytes -------------------------------
(***************************************************************************)
(* The type-aware pass of the postgres gate (internal/postgres/            *)
(* jsonbytes.go): which parameters of a statement pgx, in exec mode, cannot *)
(* encode or the server will not read as json.  What an expression may     *)
(* hold is traced through locals and through the results of the module's   *)
(* functions, which are summarised in rounds.                              *)
(*                                                                         *)
(* A program is its functions in the order they are read, the last one     *)
(* with the statements.  A body is a sequence of steps over the locals b,  *)
(* a byte slice, and v and w, of the empty interface:                      *)
(*   encode x      x, err = json.Marshal(..)                               *)
(*   assign x e    x = e                                                   *)
(*   return e                                                              *)
(*   bind e c      a statement with the argument e, its parameter cast to  *)
(*                 c ("none": no cast)                                     *)
(* An expression is a local, a new value of a type, a conversion of b, or  *)
(* a call of one of the functions.                                         *)
(***************************************************************************)
EXTENDS Naturals, Sequences, FiniteSets

Locals == {"b", "v", "w"}

-----------------------------------------------------------------------------
(* Go's types: where each is declared, its underlying shape, the type it is a
   list of or points to, and the methods that hand pgx a text or a value. *)

GoType(pkg, shape, of, methods) == [pkg |-> pkg, shape |-> shape, of |-> of, methods |-> methods]

Go ==
  [ string  |-> GoType("builtin", "text", "none", {}),
    number  |-> GoType("builtin", "number", "none", {}),
    bool    |-> GoType("builtin", "bool", "none", {}),
    byte    |-> GoType("builtin", "byte", "none", {}),
    nil     |-> GoType("builtin", "nil", "none", {}),
    any     |-> GoType("builtin", "interface", "none", {}),
    bytes   |-> GoType("none", "slice", "byte", {}),
    strings |-> GoType("none", "slice", "string", {}),
    structs |-> GoType("none", "slice", "struct", {}),
    statuses   |-> GoType("none", "slice", "status", {}),
    blob       |-> GoType("project", "slice", "byte", {}),
    status     |-> GoType("project", "text", "none", {}),
    struct     |-> GoType("project", "struct", "none", {}),
    map        |-> GoType("none", "map", "none", {}),
    valuer     |-> GoType("project", "struct", "none", {"Value"}),
    stringer   |-> GoType("project", "struct", "none", {"String"}),
    clock      |-> GoType("time", "struct", "none", {"String"}),
    duration   |-> GoType("time", "number", "none", {"String"}),
    pgtext     |-> GoType("pgtype", "struct", "none", {"TextValue", "Value"}),
    raw        |-> GoType("json", "slice", "byte", {}),
    rawptr     |-> GoType("none", "pointer", "raw", {}),
    stringptr  |-> GoType("none", "pointer", "string", {}),
    structptr  |-> GoType("none", "pointer", "struct", {}) ]

Unresolved(t) == Go[t].shape = "interface"
Deref(t) == IF Go[t].shape = "pointer" THEN Go[t].of ELSE t
ByteSlice(t) == Go[t].shape = "slice" /\ Go[t].of = "byte"
JSONType(t) == ByteSlice(t) /\ Go[t].pkg = "json"

SpeaksText(t) == Go[t].methods # {}
HasTextValue(t) == "TextValue" \in Go[t].methods

(* pgx's default map: json's type, the packages it registers, a builtin, and a
   list of one of these. *)
RegisteredAlone(t) == JSONType(t) \/ Go[t].pkg \in {"time", "pgtype", "builtin"}
Registered(t) ==
  \/ RegisteredAlone(t)
  \/ /\ Go[t].pkg = "none" /\ Go[t].shape = "slice"
     /\ RegisteredAlone(Go[t].of)

Plain(t) == Go[t].shape \in {"text", "number", "byte"}

(* Mutant: a value is asked for its text before pgx's own map is. *)
TextFirst(type) ==
  LET t == Deref(type) IN
  Unresolved(t) \/ t = "nil" \/ JSONType(t) \/ SpeaksText(t) \/ Plain(t)

CarriesJSON(type) ==
  LET t == Deref(type) IN
  \/ Unresolved(t) \/ t = "nil"
  \/ JSONType(t) \/ HasTextValue(t)
  \/ IF Registered(t) THEN Go[t].pkg = "builtin" /\ Plain(t) ELSE SpeaksText(t) \/ Plain(t)

NoEncoding(type) ==
  LET t == Deref(type) IN
  /\ ~Unresolved(t) /\ ~Registered(t) /\ ~SpeaksText(t)
  /\ \/ Go[t].shape \in {"struct", "map"}
     \/ Go[t].shape = "slice" /\ ~Registered(Go[t].of) /\ Go[t].of # "byte"

-----------------------------------------------------------------------------
(* What the pass says an expression may hold *)

Nothing == [json |-> FALSE, kinds |-> {}, opaque |-> FALSE]
Opaque == [Nothing EXCEPT !.opaque = TRUE]
Encoding == [Nothing EXCEPT !.json = TRUE]
OfType(t) == [json |-> JSONType(t), kinds |-> {t}, opaque |-> FALSE]

Merge(b, c) ==
  [json |-> b.json \/ c.json, kinds |-> b.kinds \cup c.kinds, opaque |-> b.opaque \/ c.opaque]

StaticType(p, e) ==
  CASE e.op = "local"   -> IF e.x = "b" THEN "bytes" ELSE "any"
    [] e.op = "new"     -> e.t
    [] e.op = "convert" -> e.t
    [] e.op = "call"    -> p[e.f].result

(* A conversion keeps the document and changes the carrier. *)
Traced(e, facts, summary) ==
  CASE e.op = "local"   -> facts[e.x]
    [] e.op = "new"     -> Nothing
    [] e.op = "convert" -> [Nothing EXCEPT !.json = facts["b"].json]
    [] e.op = "call"    -> summary[e.f]

ValueOf(p, e, facts, summary) ==
  LET t == StaticType(p, e)
      traced == Traced(e, facts, summary)
  IN  IF ~Unresolved(t) THEN Merge(traced, OfType(t))
      ELSE IF traced.kinds = {} THEN Merge(traced, Opaque)
      ELSE traced

(* One walk over a body: each step may add to what its local may hold. *)
Walk(p, f, summary, facts) ==
  LET body == p[f].body
      at[i \in 0..Len(body)] ==
        IF i = 0 THEN facts ELSE
        LET s == body[i] IN
        CASE s.do = "encode" -> [at[i-1] EXCEPT ![s.x] = Merge(@, Encoding)]
          [] s.do = "assign" -> [at[i-1] EXCEPT ![s.x] = Merge(@, ValueOf(p, s.e, at[i-1], summary))]
          [] OTHER           -> at[i-1]
  IN  at[Len(body)]

Passes == 3

(* A local can be written after the line that reads it, so the walk repeats. *)
Facts(p, f, summary) ==
  LET pass[n \in 0..Passes] ==
        IF n = 0 THEN [x \in Locals |-> Nothing] ELSE Walk(p, f, summary, pass[n-1])
  IN  pass[Passes]

MergeAll(bounds) ==
  [json |-> \E b \in bounds : b.json, kinds |-> UNION {b.kinds : b \in bounds},
   opaque |-> \E b \in bounds : b.opaque]

(* What a function's result may carry; a concrete result is what it says. *)
Result(p, f, summary) ==
  LET facts == Facts(p, f, summary)
      body == p[f].body
      got == MergeAll({ValueOf(p, body[i].e, facts, summary) :
                         i \in {j \in 1..Len(body) : body[j].do = "return"}})
  IN  IF Unresolved(p[f].result) THEN got
      ELSE [got EXCEPT !.kinds = {p[f].result}, !.opaque = FALSE]

(* One round: each function in turn, on top of what was known of it. *)
Round(p, summary) ==
  LET after[f \in 0..Len(p)] ==
        IF f = 0 THEN summary
        ELSE [after[f-1] EXCEPT ![f] = Merge(Result(p, f, after[f-1]), @)]
  IN  after[Len(p)]

(* Mutant: a function is read once. *)
ReadOnce(p) == Round(p, [f \in 1..Len(p) |-> Nothing])

Rounds == 3
Summary(p) ==
  LET round[n \in 0..Rounds] ==
        IF n = 0 THEN [f \in 1..Len(p) |-> Nothing] ELSE Round(p, round[n-1])
  IN  round[Rounds]

JSONCasts == {"json", "jsonb"}

Unencodable(value) == \E t \in value.kinds : NoEncoding(t)
WrongCarrier(value) == ~value.opaque /\ \E t \in value.kinds : ~CarriesJSON(t)

(* Mutant: a value known to be json is judged under any cast. *)
JudgeUnderAnyCast(value, cast) ==
  \/ Unencodable(value)
  \/ (value.json \/ cast \in JSONCasts) /\ WrongCarrier(value)

(* A parameter nothing encodes whatever the column, or a json parameter that
   gets something json refuses. *)
Judge(value, cast) ==
  \/ Unencodable(value)
  \/ /\ cast \in JSONCasts \/ (cast = "none" /\ value.json)
     /\ WrongCarrier(value)

Statements(p) == {i \in 1..Len(p[Len(p)].body) : p[Len(p)].body[i].do = "bind"}

Reported(p) ==
  LET summary == Summary(p)
      facts == Facts(p, Len(p), summary)
  IN  {i \in Statements(p) :
         LET s == p[Len(p)].body[i] IN Judge(ValueOf(p, s.e, facts, summary), s.cast)}

-----------------------------------------------------------------------------
(* What a program really binds, and what became of it *)

(* The measurement at the head of jsonbytes.go. *)
Refused == {"bytes", "blob", "bool", "strings", "clock", "duration"}
NoPlan == {"struct", "structptr", "map", "structs", "statuses"}

(* The values, each with whether it is a json document, that can reach a local
   or a result, as a least fixed point: a step is added to what was found. *)
Values(p) ==
  LET places == (1..Len(p)) \X (Locals \cup {"result"})
      eval(at, f, e) ==
        CASE e.op = "local"   -> at[<<f, e.x>>]
          [] e.op = "new"     -> {<<e.t, JSONType(e.t)>>}
          [] e.op = "convert" -> {<<e.t, v[2]>> : v \in at[<<f, "b">>]}
          [] e.op = "call"    -> at[<<e.f, "result">>]
      as(t, values) == IF Unresolved(t) THEN values ELSE {<<t, v[2]>> : v \in values}
      adds(at, f, x, s) ==
        CASE s.do = "encode" /\ s.x = x        -> {<<"bytes", TRUE>>}
          [] s.do = "assign" /\ s.x = x        -> eval(at, f, s.e)
          [] s.do = "return" /\ x = "result"   -> as(p[f].result, eval(at, f, s.e))
          [] OTHER                             -> {}
      step(at) == [q \in places |->
        at[q] \cup UNION {adds(at, q[1], q[2], p[q[1]].body[i]) : i \in 1..Len(p[q[1]].body)}]
      found[n \in 0..Cardinality(places)] ==
        IF n = 0 THEN [q \in places |-> IF q[2] = "b" THEN {<<"bytes", FALSE>>} ELSE {}]
        ELSE step(found[n-1])
      end == found[Cardinality(places)]
      bound(s) == eval(end, Len(p), s.e)
  IN  [i \in Statements(p) |-> bound(p[Len(p)].body[i])]

Fails(values, cast) ==
  \/ \E v \in values : v[1] \in NoPlan
  \/ /\ cast \in JSONCasts \/ (cast = "none" /\ \E v \in values : v[2])
     /\ \E v \in values : v[1] \in Refused

Broken(p) ==
  LET values == Values(p)
  IN  {i \in Statements(p) : Fails(values[i], p[Len(p)].body[i].cast)}

-----------------------------------------------------------------------------

(* A parameter the gate names is one that pgx or the server refuses. *)
ReportsAreReal(p) == Reported(p) \subseteq Broken(p)

(* Each local is written before it is read, each function is read before its
   callers, and no encoding goes straight into an interface. *)
InOrder(p) ==
  \A f \in 1..Len(p) : \A i \in 1..Len(p[f].body) :
    LET s == p[f].body[i]
        written == {p[f].body[j].x : j \in {k \in 1..(i-1) : p[f].body[k].do \in {"encode", "assign"}}}
    IN  /\ s.do = "encode" => s.x = "b"
        /\ s.do # "encode" =>
             CASE s.e.op = "call"  -> s.e.f < f
               [] s.e.op = "local" -> s.e.x \in written \cup {"b"}
               [] OTHER            -> TRUE

(* "Every concrete value that can reach the statement has to be judged". *)
NothingMissed(p) == Broken(p) \subseteq Reported(p)

(* A value no plan encodes is found in whatever order the program is read. *)
NoPlanFound(p) ==
  \A i \in Statements(p) :
    (\E v \in Values(p)[i] : v[1] \in NoPlan) => i \in Reported(p)
=============================================================================
