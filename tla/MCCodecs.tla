------------------------------ MODULE MCCodecs ------------------------------
(***************************************************************************)
(* The conversions of pg_mimic on small inputs: every exchange of MCCopy,  *)
(* and beside them arrays, array literals, numerics, queries over tables,  *)
(* values of settings, declared schemas and requests for types, each of    *)
(* which is an initial state of its own.                                   *)
(***************************************************************************)
EXTENDS MCCopy

CONSTANTS
  NoSample, NoWindow, All

VARIABLE sample
allVars == << vars, sample >>

\* Python values: small numbers are integers, 11 a float, 21 a list.
MCTypeOf(v) == IF v < 10 THEN "int8" ELSE IF v < 20 THEN "float8" ELSE "list"

Arrays == INSTANCE ArrayText
Answers == INSTANCE TableAnswers WITH TypeOf <- MCTypeOf

\* Settings of every type; temp_buffers counts in pages of two kB, a kB has four
\* bytes here and an MB four kB, and a second ten milliseconds.  "%g" keeps three
\* digits.
Entry(vartype, unit, low, high, enumvals) ==
  [vartype |-> vartype, unit |-> unit, low |-> low, high |-> high, enumvals |-> enumvals,
   context |-> "user", default |-> Null]
Unitless == [multiple |-> 1, base |-> "none"]
MCSettings == [n \in {"row_security", "client_encoding", "backslash_quote", "temp_buffers", "lock_timeout",
                       "jit_above_cost", "vacuum_cost_delay", "search_path"} |->
  CASE n = "row_security" -> Entry("bool", Unitless, 0, 0, {})
    [] n = "client_encoding" -> Entry("enum", Unitless, 0, 0, {<< "U" >>, << "F", "f" >>})
    [] n = "backslash_quote" -> Entry("enum", Unitless, 0, 0, {<< "o", "n" >>, << "o", "f", "f" >>, << "s" >>})
    [] n = "temp_buffers" -> Entry("integer", [multiple |-> 2, base |-> "kB"], 1, 90, {})
    [] n = "lock_timeout" -> Entry("integer", [multiple |-> 1, base |-> "ms"], -1, 120, {})
    [] n = "jit_above_cost" -> Entry("real", Unitless, -1, 120, {})
    [] n = "vacuum_cost_delay" -> Entry("real", [multiple |-> 1, base |-> "ms"], 0, 1200, {})
    [] n = "search_path" -> Entry("string", Unitless, 0, 0, {})]
MCFamilies == {[u \in {"B", "kB", "MB"} |-> CASE u = "B" -> 1 [] u = "kB" -> 4 [] u = "MB" -> 16],
               [u \in {"ms", "s"} |-> IF u = "s" THEN 10 ELSE 1]}
Settings == INSTANCE SettingValues WITH Catalogue <- MCSettings, Families <- MCFamilies,
                                        IntMax <- 99, Significant <- 3, None <- Null
-----------------------------------------------------------------------------
ElementTexts == {<< >>} \cup {<< c >> : c \in {"a", ",", "{", "}", "\"", "\\", " ", Arrays!Nbsp, "NULL", "null"}}
                \cup [1..2 -> {"a", "\"", "\\", Arrays!Nbsp}]
Elements == {Null} \cup {Arrays!TextOf(t) : t \in ElementTexts}
Rows1 == {Arrays!ListOf(s) : s \in Upto(Elements, 2)}
Few == {Null, Arrays!TextOf(<< "a" >>), Arrays!TextOf(<< >>), Arrays!TextOf(<< "\\" >>)}
Inner == {Arrays!ListOf(s) : s \in Upto(Few, 2)}
ArraySamples == Rows1 \cup {Arrays!ListOf(s) : s \in Upto(Few \cup Inner, 2)}
                \cup {Arrays!ListOf(<< Arrays!ListOf(s), Arrays!ListOf(t) >>) :
                        s \in Upto(Inner, 1), t \in Upto(Inner, 1)}

LiteralChars == {"{", "}", ",", "\"", "\\", " ", "a", "NULL"}
Literals == {<< "{" >> \o s \o << "}" >> : s \in Upto(LiteralChars, 4)}
            \cup {<< "[", "=", "{", "a", "}" >>, << "[", "a" >>, << >>, << "a" >>,
                  << " ", "{", "}", " " >>, << "{", "a", "}", "a" >>}
-----------------------------------------------------------------------------
Dict(keys, values) == [kind |-> "dict", keys |-> keys, values |-> values]
Tuple(values) == [kind |-> "tuple", keys |-> << >>, values |-> values]
Cells == {Dict(<< "a", "b" >>, << 1, 1 >>), Dict(<< "b", "a" >>, << 2, 1 >>),
          Dict(<< "b" >>, << 1 >>), Dict(<< "a", "b" >>, << 2, Null >>)}
Declarations == [raw : {s \in Upto(Cells, 3) : Len(s) > 1}, declared : {<< "a", "b" >>}, types : {[n \in {"a", "b"} |-> "int8"]}]
                \cup [raw : {<< Tuple(<< 1, 2 >>), Tuple(<< 2, 1 >>) >>, << Tuple(<< 1 >>) >>, << >>,
                             << Dict(<< "a" >>, << 11 >>), Dict(<< "a", "b" >>, << 1, 2 >>) >>,
                             << Dict(<< "a" >>, << Null >>), Dict(<< "c", "a", "b" >>, << 21, 1, 1 >>) >>,
                             << Tuple(<< 1, 2 >>), Dict(<< "c" >>, << 2 >>) >>},
                      declared : {<< >>, << "b", "a" >>}, types : {[n \in {} |-> "int8"]}]

Sel(e, n) == [expr |-> e, name |-> n]
Key(b, r) == [by |-> b, ref |-> r]
Term(k, d, n) == [key |-> k, desc |-> d, nulls |-> n]
Number(n) == [kind |-> "number", count |-> n]
Param(n) == [kind |-> "param", param |-> n]
Keys == {Key("name", "a"), Key("expr", "a"), Key("expr", "b")}
Selects == {<< Sel("a", "a") >>, << Sel("b", "x"), Sel("a", "a") >>, << Sel("a", "b"), Sel("b", "a") >>}
Terms == {Term(k, FALSE, "default") : k \in Keys} \cup {Term(Key("name", "a"), TRUE, "default"),
          Term(Key("expr", "a"), FALSE, "first"), Term(Key("expr", "b"), TRUE, "last")}
Plainly == [kind |-> "select", schema |-> "", table |-> "t", sampled |-> FALSE, nestedOn |-> FALSE,
            distinct |-> "none", on |-> << >>, selects |-> << Sel("a", "a") >>, order |-> << >>,
            limit |-> NoWindow, offset |-> NoWindow, wraps |-> << >>]
Orders == {<< >>} \cup {<< t >> : t \in Terms} \cup {<< s, t >> : s \in {Term(Key("expr", "a"), FALSE, "default")}, t \in Terms}
Clauses == {<< "none", << >> >>, << "all", << >> >>, << "on", << Key("expr", "a") >> >>,
            << "on", << Key("name", "a") >> >>, << "on", << Key("expr", "a"), Key("expr", "b") >> >>}
Windows == {<< NoWindow, NoWindow >>, << Number(1), NoWindow >>, << Param(1), Number(1) >>, << All, Param(1) >>}
\* qualify() writes a key that is an output name as that name.
Written(q) == \A k \in ToSet(q.on) \cup {t.key : t \in ToSet(q.order)} :
                k.by = "name" <=> \E i \in DOMAIN q.selects : q.selects[i].name = k.ref
Queries == {q \in {[Plainly EXCEPT !.distinct = c[1], !.on = c[2], !.selects = s, !.order = o,
                                   !.limit = w[1], !.offset = w[2]] :
                     c \in Clauses, s \in Selects, o \in Orders, w \in Windows} : Written(q)}
Wrap(o, l) == [order |-> o, limit |-> l, offset |-> NoWindow]
OddQueries == {[Plainly EXCEPT !.kind = "write"], [Plainly EXCEPT !.kind = "other"],
               [Plainly EXCEPT !.sampled = TRUE], [Plainly EXCEPT !.nestedOn = TRUE],
               [Plainly EXCEPT !.schema = "s"], [Plainly EXCEPT !.table = "u"],
               [Plainly EXCEPT !.distinct = "all", !.order = << Term(Key("name", "a"), FALSE, "default") >>,
                               !.limit = [kind |-> "expr"]],
               [Plainly EXCEPT !.limit = Param(2)]}
              \cup {[Plainly EXCEPT !.distinct = c[1], !.on = c[2], !.order = o, !.limit = l, !.wraps = w] :
                      c \in {<< "none", << >> >>, << "all", << >> >>, << "on", << Key("name", "a") >> >>,
                             << "on", << Key("expr", "b") >> >>},
                      o \in {<< >>, << Term(Key("name", "a"), TRUE, "default") >>}, l \in {NoWindow, Number(2)},
                      w \in {<< Wrap(<< >>, Number(1)) >>,
                             << Wrap(<< Term(Key("name", "a"), FALSE, "last") >>, NoWindow), Wrap(<< >>, NoWindow) >>,
                             << Wrap(<< >>, Number(2)), Wrap(<< Term(Key("name", "a"), FALSE, "default") >>, Number(1)) >>}}
Bound == {<< [integer |-> TRUE, count |-> 1] >>, << Null >>, << [integer |-> FALSE, count |-> 0] >>}
QuerySamples ==
  [query : Queries, params : {<< [integer |-> TRUE, count |-> 1] >>}, table : Declarations]
    \cup [query : OddQueries \cup {q \in Queries : q.order = << >>}, params : Bound,
          table : {d \in Declarations : Len(d.raw) < 3}]
-----------------------------------------------------------------------------
SettingTexts == {Settings!Word(w) : w \in Upto({"t", "T", "r", "o", "n", "f", "F", "u", "U"}, 3)}
                \cup {Settings!Number(n, u) : n \in -15..15 \cup {20, 45, 80, 225, 400, 900, 980, 990, 995, 1000, 1004, 1015,
                                                       1200, 10010, 10015},
                                             u \in {"", "B", "kB", "MB", "ms", "s"}}
-----------------------------------------------------------------------------
MCTypeConstants == [n \in {"INT4", "TEXT", "_NBASE"} |->
  CASE n = "INT4" -> 23 [] n = "TEXT" -> 25 [] n = "_NBASE" -> 10000]
MCDeclaredOids == [n \in {"integer", "text"} |-> IF n = "integer" THEN 23 ELSE 25]
MCArrayOid == [o \in {23, 25} |-> IF o = 23 THEN 1007 ELSE 1009]
Catalogues == INSTANCE Catalogue WITH NameLimit <- 6, TypeConstants <- MCTypeConstants,
  DeclaredOids <- MCDeclaredOids, ArrayOid <- MCArrayOid, TextOid <- 25, NotANumber <- Null
Numerics == INSTANCE NumericWire WITH GroupSize <- 2, Precision <- 4

\* Columns a, b and a_b: the keys over a and b, and over a_b, have one name.
Column(n, e, array) == [name |-> n, type |-> [element |-> e, array |-> array]]
ColumnLists == {<< >>, << Column(<< "a" >>, "integer", FALSE), Column(<< "b" >>, "text", TRUE),
                          Column(<< "a", "_", "b" >>, "money", FALSE) >>}
KeyLists == Upto({<< "a" >>, << "b" >>, << "a", "_", "b" >>}, 2) \cup {<< << "c" >> >>}
Declared1 == [name : {<< >>, << "t" >>, << "t", "_", "a" >>}, columns : ColumnLists,
              primaryKey : {<< >>, << << "a" >> >>, << << "b" >>, << "a" >> >>}, unique : Upto(KeyLists, 2)]
Declared2 == [name : {<< "t" >>}, columns : ColumnLists, primaryKey : {<< >>, << << "b" >> >>},
              unique : {<< >>, << << << "a" >>, << "b" >> >> >>, << << << "a" >> >>, << << "b" >> >> >>}]
DeclaredSamples ==
  [shape : {"none", "mapping of tables", "text"}, tables : {<< >>}]
    \cup [shape : {"mapping", "sequence", "schema"},
          tables : {<< >>} \cup {<< t >> : t \in Declared1} \cup {<< t, u >> : t \in Declared1, u \in Declared2}]
Asking == [shape : {"list", "literal", "none"}, items : Upto({23, 25, 1007, 1009, 10000, 9999, Null}, 4)]

Decimals == [kind : {"finite"}, negative : BOOLEAN, exponent : -5..3,
             digits : {<< 0 >>} \cup {d \in Upto({0, 1, 5, 9}, 5) : d # << >> /\ d[1] # 0}]
            \cup [kind : {"infinite"}, negative : BOOLEAN, exponent : {0}, digits : {<< >>}]
            \cup [kind : {"nan"}, negative : {FALSE}, exponent : {0}, digits : {<< >>}]
-----------------------------------------------------------------------------
\* No copy is under way where a sample is looked at.
Idle ==
  /\ statement = [asked |-> << >>, text |-> Table]
  /\ hooks = {} /\ phase = "idle" /\ plan = Refused("not parsed")
  /\ source = << >> /\ data = << >> /\ wire = << >> /\ rows = << >>
  /\ decoder = [held |-> << >>, pending |-> << >>, ended |-> FALSE, skip |-> FALSE]

CodecsInit ==
  \/ Init /\ sample = NoSample
  \/ /\ Idle
     /\ \/ \E v \in ArraySamples : sample = [about |-> "array", value |-> v]
        \/ \E t \in Literals : sample = [about |-> "literal", text |-> t]
        \/ \E q \in QuerySamples : sample = [about |-> "query", of |-> q]
        \/ \E n \in DOMAIN MCSettings \cup {"app.x"}, t \in SettingTexts :
             sample = [about |-> "setting", name |-> n, text |-> t]
        \/ \E d \in DeclaredSamples : sample = [about |-> "schema", declared |-> d]
        \/ \E a \in Asking : sample = [about |-> "types", parameter |-> a]
        \/ \E v \in Decimals : sample = [about |-> "numeric", value |-> v]

CodecsNext == Next /\ UNCHANGED sample
CodecsSpec == CodecsInit /\ [][CodecsNext]_allVars
-----------------------------------------------------------------------------
IsAbout(what) == sample # NoSample /\ sample.about = what

\* An array value survives the wire in text and in binary, and whatever array
\* literal is accepted is written back as one that means the same; a numeric is
\* one number, with its decimals, in both formats (arrays.py: format_array_literal,
\* parse_array_literal, encode_ and decode_array_binary; types.py:
\* _encode_numeric_bin and _decode_numeric).  Three kinds of values, and only
\* these, are changed or refused on the way: in text, elements that begin or end
\* in a space that is no ASCII one; in binary, empty lists inside lists, and
\* numerics with more digits than a Decimal computes with.
ValuesSurviveTheWire ==
  /\ IsAbout("array") => Arrays!SurvivesTheWire(sample.value)
  /\ IsAbout("literal") => Arrays!ReadsItsOwnWriting(sample.text)
  /\ IsAbout("numeric") => (Numerics!SameInBinary(sample.value) <=> Numerics!IsShort(sample.value))

\* Whatever tables and keys a session declares, the joins of a client find them:
\* every key with its index, its relation and its constraint under one name of
\* its own, also where names are cut; every type with its element before it; and
\* pg_catalog and information_schema tell the same (catalog.py:
\* _build_pg_catalog, _build_information_schema, _key_name; typeinfo.py: _rows_for).
IntrospectionIsSound ==
  /\ IsAbout("schema") => Catalogues!DeclaredIsFound(sample.declared)
  /\ IsAbout("types") => Catalogues!ElementsComeFirst(sample.parameter)

\* A SELECT over declared tables is refused or answered with rows that Postgres
\* could have given: DISTINCT, DISTINCT ON, ORDER BY with its NULLs, LIMIT and
\* OFFSET applied in that order wherever the executor would not (tables.py:
\* TableSession.query).
TableAnswersAreRight ==
  IsAbout("query") =>
    Answers!AnsweredAsPostgres(sample.of.query, sample.of.table.raw, sample.of.table.declared,
                               sample.of.table.types, sample.of.params)

\* What SHOW reports of a setting can be SET again, in the unit it is reported in,
\* within the range (#115; settings_values.py: parse and render).  It means the same
\* exactly if it is no real with more digits than render shows, and one that is
\* rounded so is not changed a second time.
ShownCanBeSet == IsAbout("setting") => Settings!CanBeSetAgain(sample.name, sample.text)
=============================================================================
