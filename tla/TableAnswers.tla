---------------------------- MODULE TableAnswers ----------------------------
(***************************************************************************)
(* TableSession: how declared tables are read and how a SELECT over one of *)
(* them is planned, bound and finished in Python after sqlglot's executor  *)
(* has run.                                                                *)
(*                                                                         *)
(* A query is one SELECT from one table, with its clauses as qualify()     *)
(* leaves them, inside any number of parentheses:                          *)
(*   kind      "select", "write" or "other"                                *)
(*   schema, table, sampled, nestedOn (a DISTINCT ON inside a subquery)    *)
(*   distinct  "none", "all" or "on"; on: its keys                         *)
(*   selects   records of an expression and an output name                 *)
(*   order     records of a key, desc, and nulls "default", "first", "last"*)
(*   limit, offset   NoWindow, All, a number, or a "$n" parameter          *)
(*   wraps     for each pair of parentheses its order, limit and offset    *)
(* A key is [by |-> "name" or "expr", ref |-> ...].                        *)
(***************************************************************************)
EXTENDS Integers, Sequences, SequencesExt, FiniteSetsExt

CONSTANTS
  Null, NoWindow, All,
  TypeOf(_)    \* the type a Python value has

Done(v) == [error |-> "none", value |-> v]
Raised(e) == [error |-> e, value |-> << >>]
-----------------------------------------------------------------------------
\* Declaring a table.  A row is a dict (its keys and values in order) or a tuple;
\* declared is a sequence of names and types gives some of them a type.
IsTuple(row) == row.kind = "tuple"

ColumnNames(rows, declared) ==
  LET merge(names, more) == names \o SelectSeq(more, LAMBDA n : n \notin ToSet(names))
      keys == FoldLeft(merge, << >>, [i \in DOMAIN rows |-> rows[i].keys])
      tuples == \E i \in DOMAIN rows : IsTuple(rows[i])
      names == IF tuples THEN declared ELSE merge(keys, declared)
  IN IF names = << >> THEN Raised("value") ELSE Done(names)

\* A key that a dict leaves out is NULL; a tuple has a value for every name.
RowAsDict(row, names) ==
  CASE IsTuple(row) /\ Len(row.values) # Len(names) -> Raised("value")
    [] IsTuple(row) /\ Len(row.values) = Len(names) ->
         Done([n \in ToSet(names) |-> row.values[CHOOSE i \in DOMAIN names : names[i] = n]])
    [] ~IsTuple(row) /\ ToSet(row.keys) \ ToSet(names) # {} -> Raised("value")
    [] OTHER -> Done([n \in ToSet(names) |->
         IF n \in ToSet(row.keys) THEN row.values[CHOOSE i \in DOMAIN row.keys : row.keys[i] = n]
         ELSE Null])

\* The values seen must agree on a type; a list or a document does not say which.
InferredOid(values) ==
  LET types == {TypeOf(v) : v \in values \ {Null}}
  IN IF Cardinality(types) = 1 /\ types \cap {"list", "dict"} = {}
     THEN Done(CHOOSE t \in types : TRUE) ELSE Raised("value")

DeclareTable(rows, declared, types) ==
  LET names == ColumnNames(rows, declared)
      dicts == [i \in DOMAIN rows |-> RowAsDict(rows[i], names.value)]
      oid(n) == IF n \in DOMAIN types THEN Done(types[n])
                ELSE InferredOid({dicts[i].value[n] : i \in DOMAIN rows})
  IN IF \/ names.error # "none"
        \/ \E i \in DOMAIN dicts : dicts[i].error # "none"
        \/ \E n \in ToSet(names.value) : oid(n).error # "none"
     THEN Raised("value")
     ELSE Done([types |-> [n \in ToSet(names.value) |-> oid(n).value],
                rows |-> [i \in DOMAIN dicts |-> dicts[i].value]])
-----------------------------------------------------------------------------
\* Planning.  Parentheses with a row window inside others are two windows.
RejectNonSelect(q) == CASE q.kind = "write" -> "read only" [] q.kind = "other" -> "unsupported" [] OTHER -> "none"

Outer(clause, inner) == IF clause = NoWindow THEN inner ELSE clause

RECURSIVE FlattenParenthesized(_)
FlattenParenthesized(q) ==
  LET innermost == Last(q.wraps)
  IN CASE q.wraps = << >> -> Done(q)
       [] q.wraps # << >> /\ (q.limit # NoWindow \/ q.offset # NoWindow) -> Raised("unsupported")
       [] OTHER -> FlattenParenthesized(
            [q EXCEPT !.order = IF innermost.order = << >> THEN @ ELSE innermost.order,
                      !.limit = Outer(innermost.limit, @),
                      !.offset = Outer(innermost.offset, @),
                      !.wraps = Front(@)])

RejectSilentlyIgnored(q) == IF q.sampled \/ q.nestedOn THEN "unsupported" ELSE "none"

RejectUnknownTables(q, tables) ==
  IF q.schema \notin {"", "public"} \/ q.table \notin tables THEN "undefined table" ELSE "none"

\* Where a key sits in the select list, 0 if nowhere: as the output name it was
\* resolved to, or as the expression.
OutputPosition(selects, key) ==
  LET hits == {i \in DOMAIN selects :
        IF key.by = "name" THEN selects[i].name = key.ref ELSE selects[i].expr = key.ref}
  IN IF hits = {} THEN 0 ELSE Min(hits)

\* The keys of a DISTINCT ON, taken off the query; a key that is not selected is
\* added to the select list.
AddKey(plan, key) ==
  LET at == OutputPosition(plan.selects, key)
      added == Append(plan.selects, [expr |-> key.ref, name |-> "_distinct_on"])
  IN IF at # 0 THEN [plan EXCEPT !.keys = Append(@, at)]
     ELSE [plan EXCEPT !.selects = added, !.keys = Append(@, Len(added))]

DistinctOnKeys(q) ==
  LET leading == [i \in 1..Min({Len(q.on), Len(q.order)}) |-> q.order[i].key]
      reduced == FoldLeft(AddKey, [selects |-> q.selects, keys |-> << >>], q.on)
  IN CASE q.distinct # "on" -> Done([query |-> q, keys |-> << >>, visible |-> Len(q.selects)])
       [] q.distinct = "on" /\ q.order # << >> /\ leading # q.on -> Raised("syntax")
       [] OTHER -> Done([query |-> [q EXCEPT !.selects = reduced.selects, !.distinct = "none"],
                         keys |-> reduced.keys, visible |-> Len(q.selects)])

\* Postgres' default is that a NULL is larger than every value.  [sqlglot]
NullsFirst(term) == term.nulls = "first" \/ (term.nulls = "default" /\ term.desc)

\* Mutant: the ORDER BY is left to the executor.
LeaveResultOrder(q) == Done([query |-> q, keys |-> << >>])

\* The ORDER BY of a SELECT DISTINCT, taken off the query.
TakeResultOrder(q) ==
  LET position(i) == OutputPosition(q.selects, q.order[i].key)
      keys == [i \in DOMAIN q.order |-> [position |-> position(i), desc |-> q.order[i].desc,
                                         nullsFirst |-> NullsFirst(q.order[i])]]
  IN CASE q.order = << >> \/ q.distinct # "all" -> Done([query |-> q, keys |-> << >>])
       [] q.order # << >> /\ q.distinct = "all" /\ (\E i \in DOMAIN q.order : position(i) = 0) ->
            Raised("undefined column")
       [] OTHER -> Done([query |-> [q EXCEPT !.order = << >>], keys |-> keys])

\* _plan(): the refusals in order, then the rewritten query and what is left to do.
PlanQuery(q, tables) ==
  LET flat == FlattenParenthesized(q)
      checks == << RejectNonSelect(q), flat.error, RejectSilentlyIgnored(q),
                   RejectUnknownTables(q, tables) >>
      refusals == SelectSeq(checks, LAMBDA e : e # "none")
      on == DistinctOnKeys(flat.value)
      sorting == TakeResultOrder(on.value.query)
  IN CASE refusals # << >> -> Raised(refusals[1])
       [] refusals = << >> /\ on.error # "none" -> on
       [] refusals = << >> /\ on.error = "none" /\ sorting.error # "none" -> sorting
       [] OTHER -> Done([query |-> sorting.value.query, distinctOn |-> on.value.keys,
                         sortKeys |-> sorting.value.keys, visible |-> on.value.visible,
                         slicedHere |-> on.value.keys # << >> \/ sorting.value.keys # << >>])
-----------------------------------------------------------------------------
\* Binding.  A row count is bigint: its text must be digits, and NULL is ALL.
BindCount(clause, params) ==
  LET index == clause.param
  IN CASE clause \in {NoWindow, All} \/ clause.kind = "number" -> Done(clause)
       [] clause \notin {NoWindow, All} /\ clause.kind = "param" /\ index \notin DOMAIN params -> Raised("syntax")
       [] clause \notin {NoWindow, All} /\ clause.kind = "param" /\ index \in DOMAIN params ->
            IF params[index] = Null THEN Done(All)
            ELSE IF params[index].integer THEN Done([kind |-> "number", count |-> params[index].count])
            ELSE Raised("invalid text")
       [] OTHER -> Done(clause)

\* A count is used here only as a literal.
RowCount(clause) ==
  CASE clause \in {NoWindow, All} -> Done(All)
    [] clause \notin {NoWindow, All} /\ clause.kind = "number" -> Done(clause.count)
    [] OTHER -> Raised("unsupported")
-----------------------------------------------------------------------------
\* Running.  Stable: equal rows keep their order.
Arranged(rows, Less(_, _)) ==
  LET rank(i) == Cardinality({j \in DOMAIN rows :
                   Less(rows[j], rows[i]) \/ (~Less(rows[i], rows[j]) /\ j < i)}) + 1
  IN [k \in DOMAIN rows |-> rows[CHOOSE i \in DOMAIN rows : rank(i) = k]]

\* Whether a comes before b under one key, by SQL's rules for NULL.
Before(a, b, desc, nullsFirst) ==
  CASE a = b -> FALSE
    [] a # b /\ (a = Null \/ b = Null) -> (a = Null) = nullsFirst
    [] OTHER -> (a < b) # desc

\* compare() of _sorted_rows: the first key that tells them apart decides.
Precedes(left, right, keys) ==
  LET differ == {i \in DOMAIN keys : left[keys[i].position] # right[keys[i].position]}
      key == keys[Min(differ)]
  IN differ # {} /\ Before(left[key.position], right[key.position], key.desc, key.nullsFirst)

SortedRows(rows, keys) == Arranged(rows, LAMBDA l, r : Precedes(l, r, keys))

FirstRowPerKey(rows, keys) ==
  LET key(row) == [k \in DOMAIN keys |-> row[keys[k]]]
      first(i) == \A j \in 1..(i - 1) : key(rows[j]) # key(rows[i])
      kept == SelectSeq([i \in DOMAIN rows |-> i], first)
  IN [k \in DOMAIN kept |-> rows[kept[k]]]

Window(rows, limit, offset) ==
  SubSeq(rows, offset + 1, IF limit = All THEN Len(rows) ELSE Min({offset + limit, Len(rows)}))
CountOf(clause, otherwise) == IF clause \in {NoWindow, All} THEN otherwise ELSE clause.count

\* sqlglot's executor: it sorts, projects, removes duplicates and cuts.  Its sort
\* of a DISTINCT is by the select list, ascending, whatever the ORDER BY said.
Project(row, selects) == [i \in DOMAIN selects |-> row[selects[i].expr]]
Execute(q, rows) ==
  LET key(term) == [position |-> IF term.key.by = "expr" THEN term.key.ref
                                 ELSE q.selects[OutputPosition(q.selects, term.key)].expr,
                    desc |-> term.desc, nullsFirst |-> NullsFirst(term)]
      keys == [i \in DOMAIN q.order |-> key(q.order[i])]
      project(sorted) == [i \in DOMAIN sorted |-> Project(sorted[i], q.selects)]
      every == [i \in DOMAIN q.selects |-> i]
      ascending == [i \in DOMAIN q.selects |-> [position |-> i, desc |-> FALSE, nullsFirst |-> FALSE]]
      unique(r) == IF q.distinct = "all" THEN SortedRows(FirstRowPerKey(r, every), ascending) ELSE r
  IN Window(unique(project(SortedRows(rows, keys))), CountOf(q.limit, All), CountOf(q.offset, 0))

\* query(): LIMIT and OFFSET are cut here when rows are reduced or sorted here,
\* after that, and the added keys are dropped last.
Answer(plan, limit, offset, rows) ==
  LET bound == [plan.query EXCEPT !.limit = limit.value, !.offset = offset.value]
      counts == IF plan.slicedHere THEN << RowCount(limit.value), RowCount(offset.value) >>
                ELSE << Done(All), Done(0) >>
      start == IF counts[2].value = All THEN 0 ELSE counts[2].value
      unbound == {limit.error, offset.error} # {"none"}
      errors == SelectSeq(IF unbound THEN << limit.error, offset.error >>
                          ELSE << counts[1].error, counts[2].error >>, LAMBDA e : e # "none")
      result == Execute(IF plan.slicedHere
                        THEN [bound EXCEPT !.limit = NoWindow, !.offset = NoWindow] ELSE bound, rows)
      reduce(r) == IF plan.distinctOn = << >> THEN r ELSE FirstRowPerKey(r, plan.distinctOn)
      sort(r) == IF plan.sortKeys = << >> THEN r ELSE SortedRows(r, plan.sortKeys)
      visible(r) == [i \in DOMAIN r |-> SubSeq(r[i], 1, plan.visible)]
  IN IF errors # << >> THEN Raised(errors[1])
     ELSE Done(visible(Window(sort(reduce(result)), counts[1].value, start)))
Query(q, tables, rows, params) ==
  LET run(plan) == IF plan.error # "none" THEN plan
                   ELSE Answer(plan.value, BindCount(plan.value.query.limit, params),
                               BindCount(plan.value.query.offset, params), rows)
  IN run(PlanQuery(q, tables))
-----------------------------------------------------------------------------
\* What the same query means in Postgres: some arrangement of the rows that its
\* outermost ORDER BY allows, reduced, and only then cut, at each parenthesis.
Meaning(q, rows) ==
  LET sel == q.selects
      orders == SelectSeq([i \in DOMAIN q.wraps |-> q.wraps[i].order], LAMBDA o : o # << >>)
      order == IF orders = << >> THEN q.order ELSE orders[1]
      value(row, key) == IF key.by = "expr" THEN row[key.ref]
                         ELSE row[sel[CHOOSE i \in DOMAIN sel : sel[i].name = key.ref].expr]
      outOfOrder(a, b) == \E k \in DOMAIN order :
        /\ \A m \in 1..(k - 1) : value(a, order[m].key) = value(b, order[m].key)
        /\ Before(value(b, order[k].key), value(a, order[k].key), order[k].desc, NullsFirst(order[k]))
      permutations == {p \in [DOMAIN rows -> DOMAIN rows] : \A i, j \in DOMAIN rows : p[i] = p[j] => i = j}
      allowed == {p \in permutations :
        \A i, j \in DOMAIN rows : i < j => ~outOfOrder(rows[p[i]], rows[p[j]])}
      same(a, b) == IF q.distinct = "all" THEN Project(a, sel) = Project(b, sel)
                    ELSE \A k \in DOMAIN q.on : value(a, q.on[k]) = value(b, q.on[k])
      reduced(p) == SelectSeq([i \in DOMAIN rows |-> i], LAMBDA i :
        q.distinct = "none" \/ \A j \in 1..(i - 1) : ~same(rows[p[j]], rows[p[i]]))
      projected(p) == [k \in DOMAIN reduced(p) |-> Project(rows[p[reduced(p)[k]]], sel)]
      cut(s, w) == Window(s, CountOf(w.limit, All), CountOf(w.offset, 0))
  IN {FoldRight(LAMBDA w, s : cut(s, w), q.wraps, cut(projected(p), q)) : p \in allowed}

\* The query with its row counts written in.
Inlined(q, params) ==
  LET given(c) == IF c \in {NoWindow, All} THEN c
                  ELSE IF c.kind # "param" THEN c
                  ELSE IF params[c.param] = Null THEN All
                  ELSE [kind |-> "number", count |-> params[c.param].count]
  IN [q EXCEPT !.limit = given(@), !.offset = given(@)]

\* A cell of a row as its owner wrote it.
Cell(row, declared, name) ==
  LET names == IF IsTuple(row) THEN declared ELSE row.keys
      at == {i \in DOMAIN names : names[i] = name}
  IN IF at = {} THEN Null ELSE row.values[CHOOSE i \in at : TRUE]

\* A query is answered with rows that Postgres could have answered it with over
\* the rows as declared, or is refused: the executor's order of a SELECT DISTINCT
\* never shows, and a LIMIT counts what DISTINCT ON kept (TableSession.query).
AnsweredAsPostgres(q, raw, declared, types, params) ==
  LET table == DeclareTable(raw, declared, types)
      answer == Query(q, {"t"}, table.value.rows, params)
      rows == [i \in DOMAIN raw |-> [n \in DOMAIN table.value.types |-> Cell(raw[i], declared, n)]]
  IN table.error = "none" /\ answer.error = "none" => answer.value \in Meaning(Inlined(q, params), rows)
=============================================================================
