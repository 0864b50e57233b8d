------------------------------ MODULE Catalogue ------------------------------
(***************************************************************************)
(* What a session declares of its tables, and the catalogues that clients  *)
(* read it back from: pg_catalog, information_schema, and the answer to    *)
(* asyncpg's type introspection.                                           *)
(*                                                                         *)
(* A declared table has a name, columns (a name and a type, which is an    *)
(* element and whether it is an array) in order, a primary key and unique  *)
(* keys.  A name is a sequence of symbols; the last part of a key's name,  *)
(* and its counter, are one symbol.                                        *)
(***************************************************************************)
EXTENDS Integers, Sequences, SequencesExt, FiniteSetsExt, TLC

CONSTANTS
  NameLimit,     \* NAMEDATALEN - 1: 63
  TypeConstants, \* the integers types.py has under an upper-case name: name -> oid
  DeclaredOids,  \* DECLARED_TYPE_OIDS: spelling -> oid
  ArrayOid,      \* ARRAY_OID: oid -> oid
  TextOid,
  NotANumber     \* an item that int() refuses, a NULL say

FirstUser == 16384
FirstIndex == FirstUser + 100000
FirstConstraint == FirstUser + 200000

Accepted(v) == [error |-> "none", value |-> v]
Rejected(e) == [error |-> e, value |-> << >>]
-----------------------------------------------------------------------------
\* declared.py.

ColumnNames(table) == {c.name : c \in ToSet(table.columns)}
KeyError(key, table) ==
  \/ ~(ToSet(key) \subseteq ColumnNames(table))
  \/ Cardinality(ToSet(key)) # Len(key)

\* Table.__post_init__
DeclareTable(table) ==
  IF \/ table.name = << >>
     \/ \E c \in ToSet(table.columns) : c.name = << >> \/ c.type.element = ""
     \/ KeyError(table.primaryKey, table)
     \/ \E key \in ToSet(table.unique) : KeyError(key, table)
     \/ Cardinality(ToSet(table.unique)) # Len(table.unique)
  THEN Rejected("ValueError") ELSE Accepted(table)

\* Schema.__init__
DeclareSchema(tables) ==
  IF \E i, j \in DOMAIN tables : i < j /\ tables[i].name = tables[j].name
  THEN Rejected("ValueError") ELSE Accepted(tables)

\* resolve(): every shape that Session.schema() may return.
Resolve(declared) ==
  LET keyless == [i \in DOMAIN declared.tables |->
        [declared.tables[i] EXCEPT !.primaryKey = << >>, !.unique = << >>]]
      given == IF declared.shape = "mapping" THEN keyless ELSE declared.tables
  IN CASE declared.shape = "none" -> Accepted(<< >>)
       [] declared.shape \in {"mapping", "sequence", "schema"} ->
            IF \E i \in DOMAIN given : DeclareTable(given[i]).error # "none"
            THEN Rejected("ValueError") ELSE DeclareSchema(given)
       [] OTHER -> Rejected("TypeError")
-----------------------------------------------------------------------------
\* Types.

\* oid_for_declared_type: text for a spelling it does not know; however many
\* dimensions are declared, an array has one type.
OidFor(type) ==
  LET oid == IF type.element \in DOMAIN DeclaredOids THEN DeclaredOids[type.element] ELSE TextOid
  IN IF ~type.array THEN oid ELSE IF oid \in DOMAIN ArrayOid THEN ArrayOid[oid] ELSE oid

\* _pg_type_rows: whatever integer has an upper-case name in types.py, and the
\* arrays over what there are arrays over.
PgType ==
  LET scalars == {TypeConstants[n] : n \in DOMAIN TypeConstants}
      nameOf(oid) == CHOOSE n \in DOMAIN TypeConstants : TypeConstants[n] = oid
      arrays == {ArrayOid[e] : e \in DOMAIN ArrayOid} \ scalars
      over(a) == CHOOSE e \in DOMAIN ArrayOid : ArrayOid[e] = a
  IN [oid \in scalars \cup arrays |->
       IF oid \in scalars
       THEN [oid |-> oid, typname |-> << nameOf(oid) >>, typelem |-> 0,
             typarray |-> IF oid \in DOMAIN ArrayOid THEN ArrayOid[oid] ELSE 0]
       ELSE [oid |-> oid, typelem |-> over(oid), typarray |-> 0,
             typname |-> << "_", IF over(oid) \in scalars THEN nameOf(over(oid)) ELSE "unknown" >>]]
-----------------------------------------------------------------------------
\* Keys: _declared_keys, the primary one first.
DeclaredKeys(table) ==
  (IF table.primaryKey = << >> THEN << >>
   ELSE << [columns |-> table.primaryKey, primary |-> TRUE] >>)
  \o [i \in DOMAIN table.unique |-> [columns |-> table.unique[i], primary |-> FALSE]]

\* _key_name: cut to the limit, with a counter if another key has the name.
Cut(name, n) == SubSeq(name, 1, Min({n, Len(name)}))
Stem(table, key) ==
  IF key.primary THEN table.name \o << "_", "pkey" >>
  ELSE table.name \o FlattenSeq([i \in DOMAIN key.columns |-> << "_" >> \o key.columns[i]]) \o << "_", "key" >>
\* Mutant: names are compared before they are cut.
KeyNameComparedWhole(table, key, taken) ==
  LET stem == Stem(table, key)
      counted(k) == Cut(stem, NameLimit - 1) \o << ToString(k) >>
  IN IF stem \notin taken THEN Cut(stem, NameLimit)
     ELSE counted(CHOOSE k \in 1..9 : counted(k) \notin taken /\ \A j \in 1..(k - 1) : counted(j) \in taken)
KeyName(table, key, taken) ==
  LET name == Cut(Stem(table, key), NameLimit)
      counted(k) == Cut(name, NameLimit - 1) \o << ToString(k) >>
  IN IF name \notin taken THEN name
     ELSE counted(CHOOSE k \in 1..9 : counted(k) \notin taken /\ \A j \in 1..(k - 1) : counted(j) \in taken)

KeyPositions(table, key) ==
  [i \in DOMAIN key.columns |-> CHOOSE p \in DOMAIN table.columns : table.columns[p].name = key.columns[i]]
-----------------------------------------------------------------------------
\* _build_pg_catalog, table by table and key by key.
AddKey(catalog, table, oid, key) ==
  LET name == KeyName(table, key, catalog.names)
      index == FirstIndex + Len(catalog.index)
      positions == KeyPositions(table, key)
  IN [catalog EXCEPT
       !.names = @ \cup {name},
       !.class = Append(@, [oid |-> index, relname |-> name, relkind |-> "i", relhasindex |-> FALSE]),
       !.index = Append(@, [indexrelid |-> index, indrelid |-> oid, indisprimary |-> key.primary,
                            indkey |-> positions]),
       !.constraint = Append(@, [oid |-> FirstConstraint + Len(@), conname |-> name, conrelid |-> oid,
                                 contype |-> IF key.primary THEN "p" ELSE "u", conindid |-> index,
                                 conkey |-> positions])]

AddTable(catalog, table, i) ==
  LET oid == FirstUser + i - 1
      described == [catalog EXCEPT
        !.class = Append(@, [oid |-> oid, relname |-> table.name, relkind |-> "r",
                             relhasindex |-> table.primaryKey # << >> \/ table.unique # << >>]),
        !.attribute = @ \o [p \in DOMAIN table.columns |->
          [attrelid |-> oid, attname |-> table.columns[p].name, attnum |-> p,
           atttypid |-> OidFor(table.columns[p].type),
           attnotnull |-> table.columns[p].name \in ToSet(table.primaryKey)]]]
  IN FoldLeft(LAMBDA c, key : AddKey(c, table, oid, key), described, DeclaredKeys(table))

BuildPgCatalog(schema) ==
  FoldLeft(LAMBDA c, i : AddTable(c, schema[i], i),
           [class |-> << >>, attribute |-> << >>, index |-> << >>, constraint |-> << >>, names |-> {}],
           [i \in DOMAIN schema |-> i])

\* _build_information_schema
BuildInformationSchema(schema) ==
  [tables |-> [i \in DOMAIN schema |-> schema[i].name],
   columns |-> FlattenSeq([i \in DOMAIN schema |-> [p \in DOMAIN schema[i].columns |->
     LET column == schema[i].columns[p]
     IN [table |-> schema[i].name, column |-> column.name, position |-> p,
         nullable |-> column.name \notin ToSet(schema[i].primaryKey),
         udt |-> PgType[OidFor(column.type)].typname]]])]
-----------------------------------------------------------------------------
\* typeinfo.py.

\* _requested_oids: a list of texts, or a literal that was left one; what is no
\* number is passed over.
RequestedOids(parameter) ==
  IF parameter.shape \in {"list", "literal"}
  THEN SelectSeq(parameter.items, LAMBDA item : item # NotANumber) ELSE << >>

\* _rows_for: each type once, and its element with it; then the deepest first.
AddType(found, oid) ==
  LET seen == {r.oid : r \in ToSet(found)}
      element == PgType[oid].typelem
      at(o, depth) == [oid |-> o, elemtype |-> PgType[o].typelem, depth |-> depth]
  IN IF oid \notin DOMAIN PgType \/ oid \in seen THEN found
     ELSE Append(found, at(oid, 0))
          \o IF element # 0 /\ element \notin seen \cup {oid} /\ element \in DOMAIN PgType
             THEN << at(element, 1) >> ELSE << >>
RowsFor(oids) ==
  LET found == FoldLeft(AddType, << >>, oids)
  IN SelectSeq(found, LAMBDA r : r.depth = 1) \o SelectSeq(found, LAMBDA r : r.depth = 0)
-----------------------------------------------------------------------------
Rows(table, P(_)) == {r \in ToSet(table) : P(r)}
NamesAt(catalog, oid, positions) ==
  [i \in DOMAIN positions |->
     (CHOOSE a \in ToSet(catalog.attribute) : a.attrelid = oid /\ a.attnum = positions[i]).attname]

\* Joins find what they look for, once: an index its relation, its table and its
\* constraint, under one name and over the declared columns in order; and names
\* of keys stay apart, whatever truncation does to them.
KeysAreFound(schema, catalog) ==
  LET relations == ToSet(catalog.class)
      relation(oid, kind) == {r \in relations : r.oid = oid /\ r.relkind = kind}
      indexes == Rows(catalog.class, LAMBDA r : r.relkind = "i")
  IN /\ Cardinality({r.oid : r \in relations}) = Len(catalog.class)
     /\ Cardinality({r.relname : r \in indexes}) = Len(catalog.index)
     /\ \A r \in indexes : Len(r.relname) <= NameLimit
     /\ \A i \in ToSet(catalog.index) :
          LET constraints == Rows(catalog.constraint, LAMBDA c : c.conindid = i.indexrelid)
          IN /\ Cardinality(relation(i.indexrelid, "i")) = 1
             /\ Cardinality(relation(i.indrelid, "r")) = 1
             /\ Cardinality(constraints) = 1
             /\ \A c \in constraints, r \in relation(i.indexrelid, "i") :
                  /\ c.conname = r.relname /\ c.conrelid = i.indrelid /\ c.conkey = i.indkey
                  /\ (c.contype = "p") = i.indisprimary
     /\ \A t \in DOMAIN schema :
          LET oid == FirstUser + t - 1
              found == Rows(catalog.index, LAMBDA i : i.indrelid = oid)
          IN /\ \A r \in relation(oid, "r") : r.relname = schema[t].name /\ r.relhasindex = (found # {})
             /\ {[columns |-> NamesAt(catalog, oid, i.indkey), primary |-> i.indisprimary] : i \in found}
                  = ToSet(DeclaredKeys(schema[t]))

\* The two catalogues say the same of every column, and a client that read the
\* tables before their keys were declared has their oids still.
CataloguesAgree(schema, catalog, information) ==
  LET nameOf(oid) == (CHOOSE r \in ToSet(catalog.class) : r.oid = oid).relname
      tablesOf(c) == SelectSeq(c.class, LAMBDA r : r.relkind = "r")
      keyless == [i \in DOMAIN schema |-> [schema[i] EXCEPT !.primaryKey = << >>, !.unique = << >>]]
      oids(c) == [i \in DOMAIN tablesOf(c) |-> << tablesOf(c)[i].oid, tablesOf(c)[i].relname >>]
  IN /\ {[table |-> nameOf(a.attrelid), column |-> a.attname, position |-> a.attnum,
          nullable |-> ~a.attnotnull, udt |-> PgType[a.atttypid].typname] : a \in ToSet(catalog.attribute)}
          = ToSet(information.columns)
     /\ oids(catalog) = oids(BuildPgCatalog(keyless))

\* Whatever a session may declare, in any shape.
DeclaredIsFound(declared) ==
  LET schema == Resolve(declared)
      catalog == BuildPgCatalog(schema.value)
  IN schema.error = "none" =>
       /\ KeysAreFound(schema.value, catalog)
       /\ CataloguesAgree(schema.value, catalog, BuildInformationSchema(schema.value))

\* asyncpg builds an array's codec from its element's, so every type it asks for
\* is there once, and after its element.
ElementsComeFirst(parameter) ==
  LET asked == RequestedOids(parameter)
      rows == RowsFor(asked)
      known == {o \in ToSet(asked) : o \in DOMAIN PgType}
  IN /\ known \subseteq {r.oid : r \in ToSet(rows)}
     /\ \A i, j \in DOMAIN rows : rows[i].oid = rows[j].oid => i = j
     /\ \A i \in DOMAIN rows : rows[i].elemtype # 0 => \E j \in 1..(i - 1) : rows[j].oid = rows[i].elemtype
=============================================================================
