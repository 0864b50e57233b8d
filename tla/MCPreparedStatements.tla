------------------------ MODULE MCPreparedStatements ------------------------
(***************************************************************************)
(* Settings, values and statements for model checking PreparedStatements.  *)
(***************************************************************************)
EXTENDS PreparedStatements

Entry(vartype, context, default) ==
  [vartype |-> vartype, unit |-> NoUnit, low |-> 0, high |-> 9, enumvals |-> {},
   context |-> context, default |-> default]
MCCatalogue == [n \in {"row_security", "shared_buffers"} |->
  IF n = "row_security" THEN Entry("bool", "user", On) ELSE Entry("integer", "postmaster", Number(10, ""))]
MCSettings == DOMAIN MCCatalogue \cup {"app.x", "nosuch"}

Set(n, v) == [verb |-> "set", on |-> n, to |-> v]
Show(n) == [verb |-> "show", on |-> n]
Select(calls) == [verb |-> "select", calls |-> calls]
Current(n, m) == [f |-> "current_setting", on |-> n, missing |-> m]
Config(n, v) == [f |-> "set_config", on |-> n, to |-> v]
Verb(v) == [verb |-> v]
Prepared(names, sql) == [verb |-> "prepare", names |-> names, inner |-> sql]
Named(v, n) == [verb |-> v, name |-> n]
Letter == Word(<< "a" >>)

Values == {Set("row_security", Word(<< "T", "r" >>)), Set("row_security", Word(<< "o" >>)),
           Set("shared_buffers", Number(10, "")), Set("nosuch", Letter),
           Set("row_security", Placeholder), Set("row_security", Default)}
MCTexts == {Show("row_security"), Show("all"), Verb("discard_all"), Verb("query"), Set("row_security", Off),
            Prepared(<< "P" >>, Show("row_security")), Named("execute", "p"), Named("deallocate", "p"),
            Select(<< Config("app.x", Letter), Current("app.x", "true"), Current("nosuch", "null") >>)}
MCOnce == Values \cup {
  Show("app.x"), Verb("reset_all"), Verb("discard_plans"), Named("deallocate", "P"), Named("deallocate", "all"),
  Select(<< >>), Select(<< Current("app.x", "absent") >>), Select(<< Current("app.x", Column) >>),
  Select(<< Config("app.x", Column) >>), Select(<< [f |-> "pg_backend_pid"] >>), Select(<< Config("app.x", Default) >>),
  Select(<< Config("app.x", Letter), Config("nosuch", Letter) >>),
  Prepared(<< "P", "p" >>, Set("row_security", Off)), Prepared(<< "p" >>, Select(<< Current("nosuch", "false") >>))}
=============================================================================
