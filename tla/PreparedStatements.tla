------------------------- MODULE PreparedStatements -------------------------
(***************************************************************************)
(* One connection outside a transaction: statements are resolved by the    *)
(* middleware chain at Parse, kept in the one registry that Parse, PREPARE *)
(* and DEALLOCATE share, bound to portals and executed later, in pieces,   *)
(* while settings move.                                                    *)
(*                                                                         *)
(* A text is a record with a verb:                                         *)
(*   set       on, to: a text, Default or Placeholder ("$1")               *)
(*   show      on: a setting, or "all"                                     *)
(*   select    calls: current_setting(on, missing), set_config(on, to),    *)
(*             where to is a text or Default (a NULL), and pg_backend_pid; *)
(*             Column is an argument that is no literal                    *)
(*   prepare   names, inner: PREPARE a AS PREPARE b AS ... names a, b      *)
(*   execute and deallocate: name, or "all"                                *)
(*   reset_all, discard_all, discard_plans, query (the session's own)      *)
(***************************************************************************)
EXTENDS SettingValues

CONSTANTS
  Texts,       \* what clients send
  Once,        \* what they send by the simple protocol only
  Names,       \* names of statements, as PREPARE and Parse spell them
  Portals,
  Settings,    \* the names of settings that occur
  Default, Placeholder, Column,
  Refusable,   \* what a session may refuse, or be cancelled at: settings, or "discard"
  Limits       \* row limits of Execute; 0 is none

ASSUME StatementsAssumption ==
  \A sql \in Texts \cup Once :
    /\ sql.verb = "prepare" => sql.names \in Seq(STRING) \ {<< >>} /\ sql.inner.verb # "prepare"
    /\ \A t \in {sql} \cup (IF sql.verb = "prepare" THEN {sql.inner} ELSE {}) :
         t.verb = "select" => Len(t.calls) \in Nat /\ DOMAIN t.calls = 1..Len(t.calls)

VARIABLES
  statements,  \* Names -> a statement or None
  portals,     \* Portals -> a portal or None
  vars, known, \* session_vars, known_settings
  mirror,      \* what the session was told by set_parameter() and accepted
  torn,        \* history: settings recorded last by a telling that a cancel cut short
  answer       \* what the last Execute, or the simple protocol's, answered

state == << statements, portals, vars, known, mirror, torn, answer >>

\* What the handlers change, as one record that effects are applied to.
Now == [statements |-> statements, portals |-> portals, vars |-> vars, known |-> known, mirror |-> mirror,
        torn |-> torn]
Unset == [n \in Settings |-> None]
Silent == [to |-> "nothing", sql |-> None, rows |-> << >>]

Init ==
  /\ statements = [n \in Names |-> None]
  /\ portals = [p \in Portals |-> None]
  /\ vars = Unset /\ known = {} /\ mirror = Unset /\ torn = {}
  /\ answer = Silent
-----------------------------------------------------------------------------
\* A result: values read now.  The rows of SHOW ALL are one function.
Cells(s, calls) == [i \in DOMAIN calls |->
  CASE calls[i].f = "current_setting" ->
         IF calls[i].missing = "null" THEN None ELSE SettingValue(s.vars, s.known, calls[i].on)
    [] calls[i].f = "set_config" -> IF calls[i].to = Default THEN Word(<< >>) ELSE calls[i].to
    [] OTHER -> Word(<< "p", "i", "d" >>)]

Rows(s, sql) ==
  CASE sql.verb = "show" /\ sql.on # "all" -> << << SettingValue(s.vars, s.known, sql.on) >> >>
    [] sql.verb = "show" /\ sql.on = "all" ->
         << [n \in {m \in Settings : SettingValue(s.vars, s.known, m) # None} |->
               SettingValue(s.vars, s.known, n)] >>
    [] sql.verb = "select" -> << Cells(s, sql.calls) >>
    [] sql.verb = "query" -> << << "row1" >>, << "row2" >> >>
    [] OTHER -> << >>

\* An unknown name is an error, unless missing_ok says NULL; a NULL flag says
\* NULL for any name.
RowsError(s, sql) ==
  LET unknown(n) == SettingValue(s.vars, s.known, n) = None
  IN IF \/ sql.verb = "show" /\ sql.on # "all" /\ unknown(sql.on)
        \/ sql.verb = "select" /\ \E i \in DOMAIN sql.calls :
             /\ sql.calls[i].f = "current_setting" /\ sql.calls[i].missing \in {"absent", "false"}
             /\ unknown(sql.calls[i].on)
     THEN "42704" ELSE "none"

\* _substitute_session_functions: what the calls do, in order; only one kind writes.
CallEffects(calls) == [i \in DOMAIN calls |->
  IF calls[i].f = "set_config" THEN [do |-> "set", on |-> calls[i].on, to |-> calls[i].to]
  ELSE [do |-> "nothing"]]

\* A call whose argument is no literal is left alone, and then the query cannot
\* be evaluated here; nor can one that calls nothing of the connection's.
Answerable(calls) ==
  /\ calls # << >>
  /\ \A i \in DOMAIN calls : /\ calls[i].f = "current_setting" => calls[i].missing # Column
                            /\ calls[i].f = "set_config" => calls[i].to # Column

\* _identifier(): an unquoted name is folded.
Identifier(raw) == IF raw = "P" THEN "p" ELSE raw

Statement(sql, effects) == [error |-> "none", sql |-> sql, effects |-> effects]
Refusal(e) == [error |-> e, sql |-> None, effects |-> << >>]

\* A PREPARE, of other PREPAREs or not, and what executing it puts in the registry.
PrepareAs(names, inner) ==
  Statement([verb |-> "prepare"], << [do |-> "store", names |-> names, statement |-> inner] >>)
Stored(e) == IF Len(e.names) = 1 THEN e.statement ELSE PrepareAs(Tail(e.names), e.statement)

\* Session.prepare(): the first link of the chain that knows the statement makes
\* it, and the session's own query is what is left.
Resolve(s, sql) ==
  CASE sql.verb = "set" ->
         IF sql.to = Placeholder THEN Refusal("42601")
         ELSE Statement(sql, << [do |-> "set", on |-> sql.on, to |-> sql.to] >>)
    [] sql.verb \in {"reset_all", "discard_all", "discard_plans"} -> Statement(sql, << [do |-> sql.verb] >>)
    [] sql.verb = "deallocate" -> Statement(sql, << [do |-> "deallocate", name |-> sql.name] >>)
    [] sql.verb = "execute" ->
         IF Identifier(sql.name) \notin Names \/ s.statements[Identifier(sql.name)] = None
         THEN Refusal("26000")
         ELSE s.statements[Identifier(sql.name)]
    [] sql.verb = "select" ->
         IF RowsError(s, sql) # "none" THEN Refusal(RowsError(s, sql))
         ELSE IF ~Answerable(sql.calls) THEN Statement([verb |-> "query"], << >>)
         ELSE Statement(sql, CallEffects(sql.calls))
    [] OTHER -> Statement(sql, << >>)
Prepare(s, sql) ==
  LET made == Resolve(s, IF sql.verb = "prepare" THEN sql.inner ELSE sql)
  IN IF sql.verb = "prepare" /\ made.error = "none" THEN PrepareAs(sql.names, made) ELSE made
-----------------------------------------------------------------------------
\* What is recorded, what the session was told and accepted too, and what it was
\* being told when the cancel came.
Record(s, name, v) == [s EXCEPT !.vars[name] = v, !.known = @ \cup {name}]
Told(s, name, v) == [Record(s, name, v) EXCEPT !.mirror[name] = v, !.torn = @ \ {name}]
Cut(s, name, v) == [Record(s, name, v) EXCEPT !.torn = @ \cup {name}]

\* Mutant: the record stays when the session refuses.
ApplySetConfigKeepsRecord(s, name, to, refusal) ==
  LET apply(parsed) ==
        CASE parsed.error # "none" -> [error |-> parsed.error, now |-> s]
          [] parsed.error = "none" /\ name \in refusal.of ->
               [error |-> refusal.by,
                now |-> IF refusal.by = "cancel" THEN Cut(s, name, parsed.value)
                        ELSE Record(s, name, parsed.value)]
          [] OTHER -> [error |-> "none", now |-> Told(s, name, parsed.value)]
  IN IF CheckSettable(name) # "none" THEN [error |-> CheckSettable(name), now |-> s]
     ELSE apply(IF to = Default THEN Parsed(None) ELSE Parse(name, to))

\* _apply_set_config: the check, the value, the record, and the session, which
\* may refuse and have the record undone.  A cancel while the session is told is
\* no Exception: the record stays.
ApplySetConfig(s, name, to, refusal) ==
  LET apply(parsed) ==
        CASE parsed.error # "none" -> [error |-> parsed.error, now |-> s]
          [] parsed.error = "none" /\ name \in refusal.of ->
               [error |-> refusal.by,
                now |-> IF refusal.by = "cancel" THEN Cut(s, name, parsed.value) ELSE s]
          [] OTHER -> [error |-> "none", now |-> Told(s, name, parsed.value)]
  IN IF CheckSettable(name) # "none" THEN [error |-> CheckSettable(name), now |-> s]
     ELSE apply(IF to = Default THEN Parsed(None) ELSE Parse(name, to))

\* _reset_all: one by one, in an order of the dictionary's, until the session
\* refuses one, or a cancel leaves one reset that it has not heard of.
ResetAll(s, refusal) ==
  LET held == {n \in Settings : s.vars[n] # None}
      stops == held \cap refusal.of # {}
      done == IF stops THEN (held \cap refusal.before) \ refusal.of ELSE held
      cut == IF refusal.by = "cancel" THEN held \cap refusal.of ELSE {}
      reset(values, names) == [n \in Settings |-> IF n \in names THEN None ELSE values[n]]
  IN [error |-> IF stops THEN refusal.by ELSE "none",
      now |-> [s EXCEPT !.vars = reset(@, done \cup cut), !.mirror = reset(@, done),
                        !.torn = (@ \ done) \cup cut]]

\* _discard_statement: the session first, which may refuse, or not be done when
\* the cancel comes; settings; the rest.
DiscardAll(s, refusal) ==
  LET reset == ResetAll(s, refusal)
      nothing == [n \in Names |-> None]
  IN CASE "discard" \in refusal.of -> [error |-> refusal.by, now |-> s]
       [] "discard" \notin refusal.of /\ reset.error # "none" -> reset
       [] OTHER -> [error |-> "none",
                    now |-> [reset.now EXCEPT !.statements = nothing,
                                              !.portals = [p \in Portals |-> None]]]

\* DEALLOCATE takes the name as it is written.
Deallocate(s, name) ==
  CASE name = "all" -> [error |-> "none", now |-> [s EXCEPT !.statements = [n \in Names |-> None]]]
    [] name # "all" /\ (name \notin Names \/ s.statements[name] = None) -> [error |-> "26000", now |-> s]
    [] OTHER -> [error |-> "none", now |-> [s EXCEPT !.statements[name] = None]]

Effect(s, e, refusal) ==
  CASE e.do = "set" -> ApplySetConfig(s, e.on, e.to, refusal)
    [] e.do = "reset_all" -> ResetAll(s, refusal)
    [] e.do = "discard_all" -> DiscardAll(s, refusal)
    [] e.do = "discard_plans" -> [error |-> IF "discard" \in refusal.of THEN refusal.by ELSE "none", now |-> s]
    [] e.do = "deallocate" -> Deallocate(s, e.name)
    [] e.do = "store" ->
         [error |-> "none", now |-> [s EXCEPT !.statements[Identifier(Head(e.names))] = Stored(e)]]
    [] e.do = "nothing" -> [error |-> "none", now |-> s]

\* _run_all: in order, up to the first that raises.
Then(r, e, refusal) == IF r.error # "none" THEN r ELSE Effect(r.now, e, refusal)
RunAll(s, effects, refusal) ==
  LET Run[i \in 0..Len(effects)] ==
        IF i = 0 THEN [error |-> "none", now |-> s] ELSE Then(Run[i - 1], effects[i], refusal)
  IN Run[Len(effects)]

\* Mutant: the rows are read before the statement's own writes.
OpenPortalReadsFirst(s, statement, refusal) ==
  LET read(run) == [error |-> run.error, now |-> run.now,
                    rows |-> IF run.error = "none" THEN Rows(s, statement.sql) ELSE << >>]
  IN read(RunAll(s, statement.effects, refusal))

\* StaticPortal.execute and CallbackPortal.execute, the first time: the effects,
\* then the rows, read after them.
OpenPortal(s, statement, refusal) ==
  LET error(run) == IF run.error # "none" THEN run.error ELSE RowsError(run.now, statement.sql)
      read(run) == [error |-> error(run), now |-> run.now,
                    rows |-> IF error(run) = "none" THEN Rows(run.now, statement.sql) ELSE << >>]
  IN read(RunAll(s, statement.effects, refusal))

\* drain_rows
Drained(rows, limit) == IF limit = 0 THEN rows ELSE SubSeq(rows, 1, Min({limit, Len(rows)}))
-----------------------------------------------------------------------------
Becomes(s) ==
  /\ statements' = s.statements /\ portals' = s.portals
  /\ vars' = s.vars /\ known' = s.known /\ mirror' = s.mirror /\ torn' = s.torn

\* Every row of a result is read when the first is, so that is when it can be
\* compared with the settings.
Responds(sql, first, opened) ==
  answer' = IF first /\ opened.error = "none" THEN [to |-> "first", sql |-> sql, rows |-> opened.rows]
            ELSE [Silent EXCEPT !.to = IF first THEN "refused" ELSE "rest"]

Accepted == [of |-> {}, before |-> {}, by |-> "session"]

\* Mutant: the effects happen where the statement is made.
HandleParseRunsEffects(name, sql) ==
  LET made == Prepare(Now, sql)
      ran == RunAll(Now, made.effects, Accepted)
  IN /\ IF made.error = "none"
        THEN Becomes([ran.now EXCEPT !.statements[name] = made])
        ELSE Becomes(Now)
     /\ answer' = Silent

\* _handle_parse
HandleParse(name, sql) ==
  LET made == Prepare(Now, sql)
  IN /\ IF made.error = "none"
        THEN Becomes([Now EXCEPT !.statements[name] = made])
        ELSE Becomes(Now)
     /\ answer' = Silent

\* _handle_bind: the portal holds the statement, not its name.
HandleBind(portal, name) ==
  /\ statements[name] # None
  /\ Becomes([Now EXCEPT !.portals[portal] =
                [statement |-> statements[name], opened |-> FALSE, left |-> << >>]])
  /\ answer' = Silent

\* _handle_execute.  DISCARD ALL may take the portal away under its own feet.
HandleExecute(portal, limit, refusal) ==
  LET p == portals[portal]
      after(rows) == [p EXCEPT !.opened = TRUE,
                               !.left = SubSeq(rows, Len(Drained(rows, limit)) + 1, Len(rows))]
      drain(opened) ==
        /\ Becomes(IF opened.error = "none" /\ opened.now.portals[portal] # None
                   THEN [opened.now EXCEPT !.portals[portal] = after(opened.rows)]
                   ELSE opened.now)
        /\ Responds(p.statement.sql, ~p.opened, opened)
  IN /\ p # None
     /\ drain(IF p.opened THEN [error |-> "none", now |-> Now, rows |-> p.left]
              ELSE OpenPortal(Now, p.statement, refusal))

\* _execute_one_simple_statement
SimpleQuery(sql, refusal) ==
  LET answered(made, ran) == Becomes(ran.now) /\ Responds(made.sql, TRUE, ran)
      run(made) == IF made.error # "none" THEN Becomes(Now) /\ answer' = Silent
                   ELSE answered(made, OpenPortal(Now, made, refusal))
  IN run(Prepare(Now, sql))

\* _handle_close, of either kind; a name that is not there is no error.
CloseStatement(name) ==
  Becomes([Now EXCEPT !.statements[name] = None]) /\ answer' = Silent
ClosePortal(portal) ==
  Becomes([Now EXCEPT !.portals[portal] = None]) /\ answer' = Silent

\* What a session refuses, one setting or a DISCARD, or is being told when the
\* cancel comes, and which settings a RESET ALL has reset before that.
Refusals ==
  LET held == {n \in Settings : vars[n] # None}
  IN {Accepted} \cup
     UNION {[of : {{n}}, before : SUBSET {m \in held : n \in held \ {m}}, by : {"session", "cancel"}] : n \in Refusable}

Next ==
  \/ \E n \in Names, sql \in Texts : HandleParse(n, sql)
  \/ \E p \in Portals, n \in Names : HandleBind(p, n)
  \/ \E p \in Portals, limit \in Limits, refusal \in Refusals : HandleExecute(p, limit, refusal)
  \/ \E sql \in Texts \cup Once, refusal \in Refusals : SimpleQuery(sql, refusal)
  \/ \E n \in Names : CloseStatement(n)
  \/ \E p \in Portals : ClosePortal(p)

Spec == Init /\ [][Next]_state
-----------------------------------------------------------------------------
\* What a client is told of a setting is what it is when the statement runs,
\* however long before that the statement was parsed, prepared or bound, and
\* after the statement's own writes (#63).
ReadsAreFresh ==
  LET reads == {i \in DOMAIN answer.sql.calls : answer.sql.calls[i].f = "current_setting"
                                                /\ answer.sql.calls[i].missing # "null"}
      now(n) == SettingValue(vars, known, n)
  IN answer.to = "first" /\ answer.rows # << >> =>
       /\ answer.sql.verb = "show" /\ answer.sql.on # "all" => answer.rows = << << now(answer.sql.on) >> >>
       /\ answer.sql.verb = "show" /\ answer.sql.on = "all" =>
            \A n \in Settings : now(n) = IF n \in DOMAIN answer.rows[1] THEN answer.rows[1][n] ELSE None
       /\ answer.sql.verb = "select" => \A i \in reads : answer.rows[1][i] = now(answer.sql.calls[i].on)

\* Settings move only when a portal is executed for the first time: parsing a
\* set_config(), preparing, describing or binding a SET, or fetching the rest of
\* a suspended portal changes nothing.
EffectsAtExecute ==
  [][vars' # vars \/ known' # known => answer'.to \in {"first", "refused"}]_state

\* The session has heard of, and accepted, exactly the settings the connection
\* holds: also when it refuses one of several, a RESET ALL or a DISCARD (#35), and
\* again as soon as it is told once more of a setting whose telling a cancel cut
\* short.  Until then that one setting is the exception: _apply_set_config undoes
\* the record for an Exception, and a CancelledError is none.
SessionAgrees == \A n \in Settings \ torn : mirror[n] = vars[n]
=============================================================================
