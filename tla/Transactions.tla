---------------------------- MODULE Transactions ----------------------------
(***************************************************************************)
(* One connection executing statements: transaction control, savepoints,   *)
(* settings and LISTEN/NOTIFY, inside the command loop that reads a        *)
(* command, runs its statements and answers ReadyForQuery.                 *)
(*                                                                         *)
(* A command is a simple query batch or an extended-protocol batch up to   *)
(* its Sync: in both, statements run one after another until one raises or *)
(* is cancelled, the rest are skipped, and ReadyForQuery ends it.          *)
(*                                                                         *)
(* base, log and marks are history: they record what the open transaction  *)
(* was told to do, as a log that ROLLBACK TO truncates.  The code keeps    *)
(* snapshots instead; ReplayMatches says the two agree.                    *)
(***************************************************************************)
EXTENDS TransactionControl

CONSTANTS
  MaxWrites,       \* bound: writes of one transaction that are modelled
  MaxSavepoints,   \* bound: savepoints open at once
  PairedRollback   \* TRUE: the client RELEASEs a savepoint it has rolled
                   \* back to before it takes another or rolls back to it
                   \* again, as psycopg's nested transaction() does

ASSUME BoundsAssumption ==
  MaxWrites \in Nat /\ MaxSavepoints \in Nat /\ PairedRollback \in BOOLEAN

VARIABLES
  conn,     \* the connection record of SessionState
  cmd,      \* "ready": at ReadyForQuery; "running"; "skipping" until its end
  client,   \* the client's cache of the reported settings
  base,     \* history: the transactional state the transaction started from
  log,      \* history: its writes that have not been rolled back
  marks,    \* history: Len(log) when each open savepoint was taken
  undone    \* history: the innermost savepoint has been rolled back to

vars == << conn, cmd, client, base, log, marks, undone >>
history == << base, log, marks, undone >>

Writes == [kind : {"set", "local"}, on : SUBSET Settings, val : Readings]
          \cup [kind : {"listen", "unlisten"}, on : SUBSET Channels]
          \cup [kind : {"notify"}, on : {{e} : e \in Events}]

Init ==
  /\ conn = NewConnection
  /\ cmd = "ready"
  /\ client = NoVars
  /\ base = EmptyScope
  /\ log = << >>
  /\ marks = << >>
  /\ undone = FALSE
-----------------------------------------------------------------------------
\* _command_loop: a command arrives.
ReceiveCommand ==
  /\ cmd = "ready"
  /\ cmd' = "running"
  /\ UNCHANGED << conn, client, history >>

\* _command_loop: the end of a command.  The owed ParameterStatus reports go
\* out just before ReadyForQuery.
ReadyForQuery ==
  /\ cmd \in {"running", "skipping"}
  /\ cmd' = "ready"
  /\ client' = Believed(conn, client)
  /\ conn' = [conn EXCEPT !.owed = NothingOwed]
  /\ UNCHANGED history

\* A statement raises: refused in a failed transaction, an unknown savepoint,
\* a savepoint statement or DISCARD ALL in the wrong status, a bad value, a
\* bug in the session; or a cancel request hits it before it has an effect.
StatementFails ==
  /\ cmd = "running"
  /\ cmd' = "skipping"
  /\ conn' = Fail(conn)
  /\ UNCHANGED << client, history >>

\* The statement's own conditions hold and it is not refused by the gate of
\* _execute_one_simple_statement and _handle_execute.
Executing(statement) ==
  /\ cmd = "running"
  /\ Runs(conn, statement)
-----------------------------------------------------------------------------
BeginStatement ==
  /\ Executing("BEGIN")
  /\ conn' = Begin(conn)
  /\ UNCHANGED << cmd, client, history >>

\* The history of a transaction ends with it.
EndsTransaction ==
  /\ base' = conn'.now
  /\ log' = << >>
  /\ marks' = << >>
  /\ undone' = FALSE

CommitStatement ==
  /\ Executing("COMMIT")
  /\ conn' = Commit(conn)
  /\ EndsTransaction
  /\ UNCHANGED << cmd, client >>

RollbackStatement ==
  /\ Executing("ROLLBACK")
  /\ conn' = Rollback(conn)
  /\ EndsTransaction
  /\ UNCHANGED << cmd, client >>

SavepointStatement(s) ==
  /\ Executing("SAVEPOINT")
  /\ conn.tx # "I"
  /\ Len(conn.savepoints) < MaxSavepoints
  /\ PairedRollback => ~undone
  /\ conn' = Savepoint(conn, s)
  /\ marks' = Append(marks, Len(log))
  /\ undone' = FALSE
  /\ UNCHANGED << cmd, client, base, log >>

ReleaseStatement(s) ==
  /\ Executing("RELEASE")
  /\ conn.tx # "I"
  /\ HasSavepoint(conn, s)
  /\ conn' = Release(conn, s)
  /\ marks' = SubSeq(marks, 1, Innermost(conn, s) - 1)
  /\ undone' = FALSE
  /\ UNCHANGED << cmd, client, base, log >>

RollbackToStatement(s) ==
  /\ Executing("ROLLBACK TO")
  /\ conn.tx # "I"
  /\ HasSavepoint(conn, s)
  /\ PairedRollback /\ undone => Innermost(conn, s) < Len(conn.savepoints)
  /\ conn' = RollbackTo(conn, s)
  /\ log' = SubSeq(log, 1, marks[Innermost(conn, s)])
  /\ marks' = SubSeq(marks, 1, Innermost(conn, s))
  /\ undone' = TRUE
  /\ UNCHANGED << cmd, client, base >>
-----------------------------------------------------------------------------
\* Outside a transaction a write is part of the settled state; inside one it
\* joins the log.
Logs(writes) ==
  IF conn.tx = "I"
  THEN base' = conn'.now /\ UNCHANGED << log, marks, undone >>
  ELSE /\ Len(log) + Len(writes) <= MaxWrites
       /\ log' = log \o writes
       /\ UNCHANGED << base, marks, undone >>

SetWrite(ns, v, local) ==
  << [kind |-> IF local THEN "local" ELSE "set", on |-> ns, val |-> v] >>

\* SET, SET LOCAL, RESET, SET SESSION CHARACTERISTICS and set_config(): every
\* name in ns is assigned v.  SET LOCAL outside a transaction only warns.
AssignmentStatement(ns, v, local) ==
  /\ Executing("SET")
  /\ IF local /\ conn.tx = "I"
     THEN UNCHANGED << conn, history >>
     ELSE conn' = Assign(conn, ns, {}, v, local) /\ Logs(SetWrite(ns, v, local))
  /\ UNCHANGED << cmd, client >>

\* The session's set_parameter() refuses the name in refused after the names
\* in done were assigned; or, with nothing refused, the command is cancelled
\* while it waits for set_parameter(), which nothing undoes.
AssignmentFails(done, refused, v, local) ==
  /\ Executing("SET")
  /\ ~(local /\ conn.tx = "I")
  /\ conn' = Fail(Assign(conn, done, refused, v, local))
  /\ Logs(IF done = {} THEN << >> ELSE SetWrite(done, v, local))
  /\ cmd' = "skipping"
  /\ UNCHANGED client

\* RESET ALL: one _apply_set_config per setting this connection overrides.
ResetAllStatement ==
  /\ Executing("RESET ALL")
  /\ conn' = ResetAll(conn)
  /\ Logs(SetWrite(Overridden(conn), Unset, FALSE))
  /\ UNCHANGED << cmd, client >>

\* DISCARD ALL: RESET ALL, then the rest of reset(), and UNLISTEN *.  When
\* the session refuses partway, it is an AssignmentFails.
DiscardAllStatement ==
  /\ Executing("DISCARD ALL")
  /\ conn.tx = "I"
  /\ conn' = DiscardAll(conn)
  /\ EndsTransaction
  /\ UNCHANGED << cmd, client >>
-----------------------------------------------------------------------------
ListenStatement(ch) ==
  /\ Executing("LISTEN")
  /\ conn' = Listen(conn, ch)
  /\ Logs(<< [kind |-> "listen", on |-> {ch}] >>)
  /\ UNCHANGED << cmd, client >>

UnlistenStatement(chs) ==
  /\ Executing("UNLISTEN")
  /\ conn' = Unlisten(conn, chs)
  /\ Logs(<< [kind |-> "unlisten", on |-> chs] >>)
  /\ UNCHANGED << cmd, client >>

NotifyStatement(e) ==
  /\ Executing("NOTIFY")
  /\ conn' = Notify(conn, e)
  /\ Logs(<< [kind |-> "notify", on |-> {e}] >>)
  /\ UNCHANGED << cmd, client >>

Next ==
  \/ ReceiveCommand
  \/ ReadyForQuery
  \/ StatementFails
  \/ BeginStatement
  \/ CommitStatement
  \/ RollbackStatement
  \/ \E s \in Names :
       SavepointStatement(s) \/ ReleaseStatement(s) \/ RollbackToStatement(s)
  \/ \E ns \in (SUBSET Settings) \ {{}}, v \in Readings, local \in BOOLEAN :
       AssignmentStatement(ns, v, local)
  \/ \E done \in SUBSET Settings, v \in Readings, local \in BOOLEAN :
       \E refused \in {{}} \cup {{n} : n \in Settings \ done} :
         AssignmentFails(done, refused, v, local)
  \/ ResetAllStatement
  \/ DiscardAllStatement
  \/ \E ch \in Channels : ListenStatement(ch)
  \/ \E chs \in {Channels} \cup {{ch} : ch \in Channels} : UnlistenStatement(chs)
  \/ \E e \in Events : NotifyStatement(e)

Spec == Init /\ [][Next]_vars
-----------------------------------------------------------------------------
\* Replaying a log of writes on the state b: the last write wins.
Touching(lg, kinds, x) == {i \in DOMAIN lg : lg[i].kind \in kinds /\ x \in lg[i].on}

ReplayVars(lg, kinds, vars0) ==
  [x \in Settings |-> LET touching == Touching(lg, kinds, x)
                      IN  IF touching = {} THEN vars0[x] ELSE lg[Max(touching)].val]

ReplayListening(lg, listening0) ==
  {ch \in Channels : LET touching == Touching(lg, {"listen", "unlisten"}, ch)
                     IN  IF touching = {} THEN ch \in listening0
                         ELSE lg[Max(touching)].kind = "listen"}

\* Every event notified, once, in the order of its first NOTIFY.
IsReplayOfNotifies(lg, pending) ==
  LET First(e) == Min(Touching(lg, {"notify"}, e))
  IN  /\ ToSet(pending) = {e \in Events : Touching(lg, {"notify"}, e) # {}}
      /\ \A i, j \in DOMAIN pending : i < j => First(pending[i]) < First(pending[j])

IsReplay(lg, b, scope) ==
  /\ scope.session_vars = ReplayVars(lg, {"set", "local"}, b.session_vars)
  /\ scope.committed_vars = ReplayVars(lg, {"set"}, b.committed_vars)
  /\ scope.listening = ReplayListening(lg, b.listening)
  /\ IsReplayOfNotifies(lg, scope.pending_notifies)
-----------------------------------------------------------------------------
\* The state is well formed: the record of SessionState, and a history of the
\* writes and marks of an open transaction.
TypeOK ==
  /\ conn \in Connection
  /\ cmd \in {"ready", "running", "skipping"}
  /\ client \in Vars
  /\ base \in Scope
  /\ log \in Seq(Writes)
  /\ marks \in Seq(Nat)
  /\ undone \in BOOLEAN

\* Between transactions nothing is left of one: no frame, no savepoint, no
\* pending notification, no SET LOCAL value, and every subscription is live.
\* Every way out of a transaction has to clear all of it, or the next one
\* starts from state it never wrote.
Settled == conn.tx = "I" => IsSettled(conn)

\* Whatever savepoints came and went inside it, an open transaction keeps the
\* frame BEGIN took, and that frame holds the state before BEGIN: ROLLBACK,
\* which restores frame 0, can always go back to it.
BaseFrame ==
  IF conn.tx = "I" THEN base = conn.now
  ELSE conn.scopes # << >> /\ conn.scopes[1] = base

\* Snapshots implement the transaction log: with the writes before a ROLLBACK
\* TO undone and all others kept, the connection holds exactly what replaying
\* the remaining writes gives, for both dictionaries of settings, the
\* subscriptions and the notifications COMMIT will send.
ReplayMatches == IsReplay(log, base, conn.now)

\* "ROLLBACK TO keeps it, so the same name can be rolled back to again":
\* right after a ROLLBACK TO, the connection holds what it held when that
\* savepoint was taken, however often it has been rolled back to.
SavepointRestores ==
  [][\A s \in Names : RollbackToStatement(s) => ReplayMatches']_vars

\* A transaction ends all or nothing: what it leaves is either the state
\* before BEGIN or that state with every session-scoped SET and every LISTEN
\* of its log applied, and never a SET LOCAL or a part of the log.
AllOrNothing ==
  [][conn.tx # "I" /\ conn'.tx = "I" =>
       \/ conn'.now = base
       \/ /\ conn'.now.session_vars = ReplayVars(log, {"set"}, base.session_vars)
          /\ conn'.now.committed_vars = conn'.now.session_vars
          /\ conn'.now.listening = ReplayListening(log, base.listening)]_vars

\* COMMIT fans out each notification of the transaction that was not rolled
\* back, once, in order, and no other.
CommitSendsTheLog ==
  [][CommitStatement /\ conn.tx # "I" =>
       IsReplayOfNotifies(log, CommitFanout(conn))]_vars

\* What the client was told last about a reported setting, or is about to be
\* told before ReadyForQuery, is the value SHOW reads: no way of changing a
\* setting (SET, SET LOCAL, RESET, a refusal, COMMIT, ROLLBACK, ROLLBACK TO,
\* DISCARD ALL) leaves the client's ParameterStatus cache stale.
ClientInSync == IsSynced(conn, client)

\* The inductive invariant of TransactionsProofs: the three invariants above,
\* a settled state before BEGIN, and a mark of the log for every savepoint of
\* the connection's stack, none beyond the log's end and none before the mark
\* of an outer savepoint.
BaseSettled ==
  /\ base.pending_notifies = << >>
  /\ base.session_vars = base.committed_vars
MarksAgree ==
  /\ Len(marks) = Len(conn.savepoints)
  /\ \A i \in 1..Len(marks) : marks[i] <= Len(log)
  /\ \A i, j \in 1..Len(marks) : i <= j => marks[i] <= marks[j]
Inv == TypeOK /\ Settled /\ BaseFrame /\ ClientInSync /\ BaseSettled /\ MarksAgree
=============================================================================
