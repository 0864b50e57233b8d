------------------------- MODULE TransactionControl -------------------------
(***************************************************************************)
(* What executing one statement of pg_mimic/middleware.py does to the      *)
(* connection record k of SessionState: the on_execute callbacks of        *)
(* transaction_control, set_show, session_reset and listen_notify, and the *)
(* methods of Connection they call.  A fan-out to other connections is not *)
(* here: CommitFanout says what a COMMIT hands to PgServer.notify.         *)
(***************************************************************************)
EXTENDS SessionState

\* _report_setting() for every name in ns: last write wins in the dictionary.
Report(k, ns) ==
  [k EXCEPT !.owed = [n \in Settings |->
     IF n \in ns \cap Reported THEN k.now.session_vars[n] ELSE k.owed[n]]]

\* What the client's cache of reported settings becomes once the owed reports
\* are flushed.
Believed(k, client) ==
  [n \in Settings |-> IF k.owed[n] = Nothing THEN client[n] ELSE k.owed[n]]

\* The settings whose visible value two connection states disagree on.
Moved(k0, k1) ==
  {n \in Settings : k0.now.session_vars[n] # k1.now.session_vars[n]}

\* Connection.sync_listeners(): make the pending subscriptions live.
SyncListeners(k) == [k EXCEPT !.live = k.now.listening]

\* A statement that raised, or was cancelled, fails an open transaction.
Fail(k) == [k EXCEPT !.tx = IF @ = "I" THEN "I" ELSE "E"]

\* allowed_in_failed_transaction(): what may still run in status E.
Runs(k, statement) ==
  k.tx = "E" => statement \in {"COMMIT", "ROLLBACK", "ROLLBACK TO"}
-----------------------------------------------------------------------------
\* _transaction_statement for BEGIN: redundant inside an open block.
Begin(k) ==
  IF k.tx = "T" THEN k
  ELSE [OpenScope(k) EXCEPT !.tx = "T", !.savepoints = << >>]

\* _end_transaction(): settle, report what moved, drop what was fanned out,
\* then make the subscriptions live.
SettleUnreported(k, settled) == SyncListeners(settled)
Settle(k, settled) == SyncListeners(Report(settled, Moved(k, settled)))

\* What a COMMIT hands to PgServer.notify, in order, before it settles the rest.
CommitFanout(k) == IF k.tx = "I" THEN << >> ELSE k.now.pending_notifies

CommitLeavingSavepoints(k) ==
  LET idle == [k EXCEPT !.tx = "I"]
  IN  IF k.tx = "I" THEN idle
      ELSE Settle(idle, TakePendingNotifies(CommitTransaction(idle)))
Commit(k) ==
  LET idle == [k EXCEPT !.tx = "I", !.savepoints = << >>]
  IN  IF k.tx = "I" THEN idle
      ELSE Settle(idle, TakePendingNotifies(CommitTransaction(idle)))

Rollback(k) ==
  LET idle == [k EXCEPT !.tx = "I", !.savepoints = << >>]
  IN  IF k.tx = "I" THEN idle ELSE Settle(idle, EndTransaction(idle))
-----------------------------------------------------------------------------
\* The innermost savepoint of that name; a name may be repeated.
HasSavepoint(k, s) == Contains(k.savepoints, s)
Innermost(k, s) == Max({i \in DOMAIN k.savepoints : k.savepoints[i] = s})

Savepoint(k, s) == OpenScope([k EXCEPT !.savepoints = Append(@, s)])

\* RELEASE drops the named savepoint and all inside it.  Frame 0 is the
\* transaction, so the i-th savepoint (1-based) has the frame at depth i.
ReleaseOneMoreFrame(k, s) ==
  LET i == Innermost(k, s)
  IN  DiscardScopes([k EXCEPT !.savepoints = SubSeq(@, 1, i - 1)], i - 1)
Release(k, s) ==
  LET i == Innermost(k, s)
  IN  DiscardScopes([k EXCEPT !.savepoints = SubSeq(@, 1, i - 1)], i)

\* ROLLBACK TO keeps the named savepoint and ends the failed state.
RollbackTo(k, s) ==
  LET i == Innermost(k, s)
      restored == RestoreScope([k EXCEPT !.savepoints = SubSeq(@, 1, i)], i)
  IN  [Settle(k, restored) EXCEPT !.tx = "T"]
-----------------------------------------------------------------------------
\* _record_setting for every name in ns: SET LOCAL writes only session_vars,
\* everything else both dictionaries; v = Unset is RESET.
Record(k, ns, v, local) ==
  LET Write(vars) == [n \in Settings |-> IF n \in ns THEN v ELSE vars[n]]
      written == [k.now EXCEPT !.session_vars = Write(@),
                               !.committed_vars = IF local THEN @ ELSE Write(@)]
  IN  [k EXCEPT !.now = written, !.known = @ \cup ns]

\* _apply_set_config for the names in done, in whatever order, followed by one
\* for the names in refused, which the session refuses: those are recorded,
\* reported, put back and reported again.
Assign(k, done, refused, v, local) ==
  LET recorded == Report(Record(k, done, v, local), done)
  IN  Report(recorded, refused)

\* The names RESET ALL walks: list(connection.state.session_vars).
Overridden(k) == {n \in Settings : k.now.session_vars[n] # Unset}

\* RESET ALL, and DISCARD ALL, which does it first and then the rest of reset().
ResetAll(k) == Assign(k, Overridden(k), {}, Unset, FALSE)
DiscardAll(k) == SyncListeners(Reset(ResetAll(k)))
-----------------------------------------------------------------------------
\* LISTEN and UNLISTEN are real at once outside a transaction, and wait for
\* its COMMIT inside one.
SyncedIfIdle(k) == IF k.tx = "I" THEN SyncListeners(k) ELSE k
Subscribe(k, chs) == SyncedIfIdle([k EXCEPT !.now.listening = chs])
Listen(k, ch) == Subscribe(k, k.now.listening \cup {ch})
Unlisten(k, chs) == Subscribe(k, k.now.listening \ chs)

\* notify_listeners() inside a transaction: duplicates collapse.
DeferDuplicate(k, e) == [k EXCEPT !.now.pending_notifies = Append(@, e)]
Defer(k, e) ==
  [k EXCEPT !.now.pending_notifies = IF Contains(@, e) THEN @ ELSE Append(@, e)]

\* notify_listeners(): at once outside a transaction, deferred inside one.
NotifyFanout(k, e) == IF k.tx = "I" THEN << e >> ELSE << >>
Notify(k, e) == IF k.tx = "I" THEN k ELSE Defer(k, e)
-----------------------------------------------------------------------------
\* Nothing of a transaction is left: no frame, no savepoint, no pending
\* notification, no SET LOCAL value, and every subscription is live.
IsSettled(k) ==
  /\ k.scopes = << >>
  /\ k.savepoints = << >>
  /\ k.now.pending_notifies = << >>
  /\ k.now.session_vars = k.now.committed_vars
  /\ k.live = k.now.listening

\* The client's cache, owed reports included, holds what SHOW reads.
IsSynced(k, client) ==
  \A n \in Reported : Believed(k, client)[n] = k.now.session_vars[n]
=============================================================================
