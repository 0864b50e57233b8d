---------------------------- MODULE SessionState ----------------------------
(***************************************************************************)
(* The transactional part of pg_mimic/state.py, as operators on a          *)
(* connection record k.  No variables: Transactions and ListenNotify use   *)
(* these operators for the connections they keep.                          *)
(*                                                                         *)
(*   k.tx          Connection.tx_status: "I" idle, "T" open, "E" failed    *)
(*   k.now         what rolls back with a fork point (the fields of        *)
(*                 _Scope), as it stands now                               *)
(*   k.scopes      SessionState._scopes, the open fork points' snapshots   *)
(*   k.savepoints  SessionState.savepoints, innermost last                 *)
(*   k.known       SessionState.known_settings                             *)
(*   k.live        Connection._registered_channels                         *)
(*   k.owed        Connection._pending_parameter_status                    *)
(*                                                                         *)
(* A dictionary of settings is a total function that holds Unset where the *)
(* dictionary has no key; Unset reads as the setting's default.  A setting *)
(* value is the parsed value the dictionaries store.                       *)
(***************************************************************************)
EXTENDS Naturals, Sequences, SequencesExt

CONSTANTS
  Settings,    \* names of configuration parameters
  Reported,    \* those in _REPORTED_SETTINGS, which owe a ParameterStatus
  Values,      \* what a setting may be set to
  Unset,       \* no override: the setting has its default
  Nothing,     \* no ParameterStatus is owed for the setting
  Channels,    \* LISTEN/NOTIFY channels
  Payloads,    \* NOTIFY payloads
  Names        \* savepoint names

ASSUME ConstantsAssumption ==
  /\ Reported \subseteq Settings
  /\ Unset \notin Values
  /\ Nothing \notin Values \cup {Unset}

TxStatus == {"I", "T", "E"}
Readings == Values \cup {Unset}
Vars == [Settings -> Readings]
Events == Channels \X Payloads

\* One fork point's snapshot of everything that rolls back with it.
Scope == [session_vars : Vars, committed_vars : Vars,
          listening : SUBSET Channels, pending_notifies : Seq(Events)]

Connection == [tx : TxStatus, now : Scope, scopes : Seq(Scope),
               savepoints : Seq(Names), known : SUBSET Settings,
               live : SUBSET Channels, owed : [Settings -> Readings \cup {Nothing}]]

NoVars == [n \in Settings |-> Unset]
EmptyScope == [session_vars |-> NoVars, committed_vars |-> NoVars,
               listening |-> {}, pending_notifies |-> << >>]
NothingOwed == [n \in Settings |-> Nothing]

\* A connection as its constructor leaves it.
NewConnection == [tx |-> "I", now |-> EmptyScope, scopes |-> << >>,
                  savepoints |-> << >>, known |-> {}, live |-> {},
                  owed |-> NothingOwed]
-----------------------------------------------------------------------------
\* SessionState.reset(): DISCARD ALL forgets all but the known names.
Reset(k) ==
  [k EXCEPT !.now = EmptyScope, !.scopes = << >>, !.savepoints = << >>]

\* open_scope(): snapshot, for BEGIN and for each SAVEPOINT.
OpenScopeWithoutListening(k) ==
  LET frame == [session_vars |-> k.now.session_vars,
                committed_vars |-> k.now.committed_vars,
                pending_notifies |-> k.now.pending_notifies]
  IN  [k EXCEPT !.scopes = Append(@, frame)]
OpenScope(k) == [k EXCEPT !.scopes = Append(@, k.now)]

\* del self._scopes[depth:]
FramesBelow(scopes, depth) ==
  IF depth >= Len(scopes) THEN scopes ELSE SubSeq(scopes, 1, depth)

\* discard_scopes(depth): RELEASE keeps the values it found.
DiscardScopes(k, depth) == [k EXCEPT !.scopes = FramesBelow(@, depth)]

\* restore_scope(depth): put back what frame `depth` (0-based) holds, and drop
\* that frame and the deeper ones; nothing happens when there is no such frame.
RestoreInnermost(k, depth) ==
  IF depth >= Len(k.scopes) THEN k
  ELSE [k EXCEPT !.now = k.scopes[Len(k.scopes)],
                 !.scopes = FramesBelow(@, depth)]
RestoreScope(k, depth) ==
  IF depth >= Len(k.scopes) THEN k
  ELSE [k EXCEPT !.now = k.scopes[depth + 1],
                 !.scopes = FramesBelow(@, depth)]

\* commit_transaction(): the session-scoped writes, and no local ones.
CommitKeepingLocals(k) ==
  [k EXCEPT !.now.committed_vars = k.now.session_vars, !.scopes = << >>]
CommitTransaction(k) ==
  [k EXCEPT !.now.session_vars = k.now.committed_vars, !.scopes = << >>]

\* end_transaction(): back to how things stood before BEGIN.
EndTransaction(k) == [RestoreScope(k, 0) EXCEPT !.scopes = << >>]

\* take_pending_notifies(): hand over what a COMMIT makes real, and forget it.
TakePendingNotifies(k) == [k EXCEPT !.now.pending_notifies = << >>]
=============================================================================
