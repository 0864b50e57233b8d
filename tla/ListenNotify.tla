---------------------------- MODULE ListenNotify ----------------------------
(***************************************************************************)
(* LISTEN/NOTIFY across the connections of one server: the registry of     *)
(* PgServer, the fan-out of notifications, and where in each connection's  *)
(* stream they land.  The statements are those of TransactionControl; the  *)
(* event loop runs one statement's effect at a time, and connections       *)
(* interleave between statements, because preparing and describing one may *)
(* await the session.                                                      *)
(***************************************************************************)
EXTENDS TransactionControl, EventSelection

CONSTANTS
  Conns,           \* connections
  MaxEvents,       \* bound: events that are fanned out or pushed
  MaxStatements,   \* bound: statements answered within one command
  MaxSavepoints    \* bound: savepoints of one transaction

ASSUME BoundsAssumption ==
  MaxEvents \in Nat /\ MaxStatements \in Nat /\ MaxSavepoints \in Nat

VARIABLES
  conn,        \* the connection records
  cmd,         \* "new", "ready", "running", "skipping" or "gone"
  atRfq,       \* Connection._at_ready_for_query
  queued,      \* Connection._pending_async
  listeners,   \* PgServer._listeners
  wire,        \* what the server wrote since the client's last command
  written,     \* history: the events written to the stream
  published,   \* history: how many events were fanned out
  pushed       \* history: how many were pushed to one connection

history == << published, pushed >>
vars == << conn, cmd, atRfq, queued, listeners, wire, written, history >>

\* The messages of a stream that matter here: part of a command's response,
\* ReadyForQuery, or a NotificationResponse.
Response == << "response" >>
Ready == << "ready" >>
Messages == {Response, Ready} \cup Events

Init ==
  /\ conn = [c \in Conns |-> NewConnection]
  /\ cmd = [c \in Conns |-> "new"]
  /\ atRfq = [c \in Conns |-> FALSE]
  /\ queued = [c \in Conns |-> << >>]
  /\ listeners = [ch \in Channels |-> {}]
  /\ wire = [c \in Conns |-> << >>]
  /\ written = [c \in Conns |-> << >>]
  /\ published = 0
  /\ pushed = 0
-----------------------------------------------------------------------------
\* add_listener and remove_listener, for the channels that sync_listeners()
\* finds to differ.
Registry(reg, c, before, after) ==
  [ch \in Channels |->
     IF ch \in before \ after THEN reg[ch] \ {c}
     ELSE IF ch \in after \ before THEN reg[ch] \cup {c}
     ELSE reg[ch]]

\* PgServer.notify() for events in order: what each connection gets of them.
ForPending(c, events) == OnChannels(events, conn[c].now.listening)
ForConn(c, events) ==
  OnChannels(events, {ch \in Channels : c \in listeners[ch]})

\* _deliver_async(): an event is written at once by a connection standing at
\* ReadyForQuery and queued by any other.  to[c] is what c gets; own[c] is
\* what c's command writes after it.
DeliverNewestFirst(to, own) ==
  /\ wire' = [c \in Conns |-> wire[c] \o own[c]]
  /\ queued' = [c \in Conns |-> to[c] \o queued[c]]
  /\ UNCHANGED written
Deliver(to, own) ==
  /\ wire' = [c \in Conns |->
                IF atRfq[c] THEN wire[c] \o to[c] \o own[c] ELSE wire[c] \o own[c]]
  /\ written' = [c \in Conns |-> IF atRfq[c] THEN written[c] \o to[c] ELSE written[c]]
  /\ queued' = [c \in Conns |-> IF atRfq[c] THEN queued[c] ELSE queued[c] \o to[c]]

Fanout(events) == [c \in Conns |-> ForConn(c, events)]
Silent == [c \in Conns |-> << >>]
Count(events) ==
  /\ published + pushed + Len(events) <= MaxEvents
  /\ published' = published + Len(events)
  /\ UNCHANGED pushed

\* Connection c executes a statement: it raises events to the registry as it
\* stands, its record becomes k, the registry follows its subscriptions, and
\* its CommandComplete goes to its own stream.
Executes(c, statement, k, events) ==
  /\ cmd[c] = "running"
  /\ Runs(conn[c], statement)
  /\ Len(SelectSeq(wire[c], LAMBDA m : m = Response)) < MaxStatements
  /\ Count(events)
  /\ Deliver(Fanout(events), [Silent EXCEPT ![c] = << Response >>])
  /\ conn' = [conn EXCEPT ![c] = k]
  /\ listeners' = Registry(listeners, c, conn[c].live, k.live)
  /\ UNCHANGED << cmd, atRfq >>
-----------------------------------------------------------------------------
\* Connection.run(): the startup burst ended with ReadyForQuery.
Connect(c) ==
  /\ cmd[c] = "new"
  /\ cmd' = [cmd EXCEPT ![c] = "ready"]
  /\ atRfq' = [atRfq EXCEPT ![c] = TRUE]
  /\ UNCHANGED << conn, queued, listeners, wire, written, history >>

\* _command_loop: a command arrives and closes the gap events may go into.
ReceiveStillAtRfq(c) ==
  /\ cmd[c] = "ready"
  /\ cmd' = [cmd EXCEPT ![c] = "running"]
  /\ wire' = [wire EXCEPT ![c] = << >>]
  /\ UNCHANGED << conn, atRfq, queued, listeners, written, history >>
ReceiveCommand(c) ==
  /\ cmd[c] = "ready"
  /\ cmd' = [cmd EXCEPT ![c] = "running"]
  /\ atRfq' = [atRfq EXCEPT ![c] = FALSE]
  /\ wire' = [wire EXCEPT ![c] = << >>]
  /\ UNCHANGED << conn, queued, listeners, written, history >>

\* _command_loop: the end of a command, queued events before ReadyForQuery.
ReadyWithoutFlush(c) ==
  /\ cmd[c] \in {"running", "skipping"}
  /\ cmd' = [cmd EXCEPT ![c] = "ready"]
  /\ atRfq' = [atRfq EXCEPT ![c] = TRUE]
  /\ wire' = [wire EXCEPT ![c] = Append(@, Ready)]
  /\ UNCHANGED << conn, queued, listeners, written, history >>
ReadyForQuery(c) ==
  /\ cmd[c] \in {"running", "skipping"}
  /\ cmd' = [cmd EXCEPT ![c] = "ready"]
  /\ atRfq' = [atRfq EXCEPT ![c] = TRUE]
  /\ wire' = [wire EXCEPT ![c] = @ \o queued[c] \o << Ready >>]
  /\ written' = [written EXCEPT ![c] = @ \o queued[c]]
  /\ queued' = [queued EXCEPT ![c] = << >>]
  /\ UNCHANGED << conn, listeners, history >>

\* A statement raises or is cancelled; an ErrorResponse is written.
StatementFails(c) ==
  /\ cmd[c] = "running"
  /\ cmd' = [cmd EXCEPT ![c] = "skipping"]
  /\ conn' = [conn EXCEPT ![c] = Fail(@)]
  /\ wire' = [wire EXCEPT ![c] = Append(@, Response)]
  /\ UNCHANGED << atRfq, queued, listeners, written, history >>

\* Connection.run(): Terminate, a lost connection or a framing error; the
\* finally clause leaves the registry.  _drop_listeners() reads the live
\* channels, since the transaction may hold subscriptions that never were.
CloseByListening(c) ==
  /\ cmd[c] \in {"ready", "running", "skipping"}
  /\ cmd' = [cmd EXCEPT ![c] = "gone"]
  /\ conn' = [conn EXCEPT ![c].live = {}]
  /\ listeners' = Registry(listeners, c, conn[c].now.listening, {})
  /\ atRfq' = [atRfq EXCEPT ![c] = FALSE]
  /\ queued' = [queued EXCEPT ![c] = << >>]
  /\ written' = [written EXCEPT ![c] = << >>]
  /\ wire' = [wire EXCEPT ![c] = << >>]
  /\ UNCHANGED history
Close(c) ==
  /\ cmd[c] \in {"ready", "running", "skipping"}
  /\ cmd' = [cmd EXCEPT ![c] = "gone"]
  /\ conn' = [conn EXCEPT ![c].live = {}]
  /\ listeners' = Registry(listeners, c, conn[c].live, {})
  /\ atRfq' = [atRfq EXCEPT ![c] = FALSE]
  /\ queued' = [queued EXCEPT ![c] = << >>]
  /\ written' = [written EXCEPT ![c] = << >>]
  /\ wire' = [wire EXCEPT ![c] = << >>]
  /\ UNCHANGED history
-----------------------------------------------------------------------------
BeginStatement(c) == Executes(c, "BEGIN", Begin(conn[c]), << >>)

CommitStatement(c) == Executes(c, "COMMIT", Commit(conn[c]), CommitFanout(conn[c]))

RollbackStatement(c) == Executes(c, "ROLLBACK", Rollback(conn[c]), << >>)

SavepointStatement(c, s) ==
  /\ conn[c].tx # "I"
  /\ Len(conn[c].savepoints) < MaxSavepoints
  /\ Executes(c, "SAVEPOINT", Savepoint(conn[c], s), << >>)

ReleaseStatement(c, s) ==
  /\ conn[c].tx # "I"
  /\ HasSavepoint(conn[c], s)
  /\ Executes(c, "RELEASE", Release(conn[c], s), << >>)

RollbackToStatement(c, s) ==
  /\ conn[c].tx # "I"
  /\ HasSavepoint(conn[c], s)
  /\ Executes(c, "ROLLBACK TO", RollbackTo(conn[c], s), << >>)

DiscardAllStatement(c) ==
  /\ conn[c].tx = "I"
  /\ Executes(c, "DISCARD ALL", DiscardAll(conn[c]), << >>)

ListenStatement(c, ch) == Executes(c, "LISTEN", Listen(conn[c], ch), << >>)

UnlistenStatement(c, chs) == Executes(c, "UNLISTEN", Unlisten(conn[c], chs), << >>)

NotifyStatement(c, e) ==
  Executes(c, "NOTIFY", Notify(conn[c], e), NotifyFanout(conn[c], e))

\* PgServer.notify() called by the program that embeds the server.
ServerNotify(e) ==
  /\ Count(<< e >>)
  /\ Deliver(Fanout(<< e >>), Silent)
  /\ UNCHANGED << conn, cmd, atRfq, listeners >>

\* Connection.notify(), or notice() from a task of the session: one client,
\* whatever it listens to.
PushToOne(c, e) ==
  /\ cmd[c] \in {"ready", "running", "skipping"}
  /\ published + pushed < MaxEvents
  /\ pushed' = pushed + 1
  /\ Deliver([Silent EXCEPT ![c] = << e >>], Silent)
  /\ UNCHANGED << conn, cmd, atRfq, listeners, published >>

Statement(c) ==
  \/ BeginStatement(c)
  \/ CommitStatement(c)
  \/ RollbackStatement(c)
  \/ \E s \in Names :
       SavepointStatement(c, s) \/ ReleaseStatement(c, s) \/ RollbackToStatement(c, s)
  \/ DiscardAllStatement(c)
  \/ \E ch \in Channels : ListenStatement(c, ch)
  \/ \E chs \in {Channels} \cup {{ch} : ch \in Channels} : UnlistenStatement(c, chs)
  \/ \E e \in Events : NotifyStatement(c, e)

Next ==
  \/ \E c \in Conns :
       \/ Connect(c)
       \/ ReceiveCommand(c)
       \/ ReadyForQuery(c)
       \/ StatementFails(c)
       \/ Close(c)
       \/ Statement(c)
       \/ \E e \in Events : PushToOne(c, e)
  \/ \E e \in Events : ServerNotify(e)

Spec == Init /\ [][Next]_vars

\* A command that runs is answered: a session's query() returns, and a client
\* that began an extended batch sends its Sync.
FairSpec == Spec /\ \A c \in Conns : WF_vars(ReadyForQuery(c))
-----------------------------------------------------------------------------
TypeOK ==
  /\ conn \in [Conns -> Connection]
  /\ cmd \in [Conns -> {"new", "ready", "running", "skipping", "gone"}]
  /\ atRfq \in [Conns -> BOOLEAN]
  /\ queued \in [Conns -> Seq(Events)]
  /\ listeners \in [Channels -> SUBSET Conns]
  /\ wire \in [Conns -> Seq(Messages)]
  /\ written \in [Conns -> Seq(Events)]
  /\ published \in Nat
  /\ pushed \in Nat

\* The server's registry and the connections' own idea of what they are
\* registered for agree, although one is updated by differences of the other,
\* and a connection that is gone is in neither: no fan-out writes to a dead
\* stream, and no subscription is lost or kept by mistake.
RegistryAgrees ==
  \A c \in Conns, ch \in Channels :
    /\ c \in listeners[ch] <=> ch \in conn[c].live
    /\ c \in listeners[ch] => cmd[c] \in {"ready", "running", "skipping"}

\* A notification goes out at exactly one kind of place, between the
\* ReadyForQuery that ended a command and the next command, or just before
\* that ReadyForQuery: never followed by more of the command's response.
NeverInsideAResponse ==
  \A c \in Conns : \A i, j \in DOMAIN wire[c] :
    i < j /\ wire[c][i] \in Events => wire[c][j] # Response

\* Each connection's stream carries the inbox of the abstract specification:
\* every event published to it, once, in order, some written, the rest queued.
Abstract == INSTANCE PubSub WITH
  Subscribers <- Conns,
  MaxBatch <- MaxEvents,
  subs <- [c \in Conns |-> conn[c].live],
  inbox <- [c \in Conns |-> written[c] \o queued[c]],
  count <- published

ImplementsPubSub == Abstract!Spec

\* What is queued for a connection is eventually written, or it has gone.
QueuedIsWritten ==
  \A c \in Conns : queued[c] # << >> ~> queued[c] = << >>
=============================================================================
