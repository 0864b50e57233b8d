# A TLA+ model of pg_mimic

pg_mimic is an asyncio library that speaks the PostgreSQL wire protocol in front
of Python code: a *session* written by the library's user answers the queries,
and pg_mimic does everything a client expects around them. These modules model
the parts of it that keep state and interleave. `PROJECT.json` lists the
components, runs, mutants, source lines, findings, hazards and theorems.

## The system

One event loop runs everything. Control passes from one task to another only at
an `await`, so the atomic step of every model is what a task does between two
awaits, and the hard questions are about what may happen at an await: another
connection's step, a cancel, a closed transport.

| Component | State | Operations | Interacts with | Correct when |
|---|---|---|---|---|
| `state.py` ConnectionState | settings (current and committed), subscriptions, pending NOTIFYs, stack of scope frames, savepoint names, statements, portals | open, restore, release, commit a scope; reset | called by the middleware and by Connection | a rollback restores what was there, a commit keeps all of it, nothing is left between transactions |
| `middleware.py` statements pg_mimic answers itself | none of its own | BEGIN/COMMIT/ROLLBACK, SAVEPOINT family, SET/RESET/DISCARD, LISTEN/UNLISTEN/NOTIFY, SHOW, PREPARE/DEALLOCATE | ConnectionState, the session's hooks, Connection | every route that changes a reported setting owes the client a report; subscriptions go live at COMMIT |
| `server.py` registry and fan-out | channel -> connections | add/remove listener, notify | every connection's stream | each event reaches each subscriber once, in order, at a legal place of its stream |
| `connection.py` command loop | transaction status, skip flag, current task, statements, portals | read, dispatch, handlers, copy, cancel | client, canceller, session, stream | client and server agree on what each reply answers, and a waiting client gets ReadyForQuery |
| `server.py`/`connection.py` lifecycle | tasks, writers, connections, closing; the session's `_connection` | accept, startup, claim, authenticate, run, teardown, close | asyncio, the session factory, the embedding program | no path leaks a transport, a registration or a session; close() completes |
| `session.py` portals | row source, rows returned | execute with a limit, run an effect once | the session's query() | fetching in pieces is exact and runs the query once; effects happen at Execute |
| `stream.py` framing | none beyond the socket | read a message or startup packet | transport | framing is never lost, and no read waits for bytes nobody promised |
| `auth.py` plugins | salt, SCRAM exchange | trust, cleartext, MD5, SCRAM-SHA-256 | stream, identity provider, scramp | only a client that knows the password is admitted |
| `copy.py` statement and codecs | options, decoder (held bytes, pending text) | parse, encode, feed, finish | command loop, the session's hooks | how the data is cut does not matter, what is written reads back, no option is dropped |
| `settings_values.py` | none | parse, render | middleware | what SHOW reports can be SET and means the same |
| `arrays.py`, `types.py` | none | encode, decode | Connection | a value survives the wire in both formats |
| `declared.py`, `catalog.py`, `typeinfo.py` | none | declare, build the catalogues, answer type introspection | clients' joins | every declared table and key is found, under one name |
| `tables.py` TableSession | declared tables | refuse, plan, execute, sort, window | sqlglot's executor | an answer is one Postgres could have given |
| `testing.py`, PgServer.run(), `async with` | event, port, startup error | start, stop | two threads, signals, the lifecycle | start() tells the truth and every wait ends |
| `describe.py`, `analysis.py`, `catalog_rewrite.py`, `messages.py`, `errors.py` | none | rewriting and typing of SQL trees, building of single messages | sqlglot | not modelled, see below |

The behaviours that are hard here: a cancel request that lands between two
awaits of one operation; a client that pipelines past an error; notifications
from one connection into the middle of another's response; long legal sequences
of savepoints, SET LOCAL and rollbacks over copied snapshots; shutdown while
handlers are at every possible await; a session object shared by two
connections; settings that move between the Parse and the Execute of a statement
that reads them; copy data cut in the middle of a character; two threads handing
a server over. The hazards of `PROJECT.json` list them at their lines.

## The modules

```
SessionState  <-  TransactionControl  <-  Transactions  <-  MCTransactions
                          ^                     ^
                          |              TransactionsProofs  <-  ReplayProofs
SessionProofs (with Counting) is about TransactionControl; TransactionsProofs
and ListenNotifyProofs cite it
                          |
                    ListenNotify  <-  MCListenNotify, ListenNotifyProofs
                    (implements PubSub; both with EventSelection)
CommandLoop  <-  MCCommandLoop, CommandLoopProofs (with Counting)
ServerLifecycle  <-  ServerThread (with Handshake)  <-  MCServerThread, ServerProofs
SettingValues  <-  PreparedStatements  <-  MCPreparedStatements, PreparedStatementsProofs
     ^
     +--  MCCodecs (with ArrayText, NumericWire, TableAnswers, Catalogue)
               ^
CopyStatement  <-  CopyCodec  <-  CopyExchange  <-  MCCopy
```

**SessionState** is ConnectionState as a record `conn` with one operator per
method. `conn.now` is the transactional part (both dictionaries of settings,
`listening`, `pending_notifies`), `conn.scopes` the list of frames,
`conn.savepoints` the names; a setting a dictionary does not hold reads `Unset`.
`conn.live` is `_registered_channels`, `conn.owed` the ParameterStatus reports
that wait for ReadyForQuery.

**TransactionControl** has one operator per statement the middleware answers
(`Begin`, `Commit`, `Rollback`, `Savepoint`, `Release`, `RollbackTo`, `Assign`,
`ResetAll`, `DiscardAll`, `Listen`, `Unlisten`, `Notify`), each the whole of the
Python function with the reports and registrations at its end.

**Transactions** runs these statements on one connection inside the command
loop: commands of several statements, a statement that fails, a cancel, the
skipping that follows, ReadyForQuery. It keeps as history a *log* of the open
transaction's writes that ROLLBACK TO truncates, which is what a transaction
means; the code keeps snapshots, and `ReplayMatches` says the two agree.

**ListenNotify** runs the same operators on several connections with the
server's registry and each connection's stream. **PubSub** is what LISTEN/NOTIFY
promises: subscribers with inboxes, events published by a subscriber or by the
server itself (`Announce`). The refinement maps a connection's inbox to what was
written to its stream followed by what is queued. **EventSelection** is what both
select of a batch of events for a set of channels.

**CommandLoop** is one connection's loop with its client. The server side has
the task of the current message and the point where it is suspended (created,
in the session's code, reading a copy's input, between the header and the body
of a copy message, in the session's code after the end of a copy's data, writing
a copy's output); `CancelRequest` may throw at any of them. A copy is completed by
`FinishCopy`, a step after the one that reads CopyDone: `copy_in` may still
await or raise. The client pipelines, keeps a queue of what it waits for, and checks each
reply against it the way libpq does: `InStep` is what it takes to use the
connection.

**ServerLifecycle** has the phase of each handler (the await it is suspended
at), the session object its factory returned, the claim on it, PgServer's sets,
and `close()`, whose cancels are pending until each handler is resumed.

**Handshake** is what is said before the command loop: startup packets and SSL or
GSS requests, CancelRequest, and the exchange of the four plugins. Each message
is a header with a claimed length and then the payload that length makes the
server wait for. `expected` is the password the identity provider knows of the
user, or `NoPassword`, which SCRAM takes for the empty one. Hashes are symbolic terms of what was hashed.

**ServerThread** composes ServerLifecycle and Handshake with the code a server is
run from: a thread with `start()` and `stop()` (`testing.py`), `PgServer.run()`
with its signals, an `async with` block. The handler's phases are those of
ServerLifecycle; a message of the handshake moves them by `Follows`. `waits` is
whether `wait_closed()` waits for connections, which depends on the Python.

**PreparedStatements** has one connection's registry of statements, which Parse,
PREPARE and DEALLOCATE share, its portals, its settings and what the session was
told of them. A statement is what the middleware chain makes of a text at Parse:
a list of effects, rows read when the portal opens, or an error. PREPARE a AS
PREPARE b AS ... is one text with the list of its names: what it registers is the
PREPARE of the rest (`Stored`). A setting is recorded and then the session is told
(`Record`, `Told`): it may refuse, which undoes the record, or the task may be
cancelled there, which undoes nothing (`Cut`); `torn` remembers the settings left
that way.

**CopyStatement**, **CopyCodec** and **CopyExchange** are a COPY from the tokens of
its text (endpoint, target, every option of both syntaxes, the refused ones
included) over the encoder
and the chunked decoder to its rows. A COPY TO is copied back in with its own
options.

**SettingValues**, **ArrayText**, **NumericWire**, **TableAnswers** and
**Catalogue** are pure algorithms as operators, each with what it promises stated
over any input: `CanBeSetAgain`, `SurvivesTheWire` and `ReadsItsOwnWriting`,
`SameInBinary`, `AnsweredAsPostgres`, `DeclaredIsFound` and `ElementsComeFirst`.
A real is a number of tenths, and `General` is what `%g` makes of it. Where the
code falls short of a promise, the property says for which values exactly (`Carries`,
`HoldsAnEmptyList`, `IsShort`, `IsLong`), as an equivalence: the run shows that
these fail and that no other does.
`AnsweredAsPostgres` compares with the order in which Postgres applies DISTINCT,
ORDER BY, OFFSET and LIMIT, stated independently of the plan; sqlglot's executor
is external and modelled by what `tables.py` relies on. MCCodecs makes each input
an initial state.

Elsewhere a data value is a model value: setting names and values, channels,
payloads, statement names. A row of CommandLoop is a count. SQL text never
appears; a statement is one of the kinds whose handling differs, or its tokens
where the parser is pg_mimic's own.

## The runs

Passing runs:

| Run | Question | Bounds |
|---|---|---|
| `tx_paired` | do snapshots implement the log, does a transaction end all or nothing, is the client's cache in sync | two settings, one of them reported, one value besides Unset and DEFAULT, one channel, two payloads, two savepoints deep, two writes |
| `notify_delivery` | where notifications land, that each gets where it must, once, and that the registry agrees with every connection | two connections, two events, two statements in a command, no savepoints |
| `notify_order` | the order of delivery, savepoints, and that what is queued is written | one connection, two payloads, three events, one savepoint |
| `loop_pipeline` | skipping has no effects over pipelined extended batches, fetching in pieces is exact, and a Sync that was sent before the client knew of a copy leaves it alone, so that no ReadyForQuery overtakes its end | five messages, one cancel, two rows |
| `loop_batches` | client and server stay in step over batches with copies, by Query and by Execute, whose messages arrive in two pieces, errors and cancels before and after CopyDone, and a waiting client gets ReadyForQuery | four messages, one cancel |
| `life` | nothing leaks, claims on sessions are released by their holder only, close() reaches everything and completes, a lost peer ends its handler | three connections, two sessions |
| `statements` | are reads of the moment they run, do effects happen at Execute only, does the session know what the connection believes | one prepared name in two spellings, one portal, four settings (catalogued and settable, read-only, custom, unknown), of which a session may refuse, or be cancelled while it is told of, the custom one and a DISCARD ALL; fetches of all rows and of one |
| `embedded` | does start() tell the truth, who is admitted, does any length stall a read, does every wait end | one connection, two passwords (one empty), no password, all four plugins, lengths below, at and beyond both headers and both limits, which are 16 and 17 |
| `codecs` | do the conversions keep their promises | COPY data of three characters in text and four in CSV, cut at every byte, tables of two fields of up to two characters; all option lists of two; arrays two deep and two wide; numerics of five digits in groups of two, NaN and the infinities; reals of which three digits are shown; tables of three rows, queries with two order keys; names cut at six symbols, two tables of two unique keys; units of a few sizes |

`InStep` of long pipelines without copies is left to the proof of `StaysInStep`, as
`loop_pipeline` runs with a client that `InStep` does not hold for (`SyncEarly`,
below). Why the bounds suffice. Settings, channels, payloads and connections are treated
alike, so two of each show every interference between a pair; a frame is
copied whole, so two savepoints under the transaction's frame show an inner, a
middle and an outer one. Five messages are a Parse/Bind/Execute, a further
fetch or a copy's data, and the Sync; the end of a copy is not counted. Three
connections over two sessions give a session held, a second connection refused
and a third that raced it. One connection is enough for `embedded`: what close()
does to several is the question of `life`. The lengths, limits, group sizes, digits
kept and unit sizes of `embedded` and `codecs` are small stand-ins for the code's
constants, which the modules take as CONSTANTS; what matters is an input on
either side of each, and these have one. Four characters of CSV are the shortest
text with a quoted quote, three of text an escape and its line end. `tx_paired`
runs with `PairedRollback`: the client RELEASEs a savepoint it rolled back to before
using its name again, which is what psycopg's nested `transaction()` sends. Without it the first finding below
breaks `ReplayMatches`; the invariants that are proved hold either way.

Three more parameters separate what holds from what does not:
`WholeMessages` (a copy message arrives in one piece), `CancelStray` (a
cancel may hit the task of a leftover copy message) and `SyncEarly` (the client
sends its Sync behind an Execute before it knows whether that starts a copy, and
again when it ends the copy, as libpq does). With `CancelStray` such a
cancel writes an ErrorResponse nobody asked for and sets the skip flag, so that
the next Query gets a bare ReadyForQuery and `InStep` fails (`connection.py` 446;
line 480 says Postgres "accepts and drops these"). With `SyncEarly`, a copy that
fails in the session or by a cancel before the first Sync is read leaves both Syncs
to be answered: one ReadyForQuery more than the client waits for. The protocol of
Postgres has the same ambiguity and no text of the repository speaks of it, so the
question asked of it, in `loop_pipeline`, is the branch of the copy loop that drops
a Sync (`connection.py` 784).

Runs that end in a violation state what a comment, docstring or test of the
repository says; each is a finding:

| Run | What TLC shows |
|---|---|
| `tx_rollback_to` | a second ROLLBACK TO the same savepoint restores nothing: its frame went with the first |
| `loop_misread` | a cancel between header and body of a CopyData makes the loop read the body as a header |
| `life_overlap` | two connections sharing a session both pass the claim check, and one answers as the other |

`life_overlap` needs an authentication that awaits (any but trust), or a startup
burst that does: the claim is looked at before these awaits and taken after.

Also at odds with a text of the repository, modelled as the code is, with no run
of their own:

* a connection refused because its session is taken still awaits that session's
  close() on its way out (`connection.py` 406; "the first connection is unharmed",
  `tests/test_session_binding.py` 39): `RefusalIsHarmless` of ServerLifecycle
  states the contrary and does not hold;
* ROLLBACK TO registers a LISTEN made earlier in the open transaction
  (`middleware.py` 711; the comment above it calls this a no-op);
* RESET ALL misses a committed SET that a SET LOCAL ... TO DEFAULT hides
  (`middleware.py` 892; "Drop every SET this connection has made");
* a SET of several names whose later value is refused leaves the earlier ones
  set (`middleware.py` 870; "either applies all of them or none");
* an Execute whose query() raised or was cancelled leaves its portal unopened,
  so that executing it again after the Sync runs the query again (`session.py`
  130; "never re-triggers side effects");
* a user the SCRAM plugin does not know is admitted with the empty password
  (`auth.py` 144; "unknown user: proceed through the exchange, then fail closed"):
  `UnknownUsersFailClosed` of Handshake states the comment and does not hold, and
  `AdmitsWhoProves` speaks of users who have a password;
* an array element that begins or ends with a no-break space, or another space
  that is not ASCII, is written without quotes and read back without it
  (`arrays.py` 199; "Whitespace counts because the parser strips it", line 197, and
  "Quoting and parsing are inverses", `tests/test_arrays.py` 149);
* the binary form of `[[]]`, which the encoder writes, makes the decoder raise
  (`arrays.py` 136; "The inverse of the binary parameter decoders above", `types.py`
  397, and "the same Python shape whichever wire format the client picked",
  `tests/test_arrays.py` 177);
* decoding a binary numeric rounds it to 28 significant digits, the precision of
  Python's default Decimal context, which `scaleb` applies (`types.py` 273; "a value
  no float could hold must survive intact", `tests/test_asyncpg.py` 92);
* a real is shown in six significant digits and then means another value, as
  `SET geqo_seed = 0.1234567` does, and may be shown in another unit once it is set
  again: vacuum_cost_delay of 0.0120000001 shows 0.012ms, and that 12us
  (`settings_values.py` 102 and 109; "The inverse of `parse`", line 77);
* the rows of pg_type include every upper-case integer of `types.py`, its private
  constants such as `_NBASE` too ("Every scalar pg_mimic can name");
* a key's name gets a counter also where no name was cut: columns (a, b) and a_b.

Observed while modelling, with no text in the repository that says otherwise: a
COMMIT in a failed transaction commits its settings and notifications; a COMMIT
fans out its notifications before its own LISTEN is registered; `set_config()`
takes no notice of is_local; a Query while the loop is skipping gets a bare
ReadyForQuery; Close of a statement leaves its portals open. PREPARE folds the
case of its name and DEALLOCATE does not, so `PREPARE Foo` is not deallocated by
`DEALLOCATE Foo`; current_setting() of an unknown name is refused at Parse, SHOW
at Execute. A cancel while `set_parameter()` is awaited leaves the connection's
record set and the session untold (`middleware.py` 1277: `except Exception` does not
see a CancelledError), and the next setting of that name repairs it. An error
in a plugin, or a payload of the handshake that cannot be decoded, drops the
connection without a FATAL; a GSS request followed by an SSL request is refused as
an unsupported protocol. A CSV line that is the value `\.` alone is written
unquoted and read as the end of the data, and a COPY of it does not come back
(`RoundTrip` leaves that value out); a letter is accepted as a DELIMITER. The name of
a key may be that of a table. stop() looks at `is_closed()` from another thread
and may find the loop closed just after, and then raises; a stop() that overtakes
serve_forever() ends the thread by an uncaught RuntimeError, and is answered all
the same. TableSession refuses a DISTINCT ON whose ORDER BY starts with fewer of
its keys, or has them in another order, which Postgres accepts, and takes a
parenthesised query with an ORDER BY inside and another behind it, which Postgres
refuses (`AnsweredAsPostgres` takes the outer one). Integers given with a fraction
of their unit are cut off rather than rounded.

## Fairness

Safety runs need none. `QueuedIsWritten` assumes weak fairness of ReadyForQuery:
the session's code returns and a client that began an extended batch sends its
Sync. `EventuallyReady` assumes weak fairness of the server's steps (the loop
runs a task that can run, the session's awaits end), of the client reading its
replies, and of the client ending a copy it started; nothing is assumed of
cancels. `ShutsDown` and `LostPeersEnd` assume weak fairness of a handler's own
steps: the callback's task is run, a factory and a session's `close()` return, a
cancel is thrown, and a read or drain on a closed transport ends. Nothing is
assumed of clients: a handler reading an open transport may read for ever, and
so close() has to close the transports, which is what the mutant of `ShutsDown`
leaves out. `EveryWaitEnds` assumes that both threads run (weak fairness of the
host's steps, and of the caller's once it is inside start() or stop()) and that a
handler with something to resume for is resumed; a client may say nothing for
ever, and nobody is obliged to call stop() or to send a signal.

CHECK_DEADLOCK is off where the bounds on messages or events stop the model, or
every connection is over; the transaction runs have no such end and check it.

## What is proved

Every theorem holds for all values of the constants that satisfy the modules' named
assumptions, which say what the code's types do: `Unset` and `Nothing` are no
values or channels, reported settings are settings, bounds and limits are
naturals, the client's messages are messages of the protocol
(`CommandAssumption`), the calls of a SELECT are a list and a PREPARE has a name
(`StatementsAssumption`), `Nobody` is no connection. `HandshakeAssumption` also
makes the symbolic hashes free of collisions with a payload that cannot be read.
TLC evaluates each of them in the runs.

The safety parts are proved along inductive invariants; none of the listed
properties but the type invariants is inductive by itself.

**TransactionsProofs**: `TypeCorrect`, `NothingLeftBehind` (`Settled`),
`RollbackFrameKept` (`BaseFrame`), `ReportsSuffice` (`ClientInSync`), from
`TypeOK /\ Settled /\ BaseFrame /\ ClientInSync /\ BaseSettled /\ MarksAgree`.
ROLLBACK must leave a `Settled` connection and restores the state `base`, so
`BaseSettled` says that this state has no pending notification and no SET LOCAL
value; `MarksAgree` bounds the log's marks by its length, so that truncating it
at a savepoint is typed. `ClientInSync` needs that every operator which changes a
setting passes through the report bookkeeping: `SessionProofs` has a lemma per
operator that says the connection stays well formed and one that says it stays
synced.

**ReplayProofs**, for a client that RELEASEs a savepoint it rolled back to
(`PairedRollback`; without it the first finding refutes the statements):
`SnapshotsImplementTheLog` (`ReplayMatches`), `EndsAllOrNothing`,
`CommitSendsWhatWasLogged`. The invariant adds `FramesMatch`: there is one frame
for the transaction and one for each savepoint, but for the one just rolled back
to, and each savepoint's frame is a replay of the log as it was when the
savepoint was taken. `ReplayMatches` states what a replay is by the last write of
each setting and the first of each notification, so that a write extends a replay
and a truncated log is the replay its frame recorded; no induction over the log
is needed.

**ListenNotifyProofs**: `RegistryStaysInAgreement`, `NotificationsStayOutside` and
the refinement `RefinesPubSub`. The invariant is `TypeOK /\ RegistryAgrees`, that
every connection that is not gone is well kept (well formed, and framed by a state
no transaction has touched, so that ROLLBACK restores live subscriptions), and
`StandsRight`: where a connection stands decides what may be queued for it and
what its stream holds. Each
action is shown to be a Publish, Announce, Push, Leave or stutter of PubSub; that
COMMIT's fan-out appends to each inbox what `OnChannels` selects for it is by
unfolding the selection, along `ReachesEvery`.

**ServerProofs** for ServerLifecycle: `LifecycleTypes`, `NoLeaks`,
`ShutdownReachesAll`, `LiveClaims` and the action property `ClaimsAreKept`. The four
invariants need each other: that close() reaches every transport rests on
NothingLeaks (a transport that is not among the writers belongs to a connection
whose callback has not run), and that a finished handler holds no session rests on
ClaimsAreLive, which in turn says that a claim names a connection of that very
session, so that releasing `session[c]` releases all c holds. Every step but
`Close` and `HangUp` moves one handler; `ClaimsStep`, `LeaksStep` and `ReachStep`
say once what such a move has to respect. For ServerThread: `StartIsTruthful`,
`PluginsAdmitWhoProves` (which speaks of users who have a password; those SCRAM does
not know are admitted with the empty one), `ReadsWithinLimits`, and `HostedServersLeakNothing`: the
lifecycle's invariants hold wherever the server is run from. `ThreadInv` orders the
two threads' hand-over (who sees `ready` sees an outcome that does not change),
`ExchangeInv` remembers of a message whose header was read and whose payload is
awaited what entitled its sender to send it. TLC checks `EmbeddedInv` on the
instance of `embedded`.

**CommandLoopProofs**: `LoopTypes`, and the action properties
`SkippingHasNoEffect` and `FetchesWriteEachRow`. `Idle` says that while the loop
skips, a task has not yet started, so that no handler is under way whose effect a
skip would miss; `Counted` is the account of a portal whose Executes all ran to
their end: the rows it holds and those it has written are all its rows.

`StaysInStep` is `InStep` for any pipeline, errors, copies and cancels, assuming
`~CancelStray` and `~SyncEarly`, without which it is false (see the parameters above);
`AgreementInvariance` is the invariant it follows from. `StepInv` compares the two
ends of the connection across what is under way. `Reads` is the client as it will
be once it has read `outbox`, each reply when it is due; `Queued` lists the messages
the server will answer once it has read `inbox`, leaving out what a skip drops. They
are the same list (`Agrees`) wherever the task is, and that client knows how many
statements of a batch are answered, which copy is open and whether the server skips
to a Sync it has not sent. A client does not wait for its replies, so what it sends
has to commute with those it has not read: an unread error drops the new message
exactly if the server will skip it (`ReadsSent`; that a copy may still start,
`Busy`, is known before the replies are read), and during a copy only an error can
be under way, after which the copy's data gets no reply (`ReadsCopied`, `Over`).
The other parts keep this inductive: `TaskSound` ties a Query's remaining
statements to its batch, `Framed` says where the second piece of a CopyData is, and
`Stocked` that a copy runs only if the client may prepare one. `Reads` and `Queued`
are stated by the list of intermediate clients and lists, so that nothing recursive
has to be unfolded; TLC cannot enumerate these, and the runs check `InStep`.

**PreparedStatementsProofs**: `SessionAlwaysAgrees`, `ReadsStayFresh` and
`EffectsOnlyAtExecute`. A registered statement may, when executed, register
another, so the invariant says that there is a set W of statements, closed under
what its members register, that holds all that is registered or bound; a new text
extends W by the statement made and by every PREPARE of it. Each effect keeps the
agreement of session and connection on every setting that is not `torn`, which is
all that can be said: a cancel cuts the telling short and nothing in the code undoes
the record. A setting leaves `torn` when it is recorded and told again. `RunsWell`
carries the agreement along any list of effects up to the one that raises. W is not enumerable, so TLC checks the
consequences of this invariant and not the invariant.

Where a proof needs induction over a list (a fan-out, a list of effects),
`Counting` has it as a fact about sets of numbers, `ReachesEvery`: the proof names
the set of positions at which its claim holds. Definitions over lists are
recursive functions, whose unfolding is proved where it is used.

Only model-checked:

* all liveness (`ShutsDown`, `LostPeersEnd`, `EveryWaitEnds`, `EventuallyReady`,
  `QueuedIsWritten`), which the prover does not do;
* the conversions: ArrayText, CopyStatement, CopyCodec and TableAnswers have
  RECURSIVE operators (the parsers and decoders of the code are loops over text),
  and what they compute for every input needs induction over data.

## The plan

Every module above, and the theorems of the previous section, are done. What is
left to model-checking is out of the prover's reach, for the reasons given there.

Not modelled: `catalog_rewrite.py`, `describe.py` and `analysis.py` rewrite and
type SQL trees for sqlglot's executor, without state or concurrency, over inputs
no small instance represents; `messages.py`, `errors.py` and the scalars of
`types.py` other than numeric encode one value by one call each, and `copy_text`
likewise; exponents and infinities of reals in `settings_values.py`; the catalogue's entries are data; examples and generators are not part of the
library.
