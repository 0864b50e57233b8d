--------------------------- MODULE ServerLifecycle ---------------------------
(***************************************************************************)
(* A PgServer and its connections, from accept to the closed transport:    *)
(* startup, the claim on the session object, authentication, the command   *)
(* loop, teardown, and PgServer.close() while all of that is under way.    *)
(*                                                                         *)
(* A phase is the await a connection's handler task is suspended at; what  *)
(* the task does between two awaits is one step.                           *)
(***************************************************************************)
EXTENDS Naturals, FiniteSets

CONSTANTS
  Conns,      \* connections that clients open
  Sessions,   \* the objects session_factory() returns, perhaps one for several
  Nobody      \* Session._connection is None

ASSUME LifecycleAssumption == Nobody \notin Conns

VARIABLES
  phase,         \* where each connection's handler is suspended
  session,       \* the session object the factory returns for it
  holder,        \* Session._connection
  attached,      \* history: the connections that reached their session's init()
  transports,    \* the connections whose transport is open
  tasks,         \* PgServer._tasks
  writers,       \* PgServer._writers
  connections,   \* PgServer._connections, by the connections themselves
  cancels,       \* handlers whose Task.cancel() has not been thrown in yet
  closing        \* PgServer._closing

claims == << session, holder, attached >>
registry == << tasks, writers, connections >>
vars == << phase, claims, transports, registry, cancels, closing >>

\* The awaits inside Connection.run() before its finally clause.
Running == {"authenticating", "starting", "init", "reading", "command"}
\* Those in which the session works for its connection.
Attached == {"init", "reading", "command"}
Finally == {"closing_session", "closing_stream"}
Startup == {"negotiating", "factory"}
Phases == {"new", "accepted", "done"} \cup Startup \cup Running \cup Finally

Init ==
  /\ phase = [c \in Conns |-> "new"]
  /\ session \in [Conns -> Sessions]
  /\ holder = [s \in Sessions |-> Nobody]
  /\ attached = {}
  /\ transports = {}
  /\ tasks = {}
  /\ writers = {}
  /\ connections = {}
  /\ cancels = {}
  /\ closing = FALSE

\* A handler resumes from one await and is suspended at the next.
Goes(c, from, to) ==
  /\ phase[c] \in from
  /\ c \notin cancels
  /\ phase' = [phase EXCEPT ![c] = to]
-----------------------------------------------------------------------------
\* asyncio accepted a socket; the callback's task has not run yet.
Accept(c) ==
  /\ ~closing
  /\ Goes(c, {"new"}, "accepted")
  /\ transports' = transports \cup {c}
  /\ UNCHANGED << claims, registry, cancels, closing >>

\* The first step of _client_connected_cb.
CallbackIgnoringClosing(c) ==
  /\ Goes(c, {"accepted"}, "negotiating")
  /\ tasks' = tasks \cup {c}
  /\ writers' = writers \cup {c}
  /\ UNCHANGED << claims, transports, connections, cancels, closing >>
CallbackStarts(c) ==
  /\ Goes(c, {"accepted"}, IF closing THEN "done" ELSE "negotiating")
  /\ IF closing
     THEN transports' = transports \ {c} /\ UNCHANGED << tasks, writers >>
     ELSE /\ tasks' = tasks \cup {c}
          /\ writers' = writers \cup {c}
          /\ UNCHANGED transports
  /\ UNCHANGED << claims, connections, cancels, closing >>

\* The finally clauses of _handle_client and _client_connected_cb.
LeaveTransportOpen(c) ==
  /\ tasks' = tasks \ {c}
  /\ writers' = writers \ {c}
  /\ connections' = connections \ {c}
  /\ UNCHANGED transports
Leave(c) ==
  /\ tasks' = tasks \ {c}
  /\ writers' = writers \ {c}
  /\ connections' = connections \ {c}
  /\ transports' = transports \ {c}

\* _negotiate_startup: a startup message.
Negotiated(c) ==
  /\ Goes(c, {"negotiating"}, "factory")
  /\ UNCHANGED << claims, transports, registry, cancels, closing >>

\* A bad startup packet, or a client that hung up, before there is a
\* Connection; a session_factory that raises.
StartupEnds(c) ==
  /\ Goes(c, Startup, "done")
  /\ Leave(c)
  /\ UNCHANGED << claims, cancels, closing >>

\* A CancelRequest instead of a startup message.  What PgServer.cancel() does
\* to its target is CommandLoop's Cancel: the target's command ends.
CancelRequest(c) ==
  /\ Goes(c, {"negotiating"}, "closing_stream")
  /\ transports' = transports \ {c}
  /\ UNCHANGED << claims, registry, cancels, closing >>

\* The finally clause of Connection.run(): the session is released if it is
\* this connection's, before its close() is awaited.
ReleaseAny(c) == [holder EXCEPT ![session[c]] = Nobody]
ReleaseNothing(c) == holder
ReleaseDeletes(c) == [s \in Sessions \ {session[c]} |-> holder[s]]
Release(c) == [holder EXCEPT ![session[c]] = IF @ = c THEN Nobody ELSE @]

\* The factory returned, and Connection.run() begins with _claim_session():
\* it looks whether another connection holds the session.
Claimable(c) == holder[session[c]] \in {Nobody, c}
SessionBuilt(c) ==
  /\ Goes(c, {"factory"}, IF Claimable(c) THEN "authenticating" ELSE "closing_session")
  /\ connections' = connections \cup {c}
  /\ holder' = IF Claimable(c) THEN holder ELSE Release(c)
  /\ UNCHANGED << session, attached, transports, tasks, writers, cancels, closing >>

\* _authenticate succeeded; the startup burst is being drained.
Authenticated(c) ==
  /\ Goes(c, {"authenticating"}, "starting")
  /\ UNCHANGED << claims, transports, registry, cancels, closing >>

\* The session learns its connection, and init() is awaited.
Attach(c) ==
  /\ Goes(c, {"starting"}, "init")
  /\ holder' = [holder EXCEPT ![session[c]] = c]
  /\ attached' = attached \cup {c}
  /\ UNCHANGED << session, transports, registry, cancels, closing >>

\* init() returned, a command arrived, or it was answered.
Serves(c) ==
  /\ c \in transports
  /\ \/ Goes(c, {"init", "command"}, "reading")
     \/ Goes(c, {"reading"}, "command")
  /\ UNCHANGED << claims, transports, registry, cancels, closing >>

\* Connection.run() is left: authentication failed, Terminate, a lost peer, a
\* bad frame, an init() that raised.  Only a closed transport ends the drain of
\* the startup burst.
RunEndsMissingEof(c) ==
  /\ Goes(c, Running, "closing_session")
  /\ c \in transports
  /\ holder' = Release(c)
  /\ UNCHANGED << session, attached, transports, registry, cancels, closing >>
RunEnds(c) ==
  /\ Goes(c, Running, "closing_session")
  /\ phase[c] = "starting" => c \notin transports
  /\ holder' = Release(c)
  /\ UNCHANGED << session, attached, transports, registry, cancels, closing >>

SessionClosed(c) ==
  /\ Goes(c, {"closing_session"}, "closing_stream")
  /\ transports' = transports \ {c}
  /\ UNCHANGED << claims, registry, cancels, closing >>

\* stream.close() returned.
HandlerEnds(c) ==
  /\ Goes(c, {"closing_stream"}, "done")
  /\ Leave(c)
  /\ UNCHANGED << claims, cancels, closing >>

\* The transport closes under the handler: the peer went away.
HangUp(c) ==
  /\ phase[c] # "done"
  /\ c \in transports
  /\ transports' = transports \ {c}
  /\ UNCHANGED << phase, claims, registry, cancels, closing >>
-----------------------------------------------------------------------------
\* PgServer.close(): cancel the handlers and close their transports.  From
\* Python 3.13 on, close_clients() also closes those it does not know yet.
NoWriterClosed == transports
WritersClosed == transports \ writers
Close ==
  /\ ~closing
  /\ closing' = TRUE
  /\ cancels' = tasks
  /\ transports' \in {WritersClosed, {}}
  /\ UNCHANGED << phase, claims, registry >>

\* The CancelledError is thrown at the await the handler is suspended at.  One
\* that awaits a command takes it for its client's cancel and goes on reading;
\* one in Connection.run()'s finally skips what is left of it.
CancelArrives(c) ==
  /\ c \in cancels
  /\ cancels' = cancels \ {c}
  /\ \/ /\ phase[c] = "command"
        /\ phase' = [phase EXCEPT ![c] = "reading"]
        /\ UNCHANGED << holder, transports, registry >>
     \/ /\ phase[c] \in Running \ {"command"}
        /\ phase' = [phase EXCEPT ![c] = "closing_session"]
        /\ holder' = Release(c)
        /\ UNCHANGED << transports, registry >>
     \/ /\ phase[c] \in Startup \cup Finally
        /\ phase' = [phase EXCEPT ![c] = "done"]
        /\ Leave(c)
        /\ UNCHANGED holder
  /\ UNCHANGED << session, attached, closing >>
-----------------------------------------------------------------------------

Next ==
  \/ \E c \in Conns :
       \/ Accept(c) \/ CallbackStarts(c) \/ Negotiated(c) \/ StartupEnds(c)
       \/ CancelRequest(c) \/ SessionBuilt(c) \/ Authenticated(c) \/ Attach(c)
       \/ Serves(c) \/ RunEnds(c) \/ SessionClosed(c) \/ HandlerEnds(c)
       \/ HangUp(c) \/ CancelArrives(c)
  \/ Close

\* What a handler does of its own accord, whatever its client does: it resumes
\* when its factory or its session's close() returns, when it is cancelled, and
\* when its transport is closed (a read ends, a drain fails).
Resumes(c) ==
  \/ CallbackStarts(c) \/ SessionBuilt(c) \/ SessionClosed(c) \/ HandlerEnds(c)
  \/ CancelArrives(c)
  \/ c \notin transports /\ (StartupEnds(c) \/ RunEnds(c))

Spec == Init /\ [][Next]_vars /\ \A c \in Conns : WF_vars(Resumes(c))
-----------------------------------------------------------------------------
(***************************************************************************)
(* Properties.                                                             *)
(***************************************************************************)

\* The variables have the types that PgServer and Session give them.
TypeOK ==
  /\ phase \in [Conns -> Phases]
  /\ session \in [Conns -> Sessions]
  /\ holder \in [Sessions -> Conns \cup {Nobody}]
  /\ \A S \in {attached, transports, tasks, writers, connections, cancels} : S \subseteq Conns
  /\ closing \in BOOLEAN

\* Whichever way a handler was left (an early return of _handle_client, a
\* refusal, an exception, a cancel at any await), when it is over its transport
\* is closed, PgServer has forgotten it and it holds no session; and one that
\* is not over is in _tasks and _writers, where close() finds it.
NothingLeaks ==
  \A c \in Conns :
    /\ phase[c] \in {"new", "done"} => c \notin transports
    /\ c \in tasks <=> phase[c] \in Startup \cup Running \cup Finally
    /\ c \in writers <=> c \in tasks
    /\ c \in connections => c \in tasks
    /\ \A s \in Sessions : holder[s] = c => c \in tasks

\* After PgServer.close() the only transports that are open are those whose
\* callback has not run, which closes them.
CloseReachesAll ==
  closing => \A c \in transports : phase[c] = "accepted"

\* PgServer.close() completes: every transport is closed and every handler
\* over, although a handler that awaits a command swallows its cancel.
ShutsDown == closing ~> (transports = {} /\ tasks = {})

\* A handler whose peer went away ends, without anyone cancelling it.
LostPeersEnd ==
  \A c \in Conns : (phase[c] # "new" /\ c \notin transports) ~> phase[c] = "done"

\* A session that names a connection names one that it is serving, so no
\* connection is refused because of one that is over.
ClaimsAreLive ==
  \A s \in Sessions :
    holder[s] # Nobody => phase[holder[s]] \in Attached /\ session[holder[s]] = s

\* A connection that is refused, or fails before it was attached, does not
\* release the claim of the connection that has the session.
ClaimKept ==
  [][\A s \in Sessions :
       (holder[s] # Nobody /\ holder'[s] = Nobody) => phase'[holder[s]] \notin Attached]_vars

\* "Each connection answers as itself": the session a connection is served by
\* resolves names and settings through that connection.
AnswersAsItself ==
  \A c \in Conns : phase[c] \in Attached => holder[session[c]] = c

\* "The first connection is unharmed" when another one is refused: its
\* session's close() is not called by a connection that never attached to it.
RefusalIsHarmless ==
  \A c, d \in Conns :
    ~ /\ phase[c] = "closing_session" /\ c \notin attached
      /\ phase[d] \in Attached
      /\ c # d /\ session[c] = session[d]
=============================================================================
