---------------------------- MODULE ServerThread ----------------------------
(***************************************************************************)
(* A PgServer in the three places it is run from: a thread of its own with *)
(* a caller that starts and stops it, PgServer.run() with signals, and an  *)
(* `async with` block on the caller's loop; with a connection that goes    *)
(* through its handshake meanwhile.                                        *)
(*                                                                         *)
(* Handlers move only while the loop runs.  A caller's step is what it     *)
(* does between two points where the other thread may get in.              *)
(***************************************************************************)
EXTENDS ServerLifecycle, Handshake

VARIABLES
  mode,        \* "thread", "run" or "block"
  waits,       \* wait_closed() waits for connections (Python 3.12 on)
  host,        \* where the code that runs the server is
  caller,      \* where the thread that calls start() and stop() is
  ready, port, startupError,
  stopAsked    \* server.close is in the loop's queue, or the stop was signalled

thread == << mode, waits, host, caller, ready, port, startupError, stopAsked >>
embedded == << vars, exchange, thread >>

EmbeddedInit ==
  /\ Init /\ HandshakeInit
  /\ mode \in {"thread", "run", "block"} /\ waits \in BOOLEAN
  /\ host = "new" /\ caller = "new"
  /\ ready = FALSE /\ port = FALSE /\ startupError = FALSE /\ stopAsked = FALSE

LoopRuns == host \in {"binding", "serving", "waiting", "gathering", "finishing", "left"}
-----------------------------------------------------------------------------
\* The caller of a ServerThread.

\* start(): the thread is started and waited for ...
StartCalled ==
  /\ mode = "thread" /\ caller = "new" /\ host = "new"
  /\ caller' = "starting" /\ host' = "binding"
  /\ UNCHANGED << vars, exchange, mode, waits, ready, port, startupError, stopAsked >>

\* ... and says how it went.
StartReturns ==
  /\ caller = "starting" /\ ready
  /\ caller' = CASE startupError -> "raised" [] ~startupError /\ port -> "started" [] OTHER -> "asserted"
  /\ UNCHANGED << vars, exchange, mode, waits, host, ready, port, startupError, stopAsked >>

\* stop(), also after a start() that raised: a closed loop is left alone.
StopCalled ==
  /\ caller \in {"started", "raised"}
  /\ caller' = IF host = "dead" THEN "stopped" ELSE "stopping"
  /\ UNCHANGED << vars, exchange, mode, waits, host, ready, port, startupError, stopAsked >>

\* call_soon_threadsafe(): by now the loop may be closed after all.
CloseQueued ==
  /\ caller = "stopping"
  /\ IF host = "dead" THEN caller' = "stop_raised" /\ UNCHANGED stopAsked
                      ELSE caller' = "joining" /\ stopAsked' = TRUE
  /\ UNCHANGED << vars, exchange, mode, waits, host, ready, port, startupError >>

Joined ==
  /\ caller = "joining" /\ host = "dead"
  /\ caller' = "stopped"
  /\ UNCHANGED << vars, exchange, mode, waits, host, ready, port, startupError, stopAsked >>
-----------------------------------------------------------------------------
\* PgServer.run() installs its signal handlers, a block is entered.
HostBegins ==
  /\ mode \in {"run", "block"} /\ host = "new"
  /\ host' = "binding"
  /\ UNCHANGED << vars, exchange, mode, waits, caller, ready, port, startupError, stopAsked >>

\* A signal; or the block is left, whichever way.
StopRequested ==
  /\ \/ mode = "run" /\ host \in {"binding", "serving"}
     \/ mode = "block" /\ host = "serving"
  /\ ~stopAsked
  /\ stopAsked' = TRUE
  /\ UNCHANGED << vars, exchange, mode, waits, host, caller, ready, port, startupError >>

\* start_server(): it listens, or the failure is kept for start(), or raised.
\* Mutant: the failure is not kept.
BindForgetful(ok) ==
  /\ host = "binding"
  /\ port' = ok
  /\ UNCHANGED startupError
  /\ host' = IF mode = "thread" THEN "reporting" ELSE IF ok THEN "serving" ELSE "finishing"
  /\ UNCHANGED << vars, exchange, mode, waits, caller, ready, stopAsked >>
Bind(ok) ==
  /\ host = "binding"
  /\ port' = ok
  /\ startupError' = ~ok
  /\ host' = IF mode = "thread" THEN "reporting" ELSE IF ok THEN "serving" ELSE "finishing"
  /\ UNCHANGED << vars, exchange, mode, waits, caller, ready, stopAsked >>

\* _ready.set(), in a finally.
\* Mutant: a failed start sets no event.
SetReadyIfBound ==
  /\ host = "reporting"
  /\ ready' = port
  /\ host' = IF startupError THEN "finishing" ELSE "bound"
  /\ UNCHANGED << vars, exchange, mode, waits, caller, port, startupError, stopAsked >>
SetReady ==
  /\ host = "reporting"
  /\ ready' = TRUE
  /\ host' = IF startupError THEN "finishing" ELSE "bound"
  /\ UNCHANGED << vars, exchange, mode, waits, caller, port, startupError, stopAsked >>

\* The loop, which stood still, runs serve_forever().
ServeForever ==
  /\ host = "bound"
  /\ host' = "serving"
  /\ UNCHANGED << vars, exchange, mode, waits, caller, ready, port, startupError, stopAsked >>

\* server.close() on the loop.  It ends serve_forever(), or keeps it from starting
\* with an error that ends the thread the same way; then wait_closed().
CloseRuns ==
  /\ stopAsked
  /\ host = "serving" \/ (mode = "thread" /\ host = "finishing")
  /\ Close
  /\ host' = IF host = "serving" THEN "waiting" ELSE host
  /\ UNCHANGED << exchange, mode, waits, caller, ready, port, startupError, stopAsked >>

\* wait_closed() is over.  _cancel_pending_handlers, and asyncio.run(), cancel the
\* handlers that are left and gather them; a block just ends.
WaitedClosed ==
  /\ host = "waiting"
  /\ waits => transports = {}
  /\ IF mode = "block"
     THEN host' = "left" /\ UNCHANGED cancels
     ELSE /\ host' = IF tasks = {} THEN "finishing" ELSE "gathering"
          /\ cancels' = cancels \cup tasks
  /\ UNCHANGED << phase, claims, transports, registry, closing >>
  /\ UNCHANGED << exchange, mode, waits, caller, ready, port, startupError, stopAsked >>

Gathered ==
  /\ host = "gathering" /\ tasks = {}
  /\ host' = "finishing"
  /\ UNCHANGED << vars, exchange, mode, waits, caller, ready, port, startupError, stopAsked >>

\* shutdown_asyncgens(), loop.close(), the end of the thread or of run().
LoopCloses ==
  /\ host = "finishing"
  /\ host' = IF mode = "block" THEN "left" ELSE "dead"
  /\ UNCHANGED << vars, exchange, mode, waits, caller, ready, port, startupError, stopAsked >>
-----------------------------------------------------------------------------
\* A message of the handshake moves the handler along in its life.
Follows(c) ==
  \/ at' \in {at, "second_packet", "sasl_final"} /\ UNCHANGED vars
  \/ at' = "negotiated" /\ Negotiated(c)
  \/ at' = "cancel_request" /\ CancelRequest(c)
  \/ at' \in {"fatal", "crashed"} /\ StartupEnds(c)
  \/ at' = "admitted" /\ Authenticated(c)
  \/ at' \in {"fatal", "crashed", "refused"} /\ RunEnds(c)

HandshakeStep(c) ==
  /\ LoopRuns /\ UNCHANGED thread
  /\ c \in transports /\ c \notin cancels
  /\ phase[c] = IF at \in Reads THEN "negotiating" ELSE "authenticating"
  /\ (\E f \in Messages : ReadHeader(f)) \/ ReadPayload \/ Trust
  /\ Follows(c)

\* What a handler does without its client: see Resumes.
HandlerResumes(c) ==
  /\ LoopRuns /\ UNCHANGED thread
  /\ \/ SessionBuilt(c) /\ BeginAuthentication
     \/ /\ \/ CallbackStarts(c) \/ SessionClosed(c) \/ HandlerEnds(c) \/ CancelArrives(c)
           \/ c \notin transports /\ (StartupEnds(c) \/ RunEnds(c))
        /\ UNCHANGED exchange

\* Connections, commands and a lost peer; a factory, a command or an init() that
\* ends the connection.
ClientActs(c) ==
  /\ LoopRuns /\ UNCHANGED << thread, exchange >>
  /\ \/ host = "serving" /\ Accept(c)
     \/ Attach(c) \/ Serves(c) \/ HangUp(c)
     \/ phase[c] = "factory" /\ StartupEnds(c)
     \/ phase[c] # "authenticating" /\ RunEnds(c)

HostSteps ==
  \/ \E ok \in BOOLEAN : Bind(ok)
  \/ SetReady \/ ServeForever \/ CloseRuns \/ WaitedClosed \/ Gathered \/ LoopCloses

CallerSteps == StartReturns \/ CloseQueued \/ Joined

EmbeddedNext ==
  \/ StartCalled \/ StopCalled \/ HostBegins \/ StopRequested
  \/ CallerSteps \/ HostSteps
  \/ \E c \in Conns : HandshakeStep(c) \/ HandlerResumes(c) \/ ClientActs(c)

\* Both threads run, and handlers resume when what they wait for is there; no
\* client is obliged to do anything, and nobody to call stop().
EmbeddedSpec ==
  /\ EmbeddedInit /\ [][EmbeddedNext]_embedded
  /\ WF_embedded(HostSteps) /\ WF_embedded(CallerSteps)
  /\ \A c \in Conns : WF_embedded(HandlerResumes(c))
-----------------------------------------------------------------------------
\* What start() tells its caller is how the thread's start went: a port only
\* when the server listens, the thread's own failure otherwise.
StartTellsTheTruth ==
  /\ caller = "started" => port /\ ~startupError
  /\ caller = "raised" => startupError /\ ~port
  /\ caller # "asserted"

\* Nobody waits forever: start() returns or raises, stop() finds the thread over,
\* run() returns after a signal and a block is left, whatever a client was doing
\* then, in its handshake or in a command, and although a handler that awaits a
\* command swallows its cancel.
EveryWaitEnds ==
  /\ caller = "starting" ~> caller # "starting"
  /\ caller = "stopping" ~> caller \in {"stopped", "stop_raised"}
  /\ stopAsked ~> host \in {"dead", "left"}
=============================================================================
