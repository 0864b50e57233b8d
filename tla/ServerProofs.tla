---------------------------- MODULE ServerProofs ----------------------------
(***************************************************************************)
(* For any number of connections and sessions: the safety invariants of    *)
(* ServerLifecycle.  Their conjunction is inductive.  Then, for any        *)
(* passwords, configured plugins, limits and lengths, ServerThread: what   *)
(* start() says, whom the plugins admit, how much the server reads, and    *)
(* that the invariants of ServerLifecycle hold wherever the server is run  *)
(* from.                                                                   *)
(*                                                                         *)
(* Every step of a server but Close and HangUp moves one handler from one  *)
(* await to another.  Moves says so, and ClaimsStep, LeaksStep and         *)
(* ReachStep say what such a step has to respect for each invariant to     *)
(* survive it.                                                             *)
(*                                                                         *)
(* ThreadInv is about the hand-over of the start's outcome between two     *)
(* threads, ExchangeInv about a message whose header was read and whose    *)
(* payload is awaited: what made its sender entitled to send it has to be  *)
(* remembered until the plugin looks at it.                                *)
(***************************************************************************)
EXTENDS ServerThread, TLAPS

Inv == TypeOK /\ NothingLeaks /\ CloseReachesAll /\ ClaimsAreLive

UnderWay == Startup \cup Running \cup Finally

Moves(c, q) ==
  /\ q \in Phases
  /\ phase' = [phase EXCEPT ![c] = q]
  /\ session' = session

\* Of the other connections, a step may at most close transports.
SparesOthers(c) ==
  \A d \in Conns \ {c} :
    /\ d \in tasks' <=> d \in tasks
    /\ d \in writers' <=> d \in writers
    /\ d \in transports' => d \in transports
    /\ d \in connections' => d \in connections

\* The sets of PgServer that c is in suit its new phase q.
Suits(c, q) ==
  /\ c \in tasks' <=> q \in UnderWay
  /\ c \in writers' <=> q \in UnderWay
  /\ c \in connections' => q \in UnderWay
  /\ q \in {"new", "done"} => c \notin transports'

\* A handler that moves off the awaits at which its session works for it
\* releases the session; one that takes it moves onto them.
ClaimMoves(c, q) ==
  \/ holder' = holder /\ (q \in Attached \/ phase[c] \notin Attached)
  \/ holder' = Release(c)
  \/ holder' = [holder EXCEPT ![session[c]] = c] /\ q \in Attached

\* A moved handler keeps every claim live.
LEMMA ClaimsStep ==
  ASSUME TypeOK, ClaimsAreLive, NEW c \in Conns, NEW q, Moves(c, q), ClaimMoves(c, q)
  PROVE  ClaimsAreLive'
<1> SUFFICES ASSUME NEW s \in Sessions, holder'[s] # Nobody
             PROVE  phase'[holder'[s]] \in Attached /\ session[holder'[s]] = s
  BY DEF ClaimsAreLive, Moves
<1>1. /\ phase' = [phase EXCEPT ![c] = q]
      /\ phase \in [Conns -> Phases]
      /\ session \in [Conns -> Sessions]
      /\ holder \in [Sessions -> Conns \cup {Nobody}]
  BY DEF Moves, TypeOK
<1>2. \A d \in Conns : phase'[d] = IF d = c THEN q ELSE phase[d]
  BY <1>1
<1>3. ASSUME holder[s] = holder'[s]
      PROVE  /\ holder[s] \in Conns
             /\ phase[holder[s]] \in Attached
             /\ session[holder[s]] = s
  BY <1>1, <1>3 DEF ClaimsAreLive
<1>4. CASE holder' = holder /\ (q \in Attached \/ phase[c] \notin Attached)
  BY <1>2, <1>3, <1>4
<1>5. CASE holder' = Release(c)
  <2>1. holder'[s] = IF s = session[c] /\ holder[s] = c THEN Nobody ELSE holder[s]
    BY <1>1, <1>5 DEF Release
  <2>2. holder'[s] = holder[s] /\ (s = session[c] => holder[s] # c)
    BY <2>1
  <2>3. holder[s] # c
    BY <1>3, <2>2
  <2>4. QED
    BY <1>2, <1>3, <2>2, <2>3
<1>6. CASE holder' = [holder EXCEPT ![session[c]] = c] /\ q \in Attached
  <2>1. holder'[s] = IF s = session[c] THEN c ELSE holder[s]
    BY <1>1, <1>6
  <2>2. QED
    BY <1>2, <1>3, <1>6, <2>1
<1>7. QED
  BY <1>4, <1>5, <1>6 DEF ClaimMoves

\* A moved handler that the sets of PgServer suit leaks nothing.
LEMMA LeaksStep ==
  ASSUME TypeOK, TypeOK', NothingLeaks, ClaimsAreLive', NEW c \in Conns, NEW q,
         Moves(c, q), SparesOthers(c), Suits(c, q)
  PROVE  NothingLeaks'
<1>1. phase \in [Conns -> Phases] /\ phase' = [phase EXCEPT ![c] = q]
  BY DEF TypeOK, Moves
<1>2. ASSUME NEW d \in Conns, NEW s \in Sessions, holder'[s] = d
      PROVE  phase'[d] \in UnderWay
  BY <1>2, LifecycleAssumption DEF ClaimsAreLive, Attached, UnderWay, Running
<1>3. ASSUME NEW d \in Conns, d # c
      PROVE  /\ phase'[d] \in {"new", "done"} => d \notin transports'
             /\ d \in tasks' <=> phase'[d] \in UnderWay
             /\ d \in writers' <=> d \in tasks'
             /\ d \in connections' => d \in tasks'
  <2>1. phase'[d] = phase[d]
    BY <1>1, <1>3
  <2>2. QED
    BY <1>3, <2>1 DEF NothingLeaks, SparesOthers, UnderWay
<1>4. /\ phase'[c] \in {"new", "done"} => c \notin transports'
      /\ c \in tasks' <=> phase'[c] \in UnderWay
      /\ c \in writers' <=> c \in tasks'
      /\ c \in connections' => c \in tasks'
  BY <1>1 DEF Suits
<1>5. QED
  BY <1>2, <1>3, <1>4 DEF NothingLeaks, UnderWay

\* After close(), a handler that moves has no open transport.
LEMMA ReachStep ==
  ASSUME TypeOK, CloseReachesAll, NEW c \in Conns, NEW q, Moves(c, q), SparesOthers(c),
         TypeOK', closing' = closing, closing => c \notin transports'
  PROVE  CloseReachesAll'
BY DEF CloseReachesAll, TypeOK, Moves, SparesOthers

\* The three together.
LEMMA HandlerStep ==
  ASSUME Inv, TypeOK', NEW c \in Conns, NEW q, Moves(c, q), SparesOthers(c),
         Suits(c, q), ClaimMoves(c, q), closing' = closing,
         closing => c \notin transports'
  PROVE  Inv'
BY ClaimsStep, LeaksStep, ReachStep DEF Inv

\* A new socket.
LEMMA AcceptPreserves ==
  ASSUME Inv, NEW c \in Conns, Accept(c)
  PROVE  Inv'
<1> DEFINE q == "accepted"
<1>1. TypeOK'
  BY DEF Inv, TypeOK, Accept, Goes, claims, registry, Phases, Startup, Running, Finally
<1>2. Moves(c, q)
  BY DEF Inv, TypeOK, Moves, Accept, Goes, claims, Phases, Startup, Running, Finally
<1>3. SparesOthers(c)
  BY DEF SparesOthers, Accept, Goes, registry
<1>4. Suits(c, q)
  BY DEF Inv, TypeOK, NothingLeaks, Suits, UnderWay, Accept, Goes, registry, Phases, Startup, Running, Finally
<1>5. ClaimMoves(c, q)
  BY DEF ClaimMoves, Accept, Goes, claims, Attached
<1>6. closing' = closing /\ (closing => c \notin transports')
  BY DEF Inv, CloseReachesAll, Accept, Goes, registry
<1>7. QED
  BY <1>1, <1>2, <1>3, <1>4, <1>5, <1>6, HandlerStep

\* A startup message.
LEMMA NegotiatedPreserves ==
  ASSUME Inv, NEW c \in Conns, Negotiated(c)
  PROVE  Inv'
<1> DEFINE q == "factory"
<1>1. TypeOK'
  BY DEF Inv, TypeOK, Negotiated, Goes, claims, registry, Phases, Startup, Running, Finally
<1>2. Moves(c, q)
  BY DEF Inv, TypeOK, Moves, Negotiated, Goes, claims, Phases, Startup, Running, Finally
<1>3. SparesOthers(c)
  BY DEF SparesOthers, Negotiated, Goes, registry
<1>4. Suits(c, q)
  BY DEF Inv, TypeOK, NothingLeaks, Suits, UnderWay, Negotiated, Goes, registry, Phases, Startup, Running, Finally
<1>5. ClaimMoves(c, q)
  BY DEF ClaimMoves, Negotiated, Goes, claims, Attached
<1>6. closing' = closing /\ (closing => c \notin transports')
  BY DEF Inv, CloseReachesAll, Negotiated, Goes, registry
<1>7. QED
  BY <1>1, <1>2, <1>3, <1>4, <1>5, <1>6, HandlerStep

\* An early return of _handle_client.
LEMMA StartupEndsPreserves ==
  ASSUME Inv, NEW c \in Conns, StartupEnds(c)
  PROVE  Inv'
<1> DEFINE q == "done"
<1>1. TypeOK'
  BY DEF Inv, TypeOK, StartupEnds, Goes, Leave, claims, registry, Phases, Startup, Running, Finally
<1>2. Moves(c, q)
  BY DEF Inv, TypeOK, Moves, StartupEnds, Goes, Leave, claims, Phases, Startup, Running, Finally
<1>3. SparesOthers(c)
  BY DEF SparesOthers, StartupEnds, Goes, Leave, registry
<1>4. Suits(c, q)
  BY DEF Inv, TypeOK, NothingLeaks, Suits, UnderWay, StartupEnds, Goes, Leave, registry, Phases, Startup, Running, Finally
<1>5. ClaimMoves(c, q)
  BY DEF ClaimMoves, StartupEnds, Goes, Leave, claims, Attached, Startup
<1>6. closing' = closing /\ (closing => c \notin transports')
  BY DEF Inv, CloseReachesAll, StartupEnds, Goes, Leave, registry, Startup
<1>7. QED
  BY <1>1, <1>2, <1>3, <1>4, <1>5, <1>6, HandlerStep

\* A connection that only carries a cancel.
LEMMA CancelRequestPreserves ==
  ASSUME Inv, NEW c \in Conns, CancelRequest(c)
  PROVE  Inv'
<1> DEFINE q == "closing_stream"
<1>1. TypeOK'
  BY DEF Inv, TypeOK, CancelRequest, Goes, claims, registry, Phases, Startup, Running, Finally
<1>2. Moves(c, q)
  BY DEF Inv, TypeOK, Moves, CancelRequest, Goes, claims, Phases, Startup, Running, Finally
<1>3. SparesOthers(c)
  BY DEF SparesOthers, CancelRequest, Goes, registry
<1>4. Suits(c, q)
  BY DEF Inv, TypeOK, NothingLeaks, Suits, UnderWay, CancelRequest, Goes, registry, Phases, Startup, Running, Finally
<1>5. ClaimMoves(c, q)
  BY DEF ClaimMoves, CancelRequest, Goes, claims, Attached
<1>6. closing' = closing /\ (closing => c \notin transports')
  BY DEF Inv, CloseReachesAll, CancelRequest, Goes, registry
<1>7. QED
  BY <1>1, <1>2, <1>3, <1>4, <1>5, <1>6, HandlerStep

\* The claim on the session is looked at.
LEMMA SessionBuiltPreserves ==
  ASSUME Inv, NEW c \in Conns, SessionBuilt(c)
  PROVE  Inv'
<1> DEFINE q == IF Claimable(c) THEN "authenticating" ELSE "closing_session"
<1>1. TypeOK'
  BY DEF Inv, TypeOK, SessionBuilt, Goes, Claimable, Release, claims, registry, Phases, Startup, Running, Finally
<1>2. Moves(c, q)
  BY DEF Inv, TypeOK, Moves, SessionBuilt, Goes, Claimable, claims, Phases, Startup, Running, Finally
<1>3. SparesOthers(c)
  BY DEF SparesOthers, SessionBuilt, Goes, Claimable, registry
<1>4. Suits(c, q)
  BY DEF Inv, TypeOK, NothingLeaks, Suits, UnderWay, SessionBuilt, Goes, Claimable, registry, Phases, Startup, Running, Finally
<1>5. ClaimMoves(c, q)
  BY DEF ClaimMoves, SessionBuilt, Goes, Claimable, claims, Attached
<1>6. closing' = closing /\ (closing => c \notin transports')
  BY DEF Inv, CloseReachesAll, SessionBuilt, Goes, Claimable, registry
<1>7. QED
  BY <1>1, <1>2, <1>3, <1>4, <1>5, <1>6, HandlerStep

\* Authentication succeeds.
LEMMA AuthenticatedPreserves ==
  ASSUME Inv, NEW c \in Conns, Authenticated(c)
  PROVE  Inv'
<1> DEFINE q == "starting"
<1>1. TypeOK'
  BY DEF Inv, TypeOK, Authenticated, Goes, claims, registry, Phases, Startup, Running, Finally
<1>2. Moves(c, q)
  BY DEF Inv, TypeOK, Moves, Authenticated, Goes, claims, Phases, Startup, Running, Finally
<1>3. SparesOthers(c)
  BY DEF SparesOthers, Authenticated, Goes, registry
<1>4. Suits(c, q)
  BY DEF Inv, TypeOK, NothingLeaks, Suits, UnderWay, Authenticated, Goes, registry, Phases, Startup, Running, Finally
<1>5. ClaimMoves(c, q)
  BY DEF ClaimMoves, Authenticated, Goes, claims, Attached
<1>6. closing' = closing /\ (closing => c \notin transports')
  BY DEF Inv, CloseReachesAll, Authenticated, Goes, registry
<1>7. QED
  BY <1>1, <1>2, <1>3, <1>4, <1>5, <1>6, HandlerStep

\* The claim is taken.
LEMMA AttachPreserves ==
  ASSUME Inv, NEW c \in Conns, Attach(c)
  PROVE  Inv'
<1> DEFINE q == "init"
<1>1. TypeOK'
  BY DEF Inv, TypeOK, Attach, Goes, claims, registry, Phases, Startup, Running, Finally
<1>2. Moves(c, q)
  BY DEF Inv, TypeOK, Moves, Attach, Goes, claims, Phases, Startup, Running, Finally
<1>3. SparesOthers(c)
  BY DEF SparesOthers, Attach, Goes, registry
<1>4. Suits(c, q)
  BY DEF Inv, TypeOK, NothingLeaks, Suits, UnderWay, Attach, Goes, registry, Phases, Startup, Running, Finally
<1>5. ClaimMoves(c, q)
  BY DEF ClaimMoves, Attach, Goes, claims, Attached
<1>6. closing' = closing /\ (closing => c \notin transports')
  BY DEF Inv, CloseReachesAll, Attach, Goes, registry
<1>7. QED
  BY <1>1, <1>2, <1>3, <1>4, <1>5, <1>6, HandlerStep

\* The session serves its connection.
LEMMA ServesPreserves ==
  ASSUME Inv, NEW c \in Conns, Serves(c)
  PROVE  Inv'
<1> DEFINE q == phase'[c]
<1>1. TypeOK'
  BY DEF Inv, TypeOK, Serves, Goes, claims, registry, Phases, Startup, Running, Finally
<1>2. Moves(c, q)
  BY DEF Inv, TypeOK, Moves, Serves, Goes, claims, Phases, Startup, Running, Finally
<1>3. SparesOthers(c)
  BY DEF SparesOthers, Serves, Goes, registry
<1>4. Suits(c, q)
  BY DEF Inv, TypeOK, NothingLeaks, Suits, UnderWay, Serves, Goes, registry, Phases, Startup, Running, Finally
<1>5. ClaimMoves(c, q)
  BY DEF ClaimMoves, Serves, Goes, claims, Attached, Inv, TypeOK
<1>6. closing' = closing /\ (closing => c \notin transports')
  BY DEF Inv, CloseReachesAll, Serves, Goes, registry
<1>7. QED
  BY <1>1, <1>2, <1>3, <1>4, <1>5, <1>6, HandlerStep

\* Connection.run() is left.
LEMMA RunEndsPreserves ==
  ASSUME Inv, NEW c \in Conns, RunEnds(c)
  PROVE  Inv'
<1> DEFINE q == "closing_session"
<1>1. TypeOK'
  BY DEF Inv, TypeOK, RunEnds, Goes, Release, claims, registry, Phases, Startup, Running, Finally
<1>2. Moves(c, q)
  BY DEF Inv, TypeOK, Moves, RunEnds, Goes, claims, Phases, Startup, Running, Finally
<1>3. SparesOthers(c)
  BY DEF SparesOthers, RunEnds, Goes, registry
<1>4. Suits(c, q)
  BY DEF Inv, TypeOK, NothingLeaks, Suits, UnderWay, RunEnds, Goes, registry, Phases, Startup, Running, Finally
<1>5. ClaimMoves(c, q)
  BY DEF ClaimMoves, RunEnds, Goes, claims, Attached
<1>6. closing' = closing /\ (closing => c \notin transports')
  BY DEF Inv, CloseReachesAll, RunEnds, Goes, registry, Running
<1>7. QED
  BY <1>1, <1>2, <1>3, <1>4, <1>5, <1>6, HandlerStep

\* The session is closed, then the transport.
LEMMA SessionClosedPreserves ==
  ASSUME Inv, NEW c \in Conns, SessionClosed(c)
  PROVE  Inv'
<1> DEFINE q == "closing_stream"
<1>1. TypeOK'
  BY DEF Inv, TypeOK, SessionClosed, Goes, claims, registry, Phases, Startup, Running, Finally
<1>2. Moves(c, q)
  BY DEF Inv, TypeOK, Moves, SessionClosed, Goes, claims, Phases, Startup, Running, Finally
<1>3. SparesOthers(c)
  BY DEF SparesOthers, SessionClosed, Goes, registry
<1>4. Suits(c, q)
  BY DEF Inv, TypeOK, NothingLeaks, Suits, UnderWay, SessionClosed, Goes, registry, Phases, Startup, Running, Finally
<1>5. ClaimMoves(c, q)
  BY DEF ClaimMoves, SessionClosed, Goes, claims, Attached
<1>6. closing' = closing /\ (closing => c \notin transports')
  BY DEF Inv, CloseReachesAll, SessionClosed, Goes, registry
<1>7. QED
  BY <1>1, <1>2, <1>3, <1>4, <1>5, <1>6, HandlerStep

\* The handler returns.
LEMMA HandlerEndsPreserves ==
  ASSUME Inv, NEW c \in Conns, HandlerEnds(c)
  PROVE  Inv'
<1> DEFINE q == "done"
<1>1. TypeOK'
  BY DEF Inv, TypeOK, HandlerEnds, Goes, Leave, claims, registry, Phases, Startup, Running, Finally
<1>2. Moves(c, q)
  BY DEF Inv, TypeOK, Moves, HandlerEnds, Goes, Leave, claims, Phases, Startup, Running, Finally
<1>3. SparesOthers(c)
  BY DEF SparesOthers, HandlerEnds, Goes, Leave, registry
<1>4. Suits(c, q)
  BY DEF Inv, TypeOK, NothingLeaks, Suits, UnderWay, HandlerEnds, Goes, Leave, registry, Phases, Startup, Running, Finally
<1>5. ClaimMoves(c, q)
  BY DEF ClaimMoves, HandlerEnds, Goes, Leave, claims, Attached
<1>6. closing' = closing /\ (closing => c \notin transports')
  BY DEF Inv, CloseReachesAll, HandlerEnds, Goes, Leave, registry
<1>7. QED
  BY <1>1, <1>2, <1>3, <1>4, <1>5, <1>6, HandlerStep

\* The callback, before close() and after it.
LEMMA CallbackStartsPreserves ==
  ASSUME Inv, NEW c \in Conns, CallbackStarts(c)
  PROVE  Inv'
<1> DEFINE q == IF closing THEN "done" ELSE "negotiating"
<1>1. TypeOK'
  <2>1. CASE closing
    BY <2>1 DEF Inv, TypeOK, CallbackStarts, Goes, claims, Phases
  <2>2. CASE ~closing
    BY <2>2 DEF Inv, TypeOK, CallbackStarts, Goes, claims, Phases, Startup
  <2>3. QED
    BY <2>1, <2>2
<1>2. Moves(c, q)
  BY DEF Moves, CallbackStarts, Goes, claims, Phases, Startup
<1>3. SparesOthers(c)
  BY DEF SparesOthers, CallbackStarts
<1>4. Suits(c, q)
  <2>1. CASE closing
    BY <2>1 DEF Inv, NothingLeaks, Suits, UnderWay, CallbackStarts, Goes, Startup, Running, Finally
  <2>2. CASE ~closing
    BY <2>2 DEF Suits, UnderWay, CallbackStarts, Startup
  <2>3. QED
    BY <2>1, <2>2
<1>5. ClaimMoves(c, q)
  BY DEF ClaimMoves, CallbackStarts, Goes, claims, Attached
<1>6. closing' = closing /\ (closing => c \notin transports')
  BY DEF CallbackStarts
<1>7. QED
  BY <1>1, <1>2, <1>3, <1>4, <1>5, <1>6, HandlerStep

\* The transport closes under a handler.
LEMMA HangUpPreserves ==
  ASSUME Inv, NEW c \in Conns, HangUp(c)
  PROVE  Inv'
<1>1. TypeOK'
  BY DEF Inv, TypeOK, HangUp, claims, registry
<1>2. NothingLeaks' /\ CloseReachesAll' /\ ClaimsAreLive'
  BY DEF Inv, NothingLeaks, CloseReachesAll, ClaimsAreLive, HangUp, claims, registry
<1>3. QED
  BY <1>1, <1>2 DEF Inv

\* A cancel is thrown into a handler, at a command, at another await of
\* Connection.run(), or outside it.
LEMMA CancelArrivesPreserves ==
  ASSUME Inv, NEW c \in Conns, CancelArrives(c)
  PROVE  Inv'
<1>1. closing' = closing /\ (closing => c \notin transports)
  BY DEF CancelArrives, Inv, CloseReachesAll, Startup, Running, Finally
<1>0. UNCHANGED << session, attached >> /\ cancels' = cancels \ {c}
  BY DEF CancelArrives
<1>2. CASE phase[c] = "command"
  <2>1. /\ phase' = [phase EXCEPT ![c] = "reading"]
        /\ UNCHANGED << holder, transports, registry >>
    BY <1>2 DEF CancelArrives, Running, Startup, Finally
  <2>2. TypeOK'
    BY <1>1, <1>0, <2>1 DEF Inv, TypeOK, registry, Phases, Running
  <2>3. Moves(c, "reading") /\ SparesOthers(c)
    BY <1>0, <2>1 DEF Moves, SparesOthers, registry, Phases, Running
  <2>4. Suits(c, "reading") /\ ClaimMoves(c, "reading")
    BY <1>2, <2>1 DEF Inv, NothingLeaks, Suits, ClaimMoves, UnderWay, registry, Running, Attached
  <2>5. QED
    BY <1>1, <2>1, <2>2, <2>3, <2>4, HandlerStep
<1>3. CASE phase[c] \in Running \ {"command"}
  <2>1. /\ phase' = [phase EXCEPT ![c] = "closing_session"]
        /\ holder' = Release(c)
        /\ UNCHANGED << transports, registry >>
    BY <1>3 DEF CancelArrives, Running, Startup, Finally
  <2>2. TypeOK'
    BY <1>1, <1>0, <2>1 DEF Inv, TypeOK, Release, registry, Phases, Finally
  <2>3. Moves(c, "closing_session") /\ SparesOthers(c)
    BY <1>0, <2>1 DEF Moves, SparesOthers, registry, Phases, Finally
  <2>4. Suits(c, "closing_session") /\ ClaimMoves(c, "closing_session")
    BY <1>3, <2>1 DEF Inv, NothingLeaks, Suits, ClaimMoves, UnderWay, registry, Finally
  <2>5. QED
    BY <1>1, <2>1, <2>2, <2>3, <2>4, HandlerStep
<1>4. CASE phase[c] \in Startup \cup Finally
  <2>1. /\ phase' = [phase EXCEPT ![c] = "done"]
        /\ Leave(c)
        /\ UNCHANGED holder
    BY <1>4 DEF CancelArrives, Running, Startup, Finally
  <2>2. TypeOK'
    BY <1>1, <1>0, <2>1 DEF Inv, TypeOK, Leave, Phases
  <2>3. Moves(c, "done") /\ SparesOthers(c)
    BY <1>0, <2>1 DEF Moves, SparesOthers, Leave, Phases
  <2>4. Suits(c, "done") /\ ClaimMoves(c, "done")
    BY <1>4, <2>1 DEF Suits, ClaimMoves, Leave, UnderWay, Startup, Running, Finally, Attached
  <2>5. closing => c \notin transports'
    BY <2>1 DEF Leave
  <2>6. QED
    BY <1>1, <2>2, <2>3, <2>4, <2>5, HandlerStep
<1>5. QED
  BY <1>2, <1>3, <1>4 DEF CancelArrives

\* close() itself: a transport that is not among the writers belongs to a
\* connection whose callback has not run.
LEMMA ClosePreserves ==
  ASSUME Inv, Close
  PROVE  Inv'
<1>1. transports' \subseteq transports \ writers
  BY DEF Close, WritersClosed
<1>2. TypeOK'
  BY <1>1 DEF Inv, TypeOK, Close, claims, registry
<1>3. NothingLeaks'
  BY <1>1 DEF Inv, NothingLeaks, Close, claims, registry
<1>4. ASSUME NEW c \in transports' PROVE phase[c] = "accepted"
  <2>1. c \in Conns /\ phase[c] \in Phases /\ c \in transports /\ c \notin writers
    BY <1>1, <1>4 DEF Inv, TypeOK
  <2>2. phase[c] \notin {"new", "done"} /\ phase[c] \notin Startup \cup Running \cup Finally
    BY <2>1 DEF Inv, NothingLeaks
  <2>3. QED
    BY <2>1, <2>2 DEF Phases
<1>5. CloseReachesAll' /\ ClaimsAreLive'
  BY <1>4 DEF Inv, CloseReachesAll, ClaimsAreLive, Close, claims
<1>6. QED
  BY <1>2, <1>3, <1>5 DEF Inv

\* Every step of PgServer and its connections preserves the four invariants.
LEMMA NextPreserves ==
  ASSUME Inv, [Next]_vars
  PROVE  Inv'
<1>1. ASSUME NEW c \in Conns, Accept(c) PROVE Inv'
  BY <1>1, AcceptPreserves
<1>2. ASSUME NEW c \in Conns, CallbackStarts(c) PROVE Inv'
  BY <1>2, CallbackStartsPreserves
<1>3. ASSUME NEW c \in Conns, Negotiated(c) PROVE Inv'
  BY <1>3, NegotiatedPreserves
<1>4. ASSUME NEW c \in Conns, StartupEnds(c) PROVE Inv'
  BY <1>4, StartupEndsPreserves
<1>5. ASSUME NEW c \in Conns, CancelRequest(c) PROVE Inv'
  BY <1>5, CancelRequestPreserves
<1>6. ASSUME NEW c \in Conns, SessionBuilt(c) PROVE Inv'
  BY <1>6, SessionBuiltPreserves
<1>7. ASSUME NEW c \in Conns, Authenticated(c) PROVE Inv'
  BY <1>7, AuthenticatedPreserves
<1>8. ASSUME NEW c \in Conns, Attach(c) PROVE Inv'
  BY <1>8, AttachPreserves
<1>9. ASSUME NEW c \in Conns, Serves(c) PROVE Inv'
  BY <1>9, ServesPreserves
<1>10. ASSUME NEW c \in Conns, RunEnds(c) PROVE Inv'
  BY <1>10, RunEndsPreserves
<1>11. ASSUME NEW c \in Conns, SessionClosed(c) PROVE Inv'
  BY <1>11, SessionClosedPreserves
<1>12. ASSUME NEW c \in Conns, HandlerEnds(c) PROVE Inv'
  BY <1>12, HandlerEndsPreserves
<1>13. ASSUME NEW c \in Conns, HangUp(c) PROVE Inv'
  BY <1>13, HangUpPreserves
<1>14. ASSUME NEW c \in Conns, CancelArrives(c) PROVE Inv'
  BY <1>14, CancelArrivesPreserves
<1>15. CASE Close
  BY <1>15, ClosePreserves
<1>16. CASE UNCHANGED vars
  BY <1>16 DEF Inv, TypeOK, NothingLeaks, CloseReachesAll, ClaimsAreLive, vars,
     claims, registry
<1>17. QED
  BY <1>1, <1>2, <1>3, <1>4, <1>5, <1>6, <1>7, <1>8, <1>9,
     <1>10, <1>11, <1>12, <1>13, <1>14, <1>15, <1>16 DEF Next

\* They hold of a server that has just been started.
LEMMA InitHolds == Init => Inv
  BY LifecycleAssumption DEF Init, Inv, TypeOK, NothingLeaks, CloseReachesAll,
     ClaimsAreLive, Phases, Startup, Running, Finally

\* The conjunction of the four invariants holds initially and is preserved by
\* every step of PgServer and its connections.
THEOREM LifecycleInvariance == Spec => []Inv
<1>1. Inv /\ [Next]_vars => Inv'
  BY NextPreserves
<1>2. QED
  BY <1>1, InitHolds, PTL DEF Spec

\* The variables of PgServer and Session keep their types.
THEOREM LifecycleTypes == Spec => []TypeOK
BY LifecycleInvariance, PTL DEF Inv

\* On every path out of a handler its transport, its registrations and its claim
\* on a session are gone, for any number of connections.
THEOREM NoLeaks == Spec => []NothingLeaks
BY LifecycleInvariance, PTL DEF Inv

\* After PgServer.close() no transport is open that its callback will not close.
THEOREM ShutdownReachesAll == Spec => []CloseReachesAll
BY LifecycleInvariance, PTL DEF Inv

\* A claim on a session never outlives the connection that it is for.
THEOREM LiveClaims == Spec => []ClaimsAreLive
BY LifecycleInvariance, PTL DEF Inv

\* A session is released by the connection it names, on its way out of the
\* awaits at which the session worked for it, and by no other.
LEMMA ReleaseIsOwn ==
  ASSUME Inv, NEW c \in Conns, holder' = Release(c), phase'[c] \notin Attached,
         NEW s \in Sessions, holder[s] # Nobody, holder'[s] = Nobody
  PROVE  phase'[holder[s]] \notin Attached
<1>1. holder \in [Sessions -> Conns \cup {Nobody}]
  BY DEF Inv, TypeOK
<1>2. holder'[s] = IF s = session[c] /\ holder[s] = c THEN Nobody ELSE holder[s]
  BY <1>1 DEF Release
<1>3. holder[s] = c
  BY <1>2
<1>4. QED
  BY <1>3

\* A refused connection, and one that fails before it was attached, never takes
\* the session away from the connection that has it.
THEOREM ClaimsAreKept == Spec => ClaimKept
<1>1. ASSUME Inv, [Next]_vars, NEW s \in Sessions, holder[s] # Nobody, holder'[s] = Nobody
      PROVE  phase'[holder[s]] \notin Attached
  <2>0. phase \in [Conns -> Phases] /\ holder \in [Sessions -> Conns \cup {Nobody}]
    BY <1>1 DEF Inv, TypeOK
  <2>1. holder' # holder
    BY <1>1
  <2>2. ASSUME NEW c \in Conns, SessionBuilt(c) PROVE phase'[holder[s]] \notin Attached
    <3>1. holder' = Release(c) /\ phase' = [phase EXCEPT ![c] = "closing_session"]
      BY <2>1, <2>2 DEF SessionBuilt, Goes
    <3>2. phase'[c] \notin Attached
      BY <2>0, <3>1 DEF Attached
    <3>3. QED
      BY <1>1, <3>1, <3>2, ReleaseIsOwn
  <2>3. ASSUME NEW c \in Conns, RunEnds(c) PROVE phase'[holder[s]] \notin Attached
    <3>1. holder' = Release(c) /\ phase' = [phase EXCEPT ![c] = "closing_session"]
      BY <2>3 DEF RunEnds, Goes
    <3>2. phase'[c] \notin Attached
      BY <2>0, <3>1 DEF Attached
    <3>3. QED
      BY <1>1, <3>1, <3>2, ReleaseIsOwn
  <2>4. ASSUME NEW c \in Conns, CancelArrives(c) PROVE phase'[holder[s]] \notin Attached
    <3>1. holder' = Release(c) /\ phase' = [phase EXCEPT ![c] = "closing_session"]
      BY <2>1, <2>4 DEF CancelArrives
    <3>2. phase'[c] \notin Attached
      BY <2>0, <3>1 DEF Attached
    <3>3. QED
      BY <1>1, <3>1, <3>2, ReleaseIsOwn
  <2>5. ASSUME NEW c \in Conns, Attach(c) PROVE FALSE
    BY <1>1, <2>0, <2>5, LifecycleAssumption DEF Attach
  <2>6. ASSUME NEW c \in Conns PROVE
          ~(Accept(c) \/ CallbackStarts(c) \/ Negotiated(c) \/ StartupEnds(c) \/ CancelRequest(c)
            \/ Authenticated(c) \/ Serves(c) \/ SessionClosed(c) \/ HandlerEnds(c) \/ HangUp(c))
    BY <2>1 DEF Accept, CallbackStarts, Negotiated, StartupEnds, CancelRequest,
       Authenticated, Serves, SessionClosed, HandlerEnds, HangUp, claims
  <2>7. ~Close /\ ~UNCHANGED vars
    BY <2>1 DEF Close, claims, vars
  <2>8. QED
    BY <1>1, <2>2, <2>3, <2>4, <2>5, <2>6, <2>7 DEF Next
<1>2. Inv /\ [Next]_vars =>
        [\A s \in Sessions :
           (holder[s] # Nobody /\ holder'[s] = Nobody) => phase'[holder[s]] \notin Attached]_vars
  BY <1>1
<1>3. QED
  BY <1>2, LifecycleInvariance, PTL DEF Spec, ClaimKept
-----------------------------------------------------------------------------
\* start() returns when the thread has reported, which it does once, after the
\* only Bind there is.
ThreadInv ==
  /\ ready \in BOOLEAN /\ port \in BOOLEAN /\ startupError \in BOOLEAN
  /\ ready => host \notin {"new", "binding", "reporting"}
  /\ host \notin {"new", "binding"} => startupError = ~port
  /\ caller \notin {"new", "starting"} => ready
  /\ StartTellsTheTruth

\* What start() and stop() and the thread do preserves it.
LEMMA ThreadStep ==
  ASSUME ThreadInv,
         \/ StartCalled \/ StopCalled \/ HostBegins \/ StopRequested
         \/ CallerSteps \/ HostSteps
  PROVE  ThreadInv'
<1> USE DEF ThreadInv, StartTellsTheTruth
<1>1. CASE StartCalled \/ HostBegins
  BY <1>1 DEF StartCalled, HostBegins
<1>2. CASE StopCalled \/ StopRequested
  BY <1>2 DEF StopCalled, StopRequested
<1>3. CASE CallerSteps
  <2>1. CASE StartReturns
    <3>1. host \notin {"new", "binding"} /\ startupError = ~port
      BY <2>1 DEF StartReturns
    <3>2. CASE startupError
      BY <2>1, <3>1, <3>2 DEF StartReturns
    <3>3. CASE ~startupError
      BY <2>1, <3>1, <3>3 DEF StartReturns
    <3> QED BY <3>2, <3>3
  <2>2. CASE CloseQueued \/ Joined
    BY <2>2 DEF CloseQueued, Joined
  <2> QED BY <1>3, <2>1, <2>2 DEF CallerSteps
<1>4. CASE HostSteps
  <2>1. ASSUME NEW ok \in BOOLEAN, Bind(ok) PROVE ThreadInv'
    BY <2>1 DEF Bind
  <2>2. CASE SetReady
    BY <2>2 DEF SetReady
  <2>3. CASE ServeForever \/ Gathered
    BY <2>3 DEF ServeForever, Gathered
  <2>4. CASE CloseRuns
    BY <2>4 DEF CloseRuns
  <2>5. CASE WaitedClosed \/ LoopCloses
    BY <2>5 DEF WaitedClosed, LoopCloses
  <2> QED BY <1>4, <2>1, <2>2, <2>3, <2>4, <2>5 DEF HostSteps
<1> QED BY <1>1, <1>2, <1>3, <1>4
-----------------------------------------------------------------------------
\* The client may have sent f, and is still the honest one.
Entitled(f) ==
  f.body \notin {Garbled, Malformed} =>
    f.body.password \in {password, Empty} \/ (plugin # "cleartext" /\ f.body.salt = 0)
AsItsLibrary(f) ==
  /\ f.tag = "p"
  /\ at = "password" => f.body = Response(password, Salt, NoFrame)
  /\ at = "sasl_first" => f.body \in {First(""), First("user")}
  /\ at = "sasl_final" => f.body = Response(password, Salt, bare)

\* The plugin that asks, and what is known of the message that is awaited.
Awaits ==
  /\ awaited > 0 => at \in Reads \cup AuthReads
  /\ at = "password" => plugin \in {"cleartext", "md5"}
  /\ at \in {"sasl_first", "sasl_final"} => plugin = "scram"
  /\ at = "trust" => plugin = "trust"
  /\ at = "sasl_final" => bare \in {First(""), First("user")}
  /\ at = "sasl_final" /\ awaited = 0 => frame.body = bare
  /\ awaited > 0 /\ at \in {"password", "sasl_final"} => Entitled(frame)
  /\ awaited > 0 /\ at \in AuthReads /\ honest => AsItsLibrary(frame)
Configured ==
  /\ expected \in Passwords \cup {NoPassword} /\ password \in Passwords
  /\ plugin \in {"trust", "cleartext", "md5", "scram"}
ExchangeInv == Configured /\ Awaits /\ LengthsAreHonest /\ AdmitsWhoProves

\* The limits and the length fields are numbers.
LEMMA Numbers == MaxStartup \in Nat /\ MaxMessage \in Nat /\ Lengths \subseteq Int
  BY HandshakeAssumption

\* The handshake starts with nothing read.
LEMMA ExchangeStarts == HandshakeInit => ExchangeInv
<1> SUFFICES ASSUME HandshakeInit PROVE ExchangeInv
  OBVIOUS
<1>1. Configured
  BY HandshakeAssumption, Zenon DEF HandshakeInit, Configured
<1>2. at = "first_packet" /\ frame = NoFrame /\ awaited = 0
  BY DEF HandshakeInit
<1>3. Awaits
  <2>1. ~(awaited > 0)
    BY <1>2
  <2> QED BY <1>2, <2>1 DEF Awaits
<1>5. LengthsAreHonest
  BY <1>2, Numbers DEF LengthsAreHonest
<1>4. AdmitsWhoProves
  BY <1>2 DEF AdmitsWhoProves
<1> QED BY <1>1, <1>3, <1>4, <1>5 DEF ExchangeInv

\* The server waits for a payload only within its limit.
LEMMA HeaderLengths ==
  ASSUME LengthsAreHonest, NEW f \in Messages, ReadHeader(f)
  PROVE  LengthsAreHonest'
<1>1. /\ f.length \in Int /\ at \in Reads \cup AuthReads
      /\ at \in Reads => f.tag \notin {"p", "other"}
      /\ at \notin Reads => f.tag \in {"p", "other"}
  BY Numbers DEF Messages, Packets, ReadHeader
<1>2. MaxStartup \in Nat /\ MaxMessage \in Nat
  BY Numbers
<1>3. CASE ~CheckLength(f.length, HeaderSize, Limit)
  BY <1>2, <1>3 DEF ReadHeader, LengthsAreHonest
<1>4. CASE CheckLength(f.length, HeaderSize, Limit)
  <2>1. /\ f.tag \notin {"p", "other"} => 8 <= f.length /\ f.length <= MaxStartup
        /\ f.tag \in {"p", "other"} => 4 <= f.length
        /\ f.length <= MaxMessage
    BY <1>1, <1>2, <1>4 DEF CheckLength, HeaderSize, Limit
  <2>2. frame' \in {f, NoFrame}
    BY <1>4 DEF ReadHeader, Kept
  <2>3. awaited' \in 0..MaxMessage
    <3>1. HeaderSize \in {4, 8}
      BY DEF HeaderSize
    <3>2. awaited' = 0 \/ (f.length > HeaderSize /\ awaited' = f.length - HeaderSize)
      BY <1>4 DEF ReadHeader
    <3> QED BY <1>1, <1>2, <2>1, <3>1, <3>2
  <2> QED BY <1>1, <2>1, <2>2, <2>3 DEF LengthsAreHonest
<1> QED BY <1>3, <1>4

\* A payload that has arrived is not waited for any more.
LEMMA PayloadLengths ==
  ASSUME LengthsAreHonest, ReadPayload
  PROVE  LengthsAreHonest'
<1>1. frame' \in {frame, NoFrame} /\ awaited' = 0
  BY DEF ReadPayload, Kept
<1> QED BY <1>1, Numbers DEF LengthsAreHonest

\* Nobody can make the responses the plugins look for out of bytes that are no
\* text or no SCRAM message.
LEMMA ResponsesAreText ==
  ASSUME NEW p \in Passwords, NEW first \in {NoFrame, First(""), First("user")}
  PROVE  Response(p, Salt, first) \notin {Garbled, Malformed}
  BY HandshakeAssumption

\* What a response holds, and that a salt of this exchange is no older one.
LEMMA ResponseHolds ==
  ASSUME NEW p, NEW s, NEW first
  PROVE  Response(p, s, first).password = p /\ Response(p, s, first).salt = s
  BY DEF Response
LEMMA SaltIsNew == Salt # 0
  BY DEF Salt

\* The password that SCRAM verifies is one.
LEMMA ScramPassword == Configured => ScramExpected \in Passwords
  BY HandshakeAssumption DEF Configured, ScramExpected

\* The message f that is looked at, whole: who may have sent it, and whether it
\* is what the client's library sends.
Deserves(f, empty) ==
  /\ at \in {"password", "sasl_final"} /\ ~empty => Entitled(f)
  /\ at \in AuthReads /\ honest' => AsItsLibrary(f) /\ ~empty

\* A password or an MD5 response admits who knows the password, and turns no
\* honest client away that does.
LEMMA PasswordDecides ==
  ASSUME Configured, Awaits, NEW f, NEW empty \in BOOLEAN, at = "password",
         PasswordResponse(f, empty), Deserves(f, empty), UNCHANGED config
  PROVE  at' \in {"crashed", "admitted", "refused"} /\ AdmitsWhoProves'
<1>1. /\ plugin \in {"cleartext", "md5"} /\ plugin' = plugin /\ expected' = expected
      /\ password' = password
  BY DEF Awaits, config
<1> DEFINE response == IF empty THEN Response(Empty, 0, NoFrame) ELSE f.body
           right == \/ Unchecked
                    \/ plugin = "cleartext" /\ response # Malformed /\ response.password = expected
                    \/ plugin = "md5" /\ response = Response(expected, Salt, NoFrame)
<1>2. at' = IF Unusable(f, empty) THEN "crashed" ELSE IF right THEN "admitted" ELSE "refused"
  BY DEF PasswordResponse, Ends
<1>3. ASSUME right, ~Unusable(f, empty), ~Unchecked
      PROVE  expected \in {password, Empty}
  <2>1. expected \in Passwords
    BY <1>3 DEF Configured, Unchecked
  <2>2. CASE empty
    BY <1>1, <1>3, <2>2, ResponseHolds, SaltIsNew
  <2>3. CASE ~empty
    <3>1. f.body # Garbled
      BY <1>3, <2>3 DEF Unusable
    <3>2. f.body # Malformed
      BY <1>3, <2>1, <2>3, ResponsesAreText
    <3>3. f.body.password \in {password, Empty} \/ (plugin # "cleartext" /\ f.body.salt = 0)
      BY <2>3, <3>1, <3>2 DEF Deserves, Entitled
    <3> QED BY <1>1, <1>3, <2>3, <3>3, ResponseHolds, SaltIsNew
  <2> QED BY <2>2, <2>3
<1>4. ASSUME ~right, ~Unusable(f, empty), honest'
      PROVE  password # expected
  <2>1. ~empty /\ f.body = Response(password, Salt, NoFrame)
    BY <1>4 DEF Deserves, AsItsLibrary, AuthReads
  <2>2. f.body # Malformed
    BY <2>1, ResponsesAreText DEF Configured
  <2>3. f.body.password = password
    BY <2>1, ResponseHolds
  <2> QED BY <1>1, <1>4, <2>1, <2>2, <2>3
<1> HIDE DEF right
<1> QED BY <1>1, <1>2, <1>3, <1>4 DEF AdmitsWhoProves, Unchecked

\* So does the SCRAM proof.
LEMMA ProofDecides ==
  ASSUME Configured, Awaits, NEW f, NEW empty \in BOOLEAN, at = "sasl_final",
         SaslResponse(f, empty), Deserves(f, empty), UNCHANGED config
  PROVE  at' \in {"crashed", "admitted", "refused"} /\ AdmitsWhoProves'
<1>1. /\ plugin = "scram" /\ plugin' = plugin /\ expected' = expected
      /\ password' = password /\ bare \in {First(""), First("user")}
  BY DEF Awaits, config
<1>2. at' = IF Unusable(f, empty) THEN "crashed"
            ELSE IF ~empty /\ Verifies(f.body) THEN "admitted" ELSE "refused"
  BY DEF SaslResponse, Ends
<1>3. ASSUME ~empty, Verifies(f.body), ~Unusable(f, empty)
      PROVE  ScramExpected \in {password, Empty}
  <2>1. f.body = Response(ScramExpected, Salt, bare)
    BY <1>3 DEF Verifies
  <2>2. f.body \notin {Garbled, Malformed}
    BY <1>1, <2>1, ResponsesAreText, ScramPassword
  <2>3. f.body.password \in {password, Empty} \/ f.body.salt = 0
    BY <1>3, <2>2 DEF Deserves, Entitled
  <2>4. f.body.password = ScramExpected /\ f.body.salt = Salt
    BY <2>1, ResponseHolds
  <2> QED BY <2>3, <2>4, SaltIsNew
<1>4. ASSUME empty \/ ~Verifies(f.body), honest'
      PROVE  password # expected
  <2>1. ~empty /\ f.body = Response(password, Salt, bare)
    BY <1>4 DEF Deserves, AsItsLibrary, AuthReads
  <2>2. password # ScramExpected
    BY <1>4, <2>1 DEF Verifies
  <2>3. password # NoPassword
    BY HandshakeAssumption DEF Configured
  <2> QED BY <2>2, <2>3 DEF ScramExpected
<1>5. expected # NoPassword => ScramExpected = expected
  BY DEF ScramExpected
<1> QED BY <1>1, <1>2, <1>3, <1>4, <1>5 DEF AdmitsWhoProves

\* Where the handshake is after a message was looked at.
Decided(f) ==
  /\ at' \notin {"password", "sasl_first", "trust"}
  /\ at' = "sasl_final" => /\ plugin = "scram" /\ frame' = f
                           /\ f.body = bare' /\ bare' \in {First(""), First("user")}
  /\ AdmitsWhoProves'

\* Looking at a message, whole, whatever it is.
LEMMA HandlesDecides ==
  ASSUME Configured, Awaits, NEW f, NEW empty \in BOOLEAN, Handles(f, empty),
         Deserves(f, empty), UNCHANGED config, frame' = Kept(f)
  PROVE  Decided(f)
<1>1. CASE at \in Reads /\ Negotiate(f, empty)
  <2>1. at' \in {"second_packet", "crashed", "cancel_request", "fatal", "negotiated"}
    BY <1>1 DEF Negotiate, Ends
  <2> QED BY <2>1 DEF Decided, AdmitsWhoProves
<1>2. CASE at = "password" /\ PasswordResponse(f, empty)
  <2>1. at' \in {"crashed", "admitted", "refused"} /\ AdmitsWhoProves'
    BY <1>2, PasswordDecides
  <2> QED BY <2>1 DEF Decided
<1>3. CASE at = "sasl_first" /\ SaslInitialResponse(f, empty)
  <2>1. plugin = "scram" /\ Malformed \notin {First(""), First("user")}
    BY <1>3, HandshakeAssumption DEF Awaits
  <2>2. SetClientFirst(f.body) = Malformed \/ SetClientFirst(f.body) = f.body
    BY DEF SetClientFirst
  <2>3. f.body \in {First(""), First("user")} <=> SetClientFirst(f.body) # Malformed
    BY <2>1 DEF SetClientFirst, ScramAccepts
  <2>4. CASE empty \/ Unusable(f, empty)
    <3>1. at' = "crashed"
      BY <1>3, <2>4 DEF SaslInitialResponse, Ends
    <3> QED BY <3>1 DEF Decided, AdmitsWhoProves
  <2>5. CASE ~(empty \/ Unusable(f, empty)) /\ SetClientFirst(f.body) = Malformed
    <3>1. at' = "refused"
      BY <1>3, <2>5 DEF SaslInitialResponse, Ends
    <3>2. ~honest'
      BY <1>3, <2>3, <2>5 DEF Deserves, AsItsLibrary, AuthReads
    <3> QED BY <3>1, <3>2 DEF Decided, AdmitsWhoProves
  <2>6. CASE ~(empty \/ Unusable(f, empty)) /\ SetClientFirst(f.body) # Malformed
    <3>1. at' = "sasl_final" /\ bare' = f.body
      BY <1>3, <2>2, <2>6 DEF SaslInitialResponse
    <3>2. frame' = f
      BY <3>1 DEF Kept, AuthReads
    <3> QED BY <2>1, <2>3, <2>6, <3>1, <3>2 DEF Decided, AdmitsWhoProves
  <2> QED BY <2>4, <2>5, <2>6
<1>4. CASE at = "sasl_final" /\ SaslResponse(f, empty)
  <2>1. at' \in {"crashed", "admitted", "refused"} /\ AdmitsWhoProves'
    BY <1>4, ProofDecides
  <2> QED BY <2>1 DEF Decided
<1> QED BY <1>1, <1>2, <1>3, <1>4 DEF Handles

\* With a message looked at, nothing is awaited.
LEMMA DecidedHolds ==
  ASSUME Configured, NEW f, Decided(f), UNCHANGED config, awaited' = 0
  PROVE  Configured' /\ Awaits' /\ AdmitsWhoProves'
<1>1. plugin' = plugin /\ expected' = expected /\ password' = password
  BY DEF config
<1>2. Configured'
  BY <1>1 DEF Configured
<1>3. ~(awaited' > 0)
  OBVIOUS
<1>4. Awaits'
  BY <1>1, <1>3 DEF Decided, Awaits
<1> QED BY <1>2, <1>4 DEF Decided

\* What the client had to know to send a message, and did to be honest.
LEMMA HeaderDeserves ==
  ASSUME Awaits, NEW f, awaited = 0, CanSend(f), honest' = Honest(f)
  PROVE  /\ at \in {"password", "sasl_final"} => Entitled(f)
         /\ at \in AuthReads /\ honest' => AsItsLibrary(f) /\ f.length > 4
<1>1. at \in {"password", "sasl_final"} => Entitled(f)
  BY DEF CanSend, Entitled
<1>2. at = "sasl_final" => frame.body = bare
  BY DEF Awaits
<1>3. at \in AuthReads /\ honest' => AsItsLibrary(f) /\ f.length > 4
  BY <1>2 DEF Honest, AsItsLibrary
<1> QED BY <1>1, <1>3

\* Reading a header, and what needs no payload.
LEMMA HeaderStep ==
  ASSUME ExchangeInv, NEW f \in Messages, ReadHeader(f)
  PROVE  ExchangeInv'
<1>1. Configured /\ Awaits /\ LengthsAreHonest'
  BY HeaderLengths DEF ExchangeInv
<1>2. /\ awaited = 0 /\ at \in Reads \cup AuthReads /\ CanSend(f) /\ honest' = Honest(f)
      /\ UNCHANGED config
  BY DEF ReadHeader
<1>3. plugin' = plugin /\ expected' = expected /\ password' = password
  BY <1>2 DEF config
<1>4. /\ at \in {"password", "sasl_final"} => Entitled(f)
      /\ at \in AuthReads /\ honest' => AsItsLibrary(f) /\ f.length > 4
  BY <1>1, <1>2, HeaderDeserves
<1>5. CASE ~CheckLength(f.length, HeaderSize, Limit)
  <2>1. at' = "fatal" /\ awaited' = 0
    BY <1>5 DEF ReadHeader, Ends
  <2>2. Decided(f)
    BY <2>1 DEF Decided, AdmitsWhoProves
  <2> QED BY <1>1, <1>2, <2>1, <2>2, DecidedHolds DEF ExchangeInv
<1>6. CASE CheckLength(f.length, HeaderSize, Limit) /\ f.length > HeaderSize
  <2>1. frame' = f /\ UNCHANGED << at, bare >> /\ awaited' = f.length - HeaderSize
    BY <1>6 DEF ReadHeader
  <2>2. Configured'
    BY <1>1, <1>3 DEF Configured
  <2>3. awaited' # 0
    <3>1. f.length \in Int
      BY Numbers DEF Messages, Packets
    <3>2. HeaderSize \in {4, 8}
      BY DEF HeaderSize
    <3> QED BY <1>6, <2>1, <3>1, <3>2
  <2>4. AsItsLibrary(f)' <=> AsItsLibrary(f)
    BY <1>3, <2>1 DEF AsItsLibrary
  <2>5. Entitled(f)' <=> Entitled(f)
    BY <1>3 DEF Entitled
  <2>6. Awaits'
    BY <1>1, <1>2, <1>3, <1>4, <2>1, <2>3, <2>4, <2>5 DEF Awaits
  <2>7. AdmitsWhoProves'
    BY <1>2, <2>1 DEF AdmitsWhoProves, Reads, AuthReads
  <2> QED BY <1>1, <2>2, <2>6, <2>7 DEF ExchangeInv
<1>7. CASE CheckLength(f.length, HeaderSize, Limit) /\ ~(f.length > HeaderSize)
  <2>1. Handles(f, TRUE) /\ frame' = Kept(f) /\ awaited' = 0
    BY <1>7 DEF ReadHeader
  <2>2. at \in AuthReads => HeaderSize = 4
    BY DEF AuthReads, Reads, HeaderSize
  <2>3. Deserves(f, TRUE)
    BY <1>4, <1>7, <2>2 DEF Deserves
  <2>4. Decided(f)
    BY <1>1, <1>2, <2>1, <2>3, HandlesDecides
  <2> QED BY <1>1, <1>2, <2>1, <2>4, DecidedHolds DEF ExchangeInv
<1> QED BY <1>5, <1>6, <1>7

\* The payload has arrived, and the message is looked at.
LEMMA PayloadStep ==
  ASSUME ExchangeInv, ReadPayload
  PROVE  ExchangeInv'
<1>1. Configured /\ Awaits /\ LengthsAreHonest'
  BY PayloadLengths DEF ExchangeInv
<1>2. /\ awaited > 0 /\ awaited' = 0 /\ Handles(frame, FALSE) /\ frame' = Kept(frame)
      /\ UNCHANGED config /\ honest' = honest
  BY DEF ReadPayload
<1>3. Deserves(frame, FALSE)
  BY <1>1, <1>2 DEF Awaits, Deserves
<1>4. Decided(frame)
  BY <1>1, <1>2, <1>3, HandlesDecides
<1> QED BY <1>1, <1>2, <1>4, DecidedHolds DEF ExchangeInv

\* The plugin's challenge; and the plugin that asks for nothing.
LEMMA PluginStep ==
  ASSUME ExchangeInv, BeginAuthentication \/ Trust
  PROVE  ExchangeInv'
<1>1. /\ plugin' = plugin /\ expected' = expected /\ password' = password
      /\ UNCHANGED << frame, awaited, bare, honest >>
  BY DEF BeginAuthentication, Trust, config
<1>2. Configured' /\ LengthsAreHonest'
  BY <1>1 DEF ExchangeInv, Configured, LengthsAreHonest
<1>3. at \in {"negotiated", "trust"} /\ ~(awaited > 0)
  BY DEF BeginAuthentication, Trust, ExchangeInv, Awaits, Reads, AuthReads
<1>4. ~(awaited' > 0)
  BY <1>1, <1>3
<1>5. plugin \in {"trust", "cleartext", "md5", "scram"}
  BY DEF ExchangeInv, Configured
<1>6. CASE BeginAuthentication
  <2>1. at' = CASE plugin = "trust" -> "trust" [] plugin = "scram" -> "sasl_first" [] OTHER -> "password"
    BY <1>6 DEF BeginAuthentication
  <2>2. /\ at' \in {"trust", "sasl_first", "password"}
        /\ at' = "trust" => plugin = "trust"
        /\ at' = "sasl_first" => plugin = "scram"
        /\ at' = "password" => plugin \in {"cleartext", "md5"}
    BY <1>5, <2>1
  <2>3. Awaits'
    BY <1>1, <1>4, <2>2 DEF Awaits
  <2>4. AdmitsWhoProves'
    BY <2>2 DEF AdmitsWhoProves
  <2> QED BY <1>2, <2>3, <2>4 DEF ExchangeInv
<1>7. CASE Trust
  <2>1. at' = "admitted" /\ plugin' = "trust"
    BY <1>1, <1>7 DEF Trust, ExchangeInv, Awaits
  <2>2. Awaits'
    BY <1>4, <2>1 DEF Awaits
  <2>3. AdmitsWhoProves'
    BY <2>1 DEF AdmitsWhoProves
  <2> QED BY <1>2, <2>2, <2>3 DEF ExchangeInv
<1> QED BY <1>6, <1>7

\* What leaves the handshake alone.
LEMMA ExchangeRests == ExchangeInv /\ UNCHANGED exchange => ExchangeInv'
<1> SUFFICES ASSUME ExchangeInv, UNCHANGED exchange PROVE ExchangeInv'
  OBVIOUS
<1>1. /\ plugin' = plugin /\ expected' = expected /\ password' = password
      /\ UNCHANGED << at, frame, awaited, bare, honest >>
  BY DEF exchange, config
<1>2. Configured' /\ LengthsAreHonest'
  BY <1>1 DEF ExchangeInv, Configured, LengthsAreHonest
<1>3. Entitled(frame)' <=> Entitled(frame)
  BY <1>1 DEF Entitled
<1>4. AsItsLibrary(frame)' <=> AsItsLibrary(frame)
  BY <1>1 DEF AsItsLibrary
<1>5. Awaits'
  BY <1>1, <1>3, <1>4 DEF ExchangeInv, Awaits
<1>6. AdmitsWhoProves'
  BY <1>1 DEF ExchangeInv, AdmitsWhoProves
<1> QED BY <1>2, <1>5, <1>6 DEF ExchangeInv
-----------------------------------------------------------------------------
\* The whole program.
EmbeddedInv == Inv /\ ThreadInv /\ ExchangeInv

\* The code that runs the server, and its caller.
ThreadActs ==
  \/ StartCalled \/ StopCalled \/ HostBegins \/ StopRequested
  \/ CallerSteps \/ HostSteps

\* What it does to the server: close() it, or cancel the handlers that are left.
LEMMA ThreadActsOnServer ==
  ASSUME Inv, ThreadActs
  PROVE  UNCHANGED exchange /\ Inv'
<1>1. CASE CloseRuns
  <2>1. Close /\ UNCHANGED exchange
    BY <1>1 DEF CloseRuns
  <2> QED BY <2>1, ClosePreserves
<1>2. CASE WaitedClosed
  <2>1. /\ UNCHANGED << phase, claims, transports, registry, closing >>
        /\ cancels' \in {cancels, cancels \cup tasks} /\ UNCHANGED exchange
    BY <1>2 DEF WaitedClosed
  <2>2. cancels \subseteq Conns /\ tasks \subseteq Conns
    BY DEF Inv, TypeOK
  <2>3. cancels' \subseteq Conns
    BY <2>1, <2>2
  <2> QED BY <2>1, <2>3 DEF Inv, TypeOK, NothingLeaks, CloseReachesAll, ClaimsAreLive,
             claims, registry
<1>3. CASE ~CloseRuns /\ ~WaitedClosed
  <2>1. UNCHANGED vars /\ UNCHANGED exchange
    BY <1>3 DEF ThreadActs, CallerSteps, HostSteps, StartCalled, StopCalled, HostBegins,
       StopRequested, StartReturns, CloseQueued, Joined, Bind, SetReady, ServeForever,
       Gathered, LoopCloses
  <2> QED BY <2>1, NextPreserves
<1> QED BY <1>1, <1>2, <1>3

\* What a handler, or the client behind it, does.
LEMMA ConnectionActs ==
  ASSUME EmbeddedInv, NEW c \in Conns,
         HandshakeStep(c) \/ HandlerResumes(c) \/ ClientActs(c)
  PROVE  Inv' /\ ExchangeInv' /\ UNCHANGED thread
<1>1. UNCHANGED thread
  BY DEF HandshakeStep, HandlerResumes, ClientActs
<1>2. CASE HandshakeStep(c)
  <2>1. [Next]_vars
    <3>1. \/ UNCHANGED vars \/ Negotiated(c) \/ CancelRequest(c) \/ StartupEnds(c)
          \/ Authenticated(c) \/ RunEnds(c)
      BY <1>2 DEF HandshakeStep, Follows
    <3> QED BY <3>1 DEF Next
  <2>2. (\E f \in Messages : ReadHeader(f)) \/ ReadPayload \/ Trust
    BY <1>2 DEF HandshakeStep
  <2>3. ExchangeInv'
    BY <2>2, HeaderStep, PayloadStep, PluginStep DEF EmbeddedInv
  <2> QED BY <1>1, <2>1, <2>3, NextPreserves DEF EmbeddedInv
<1>3. CASE HandlerResumes(c)
  <2>1. [Next]_vars
    <3>1. \/ SessionBuilt(c) \/ CallbackStarts(c) \/ SessionClosed(c) \/ HandlerEnds(c)
          \/ CancelArrives(c) \/ StartupEnds(c) \/ RunEnds(c)
      BY <1>3 DEF HandlerResumes
    <3> QED BY <3>1 DEF Next
  <2>2. BeginAuthentication \/ UNCHANGED exchange
    BY <1>3 DEF HandlerResumes
  <2> QED BY <1>1, <2>1, <2>2, NextPreserves, PluginStep, ExchangeRests DEF EmbeddedInv
<1>4. CASE ClientActs(c)
  <2>1. [Next]_vars
    <3>1. \/ Accept(c) \/ Attach(c) \/ Serves(c) \/ HangUp(c) \/ StartupEnds(c)
          \/ RunEnds(c)
      BY <1>4 DEF ClientActs
    <3> QED BY <3>1 DEF Next
  <2>2. UNCHANGED exchange
    BY <1>4 DEF ClientActs
  <2> QED BY <1>1, <2>1, <2>2, NextPreserves, ExchangeRests DEF EmbeddedInv
<1> QED BY <1>2, <1>3, <1>4

\* What leaves the thread's variables alone.
LEMMA ThreadRests == ThreadInv /\ UNCHANGED thread => ThreadInv'
  BY DEF ThreadInv, StartTellsTheTruth, thread

\* In a thread, in run() or in a block, with whatever connections and clients:
\* the invariants of the server, of the hand-over between the two threads and of
\* the handshake hold together.
THEOREM EmbeddedInvariance == EmbeddedSpec => []EmbeddedInv
<1>1. EmbeddedInit => EmbeddedInv
  <2> SUFFICES ASSUME EmbeddedInit PROVE EmbeddedInv
    OBVIOUS
  <2>1. Inv /\ ExchangeInv
    BY InitHolds, ExchangeStarts DEF EmbeddedInit
  <2>2. ThreadInv
    BY DEF EmbeddedInit, ThreadInv, StartTellsTheTruth
  <2> QED BY <2>1, <2>2 DEF EmbeddedInv
<1>2. EmbeddedInv /\ [EmbeddedNext]_embedded => EmbeddedInv'
  <2> SUFFICES ASSUME EmbeddedInv, [EmbeddedNext]_embedded PROVE EmbeddedInv'
    OBVIOUS
  <2>1. CASE ThreadActs
    <3>1. UNCHANGED exchange /\ Inv'
      BY <2>1, ThreadActsOnServer DEF EmbeddedInv
    <3>2. ThreadInv'
      BY <2>1, ThreadStep DEF EmbeddedInv, ThreadActs
    <3> QED BY <3>1, <3>2, ExchangeRests DEF EmbeddedInv
  <2>2. ASSUME NEW c \in Conns, HandshakeStep(c) \/ HandlerResumes(c) \/ ClientActs(c)
        PROVE  EmbeddedInv'
    BY <2>2, ConnectionActs, ThreadRests DEF EmbeddedInv
  <2>3. CASE UNCHANGED embedded
    <3>1. UNCHANGED vars /\ UNCHANGED exchange /\ UNCHANGED thread
      BY <2>3 DEF embedded
    <3> QED BY <3>1, NextPreserves, ThreadRests, ExchangeRests DEF EmbeddedInv
  <2>4. EmbeddedNext => ThreadActs \/ \E c \in Conns : HandshakeStep(c) \/ HandlerResumes(c) \/ ClientActs(c)
    BY DEF EmbeddedNext, ThreadActs
  <2> QED BY <2>1, <2>2, <2>3, <2>4
<1> QED BY <1>1, <1>2, PTL DEF EmbeddedSpec

\* start() returns only when the server listens and raises only what the thread
\* failed with, however the two threads are interleaved.
THEOREM StartIsTruthful == EmbeddedSpec => []StartTellsTheTruth
  BY EmbeddedInvariance, PTL DEF EmbeddedInv, ThreadInv

\* For any passwords, plugins and lengths: nobody is admitted as a user who has a
\* password without showing it, and no honest client that knows it is turned
\* away.  It says nothing of users without one, whom SCRAM admits with the empty
\* password although auth.py says that they fail closed (UnknownUsersFailClosed).
THEOREM PluginsAdmitWhoProves == EmbeddedSpec => []AdmitsWhoProves
  BY EmbeddedInvariance, PTL DEF EmbeddedInv, ExchangeInv

\* For any limits and length fields: the server acts on no length below its
\* header's and waits for none above its limit.
THEOREM ReadsWithinLimits == EmbeddedSpec => []LengthsAreHonest
  BY EmbeddedInvariance, PTL DEF EmbeddedInv, ExchangeInv

\* A server that is hosted leaks nothing either: not when its thread cancels
\* what is left, and not on any way out of the handshake.
THEOREM HostedServersLeakNothing ==
  EmbeddedSpec => [](TypeOK /\ NothingLeaks /\ CloseReachesAll /\ ClaimsAreLive)
  BY EmbeddedInvariance, PTL DEF EmbeddedInv, Inv
=============================================================================
