------------------------- MODULE ListenNotifyProofs -------------------------
(***************************************************************************)
(* ListenNotify keeps the server's registry and the connections in         *)
(* agreement, writes no notification inside a response, and implements     *)
(* PubSub, for any connections, channels, payloads and bounds.             *)
(***************************************************************************)
EXTENDS ListenNotify, SessionProofs

\* One step of a selection: take the n-th event or pass it by.
Pick(prefix, e, chs) == IF e[1] \in chs THEN Append(prefix, e) ELSE prefix

\* f is the selection from the first n events, for every n up to m.
Selects(f, m, events, chs) ==
  f = [n \in 0..m |-> IF n = 0 THEN << >> ELSE Pick(f[n - 1], events[n], chs)]

LEMMA SelectionExists ==
  ASSUME NEW events, NEW chs, NEW len \in Nat
  PROVE  \E f : Selects(f, len, events, chs)
<1> DEFINE T == {m \in Nat : \E f : Selects(f, m, events, chs)}
<1>1. 0 \in T
  <2>1. Selects([n \in 0..0 |-> << >>], 0, events, chs)
    BY DEF Selects
  <2> QED BY <2>1
<1>2. ASSUME NEW m \in T PROVE m + 1 \in T
  <2>1. PICK f : Selects(f, m, events, chs)
    OBVIOUS
  <2> DEFINE g == [n \in 0..(m + 1) |->
                     IF n = m + 1 THEN Pick(f[m], events[m + 1], chs) ELSE f[n]]
  <2>2. ASSUME NEW n \in 0..(m + 1)
        PROVE  g[n] = IF n = 0 THEN << >> ELSE Pick(g[n - 1], events[n], chs)
    <3>1. CASE n = m + 1
      BY <3>1
    <3>2. CASE n # m + 1
      <4>1. n \in 0..m /\ (n # 0 => n - 1 \in 0..(m + 1) /\ n - 1 # m + 1)
        BY <3>2
      <4>2. f[n] = IF n = 0 THEN << >> ELSE Pick(f[n - 1], events[n], chs)
        BY <2>1, <4>1 DEF Selects
      <4> QED BY <3>2, <4>1, <4>2
    <3> QED BY <3>1, <3>2
  <2>3. g = [n \in 0..(m + 1) |->
               IF n = 0 THEN << >> ELSE Pick(g[n - 1], events[n], chs)]
    BY <2>2
  <2>4. Selects(g, m + 1, events, chs)
    BY <2>3 DEF Selects
  <2> QED BY <2>4
<1>3. len \in T
  <2> HIDE DEF T
  <2>1. T \in SUBSET Nat
    BY DEF T
  <2> QED BY <1>1, <1>2, <2>1, ReachesEvery
<1> QED BY <1>3

\* OnChannels is the last of its selections.
LEMMA OnChannelsUnfolds ==
  ASSUME NEW E, NEW events \in Seq(E), NEW chs
  PROVE  \E f : /\ Selects(f, Len(events), events, chs)
                /\ OnChannels(events, chs) = f[Len(events)]
<1>1. Len(events) \in Nat
  OBVIOUS
<1> DEFINE F == CHOOSE f : Selects(f, Len(events), events, chs)
<1>2. Selects(F, Len(events), events, chs)
  BY <1>1, SelectionExists
<1>3. OnChannels(events, chs) = F[Len(events)]
  BY DEF OnChannels, Selects, Pick
<1> QED BY <1>2, <1>3

\* A selection consists of events, and nothing is on no channel.
LEMMA OnChannelsType ==
  ASSUME NEW E, NEW events \in Seq(E), NEW chs
  PROVE  /\ OnChannels(events, chs) \in Seq(E)
         /\ chs = {} => OnChannels(events, chs) = << >>
<1>1. Len(events) \in Nat
  OBVIOUS
<1>2. PICK f : /\ Selects(f, Len(events), events, chs)
               /\ OnChannels(events, chs) = f[Len(events)]
  BY OnChannelsUnfolds
<1> DEFINE T == {n \in 0..Len(events) : f[n] \in Seq(E) /\ (chs = {} => f[n] = << >>)}
<1>3. 0 \in T
  <2>1. f[0] = << >>
    BY <1>1, <1>2 DEF Selects
  <2>2. << >> \in Seq(E)
    OBVIOUS
  <2>3. f[0] \in Seq(E) /\ (chs = {} => f[0] = << >>)
    BY <2>1, <2>2
  <2>4. 0 \in 0..Len(events)
    BY <1>1
  <2> QED BY <2>3, <2>4
<1>4. ASSUME NEW n \in T, n < Len(events) PROVE n + 1 \in T
  <2>1. n + 1 \in 1..Len(events) /\ n + 1 \in 0..Len(events) /\ n + 1 # 0 /\ n = (n + 1) - 1
    BY <1>1, <1>4
  <2>2. f[n + 1] = Pick(f[n], events[n + 1], chs)
    BY <1>2, <2>1 DEF Selects
  <2>3. events[n + 1] \in E
    BY <2>1, ElementOfSeq
  <2>4. f[n] \in Seq(E) /\ Append(f[n], events[n + 1]) \in Seq(E)
    BY <2>3
  <2> QED BY <1>4, <2>1, <2>2, <2>4 DEF Pick
<1>5. Len(events) \in T
  <2> HIDE DEF T
  <2>1. T \in SUBSET Nat
    BY <1>1 DEF T
  <2>2. \A n \in T : n < Len(events) => n + 1 \in T
    BY <1>4
  <2>3. \A n \in 0..Len(events) : n \in T
    BY <1>1, <1>3, <2>1, <2>2, ReachesEvery
  <2> QED BY <1>1, <2>3
<1> QED BY <1>2, <1>5
-----------------------------------------------------------------------------
\* The state the open transaction started from, or the state itself.
Base(k) == IF k.tx = "I" THEN k.now ELSE k.scopes[1]

\* A connection that has not gone: well formed, and framed by a state that no
\* transaction has touched.  Nothing here changes a setting, so its client,
\* which started from the defaults, is in sync.
Kept(k) ==
  /\ k \in Connection
  /\ IsSynced(k, NoVars)
  /\ Framed(k, Base(k)) /\ Clean(Base(k))

\* Where connection c stands decides what may be queued for it and what its
\* stream holds.
StandsRight(c) ==
  /\ atRfq[c] <=> cmd[c] = "ready"
  /\ cmd[c] \in {"new", "ready", "gone"} => queued[c] = << >>
  /\ cmd[c] \in {"running", "skipping"} =>
       \A i \in DOMAIN wire[c] : wire[c][i] = Response
  /\ \A i, j \in DOMAIN wire[c] :
       i < j /\ wire[c][i] \in Events => wire[c][j] # Response

\* The inductive invariant.
Inv ==
  /\ TypeOK
  /\ RegistryAgrees
  /\ \A c \in Conns : cmd[c] # "gone" => Kept(conn[c])
  /\ \A c \in Conns : StandsRight(c)
-----------------------------------------------------------------------------
\* No notification is part of a command's response.
LEMMA EventsAreNoResponse ==
  \A e \in Events : e # Response /\ e # Ready
  BY DEF Events, Response, Ready

\* A connection as its constructor leaves it is well kept.
LEMMA NewConnectionKept == Kept(NewConnection)
<1>1. NoVars \in Vars /\ EmptyScope \in Scope
  BY DEF NoVars, Vars, Readings, EmptyScope, Scope
<1>2. NewConnection \in Connection
  <2>1. << >> \in Seq(Scope) /\ << >> \in Seq(Names)
    OBVIOUS
  <2>2. NothingOwed \in [Settings -> Readings \cup {Nothing}]
    BY DEF NothingOwed
  <2> QED BY <1>1, <2>1, <2>2 DEF NewConnection, Connection, TxStatus
<1>3. IsSynced(NewConnection, NoVars)
  BY ConstantsAssumption
  DEF IsSynced, Believed, NewConnection, NothingOwed, EmptyScope, NoVars
<1>4. IsSettled(NewConnection) /\ NewConnection.tx = "I" /\ NewConnection.now = EmptyScope
  BY DEF NewConnection, IsSettled, EmptyScope
<1> QED BY <1>2, <1>3, <1>4 DEF Kept, Framed, Base, Clean, EmptyScope

\* What Kept says, in the form the lemmas about the statements ask for.
LEMMA KeptMeans ==
  ASSUME NEW k, Kept(k)
  PROVE  /\ k \in Connection /\ NoVars \in Vars /\ IsSynced(k, NoVars)
         /\ Framed(k, Base(k)) /\ Clean(Base(k))
         /\ k.tx = "I" => IsSettled(k)
  BY DEF Kept, Framed, NoVars, Vars, Readings

\* A settled connection that is well formed and in sync is well kept, and so
\* is one whose frame is the old one.
LEMMA KeptIf ==
  ASSUME NEW k \in Connection, IsSynced(k, NoVars)
  PROVE  /\ k.tx = "I" /\ IsSettled(k) => Kept(k)
         /\ \A b : k.tx # "I" /\ Framed(k, b) /\ Clean(b) => Kept(k)
<1>1. k.tx = "I" /\ IsSettled(k) => Kept(k)
  BY DEF Kept, Framed, Base, Clean, IsSettled
<1>2. ASSUME NEW b, k.tx # "I", Framed(k, b), Clean(b)
      PROVE  Kept(k)
  BY <1>2 DEF Kept, Framed, Base
<1> QED BY <1>1, <1>2

\* Every statement leaves a connection well kept.
LEMMA StatementsKeep ==
  ASSUME NEW k, Kept(k)
  PROVE  /\ k.tx \in {"I", "T"} => Kept(Begin(k))
         /\ Kept(Commit(k)) /\ Kept(Rollback(k)) /\ Kept(Fail(k))
         /\ k.tx = "I" => Kept(DiscardAll(k))
         /\ \A chs \in SUBSET Channels : Kept(Subscribe(k, chs))
         /\ \A e \in Events : Kept(Notify(k, e))
<1>1. /\ k \in Connection /\ NoVars \in Vars /\ IsSynced(k, NoVars)
      /\ Framed(k, Base(k)) /\ Clean(Base(k))
      /\ k.tx = "I" => IsSettled(k)
  BY KeptMeans
<1>2. ASSUME k.tx \in {"I", "T"} PROVE Kept(Begin(k))
  <2>1. PICK b \in Connection : b = Begin(k)
    BY <1>1, <1>2, BeginFacts
  <2>2. Framed(b, Base(k)) /\ b.now = k.now /\ b.owed = k.owed
    BY <1>1, <1>2, <2>1, BeginFacts
  <2>3. IsSynced(b, NoVars)
    BY <1>1, <2>2, SameSynced
  <2>4. b.tx = "T"
    BY <1>1, <1>2, <2>1 DEF Begin, OpenScope, Connection
  <2> QED BY <1>1, <2>1, <2>2, <2>3, <2>4, KeptIf
<1>3. Kept(Commit(k)) /\ Kept(Rollback(k))
  BY <1>1, CommitFacts, RollbackFacts, KeptIf
<1>4. Kept(Fail(k))
  <2>1. PICK f \in Connection : f = Fail(k)
    BY <1>1, FailFacts
  <2>2. f = [k EXCEPT !.tx = f.tx] /\ (f.tx = "I" <=> k.tx = "I")
    BY <1>1, <2>1, FailFacts
  <2>3. /\ f.now = k.now /\ f.owed = k.owed /\ f.scopes = k.scopes
        /\ f.savepoints = k.savepoints /\ f.live = k.live
    BY <1>1, <2>2 DEF Connection
  <2>4. IsSynced(f, NoVars)
    BY <1>1, <2>3, SameSynced
  <2>5. Framed(f, Base(k)) /\ (f.tx = "I" => IsSettled(f))
    BY <1>1, <2>2, <2>3 DEF Framed, IsSettled
  <2> QED BY <1>1, <2>1, <2>4, <2>5, KeptIf
<1>5. k.tx = "I" => Kept(DiscardAll(k))
  BY <1>1, DiscardAllFacts, KeptIf
<1>6. ASSUME NEW chs \in SUBSET Channels PROVE Kept(Subscribe(k, chs))
  <2>1. PICK l : l = Subscribe(k, chs)
    OBVIOUS
  <2>2. /\ l \in Connection
        /\ l.tx = k.tx /\ l.scopes = k.scopes
        /\ IsSettled(k) /\ k.tx = "I" => IsSettled(l)
        /\ l.owed = k.owed /\ l.now.session_vars = k.now.session_vars
    BY <1>1, <2>1, ListeningFacts
  <2>3. IsSynced(l, NoVars)
    BY <1>1, <2>2, SameSynced
  <2>4. l.tx # "I" => Framed(l, Base(k))
    BY <1>1, <2>2 DEF Framed
  <2> QED BY <1>1, <2>1, <2>2, <2>3, <2>4, KeptIf
<1>7. ASSUME NEW e \in Events PROVE Kept(Notify(k, e))
  <2>1. PICK l \in Connection : l = Notify(k, e)
    BY <1>1, NotifyFacts
  <2>2. /\ k.tx = "I" => l = k
        /\ l.tx = k.tx /\ l.scopes = k.scopes
        /\ l.owed = k.owed /\ l.now.session_vars = k.now.session_vars
    BY <1>1, <2>1, NotifyFacts
  <2>3. IsSynced(l, NoVars)
    BY <1>1, <2>2, SameSynced
  <2>4. l.tx # "I" => Framed(l, Base(k))
    BY <1>1, <2>2 DEF Framed
  <2> QED BY <1>1, <2>1, <2>2, <2>3, <2>4, KeptIf
<1> QED BY <1>2, <1>3, <1>4, <1>5, <1>6, <1>7

\* So do the statements about savepoints.
LEMMA SavepointsKeep ==
  ASSUME NEW k, Kept(k), k.tx # "I", NEW s \in Names
  PROVE  /\ Kept(Savepoint(k, s))
         /\ HasSavepoint(k, s) => Kept(Release(k, s)) /\ Kept(RollbackTo(k, s))
<1>1. /\ k \in Connection /\ NoVars \in Vars /\ IsSynced(k, NoVars)
      /\ Framed(k, Base(k)) /\ Clean(Base(k))
  BY KeptMeans
<1>2. Kept(Savepoint(k, s))
  <2>1. PICK l \in Connection : l = Savepoint(k, s)
    BY <1>1, SavepointFacts
  <2>2. l.tx = k.tx /\ Framed(l, Base(k)) /\ l.now = k.now /\ l.owed = k.owed
    BY <1>1, <2>1, SavepointFacts
  <2>3. IsSynced(l, NoVars)
    BY <1>1, <2>2, SameSynced
  <2> QED BY <1>1, <2>1, <2>2, <2>3, KeptIf
<1>3. ASSUME HasSavepoint(k, s) PROVE Kept(Release(k, s))
  <2>1. PICK l \in Connection : l = Release(k, s)
    BY <1>1, <1>3, ReleaseFacts
  <2>2. l.tx = k.tx /\ Framed(l, Base(k)) /\ l.now = k.now /\ l.owed = k.owed
    BY <1>1, <1>3, <2>1, ReleaseFacts
  <2>3. IsSynced(l, NoVars)
    BY <1>1, <2>2, SameSynced
  <2> QED BY <1>1, <2>1, <2>2, <2>3, KeptIf
<1>4. ASSUME HasSavepoint(k, s) PROVE Kept(RollbackTo(k, s))
  <2>1. PICK l \in Connection : l = RollbackTo(k, s)
    BY <1>1, <1>4, RollbackToFacts
  <2>2. l.tx = "T" /\ Framed(l, Base(k)) /\ IsSynced(l, NoVars)
    BY <1>1, <1>4, <2>1, RollbackToFacts
  <2> QED BY <1>1, <2>1, <2>2, KeptIf
<1> QED BY <1>2, <1>3, <1>4

\* What a connection raises to the registry is a batch of events.
LEMMA FanoutTypes ==
  ASSUME NEW k \in Connection
  PROVE  /\ CommitFanout(k) \in Seq(Events)
         /\ \A e \in Events : NotifyFanout(k, e) \in Seq(Events)
<1>1. << >> \in Seq(Events) /\ k.now.pending_notifies \in Seq(Events)
  BY DEF Connection, Scope
<1>2. \A e \in Events : << e >> \in Seq(Events)
  OBVIOUS
<1> QED BY <1>1, <1>2 DEF CommitFanout, NotifyFanout
-----------------------------------------------------------------------------
\* The registry follows the subscriptions of the connection that changes its
\* own, although it is updated by differences.
LEMMA RegistryFollows ==
  ASSUME TypeOK, RegistryAgrees, NEW c \in Conns, NEW after \in SUBSET Channels,
         listeners' = Registry(listeners, c, conn[c].live, after)
  PROVE  /\ listeners' \in [Channels -> SUBSET Conns]
         /\ \A ch \in Channels : c \in listeners'[ch] <=> ch \in after
         /\ \A ch \in Channels, d \in Conns :
              d # c => (d \in listeners'[ch] <=> d \in listeners[ch])
<1>1. listeners \in [Channels -> SUBSET Conns]
  BY DEF TypeOK
<1>2. \A ch \in Channels : c \in listeners[ch] <=> ch \in conn[c].live
  BY DEF RegistryAgrees
<1> QED BY <1>1, <1>2 DEF Registry

\* A fan-out gives each connection events, and none to one that is not there.
LEMMA FanoutFacts ==
  ASSUME Inv, NEW events \in Seq(Events)
  PROVE  /\ Fanout(events) \in [Conns -> Seq(Events)]
         /\ \A c \in Conns : cmd[c] \in {"new", "gone"} => Fanout(events)[c] = << >>
         /\ \A c \in Conns : Fanout(events)[c] = OnChannels(events, conn[c].live)
<1>1. ASSUME NEW c \in Conns
      PROVE  {ch \in Channels : c \in listeners[ch]} = conn[c].live
  <2>1. conn[c].live \in SUBSET Channels
    BY DEF Inv, TypeOK, Connection
  <2> QED BY <2>1 DEF Inv, RegistryAgrees
<1>2. \A c \in Conns : Fanout(events)[c] = OnChannels(events, conn[c].live)
  BY <1>1 DEF Fanout, ForConn
<1>3. ASSUME NEW c \in Conns, cmd[c] \in {"new", "gone"}
      PROVE  conn[c].live = {}
  BY <1>1, <1>3 DEF Inv, RegistryAgrees
<1>4. \A c \in Conns : OnChannels(events, conn[c].live) \in Seq(Events)
  BY OnChannelsType
<1>5. \A c \in Conns :
        cmd[c] \in {"new", "gone"} => OnChannels(events, conn[c].live) = << >>
  BY <1>3, OnChannelsType
<1>6. Fanout(events) = [c \in Conns |-> ForConn(c, events)]
  BY DEF Fanout
<1> QED BY <1>2, <1>4, <1>5, <1>6

\* A stream of responses followed by events, and then by no response.
LEMMA EventsAfterResponses ==
  ASSUME NEW s \in Seq(Messages), NEW t \in Seq(Messages),
         \A i, j \in DOMAIN s : i < j /\ s[i] \in Events => s[j] # Response,
         \A j \in DOMAIN t : t[j] # Response
  PROVE  /\ s \o t \in Seq(Messages)
         /\ \A i, j \in DOMAIN (s \o t) :
              i < j /\ (s \o t)[i] \in Events => (s \o t)[j] # Response
<1>1. /\ s \o t \in Seq(Messages)
      /\ Len(s \o t) = Len(s) + Len(t)
      /\ \A i \in 1..(Len(s) + Len(t)) :
           (s \o t)[i] = IF i <= Len(s) THEN s[i] ELSE t[i - Len(s)]
  BY ConcatProperties
<1>2. /\ Len(s) \in Nat /\ Len(t) \in Nat
      /\ DOMAIN s = 1..Len(s) /\ DOMAIN t = 1..Len(t)
      /\ DOMAIN (s \o t) = 1..(Len(s) + Len(t))
  BY <1>1, LenProperties
<1> SUFFICES ASSUME NEW i \in DOMAIN (s \o t), NEW j \in DOMAIN (s \o t), i < j,
                    (s \o t)[i] \in Events
             PROVE  (s \o t)[j] # Response
  BY <1>1
<1>3. CASE j <= Len(s)
  BY <1>1, <1>2, <1>3
<1>4. CASE ~(j <= Len(s))
  <2>1. j - Len(s) \in DOMAIN t
    BY <1>2, <1>4
  <2> QED BY <1>1, <1>2, <1>4, <2>1
<1> QED BY <1>3, <1>4

\* A stream of nothing but responses stays one when more of them follow.
LEMMA MoreResponses ==
  ASSUME NEW s \in Seq(Messages), NEW t \in Seq({Response}),
         \A i \in DOMAIN s : s[i] = Response
  PROVE  /\ s \o t \in Seq(Messages)
         /\ \A i \in DOMAIN (s \o t) : (s \o t)[i] = Response
<1>1. t \in Seq(Messages)
  BY DEF Messages
<1>2. /\ s \o t \in Seq(Messages)
      /\ Len(s \o t) = Len(s) + Len(t)
      /\ \A i \in 1..(Len(s) + Len(t)) :
           (s \o t)[i] = IF i <= Len(s) THEN s[i] ELSE t[i - Len(s)]
  BY <1>1, ConcatProperties
<1>3. /\ Len(s) \in Nat /\ Len(t) \in Nat
      /\ DOMAIN s = 1..Len(s) /\ DOMAIN t = 1..Len(t)
      /\ DOMAIN (s \o t) = 1..(Len(s) + Len(t))
  BY <1>1, <1>2, LenProperties
<1>4. \A i \in 1..Len(t) : t[i] = Response
  BY ElementOfSeq
<1>5. \A i \in 1..(Len(s) + Len(t)) : ~(i <= Len(s)) => i - Len(s) \in 1..Len(t)
  BY <1>3
<1> QED BY <1>2, <1>3, <1>4, <1>5

\* A stream with no event in it has none before a response.
LEMMA NoEventNoHarm ==
  ASSUME NEW s, \A i \in DOMAIN s : s[i] = Response
  PROVE  \A i, j \in DOMAIN s : i < j /\ s[i] \in Events => s[j] # Response
  BY EventsAreNoResponse

\* Three runs of events, one after the other.
LEMMA EventsInOrder ==
  ASSUME NEW a \in Seq(Events), NEW b \in Seq(Events), NEW c \in Seq(Events)
  PROVE  a \o (b \o c) = (a \o b) \o c
  OBVIOUS

\* _deliver_async() extends what is written or queued for a connection by what
\* it gets, in order, and keeps the events out of the response.
LEMMA DeliverFacts ==
  ASSUME Inv, NEW to \in [Conns -> Seq(Events)], NEW own \in [Conns -> Seq({Response})],
         \A c \in Conns : cmd[c] \in {"new", "gone"} => to[c] = << >>,
         \A c \in Conns : cmd[c] # "running" => own[c] = << >>,
         Deliver(to, own), UNCHANGED << cmd, atRfq >>
  PROVE  /\ wire' \in [Conns -> Seq(Messages)]
         /\ written' \in [Conns -> Seq(Events)]
         /\ queued' \in [Conns -> Seq(Events)]
         /\ \A c \in Conns : StandsRight(c)'
         /\ \A c \in Conns :
              (written[c] \o queued[c])' = (written[c] \o queued[c]) \o to[c]
<1>1. /\ wire \in [Conns -> Seq(Messages)] /\ written \in [Conns -> Seq(Events)]
      /\ queued \in [Conns -> Seq(Events)] /\ atRfq \in [Conns -> BOOLEAN]
      /\ cmd \in [Conns -> {"new", "ready", "running", "skipping", "gone"}]
  BY DEF Inv, TypeOK
<1>2. ASSUME NEW c \in Conns
      PROVE  /\ wire'[c] = IF atRfq[c] THEN wire[c] \o to[c] \o own[c]
                           ELSE wire[c] \o own[c]
             /\ written'[c] = IF atRfq[c] THEN written[c] \o to[c] ELSE written[c]
             /\ queued'[c] = IF atRfq[c] THEN queued[c] ELSE queued[c] \o to[c]
  BY DEF Deliver
<1>3. ASSUME NEW c \in Conns
      PROVE  /\ wire'[c] \in Seq(Messages) /\ written'[c] \in Seq(Events)
             /\ queued'[c] \in Seq(Events)
             /\ StandsRight(c)'
             /\ written'[c] \o queued'[c] = (written[c] \o queued[c]) \o to[c]
  <2>1. PICK w \in Seq(Messages), wr \in Seq(Events), q \in Seq(Events),
             t \in Seq(Events), o \in Seq({Response}) :
          w = wire[c] /\ wr = written[c] /\ q = queued[c] /\ t = to[c] /\ o = own[c]
    BY <1>1
  <2>2. t \in Seq(Messages) /\ o \in Seq(Messages)
    BY DEF Messages
  <2>3. StandsRight(c)
    BY DEF Inv
  <2>4. CASE atRfq[c]
    <3>1. cmd[c] = "ready" /\ q = << >> /\ o = << >>
      BY <2>1, <2>3, <2>4 DEF StandsRight
    <3>2. wire'[c] = w \o t /\ written'[c] = wr \o t /\ queued'[c] = q
      <4>1. (w \o t) \in Seq(Messages)
        BY <2>2, ConcatProperties
      <4>2. (w \o t) \o o = w \o t
        BY <3>1, <4>1, ConcatEmptySeq
      <4> QED BY <1>2, <2>1, <2>4, <4>2
    <3>3. \A j \in DOMAIN t : t[j] # Response
      <4>1. \A j \in 1..Len(t) : t[j] \in Events
        BY ElementOfSeq
      <4> QED BY <4>1, EventsAreNoResponse, LenProperties
    <3>4. /\ (w \o t) \in Seq(Messages)
          /\ \A i, j \in DOMAIN (w \o t) :
               i < j /\ (w \o t)[i] \in Events => (w \o t)[j] # Response
      BY <2>1, <2>2, <2>3, <3>3, EventsAfterResponses DEF StandsRight
    <3>5. wr \o t \in Seq(Events) /\ (wr \o t) \o q = (wr \o q) \o t
      BY <3>1, ConcatProperties, ConcatEmptySeq
    <3>6. StandsRight(c)'
      BY <2>1, <2>3, <3>1, <3>2, <3>4 DEF StandsRight
    <3> QED BY <2>1, <3>2, <3>4, <3>5, <3>6
  <2>5. CASE ~atRfq[c]
    <3>1. wire'[c] = w \o o /\ written'[c] = wr /\ queued'[c] = q \o t
      BY <1>2, <2>1, <2>5
    <3>2. q \o t \in Seq(Events) /\ wr \o (q \o t) = (wr \o q) \o t
      <4>1. q \o t \in Seq(Events)
        BY ConcatProperties
      <4>2. wr \o (q \o t) = (wr \o q) \o t
        BY EventsInOrder
      <4> QED BY <4>1, <4>2
    <3>3. cmd[c] # "ready"
      BY <2>3, <2>5 DEF StandsRight
    <3>4. CASE cmd[c] \in {"new", "gone"}
      <4>1. o = << >> /\ t = << >>
        BY <2>1, <3>4
      <4>2. w \o o = w /\ q \o t = q
        BY <4>1, ConcatEmptySeq
      <4>3. StandsRight(c)'
        BY <2>1, <2>3, <2>5, <3>1, <3>4, <4>2 DEF StandsRight
      <4> QED BY <2>1, <3>1, <3>2, <4>2, <4>3
    <3>5. CASE cmd[c] \in {"running", "skipping"}
      <4>1. \A i \in DOMAIN w : w[i] = Response
        BY <2>1, <2>3, <3>5 DEF StandsRight
      <4>2. (w \o o) \in Seq(Messages) /\ \A i \in DOMAIN (w \o o) : (w \o o)[i] = Response
        BY <4>1, MoreResponses
      <4>3. \A i, j \in DOMAIN (w \o o) :
              i < j /\ (w \o o)[i] \in Events => (w \o o)[j] # Response
        BY <4>2, NoEventNoHarm
      <4>4. StandsRight(c)'
        BY <2>5, <3>1, <3>5, <4>2, <4>3 DEF StandsRight
      <4> QED BY <2>1, <3>1, <3>2, <4>2, <4>4
    <3> QED BY <1>1, <3>3, <3>4, <3>5
  <2> QED BY <2>4, <2>5
<1>4. /\ wire' = [c \in Conns |-> wire'[c]]
      /\ written' = [c \in Conns |-> written'[c]]
      /\ queued' = [c \in Conns |-> queued'[c]]
  BY DEF Deliver
<1> QED BY <1>3, <1>4

\* PubSub selects the events on a set of channels as ListenNotify does.
LEMMA SameSelection ==
  ASSUME NEW events, NEW chs
  PROVE  Abstract!OnChannels(events, chs) = OnChannels(events, chs)
  BY DEF Abstract!OnChannels, OnChannels

\* The abstract step that an execution of a statement takes.
PublishesFor(c) ==
  \E events \in Abstract!Batches, chs \in SUBSET Channels : Abstract!Publish(c, events, chs)

\* A batch within the bound is one that PubSub may publish in one step.
LEMMA BatchesType ==
  ASSUME NEW events \in Seq(Events), Len(events) <= MaxEvents
  PROVE  events \in Abstract!Batches
<1>1. Len(events) \in 0..MaxEvents
  BY BoundsAssumption
<1>2. events \in [1..Len(events) -> Events]
  OBVIOUS
<1> QED BY <1>1, <1>2 DEF Abstract!Batches, Abstract!Events, Events

\* Executing a statement keeps the invariant, and publishes to PubSub what it
\* raised before it changed the connection's subscriptions.
LEMMA ExecutesFacts ==
  ASSUME Inv, NEW c \in Conns, NEW statement, NEW k, Kept(k),
         NEW events \in Seq(Events), Executes(c, statement, k, events)
  PROVE  Inv' /\ PublishesFor(c)
<1>1. /\ conn \in [Conns -> Connection] /\ k \in Connection /\ k.live \in SUBSET Channels
      /\ cmd[c] = "running" /\ UNCHANGED << cmd, atRfq, pushed >>
      /\ conn' = [conn EXCEPT ![c] = k]
      /\ published' = published + Len(events)
  BY DEF Inv, TypeOK, Executes, Kept, Connection, Count
<1>2. PICK to, own : to = Fanout(events) /\ own = [Silent EXCEPT ![c] = << Response >>]
  OBVIOUS
<1>3. /\ to \in [Conns -> Seq(Events)] /\ own \in [Conns -> Seq({Response})]
      /\ \A d \in Conns : cmd[d] \in {"new", "gone"} => to[d] = << >>
      /\ \A d \in Conns : cmd[d] # "running" => own[d] = << >>
      /\ \A d \in Conns : to[d] = OnChannels(events, conn[d].live)
  <2>1. << Response >> \in Seq({Response}) /\ << >> \in Seq({Response})
    OBVIOUS
  <2>2. own \in [Conns -> Seq({Response})] /\ \A d \in Conns : d # c => own[d] = << >>
    BY <1>2, <2>1 DEF Silent
  <2> QED BY <1>1, <1>2, <2>2, FanoutFacts
<1>4. Deliver(to, own)
  BY <1>2 DEF Executes
<1>5. /\ wire' \in [Conns -> Seq(Messages)] /\ written' \in [Conns -> Seq(Events)]
      /\ queued' \in [Conns -> Seq(Events)]
      /\ \A d \in Conns : StandsRight(d)'
      /\ \A d \in Conns : (written[d] \o queued[d])' = (written[d] \o queued[d]) \o to[d]
  BY <1>1, <1>3, <1>4, DeliverFacts
<1>6. /\ listeners' \in [Channels -> SUBSET Conns]
      /\ \A ch \in Channels : c \in listeners'[ch] <=> ch \in k.live
      /\ \A ch \in Channels, d \in Conns :
           d # c => (d \in listeners'[ch] <=> d \in listeners[ch])
  <2>1. PICK after \in SUBSET Channels : after = k.live
    BY <1>1
  <2>2. listeners' = Registry(listeners, c, conn[c].live, after)
    BY <2>1 DEF Executes
  <2>3. TypeOK /\ RegistryAgrees
    BY DEF Inv
  <2> QED BY <2>1, <2>2, <2>3, RegistryFollows
<1>7. Len(events) \in Nat /\ published \in Nat /\ pushed \in Nat
      /\ published + pushed + Len(events) <= MaxEvents
  BY LenProperties DEF Inv, TypeOK, Executes, Count
<1>8. TypeOK'
  <2>1. published' \in Nat /\ pushed' \in Nat
    BY <1>1, <1>7
  <2>2. conn' \in [Conns -> Connection]
    BY <1>1
  <2> QED BY <1>1, <1>5, <1>6, <2>1, <2>2 DEF Inv, TypeOK
<1>9. RegistryAgrees'
  BY <1>1, <1>6 DEF Inv, RegistryAgrees
<1>10. \A d \in Conns : cmd'[d] # "gone" => Kept(conn'[d])
  BY <1>1 DEF Inv
<1>11. events \in Abstract!Batches
  BY <1>7, BatchesType, BoundsAssumption
<1>12. Abstract!Publish(c, events, k.live)
  <2>1. [r \in Conns |-> written'[r] \o queued'[r]]
          = [r \in Conns |-> [d \in Conns |-> written[d] \o queued[d]][r]
                             \o Abstract!OnChannels(events, [d \in Conns |-> conn[d].live][r])]
    BY <1>3, <1>5, SameSelection
  <2>2. [d \in Conns |-> conn'[d].live]
          = [[d \in Conns |-> conn[d].live] EXCEPT ![c] = k.live]
    BY <1>1
  <2> QED BY <1>1, <2>1, <2>2 DEF Abstract!Publish, Abstract!Send, Abstract!For
<1> QED BY <1>1, <1>5, <1>8, <1>9, <1>10, <1>11, <1>12 DEF Inv, PublishesFor
-----------------------------------------------------------------------------
\* Nothing is registered, queued or written at the start.
LEMMA InitFacts == Init => Inv /\ Abstract!Init
<1> SUFFICES ASSUME Init PROVE Inv /\ Abstract!Init
  OBVIOUS
<1>1. Kept(NewConnection) /\ NewConnection \in Connection /\ NewConnection.live = {}
  BY NewConnectionKept DEF Kept, NewConnection
<1>2. << >> \in Seq(Events) /\ << >> \in Seq(Messages) /\ << >> \o << >> = << >>
  OBVIOUS
<1>3. TypeOK
  BY <1>1, <1>2 DEF Init, TypeOK
<1>4. RegistryAgrees
  BY <1>1 DEF Init, RegistryAgrees
<1>5. \A c \in Conns : StandsRight(c)
  BY DEF Init, StandsRight
<1>6. \A c \in Conns : cmd[c] # "gone" => Kept(conn[c])
  BY <1>1 DEF Init
<1>7. Abstract!Init
  BY <1>1, <1>2 DEF Init, Abstract!Init
<1> QED BY <1>3, <1>4, <1>5, <1>6, <1>7 DEF Inv

\* PubSub sees nothing of a step that changes no subscription and no inbox.
LEMMA Unseen ==
  ASSUME Inv, published' = published,
         \A c \in Conns : conn'[c].live = conn[c].live,
         \A c \in Conns : written'[c] \o queued'[c] = written[c] \o queued[c]
  PROVE  UNCHANGED Abstract!vars
  BY DEF Abstract!vars

\* The end of the startup burst opens the gap events may go into.
LEMMA ConnectFacts ==
  ASSUME Inv, NEW c \in Conns, Connect(c)
  PROVE  Inv' /\ UNCHANGED Abstract!vars
<1>1. TypeOK'
  BY DEF Inv, TypeOK, Connect, history
<1>2. RegistryAgrees'
  BY DEF Inv, TypeOK, RegistryAgrees, Connect
<1>3. \A d \in Conns : cmd'[d] # "gone" => Kept(conn'[d])
  BY DEF Inv, TypeOK, Connect
<1>4. ASSUME NEW d \in Conns PROVE StandsRight(d)'
  <2>1. StandsRight(d)
    BY DEF Inv
  <2> QED BY <2>1 DEF Inv, TypeOK, Connect, StandsRight
<1>5. UNCHANGED Abstract!vars
  BY Unseen DEF Connect, history
<1> QED BY <1>1, <1>2, <1>3, <1>4, <1>5 DEF Inv

\* A command closes the gap, with nothing queued and nothing yet written.
LEMMA ReceiveCommandFacts ==
  ASSUME Inv, NEW c \in Conns, ReceiveCommand(c)
  PROVE  Inv' /\ UNCHANGED Abstract!vars
<1>0. << >> \in Seq(Messages) /\ DOMAIN << >> = {}
  OBVIOUS
<1>1. TypeOK'
  BY <1>0 DEF Inv, TypeOK, ReceiveCommand, history
<1>2. RegistryAgrees'
  BY DEF Inv, TypeOK, RegistryAgrees, ReceiveCommand
<1>3. \A d \in Conns : cmd'[d] # "gone" => Kept(conn'[d])
  BY DEF Inv, TypeOK, ReceiveCommand
<1>4. ASSUME NEW d \in Conns PROVE StandsRight(d)'
  <2>1. StandsRight(d)
    BY DEF Inv
  <2>2. CASE d = c
    <3>1. /\ wire'[d] = << >> /\ queued'[d] = queued[d]
          /\ cmd'[d] = "running" /\ atRfq'[d] = FALSE
      BY <2>2 DEF Inv, TypeOK, ReceiveCommand
    <3> QED BY <1>0, <3>1 DEF StandsRight
  <2>3. CASE d # c
    <3>1. /\ wire'[d] = wire[d] /\ queued'[d] = queued[d]
          /\ cmd'[d] = cmd[d] /\ atRfq'[d] = atRfq[d]
      BY <2>3 DEF Inv, TypeOK, ReceiveCommand
    <3> QED BY <2>1, <3>1 DEF StandsRight
  <2> QED BY <2>2, <2>3
<1>5. UNCHANGED Abstract!vars
  BY Unseen DEF ReceiveCommand, history
<1> QED BY <1>1, <1>2, <1>3, <1>4, <1>5 DEF Inv

\* The end of a command moves what is queued to the stream, after the response.
LEMMA ReadyForQueryFacts ==
  ASSUME Inv, NEW c \in Conns, ReadyForQuery(c)
  PROVE  Inv' /\ UNCHANGED Abstract!vars
<1>1. PICK w \in Seq(Messages), wr \in Seq(Events), q \in Seq(Events) :
        w = wire[c] /\ wr = written[c] /\ q = queued[c]
  BY DEF Inv, TypeOK
<1>2. StandsRight(c) /\ \A i \in DOMAIN w : w[i] = Response
  BY <1>1 DEF Inv, StandsRight, ReadyForQuery
<1>3. << Ready >> \in Seq(Messages) /\ << >> \in Seq(Events) /\ q \in Seq(Messages)
  BY DEF Messages
<1>4. PICK t \in Seq(Messages) : t = q \o << Ready >>
  BY <1>3, ConcatProperties
<1>5. \A j \in DOMAIN t : t[j] # Response
  <2>1. /\ Len(t) = Len(q) + 1
        /\ \A i \in 1..(Len(q) + 1) : t[i] = IF i <= Len(q) THEN q[i] ELSE << Ready >>[i - Len(q)]
    BY <1>3, <1>4, ConcatProperties
  <2>2. DOMAIN t = 1..(Len(q) + 1) /\ Len(q) \in Nat
    BY <2>1, LenProperties
  <2>3. \A i \in 1..Len(q) : q[i] \in Events /\ q[i] # Response
    BY ElementOfSeq, EventsAreNoResponse
  <2>4. Ready # Response
    BY DEF Ready, Response
  <2> QED BY <2>1, <2>2, <2>3, <2>4
<1>6. /\ w \o t \in Seq(Messages)
      /\ \A i, j \in DOMAIN (w \o t) :
           i < j /\ (w \o t)[i] \in Events => (w \o t)[j] # Response
  BY <1>2, <1>5, NoEventNoHarm, EventsAfterResponses
<1>7. (w \o q) \o << Ready >> = w \o t
  BY <1>3, <1>4
<1>8. /\ wire' = [wire EXCEPT ![c] = w \o t]
      /\ written' = [written EXCEPT ![c] = wr \o q]
      /\ queued' = [queued EXCEPT ![c] = << >>]
      /\ cmd' = [cmd EXCEPT ![c] = "ready"]
      /\ atRfq' = [atRfq EXCEPT ![c] = TRUE]
      /\ UNCHANGED << conn, listeners, published, pushed >>
      /\ cmd[c] \in {"running", "skipping"}
  BY <1>1, <1>7 DEF ReadyForQuery, history
<1>9. wr \o q \in Seq(Events) /\ (wr \o q) \o << >> = wr \o q
  BY ConcatProperties, ConcatEmptySeq
<1>10. TypeOK'
  BY <1>3, <1>6, <1>8, <1>9 DEF Inv, TypeOK
<1>11. RegistryAgrees'
  BY <1>8 DEF Inv, TypeOK, RegistryAgrees
<1>12. \A d \in Conns : cmd'[d] # "gone" => Kept(conn'[d])
  BY <1>8 DEF Inv, TypeOK
<1>13. ASSUME NEW d \in Conns PROVE StandsRight(d)'
  <2>1. CASE d = c
    <3>1. /\ wire'[d] = w \o t /\ queued'[d] = << >>
          /\ cmd'[d] = "ready" /\ atRfq'[d] = TRUE
      BY <1>8, <2>1 DEF Inv, TypeOK
    <3> QED BY <1>6, <3>1 DEF StandsRight
  <2>2. CASE d # c
    <3>1. /\ wire'[d] = wire[d] /\ queued'[d] = queued[d]
          /\ cmd'[d] = cmd[d] /\ atRfq'[d] = atRfq[d]
      BY <1>8, <2>2 DEF Inv, TypeOK
    <3>2. StandsRight(d)
      BY DEF Inv
    <3> QED BY <3>1, <3>2 DEF StandsRight
  <2> QED BY <2>1, <2>2
<1>14. \A d \in Conns : written'[d] \o queued'[d] = written[d] \o queued[d]
  BY <1>1, <1>8, <1>9 DEF Inv, TypeOK
<1>15. UNCHANGED Abstract!vars
  BY <1>8, <1>14, Unseen
<1> QED BY <1>10, <1>11, <1>12, <1>13, <1>15 DEF Inv

\* A failing statement changes no subscription and writes more of the response.
LEMMA StatementFailsFacts ==
  ASSUME Inv, NEW c \in Conns, StatementFails(c)
  PROVE  Inv' /\ UNCHANGED Abstract!vars
<1>1. PICK w \in Seq(Messages), k \in Connection : w = wire[c] /\ k = conn[c]
  BY DEF Inv, TypeOK
<1>2. PICK f \in Connection : f = Fail(k) /\ Kept(f) /\ f.live = k.live
  <2>1. cmd[c] # "gone" /\ Kept(k)
    BY <1>1 DEF Inv, StatementFails
  <2>2. Fail(k) \in Connection /\ Fail(k) = [k EXCEPT !.tx = Fail(k).tx]
    BY FailFacts
  <2>3. Fail(k).live = k.live
    BY <2>2 DEF Connection
  <2> QED BY <2>1, <2>2, <2>3, StatementsKeep
<1>3. << Response >> \in Seq({Response}) /\ w \o << Response >> = Append(w, Response)
  OBVIOUS
<1>4. \A i \in DOMAIN w : w[i] = Response
  BY <1>1 DEF Inv, StandsRight, StatementFails
<1>5. /\ Append(w, Response) \in Seq(Messages)
      /\ \A i \in DOMAIN Append(w, Response) : Append(w, Response)[i] = Response
  BY <1>3, <1>4, MoreResponses
<1>6. /\ cmd[c] = "running" /\ cmd' = [cmd EXCEPT ![c] = "skipping"]
      /\ conn' = [conn EXCEPT ![c] = f]
      /\ wire' = [wire EXCEPT ![c] = Append(w, Response)]
      /\ UNCHANGED << atRfq, queued, listeners, written, published, pushed >>
  BY <1>1, <1>2 DEF StatementFails, history
<1>7. TypeOK'
  BY <1>5, <1>6 DEF Inv, TypeOK
<1>8. \A d \in Conns : conn'[d].live = conn[d].live
  BY <1>1, <1>2, <1>6 DEF Inv, TypeOK
<1>9. RegistryAgrees'
  BY <1>6, <1>8 DEF Inv, TypeOK, RegistryAgrees
<1>10. \A d \in Conns : cmd'[d] # "gone" => Kept(conn'[d])
  BY <1>2, <1>6 DEF Inv, TypeOK
<1>11. ASSUME NEW d \in Conns PROVE StandsRight(d)'
  <2>1. StandsRight(d)
    BY DEF Inv
  <2>2. CASE d = c
    <3>1. /\ wire'[d] = Append(w, Response) /\ cmd'[d] = "skipping"
          /\ atRfq'[d] = atRfq[d] /\ ~atRfq[d]
      BY <1>6, <2>1, <2>2 DEF Inv, TypeOK, StandsRight
    <3>2. \A i, j \in DOMAIN Append(w, Response) :
            i < j /\ Append(w, Response)[i] \in Events => Append(w, Response)[j] # Response
      BY <1>5, NoEventNoHarm
    <3> QED BY <1>5, <3>1, <3>2 DEF StandsRight
  <2>3. CASE d # c
    <3>1. /\ wire'[d] = wire[d] /\ queued'[d] = queued[d]
          /\ cmd'[d] = cmd[d] /\ atRfq'[d] = atRfq[d]
      BY <1>6, <2>3 DEF Inv, TypeOK
    <3> QED BY <2>1, <3>1 DEF StandsRight
  <2> QED BY <2>2, <2>3
<1>12. UNCHANGED Abstract!vars
  BY <1>6, <1>8, Unseen
<1> QED BY <1>7, <1>9, <1>10, <1>11, <1>12 DEF Inv

\* A connection that closes leaves the registry and the abstract subscribers.
LEMMA CloseFacts ==
  ASSUME Inv, NEW c \in Conns, Close(c)
  PROVE  Inv' /\ Abstract!Leave(c)
<1>1. PICK k \in Connection : k = [conn[c] EXCEPT !.live = {}] /\ k.live = {}
  <2>1. PICK j \in Connection : j = conn[c]
    BY DEF Inv, TypeOK
  <2>2. [j EXCEPT !.live = {}] \in Connection /\ [j EXCEPT !.live = {}].live = {}
    BY DEF Connection
  <2> QED BY <2>1, <2>2
<1>2. /\ conn' = [conn EXCEPT ![c] = k] /\ cmd' = [cmd EXCEPT ![c] = "gone"]
      /\ atRfq' = [atRfq EXCEPT ![c] = FALSE] /\ queued' = [queued EXCEPT ![c] = << >>]
      /\ written' = [written EXCEPT ![c] = << >>] /\ wire' = [wire EXCEPT ![c] = << >>]
      /\ UNCHANGED << published, pushed >>
  BY <1>1 DEF Close, history
<1>3. /\ listeners' \in [Channels -> SUBSET Conns]
      /\ \A ch \in Channels : c \notin listeners'[ch]
      /\ \A ch \in Channels, d \in Conns :
           d # c => (d \in listeners'[ch] <=> d \in listeners[ch])
  <2>1. PICK after \in SUBSET Channels : after = {}
    OBVIOUS
  <2>2. listeners' = Registry(listeners, c, conn[c].live, after)
    BY <2>1 DEF Close
  <2>3. TypeOK /\ RegistryAgrees
    BY DEF Inv
  <2> QED BY <2>1, <2>2, <2>3, RegistryFollows
<1>4. << >> \in Seq(Events) /\ << >> \in Seq(Messages) /\ << >> \o << >> = << >>
  OBVIOUS
<1>5. TypeOK'
  BY <1>2, <1>3, <1>4 DEF Inv, TypeOK
<1>6. RegistryAgrees'
  BY <1>1, <1>2, <1>3 DEF Inv, TypeOK, RegistryAgrees
<1>7. \A d \in Conns : cmd'[d] # "gone" => Kept(conn'[d])
  BY <1>2 DEF Inv, TypeOK
<1>8. ASSUME NEW d \in Conns PROVE StandsRight(d)'
  <2>1. CASE d = c
    BY <1>2, <2>1 DEF Inv, TypeOK, StandsRight
  <2>2. CASE d # c
    <3>1. /\ wire'[d] = wire[d] /\ queued'[d] = queued[d]
          /\ cmd'[d] = cmd[d] /\ atRfq'[d] = atRfq[d]
      BY <1>2, <2>2 DEF Inv, TypeOK
    <3>2. StandsRight(d)
      BY DEF Inv
    <3> QED BY <3>1, <3>2 DEF StandsRight
  <2> QED BY <2>1, <2>2
<1>9. Abstract!Leave(c)
  <2>1. [d \in Conns |-> conn'[d].live] = [[d \in Conns |-> conn[d].live] EXCEPT ![c] = {}]
    BY <1>1, <1>2 DEF Inv, TypeOK
  <2>2. [d \in Conns |-> written'[d] \o queued'[d]]
          = [[d \in Conns |-> written[d] \o queued[d]] EXCEPT ![c] = << >>]
    BY <1>2, <1>4 DEF Inv, TypeOK
  <2> QED BY <1>2, <2>1, <2>2 DEF Abstract!Leave
<1> QED BY <1>5, <1>6, <1>7, <1>8, <1>9 DEF Inv

\* The parts of the invariant that a delivery alone leaves as they are.
LEMMA DeliveryOnly ==
  ASSUME Inv, UNCHANGED << conn, cmd, atRfq, listeners >>,
         published' \in Nat, pushed' \in Nat,
         wire' \in [Conns -> Seq(Messages)], written' \in [Conns -> Seq(Events)],
         queued' \in [Conns -> Seq(Events)],
         \A c \in Conns : StandsRight(c)'
  PROVE  Inv'
<1>1. TypeOK' /\ RegistryAgrees'
  BY DEF Inv, TypeOK, RegistryAgrees
<1> QED BY <1>1 DEF Inv

\* PgServer.notify() from the embedding program is a publication by no one.
LEMMA ServerNotifyFacts ==
  ASSUME Inv, NEW e \in Events, ServerNotify(e)
  PROVE  Inv' /\ Abstract!Announce(e)
<1>1. << e >> \in Seq(Events) /\ Len(<< e >>) = 1 /\ << >> \in Seq({Response})
  OBVIOUS
<1>2. PICK to, own : to = Fanout(<< e >>) /\ own = Silent
  OBVIOUS
<1>3. /\ to \in [Conns -> Seq(Events)] /\ own \in [Conns -> Seq({Response})]
      /\ \A d \in Conns : cmd[d] \in {"new", "gone"} => to[d] = << >>
      /\ \A d \in Conns : cmd[d] # "running" => own[d] = << >>
      /\ \A d \in Conns : to[d] = OnChannels(<< e >>, conn[d].live)
  <2>1. own \in [Conns -> Seq({Response})] /\ \A d \in Conns : own[d] = << >>
    BY <1>1, <1>2 DEF Silent
  <2> QED BY <1>1, <1>2, <2>1, FanoutFacts
<1>4. /\ Deliver(to, own) /\ UNCHANGED << conn, cmd, atRfq, listeners, pushed >>
      /\ published' = published + 1 /\ published \in Nat /\ pushed \in Nat
  BY <1>1, <1>2 DEF ServerNotify, Count, Inv, TypeOK
<1>5. /\ wire' \in [Conns -> Seq(Messages)] /\ written' \in [Conns -> Seq(Events)]
      /\ queued' \in [Conns -> Seq(Events)]
      /\ \A d \in Conns : StandsRight(d)'
      /\ \A d \in Conns : (written[d] \o queued[d])' = (written[d] \o queued[d]) \o to[d]
  BY <1>3, <1>4, DeliverFacts
<1>6. Inv'
  BY <1>4, <1>5, DeliveryOnly
<1>7. Abstract!Announce(e)
  <2>1. [r \in Conns |-> written'[r] \o queued'[r]]
          = [r \in Conns |-> [d \in Conns |-> written[d] \o queued[d]][r]
                             \o Abstract!OnChannels(<< e >>, [d \in Conns |-> conn[d].live][r])]
    BY <1>3, <1>5, SameSelection
  <2> QED BY <1>1, <1>4, <2>1 DEF Abstract!Announce, Abstract!Send, Abstract!For
<1> QED BY <1>6, <1>7

\* Connection.notify() pushes to one inbox.
LEMMA PushToOneFacts ==
  ASSUME Inv, NEW c \in Conns, NEW e \in Events, PushToOne(c, e)
  PROVE  Inv' /\ Abstract!Push(c, e)
<1>1. << e >> \in Seq(Events) /\ << >> \in Seq(Events) /\ << >> \in Seq({Response})
  OBVIOUS
<1>2. PICK to, own : to = [Silent EXCEPT ![c] = << e >>] /\ own = Silent
  OBVIOUS
<1>3. /\ to \in [Conns -> Seq(Events)] /\ own \in [Conns -> Seq({Response})]
      /\ \A d \in Conns : cmd[d] \in {"new", "gone"} => to[d] = << >>
      /\ \A d \in Conns : cmd[d] # "running" => own[d] = << >>
      /\ \A d \in Conns : to[d] = IF d = c THEN << e >> ELSE << >>
  BY <1>1, <1>2 DEF Silent, PushToOne
<1>4. /\ Deliver(to, own) /\ UNCHANGED << conn, cmd, atRfq, listeners, published >>
      /\ pushed' = pushed + 1 /\ published \in Nat /\ pushed \in Nat
  BY <1>2 DEF PushToOne, Inv, TypeOK
<1>5. /\ wire' \in [Conns -> Seq(Messages)] /\ written' \in [Conns -> Seq(Events)]
      /\ queued' \in [Conns -> Seq(Events)]
      /\ \A d \in Conns : StandsRight(d)'
      /\ \A d \in Conns : (written[d] \o queued[d])' = (written[d] \o queued[d]) \o to[d]
  BY <1>3, <1>4, DeliverFacts
<1>6. Inv'
  BY <1>4, <1>5, DeliveryOnly
<1>7. Abstract!Push(c, e)
  <2>1. ASSUME NEW d \in Conns
        PROVE  written'[d] \o queued'[d] =
                 IF d = c THEN Append(written[d] \o queued[d], e) ELSE written[d] \o queued[d]
    <3>1. PICK i \in Seq(Events) : i = written[d] \o queued[d]
      BY ConcatProperties DEF Inv, TypeOK
    <3>2. i \o << e >> = Append(i, e) /\ i \o << >> = i
      OBVIOUS
    <3> QED BY <1>3, <1>5, <3>1, <3>2
  <2>2. [d \in Conns |-> written'[d] \o queued'[d]]
          = [[d \in Conns |-> written[d] \o queued[d]] EXCEPT ![c] = Append(@, e)]
    BY <2>1
  <2> QED BY <1>4, <2>2 DEF Abstract!Push
<1> QED BY <1>6, <1>7

\* Every statement is an execution that leaves its connection well kept.
LEMMA StatementFacts ==
  ASSUME Inv, NEW c \in Conns, Statement(c)
  PROVE  Inv' /\ PublishesFor(c)
<1>1. PICK j \in Connection : j = conn[c]
  BY DEF Inv, TypeOK
<1>2. cmd[c] # "gone" => Kept(j)
  BY <1>1 DEF Inv
<1>3. SUFFICES ASSUME cmd[c] = "running", Kept(j)
               PROVE  \E statement, k : \E events \in Seq(Events) :
                        Kept(k) /\ Executes(c, statement, k, events)
  <2>1. cmd[c] = "running"
    BY DEF Statement, Executes, BeginStatement, CommitStatement, RollbackStatement,
           SavepointStatement, ReleaseStatement, RollbackToStatement,
           DiscardAllStatement, ListenStatement, UnlistenStatement, NotifyStatement
  <2>2. PICK statement, k : \E events \in Seq(Events) :
          Kept(k) /\ Executes(c, statement, k, events)
    BY <1>2, <1>3, <2>1
  <2>3. PICK events \in Seq(Events) : Kept(k) /\ Executes(c, statement, k, events)
    BY <2>2
  <2> QED BY <2>3, ExecutesFacts
<1>4. << >> \in Seq(Events)
  OBVIOUS
<1>5. j.now.listening \in SUBSET Channels
  BY DEF Connection, Scope
<1>6. CASE BeginStatement(c)
  <2>1. Executes(c, "BEGIN", Begin(j), << >>)
    BY <1>1, <1>6 DEF BeginStatement
  <2>2. j.tx \in {"I", "T"}
    BY <1>1, <2>1 DEF Executes, Runs, Connection, TxStatus
  <2>3. Kept(Begin(j))
    BY <1>3, <2>2, StatementsKeep
  <2> QED BY <1>4, <2>1, <2>3
<1>7. CASE CommitStatement(c)
  <2>1. Executes(c, "COMMIT", Commit(j), CommitFanout(j))
    BY <1>1, <1>7 DEF CommitStatement
  <2>2. CommitFanout(j) \in Seq(Events) /\ Kept(Commit(j))
    BY <1>3, FanoutTypes, StatementsKeep
  <2> QED BY <2>1, <2>2
<1>8. CASE RollbackStatement(c)
  <2>1. Executes(c, "ROLLBACK", Rollback(j), << >>)
    BY <1>1, <1>8 DEF RollbackStatement
  <2>2. Kept(Rollback(j))
    BY <1>3, StatementsKeep
  <2> QED BY <1>4, <2>1, <2>2
<1>9. ASSUME NEW s \in Names, SavepointStatement(c, s)
      PROVE  \E statement, k : \E events \in Seq(Events) :
               Kept(k) /\ Executes(c, statement, k, events)
  <2>1. Executes(c, "SAVEPOINT", Savepoint(j, s), << >>) /\ j.tx # "I"
    BY <1>1, <1>9 DEF SavepointStatement
  <2>2. Kept(Savepoint(j, s))
    BY <1>3, <2>1, SavepointsKeep
  <2> QED BY <1>4, <2>1, <2>2
<1>10. ASSUME NEW s \in Names, ReleaseStatement(c, s)
       PROVE  \E statement, k : \E events \in Seq(Events) :
                Kept(k) /\ Executes(c, statement, k, events)
  <2>1. Executes(c, "RELEASE", Release(j, s), << >>) /\ j.tx # "I" /\ HasSavepoint(j, s)
    BY <1>1, <1>10 DEF ReleaseStatement
  <2>2. Kept(Release(j, s))
    BY <1>3, <2>1, SavepointsKeep
  <2> QED BY <1>4, <2>1, <2>2
<1>11. ASSUME NEW s \in Names, RollbackToStatement(c, s)
       PROVE  \E statement, k : \E events \in Seq(Events) :
                Kept(k) /\ Executes(c, statement, k, events)
  <2>1. Executes(c, "ROLLBACK TO", RollbackTo(j, s), << >>) /\ j.tx # "I" /\ HasSavepoint(j, s)
    BY <1>1, <1>11 DEF RollbackToStatement
  <2>2. Kept(RollbackTo(j, s))
    BY <1>3, <2>1, SavepointsKeep
  <2> QED BY <1>4, <2>1, <2>2
<1>12. CASE DiscardAllStatement(c)
  <2>1. Executes(c, "DISCARD ALL", DiscardAll(j), << >>) /\ j.tx = "I"
    BY <1>1, <1>12 DEF DiscardAllStatement
  <2>2. Kept(DiscardAll(j))
    BY <1>3, <2>1, StatementsKeep
  <2> QED BY <1>4, <2>1, <2>2
<1>13. ASSUME NEW ch \in Channels, ListenStatement(c, ch)
       PROVE  \E statement, k : \E events \in Seq(Events) :
                Kept(k) /\ Executes(c, statement, k, events)
  <2>1. Executes(c, "LISTEN", Subscribe(j, j.now.listening \cup {ch}), << >>)
    BY <1>1, <1>13 DEF ListenStatement, Listen
  <2>2. j.now.listening \cup {ch} \in SUBSET Channels
    BY <1>5
  <2>3. Kept(Subscribe(j, j.now.listening \cup {ch}))
    BY <1>3, <2>2, StatementsKeep
  <2> QED BY <1>4, <2>1, <2>3
<1>14. ASSUME NEW chs, UnlistenStatement(c, chs)
       PROVE  \E statement, k : \E events \in Seq(Events) :
                Kept(k) /\ Executes(c, statement, k, events)
  <2>1. Executes(c, "UNLISTEN", Subscribe(j, j.now.listening \ chs), << >>)
    BY <1>1, <1>14 DEF UnlistenStatement, Unlisten
  <2>2. j.now.listening \ chs \in SUBSET Channels
    BY <1>5
  <2>3. Kept(Subscribe(j, j.now.listening \ chs))
    BY <1>3, <2>2, StatementsKeep
  <2> QED BY <1>4, <2>1, <2>3
<1>15. ASSUME NEW e \in Events, NotifyStatement(c, e)
       PROVE  \E statement, k : \E events \in Seq(Events) :
                Kept(k) /\ Executes(c, statement, k, events)
  <2>1. Executes(c, "NOTIFY", Notify(j, e), NotifyFanout(j, e))
    BY <1>1, <1>15 DEF NotifyStatement
  <2>2. NotifyFanout(j, e) \in Seq(Events) /\ Kept(Notify(j, e))
    BY <1>3, FanoutTypes, StatementsKeep
  <2> QED BY <2>1, <2>2
<1> QED
  BY <1>6, <1>7, <1>8, <1>9, <1>10, <1>11, <1>12, <1>13, <1>14, <1>15 DEF Statement

\* Every step keeps the invariant and is a step of PubSub or invisible to it.
LEMMA StepFacts ==
  ASSUME Inv, [Next]_vars
  PROVE  Inv' /\ [Abstract!Next]_(Abstract!vars)
<1>1. ASSUME NEW c \in Conns, Connect(c) \/ ReceiveCommand(c) \/ ReadyForQuery(c)
                              \/ StatementFails(c)
      PROVE  Inv' /\ UNCHANGED Abstract!vars
  BY <1>1, ConnectFacts, ReceiveCommandFacts, ReadyForQueryFacts, StatementFailsFacts
<1>2. ASSUME NEW c \in Conns, Close(c)
      PROVE  Inv' /\ Abstract!Next
  <2>1. Inv' /\ Abstract!Leave(c)
    BY <1>2, CloseFacts
  <2> QED BY <2>1 DEF Abstract!Next
<1>3. ASSUME NEW c \in Conns, Statement(c)
      PROVE  Inv' /\ Abstract!Next
  <2>1. Inv' /\ PublishesFor(c)
    BY <1>3, StatementFacts
  <2> QED BY <2>1 DEF Abstract!Next, PublishesFor
<1>4. ASSUME NEW c \in Conns, NEW e \in Events, PushToOne(c, e)
      PROVE  Inv' /\ Abstract!Next
  <2>1. Inv' /\ Abstract!Push(c, e)
    BY <1>4, PushToOneFacts
  <2> QED BY <2>1 DEF Abstract!Next, Abstract!Events, Events
<1>5. ASSUME NEW e \in Events, ServerNotify(e)
      PROVE  Inv' /\ Abstract!Next
  <2>1. Inv' /\ Abstract!Announce(e)
    BY <1>5, ServerNotifyFacts
  <2> QED BY <2>1 DEF Abstract!Next, Abstract!Events, Events
<1>6. CASE UNCHANGED vars
  <2>1. TypeOK' /\ RegistryAgrees'
    BY <1>6 DEF Inv, TypeOK, RegistryAgrees, vars, history
  <2>2. \A c \in Conns : StandsRight(c)' /\ (cmd'[c] # "gone" => Kept(conn'[c]))
    BY <1>6 DEF Inv, StandsRight, vars
  <2>3. UNCHANGED Abstract!vars
    BY <1>6, Unseen DEF vars, history
  <2> QED BY <2>1, <2>2, <2>3 DEF Inv
<1> QED BY <1>1, <1>2, <1>3, <1>4, <1>5, <1>6 DEF Next
-----------------------------------------------------------------------------
\* The inductive invariant holds in every reachable state.
THEOREM ListenNotifyInvariance == Spec => []Inv
<1>1. Init => Inv
  BY InitFacts
<1>2. Inv /\ [Next]_vars => Inv'
  BY StepFacts
<1> QED BY <1>1, <1>2, PTL DEF Spec

\* PgServer._listeners and the connections' _registered_channels agree, and a
\* connection that is gone is in neither, for every number of connections.
THEOREM RegistryStaysInAgreement == Spec => []RegistryAgrees
<1>1. Inv => RegistryAgrees
  BY DEF Inv
<1> QED BY <1>1, ListenNotifyInvariance, PTL

\* No NotificationResponse is followed by more of the response of the command
\* it was written in.
THEOREM NotificationsStayOutside == Spec => []NeverInsideAResponse
<1>1. Inv => NeverInsideAResponse
  BY DEF Inv, StandsRight, NeverInsideAResponse
<1> QED BY <1>1, ListenNotifyInvariance, PTL

\* Registry, queues and streams together implement the abstract publication:
\* every event reaches every subscriber of its channel once, in order, and
\* nobody else.
THEOREM RefinesPubSub == Spec => ImplementsPubSub
<1>1. Init => Abstract!Init
  BY InitFacts
<1>2. Inv /\ [Next]_vars => [Abstract!Next]_(Abstract!vars)
  BY StepFacts
<1> QED BY <1>1, <1>2, ListenNotifyInvariance, PTL DEF Spec, ImplementsPubSub, Abstract!Spec
=============================================================================
