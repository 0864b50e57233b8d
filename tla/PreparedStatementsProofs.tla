---------------------- MODULE PreparedStatementsProofs ----------------------
(***************************************************************************)
(* For any texts, names, settings, catalogue, limits and refusals: the     *)
(* session and the connection agree on the settings but for those whose    *)
(* telling a cancel cut short, what a client is told of a setting is       *)
(* fresh, and settings move at Execute only.                               *)
(*                                                                         *)
(* A registered statement may be a PREPARE that registers another, which   *)
(* may be one too.  Closed(W) says that W is a set of statements that are  *)
(* lists of effects and register only members of W; the invariant is that  *)
(* what is registered or bound comes from such a set.  Each effect keeps   *)
(* the agreement, and RunsWell carries that along a list of effects.       *)
(***************************************************************************)
EXTENDS PreparedStatements, Counting, SequenceTheorems

Effects == {"set", "reset_all", "discard_all", "discard_plans", "deallocate", "store", "nothing"}

Closed(W) ==
  \A w \in W :
    /\ Len(w.effects) \in Nat
    /\ \A i \in 1..Len(w.effects) :
         /\ w.effects[i].do \in Effects
         /\ w.effects[i].do = "store" => Stored(w.effects[i]) \in W

\* The connection's state s, with statements of W, on which the session agrees.
IsNow(s) ==
  s = [statements |-> s.statements, portals |-> s.portals, vars |-> s.vars,
       known |-> s.known, mirror |-> s.mirror, torn |-> s.torn]
Agrees(v, m, t) ==
  /\ DOMAIN v = Settings /\ DOMAIN m = Settings
  /\ \A n \in Settings \ t : m[n] = v[n]
Well(s, W) ==
  /\ IsNow(s)
  /\ Agrees(s.vars, s.mirror, s.torn)
  /\ s.statements \in [Names -> W \cup {None}]
  /\ DOMAIN s.portals = Portals
  /\ \A p \in Portals : s.portals[p] # None => s.portals[p].statement \in W

Inv == \E W : Closed(W) /\ Well(Now, W)

\* Statements or portals are changed, and the other fields are not.
LEMMA StatementsChange ==
  ASSUME NEW s, IsNow(s), NEW v, NEW t, t = [s EXCEPT !.statements = v]
  PROVE  /\ IsNow(t) /\ t.statements = v /\ t.portals = s.portals /\ t.vars = s.vars
         /\ t.known = s.known /\ t.mirror = s.mirror /\ t.torn = s.torn
  BY DEF IsNow
LEMMA PortalsChange ==
  ASSUME NEW s, IsNow(s), NEW v, NEW t, t = [s EXCEPT !.portals = v]
  PROVE  /\ IsNow(t) /\ t.statements = s.statements /\ t.portals = v /\ t.vars = s.vars
         /\ t.known = s.known /\ t.mirror = s.mirror /\ t.torn = s.torn
  BY DEF IsNow

\* A record is changed, and nothing else.
LEMMA RecordIs ==
  ASSUME NEW s, IsNow(s), NEW name, NEW v, NEW r, r = Record(s, name, v)
  PROVE  /\ IsNow(r) /\ r.statements = s.statements /\ r.portals = s.portals
         /\ r.vars = [s.vars EXCEPT ![name] = v] /\ r.mirror = s.mirror /\ r.torn = s.torn
<1> DEFINE x == [s.vars EXCEPT ![name] = v]
           k == s.known \cup {name}
<1>1. r = [s EXCEPT !.vars = x, !.known = k]
  BY DEF Record
<1>2. x = [s.vars EXCEPT ![name] = v]
  OBVIOUS
<1> HIDE DEF x, k
<1> QED BY <1>1, <1>2 DEF IsNow

\* A setting that is recorded and that the session accepted; it was torn no more.
LEMMA ToldAgrees ==
  ASSUME NEW W, NEW s, Well(s, W), NEW name, NEW v
  PROVE  Well(Told(s, name, v), W)
<1> DEFINE r == Record(s, name, v)
           m == [r.mirror EXCEPT ![name] = v]
           u == r.torn \ {name}
           t == Told(s, name, v)
<1>1. /\ IsNow(r) /\ r.statements = s.statements /\ r.portals = s.portals
      /\ r.vars = [s.vars EXCEPT ![name] = v] /\ r.mirror = s.mirror /\ r.torn = s.torn
  <2>1. IsNow(s) /\ r = Record(s, name, v)
    BY DEF Well
  <2> HIDE DEF r
  <2> QED BY <2>1, RecordIs
<1>2. t = [r EXCEPT !.mirror = m, !.torn = u]
  BY DEF Told
<1> HIDE DEF r, t
<1>3. Agrees(r.vars, m, u)
  BY <1>1 DEF Well, Agrees
<1> HIDE DEF m, u
<1>4. /\ IsNow(t) /\ t.statements = r.statements /\ t.portals = r.portals
      /\ t.vars = r.vars /\ t.mirror = m /\ t.torn = u
  BY <1>1, <1>2 DEF IsNow
<1>5. Well(t, W)
  BY <1>1, <1>3, <1>4 DEF Well
<1> QED BY <1>5 DEF t

\* A setting that is recorded and whose telling is cut short is torn.
LEMMA CutAgrees ==
  ASSUME NEW W, NEW s, Well(s, W), NEW name, NEW v
  PROVE  Well(Cut(s, name, v), W)
<1> DEFINE r == Record(s, name, v)
           u == r.torn \cup {name}
           t == Cut(s, name, v)
<1>1. /\ IsNow(r) /\ r.statements = s.statements /\ r.portals = s.portals
      /\ r.vars = [s.vars EXCEPT ![name] = v] /\ r.mirror = s.mirror /\ r.torn = s.torn
  <2>1. IsNow(s) /\ r = Record(s, name, v)
    BY DEF Well
  <2> HIDE DEF r
  <2> QED BY <2>1, RecordIs
<1>2. t = [r EXCEPT !.mirror = r.mirror, !.torn = u]
  BY <1>1 DEF Cut, IsNow
<1> HIDE DEF r, t
<1>3. Agrees(r.vars, r.mirror, u)
  BY <1>1 DEF Well, Agrees
<1> HIDE DEF u
<1>4. /\ IsNow(t) /\ t.statements = r.statements /\ t.portals = r.portals
      /\ t.vars = r.vars /\ t.mirror = r.mirror /\ t.torn = u
  BY <1>1, <1>2 DEF IsNow
<1>5. Well(t, W)
  BY <1>1, <1>3, <1>4 DEF Well
<1> QED BY <1>5 DEF t

\* _apply_set_config records and tells, does neither, or is cut short.
LEMMA SetKeeps ==
  ASSUME NEW W, NEW s, Well(s, W), NEW name, NEW to, NEW refusal
  PROVE  Well(ApplySetConfig(s, name, to, refusal).now, W)
<1> DEFINE parsed == IF to = Default THEN Parsed(None) ELSE Parse(name, to)
           v == parsed.value
<1>1. ApplySetConfig(s, name, to, refusal).now \in {s, Told(s, name, v), Cut(s, name, v)}
  BY DEF ApplySetConfig
<1> HIDE DEF v
<1>2. Well(Told(s, name, v), W) /\ Well(Cut(s, name, v), W)
  BY ToldAgrees, CutAgrees
<1> QED BY <1>1, <1>2

\* _reset_all resets what the session accepted, and one setting more when it is
\* cut short.
LEMMA ResetKeeps ==
  ASSUME NEW W, NEW s, Well(s, W), NEW refusal
  PROVE  Well(ResetAll(s, refusal).now, W)
<1> DEFINE held == {n \in Settings : s.vars[n] # None}
           stops == held \cap refusal.of # {}
           done == IF stops THEN (held \cap refusal.before) \ refusal.of ELSE held
           cut == IF refusal.by = "cancel" THEN held \cap refusal.of ELSE {}
           v == [n \in Settings |-> IF n \in done \cup cut THEN None ELSE s.vars[n]]
           m == [n \in Settings |-> IF n \in done THEN None ELSE s.mirror[n]]
           u == (s.torn \ done) \cup cut
           t == [s EXCEPT !.vars = v, !.mirror = m, !.torn = u]
<1>1. IsNow(s) /\ Agrees(s.vars, s.mirror, s.torn)
  BY DEF Well
<1>2. ResetAll(s, refusal).now = t
  BY <1>1 DEF ResetAll, IsNow
<1>3. Agrees(v, m, u)
  <2> HIDE DEF done, cut
  <2> QED BY <1>1 DEF Agrees
<1> HIDE DEF v, m, u
<1>4. /\ IsNow(t) /\ t.statements = s.statements /\ t.portals = s.portals
      /\ t.vars = v /\ t.mirror = m /\ t.torn = u
  <2>1. t = [s EXCEPT !.vars = v, !.mirror = m, !.torn = u]
    OBVIOUS
  <2> HIDE DEF t
  <2> QED BY <1>1, <2>1 DEF IsNow
<1> QED BY <1>2, <1>3, <1>4 DEF Well

\* Nothing is registered, or a member of W, or a name is freed.
LEMMA RegistryKeeps ==
  ASSUME NEW W, NEW s, Well(s, W), NEW v \in [Names -> W \cup {None}],
         NEW t, t = [s EXCEPT !.statements = v]
  PROVE  Well(t, W)
<1>1. /\ IsNow(t) /\ t.statements = v /\ t.portals = s.portals
      /\ t.vars = s.vars /\ t.mirror = s.mirror /\ t.torn = s.torn
  BY StatementsChange DEF Well
<1> QED BY <1>1 DEF Well
LEMMA OneKeeps ==
  ASSUME NEW W, NEW s, Well(s, W), NEW name, NEW w \in W \cup {None},
         NEW t, t = [s EXCEPT !.statements[name] = w]
  PROVE  Well(t, W)
<1> DEFINE v == [s.statements EXCEPT ![name] = w]
<1>1. v \in [Names -> W \cup {None}]
  BY DEF Well
<1>2. t = [s EXCEPT !.statements = v]
  OBVIOUS
<1> HIDE DEF v
<1> QED BY <1>1, <1>2, RegistryKeeps

\* DISCARD ALL, up to what the session refuses.
LEMMA DiscardKeeps ==
  ASSUME NEW W, NEW s, Well(s, W), NEW refusal
  PROVE  Well(DiscardAll(s, refusal).now, W)
<1> DEFINE r == ResetAll(s, refusal).now
           v == [n \in Names |-> None]
           p == [q \in Portals |-> None]
           t == [r EXCEPT !.statements = v, !.portals = p]
<1>1. Well(r, W)
  BY ResetKeeps
<1>2. DiscardAll(s, refusal).now \in {s, r, t}
  BY DEF DiscardAll
<1> HIDE DEF r
<1>3. Well(t, W)
  <2>1. IsNow(r)
    BY <1>1 DEF Well
  <2>2. /\ IsNow(t) /\ t.statements = v /\ t.portals = p
        /\ t.vars = r.vars /\ t.mirror = r.mirror /\ t.torn = r.torn
    <3> DEFINE u == [r EXCEPT !.statements = v]
    <3>1. IsNow(u) /\ u.statements = v /\ u.vars = r.vars /\ u.mirror = r.mirror /\ u.torn = r.torn
      BY <2>1, StatementsChange
    <3>2. t = [u EXCEPT !.portals = p]
      OBVIOUS
    <3> HIDE DEF t, u, v, p
    <3> QED BY <3>1, <3>2, PortalsChange
  <2> QED BY <1>1, <2>2 DEF Well
<1> QED BY <1>1, <1>2, <1>3

\* Whatever a statement does when it is executed, the session and the connection
\* agree afterwards but for what is torn, and the registry holds members of W.
LEMMA EffectKeeps ==
  ASSUME NEW W, NEW s, Well(s, W), NEW e, e.do \in Effects,
         e.do = "store" => Stored(e) \in W, NEW refusal
  PROVE  Well(Effect(s, e, refusal).now, W)
<1>1. CASE e.do = "set"
  BY <1>1, SetKeeps DEF Effect
<1>2. CASE e.do = "reset_all"
  BY <1>2, ResetKeeps DEF Effect
<1>3. CASE e.do = "discard_all"
  BY <1>3, DiscardKeeps DEF Effect
<1>4. CASE e.do \in {"discard_plans", "nothing"}
  BY <1>4 DEF Effect
<1>5. CASE e.do = "deallocate"
  <2> DEFINE v == [n \in Names |-> None]
  <2>1. Effect(s, e, refusal) = Deallocate(s, e.name)
    BY <1>5 DEF Effect
  <2>2. Deallocate(s, e.name).now \in {s, [s EXCEPT !.statements = v], [s EXCEPT !.statements[e.name] = None]}
    BY DEF Deallocate
  <2>3. Well([s EXCEPT !.statements = v], W)
    BY RegistryKeeps
  <2>4. Well([s EXCEPT !.statements[e.name] = None], W)
    BY OneKeeps
  <2> QED BY <2>1, <2>2, <2>3, <2>4
<1>6. CASE e.do = "store"
  <2>1. Effect(s, e, refusal).now = [s EXCEPT !.statements[Identifier(Head(e.names))] = Stored(e)]
    BY <1>6 DEF Effect
  <2> DEFINE t == Effect(s, e, refusal).now
             name == Identifier(Head(e.names))
             w == Stored(e)
  <2>2. t = [s EXCEPT !.statements[name] = w] /\ w \in W \cup {None}
    BY <1>6, <2>1
  <2> HIDE DEF t, name, w
  <2>3. Well(t, W)
    BY <2>2, OneKeeps
  <2> QED BY <2>3 DEF t
<1> QED BY <1>1, <1>2, <1>3, <1>4, <1>5, <1>6 DEF Effects
-----------------------------------------------------------------------------
\* A list of effects, one after the other.
Runs(f, n, s, effects, refusal) ==
  f = [i \in 0..n |-> IF i = 0 THEN [error |-> "none", now |-> s]
                      ELSE Then(f[i - 1], effects[i], refusal)]

\* Any list of effects has a run.
LEMMA RunExists ==
  ASSUME NEW len \in Nat, NEW s, NEW effects, NEW refusal
  PROVE  \E f : Runs(f, len, s, effects, refusal)
<1> DEFINE T == {n \in Nat : \E f : Runs(f, n, s, effects, refusal)}
           Begin == [error |-> "none", now |-> s]
<1>1. 0 \in T
  <2>1. Runs([i \in 0..0 |-> Begin], 0, s, effects, refusal)
    BY DEF Runs
  <2> QED BY <2>1
<1>2. ASSUME NEW m \in T PROVE m + 1 \in T
  <2>1. PICK f : Runs(f, m, s, effects, refusal)
    OBVIOUS
  <2> HIDE DEF Begin
  <2> DEFINE g == [i \in 0..(m + 1) |->
                     IF i = m + 1 THEN Then(f[m], effects[m + 1], refusal) ELSE f[i]]
  <2>2. ASSUME NEW i \in 0..(m + 1)
        PROVE  g[i] = IF i = 0 THEN Begin ELSE Then(g[i - 1], effects[i], refusal)
    <3>1. CASE i = m + 1
      BY <3>1
    <3>2. CASE i # m + 1
      <4>1. i \in 0..m /\ (i # 0 => i - 1 \in 0..(m + 1) /\ i - 1 # m + 1)
        BY <3>2
      <4>2. f[i] = IF i = 0 THEN Begin ELSE Then(f[i - 1], effects[i], refusal)
        BY <2>1, <4>1 DEF Runs, Begin
      <4> QED BY <3>2, <4>1, <4>2
    <3> QED BY <3>1, <3>2
  <2>3. g = [i \in 0..(m + 1) |->
               IF i = 0 THEN Begin ELSE Then(g[i - 1], effects[i], refusal)]
    BY <2>2
  <2>4. Runs(g, m + 1, s, effects, refusal)
    BY <2>3 DEF Runs, Begin
  <2> QED BY <2>4
<1>3. len \in T
  <2> HIDE DEF T
  <2>1. T \in SUBSET Nat
    BY DEF T
  <2> QED BY <1>1, <1>2, <2>1, ReachesEvery
<1> QED BY <1>3

\* RunAll is the end of the run.
LEMMA RunAllUnfolds ==
  ASSUME NEW s, NEW effects, Len(effects) \in Nat, NEW refusal
  PROVE  \E f : /\ Runs(f, Len(effects), s, effects, refusal)
                /\ RunAll(s, effects, refusal) = f[Len(effects)]
<1> DEFINE F == CHOOSE f : Runs(f, Len(effects), s, effects, refusal)
<1>1. Runs(F, Len(effects), s, effects, refusal)
  BY RunExists
<1>2. RunAll(s, effects, refusal) = F[Len(effects)]
  BY DEF RunAll, Runs
<1> QED BY <1>1, <1>2

\* However many effects a statement has, and whichever of them raises, is refused
\* or is cut short, the session and the connection agree on the rest afterwards.
LEMMA RunsWell ==
  ASSUME NEW W, Closed(W), NEW w \in W, NEW s, Well(s, W), NEW refusal
  PROVE  Well(RunAll(s, w.effects, refusal).now, W)
<1> DEFINE len == Len(w.effects)
<1>1. /\ len \in Nat
      /\ \A i \in 1..len : /\ w.effects[i].do \in Effects
                           /\ w.effects[i].do = "store" => Stored(w.effects[i]) \in W
  BY DEF Closed
<1>2. PICK f : /\ Runs(f, len, s, w.effects, refusal)
               /\ RunAll(s, w.effects, refusal) = f[len]
  BY <1>1, RunAllUnfolds
<1> HIDE DEF len
<1> DEFINE T == {n \in 0..len : Well(f[n].now, W)}
<1>3. 0 \in T
  <2>1. 0 \in 0..len
    BY <1>1
  <2>2. f[0] = [error |-> "none", now |-> s]
    BY <1>2, <2>1 DEF Runs
  <2> QED BY <2>1, <2>2
<1>4. ASSUME NEW n \in T, n < len PROVE n + 1 \in T
  <2>1. n + 1 \in 1..len /\ n + 1 \in 0..len /\ n + 1 # 0 /\ n = (n + 1) - 1
    BY <1>1, <1>4
  <2>2. f[n + 1] = Then(f[n], w.effects[n + 1], refusal)
    BY <1>2, <2>1 DEF Runs
  <2>3. Well(f[n].now, W)
    OBVIOUS
  <2>4. Well(Effect(f[n].now, w.effects[n + 1], refusal).now, W)
    BY <1>1, <2>1, <2>3, EffectKeeps
  <2>5. Well(f[n + 1].now, W)
    BY <2>2, <2>3, <2>4 DEF Then
  <2> QED BY <2>1, <2>5
<1>5. len \in T
  <2> HIDE DEF T
  <2>1. T \in SUBSET Nat
    BY <1>1 DEF T
  <2>2. \A n \in T : n < len => n + 1 \in T
    BY <1>4
  <2>3. \A n \in 0..len : n \in T
    BY <1>1, <1>3, <2>1, <2>2, ReachesEvery
  <2> QED BY <1>1, <2>3
<1> QED BY <1>2, <1>5
-----------------------------------------------------------------------------
\* A statement of other links than PREPARE and EXECUTE: effects, none a "store".
Plain(w) ==
  /\ Len(w.effects) \in Nat
  /\ \A i \in 1..Len(w.effects) : w.effects[i].do \in Effects \ {"store"}

\* One effect for each call of a SELECT.
LEMMA CallsArePlain ==
  ASSUME NEW sql, NEW calls, Len(calls) \in Nat, DOMAIN calls = 1..Len(calls)
  PROVE  Plain(Statement(sql, CallEffects(calls)))
<1> DEFINE n == Len(calls)
           es == CallEffects(calls)
           S == {es[i] : i \in 1..n}
<1>1. es \in [1..n -> S]
  BY DEF CallEffects
<1>2. \A i \in 1..n : es[i].do \in {"set", "nothing"}
  BY DEF CallEffects
<1>3. n \in Nat
  OBVIOUS
<1> HIDE DEF es, n, S
<1>4. Len(es) = n
  BY <1>1, <1>3
<1> QED BY <1>2, <1>3, <1>4 DEF Plain, Statement, Effects, es

\* What the chain makes of a text is plain, or what EXECUTE finds in the registry.
LEMMA ResolveMakes ==
  ASSUME NEW W, NEW s, Well(s, W), NEW t,
         t.verb = "select" => Len(t.calls) \in Nat /\ DOMAIN t.calls = 1..Len(t.calls)
  PROVE  Resolve(s, t) \in W \/ Plain(Resolve(s, t))
<1> DEFINE r == Resolve(s, t)
<1>0. /\ \A e : Plain(Refusal(e))
      /\ \A sql : Plain(Statement(sql, << >>))
      /\ \A sql, e : e.do \in Effects \ {"store"} => Plain(Statement(sql, << e >>))
  BY DEF Plain, Refusal, Statement
<1>1. CASE t.verb = "set"
  <2> DEFINE e == [do |-> "set", on |-> t.on, to |-> t.to]
  <2>1. r = Refusal("42601") \/ r = Statement(t, << e >>)
    BY <1>1 DEF Resolve
  <2>2. e.do \in Effects \ {"store"}
    BY DEF Effects
  <2> HIDE DEF e
  <2> QED BY <1>0, <2>1, <2>2
<1>2. CASE t.verb \in {"reset_all", "discard_all", "discard_plans"}
  <2> DEFINE e == [do |-> t.verb]
  <2>1. r = Statement(t, << e >>)
    BY <1>2 DEF Resolve
  <2>2. e.do \in Effects \ {"store"}
    BY <1>2 DEF Effects
  <2> HIDE DEF e
  <2> QED BY <1>0, <2>1, <2>2
<1>3. CASE t.verb = "deallocate"
  <2> DEFINE e == [do |-> "deallocate", name |-> t.name]
  <2>1. r = Statement(t, << e >>)
    BY <1>3 DEF Resolve
  <2>2. e.do \in Effects \ {"store"}
    BY DEF Effects
  <2> HIDE DEF e
  <2> QED BY <1>0, <2>1, <2>2
<1>4. CASE t.verb = "execute"
  <2> DEFINE n == Identifier(t.name)
  <2>1. r = Refusal("26000") \/ (n \in Names /\ s.statements[n] # None /\ r = s.statements[n])
    BY <1>4 DEF Resolve
  <2> HIDE DEF n
  <2> QED BY <1>0, <2>1 DEF Well
<1>5. CASE t.verb = "select"
  <2>1. \/ r = Refusal(RowsError(s, t)) \/ r = Statement([verb |-> "query"], << >>)
        \/ r = Statement(t, CallEffects(t.calls))
    BY <1>5 DEF Resolve
  <2>2. Plain(Statement(t, CallEffects(t.calls)))
    BY <1>5, CallsArePlain
  <2> QED BY <1>0, <2>1, <2>2
<1>6. CASE t.verb \notin {"set", "reset_all", "discard_all", "discard_plans", "deallocate",
                         "execute", "select"}
  <2>1. r = Statement(t, << >>)
    BY <1>6 DEF Resolve
  <2> QED BY <1>0, <2>1
<1> QED BY <1>1, <1>2, <1>3, <1>4, <1>5, <1>6

\* A closed set can be extended by a statement of it or a plain one, and by every
\* PREPARE of a PREPARE ... of that statement.
LEMMA Extended ==
  ASSUME NEW W, Closed(W), NEW made, made \in W \/ Plain(made)
  PROVE  \E V : /\ Closed(V) /\ W \subseteq V /\ made \in V
                /\ \A names \in Seq(STRING) \ {<< >>} : PrepareAs(names, made) \in V
<1> DEFINE Nests == {PrepareAs(names, made) : names \in Seq(STRING) \ {<< >>}}
           V == W \cup {made} \cup Nests
<1>1. ASSUME NEW w \in W \cup {made}
      PROVE  /\ Len(w.effects) \in Nat
             /\ \A i \in 1..Len(w.effects) :
                  /\ w.effects[i].do \in Effects
                  /\ w.effects[i].do = "store" => Stored(w.effects[i]) \in V
  <2> HIDE DEF Nests
  <2> QED BY <1>1 DEF Closed, Plain
<1>2. ASSUME NEW names \in Seq(STRING) \ {<< >>}
      PROVE  LET w == PrepareAs(names, made)
             IN /\ Len(w.effects) \in Nat
                /\ \A i \in 1..Len(w.effects) :
                     /\ w.effects[i].do \in Effects
                     /\ w.effects[i].do = "store" => Stored(w.effects[i]) \in V
  <2> DEFINE e == [do |-> "store", names |-> names, statement |-> made]
             w == PrepareAs(names, made)
  <2>1. w.effects = << e >>
    BY DEF PrepareAs, Statement
  <2>2. e.do = "store" /\ e.names = names /\ e.statement = made
    OBVIOUS
  <2>3. Len(names) # 1 => Tail(names) \in Seq(STRING) \ {<< >>}
    <3>1. Len(names) \in Nat /\ Len(names) # 0
      OBVIOUS
    <3>2. Tail(names) \in Seq(STRING) /\ Len(Tail(names)) = Len(names) - 1
      BY HeadTailProperties
    <3>3. Len(names) # 1 => Tail(names) # << >>
      <4>1. ASSUME NEW q, q = << >> PROVE Len(q) = 0
        BY <4>1
      <4> DEFINE q == Tail(names)
                 n == Len(names)
      <4>2. n \in Nat /\ Len(q) = n - 1 /\ (q = << >> => Len(q) = 0)
        BY <3>1, <3>2, <4>1
      <4> HIDE DEF q, n
      <4>3. n # 1 => q # << >>
        BY <4>2
      <4> QED BY <4>3 DEF q, n
    <3> QED BY <3>2, <3>3
  <2> HIDE DEF e, w
  <2>4. Stored(e) = IF Len(names) = 1 THEN made ELSE PrepareAs(Tail(names), made)
    BY <2>2 DEF Stored
  <2>5. Stored(e) \in V
    BY <2>3, <2>4
  <2>6. Len(w.effects) = 1 /\ w.effects[1] = e
    BY <2>1
  <2>7. /\ Len(w.effects) \in Nat
        /\ \A i \in 1..Len(w.effects) :
             /\ w.effects[i].do \in Effects
             /\ w.effects[i].do = "store" => Stored(w.effects[i]) \in V
    <3> HIDE DEF V
    <3> QED BY <2>2, <2>5, <2>6 DEF Effects
  <2> QED BY <2>7 DEF w
<1>3. Closed(V)
  <2>1. ASSUME NEW w \in V
        PROVE  /\ Len(w.effects) \in Nat
               /\ \A i \in 1..Len(w.effects) :
                    /\ w.effects[i].do \in Effects
                    /\ w.effects[i].do = "store" => Stored(w.effects[i]) \in V
    <3>1. CASE w \in W \cup {made}
      <4> HIDE DEF V
      <4> QED BY <1>1, <3>1
    <3>2. CASE w \in Nests
      <4>1. PICK names \in Seq(STRING) \ {<< >>} : w = PrepareAs(names, made)
        BY <3>2
      <4> HIDE DEF V
      <4> QED BY <1>2, <4>1
    <3> QED BY <3>1, <3>2
  <2> HIDE DEF V
  <2> QED BY <2>1 DEF Closed
<1> QED BY <1>3

\* A larger set of statements will do.
LEMMA Widened ==
  ASSUME NEW W, NEW V, W \subseteq V, NEW s, Well(s, W)
  PROVE  Well(s, V)
  BY DEF Well

\* Parse, PREPARE and the simple protocol make statements that a closed set holds.
LEMMA PrepareMakes ==
  ASSUME NEW W, Closed(W), NEW s, Well(s, W), NEW sql \in Texts \cup Once
  PROVE  \E V : /\ Closed(V) /\ Well(s, V)
                /\ Prepare(s, sql).error = "none" => Prepare(s, sql) \in V
<1> DEFINE t == IF sql.verb = "prepare" THEN sql.inner ELSE sql
           made == Resolve(s, t)
<1>1. t.verb = "select" => Len(t.calls) \in Nat /\ DOMAIN t.calls = 1..Len(t.calls)
  BY StatementsAssumption
<1>2. sql.verb = "prepare" => sql.names \in Seq(STRING) \ {<< >>}
  BY StatementsAssumption
<1>3. Prepare(s, sql) = IF sql.verb = "prepare" /\ made.error = "none"
                        THEN PrepareAs(sql.names, made) ELSE made
  BY DEF Prepare
<1> HIDE DEF t
<1>4. made \in W \/ Plain(made)
  BY <1>1, ResolveMakes
<1> HIDE DEF made
<1>5. PICK V : /\ Closed(V) /\ W \subseteq V /\ made \in V
               /\ \A names \in Seq(STRING) \ {<< >>} : PrepareAs(names, made) \in V
  BY <1>4, Extended
<1>6. Well(s, V)
  BY <1>5, Widened
<1> QED BY <1>2, <1>3, <1>5, <1>6
-----------------------------------------------------------------------------
\* A portal is set, to one of a statement of W, or removed.
LEMMA PortalKeeps ==
  ASSUME NEW W, NEW s, Well(s, W), NEW portal, NEW p, p # None => p.statement \in W
  PROVE  LET t == [s EXCEPT !.portals[portal] = p]
         IN Well(t, W) /\ t.vars = s.vars /\ t.known = s.known
<1> DEFINE v == [s.portals EXCEPT ![portal] = p]
           t == [s EXCEPT !.portals = v]
<1>1. t = [s EXCEPT !.portals[portal] = p]
  OBVIOUS
<1>2. DOMAIN v = Portals /\ \A q \in Portals : v[q] # None => v[q].statement \in W
  BY DEF Well
<1>3. t = [s EXCEPT !.portals = v]
  OBVIOUS
<1> HIDE DEF v, t
<1>4. /\ IsNow(t) /\ t.statements = s.statements /\ t.portals = v
      /\ t.vars = s.vars /\ t.known = s.known /\ t.mirror = s.mirror /\ t.torn = s.torn
  BY <1>3, PortalsChange DEF Well
<1>5. Well(t, W)
  BY <1>2, <1>4 DEF Well
<1> QED BY <1>1, <1>4, <1>5

\* A statement is registered, or a name freed.
LEMMA NameKeeps ==
  ASSUME NEW W, NEW s, Well(s, W), NEW name, NEW w, w \in W \cup {None}
  PROVE  LET t == [s EXCEPT !.statements[name] = w]
         IN Well(t, W) /\ t.vars = s.vars /\ t.known = s.known
<1> DEFINE v == [s.statements EXCEPT ![name] = w]
           t == [s EXCEPT !.statements = v]
<1>1. t = [s EXCEPT !.statements[name] = w]
  OBVIOUS
<1>2. v \in [Names -> W \cup {None}]
  BY DEF Well
<1>3. t = [s EXCEPT !.statements = v]
  OBVIOUS
<1> HIDE DEF v, t
<1>4. Well(t, W)
  BY <1>2, <1>3, RegistryKeeps
<1>5. t.vars = s.vars /\ t.known = s.known
  BY <1>3, StatementsChange DEF Well
<1> QED BY <1>1, <1>4, <1>5

\* The rows of a portal opened without an error are those of the state it leaves.
LEMMA Opens ==
  ASSUME NEW W, Closed(W), NEW w \in W, NEW s, Well(s, W), NEW refusal
  PROVE  LET o == OpenPortal(s, w, refusal)
         IN Well(o.now, W) /\ (o.error = "none" => o.rows = Rows(o.now, w.sql))
<1> DEFINE r == RunAll(s, w.effects, refusal)
           o == OpenPortal(s, w, refusal)
<1>1. Well(r.now, W)
  BY RunsWell
<1> HIDE DEF r
<1>2. o.now = r.now /\ (o.error = "none" => o.rows = Rows(r.now, w.sql))
  BY DEF OpenPortal, r
<1> HIDE DEF o
<1> QED BY <1>1, <1>2 DEF o

\* The next state is s.
LEMMA NowIs ==
  ASSUME NEW W, NEW s, Well(s, W), Becomes(s)
  PROVE  Well(Now', W) /\ vars' = s.vars /\ known' = s.known
  BY DEF Becomes, Well, IsNow, Now

\* An answer to a first Execute was read from the settings v and k.
Fresh(a, v, k) ==
  a.to = "first" => \E s : s.vars = v /\ s.known = k /\ a.rows = Rows(s, a.sql)

\* What every step keeps and does.
Kept ==
  /\ Inv'
  /\ Fresh(answer, vars, known)'
  /\ (vars' = vars /\ known' = known) \/ answer'.to \in {"first", "refused"}

LEMMA Quietly ==
  ASSUME NEW W, Closed(W), NEW s, Well(s, W), s.vars = vars, s.known = known,
         Becomes(s), answer' = Silent
  PROVE  Kept
<1>1. Well(Now', W) /\ vars' = vars /\ known' = known
  BY NowIs
<1>2. Inv'
  BY <1>1 DEF Inv
<1>3. Fresh(answer, vars, known)'
  BY DEF Fresh, Silent
<1> QED BY <1>1, <1>2, <1>3 DEF Kept

\* A portal was opened, and the state is what opening it left but for a portal.
LEMMA Answered ==
  ASSUME NEW W, Closed(W), NEW s, Well(s, W), Becomes(s), NEW sql, NEW o,
         o.error = "none" => o.now.vars = s.vars /\ o.now.known = s.known /\ o.rows = Rows(o.now, sql),
         Responds(sql, TRUE, o)
  PROVE  Kept
<1>1. Well(Now', W) /\ vars' = s.vars /\ known' = s.known
  BY NowIs
<1>2. Inv'
  BY <1>1 DEF Inv
<1>3. \/ o.error = "none" /\ answer' = [to |-> "first", sql |-> sql, rows |-> o.rows]
      \/ answer' = [Silent EXCEPT !.to = "refused"]
  BY DEF Responds
<1>4. CASE o.error = "none" /\ answer' = [to |-> "first", sql |-> sql, rows |-> o.rows]
  <2>1. answer'.to = "first" /\ answer'.sql = sql /\ answer'.rows = Rows(o.now, sql)
    BY <1>4
  <2>2. o.now.vars = vars' /\ o.now.known = known'
    BY <1>1, <1>4
  <2>3. Fresh(answer, vars, known)'
    BY <2>1, <2>2 DEF Fresh
  <2> QED BY <1>2, <2>1, <2>3 DEF Kept
<1>5. CASE answer' = [Silent EXCEPT !.to = "refused"]
  <2>1. answer'.to = "refused"
    BY <1>5 DEF Silent
  <2>2. Fresh(answer, vars, known)'
    BY <2>1 DEF Fresh
  <2> QED BY <1>2, <2>1, <2>2 DEF Kept
<1> QED BY <1>3, <1>4, <1>5

\* _handle_parse: made, and registered under a name.
LEMMA ParseKeeps ==
  ASSUME Inv, NEW name \in Names, NEW sql \in Texts, HandleParse(name, sql)
  PROVE  Kept
<1>1. PICK W : Closed(W) /\ Well(Now, W)
  BY DEF Inv
<1> DEFINE made == Prepare(Now, sql)
<1>2. PICK V : Closed(V) /\ Well(Now, V) /\ (made.error = "none" => made \in V)
  BY <1>1, PrepareMakes
<1>3. /\ answer' = Silent
      /\ IF made.error = "none" THEN Becomes([Now EXCEPT !.statements[name] = made]) ELSE Becomes(Now)
  BY DEF HandleParse
<1> HIDE DEF made
<1>4. Now.vars = vars /\ Now.known = known
  BY DEF Now
<1>5. CASE made.error = "none"
  <2> DEFINE t == [Now EXCEPT !.statements[name] = made]
  <2>0. made \in V \cup {None}
    BY <1>2, <1>5
  <2>1. Well(t, V) /\ t.vars = Now.vars /\ t.known = Now.known
    BY <1>2, <2>0, NameKeeps
  <2>2. Becomes(t)
    BY <1>3, <1>5
  <2> HIDE DEF t
  <2> QED BY <1>2, <1>3, <1>4, <2>1, <2>2, Quietly
<1>6. CASE made.error # "none"
  BY <1>2, <1>3, <1>4, <1>6, Quietly
<1> QED BY <1>5, <1>6

\* _handle_bind: a portal of a registered statement.
LEMMA BindKeeps ==
  ASSUME Inv, NEW portal \in Portals, NEW name \in Names, HandleBind(portal, name)
  PROVE  Kept
<1>1. PICK W : Closed(W) /\ Well(Now, W)
  BY DEF Inv
<1> DEFINE p == [statement |-> statements[name], opened |-> FALSE, left |-> << >>]
           t == [Now EXCEPT !.portals[portal] = p]
<1>2. statements[name] \in W
  BY <1>1 DEF HandleBind, Well, Now
<1>3. Becomes(t) /\ answer' = Silent
  BY DEF HandleBind
<1>4. p.statement \in W
  BY <1>2
<1>5. Now.vars = vars /\ Now.known = known
  BY DEF Now
<1>6. Well(t, W) /\ t.vars = Now.vars /\ t.known = Now.known
  <2> HIDE DEF p
  <2> QED BY <1>1, <1>4, PortalKeeps
<1> HIDE DEF t
<1> QED BY <1>1, <1>3, <1>5, <1>6, Quietly

\* _handle_execute: the portal is opened, or what is left of it is fetched.
LEMMA ExecuteKeeps ==
  ASSUME Inv, NEW portal \in Portals, NEW limit, NEW refusal, HandleExecute(portal, limit, refusal)
  PROVE  Kept
<1>1. PICK W : Closed(W) /\ Well(Now, W)
  BY DEF Inv
<1> DEFINE p == portals[portal]
           o == IF p.opened THEN [error |-> "none", now |-> Now, rows |-> p.left]
                ELSE OpenPortal(Now, p.statement, refusal)
           q == [p EXCEPT !.opened = TRUE,
                          !.left = SubSeq(o.rows, Len(Drained(o.rows, limit)) + 1, Len(o.rows))]
           t == IF o.error = "none" /\ o.now.portals[portal] # None
                THEN [o.now EXCEPT !.portals[portal] = q] ELSE o.now
<1>2. p # None /\ Becomes(t) /\ Responds(p.statement.sql, ~p.opened, o)
  BY DEF HandleExecute
<1>3. p.statement \in W
  BY <1>1, <1>2 DEF Well, Now
<1>4. q.statement \in W \/ q = p
  BY <1>3
<1>5. /\ Well(o.now, W)
      /\ p.opened => o.now = Now
      /\ ~p.opened /\ o.error = "none" => o.rows = Rows(o.now, p.statement.sql)
  <2>1. CASE p.opened
    BY <1>1, <2>1
  <2>2. CASE ~p.opened
    <3>1. o = OpenPortal(Now, p.statement, refusal)
      BY <2>2
    <3> HIDE DEF o, p
    <3> QED BY <1>1, <1>3, <2>2, <3>1, Opens
  <2> QED BY <2>1, <2>2
<1>6. Well(t, W) /\ t.vars = o.now.vars /\ t.known = o.now.known
  <2>1. q # None => q.statement \in W
    BY <1>3, <1>4
  <2> HIDE DEF o, q
  <2>2. LET u == [o.now EXCEPT !.portals[portal] = q]
        IN Well(u, W) /\ u.vars = o.now.vars /\ u.known = o.now.known
    BY <1>5, <2>1, PortalKeeps
  <2> QED BY <1>5, <2>2
<1> HIDE DEF t, q, o
<1>7. CASE p.opened
  <2>1. vars' = vars /\ known' = known /\ Well(Now', W)
    <3>1. t.vars = vars /\ t.known = known
      BY <1>5, <1>6, <1>7 DEF Now
    <3> QED BY <1>2, <1>6, <3>1, NowIs
  <2>2. Inv'
    BY <1>1, <2>1 DEF Inv
  <2>3. answer' = [Silent EXCEPT !.to = "rest"]
    BY <1>2, <1>7 DEF Responds
  <2>4. Fresh(answer, vars, known)'
    BY <2>3 DEF Fresh, Silent
  <2> QED BY <2>1, <2>2, <2>4 DEF Kept
<1>8. CASE ~p.opened
  <2> DEFINE sql == p.statement.sql
  <2>1. Responds(sql, TRUE, o)
    BY <1>2, <1>8 DEF Responds
  <2>2. o.error = "none" => o.now.vars = t.vars /\ o.now.known = t.known /\ o.rows = Rows(o.now, sql)
    BY <1>5, <1>6, <1>8
  <2> HIDE DEF sql
  <2> QED BY <1>1, <1>2, <1>6, <2>1, <2>2, Answered
<1> QED BY <1>7, <1>8

\* _execute_one_simple_statement: made and opened in one step.
LEMMA SimpleKeeps ==
  ASSUME Inv, NEW sql \in Texts \cup Once, NEW refusal, SimpleQuery(sql, refusal)
  PROVE  Kept
<1>1. PICK W : Closed(W) /\ Well(Now, W)
  BY DEF Inv
<1> DEFINE made == Prepare(Now, sql)
           o == OpenPortal(Now, made, refusal)
<1>2. PICK V : Closed(V) /\ Well(Now, V) /\ (made.error = "none" => made \in V)
  BY <1>1, PrepareMakes
<1>3. IF made.error # "none" THEN Becomes(Now) /\ answer' = Silent
      ELSE Becomes(o.now) /\ Responds(made.sql, TRUE, o)
  BY DEF SimpleQuery
<1> HIDE DEF made
<1>4. CASE made.error # "none"
  <2>1. Now.vars = vars /\ Now.known = known
    BY DEF Now
  <2> QED BY <1>2, <1>3, <1>4, <2>1, Quietly
<1>5. CASE made.error = "none"
  <2>1. Well(o.now, V) /\ (o.error = "none" => o.rows = Rows(o.now, made.sql))
    BY <1>2, <1>5, Opens
  <2>2. Becomes(o.now) /\ Responds(made.sql, TRUE, o)
    BY <1>3, <1>5
  <2> DEFINE s == o.now
             text == made.sql
  <2>3. /\ Well(s, V) /\ Becomes(s) /\ Responds(text, TRUE, o)
        /\ o.error = "none" => o.now.vars = s.vars /\ o.now.known = s.known /\ o.rows = Rows(o.now, text)
    BY <2>1, <2>2
  <2> HIDE DEF s, text, o
  <2> QED BY <1>2, <2>3, Answered
<1> QED BY <1>4, <1>5

\* _handle_close frees a name.
LEMMA CloseKeeps ==
  ASSUME Inv, NEW x, CloseStatement(x) \/ ClosePortal(x)
  PROVE  Kept
<1>1. PICK W : Closed(W) /\ Well(Now, W)
  BY DEF Inv
<1>2. Now.vars = vars /\ Now.known = known
  BY DEF Now
<1>3. CASE CloseStatement(x)
  <2> DEFINE t == [Now EXCEPT !.statements[x] = None]
  <2>1. Becomes(t) /\ answer' = Silent
    BY <1>3 DEF CloseStatement
  <2>2. Well(t, W) /\ t.vars = Now.vars /\ t.known = Now.known
    BY <1>1, NameKeeps
  <2> HIDE DEF t
  <2> QED BY <1>1, <1>2, <2>1, <2>2, Quietly
<1>4. CASE ClosePortal(x)
  <2> DEFINE t == [Now EXCEPT !.portals[x] = None]
  <2>1. Becomes(t) /\ answer' = Silent
    BY <1>4 DEF ClosePortal
  <2>2. Well(t, W) /\ t.vars = Now.vars /\ t.known = Now.known
    BY <1>1, PortalKeeps
  <2> HIDE DEF t
  <2> QED BY <1>1, <1>2, <2>1, <2>2, Quietly
<1> QED BY <1>3, <1>4

LEMMA StepKeeps ==
  ASSUME Inv, Next
  PROVE  Kept
<1>1. CASE \E n \in Names, sql \in Texts : HandleParse(n, sql)
  BY <1>1, ParseKeeps
<1>2. CASE \E p \in Portals, n \in Names : HandleBind(p, n)
  BY <1>2, BindKeeps
<1>3. CASE \E p \in Portals, limit \in Limits, refusal \in Refusals : HandleExecute(p, limit, refusal)
  BY <1>3, ExecuteKeeps
<1>4. CASE \E sql \in Texts \cup Once, refusal \in Refusals : SimpleQuery(sql, refusal)
  BY <1>4, SimpleKeeps
<1>5. CASE (\E n \in Names : CloseStatement(n)) \/ (\E p \in Portals : ClosePortal(p))
  BY <1>5, CloseKeeps
<1> QED BY <1>1, <1>2, <1>3, <1>4, <1>5 DEF Next
-----------------------------------------------------------------------------
StatementsInv == Inv /\ Fresh(answer, vars, known)

\* Whatever clients parse, prepare, bind, execute and close, registered statements
\* come from a closed set, the session and the connection agree on what no cancel
\* tore, and an answer is of the settings as they are.
THEOREM StatementsInvariance == Spec => []StatementsInv
<1>1. Init => StatementsInv
  <2> SUFFICES ASSUME Init PROVE StatementsInv
    OBVIOUS
  <2>1. Closed({}) /\ Well(Now, {})
    BY DEF Init, Closed, Well, IsNow, Now, Agrees, Unset
  <2>2. Fresh(answer, vars, known)
    BY DEF Init, Fresh, Silent
  <2> QED BY <2>1, <2>2 DEF StatementsInv, Inv
<1>2. StatementsInv /\ [Next]_state => StatementsInv'
  <2> SUFFICES ASSUME StatementsInv, [Next]_state PROVE StatementsInv'
    OBVIOUS
  <2>1. CASE Next
    BY <2>1, StepKeeps DEF StatementsInv, Kept
  <2>2. CASE UNCHANGED state
    BY <2>2 DEF StatementsInv, Inv, Fresh, Now, state
  <2> QED BY <2>1, <2>2
<1> QED BY <1>1, <1>2, PTL DEF Spec

\* The session has heard of exactly the settings the connection holds, also when
\* it refused some of them on the way, but for those recorded last by a telling
\* that a cancel cut short.
THEOREM SessionAlwaysAgrees == Spec => []SessionAgrees
<1>1. StatementsInv => SessionAgrees
  BY DEF StatementsInv, Inv, Well, Now, Agrees, SessionAgrees
<1> QED BY <1>1, StatementsInvariance, PTL

\* What SHOW and current_setting() answer is what the settings are once the
\* statement has run, however long ago it was parsed.
THEOREM ReadsStayFresh == Spec => []ReadsAreFresh
<1>1. StatementsInv => ReadsAreFresh
  <2> SUFFICES ASSUME StatementsInv, answer.to = "first" PROVE ReadsAreFresh
    BY DEF ReadsAreFresh
  <2>1. PICK s : s.vars = vars /\ s.known = known /\ answer.rows = Rows(s, answer.sql)
    BY DEF StatementsInv, Fresh
  <2> DEFINE sql == answer.sql
             now(n) == SettingValue(vars, known, n)
  <2>2. sql.verb = "show" /\ sql.on # "all" => answer.rows = << << now(sql.on) >> >>
    BY <2>1 DEF Rows
  <2>3. sql.verb = "show" /\ sql.on = "all" =>
          \A n \in Settings : now(n) = IF n \in DOMAIN answer.rows[1] THEN answer.rows[1][n] ELSE None
    BY <2>1 DEF Rows
  <2>4. sql.verb = "select" =>
          \A i \in DOMAIN sql.calls :
             sql.calls[i].f = "current_setting" /\ sql.calls[i].missing # "null"
               => answer.rows[1][i] = now(sql.calls[i].on)
    BY <2>1 DEF Rows, Cells
  <2> HIDE DEF now
  <2> QED BY <2>2, <2>3, <2>4 DEF ReadsAreFresh, now
<1> QED BY <1>1, StatementsInvariance, PTL

\* Settings move only when a portal is executed for the first time.
THEOREM EffectsOnlyAtExecute == Spec => EffectsAtExecute
<1>1. StatementsInv /\ [Next]_state
        => [vars' # vars \/ known' # known => answer'.to \in {"first", "refused"}]_state
  <2> SUFFICES ASSUME StatementsInv, Next
               PROVE  vars' # vars \/ known' # known => answer'.to \in {"first", "refused"}
    OBVIOUS
  <2> QED BY StepKeeps DEF StatementsInv, Kept
<1> QED BY <1>1, StatementsInvariance, PTL DEF Spec, EffectsAtExecute
=============================================================================
