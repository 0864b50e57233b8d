---------------------------- MODULE ReplayProofs ----------------------------
(***************************************************************************)
(* Snapshots implement the transaction log: for a client that RELEASEs a   *)
(* savepoint it has rolled back to before it takes another or rolls back   *)
(* to it again (PairedRollback), the connection always holds what          *)
(* replaying the log on the state before BEGIN gives, a COMMIT keeps and   *)
(* sends exactly that, and a ROLLBACK nothing of it.  For any settings,    *)
(* values, channels, payloads and savepoint names, and any bounds.         *)
(***************************************************************************)
EXTENDS TransactionsProofs

\* One frame for the transaction and one for every savepoint, but for the one
\* just rolled back to, whose frame that dropped; and a savepoint's frame is a
\* replay of the log as it was when the savepoint was taken.
FramesHold(k, lg, mk, b, dropped) ==
  IF k.tx = "I" THEN lg = << >> /\ ~dropped
  ELSE /\ Len(k.scopes) = IF dropped THEN Len(mk) ELSE Len(mk) + 1
       /\ \A i \in 1..Len(mk) :
            i < Len(k.scopes) => IsReplay(SubSeq(lg, 1, mk[i]), b, k.scopes[i + 1])
FramesMatch == FramesHold(conn, log, marks, base, undone)

\* The inductive invariant.
ReplayInv == Inv /\ FramesMatch /\ ReplayMatches
-----------------------------------------------------------------------------
\* A nonempty set of indices has a smallest element.
LEMMA MinOfIndices ==
  ASSUME NEW n \in Nat, NEW T \in SUBSET (1..n), T # {}
  PROVE  Min(T) \in T /\ \A y \in T : Min(T) <= y
<1> DEFINE R == OpToRel(<, Nat)
<1>1. T \subseteq Nat
  OBVIOUS
<1>2. IsWellFoundedOn(R, Nat)
  BY NatLessThanWellFounded
<1>3. PICK d \in T : \A e \in T : ~(<< e, d >> \in R)
  <2> HIDE DEF R
  <2> QED BY <1>1, <1>2, WFMin
<1>4. \A e \in T : d <= e
  <2>1. \A e \in Nat : e < d => << e, d >> \in {ss \in Nat \X Nat : ss[1] < ss[2]}
    BY <1>1, <1>3
  <2>2. R = {ss \in Nat \X Nat : ss[1] < ss[2]}
    BY Zenon DEF OpToRel
  <2>3. \A e \in T : ~(e < d)
    <3> HIDE DEF R
    <3> QED BY <1>1, <1>3, <2>1, <2>2
  <2>4. \A e \in T : e \in Nat /\ d \in Nat
    BY <1>1, <1>3
  <2> HIDE DEF R
  <2> QED BY <2>3, <2>4
<1> QED BY <1>4 DEF Min

\* The largest element of a set of indices is the one that bounds the others.
LEMMA MaxIs ==
  ASSUME NEW n \in Nat, NEW T \in SUBSET (1..n), NEW m \in T, \A y \in T : m >= y
  PROVE  Max(T) = m
<1>1. Max(T) \in T /\ \A y \in T : Max(T) >= y
  BY MaxOfIndices
<1>2. \A y \in T : y \in Nat
  OBVIOUS
<1>3. PICK x \in T : x = Max(T) /\ \A y \in T : x >= y
  BY <1>1
<1>4. x >= m /\ m >= x /\ x \in Nat /\ m \in Nat
  BY <1>2, <1>3
<1> QED BY <1>3, <1>4

\* The smallest is the one that none is below.
LEMMA MinIs ==
  ASSUME NEW n \in Nat, NEW T \in SUBSET (1..n), NEW m \in T, \A y \in T : m <= y
  PROVE  Min(T) = m
<1>1. Min(T) \in T /\ \A y \in T : Min(T) <= y
  BY MinOfIndices
<1>2. \A y \in T : y \in Nat
  OBVIOUS
<1>3. PICK x \in T : x = Min(T) /\ \A y \in T : x <= y
  BY <1>1
<1>4. x <= m /\ m <= x /\ x \in Nat /\ m \in Nat
  BY <1>2, <1>3
<1> QED BY <1>3, <1>4

\* The write w is of one of these kinds and names x.
Hits(w, kinds, x) == w.kind \in kinds /\ x \in w.on

\* The last write of a log that does.
LastOf(lg, kinds, x) == lg[Max(Touching(lg, kinds, x))]

\* The entries of a log that touch x, after one more write.
LEMMA TouchingAppend ==
  ASSUME NEW lg \in Seq(Writes), NEW w \in Writes, NEW kinds, NEW x
  PROVE  /\ Touching(lg, kinds, x) \in SUBSET (1..Len(lg))
         /\ Touching(Append(lg, w), kinds, x) =
              IF Hits(w, kinds, x)
              THEN Touching(lg, kinds, x) \cup {Len(lg) + 1}
              ELSE Touching(lg, kinds, x)
<1>1. /\ Len(lg) \in Nat /\ DOMAIN lg = 1..Len(lg)
      /\ DOMAIN Append(lg, w) = 1..(Len(lg) + 1)
      /\ \A i \in 1..Len(lg) : Append(lg, w)[i] = lg[i]
      /\ Append(lg, w)[Len(lg) + 1] = w
  OBVIOUS
<1>2. 1..(Len(lg) + 1) = (1..Len(lg)) \cup {Len(lg) + 1} /\ Len(lg) + 1 \notin 1..Len(lg)
  BY <1>1
<1> QED BY <1>1, <1>2 DEF Touching, Hits

\* The last of the entries that touch x, after one more write.
LEMMA LastAppend ==
  ASSUME NEW lg \in Seq(Writes), NEW w \in Writes, NEW kinds, NEW x
  PROVE  /\ Hits(w, kinds, x) =>
              /\ Touching(Append(lg, w), kinds, x) # {}
              /\ LastOf(Append(lg, w), kinds, x) = w
         /\ ~Hits(w, kinds, x) =>
              /\ Touching(Append(lg, w), kinds, x) = Touching(lg, kinds, x)
              /\ Touching(lg, kinds, x) # {} =>
                   LastOf(Append(lg, w), kinds, x) = LastOf(lg, kinds, x)
<1> DEFINE T == Touching(lg, kinds, x)
           U == Touching(Append(lg, w), kinds, x)
<1>1. /\ T \in SUBSET (1..Len(lg)) /\ Len(lg) \in Nat
      /\ U = IF Hits(w, kinds, x) THEN T \cup {Len(lg) + 1} ELSE T
      /\ \A i \in 1..Len(lg) : Append(lg, w)[i] = lg[i]
      /\ Append(lg, w)[Len(lg) + 1] = w
  BY TouchingAppend
<1> HIDE DEF T, U
<1>2. CASE Hits(w, kinds, x)
  <2>1. PICK m \in Nat : m = Len(lg) + 1
    BY <1>1
  <2>2. U \in SUBSET (1..m) /\ m \in U /\ \A y \in U : m >= y
    <3>1. \A y \in T : y \in 1..m /\ m >= y
      BY <1>1, <2>1
    <3>2. m \in 1..m /\ m >= m
      BY <1>1, <2>1
    <3> QED BY <1>1, <1>2, <2>1, <3>1, <3>2
  <2>3. Max(U) = m
    BY <2>2, MaxIs
  <2> QED BY <1>1, <1>2, <2>1, <2>2, <2>3 DEF T, U, LastOf
<1>3. CASE ~Hits(w, kinds, x)
  <2>1. T # {} => Max(T) \in 1..Len(lg)
    BY <1>1, MaxOfIndices
  <2> QED BY <1>1, <1>3, <2>1 DEF T, U, LastOf
<1> QED BY <1>2, <1>3

\* The first of the entries that touch x, after one more write.
LEMMA FirstAppend ==
  ASSUME NEW lg \in Seq(Writes), NEW w \in Writes, NEW kinds, NEW x
  PROVE  /\ Touching(lg, kinds, x) # {} =>
              /\ Touching(Append(lg, w), kinds, x) # {}
              /\ Min(Touching(Append(lg, w), kinds, x)) = Min(Touching(lg, kinds, x))
              /\ Min(Touching(lg, kinds, x)) \in 1..Len(lg)
         /\ Touching(lg, kinds, x) = {} /\ Hits(w, kinds, x) =>
              /\ Touching(Append(lg, w), kinds, x) # {}
              /\ Min(Touching(Append(lg, w), kinds, x)) = Len(lg) + 1
         /\ Touching(lg, kinds, x) = {} /\ ~Hits(w, kinds, x) =>
              Touching(Append(lg, w), kinds, x) = {}
<1> DEFINE T == Touching(lg, kinds, x)
           U == Touching(Append(lg, w), kinds, x)
<1>1. /\ T \in SUBSET (1..Len(lg)) /\ Len(lg) \in Nat
      /\ U = IF Hits(w, kinds, x) THEN T \cup {Len(lg) + 1} ELSE T
  BY TouchingAppend
<1> HIDE DEF T, U
<1>2. ASSUME T # {}
      PROVE  U # {} /\ Min(U) = Min(T) /\ Min(T) \in 1..Len(lg)
  <2>1. PICK m \in T : m = Min(T) /\ \A y \in T : m <= y
    BY <1>1, <1>2, MinOfIndices
  <2>2. PICK n \in Nat : n = Len(lg) + 1
    BY <1>1
  <2>3. m \in 1..Len(lg)
    BY <1>1, <2>1
  <2>4. U \in SUBSET (1..n) /\ m \in U /\ \A y \in U : m <= y
    <3>1. \A y \in T : y \in 1..n /\ m <= y
      BY <1>1, <2>1, <2>2
    <3>2. n \in 1..n /\ m <= n
      BY <1>1, <2>2, <2>3
    <3> QED BY <1>1, <2>1, <2>2, <3>1, <3>2
  <2>5. Min(U) = m
    BY <2>4, MinIs
  <2> QED BY <2>1, <2>3, <2>4, <2>5
<1>3. ASSUME T = {}, Hits(w, kinds, x)
      PROVE  U # {} /\ Min(U) = Len(lg) + 1
  <2>1. PICK n \in Nat : n = Len(lg) + 1
    BY <1>1
  <2>2. U \in SUBSET (1..n) /\ n \in U /\ \A y \in U : n <= y
    BY <1>1, <1>3, <2>1
  <2>3. Min(U) = n
    BY <2>2, MinIs
  <2> QED BY <2>1, <2>2, <2>3
<1> QED BY <1>1, <1>2, <1>3 DEF T, U
-----------------------------------------------------------------------------
\* Replaying no write gives the state itself.
LEMMA ReplayNothing ==
  ASSUME NEW b \in Scope, Clean(b)
  PROVE  IsReplay(<< >>, b, b)
<1>1. \A kinds, x : Touching(<< >>, kinds, x) = {}
  BY DEF Touching
<1>2. \A kinds : \A vars0 \in Vars : ReplayVars(<< >>, kinds, vars0) = vars0
  BY <1>1 DEF ReplayVars, Vars
<1>3. b.session_vars \in Vars /\ b.committed_vars \in Vars /\ b.listening \in SUBSET Channels
  BY DEF Scope
<1>4. ReplayListening(<< >>, b.listening) = b.listening
  BY <1>1, <1>3 DEF ReplayListening
<1>5. b.pending_notifies = << >> /\ ToSet(<< >>) = {} /\ DOMAIN << >> = {}
  BY DEF Clean, ToSet
<1>6. IsReplayOfNotifies(<< >>, b.pending_notifies)
  BY <1>1, <1>5 DEF IsReplayOfNotifies
<1> QED BY <1>2, <1>3, <1>4, <1>6 DEF IsReplay

\* One more write shows in the settings it names, if it is of those kinds.
LEMMA ReplayVarsAppend ==
  ASSUME NEW lg \in Seq(Writes), NEW w \in Writes, NEW kinds, NEW vars0
  PROVE  ReplayVars(Append(lg, w), kinds, vars0) =
           [x \in Settings |-> IF Hits(w, kinds, x) THEN w.val
                               ELSE ReplayVars(lg, kinds, vars0)[x]]
<1>1. ASSUME NEW x \in Settings
      PROVE  ReplayVars(Append(lg, w), kinds, vars0)[x] =
               IF Hits(w, kinds, x) THEN w.val
               ELSE ReplayVars(lg, kinds, vars0)[x]
  <2>1. /\ ReplayVars(Append(lg, w), kinds, vars0)[x] =
             IF Touching(Append(lg, w), kinds, x) = {} THEN vars0[x]
             ELSE LastOf(Append(lg, w), kinds, x).val
        /\ ReplayVars(lg, kinds, vars0)[x] =
             IF Touching(lg, kinds, x) = {} THEN vars0[x]
             ELSE LastOf(lg, kinds, x).val
    BY DEF ReplayVars, LastOf
  <2>2. CASE Hits(w, kinds, x)
    <3>1. /\ Touching(Append(lg, w), kinds, x) # {}
          /\ LastOf(Append(lg, w), kinds, x) = w
      BY <2>2, LastAppend
    <3> QED BY <2>1, <2>2, <3>1
  <2>3. CASE ~Hits(w, kinds, x)
    <3>1. /\ Touching(Append(lg, w), kinds, x) = Touching(lg, kinds, x)
          /\ Touching(lg, kinds, x) # {} =>
               LastOf(Append(lg, w), kinds, x) = LastOf(lg, kinds, x)
      BY <2>3, LastAppend
    <3> QED BY <2>1, <2>3, <3>1
  <2> QED BY <2>2, <2>3
<1>2. ReplayVars(Append(lg, w), kinds, vars0) =
        [x \in Settings |-> ReplayVars(Append(lg, w), kinds, vars0)[x]]
  BY DEF ReplayVars
<1> QED BY <1>1, <1>2

\* A LISTEN adds its channels, an UNLISTEN takes its away.
LEMMA ReplayListeningAppend ==
  ASSUME NEW lg \in Seq(Writes), NEW w \in Writes, NEW listening0
  PROVE  ReplayListening(Append(lg, w), listening0) =
           {ch \in Channels :
              IF Hits(w, {"listen", "unlisten"}, ch) THEN w.kind = "listen"
              ELSE ch \in ReplayListening(lg, listening0)}
<1> DEFINE kinds == {"listen", "unlisten"}
<1>1. ASSUME NEW ch \in Channels
      PROVE  ch \in ReplayListening(Append(lg, w), listening0) <=>
               IF Hits(w, kinds, ch) THEN w.kind = "listen"
               ELSE ch \in ReplayListening(lg, listening0)
  <2>1. /\ ch \in ReplayListening(Append(lg, w), listening0) <=>
             IF Touching(Append(lg, w), kinds, ch) = {} THEN ch \in listening0
             ELSE LastOf(Append(lg, w), kinds, ch).kind = "listen"
        /\ ch \in ReplayListening(lg, listening0) <=>
             IF Touching(lg, kinds, ch) = {} THEN ch \in listening0
             ELSE LastOf(lg, kinds, ch).kind = "listen"
    BY DEF ReplayListening, LastOf
  <2> HIDE DEF kinds
  <2>2. CASE Hits(w, kinds, ch)
    <3>1. /\ Touching(Append(lg, w), kinds, ch) # {}
          /\ LastOf(Append(lg, w), kinds, ch) = w
      BY <2>2, LastAppend
    <3> QED BY <2>1, <2>2, <3>1
  <2>3. CASE ~Hits(w, kinds, ch)
    <3>1. /\ Touching(Append(lg, w), kinds, ch) = Touching(lg, kinds, ch)
          /\ Touching(lg, kinds, ch) # {} =>
               LastOf(Append(lg, w), kinds, ch) = LastOf(lg, kinds, ch)
      BY <2>3, LastAppend
    <3> QED BY <2>1, <2>3, <3>1
  <2> QED BY <2>2, <2>3
<1>2. ReplayListening(Append(lg, w), listening0) \subseteq Channels
  BY DEF ReplayListening
<1> QED BY <1>1, <1>2

\* Only a NOTIFY changes which notifications are pending.
LEMMA ReplayOtherAppend ==
  ASSUME NEW lg \in Seq(Writes), NEW w \in Writes, w.kind # "notify", NEW pending,
         IsReplayOfNotifies(lg, pending)
  PROVE  IsReplayOfNotifies(Append(lg, w), pending)
<1>1. \A e : Touching(Append(lg, w), {"notify"}, e) = Touching(lg, {"notify"}, e)
  BY TouchingAppend DEF Hits
<1> QED BY <1>1 DEF IsReplayOfNotifies

\* A NOTIFY is pending at the end, unless the same event is pending already.
LEMMA ReplayNotifyAppend ==
  ASSUME NEW lg \in Seq(Writes), NEW e \in Events, NEW w \in Writes,
         w = [kind |-> "notify", on |-> {e}],
         NEW pending \in Seq(Events), IsReplayOfNotifies(lg, pending),
         NEW after, after = IF Contains(pending, e) THEN pending ELSE Append(pending, e)
  PROVE  IsReplayOfNotifies(Append(lg, w), after)
<1> DEFINE T(x) == Touching(lg, {"notify"}, x)
           U(x) == Touching(Append(lg, w), {"notify"}, x)
<1>1. /\ \A x : T(x) # {} => U(x) # {} /\ Min(U(x)) = Min(T(x)) /\ Min(T(x)) \in 1..Len(lg)
      /\ T(e) = {} => U(e) # {} /\ Min(U(e)) = Len(lg) + 1
      /\ \A x : T(x) = {} /\ x # e => U(x) = {}
  <2>1. Hits(w, {"notify"}, e) /\ \A x : Hits(w, {"notify"}, x) => x = e
    BY DEF Hits
  <2>2. \A x : T(x) # {} => U(x) # {} /\ Min(U(x)) = Min(T(x)) /\ Min(T(x)) \in 1..Len(lg)
    BY FirstAppend
  <2>3. T(e) = {} => U(e) # {} /\ Min(U(e)) = Len(lg) + 1
    BY <2>1, FirstAppend
  <2>4. \A x : T(x) = {} /\ x # e => U(x) = {}
    BY <2>1, FirstAppend
  <2> QED BY <2>2, <2>3, <2>4
<1>2. /\ ToSet(pending) = {x \in Events : T(x) # {}}
      /\ \A i, j \in DOMAIN pending : i < j => Min(T(pending[i])) < Min(T(pending[j]))
  BY DEF IsReplayOfNotifies
<1>3. /\ Len(pending) \in Nat /\ DOMAIN pending = 1..Len(pending) /\ Len(lg) \in Nat
      /\ \A i \in DOMAIN pending : pending[i] \in Events /\ T(pending[i]) # {}
  <2>1. \A i \in DOMAIN pending : pending[i] \in ToSet(pending)
    BY DEF ToSet
  <2>2. Len(pending) \in Nat /\ DOMAIN pending = 1..Len(pending) /\ Len(lg) \in Nat
    BY LenProperties
  <2> HIDE DEF T
  <2> QED BY <1>2, <2>1, <2>2
<1>4. Contains(pending, e) <=> T(e) # {}
  <2>1. Contains(pending, e) <=> e \in ToSet(pending)
    BY DEF Contains, ToSet
  <2> HIDE DEF T
  <2> QED BY <1>2, <2>1
<1> HIDE DEF T, U
<1>5. CASE T(e) # {}
  <2>1. after = pending /\ \A x : T(x) = {} <=> U(x) = {}
    BY <1>1, <1>4, <1>5
  <2>2. ToSet(after) = {x \in Events : U(x) # {}}
    BY <1>2, <2>1
  <2>3. \A i, j \in DOMAIN after : i < j => Min(U(after[i])) < Min(U(after[j]))
    BY <1>1, <1>2, <1>3, <2>1
  <2> QED BY <2>2, <2>3 DEF IsReplayOfNotifies, U
<1>6. CASE T(e) = {}
  <2>1. /\ after = Append(pending, e) /\ after \in Seq(Events)
        /\ DOMAIN after = 1..(Len(pending) + 1)
        /\ \A i \in 1..Len(pending) : after[i] = pending[i]
        /\ after[Len(pending) + 1] = e
    BY <1>3, <1>4, <1>6
  <2>2. ToSet(after) = ToSet(pending) \cup {e}
    <3>1. ToSet(after) = {after[i] : i \in 1..(Len(pending) + 1)}
      BY <2>1 DEF ToSet
    <3>2. ToSet(pending) = {pending[i] : i \in 1..Len(pending)}
      BY <1>3 DEF ToSet
    <3>3. \A i : i \in 1..(Len(pending) + 1) <=> i \in 1..Len(pending) \/ i = Len(pending) + 1
      BY <1>3
    <3> QED BY <2>1, <3>1, <3>2, <3>3
  <2>3. \A x : U(x) # {} <=> T(x) # {} \/ x = e
    BY <1>1, <1>6
  <2>4. ToSet(after) = {x \in Events : U(x) # {}}
    BY <1>2, <2>2, <2>3
  <2>5. ASSUME NEW i \in DOMAIN after, NEW j \in DOMAIN after, i < j
        PROVE  Min(U(after[i])) < Min(U(after[j]))
    <3>1. i \in 1..Len(pending) /\ (j \in 1..Len(pending) \/ j = Len(pending) + 1)
      BY <1>3, <2>1, <2>5
    <3>2. /\ T(pending[i]) # {} /\ after[i] = pending[i]
          /\ Min(U(after[i])) = Min(T(pending[i])) /\ Min(T(pending[i])) \in 1..Len(lg)
      BY <1>1, <1>3, <2>1, <3>1
    <3>3. CASE j = Len(pending) + 1
      <4>1. Min(U(after[j])) = Len(lg) + 1
        BY <1>1, <1>6, <2>1, <3>3
      <4> QED BY <1>3, <3>2, <4>1
    <3>4. CASE j \in 1..Len(pending)
      <4>1. Min(U(after[j])) = Min(T(pending[j]))
        BY <1>1, <1>3, <2>1, <3>4
      <4> QED BY <1>2, <1>3, <2>5, <3>1, <3>2, <3>4, <4>1
    <3> QED BY <3>1, <3>3, <3>4
  <2> QED BY <2>4, <2>5 DEF IsReplayOfNotifies, U
<1> QED BY <1>5, <1>6
-----------------------------------------------------------------------------
\* The settings a scope holds once the names in ns are assigned v.
Assigned(scope, ns, v, local, after) ==
  /\ after.session_vars =
       [n \in Settings |-> IF n \in ns THEN v ELSE scope.session_vars[n]]
  /\ after.committed_vars =
       IF local THEN scope.committed_vars
       ELSE [n \in Settings |-> IF n \in ns THEN v ELSE scope.committed_vars[n]]
  /\ after.listening = scope.listening
  /\ after.pending_notifies = scope.pending_notifies

\* A SET is replayed by its entry of the log.
LEMMA ReplayOfSet ==
  ASSUME NEW lg \in Seq(Writes), NEW b, NEW scope, IsReplay(lg, b, scope),
         NEW ns \in SUBSET Settings, NEW v \in Readings, NEW local \in BOOLEAN,
         NEW after, Assigned(scope, ns, v, local, after),
         scope.listening \in SUBSET Channels
  PROVE  IsReplay(lg \o SetWrite(ns, v, local), b, after)
<1>1. PICK kind \in {"set", "local"} :
        /\ SetWrite(ns, v, local) = << [kind |-> kind, on |-> ns, val |-> v] >>
        /\ kind = "local" <=> local
  BY DEF SetWrite
<1>2. PICK w \in Writes : w = [kind |-> kind, on |-> ns, val |-> v]
  BY DEF Writes
<1>3. lg \o SetWrite(ns, v, local) = Append(lg, w)
  BY <1>1, <1>2
<1>4. /\ \A x : Hits(w, {"set", "local"}, x) <=> x \in ns
      /\ \A x : Hits(w, {"set"}, x) <=> x \in ns /\ ~local
      /\ \A x : ~Hits(w, {"listen", "unlisten"}, x)
      /\ w.kind # "notify" /\ w.val = v
  BY <1>1, <1>2 DEF Hits
<1>5. ReplayVars(Append(lg, w), {"set", "local"}, b.session_vars) = after.session_vars
  <2>1. ReplayVars(Append(lg, w), {"set", "local"}, b.session_vars) =
          [x \in Settings |-> IF Hits(w, {"set", "local"}, x) THEN w.val
             ELSE ReplayVars(lg, {"set", "local"}, b.session_vars)[x]]
    BY ReplayVarsAppend
  <2> QED BY <1>4, <2>1 DEF IsReplay, Assigned
<1>6. ReplayVars(Append(lg, w), {"set"}, b.committed_vars) = after.committed_vars
  <2>1. ReplayVars(Append(lg, w), {"set"}, b.committed_vars) =
          [x \in Settings |-> IF Hits(w, {"set"}, x) THEN w.val
             ELSE ReplayVars(lg, {"set"}, b.committed_vars)[x]]
    BY ReplayVarsAppend
  <2>2. ReplayVars(lg, {"set"}, b.committed_vars) =
          [x \in Settings |-> ReplayVars(lg, {"set"}, b.committed_vars)[x]]
    BY DEF ReplayVars
  <2> QED BY <1>4, <2>1, <2>2 DEF IsReplay, Assigned
<1>7. ReplayListening(Append(lg, w), b.listening) = after.listening
  <2>1. ReplayListening(Append(lg, w), b.listening) =
          {ch \in Channels :
             IF Hits(w, {"listen", "unlisten"}, ch) THEN w.kind = "listen"
             ELSE ch \in ReplayListening(lg, b.listening)}
    BY ReplayListeningAppend
  <2> QED BY <1>4, <2>1 DEF IsReplay, Assigned
<1>8. IsReplayOfNotifies(Append(lg, w), after.pending_notifies)
  BY <1>4, ReplayOtherAppend DEF IsReplay, Assigned
<1> QED BY <1>3, <1>5, <1>6, <1>7, <1>8 DEF IsReplay

\* Only a SET changes the settings.
LEMMA ReplayOtherVars ==
  ASSUME NEW lg \in Seq(Writes), NEW w \in Writes, w.kind \notin {"set", "local"},
         NEW kinds \in SUBSET {"set", "local"}, NEW vars0
  PROVE  ReplayVars(Append(lg, w), kinds, vars0) = ReplayVars(lg, kinds, vars0)
<1>1. \A x : ~Hits(w, kinds, x)
  BY DEF Hits
<1>2. ReplayVars(Append(lg, w), kinds, vars0) =
        [x \in Settings |-> IF Hits(w, kinds, x) THEN w.val
                            ELSE ReplayVars(lg, kinds, vars0)[x]]
  BY ReplayVarsAppend
<1>3. ReplayVars(lg, kinds, vars0) = [x \in Settings |-> ReplayVars(lg, kinds, vars0)[x]]
  BY DEF ReplayVars
<1> QED BY <1>1, <1>2, <1>3

\* A LISTEN or UNLISTEN is replayed by its entry of the log.
LEMMA ReplayOfListen ==
  ASSUME NEW lg \in Seq(Writes), NEW b, NEW scope, IsReplay(lg, b, scope),
         NEW kind \in {"listen", "unlisten"}, NEW chs \in SUBSET Channels, NEW after,
         scope.listening \in SUBSET Channels,
         after.session_vars = scope.session_vars,
         after.committed_vars = scope.committed_vars,
         after.listening = IF kind = "listen" THEN scope.listening \cup chs
                           ELSE scope.listening \ chs,
         after.pending_notifies = scope.pending_notifies
  PROVE  IsReplay(lg \o << [kind |-> kind, on |-> chs] >>, b, after)
<1>1. PICK w \in Writes : w = [kind |-> kind, on |-> chs]
  BY DEF Writes
<1>2. lg \o << [kind |-> kind, on |-> chs] >> = Append(lg, w)
  BY <1>1
<1>3. /\ w.kind = kind
      /\ \A x : Hits(w, {"listen", "unlisten"}, x) <=> x \in chs
  BY <1>1 DEF Hits
<1>4. /\ ReplayVars(Append(lg, w), {"set", "local"}, b.session_vars) = after.session_vars
      /\ ReplayVars(Append(lg, w), {"set"}, b.committed_vars) = after.committed_vars
  BY <1>3, ReplayOtherVars DEF IsReplay
<1>5. ReplayListening(Append(lg, w), b.listening) = after.listening
  <2>1. ReplayListening(Append(lg, w), b.listening) =
          {ch \in Channels :
             IF Hits(w, {"listen", "unlisten"}, ch) THEN w.kind = "listen"
             ELSE ch \in ReplayListening(lg, b.listening)}
    BY ReplayListeningAppend
  <2>2. scope.listening = ReplayListening(lg, b.listening)
    BY DEF IsReplay
  <2>3. CASE kind = "listen"
    BY <1>3, <2>1, <2>2, <2>3
  <2>4. CASE kind = "unlisten"
    BY <1>3, <2>1, <2>2, <2>4
  <2> QED BY <2>3, <2>4
<1>6. IsReplayOfNotifies(Append(lg, w), after.pending_notifies)
  BY <1>3, ReplayOtherAppend DEF IsReplay
<1> QED BY <1>2, <1>4, <1>5, <1>6 DEF IsReplay

\* A NOTIFY is replayed by its entry of the log.
LEMMA ReplayOfNotify ==
  ASSUME NEW lg \in Seq(Writes), NEW b, NEW scope \in Scope, IsReplay(lg, b, scope),
         NEW e \in Events, NEW after,
         after.session_vars = scope.session_vars,
         after.committed_vars = scope.committed_vars,
         after.listening = scope.listening,
         after.pending_notifies = IF Contains(scope.pending_notifies, e)
                                  THEN scope.pending_notifies
                                  ELSE Append(scope.pending_notifies, e)
  PROVE  IsReplay(lg \o << [kind |-> "notify", on |-> {e}] >>, b, after)
<1>1. PICK w \in Writes : w = [kind |-> "notify", on |-> {e}]
  BY DEF Writes
<1>2. lg \o << [kind |-> "notify", on |-> {e}] >> = Append(lg, w)
  BY <1>1
<1>3. w.kind = "notify" /\ \A x : ~Hits(w, {"listen", "unlisten"}, x)
  BY <1>1 DEF Hits
<1>4. /\ ReplayVars(Append(lg, w), {"set", "local"}, b.session_vars) = after.session_vars
      /\ ReplayVars(Append(lg, w), {"set"}, b.committed_vars) = after.committed_vars
  BY <1>3, ReplayOtherVars DEF IsReplay
<1>5. ReplayListening(Append(lg, w), b.listening) = after.listening
  <2>1. ReplayListening(Append(lg, w), b.listening) =
          {ch \in Channels :
             IF Hits(w, {"listen", "unlisten"}, ch) THEN w.kind = "listen"
             ELSE ch \in ReplayListening(lg, b.listening)}
    BY ReplayListeningAppend
  <2>2. ReplayListening(lg, b.listening) \subseteq Channels
    BY DEF ReplayListening
  <2> QED BY <1>3, <2>1, <2>2 DEF IsReplay
<1>6. PICK pending \in Seq(Events) : pending = scope.pending_notifies
  BY DEF Scope
<1>7. IsReplayOfNotifies(lg, pending)
  BY <1>6 DEF IsReplay
<1>8. IsReplayOfNotifies(Append(lg, w), after.pending_notifies)
  BY <1>1, <1>6, <1>7, ReplayNotifyAppend
<1> QED BY <1>2, <1>4, <1>5, <1>8 DEF IsReplay
-----------------------------------------------------------------------------
\* The frames that are left when a list of them is cut at a depth it reaches.
LEMMA FramesCut ==
  ASSUME NEW S, NEW scopes \in Seq(S), NEW depth \in Nat, depth <= Len(scopes)
  PROVE  /\ Len(FramesBelow(scopes, depth)) = depth
         /\ \A j \in 1..depth : FramesBelow(scopes, depth)[j] = scopes[j]
<1>1. Len(scopes) \in Nat
  BY LenProperties
<1>2. CASE depth >= Len(scopes)
  BY <1>1, <1>2 DEF FramesBelow
<1>3. CASE ~(depth >= Len(scopes))
  <2>1. FramesBelow(scopes, depth) = SubSeq(scopes, 1, depth)
    BY <1>3 DEF FramesBelow
  <2> QED BY <1>1, <2>1
<1> QED BY <1>2, <1>3

\* A prefix of a prefix is a prefix of the whole.
LEMMA PrefixOfPrefix ==
  ASSUME NEW S, NEW s \in Seq(S), NEW m \in Nat, NEW n \in Nat, n <= m, m <= Len(s)
  PROVE  SubSeq(SubSeq(s, 1, m), 1, n) = SubSeq(s, 1, n)
<1>1. \A i \in 1..m : s[i] \in S
  BY ElementOfSeq
<1>2. PICK p \in Seq(S) : p = SubSeq(s, 1, m)
  BY PrefixType
<1>3. Len(p) = m /\ \A i \in 1..m : p[i] = s[i]
  BY <1>2
<1> QED BY <1>2, <1>3

\* Writes at the end of a log change none of its prefixes.
LEMMA PrefixOfLonger ==
  ASSUME NEW S, NEW s \in Seq(S), NEW t \in Seq(S), NEW n \in Nat, n <= Len(s)
  PROVE  SubSeq(s \o t, 1, n) = SubSeq(s, 1, n)
<1>1. PICK u \in Seq(S) : u = s \o t
  <2>1. s \o t \in Seq(S)
    BY ConcatProperties
  <2> QED BY <2>1
<1>2. Len(s) \in Nat /\ Len(t) \in Nat
  BY LenProperties
<1>3. Len(u) = Len(s) + Len(t) /\ \A i \in 1..Len(s) : u[i] = s[i]
  BY <1>1, <1>2
<1> QED BY <1>1, <1>2, <1>3

\* The whole log is a prefix of itself.
LEMMA WholePrefix ==
  ASSUME NEW S, NEW s \in Seq(S)
  PROVE  SubSeq(s, 1, Len(s)) = s
  OBVIOUS
-----------------------------------------------------------------------------
\* The invariant, in facts about the connection and the history.
LEMMA ReplayParts ==
  ReplayInv => /\ Good(conn, base, client)
               /\ Marked(log, marks, Len(conn.savepoints))
               /\ undone \in BOOLEAN
               /\ FramesHold(conn, log, marks, base, undone)
               /\ IsReplay(log, base, conn.now)
  BY InvParts DEF ReplayInv, FramesMatch, ReplayMatches

\* What has to be shown of the next state.
LEMMA ReplayPartsNext ==
  ASSUME Inv', FramesHold(conn', log', marks', base', undone'),
         IsReplay(log', base', conn'.now)
  PROVE  ReplayInv'
  BY DEF ReplayInv, FramesMatch, ReplayMatches

\* Where nothing that the invariant is about changes, it stays.
LEMMA SameReplay ==
  ASSUME ReplayInv, Inv', conn'.now = conn.now, conn'.scopes = conn.scopes,
         conn'.tx = "I" <=> conn.tx = "I", UNCHANGED << base, log, marks, undone >>
  PROVE  ReplayInv'
<1>1. FramesHold(conn, log, marks, base, undone) /\ IsReplay(log, base, conn.now)
  BY ReplayParts
<1>2. FramesHold(conn', log', marks', base', undone')
  BY <1>1 DEF FramesHold
<1> QED BY <1>1, <1>2, ReplayPartsNext

\* At the end of a transaction there is nothing to replay.
LEMMA EndsReplay ==
  ASSUME Inv', EndsTransaction, conn'.tx = "I"
  PROVE  ReplayInv'
<1>1. base' = conn'.now /\ log' = << >> /\ marks' = << >> /\ undone' = FALSE
  BY DEF EndsTransaction
<1>2. base' \in Scope /\ Clean(base')
  BY InvPartsNext DEF Good
<1>3. IsReplay(<< >>, base', base')
  BY <1>2, ReplayNothing
<1>4. FramesHold(conn', log', marks', base', undone')
  BY <1>1 DEF FramesHold
<1> QED BY <1>1, <1>3, <1>4, ReplayPartsNext

\* A statement that writes, in a transaction or outside one.
LEMMA WriteReplay ==
  ASSUME ReplayInv, Inv', NEW w \in Seq(Writes), Logs(w),
         conn'.tx = "I" <=> conn.tx = "I", conn'.scopes = conn.scopes,
         conn.tx # "I" => IsReplay(log \o w, base, conn'.now)
  PROVE  ReplayInv'
<1>1. /\ Marked(log, marks, Len(conn.savepoints))
      /\ FramesHold(conn, log, marks, base, undone)
  BY ReplayParts
<1>2. CASE conn.tx = "I"
  <2>1. base' = conn'.now /\ UNCHANGED << log, marks, undone >>
    BY <1>2 DEF Logs
  <2>2. log = << >> /\ ~undone
    BY <1>1, <1>2 DEF FramesHold
  <2>3. base' \in Scope /\ Clean(base')
    BY InvPartsNext DEF Good
  <2>4. IsReplay(<< >>, base', base')
    BY <2>3, ReplayNothing
  <2>5. FramesHold(conn', log', marks', base', undone')
    BY <1>2, <2>1, <2>2 DEF FramesHold
  <2> QED BY <2>1, <2>2, <2>4, <2>5, ReplayPartsNext
<1>3. CASE conn.tx # "I"
  <2>1. log' = log \o w /\ UNCHANGED << base, marks, undone >>
    BY <1>3 DEF Logs
  <2>2. \A i \in 1..Len(marks) : SubSeq(log \o w, 1, marks[i]) = SubSeq(log, 1, marks[i])
    <3>1. /\ log \in Seq(Writes)
          /\ \A i \in 1..Len(marks) : marks[i] \in Nat /\ marks[i] <= Len(log)
      BY <1>1, ElementOfSeq DEF Marked
    <3> QED BY <3>1, PrefixOfLonger
  <2>3. FramesHold(conn', log', marks', base', undone')
    BY <1>1, <1>3, <2>1, <2>2 DEF FramesHold
  <2> QED BY <1>3, <2>1, <2>3, ReplayPartsNext
<1> QED BY <1>2, <1>3
-----------------------------------------------------------------------------
\* What an assignment leaves of the visible state.
LEMMA AssignNow ==
  ASSUME NEW k \in Connection, NEW done \in SUBSET Settings,
         NEW refused \in SUBSET Settings, NEW v \in Readings, NEW local \in BOOLEAN,
         NEW a, a = Assign(k, done, refused, v, local)
  PROVE  Assigned(k.now, done, v, local, a.now)
<1> DEFINE Write(vars0) == [n \in Settings |-> IF n \in done THEN v ELSE vars0[n]]
           sv == Write(k.now.session_vars)
           cv == IF local THEN k.now.committed_vars ELSE Write(k.now.committed_vars)
<1>1. PICK r : r = Record(k, done, v, local)
  OBVIOUS
<1>2. r \in Connection
  BY <1>1, RecordFacts
<1>3. PICK now : now = [k.now EXCEPT !.session_vars = sv, !.committed_vars = cv]
  OBVIOUS
<1>4. r = [k EXCEPT !.now = now, !.known = k.known \cup done]
  BY <1>1, <1>3 DEF Record
<1>5. r.now = now
  BY <1>4 DEF Connection
<1>6. k.now \in Scope
  BY DEF Connection
<1>7. /\ now.session_vars = sv /\ now.committed_vars = cv
      /\ now.listening = k.now.listening
      /\ now.pending_notifies = k.now.pending_notifies
  <2> HIDE DEF sv, cv
  <2> QED BY <1>3, <1>6 DEF Scope
<1>8. PICK p \in Connection : p = Report(r, done) /\ p = [r EXCEPT !.owed = p.owed]
  BY <1>2, ReportType
<1>9. a \in Connection /\ a = [p EXCEPT !.owed = a.owed]
  <2>1. a = Report(p, refused)
    BY <1>1, <1>8 DEF Assign
  <2> QED BY <2>1, ReportType
<1>10. p.now = r.now
  BY <1>2, <1>8 DEF Connection
<1>11. a.now = p.now
  BY <1>8, <1>9 DEF Connection
<1>12. a.now = now
  BY <1>5, <1>10, <1>11
<1> QED BY <1>7, <1>12, Zenon DEF Assigned

\* In a transaction, an assignment is replayed by its entry of the log.
LEMMA AssignReplay ==
  ASSUME ReplayInv, NEW done \in SUBSET Settings, NEW refused \in SUBSET Settings,
         NEW v \in Readings, NEW local \in BOOLEAN,
         NEW a, a = Assign(conn, done, refused, v, local)
  PROVE  IsReplay(log \o SetWrite(done, v, local), base, a.now)
<1>1. /\ conn \in Connection /\ log \in Seq(Writes) /\ IsReplay(log, base, conn.now)
      /\ conn.now.listening \in SUBSET Channels
  BY ReplayParts DEF Good, Marked, Connection, Scope
<1>2. Assigned(conn.now, done, v, local, a.now)
  BY <1>1, AssignNow
<1> QED BY <1>1, <1>2, ReplayOfSet

\* An assignment to no name leaves the visible state as it is.
LEMMA AssignNothing ==
  ASSUME NEW k \in Connection, NEW refused \in SUBSET Settings, NEW v \in Readings,
         NEW local \in BOOLEAN, NEW lg, NEW b, IsReplay(lg, b, k.now),
         NEW a, a = Assign(k, {}, refused, v, local)
  PROVE  IsReplay(lg, b, a.now)
<1>1. Assigned(k.now, {}, v, local, a.now)
  <2>1. PICK none \in SUBSET Settings : none = {}
    OBVIOUS
  <2> QED BY <2>1, AssignNow
<1>2. k.now.session_vars \in Vars /\ k.now.committed_vars \in Vars
  BY DEF Connection, Scope
<1>3. a.now.session_vars = k.now.session_vars /\ a.now.committed_vars = k.now.committed_vars
  BY <1>1, <1>2 DEF Assigned, Vars
<1> QED BY <1>1, <1>3 DEF IsReplay, Assigned

\* SET, SET LOCAL, RESET and set_config() preserve the invariant.
LEMMA AssignmentReplays ==
  \A ns \in SUBSET Settings, v \in Readings, local \in BOOLEAN :
    ReplayInv /\ AssignmentStatement(ns, v, local) => ReplayInv'
<1> SUFFICES ASSUME NEW ns \in SUBSET Settings, NEW v \in Readings,
                    NEW local \in BOOLEAN, ReplayInv, AssignmentStatement(ns, v, local)
             PROVE  ReplayInv'
  OBVIOUS
<1>1. Inv /\ Inv'
  BY AssignmentInv, Zenon DEF ReplayInv
<1>2. CASE local /\ conn.tx = "I"
  <2>1. UNCHANGED << conn, base, log, marks, undone >>
    BY <1>2, Zenon DEF AssignmentStatement, history
  <2> QED BY <1>1, <2>1, SameReplay
<1>3. CASE ~(local /\ conn.tx = "I")
  <2>1. conn' = Assign(conn, ns, {}, v, local) /\ Logs(SetWrite(ns, v, local))
    BY <1>3, Zenon DEF AssignmentStatement
  <2>2. {} \in SUBSET Settings
    OBVIOUS
  <2>3. SameControl(conn, conn')
    BY <1>1, <1>3, <2>1, <2>2, AssignedFacts, Zenon
  <2>4. IsReplay(log \o SetWrite(ns, v, local), base, conn'.now)
    BY <2>1, <2>2, AssignReplay, Zenon
  <2>5. SetWrite(ns, v, local) \in Seq(Writes)
    BY SetWriteType
  <2> QED BY <1>1, <2>1, <2>3, <2>4, <2>5, WriteReplay DEF SameControl
<1> QED BY <1>2, <1>3, Zenon

\* So does one that the session refuses halfway.
LEMMA AssignmentFailsReplays ==
  \A done \in SUBSET Settings, refused \in SUBSET Settings, v \in Readings,
     local \in BOOLEAN :
    ReplayInv /\ AssignmentFails(done, refused, v, local) => ReplayInv'
<1> SUFFICES ASSUME NEW done \in SUBSET Settings, NEW refused \in SUBSET Settings,
                    NEW v \in Readings, NEW local \in BOOLEAN,
                    ReplayInv, AssignmentFails(done, refused, v, local)
             PROVE  ReplayInv'
  OBVIOUS
<1>1. Inv /\ Inv'
  BY AssignmentFailsInv, Zenon DEF ReplayInv
<1> DEFINE w == IF done = {} THEN << >> ELSE SetWrite(done, v, local)
<1>2. /\ ~(local /\ conn.tx = "I")
      /\ conn' = Fail(Assign(conn, done, refused, v, local)) /\ Logs(w)
  BY Zenon DEF AssignmentFails
<1>3. PICK a : a = Assign(conn, done, refused, v, local)
  OBVIOUS
<1>4. a \in Connection /\ SameControl(conn, a)
  BY <1>1, <1>2, <1>3, AssignedFacts, Zenon
<1>5. /\ conn'.now = a.now /\ conn'.scopes = a.scopes
      /\ conn'.tx = "I" <=> a.tx = "I"
  <2>1. conn' = Fail(a)
    BY <1>2, <1>3
  <2>2. /\ conn' \in Connection /\ conn' = [a EXCEPT !.tx = conn'.tx]
        /\ conn'.tx = "I" <=> a.tx = "I"
    BY <1>4, <2>1, FailFacts
  <2> QED BY <1>4, <2>2 DEF Connection
<1>6. IsReplay(log \o w, base, a.now)
  <2>1. CASE done = {}
    <3>1. log \in Seq(Writes) /\ conn \in Connection /\ IsReplay(log, base, conn.now)
      BY ReplayParts DEF Good, Marked
    <3>2. log \o w = log
      BY <2>1, <3>1
    <3>3. a = Assign(conn, {}, refused, v, local)
      BY <1>3, <2>1
    <3> QED BY <3>1, <3>2, <3>3, AssignNothing
  <2>2. CASE done # {}
    <3>1. w = SetWrite(done, v, local)
      BY <2>2
    <3>2. IsReplay(log \o SetWrite(done, v, local), base, a.now)
      BY <1>3, AssignReplay, Zenon
    <3> QED BY <3>1, <3>2
  <2> QED BY <2>1, <2>2
<1>7. w \in Seq(Writes)
  <2>1. << >> \in Seq(Writes)
    OBVIOUS
  <2> QED BY <2>1, SetWriteType
<1> HIDE DEF w
<1> QED BY <1>1, <1>2, <1>4, <1>5, <1>6, <1>7, WriteReplay DEF SameControl

\* RESET ALL preserves the invariant.
LEMMA ResetAllReplays == ReplayInv /\ ResetAllStatement => ReplayInv'
<1> SUFFICES ASSUME ReplayInv, ResetAllStatement
             PROVE  ReplayInv'
  OBVIOUS
<1>1. Inv /\ Inv'
  BY ResetAllInv, Zenon DEF ReplayInv
<1>2. /\ conn' = Assign(conn, Overridden(conn), {}, Unset, FALSE)
      /\ Logs(SetWrite(Overridden(conn), Unset, FALSE))
  BY DEF ResetAllStatement, ResetAll
<1>3. Overridden(conn) \in SUBSET Settings /\ Unset \in Readings /\ {} \in SUBSET Settings
  BY DEF Overridden, Readings
<1>4. SameControl(conn, conn')
  BY <1>1, <1>2, <1>3, AssignedFacts, Zenon
<1>5. IsReplay(log \o SetWrite(Overridden(conn), Unset, FALSE), base, conn'.now)
  BY <1>2, <1>3, AssignReplay, Zenon
<1>6. SetWrite(Overridden(conn), Unset, FALSE) \in Seq(Writes)
  BY <1>3, SetWriteType
<1> QED BY <1>1, <1>2, <1>4, <1>5, <1>6, WriteReplay DEF SameControl

\* LISTEN or UNLISTEN, with the channels it adds or takes away.
LEMMA SubscribeReplays ==
  ASSUME ReplayInv, Inv', NEW kind \in {"listen", "unlisten"},
         NEW chs \in SUBSET Channels,
         NEW after, after = IF kind = "listen" THEN conn.now.listening \cup chs
                            ELSE conn.now.listening \ chs,
         conn' = Subscribe(conn, after), Logs(<< [kind |-> kind, on |-> chs] >>)
  PROVE  ReplayInv'
<1>1. /\ conn \in Connection /\ log \in Seq(Writes) /\ IsReplay(log, base, conn.now)
      /\ conn.now.listening \in SUBSET Channels
  BY ReplayParts DEF Good, Marked, Connection, Scope
<1>2. after \in SUBSET Channels
  BY <1>1
<1>3. conn'.tx = conn.tx /\ conn'.scopes = conn.scopes
  BY <1>1, <1>2, ListeningFacts
<1>4. << [kind |-> kind, on |-> chs] >> \in Seq(Writes)
  <2>1. PICK w \in Writes : w = [kind |-> kind, on |-> chs]
    BY DEF Writes
  <2> QED BY <2>1
<1>5. ASSUME conn.tx # "I"
      PROVE  IsReplay(log \o << [kind |-> kind, on |-> chs] >>, base, conn'.now)
  <2>1. conn' = [conn EXCEPT !.now.listening = after]
    <3>1. [conn EXCEPT !.now.listening = after].tx = conn.tx
      BY <1>1 DEF Connection
    <3> QED BY <1>5, <3>1 DEF Subscribe, SyncedIfIdle
  <2>2. /\ conn'.now.session_vars = conn.now.session_vars
        /\ conn'.now.committed_vars = conn.now.committed_vars
        /\ conn'.now.listening = after
        /\ conn'.now.pending_notifies = conn.now.pending_notifies
    BY <1>1, <2>1 DEF Connection, Scope
  <2> QED BY <1>1, <2>2, ReplayOfListen
<1> QED BY <1>3, <1>4, <1>5, WriteReplay

\* LISTEN preserves the invariant.
LEMMA ListenReplays ==
  \A ch \in Channels : ReplayInv /\ ListenStatement(ch) => ReplayInv'
<1> SUFFICES ASSUME NEW ch \in Channels, ReplayInv, ListenStatement(ch)
             PROVE  ReplayInv'
  OBVIOUS
<1>1. Inv'
  BY ListenInv, Zenon DEF ReplayInv
<1>2. PICK chs \in SUBSET Channels : chs = {ch}
  OBVIOUS
<1>3. PICK kind \in {"listen", "unlisten"} : kind = "listen"
  OBVIOUS
<1>4. PICK after : after = conn.now.listening \cup chs
  OBVIOUS
<1>5. conn' = Subscribe(conn, after) /\ Logs(<< [kind |-> kind, on |-> chs] >>)
  BY <1>2, <1>3, <1>4 DEF ListenStatement, Listen
<1>6. after = IF kind = "listen" THEN conn.now.listening \cup chs
              ELSE conn.now.listening \ chs
  BY <1>3, <1>4
<1> QED BY <1>1, <1>5, <1>6, SubscribeReplays

\* UNLISTEN preserves the invariant.
LEMMA UnlistenReplays ==
  \A chs \in SUBSET Channels : ReplayInv /\ UnlistenStatement(chs) => ReplayInv'
<1> SUFFICES ASSUME NEW chs \in SUBSET Channels, ReplayInv, UnlistenStatement(chs)
             PROVE  ReplayInv'
  OBVIOUS
<1>1. Inv'
  BY UnlistenInv, Zenon DEF ReplayInv
<1>2. PICK kind \in {"listen", "unlisten"} : kind = "unlisten"
  OBVIOUS
<1>3. PICK after : after = conn.now.listening \ chs
  OBVIOUS
<1>4. conn' = Subscribe(conn, after) /\ Logs(<< [kind |-> kind, on |-> chs] >>)
  BY <1>2, <1>3 DEF UnlistenStatement, Unlisten
<1>5. after = IF kind = "listen" THEN conn.now.listening \cup chs
              ELSE conn.now.listening \ chs
  BY <1>2, <1>3
<1> QED BY <1>1, <1>4, <1>5, SubscribeReplays

\* NOTIFY preserves the invariant.
LEMMA NotifyReplays ==
  \A e \in Events : ReplayInv /\ NotifyStatement(e) => ReplayInv'
<1> SUFFICES ASSUME NEW e \in Events, ReplayInv, NotifyStatement(e)
             PROVE  ReplayInv'
  OBVIOUS
<1>1. Inv'
  BY NotifyInv, Zenon DEF ReplayInv
<1>2. conn' = Notify(conn, e) /\ Logs(<< [kind |-> "notify", on |-> {e}] >>)
  BY DEF NotifyStatement
<1>3. /\ conn \in Connection /\ log \in Seq(Writes) /\ IsReplay(log, base, conn.now)
      /\ conn.now \in Scope
  BY ReplayParts DEF Good, Marked, Connection
<1>4. conn'.tx = conn.tx /\ conn'.scopes = conn.scopes
  BY <1>2, <1>3, NotifyFacts
<1>5. << [kind |-> "notify", on |-> {e}] >> \in Seq(Writes)
  <2>1. PICK w \in Writes : w = [kind |-> "notify", on |-> {e}]
    BY DEF Writes
  <2> QED BY <2>1
<1>6. ASSUME conn.tx # "I"
      PROVE  IsReplay(log \o << [kind |-> "notify", on |-> {e}] >>, base, conn'.now)
  <2>1. PICK q : q = IF Contains(conn.now.pending_notifies, e)
                     THEN conn.now.pending_notifies
                     ELSE Append(conn.now.pending_notifies, e)
    OBVIOUS
  <2>2. conn' = [conn EXCEPT !.now.pending_notifies = q]
    BY <1>2, <1>6, <2>1 DEF Notify, Defer
  <2>3. /\ conn'.now.session_vars = conn.now.session_vars
        /\ conn'.now.committed_vars = conn.now.committed_vars
        /\ conn'.now.listening = conn.now.listening
        /\ conn'.now.pending_notifies = q
    BY <1>3, <2>2 DEF Connection, Scope
  <2> QED BY <1>3, <2>1, <2>3, ReplayOfNotify
<1> QED BY <1>1, <1>2, <1>4, <1>5, <1>6, WriteReplay
-----------------------------------------------------------------------------
\* BEGIN preserves the invariant.
LEMMA BeginReplays == ReplayInv /\ BeginStatement => ReplayInv'
<1> SUFFICES ASSUME ReplayInv, BeginStatement
             PROVE  ReplayInv'
  OBVIOUS
<1>1. Inv'
  BY BeginInv, Zenon DEF ReplayInv
<1>2. /\ Good(conn, base, client) /\ Marked(log, marks, Len(conn.savepoints))
      /\ FramesHold(conn, log, marks, base, undone) /\ IsReplay(log, base, conn.now)
  BY ReplayParts
<1>3. /\ conn \in Connection /\ conn' = Begin(conn) /\ Runs(conn, "BEGIN")
      /\ UNCHANGED << base, log, marks, undone >>
  BY <1>2 DEF BeginStatement, Executing, history, Good
<1>4. conn.tx \in {"I", "T"}
  BY <1>3 DEF Connection, TxStatus, Runs
<1>5. CASE conn.tx = "T"
  <2>1. conn' = conn
    BY <1>3, <1>5 DEF Begin
  <2> QED BY <1>1, <1>3, <2>1, SameReplay
<1>6. CASE conn.tx = "I"
  <2>1. conn.scopes = << >> /\ conn.savepoints = << >>
    BY <1>2, <1>6 DEF Good, Framed, IsSettled
  <2>2. conn' = [conn EXCEPT !.scopes = Append(<< >>, conn.now), !.tx = "T",
                             !.savepoints = << >>]
    BY <1>3, <1>6, <2>1 DEF Begin, OpenScope
  <2>3. conn'.scopes = << conn.now >> /\ conn'.tx = "T" /\ conn'.now = conn.now
    BY <1>3, <2>2 DEF Connection
  <2>4. Len(marks) = 0 /\ ~undone
    BY <1>2, <1>6, <2>1 DEF Marked, FramesHold
  <2>5. FramesHold(conn', log', marks', base', undone')
    BY <1>3, <2>3, <2>4 DEF FramesHold
  <2> QED BY <1>1, <1>2, <1>3, <2>3, <2>5, ReplayPartsNext
<1> QED BY <1>4, <1>5, <1>6

\* SAVEPOINT: its frame is the state, and its mark the end of the log.  The
\* frame of an earlier savepoint must not be missing.
LEMMA SavepointReplays ==
  \A s \in Names :
    PairedRollback /\ ReplayInv /\ SavepointStatement(s) => ReplayInv'
<1> SUFFICES ASSUME NEW s \in Names, PairedRollback, ReplayInv, SavepointStatement(s)
             PROVE  ReplayInv'
  OBVIOUS
<1>1. Inv'
  BY SavepointInv, Zenon DEF ReplayInv
<1>2. /\ Good(conn, base, client) /\ Marked(log, marks, Len(conn.savepoints))
      /\ FramesHold(conn, log, marks, base, undone) /\ IsReplay(log, base, conn.now)
  BY ReplayParts
<1>3. /\ conn.tx # "I" /\ ~undone /\ conn' = Savepoint(conn, s)
      /\ marks' = Append(marks, Len(log)) /\ undone' = FALSE /\ UNCHANGED << base, log >>
  BY DEF SavepointStatement
<1>4. /\ conn \in Connection /\ log \in Seq(Writes) /\ marks \in Seq(Nat)
      /\ conn.scopes \in Seq(Scope) /\ conn.now \in Scope /\ Framed(conn, base)
      /\ Len(marks) \in Nat /\ Len(log) \in Nat
  BY <1>2, LenProperties DEF Good, Marked, Connection
<1>5. conn'.tx = conn.tx /\ conn'.now = conn.now
  BY <1>3, <1>4, SavepointFacts
<1>6. conn'.scopes = Append(conn.scopes, conn.now)
  <2>1. PICK p : p = Append(conn.savepoints, s)
    OBVIOUS
  <2>2. conn' = OpenScope([conn EXCEPT !.savepoints = p])
    BY <1>3, <2>1 DEF Savepoint
  <2> QED BY <1>4, <2>2 DEF OpenScope, Connection
<1>7. /\ Len(conn'.scopes) = Len(conn.scopes) + 1
      /\ \A i \in 1..Len(conn.scopes) : conn'.scopes[i] = conn.scopes[i]
      /\ conn'.scopes[Len(conn.scopes) + 1] = conn.now
  BY <1>4, <1>6
<1>8. /\ Len(marks') = Len(marks) + 1 /\ marks'[Len(marks) + 1] = Len(log)
      /\ \A i \in 1..Len(marks) : marks'[i] = marks[i]
  BY <1>3, <1>4
<1>9. Len(conn.scopes) = Len(marks) + 1
  BY <1>2, <1>3 DEF FramesHold
<1>10. ASSUME NEW i \in 1..Len(marks')
       PROVE  IsReplay(SubSeq(log, 1, marks'[i]), base, conn'.scopes[i + 1])
  <2>1. CASE i = Len(marks) + 1
    <3>1. SubSeq(log, 1, Len(log)) = log
      BY <1>4, WholePrefix
    <3> QED BY <1>2, <1>7, <1>8, <1>9, <2>1, <3>1
  <2>2. CASE i \in 1..Len(marks)
    <3>1. IsReplay(SubSeq(log, 1, marks[i]), base, conn.scopes[i + 1])
      BY <1>2, <1>3, <1>4, <1>9, <2>2 DEF FramesHold
    <3>2. i + 1 \in 1..Len(conn.scopes)
      BY <1>4, <1>9, <2>2
    <3>3. conn'.scopes[i + 1] = conn.scopes[i + 1]
      BY <1>7, <3>2
    <3>4. marks'[i] = marks[i]
      BY <1>8, <2>2
    <3> QED BY <3>1, <3>3, <3>4
  <2> QED BY <1>4, <1>8, <2>1, <2>2
<1>11. Len(conn'.scopes) = Len(marks') + 1
  BY <1>7, <1>8, <1>9
<1>12. FramesHold(conn', log', marks', base', undone')
  BY <1>3, <1>5, <1>10, <1>11 DEF FramesHold
<1> QED BY <1>1, <1>2, <1>3, <1>5, <1>12, ReplayPartsNext

\* RELEASE: it leaves the frames of the savepoints outside the released one.
LEMMA ReleaseReplays ==
  \A s \in Names : ReplayInv /\ ReleaseStatement(s) => ReplayInv'
<1> SUFFICES ASSUME NEW s \in Names, ReplayInv, ReleaseStatement(s)
             PROVE  ReplayInv'
  OBVIOUS
<1>1. Inv'
  BY ReleaseInv, Zenon DEF ReplayInv
<1>2. /\ Good(conn, base, client) /\ Marked(log, marks, Len(conn.savepoints))
      /\ FramesHold(conn, log, marks, base, undone) /\ IsReplay(log, base, conn.now)
  BY ReplayParts
<1>3. /\ conn.tx # "I" /\ HasSavepoint(conn, s) /\ conn' = Release(conn, s)
      /\ marks' = SubSeq(marks, 1, Innermost(conn, s) - 1) /\ undone' = FALSE
      /\ UNCHANGED << base, log >>
  BY DEF ReleaseStatement
<1>4. /\ conn \in Connection /\ marks \in Seq(Nat) /\ Len(marks) = Len(conn.savepoints)
      /\ conn.scopes \in Seq(Scope) /\ Framed(conn, base)
      /\ Len(marks) \in Nat /\ Len(conn.scopes) \in Nat
  BY <1>2, LenProperties DEF Good, Marked, Connection
<1>5. conn'.tx = conn.tx /\ conn'.now = conn.now
  BY <1>3, <1>4, ReleaseFacts
<1>6. PICK i \in 1..Len(marks) : i = Innermost(conn, s)
  BY <1>3, <1>4, InnermostIndex
<1>7. conn'.scopes = FramesBelow(conn.scopes, i)
  <2>1. PICK p : p = SubSeq(conn.savepoints, 1, i - 1)
    OBVIOUS
  <2>2. conn' = DiscardScopes([conn EXCEPT !.savepoints = p], i)
    BY <1>3, <1>6, <2>1 DEF Release
  <2> QED BY <1>4, <2>2 DEF DiscardScopes, Connection
<1>8. i \in Nat /\ i <= Len(conn.scopes)
  BY <1>2, <1>3, <1>4, <1>6 DEF FramesHold
<1>9. Len(conn'.scopes) = i /\ \A j \in 1..i : conn'.scopes[j] = conn.scopes[j]
  BY <1>4, <1>7, <1>8, FramesCut
<1>10. Len(marks') = i - 1 /\ \A j \in 1..(i - 1) : marks'[j] = marks[j]
  BY <1>3, <1>4, <1>6
<1>11. ASSUME NEW j \in 1..Len(marks')
       PROVE  IsReplay(SubSeq(log, 1, marks'[j]), base, conn'.scopes[j + 1])
  <2>1. j \in 1..Len(marks) /\ j < Len(conn.scopes) /\ j + 1 \in 1..i /\ j \in 1..(i - 1)
    BY <1>4, <1>6, <1>8, <1>10
  <2>2. IsReplay(SubSeq(log, 1, marks[j]), base, conn.scopes[j + 1])
    BY <1>2, <1>3, <2>1 DEF FramesHold
  <2> QED BY <1>9, <1>10, <2>1, <2>2
<1>12. Len(conn'.scopes) = Len(marks') + 1
  BY <1>8, <1>9, <1>10
<1>13. FramesHold(conn', log', marks', base', undone')
  BY <1>3, <1>5, <1>11, <1>12 DEF FramesHold
<1> QED BY <1>1, <1>2, <1>3, <1>5, <1>13, ReplayPartsNext

\* What ROLLBACK TO leaves when the savepoint's frame is there.
LEMMA RollbackToNow ==
  ASSUME NEW k \in Connection, NEW s, HasSavepoint(k, s), NEW i \in Nat,
         i = Innermost(k, s), i < Len(k.scopes)
  PROVE  /\ RollbackTo(k, s).now = k.scopes[i + 1]
         /\ RollbackTo(k, s).scopes = FramesBelow(k.scopes, i)
<1>1. i <= Len(k.savepoints)
  BY InnermostIndex
<1>2. PICK j \in Connection : j = [k EXCEPT !.savepoints = SubSeq(k.savepoints, 1, i)]
  BY <1>1, StackCut
<1>3. j.scopes = k.scopes
  BY <1>2 DEF Connection
<1>4. PICK t \in Connection : t = RestoreScope(j, i)
  BY RestoreScopeType
<1>5. t.now = k.scopes[i + 1] /\ t.scopes = FramesBelow(k.scopes, i)
  <2>1. Len(k.scopes) \in Nat
    BY LenProperties DEF Connection
  <2>2. t = [j EXCEPT !.now = k.scopes[i + 1], !.scopes = FramesBelow(k.scopes, i)]
    BY <1>3, <1>4, <2>1 DEF RestoreScope
  <2> QED BY <1>2, <2>2 DEF Connection
<1>6. PICK r \in Connection : r = Settle(k, t)
  BY SettleType
<1>7. r = [t EXCEPT !.owed = r.owed, !.live = t.now.listening]
  BY <1>6, SettleType
<1>8. r.now = t.now /\ r.scopes = t.scopes
  BY <1>4, <1>7 DEF Connection
<1>9. RollbackTo(k, s) = [r EXCEPT !.tx = "T"]
  BY <1>2, <1>4, <1>6 DEF RollbackTo
<1>10. RollbackTo(k, s).now = r.now /\ RollbackTo(k, s).scopes = r.scopes
  BY <1>6, <1>9 DEF Connection
<1> QED BY <1>5, <1>8, <1>10

\* ROLLBACK TO: the savepoint's frame is the replay of the log up to its mark.
\* The frame must be there.
LEMMA RollbackToReplays ==
  \A s \in Names :
    PairedRollback /\ ReplayInv /\ RollbackToStatement(s) => ReplayInv'
<1> SUFFICES ASSUME NEW s \in Names, PairedRollback, ReplayInv, RollbackToStatement(s)
             PROVE  ReplayInv'
  OBVIOUS
<1>1. Inv'
  BY RollbackToInv, Zenon DEF ReplayInv
<1>2. /\ Good(conn, base, client) /\ Marked(log, marks, Len(conn.savepoints))
      /\ FramesHold(conn, log, marks, base, undone) /\ undone \in BOOLEAN
  BY ReplayParts
<1>3. /\ conn.tx # "I" /\ HasSavepoint(conn, s) /\ conn' = RollbackTo(conn, s)
      /\ undone => Innermost(conn, s) < Len(conn.savepoints)
      /\ log' = SubSeq(log, 1, marks[Innermost(conn, s)])
      /\ marks' = SubSeq(marks, 1, Innermost(conn, s)) /\ undone' = TRUE
      /\ UNCHANGED base
  BY DEF RollbackToStatement
<1>4. /\ conn \in Connection /\ marks \in Seq(Nat) /\ Len(marks) = Len(conn.savepoints)
      /\ conn.scopes \in Seq(Scope) /\ Framed(conn, base) /\ log \in Seq(Writes)
      /\ client \in Vars /\ IsSynced(conn, client)
      /\ Len(marks) \in Nat /\ Len(conn.scopes) \in Nat
  BY <1>2, LenProperties DEF Good, Marked, Connection
<1>5. conn'.tx = "T"
  BY <1>3, <1>4, RollbackToFacts
<1>6. PICK i \in 1..Len(marks) : i = Innermost(conn, s)
  BY <1>3, <1>4, InnermostIndex
<1>7. i \in Nat /\ i < Len(conn.scopes)
  <2>1. Len(conn.scopes) = IF undone THEN Len(marks) ELSE Len(marks) + 1
    BY <1>2, <1>3 DEF FramesHold
  <2>2. undone => i < Len(marks)
    BY <1>3, <1>4, <1>6
  <2> QED BY <1>2, <1>4, <1>6, <2>1, <2>2
<1>8. conn'.now = conn.scopes[i + 1] /\ conn'.scopes = FramesBelow(conn.scopes, i)
  BY <1>3, <1>4, <1>6, <1>7, RollbackToNow
<1>9. Len(conn'.scopes) = i /\ \A j \in 1..i : conn'.scopes[j] = conn.scopes[j]
  BY <1>4, <1>7, <1>8, FramesCut
<1>10. Len(marks') = i /\ \A j \in 1..i : marks'[j] = marks[j]
  BY <1>3, <1>4, <1>6
<1>11. \A j \in 1..Len(marks) :
         j < Len(conn.scopes) => IsReplay(SubSeq(log, 1, marks[j]), base, conn.scopes[j + 1])
  BY <1>2, <1>3 DEF FramesHold
<1>12. IsReplay(log', base', conn'.now)
  BY <1>3, <1>6, <1>7, <1>8, <1>11
<1>13. ASSUME NEW j \in 1..Len(marks'), j < Len(conn'.scopes)
       PROVE  IsReplay(SubSeq(log', 1, marks'[j]), base', conn'.scopes[j + 1])
  <2>1. /\ j \in 1..Len(marks) /\ j < Len(conn.scopes) /\ j + 1 \in 1..i /\ j \in 1..i
        /\ j <= i
    BY <1>4, <1>6, <1>7, <1>9, <1>10, <1>13
  <2>2. /\ marks[j] \in Nat /\ marks[i] \in Nat /\ marks[j] <= marks[i]
        /\ marks[i] <= Len(log)
    BY <1>2, <1>4, <1>6, <2>1, ElementOfSeq DEF Marked
  <2>3. SubSeq(SubSeq(log, 1, marks[i]), 1, marks[j]) = SubSeq(log, 1, marks[j])
    BY <1>4, <2>2, PrefixOfPrefix
  <2> QED BY <1>3, <1>6, <1>9, <1>10, <1>11, <2>1, <2>3
<1>14. FramesHold(conn', log', marks', base', undone')
  BY <1>3, <1>5, <1>9, <1>10, <1>13 DEF FramesHold
<1> QED BY <1>1, <1>12, <1>14, ReplayPartsNext
-----------------------------------------------------------------------------
\* A new connection has nothing to replay.
LEMMA InitReplays == Init => ReplayInv
<1> SUFFICES ASSUME Init PROVE ReplayInv
  OBVIOUS
<1>1. Inv
  BY InitInv
<1>2. conn.tx = "I" /\ conn.now = base /\ log = << >> /\ undone = FALSE
  BY DEF Init, NewConnection
<1>3. base \in Scope /\ Clean(base)
  BY <1>1, InvParts DEF Good
<1>4. IsReplay(<< >>, base, base)
  BY <1>3, ReplayNothing
<1>5. FramesHold(conn, log, marks, base, undone)
  BY <1>2 DEF FramesHold
<1> QED BY <1>1, <1>2, <1>4, <1>5 DEF ReplayInv, FramesMatch, ReplayMatches

\* Every step preserves the invariant, if the client pairs its rollbacks.
LEMMA NextReplays == PairedRollback /\ ReplayInv /\ [Next]_vars => ReplayInv'
<1> SUFFICES ASSUME PairedRollback, ReplayInv, [Next]_vars
             PROVE  ReplayInv'
  OBVIOUS
<1>0. Inv /\ Inv'
  BY NextInv, Zenon DEF ReplayInv
<1>1. CASE ReceiveCommand
  BY <1>0, <1>1, SameReplay DEF ReceiveCommand, history
<1>2. CASE ReadyForQuery
  <2>1. conn \in Connection
    BY <1>0, InvParts DEF Good
  <2>2. conn' = [conn EXCEPT !.owed = NothingOwed] /\ UNCHANGED << base, log, marks, undone >>
    BY <1>2 DEF ReadyForQuery, history
  <2>3. conn'.now = conn.now /\ conn'.scopes = conn.scopes /\ conn'.tx = conn.tx
    BY <2>1, <2>2 DEF Connection
  <2> QED BY <1>0, <2>2, <2>3, SameReplay
<1>3. CASE StatementFails
  <2>1. conn \in Connection
    BY <1>0, InvParts DEF Good
  <2>2. conn' = Fail(conn) /\ UNCHANGED << base, log, marks, undone >>
    BY <1>3 DEF StatementFails, history
  <2>3. conn' = [conn EXCEPT !.tx = conn'.tx] /\ (conn'.tx = "I" <=> conn.tx = "I")
    BY <2>1, <2>2, FailFacts
  <2>4. conn'.now = conn.now /\ conn'.scopes = conn.scopes
    BY <2>1, <2>3 DEF Connection
  <2> QED BY <1>0, <2>2, <2>3, <2>4, SameReplay
<1>4. CASE BeginStatement
  BY <1>4, BeginReplays
<1>5. CASE CommitStatement
  <2>1. conn'.tx = "I"
    BY <1>0, <1>5, InvParts, CommitFacts DEF CommitStatement, Good
  <2> QED BY <1>0, <1>5, <2>1, EndsReplay DEF CommitStatement
<1>6. CASE RollbackStatement
  <2>1. conn'.tx = "I"
    BY <1>0, <1>6, InvParts, RollbackFacts DEF RollbackStatement, Good
  <2> QED BY <1>0, <1>6, <2>1, EndsReplay DEF RollbackStatement
<1>7. CASE \E s \in Names :
             SavepointStatement(s) \/ ReleaseStatement(s) \/ RollbackToStatement(s)
  BY <1>7, SavepointReplays, ReleaseReplays, RollbackToReplays, Zenon
<1>8. CASE \E ns \in (SUBSET Settings) \ {{}}, v \in Readings, local \in BOOLEAN :
             AssignmentStatement(ns, v, local)
  BY <1>8, AssignmentReplays, Zenon
<1>9. CASE \E done \in SUBSET Settings, v \in Readings, local \in BOOLEAN :
             \E refused \in {{}} \cup {{n} : n \in Settings \ done} :
               AssignmentFails(done, refused, v, local)
  <2>1. PICK done \in SUBSET Settings, v \in Readings, local \in BOOLEAN :
          \E refused \in {{}} \cup {{n} : n \in Settings \ done} :
            AssignmentFails(done, refused, v, local)
    BY <1>9, Zenon
  <2>2. {{}} \cup {{n} : n \in Settings \ done} \subseteq SUBSET Settings
    OBVIOUS
  <2>3. PICK refused \in SUBSET Settings : AssignmentFails(done, refused, v, local)
    BY <2>1, <2>2, Zenon
  <2> QED BY <2>3, AssignmentFailsReplays, Zenon
<1>10. CASE ResetAllStatement
  BY <1>10, ResetAllReplays
<1>11. CASE DiscardAllStatement
  <2>1. conn'.tx = "I"
    BY <1>0, <1>11, InvParts, DiscardAllFacts DEF DiscardAllStatement, Good, Framed
  <2> QED BY <1>0, <1>11, <2>1, EndsReplay DEF DiscardAllStatement
<1>12. CASE \E ch \in Channels : ListenStatement(ch)
  BY <1>12, ListenReplays, Zenon
<1>13. CASE \E chs \in {Channels} \cup {{ch} : ch \in Channels} : UnlistenStatement(chs)
  <2>1. {Channels} \cup {{ch} : ch \in Channels} \subseteq SUBSET Channels
    OBVIOUS
  <2> QED BY <1>13, <2>1, UnlistenReplays, Zenon
<1>14. CASE \E e \in Events : NotifyStatement(e)
  BY <1>14, NotifyReplays, Zenon
<1>15. CASE UNCHANGED vars
  BY <1>0, <1>15, SameReplay DEF vars
<1> QED BY <1>1, <1>2, <1>3, <1>4, <1>5, <1>6, <1>7, <1>8, <1>9, <1>10, <1>11,
           <1>12, <1>13, <1>14, <1>15, Zenon DEF Next
-----------------------------------------------------------------------------
\* The inductive invariant holds in every state, for a client that RELEASEs a
\* savepoint it has rolled back to before it uses it again.
THEOREM ReplayInvariance ==
  ASSUME PairedRollback
  PROVE  Spec => []ReplayInv
<1>1. ReplayInv /\ [Next]_vars => ReplayInv'
  BY NextReplays
<1> QED BY <1>1, InitReplays, PTL DEF Spec

\* Snapshots implement the transaction log: whatever statements ran, failed or
\* were rolled back to a savepoint, the connection holds what replaying the
\* writes that were not undone gives.
THEOREM SnapshotsImplementTheLog ==
  ASSUME PairedRollback
  PROVE  Spec => []ReplayMatches
<1>1. ReplayInv => ReplayMatches
  BY DEF ReplayInv
<1> QED BY <1>1, ReplayInvariance, PTL

\* What COMMIT leaves of the visible state of an open transaction.
LEMMA CommitNow ==
  ASSUME NEW k \in Connection, k.tx # "I"
  PROVE  /\ Commit(k).now.session_vars = k.now.committed_vars
         /\ Commit(k).now.committed_vars = k.now.committed_vars
         /\ Commit(k).now.listening = k.now.listening
<1>1. PICK i \in Connection : i = Idle(k) /\ i.now = k.now
  BY IdleType
<1>2. PICK c \in Connection : c = TakePendingNotifies(CommitTransaction(i))
  <2>1. << >> \in Seq(Scope) /\ << >> \in Seq(Events)
    OBVIOUS
  <2> QED BY <2>1 DEF TakePendingNotifies, CommitTransaction, Connection, Scope
<1>3. /\ c.now.session_vars = k.now.committed_vars
      /\ c.now.committed_vars = k.now.committed_vars
      /\ c.now.listening = k.now.listening
  BY <1>1, <1>2 DEF TakePendingNotifies, CommitTransaction, Connection, Scope
<1>4. PICK r \in Connection : r = Settle(i, c)
                              /\ r = [c EXCEPT !.owed = r.owed, !.live = c.now.listening]
  BY SettleType
<1>5. Commit(k) = r
  BY <1>1, <1>2, <1>4 DEF Commit, Idle
<1>6. r.now = c.now
  BY <1>2, <1>4 DEF Connection
<1> QED BY <1>3, <1>5, <1>6

\* Only COMMIT and ROLLBACK end an open transaction.
LEMMA StaysOpen ==
  ASSUME Inv, [Next]_vars, conn.tx # "I", ~CommitStatement, ~RollbackStatement
  PROVE  conn'.tx # "I"
<1>0. conn \in Connection /\ Framed(conn, base) /\ client \in Vars /\ IsSynced(conn, client)
  BY InvParts DEF Good
<1> DEFINE SetStep == \E ns \in (SUBSET Settings) \ {{}}, v \in Readings, local \in BOOLEAN :
                        AssignmentStatement(ns, v, local)
           FailStep == \E done \in SUBSET Settings, v \in Readings, local \in BOOLEAN :
                         \E refused \in {{}} \cup {{n} : n \in Settings \ done} :
                           AssignmentFails(done, refused, v, local)
<1>1. CASE ReceiveCommand \/ UNCHANGED vars
  BY <1>1 DEF ReceiveCommand, vars
<1>2. CASE ReadyForQuery
  BY <1>0, <1>2 DEF ReadyForQuery, Connection
<1>3. CASE StatementFails
  BY <1>0, <1>3, FailFacts DEF StatementFails
<1>4. CASE BeginStatement
  <2>1. conn.tx = "T"
    BY <1>0, <1>4 DEF BeginStatement, Executing, Runs, Connection, TxStatus
  <2> QED BY <1>4, <2>1 DEF BeginStatement, Begin
<1>5. ASSUME NEW s \in Names, SavepointStatement(s) PROVE conn'.tx # "I"
  BY <1>0, <1>5, SavepointFacts DEF SavepointStatement
<1>6. ASSUME NEW s \in Names, ReleaseStatement(s) PROVE conn'.tx # "I"
  BY <1>0, <1>6, ReleaseFacts DEF ReleaseStatement
<1>7. ASSUME NEW s \in Names, RollbackToStatement(s) PROVE conn'.tx # "I"
  <2>1. conn'.tx = "T"
    BY <1>0, <1>7, RollbackToFacts DEF RollbackToStatement
  <2> QED BY <2>1
<1>8. CASE SetStep
  <2>1. PICK ns \in SUBSET Settings, v \in Readings, local \in BOOLEAN :
          AssignmentStatement(ns, v, local)
    BY <1>8, Zenon
  <2>2. conn' = Assign(conn, ns, {}, v, local) /\ {} \in SUBSET Settings
    BY <2>1, Zenon DEF AssignmentStatement
  <2>3. SameControl(conn, conn')
    BY <2>2, AssignedFacts, Zenon
  <2> QED BY <2>3 DEF SameControl
<1>9. CASE FailStep
  <2>1. PICK done \in SUBSET Settings, v \in Readings, local \in BOOLEAN :
          \E refused \in {{}} \cup {{n} : n \in Settings \ done} :
            AssignmentFails(done, refused, v, local)
    BY <1>9, Zenon
  <2>2. {{}} \cup {{n} : n \in Settings \ done} \subseteq SUBSET Settings
    OBVIOUS
  <2>3. PICK refused \in SUBSET Settings : AssignmentFails(done, refused, v, local)
    BY <2>1, <2>2, Zenon
  <2>4. PICK a : a = Assign(conn, done, refused, v, local)
    OBVIOUS
  <2>5. a \in Connection /\ a.tx = conn.tx
    <3>1. a \in Connection /\ SameControl(conn, a)
      BY <2>4, AssignedFacts, Zenon
    <3> QED BY <3>1 DEF SameControl
  <2>6. conn' = Fail(a)
    BY <2>3, <2>4, Zenon DEF AssignmentFails
  <2> QED BY <2>5, <2>6, FailFacts
<1>10. CASE ResetAllStatement
  <2>1. conn' = Assign(conn, Overridden(conn), {}, Unset, FALSE)
    BY <1>10 DEF ResetAllStatement, ResetAll
  <2>2. Overridden(conn) \in SUBSET Settings /\ Unset \in Readings /\ {} \in SUBSET Settings
    BY DEF Overridden, Readings
  <2>3. SameControl(conn, conn')
    BY <2>1, <2>2, AssignedFacts, Zenon
  <2> QED BY <2>3 DEF SameControl
<1>11. ~DiscardAllStatement
  BY DEF DiscardAllStatement
<1>12. ASSUME NEW chs \in SUBSET Channels, conn' = Subscribe(conn, chs)
       PROVE  conn'.tx # "I"
  BY <1>0, <1>12, ListeningFacts
<1>13. CASE \E ch \in Channels : ListenStatement(ch)
  <2>1. PICK ch \in Channels : conn' = Subscribe(conn, conn.now.listening \cup {ch})
    BY <1>13 DEF ListenStatement, Listen
  <2>2. conn.now.listening \cup {ch} \in SUBSET Channels
    BY <1>0 DEF Connection, Scope
  <2> QED BY <1>12, <2>1, <2>2
<1>14. CASE \E chs \in {Channels} \cup {{ch} : ch \in Channels} : UnlistenStatement(chs)
  <2>1. PICK chs : conn' = Subscribe(conn, conn.now.listening \ chs)
    BY <1>14 DEF UnlistenStatement, Unlisten
  <2>2. conn.now.listening \ chs \in SUBSET Channels
    BY <1>0 DEF Connection, Scope
  <2> QED BY <1>12, <2>1, <2>2
<1>15. CASE \E e \in Events : NotifyStatement(e)
  BY <1>0, <1>15, NotifyFacts DEF NotifyStatement
<1> QED BY <1>1, <1>2, <1>3, <1>4, <1>5, <1>6, <1>7, <1>8, <1>9, <1>10, <1>11,
           <1>13, <1>14, <1>15, Zenon DEF Next

\* A transaction ends all or nothing: COMMIT keeps the session-scoped writes of
\* the log that was not rolled back, ROLLBACK none of it.
THEOREM EndsAllOrNothing ==
  ASSUME PairedRollback
  PROVE  Spec => AllOrNothing
<1> DEFINE Kept == /\ conn'.now.session_vars = ReplayVars(log, {"set"}, base.session_vars)
                   /\ conn'.now.committed_vars = conn'.now.session_vars
                   /\ conn'.now.listening = ReplayListening(log, base.listening)
<1>1. ASSUME ReplayInv, CommitStatement, conn.tx # "I" PROVE Kept
  <2>1. /\ conn \in Connection /\ IsReplay(log, base, conn.now) /\ Clean(base)
    BY <1>1, ReplayParts DEF Good
  <2>2. conn' = Commit(conn)
    BY <1>1 DEF CommitStatement
  <2>3. /\ conn'.now.session_vars = conn.now.committed_vars
        /\ conn'.now.committed_vars = conn.now.committed_vars
        /\ conn'.now.listening = conn.now.listening
    BY <1>1, <2>1, <2>2, CommitNow
  <2>4. base.session_vars = base.committed_vars
    BY <2>1 DEF Clean
  <2> QED BY <2>1, <2>3, <2>4 DEF IsReplay
<1>2. ASSUME ReplayInv, RollbackStatement PROVE conn'.now = base
  BY <1>2, ReplayParts, RollbackFacts DEF Good, RollbackStatement
<1>3. ReplayInv /\ [Next]_vars => [conn.tx # "I" /\ conn'.tx = "I" =>
                                      conn'.now = base \/ Kept]_vars
  <2> SUFFICES ASSUME ReplayInv, [Next]_vars, conn.tx # "I", conn'.tx = "I"
               PROVE  conn'.now = base \/ Kept
    OBVIOUS
  <2>1. Inv
    BY DEF ReplayInv
  <2> QED BY <1>1, <1>2, <2>1, StaysOpen, Zenon
<1> QED BY <1>3, ReplayInvariance, PTL DEF Spec, AllOrNothing

\* COMMIT fans out the notifications of the log that was not rolled back, once
\* each, in the order of their first NOTIFY.
THEOREM CommitSendsWhatWasLogged ==
  ASSUME PairedRollback
  PROVE  Spec => CommitSendsTheLog
<1>1. ReplayInv /\ [Next]_vars => [CommitStatement /\ conn.tx # "I" =>
                                      IsReplayOfNotifies(log, CommitFanout(conn))]_vars
  BY DEF ReplayInv, ReplayMatches, IsReplay, CommitFanout
<1> QED BY <1>1, ReplayInvariance, PTL DEF Spec, CommitSendsTheLog
=============================================================================
