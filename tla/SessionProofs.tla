---------------------------- MODULE SessionProofs ----------------------------
(***************************************************************************)
(* Facts about the operators of SessionState and TransactionControl, for   *)
(* every connection record: what each keeps of the type and of the frame   *)
(* that BEGIN took.  TransactionsProofs and ListenNotifyProofs cite them.  *)
(***************************************************************************)
EXTENDS TransactionControl, Counting, SequenceTheorems

\* del self._scopes[depth:] leaves a list of frames.
LEMMA FramesBelowType ==
  ASSUME NEW S, NEW scopes \in Seq(S), NEW depth \in Nat
  PROVE  /\ FramesBelow(scopes, depth) \in Seq(S)
         /\ scopes # << >> /\ depth > 0 =>
              /\ FramesBelow(scopes, depth) # << >>
              /\ FramesBelow(scopes, depth)[1] = scopes[1]
<1>1. CASE depth >= Len(scopes)
  BY <1>1 DEF FramesBelow
<1>2. CASE ~(depth >= Len(scopes))
  <2>1. depth <= Len(scopes) /\ Len(scopes) \in Nat
    BY <1>2, LenProperties
  <2>2. \A i \in 1..depth : scopes[i] \in S
    BY <2>1, ElementOfSeq
  <2>3. FramesBelow(scopes, depth) = SubSeq(scopes, 1, depth)
    BY <1>2 DEF FramesBelow
  <2>4. /\ SubSeq(scopes, 1, depth) \in Seq(S)
        /\ Len(SubSeq(scopes, 1, depth)) = depth
        /\ \A i \in 1..depth : SubSeq(scopes, 1, depth)[i] = scopes[i]
    BY <2>1, <2>2
  <2>5. scopes # << >> /\ depth > 0 =>
          /\ SubSeq(scopes, 1, depth) # << >>
          /\ SubSeq(scopes, 1, depth)[1] = scopes[1]
    BY <2>4
  <2> QED BY <2>3, <2>4, <2>5
<1> QED BY <1>1, <1>2

\* A list stays a list when one element is added, and keeps its first element.
LEMMA AppendKeepsFirst ==
  ASSUME NEW S, NEW s \in Seq(S), NEW e \in S
  PROVE  /\ Append(s, e) \in Seq(S)
         /\ Append(s, e) # << >>
         /\ Len(Append(s, e)) = Len(s) + 1
         /\ \A i \in 1..Len(s) : Append(s, e)[i] = s[i]
         /\ s # << >> => Append(s, e)[1] = s[1]
<1>1. /\ Append(s, e) \in Seq(S)
      /\ Len(Append(s, e)) = Len(s) + 1
      /\ \A i \in 1..Len(s) : Append(s, e)[i] = s[i]
      /\ Len(s) \in Nat
  OBVIOUS
<1>2. s # << >> => 1 \in 1..Len(s)
  BY EmptySeq
<1>3. Append(s, e) # << >>
  BY <1>1, EmptySeq
<1> QED BY <1>1, <1>2, <1>3

\* A prefix of a list is a list.
LEMMA PrefixType ==
  ASSUME NEW S, NEW s \in Seq(S), NEW n \in Nat, n <= Len(s)
  PROVE  SubSeq(s, 1, n) \in Seq(S)
<1>1. \A i \in 1..n : s[i] \in S
  BY ElementOfSeq
<1> QED BY <1>1

\* open_scope() adds a frame and changes nothing else.
LEMMA OpenScopeType ==
  ASSUME NEW k \in Connection
  PROVE  /\ OpenScope(k) \in Connection
         /\ OpenScope(k).scopes # << >>
         /\ k.scopes # << >> => OpenScope(k).scopes[1] = k.scopes[1]
         /\ k.scopes = << >> => OpenScope(k).scopes[1] = k.now
         /\ OpenScope(k).now = k.now
<1>1. k.scopes \in Seq(Scope) /\ k.now \in Scope
  BY DEF Connection
<1>2. PICK s \in Seq(Scope) : s = Append(k.scopes, k.now)
  BY <1>1, AppendKeepsFirst
<1>3. /\ s # << >>
      /\ k.scopes # << >> => s[1] = k.scopes[1]
  BY <1>1, <1>2, AppendKeepsFirst
<1>4. k.scopes = << >> => s[1] = k.now
  BY <1>2
<1>5. OpenScope(k) = [k EXCEPT !.scopes = s]
  BY <1>2 DEF OpenScope
<1> QED BY <1>3, <1>4, <1>5 DEF Connection

\* A nonempty set of indices of a list has a largest element.
LEMMA MaxOfIndices ==
  ASSUME NEW n \in Nat, NEW T \in SUBSET (1..n), T # {}
  PROVE  Max(T) \in T /\ \A y \in T : Max(T) >= y
<1> DEFINE D == {n - x : x \in T}
           R == OpToRel(<, Nat)
<1>1. D \subseteq Nat /\ D # {}
  <2>1. \A x \in T : x \in Nat /\ x <= n /\ n - x \in Nat
    OBVIOUS
  <2> QED BY <2>1
<1>2. IsWellFoundedOn(R, Nat)
  BY NatLessThanWellFounded
<1>3. PICK d \in D : \A e \in D : ~(<< e, d >> \in R)
  <2> HIDE DEF D, R
  <2> QED BY <1>1, <1>2, WFMin
<1>4. \A e \in D : ~(e < d)
  <2>1. \A e \in Nat : e < d => << e, d >> \in {ss \in Nat \X Nat : ss[1] < ss[2]}
    BY <1>1, <1>3
  <2>2. R = {ss \in Nat \X Nat : ss[1] < ss[2]}
    BY Zenon DEF OpToRel
  <2> HIDE DEF D, R
  <2> QED BY <1>1, <1>3, <2>1, <2>2
<1>5. PICK x \in T : d = n - x
  BY <1>3
<1>6. \A y \in T : x >= y
  <2>1. \A y \in T : n - y \in D /\ y \in Nat /\ x \in Nat
    OBVIOUS
  <2>2. \A y \in T : ~(n - y < n - x)
    BY <1>4, <1>5, <2>1
  <2> HIDE DEF D, R
  <2> QED BY <2>1, <2>2
<1> QED BY <1>6 DEF Max

\* A named savepoint has an innermost occurrence, which is one of the stack's.
LEMMA InnermostIndex ==
  ASSUME NEW k \in Connection, NEW s, HasSavepoint(k, s)
  PROVE  Innermost(k, s) \in 1..Len(k.savepoints)
<1>1. /\ k.savepoints \in Seq(Names)
      /\ Len(k.savepoints) \in Nat
      /\ DOMAIN k.savepoints = 1..Len(k.savepoints)
  BY LenProperties DEF Connection
<1> DEFINE T == {i \in DOMAIN k.savepoints : k.savepoints[i] = s}
<1>2. T \in SUBSET (1..Len(k.savepoints)) /\ T # {}
  BY <1>1 DEF HasSavepoint, Contains
<1>3. Max(T) \in T
  <2> HIDE DEF T
  <2> QED BY <1>1, <1>2, MaxOfIndices
<1> QED BY <1>1, <1>3 DEF Innermost
-----------------------------------------------------------------------------
\* _report_setting() changes what is owed to the client and nothing else.
LEMMA ReportType ==
  ASSUME NEW k \in Connection, NEW ns
  PROVE  /\ Report(k, ns) \in Connection
         /\ Report(k, ns) = [k EXCEPT !.owed = Report(k, ns).owed]
<1>1. [n \in Settings |-> IF n \in ns \cap Reported THEN k.now.session_vars[n]
                          ELSE k.owed[n]] \in [Settings -> Readings \cup {Nothing}]
  BY DEF Connection, Scope, Vars
<1> QED BY <1>1 DEF Report, Connection

\* _end_transaction() keeps a settled record well formed and makes its
\* subscriptions live; only the owed reports and the registry change.
LEMMA SettleType ==
  ASSUME NEW k \in Connection, NEW settled \in Connection
  PROVE  /\ Settle(k, settled) \in Connection
         /\ Settle(k, settled) = [settled EXCEPT !.owed = Settle(k, settled).owed,
                                                 !.live = settled.now.listening]
<1>1. PICK r \in Connection : r = Report(settled, Moved(k, settled))
                              /\ r = [settled EXCEPT !.owed = r.owed]
  BY ReportType
<1>2. Settle(k, settled) = [r EXCEPT !.live = r.now.listening]
  BY <1>1 DEF Settle, SyncListeners
<1> QED BY <1>1, <1>2 DEF Connection, Scope

\* Settling reports every setting that moved, so the client's cache follows.
LEMMA SettleSynced ==
  ASSUME NEW k \in Connection, NEW settled \in Connection,
         settled.owed = k.owed, NEW client \in Vars, IsSynced(k, client)
  PROVE  IsSynced(Settle(k, settled), client)
<1> DEFINE r == Report(settled, Moved(k, settled))
<1>1. r \in Connection /\ r.now = settled.now
  <2>1. r \in Connection /\ r = [settled EXCEPT !.owed = r.owed]
    BY ReportType
  <2> HIDE DEF r
  <2> QED BY <2>1 DEF Connection
<1>2. /\ Settle(k, settled).owed = r.owed
      /\ Settle(k, settled).now = r.now
  BY <1>1 DEF Settle, SyncListeners, Connection
<1>3. ASSUME NEW n \in Reported
      PROVE  Believed(Settle(k, settled), client)[n] = settled.now.session_vars[n]
  <2>1. n \in Settings
    BY ConstantsAssumption
  <2>2. Believed(Settle(k, settled), client)[n]
          = IF r.owed[n] = Nothing THEN client[n] ELSE r.owed[n]
    BY <1>2, <2>1 DEF Believed
  <2>3. CASE n \in Moved(k, settled)
    <3>1. r.owed[n] = settled.now.session_vars[n]
      BY <2>1, <2>3 DEF Report, Connection
    <3>2. settled.now.session_vars[n] \in Readings
      BY <2>1 DEF Connection, Scope, Vars
    <3> QED BY <2>2, <3>1, <3>2, ConstantsAssumption DEF Readings
  <2>4. CASE n \notin Moved(k, settled)
    <3>1. r.owed[n] = k.owed[n]
      BY <2>1, <2>4 DEF Report, Connection
    <3>2. settled.now.session_vars[n] = k.now.session_vars[n]
      BY <2>1, <2>4 DEF Moved
    <3>3. Believed(k, client)[n] = k.now.session_vars[n]
      BY DEF IsSynced
    <3> QED BY <2>1, <2>2, <3>1, <3>2, <3>3 DEF Believed
  <2> QED BY <2>3, <2>4
<1> QED BY <1>1, <1>2, <1>3 DEF IsSynced

\* Being in sync depends on the owed reports and the visible values only.
LEMMA SameSynced ==
  ASSUME NEW j, NEW k, NEW client, IsSynced(j, client),
         k.owed = j.owed, k.now.session_vars = j.now.session_vars
  PROVE  IsSynced(k, client)
<1>1. Believed(k, client) = Believed(j, client)
  BY DEF Believed
<1> QED BY <1>1 DEF IsSynced
-----------------------------------------------------------------------------
\* restore_scope() brings back a frame, or nothing, and keeps the owed reports.
LEMMA RestoreScopeType ==
  ASSUME NEW k \in Connection, NEW depth \in Nat
  PROVE  /\ RestoreScope(k, depth) \in Connection
         /\ RestoreScope(k, depth) = [k EXCEPT !.now = RestoreScope(k, depth).now,
                                               !.scopes = RestoreScope(k, depth).scopes]
         /\ depth > 0 /\ k.scopes # << >> =>
              /\ RestoreScope(k, depth).scopes # << >>
              /\ RestoreScope(k, depth).scopes[1] = k.scopes[1]
         /\ depth = 0 /\ k.scopes # << >> => RestoreScope(k, depth).now = k.scopes[1]
<1>1. k.scopes \in Seq(Scope) /\ Len(k.scopes) \in Nat
  BY LenProperties DEF Connection
<1>2. CASE depth >= Len(k.scopes)
  <2>1. RestoreScope(k, depth) = k
    BY <1>2 DEF RestoreScope
  <2>2. k.scopes # << >> => depth # 0
    BY <1>1, <1>2, EmptySeq
  <2> QED BY <2>1, <2>2 DEF Connection
<1>3. CASE ~(depth >= Len(k.scopes))
  <2>1. PICK now \in Scope : now = k.scopes[depth + 1]
    <3>1. depth + 1 \in 1..Len(k.scopes)
      BY <1>1, <1>3
    <3> QED BY <1>1, <3>1, ElementOfSeq
  <2>2. PICK below \in Seq(Scope) : below = FramesBelow(k.scopes, depth)
    BY <1>1, FramesBelowType
  <2>3. depth > 0 /\ k.scopes # << >> => below # << >> /\ below[1] = k.scopes[1]
    BY <1>1, <2>2, FramesBelowType
  <2>4. RestoreScope(k, depth) = [k EXCEPT !.now = now, !.scopes = below]
    BY <1>3, <2>1, <2>2 DEF RestoreScope
  <2>5. depth = 0 => now = k.scopes[1]
    BY <2>1
  <2> QED BY <2>3, <2>4, <2>5 DEF Connection
<1> QED BY <1>2, <1>3
-----------------------------------------------------------------------------
\* b is the state the open transaction started from, or, outside one, the
\* state itself.
Framed(k, b) ==
  IF k.tx = "I" THEN IsSettled(k) /\ b = k.now
  ELSE k.scopes # << >> /\ k.scopes[1] = b

\* A state that no transaction has touched.
Clean(b) == b.pending_notifies = << >> /\ b.session_vars = b.committed_vars

\* BEGIN keeps the type, the client in sync, and snapshots the state before it.
LEMMA BeginFacts ==
  ASSUME NEW k \in Connection, NEW b, Framed(k, b), k.tx \in {"I", "T"}
  PROVE  /\ Begin(k) \in Connection
         /\ Framed(Begin(k), b)
         /\ Begin(k).now = k.now /\ Begin(k).owed = k.owed
         /\ Begin(k).savepoints = IF k.tx = "T" THEN k.savepoints ELSE << >>
<1>1. CASE k.tx = "T"
  BY <1>1 DEF Begin
<1>2. CASE k.tx = "I"
  <2>1. PICK o \in Connection : o = OpenScope(k)
    BY OpenScopeType
  <2>2. o.scopes # << >> /\ o.scopes[1] = k.now /\ o.now = k.now /\ o.owed = k.owed
    <3>1. k.scopes = << >>
      BY <1>2 DEF Framed, IsSettled
    <3>2. o.owed = k.owed
      BY <2>1 DEF OpenScope, Connection
    <3> QED BY <2>1, <3>1, <3>2, OpenScopeType
  <2>3. Begin(k) = [o EXCEPT !.tx = "T", !.savepoints = << >>]
    BY <1>2, <2>1 DEF Begin
  <2>4. << >> \in Seq(Names)
    OBVIOUS
  <2>5. b = k.now
    BY <1>2 DEF Framed
  <2> QED BY <1>2, <2>2, <2>3, <2>4, <2>5 DEF Connection, TxStatus, Framed
<1> QED BY <1>1, <1>2

\* The connection a transaction end starts from.
Idle(k) == [k EXCEPT !.tx = "I", !.savepoints = << >>]

\* The connection with its transaction status and savepoints cleared.
LEMMA IdleType ==
  ASSUME NEW k \in Connection
  PROVE  /\ Idle(k) \in Connection
         /\ Idle(k).tx = "I" /\ Idle(k).savepoints = << >>
         /\ Idle(k).now = k.now /\ Idle(k).owed = k.owed
         /\ Idle(k).scopes = k.scopes /\ Idle(k).live = k.live
<1>1. << >> \in Seq(Names)
  OBVIOUS
<1> QED BY <1>1 DEF Idle, Connection, TxStatus

\* COMMIT leaves a settled connection, and a client in sync.
LEMMA CommitFacts ==
  ASSUME NEW k \in Connection, NEW b, Framed(k, b),
         NEW client \in Vars, IsSynced(k, client)
  PROVE  /\ Commit(k) \in Connection
         /\ Commit(k).tx = "I" /\ IsSettled(Commit(k))
         /\ IsSynced(Commit(k), client)
<1>1. CASE k.tx = "I"
  <2>1. Commit(k) = Idle(k)
    BY <1>1 DEF Commit, Idle
  <2> QED BY <1>1, <2>1, IdleType, SameSynced DEF Framed, IsSettled
<1>2. CASE k.tx # "I"
  <2>1. PICK i \in Connection : i = Idle(k)
    BY IdleType
  <2>2. i.tx = "I" /\ i.savepoints = << >> /\ i.now = k.now /\ i.owed = k.owed
    BY <2>1, IdleType
  <2>3. PICK c \in Connection : c = TakePendingNotifies(CommitTransaction(i))
    <3>1. << >> \in Seq(Scope) /\ << >> \in Seq(Events)
      OBVIOUS
    <3> QED BY <3>1 DEF TakePendingNotifies, CommitTransaction, Connection, Scope
  <2>4. /\ c.tx = "I" /\ c.savepoints = << >> /\ c.scopes = << >> /\ c.owed = i.owed
        /\ c.now.pending_notifies = << >>
        /\ c.now.session_vars = c.now.committed_vars
    BY <2>2, <2>3 DEF TakePendingNotifies, CommitTransaction, Connection, Scope
  <2>5. Commit(k) = Settle(i, c)
    BY <1>2, <2>1, <2>3 DEF Commit, Idle
  <2>6. PICK r \in Connection : r = Settle(i, c)
    BY SettleType
  <2>7. r = [c EXCEPT !.owed = r.owed, !.live = c.now.listening]
    BY <2>6, SettleType
  <2>8. r.tx = "I" /\ IsSettled(r)
    BY <2>4, <2>7 DEF Connection, IsSettled
  <2>9. IsSynced(i, client)
    BY <2>2, SameSynced
  <2>10. IsSynced(r, client)
    BY <2>4, <2>6, <2>9, SettleSynced
  <2> QED BY <2>5, <2>6, <2>8, <2>10
<1> QED BY <1>1, <1>2

\* ROLLBACK leaves the state before BEGIN, settled, and a client in sync.
LEMMA RollbackFacts ==
  ASSUME NEW k \in Connection, NEW b, Framed(k, b), Clean(b),
         NEW client \in Vars, IsSynced(k, client)
  PROVE  /\ Rollback(k) \in Connection
         /\ Rollback(k).tx = "I" /\ IsSettled(Rollback(k))
         /\ Rollback(k).now = b
         /\ IsSynced(Rollback(k), client)
<1>1. CASE k.tx = "I"
  <2>1. Rollback(k) = Idle(k)
    BY <1>1 DEF Rollback, Idle
  <2> QED BY <1>1, <2>1, IdleType, SameSynced DEF Framed, IsSettled
<1>2. CASE k.tx # "I"
  <2>1. PICK i \in Connection : i = Idle(k)
    BY IdleType
  <2>2. /\ i.tx = "I" /\ i.savepoints = << >> /\ i.now = k.now /\ i.owed = k.owed
        /\ i.scopes # << >> /\ i.scopes[1] = b
    BY <1>2, <2>1, IdleType DEF Framed
  <2>3. PICK t \in Connection : t = RestoreScope(i, 0)
    BY RestoreScopeType
  <2>4. /\ t = [i EXCEPT !.now = t.now, !.scopes = t.scopes]
        /\ t.now = b
    BY <2>2, <2>3, RestoreScopeType
  <2>5. PICK c \in Connection : c = EndTransaction(i)
    <3>1. << >> \in Seq(Scope)
      OBVIOUS
    <3> QED BY <2>3, <3>1 DEF EndTransaction, Connection
  <2>6. /\ c.tx = "I" /\ c.savepoints = << >> /\ c.scopes = << >> /\ c.owed = i.owed
        /\ c.now = b
    BY <2>2, <2>3, <2>4, <2>5 DEF EndTransaction, Connection
  <2>7. Rollback(k) = Settle(i, c)
    BY <1>2, <2>1, <2>5 DEF Rollback, Idle
  <2>8. PICK r \in Connection : r = Settle(i, c)
    BY SettleType
  <2>9. r = [c EXCEPT !.owed = r.owed, !.live = c.now.listening]
    BY <2>8, SettleType
  <2>10. r.tx = "I" /\ r.now = b /\ IsSettled(r)
    BY <2>6, <2>9 DEF Connection, IsSettled, Clean
  <2>11. IsSynced(i, client)
    BY <2>2, SameSynced
  <2>12. IsSynced(r, client)
    BY <2>6, <2>8, <2>11, SettleSynced
  <2> QED BY <2>7, <2>8, <2>10, <2>12
<1> QED BY <1>1, <1>2
-----------------------------------------------------------------------------
\* The stack of savepoints, cut at or grown by one name.
LEMMA StackCut ==
  ASSUME NEW k \in Connection, NEW n \in Nat, n <= Len(k.savepoints)
  PROVE  /\ [k EXCEPT !.savepoints = SubSeq(k.savepoints, 1, n)] \in Connection
         /\ Len(SubSeq(k.savepoints, 1, n)) = n
<1>1. k.savepoints \in Seq(Names)
  BY DEF Connection
<1>2. PICK p \in Seq(Names) : p = SubSeq(k.savepoints, 1, n)
  BY <1>1, PrefixType
<1>3. Len(p) = n
  BY <1>1, <1>2
<1>4. [k EXCEPT !.savepoints = p] \in Connection
  BY DEF Connection
<1> QED BY <1>2, <1>3, <1>4

\* SAVEPOINT keeps the transaction's frame.
LEMMA SavepointFacts ==
  ASSUME NEW k \in Connection, NEW s \in Names, NEW b, k.tx # "I", Framed(k, b)
  PROVE  /\ Savepoint(k, s) \in Connection
         /\ Savepoint(k, s).tx = k.tx /\ Framed(Savepoint(k, s), b)
         /\ Savepoint(k, s).now = k.now /\ Savepoint(k, s).owed = k.owed
         /\ Len(Savepoint(k, s).savepoints) = Len(k.savepoints) + 1
<1>1. k.savepoints \in Seq(Names)
  BY DEF Connection
<1>2. PICK p \in Seq(Names) : p = Append(k.savepoints, s)
  BY <1>1, AppendKeepsFirst
<1>3. Len(p) = Len(k.savepoints) + 1
  BY <1>1, <1>2, AppendKeepsFirst
<1>4. PICK j \in Connection : j = [k EXCEPT !.savepoints = p]
  BY DEF Connection
<1>5. /\ j.tx = k.tx /\ j.now = k.now /\ j.owed = k.owed /\ j.scopes = k.scopes
      /\ j.savepoints = p
  BY <1>4 DEF Connection
<1>6. Savepoint(k, s) = OpenScope(j)
  BY <1>2, <1>4 DEF Savepoint
<1>7. PICK o \in Connection : o = OpenScope(j)
  BY OpenScopeType
<1>8. o.scopes # << >> /\ o.scopes[1] = b
  BY <1>5, <1>7, OpenScopeType DEF Framed
<1>9. o.tx = k.tx /\ o.now = k.now /\ o.owed = k.owed /\ o.savepoints = p
  BY <1>5, <1>7 DEF OpenScope, Connection
<1> QED BY <1>3, <1>6, <1>7, <1>8, <1>9 DEF Framed

\* RELEASE drops no more than the savepoints' own frames.
LEMMA ReleaseFacts ==
  ASSUME NEW k \in Connection, NEW s \in Names, NEW b, k.tx # "I", Framed(k, b),
         HasSavepoint(k, s)
  PROVE  /\ Release(k, s) \in Connection
         /\ Release(k, s).tx = k.tx /\ Framed(Release(k, s), b)
         /\ Release(k, s).now = k.now /\ Release(k, s).owed = k.owed
         /\ Len(Release(k, s).savepoints) = Innermost(k, s) - 1
<1>1. PICK i \in 1..Len(k.savepoints) : i = Innermost(k, s)
  BY InnermostIndex
<1>2. i - 1 \in Nat /\ i - 1 <= Len(k.savepoints) /\ i \in Nat /\ i > 0
  <2>1. Len(k.savepoints) \in Nat
    BY LenProperties DEF Connection
  <2> QED BY <1>1, <2>1
<1>3. PICK j \in Connection : j = [k EXCEPT !.savepoints = SubSeq(k.savepoints, 1, i - 1)]
  BY <1>2, StackCut
<1>4. /\ j.tx = k.tx /\ j.now = k.now /\ j.owed = k.owed /\ j.scopes = k.scopes
      /\ Len(j.savepoints) = i - 1
  BY <1>2, <1>3, StackCut DEF Connection
<1>5. Release(k, s) = [j EXCEPT !.scopes = FramesBelow(j.scopes, i)]
  BY <1>1, <1>3 DEF Release, DiscardScopes
<1>6. j.scopes \in Seq(Scope) /\ j.scopes # << >> /\ j.scopes[1] = b
  BY <1>4 DEF Connection, Framed
<1>7. PICK f \in Seq(Scope) : f = FramesBelow(j.scopes, i)
  BY <1>2, <1>6, FramesBelowType
<1>8. f # << >> /\ f[1] = b
  BY <1>2, <1>6, <1>7, FramesBelowType
<1>9. Release(k, s) = [j EXCEPT !.scopes = f]
  BY <1>5, <1>7
<1> QED BY <1>1, <1>4, <1>8, <1>9 DEF Connection, Framed

\* ROLLBACK TO keeps the transaction's frame, whatever frames it finds.
LEMMA RollbackToFacts ==
  ASSUME NEW k \in Connection, NEW s \in Names, NEW b, k.tx # "I", Framed(k, b),
         HasSavepoint(k, s), NEW client \in Vars, IsSynced(k, client)
  PROVE  /\ RollbackTo(k, s) \in Connection
         /\ RollbackTo(k, s).tx = "T" /\ Framed(RollbackTo(k, s), b)
         /\ IsSynced(RollbackTo(k, s), client)
         /\ Len(RollbackTo(k, s).savepoints) = Innermost(k, s)
<1>1. PICK i \in 1..Len(k.savepoints) : i = Innermost(k, s)
  BY InnermostIndex
<1>2. i \in Nat /\ i > 0 /\ i <= Len(k.savepoints)
  <2>1. Len(k.savepoints) \in Nat
    BY LenProperties DEF Connection
  <2> QED BY <1>1, <2>1
<1>3. PICK j \in Connection : j = [k EXCEPT !.savepoints = SubSeq(k.savepoints, 1, i)]
  BY <1>2, StackCut
<1>4. /\ j.owed = k.owed /\ j.scopes # << >> /\ j.scopes[1] = b
      /\ Len(j.savepoints) = i
  BY <1>2, <1>3, StackCut DEF Connection, Framed
<1>5. PICK t \in Connection : t = RestoreScope(j, i)
  BY <1>2, RestoreScopeType
<1>6. t = [j EXCEPT !.now = t.now, !.scopes = t.scopes]
  BY <1>2, <1>5, RestoreScopeType
<1>7. t.scopes # << >> /\ t.scopes[1] = b
  BY <1>2, <1>4, <1>5, RestoreScopeType
<1>8. t.owed = k.owed /\ Len(t.savepoints) = i
  BY <1>4, <1>6 DEF Connection
<1>9. PICK r \in Connection : r = Settle(k, t)
  BY SettleType
<1>10. r = [t EXCEPT !.owed = r.owed, !.live = t.now.listening]
  BY <1>9, SettleType
<1>11. r.scopes # << >> /\ r.scopes[1] = b /\ Len(r.savepoints) = i
  BY <1>7, <1>8, <1>10 DEF Connection
<1>12. IsSynced(r, client)
  BY <1>8, <1>9, SettleSynced
<1>13. RollbackTo(k, s) = [r EXCEPT !.tx = "T"]
  BY <1>1, <1>3, <1>5, <1>9 DEF RollbackTo
<1>14. PICK q \in Connection : q = [r EXCEPT !.tx = "T"]
  BY DEF Connection, TxStatus
<1>15. /\ q.tx = "T" /\ q.scopes = r.scopes /\ q.savepoints = r.savepoints
       /\ q.owed = r.owed /\ q.now = r.now
  BY <1>14 DEF Connection
<1>16. IsSynced(q, client)
  BY <1>12, <1>15, SameSynced
<1> QED BY <1>1, <1>11, <1>13, <1>14, <1>15, <1>16 DEF Framed
-----------------------------------------------------------------------------
\* _record_setting() writes the named settings of the visible state and
\* nothing else of the connection but the names it knows.
LEMMA RecordFacts ==
  ASSUME NEW k \in Connection, NEW ns \in SUBSET Settings, NEW v \in Readings,
         NEW local, NEW r, r = Record(k, ns, v, local)
  PROVE  /\ r \in Connection
         /\ r.tx = k.tx /\ r.scopes = k.scopes /\ r.savepoints = k.savepoints
         /\ r.live = k.live /\ r.owed = k.owed
         /\ r.now.listening = k.now.listening
         /\ r.now.pending_notifies = k.now.pending_notifies
         /\ \A n \in Settings \ ns : r.now.session_vars[n] = k.now.session_vars[n]
<1> DEFINE Write(vars) == [n \in Settings |-> IF n \in ns THEN v ELSE vars[n]]
           sv == Write(k.now.session_vars)
           cv == IF local THEN k.now.committed_vars ELSE Write(k.now.committed_vars)
<1>1. sv \in Vars /\ cv \in Vars
  BY DEF Connection, Scope, Vars
<1>2. \A n \in Settings \ ns : sv[n] = k.now.session_vars[n]
  OBVIOUS
<1>4. PICK now \in Scope :
        now = [k.now EXCEPT !.session_vars = sv, !.committed_vars = cv]
  <2> HIDE DEF sv, cv
  <2> QED BY <1>1 DEF Connection, Scope
<1>5. r = [k EXCEPT !.now = now, !.known = k.known \cup ns]
  BY <1>4 DEF Record
<1> HIDE DEF sv, cv
<1>6. /\ now.listening = k.now.listening
      /\ now.pending_notifies = k.now.pending_notifies
      /\ now.session_vars = sv /\ now.committed_vars = cv
  BY <1>1, <1>4 DEF Connection, Scope
<1>7. /\ r \in Connection
      /\ r.now = now
      /\ r.tx = k.tx /\ r.scopes = k.scopes /\ r.savepoints = k.savepoints
      /\ r.live = k.live /\ r.owed = k.owed
  BY <1>4, <1>5 DEF Connection
<1> QED BY <1>2, <1>6, <1>7

\* A write that is not local keeps the two dictionaries equal.
LEMMA RecordSettled ==
  ASSUME NEW k \in Connection, NEW ns \in SUBSET Settings, NEW v \in Readings,
         IsSettled(k), NEW r, r = Record(k, ns, v, FALSE)
  PROVE  IsSettled(r)
<1> DEFINE Write(vars) == [n \in Settings |-> IF n \in ns THEN v ELSE vars[n]]
           sv == Write(k.now.session_vars)
<1>1. k.now.session_vars = k.now.committed_vars
  BY DEF IsSettled
<1>2. sv = Write(k.now.committed_vars)
  BY <1>1
<1>3. PICK now : now = [k.now EXCEPT !.session_vars = sv, !.committed_vars = sv]
  OBVIOUS
<1>4. r = [k EXCEPT !.now = now, !.known = k.known \cup ns]
  BY <1>2, <1>3 DEF Record
<1> HIDE DEF sv
<1>5. /\ now.listening = k.now.listening
      /\ now.pending_notifies = k.now.pending_notifies
      /\ now.session_vars = now.committed_vars
  BY <1>3 DEF Connection, Scope
<1> QED BY <1>4, <1>5 DEF Connection, IsSettled

\* _report_setting for ns restores agreement when only ns was written.
LEMMA ReportSynced ==
  ASSUME NEW j \in Connection, NEW k \in Connection, NEW ns \in SUBSET Settings,
         NEW client \in Vars, IsSynced(j, client), k.owed = j.owed,
         \A n \in Settings \ ns : k.now.session_vars[n] = j.now.session_vars[n]
  PROVE  IsSynced(Report(k, ns), client)
<1> DEFINE r == Report(k, ns)
<1>1. r.now = k.now
  BY DEF Report, Connection
<1>2. ASSUME NEW n \in Reported
      PROVE  Believed(r, client)[n] = k.now.session_vars[n]
  <2>1. n \in Settings
    BY ConstantsAssumption
  <2>2. Believed(r, client)[n] = IF r.owed[n] = Nothing THEN client[n] ELSE r.owed[n]
    BY <2>1 DEF Believed
  <2>3. CASE n \in ns
    <3>1. r.owed[n] = k.now.session_vars[n]
      BY <2>1, <2>3 DEF Report, Connection
    <3>2. k.now.session_vars[n] \in Readings
      BY <2>1 DEF Connection, Scope, Vars
    <3> QED BY <2>2, <3>1, <3>2, ConstantsAssumption DEF Readings
  <2>4. CASE n \notin ns
    <3>1. r.owed[n] = j.owed[n]
      BY <2>1, <2>4 DEF Report, Connection
    <3>2. k.now.session_vars[n] = j.now.session_vars[n]
      BY <2>1, <2>4
    <3>3. Believed(j, client)[n] = j.now.session_vars[n]
      BY DEF IsSynced
    <3> QED BY <2>1, <2>2, <3>1, <3>2, <3>3 DEF Believed
  <2> QED BY <2>3, <2>4
<1> QED BY <1>1, <1>2 DEF IsSynced

\* Two connections that differ in what they hold and not in where they stand.
SameControl(k, a) ==
  a.tx = k.tx /\ a.scopes = k.scopes /\ a.savepoints = k.savepoints /\ a.live = k.live

\* An assignment, applied to the end or refused halfway, keeps the control
\* state, and reports what it changed.
LEMMA AssignFacts ==
  ASSUME NEW k \in Connection, NEW done \in SUBSET Settings,
         NEW refused \in SUBSET Settings, NEW v \in Readings, NEW local,
         NEW a, a = Assign(k, done, refused, v, local)
  PROVE  /\ a \in Connection
         /\ SameControl(k, a)
         /\ \A client \in Vars : IsSynced(k, client) => IsSynced(a, client)
<1>1. PICK r : r = Record(k, done, v, local)
  OBVIOUS
<1>2. /\ r \in Connection
      /\ r.tx = k.tx /\ r.scopes = k.scopes /\ r.savepoints = k.savepoints
      /\ r.live = k.live /\ r.owed = k.owed
      /\ r.now.listening = k.now.listening
      /\ r.now.pending_notifies = k.now.pending_notifies
      /\ \A n \in Settings \ done : r.now.session_vars[n] = k.now.session_vars[n]
  BY <1>1, RecordFacts
<1>3. PICK p \in Connection : p = Report(r, done)
  BY <1>2, ReportType
<1>4. p = [r EXCEPT !.owed = p.owed]
  BY <1>2, <1>3, ReportType
<1>5. a = Report(p, refused)
  BY <1>1, <1>3 DEF Assign
<1>6. a \in Connection /\ a = [p EXCEPT !.owed = a.owed]
  BY <1>5, ReportType
<1>7. SameControl(k, a)
  BY <1>2, <1>4, <1>6 DEF Connection, SameControl
<1>8. ASSUME NEW client \in Vars, IsSynced(k, client)
      PROVE  IsSynced(a, client)
  <2>1. IsSynced(p, client)
    BY <1>2, <1>3, <1>8, ReportSynced
  <2> QED BY <1>5, <2>1, ReportSynced
<1> QED BY <1>6, <1>7, <1>8

\* A session-scoped SET leaves a settled connection settled: it writes both
\* dictionaries alike.
LEMMA AssignSettled ==
  ASSUME NEW k \in Connection, NEW done \in SUBSET Settings,
         NEW refused \in SUBSET Settings, NEW v \in Readings, IsSettled(k),
         NEW a, a = Assign(k, done, refused, v, FALSE)
  PROVE  IsSettled(a)
<1>1. PICK r : r = Record(k, done, v, FALSE)
  OBVIOUS
<1>2. r \in Connection /\ IsSettled(r)
  BY <1>1, RecordFacts, RecordSettled
<1>3. PICK p \in Connection : p = Report(r, done) /\ p = [r EXCEPT !.owed = p.owed]
  BY <1>2, ReportType
<1>4. a = Report(p, refused)
  BY <1>1, <1>3 DEF Assign
<1>5. a = [p EXCEPT !.owed = a.owed]
  BY <1>4, ReportType
<1> QED BY <1>2, <1>3, <1>5 DEF Connection, IsSettled

\* DISCARD ALL leaves an empty, settled connection and a client in sync.
LEMMA DiscardAllFacts ==
  ASSUME NEW k \in Connection, k.tx = "I", IsSettled(k),
         NEW client \in Vars, IsSynced(k, client)
  PROVE  /\ DiscardAll(k) \in Connection
         /\ DiscardAll(k).tx = "I" /\ IsSettled(DiscardAll(k))
         /\ IsSynced(DiscardAll(k), client)
<1>1. Overridden(k) \in SUBSET Settings /\ Unset \in Readings
  BY DEF Overridden, Readings
<1>2. PICK a : a = ResetAll(k)
  OBVIOUS
<1>3. a \in Connection /\ a.tx = "I" /\ IsSynced(a, client)
  <2>1. PICK none \in SUBSET Settings : none = {}
    OBVIOUS
  <2>2. PICK local : a = Assign(k, Overridden(k), none, Unset, local)
    BY <1>2, <2>1 DEF ResetAll
  <2>3. a \in Connection /\ SameControl(k, a) /\ IsSynced(a, client)
    BY <1>1, <2>1, <2>2, AssignFacts
  <2> QED BY <2>3 DEF SameControl
<1>4. a.now.session_vars = NoVars
  <2>1. a.now.session_vars = [n \in Settings |->
           IF n \in Overridden(k) THEN Unset ELSE k.now.session_vars[n]]
    BY <1>2 DEF ResetAll, Assign, Report, Record, Connection, Scope
  <2> QED BY <2>1 DEF Overridden, NoVars
<1>5. EmptyScope \in Scope
  BY DEF EmptyScope, Scope, NoVars, Vars, Readings
<1>6. PICK d \in Connection : d = DiscardAll(k)
  <2>1. << >> \in Seq(Scope) /\ << >> \in Seq(Names)
    OBVIOUS
  <2>2. EmptyScope.listening \in SUBSET Channels
    BY DEF EmptyScope
  <2> QED BY <1>2, <1>3, <1>5, <2>1, <2>2 DEF DiscardAll, Reset, SyncListeners, Connection
<1>7. /\ d.tx = "I" /\ d.scopes = << >> /\ d.savepoints = << >>
      /\ d.now = EmptyScope /\ d.live = EmptyScope.listening /\ d.owed = a.owed
  BY <1>2, <1>3, <1>6 DEF DiscardAll, Reset, SyncListeners, Connection
<1>8. IsSettled(d)
  BY <1>7 DEF IsSettled, EmptyScope
<1>9. d.now.session_vars = a.now.session_vars
  BY <1>4, <1>7 DEF EmptyScope
<1>10. IsSynced(d, client)
  BY <1>3, <1>7, <1>9, SameSynced
<1> QED BY <1>6, <1>7, <1>8, <1>10
-----------------------------------------------------------------------------
\* LISTEN and UNLISTEN: whatever set of channels they leave.
LEMMA ListeningFacts ==
  ASSUME NEW k \in Connection, NEW chs \in SUBSET Channels, NEW l,
         l = Subscribe(k, chs)
  PROVE  /\ l \in Connection
         /\ l.tx = k.tx /\ l.scopes = k.scopes /\ l.savepoints = k.savepoints
         /\ IsSettled(k) /\ k.tx = "I" => IsSettled(l)
         /\ l.owed = k.owed /\ l.now.session_vars = k.now.session_vars
<1>1. PICK j \in Connection : j = [k EXCEPT !.now.listening = chs]
  BY DEF Connection, Scope
<1>2. /\ j.tx = k.tx /\ j.scopes = k.scopes /\ j.savepoints = k.savepoints
      /\ j.owed = k.owed /\ j.now.session_vars = k.now.session_vars
      /\ j.now.committed_vars = k.now.committed_vars
      /\ j.now.pending_notifies = k.now.pending_notifies
  BY <1>1 DEF Connection, Scope
<1>3. CASE k.tx = "I"
  <2>1. l = [j EXCEPT !.live = j.now.listening]
    BY <1>1, <1>2, <1>3 DEF Subscribe, SyncedIfIdle, SyncListeners
  <2> QED BY <1>2, <2>1 DEF Connection, Scope, IsSettled
<1>4. CASE k.tx # "I"
  <2>1. l = j
    BY <1>1, <1>2, <1>4 DEF Subscribe, SyncedIfIdle
  <2> QED BY <1>2, <1>4, <2>1
<1> QED BY <1>3, <1>4

\* NOTIFY: deferred in a transaction, and nothing kept outside one.
LEMMA NotifyFacts ==
  ASSUME NEW k \in Connection, NEW e \in Events
  PROVE  /\ Notify(k, e) \in Connection
         /\ k.tx = "I" => Notify(k, e) = k
         /\ Notify(k, e).tx = k.tx /\ Notify(k, e).scopes = k.scopes
         /\ Notify(k, e).savepoints = k.savepoints
         /\ Notify(k, e).owed = k.owed
         /\ Notify(k, e).now.session_vars = k.now.session_vars
<1>1. CASE k.tx = "I"
  BY <1>1 DEF Notify
<1>2. CASE k.tx # "I"
  <2>1. k.now.pending_notifies \in Seq(Events)
    BY DEF Connection, Scope
  <2>2. PICK q \in Seq(Events) :
          q = IF Contains(k.now.pending_notifies, e) THEN k.now.pending_notifies
              ELSE Append(k.now.pending_notifies, e)
    BY <2>1, AppendKeepsFirst
  <2>3. Notify(k, e) = [k EXCEPT !.now.pending_notifies = q]
    BY <1>2, <2>2 DEF Notify, Defer
  <2> QED BY <1>2, <2>3 DEF Connection, Scope
<1> QED BY <1>1, <1>2

\* A failure changes the status of an open transaction and nothing else.
LEMMA FailFacts ==
  ASSUME NEW k \in Connection
  PROVE  /\ Fail(k) \in Connection
         /\ Fail(k) = [k EXCEPT !.tx = Fail(k).tx]
         /\ Fail(k).tx = "I" <=> k.tx = "I"
  BY DEF Fail, Connection, TxStatus
=============================================================================
