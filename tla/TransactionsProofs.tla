------------------------- MODULE TransactionsProofs -------------------------
(***************************************************************************)
(* The invariants of Transactions, proved for any settings, values,        *)
(* channels, payloads and savepoint names, any bounds, and a client that   *)
(* uses savepoints in any order (PairedRollback TRUE or FALSE).            *)
(*                                                                         *)
(* The inductive invariant is Inv.  ROLLBACK restores frame 0, so that a   *)
(* settled state after it needs a settled state before BEGIN (BaseSettled) *)
(* in the frame that is still there (BaseFrame); ROLLBACK TO and RELEASE   *)
(* cut the frames at the index of a name in the stack of savepoints, and   *)
(* never below frame 0.                                                    *)
(***************************************************************************)
EXTENDS Transactions, SessionProofs

\* The invariant, as facts about the connection and about the log.
Good(k, b, cl) ==
  /\ k \in Connection /\ b \in Scope /\ cl \in Vars
  /\ Framed(k, b) /\ Clean(b) /\ IsSynced(k, cl)
Marked(lg, mk, depth) ==
  /\ lg \in Seq(Writes) /\ mk \in Seq(Nat)
  /\ Len(mk) = depth
  /\ \A i \in 1..Len(mk) : mk[i] <= Len(lg)
  /\ \A i, j \in 1..Len(mk) : i <= j => mk[i] <= mk[j]

\* The invariant, taken apart into what the lemmas below speak of.
LEMMA InvParts ==
  Inv <=> /\ Good(conn, base, client)
          /\ Marked(log, marks, Len(conn.savepoints))
          /\ cmd \in {"ready", "running", "skipping"}
          /\ undone \in BOOLEAN
  BY DEF Inv, TypeOK, Settled, BaseFrame, BaseSettled, ClientInSync, MarksAgree,
         Good, Marked, Framed, Clean

\* The parts, in the next state, give the invariant back.
LEMMA InvPartsNext ==
  Inv' <=> /\ Good(conn', base', client')
           /\ Marked(log', marks', Len(conn'.savepoints))
           /\ cmd' \in {"ready", "running", "skipping"}
           /\ undone' \in BOOLEAN
  BY DEF Inv, TypeOK, Settled, BaseFrame, BaseSettled, ClientInSync, MarksAgree,
         Good, Marked, Framed, Clean

\* Cutting the log at a mark, and the marks at the same savepoint.
LEMMA CutMarks ==
  ASSUME NEW lg, NEW mk, NEW depth \in Nat, Marked(lg, mk, depth), NEW i \in 1..depth
  PROVE  /\ Marked(SubSeq(lg, 1, mk[i]), SubSeq(mk, 1, i), i)
         /\ Marked(lg, SubSeq(mk, 1, i - 1), i - 1)
<1>1. lg \in Seq(Writes) /\ mk \in Seq(Nat) /\ Len(mk) = depth /\ Len(lg) \in Nat
  BY LenProperties DEF Marked
<1>2. mk[i] \in Nat /\ mk[i] <= Len(lg) /\ i \in Nat /\ i - 1 \in Nat
  BY <1>1, ElementOfSeq DEF Marked
<1>3. SubSeq(lg, 1, mk[i]) \in Seq(Writes) /\ Len(SubSeq(lg, 1, mk[i])) = mk[i]
  BY <1>1, <1>2, PrefixType
<1>4. /\ SubSeq(mk, 1, i) \in Seq(Nat) /\ Len(SubSeq(mk, 1, i)) = i
      /\ SubSeq(mk, 1, i - 1) \in Seq(Nat) /\ Len(SubSeq(mk, 1, i - 1)) = i - 1
      /\ \A j \in 1..i : SubSeq(mk, 1, i)[j] = mk[j]
      /\ \A j \in 1..(i - 1) : SubSeq(mk, 1, i - 1)[j] = mk[j]
  BY <1>1, <1>2, PrefixType
<1>5. /\ \A j \in 1..i : mk[j] <= mk[i]
      /\ \A j \in 1..depth : mk[j] <= Len(lg)
      /\ \A j, k \in 1..depth : j <= k => mk[j] <= mk[k]
  BY <1>1 DEF Marked
<1>6. Marked(SubSeq(lg, 1, mk[i]), SubSeq(mk, 1, i), i)
  BY <1>2, <1>3, <1>4, <1>5 DEF Marked
<1>7. Marked(lg, SubSeq(mk, 1, i - 1), i - 1)
  BY <1>1, <1>2, <1>4, <1>5 DEF Marked
<1> QED BY <1>6, <1>7

\* A savepoint's mark is the end of the log.
LEMMA AddMark ==
  ASSUME NEW lg, NEW mk, NEW depth \in Nat, Marked(lg, mk, depth)
  PROVE  Marked(lg, Append(mk, Len(lg)), depth + 1)
<1>1. lg \in Seq(Writes) /\ mk \in Seq(Nat) /\ Len(mk) = depth /\ Len(lg) \in Nat
  BY LenProperties DEF Marked
<1>2. /\ Append(mk, Len(lg)) \in Seq(Nat) /\ Len(Append(mk, Len(lg))) = depth + 1
      /\ \A j \in 1..depth : Append(mk, Len(lg))[j] = mk[j]
      /\ Append(mk, Len(lg))[depth + 1] = Len(lg)
  BY <1>1
<1>3. \A j \in 1..(depth + 1) : j \in 1..depth \/ j = depth + 1
  OBVIOUS
<1> QED BY <1>1, <1>2, <1>3 DEF Marked

\* A longer log keeps its marks.
LEMMA ExtendLog ==
  ASSUME NEW lg, NEW mk, NEW depth, Marked(lg, mk, depth), NEW w \in Seq(Writes)
  PROVE  Marked(lg \o w, mk, depth)
<1>1. lg \in Seq(Writes) /\ mk \in Seq(Nat) /\ Len(lg) \in Nat /\ Len(w) \in Nat
  BY LenProperties DEF Marked
<1>2. lg \o w \in Seq(Writes) /\ Len(lg \o w) = Len(lg) + Len(w)
  BY <1>1
<1>3. \A i \in 1..Len(mk) : mk[i] \in Nat
  BY <1>1, ElementOfSeq
<1> QED BY <1>1, <1>2, <1>3 DEF Marked
-----------------------------------------------------------------------------
\* The arrival of a command preserves the invariant.
LEMMA ReceiveCommandInv == Inv /\ ReceiveCommand => Inv'
  BY InvParts, InvPartsNext DEF ReceiveCommand, history

\* Flushing the owed reports and answering ReadyForQuery preserves the invariant.
LEMMA ReadyForQueryInv == Inv /\ ReadyForQuery => Inv'
<1> SUFFICES ASSUME Inv, ReadyForQuery
             PROVE  Inv'
  OBVIOUS
<1> USE InvParts
<1>1. /\ Good(conn, base, client) /\ Marked(log, marks, Len(conn.savepoints))
      /\ client' = Believed(conn, client)
      /\ conn' = [conn EXCEPT !.owed = NothingOwed]
      /\ cmd' = "ready" /\ UNCHANGED << base, log, marks, undone >>
      /\ undone \in BOOLEAN
  BY DEF ReadyForQuery, history
<1>2. conn \in Connection /\ client \in Vars
  BY <1>1 DEF Good
<1>3. client' \in Vars
  BY <1>1, <1>2, ConstantsAssumption DEF Believed, Connection, Vars
<1>4. NothingOwed \in [Settings -> Readings \cup {Nothing}]
  BY DEF NothingOwed
<1>5. /\ conn' \in Connection
      /\ conn'.tx = conn.tx /\ conn'.now = conn.now /\ conn'.scopes = conn.scopes
      /\ conn'.savepoints = conn.savepoints /\ conn'.live = conn.live
      /\ conn'.owed = NothingOwed
  BY <1>1, <1>2, <1>4 DEF Connection
<1>6. Framed(conn', base')
  BY <1>1, <1>5 DEF Good, Framed, IsSettled
<1>7. IsSynced(conn', client')
  <2>1. \A n \in Settings : Believed(conn', client')[n] = client'[n]
    BY <1>5 DEF Believed, NothingOwed
  <2>2. IsSynced(conn, client)
    BY <1>1 DEF Good
  <2> QED BY <1>1, <1>5, <2>1, <2>2, ConstantsAssumption DEF IsSynced
<1>8. Good(conn', base', client')
  BY <1>1, <1>3, <1>5, <1>6, <1>7 DEF Good
<1> QED BY <1>1, <1>5, <1>8, InvPartsNext

\* A statement that raises or is cancelled preserves the invariant.
LEMMA StatementFailsInv == Inv /\ StatementFails => Inv'
<1> SUFFICES ASSUME Inv, StatementFails
             PROVE  Inv'
  OBVIOUS
<1>1. /\ Good(conn, base, client) /\ Marked(log, marks, Len(conn.savepoints))
      /\ conn' = Fail(conn)
      /\ cmd' = "skipping" /\ UNCHANGED << client, base, log, marks, undone >>
      /\ undone \in BOOLEAN
  BY InvParts DEF StatementFails, history
<1>2. /\ conn' \in Connection /\ conn' = [conn EXCEPT !.tx = conn'.tx]
      /\ conn'.tx = "I" <=> conn.tx = "I"
      /\ conn \in Connection
  BY <1>1, FailFacts DEF Good
<1>3. /\ conn'.now = conn.now /\ conn'.scopes = conn.scopes
      /\ conn'.savepoints = conn.savepoints /\ conn'.live = conn.live
      /\ conn'.owed = conn.owed
  BY <1>2 DEF Connection
<1>4. Framed(conn', base)
  BY <1>1, <1>2, <1>3 DEF Good, Framed, IsSettled
<1>5. IsSynced(conn', client)
  BY <1>1, <1>3, SameSynced DEF Good
<1>6. Good(conn', base', client')
  BY <1>1, <1>2, <1>4, <1>5 DEF Good
<1> QED BY <1>1, <1>3, <1>6, InvPartsNext
-----------------------------------------------------------------------------
\* BEGIN preserves the invariant.
LEMMA BeginInv == Inv /\ BeginStatement => Inv'
<1> SUFFICES ASSUME Inv, BeginStatement
             PROVE  Inv'
  OBVIOUS
<1>1. /\ Good(conn, base, client) /\ Marked(log, marks, Len(conn.savepoints))
      /\ cmd = "running" /\ Runs(conn, "BEGIN")
      /\ conn' = Begin(conn)
      /\ UNCHANGED << cmd, client, base, log, marks, undone >>
      /\ undone \in BOOLEAN
  BY InvParts DEF BeginStatement, Executing, history
<1>2. conn.tx \in {"I", "T"}
  BY <1>1 DEF Good, Connection, TxStatus, Runs
<1>3. /\ conn' \in Connection /\ Framed(conn', base)
      /\ conn'.now = conn.now /\ conn'.owed = conn.owed
      /\ conn'.savepoints = IF conn.tx = "T" THEN conn.savepoints ELSE << >>
  BY <1>1, <1>2, BeginFacts DEF Good
<1>4. conn'.savepoints = conn.savepoints
  BY <1>1, <1>2, <1>3 DEF Good, Framed, IsSettled
<1>5. IsSynced(conn', client)
  BY <1>1, <1>3, SameSynced DEF Good
<1>6. Good(conn', base', client')
  BY <1>1, <1>3, <1>5 DEF Good
<1> QED BY <1>1, <1>4, <1>6, InvPartsNext

\* A settled connection and an empty log satisfy the invariant.
LEMMA SettledInv ==
  ASSUME Inv, conn' \in Connection, conn'.tx = "I", IsSettled(conn'),
         IsSynced(conn', client), EndsTransaction, UNCHANGED << cmd, client >>
  PROVE  Inv'
<1>1. Good(conn, base, client) /\ cmd \in {"ready", "running", "skipping"}
  BY InvParts
<1>2. base' = conn'.now /\ log' = << >> /\ marks' = << >> /\ undone' = FALSE
  BY DEF EndsTransaction
<1>3. base' \in Scope
  BY <1>2 DEF Connection
<1>4. Framed(conn', base') /\ Clean(base')
  BY <1>2 DEF Framed, Clean, IsSettled
<1>5. Good(conn', base', client')
  BY <1>1, <1>3, <1>4 DEF Good
<1>6. conn'.savepoints = << >>
  BY DEF IsSettled
<1>7. Marked(log', marks', Len(conn'.savepoints))
  BY <1>2, <1>6 DEF Marked
<1> QED BY <1>1, <1>2, <1>5, <1>7, InvPartsNext

\* COMMIT preserves the invariant.
LEMMA CommitInv == Inv /\ CommitStatement => Inv'
<1> SUFFICES ASSUME Inv, CommitStatement
             PROVE  Inv'
  OBVIOUS
<1>1. Good(conn, base, client) /\ conn' = Commit(conn)
  BY InvParts DEF CommitStatement
<1>2. /\ conn' \in Connection /\ conn'.tx = "I" /\ IsSettled(conn')
      /\ IsSynced(conn', client)
  BY <1>1, CommitFacts DEF Good
<1> QED BY <1>2, SettledInv DEF CommitStatement

\* ROLLBACK preserves the invariant.
LEMMA RollbackInv == Inv /\ RollbackStatement => Inv'
<1> SUFFICES ASSUME Inv, RollbackStatement
             PROVE  Inv'
  OBVIOUS
<1>1. Good(conn, base, client) /\ conn' = Rollback(conn)
  BY InvParts DEF RollbackStatement
<1>2. /\ conn' \in Connection /\ conn'.tx = "I" /\ IsSettled(conn')
      /\ IsSynced(conn', client)
  BY <1>1, RollbackFacts DEF Good
<1> QED BY <1>2, SettledInv DEF RollbackStatement

\* DISCARD ALL preserves the invariant.
LEMMA DiscardAllInv == Inv /\ DiscardAllStatement => Inv'
<1> SUFFICES ASSUME Inv, DiscardAllStatement
             PROVE  Inv'
  OBVIOUS
<1>1. Good(conn, base, client) /\ conn.tx = "I" /\ conn' = DiscardAll(conn)
  BY InvParts DEF DiscardAllStatement
<1>2. /\ conn' \in Connection /\ conn'.tx = "I" /\ IsSettled(conn')
      /\ IsSynced(conn', client)
  BY <1>1, DiscardAllFacts DEF Good, Framed
<1> QED BY <1>2, SettledInv DEF DiscardAllStatement
-----------------------------------------------------------------------------
\* SAVEPOINT preserves the invariant.
LEMMA SavepointInv == \A s \in Names : Inv /\ SavepointStatement(s) => Inv'
<1> SUFFICES ASSUME NEW s \in Names, Inv, SavepointStatement(s)
             PROVE  Inv'
  OBVIOUS
<1>1. /\ Good(conn, base, client) /\ Marked(log, marks, Len(conn.savepoints))
      /\ cmd = "running" /\ conn.tx # "I" /\ conn' = Savepoint(conn, s)
      /\ marks' = Append(marks, Len(log)) /\ undone' = FALSE
      /\ UNCHANGED << cmd, client, base, log >>
  BY InvParts DEF SavepointStatement, Executing
<1>2. /\ conn' \in Connection /\ conn'.tx = conn.tx /\ Framed(conn', base)
      /\ conn'.now = conn.now /\ conn'.owed = conn.owed
      /\ Len(conn'.savepoints) = Len(conn.savepoints) + 1
  BY <1>1, SavepointFacts DEF Good
<1>3. IsSynced(conn', client)
  BY <1>1, <1>2, SameSynced DEF Good
<1>4. Good(conn', base', client')
  BY <1>1, <1>2, <1>3 DEF Good
<1>5. Len(conn.savepoints) \in Nat
  BY <1>1, LenProperties DEF Good, Connection
<1>6. Marked(log', marks', Len(conn'.savepoints))
  BY <1>1, <1>2, <1>5, AddMark
<1> QED BY <1>1, <1>4, <1>6, InvPartsNext

\* RELEASE preserves the invariant.
LEMMA ReleaseInv == \A s \in Names : Inv /\ ReleaseStatement(s) => Inv'
<1> SUFFICES ASSUME NEW s \in Names, Inv, ReleaseStatement(s)
             PROVE  Inv'
  OBVIOUS
<1>1. /\ Good(conn, base, client) /\ Marked(log, marks, Len(conn.savepoints))
      /\ cmd = "running" /\ conn.tx # "I" /\ HasSavepoint(conn, s)
      /\ conn' = Release(conn, s)
      /\ marks' = SubSeq(marks, 1, Innermost(conn, s) - 1) /\ undone' = FALSE
      /\ UNCHANGED << cmd, client, base, log >>
  BY InvParts DEF ReleaseStatement, Executing
<1>2. /\ conn' \in Connection /\ conn'.tx = conn.tx /\ Framed(conn', base)
      /\ conn'.now = conn.now /\ conn'.owed = conn.owed
      /\ Len(conn'.savepoints) = Innermost(conn, s) - 1
  BY <1>1, ReleaseFacts DEF Good
<1>3. IsSynced(conn', client)
  BY <1>1, <1>2, SameSynced DEF Good
<1>4. Good(conn', base', client')
  BY <1>1, <1>2, <1>3 DEF Good
<1>5. Len(conn.savepoints) \in Nat
  BY <1>1, LenProperties DEF Good, Connection
<1>6. Innermost(conn, s) \in 1..Len(conn.savepoints)
  BY <1>1, InnermostIndex DEF Good
<1>7. Marked(log', marks', Len(conn'.savepoints))
  BY <1>1, <1>2, <1>5, <1>6, CutMarks
<1> QED BY <1>1, <1>4, <1>7, InvPartsNext

\* ROLLBACK TO preserves the invariant.
LEMMA RollbackToInv == \A s \in Names : Inv /\ RollbackToStatement(s) => Inv'
<1> SUFFICES ASSUME NEW s \in Names, Inv, RollbackToStatement(s)
             PROVE  Inv'
  OBVIOUS
<1>1. /\ Good(conn, base, client) /\ Marked(log, marks, Len(conn.savepoints))
      /\ cmd = "running" /\ conn.tx # "I" /\ HasSavepoint(conn, s)
      /\ conn' = RollbackTo(conn, s)
      /\ log' = SubSeq(log, 1, marks[Innermost(conn, s)])
      /\ marks' = SubSeq(marks, 1, Innermost(conn, s)) /\ undone' = TRUE
      /\ UNCHANGED << cmd, client, base >>
  BY InvParts DEF RollbackToStatement, Executing
<1>2. /\ conn' \in Connection /\ conn'.tx = "T" /\ Framed(conn', base)
      /\ IsSynced(conn', client)
      /\ Len(conn'.savepoints) = Innermost(conn, s)
  BY <1>1, RollbackToFacts DEF Good
<1>3. Good(conn', base', client')
  BY <1>1, <1>2 DEF Good
<1>4. Len(conn.savepoints) \in Nat
  BY <1>1, LenProperties DEF Good, Connection
<1>5. Innermost(conn, s) \in 1..Len(conn.savepoints)
  BY <1>1, InnermostIndex DEF Good
<1>6. Marked(log', marks', Len(conn'.savepoints))
  BY <1>1, <1>2, <1>4, <1>5, CutMarks
<1> QED BY <1>1, <1>3, <1>6, InvPartsNext
-----------------------------------------------------------------------------
\* A statement that writes, in a transaction or outside one, keeps the
\* invariant when it keeps the connection's control state and a settled
\* connection settled.
LEMMA WriteInv ==
  ASSUME Inv, NEW w \in Seq(Writes), Logs(w), conn' \in Connection,
         conn'.tx = "I" <=> conn.tx = "I",
         conn'.scopes = conn.scopes, conn'.savepoints = conn.savepoints,
         conn.tx = "I" => IsSettled(conn'), IsSynced(conn', client),
         cmd' \in {"ready", "running", "skipping"}, UNCHANGED client
  PROVE  Inv'
<1>1. /\ Good(conn, base, client) /\ Marked(log, marks, Len(conn.savepoints))
      /\ undone \in BOOLEAN
  BY InvParts
<1>2. CASE conn.tx = "I"
  <2>1. base' = conn'.now /\ UNCHANGED << log, marks, undone >>
    BY <1>2 DEF Logs
  <2>2. base' \in Scope
    BY <2>1 DEF Connection
  <2>3. Framed(conn', base') /\ Clean(base')
    BY <1>2, <2>1 DEF Framed, Clean, IsSettled
  <2>4. Good(conn', base', client')
    BY <1>1, <2>2, <2>3 DEF Good
  <2> QED BY <1>1, <2>1, <2>4, InvPartsNext
<1>3. CASE conn.tx # "I"
  <2>1. log' = log \o w /\ UNCHANGED << base, marks, undone >>
    BY <1>3 DEF Logs
  <2>2. Framed(conn', base')
    BY <1>1, <1>3, <2>1 DEF Good, Framed
  <2>3. Good(conn', base', client')
    BY <1>1, <2>1, <2>2 DEF Good
  <2>4. Marked(log', marks', Len(conn'.savepoints))
    BY <1>1, <2>1, ExtendLog
  <2> QED BY <1>1, <2>1, <2>3, <2>4, InvPartsNext
<1> QED BY <1>2, <1>3

\* The log entry of an assignment is a write.
LEMMA SetWriteType ==
  ASSUME NEW ns \in SUBSET Settings, NEW v \in Readings, NEW local
  PROVE  SetWrite(ns, v, local) \in Seq(Writes)
<1>1. \A kind \in {"set", "local"} : [kind |-> kind, on |-> ns, val |-> v] \in Writes
  BY DEF Writes
<1>2. PICK kind \in {"set", "local"} :
        SetWrite(ns, v, local) = << [kind |-> kind, on |-> ns, val |-> v] >>
  BY DEF SetWrite
<1>3. PICK w \in Writes : w = [kind |-> kind, on |-> ns, val |-> v]
  BY <1>1, <1>2
<1>4. << w >> \in Seq(Writes)
  OBVIOUS
<1> QED BY <1>2, <1>3, <1>4

\* An assignment as the statements make it: session-scoped outside a
\* transaction, since a SET LOCAL there does nothing.
LEMMA AssignedFacts ==
  ASSUME Inv, NEW done \in SUBSET Settings, NEW refused \in SUBSET Settings,
         NEW v \in Readings, NEW local \in BOOLEAN, ~(local /\ conn.tx = "I"),
         NEW a, a = Assign(conn, done, refused, v, local)
  PROVE  /\ a \in Connection /\ SameControl(conn, a) /\ IsSynced(a, client)
         /\ conn.tx = "I" => IsSettled(a)
<1>1. Good(conn, base, client)
  BY InvParts
<1>2. conn \in Connection /\ client \in Vars /\ IsSynced(conn, client)
  BY <1>1 DEF Good
<1>3. a \in Connection /\ SameControl(conn, a) /\ IsSynced(a, client)
  BY <1>2, AssignFacts
<1>4. ASSUME conn.tx = "I" PROVE IsSettled(a)
  <2>1. IsSettled(conn)
    BY <1>1, <1>4 DEF Good, Framed
  <2>2. local = FALSE
    BY <1>4, Zenon
  <2>3. a = Assign(conn, done, refused, v, FALSE)
    BY <2>2, Zenon
  <2> QED BY <1>2, <2>1, <2>3, AssignSettled
<1> QED BY <1>3, <1>4

\* SET, SET LOCAL, RESET and set_config() preserve the invariant.
LEMMA AssignmentInv ==
  \A ns \in SUBSET Settings, v \in Readings, local \in BOOLEAN :
    Inv /\ AssignmentStatement(ns, v, local) => Inv'
<1> SUFFICES ASSUME NEW ns \in SUBSET Settings, NEW v \in Readings,
                    NEW local \in BOOLEAN, Inv, AssignmentStatement(ns, v, local)
             PROVE  Inv'
  OBVIOUS
<1>1. cmd = "running" /\ UNCHANGED << cmd, client >>
  BY DEF AssignmentStatement, Executing
<1>2. CASE local /\ conn.tx = "I"
  <2>1. UNCHANGED << conn, base, log, marks, undone >>
    BY <1>2, Zenon DEF AssignmentStatement, history
  <2> QED BY <1>1, <2>1, InvParts, InvPartsNext
<1>3. CASE ~(local /\ conn.tx = "I")
  <2>1. conn' = Assign(conn, ns, {}, v, local) /\ Logs(SetWrite(ns, v, local))
    BY <1>3, Zenon DEF AssignmentStatement
  <2>2. {} \in SUBSET Settings
    OBVIOUS
  <2>3. /\ conn' \in Connection /\ SameControl(conn, conn') /\ IsSynced(conn', client)
        /\ conn.tx = "I" => IsSettled(conn')
    BY <1>3, <2>1, <2>2, AssignedFacts, Zenon
  <2>4. SetWrite(ns, v, local) \in Seq(Writes)
    BY SetWriteType
  <2> QED BY <1>1, <2>1, <2>3, <2>4, WriteInv DEF SameControl
<1> QED BY <1>2, <1>3, Zenon

\* A SET that the session refuses halfway preserves the invariant.
LEMMA AssignmentFailsInv ==
  \A done \in SUBSET Settings, refused \in SUBSET Settings, v \in Readings,
     local \in BOOLEAN :
    Inv /\ AssignmentFails(done, refused, v, local) => Inv'
<1> SUFFICES ASSUME NEW done \in SUBSET Settings, NEW refused \in SUBSET Settings,
                    NEW v \in Readings, NEW local \in BOOLEAN,
                    Inv, AssignmentFails(done, refused, v, local)
             PROVE  Inv'
  OBVIOUS
<1> DEFINE w == IF done = {} THEN << >> ELSE SetWrite(done, v, local)
<1>1. /\ ~(local /\ conn.tx = "I") /\ cmd' = "skipping" /\ UNCHANGED client
      /\ conn' = Fail(Assign(conn, done, refused, v, local)) /\ Logs(w)
  BY Zenon DEF AssignmentFails
<1>2. PICK a : a = Assign(conn, done, refused, v, local)
  OBVIOUS
<1>3. /\ a \in Connection /\ SameControl(conn, a) /\ IsSynced(a, client)
      /\ conn.tx = "I" => IsSettled(a)
  BY <1>1, <1>2, AssignedFacts, Zenon
<1>4. conn' = Fail(a)
  BY <1>1, <1>2
<1>5. /\ conn' \in Connection /\ conn' = [a EXCEPT !.tx = conn'.tx]
      /\ conn'.tx = "I" <=> a.tx = "I"
  BY <1>3, <1>4, FailFacts
<1>6. /\ conn'.now = a.now /\ conn'.scopes = a.scopes /\ conn'.owed = a.owed
      /\ conn'.savepoints = a.savepoints /\ conn'.live = a.live
  BY <1>3, <1>5 DEF Connection
<1>7. conn.tx = "I" => IsSettled(conn')
  BY <1>3, <1>6 DEF IsSettled
<1>8. IsSynced(conn', client)
  BY <1>3, <1>6, SameSynced, InvParts DEF Good
<1>9. w \in Seq(Writes)
  <2>1. << >> \in Seq(Writes)
    OBVIOUS
  <2> QED BY <2>1, SetWriteType
<1>10. /\ conn'.tx = "I" <=> conn.tx = "I"
       /\ conn'.scopes = conn.scopes /\ conn'.savepoints = conn.savepoints
  BY <1>3, <1>5, <1>6 DEF SameControl
<1> HIDE DEF w
<1> QED BY <1>1, <1>5, <1>7, <1>8, <1>9, <1>10, WriteInv

\* RESET ALL preserves the invariant.
LEMMA ResetAllInv == Inv /\ ResetAllStatement => Inv'
<1> SUFFICES ASSUME Inv, ResetAllStatement
             PROVE  Inv'
  OBVIOUS
<1>1. /\ cmd = "running" /\ UNCHANGED << cmd, client >>
      /\ conn' = Assign(conn, Overridden(conn), {}, Unset, FALSE)
      /\ Logs(SetWrite(Overridden(conn), Unset, FALSE))
  BY DEF ResetAllStatement, Executing, ResetAll
<1>2. Overridden(conn) \in SUBSET Settings /\ Unset \in Readings /\ {} \in SUBSET Settings
  BY DEF Overridden, Readings
<1>3. /\ conn' \in Connection /\ SameControl(conn, conn') /\ IsSynced(conn', client)
      /\ conn.tx = "I" => IsSettled(conn')
  BY <1>1, <1>2, AssignedFacts, Zenon
<1>4. SetWrite(Overridden(conn), Unset, FALSE) \in Seq(Writes)
  BY <1>2, SetWriteType
<1> QED BY <1>1, <1>3, <1>4, WriteInv DEF SameControl
-----------------------------------------------------------------------------
\* LISTEN and UNLISTEN replace the set of subscriptions.
LEMMA ListeningInv ==
  ASSUME Inv, NEW chs \in SUBSET Channels, NEW w \in Seq(Writes), Logs(w),
         conn' = Subscribe(conn, chs),
         cmd = "running", UNCHANGED << cmd, client >>
  PROVE  Inv'
<1>1. Good(conn, base, client)
  BY InvParts
<1>2. /\ conn' \in Connection
      /\ conn'.tx = conn.tx /\ conn'.scopes = conn.scopes
      /\ conn'.savepoints = conn.savepoints
      /\ IsSettled(conn) /\ conn.tx = "I" => IsSettled(conn')
      /\ conn'.owed = conn.owed /\ conn'.now.session_vars = conn.now.session_vars
  <2>1. conn \in Connection
    BY <1>1 DEF Good
  <2> QED BY <2>1, ListeningFacts
<1>3. conn.tx = "I" => IsSettled(conn')
  BY <1>1, <1>2 DEF Good, Framed
<1>4. IsSynced(conn', client)
  BY <1>1, <1>2, SameSynced DEF Good
<1> QED BY <1>2, <1>3, <1>4, WriteInv

\* LISTEN preserves the invariant.
LEMMA ListenInv == \A ch \in Channels : Inv /\ ListenStatement(ch) => Inv'
<1> SUFFICES ASSUME NEW ch \in Channels, Inv, ListenStatement(ch)
             PROVE  Inv'
  OBVIOUS
<1>1. PICK w : w = << [kind |-> "listen", on |-> {ch}] >>
  OBVIOUS
<1>2. w \in Seq(Writes)
  BY <1>1 DEF Writes
<1>3. conn.now.listening \cup {ch} \in SUBSET Channels
  BY InvParts DEF Good, Connection, Scope
<1>4. /\ cmd = "running" /\ UNCHANGED << cmd, client >> /\ Logs(w)
      /\ conn' = Subscribe(conn, conn.now.listening \cup {ch})
  BY <1>1 DEF ListenStatement, Executing, Listen
<1> QED BY <1>2, <1>3, <1>4, ListeningInv

\* UNLISTEN preserves the invariant.
LEMMA UnlistenInv ==
  \A chs \in SUBSET Channels : Inv /\ UnlistenStatement(chs) => Inv'
<1> SUFFICES ASSUME NEW chs \in SUBSET Channels, Inv, UnlistenStatement(chs)
             PROVE  Inv'
  OBVIOUS
<1>1. PICK w : w = << [kind |-> "unlisten", on |-> chs] >>
  OBVIOUS
<1>2. w \in Seq(Writes)
  BY <1>1 DEF Writes
<1>3. conn.now.listening \ chs \in SUBSET Channels
  BY InvParts DEF Good, Connection, Scope
<1>4. /\ cmd = "running" /\ UNCHANGED << cmd, client >> /\ Logs(w)
      /\ conn' = Subscribe(conn, conn.now.listening \ chs)
  BY <1>1 DEF UnlistenStatement, Executing, Unlisten
<1> QED BY <1>2, <1>3, <1>4, ListeningInv

\* NOTIFY preserves the invariant.
LEMMA NotifyInv == \A e \in Events : Inv /\ NotifyStatement(e) => Inv'
<1> SUFFICES ASSUME NEW e \in Events, Inv, NotifyStatement(e)
             PROVE  Inv'
  OBVIOUS
<1>1. PICK w : w = << [kind |-> "notify", on |-> {e}] >>
  OBVIOUS
<1>2. w \in Seq(Writes)
  BY <1>1 DEF Writes
<1>3. /\ cmd = "running" /\ UNCHANGED << cmd, client >> /\ Logs(w)
      /\ conn' = Notify(conn, e)
  BY <1>1 DEF NotifyStatement, Executing
<1>4. Good(conn, base, client)
  BY InvParts
<1>5. /\ conn' \in Connection
      /\ conn.tx = "I" => conn' = conn
      /\ conn'.tx = conn.tx /\ conn'.scopes = conn.scopes
      /\ conn'.savepoints = conn.savepoints
      /\ conn'.owed = conn.owed /\ conn'.now.session_vars = conn.now.session_vars
  BY <1>3, <1>4, NotifyFacts DEF Good
<1>6. conn.tx = "I" => IsSettled(conn')
  BY <1>4, <1>5 DEF Good, Framed
<1>7. IsSynced(conn', client)
  BY <1>4, <1>5, SameSynced DEF Good
<1> QED BY <1>2, <1>3, <1>5, <1>6, <1>7, WriteInv
-----------------------------------------------------------------------------
\* A new connection satisfies the invariant.
LEMMA InitInv == Init => Inv
<1> SUFFICES ASSUME Init PROVE Inv
  OBVIOUS
<1>1. NoVars \in Vars /\ NothingOwed \in [Settings -> Readings \cup {Nothing}]
  BY DEF NoVars, NothingOwed, Vars, Readings
<1>2. /\ << >> \in Seq(Scope) /\ << >> \in Seq(Names) /\ << >> \in Seq(Events)
      /\ << >> \in Seq(Writes) /\ << >> \in Seq(Nat)
  OBVIOUS
<1>3. EmptyScope \in Scope
  BY <1>1, <1>2 DEF EmptyScope, Scope
<1>4. conn \in Connection
  BY <1>1, <1>2, <1>3 DEF Init, NewConnection, Connection, TxStatus
<1>5. TypeOK
  BY <1>1, <1>2, <1>3, <1>4 DEF Init, TypeOK
<1>6. conn.tx = "I" /\ IsSettled(conn) /\ conn.now = EmptyScope
  BY DEF Init, NewConnection, EmptyScope, IsSettled
<1>7. Settled /\ BaseFrame /\ BaseSettled
  BY <1>6 DEF Init, Settled, BaseFrame, BaseSettled, EmptyScope
<1>8. ClientInSync
  BY DEF Init, NewConnection, EmptyScope, ClientInSync, IsSynced, Believed,
         NothingOwed, NoVars
<1>9. MarksAgree
  BY DEF Init, NewConnection, MarksAgree
<1> QED BY <1>5, <1>7, <1>8, <1>9 DEF Inv

\* Every statement, every end of a command and a stuttering step preserve it.
LEMMA NextInv == Inv /\ [Next]_vars => Inv'
<1> SUFFICES ASSUME Inv, [Next]_vars
             PROVE  Inv'
  OBVIOUS
<1>1. CASE ReceiveCommand
  BY <1>1, ReceiveCommandInv
<1>2. CASE ReadyForQuery
  BY <1>2, ReadyForQueryInv
<1>3. CASE StatementFails
  BY <1>3, StatementFailsInv
<1>4. CASE BeginStatement
  BY <1>4, BeginInv
<1>5. CASE CommitStatement
  BY <1>5, CommitInv
<1>6. CASE RollbackStatement
  BY <1>6, RollbackInv
<1>7. CASE \E s \in Names :
             SavepointStatement(s) \/ ReleaseStatement(s) \/ RollbackToStatement(s)
  BY <1>7, SavepointInv, ReleaseInv, RollbackToInv, Zenon
<1>8. CASE \E ns \in (SUBSET Settings) \ {{}}, v \in Readings, local \in BOOLEAN :
             AssignmentStatement(ns, v, local)
  BY <1>8, AssignmentInv, Zenon
<1>9. CASE \E done \in SUBSET Settings, v \in Readings, local \in BOOLEAN :
             \E refused \in {{}} \cup {{n} : n \in Settings \ done} :
               AssignmentFails(done, refused, v, local)
  <2>1. PICK done \in SUBSET Settings, v \in Readings, local \in BOOLEAN :
          \E refused \in {{}} \cup {{n} : n \in Settings \ done} :
            AssignmentFails(done, refused, v, local)
    BY <1>9, Zenon
  <2>2. {{}} \cup {{n} : n \in Settings \ done} \subseteq SUBSET Settings
    OBVIOUS
  <2>3. PICK refused \in SUBSET Settings : AssignmentFails(done, refused, v, local)
    BY <2>1, <2>2, Zenon
  <2> QED BY <2>3, AssignmentFailsInv, Zenon
<1>10. CASE ResetAllStatement
  BY <1>10, ResetAllInv
<1>11. CASE DiscardAllStatement
  BY <1>11, DiscardAllInv
<1>12. CASE \E ch \in Channels : ListenStatement(ch)
  BY <1>12, ListenInv, Zenon
<1>13. CASE \E chs \in {Channels} \cup {{ch} : ch \in Channels} : UnlistenStatement(chs)
  <2>1. {Channels} \cup {{ch} : ch \in Channels} \subseteq SUBSET Channels
    OBVIOUS
  <2> QED BY <1>13, <2>1, UnlistenInv, Zenon
<1>14. CASE \E e \in Events : NotifyStatement(e)
  BY <1>14, NotifyInv, Zenon
<1>15. CASE UNCHANGED vars
  <2>1. UNCHANGED << conn, cmd, client, base, log, marks, undone >>
    BY <1>15 DEF vars
  <2> QED BY <2>1, InvParts, InvPartsNext
<1> QED BY <1>1, <1>2, <1>3, <1>4, <1>5, <1>6, <1>7, <1>8, <1>9, <1>10, <1>11,
           <1>12, <1>13, <1>14, <1>15, Zenon DEF Next
-----------------------------------------------------------------------------
\* The inductive invariant holds in every state, for every set of settings,
\* channels and savepoint names and every bound, whether or not the client
\* pairs ROLLBACK TO with RELEASE.
THEOREM Invariance == Spec => []Inv
<1> QED BY InitInv, NextInv, PTL DEF Spec

\* The connection record, the client's cache and the history stay well formed.
THEOREM TypeCorrect == Spec => []TypeOK
<1>1. Inv => TypeOK
  BY DEF Inv
<1> QED BY <1>1, Invariance, PTL

\* COMMIT, ROLLBACK and DISCARD ALL leave nothing of a transaction behind.
THEOREM NothingLeftBehind == Spec => []Settled
<1>1. Inv => Settled
  BY DEF Inv
<1> QED BY <1>1, Invariance, PTL

\* An open transaction never loses the frame BEGIN took, however its
\* savepoints nest, repeat a name, are released or are rolled back to.
THEOREM RollbackFrameKept == Spec => []BaseFrame
<1>1. Inv => BaseFrame
  BY DEF Inv
<1> QED BY <1>1, Invariance, PTL

\* The client's ParameterStatus cache is never stale at ReadyForQuery.
THEOREM ReportsSuffice == Spec => []ClientInSync
<1>1. Inv => ClientInSync
  BY DEF Inv
<1> QED BY <1>1, Invariance, PTL
=============================================================================
