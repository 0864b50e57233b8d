-------------------------- MODULE CommandLoopProofs --------------------------
(***************************************************************************)
(* For any names, messages, numbers of rows, lengths of pipelines and      *)
(* numbers of cancels: the types of the command loop, that nothing has an  *)
(* effect between an error and the Sync after it, that a portal that is    *)
(* fetched in pieces writes each of its rows once, and that the client     *)
(* takes every reply for the answer to the message it answers.             *)
(*                                                                         *)
(* Idle is what makes skipping work: an error ends the task it happens in, *)
(* so that no handler is under way when the loop starts to skip.  Counted  *)
(* is the account of a portal's rows, which every Execute keeps that runs  *)
(* to its end, and every other gives up (whole).                           *)
(*                                                                         *)
(* For the last, StepInv relates the two ends of the connection across     *)
(* what is still on the way between them.  Reads is the client as it will  *)
(* be when it has read the outbox, each reply when it is due; Queued is    *)
(* what the server will owe answers to when it has read the inbox.         *)
(* Agrees says that the two lists are the same, wherever the task is.      *)
(* What the client does in the meantime commutes with what it has yet to   *)
(* read: a message it sends (ReadsSent), since an error that it has not    *)
(* read will drop the same messages; and the data of a copy, since only an *)
(* error can be on its way then (ReadsCopied).                             *)
(***************************************************************************)
EXTENDS CommandLoop, SequenceTheorems, FiniteSetTheorems, Counting, TLAPS

Incoming == Alphabet \cup CopyMessages \cup {Body, [tag |-> "Flush"]}
Dispatched == Alphabet \cup CopyMessages \cup {[tag |-> "Flush"]}

Portals ==
  [stmt : Statements, left : Nat, opened : BOOLEAN, returned : Nat, written : Nat,
   whole : BOOLEAN]

Tasks ==
  \/ task = Reading
  \/ /\ task = Task(task.at, task.msg, task.todo)
     /\ task.at \in Points /\ task.msg \in Dispatched

Idle == skipping /\ task # Reading => task.at = "created"

Counted(p) == p.whole => p.left + p.written = Rows /\ p.returned = p.written

\* What the loop writes and remembers of itself, and what it keeps for the client.
Loop ==
  /\ outbox \in Seq(Replies)
  /\ Tasks /\ Idle
  /\ tx \in {"I", "T", "E"} /\ skipping \in BOOLEAN
Stores ==
  /\ statements \in [Names -> Statements \cup {NoName}]
  /\ portals \in [Names -> Portals \cup {NoName}]
  /\ \A n \in Names : portals[n] # NoName => Counted(portals[n])
Inv ==
  /\ inbox \in Seq(Incoming) /\ link \in {"up", "closed", "lost"}
  /\ Loop
  /\ Stores

\* What a message carries.
LEMMA MessageFields ==
  ASSUME NEW m \in Dispatched
  PROVE  /\ m.tag = "Parse" => m.name \in Names /\ m.stmt \in Statements
         /\ m.tag = "Bind" => m.name \in Names /\ m.from \in Names
         /\ m.tag \in {"DescribeStatement", "DescribePortal", "CloseStatement", "ClosePortal"}
              => m.name \in Names
         /\ m.tag = "Execute" => m.name \in Names /\ m.max \in Nat
<1>1. CASE m \in Alphabet
  <2>1. m \in Messages
    BY <1>1, CommandAssumption
  <2> QED BY <2>1 DEF Messages
<1>2. CASE m \notin Alphabet
  <2>1. m.tag \in {"CopyData", "CopyDone", "CopyFail", "Flush"}
    BY <1>2 DEF Dispatched, CopyMessages
  <2> QED BY <2>1
<1> QED BY <1>1, <1>2

\* Only the rest of a CopyData is no message.
LEMMA MessageOrBody == \A m \in Incoming : m # Body => m \in Dispatched
  BY DEF Incoming, Dispatched

\* A list of replies grows by replies.
LEMMA OutboxGrows ==
  ASSUME NEW s \in Seq(Replies), NEW r \in Seq(Replies)
  PROVE  s \o r \in Seq(Replies)
  BY ConcatProperties

\* What was read leaves a list.
LEMMA Shorter ==
  ASSUME NEW S, NEW s \in Seq(S), s # << >>
  PROVE  Head(s) \in S /\ Tail(s) \in Seq(S) /\ Len(Tail(s)) = Len(s) - 1
  BY HeadTailProperties

\* read_message takes what it reads off the stream.
LEMMA Consumed ==
  ASSUME inbox \in Seq(Incoming), inbox # << >>
  PROVE  AfterFirst \in Seq(Incoming) /\ Head(inbox) \in Incoming
<1>1. Head(inbox) \in Incoming /\ Tail(inbox) \in Seq(Incoming) /\ Len(Tail(inbox)) = Len(inbox) - 1
  BY Shorter
<1>2. CASE Len(inbox) > 1
  <2>1. Tail(inbox) # << >>
    <3>1. Len(Tail(inbox)) # 0
      BY <1>1, <1>2, LenProperties
    <3> QED BY <1>1, <3>1, EmptySeq
  <2>2. Tail(Tail(inbox)) \in Seq(Incoming)
    BY <1>1, <2>1, Shorter
  <2> QED BY <1>1, <2>2 DEF AfterFirst
<1>3. CASE ~(Len(inbox) > 1)
  BY <1>1, <1>3 DEF AfterFirst
<1> QED BY <1>2, <1>3
-----------------------------------------------------------------------------
\* A dispatch that is over leaves the loop reading.
LEMMA FinishHolds ==
  ASSUME Loop, NEW replies \in Seq(Replies), NEW status \in {"I", "T", "E"},
         NEW failed \in BOOLEAN, Finish(replies, status, failed)
  PROVE  Loop' /\ task' = Reading /\ tx' = status
<1> DEFINE ready == AnswersReady(task.msg, failed)
<1>1. /\ outbox' = outbox \o replies \o (IF ready THEN << "Ready" >> ELSE << >>)
      /\ tx' = status /\ task' = Reading
      /\ skipping' = IF ready THEN FALSE ELSE skipping \/ failed
  BY DEF Finish
<1>2. << "Ready" >> \in Seq(Replies) /\ << >> \in Seq(Replies)
  BY DEF Replies
<1> HIDE DEF ready
<1>3. outbox' \in Seq(Replies)
  BY <1>1, <1>2, OutboxGrows DEF Loop
<1>4. skipping' \in BOOLEAN
  BY <1>1 DEF Loop
<1> QED BY <1>1, <1>3, <1>4 DEF Loop, Tasks, Idle

\* So does one that raised or was cancelled.
LEMMA RaiseHolds ==
  ASSUME Loop, Raise
  PROVE  Loop' /\ task' = Reading /\ tx' \in {tx, "E"}
<1>1. FailedStatus \in {"I", "T", "E"} /\ FailedStatus \in {tx, "E"}
  BY DEF FailedStatus, Loop
<1>2. << "Error" >> \in Seq(Replies)
  BY DEF Replies
<1> QED BY <1>1, <1>2, FinishHolds DEF Raise

\* A statement that is complete; nothing is skipped while one runs.
LEMMA CompleteHolds ==
  ASSUME Loop, task # Reading, task.at # "created", NEW replies \in Seq(Replies),
         NEW status \in {"I", "T", "E"}, Complete(replies, status)
  PROVE  Loop'
<1>1. CASE Len(task.todo) > 1
  <2>1. /\ outbox' = outbox \o replies /\ tx' = status /\ skipping' = skipping
        /\ task' = Task("running", task.msg, Tail(task.todo))
    BY <1>1 DEF Complete
  <2>2. outbox' \in Seq(Replies)
    BY <2>1, OutboxGrows DEF Loop
  <2>3. task.msg \in Dispatched /\ ~skipping
    BY DEF Loop, Tasks, Idle
  <2>4. Tasks' /\ Idle'
    BY <2>1, <2>3 DEF Tasks, Idle, Task, Points, Loop
  <2> QED BY <2>1, <2>2, <2>4 DEF Loop
<1>2. CASE ~(Len(task.todo) > 1)
  <2>1. Finish(replies, status, FALSE)
    BY <1>2 DEF Complete
  <2> QED BY <2>1, FinishHolds
<1> QED BY <1>1, <1>2

\* A task that is suspended at another point of the same dispatch.
LEMMA MovesHolds ==
  ASSUME Loop, task # Reading, task.at # "created", NEW point \in Points,
         task' = [task EXCEPT !.at = point], outbox' \in Seq(Replies),
         UNCHANGED << tx, skipping >>
  PROVE  Loop'
<1>1. task.msg \in Dispatched /\ ~skipping /\ task = Task(task.at, task.msg, task.todo)
  BY DEF Loop, Tasks, Idle
<1>2. task' = Task(point, task.msg, task.todo)
  BY <1>1 DEF Task
<1>3. Tasks' /\ Idle'
  BY <1>1, <1>2 DEF Tasks, Idle, Task
<1> QED BY <1>3 DEF Loop

\* Into the copy sub-protocol.
LEMMA BeginCopyHolds ==
  ASSUME Loop, task # Reading, task.at # "created", NEW stmt, BeginCopy(stmt)
  PROVE  Loop'
<1> DEFINE point == IF stmt = "copy_in" THEN "copying_in" ELSE "copying_out"
           reply == IF stmt = "copy_in" THEN "CopyIn" ELSE "CopyOut"
<1>1. point \in Points /\ reply \in Replies
  BY DEF Points, Replies
<1>2. outbox' = Append(outbox, reply) /\ task' = [task EXCEPT !.at = point] /\ UNCHANGED << tx, skipping >>
  BY DEF BeginCopy
<1> HIDE DEF point, reply
<1>3. outbox' \in Seq(Replies)
  BY <1>1, <1>2, AppendProperties DEF Loop
<1> QED BY <1>1, <1>2, <1>3, MovesHolds

\* What leaves the loop's own variables alone.
LEMMA LoopRests ==
  ASSUME Loop, UNCHANGED << outbox, task, tx, skipping >>
  PROVE  Loop'
  BY DEF Loop, Tasks, Idle
\* What leaves the stores alone.
LEMMA StoresRest ==
  ASSUME Stores, UNCHANGED << statements, portals >>
  PROVE  Stores'
  BY DEF Stores, Counted
-----------------------------------------------------------------------------
\* One step at a time.

\* The loop reads a message, or what it takes for one.
LEMMA ReadPreserves ==
  ASSUME Inv, ReadMessage \/ ReadBodyAsHeader
  PROVE  Inv'
<1>1. CASE ReadMessage
  <2>1. inbox \in Seq(Incoming) /\ inbox # << >> /\ Head(inbox) # Body /\ task = Reading
    BY <1>1 DEF Inv, ReadMessage
  <2>2. AfterFirst \in Seq(Incoming) /\ Head(inbox) \in Dispatched
    BY <2>1, Consumed, MessageOrBody
  <2>3. inbox' \in Seq(Incoming) /\ UNCHANGED << outbox, tx, skipping, statements, portals >>
    BY <1>1, <2>2 DEF ReadMessage
  <2>4. \/ task' = task /\ link' = "closed"
        \/ task' = Task("created", Head(inbox), << >>) /\ link' = link
    BY <1>1 DEF ReadMessage
  <2>5. Tasks' /\ Idle'
    BY <2>1, <2>2, <2>4 DEF Tasks, Idle, Task, Points, Reading
  <2> QED BY <2>3, <2>4, <2>5, StoresRest DEF Inv, Loop
<1>2. CASE ReadBodyAsHeader
  BY <1>2, LoopRests, StoresRest DEF Inv, ReadBodyAsHeader
<1> QED BY <1>1, <1>2

\* The first step of a dispatch.
LEMMA StartPreserves ==
  ASSUME Inv, Start
  PROVE  Inv'
<1>1. /\ inbox' = inbox /\ link' = link /\ UNCHANGED << statements, portals >>
      /\ task.at = "created" /\ Loop
  BY DEF Start, Inv
<1>2. /\ task # Reading /\ task.msg \in Dispatched /\ tx \in {"I", "T", "E"}
  BY <1>1 DEF Loop, Tasks, Reading
<1>3. CASE Dropped(task.msg)
  <2>1. Finish(<< >>, tx, FALSE)
    BY <1>3 DEF Start
  <2>2. << >> \in Seq(Replies)
    OBVIOUS
  <2>3. Loop'
    BY <1>1, <1>2, <2>1, <2>2, FinishHolds
  <2> QED BY <1>1, <2>3, StoresRest DEF Inv
<1>4. CASE ~Dropped(task.msg)
  <2>1. \/ Raise
        \/ Finish(<< "Empty" >>, tx, FALSE)
        \/ /\ \E batch : task' = Task("running", task.msg, batch)
           /\ UNCHANGED << outbox, tx, skipping >>
    BY <1>4 DEF Start
  <2>2. ~skipping
    BY <1>4, <1>1 DEF Dropped, Loop
  <2>3. << "Empty" >> \in Seq(Replies)
    BY DEF Replies
  <2>4. ASSUME NEW batch, task' = Task("running", task.msg, batch), UNCHANGED << outbox, tx, skipping >>
        PROVE  Loop'
    BY <1>1, <1>2, <2>2, <2>4 DEF Loop, Tasks, Idle, Task, Points
  <2>5. Loop'
    BY <1>1, <1>2, <2>1, <2>3, <2>4, RaiseHolds, FinishHolds
  <2> QED BY <1>1, <2>5, StoresRest DEF Inv
<1> QED BY <1>3, <1>4

\* A statement of a Query.
LEMMA SimplePreserves ==
  ASSUME Inv, ExecuteSimple
  PROVE  Inv'
<1>1. /\ inbox' = inbox /\ link' = link /\ UNCHANGED << statements, portals >>
      /\ Loop /\ task.at = "running"
  BY DEF ExecuteSimple, Inv
<1>2. task # Reading /\ task.at # "created"
  BY <1>1 DEF Reading
<1>3. StatusAfter(Head(task.todo)) \in {"I", "T", "E"}
  BY <1>1 DEF StatusAfter, Loop
<1>4. << "Complete" >> \in Seq(Replies)
  BY DEF Replies
<1>5. BeginCopy(Head(task.todo)) \/ Complete(<< "Complete" >>, StatusAfter(Head(task.todo)))
  BY DEF ExecuteSimple
<1>6. Loop'
  BY <1>1, <1>2, <1>3, <1>4, <1>5, BeginCopyHolds, CompleteHolds
<1> QED BY <1>1, <1>6, StoresRest DEF Inv

\* The end of a handler of the extended protocol.
LEMMA HandledHolds ==
  ASSUME Loop, task.at = "running", NEW reply \in Replies,
         NEW status \in {"I", "T", "E"}, Finish(<< reply >>, status, FALSE)
  PROVE  Loop'
<1>1. << reply >> \in Seq(Replies)
  OBVIOUS
<1> QED BY <1>1, FinishHolds

\* The message that a handler is for.
LEMMA Handled ==
  ASSUME Loop, NEW tag, Handling(tag)
  PROVE  /\ task.at = "running" /\ task # Reading /\ task.msg \in Dispatched
         /\ task.msg.tag = tag /\ tx \in {"I", "T", "E"}
  BY DEF Loop, Tasks, Handling, Reading

\* A portal that is stored keeps the account of its rows.
LEMMA PortalStored ==
  ASSUME Stores, NEW n \in Names, NEW p \in Portals \cup {NoName}, p # NoName => Counted(p),
         portals' = [portals EXCEPT ![n] = p], UNCHANGED statements
  PROVE  Stores'
<1>1. portals \in [Names -> Portals \cup {NoName}]
  BY DEF Stores
<1>2. portals' \in [Names -> Portals \cup {NoName}]
  BY <1>1
<1>3. \A k \in Names : portals'[k] = IF k = n THEN p ELSE portals[k]
  BY <1>1
<1>4. \A k \in Names : portals'[k] # NoName => Counted(portals'[k])
  BY <1>3 DEF Stores
<1> QED BY <1>2, <1>4 DEF Stores, Counted

\* Parse, Describe and Close.
LEMMA StatementsPreserve ==
  ASSUME Inv, HandleParse \/ HandleDescribe \/ HandleClose
  PROVE  Inv'
<1>0. Loop /\ Stores /\ inbox' = inbox /\ link' = link
  BY DEF Inv, HandleParse, HandleDescribe, HandleClose
<1>1. CASE HandleParse
  <2>1. /\ Handling("Parse") /\ Finish(<< "ParseComplete" >>, tx, FALSE) /\ portals' = portals
        /\ statements' = [statements EXCEPT ![task.msg.name] = task.msg.stmt]
    BY <1>1 DEF HandleParse
  <2>2. task.msg.name \in Names /\ task.msg.stmt \in Statements
    BY <1>0, <2>1, Handled, MessageFields
  <2>3. Stores'
    BY <1>0, <2>1, <2>2 DEF Stores, Counted
  <2>4. Loop'
    BY <1>0, <2>1, Handled, HandledHolds DEF Replies
  <2> QED BY <1>0, <2>3, <2>4 DEF Inv
<1>2. CASE HandleDescribe
  <2>1. /\ Handling("DescribeStatement") \/ Handling("DescribePortal")
        /\ Finish(<< "Description" >>, tx, FALSE) /\ UNCHANGED << statements, portals >>
    BY <1>2 DEF HandleDescribe
  <2>2. Loop'
    BY <1>0, <2>1, Handled, HandledHolds DEF Replies
  <2> QED BY <1>0, <2>1, <2>2, StoresRest DEF Inv
<1>3. CASE HandleClose
  <2>1. Finish(<< "CloseComplete" >>, tx, FALSE)
    BY <1>3 DEF HandleClose
  <2>2. Handling("CloseStatement") \/ Handling("ClosePortal")
    BY <1>3 DEF HandleClose
  <2>3. task.msg.name \in Names
    BY <1>0, <2>2, Handled, MessageFields
  <2>4. \/ statements' = [statements EXCEPT ![task.msg.name] = NoName] /\ UNCHANGED portals
        \/ portals' = [portals EXCEPT ![task.msg.name] = NoName] /\ UNCHANGED statements
    BY <1>3 DEF HandleClose
  <2>5. Stores'
    <3>1. CASE statements' = [statements EXCEPT ![task.msg.name] = NoName] /\ UNCHANGED portals
      BY <1>0, <2>3, <3>1 DEF Stores, Counted
    <3>2. CASE portals' = [portals EXCEPT ![task.msg.name] = NoName] /\ UNCHANGED statements
      BY <1>0, <2>3, <3>2, PortalStored
    <3> QED BY <2>4, <3>1, <3>2
  <2>6. Loop'
    BY <1>0, <2>1, <2>2, Handled, HandledHolds DEF Replies
  <2> QED BY <1>0, <2>5, <2>6 DEF Inv
<1> QED BY <1>1, <1>2, <1>3

\* A new portal has all its rows to come.
LEMMA NewPortalCounted ==
  ASSUME NEW stmt \in Statements
  PROVE  NewPortal(stmt) \in Portals /\ Counted(NewPortal(stmt))
  BY CommandAssumption DEF NewPortal, Portals, Counted

\* Bind.
LEMMA BindPreserves ==
  ASSUME Inv, HandleBind
  PROVE  Inv'
<1>0. Loop /\ Stores /\ inbox' = inbox /\ link' = link
  BY DEF Inv, HandleBind
<1>1. /\ Handling("Bind") /\ statements[task.msg.from] # NoName
      /\ portals' = [portals EXCEPT ![task.msg.name] = NewPortal(statements[task.msg.from])]
      /\ Finish(<< "BindComplete" >>, tx, FALSE) /\ UNCHANGED statements
  BY DEF HandleBind
<1>2. task.msg.name \in Names /\ task.msg.from \in Names
  BY <1>0, <1>1, Handled, MessageFields
<1>3. statements[task.msg.from] \in Statements
  BY <1>0, <1>1, <1>2 DEF Stores
<1>4. Stores'
  BY <1>0, <1>1, <1>2, <1>3, NewPortalCounted, PortalStored
<1>5. Loop'
  BY <1>0, <1>1, Handled, HandledHolds DEF Replies
<1> QED BY <1>0, <1>4, <1>5 DEF Inv

\* The portal that Execute runs.
LEMMA ExecutedPortal ==
  ASSUME Loop, Stores, Executing
  PROVE  /\ task.msg.name \in Names /\ task.msg.max \in Nat
         /\ portals[task.msg.name] \in Portals /\ Counted(portals[task.msg.name])
<1>1. Handling("Execute") /\ portals[task.msg.name] # NoName
  BY DEF Executing
<1>2. task.msg.name \in Names /\ task.msg.max \in Nat
  BY <1>1, Handled, MessageFields
<1> QED BY <1>1, <1>2 DEF Stores

\* drain_rows pulls no more rows than there are, and all of them unless it
\* stops at the limit.
LEMMA PulledRows ==
  ASSUME NEW p \in Portals, NEW max \in Nat
  PROVE  /\ Pulled(p, max) \in Nat /\ Pulled(p, max) <= p.left /\ p.left \in Nat
         /\ ~Suspended(p, max) => Pulled(p, max) = p.left
  BY DEF Portals, Pulled, Suspended

\* Opening a portal's source and pulling n rows from it.
LEMMA Opened ==
  ASSUME NEW p \in Portals, NEW n \in Nat, n <= p.left
  PROVE  /\ Open(p, n) \in Portals
         /\ Open(p, n).left = p.left - n /\ Open(p, n).returned = p.returned
         /\ Open(p, n).written = p.written /\ Open(p, n).whole = p.whole
<1>1. p.left - n \in Nat
  BY DEF Portals
<1>2. Open(p, n) = [p EXCEPT !.opened = TRUE, !.left = p.left - n]
  BY DEF Open, Portals
<1> QED BY <1>1, <1>2 DEF Portals

\* The account of a portal from which n rows were pulled and written.
LEMMA RowsWritten ==
  ASSUME NEW p \in Portals, Counted(p), NEW n \in Nat, n <= p.left,
         NEW q, q = [Open(p, n) EXCEPT !.returned = @ + n, !.written = @ + n]
  PROVE  /\ q \in Portals /\ Counted(q)
         /\ q.left = p.left - n /\ q.whole = p.whole
<1> DEFINE o == Open(p, n)
<1>1. /\ o \in Portals /\ o.left = p.left - n /\ o.returned = p.returned
      /\ o.written = p.written /\ o.whole = p.whole
  BY Opened
<1> HIDE DEF o
<1>2. q = [o EXCEPT !.returned = o.returned + n, !.written = o.written + n]
  BY <1>1 DEF o, Portals
<1>3. o.returned + n \in Nat /\ o.written + n \in Nat
  BY <1>1 DEF Portals
<1>4. /\ q \in Portals /\ q.left = o.left /\ q.whole = o.whole
      /\ q.returned = o.returned + n /\ q.written = o.written + n
  BY <1>1, <1>2, <1>3 DEF Portals
<1>5. Counted(q)
  BY <1>1, <1>4 DEF Counted, Portals
<1> QED BY <1>1, <1>4, <1>5

\* A portal that an Execute left early.
LEMMA InterruptedCounted ==
  ASSUME NEW p \in Portals, NEW q \in Interrupted(p)
  PROVE  q \in Portals /\ Counted(q)
<1>1. CASE q = [p EXCEPT !.whole = FALSE]
  BY <1>1 DEF Portals, Counted
<1>2. CASE q = [Open(p, 0) EXCEPT !.left = 0, !.whole = FALSE]
  <2> DEFINE o == Open(p, 0)
  <2>1. o \in Portals
    <3>1. 0 <= p.left
      BY DEF Portals
    <3> QED BY <3>1, Opened
  <2> HIDE DEF o
  <2> QED BY <1>2, <2>1 DEF o, Portals, Counted
<1> QED BY <1>1, <1>2 DEF Interrupted
\* A portal with a row that could not be encoded.
LEMMA UnencodableCounted ==
  ASSUME NEW p \in Portals, NEW n \in Nat, n <= p.left, NEW q \in Unencodable(p, n)
  PROVE  q \in Portals /\ Counted(q)
<1> DEFINE o == Open(p, n)
<1>1. o \in Portals
  BY Opened
<1>2. PICK w \in 0..n-1 : q = [o EXCEPT !.returned = @ + n, !.written = @ + w, !.whole = FALSE]
  BY DEF Unencodable
<1> HIDE DEF o
<1>3. q = [o EXCEPT !.returned = o.returned + n, !.written = o.written + w, !.whole = FALSE]
  BY <1>1, <1>2 DEF Portals
<1>4. o.returned + n \in Nat /\ o.written + w \in Nat
  BY <1>1 DEF Portals
<1> QED BY <1>1, <1>3, <1>4 DEF Portals, Counted
\* A portal of a statement without rows.
LEMMA EffectCounted ==
  ASSUME NEW p \in Portals, Counted(p)
  PROVE  Open(p, 0) \in Portals /\ Counted(Open(p, 0))
<1>1. p.left \in Nat /\ 0 <= p.left /\ p.left - 0 = p.left
  BY DEF Portals
<1> QED BY <1>1, Opened DEF Counted

\* Execute, of a query, of another statement and of a COPY.
LEMMA ExecutePreserves ==
  ASSUME Inv, ExecutePortal \/ ExecuteEffect \/ ExecuteCopy
  PROVE  Inv'
<1>0. Loop /\ Stores /\ Executing /\ UNCHANGED << inbox, link, statements >>
  BY DEF Inv, ExecutePortal, ExecuteEffect, ExecuteCopy
<1> DEFINE p == portals[task.msg.name]
<1>1. task.msg.name \in Names /\ task.msg.max \in Nat /\ p \in Portals /\ Counted(p)
  BY <1>0, ExecutedPortal
<1>2. task.at = "running" /\ task # Reading /\ task.at # "created" /\ tx \in {"I", "T", "E"}
  BY <1>0, Handled DEF Executing
<1>3. CASE ExecutePortal
  <2> DEFINE n == Pulled(p, task.msg.max)
  <2>1. /\ portals' = [portals EXCEPT ![task.msg.name] =
             [Open(p, n) EXCEPT !.returned = @ + n, !.written = @ + n]]
        /\ Finish(<< IF Suspended(p, task.msg.max) THEN "Suspended" ELSE "Complete" >>, tx, FALSE)
    BY <1>3 DEF ExecutePortal
  <2>2. n \in Nat /\ n <= p.left
    BY <1>1, PulledRows
  <2>3. Stores'
    <3> HIDE DEF n, p
    <3>1. /\ [Open(p, n) EXCEPT !.returned = @ + n, !.written = @ + n] \in Portals
          /\ Counted([Open(p, n) EXCEPT !.returned = @ + n, !.written = @ + n])
      BY <1>1, <2>2, RowsWritten
    <3> QED BY <1>0, <1>1, <2>1, <3>1, PortalStored
  <2>4. (IF Suspended(p, task.msg.max) THEN "Suspended" ELSE "Complete") \in Replies
    BY DEF Replies
  <2>5. Loop'
    BY <1>0, <1>2, <2>1, <2>4, HandledHolds
  <2> QED BY <1>0, <2>3, <2>5 DEF Inv
<1>4. CASE ExecuteEffect
  <2>1. /\ portals' = [portals EXCEPT ![task.msg.name] = Open(p, 0)]
        /\ Finish(<< "Complete" >>, IF p.opened THEN tx ELSE StatusAfter(p.stmt), FALSE)
    BY <1>4 DEF ExecuteEffect
  <2>2. Stores'
    BY <1>0, <1>1, <2>1, EffectCounted, PortalStored
  <2>3. (IF p.opened THEN tx ELSE StatusAfter(p.stmt)) \in {"I", "T", "E"}
    BY <1>2 DEF StatusAfter
  <2>4. Loop'
    BY <1>0, <1>2, <2>1, <2>3, HandledHolds DEF Replies
  <2> QED BY <1>0, <2>2, <2>4 DEF Inv
<1>5. CASE ExecuteCopy
  <2>1. BeginCopy(p.stmt) /\ UNCHANGED portals
    BY <1>5 DEF ExecuteCopy
  <2>2. Loop'
    BY <1>0, <1>2, <2>1, BeginCopyHolds
  <2> QED BY <1>0, <2>1, <2>2, StoresRest DEF Inv
<1> QED BY <1>3, <1>4, <1>5

\* The copy sub-protocol.
LEMMA CopyPreserves ==
  ASSUME Inv, ReadCopyMessage \/ ReadCopyBody \/ FinishCopy
  PROVE  Inv'
<1>0. Loop /\ UNCHANGED << link, statements, portals >> /\ inbox \in Seq(Incoming)
  BY DEF Inv, ReadCopyMessage, ReadCopyBody, FinishCopy
<1>1. task.at \in {"copying_in", "copy_body", "copying_out", "copy_ended"}
  BY DEF ReadCopyMessage, ReadCopyBody, FinishCopy
<1>2. task # Reading /\ task.at # "created" /\ tx \in {"I", "T", "E"}
  BY <1>0, <1>1 DEF Reading, Loop
<1>3. << "Complete" >> \in Seq(Replies)
  BY DEF Replies
<1>4. CASE ReadCopyMessage
  <2>1. inbox # << >> /\ inbox' = AfterFirst
    BY <1>4 DEF ReadCopyMessage
  <2>2. inbox' \in Seq(Incoming)
    BY <1>0, <2>1, Consumed
  <2>3. \/ UNCHANGED << task, outbox, tx, skipping >>
        \/ \E point \in {"copy_body", "copy_ended"} :
             task' = [task EXCEPT !.at = point] /\ UNCHANGED << outbox, tx, skipping >>
        \/ Raise
    BY <1>4 DEF ReadCopyMessage
  <2>4. ASSUME NEW point \in {"copy_body", "copy_ended"},
               task' = [task EXCEPT !.at = point], UNCHANGED << outbox, tx, skipping >>
        PROVE  Loop'
    <3>1. point \in Points /\ outbox' \in Seq(Replies)
      BY <1>0, <2>4 DEF Points, Loop
    <3> QED BY <1>0, <1>2, <2>4, <3>1, MovesHolds
  <2>5. Loop'
    BY <1>0, <2>3, <2>4, LoopRests, RaiseHolds
  <2> QED BY <1>0, <2>2, <2>5, StoresRest DEF Inv
<1>5. CASE ReadCopyBody
  <2>1. /\ inbox # << >> /\ inbox' = Tail(inbox) /\ UNCHANGED << outbox, tx, skipping >>
        /\ task' = [task EXCEPT !.at = "copying_in"]
    BY <1>5 DEF ReadCopyBody
  <2>2. inbox' \in Seq(Incoming)
    BY <1>0, <2>1, Shorter
  <2>3. "copying_in" \in Points /\ outbox' \in Seq(Replies)
    BY <1>0, <2>1 DEF Points, Loop
  <2>4. Loop'
    BY <1>0, <1>2, <2>1, <2>3, MovesHolds
  <2> QED BY <1>0, <2>2, <2>4, StoresRest DEF Inv
<1>6. CASE FinishCopy
  <2>1. Complete(<< "Complete" >>, tx) /\ inbox' = inbox
    BY <1>6 DEF FinishCopy
  <2>2. Loop'
    BY <1>0, <1>2, <1>3, <2>1, CompleteHolds
  <2> QED BY <1>0, <2>1, <2>2, StoresRest DEF Inv
<1> QED BY <1>4, <1>5, <1>6

\* A handler that raises, and a cancel wherever the task is suspended.
LEMMA EarlyEndPreserves ==
  ASSUME Inv, HandlerRaises \/ CancelRequest
  PROVE  Inv'
<1>0. Loop /\ Stores /\ Raise /\ UNCHANGED << inbox, link, statements >>
  BY DEF Inv, HandlerRaises, CancelRequest
<1>1. Loop'
  BY <1>0, RaiseHolds
<1> DEFINE p == portals[task.msg.name]
           outcomes == Interrupted(p) \cup Unencodable(p, Pulled(p, task.msg.max))
<1>2. Leaves(Interrupted(p)) \/ Leaves(outcomes)
  BY DEF HandlerRaises, CancelRequest
<1>3. CASE Executing
  <2>1. task.msg.name \in Names /\ task.msg.max \in Nat /\ p \in Portals
    BY <1>0, <1>3, ExecutedPortal
  <2>2. Pulled(p, task.msg.max) \in Nat /\ Pulled(p, task.msg.max) <= p.left
    BY <2>1, PulledRows
  <2>3. \A q \in outcomes : q \in Portals /\ Counted(q)
    <3> HIDE DEF p
    <3> QED BY <2>1, <2>2, InterruptedCounted, UnencodableCounted
  <2>4. \/ UNCHANGED portals
        \/ \E q \in outcomes : portals' = [portals EXCEPT ![task.msg.name] = q]
    BY <1>2 DEF Leaves
  <2>5. ASSUME NEW q \in outcomes, portals' = [portals EXCEPT ![task.msg.name] = q]
        PROVE  Stores'
    <3> HIDE DEF outcomes
    <3> QED BY <1>0, <2>1, <2>3, <2>5, PortalStored
  <2> QED BY <1>0, <1>1, <2>4, <2>5, StoresRest DEF Inv
<1>4. CASE ~Executing
  <2>1. UNCHANGED portals
    BY <1>2, <1>4 DEF Leaves
  <2> QED BY <1>0, <1>1, <2>1, StoresRest DEF Inv
<1> QED BY <1>3, <1>4

\* The client sends and reads.
LEMMA ClientPreserves ==
  ASSUME Inv, \/ \E m \in Alphabet : ClientSends(m)
              \/ \E tag \in {"CopyData", "CopyDone", "CopyFail", "Flush"} : ClientCopies(tag)
              \/ BodyArrives
  PROVE  Inv'
<1>1. UNCHANGED << link, outbox, task, tx, skipping, statements, portals >>
  BY DEF ClientSends, ClientCopies, BodyArrives, server
<1>2. \/ \E m \in Incoming : inbox' = Append(inbox, m)
      \/ \E m, n \in Incoming : inbox' = Append(Append(inbox, m), n)
  <2>1. ASSUME NEW m \in Alphabet, ClientSends(m) PROVE inbox' = Append(inbox, m) /\ m \in Incoming
    BY <2>1 DEF ClientSends, Incoming
  <2>2. ASSUME NEW tag \in {"CopyData", "CopyDone", "CopyFail", "Flush"}, ClientCopies(tag)
        PROVE  /\ [tag |-> tag] \in Incoming
               /\ \/ inbox' = Append(inbox, [tag |-> tag])
                  \/ /\ inbox' = Append(Append(inbox, [tag |-> tag]), [tag |-> "Sync"])
                     /\ [tag |-> "Sync"] \in Incoming
    <3>1. [tag |-> tag] \in Incoming
      BY DEF Incoming, CopyMessages
    <3>2. SyncedEarly(cl) => [tag |-> "Sync"] \in Incoming
      BY CommandAssumption DEF SyncedEarly, Incoming
    <3> QED BY <2>2, <3>1, <3>2 DEF ClientCopies
  <2>3. ASSUME BodyArrives PROVE inbox' = Append(inbox, Body) /\ Body \in Incoming
    BY <2>3 DEF BodyArrives, Incoming
  <2> QED BY <2>1, <2>2, <2>3
<1>3. inbox' \in Seq(Incoming)
  <2>1. \A s \in Seq(Incoming) : \A m \in Incoming : Append(s, m) \in Seq(Incoming)
    BY AppendProperties
  <2> QED BY <1>2, <2>1 DEF Inv
<1> QED BY <1>1, <1>3, LoopRests, StoresRest DEF Inv
\* The client reads a reply.
LEMMA ReceivesPreserves ==
  ASSUME Inv, ClientReceives
  PROVE  Inv'
<1>1. /\ UNCHANGED << inbox, link, task, tx, skipping, statements, portals >>
      /\ outbox # << >> /\ outbox' = Tail(outbox)
  BY DEF ClientReceives, server
<1>2. outbox' \in Seq(Replies)
  BY <1>1, Shorter DEF Inv, Loop
<1>3. Loop'
  BY <1>1, <1>2 DEF Inv, Loop, Tasks, Idle
<1> QED BY <1>1, <1>3, StoresRest DEF Inv

\* For any pipeline of messages, errors, cancels and copies, the loop's invariant
\* holds.
THEOREM LoopInvariance == Spec => []Inv
<1>1. Init => Inv
  <2> SUFFICES ASSUME Init PROVE Inv
    OBVIOUS
  <2>1. inbox \in Seq(Incoming) /\ outbox \in Seq(Replies)
    BY DEF Init
  <2>2. Tasks /\ Idle /\ Stores
    BY DEF Init, Tasks, Idle, Stores
  <2> QED BY <2>1, <2>2 DEF Init, Inv, Loop
<1>2. Inv /\ [Next]_vars => Inv'
  <2> SUFFICES ASSUME Inv, [Next]_vars PROVE Inv'
    OBVIOUS
  <2>1. CASE Server
    BY <2>1, ReadPreserves, StartPreserves, SimplePreserves, StatementsPreserve,
       BindPreserves, ExecutePreserves, CopyPreserves, EarlyEndPreserves DEF Server
  <2>2. CASE CancelRequest
    BY <2>2, EarlyEndPreserves
  <2>3. CASE ClientReceives
    BY <2>3, ReceivesPreserves
  <2>4. CASE UNCHANGED vars
    BY <2>4, LoopRests, StoresRest DEF Inv, vars, server
  <2> QED BY <2>1, <2>2, <2>3, <2>4, ClientPreserves DEF Next
<1> QED BY <1>1, <1>2, PTL DEF Spec

\* Every variable of the loop keeps its kind; a task is that of one message.
THEOREM LoopTypes == Spec => []TypeOK
<1>1. Inv => TypeOK
  <2> SUFFICES ASSUME Inv PROVE TypeOK
    OBVIOUS
  <2>1. \A i \in DOMAIN inbox : inbox[i] \in Incoming
    BY DEF Inv
  <2>2. \A i \in DOMAIN outbox : outbox[i] \in Replies
    BY DEF Inv, Loop
  <2>3. \A n \in Names : portals[n] = NoName \/ portals[n].stmt \in Statements
    BY DEF Inv, Stores, Portals
  <2>4. task = Reading \/ (task.at \in Points /\ task.msg \in Dispatched)
    BY DEF Inv, Loop, Tasks
  <2> QED BY <2>1, <2>2, <2>3, <2>4 DEF Inv, Loop, Stores, TypeOK, Incoming, Dispatched
<1> QED BY <1>1, LoopInvariance, PTL

\* Between an error and the next Sync no statement is prepared, bound, run or
\* closed, and a transaction can only be found failed.
THEOREM SkippingHasNoEffect == Spec => SkipsToSync
<1>1. ASSUME Inv, [Next]_vars, skipping
      PROVE  UNCHANGED << statements, portals >> /\ (tx' # tx => tx' = "E")
  <2>1. /\ task = Reading \/ task.at = "created"
        /\ Loop
    BY <1>1 DEF Inv, Loop, Idle
  <2>2. task.at \in {"reading", "created"}
    BY <2>1 DEF Reading
  <2>3. ~(ExecuteSimple \/ HandleParse \/ HandleBind \/ HandleDescribe \/ HandleClose)
    BY <2>2 DEF ExecuteSimple, HandleParse, HandleBind, HandleDescribe, HandleClose, Handling
  <2>4. ~Executing /\ ~(ReadCopyMessage \/ ReadCopyBody \/ FinishCopy \/ HandlerRaises)
    BY <2>2 DEF Executing, Handling, ReadCopyMessage, ReadCopyBody, FinishCopy, HandlerRaises
  <2>5. ~(ExecutePortal \/ ExecuteEffect \/ ExecuteCopy)
    BY <2>4 DEF ExecutePortal, ExecuteEffect, ExecuteCopy
  <2>6. CASE ReadMessage \/ ReadBodyAsHeader
    BY <2>6 DEF ReadMessage, ReadBodyAsHeader
  <2>7. CASE Start
    <3>1. Dropped(task.msg)
      <4>1. skipping /\ task.msg.tag # "Sync" => Dropped(task.msg)
        BY DEF Dropped
      <4>2. task.msg.tag = "Sync" => Dropped(task.msg)
        BY DEF Dropped
      <4> QED BY <1>1, <4>1, <4>2
    <3>2. Finish(<< >>, tx, FALSE) /\ UNCHANGED << statements, portals >>
      BY <2>7, <3>1 DEF Start
    <3> QED BY <3>2 DEF Finish
  <2>8. CASE CancelRequest
    <3>1. UNCHANGED << statements, portals >>
      BY <2>4, <2>8 DEF CancelRequest, Leaves
    <3>2. tx' \in {tx, "E"}
      BY <2>1, <2>8, RaiseHolds DEF CancelRequest
    <3> QED BY <3>1, <3>2
  <2>9. CASE \/ \E m \in Alphabet : ClientSends(m)
             \/ \E tag \in {"CopyData", "CopyDone", "CopyFail", "Flush"} : ClientCopies(tag)
             \/ BodyArrives \/ ClientReceives
    BY <2>9 DEF ClientSends, ClientCopies, BodyArrives, ClientReceives, server
  <2>10. CASE UNCHANGED vars
    BY <2>10 DEF vars, server
  <2> QED BY <1>1, <2>3, <2>4, <2>5, <2>6, <2>7, <2>8, <2>9, <2>10 DEF Next, Server
<1>2. Inv /\ [Next]_vars =>
        [skipping => UNCHANGED << statements, portals >> /\ (tx' # tx => tx' = "E")]_vars
  BY <1>1
<1> QED BY <1>2, LoopInvariance, PTL DEF Spec, SkipsToSync

\* A portal that was never left early has written each of its rows, and no other,
\* when an Execute completes it, whatever the sizes of the fetches.
THEOREM FetchesWriteEachRow == Spec => FetchesAreExact
<1>1. ASSUME Inv, ExecutePortal, portals[task.msg.name].whole,
             ~Suspended(portals[task.msg.name], task.msg.max)
      PROVE  /\ portals'[task.msg.name].written = Rows
             /\ portals'[task.msg.name].returned = Rows
  <2> DEFINE p == portals[task.msg.name]
             n == Pulled(p, task.msg.max)
             q == [Open(p, n) EXCEPT !.returned = @ + n, !.written = @ + n]
  <2>1. Loop /\ Stores /\ Executing
    BY <1>1 DEF Inv, ExecutePortal
  <2>2. task.msg.name \in Names /\ task.msg.max \in Nat /\ p \in Portals /\ Counted(p)
    BY <2>1, ExecutedPortal
  <2>3. n = p.left /\ n \in Nat /\ n <= p.left
    BY <1>1, <2>2, PulledRows
  <2>4. portals' = [portals EXCEPT ![task.msg.name] = q]
    BY <1>1 DEF ExecutePortal
  <2> HIDE DEF n
  <2>5. q \in Portals /\ Counted(q) /\ q.left = p.left - n /\ q.whole = p.whole
    <3> HIDE DEF p
    <3> QED BY <2>2, <2>3, RowsWritten
  <2>6. portals'[task.msg.name] = q
    <3> HIDE DEF q
    <3> QED BY <2>1, <2>2, <2>4 DEF Stores
  <2> HIDE DEF q
  <2>7. q.left = 0 /\ q.whole
    BY <1>1, <2>3, <2>5
  <2>8. q.written = Rows /\ q.returned = Rows
    BY <2>5, <2>7, CommandAssumption DEF Counted, Portals
  <2> QED BY <2>6, <2>8
<1>2. Inv /\ [Next]_vars =>
        [\A n \in Names :
           /\ ExecutePortal /\ task.msg.name = n /\ portals[n].whole
           /\ ~Suspended(portals[n], task.msg.max)
           => portals'[n].written = Rows /\ portals'[n].returned = Rows]_vars
  BY <1>1
<1> QED BY <1>2, LoopInvariance, PTL DEF Spec, FetchesAreExact
-----------------------------------------------------------------------------
\* What an error leaves of a list of messages.

\* A set of numbers has a least element.
LEMMA Least ==
  ASSUME NEW S \in SUBSET Nat, S # {}
  PROVE  \E d \in S : \A e \in S : d <= e
<1> DEFINE R == OpToRel(<, Nat)
<1>1. IsWellFoundedOn(R, Nat)
  BY NatLessThanWellFounded
<1>2. PICK d \in S : \A e \in S : ~(<< e, d >> \in R)
  <2> HIDE DEF R
  <2> QED BY <1>1, WFMin
<1>3. R = {ss \in Nat \X Nat : ss[1] < ss[2]}
  BY Zenon DEF OpToRel
<1>4. \A e \in S : ~(e < d)
  <2> SUFFICES ASSUME NEW e \in S, e < d PROVE FALSE
    OBVIOUS
  <2>1. << e, d >> \in {ss \in Nat \X Nat : ss[1] < ss[2]}
    OBVIOUS
  <2> HIDE DEF R
  <2> QED BY <1>2, <1>3, <2>1
<1> QED BY <1>4

\* A list of one element.
LEMMA OneElement ==
  ASSUME NEW S, NEW s \in Seq(S), Len(s) = 1
  PROVE  s = << s[1] >>
<1> DEFINE t == << s[1] >>
<1>1. s[1] \in S
  BY ElementOfSeq
<1>2. t \in Seq(S) /\ Len(t) = 1 /\ t[1] = s[1]
  BY <1>1
<1> HIDE DEF t
<1>3. \A i \in 1..Len(s) : s[i] = t[i]
  BY <1>2
<1>4. s = t
  BY <1>2, <1>3, SeqEqual
<1> QED BY <1>4 DEF t

\* What an error leaves of a list of messages, if anything in it ends with
\* ReadyForQuery: the list from the first of those on.
LEMMA SurvivingSome ==
  ASSUME NEW w \in Seq(Alphabet), NEW k \in 1..Len(w), EndsWithReady(w[k])
  PROVE  \E p \in 1..Len(w) :
           /\ EndsWithReady(w[p]) /\ \A i \in 1..p-1 : ~EndsWithReady(w[i])
           /\ Surviving(w) \in Seq(Alphabet) /\ Len(Surviving(w)) = Len(w) - p + 1
           /\ \A i \in 1..Len(w)-p+1 : Surviving(w)[i] = w[p+i-1]
<1> DEFINE kept == {i \in DOMAIN w : EndsWithReady(w[i])}
           p == CHOOSE i \in kept : \A j \in kept : i <= j
<1>1. DOMAIN w = 1..Len(w) /\ Len(w) \in Nat
  BY LenProperties
<1>2. k \in kept /\ kept \in SUBSET Nat
  BY <1>1
<1>3. \E i \in kept : \A j \in kept : i <= j
  <2> HIDE DEF kept
  <2> QED BY <1>2, Least
<1>4. p \in kept /\ \A j \in kept : p <= j
  <2> HIDE DEF kept
  <2> QED BY <1>3
<1>5. Surviving(w) = SubSeq(w, p, Len(w))
  BY <1>2 DEF Surviving
<1> HIDE DEF p
<1>6. p \in 1..Len(w) /\ EndsWithReady(w[p])
  BY <1>1, <1>4
<1>7. \A i \in 1..p-1 : ~EndsWithReady(w[i])
  <2> SUFFICES ASSUME NEW i \in 1..p-1, EndsWithReady(w[i]) PROVE FALSE
    OBVIOUS
  <2>1. i \in kept /\ i < p
    BY <1>1, <1>6
  <2> HIDE DEF kept
  <2> QED BY <1>4, <1>6, <2>1
<1>8. \A i \in p..Len(w) : w[i] \in Alphabet
  BY <1>6, ElementOfSeq
<1>9. /\ SubSeq(w, p, Len(w)) \in Seq(Alphabet)
      /\ Len(SubSeq(w, p, Len(w))) = Len(w) - p + 1
      /\ \A i \in 1..Len(w)-p+1 : SubSeq(w, p, Len(w))[i] = w[p+i-1]
  <2>1. p \in Int /\ Len(w) \in Int /\ p <= Len(w)
    BY <1>1, <1>6
  <2> HIDE DEF kept
  <2> QED BY <1>8, <2>1, SubSeqProperties
<1> QED BY <1>5, <1>6, <1>7, <1>9

\* Nothing survives that has none.
LEMMA SurvivingNone ==
  ASSUME NEW w \in Seq(Alphabet), \A k \in 1..Len(w) : ~EndsWithReady(w[k])
  PROVE  Surviving(w) = << >>
  BY LenProperties DEF Surviving

\* A message that ends with ReadyForQuery survives.
LEMMA SurvivingIff ==
  ASSUME NEW w \in Seq(Alphabet)
  PROVE  /\ Surviving(w) \in Seq(Alphabet)
         /\ Len(Surviving(w)) <= Len(w)
         /\ Surviving(w) = << >> <=> \A k \in 1..Len(w) : ~EndsWithReady(w[k])
         /\ Surviving(w) # << >> =>
              /\ w # << >> /\ EndsWithReady(Surviving(w)[1])
              /\ Surviving(w)[Len(Surviving(w))] = w[Len(w)]
<1>0. Len(w) \in Nat /\ (w # << >> <=> Len(w) > 0)
  BY LenProperties, EmptySeq
<1>1. CASE \A k \in 1..Len(w) : ~EndsWithReady(w[k])
  <2>1. Surviving(w) = << >>
    BY <1>1, SurvivingNone
  <2> QED BY <1>0, <1>1, <2>1
<1>2. CASE \E k \in 1..Len(w) : EndsWithReady(w[k])
  <2>1. PICK p \in 1..Len(w) :
           /\ EndsWithReady(w[p])
           /\ Surviving(w) \in Seq(Alphabet) /\ Len(Surviving(w)) = Len(w) - p + 1
           /\ \A i \in 1..Len(w)-p+1 : Surviving(w)[i] = w[p+i-1]
    BY <1>2, SurvivingSome
  <2>2. Surviving(w) # << >>
    BY <2>1, <1>0
  <2>3. Surviving(w)[1] = w[p] /\ Surviving(w)[Len(w) - p + 1] = w[Len(w)]
    BY <1>0, <2>1
  <2> QED BY <1>0, <1>2, <2>1, <2>2, <2>3
<1> QED BY <1>1, <1>2

\* A list that starts with one survives whole.
LEMMA SurvivingAll ==
  ASSUME NEW w \in Seq(Alphabet), w # << >>, EndsWithReady(w[1])
  PROVE  Surviving(w) = w
<1>0. Len(w) \in Nat /\ Len(w) > 0
  BY LenProperties, EmptySeq
<1>1. PICK p \in 1..Len(w) :
         /\ EndsWithReady(w[p]) /\ \A i \in 1..p-1 : ~EndsWithReady(w[i])
         /\ Surviving(w) \in Seq(Alphabet) /\ Len(Surviving(w)) = Len(w) - p + 1
         /\ \A i \in 1..Len(w)-p+1 : Surviving(w)[i] = w[p+i-1]
  BY <1>0, SurvivingSome
<1>2. p = 1
  BY <1>0, <1>1
<1>3. Len(Surviving(w)) = Len(w) /\ \A i \in 1..Len(w) : Surviving(w)[i] = w[i]
  BY <1>0, <1>1, <1>2
<1> QED BY <1>1, <1>3, SeqEqual

\* What is sent after an error belongs to what survives it.
LEMMA SurvivingAppend ==
  ASSUME NEW w \in Seq(Alphabet), NEW m \in Alphabet
  PROVE  Surviving(Append(w, m)) =
           IF Surviving(w) # << >> THEN Append(Surviving(w), m)
           ELSE IF EndsWithReady(m) THEN << m >> ELSE << >>
<1> DEFINE v == Append(w, m)
<1>0. /\ Len(w) \in Nat /\ v \in Seq(Alphabet) /\ Len(v) = Len(w) + 1
      /\ \A i \in 1..Len(w) : v[i] = w[i]
      /\ v[Len(w) + 1] = m
  BY LenProperties, AppendProperties
<1> HIDE DEF v
<1>1. CASE \E k \in 1..Len(w) : EndsWithReady(w[k])
  <2>1. PICK p \in 1..Len(w) :
           /\ EndsWithReady(w[p]) /\ \A i \in 1..p-1 : ~EndsWithReady(w[i])
           /\ Surviving(w) \in Seq(Alphabet) /\ Len(Surviving(w)) = Len(w) - p + 1
           /\ \A i \in 1..Len(w)-p+1 : Surviving(w)[i] = w[p+i-1]
    BY <1>1, SurvivingSome
  <2>2. p \in 1..Len(v) /\ EndsWithReady(v[p])
    BY <1>0, <2>1
  <2>3. PICK q \in 1..Len(v) :
           /\ EndsWithReady(v[q]) /\ \A i \in 1..q-1 : ~EndsWithReady(v[i])
           /\ Surviving(v) \in Seq(Alphabet) /\ Len(Surviving(v)) = Len(v) - q + 1
           /\ \A i \in 1..Len(v)-q+1 : Surviving(v)[i] = v[q+i-1]
    BY <1>0, <2>2, SurvivingSome
  <2>4. q = p
    <3>1. ~(q < p)
      <4>1. q < p => q \in 1..p-1 /\ q \in 1..Len(w)
        BY <1>0
      <4> QED BY <1>0, <2>1, <2>3, <4>1
    <3>2. ~(p < q)
      <4>1. p < q => p \in 1..q-1
        BY <1>0
      <4> QED BY <2>2, <2>3, <4>1
    <3> QED BY <1>0, <3>1, <3>2
  <2> DEFINE u == Append(Surviving(w), m)
             n == Len(Surviving(w))
  <2>5. /\ u \in Seq(Alphabet) /\ Len(u) = n + 1 /\ \A i \in 1..n : u[i] = Surviving(w)[i]
        /\ u[n + 1] = m
    <3>1. Surviving(w) \in Seq(Alphabet)
      BY <2>1
    <3> QED BY <3>1, AppendProperties
  <2>6. n = Len(w) - p + 1 /\ Len(Surviving(v)) = n + 1 /\ n \in Nat
    BY <1>0, <2>1, <2>3, <2>4
  <2> HIDE DEF u, n
  <2>7. ASSUME NEW i \in 1..Len(u) PROVE Surviving(v)[i] = u[i]
    <3>1. Surviving(v)[i] = v[p+i-1]
      BY <1>0, <2>3, <2>4, <2>5, <2>6
    <3>2. CASE i \in 1..n
      <4>1. p+i-1 \in 1..Len(w) /\ i \in 1..Len(w)-p+1
        BY <1>0, <2>6, <3>2
      <4>2. v[p+i-1] = w[p+i-1] /\ Surviving(w)[i] = w[p+i-1]
        BY <1>0, <2>1, <4>1
      <4> QED BY <2>5, <3>1, <3>2, <4>2
    <3>3. CASE i = n + 1
      <4>1. p+i-1 = Len(w) + 1
        BY <1>0, <2>6, <3>3
      <4> QED BY <1>0, <2>5, <3>1, <3>3, <4>1
    <3>4. i \in 1..n \/ i = n + 1
      <4>1. \A k \in Nat : \A j \in 1..k+1 : j \in 1..k \/ j = k + 1
        OBVIOUS
      <4>2. i \in 1..n+1 /\ n \in Nat
        BY <2>5, <2>6
      <4> QED BY ONLY <4>1, <4>2
    <3> QED BY <3>2, <3>3, <3>4
  <2>8. Surviving(v) = u
    <3>1. Len(Surviving(v)) = Len(u)
      BY <2>5, <2>6
    <3> QED BY <2>3, <2>5, <2>7, <3>1, SeqEqual
  <2>9. Surviving(w) # << >>
    BY <1>1, SurvivingIff
  <2> QED BY <2>8, <2>9 DEF u, v
<1>2. CASE \A k \in 1..Len(w) : ~EndsWithReady(w[k])
  <2>1. Surviving(w) = << >>
    BY <1>2, SurvivingIff
  <2>2. CASE ~EndsWithReady(m)
    <3>1. \A k \in 1..Len(v) : ~EndsWithReady(v[k])
      BY <1>0, <1>2, <2>2
    <3>2. Surviving(v) = << >>
      BY <1>0, <3>1, SurvivingNone
    <3> QED BY <2>1, <2>2, <3>2 DEF v
  <2>3. CASE EndsWithReady(m)
    <3>1. Len(v) \in 1..Len(v) /\ EndsWithReady(v[Len(v)])
      BY <1>0, <2>3
    <3>2. PICK q \in 1..Len(v) :
           /\ EndsWithReady(v[q]) /\ \A i \in 1..q-1 : ~EndsWithReady(v[i])
           /\ Surviving(v) \in Seq(Alphabet) /\ Len(Surviving(v)) = Len(v) - q + 1
           /\ \A i \in 1..Len(v)-q+1 : Surviving(v)[i] = v[q+i-1]
      BY <1>0, <3>1, SurvivingSome
    <3>3. q = Len(w) + 1
      BY <1>0, <1>2, <3>2
    <3>4. Len(Surviving(v)) = 1 /\ Surviving(v)[1] = m
      BY <1>0, <3>2, <3>3
    <3>6. Surviving(v) = << m >>
      BY <3>2, <3>4, OneElement
    <3> QED BY <2>1, <2>3, <3>6 DEF v
  <2> QED BY <2>2, <2>3
<1> QED BY <1>1, <1>2
-----------------------------------------------------------------------------
\* The client: what it knows of itself, and what a reply makes of it.

Clients ==
  [waiting : Seq(Alphabet), answered : Nat, failed : BOOLEAN, inBatch : BOOLEAN,
   aborted : BOOLEAN, copying : BOOLEAN, copied : Nat, owesBody : BOOLEAN, inStep : {TRUE}]

\* What the client knows of itself.
Sound(c) ==
  /\ ~c.inBatch /\ c.waiting # << >> => EndsWithReady(c.waiting[Len(c.waiting)])
  /\ c.aborted => c.waiting = << >> /\ c.inBatch
  /\ c.failed => c.waiting # << >> /\ c.waiting[1].tag = "Query"
  /\ c.copying => ~c.failed /\ Len(c.waiting) = 1 /\ c.copied < CopyInsOf(c.waiting[1])

\* A reply that the client can expect, and no copy before its time.
Due(c, r) ==
  /\ Expected(c, r)
  /\ c.copying => r = "Error"
  /\ r = "CopyIn" => Len(c.waiting) = 1 /\ c.copied < CopyInsOf(c.waiting[1])

\* A client is its fields.
LEMMA SameClient ==
  ASSUME NEW c \in Clients, NEW d \in Clients,
         c.waiting = d.waiting, c.answered = d.answered, c.failed = d.failed,
         c.inBatch = d.inBatch, c.aborted = d.aborted, c.copying = d.copying,
         c.copied = d.copied, c.owesBody = d.owesBody, c.inStep = d.inStep
  PROVE  c = d
  BY DEF Clients

\* The fields of a client that has read an error,
LEMMA ErrorFields ==
  ASSUME NEW c \in Clients
  PROVE  LET d == Taken(c, "Error")
         IN  /\ d \in Clients
             /\ d.waiting = Surviving(c.waiting) /\ d.copying = FALSE /\ d.copied = 0
             /\ d.failed = (c.failed \/ (c.waiting # << >> /\ c.waiting[1].tag = "Query"))
             /\ d.aborted = (Surviving(c.waiting) = << >>)
             /\ d.answered = c.answered /\ d.inBatch = c.inBatch
             /\ d.owesBody = c.owesBody /\ d.inStep = c.inStep
<1> DEFINE S == Surviving(c.waiting)
           e == c.failed \/ (c.waiting # << >> /\ c.waiting[1].tag = "Query")
           a == S = << >>
<1>1. c.waiting \in Seq(Alphabet) /\ c.failed \in BOOLEAN
  BY DEF Clients
<1>2. S \in Seq(Alphabet) /\ e \in BOOLEAN /\ a \in BOOLEAN
  BY <1>1, SurvivingIff
<1>3. c.waiting # << >> => Head(c.waiting) = c.waiting[1]
  BY <1>1
<1>4. Taken(c, "Error") =
        [c EXCEPT !.waiting = S, !.copying = FALSE, !.copied = 0, !.failed = e, !.aborted = a]
  BY <1>3 DEF Taken
<1> HIDE DEF S, e, a
<1>5. LET d == [c EXCEPT !.waiting = S, !.copying = FALSE, !.copied = 0, !.failed = e, !.aborted = a]
      IN  /\ d \in Clients
          /\ d.waiting = S /\ d.copying = FALSE /\ d.copied = 0 /\ d.failed = e /\ d.aborted = a
          /\ d.answered = c.answered /\ d.inBatch = c.inBatch
          /\ d.owesBody = c.owesBody /\ d.inStep = c.inStep
  BY <1>2 DEF Clients
<1> QED BY <1>4, <1>5 DEF S, e, a

\* the start of a copy,
LEMMA CopyFields ==
  ASSUME NEW c \in Clients, NEW r \in {"CopyIn", "CopyOut"}
  PROVE  LET d == Taken(c, r)
         IN  /\ d \in Clients
             /\ d.copying = (r = "CopyIn")
             /\ d.waiting = c.waiting /\ d.copied = c.copied /\ d.failed = c.failed
             /\ d.aborted = c.aborted /\ d.answered = c.answered /\ d.inBatch = c.inBatch
             /\ d.owesBody = c.owesBody /\ d.inStep = c.inStep
<1>1. Taken(c, r) = [c EXCEPT !.copying = (r = "CopyIn")]
  BY DEF Taken
<1> QED BY <1>1 DEF Clients

\* the end of a statement of a Query,
Counts(c, r) == r \in {"Complete", "Empty"} /\ c.waiting[1].tag = "Query"
\* The fields that it leaves.
LEMMA CountFields ==
  ASSUME NEW c \in Clients, c.waiting # << >>, NEW r, Counts(c, r)
  PROVE  LET d == Taken(c, r)
         IN  /\ d \in Clients
             /\ d.answered = c.answered + 1
             /\ d.waiting = c.waiting /\ d.copied = c.copied /\ d.failed = c.failed
             /\ d.aborted = c.aborted /\ d.copying = c.copying /\ d.inBatch = c.inBatch
             /\ d.owesBody = c.owesBody /\ d.inStep = c.inStep
<1>1. Head(c.waiting) = c.waiting[1]
  BY DEF Clients
<1> DEFINE n == c.answered + 1
<1>2. Taken(c, r) = [c EXCEPT !.answered = n]
  BY <1>1 DEF Taken, Counts
<1>3. n \in Nat
  BY DEF Clients
<1> HIDE DEF n
<1>4. LET d == [c EXCEPT !.answered = n]
      IN  /\ d \in Clients
          /\ d.answered = n
          /\ d.waiting = c.waiting /\ d.copied = c.copied /\ d.failed = c.failed
          /\ d.aborted = c.aborted /\ d.copying = c.copying /\ d.inBatch = c.inBatch
          /\ d.owesBody = c.owesBody /\ d.inStep = c.inStep
  BY <1>3 DEF Clients
<1> QED BY <1>2, <1>4 DEF n

\* and the answer to a message.
Pops(c, r) == r \notin {"Error", "CopyIn", "CopyOut"} /\ ~Counts(c, r)
\* The fields that it leaves.
LEMMA PopFields ==
  ASSUME NEW c \in Clients, c.waiting # << >>, NEW r, Pops(c, r)
  PROVE  LET d == Taken(c, r)
         IN  /\ d \in Clients
             /\ d.waiting = Tail(c.waiting) /\ d.answered = 0 /\ d.failed = FALSE /\ d.copied = 0
             /\ d.aborted = c.aborted /\ d.copying = c.copying /\ d.inBatch = c.inBatch
             /\ d.owesBody = c.owesBody /\ d.inStep = c.inStep
<1> DEFINE T == Tail(c.waiting)
<1>1. c.waiting \in Seq(Alphabet)
  BY DEF Clients
<1>2. T \in Seq(Alphabet) /\ Head(c.waiting) = c.waiting[1]
  BY <1>1, HeadTailProperties
<1>3. Taken(c, r) = [c EXCEPT !.waiting = T, !.answered = 0, !.failed = FALSE, !.copied = 0]
  BY <1>2 DEF Taken, Pops, Counts
<1> HIDE DEF T
<1>4. LET d == [c EXCEPT !.waiting = T, !.answered = 0, !.failed = FALSE, !.copied = 0]
      IN  /\ d \in Clients
          /\ d.waiting = T /\ d.answered = 0 /\ d.failed = FALSE /\ d.copied = 0
          /\ d.aborted = c.aborted /\ d.copying = c.copying /\ d.inBatch = c.inBatch
          /\ d.owesBody = c.owesBody /\ d.inStep = c.inStep
  BY <1>2 DEF Clients
<1> QED BY <1>3, <1>4 DEF T

\* The fields of a client that has sent a message.
LEMMA SendsFields ==
  ASSUME NEW c \in Clients, NEW m \in Alphabet
  PROVE  LET d == Sends(c, m)
         IN  /\ d \in Clients
             /\ d.waiting = IF Expects(c, m) THEN Append(c.waiting, m) ELSE c.waiting
             /\ d.inBatch = ((c.inBatch \/ Extended(m)) /\ m.tag # "Sync")
             /\ d.aborted = (c.aborted /\ m.tag # "Sync")
             /\ d.answered = c.answered /\ d.failed = c.failed /\ d.copying = c.copying
             /\ d.copied = c.copied /\ d.owesBody = c.owesBody /\ d.inStep = c.inStep
<1> DEFINE W == IF Expects(c, m) THEN Append(c.waiting, m) ELSE c.waiting
           b == (c.inBatch \/ Extended(m)) /\ m.tag # "Sync"
           a == c.aborted /\ m.tag # "Sync"
<1>1. W \in Seq(Alphabet) /\ b \in BOOLEAN /\ a \in BOOLEAN
  BY AppendProperties DEF Clients
<1>2. Sends(c, m) = [c EXCEPT !.waiting = W, !.inBatch = b, !.aborted = a]
  BY DEF Sends
<1> HIDE DEF W, b, a
<1>3. LET d == [c EXCEPT !.waiting = W, !.inBatch = b, !.aborted = a]
      IN  /\ d \in Clients
          /\ d.waiting = W /\ d.inBatch = b /\ d.aborted = a
          /\ d.answered = c.answered /\ d.failed = c.failed /\ d.copying = c.copying
          /\ d.copied = c.copied /\ d.owesBody = c.owesBody /\ d.inStep = c.inStep
  BY <1>1 DEF Clients
<1> QED BY <1>2, <1>3 DEF W, b, a

\* A list of messages, its first and its last.
LEMMA ListFacts ==
  ASSUME NEW w \in Seq(Alphabet)
  PROVE  /\ Len(w) \in Nat /\ (w = << >> <=> Len(w) = 0) /\ Last(w) = w[Len(w)]
         /\ w # << >> => /\ Head(w) = w[1] /\ w[1] \in Alphabet /\ w[Len(w)] \in Alphabet
                         /\ Tail(w) \in Seq(Alphabet) /\ Len(Tail(w)) = Len(w) - 1
                         /\ \A i \in 1..Len(w)-1 : Tail(w)[i] = w[i+1]
<1>1. Len(w) \in Nat /\ (w = << >> <=> Len(w) = 0) /\ Last(w) = w[Len(w)]
  BY LenProperties, EmptySeq DEF Last
<1>2. ASSUME w # << >>
      PROVE  /\ Tail(w) \in Seq(Alphabet) /\ Len(Tail(w)) = Len(w) - 1
             /\ \A i \in 1..Len(w)-1 : Tail(w)[i] = w[i+1]
  BY <1>2, HeadTailProperties
<1>3. ASSUME w # << >> PROVE Head(w) = w[1] /\ w[1] \in Alphabet /\ w[Len(w)] \in Alphabet
  BY <1>1, <1>3, ElementOfSeq
<1> QED BY <1>1, <1>2, <1>3

\* The types of a client's fields.
LEMMA ClientTypes ==
  ASSUME NEW c \in Clients
  PROVE  /\ c.waiting \in Seq(Alphabet) /\ c.answered \in Nat /\ c.copied \in Nat
         /\ c.failed \in BOOLEAN /\ c.inBatch \in BOOLEAN /\ c.aborted \in BOOLEAN
         /\ c.copying \in BOOLEAN /\ c.owesBody \in BOOLEAN /\ c.inStep = TRUE
  BY DEF Clients

\* The kinds of replies.
LEMMA ReplyKinds ==
  ASSUME NEW c \in Clients, NEW r, Expected(c, r)
  PROVE  \/ r = "Error" /\ (c.waiting # << >> \/ c.inBatch)
         \/ /\ c.waiting # << >> /\ r # "Error" /\ r \in Answers(c, c.waiting[1])
            /\ \/ r \in {"CopyIn", "CopyOut"}
               \/ Counts(c, r) /\ r # "CopyIn"
               \/ Pops(c, r) /\ r # "CopyIn"
<1>1. c.waiting # << >> => Head(c.waiting) = c.waiting[1]
  BY ClientTypes, ListFacts
<1> QED BY <1>1 DEF Expected, Counts, Pops

\* A client that reads a reply that is due stays sound.
LEMMA SoundTaken ==
  ASSUME NEW c \in Clients, Sound(c), NEW r, Due(c, r)
  PROVE  Taken(c, r) \in Clients /\ Sound(Taken(c, r))
<1> DEFINE w == c.waiting
<1>0. w \in Seq(Alphabet) /\ Expected(c, r) /\ (c.copying => r = "Error")
  BY ClientTypes DEF Due
<1>1. CASE r = "Error" /\ (w # << >> \/ c.inBatch)
  <2> DEFINE d == Taken(c, "Error")
  <2>1. /\ d \in Clients
        /\ d.waiting = Surviving(w) /\ d.copying = FALSE
        /\ d.failed = (c.failed \/ (w # << >> /\ w[1].tag = "Query"))
        /\ d.aborted = (Surviving(w) = << >>) /\ d.inBatch = c.inBatch
    BY ErrorFields
  <2> HIDE DEF d
  <2>2. ~d.inBatch /\ d.waiting # << >> => EndsWithReady(d.waiting[Len(d.waiting)])
    BY <1>0, <2>1, SurvivingIff DEF Sound
  <2>3. d.aborted => d.waiting = << >> /\ d.inBatch
    <3> SUFFICES ASSUME Surviving(w) = << >>, ~c.inBatch PROVE FALSE
      BY <2>1, ClientTypes
    <3>1. w # << >> /\ EndsWithReady(w[Len(w)])
      BY <1>1 DEF Sound
    <3>2. Len(w) \in 1..Len(w)
      BY <1>0, <3>1, ListFacts
    <3> QED BY <1>0, <3>1, <3>2, SurvivingIff
  <2>4. d.failed => d.waiting # << >> /\ d.waiting[1].tag = "Query"
    <3> SUFFICES ASSUME d.failed PROVE d.waiting # << >> /\ d.waiting[1].tag = "Query"
      OBVIOUS
    <3>1. w # << >> /\ w[1].tag = "Query"
      BY <2>1 DEF Sound
    <3>2. Surviving(w) = w
      BY <1>0, <3>1, SurvivingAll DEF EndsWithReady
    <3> QED BY <2>1, <3>1, <3>2
  <2>5. Sound(d)
    BY <2>1, <2>2, <2>3, <2>4 DEF Sound
  <2> QED BY <1>1, <2>1, <2>5 DEF d
<1>2. CASE w # << >> /\ r \in {"CopyIn", "CopyOut"} /\ r \in Answers(c, w[1])
  <2> DEFINE d == Taken(c, r)
  <2>1. /\ d \in Clients
        /\ d.copying = (r = "CopyIn")
        /\ d.waiting = c.waiting /\ d.copied = c.copied /\ d.failed = c.failed
        /\ d.aborted = c.aborted /\ d.inBatch = c.inBatch
    BY <1>2, CopyFields
  <2> HIDE DEF d
  <2>2. r = "CopyIn" => ~c.failed /\ Len(w) = 1 /\ c.copied < CopyInsOf(w[1])
    <3>1. c.failed => w[1].tag = "Query"
      BY DEF Sound
    <3>2. c.failed => r \in {"Ready"}
      BY <1>2, <3>1 DEF Answers
    <3> QED BY <3>2 DEF Due
  <2>3. Sound(d)
    BY <2>1, <2>2 DEF Sound
  <2> QED BY <2>1, <2>3 DEF d
<1>3. CASE w # << >> /\ Counts(c, r) /\ r # "Error"
  <2> DEFINE d == Taken(c, r)
  <2>1. /\ d \in Clients
        /\ d.copying = c.copying
        /\ d.waiting = c.waiting /\ d.copied = c.copied /\ d.failed = c.failed
        /\ d.aborted = c.aborted /\ d.inBatch = c.inBatch
    BY <1>3, CountFields
  <2> HIDE DEF d
  <2>3. Sound(d)
    BY <2>1 DEF Sound
  <2> QED BY <2>1, <2>3 DEF d
<1>4. CASE w # << >> /\ Pops(c, r) /\ r # "Error"
  <2> DEFINE d == Taken(c, r)
  <2>1. /\ d \in Clients
        /\ d.copying = c.copying
        /\ d.waiting = Tail(w) /\ d.failed = FALSE
        /\ d.aborted = c.aborted /\ d.inBatch = c.inBatch
    BY <1>4, PopFields
  <2> HIDE DEF d
  <2>2. ~d.inBatch /\ d.waiting # << >> => EndsWithReady(d.waiting[Len(d.waiting)])
    <3> SUFFICES ASSUME ~c.inBatch, Tail(w) # << >> PROVE EndsWithReady(Tail(w)[Len(Tail(w))])
      BY <2>1
    <3>1. EndsWithReady(w[Len(w)])
      BY <1>4 DEF Sound
    <3>2. /\ Len(Tail(w)) = Len(w) - 1 /\ Len(w) \in Nat /\ Len(Tail(w)) # 0
          /\ \A i \in 1..Len(w)-1 : Tail(w)[i] = w[i+1]
      <4>1. Tail(w) \in Seq(Alphabet)
        BY <1>0, <1>4, ListFacts
      <4> QED BY <1>0, <1>4, <4>1, ListFacts
    <3>3. Tail(w)[Len(w) - 1] = w[Len(w)]
      BY <3>2
    <3> QED BY <3>1, <3>2, <3>3
  <2>3. Sound(d)
    BY <1>0, <1>4, <2>1, <2>2 DEF Sound
  <2> QED BY <2>1, <2>3 DEF d
<1> QED BY <1>0, <1>1, <1>2, <1>3, <1>4, ReplyKinds
-----------------------------------------------------------------------------
\* Copies that a message may still start.

\* What the statements of a Query that are after the first n may copy in.
CopiesAfter(batch, n) == Cardinality({i \in DOMAIN batch : i > n /\ batch[i] = "copy_in"})

\* A Query of the client carries a list of statements.
LEMMA Batches == \A m \in Alphabet : m.tag = "Query" => m.batch \in Seq(Statements)
<1> SUFFICES ASSUME NEW m \in Alphabet, m.tag = "Query" PROVE m.batch \in Seq(Statements)
  OBVIOUS
<1>1. m \in Messages
  BY CommandAssumption
<1> QED BY <1>1 DEF Messages

\* A message may copy in a number of times; only a Query or an Execute does.
LEMMA CopyInsType ==
  ASSUME NEW m \in Alphabet
  PROVE  /\ CopyInsOf(m) \in Nat
         /\ CopyInsOf(m) > 0 => m.tag \in {"Query", "Execute"}
         /\ m.tag = "Query" => CopyInsOf(m) = CopiesAfter(m.batch, 0)
<1>1. CASE m.tag = "Query"
  <2> DEFINE I == {i \in DOMAIN m.batch : m.batch[i] = "copy_in"}
             J == {i \in DOMAIN m.batch : i > 0 /\ m.batch[i] = "copy_in"}
  <2>1. DOMAIN m.batch = 1..Len(m.batch) /\ Len(m.batch) \in Nat
    BY <1>1, Batches, LenProperties
  <2>2. IsFiniteSet(1..Len(m.batch)) /\ I \in SUBSET (1..Len(m.batch)) /\ I = J
    BY <2>1, FS_Interval
  <2>3. CopyInsOf(m) = Cardinality(I) /\ CopiesAfter(m.batch, 0) = Cardinality(J)
    BY <1>1 DEF CopyInsOf, CopiesAfter
  <2> HIDE DEF I, J
  <2>4. IsFiniteSet(I)
    BY <2>2, FS_Subset
  <2>5. Cardinality(I) \in Nat
    BY <2>4, FS_CardinalityType
  <2> QED BY <1>1, <2>2, <2>3, <2>5
<1>2. CASE m.tag # "Query"
  BY <1>2 DEF CopyInsOf
<1> QED BY <1>1, <1>2

\* The client waits for a message that may start a copy, whatever it has read.
Busy(c) == MayStillCopy(c) /\ (c.failed => Len(c.waiting) > 1)

\* A client that will be busy when it has read a reply is so before.
LEMMA BusyBefore ==
  ASSUME NEW c \in Clients, Sound(c), NEW r, Due(c, r), Busy(Taken(c, r))
  PROVE  Busy(c)
<1> DEFINE w == c.waiting
           d == Taken(c, r)
<1>0. w \in Seq(Alphabet) /\ Expected(c, r) /\ d \in Clients /\ d.waiting \in Seq(Alphabet)
      /\ c.copied \in Nat
  BY ClientTypes, SoundTaken DEF Due
<1>a. Len(w) \in Nat /\ (w = << >> <=> Len(w) = 0) /\ Last(w) = w[Len(w)]
  BY <1>0, ListFacts
<1>b. /\ d.waiting # << >> /\ Last(d.waiting) = d.waiting[Len(d.waiting)] /\ Len(d.waiting) \in Nat
      /\ CopyInsOf(Last(d.waiting)) > (IF Len(d.waiting) = 1 THEN d.copied ELSE 0)
      /\ d.failed => Len(d.waiting) > 1
  <2> HIDE DEF d
  <2>1. Last(d.waiting) = d.waiting[Len(d.waiting)] /\ Len(d.waiting) \in Nat
    BY <1>0, ListFacts
  <2> QED BY <2>1 DEF Busy, MayStillCopy, d
<1>1. CASE r = "Error"
  <2>1. /\ d.waiting = Surviving(w) /\ d.copied = 0
        /\ d.failed = (c.failed \/ (w # << >> /\ w[1].tag = "Query"))
    BY <1>1, ErrorFields
  <2> HIDE DEF d
  <2>2. /\ w # << >> /\ EndsWithReady(Surviving(w)[1]) /\ d.waiting[Len(d.waiting)] = w[Len(w)]
        /\ Len(d.waiting) <= Len(w)
    BY <1>0, <1>b, <2>1, SurvivingIff
  <2>3. CopyInsOf(w[Len(w)]) > 0
    BY <1>b, <2>1, <2>2
  <2>4. Len(w) # 1
    <3> SUFFICES ASSUME Len(w) = 1 PROVE FALSE
      OBVIOUS
    <3>1. w[1] \in Alphabet /\ Len(d.waiting) = 1
      BY <1>0, <1>b, <2>2, ListFacts
    <3>a. CopyInsOf(w[1]) > 0
      BY <2>3
    <3>b. ~d.failed
      BY <1>b, <3>1
    <3>2. w[1].tag # "Query" /\ w[1].tag \in {"Query", "Execute"}
      BY <2>1, <2>2, <3>1, <3>a, <3>b, CopyInsType
    <3>3. ~EndsWithReady(w[1])
      BY <3>2 DEF EndsWithReady
    <3>4. Surviving(w) = << >>
      BY <1>0, <3>3, SurvivingIff
    <3> QED BY <1>b, <2>1, <3>4
  <2>5. w # << >> /\ Len(w) > 1
    <3>1. w # << >>
      BY <2>2
    <3>2. Len(w) # 0
      BY <1>a, <3>1
    <3>3. Len(w) \in Nat
      BY <1>a
    <3>4. \A n \in Nat : n # 0 /\ n # 1 => n > 1
      OBVIOUS
    <3>5. Len(w) > 1
      BY ONLY <2>4, <3>2, <3>3, <3>4
    <3> QED BY <3>1, <3>5
  <2> QED BY <1>a, <2>3, <2>5 DEF Busy, MayStillCopy
<1>2. CASE w # << >> /\ (r \in {"CopyIn", "CopyOut"} \/ Counts(c, r))
  <2>1. d.waiting = w /\ d.copied = c.copied /\ d.failed = c.failed
    BY <1>2, CopyFields, CountFields
  <2> HIDE DEF d
  <2> QED BY <1>b, <2>1 DEF Busy, MayStillCopy
<1>3. CASE w # << >> /\ Pops(c, r)
  <2>1. d.waiting = Tail(w) /\ d.copied = 0 /\ d.failed = FALSE
    BY <1>3, PopFields
  <2> HIDE DEF d
  <2>2. Len(d.waiting) = Len(w) - 1 /\ \A i \in 1..Len(w)-1 : d.waiting[i] = w[i+1]
    BY <1>0, <1>3, <2>1, ListFacts
  <2>3. Len(d.waiting) > 0
    BY <1>0, <1>b, ListFacts
  <2>4. Len(w) > 1 /\ d.waiting[Len(d.waiting)] = w[Len(w)]
    BY <1>a, <1>b, <2>2, <2>3
  <2>5. CopyInsOf(w[Len(w)]) > 0
    BY <1>b, <2>1, <2>4
  <2> QED BY <1>a, <1>3, <2>4, <2>5 DEF Busy, MayStillCopy
<1> QED BY <1>0, <1>1, <1>2, <1>3, ReplyKinds

\* The client has nothing to wait for but the end of a Query that failed.
Over(c) ==
  /\ ~c.copying
  /\ c.waiting # << >> => Len(c.waiting) = 1 /\ c.failed

\* An error during a copy is the end of what the client waits for,
LEMMA OverOnError ==
  ASSUME NEW c \in Clients, Sound(c), c.copying
  PROVE  Over(Taken(c, "Error"))
<1> DEFINE w == c.waiting
           d == Taken(c, "Error")
<1>1. /\ d.waiting = Surviving(w) /\ d.copying = FALSE /\ d \in Clients
      /\ d.failed = (c.failed \/ (w # << >> /\ w[1].tag = "Query"))
  BY ErrorFields
<1> HIDE DEF d
<1>2. w \in Seq(Alphabet) /\ Len(w) = 1 /\ CopyInsOf(w[1]) > 0 /\ w[1] \in Alphabet /\ w # << >>
  <2>1. w \in Seq(Alphabet) /\ c.copied \in Nat /\ Len(w) = 1 /\ c.copied < CopyInsOf(w[1])
    BY ClientTypes DEF Sound
  <2>2. w # << >> /\ w[1] \in Alphabet
    BY <2>1, ListFacts
  <2> QED BY <2>1, <2>2, CopyInsType
<1>3. CASE w[1].tag = "Query"
  <2>1. Surviving(w) = w
    BY <1>2, <1>3, SurvivingAll DEF EndsWithReady
  <2> QED BY <1>1, <1>2, <1>3, <2>1 DEF Over, d
<1>4. CASE w[1].tag # "Query"
  <2>1. ~EndsWithReady(w[1])
    BY <1>2, <1>4, CopyInsType DEF EndsWithReady
  <2>2. Surviving(w) = << >>
    BY <1>2, <2>1, SurvivingIff
  <2> QED BY <1>1, <2>2 DEF Over, d
<1> QED BY <1>3, <1>4

\* and stays so.
LEMMA OverAfter ==
  ASSUME NEW c \in Clients, Sound(c), Over(c), NEW r, Due(c, r)
  PROVE  Over(Taken(c, r))
<1> DEFINE w == c.waiting
           d == Taken(c, r)
<1>0. w \in Seq(Alphabet) /\ Expected(c, r)
  BY ClientTypes DEF Due
<1>1. CASE r = "Error"
  <2>1. /\ d.waiting = Surviving(w) /\ d.copying = FALSE
        /\ d.failed = (c.failed \/ (w # << >> /\ w[1].tag = "Query"))
    BY <1>1, ErrorFields
  <2> HIDE DEF d
  <2>2. Surviving(w) # << >> => w # << >>
    BY <1>0, SurvivingIff
  <2>3. w # << >> => Len(w) = 1 /\ c.failed /\ w[1].tag = "Query"
    BY DEF Over, Sound
  <2>4. w # << >> => Surviving(w) = w
    BY <1>0, <2>3, SurvivingAll DEF EndsWithReady
  <2> QED BY <2>1, <2>2, <2>3, <2>4 DEF Over, d
<1>2. CASE w # << >> /\ r # "Error" /\ r \in Answers(c, w[1])
  <2>1. Len(w) = 1 /\ c.failed /\ w[1].tag = "Query"
    BY <1>2 DEF Over, Sound
  <2>2. r = "Ready"
    BY <1>2, <2>1 DEF Answers
  <2>3. Pops(c, r)
    BY <2>2 DEF Pops, Counts
  <2>4. d.waiting = Tail(w) /\ d.copying = c.copying
    BY <1>2, <2>3, PopFields
  <2> HIDE DEF d
  <2>5. Tail(w) \in Seq(Alphabet) /\ Len(Tail(w)) = 0
    BY <1>0, <1>2, <2>1, ListFacts
  <2>6. Tail(w) = << >>
    BY <2>5, ListFacts
  <2> QED BY <2>4, <2>6 DEF Over, d
<1> QED BY <1>0, <1>1, <1>2, ReplyKinds
-----------------------------------------------------------------------------
\* What the client sends commutes with what it reads.

\* What the client may send without regard to copies.
InTurn(c, m) == m.tag \in {"Query", "Terminate"} => ~c.inBatch

\* Reading an error and sending a message commute: what is sent after an error
\* is counted as skipped, or as the Sync that ends it, whichever comes first,
LEMMA ErrorCommutes ==
  ASSUME NEW c \in Clients, Sound(c), Expected(c, "Error"), NEW m \in Alphabet, InTurn(c, m)
  PROVE  /\ Expected(Sends(c, m), "Error")
         /\ Taken(Sends(c, m), "Error") = Sends(Taken(c, "Error"), m)
<1> DEFINE w == c.waiting
           S == Surviving(w)
           e == Sends(c, m)
           d == Taken(c, "Error")
           x == Taken(e, "Error")
           y == Sends(d, m)
<1>1. /\ w \in Seq(Alphabet) /\ S \in Seq(Alphabet) /\ c.inBatch \in BOOLEAN /\ c.aborted \in BOOLEAN
      /\ c.failed \in BOOLEAN
  BY ClientTypes, SurvivingIff
<1>2. /\ e \in Clients
      /\ e.waiting = IF Expects(c, m) THEN Append(w, m) ELSE w
      /\ e.inBatch = ((c.inBatch \/ Extended(m)) /\ m.tag # "Sync")
      /\ e.answered = c.answered /\ e.failed = c.failed
      /\ e.owesBody = c.owesBody /\ e.inStep = c.inStep
  BY SendsFields
<1>3. /\ d \in Clients
      /\ d.waiting = S /\ d.copying = FALSE /\ d.copied = 0
      /\ d.failed = (c.failed \/ (w # << >> /\ w[1].tag = "Query"))
      /\ d.aborted = (S = << >>)
      /\ d.answered = c.answered /\ d.inBatch = c.inBatch
      /\ d.owesBody = c.owesBody /\ d.inStep = c.inStep
  BY ErrorFields
<1> HIDE DEF e, d
<1>4. /\ x \in Clients
      /\ x.waiting = Surviving(e.waiting) /\ x.copying = FALSE /\ x.copied = 0
      /\ x.failed = (e.failed \/ (e.waiting # << >> /\ e.waiting[1].tag = "Query"))
      /\ x.aborted = (Surviving(e.waiting) = << >>)
      /\ x.answered = e.answered /\ x.inBatch = e.inBatch
      /\ x.owesBody = e.owesBody /\ x.inStep = e.inStep
  BY <1>2, ErrorFields
<1>5. /\ y \in Clients
      /\ y.waiting = IF Expects(d, m) THEN Append(S, m) ELSE S
      /\ y.inBatch = ((c.inBatch \/ Extended(m)) /\ m.tag # "Sync")
      /\ y.aborted = ((S = << >>) /\ m.tag # "Sync")
      /\ y.answered = d.answered /\ y.failed = d.failed /\ y.copying = FALSE
      /\ y.copied = 0 /\ y.owesBody = d.owesBody /\ y.inStep = d.inStep
  <2>1. d \in Clients
    BY <1>3
  <2>2. /\ y \in Clients
        /\ y.waiting = IF Expects(d, m) THEN Append(d.waiting, m) ELSE d.waiting
        /\ y.inBatch = ((d.inBatch \/ Extended(m)) /\ m.tag # "Sync")
        /\ y.aborted = (d.aborted /\ m.tag # "Sync")
        /\ y.answered = d.answered /\ y.failed = d.failed /\ y.copying = d.copying
        /\ y.copied = d.copied /\ y.owesBody = d.owesBody /\ y.inStep = d.inStep
    BY <2>1, SendsFields
  <2> HIDE DEF y
  <2> QED BY <1>3, <2>2
<1> HIDE DEF x, y
<1>6. /\ Expects(c, m) <=> m.tag \notin {"Flush", "Terminate"} /\ (c.aborted => m.tag = "Sync")
      /\ Expects(d, m) <=> m.tag \notin {"Flush", "Terminate"} /\ (S = << >> => m.tag = "Sync")
  BY <1>3 DEF Expects
<1>7. (w # << >> \/ c.inBatch) /\ (c.aborted => w = << >>) /\ (c.failed => w # << >>)
  BY DEF Expected, Sound
<1>8. S # << >> => w # << >>
  BY <1>1, SurvivingIff
<1>9. S = << >> => m.tag # "Query"
  <2> SUFFICES ASSUME S = << >>, m.tag = "Query" PROVE FALSE
    OBVIOUS
  <2>1. ~c.inBatch
    BY DEF InTurn
  <2>2. w # << >> /\ EndsWithReady(w[Len(w)])
    BY <1>7, <2>1 DEF Sound
  <2>3. Len(w) \in 1..Len(w)
    BY <1>1, <2>2, ListFacts
  <2> QED BY <1>1, <2>2, <2>3, SurvivingIff
<1>10. CASE Expects(c, m)
  <2> DEFINE v == Append(w, m)
  <2>1. /\ v \in Seq(Alphabet) /\ v # << >>
        /\ w # << >> => v[1] = w[1]
        /\ w = << >> => v[1] = m
    <3>1. Len(w) \in Nat /\ (w # << >> => 1 \in 1..Len(w)) /\ (w = << >> => Len(w) = 0)
      BY <1>1, ListFacts
    <3> QED BY <1>1, <3>1, AppendProperties
  <2>2. Surviving(v) = IF S # << >> THEN Append(S, m) ELSE IF EndsWithReady(m) THEN << m >> ELSE << >>
    BY <1>1, SurvivingAppend
  <2>3. Append(S, m) # << >> /\ << m >> # << >> /\ Append(<< >>, m) = << m >>
    BY <1>1, AppendProperties
  <2> HIDE DEF v, S
  <2>4. x.waiting = y.waiting
    <3>1. CASE S # << >>
      BY <1>2, <1>4, <1>5, <1>6, <1>10, <2>2, <3>1 DEF v
    <3>2. CASE S = << >>
      <4>1. EndsWithReady(m) <=> m.tag = "Sync"
        BY <1>9, <3>2 DEF EndsWithReady
      <4>2. Expects(d, m) <=> m.tag = "Sync"
        BY <1>6, <3>2
      <4>3. x.waiting = IF m.tag = "Sync" THEN << m >> ELSE << >>
        BY <1>2, <1>4, <1>10, <2>2, <3>2, <4>1 DEF v
      <4>4. y.waiting = IF m.tag = "Sync" THEN << m >> ELSE << >>
        BY <1>5, <2>3, <3>2, <4>2
      <4> QED BY <4>3, <4>4
    <3> QED BY <3>1, <3>2
  <2>5. x.aborted = y.aborted
    <3>1. S = << >> => (EndsWithReady(m) <=> m.tag = "Sync")
      BY <1>9 DEF EndsWithReady
    <3>2. x.aborted = (Surviving(v) = << >>)
      BY <1>2, <1>4, <1>10 DEF v
    <3> QED BY <1>5, <2>2, <2>3, <3>1, <3>2
  <2>6. x.failed = y.failed
    <3>1. x.failed = (c.failed \/ v[1].tag = "Query")
      BY <1>2, <1>4, <1>10, <2>1 DEF v
    <3>2. CASE w # << >>
      BY <1>3, <1>5, <2>1, <3>1, <3>2
    <3>3. CASE w = << >>
      <4>1. m.tag # "Query" /\ ~c.failed
        BY <1>7, <1>8, <1>9, <3>3
      <4> QED BY <1>3, <1>5, <2>1, <3>1, <3>3, <4>1
    <3> QED BY <3>2, <3>3
  <2>7. x = y
    <3>1. /\ x.answered = y.answered /\ x.failed = y.failed /\ x.inBatch = y.inBatch
            /\ x.aborted = y.aborted /\ x.copying = y.copying /\ x.copied = y.copied
            /\ x.owesBody = y.owesBody /\ x.inStep = y.inStep /\ x.waiting = y.waiting
      BY <1>2, <1>3, <1>4, <1>5, <2>4, <2>5, <2>6
    <3>2. x \in Clients /\ y \in Clients
      BY <1>2, <1>3, <1>4, <1>5, <2>4, <2>5, <2>6
    <3> QED BY <3>1, <3>2, SameClient
  <2>8. Expected(e, "Error")
    BY <1>2, <1>10, <2>1 DEF Expected, v
  <2> QED BY <2>7, <2>8 DEF x, y, d, e
<1>11. CASE ~Expects(c, m)
  <2>1. m.tag # "Sync" /\ ~Expects(d, m)
    <3>1. m.tag \in {"Flush", "Terminate"} \/ (S = << >> /\ m.tag # "Sync")
      BY <1>6, <1>7, <1>8, <1>11
    <3> QED BY <1>6, <3>1
  <2> HIDE DEF S
  <2>2. x.waiting = y.waiting /\ x.aborted = y.aborted /\ x.failed = y.failed
    BY <1>2, <1>3, <1>4, <1>5, <1>11, <2>1 DEF S
  <2>3. x = y
    <3>1. /\ x.answered = y.answered /\ x.failed = y.failed /\ x.inBatch = y.inBatch
            /\ x.aborted = y.aborted /\ x.copying = y.copying /\ x.copied = y.copied
            /\ x.owesBody = y.owesBody /\ x.inStep = y.inStep /\ x.waiting = y.waiting
      BY <1>2, <1>3, <1>4, <1>5, <2>2
    <3>2. x \in Clients /\ y \in Clients
      BY <1>2, <1>3, <1>4, <1>5, <2>2
    <3> QED BY <3>1, <3>2, SameClient
  <2>4. Expected(e, "Error")
    BY <1>2, <1>7, <1>11, <2>1 DEF Expected
  <2> QED BY <2>3, <2>4 DEF x, y, d, e
<1> QED BY <1>10, <1>11

\* and so do the other replies, the start of a copy in excepted.
LEMMA SendsCommutes ==
  ASSUME NEW c \in Clients, Sound(c), NEW r, Due(c, r), r # "CopyIn",
         NEW m \in Alphabet, InTurn(c, m)
  PROVE  Due(Sends(c, m), r) /\ Taken(Sends(c, m), r) = Sends(Taken(c, r), m)
<1> DEFINE w == c.waiting
           e == Sends(c, m)
           d == Taken(c, r)
           x == Taken(e, r)
           y == Sends(d, m)
<1>1. Expected(c, r) /\ (c.copying => r = "Error") /\ w \in Seq(Alphabet)
  BY ClientTypes DEF Due
<1>2. /\ e \in Clients
      /\ e.waiting = IF Expects(c, m) THEN Append(w, m) ELSE w
      /\ e.inBatch = ((c.inBatch \/ Extended(m)) /\ m.tag # "Sync")
      /\ e.aborted = (c.aborted /\ m.tag # "Sync")
      /\ e.answered = c.answered /\ e.failed = c.failed /\ e.copying = c.copying
      /\ e.copied = c.copied /\ e.owesBody = c.owesBody /\ e.inStep = c.inStep
  BY SendsFields
<1>3. CASE r = "Error"
  <2>1. Expected(e, "Error") /\ Taken(e, "Error") = Sends(Taken(c, "Error"), m)
    BY <1>1, <1>3, ErrorCommutes
  <2> QED BY <1>2, <1>3, <2>1 DEF Due
<1>4. CASE w # << >> /\ r # "Error" /\ r \in Answers(c, w[1])
  <2>1. Len(w) \in Nat /\ 1 \in 1..Len(w) /\ Head(w) = w[1]
    BY <1>1, <1>4, ListFacts
  <2>2. e.waiting # << >> /\ e.waiting[1] = w[1]
    BY <1>1, <1>2, <1>4, <2>1, AppendProperties
  <2>3. Head(e.waiting) = w[1]
    BY <1>2, <2>2, ClientTypes, ListFacts
  <2>4. Answers(e, w[1]) = Answers(c, w[1])
    BY <1>2 DEF Answers
  <2>5. Due(e, r)
    BY <1>1, <1>2, <1>4, <2>2, <2>3, <2>4 DEF Due, Expected
  <2>6. d \in Clients
    BY SoundTaken
  <2>7. /\ y \in Clients
        /\ y.waiting = IF Expects(d, m) THEN Append(d.waiting, m) ELSE d.waiting
        /\ y.inBatch = ((d.inBatch \/ Extended(m)) /\ m.tag # "Sync")
        /\ y.aborted = (d.aborted /\ m.tag # "Sync")
        /\ y.answered = d.answered /\ y.failed = d.failed /\ y.copying = d.copying
        /\ y.copied = d.copied /\ y.owesBody = d.owesBody /\ y.inStep = d.inStep
    BY <2>6, SendsFields
  <2>8. CASE r = "CopyOut"
    <3>1. /\ d.copying = FALSE
          /\ d.waiting = c.waiting /\ d.copied = c.copied /\ d.failed = c.failed
          /\ d.aborted = c.aborted /\ d.answered = c.answered /\ d.inBatch = c.inBatch
          /\ d.owesBody = c.owesBody /\ d.inStep = c.inStep
      BY <2>8, CopyFields
    <3>2. /\ x \in Clients /\ x.copying = FALSE
          /\ x.waiting = e.waiting /\ x.copied = e.copied /\ x.failed = e.failed
          /\ x.aborted = e.aborted /\ x.answered = e.answered /\ x.inBatch = e.inBatch
          /\ x.owesBody = e.owesBody /\ x.inStep = e.inStep
      BY <1>2, <2>8, CopyFields
    <3>3. Expects(d, m) <=> Expects(c, m)
      BY <3>1 DEF Expects
    <3> HIDE DEF x, y, d, e
    <3>4. x = y
      <4>1. /\ x.answered = y.answered /\ x.failed = y.failed /\ x.inBatch = y.inBatch
              /\ x.aborted = y.aborted /\ x.copying = y.copying /\ x.copied = y.copied
              /\ x.owesBody = y.owesBody /\ x.inStep = y.inStep /\ x.waiting = y.waiting
        BY <1>2, <2>7, <3>1, <3>2, <3>3
      <4>2. x \in Clients /\ y \in Clients
        BY <1>2, <2>7, <3>1, <3>2, <3>3
      <4> QED BY <4>1, <4>2, SameClient
    <3> QED BY <2>5, <3>4 DEF x, y, d, e
  <2>9. CASE Counts(c, r)
    <3>1. /\ d.answered = c.answered + 1
          /\ d.waiting = c.waiting /\ d.copied = c.copied /\ d.failed = c.failed
          /\ d.aborted = c.aborted /\ d.copying = c.copying /\ d.inBatch = c.inBatch
          /\ d.owesBody = c.owesBody /\ d.inStep = c.inStep
      BY <1>4, <2>9, CountFields
    <3>2. Counts(e, r)
      BY <2>2, <2>9 DEF Counts
    <3>3. /\ x \in Clients /\ x.answered = e.answered + 1
          /\ x.waiting = e.waiting /\ x.copied = e.copied /\ x.failed = e.failed
          /\ x.aborted = e.aborted /\ x.copying = e.copying /\ x.inBatch = e.inBatch
          /\ x.owesBody = e.owesBody /\ x.inStep = e.inStep
      BY <1>2, <2>2, <3>2, CountFields
    <3>4. Expects(d, m) <=> Expects(c, m)
      BY <3>1 DEF Expects
    <3> HIDE DEF x, y, d, e
    <3>5. x = y
      <4>1. /\ x.answered = y.answered /\ x.failed = y.failed /\ x.inBatch = y.inBatch
              /\ x.aborted = y.aborted /\ x.copying = y.copying /\ x.copied = y.copied
              /\ x.owesBody = y.owesBody /\ x.inStep = y.inStep /\ x.waiting = y.waiting
        BY <1>2, <2>7, <3>1, <3>3, <3>4
      <4>2. x \in Clients /\ y \in Clients
        BY <1>2, <2>7, <3>1, <3>3, <3>4
      <4> QED BY <4>1, <4>2, SameClient
    <3> QED BY <2>5, <3>5 DEF x, y, d, e
  <2>10. CASE Pops(c, r)
    <3>1. /\ d.waiting = Tail(w) /\ d.answered = 0 /\ d.failed = FALSE /\ d.copied = 0
          /\ d.aborted = c.aborted /\ d.copying = c.copying /\ d.inBatch = c.inBatch
          /\ d.owesBody = c.owesBody /\ d.inStep = c.inStep
      BY <1>4, <2>10, PopFields
    <3>2. Pops(e, r)
      BY <2>2, <2>10 DEF Pops, Counts
    <3>3. /\ x \in Clients /\ x.waiting = Tail(e.waiting) /\ x.answered = 0
          /\ x.failed = FALSE /\ x.copied = 0
          /\ x.aborted = e.aborted /\ x.copying = e.copying /\ x.inBatch = e.inBatch
          /\ x.owesBody = e.owesBody /\ x.inStep = e.inStep
      BY <1>2, <2>2, <3>2, PopFields
    <3>4. Expects(d, m) <=> Expects(c, m)
      BY <3>1 DEF Expects
    <3>5. Tail(Append(w, m)) = Append(Tail(w), m)
      BY <1>1, <1>4, HeadTailAppend
    <3> HIDE DEF x, y, d, e
    <3>6. x.waiting = y.waiting
      BY <1>2, <2>7, <3>1, <3>3, <3>4, <3>5
    <3>7. x = y
      <4>1. /\ x.answered = y.answered /\ x.failed = y.failed /\ x.inBatch = y.inBatch
              /\ x.aborted = y.aborted /\ x.copying = y.copying /\ x.copied = y.copied
              /\ x.owesBody = y.owesBody /\ x.inStep = y.inStep /\ x.waiting = y.waiting
        BY <1>2, <2>7, <3>1, <3>3, <3>6
      <4>2. x \in Clients /\ y \in Clients
        BY <1>2, <2>7, <3>1, <3>3, <3>6
      <4> QED BY <4>1, <4>2, SameClient
    <3> QED BY <2>5, <3>7 DEF x, y, d, e
  <2> QED BY <1>1, <1>4, <2>8, <2>9, <2>10, ReplyKinds
<1> QED BY <1>1, <1>3, <1>4, ReplyKinds

\* A client that sends a message in its turn stays sound.
LEMMA SoundSends ==
  ASSUME NEW c \in Clients, Sound(c), ~c.copying, NEW m \in Alphabet, InTurn(c, m)
  PROVE  Sends(c, m) \in Clients /\ Sound(Sends(c, m))
<1> DEFINE w == c.waiting
           e == Sends(c, m)
<1>1. /\ e \in Clients
      /\ e.waiting = IF Expects(c, m) THEN Append(w, m) ELSE w
      /\ e.inBatch = ((c.inBatch \/ Extended(m)) /\ m.tag # "Sync")
      /\ e.aborted = (c.aborted /\ m.tag # "Sync")
      /\ e.failed = c.failed /\ e.copying = c.copying
  BY SendsFields
<1> HIDE DEF e
<1>2. w \in Seq(Alphabet) /\ Len(w) \in Nat /\ (w # << >> => 1 \in 1..Len(w))
  <2>1. w \in Seq(Alphabet)
    BY ClientTypes
  <2>2. Len(w) \in Nat /\ (w # << >> => Len(w) # 0)
    BY <2>1, ListFacts
  <2> QED BY <2>1, <2>2
<1>3. /\ Append(w, m) # << >> /\ Len(Append(w, m)) = Len(w) + 1 /\ Append(w, m)[Len(w) + 1] = m
      /\ w # << >> => Append(w, m)[1] = w[1]
  BY <1>2, AppendProperties
<1>4. ASSUME ~e.inBatch, e.waiting # << >> PROVE EndsWithReady(e.waiting[Len(e.waiting)])
  <2>1. CASE m.tag \in {"Query", "Sync"}
    <3>1. ~c.aborted \/ m.tag = "Sync"
      BY <2>1 DEF InTurn, Sound
    <3>2. e.waiting = Append(w, m)
      BY <1>1, <2>1, <3>1 DEF Expects
    <3> QED BY <1>3, <2>1, <3>2 DEF EndsWithReady
  <2>2. CASE m.tag = "Terminate"
    <3>1. e.waiting = w
      BY <1>1, <2>2 DEF Expects
    <3>2. ~c.inBatch
      BY <2>2 DEF InTurn
    <3> QED BY <1>4, <3>1, <3>2 DEF Sound
  <2> QED BY <1>1, <1>4, <2>1, <2>2 DEF Extended
<1>5. ASSUME e.aborted PROVE e.waiting = << >> /\ e.inBatch
  <2>1. c.aborted /\ m.tag # "Sync" /\ w = << >> /\ c.inBatch
    BY <1>1, <1>5, ClientTypes DEF Sound
  <2> QED BY <1>1, <2>1 DEF Expects
<1>6. ASSUME e.failed PROVE e.waiting # << >> /\ e.waiting[1].tag = "Query"
  BY <1>1, <1>3, <1>6 DEF Sound
<1>7. Sound(e)
  BY <1>1, <1>4, <1>5, <1>6 DEF Sound
<1> QED BY <1>1, <1>7 DEF e

\* A client that owes the rest of a CopyData, or has sent it.
Owes(c, b) == [c EXCEPT !.owesBody = b]
\* The fields of such a client.
LEMMA OwesFields ==
  ASSUME NEW c \in Clients, NEW b \in BOOLEAN
  PROVE  LET d == Owes(c, b)
         IN  /\ d \in Clients /\ d.owesBody = b
             /\ d.waiting = c.waiting /\ d.answered = c.answered /\ d.failed = c.failed
             /\ d.inBatch = c.inBatch /\ d.aborted = c.aborted /\ d.copying = c.copying
             /\ d.copied = c.copied /\ d.inStep = c.inStep
  BY DEF Owes, Clients

\* It makes no difference to what the client takes a reply for.
LEMMA OwesCommutes ==
  ASSUME NEW c \in Clients, Sound(c), NEW b \in BOOLEAN
  PROVE  /\ Owes(c, b) \in Clients /\ Sound(Owes(c, b))
         /\ \A r : Due(c, r) => Due(Owes(c, b), r) /\ Taken(Owes(c, b), r) = Owes(Taken(c, r), b)
<1> DEFINE e == Owes(c, b)
<1>1. /\ e \in Clients /\ e.owesBody = b
      /\ e.waiting = c.waiting /\ e.answered = c.answered /\ e.failed = c.failed
      /\ e.inBatch = c.inBatch /\ e.aborted = c.aborted /\ e.copying = c.copying
      /\ e.copied = c.copied /\ e.inStep = c.inStep
  BY OwesFields
<1> HIDE DEF e
<1>2. Sound(e)
  BY <1>1 DEF Sound
<1>3. ASSUME NEW r, Due(c, r) PROVE Due(e, r)
  BY <1>1, <1>3 DEF Due, Expected, Answers
<1>4. ASSUME NEW r, Due(c, r) PROVE Taken(e, r) = Owes(Taken(c, r), b)
  <2> DEFINE d == Taken(c, r)
             x == Taken(e, r)
             y == Owes(d, b)
  <2>0. d \in Clients /\ x \in Clients /\ Expected(c, r)
    BY <1>1, <1>2, <1>3, <1>4, SoundTaken DEF Due
  <2>1. /\ y \in Clients /\ y.owesBody = b
        /\ y.waiting = d.waiting /\ y.answered = d.answered /\ y.failed = d.failed
        /\ y.inBatch = d.inBatch /\ y.aborted = d.aborted /\ y.copying = d.copying
        /\ y.copied = d.copied /\ y.inStep = d.inStep
    BY <2>0, OwesFields
  <2> HIDE DEF y
  <2>2. /\ x.waiting = d.waiting /\ x.answered = d.answered /\ x.failed = d.failed
        /\ x.inBatch = d.inBatch /\ x.aborted = d.aborted /\ x.copying = d.copying
        /\ x.copied = d.copied /\ x.inStep = d.inStep /\ x.owesBody = b
    <3>1. CASE r = "Error"
      <4>1. /\ d.waiting = Surviving(c.waiting) /\ d.copying = FALSE /\ d.copied = 0
            /\ d.failed = (c.failed \/ (c.waiting # << >> /\ c.waiting[1].tag = "Query"))
            /\ d.aborted = (Surviving(c.waiting) = << >>)
            /\ d.answered = c.answered /\ d.inBatch = c.inBatch /\ d.inStep = c.inStep
        BY <3>1, ErrorFields
      <4>2. /\ x.waiting = Surviving(e.waiting) /\ x.copying = FALSE /\ x.copied = 0
            /\ x.failed = (e.failed \/ (e.waiting # << >> /\ e.waiting[1].tag = "Query"))
            /\ x.aborted = (Surviving(e.waiting) = << >>)
            /\ x.answered = e.answered /\ x.inBatch = e.inBatch /\ x.inStep = e.inStep
            /\ x.owesBody = e.owesBody
        BY <1>1, <3>1, ErrorFields
      <4> HIDE DEF x, d
      <4> QED BY <1>1, <4>1, <4>2
    <3>2. CASE c.waiting # << >> /\ r \in {"CopyIn", "CopyOut"}
      BY <1>1, <3>2, CopyFields
    <3>3. CASE c.waiting # << >> /\ Counts(c, r)
      <4>1. Counts(e, r) /\ e.waiting # << >>
        BY <1>1, <3>3 DEF Counts
      <4> QED BY <1>1, <3>3, <4>1, CountFields
    <3>4. CASE c.waiting # << >> /\ Pops(c, r)
      <4>1. Pops(e, r) /\ e.waiting # << >>
        BY <1>1, <3>4 DEF Pops, Counts
      <4>2. /\ d.waiting = Tail(c.waiting) /\ d.answered = 0 /\ d.failed = FALSE /\ d.copied = 0
            /\ d.aborted = c.aborted /\ d.copying = c.copying /\ d.inBatch = c.inBatch
            /\ d.inStep = c.inStep
        BY <3>4, PopFields
      <4>3. /\ x.waiting = Tail(e.waiting) /\ x.answered = 0 /\ x.failed = FALSE /\ x.copied = 0
            /\ x.aborted = e.aborted /\ x.copying = e.copying /\ x.inBatch = e.inBatch
            /\ x.inStep = e.inStep /\ x.owesBody = e.owesBody
        BY <1>1, <4>1, PopFields
      <4> HIDE DEF x, d
      <4> QED BY <1>1, <4>2, <4>3
    <3> QED BY <2>0, <3>1, <3>2, <3>3, <3>4, ReplyKinds
  <2> HIDE DEF x, d
  <2>3. x = y
    BY <2>0, <2>1, <2>2, SameClient
  <2> QED BY <2>3 DEF x, y, d
<1> QED BY <1>1, <1>2, <1>3, <1>4 DEF e

\* The fields of a client that has sent a message of a copy.
Sending == {"CopyData", "Flush"}
\* Only the end of a copy is counted.
LEMMA CopiesFields ==
  ASSUME NEW c \in Clients, NEW tag
  PROVE  LET d == Copies(c, tag)
         IN  /\ d \in Clients
             /\ d.owesBody = (tag = "CopyData" /\ ~WholeMessages)
             /\ d.copying = (tag \in Sending)
             /\ d.copied = IF tag \in Sending THEN c.copied ELSE c.copied + 1
             /\ d.waiting = c.waiting /\ d.answered = c.answered /\ d.failed = c.failed
             /\ d.inBatch = c.inBatch /\ d.aborted = c.aborted /\ d.inStep = c.inStep
<1> DEFINE o == tag = "CopyData" /\ ~WholeMessages
           g == tag \in Sending
           n == IF tag \in Sending THEN c.copied ELSE c.copied + 1
<1>1. o \in BOOLEAN /\ g \in BOOLEAN /\ n \in Nat
  BY DEF Clients
<1>2. Copies(c, tag) = [c EXCEPT !.owesBody = o, !.copying = g, !.copied = n]
  BY DEF Copies, Sending
<1> HIDE DEF o, g, n
<1>3. LET d == [c EXCEPT !.owesBody = o, !.copying = g, !.copied = n]
      IN  /\ d \in Clients /\ d.owesBody = o /\ d.copying = g /\ d.copied = n
          /\ d.waiting = c.waiting /\ d.answered = c.answered /\ d.failed = c.failed
          /\ d.inBatch = c.inBatch /\ d.aborted = c.aborted /\ d.inStep = c.inStep
  BY <1>1 DEF Clients
<1> QED BY <1>2, <1>3 DEF o, g, n

\* It stays sound, and an error it has not read yet ends the copy all the same.
LEMMA SoundCopies ==
  ASSUME NEW c \in Clients, Sound(c), c.copying, NEW tag
  PROVE  /\ Copies(c, tag) \in Clients /\ Sound(Copies(c, tag))
         /\ Due(Copies(c, tag), "Error")
         /\ Taken(Copies(c, tag), "Error") =
              Owes(Taken(c, "Error"), tag = "CopyData" /\ ~WholeMessages)
<1> DEFINE e == Copies(c, tag)
           o == tag = "CopyData" /\ ~WholeMessages
           d == Taken(c, "Error")
           x == Taken(e, "Error")
           y == Owes(d, o)
<1>1. /\ e \in Clients /\ e.owesBody = o /\ e.copying = (tag \in Sending)
      /\ tag \in Sending => e.copied = c.copied
      /\ e.waiting = c.waiting /\ e.answered = c.answered /\ e.failed = c.failed
      /\ e.inBatch = c.inBatch /\ e.aborted = c.aborted /\ e.inStep = c.inStep
  BY CopiesFields
<1>2. o \in BOOLEAN
  OBVIOUS
<1> HIDE DEF e, o
<1>3. Sound(e)
  BY <1>1 DEF Sound
<1>4. Due(e, "Error")
  <2>1. c.waiting \in Seq(Alphabet) /\ Len(c.waiting) = 1
    BY ClientTypes DEF Sound
  <2>2. c.waiting # << >>
    <3>1. c.waiting = << >> <=> Len(c.waiting) = 0
      BY <2>1, ListFacts
    <3> QED BY <2>1, <3>1
  <2> QED BY <1>1, <2>2 DEF Due, Expected
<1>5. /\ d \in Clients
      /\ d.waiting = Surviving(c.waiting) /\ d.copying = FALSE /\ d.copied = 0
      /\ d.failed = (c.failed \/ (c.waiting # << >> /\ c.waiting[1].tag = "Query"))
      /\ d.aborted = (Surviving(c.waiting) = << >>)
      /\ d.answered = c.answered /\ d.inBatch = c.inBatch /\ d.inStep = c.inStep
  BY ErrorFields
<1>6. /\ x \in Clients
      /\ x.waiting = Surviving(e.waiting) /\ x.copying = FALSE /\ x.copied = 0
      /\ x.failed = (e.failed \/ (e.waiting # << >> /\ e.waiting[1].tag = "Query"))
      /\ x.aborted = (Surviving(e.waiting) = << >>)
      /\ x.answered = e.answered /\ x.inBatch = e.inBatch /\ x.inStep = e.inStep
      /\ x.owesBody = e.owesBody
  BY <1>1, ErrorFields
<1> HIDE DEF d, x
<1>7. /\ y \in Clients /\ y.owesBody = o
      /\ y.waiting = d.waiting /\ y.answered = d.answered /\ y.failed = d.failed
      /\ y.inBatch = d.inBatch /\ y.aborted = d.aborted /\ y.copying = d.copying
      /\ y.copied = d.copied /\ y.inStep = d.inStep
  BY <1>2, <1>5, OwesFields
<1> HIDE DEF y
<1>8. /\ x.waiting = y.waiting /\ x.answered = y.answered /\ x.failed = y.failed
      /\ x.inBatch = y.inBatch /\ x.aborted = y.aborted /\ x.copying = y.copying
      /\ x.copied = y.copied /\ x.inStep = y.inStep /\ x.owesBody = y.owesBody
  <2>1. /\ x.waiting = y.waiting /\ x.aborted = y.aborted /\ x.failed = y.failed
    BY <1>1, <1>5, <1>6, <1>7
  <2>2. /\ x.answered = y.answered /\ x.inBatch = y.inBatch /\ x.inStep = y.inStep
        /\ x.copying = y.copying /\ x.copied = y.copied /\ x.owesBody = y.owesBody
    BY <1>1, <1>5, <1>6, <1>7
  <2> QED BY <2>1, <2>2
<1>9. x = y
  BY <1>6, <1>7, <1>8, SameClient
<1> QED BY <1>1, <1>3, <1>4, <1>9 DEF x, y, d, e, o
-----------------------------------------------------------------------------
\* The client that has read the outbox.

\* The client, as it will be when it has read each of the replies.
Stages(f, c, out) ==
  /\ f \in [0..Len(out) -> Clients] /\ f[0] = c
  /\ \A k \in 0..Len(out) : Sound(f[k])
  /\ \A k \in 0..Len(out)-1 : Due(f[k], out[k+1]) /\ f[k+1] = Taken(f[k], out[k+1])

\* A client that reads these replies, each one when it is due, becomes z.
Reads(c, out, z) == \E f : Stages(f, c, out) /\ f[Len(out)] = z

\* The two ends of what is read.
LEMMA ReadsEnds ==
  ASSUME NEW c, NEW out \in Seq(Replies), NEW z, Reads(c, out, z)
  PROVE  /\ c \in Clients /\ Sound(c) /\ z \in Clients /\ Sound(z)
         /\ out = << >> => z = c
         /\ out # << >> => Due(c, out[1])
<1>1. PICK f : Stages(f, c, out) /\ f[Len(out)] = z
  BY DEF Reads
<1>2. Len(out) \in Nat /\ (out = << >> <=> Len(out) = 0)
  BY LenProperties, EmptySeq
<1>3. 0 \in 0..Len(out) /\ Len(out) \in 0..Len(out) /\ (out # << >> => 0 \in 0..Len(out)-1)
  BY <1>2
<1>4. c \in Clients /\ Sound(c) /\ z \in Clients /\ Sound(z)
  BY <1>1, <1>3 DEF Stages
<1>5. out = << >> => z = c
  BY <1>1, <1>2 DEF Stages
<1>6. out # << >> => Due(c, out[1])
  <2> SUFFICES ASSUME out # << >> PROVE Due(c, out[1])
    OBVIOUS
  <2>1. Due(f[0], out[0+1]) /\ f[0] = c
    BY <1>1, <1>3 DEF Stages
  <2> QED BY <2>1
<1> QED BY <1>4, <1>5, <1>6

\* With nothing to read.
LEMMA ReadsNothing ==
  ASSUME NEW c \in Clients, Sound(c)
  PROVE  Reads(c, << >>, c)
<1> DEFINE f == [k \in 0..0 |-> c]
<1>1. Stages(f, c, << >>) /\ f[Len(<< >>)] = c
  BY DEF Stages
<1> HIDE DEF f
<1> QED BY <1>1 DEF Reads

\* One more reply.
LEMMA ReadsMore ==
  ASSUME NEW c, NEW out \in Seq(Replies), NEW z, Reads(c, out, z), NEW r \in Replies, Due(z, r)
  PROVE  Reads(c, Append(out, r), Taken(z, r))
<1>1. PICK f : Stages(f, c, out) /\ f[Len(out)] = z
  BY DEF Reads
<1> DEFINE n == Len(out)
           more == Append(out, r)
           h == [k \in 0..n+1 |-> IF k = n + 1 THEN Taken(z, r) ELSE f[k]]
<1>2. /\ n \in Nat /\ Len(more) = n + 1 /\ more[n+1] = r /\ \A i \in 1..n : more[i] = out[i]
  BY LenProperties, AppendProperties
<1>3. z \in Clients /\ Sound(z) /\ Taken(z, r) \in Clients /\ Sound(Taken(z, r))
  BY ReadsEnds, SoundTaken
<1> HIDE DEF n, more
<1>4. /\ f \in [0..n -> Clients] /\ f[0] = c /\ f[n] = z
      /\ \A k \in 0..n : Sound(f[k])
      /\ \A k \in 0..n-1 : Due(f[k], out[k+1]) /\ f[k+1] = Taken(f[k], out[k+1])
  BY <1>1 DEF Stages, n
<1>5. h \in [0..n+1 -> Clients] /\ h[0] = c /\ h[n+1] = Taken(z, r)
  BY <1>2, <1>3, <1>4
<1>6. \A k \in 0..n : h[k] = f[k]
  BY <1>2
<1> HIDE DEF h
<1>7. ASSUME NEW k \in 0..n+1 PROVE Sound(h[k])
  BY <1>2, <1>3, <1>4, <1>5, <1>6
<1>8. ASSUME NEW k \in 0..n PROVE Due(h[k], more[k+1]) /\ h[k+1] = Taken(h[k], more[k+1])
  <2>1. CASE k = n
    BY <1>2, <1>4, <1>5, <1>6, <2>1
  <2>2. CASE k # n
    <3>1. k \in 0..n-1 /\ k + 1 \in 0..n /\ k + 1 \in 1..n
      BY <1>2, <2>2
    <3> QED BY <1>2, <1>4, <1>6, <3>1
  <2> QED BY <2>1, <2>2
<1>9. Stages(h, c, more)
  BY <1>2, <1>5, <1>7, <1>8 DEF Stages
<1>10. Reads(c, more, Taken(z, r))
  BY <1>2, <1>5, <1>9 DEF Reads
<1> QED BY <1>10 DEF more

\* The first reply is read.
LEMMA ReadsFirst ==
  ASSUME NEW c, NEW out \in Seq(Replies), NEW z, Reads(c, out, z), out # << >>
  PROVE  Due(c, out[1]) /\ Reads(Taken(c, out[1]), Tail(out), z)
<1>1. PICK f : Stages(f, c, out) /\ f[Len(out)] = z
  BY DEF Reads
<1> DEFINE n == Len(out)
           h == [k \in 0..n-1 |-> f[k+1]]
<1>2. /\ n \in Nat /\ n # 0 /\ Len(Tail(out)) = n - 1
      /\ \A i \in 1..n-1 : Tail(out)[i] = out[i+1]
  BY LenProperties, EmptySeq, HeadTailProperties
<1> HIDE DEF n
<1>3. /\ f \in [0..n -> Clients] /\ f[0] = c /\ f[n] = z
      /\ \A k \in 0..n : Sound(f[k])
      /\ \A k \in 0..n-1 : Due(f[k], out[k+1]) /\ f[k+1] = Taken(f[k], out[k+1])
  BY <1>1 DEF Stages, n
<1>4. Due(f[0], out[0+1]) /\ f[0+1] = Taken(f[0], out[0+1])
  <2>1. 0 \in 0..n-1
    BY <1>2
  <2> QED BY <1>3, <2>1
<1>5. h \in [0..n-1 -> Clients] /\ h[0] = f[1] /\ h[n-1] = z
  BY <1>2, <1>3
<1>6. \A k \in 0..n-1 : h[k] = f[k+1]
  OBVIOUS
<1> HIDE DEF h
<1>7. ASSUME NEW k \in 0..n-1 PROVE Sound(h[k])
  <2>1. k + 1 \in 0..n
    BY <1>2
  <2> QED BY <1>3, <1>6, <2>1
<1>8. ASSUME NEW k \in 0..(n-1)-1
      PROVE  Due(h[k], Tail(out)[k+1]) /\ h[k+1] = Taken(h[k], Tail(out)[k+1])
  <2>1. k \in 0..n-1 /\ k + 1 \in 0..n-1 /\ k + 1 \in 1..n-1
    BY <1>2
  <2>2. h[k] = f[k+1] /\ h[k+1] = f[(k+1)+1] /\ Tail(out)[k+1] = out[(k+1)+1]
    BY <1>2, <1>6, <2>1
  <2> QED BY <1>3, <2>1, <2>2
<1>9. Stages(h, f[1], Tail(out))
  BY <1>2, <1>5, <1>7, <1>8 DEF Stages
<1>10. Reads(f[1], Tail(out), z)
  BY <1>2, <1>5, <1>9 DEF Reads
<1> QED BY <1>3, <1>4, <1>10

\* A reply changes nothing of what the client has not synced, and the start of a
\* copy sets it copying.
LEMMA TakenBatch ==
  ASSUME NEW c \in Clients, NEW r, Expected(c, r)
  PROVE  Taken(c, r).inBatch = c.inBatch /\ (r = "CopyIn" => Taken(c, r).copying)
<1>1. CASE r = "Error"
  BY <1>1, ErrorFields
<1>2. CASE r \in {"CopyIn", "CopyOut"}
  BY <1>2, CopyFields
<1>3. CASE c.waiting # << >> /\ Counts(c, r) /\ r # "CopyIn"
  BY <1>3, CountFields
<1>4. CASE c.waiting # << >> /\ Pops(c, r) /\ r # "CopyIn"
  BY <1>4, PopFields
<1> QED BY <1>1, <1>2, <1>3, <1>4, ReplyKinds

\* A client that will be busy is busy now.
LEMMA BusyNow ==
  ASSUME NEW f, NEW c, NEW out \in Seq(Replies), Stages(f, c, out), ~MayStillCopy(c)
  PROVE  \A k \in 0..Len(out) : ~Busy(f[k]) /\ f[k].inBatch = c.inBatch
<1> DEFINE n == Len(out)
           T == {k \in Nat : k <= n => ~Busy(f[k]) /\ f[k].inBatch = c.inBatch}
<1>1. n \in Nat /\ f \in [0..n -> Clients] /\ f[0] = c
  BY LenProperties DEF Stages
<1>2. /\ \A k \in 0..n : Sound(f[k])
      /\ \A k \in 0..n-1 : Due(f[k], out[k+1]) /\ f[k+1] = Taken(f[k], out[k+1])
  BY DEF Stages
<1> HIDE DEF n
<1>3. 0 \in T
  BY <1>1 DEF Busy
<1>4. ASSUME NEW k \in T, k < n PROVE k + 1 \in T
  <2>1. k \in 0..n /\ k \in 0..n-1 /\ k + 1 \in 0..n
    BY <1>1, <1>4
  <2>2. ~Busy(f[k]) /\ f[k].inBatch = c.inBatch
    BY <1>1, <1>4
  <2>3. f[k] \in Clients /\ Sound(f[k]) /\ Due(f[k], out[k+1]) /\ f[k+1] = Taken(f[k], out[k+1])
    BY <1>1, <1>2, <2>1
  <2>4. ~Busy(f[k+1])
    BY <2>2, <2>3, BusyBefore
  <2>5. f[k+1].inBatch = f[k].inBatch
    <3>1. Expected(f[k], out[k+1])
      BY <2>3 DEF Due
    <3> QED BY <2>3, <3>1, TakenBatch
  <2> QED BY <1>1, <2>2, <2>4, <2>5
<1>5. T \in SUBSET Nat
  OBVIOUS
<1>6. \A k \in 0..n : k \in T
  <2> HIDE DEF T
  <2> QED BY <1>1, <1>3, <1>4, <1>5, ReachesEvery
<1> QED BY <1>1, <1>6 DEF n

\* The client sends a message, before or after it reads these replies.
LEMMA ReadsSent ==
  ASSUME NEW c, NEW out \in Seq(Replies), NEW z, Reads(c, out, z),
         NEW m \in Alphabet, InTurn(c, m), ~MayStillCopy(c)
  PROVE  Reads(Sends(c, m), out, Sends(z, m)) /\ ~Busy(z) /\ z.inBatch = c.inBatch
<1>1. PICK f : Stages(f, c, out) /\ f[Len(out)] = z
  BY DEF Reads
<1> DEFINE n == Len(out)
           h == [k \in 0..n |-> Sends(f[k], m)]
<1>2. n \in Nat
  BY LenProperties
<1>3. \A k \in 0..n : ~Busy(f[k]) /\ f[k].inBatch = c.inBatch
  BY <1>1, BusyNow
<1> HIDE DEF n
<1>4. /\ f \in [0..n -> Clients] /\ f[0] = c /\ f[n] = z
      /\ \A k \in 0..n : Sound(f[k])
      /\ \A k \in 0..n-1 : Due(f[k], out[k+1]) /\ f[k+1] = Taken(f[k], out[k+1])
  BY <1>1 DEF Stages, n
<1>5. ASSUME NEW k \in 0..n PROVE f[k] \in Clients /\ Sound(f[k]) /\ InTurn(f[k], m)
  BY <1>3, <1>4 DEF InTurn
<1>6. ASSUME NEW k \in 0..n PROVE ~f[k].copying
  <2> DEFINE w == f[k].waiting
  <2> SUFFICES ASSUME f[k].copying PROVE FALSE
    OBVIOUS
  <2>1. w \in Seq(Alphabet) /\ Len(w) = 1 /\ f[k].copied < CopyInsOf(w[1]) /\ ~f[k].failed
    BY <1>5, ClientTypes DEF Sound
  <2>2. Last(w) = w[Len(w)] /\ (w = << >> <=> Len(w) = 0)
    BY <2>1, ListFacts
  <2>3. w # << >> /\ Last(w) = w[1]
    BY <2>1, <2>2
  <2>4. f[k].copied \in Nat /\ CopyInsOf(w[1]) \in Nat
    BY <1>5, <2>1, <2>3, ClientTypes, CopyInsType, ListFacts
  <2>5. CopyInsOf(Last(w)) > f[k].copied
    BY <2>1, <2>3, <2>4
  <2>6. Busy(f[k])
    BY <2>1, <2>3, <2>5 DEF Busy, MayStillCopy
  <2> QED BY <1>3, <2>6
<1>7. ASSUME NEW k \in 0..n PROVE h[k] = Sends(f[k], m) /\ h[k] \in Clients /\ Sound(h[k])
  BY <1>5, <1>6, SoundSends
<1>8. ASSUME NEW k \in 0..n-1 PROVE Due(h[k], out[k+1]) /\ h[k+1] = Taken(h[k], out[k+1])
  <2>1. k \in 0..n /\ k + 1 \in 0..n
    BY <1>2
  <2>2. Due(f[k], out[k+1]) /\ f[k+1] = Taken(f[k], out[k+1])
    BY <1>4
  <2>3. out[k+1] # "CopyIn"
    <3> SUFFICES ASSUME out[k+1] = "CopyIn" PROVE FALSE
      OBVIOUS
    <3>1. f[k+1].copying
      <4>1. Expected(f[k], out[k+1]) /\ f[k] \in Clients
        BY <1>5, <2>1, <2>2 DEF Due
      <4> QED BY <2>2, <4>1, TakenBatch
    <3> QED BY <1>6, <2>1, <3>1
  <2>4. Due(Sends(f[k], m), out[k+1]) /\ Taken(Sends(f[k], m), out[k+1]) = Sends(f[k+1], m)
    BY <1>5, <2>1, <2>2, <2>3, SendsCommutes
  <2>5. h[k] = Sends(f[k], m) /\ h[k+1] = Sends(f[k+1], m)
    BY <2>1
  <2> QED BY <2>4, <2>5
<1>9. h \in [0..n -> Clients] /\ h[0] = Sends(c, m) /\ h[n] = Sends(z, m)
  BY <1>2, <1>4, <1>7
<1> HIDE DEF h
<1>10. Stages(h, Sends(c, m), out)
  BY <1>7, <1>8, <1>9 DEF Stages, n
<1>11. Reads(Sends(c, m), out, Sends(z, m))
  BY <1>9, <1>10 DEF Reads, n
<1>12. n \in 0..n
  BY <1>2
<1> QED BY <1>3, <1>4, <1>11, <1>12

\* It sends the rest of a CopyData.
LEMMA ReadsOwing ==
  ASSUME NEW c, NEW out \in Seq(Replies), NEW z, Reads(c, out, z), NEW b \in BOOLEAN
  PROVE  Reads(Owes(c, b), out, Owes(z, b))
<1>1. PICK f : Stages(f, c, out) /\ f[Len(out)] = z
  BY DEF Reads
<1> DEFINE n == Len(out)
           h == [k \in 0..n |-> Owes(f[k], b)]
<1>2. n \in Nat
  BY LenProperties
<1> HIDE DEF n
<1>4. /\ f \in [0..n -> Clients] /\ f[0] = c /\ f[n] = z
      /\ \A k \in 0..n : Sound(f[k])
      /\ \A k \in 0..n-1 : Due(f[k], out[k+1]) /\ f[k+1] = Taken(f[k], out[k+1])
  BY <1>1 DEF Stages, n
<1>7. ASSUME NEW k \in 0..n PROVE h[k] = Owes(f[k], b) /\ h[k] \in Clients /\ Sound(h[k])
  BY <1>4, OwesCommutes
<1>8. ASSUME NEW k \in 0..n-1 PROVE Due(h[k], out[k+1]) /\ h[k+1] = Taken(h[k], out[k+1])
  <2>1. k \in 0..n /\ k + 1 \in 0..n
    BY <1>2
  <2>2. Due(f[k], out[k+1]) /\ f[k+1] = Taken(f[k], out[k+1]) /\ f[k] \in Clients /\ Sound(f[k])
    BY <1>4, <2>1
  <2>3. Due(Owes(f[k], b), out[k+1]) /\ Taken(Owes(f[k], b), out[k+1]) = Owes(f[k+1], b)
    BY <2>2, OwesCommutes
  <2>4. h[k] = Owes(f[k], b) /\ h[k+1] = Owes(f[k+1], b)
    BY <2>1
  <2> QED BY <2>3, <2>4
<1>9. h \in [0..n -> Clients] /\ h[0] = Owes(c, b) /\ h[n] = Owes(z, b)
  BY <1>2, <1>4, <1>7
<1> HIDE DEF h
<1>10. Stages(h, Owes(c, b), out)
  BY <1>7, <1>8, <1>9 DEF Stages, n
<1> QED BY <1>9, <1>10 DEF Reads, n

\* One reply before the others.
LEMMA ReadsBefore ==
  ASSUME NEW c \in Clients, Sound(c), NEW out \in Seq(Replies), out # << >>, NEW z,
         Due(c, out[1]), Reads(Taken(c, out[1]), Tail(out), z)
  PROVE  Reads(c, out, z)
<1>1. PICK f : Stages(f, Taken(c, out[1]), Tail(out)) /\ f[Len(Tail(out))] = z
  BY DEF Reads
<1> DEFINE n == Len(out)
           h == [k \in 0..n |-> IF k = 0 THEN c ELSE f[k-1]]
<1>2. /\ n \in Nat /\ n # 0 /\ Len(Tail(out)) = n - 1
      /\ \A i \in 1..n-1 : Tail(out)[i] = out[i+1]
  BY LenProperties, EmptySeq, HeadTailProperties
<1> HIDE DEF n
<1>3. /\ f \in [0..n-1 -> Clients] /\ f[0] = Taken(c, out[1]) /\ f[n-1] = z
      /\ \A k \in 0..n-1 : Sound(f[k])
      /\ \A k \in 0..(n-1)-1 : Due(f[k], Tail(out)[k+1]) /\ f[k+1] = Taken(f[k], Tail(out)[k+1])
  BY <1>1, <1>2 DEF Stages
<1>4. ASSUME NEW k \in 0..n PROVE h[k] \in Clients /\ Sound(h[k])
  <2>1. k # 0 => k - 1 \in 0..n-1
    BY <1>2
  <2> QED BY <1>3, <2>1
<1>5. h[0] = c /\ \A k \in 0..n-1 : h[k+1] = f[k]
  BY <1>2
<1>6. h \in [0..n -> Clients]
  BY <1>4
<1> HIDE DEF h
<1>7. ASSUME NEW k \in 0..n-1 PROVE Due(h[k], out[k+1]) /\ h[k+1] = Taken(h[k], out[k+1])
  <2>1. CASE k = 0
    BY <1>2, <1>3, <1>5, <2>1
  <2>2. CASE k # 0
    <3>1. k - 1 \in 0..(n-1)-1 /\ k - 1 \in 0..n-1 /\ k \in 1..n-1 /\ (k - 1) + 1 = k
      BY <1>2, <2>2
    <3>2. Due(f[k-1], Tail(out)[k]) /\ f[k] = Taken(f[k-1], Tail(out)[k])
      BY <1>3, <3>1
    <3>3. Tail(out)[k] = out[k+1] /\ h[k] = f[k-1] /\ h[k+1] = f[k]
      BY <1>2, <1>5, <3>1
    <3> QED BY <3>2, <3>3
  <2> QED BY <2>1, <2>2
<1>8. Stages(h, c, out)
  BY <1>4, <1>5, <1>6, <1>7 DEF Stages, n
<1>9. h[n] = z
  <2>1. n - 1 \in 0..n-1 /\ (n - 1) + 1 = n
    BY <1>2
  <2> QED BY <1>3, <1>5, <2>1
<1> QED BY <1>8, <1>9 DEF Reads, n

\* What is over stays over.
LEMMA ReadsOver ==
  ASSUME NEW c, NEW out \in Seq(Replies), NEW z, Reads(c, out, z), Over(c)
  PROVE  Over(z)
<1>1. PICK f : Stages(f, c, out) /\ f[Len(out)] = z
  BY DEF Reads
<1> DEFINE n == Len(out)
           T == {k \in Nat : k <= n => Over(f[k])}
<1>2. n \in Nat
  BY LenProperties
<1> HIDE DEF n
<1>3. /\ f \in [0..n -> Clients] /\ f[0] = c /\ f[n] = z
      /\ \A k \in 0..n : Sound(f[k])
      /\ \A k \in 0..n-1 : Due(f[k], out[k+1]) /\ f[k+1] = Taken(f[k], out[k+1])
  BY <1>1 DEF Stages, n
<1>4. 0 \in T
  BY <1>3
<1>5. ASSUME NEW k \in T, k < n PROVE k + 1 \in T
  <2>1. k \in 0..n /\ k \in 0..n-1 /\ k + 1 \in 0..n
    BY <1>2, <1>5
  <2>2. Over(f[k])
    BY <1>2, <1>5
  <2>3. f[k] \in Clients /\ Sound(f[k]) /\ Due(f[k], out[k+1]) /\ f[k+1] = Taken(f[k], out[k+1])
    BY <1>3, <2>1
  <2>4. Over(f[k+1])
    BY <2>2, <2>3, OverAfter
  <2> QED BY <2>4
<1>6. T \in SUBSET Nat /\ n \in 0..n
  BY <1>2
<1>7. \A k \in 0..n : k \in T
  <2> HIDE DEF T
  <2> QED BY <1>2, <1>4, <1>5, <1>6, ReachesEvery
<1>8. Over(f[n])
  BY <1>2, <1>6, <1>7
<1> QED BY <1>3, <1>8

\* The client sends a message of a copy that an error it has not read has ended.
LEMMA ReadsCopied ==
  ASSUME NEW c, NEW out \in Seq(Replies), NEW z, Reads(c, out, z), c.copying, out # << >>, NEW tag
  PROVE  /\ Over(z)
         /\ Reads(Copies(c, tag), out, Owes(z, tag = "CopyData" /\ ~WholeMessages))
<1> DEFINE o == tag = "CopyData" /\ ~WholeMessages
           d == Taken(c, "Error")
<1>1. c \in Clients /\ Sound(c) /\ Due(c, out[1])
  BY ReadsEnds
<1>2. out[1] = "Error"
  BY <1>1 DEF Due
<1>3. Reads(d, Tail(out), z)
  BY <1>2, ReadsFirst
<1>4. Tail(out) \in Seq(Replies)
  BY HeadTailProperties
<1>5. Over(d)
  BY <1>1, OverOnError
<1>6. Over(z)
  BY <1>3, <1>4, <1>5, ReadsOver
<1>7. o \in BOOLEAN
  OBVIOUS
<1> HIDE DEF o, d
<1>8. Reads(Owes(d, o), Tail(out), Owes(z, o))
  BY <1>3, <1>4, <1>7, ReadsOwing
<1>9. /\ Copies(c, tag) \in Clients /\ Sound(Copies(c, tag)) /\ Due(Copies(c, tag), "Error")
      /\ Taken(Copies(c, tag), "Error") = Owes(d, o)
  BY <1>1, SoundCopies DEF o, d
<1>10. Reads(Copies(c, tag), out, Owes(z, o))
  BY <1>2, <1>8, <1>9, ReadsBefore
<1> QED BY <1>6, <1>10 DEF o
-----------------------------------------------------------------------------
\* What the server owes answers to when it has read the inbox.

\* The messages that are never answered; the others are, unless the server is
\* skipping and owes no answer that would end it.
Unanswered(m) == m.tag \in {"CopyData", "CopyDone", "CopyFail", "Flush", "body", "Terminate"}
Live(skip, W, m) == ~Unanswered(m) /\ (skip /\ W = << >> => EndsWithReady(m))
AddLive(skip, W, m) == IF Live(skip, W, m) THEN Append(W, m) ELSE W

\* A Query follows what ends with ReadyForQuery.
Synced(W) == \A i \in 1..Len(W)-1 : W[i+1].tag = "Query" => EndsWithReady(W[i])

\* What the server owes answers to, as it will be when it has read each message.
\* What may start a copy is the last that the client has sent.
Lists(g, skip, first, in) ==
  /\ g \in [0..Len(in) -> Seq(Alphabet)] /\ g[0] = first
  /\ \A i \in 0..Len(in) : Synced(g[i]) /\ (skip /\ g[i] # << >> => g[i][1].tag = "Sync")
  /\ \A i \in 0..Len(in)-1 :
       /\ g[i+1] = AddLive(skip, g[i], in[i+1])
       /\ Live(skip, g[i], in[i+1]) /\ CopyInsOf(in[i+1]) > 0 => i + 1 = Len(in)
Queued(skip, first, in, W) == \E g : Lists(g, skip, first, in) /\ g[Len(in)] = W

\* What is answered is a message of the client's alphabet.
LEMMA AnsweredMessages ==
  ASSUME NEW m \in Incoming, ~Unanswered(m)
  PROVE  m \in Alphabet
  BY DEF Incoming, Unanswered, CopyMessages, Body

\* Lists of messages in which a Query follows what ends with ReadyForQuery.
LEMMA SyncedAppend ==
  ASSUME NEW w \in Seq(Alphabet), Synced(w), NEW m \in Alphabet,
         m.tag = "Query" /\ w # << >> => EndsWithReady(w[Len(w)])
  PROVE  Synced(Append(w, m))
<1> DEFINE v == Append(w, m)
<1>1. Len(w) \in Nat /\ (w = << >> <=> Len(w) = 0)
  BY ListFacts
<1>2. /\ Len(v) = Len(w) + 1 /\ v[Len(w) + 1] = m /\ \A i \in 1..Len(w) : v[i] = w[i]
  BY AppendProperties
<1> HIDE DEF v
<1>3. ASSUME NEW i \in 1..Len(v)-1, v[i+1].tag = "Query" PROVE EndsWithReady(v[i])
  <2>1. i \in 1..Len(w) /\ v[i] = w[i]
    BY <1>1, <1>2
  <2>2. CASE i = Len(w)
    BY <1>1, <1>2, <1>3, <2>1, <2>2
  <2>3. CASE i # Len(w)
    <3>1. i \in 1..Len(w)-1 /\ i + 1 \in 1..Len(w)
      BY <1>1, <2>1, <2>3
    <3> QED BY <1>2, <1>3, <2>1, <3>1 DEF Synced
  <2> QED BY <2>2, <2>3
<1>4. Synced(v)
  BY <1>3 DEF Synced
<1> QED BY <1>4 DEF v
\* So does the rest of such a list.
LEMMA SyncedTail ==
  ASSUME NEW w \in Seq(Alphabet), Synced(w), w # << >>
  PROVE  Synced(Tail(w))
<1> DEFINE v == Tail(w)
<1>1. Len(w) \in Nat /\ Len(v) = Len(w) - 1 /\ \A i \in 1..Len(w)-1 : v[i] = w[i+1]
  BY ListFacts
<1> HIDE DEF v
<1>2. ASSUME NEW i \in 1..Len(v)-1, v[i+1].tag = "Query" PROVE EndsWithReady(v[i])
  <2>1. i \in 1..Len(w)-1 /\ i + 1 \in 1..Len(w)-1
    BY <1>1
  <2>2. v[i] = w[i+1] /\ v[i+1] = w[(i+1)+1]
    BY <1>1, <2>1
  <2> QED BY <1>2, <2>1, <2>2 DEF Synced
<1>3. Synced(v)
  BY <1>2 DEF Synced
<1> QED BY <1>3 DEF v

\* An error leaves a list that starts with a Sync, unless it starts with the Query
\* that failed.
LEMMA SyncedSurviving ==
  ASSUME NEW w \in Seq(Alphabet), Synced(w), w # << >>, ~EndsWithReady(w[1])
  PROVE  Synced(Surviving(w)) /\ (Surviving(w) # << >> => Surviving(w)[1].tag = "Sync")
<1>0. Len(w) \in Nat
  BY ListFacts
<1>1. CASE \A k \in 1..Len(w) : ~EndsWithReady(w[k])
  <2>1. Surviving(w) = << >>
    BY <1>1, SurvivingIff
  <2> QED BY <2>1 DEF Synced
<1>2. CASE \E k \in 1..Len(w) : EndsWithReady(w[k])
  <2> DEFINE v == Surviving(w)
  <2>1. PICK p \in 1..Len(w) :
           /\ EndsWithReady(w[p]) /\ \A i \in 1..p-1 : ~EndsWithReady(w[i])
           /\ v \in Seq(Alphabet) /\ Len(v) = Len(w) - p + 1
           /\ \A i \in 1..Len(w)-p+1 : v[i] = w[p+i-1]
    BY <1>2, SurvivingSome
  <2> HIDE DEF v
  <2>2. p # 1 /\ p - 1 \in 1..p-1 /\ p - 1 \in 1..Len(w)-1 /\ (p - 1) + 1 = p
    BY <1>0, <2>1
  <2>3. ~EndsWithReady(w[p-1])
    BY <2>1, <2>2
  <2>4. w[p].tag = "Sync"
    <3>1. w[p].tag # "Query"
      BY <2>2, <2>3 DEF Synced
    <3> QED BY <2>1, <3>1 DEF EndsWithReady
  <2>5. v[1] = w[p]
    <3>1. 1 \in 1..Len(w)-p+1 /\ p + 1 - 1 = p
      BY <1>0
    <3> QED BY <2>1, <3>1
  <2>6. ASSUME NEW i \in 1..Len(v)-1, v[i+1].tag = "Query" PROVE EndsWithReady(v[i])
    <3>1. /\ i \in 1..Len(w)-p+1 /\ i + 1 \in 1..Len(w)-p+1
          /\ p+i-1 \in 1..Len(w)-1 /\ p+(i+1)-1 = (p+i-1)+1
      BY <1>0, <2>1
    <3>2. v[i] = w[p+i-1] /\ v[i+1] = w[(p+i-1)+1]
      BY <2>1, <3>1
    <3> QED BY <2>6, <3>1, <3>2 DEF Synced
  <2>7. Synced(v)
    BY <2>6 DEF Synced
  <2> QED BY <2>4, <2>5, <2>7 DEF v
<1> QED BY <1>1, <1>2

\* The two ends of what is queued.
LEMMA QueuedEnds ==
  ASSUME NEW skip \in BOOLEAN, NEW first, NEW in \in Seq(Incoming), NEW W, Queued(skip, first, in, W)
  PROVE  /\ first \in Seq(Alphabet) /\ W \in Seq(Alphabet)
         /\ skip /\ first # << >> => first[1].tag = "Sync"
         /\ skip /\ W # << >> => W[1].tag = "Sync"
         /\ in = << >> => W = first
<1>1. PICK g : Lists(g, skip, first, in) /\ g[Len(in)] = W
  BY DEF Queued
<1>2. Len(in) \in Nat /\ (in = << >> <=> Len(in) = 0)
  BY LenProperties, EmptySeq
<1>3. 0 \in 0..Len(in) /\ Len(in) \in 0..Len(in)
  BY <1>2
<1>4. /\ first \in Seq(Alphabet) /\ W \in Seq(Alphabet)
      /\ skip /\ first # << >> => first[1].tag = "Sync"
      /\ skip /\ W # << >> => W[1].tag = "Sync"
  BY <1>1, <1>3 DEF Lists
<1>5. in = << >> => W = first
  BY <1>1, <1>2 DEF Lists
<1> QED BY <1>4, <1>5

\* With nothing sent.
LEMMA QueuedNothing ==
  ASSUME NEW first \in Seq(Alphabet), Synced(first), NEW skip \in BOOLEAN,
         skip /\ first # << >> => first[1].tag = "Sync"
  PROVE  Queued(skip, first, << >>, first)
<1> DEFINE g == [i \in 0..0 |-> first]
<1>1. Lists(g, skip, first, << >>) /\ g[Len(<< >>)] = first
  BY DEF Lists
<1> HIDE DEF g
<1> QED BY <1>1 DEF Queued

\* A message that is under way is the first.
LEMMA ListsFirst ==
  ASSUME NEW g, NEW skip \in BOOLEAN, NEW m \in Alphabet, NEW in \in Seq(Incoming),
         Lists(g, skip, << m >>, in)
  PROVE  \A i \in 0..Len(in) : g[i] \in Seq(Alphabet) /\ g[i] # << >> /\ g[i][1] = m
<1> DEFINE n == Len(in)
           T == {i \in Nat : i <= n => g[i] # << >> /\ g[i][1] = m}
<1>1. n \in Nat /\ \A i \in 1..n : in[i] \in Incoming
  BY LenProperties, ElementOfSeq
<1> HIDE DEF n
<1>2. /\ g \in [0..n -> Seq(Alphabet)] /\ g[0] = << m >>
      /\ \A i \in 0..n-1 : g[i+1] = AddLive(skip, g[i], in[i+1])
  BY DEF Lists, n
<1>3. 0 \in T
  BY <1>2
<1>4. ASSUME NEW i \in T, i < n PROVE i + 1 \in T
  <2>1. i \in 0..n /\ i \in 0..n-1 /\ i + 1 \in 1..n
    BY <1>1, <1>4
  <2>2. g[i] \in Seq(Alphabet) /\ g[i] # << >> /\ g[i][1] = m
    BY <1>1, <1>2, <1>4, <2>1
  <2>3. g[i+1] = AddLive(skip, g[i], in[i+1])
    BY <1>2, <2>1
  <2>4. CASE Live(skip, g[i], in[i+1])
    <3>1. in[i+1] \in Alphabet
      BY <1>1, <2>1, <2>4, AnsweredMessages DEF Live
    <3>2. 1 \in 1..Len(g[i])
      BY <2>2, ListFacts
    <3>3. g[i+1] = Append(g[i], in[i+1])
      BY <2>3, <2>4 DEF AddLive
    <3>4. g[i+1] # << >> /\ g[i+1][1] = g[i][1]
      BY <2>2, <3>1, <3>2, <3>3, AppendProperties
    <3> QED BY <2>2, <3>4
  <2>5. CASE ~Live(skip, g[i], in[i+1])
    <3>1. g[i+1] = g[i]
      BY <2>3, <2>5 DEF AddLive
    <3> QED BY <2>2, <3>1
  <2> QED BY <2>4, <2>5
<1>5. T \in SUBSET Nat
  OBVIOUS
<1>6. \A i \in 0..n : i \in T
  <2> HIDE DEF T
  <2> QED BY <1>1, <1>3, <1>4, <1>5, ReachesEvery
<1>7. ASSUME NEW i \in 0..n PROVE g[i] \in Seq(Alphabet) /\ g[i] # << >> /\ g[i][1] = m
  BY <1>1, <1>2, <1>6
<1> QED BY <1>7 DEF n
\* So is it of all that will be owed.
LEMMA QueuedFirst ==
  ASSUME NEW skip \in BOOLEAN, NEW m \in Alphabet, NEW in \in Seq(Incoming), NEW W,
         Queued(skip, << m >>, in, W)
  PROVE  W # << >> /\ W[1] = m
<1>1. PICK g : Lists(g, skip, << m >>, in) /\ g[Len(in)] = W
  BY DEF Queued
<1>2. Len(in) \in 0..Len(in)
  BY LenProperties
<1>3. \A i \in 0..Len(in) : g[i] # << >> /\ g[i][1] = m
  BY <1>1, ListsFirst
<1> QED BY <1>1, <1>2, <1>3

\* The server reads a message.
LEMMA QueuedRead ==
  ASSUME NEW skip \in BOOLEAN, NEW first, NEW in \in Seq(Incoming), NEW W,
         Queued(skip, first, in, W), in # << >>
  PROVE  /\ Queued(skip, AddLive(skip, first, in[1]), Tail(in), W)
         /\ Live(skip, first, in[1]) /\ CopyInsOf(in[1]) > 0 => Len(in) = 1
<1>1. PICK g : Lists(g, skip, first, in) /\ g[Len(in)] = W
  BY DEF Queued
<1> DEFINE n == Len(in)
           h == [i \in 0..n-1 |-> g[i+1]]
<1>2. /\ n \in Nat /\ n # 0 /\ Len(Tail(in)) = n - 1
      /\ \A i \in 1..n-1 : Tail(in)[i] = in[i+1]
  BY LenProperties, EmptySeq, HeadTailProperties
<1> HIDE DEF n
<1>3. /\ g \in [0..n -> Seq(Alphabet)] /\ g[0] = first /\ g[n] = W
      /\ \A i \in 0..n : Synced(g[i]) /\ (skip /\ g[i] # << >> => g[i][1].tag = "Sync")
  BY <1>1 DEF Lists, n
<1>4. \A i \in 0..n-1 :
       /\ g[i+1] = AddLive(skip, g[i], in[i+1])
       /\ Live(skip, g[i], in[i+1]) /\ CopyInsOf(in[i+1]) > 0 => i + 1 = n
  BY <1>1 DEF Lists, n
<1>5. /\ g[1] = AddLive(skip, first, in[1])
      /\ Live(skip, first, in[1]) /\ CopyInsOf(in[1]) > 0 => 1 = n
  <2>1. 0 \in 0..n-1 /\ 0 + 1 = 1
    BY <1>2
  <2> QED BY <1>3, <1>4, <2>1
<1>6. h \in [0..n-1 -> Seq(Alphabet)] /\ h[0] = g[1] /\ h[n-1] = W
  BY <1>2, <1>3
<1>7. \A i \in 0..n-1 : h[i] = g[i+1]
  OBVIOUS
<1> HIDE DEF h
<1>8. ASSUME NEW i \in 0..n-1 PROVE Synced(h[i]) /\ (skip /\ h[i] # << >> => h[i][1].tag = "Sync")
  <2>1. i + 1 \in 0..n /\ h[i] = g[i+1]
    BY <1>2, <1>7
  <2> QED BY <1>3, <2>1
<1>9. ASSUME NEW i \in 0..(n-1)-1
      PROVE  /\ h[i+1] = AddLive(skip, h[i], Tail(in)[i+1])
             /\ Live(skip, h[i], Tail(in)[i+1]) /\ CopyInsOf(Tail(in)[i+1]) > 0 => i + 1 = n - 1
  <2>1. i \in 0..n-1 /\ i + 1 \in 0..n-1 /\ i + 1 \in 1..n-1
    BY <1>2
  <2>2. h[i] = g[i+1] /\ h[i+1] = g[(i+1)+1] /\ Tail(in)[i+1] = in[(i+1)+1]
    BY <1>2, <1>7, <2>1
  <2>3. /\ g[(i+1)+1] = AddLive(skip, g[i+1], in[(i+1)+1])
        /\ Live(skip, g[i+1], in[(i+1)+1]) /\ CopyInsOf(in[(i+1)+1]) > 0 => (i + 1) + 1 = n
    BY <1>4, <2>1
  <2>4. (i + 1) + 1 = n => i + 1 = n - 1
    BY <1>2
  <2> QED BY <2>2, <2>3, <2>4
<1>10. Lists(h, skip, g[1], Tail(in))
  BY <1>2, <1>6, <1>8, <1>9 DEF Lists
<1>11. Queued(skip, g[1], Tail(in), W)
  BY <1>2, <1>6, <1>10 DEF Queued
<1> QED BY <1>5, <1>11 DEF n

\* A message that is never answered is read.
LEMMA QueuedSkips ==
  ASSUME NEW skip \in BOOLEAN, NEW first, NEW in \in Seq(Incoming), NEW W,
         Queued(skip, first, in, W), in # << >>, Unanswered(in[1])
  PROVE  Queued(skip, first, Tail(in), W)
<1>1. AddLive(skip, first, in[1]) = first
  BY DEF AddLive, Live
<1> QED BY <1>1, QueuedRead

\* The message under way is answered; if it ends with ReadyForQuery, so does
\* skipping.
LEMMA QueuedAnswered ==
  ASSUME NEW skip \in BOOLEAN, NEW m \in Alphabet, NEW in \in Seq(Incoming), NEW W,
         Queued(skip, << m >>, in, W), NEW next \in BOOLEAN, ~next
  PROVE  Queued(next, << >>, in, Tail(W))
<1>1. PICK g : Lists(g, skip, << m >>, in) /\ g[Len(in)] = W
  BY DEF Queued
<1> DEFINE n == Len(in)
           h == [i \in 0..n |-> Tail(g[i])]
<1>2. n \in Nat /\ \A i \in 1..n : in[i] \in Incoming
  BY LenProperties, ElementOfSeq
<1>3. \A i \in 0..n : g[i] \in Seq(Alphabet) /\ g[i] # << >> /\ g[i][1] = m
  BY <1>1, ListsFirst
<1> HIDE DEF n
<1>4. /\ g[0] = << m >> /\ g[n] = W
      /\ \A i \in 0..n : Synced(g[i])
      /\ \A i \in 0..n-1 :
           /\ g[i+1] = AddLive(skip, g[i], in[i+1])
           /\ Live(skip, g[i], in[i+1]) /\ CopyInsOf(in[i+1]) > 0 => i + 1 = n
  BY <1>1 DEF Lists, n
<1>5. ASSUME NEW i \in 0..n PROVE h[i] = Tail(g[i]) /\ h[i] \in Seq(Alphabet) /\ Synced(h[i])
  <2>1. Tail(g[i]) \in Seq(Alphabet) /\ Synced(Tail(g[i]))
    BY <1>3, <1>4, ListFacts, SyncedTail
  <2> QED BY <2>1
<1>6. h \in [0..n -> Seq(Alphabet)] /\ h[0] = << >> /\ h[n] = Tail(W)
  <2>1. Tail(<< m >>) = << >>
    OBVIOUS
  <2>2. 0 \in 0..n /\ n \in 0..n
    BY <1>2
  <2>3. h[0] = << >> /\ h[n] = Tail(W)
    BY <1>4, <2>1, <2>2
  <2> QED BY <1>5, <2>3
<1> HIDE DEF h
<1>7. ASSUME NEW i \in 0..n-1
      PROVE  /\ h[i+1] = AddLive(next, h[i], in[i+1])
             /\ Live(next, h[i], in[i+1]) /\ CopyInsOf(in[i+1]) > 0 => i + 1 = n
  <2>1. i \in 0..n /\ i + 1 \in 0..n /\ i + 1 \in 1..n
    BY <1>2
  <2>2. Live(next, h[i], in[i+1]) <=> Live(skip, g[i], in[i+1])
    BY <1>3, <2>1 DEF Live
  <2>3. CASE Live(skip, g[i], in[i+1])
    <3>1. in[i+1] \in Alphabet
      BY <1>2, <2>1, <2>3, AnsweredMessages DEF Live
    <3>2. Tail(Append(g[i], in[i+1])) = Append(Tail(g[i]), in[i+1])
      BY <1>3, <2>1, HeadTailAppend
    <3>3. g[i+1] = Append(g[i], in[i+1])
      BY <1>4, <2>3 DEF AddLive
    <3>4. h[i+1] = Append(h[i], in[i+1])
      BY <1>5, <2>1, <3>2, <3>3
    <3> QED BY <1>4, <2>2, <2>3, <3>4 DEF AddLive
  <2>4. CASE ~Live(skip, g[i], in[i+1])
    <3>1. g[i+1] = g[i]
      BY <1>4, <2>4 DEF AddLive
    <3>2. h[i+1] = h[i]
      BY <1>5, <2>1, <3>1
    <3> QED BY <2>2, <2>4, <3>2 DEF AddLive
  <2> QED BY <2>3, <2>4
<1>8. Lists(h, next, << >>, in)
  BY <1>5, <1>6, <1>7 DEF Lists, n
<1> QED BY <1>6, <1>8 DEF Queued, n

\* The message under way fails, and does not end with ReadyForQuery: the server
\* skips to the next that does.
LEMMA QueuedFailed ==
  ASSUME NEW skip \in BOOLEAN, ~skip, NEW m \in Alphabet, ~EndsWithReady(m),
         NEW in \in Seq(Incoming), NEW W,
         Queued(skip, << m >>, in, W), NEW next \in BOOLEAN, next
  PROVE  Queued(next, << >>, in, Surviving(W))
<1>1. PICK g : Lists(g, skip, << m >>, in) /\ g[Len(in)] = W
  BY DEF Queued
<1> DEFINE n == Len(in)
           h == [i \in 0..n |-> Surviving(g[i])]
<1>2. n \in Nat /\ \A i \in 1..n : in[i] \in Incoming
  BY LenProperties, ElementOfSeq
<1>3. \A i \in 0..n : g[i] \in Seq(Alphabet) /\ g[i] # << >> /\ g[i][1] = m
  BY <1>1, ListsFirst
<1> HIDE DEF n
<1>4. /\ g[0] = << m >> /\ g[n] = W
      /\ \A i \in 0..n : Synced(g[i])
      /\ \A i \in 0..n-1 :
           /\ g[i+1] = AddLive(skip, g[i], in[i+1])
           /\ Live(skip, g[i], in[i+1]) /\ CopyInsOf(in[i+1]) > 0 => i + 1 = n
  BY <1>1 DEF Lists, n
<1>5. ASSUME NEW i \in 0..n
      PROVE  /\ h[i] = Surviving(g[i]) /\ h[i] \in Seq(Alphabet) /\ Synced(h[i])
             /\ h[i] # << >> => h[i][1].tag = "Sync"
  <2>1. Surviving(g[i]) \in Seq(Alphabet)
    BY <1>3, SurvivingIff
  <2>2. Synced(Surviving(g[i])) /\ (Surviving(g[i]) # << >> => Surviving(g[i])[1].tag = "Sync")
    BY <1>3, <1>4, SyncedSurviving
  <2>3. h[i] = Surviving(g[i])
    OBVIOUS
  <2> HIDE DEF h
  <2> QED BY <2>1, <2>2, <2>3
<1>6. h \in [0..n -> Seq(Alphabet)] /\ h[0] = << >> /\ h[n] = Surviving(W)
  <2>1. << m >> \in Seq(Alphabet) /\ Len(<< m >>) = 1 /\ << m >>[1] = m
    OBVIOUS
  <2>2. Surviving(<< m >>) = << >>
    <3>1. \A k \in 1..Len(<< m >>) : ~EndsWithReady(<< m >>[k])
      BY <2>1
    <3> QED BY <2>1, <3>1, SurvivingNone
  <2>3. 0 \in 0..n /\ n \in 0..n
    BY <1>2
  <2> QED BY <1>4, <1>5, <2>2, <2>3
<1> HIDE DEF h
<1>7. ASSUME NEW i \in 0..n-1
      PROVE  /\ h[i+1] = AddLive(next, h[i], in[i+1])
             /\ Live(next, h[i], in[i+1]) /\ CopyInsOf(in[i+1]) > 0 => i + 1 = n
  <2>1. i \in 0..n /\ i + 1 \in 0..n /\ i + 1 \in 1..n
    BY <1>2
  <2>2. Live(next, h[i], in[i+1]) => Live(skip, g[i], in[i+1])
    BY DEF Live
  <2>3. CASE Live(skip, g[i], in[i+1])
    <3> DEFINE a == in[i+1]
    <3>1. a \in Alphabet /\ ~Unanswered(a)
      BY <1>2, <2>1, <2>3, AnsweredMessages DEF Live
    <3>2. g[i+1] = Append(g[i], a)
      BY <1>4, <2>3 DEF AddLive
    <3> HIDE DEF a
    <3>3. Surviving(g[i+1]) =
            IF Surviving(g[i]) # << >> THEN Append(Surviving(g[i]), a)
            ELSE IF EndsWithReady(a) THEN << a >> ELSE << >>
      BY <1>3, <2>1, <3>1, <3>2, SurvivingAppend
    <3>4. h[i+1] = IF h[i] # << >> THEN Append(h[i], a)
                   ELSE IF EndsWithReady(a) THEN << a >> ELSE << >>
      BY <1>5, <2>1, <3>3
    <3>5. Append(<< >>, a) = << a >>
      OBVIOUS
    <3>6. h[i+1] = AddLive(next, h[i], a)
      BY <3>1, <3>4, <3>5 DEF AddLive, Live
    <3> QED BY <1>4, <2>2, <3>6 DEF a
  <2>4. CASE ~Live(skip, g[i], in[i+1])
    <3>1. g[i+1] = g[i]
      BY <1>4, <2>4 DEF AddLive
    <3>2. h[i+1] = h[i]
      BY <1>5, <2>1, <3>1
    <3> QED BY <2>2, <2>4, <3>2 DEF AddLive
  <2> QED BY <2>3, <2>4
<1>8. Lists(h, next, << >>, in)
  BY <1>5, <1>6, <1>7 DEF Lists, n
<1> QED BY <1>6, <1>8 DEF Queued, n

\* What is owed does not become nothing by reading.
LEMMA ListsStart ==
  ASSUME NEW g, NEW skip \in BOOLEAN, NEW first \in Seq(Alphabet), first # << >>,
         NEW in \in Seq(Incoming), Lists(g, skip, first, in)
  PROVE  \A i \in 0..Len(in) : g[i] # << >>
<1> DEFINE n == Len(in)
           T == {i \in Nat : i <= n => g[i] # << >>}
<1>1. n \in Nat /\ \A i \in 1..n : in[i] \in Incoming
  BY LenProperties, ElementOfSeq
<1> HIDE DEF n
<1>2. /\ g \in [0..n -> Seq(Alphabet)] /\ g[0] = first
      /\ \A i \in 0..n-1 : g[i+1] = AddLive(skip, g[i], in[i+1])
  BY DEF Lists, n
<1>3. 0 \in T
  BY <1>2
<1>4. ASSUME NEW i \in T, i < n PROVE i + 1 \in T
  <2>1. i \in 0..n /\ i \in 0..n-1 /\ i + 1 \in 1..n
    BY <1>1, <1>4
  <2>2. g[i] \in Seq(Alphabet) /\ g[i] # << >>
    BY <1>1, <1>2, <1>4, <2>1
  <2>3. g[i+1] = AddLive(skip, g[i], in[i+1])
    BY <1>2, <2>1
  <2>4. Live(skip, g[i], in[i+1]) => in[i+1] \in Alphabet
    BY <1>1, <2>1, AnsweredMessages DEF Live
  <2>5. g[i+1] # << >>
    BY <2>2, <2>3, <2>4, AppendProperties DEF AddLive
  <2> QED BY <2>5
<1>5. T \in SUBSET Nat
  OBVIOUS
<1>6. \A i \in 0..n : i \in T
  <2> HIDE DEF T
  <2> QED BY <1>1, <1>3, <1>4, <1>5, ReachesEvery
<1>7. ASSUME NEW i \in 0..n PROVE g[i] # << >>
  BY <1>1, <1>6
<1> QED BY <1>7 DEF n

\* The client sends one more message, and no message that may start a copy is
\* before it.
LEMMA QueuedSent ==
  ASSUME NEW skip \in BOOLEAN, NEW first, NEW in \in Seq(Incoming), NEW W,
         Queued(skip, first, in, W), NEW m \in Incoming,
         m.tag = "Query" => /\ W # << >> => EndsWithReady(W[Len(W)])
                            /\ ~(skip /\ W = << >>),
         \/ in = << >> \/ CopyInsOf(in[Len(in)]) = 0
         \/ W = << >> \/ CopyInsOf(W[Len(W)]) = 0
         \/ Len(W) = 1 /\ first # << >>
  PROVE  Queued(skip, first, Append(in, m), AddLive(skip, W, m))
<1>1. PICK g : Lists(g, skip, first, in) /\ g[Len(in)] = W
  BY DEF Queued
<1> DEFINE n == Len(in)
           more == Append(in, m)
           V == AddLive(skip, W, m)
           h == [i \in 0..n+1 |-> IF i = n + 1 THEN V ELSE g[i]]
<1>2. /\ n \in Nat /\ (in = << >> <=> n = 0) /\ \A i \in 1..n : in[i] \in Incoming
      /\ Len(more) = n + 1 /\ more[n+1] = m /\ \A i \in 1..n : more[i] = in[i]
  BY LenProperties, EmptySeq, ElementOfSeq, AppendProperties
<1>3. W \in Seq(Alphabet) /\ first \in Seq(Alphabet) /\ (skip /\ W # << >> => W[1].tag = "Sync")
  BY QueuedEnds
<1> HIDE DEF n, more
<1>4. /\ g \in [0..n -> Seq(Alphabet)] /\ g[0] = first /\ g[n] = W
      /\ \A i \in 0..n : Synced(g[i]) /\ (skip /\ g[i] # << >> => g[i][1].tag = "Sync")
  BY <1>1 DEF Lists, n
<1>5. \A i \in 0..n-1 :
           /\ g[i+1] = AddLive(skip, g[i], in[i+1])
           /\ Live(skip, g[i], in[i+1]) /\ CopyInsOf(in[i+1]) > 0 => i + 1 = n
  BY <1>1 DEF Lists, n
<1>6. V \in Seq(Alphabet) /\ Synced(V) /\ (skip /\ V # << >> => V[1].tag = "Sync")
  <2>0. Synced(W)
    BY <1>2, <1>4
  <2>1. CASE Live(skip, W, m)
    <3>1. m \in Alphabet
      BY <2>1, AnsweredMessages DEF Live
    <3>2. V = Append(W, m)
      BY <2>1 DEF AddLive
    <3>3. V \in Seq(Alphabet) /\ Synced(V)
      <4>1. m.tag = "Query" /\ W # << >> => EndsWithReady(W[Len(W)])
        OBVIOUS
      <4>2. Append(W, m) \in Seq(Alphabet)
        BY <1>3, <3>1, AppendProperties
      <4>3. Synced(Append(W, m))
        BY <1>3, <2>0, <3>1, <4>1, SyncedAppend
      <4> QED BY <3>2, <4>2, <4>3
    <3>4. Len(W) \in Nat /\ (W = << >> => Len(W) = 0) /\ (W # << >> => 1 \in 1..Len(W))
      BY <1>3, ListFacts
    <3>5. (W = << >> => Append(W, m)[1] = m) /\ (W # << >> => Append(W, m)[1] = W[1])
      BY <1>3, <3>1, <3>4, AppendProperties
    <3>6. skip /\ W = << >> => m.tag = "Sync"
      <4>1. skip /\ W = << >> => m.tag # "Query"
        OBVIOUS
      <4>2. skip /\ W = << >> => EndsWithReady(m)
        BY <2>1 DEF Live
      <4> QED BY <4>1, <4>2 DEF EndsWithReady
    <3> QED BY <1>3, <3>2, <3>3, <3>5, <3>6
  <2>2. CASE ~Live(skip, W, m)
    BY <1>3, <2>0, <2>2 DEF AddLive
  <2> QED BY <2>1, <2>2
<1> HIDE DEF V
<1>7. h \in [0..n+1 -> Seq(Alphabet)] /\ h[0] = first /\ h[n+1] = V
  BY <1>2, <1>4, <1>6
<1>8. \A i \in 0..n : h[i] = g[i]
  BY <1>2
<1> HIDE DEF h
<1>9. ASSUME NEW i \in 0..n+1
      PROVE  Synced(h[i]) /\ (skip /\ h[i] # << >> => h[i][1].tag = "Sync")
  <2>1. CASE i = n + 1
    BY <1>6, <1>7, <2>1
  <2>2. CASE i # n + 1
    <3>1. i \in 0..n
      BY <1>2, <2>2
    <3> QED BY <1>4, <1>8, <3>1
  <2> QED BY <2>1, <2>2
<1>10. ASSUME NEW i \in 0..n-1 PROVE ~(Live(skip, g[i], in[i+1]) /\ CopyInsOf(in[i+1]) > 0)
  <2> SUFFICES ASSUME Live(skip, g[i], in[i+1]), CopyInsOf(in[i+1]) > 0 PROVE FALSE
    OBVIOUS
  <2>1. i + 1 = n /\ i \in 0..n /\ i + 1 \in 1..n
    BY <1>2, <1>5
  <2>2. in[n] \in Alphabet /\ g[i] \in Seq(Alphabet)
    BY <1>2, <1>4, <2>1, AnsweredMessages DEF Live
  <2>3. W = Append(g[i], in[n])
    BY <1>4, <1>5, <2>1 DEF AddLive
  <2>4. /\ W # << >> /\ Len(W) = Len(g[i]) + 1 /\ W[Len(g[i]) + 1] = in[n] /\ Len(g[i]) \in Nat
        /\ (g[i] = << >> <=> Len(g[i]) = 0)
    <3>1. Append(g[i], in[n]) # << >> /\ Len(Append(g[i], in[n])) = Len(g[i]) + 1
      <4> DEFINE v == g[i]
                 x == in[n]
      <4>1. v \in Seq(Alphabet) /\ x \in Alphabet
        BY <2>2
      <4> HIDE DEF v, x
      <4>2. Append(v, x) # << >> /\ Len(Append(v, x)) = Len(v) + 1
        BY <4>1, AppendProperties
      <4> QED BY <4>2 DEF v, x
    <3>2. Append(g[i], in[n])[Len(g[i]) + 1] = in[n]
      BY <2>2, AppendProperties
    <3>3. Len(g[i]) \in Nat /\ (g[i] = << >> <=> Len(g[i]) = 0)
      BY <2>2, ListFacts
    <3> QED BY <2>3, <3>1, <3>2, <3>3
  <2>5. W[Len(W)] = in[n]
    BY <2>4
  <2>6. CopyInsOf(in[n]) > 0 /\ CopyInsOf(in[n]) # 0 /\ in # << >>
    BY <1>2, <2>1, <2>2, CopyInsType
  <2>7. Len(W) = 1 /\ first # << >>
    BY <2>4, <2>5, <2>6 DEF n
  <2>8. Len(g[i]) = 0
    <3>1. Len(g[i]) \in Nat /\ Len(g[i]) + 1 = 1
      BY <2>4, <2>7
    <3>2. \A k \in Nat : k + 1 = 1 => k = 0
      OBVIOUS
    <3> QED BY ONLY <3>1, <3>2
  <2>9. g[i] = << >>
    BY <2>4, <2>8
  <2>11. g[i] # << >>
    BY <1>1, <1>3, <2>1, <2>7, ListsStart DEF n
  <2> QED BY <2>9, <2>11
<1>11. ASSUME NEW i \in 0..n
       PROVE  /\ h[i+1] = AddLive(skip, h[i], more[i+1])
              /\ Live(skip, h[i], more[i+1]) /\ CopyInsOf(more[i+1]) > 0 => i + 1 = n + 1
  <2>1. CASE i = n
    BY <1>2, <1>4, <1>7, <1>8, <2>1 DEF V
  <2>2. CASE i # n
    <3>1. i \in 0..n-1 /\ i + 1 \in 0..n /\ i + 1 \in 1..n
      BY <1>2, <2>2
    <3>2. h[i] = g[i] /\ h[i+1] = g[i+1] /\ more[i+1] = in[i+1]
      BY <1>2, <1>8, <3>1
    <3> QED BY <1>5, <1>10, <3>1, <3>2
  <2> QED BY <2>1, <2>2
<1>12. Lists(h, skip, first, more)
  <2>1. (n + 1) - 1 = n
    BY <1>2
  <2> QED BY <1>2, <1>7, <1>9, <1>11, <2>1 DEF Lists
<1>13. Queued(skip, first, more, V)
  BY <1>2, <1>7, <1>12 DEF Queued
<1> QED BY <1>13 DEF V, more
-----------------------------------------------------------------------------
\* The invariant.

\* Where a task is that reads the stream itself, and where one has started.
CopyStep == {"copying_in", "copy_body"}
Started == {"running", "copying_out", "copy_ended"} \cup CopyStep

\* The statements of a Query that are complete, and how often the task may still
\* copy in, beside the copy that it is in or has read to its end.
Done(t) == Len(t.msg.batch) - Len(t.todo)
Ahead(t) ==
  IF t.msg.tag = "Query" /\ t.at \in Started
  THEN CopiesAfter(t.msg.batch,
                   IF t.at \in CopyStep \cup {"copy_ended"} THEN Done(t) + 1 ELSE Done(t))
  ELSE IF t.at \in CopyStep \cup {"copy_ended"} THEN 0 ELSE CopyInsOf(t.msg)

\* What the server owes an answer to before it reads on.
First(t, skip) == IF t.at = "reading" THEN << >> ELSE AddLive(skip, << >>, t.msg)

\* A task that has started is that of a message which is answered, and keeps the
\* statements of a Query from the one that it is at.
TaskSound(t, skip) ==
  /\ t.at # "reading" => t.msg.tag # "Terminate"
  /\ t.at \in Started =>
       /\ ~skip /\ ~Unanswered(t.msg)
       /\ t.at # "running" => t.msg.tag \in {"Query", "Execute"}
       /\ IF t.msg.tag = "Query"
          THEN /\ t.todo \in Seq(Statements) /\ Len(t.todo) \in 1..Len(t.msg.batch)
               /\ \A i \in 1..Len(t.todo) : t.todo[i] = t.msg.batch[Done(t) + i]
          ELSE t.todo = << >>

\* The client that has read all replies knows where the server is.
Linked(z, t, skip) ==
  /\ z.aborted <=> skip /\ z.waiting = << >>
  /\ ~z.failed
  /\ z.answered = IF t.at \in Started /\ t.msg.tag = "Query" THEN Done(t) ELSE 0
  /\ IF t.at \in Started
     THEN z.copied + Ahead(t) + (IF z.copying THEN 1 ELSE 0) <= CopyInsOf(t.msg)
     ELSE z.copied = 0
  /\ z.copying => t.at \in CopyStep

\* It has sent nothing after a message that may start a copy.
Quiet(t, skip, in, owes) ==
  t.at \notin CopyStep \cup {"reading"} /\ First(t, skip) # << >> /\ Ahead(t) > 0
    => in = << >> /\ ~owes

\* In a copy it sends data, until it ends the copy; then it may go on, unless the
\* task may start another copy.
Within == {"CopyData", "Flush", "body"}
Ended(W, t, in) ==
  \E j \in 1..Len(in) :
    /\ in[j].tag \in {"CopyDone", "CopyFail"}
    /\ \A i \in 1..j-1 : in[i].tag \in Within
    /\ Ahead(t) > 0 => j = Len(in) /\ W = << t.msg >>
Feeds(z, t, in) ==
  \/ z.copying /\ z.waiting = << t.msg >> /\ \A i \in 1..Len(in) : in[i].tag \in Within
  \/ ~z.copying /\ Ended(z.waiting, t, in)
Fed(z, t, in, owes) ==
  t.at \in CopyStep =>
    /\ Feeds(z, t, in)
    /\ t.at = "copy_body" => IF in = << >> THEN owes ELSE in[1].tag = "body"

\* The body of a CopyData follows its header.
Framed(in, owes) ==
  /\ owes => ~WholeMessages /\ (in = << >> \/ in[Len(in)].tag = "CopyData")
  /\ ~WholeMessages => \A i \in 1..Len(in) : in[i].tag = "CopyData" =>
       IF i = Len(in) THEN owes ELSE in[i+1].tag = "body"

\* The client and the server agree on what is to be answered.
Agrees(z, t, skip, in, owes) ==
  /\ Queued(skip, First(t, skip), in, z.waiting)
  /\ Linked(z, t, skip)
  /\ Quiet(t, skip, in, owes)
  /\ Fed(z, t, in, owes)

\* A copy in is run only of a statement that some message of the client prepares.
Prepared(stmt) == stmt = "copy_in" => \E x \in Alphabet : x.tag = "Parse" /\ x.stmt = "copy_in"
Stocked ==
  /\ \A n \in Names : statements[n] # NoName => Prepared(statements[n])
  /\ \A n \in Names : portals[n] # NoName => Prepared(portals[n].stmt)

Agreement == \E z : Reads(cl, outbox, z) /\ Agrees(z, task, skipping, inbox, cl.owesBody)
StepInv ==
  /\ TaskSound(task, skipping)
  /\ Stocked
  /\ Framed(inbox, cl.owesBody)
  /\ Agreement

\* Fewer statements copy in no more often; the one that is left out counts.
LEMMA CopiesNext ==
  ASSUME NEW batch \in Seq(Statements), NEW n \in Nat
  PROVE  /\ CopiesAfter(batch, n) \in Nat /\ CopiesAfter(batch, n + 1) \in Nat
         /\ CopiesAfter(batch, n + 1) <= CopiesAfter(batch, n)
         /\ n + 1 \in 1..Len(batch) /\ batch[n + 1] = "copy_in" =>
              CopiesAfter(batch, n) = CopiesAfter(batch, n + 1) + 1
<1> DEFINE I == {i \in DOMAIN batch : i > n /\ batch[i] = "copy_in"}
           J == {i \in DOMAIN batch : i > n + 1 /\ batch[i] = "copy_in"}
<1>1. DOMAIN batch = 1..Len(batch) /\ Len(batch) \in Nat
  BY LenProperties
<1>2. IsFiniteSet(1..Len(batch)) /\ I \in SUBSET (1..Len(batch)) /\ J = I \ {n + 1}
  <2>1. IsFiniteSet(1..Len(batch))
    BY <1>1, FS_Interval
  <2>2. \A i \in 1..Len(batch) : i > n + 1 <=> i > n /\ i # n + 1
    OBVIOUS
  <2>3. J = I \ {n + 1}
    BY <1>1, <2>2
  <2> QED BY <1>1, <2>1, <2>3
<1>3. n + 1 \in 1..Len(batch) /\ batch[n + 1] = "copy_in" => n + 1 \in I
  BY <1>1
<1>4. CopiesAfter(batch, n) = Cardinality(I) /\ CopiesAfter(batch, n + 1) = Cardinality(J)
  BY DEF CopiesAfter
<1> HIDE DEF I, J
<1>5. IsFiniteSet(I)
  BY <1>2, FS_Subset
<1>6. /\ IsFiniteSet(J)
      /\ Cardinality(J) = IF n + 1 \in I THEN Cardinality(I) - 1 ELSE Cardinality(I)
  <2>1. /\ IsFiniteSet(I \ {n + 1})
        /\ Cardinality(I \ {n + 1}) = IF n + 1 \in I THEN Cardinality(I) - 1 ELSE Cardinality(I)
    BY <1>5, FS_RemoveElement
  <2> QED BY <1>2, <2>1
<1>7. Cardinality(I) \in Nat /\ Cardinality(J) \in Nat
  BY <1>5, <1>6, FS_CardinalityType
<1> QED BY <1>3, <1>4, <1>6, <1>7

\* A task that has started.
LEMMA StartedTask ==
  ASSUME Inv, TaskSound(task, skipping), task.at \in Started
  PROVE  /\ task.msg \in Alphabet /\ ~skipping /\ task = Task(task.at, task.msg, task.todo)
         /\ First(task, skipping) = << task.msg >>
         /\ CopyInsOf(task.msg) \in Nat /\ Ahead(task) \in Nat
         /\ task.msg.tag = "Query" =>
              /\ task.msg.batch \in Seq(Statements) /\ Done(task) \in Nat
              /\ Done(task) + 1 \in 1..Len(task.msg.batch)
              /\ Len(task.msg.batch) = Done(task) + Len(task.todo) /\ Len(task.todo) \in Nat
              /\ task.todo[1] = task.msg.batch[Done(task) + 1] /\ task.todo # << >>
              /\ Owed(task.msg) = Len(task.msg.batch)
<1>1. task.at # "reading" /\ task.at # "created"
  BY DEF Started, CopyStep
<1>2. task # Reading
  BY <1>1 DEF Reading
<1>3. task = Task(task.at, task.msg, task.todo) /\ task.msg \in Dispatched
  BY <1>2 DEF Inv, Loop, Tasks
<1>4. ~skipping /\ ~Unanswered(task.msg)
  BY DEF TaskSound
<1>5. task.msg \in Alphabet
  BY <1>3, <1>4, AnsweredMessages DEF Incoming, Dispatched
<1>6. First(task, skipping) = << task.msg >>
  <2>1. Append(<< >>, task.msg) = << task.msg >>
    OBVIOUS
  <2> QED BY <1>1, <1>4, <2>1 DEF First, AddLive, Live
<1>7. ASSUME task.msg.tag = "Query"
      PROVE /\ task.msg.batch \in Seq(Statements) /\ Done(task) \in Nat
            /\ Done(task) + 1 \in 1..Len(task.msg.batch)
            /\ Len(task.msg.batch) = Done(task) + Len(task.todo) /\ Len(task.todo) \in Nat
            /\ task.todo[1] = task.msg.batch[Done(task) + 1] /\ task.todo # << >>
            /\ Owed(task.msg) = Len(task.msg.batch)
  <2>1. task.msg.batch \in Seq(Statements)
    BY <1>5, <1>7, Batches
  <2>2. /\ Len(task.todo) \in 1..Len(task.msg.batch)
        /\ \A i \in 1..Len(task.todo) : task.todo[i] = task.msg.batch[Done(task) + i]
    BY <1>7 DEF TaskSound
  <2>3. Len(task.msg.batch) \in Nat
    BY <2>1, LenProperties
  <2>4. task.msg.batch # << >>
    BY <2>1, <2>2, EmptySeq
  <2>5. task.todo # << >>
    <3>1. Len(<< >>) = 0
      OBVIOUS
    <3> QED BY <2>2, <3>1
  <2>6. 1 \in 1..Len(task.todo)
    BY <2>2, <2>3
  <2>7. /\ Done(task) \in Nat /\ Done(task) + 1 \in 1..Len(task.msg.batch)
        /\ Len(task.msg.batch) = Done(task) + Len(task.todo) /\ Len(task.todo) \in Nat
    <3>1. \A a \in Nat : \A b \in 1..a :
            a - b \in Nat /\ (a - b) + 1 \in 1..a /\ a = (a - b) + b /\ b \in Nat
      OBVIOUS
    <3>2. Len(task.todo) \in 1..Len(task.msg.batch)
      BY <2>2
    <3> QED BY ONLY <2>3, <3>1, <3>2 DEF Done
  <2>8. task.todo[1] = task.msg.batch[Done(task) + 1]
    BY <2>2, <2>6
  <2>9. Owed(task.msg) = Len(task.msg.batch)
    BY <2>4 DEF Owed
  <2> QED BY <2>1, <2>5, <2>7, <2>8, <2>9
<1>8. CopyInsOf(task.msg) \in Nat
  BY <1>5, CopyInsType
<1>9. Ahead(task) \in Nat
  <2>1. CASE task.msg.tag = "Query"
    <3>1. /\ CopiesAfter(task.msg.batch, Done(task)) \in Nat
          /\ CopiesAfter(task.msg.batch, Done(task) + 1) \in Nat
      BY <1>7, <2>1, CopiesNext
    <3> QED BY <2>1, <3>1 DEF Ahead
  <2>2. CASE task.msg.tag # "Query"
    BY <1>8, <2>2 DEF Ahead
  <2> QED BY <2>1, <2>2
<1> QED BY <1>3, <1>4, <1>5, <1>6, <1>7, <1>8, <1>9

\* What Finish writes.
LEMMA FinishWrites ==
  ASSUME Loop, NEW replies, NEW status, NEW failed \in BOOLEAN, Finish(replies, status, failed)
  PROVE  /\ task' = Reading /\ skipping' \in BOOLEAN
         /\ EndsWithReady(task.msg) => ~skipping'
         /\ ~EndsWithReady(task.msg) => (skipping' <=> skipping \/ failed)
         /\ replies = << >> =>
              outbox' = IF EndsWithReady(task.msg) THEN Append(outbox, "Ready") ELSE outbox
         /\ \A r \in Replies : replies = << r >> =>
              outbox' = IF EndsWithReady(task.msg) THEN Append(Append(outbox, r), "Ready")
                        ELSE Append(outbox, r)
<1>1. /\ outbox' = outbox \o replies \o
            (IF EndsWithReady(task.msg) THEN << "Ready" >> ELSE << >>)
      /\ skipping' = IF EndsWithReady(task.msg) THEN FALSE ELSE skipping \/ failed
      /\ task' = Reading
  BY DEF Finish, AnswersReady
<1>2. outbox \in Seq(Replies) /\ skipping \in BOOLEAN /\ "Ready" \in Replies
  BY DEF Loop, Replies
<1>3. outbox \o << >> = outbox
  BY <1>2, ConcatEmptySeq
<1>4. \A s \in Seq(Replies) : \A r \in Replies : s \o << r >> = Append(s, r)
  BY AppendIsConcat
<1>5. \A s \in Seq(Replies) : s \o << >> = s
  BY ConcatEmptySeq
<1>6. \A r \in Replies : Append(outbox, r) \in Seq(Replies)
  BY <1>2, AppendProperties
<1>7. replies = << >> =>
        outbox' = IF EndsWithReady(task.msg) THEN Append(outbox, "Ready") ELSE outbox
  BY <1>1, <1>2, <1>3, <1>4
<1>8. ASSUME NEW r \in Replies, replies = << r >>
      PROVE  outbox' = IF EndsWithReady(task.msg) THEN Append(Append(outbox, r), "Ready")
                       ELSE Append(outbox, r)
  <2>1. outbox \o replies = Append(outbox, r) /\ Append(outbox, r) \in Seq(Replies)
    BY <1>2, <1>4, <1>6, <1>8
  <2>2. /\ Append(outbox, r) \o << "Ready" >> = Append(Append(outbox, r), "Ready")
        /\ Append(outbox, r) \o << >> = Append(outbox, r)
    BY <1>2, <1>4, <1>5, <2>1
  <2> QED BY <1>1, <2>1, <2>2
<1>9. /\ skipping' \in BOOLEAN
      /\ EndsWithReady(task.msg) => ~skipping'
      /\ ~EndsWithReady(task.msg) => (skipping' <=> skipping \/ failed)
  BY <1>1, <1>2
<1> QED BY <1>1, <1>7, <1>8, <1>9
-----------------------------------------------------------------------------
\* Answers and errors.

\* The answer to the message under way, after which the server reads on.
LEMMA AnsweredAgrees ==
  ASSUME NEW skip \in BOOLEAN, NEW m \in Alphabet, NEW in \in Seq(Incoming), NEW owes,
         NEW z \in Clients, Sound(z), ~z.copying, Queued(skip, << m >>, in, z.waiting),
         NEW r, Pops(z, r), NEW next \in BOOLEAN, ~next
  PROVE  Agrees(Taken(z, r), Reading, next, in, owes)
<1> DEFINE y == Taken(z, r)
<1>1. z.waiting # << >>
  BY QueuedFirst
<1>2. /\ y.waiting = Tail(z.waiting) /\ y.answered = 0 /\ y.failed = FALSE /\ y.copied = 0
      /\ y.aborted = z.aborted /\ y.copying = z.copying
  BY <1>1, PopFields
<1>3. ~z.aborted
  BY <1>1 DEF Sound
<1> HIDE DEF y
<1>4. Queued(next, << >>, in, y.waiting)
  BY <1>2, QueuedAnswered
<1>5. Reading.at = "reading"
  BY DEF Reading
<1> HIDE DEF Reading
<1>6. Queued(next, First(Reading, next), in, y.waiting)
  BY <1>4, <1>5 DEF First
<1>7. Linked(y, Reading, next)
  BY <1>2, <1>3, <1>5 DEF Linked, Started, CopyStep
<1>8. Quiet(Reading, next, in, owes) /\ Fed(y, Reading, in, owes)
  BY <1>5 DEF Quiet, Fed, CopyStep
<1> QED BY <1>6, <1>7, <1>8 DEF Agrees, y

\* An error that the server skips after.
LEMMA FailedAgrees ==
  ASSUME NEW skip \in BOOLEAN, ~skip, NEW m \in Alphabet, ~EndsWithReady(m),
         NEW in \in Seq(Incoming), NEW owes,
         NEW z \in Clients, ~z.failed, z.answered = 0, Queued(skip, << m >>, in, z.waiting),
         NEW next \in BOOLEAN, next
  PROVE  Agrees(Taken(z, "Error"), Reading, next, in, owes)
<1> DEFINE y == Taken(z, "Error")
<1>1. z.waiting # << >> /\ z.waiting[1] = m
  BY QueuedFirst
<1>2. /\ y.waiting = Surviving(z.waiting) /\ y.copying = FALSE /\ y.copied = 0
      /\ y.failed = (z.failed \/ (z.waiting # << >> /\ z.waiting[1].tag = "Query"))
      /\ y.aborted = (Surviving(z.waiting) = << >>)
      /\ y.answered = z.answered
  BY ErrorFields
<1>3. m.tag # "Query"
  BY DEF EndsWithReady
<1> HIDE DEF y
<1>4. Queued(next, << >>, in, y.waiting)
  BY <1>2, QueuedFailed
<1>5. Reading.at = "reading"
  BY DEF Reading
<1> HIDE DEF Reading
<1>6. Queued(next, First(Reading, next), in, y.waiting)
  BY <1>4, <1>5 DEF First
<1>7. Linked(y, Reading, next)
  BY <1>1, <1>2, <1>3, <1>5 DEF Linked, Started, CopyStep
<1>8. Quiet(Reading, next, in, owes) /\ Fed(y, Reading, in, owes)
  BY <1>5 DEF Quiet, Fed, CopyStep
<1> QED BY <1>6, <1>7, <1>8 DEF Agrees, y

\* A cancel that hits the task of a message the server skips.
LEMMA SkippedAgrees ==
  ASSUME NEW skip \in BOOLEAN, skip, NEW in \in Seq(Incoming), NEW owes,
         NEW z \in Clients, Sound(z), ~z.failed, z.answered = 0, ~z.copying,
         z.aborted <=> z.waiting = << >>,
         Queued(skip, << >>, in, z.waiting), NEW next \in BOOLEAN, next
  PROVE  Due(z, "Error") /\ Agrees(Taken(z, "Error"), Reading, next, in, owes)
<1> DEFINE y == Taken(z, "Error")
<1>1. /\ y.waiting = Surviving(z.waiting) /\ y.copying = FALSE /\ y.copied = 0
      /\ y.failed = (z.failed \/ (z.waiting # << >> /\ z.waiting[1].tag = "Query"))
      /\ y.aborted = (Surviving(z.waiting) = << >>)
      /\ y.answered = z.answered
  BY ErrorFields
<1>2. z.waiting \in Seq(Alphabet) /\ (z.waiting # << >> => z.waiting[1].tag = "Sync")
  <2> DEFINE none == << >>
  <2>1. Queued(skip, none, in, z.waiting) /\ skip \in BOOLEAN /\ in \in Seq(Incoming)
    OBVIOUS
  <2> HIDE DEF none
  <2>2. /\ z.waiting \in Seq(Alphabet)
        /\ skip /\ z.waiting # << >> => z.waiting[1].tag = "Sync"
    BY ONLY <2>1, QueuedEnds
  <2> QED BY <2>2
<1>3. Surviving(z.waiting) = z.waiting
  <2>1. CASE z.waiting = << >>
    BY <1>2, <2>1, SurvivingIff
  <2>2. CASE z.waiting # << >>
    BY <1>2, <2>2, SurvivingAll DEF EndsWithReady
  <2> QED BY <2>1, <2>2
<1>4. Due(z, "Error")
  BY DEF Due, Expected, Sound
<1> HIDE DEF y
<1>5. Queued(next, << >>, in, y.waiting)
  <2>1. next = skip
    OBVIOUS
  <2> QED BY <1>1, <1>3, <2>1
<1>6. Reading.at = "reading"
  BY DEF Reading
<1> HIDE DEF Reading
<1>7. Queued(next, First(Reading, next), in, y.waiting)
  BY <1>5, <1>6 DEF First
<1>8. Linked(y, Reading, next)
  BY <1>1, <1>2, <1>3, <1>6 DEF Linked, Started, CopyStep
<1>9. Quiet(Reading, next, in, owes) /\ Fed(y, Reading, in, owes)
  BY <1>6 DEF Quiet, Fed, CopyStep
<1> QED BY <1>4, <1>7, <1>8, <1>9 DEF Agrees, y

\* A dispatch that raises or is cancelled: the client takes the error for the answer
\* to its message, or to one that is skipped.
LEMMA RaiseAgrees ==
  ASSUME Inv, TaskSound(task, skipping), task.at # "reading",
         task.at = "created" => ~Silent(task.msg), Raise,
         NEW z, Reads(cl, outbox, z), NEW in \in Seq(Incoming), NEW owes,
         Queued(skipping, First(task, skipping), in, z.waiting), Linked(z, task, skipping)
  PROVE  \E y : Reads(cl, outbox', y) /\ Agrees(y, task', skipping', in, owes)
<1> DEFINE m == task.msg
           W == z.waiting
<1>1. Loop /\ outbox \in Seq(Replies) /\ skipping \in BOOLEAN
  BY DEF Inv, Loop
<1>2. task # Reading
  BY DEF Reading
<1>3. m \in Dispatched /\ task.at \in Points
  BY <1>1, <1>2 DEF Loop, Tasks
<1>4. ~Unanswered(m)
  <2>1. CASE task.at = "created"
    <3>1. m.tag # "body"
      BY <1>3, CommandAssumption DEF Dispatched, CopyMessages, Messages
    <3> QED BY <2>1, <3>1 DEF Unanswered, Silent, TaskSound
  <2>2. CASE task.at # "created"
    BY <1>3, <2>2 DEF TaskSound, Points, Started, CopyStep
  <2> QED BY <2>1, <2>2
<1>5. m \in Alphabet
  BY <1>3, <1>4, AnsweredMessages DEF Incoming, Dispatched
<1>6. /\ task' = Reading /\ skipping' \in BOOLEAN
      /\ EndsWithReady(m) => ~skipping'
      /\ ~EndsWithReady(m) => skipping'
      /\ outbox' = IF EndsWithReady(m) THEN Append(Append(outbox, "Error"), "Ready")
                   ELSE Append(outbox, "Error")
  <2>1. "Error" \in Replies
    BY DEF Replies
  <2>2. Finish(<< "Error" >>, FailedStatus, TRUE)
    BY DEF Raise
  <2> QED BY <1>1, <2>1, <2>2, FinishWrites
<1>7. z \in Clients /\ Sound(z) /\ W \in Seq(Alphabet)
  BY <1>1, ReadsEnds, ClientTypes
<1>8. "Error" \in Replies /\ "Ready" \in Replies
  BY DEF Replies
<1>9. ~z.failed
  BY DEF Linked
<1>10. First(task, skipping) = IF skipping /\ ~EndsWithReady(m) THEN << >> ELSE << m >>
  <2>1. Append(<< >>, m) = << m >>
    OBVIOUS
  <2> QED BY <1>4, <2>1 DEF First, AddLive, Live
<1>11. CASE EndsWithReady(m)
  <2> DEFINE y == Taken(z, "Error")
  <2>1. Queued(skipping, << m >>, in, W)
    BY <1>10, <1>11
  <2>2. W # << >> /\ W[1] = m
    BY <1>1, <1>5, <2>1, QueuedFirst
  <2>3. Due(z, "Error")
    BY <2>2 DEF Due, Expected
  <2>4. /\ y \in Clients /\ Sound(y) /\ y.waiting = W /\ y.copying = FALSE
        /\ m.tag = "Query" => y.failed
    <3>1. Surviving(W) = W
      BY <1>7, <1>11, <2>2, SurvivingAll
    <3>2. y \in Clients /\ Sound(y)
      BY <1>7, <2>3, SoundTaken
    <3>3. /\ y.waiting = Surviving(W) /\ y.copying = FALSE
          /\ y.failed = (z.failed \/ (W # << >> /\ W[1].tag = "Query"))
      BY <1>7, ErrorFields
    <3> HIDE DEF y
    <3> QED BY <2>2, <3>1, <3>2, <3>3
  <2>5. Reads(cl, Append(outbox, "Error"), y)
    BY <1>1, <1>8, <2>3, ReadsMore
  <2> HIDE DEF y
  <2>6. Due(y, "Ready") /\ Pops(y, "Ready")
    <3>1. Head(y.waiting) = m
      BY <1>7, <2>2, <2>4, ListFacts
    <3>2. "Ready" \in Answers(y, m)
      BY <1>11, <2>4 DEF Answers, EndsWithReady
    <3> QED BY <2>2, <2>4, <3>1, <3>2 DEF Due, Expected, Pops, Counts
  <2>7. Append(outbox, "Error") \in Seq(Replies)
    BY <1>1, <1>8, AppendProperties
  <2>8. Reads(cl, Append(Append(outbox, "Error"), "Ready"), Taken(y, "Ready"))
    BY <1>8, <2>5, <2>6, <2>7, ReadsMore
  <2>9. Agrees(Taken(y, "Ready"), Reading, skipping', in, owes)
    BY <1>1, <1>5, <1>6, <1>11, <2>1, <2>4, <2>6, AnsweredAgrees
  <2> QED BY <1>6, <1>11, <2>8, <2>9
<1>12. CASE ~EndsWithReady(m) /\ ~skipping
  <2>1. Queued(skipping, << m >>, in, W)
    BY <1>10, <1>12
  <2>2. W # << >>
    BY <1>1, <1>5, <2>1, QueuedFirst
  <2>3. Due(z, "Error")
    BY <2>2 DEF Due, Expected
  <2>4. Reads(cl, Append(outbox, "Error"), Taken(z, "Error"))
    BY <1>1, <1>8, <2>3, ReadsMore
  <2>5. z.answered = 0
    BY <1>12 DEF Linked, EndsWithReady
  <2>6. Agrees(Taken(z, "Error"), Reading, skipping', in, owes)
    BY <1>1, <1>5, <1>6, <1>7, <1>9, <1>12, <2>1, <2>5, FailedAgrees
  <2> QED BY <1>6, <1>12, <2>4, <2>6
<1>13. CASE ~EndsWithReady(m) /\ skipping
  <2>1. Queued(skipping, << >>, in, W)
    BY <1>10, <1>13
  <2>2. task.at \notin Started
    BY <1>13 DEF TaskSound
  <2>3. z.answered = 0 /\ ~z.copying /\ (z.aborted <=> W = << >>)
    BY <1>13, <2>2 DEF Linked, Started
  <2>4. Due(z, "Error") /\ Agrees(Taken(z, "Error"), Reading, skipping', in, owes)
    BY <1>1, <1>6, <1>7, <1>9, <1>13, <2>1, <2>3, SkippedAgrees
  <2>5. Reads(cl, Append(outbox, "Error"), Taken(z, "Error"))
    BY <1>1, <1>8, <2>4, ReadsMore
  <2> QED BY <1>6, <1>13, <2>4, <2>5
<1> QED BY <1>1, <1>11, <1>12, <1>13

\* No task at all.
LEMMA ReadingSound == \A skip : TaskSound(Reading, skip)
<1>1. Reading.at = "reading"
  BY DEF Reading
<1> QED BY <1>1 DEF TaskSound, Started, CopyStep

\* What the task under way is answered with, when it does not end with ReadyForQuery.
LEMMA HandledAgrees ==
  ASSUME Inv, TaskSound(task, skipping), task.at \in Started, ~EndsWithReady(task.msg),
         NEW z, Reads(cl, outbox, z), NEW in \in Seq(Incoming), NEW owes,
         Queued(skipping, First(task, skipping), in, z.waiting), ~z.copying,
         NEW r \in Replies, r \notin {"Error", "CopyIn", "CopyOut"}, r \in Answers(z, task.msg),
         NEW status, Finish(<< r >>, status, FALSE)
  PROVE  \E y : Reads(cl, outbox', y) /\ Agrees(y, task', skipping', in, owes)
<1> DEFINE m == task.msg
<1>1. Loop /\ outbox \in Seq(Replies) /\ skipping \in BOOLEAN
  BY DEF Inv, Loop
<1>2. m \in Alphabet /\ ~skipping /\ First(task, skipping) = << m >>
  BY StartedTask
<1>3. Queued(skipping, << m >>, in, z.waiting)
  BY <1>2
<1>4. z.waiting # << >> /\ z.waiting[1] = m
  BY <1>1, <1>2, <1>3, QueuedFirst
<1>5. z \in Clients /\ Sound(z) /\ z.waiting \in Seq(Alphabet)
  BY <1>1, ReadsEnds, ClientTypes
<1>6. Head(z.waiting) = m
  BY <1>4, <1>5, ListFacts
<1>7. Due(z, r) /\ Pops(z, r)
  BY <1>4, <1>6 DEF Due, Expected, Pops, Counts, EndsWithReady
<1>8. task' = Reading /\ skipping' \in BOOLEAN /\ ~skipping' /\ outbox' = Append(outbox, r)
  BY <1>1, <1>2, FinishWrites
<1>9. Reads(cl, Append(outbox, r), Taken(z, r))
  BY <1>1, <1>7, ReadsMore
<1>10. Agrees(Taken(z, r), Reading, skipping', in, owes)
  BY <1>1, <1>2, <1>3, <1>5, <1>7, <1>8, AnsweredAgrees
<1> QED BY <1>8, <1>9, <1>10

\* A statement is complete: it is the next one of its Query, or the end of the task.
LEMMA CompleteAgrees ==
  ASSUME Inv, TaskSound(task, skipping), task.at \in Started,
         task.msg.tag \in {"Query", "Execute"},
         NEW z, Reads(cl, outbox, z), NEW in \in Seq(Incoming), NEW owes,
         Queued(skipping, First(task, skipping), in, z.waiting), Linked(z, task, skipping),
         ~z.copying, Ahead(task) > 0 => in = << >> /\ ~owes,
         NEW status, Complete(<< "Complete" >>, status)
  PROVE  /\ TaskSound(task', skipping')
         /\ \E y : Reads(cl, outbox', y) /\ Agrees(y, task', skipping', in, owes)
<1> DEFINE m == task.msg
           y == Taken(z, "Complete")
<1>1. Loop /\ outbox \in Seq(Replies) /\ skipping \in BOOLEAN /\ "Complete" \in Replies /\ "Ready" \in Replies
  BY DEF Inv, Loop, Replies
<1>2. /\ m \in Alphabet /\ ~skipping /\ First(task, skipping) = << m >>
      /\ CopyInsOf(m) \in Nat /\ Ahead(task) \in Nat
  BY StartedTask
<1>3. Queued(skipping, << m >>, in, z.waiting)
  BY <1>2
<1>4. z.waiting # << >> /\ z.waiting[1] = m
  BY <1>1, <1>2, <1>3, QueuedFirst
<1>5. z \in Clients /\ Sound(z) /\ z.waiting \in Seq(Alphabet) /\ z.copied \in Nat
  BY <1>1, ReadsEnds, ClientTypes
<1>6. Head(z.waiting) = m
  BY <1>4, <1>5, ListFacts
<1>7. ASSUME m.tag = "Query"
      PROVE  /\ m.batch \in Seq(Statements) /\ Done(task) \in Nat /\ Len(task.todo) \in Nat
             /\ Done(task) + 1 \in 1..Len(m.batch)
             /\ Len(m.batch) = Done(task) + Len(task.todo)
             /\ task.todo # << >> /\ Owed(m) = Len(m.batch)
  BY <1>7, StartedTask
<1>8. ASSUME m.tag = "Query"
      PROVE  /\ Reads(cl, Append(outbox, "Complete"), y)
             /\ y \in Clients /\ Sound(y) /\ ~y.copying /\ ~y.failed
             /\ y.waiting = z.waiting /\ y.copied = z.copied /\ y.aborted = z.aborted
             /\ y.answered = Done(task) + 1
  <2>1. z.answered = Done(task) /\ ~z.failed
    BY <1>8 DEF Linked
  <2>2. Done(task) # Owed(m)
    <3>1. Len(m.batch) \in Nat
      BY <1>7, <1>8, LenProperties
    <3>2. \A d, n \in Nat : d + 1 \in 1..n => d # n
      OBVIOUS
    <3> QED BY <1>7, <1>8, <3>1, <3>2
  <2>3. "Complete" \in Answers(z, m)
    BY <1>8, <2>1, <2>2 DEF Answers
  <2>4. Due(z, "Complete")
    BY <1>4, <1>6, <2>3 DEF Due, Expected
  <2>5. Counts(z, "Complete")
    BY <1>4, <1>8 DEF Counts
  <2>6. /\ y \in Clients /\ y.answered = z.answered + 1 /\ y.waiting = z.waiting
        /\ y.copied = z.copied /\ y.failed = z.failed /\ y.aborted = z.aborted
        /\ y.copying = z.copying
    BY <1>4, <1>5, <2>5, CountFields
  <2>7. Sound(y)
    BY <1>5, <2>4, SoundTaken
  <2>8. Reads(cl, Append(outbox, "Complete"), y)
    BY <1>1, <2>4, ReadsMore
  <2> HIDE DEF y
  <2> QED BY <2>1, <2>6, <2>7, <2>8
<1> HIDE DEF y
<1>9. CASE Len(task.todo) > 1
  <2>1. m.tag = "Query"
    <3>1. Len(<< >>) = 0
      OBVIOUS
    <3>2. m.tag # "Query" => task.todo = << >>
      BY DEF TaskSound
    <3> QED BY <1>9, <3>1, <3>2
  <2>2. /\ outbox' = Append(outbox, "Complete") /\ skipping' = skipping
        /\ task' = Task("running", m, Tail(task.todo))
    <3>1. outbox \o << "Complete" >> = Append(outbox, "Complete")
      BY <1>1, AppendIsConcat
    <3> QED BY <1>9, <3>1 DEF Complete
  <2>3. /\ task'.at = "running" /\ task'.msg = m /\ task'.todo = Tail(task.todo)
    BY <2>2 DEF Task
  <2>4. /\ task.todo \in Seq(Statements) /\ Len(task.todo) \in 1..Len(m.batch)
        /\ \A i \in 1..Len(task.todo) : task.todo[i] = m.batch[Done(task) + i]
        /\ ~Unanswered(m)
    BY <2>1 DEF TaskSound
  <2>5. /\ Tail(task.todo) \in Seq(Statements) /\ Len(Tail(task.todo)) = Len(task.todo) - 1
        /\ \A i \in 1..Len(Tail(task.todo)) : Tail(task.todo)[i] = task.todo[i+1]
    BY <1>7, <2>1, <2>4, HeadTailProperties
  <2>6. Done(task') = Done(task) + 1
    <3>1. \A b, n \in Nat : b - (n - 1) = (b - n) + 1
      OBVIOUS
    <3>2. Len(m.batch) \in Nat
      BY <1>7, <2>1, LenProperties
    <3>3. Len(task.todo) \in Nat
      BY <1>7, <2>1
    <3>4. Done(task') = Len(m.batch) - (Len(task.todo) - 1)
      BY <2>3, <2>5 DEF Done
    <3>5. Done(task) = Len(m.batch) - Len(task.todo)
      BY DEF Done
    <3> QED BY ONLY <3>1, <3>2, <3>3, <3>4, <3>5
  <2>7. TaskSound(task', skipping')
    <3>1. Len(Tail(task.todo)) \in 1..Len(m.batch)
      <4>1. Len(m.batch) \in Nat /\ Len(task.todo) \in Nat /\ Len(task.todo) <= Len(m.batch)
        BY <1>7, <2>1, <2>4, LenProperties
      <4>2. Len(Tail(task.todo)) = Len(task.todo) - 1
        BY <2>5
      <4> QED BY ONLY <1>9, <4>1, <4>2
    <3>2. \A i \in 1..Len(Tail(task.todo)) :
            Tail(task.todo)[i] = m.batch[(Done(task) + 1) + i]
      <4>1. TAKE i \in 1..Len(Tail(task.todo))
      <4>2. i + 1 \in 1..Len(task.todo) /\ Done(task) + (i + 1) = (Done(task) + 1) + i
        <5>1. \A d, n \in Nat : \A k \in 1..n-1 : k + 1 \in 1..n /\ d + (k + 1) = (d + 1) + k
          OBVIOUS
        <5>2. Done(task) \in Nat /\ Len(task.todo) \in Nat /\ i \in 1..Len(task.todo)-1
          BY <1>7, <2>1, <2>5
        <5> QED BY ONLY <5>1, <5>2
      <4>3. Tail(task.todo)[i] = task.todo[i+1]
        BY <2>5
      <4>4. task.todo[i+1] = m.batch[Done(task) + (i + 1)]
        BY <2>4, <4>2
      <4> QED BY <4>2, <4>3, <4>4
    <3>3. task'.at # "reading" /\ m.tag # "Terminate"
      BY <2>1, <2>3
    <3> QED BY <1>2, <2>1, <2>2, <2>3, <2>4, <2>5, <2>6, <3>1, <3>2, <3>3 DEF TaskSound
  <2>8. Ahead(task') \in Nat /\ Ahead(task') <= Ahead(task)
    <3>1. /\ CopiesAfter(m.batch, Done(task)) \in Nat /\ CopiesAfter(m.batch, Done(task) + 1) \in Nat
          /\ CopiesAfter(m.batch, Done(task) + 1) <= CopiesAfter(m.batch, Done(task))
      BY <1>7, <2>1, CopiesNext
    <3>2. Ahead(task') = CopiesAfter(m.batch, Done(task) + 1)
      BY <2>1, <2>3, <2>6 DEF Ahead, Started, CopyStep
    <3>3. \/ Ahead(task) = CopiesAfter(m.batch, Done(task) + 1)
          \/ Ahead(task) = CopiesAfter(m.batch, Done(task))
      BY <2>1 DEF Ahead
    <3> QED BY ONLY <3>1, <3>2, <3>3
  <2>9. First(task', skipping') = << m >>
    <3>1. Append(<< >>, m) = << m >>
      OBVIOUS
    <3> QED BY <1>2, <2>2, <2>3, <2>4, <3>1 DEF First, AddLive, Live
  <2>10. Queued(skipping', First(task', skipping'), in, y.waiting)
    BY <1>3, <1>8, <2>1, <2>2, <2>9
  <2>11. Linked(y, task', skipping')
    <3>1. z.copied + Ahead(task) <= CopyInsOf(m)
      <4>1. z.copied + Ahead(task) + 0 <= CopyInsOf(m)
        BY DEF Linked
      <4> QED BY <1>2, <1>5, <4>1
    <3>2. y.copied + Ahead(task') + 0 <= CopyInsOf(m)
      <4>1. y.copied = z.copied
        BY <1>8, <2>1
      <4> QED BY ONLY <1>2, <1>5, <2>8, <3>1, <4>1
    <3>3. y.aborted <=> skipping' /\ y.waiting = << >>
      BY <1>8, <2>1, <2>2 DEF Linked
    <3>4. task'.at \in Started
      BY <2>3 DEF Started
    <3> QED BY <1>8, <2>1, <2>3, <2>6, <3>2, <3>3, <3>4 DEF Linked
  <2>12. Quiet(task', skipping', in, owes)
    <3>1. Ahead(task') > 0 => Ahead(task) > 0
      BY ONLY <1>2, <2>8
    <3> QED BY <3>1 DEF Quiet
  <2>13. Fed(y, task', in, owes)
    BY <2>3 DEF Fed, CopyStep
  <2>14. Agrees(y, task', skipping', in, owes)
    BY <2>10, <2>11, <2>12, <2>13 DEF Agrees
  <2> QED BY <1>8, <2>1, <2>2, <2>7, <2>14
<1>10. CASE ~(Len(task.todo) > 1)
  <2>1. Finish(<< "Complete" >>, status, FALSE)
    BY <1>10 DEF Complete
  <2>2. task' = Reading /\ skipping' \in BOOLEAN /\ ~skipping'
    BY <1>1, <1>2, <2>1, FinishWrites
  <2>3. TaskSound(task', skipping')
    BY <2>2, ReadingSound
  <2>4. CASE m.tag = "Query"
    <3>1. outbox' = Append(Append(outbox, "Complete"), "Ready")
      BY <1>1, <2>1, <2>4, FinishWrites DEF EndsWithReady
    <3>2. y.answered = Owed(m)
      <4>1. /\ Len(task.todo) \in Nat /\ Len(task.todo) # 0 /\ Done(task) \in Nat
        <5>1. task.todo \in Seq(Statements)
          BY <2>4 DEF TaskSound
        <5> QED BY <1>7, <2>4, <5>1, EmptySeq
      <4>2. Len(task.todo) = 1
        <5>1. \A n \in Nat : n # 0 /\ ~(n > 1) => n = 1
          OBVIOUS
        <5> QED BY <1>10, <4>1, <5>1
      <4> QED BY <1>7, <1>8, <2>4, <4>2
    <3>3. "Ready" \in Answers(y, m)
      BY <2>4, <3>2 DEF Answers
    <3>4. Due(y, "Ready") /\ Pops(y, "Ready")
      BY <1>4, <1>6, <1>8, <2>4, <3>3 DEF Due, Expected, Pops, Counts
    <3>5. Append(outbox, "Complete") \in Seq(Replies)
      BY <1>1, AppendProperties
    <3>6. Reads(cl, Append(Append(outbox, "Complete"), "Ready"), Taken(y, "Ready"))
      BY <1>1, <1>8, <2>4, <3>4, <3>5, ReadsMore
    <3>7. Queued(skipping, << m >>, in, y.waiting)
      BY <1>3, <1>8, <2>4
    <3>8. Agrees(Taken(y, "Ready"), Reading, skipping', in, owes)
      BY <1>1, <1>2, <1>8, <2>2, <2>4, <3>4, <3>7, AnsweredAgrees
    <3> QED BY <2>2, <2>3, <3>1, <3>6, <3>8
  <2>5. CASE m.tag = "Execute"
    <3>1. "Complete" \in Answers(z, m)
      BY <2>5 DEF Answers
    <3>2. ~EndsWithReady(m)
      BY <2>5 DEF EndsWithReady
    <3>3. \E x : Reads(cl, outbox', x) /\ Agrees(x, task', skipping', in, owes)
      BY <1>1, <2>1, <3>1, <3>2, HandledAgrees
    <3> QED BY <2>3, <3>3
  <2> QED BY <2>4, <2>5
<1> QED BY <1>9, <1>10

\* Into the copy sub-protocol, from a statement that the client may have to copy for.
LEMMA BeginCopyAgrees ==
  ASSUME Inv, TaskSound(task, skipping), task.at = "running",
         task.msg.tag \in {"Query", "Execute"}, NEW stmt \in {"copy_in", "copy_out"},
         task.msg.tag = "Query" => stmt = task.todo[1],
         task.msg.tag = "Execute" => Prepared(stmt),
         NEW z, Reads(cl, outbox, z), NEW in \in Seq(Incoming), NEW owes,
         Agrees(z, task, skipping, in, owes), BeginCopy(stmt)
  PROVE  /\ TaskSound(task', skipping')
         /\ \E y : Reads(cl, outbox', y) /\ Agrees(y, task', skipping', in, owes)
<1> DEFINE m == task.msg
           r == IF stmt = "copy_in" THEN "CopyIn" ELSE "CopyOut"
           point == IF stmt = "copy_in" THEN "copying_in" ELSE "copying_out"
           y == Taken(z, r)
<1>1. Loop /\ outbox \in Seq(Replies) /\ skipping \in BOOLEAN
  BY DEF Inv, Loop
<1>2. task.at \in Started
  BY DEF Started
<1>3. /\ m \in Alphabet /\ ~skipping /\ task = Task(task.at, m, task.todo)
      /\ First(task, skipping) = << m >>
      /\ CopyInsOf(m) \in Nat /\ Ahead(task) \in Nat
  BY <1>2, StartedTask
<1>4. ASSUME m.tag = "Query"
      PROVE  /\ m.batch \in Seq(Statements) /\ Done(task) \in Nat
             /\ Done(task) + 1 \in 1..Len(m.batch)
             /\ m.batch[Done(task) + 1] = stmt /\ Owed(m) = Len(m.batch)
  BY <1>2, <1>4, StartedTask
<1>5. /\ Queued(skipping, << m >>, in, z.waiting) /\ Linked(z, task, skipping)
      /\ Quiet(task, skipping, in, owes)
  BY <1>3 DEF Agrees
<1>6. z.waiting # << >> /\ z.waiting[1] = m
  BY <1>1, <1>3, <1>5, QueuedFirst
<1>7. z \in Clients /\ Sound(z) /\ z.waiting \in Seq(Alphabet) /\ z.copied \in Nat
  BY <1>1, ReadsEnds, ClientTypes
<1>8. Head(z.waiting) = m
  BY <1>6, <1>7, ListFacts
<1>9. ~z.copying /\ ~z.failed /\ z.copied + Ahead(task) <= CopyInsOf(m)
  <2>1. ~z.copying
    BY <1>5 DEF Linked, CopyStep
  <2>2. z.copied + Ahead(task) + 0 <= CopyInsOf(m) /\ ~z.failed
    BY <1>2, <1>5, <2>1 DEF Linked
  <2> QED BY <1>3, <1>7, <2>1, <2>2
<1>10. r \in Answers(z, m)
  <2>1. CASE m.tag = "Query"
    <3>1. z.answered = Done(task)
      BY <1>2, <1>5, <2>1 DEF Linked
    <3>2. Done(task) # Owed(m)
      <4>1. Len(m.batch) \in Nat
        BY <1>4, <2>1, LenProperties
      <4>2. \A d, n \in Nat : d + 1 \in 1..n => d # n
        OBVIOUS
      <4> QED BY <1>4, <2>1, <4>1, <4>2
    <3> QED BY <1>9, <2>1, <3>1, <3>2 DEF Answers
  <2>2. CASE m.tag = "Execute"
    BY <2>2 DEF Answers
  <2> QED BY <2>1, <2>2
<1>11. stmt = "copy_in" => Ahead(task) > 0
  <2>1. CASE m.tag = "Query"
    <3>1. Ahead(task) = CopiesAfter(m.batch, Done(task))
      BY <1>2, <2>1 DEF Ahead, CopyStep
    <3>2. /\ CopiesAfter(m.batch, Done(task) + 1) \in Nat
          /\ stmt = "copy_in" => CopiesAfter(m.batch, Done(task)) = CopiesAfter(m.batch, Done(task) + 1) + 1
      BY <1>4, <2>1, CopiesNext
    <3> QED BY <3>1, <3>2
  <2>2. CASE m.tag = "Execute"
    <3>1. Ahead(task) = CopyInsOf(m)
      BY <2>2 DEF Ahead, CopyStep
    <3>2. stmt = "copy_in" => CopyInsOf(m) = 1
      BY <2>2 DEF Prepared, CopyInsOf
    <3> QED BY <3>1, <3>2
  <2> QED BY <2>1, <2>2
<1>12. stmt = "copy_in" => in = << >> /\ ~owes
  <2>1. First(task, skipping) # << >>
    BY <1>3
  <2>2. task.at \notin CopyStep \cup {"reading"}
    BY DEF CopyStep
  <2> QED BY <1>5, <1>11, <2>1, <2>2 DEF Quiet
<1>13. stmt = "copy_in" => z.waiting = << m >>
  <2> DEFINE first == << m >>
  <2>1. Queued(skipping, first, in, z.waiting) /\ skipping \in BOOLEAN /\ in \in Seq(Incoming)
    BY <1>1, <1>5
  <2> HIDE DEF first
  <2> DEFINE W == z.waiting
  <2>2. Queued(skipping, first, in, W)
    BY <2>1
  <2> HIDE DEF W
  <2>3. /\ first \in Seq(Alphabet) /\ W \in Seq(Alphabet)
        /\ skipping /\ first # << >> => first[1].tag = "Sync"
        /\ skipping /\ W # << >> => W[1].tag = "Sync"
        /\ in = << >> => W = first
    BY ONLY <2>1, <2>2, QueuedEnds
  <2> QED BY <1>12, <2>3 DEF first, W
<1>14. r \in Replies /\ r \in {"CopyIn", "CopyOut"} /\ (r = "CopyIn" <=> stmt = "copy_in")
  BY DEF Replies
<1>15. /\ outbox' = Append(outbox, r) /\ skipping' = skipping
       /\ task' = Task(point, m, task.todo)
  BY <1>3 DEF BeginCopy, Task
<1>16. /\ task'.at = point /\ task'.msg = m /\ task'.todo = task.todo
       /\ point \in Started \cap Points /\ point \notin {"reading", "running"}
       /\ stmt = "copy_in" => point = "copying_in" /\ point \in CopyStep
       /\ stmt = "copy_out" => point = "copying_out" /\ point \notin CopyStep
  BY <1>15 DEF Task, Started, CopyStep, Points
<1> HIDE DEF point, r
<1>17. Due(z, r)
  <2>1. r = "CopyIn" => Len(z.waiting) = 1 /\ z.copied < CopyInsOf(z.waiting[1])
    <3>1. stmt = "copy_in" => Len(z.waiting) = 1
      <4>1. Len(<< m >>) = 1
        OBVIOUS
      <4> QED BY <1>13, <4>1
    <3>2. stmt = "copy_in" => z.copied < CopyInsOf(m)
      BY <1>3, <1>7, <1>9, <1>11
    <3> QED BY <1>6, <1>14, <3>1, <3>2
  <2> QED BY <1>6, <1>8, <1>9, <1>10, <1>14, <2>1 DEF Due, Expected
<1>18. Reads(cl, Append(outbox, r), y)
  BY <1>1, <1>14, <1>17, ReadsMore
<1>19. /\ y.copying = (r = "CopyIn")
       /\ y.waiting = z.waiting /\ y.copied = z.copied /\ y.failed = z.failed
       /\ y.aborted = z.aborted /\ y.answered = z.answered
  BY <1>7, <1>14, CopyFields
<1> HIDE DEF y
<1>20. Done(task') = Done(task)
  BY <1>16 DEF Done
<1>21. TaskSound(task', skipping')
  BY <1>2, <1>3, <1>15, <1>16, <1>20 DEF TaskSound
<1>22. /\ stmt = "copy_in" => Ahead(task) = Ahead(task') + 1 /\ Ahead(task') \in Nat
       /\ stmt = "copy_out" => Ahead(task') = Ahead(task)
  <2>1. CASE m.tag = "Query"
    <3>1. Ahead(task) = CopiesAfter(m.batch, Done(task))
      BY <1>2, <2>1 DEF Ahead, CopyStep
    <3>2. /\ CopiesAfter(m.batch, Done(task) + 1) \in Nat
          /\ stmt = "copy_in" => CopiesAfter(m.batch, Done(task)) = CopiesAfter(m.batch, Done(task) + 1) + 1
      BY <1>4, <2>1, CopiesNext
    <3>3. /\ stmt = "copy_in" => Ahead(task') = CopiesAfter(m.batch, Done(task) + 1)
          /\ stmt = "copy_out" => Ahead(task') = CopiesAfter(m.batch, Done(task))
      BY <1>16, <1>20, <2>1 DEF Ahead
    <3> QED BY <3>1, <3>2, <3>3
  <2>2. CASE m.tag = "Execute"
    <3>1. Ahead(task) = CopyInsOf(m)
      BY <2>2 DEF Ahead, CopyStep
    <3>2. stmt = "copy_in" => CopyInsOf(m) = 1
      BY <2>2 DEF Prepared, CopyInsOf
    <3>3. /\ stmt = "copy_in" => Ahead(task') = 0
          /\ stmt = "copy_out" => Ahead(task') = CopyInsOf(m)
      BY <1>16, <2>2 DEF Ahead
    <3> QED BY <3>1, <3>2, <3>3
  <2> QED BY <2>1, <2>2
<1>23. First(task', skipping') = << m >>
  <2>1. First(task, skipping) = AddLive(skipping, << >>, m) /\ First(task', skipping') = AddLive(skipping, << >>, m)
    BY <1>15, <1>16 DEF First
  <2> QED BY <1>3, <2>1
<1>24. Queued(skipping', First(task', skipping'), in, y.waiting)
  BY <1>5, <1>15, <1>19, <1>23
<1>25. Linked(y, task', skipping')
  <2>1. y.copied + Ahead(task') + (IF y.copying THEN 1 ELSE 0) <= CopyInsOf(m)
    <3>1. CASE stmt = "copy_in"
      <4>1. y.copying
        BY <1>14, <1>19, <3>1
      <4>2. y.copied = z.copied /\ Ahead(task) = Ahead(task') + 1 /\ Ahead(task') \in Nat
        BY <1>19, <1>22, <3>1
      <4>3. y.copied + Ahead(task') + 1 <= CopyInsOf(m)
        BY <1>3, <1>7, <1>9, <4>2
      <4> QED BY <4>1, <4>3
    <3>2. CASE stmt = "copy_out"
      <4>1. ~y.copying
        BY <1>14, <1>19, <3>2
      <4>2. y.copied = z.copied /\ Ahead(task) = Ahead(task')
        BY <1>19, <1>22, <3>2
      <4>3. y.copied + Ahead(task') + 0 <= CopyInsOf(m)
        BY <1>3, <1>7, <1>9, <4>2
      <4> QED BY <4>1, <4>3
    <3> QED BY <3>1, <3>2
  <2>2. y.answered = IF m.tag = "Query" THEN Done(task) ELSE 0
    BY <1>2, <1>5, <1>19 DEF Linked
  <2>3. y.aborted <=> skipping' /\ y.waiting = << >>
    BY <1>5, <1>15, <1>19 DEF Linked
  <2>4. y.copying => task'.at \in CopyStep
    BY <1>14, <1>16, <1>19
  <2> QED BY <1>9, <1>16, <1>19, <1>20, <2>1, <2>2, <2>3, <2>4 DEF Linked
<1>26. Quiet(task', skipping', in, owes)
  <2>1. CASE stmt = "copy_in"
    BY <1>16, <2>1 DEF Quiet
  <2>2. CASE stmt = "copy_out"
    <3>1. task.at \notin CopyStep \cup {"reading"}
      BY DEF CopyStep
    <3> QED BY <1>3, <1>5, <1>22, <2>2, <3>1 DEF Quiet
  <2> QED BY <2>1, <2>2
<1>27. Fed(y, task', in, owes)
  <2>1. CASE stmt = "copy_in"
    <3>1. y.copying /\ y.waiting = << task'.msg >>
      BY <1>13, <1>14, <1>16, <1>19, <2>1
    <3>2. \A i \in 1..Len(in) : in[i].tag \in Within
      <4>1. in = << >>
        BY <1>12, <2>1
      <4>2. Len(in) = 0
        BY <4>1
      <4> QED BY <4>2
    <3>3. task'.at # "copy_body"
      BY <1>16, <2>1
    <3> QED BY <3>1, <3>2, <3>3 DEF Fed, Feeds
  <2>2. CASE stmt = "copy_out"
    BY <1>16, <2>2 DEF Fed
  <2> QED BY <2>1, <2>2
<1>28. Agrees(y, task', skipping', in, owes)
  BY <1>24, <1>25, <1>26, <1>27 DEF Agrees
<1> QED BY <1>15, <1>18, <1>21, <1>28
-----------------------------------------------------------------------------
\* What the server reads.

\* A list of what the client sent, its first and the rest.
LEMMA InboxFacts ==
  ASSUME NEW in \in Seq(Incoming)
  PROVE  /\ Len(in) \in Nat /\ (in = << >> <=> Len(in) = 0)
         /\ in # << >> => /\ Head(in) = in[1] /\ in[1] \in Incoming
                          /\ Tail(in) \in Seq(Incoming) /\ Len(Tail(in)) = Len(in) - 1
                          /\ \A i \in 1..Len(in)-1 : Tail(in)[i] = in[i+1]
<1>1. Len(in) \in Nat /\ (in = << >> <=> Len(in) = 0)
  BY LenProperties, EmptySeq
<1>2. in # << >> =>
        /\ Head(in) \in Incoming /\ Tail(in) \in Seq(Incoming) /\ Len(Tail(in)) = Len(in) - 1
        /\ \A i \in 1..Len(Tail(in)) : Tail(in)[i] = in[i+1]
  BY HeadTailProperties
<1>3. in # << >> => Head(in) = in[1]
  OBVIOUS
<1> QED BY <1>1, <1>2, <1>3

\* A list of what the client sent, and one more.
LEMMA InboxGrows ==
  ASSUME NEW in \in Seq(Incoming), NEW m \in Incoming
  PROVE  /\ Append(in, m) \in Seq(Incoming) /\ Len(Append(in, m)) = Len(in) + 1
         /\ \A i \in 1..Len(in) : Append(in, m)[i] = in[i]
         /\ Append(in, m)[Len(in)+1] = m
  BY AppendProperties

\* Bodies follow their headers as the stream is read,
LEMMA FramedTail ==
  ASSUME NEW in \in Seq(Incoming), in # << >>, NEW owes, Framed(in, owes)
  PROVE  Framed(Tail(in), owes)
<1> DEFINE s == Tail(in)
<1>1. /\ Len(in) \in Nat /\ Len(in) # 0 /\ Len(s) = Len(in) - 1 /\ s \in Seq(Incoming)
      /\ \A i \in 1..Len(in)-1 : s[i] = in[i+1]
      /\ s = << >> <=> Len(s) = 0
  BY InboxFacts
<1> HIDE DEF s
<1>2. owes => ~WholeMessages /\ (s = << >> \/ s[Len(s)].tag = "CopyData")
  <2>1. owes => ~WholeMessages /\ in[Len(in)].tag = "CopyData"
    BY DEF Framed
  <2>2. Len(s) # 0 => s[Len(s)] = in[Len(in)]
    <3>1. Len(s) # 0 => Len(s) \in 1..Len(in)-1 /\ Len(s) + 1 = Len(in)
      <4>1. \A n, k \in Nat : k # 0 /\ n = k - 1 /\ n # 0 => n \in 1..k-1 /\ n + 1 = k
        OBVIOUS
      <4>2. Len(s) \in Nat
        BY <1>1, LenProperties
      <4> QED BY <1>1, <4>1, <4>2
    <3> QED BY <1>1, <3>1
  <2> QED BY <1>1, <2>1, <2>2
<1>3. ASSUME ~WholeMessages, NEW i \in 1..Len(s), s[i].tag = "CopyData"
      PROVE  IF i = Len(s) THEN owes ELSE s[i+1].tag = "body"
  <2>1. /\ i \in 1..Len(in)-1 /\ i + 1 \in 1..Len(in)
        /\ i = Len(s) <=> i + 1 = Len(in)
        /\ i # Len(s) => i + 1 \in 1..Len(in)-1
    <3>1. \A k \in Nat : \A j \in 1..k-1 : /\ j + 1 \in 1..k /\ (j = k - 1 <=> j + 1 = k)
                                            /\ j # k - 1 => j + 1 \in 1..k-1
      OBVIOUS
    <3> QED BY <1>1, <3>1
  <2>2. in[i+1].tag = "CopyData"
    BY <1>1, <1>3, <2>1
  <2>3. IF i + 1 = Len(in) THEN owes ELSE in[(i+1)+1].tag = "body"
    BY <1>3, <2>1, <2>2 DEF Framed
  <2>4. i # Len(s) => s[i+1] = in[(i+1)+1]
    BY <1>1, <2>1
  <2> QED BY <2>1, <2>3, <2>4
<1> QED BY <1>2, <1>3 DEF Framed, s

\* as messages are sent,
LEMMA FramedSent ==
  ASSUME NEW in \in Seq(Incoming), NEW owes, ~owes, Framed(in, owes), NEW m \in Incoming,
         NEW next, next <=> m.tag = "CopyData" /\ ~WholeMessages
  PROVE  Framed(Append(in, m), next)
<1> DEFINE s == Append(in, m)
<1>1. /\ Len(in) \in Nat /\ Len(s) = Len(in) + 1
      /\ \A i \in 1..Len(in) : s[i] = in[i]
      /\ s[Len(in)+1] = m
  BY InboxFacts, InboxGrows
<1> HIDE DEF s
<1>2. next => ~WholeMessages /\ s[Len(s)].tag = "CopyData"
  BY <1>1
<1>3. ASSUME ~WholeMessages, NEW i \in 1..Len(s), s[i].tag = "CopyData"
      PROVE  IF i = Len(s) THEN next ELSE s[i+1].tag = "body"
  <2>1. CASE i = Len(s)
    BY <1>1, <1>3, <2>1
  <2>2. CASE i # Len(s)
    <3>1. i \in 1..Len(in) /\ (i # Len(in) => i + 1 \in 1..Len(in))
      <4>1. \A n \in Nat : \A j \in 1..n+1 : j # n + 1 => j \in 1..n /\ (j # n => j + 1 \in 1..n)
        OBVIOUS
      <4> QED BY <1>1, <2>2, <4>1
    <3>2. in[i].tag = "CopyData"
      BY <1>1, <1>3, <3>1
    <3>3. IF i = Len(in) THEN owes ELSE in[i+1].tag = "body"
      BY <1>3, <3>1, <3>2 DEF Framed
    <3> QED BY <1>1, <2>2, <3>1, <3>3
  <2> QED BY <2>1, <2>2
<1> QED BY <1>2, <1>3 DEF Framed, s

\* and as the body of the last arrives.
LEMMA FramedBody ==
  ASSUME NEW in \in Seq(Incoming), NEW owes, owes, Framed(in, owes), NEW next, ~next
  PROVE  Framed(Append(in, Body), next)
<1> DEFINE s == Append(in, Body)
<1>1. /\ Len(in) \in Nat /\ Len(s) = Len(in) + 1
      /\ \A i \in 1..Len(in) : s[i] = in[i]
      /\ s[Len(in)+1] = Body
  <2>1. Body \in Incoming
    BY DEF Incoming
  <2> QED BY <2>1, InboxFacts, InboxGrows
<1>2. Body.tag = "body"
  BY DEF Body
<1> HIDE DEF s, Body
<1>3. ASSUME ~WholeMessages, NEW i \in 1..Len(s), s[i].tag = "CopyData"
      PROVE  IF i = Len(s) THEN next ELSE s[i+1].tag = "body"
  <2>1. CASE i = Len(s)
    BY <1>1, <1>2, <1>3, <2>1
  <2>2. CASE i # Len(s)
    <3>1. i \in 1..Len(in) /\ (i # Len(in) => i + 1 \in 1..Len(in))
      <4>1. \A n \in Nat : \A j \in 1..n+1 : j # n + 1 => j \in 1..n /\ (j # n => j + 1 \in 1..n)
        OBVIOUS
      <4> QED BY <1>1, <2>2, <4>1
    <3>2. in[i].tag = "CopyData"
      BY <1>1, <1>3, <3>1
    <3>3. i # Len(in) => in[i+1].tag = "body"
      BY <1>3, <3>1, <3>2 DEF Framed
    <3> QED BY <1>1, <1>2, <2>2, <3>1, <3>3
  <2> QED BY <2>1, <2>2
<1> QED BY <1>3 DEF Framed, s

\* What read_message leaves: a CopyData that comes in two pieces is taken with its
\* body.
LEMMA AfterFirstIs ==
  ASSUME inbox \in Seq(Incoming), inbox # << >>, NEW owes, Framed(inbox, owes)
  PROVE  \/ /\ AfterFirst = Tail(inbox)
            /\ Head(inbox).tag = "CopyData" /\ ~HasBody => Tail(inbox) = << >> /\ owes
         \/ /\ AfterFirst = Tail(Tail(inbox)) /\ Tail(inbox) # << >>
            /\ Tail(inbox)[1].tag = "body" /\ HasBody
            /\ Head(inbox).tag = "CopyData"
<1> DEFINE s == Tail(inbox)
<1>1. /\ Len(inbox) \in Nat /\ Len(inbox) # 0 /\ Head(inbox) = inbox[1]
      /\ s \in Seq(Incoming) /\ Len(s) = Len(inbox) - 1
      /\ \A i \in 1..Len(inbox)-1 : s[i] = inbox[i+1]
  BY InboxFacts
<1>2. s = << >> <=> Len(s) = 0
  BY <1>1, InboxFacts
<1>3. AfterFirst = IF Head(inbox).tag = "CopyData" /\ ~WholeMessages /\ Len(inbox) > 1
                   THEN Tail(s) ELSE s
  BY DEF AfterFirst
<1>4. HasBody <=> (Head(inbox).tag = "CopyData" => WholeMessages \/ Len(inbox) > 1)
  BY DEF HasBody
<1> HIDE DEF s
<1>5. CASE Head(inbox).tag = "CopyData" /\ ~WholeMessages /\ Len(inbox) > 1
  <2>1. 1 \in 1..Len(inbox) /\ 1 # Len(inbox) /\ 1 \in 1..Len(inbox)-1 /\ Len(s) # 0
    BY <1>1, <1>5
  <2>2. inbox[1+1].tag = "body"
    BY <1>1, <1>5, <2>1 DEF Framed
  <2>3. s[1].tag = "body"
    BY <1>1, <2>1, <2>2
  <2> QED BY <1>2, <1>3, <1>4, <1>5, <2>1, <2>3 DEF s
<1>6. CASE ~(Head(inbox).tag = "CopyData" /\ ~WholeMessages /\ Len(inbox) > 1)
  <2>1. AfterFirst = s
    BY <1>3, <1>6
  <2>2. ASSUME Head(inbox).tag = "CopyData", ~HasBody
        PROVE  s = << >> /\ owes
    <3>1. ~WholeMessages /\ ~(Len(inbox) > 1)
      BY <1>4, <2>2
    <3>2. Len(inbox) = 1
      <4>1. \A n \in Nat : n # 0 /\ ~(n > 1) => n = 1
        OBVIOUS
      <4> QED BY <1>1, <3>1, <4>1
    <3>3. 1 \in 1..Len(inbox) /\ Len(s) = 0
      BY <1>1, <3>2
    <3>4. owes
      BY <1>1, <2>2, <3>1, <3>2, <3>3 DEF Framed
    <3> QED BY <1>2, <3>3, <3>4
  <2> QED BY <2>1, <2>2 DEF s
<1> QED BY <1>5, <1>6

\* What comes first of what is sent in a copy.
LEMMA FeedsFirst ==
  ASSUME NEW z, NEW t, NEW in \in Seq(Incoming), in # << >>, Feeds(z, t, in)
  PROVE  /\ in[1].tag \in Within \cup {"CopyDone", "CopyFail"}
         /\ in[1].tag \notin Within => ~z.copying /\ (Ahead(t) > 0 => Len(in) = 1)
<1>1. Len(in) \in Nat /\ Len(in) # 0 /\ 1 \in 1..Len(in)
  BY InboxFacts
<1>2. CASE z.copying
  BY <1>1, <1>2 DEF Feeds
<1>3. CASE ~z.copying
  <2>1. PICK j \in 1..Len(in) :
          /\ in[j].tag \in {"CopyDone", "CopyFail"}
          /\ \A i \in 1..j-1 : in[i].tag \in Within
          /\ Ahead(t) > 0 => j = Len(in) /\ z.waiting = << t.msg >>
    BY <1>3 DEF Feeds, Ended
  <2>2. CASE j = 1
    BY <1>3, <2>1, <2>2
  <2>3. CASE j # 1
    <3>1. 1 \in 1..j-1
      BY <2>3
    <3> QED BY <2>1, <3>1
  <2> QED BY <2>2, <2>3
<1> QED BY <1>2, <1>3

\* The rest, after data.
LEMMA FeedsTail ==
  ASSUME NEW z, NEW t, NEW in \in Seq(Incoming), in # << >>, Feeds(z, t, in), in[1].tag \in Within
  PROVE  Feeds(z, t, Tail(in))
<1> DEFINE s == Tail(in)
<1>1. /\ Len(in) \in Nat /\ Len(in) # 0 /\ Len(s) = Len(in) - 1
      /\ \A i \in 1..Len(in)-1 : s[i] = in[i+1]
  BY InboxFacts
<1> HIDE DEF s
<1>2. CASE z.copying
  <2>1. z.waiting = << t.msg >> /\ \A i \in 1..Len(in) : in[i].tag \in Within
    BY <1>2 DEF Feeds
  <2>2. ASSUME NEW i \in 1..Len(s)
        PROVE  s[i].tag \in Within
    <3>1. i \in 1..Len(in)-1 /\ i + 1 \in 1..Len(in)
      BY <1>1
    <3> QED BY <1>1, <2>1, <3>1
  <2> QED BY <1>2, <2>1, <2>2 DEF Feeds, s
<1>3. CASE ~z.copying
  <2>1. PICK j \in 1..Len(in) :
          /\ in[j].tag \in {"CopyDone", "CopyFail"}
          /\ \A i \in 1..j-1 : in[i].tag \in Within
          /\ Ahead(t) > 0 => j = Len(in) /\ z.waiting = << t.msg >>
    BY <1>3 DEF Feeds, Ended
  <2>2. j # 1
    BY <2>1 DEF Within
  <2>3. /\ j - 1 \in 1..Len(s) /\ j - 1 \in 1..Len(in)-1 /\ (j - 1) + 1 = j
        /\ j = Len(in) => j - 1 = Len(s)
    BY <1>1, <2>2
  <2>4. s[j-1].tag \in {"CopyDone", "CopyFail"}
    <3>1. s[j-1] = in[j]
      BY <1>1, <2>3
    <3> QED BY <2>1, <3>1
  <2>5. ASSUME NEW i \in 1..(j-1)-1
        PROVE  s[i].tag \in Within
    <3>1. i \in 1..Len(in)-1 /\ i + 1 \in 1..j-1
      <4>1. \A n \in Nat : \A k \in 1..n : \A h \in 1..(k-1)-1 : h \in 1..n-1 /\ h + 1 \in 1..k-1
        OBVIOUS
      <4> QED BY <1>1, <4>1
    <3> QED BY <1>1, <2>1, <3>1
  <2>6. Ended(z.waiting, t, s)
    BY <2>1, <2>3, <2>4, <2>5 DEF Ended
  <2> QED BY <1>3, <2>6 DEF Feeds, s
<1> QED BY <1>2, <1>3

\* The task of a copy reads on.
LEMMA CopyAgrees ==
  ASSUME NEW z, NEW t, NEW skip, NEW in, NEW owes, t.at \in CopyStep, TaskSound(t, skip),
         Linked(z, t, skip),
         NEW u, u.at \in CopyStep, u.msg = t.msg, u.todo = t.todo,
         Queued(skip, First(t, skip), in, z.waiting), Feeds(z, t, in),
         u.at = "copy_body" => IF in = << >> THEN owes ELSE in[1].tag = "body"
  PROVE  TaskSound(u, skip) /\ Agrees(z, u, skip, in, owes)
<1>1. u.at \in Started /\ t.at \in Started /\ u.at \notin {"reading", "running"} /\ t.at \notin {"reading", "running"}
  BY DEF Started, CopyStep
<1>2. Done(u) = Done(t)
  BY DEF Done
<1>3. Ahead(u) = Ahead(t)
  BY <1>1, <1>2 DEF Ahead
<1>4. First(u, skip) = First(t, skip)
  BY <1>1 DEF First
<1>5. TaskSound(u, skip)
  BY <1>1, <1>2 DEF TaskSound
<1>6. Linked(z, u, skip)
  BY <1>1, <1>2, <1>3 DEF Linked
<1>7. Quiet(u, skip, in, owes)
  BY DEF Quiet
<1>8. Feeds(z, u, in)
  BY <1>3 DEF Feeds, Ended
<1>9. Fed(z, u, in, owes)
  BY <1>8 DEF Fed
<1> QED BY <1>4, <1>5, <1>6, <1>7, <1>9 DEF Agrees

\* The same when the task has read the end of the copy.
LEMMA EndedAgrees ==
  ASSUME NEW z, NEW t, NEW skip, NEW in, NEW owes, t.at \in CopyStep, TaskSound(t, skip),
         Linked(z, t, skip), ~z.copying,
         NEW u, u.at = "copy_ended", u.msg = t.msg, u.todo = t.todo,
         Queued(skip, First(t, skip), in, z.waiting),
         Ahead(t) > 0 => in = << >> /\ ~owes
  PROVE  TaskSound(u, skip) /\ Agrees(z, u, skip, in, owes)
<1>1. u.at \in Started /\ t.at \in Started /\ u.at \notin {"reading", "running"} /\ t.at \notin {"reading", "running"}
  BY DEF Started, CopyStep
<1>2. Done(u) = Done(t)
  BY DEF Done
<1>3. Ahead(u) = Ahead(t)
  BY <1>1, <1>2 DEF Ahead
<1>4. First(u, skip) = First(t, skip)
  BY <1>1 DEF First
<1>5. TaskSound(u, skip)
  BY <1>1, <1>2 DEF TaskSound
<1>6. Linked(z, u, skip)
  BY <1>1, <1>2, <1>3 DEF Linked
<1>7. Quiet(u, skip, in, owes)
  BY <1>3 DEF Quiet
<1>8. Fed(z, u, in, owes)
  BY DEF Fed, CopyStep
<1> QED BY <1>4, <1>5, <1>6, <1>7, <1>8 DEF Agrees

\* What is prepared stays prepared.
LEMMA StockedRests ==
  ASSUME Stocked, UNCHANGED << statements, portals >>
  PROVE  Stocked'
  BY DEF Stocked
\* So it does when a portal is stored of such a statement.
LEMMA StockedPortal ==
  ASSUME Stocked, Stores, NEW n \in Names, NEW p, p # NoName => Prepared(p.stmt),
         portals' = [portals EXCEPT ![n] = p], UNCHANGED statements
  PROVE  Stocked'
<1>1. \A k \in Names : portals'[k] = IF k = n THEN p ELSE portals[k]
  BY DEF Stores
<1> QED BY <1>1 DEF Stocked

\* A step of the server that may read.
LEMMA ServerReads ==
  ASSUME Stocked', cl' = cl, Framed(inbox', cl.owesBody), TaskSound(task', skipping'),
         \E y : Reads(cl, outbox', y) /\ Agrees(y, task', skipping', inbox', cl.owesBody)
  PROVE  StepInv'
  BY DEF StepInv, Agreement
\* A step of the server that reads nothing.
LEMMA ServerStep ==
  ASSUME StepInv, Stocked', inbox' = inbox, cl' = cl, TaskSound(task', skipping'),
         \E y : Reads(cl, outbox', y) /\ Agrees(y, task', skipping', inbox, cl.owesBody)
  PROVE  StepInv'
  BY ServerReads DEF StepInv
-----------------------------------------------------------------------------
\* One step at a time: the server,

\* The task of a message that has not started.
LEMMA CreatedTask ==
  ASSUME Inv, task.at = "created"
  PROVE  /\ task.msg \in Dispatched /\ task.msg \in Incoming /\ task.msg.tag # "body"
         /\ task # Reading
<1>1. task # Reading
  BY DEF Reading
<1>2. task.msg \in Dispatched
  BY <1>1 DEF Inv, Loop, Tasks
<1>3. task.msg.tag # "body"
  BY <1>2, CommandAssumption DEF Dispatched, CopyMessages, Messages
<1> QED BY <1>1, <1>2, <1>3 DEF Incoming, Dispatched

\* The loop reads a message.
LEMMA ReadMessageSteps ==
  ASSUME Inv, StepInv, ReadMessage
  PROVE  StepInv'
<1> DEFINE m == Head(inbox)
           s == Tail(inbox)
           owes == cl.owesBody
<1>1. /\ task = Reading /\ inbox # << >> /\ inbox' = AfterFirst /\ HasBody
      /\ UNCHANGED << outbox, skipping, statements, portals, cl >>
      /\ IF m.tag = "Terminate" THEN task' = task ELSE task' = Task("created", m, << >>)
  BY DEF ReadMessage, client
<1>2. inbox \in Seq(Incoming) /\ skipping \in BOOLEAN
  BY DEF Inv, Loop
<1>3. PICK z : Reads(cl, outbox, z) /\ Agrees(z, task, skipping, inbox, owes)
  BY DEF StepInv, Agreement
<1>4. Framed(inbox, owes) /\ Stocked
  BY DEF StepInv
<1>5. Stocked'
  BY <1>1, <1>4, StockedRests
<1>6. task.at = "reading"
  BY <1>1 DEF Reading
<1>7. /\ m = inbox[1] /\ m \in Incoming /\ s \in Seq(Incoming) /\ Len(inbox) \in Nat
      /\ Len(s) = Len(inbox) - 1 /\ (s = << >> <=> Len(s) = 0)
  BY <1>1, <1>2, InboxFacts
<1>8. /\ Queued(skipping, AddLive(skipping, << >>, m), s, z.waiting)
      /\ Live(skipping, << >>, m) /\ CopyInsOf(m) > 0 => Len(inbox) = 1
  <2> DEFINE none == << >>
  <2>1. Queued(skipping, none, inbox, z.waiting)
    BY <1>3, <1>6 DEF Agrees, First
  <2> HIDE DEF none
  <2>2. /\ Queued(skipping, AddLive(skipping, none, inbox[1]), s, z.waiting)
        /\ Live(skipping, none, inbox[1]) /\ CopyInsOf(inbox[1]) > 0 => Len(inbox) = 1
    BY <1>1, <1>2, <2>1, QueuedRead
  <2> QED BY <1>7, <2>2 DEF none
<1>9. Framed(s, owes)
  BY <1>1, <1>2, <1>4, FramedTail
<1>10. \/ inbox' = s
       \/ /\ inbox' = Tail(s) /\ s # << >> /\ s[1].tag = "body"
          /\ m.tag = "CopyData"
  BY <1>1, <1>2, <1>4, AfterFirstIs
<1> HIDE DEF s
<1>11. Queued(skipping, AddLive(skipping, << >>, m), inbox', z.waiting) /\ Framed(inbox', owes)
  <2>1. CASE inbox' = s
    BY <1>8, <1>9, <2>1
  <2>2. CASE inbox' = Tail(s) /\ s # << >> /\ s[1].tag = "body"
    <3>1. Unanswered(s[1])
      BY <2>2 DEF Unanswered
    <3> DEFINE first == AddLive(skipping, << >>, m)
    <3>2. Queued(skipping, first, s, z.waiting)
      BY <1>8
    <3> HIDE DEF first
    <3>3. Queued(skipping, first, Tail(s), z.waiting)
      BY <1>2, <1>7, <2>2, <3>1, <3>2, QueuedSkips
    <3>4. Framed(Tail(s), owes)
      BY <1>7, <1>9, <2>2, FramedTail
    <3> QED BY <2>2, <3>3, <3>4 DEF first
  <2> QED BY <1>10, <2>1, <2>2
<1>12. Linked(z, task, skipping)
  BY <1>3 DEF Agrees
<1>13. CASE m.tag = "Terminate"
  <2>1. task' = Reading
    BY <1>1, <1>13
  <2>2. AddLive(skipping, << >>, m) = << >>
    BY <1>13 DEF AddLive, Live, Unanswered
  <2>3. Reading.at = "reading"
    BY DEF Reading
  <2>4. Quiet(Reading, skipping, inbox', owes) /\ Fed(z, Reading, inbox', owes)
    BY <2>3 DEF Quiet, Fed, CopyStep
  <2>5. Agrees(z, Reading, skipping, inbox', owes)
    BY <1>1, <1>11, <1>12, <2>2, <2>3, <2>4 DEF Agrees, First
  <2>6. TaskSound(task', skipping')
    BY <2>1, ReadingSound
  <2>7. Reads(cl, outbox', z) /\ Agrees(z, task', skipping', inbox', owes)
    BY <1>1, <1>3, <2>1, <2>5
  <2> QED BY <1>1, <1>5, <1>11, <2>6, <2>7, ServerReads
<1>14. CASE m.tag # "Terminate"
  <2>1. task' = Task("created", m, << >>)
    BY <1>1, <1>14
  <2>2. task'.at = "created" /\ task'.msg = m
    BY <2>1 DEF Task
  <2>3. TaskSound(task', skipping')
    BY <1>14, <2>2 DEF TaskSound, Started, CopyStep
  <2>4. First(task', skipping') = AddLive(skipping, << >>, m)
    BY <1>1, <2>2 DEF First
  <2>5. Linked(z, task', skipping')
    BY <1>1, <1>6, <1>12, <2>2 DEF Linked, Started, CopyStep
  <2>6. Fed(z, task', inbox', owes)
    BY <2>2 DEF Fed, CopyStep
  <2>7. Quiet(task', skipping', inbox', owes)
    <3>1. SUFFICES ASSUME AddLive(skipping, << >>, m) # << >>, Ahead(task') > 0
                   PROVE  inbox' = << >> /\ ~owes
      BY <2>4 DEF Quiet
    <3>2. Live(skipping, << >>, m)
      BY <3>1 DEF AddLive
    <3>3. m.tag # "CopyData" /\ CopyInsOf(m) > 0
      <4>1. Ahead(task') = CopyInsOf(m)
        BY <2>2 DEF Ahead, Started, CopyStep
      <4> QED BY <3>1, <3>2, <4>1 DEF Live, Unanswered
    <3>4. Len(inbox) = 1
      BY <1>8, <3>2, <3>3
    <3>5. inbox' = s /\ s = << >>
      BY <1>7, <1>10, <3>3, <3>4
    <3>6. ~owes
      BY <1>1, <1>4, <1>7, <3>3, <3>4 DEF Framed
    <3> QED BY <3>5, <3>6
  <2>8. Agrees(z, task', skipping', inbox', owes)
    BY <1>1, <1>11, <2>4, <2>5, <2>6, <2>7 DEF Agrees
  <2> QED BY <1>1, <1>3, <1>5, <1>11, <2>3, <2>8, ServerReads
<1> QED BY <1>13, <1>14

\* A dispatch that answers nothing, or a Sync.
LEMMA DroppedAgrees ==
  ASSUME Inv, TaskSound(task, skipping), task.at = "created", Dropped(task.msg),
         NEW z, Reads(cl, outbox, z), NEW in \in Seq(Incoming), NEW owes,
         Agrees(z, task, skipping, in, owes), Finish(<< >>, tx, FALSE)
  PROVE  \E y : Reads(cl, outbox', y) /\ Agrees(y, task', skipping', in, owes)
<1> DEFINE m == task.msg
<1>1. Loop /\ outbox \in Seq(Replies) /\ skipping \in BOOLEAN
  BY DEF Inv, Loop
<1>2. m \in Incoming /\ m.tag # "body" /\ m.tag # "Terminate"
  BY CreatedTask DEF TaskSound
<1>3. z \in Clients /\ Sound(z) /\ z.waiting \in Seq(Alphabet)
  BY <1>1, ReadsEnds, ClientTypes
<1>4. /\ Queued(skipping, AddLive(skipping, << >>, m), in, z.waiting)
      /\ Linked(z, task, skipping)
  BY DEF Agrees, First
<1>5. ~z.copying
  BY <1>4 DEF Linked, CopyStep
<1>6. /\ task' = Reading /\ skipping' \in BOOLEAN
      /\ EndsWithReady(m) => ~skipping' /\ outbox' = Append(outbox, "Ready")
      /\ ~EndsWithReady(m) => (skipping' <=> skipping) /\ outbox' = outbox
  BY <1>1, FinishWrites
<1>7. CASE m.tag = "Sync"
  <2>1. m \in Alphabet /\ EndsWithReady(m) /\ ~Unanswered(m)
    BY <1>2, <1>7, AnsweredMessages DEF Unanswered, EndsWithReady
  <2>2. Append(<< >>, m) = << m >>
    OBVIOUS
  <2>3. Queued(skipping, << m >>, in, z.waiting)
    BY <1>4, <2>1, <2>2 DEF AddLive, Live
  <2>4. z.waiting # << >> /\ z.waiting[1] = m
    BY <1>1, <2>1, <2>3, QueuedFirst
  <2>5. Head(z.waiting) = m
    BY <1>3, <2>4, ListFacts
  <2>6. "Ready" \in Answers(z, m)
    BY <1>7 DEF Answers
  <2>7. Due(z, "Ready") /\ Pops(z, "Ready")
    BY <1>5, <2>4, <2>5, <2>6 DEF Due, Expected, Pops, Counts
  <2>8. Reads(cl, Append(outbox, "Ready"), Taken(z, "Ready"))
    BY <1>1, <2>7, ReadsMore DEF Replies
  <2>9. Agrees(Taken(z, "Ready"), Reading, skipping', in, owes)
    BY <1>1, <1>3, <1>5, <1>6, <2>1, <2>3, <2>7, AnsweredAgrees
  <2> QED BY <1>6, <2>1, <2>8, <2>9
<1>8. CASE m.tag # "Sync"
  <2>1. skipping \/ Unanswered(m)
    BY <1>8 DEF Dropped, Unanswered
  <2>2. m.tag # "Query"
    <3>1. SUFFICES ASSUME m.tag = "Query" PROVE FALSE
      OBVIOUS
    <3> DEFINE first == AddLive(skipping, << >>, m)
               W == z.waiting
    <3>2. skipping /\ ~Unanswered(m)
      BY <2>1, <3>1 DEF Unanswered
    <3>3. first = << m >>
      <4>1. Append(<< >>, m) = << m >>
        OBVIOUS
      <4> QED BY <3>1, <3>2, <4>1 DEF AddLive, Live, EndsWithReady
    <3>4. first # << >> /\ first[1] = m
      BY <3>3
    <3>5. Queued(skipping, first, in, W) /\ skipping \in BOOLEAN /\ in \in Seq(Incoming)
      BY <1>1, <1>4
    <3> HIDE DEF first, W
    <3>6. /\ first \in Seq(Alphabet) /\ W \in Seq(Alphabet)
          /\ skipping /\ first # << >> => first[1].tag = "Sync"
          /\ skipping /\ W # << >> => W[1].tag = "Sync"
          /\ in = << >> => W = first
      BY ONLY <3>5, QueuedEnds
    <3> QED BY <1>8, <3>2, <3>4, <3>6
  <2>3. ~EndsWithReady(m)
    BY <1>8, <2>2 DEF EndsWithReady
  <2>4. AddLive(skipping, << >>, m) = << >>
    BY <2>1, <2>3 DEF AddLive, Live
  <2>5. skipping' = skipping
    BY <1>1, <1>6, <2>3
  <2>6. Reading.at = "reading"
    BY DEF Reading
  <2>7. Quiet(Reading, skipping, in, owes) /\ Fed(z, Reading, in, owes)
    BY <2>6 DEF Quiet, Fed, CopyStep
  <2>8. Linked(z, Reading, skipping)
    BY <1>4, <1>5, <2>6 DEF Linked, Started, CopyStep
  <2>9. Agrees(z, Reading, skipping, in, owes)
    BY <1>4, <2>4, <2>6, <2>7, <2>8 DEF Agrees, First
  <2> QED BY <1>6, <2>3, <2>5, <2>9
<1> QED BY <1>7, <1>8

\* A Query without statements.
LEMMA EmptyAgrees ==
  ASSUME Inv, TaskSound(task, skipping), task.at = "created", ~skipping,
         task.msg.tag = "Query", task.msg.batch = << >>,
         NEW z, Reads(cl, outbox, z), NEW in \in Seq(Incoming), NEW owes,
         Agrees(z, task, skipping, in, owes), Finish(<< "Empty" >>, tx, FALSE)
  PROVE  \E y : Reads(cl, outbox', y) /\ Agrees(y, task', skipping', in, owes)
<1> DEFINE m == task.msg
           y == Taken(z, "Empty")
<1>1. Loop /\ outbox \in Seq(Replies) /\ skipping \in BOOLEAN /\ "Empty" \in Replies /\ "Ready" \in Replies
  BY DEF Inv, Loop, Replies
<1>2. m \in Incoming /\ ~Unanswered(m) /\ EndsWithReady(m)
  BY CreatedTask DEF Unanswered, EndsWithReady
<1>3. m \in Alphabet
  BY <1>2, AnsweredMessages
<1>4. z \in Clients /\ Sound(z) /\ z.waiting \in Seq(Alphabet)
  BY <1>1, ReadsEnds, ClientTypes
<1>5. Queued(skipping, << m >>, in, z.waiting) /\ Linked(z, task, skipping)
  <2>1. Append(<< >>, m) = << m >>
    OBVIOUS
  <2>2. First(task, skipping) = << m >>
    BY <1>2, <2>1 DEF First, AddLive, Live
  <2> QED BY <2>2 DEF Agrees
<1>6. ~z.copying /\ ~z.failed /\ z.answered = 0
  BY <1>5 DEF Linked, CopyStep, Started
<1>7. z.waiting # << >> /\ z.waiting[1] = m
  BY <1>1, <1>3, <1>5, QueuedFirst
<1>8. Head(z.waiting) = m
  BY <1>4, <1>7, ListFacts
<1>9. "Empty" \in Answers(z, m)
  BY <1>6 DEF Answers, Owed
<1>10. Due(z, "Empty")
  BY <1>6, <1>7, <1>8, <1>9 DEF Due, Expected
<1>11. Counts(z, "Empty")
  BY <1>7 DEF Counts
<1>12. y.answered = z.answered + 1 /\ y.waiting = z.waiting /\ y.copying = z.copying
  BY <1>4, <1>7, <1>11, CountFields
<1>13. y \in Clients /\ Sound(y)
  BY <1>4, <1>10, SoundTaken
<1>14. Reads(cl, Append(outbox, "Empty"), y)
  BY <1>1, <1>10, ReadsMore
<1> HIDE DEF y
<1>15. "Ready" \in Answers(y, m)
  BY <1>6, <1>12 DEF Answers, Owed
<1>16. Due(y, "Ready") /\ Pops(y, "Ready")
  BY <1>6, <1>7, <1>8, <1>12, <1>15 DEF Due, Expected, Pops, Counts
<1>17. Append(outbox, "Empty") \in Seq(Replies)
  BY <1>1, AppendProperties
<1>18. Reads(cl, Append(Append(outbox, "Empty"), "Ready"), Taken(y, "Ready"))
  BY <1>1, <1>14, <1>16, <1>17, ReadsMore
<1>19. /\ task' = Reading /\ skipping' \in BOOLEAN /\ ~skipping'
       /\ outbox' = Append(Append(outbox, "Empty"), "Ready")
  BY <1>1, <1>2, FinishWrites
<1>20. Queued(skipping, << m >>, in, y.waiting)
  BY <1>5, <1>12
<1>21. ~y.copying
  BY <1>6, <1>12
<1>22. Agrees(Taken(y, "Ready"), Reading, skipping', in, owes)
  BY <1>1, <1>3, <1>13, <1>16, <1>19, <1>20, <1>21, AnsweredAgrees
<1> QED BY <1>18, <1>19, <1>22

\* The handler of a message is under way.
LEMMA RunningAgrees ==
  ASSUME Inv, TaskSound(task, skipping), task.at = "created", ~Dropped(task.msg),
         task.msg.tag = "Query" => task.msg.batch # << >>,
         NEW z, Reads(cl, outbox, z), NEW in \in Seq(Incoming), NEW owes,
         Agrees(z, task, skipping, in, owes),
         task' = Task("running", task.msg, IF task.msg.tag = "Query" THEN task.msg.batch ELSE << >>),
         UNCHANGED << outbox, skipping >>
  PROVE  /\ TaskSound(task', skipping')
         /\ Reads(cl, outbox', z) /\ Agrees(z, task', skipping', in, owes)
<1> DEFINE m == task.msg
<1>1. Loop /\ outbox \in Seq(Replies) /\ skipping \in BOOLEAN
  BY DEF Inv, Loop
<1>2. m \in Incoming /\ m.tag # "body" /\ m.tag # "Terminate"
  BY CreatedTask DEF TaskSound
<1>3. ~skipping /\ ~Unanswered(m)
  BY <1>2 DEF Dropped, Unanswered
<1>4. m \in Alphabet
  BY <1>2, <1>3, AnsweredMessages
<1>5. /\ task'.at = "running" /\ task'.msg = m
      /\ task'.todo = IF m.tag = "Query" THEN m.batch ELSE << >>
  BY DEF Task
<1>6. ASSUME m.tag = "Query"
      PROVE  /\ m.batch \in Seq(Statements) /\ Len(m.batch) \in 1..Len(m.batch) /\ Done(task') = 0
             /\ \A i \in 1..Len(m.batch) : m.batch[i] = m.batch[Done(task') + i]
  <2>1. m.batch \in Seq(Statements)
    BY <1>4, <1>6, Batches
  <2>2. Len(m.batch) \in Nat /\ Len(m.batch) # 0
    BY <1>6, <2>1, LenProperties, EmptySeq
  <2>3. Done(task') = 0
    BY <1>5, <1>6, <2>2 DEF Done
  <2>4. \A i \in 1..Len(m.batch) : 0 + i = i
    BY <2>2
  <2> QED BY <2>1, <2>2, <2>3, <2>4
<1>7. task'.at \in Started
  BY <1>5 DEF Started
<1>8. TaskSound(task', skipping')
  BY <1>2, <1>3, <1>5, <1>6 DEF TaskSound
<1>9. First(task', skipping') = First(task, skipping)
  BY <1>5 DEF First
<1>10. Ahead(task') = CopyInsOf(m) /\ Ahead(task) = CopyInsOf(m) /\ CopyInsOf(m) \in Nat
  <2>1. Ahead(task) = CopyInsOf(m)
    BY DEF Ahead, Started, CopyStep
  <2>2. CASE m.tag = "Query"
    <3>1. Ahead(task') = CopiesAfter(m.batch, 0)
      BY <1>5, <1>6, <1>7, <2>2 DEF Ahead, CopyStep
    <3> QED BY <1>4, <2>1, <2>2, <3>1, CopyInsType
  <2>3. CASE m.tag # "Query"
    <3>1. Ahead(task') = CopyInsOf(m)
      BY <1>5, <2>3 DEF Ahead, CopyStep
    <3> QED BY <1>4, <2>1, <3>1, CopyInsType
  <2> QED BY <2>2, <2>3
<1>11. /\ Queued(skipping, First(task, skipping), in, z.waiting) /\ Linked(z, task, skipping)
       /\ Quiet(task, skipping, in, owes)
  BY DEF Agrees
<1>12. Linked(z, task', skipping')
  <2>1. z.copied = 0 /\ z.answered = 0 /\ ~z.copying
    BY <1>11 DEF Linked, Started, CopyStep
  <2>2. z.copied + Ahead(task') + 0 <= CopyInsOf(m)
    BY <1>10, <2>1
  <2>3. z.answered = IF m.tag = "Query" THEN Done(task') ELSE 0
    BY <1>6, <2>1
  <2>4. z.aborted <=> skipping' /\ z.waiting = << >>
    BY <1>11 DEF Linked
  <2>5. ~z.failed
    BY <1>11 DEF Linked
  <2> QED BY <1>5, <1>7, <2>1, <2>2, <2>3, <2>4, <2>5 DEF Linked
<1>13. Quiet(task', skipping', in, owes)
  BY <1>9, <1>10, <1>11 DEF Quiet, CopyStep
<1>14. Fed(z, task', in, owes)
  BY <1>5 DEF Fed, CopyStep
<1> QED BY <1>8, <1>9, <1>11, <1>12, <1>13, <1>14 DEF Agrees

\* The first step of a dispatch, for each kind of message.
LEMMA StartSteps ==
  ASSUME Inv, StepInv, Start
  PROVE  StepInv'
<1> DEFINE m == task.msg
           owes == cl.owesBody
<1>1. task.at = "created" /\ UNCHANGED << inbox, statements, portals, cl >>
  BY DEF Start, client
<1>2. inbox \in Seq(Incoming) /\ skipping \in BOOLEAN
  BY DEF Inv, Loop
<1>3. PICK z : Reads(cl, outbox, z) /\ Agrees(z, task, skipping, inbox, owes)
  BY DEF StepInv, Agreement
<1>4. TaskSound(task, skipping) /\ Stocked
  BY DEF StepInv
<1>5. Stocked'
  BY <1>1, <1>4, StockedRests
<1>6. CASE Dropped(m)
  <2>1. Finish(<< >>, tx, FALSE)
    BY <1>6 DEF Start
  <2>2. TaskSound(task', skipping')
    BY <2>1, ReadingSound DEF Finish
  <2>3. \E y : Reads(cl, outbox', y) /\ Agrees(y, task', skipping', inbox, owes)
    BY <1>1, <1>2, <1>3, <1>4, <1>6, <2>1, DroppedAgrees
  <2> QED BY <1>1, <1>5, <2>2, <2>3, ServerStep
<1>7. CASE ~Dropped(m) /\ m.tag = "Unsupported"
  <2>1. Raise
    BY <1>7 DEF Start
  <2>2. TaskSound(task', skipping')
    BY <2>1, ReadingSound DEF Raise, Finish
  <2>3. ~Silent(m) /\ task.at # "reading"
    BY <1>1, <1>7 DEF Silent
  <2>4. Queued(skipping, First(task, skipping), inbox, z.waiting) /\ Linked(z, task, skipping)
    BY <1>3 DEF Agrees
  <2>5. \E y : Reads(cl, outbox', y) /\ Agrees(y, task', skipping', inbox, owes)
    BY <1>2, <1>3, <1>4, <2>1, <2>3, <2>4, RaiseAgrees
  <2> QED BY <1>1, <1>5, <2>2, <2>5, ServerStep
<1>8. CASE ~Dropped(m) /\ m.tag = "Query" /\ m.batch = << >>
  <2>1. Finish(<< "Empty" >>, tx, FALSE)
    BY <1>8 DEF Start
  <2>2. TaskSound(task', skipping')
    BY <2>1, ReadingSound DEF Finish
  <2>3. ~skipping
    BY <1>8 DEF Dropped
  <2>4. \E y : Reads(cl, outbox', y) /\ Agrees(y, task', skipping', inbox, owes)
    BY <1>1, <1>2, <1>3, <1>4, <1>8, <2>1, <2>3, EmptyAgrees
  <2> QED BY <1>1, <1>5, <2>2, <2>4, ServerStep
<1>9. CASE ~Dropped(m) /\ m.tag # "Unsupported" /\ ~(m.tag = "Query" /\ m.batch = << >>)
  <2>1. /\ task' = Task("running", m, IF m.tag = "Query" THEN m.batch ELSE << >>)
        /\ UNCHANGED << outbox, skipping >>
    BY <1>9 DEF Start
  <2>2. /\ TaskSound(task', skipping')
        /\ Reads(cl, outbox', z) /\ Agrees(z, task', skipping', inbox, owes)
    BY <1>1, <1>2, <1>3, <1>4, <1>9, <2>1, RunningAgrees
  <2> QED BY <1>1, <1>5, <2>2, ServerStep
<1> QED BY <1>6, <1>7, <1>8, <1>9

\* A dispatch that raises or is cancelled.
LEMMA RaiseSteps ==
  ASSUME Inv, StepInv, Raise, task.at # "reading", task.at = "created" => ~Silent(task.msg),
         Stocked', inbox' = inbox, cl' = cl
  PROVE  StepInv'
<1>1. PICK z : Reads(cl, outbox, z) /\ Agrees(z, task, skipping, inbox, cl.owesBody)
  BY DEF StepInv, Agreement
<1>2. TaskSound(task, skipping) /\ inbox \in Seq(Incoming)
  BY DEF StepInv, Inv
<1>3. Queued(skipping, First(task, skipping), inbox, z.waiting) /\ Linked(z, task, skipping)
  BY <1>1 DEF Agrees
<1>4. \E y : Reads(cl, outbox', y) /\ Agrees(y, task', skipping', inbox, cl.owesBody)
  BY <1>1, <1>2, <1>3, RaiseAgrees
<1>5. TaskSound(task', skipping')
  BY ReadingSound DEF Raise, Finish
<1> QED BY <1>4, <1>5, ServerStep

\* A message of the extended protocol is answered.
LEMMA HandledSteps ==
  ASSUME Inv, StepInv, task.at = "running", ~EndsWithReady(task.msg),
         NEW r \in Replies, r \notin {"Error", "CopyIn", "CopyOut"},
         \A z : r \in Answers(z, task.msg),
         NEW status, Finish(<< r >>, status, FALSE), Stocked', inbox' = inbox, cl' = cl
  PROVE  StepInv'
<1>1. PICK z : Reads(cl, outbox, z) /\ Agrees(z, task, skipping, inbox, cl.owesBody)
  BY DEF StepInv, Agreement
<1>2. TaskSound(task, skipping) /\ inbox \in Seq(Incoming) /\ task.at \in Started
  BY DEF StepInv, Inv, Started
<1>3. Queued(skipping, First(task, skipping), inbox, z.waiting) /\ ~z.copying
  BY <1>1 DEF Agrees, Linked, CopyStep
<1>4. r \in Answers(z, task.msg)
  OBVIOUS
<1>5. \E y : Reads(cl, outbox', y) /\ Agrees(y, task', skipping', inbox, cl.owesBody)
  BY <1>1, <1>2, <1>3, <1>4, HandledAgrees
<1>6. TaskSound(task', skipping')
  BY ReadingSound DEF Finish
<1> QED BY <1>5, <1>6, ServerStep

\* A statement is complete.
LEMMA CompleteSteps ==
  ASSUME Inv, StepInv, task.at \in {"running", "copying_out", "copy_ended"},
         task.msg.tag \in {"Query", "Execute"}, NEW status, Complete(<< "Complete" >>, status),
         Stocked', inbox' = inbox, cl' = cl
  PROVE  StepInv'
<1>1. PICK z : Reads(cl, outbox, z) /\ Agrees(z, task, skipping, inbox, cl.owesBody)
  BY DEF StepInv, Agreement
<1>2. TaskSound(task, skipping) /\ inbox \in Seq(Incoming) /\ task.at \in Started
  BY DEF StepInv, Inv, Started
<1>3. /\ Queued(skipping, First(task, skipping), inbox, z.waiting) /\ Linked(z, task, skipping)
      /\ ~z.copying /\ Quiet(task, skipping, inbox, cl.owesBody)
  BY <1>1 DEF Agrees, Linked, CopyStep
<1>4. Ahead(task) > 0 => inbox = << >> /\ ~cl.owesBody
  <2>1. First(task, skipping) = << task.msg >>
    BY <1>2, StartedTask
  <2>2. First(task, skipping) # << >>
    BY <2>1
  <2> QED BY <1>3, <2>2 DEF Quiet, CopyStep
<1>5. /\ TaskSound(task', skipping')
      /\ \E y : Reads(cl, outbox', y) /\ Agrees(y, task', skipping', inbox, cl.owesBody)
  BY <1>1, <1>2, <1>3, <1>4, CompleteAgrees
<1> QED BY <1>5, ServerStep

\* A copy begins.
LEMMA BeginCopySteps ==
  ASSUME Inv, StepInv, task.at = "running", task.msg.tag \in {"Query", "Execute"},
         NEW stmt \in {"copy_in", "copy_out"},
         task.msg.tag = "Query" => stmt = task.todo[1],
         task.msg.tag = "Execute" => Prepared(stmt),
         BeginCopy(stmt), Stocked', inbox' = inbox, cl' = cl
  PROVE  StepInv'
<1>1. PICK z : Reads(cl, outbox, z) /\ Agrees(z, task, skipping, inbox, cl.owesBody)
  BY DEF StepInv, Agreement
<1>2. TaskSound(task, skipping) /\ inbox \in Seq(Incoming)
  BY DEF StepInv, Inv
<1>3. /\ TaskSound(task', skipping')
      /\ \E y : Reads(cl, outbox', y) /\ Agrees(y, task', skipping', inbox, cl.owesBody)
  BY <1>1, <1>2, BeginCopyAgrees
<1> QED BY <1>3, ServerStep

\* A statement of a Query.
LEMMA SimpleSteps ==
  ASSUME Inv, StepInv, ExecuteSimple
  PROVE  StepInv'
<1> DEFINE stmt == Head(task.todo)
<1>1. /\ task.at = "running" /\ task.msg.tag = "Query" /\ task.msg.tag # "Execute"
      /\ UNCHANGED << inbox, cl, statements, portals >>
      /\ IF stmt \in {"copy_in", "copy_out"} THEN BeginCopy(stmt)
         ELSE Complete(<< "Complete" >>, StatusAfter(stmt))
  BY DEF ExecuteSimple, client
<1>2. Stocked'
  BY <1>1, StockedRests DEF StepInv
<1>3. stmt = task.todo[1]
  <2>1. task.todo # << >>
    BY <1>1, StartedTask DEF StepInv, Started
  <2>2. task.todo \in Seq(Statements)
    BY <1>1 DEF StepInv, TaskSound, Started
  <2> QED BY <2>1, <2>2
<1> HIDE DEF stmt
<1>4. CASE stmt \in {"copy_in", "copy_out"}
  BY <1>1, <1>2, <1>3, <1>4, BeginCopySteps
<1>5. CASE stmt \notin {"copy_in", "copy_out"}
  BY <1>1, <1>2, <1>5, CompleteSteps
<1> QED BY <1>4, <1>5

\* Parse, Bind, Describe and Close.
LEMMA HandlerSteps ==
  ASSUME Inv, StepInv, HandleParse \/ HandleBind \/ HandleDescribe \/ HandleClose
  PROVE  StepInv'
<1> DEFINE m == task.msg
<1>0. Loop /\ Stores /\ Stocked /\ inbox' = inbox /\ cl' = cl
  BY DEF Inv, StepInv, HandleParse, HandleBind, HandleDescribe, HandleClose, client
<1>1. CASE HandleParse
  <2>1. /\ Handling("Parse") /\ Finish(<< "ParseComplete" >>, tx, FALSE) /\ portals' = portals
        /\ statements' = [statements EXCEPT ![m.name] = m.stmt]
    BY <1>1 DEF HandleParse
  <2>2. task.at = "running" /\ m.tag = "Parse" /\ m \in Dispatched /\ m.name \in Names
    BY <1>0, <2>1, Handled, MessageFields
  <2>3. m \in Alphabet
    BY <2>2 DEF Dispatched, CopyMessages
  <2>4. Prepared(m.stmt)
    BY <2>2, <2>3 DEF Prepared
  <2>5. \A n \in Names : statements'[n] = IF n = m.name THEN m.stmt ELSE statements[n]
    BY <1>0, <2>1, <2>2 DEF Stores
  <2>6. Stocked'
    BY <1>0, <2>1, <2>4, <2>5 DEF Stocked
  <2>7. "ParseComplete" \in Replies /\ ~EndsWithReady(m) /\ \A z : "ParseComplete" \in Answers(z, m)
    BY <2>2 DEF Replies, EndsWithReady, Answers
  <2> QED BY <1>0, <2>1, <2>2, <2>6, <2>7, HandledSteps
<1>2. CASE HandleBind
  <2>1. /\ Handling("Bind") /\ Finish(<< "BindComplete" >>, tx, FALSE) /\ UNCHANGED statements
        /\ statements[m.from] # NoName
        /\ portals' = [portals EXCEPT ![m.name] = NewPortal(statements[m.from])]
    BY <1>2 DEF HandleBind
  <2>2. task.at = "running" /\ m.tag = "Bind" /\ m.name \in Names /\ m.from \in Names
    BY <1>0, <2>1, Handled, MessageFields
  <2>3. Prepared(statements[m.from])
    BY <1>0, <2>1, <2>2 DEF Stocked
  <2>4. NewPortal(statements[m.from]).stmt = statements[m.from]
    BY DEF NewPortal
  <2>5. Stocked'
    BY <1>0, <2>1, <2>2, <2>3, <2>4, StockedPortal
  <2>6. "BindComplete" \in Replies /\ ~EndsWithReady(m) /\ \A z : "BindComplete" \in Answers(z, m)
    BY <2>2 DEF Replies, EndsWithReady, Answers
  <2> QED BY <1>0, <2>1, <2>2, <2>5, <2>6, HandledSteps
<1>3. CASE HandleDescribe
  <2>1. /\ Handling("DescribeStatement") \/ Handling("DescribePortal")
        /\ Finish(<< "Description" >>, tx, FALSE) /\ UNCHANGED << statements, portals >>
    BY <1>3 DEF HandleDescribe
  <2>2. task.at = "running" /\ m.tag \in {"DescribeStatement", "DescribePortal"}
    BY <1>0, <2>1, Handled
  <2>3. Stocked'
    BY <1>0, <2>1, StockedRests
  <2>4. "Description" \in Replies /\ ~EndsWithReady(m) /\ \A z : "Description" \in Answers(z, m)
    BY <2>2 DEF Replies, EndsWithReady, Answers
  <2> QED BY <1>0, <2>1, <2>2, <2>3, <2>4, HandledSteps
<1>4. CASE HandleClose
  <2>1. Finish(<< "CloseComplete" >>, tx, FALSE)
    BY <1>4 DEF HandleClose
  <2>2. Handling("CloseStatement") \/ Handling("ClosePortal")
    BY <1>4 DEF HandleClose
  <2>3. /\ task.at = "running" /\ m.tag \in {"CloseStatement", "ClosePortal"} /\ m.name \in Names
    BY <1>0, <2>2, Handled, MessageFields
  <2>4. Stocked'
    <3>1. CASE statements' = [statements EXCEPT ![m.name] = NoName] /\ UNCHANGED portals
      <4>1. \A n \in Names : statements'[n] = IF n = m.name THEN NoName ELSE statements[n]
        BY <1>0, <2>3, <3>1 DEF Stores
      <4> QED BY <1>0, <3>1, <4>1 DEF Stocked
    <3>2. CASE portals' = [portals EXCEPT ![m.name] = NoName] /\ UNCHANGED statements
      BY <1>0, <2>3, <3>2, StockedPortal
    <3> QED BY <1>4, <3>1, <3>2 DEF HandleClose
  <2>5. "CloseComplete" \in Replies /\ ~EndsWithReady(m) /\ \A z : "CloseComplete" \in Answers(z, m)
    BY <2>3 DEF Replies, EndsWithReady, Answers
  <2> QED BY <1>0, <2>1, <2>3, <2>4, <2>5, HandledSteps
<1> QED BY <1>1, <1>2, <1>3, <1>4

\* A portal keeps its statement.
LEMMA PortalKeeps ==
  ASSUME NEW p \in Portals, NEW n
  PROVE  /\ Open(p, n).stmt = p.stmt
         /\ [Open(p, n) EXCEPT !.returned = @ + n, !.written = @ + n].stmt = p.stmt
         /\ \A q \in Interrupted(p) : q.stmt = p.stmt
         /\ \A q \in Unencodable(p, n) : q.stmt = p.stmt
  BY DEF Open, Interrupted, Unencodable, Portals

\* Execute, of a query, of another statement and of a COPY.
LEMMA ExecuteSteps ==
  ASSUME Inv, StepInv, ExecutePortal \/ ExecuteEffect \/ ExecuteCopy
  PROVE  StepInv'
<1> DEFINE m == task.msg
           p == portals[m.name]
<1>0. /\ Loop /\ Stores /\ Stocked /\ Executing /\ UNCHANGED << inbox, cl, statements >>
  BY DEF Inv, StepInv, ExecutePortal, ExecuteEffect, ExecuteCopy, client
<1>1. m.name \in Names /\ p \in Portals /\ p # NoName
  BY <1>0, ExecutedPortal DEF Executing
<1>2. task.at = "running" /\ m.tag = "Execute" /\ m.tag # "Query"
  BY <1>0, Handled DEF Executing
<1>3. Prepared(p.stmt)
  BY <1>0, <1>1 DEF Stocked
<1>4. ~EndsWithReady(m) /\ \A z : {"Complete", "Suspended"} \subseteq Answers(z, m)
  BY <1>2 DEF EndsWithReady, Answers
<1>5. {"Complete", "Suspended"} \subseteq Replies
  BY DEF Replies
<1> HIDE DEF p
<1>6. CASE ExecutePortal
  <2> DEFINE n == Pulled(p, m.max)
             r == IF Suspended(p, m.max) THEN "Suspended" ELSE "Complete"
             q == [Open(p, n) EXCEPT !.returned = @ + n, !.written = @ + n]
  <2>1. /\ portals' = [portals EXCEPT ![m.name] = q]
        /\ Finish(<< r >>, tx, FALSE)
    BY <1>6 DEF ExecutePortal, p
  <2>2. q.stmt = p.stmt
    BY <1>1, PortalKeeps
  <2>3. r \in {"Complete", "Suspended"}
    OBVIOUS
  <2> HIDE DEF n, r, q
  <2>4. Stocked'
    BY <1>0, <1>1, <1>3, <2>1, <2>2, StockedPortal
  <2>5. r \notin {"Error", "CopyIn", "CopyOut"} /\ r \in Replies /\ \A z : r \in Answers(z, m)
    BY <1>4, <1>5, <2>3
  <2> QED BY <1>0, <1>2, <1>4, <2>1, <2>4, <2>5, HandledSteps
<1>7. CASE ExecuteEffect
  <2>1. /\ portals' = [portals EXCEPT ![m.name] = Open(p, 0)]
        /\ Finish(<< "Complete" >>, IF p.opened THEN tx ELSE StatusAfter(p.stmt), FALSE)
    BY <1>7 DEF ExecuteEffect, p
  <2>2. Open(p, 0).stmt = p.stmt
    BY <1>1, PortalKeeps
  <2>3. Stocked'
    BY <1>0, <1>1, <1>3, <2>1, <2>2, StockedPortal
  <2> QED BY <1>0, <1>2, <1>4, <1>5, <2>1, <2>3, HandledSteps
<1>8. CASE ExecuteCopy
  <2>1. BeginCopy(p.stmt) /\ UNCHANGED portals /\ p.stmt \in {"copy_in", "copy_out"}
    BY <1>8 DEF ExecuteCopy, p
  <2>2. Stocked'
    BY <1>0, <2>1, StockedRests
  <2> QED BY <1>0, <1>2, <1>3, <2>1, <2>2, BeginCopySteps
<1> QED BY <1>6, <1>7, <1>8

\* The end of a copy.
LEMMA FinishCopySteps ==
  ASSUME Inv, StepInv, FinishCopy
  PROVE  StepInv'
<1>1. /\ task.at \in {"copying_out", "copy_ended"} /\ Complete(<< "Complete" >>, tx)
      /\ UNCHANGED << inbox, cl, statements, portals >>
  BY DEF FinishCopy, client
<1>2. task.msg.tag \in {"Query", "Execute"}
  BY <1>1 DEF StepInv, TaskSound, Started
<1>3. Stocked'
  BY <1>1, StockedRests DEF StepInv
<1> QED BY <1>1, <1>2, <1>3, CompleteSteps

\* A handler that raises, and a cancel, where no message without a reply is hit.
LEMMA EarlyEndSteps ==
  ASSUME Inv, StepInv, HandlerRaises \/ CancelRequest, ~CancelStray
  PROVE  StepInv'
<1> DEFINE p == portals[task.msg.name]
<1>0. Loop /\ Stores /\ Stocked /\ Raise /\ UNCHANGED << inbox, cl, statements >>
  BY DEF Inv, StepInv, HandlerRaises, CancelRequest, client
<1>1. task.at # "reading" /\ (task.at = "created" => ~Silent(task.msg))
  <2>1. CASE HandlerRaises
    BY <2>1 DEF HandlerRaises
  <2>2. CASE CancelRequest
    <3>1. task # Reading /\ ~(task.at = "created" /\ Silent(task.msg))
      BY <2>2 DEF CancelRequest
    <3>2. task.at \in Points
      BY <1>0, <3>1 DEF Loop, Tasks
    <3> QED BY <3>1, <3>2 DEF Points
  <2> QED BY <2>1, <2>2
<1>2. Leaves(Interrupted(p) \cup Unencodable(p, Pulled(p, task.msg.max))) \/ Leaves(Interrupted(p))
  BY DEF HandlerRaises, CancelRequest
<1>3. Stocked'
  <2>1. CASE ~(Executing /\ p.stmt = "query")
    <3>1. UNCHANGED portals
      BY <1>2, <2>1 DEF Leaves
    <3> QED BY <1>0, <3>1, StockedRests
  <2>2. CASE Executing /\ p.stmt = "query"
    <3>1. task.msg.name \in Names /\ p \in Portals /\ p # NoName
      BY <1>0, <2>2, ExecutedPortal DEF Executing
    <3>2. PICK q \in Interrupted(p) \cup Unencodable(p, Pulled(p, task.msg.max)) :
            portals' = [portals EXCEPT ![task.msg.name] = q]
      BY <1>2, <2>2 DEF Leaves
    <3>3. Prepared(p.stmt)
      BY <1>0, <3>1 DEF Stocked
    <3> HIDE DEF p
    <3>4. q.stmt = p.stmt
      BY <3>1, <3>2, PortalKeeps
    <3> QED BY <1>0, <3>1, <3>2, <3>3, <3>4, StockedPortal
  <2> QED BY <2>1, <2>2
<1> QED BY <1>0, <1>1, <1>3, RaiseSteps

\* The task of a copy reads a message.
LEMMA CopyInSteps ==
  ASSUME Inv, StepInv, ReadCopyMessage
  PROVE  StepInv'
<1> DEFINE m == Head(inbox)
           s == Tail(inbox)
           owes == cl.owesBody
           first == First(task, skipping)
<1>1. /\ task.at = "copying_in" /\ inbox # << >> /\ m # Body /\ inbox' = AfterFirst
      /\ UNCHANGED << statements, portals, cl >>
  BY DEF ReadCopyMessage, client
<1>2. inbox \in Seq(Incoming) /\ skipping \in BOOLEAN /\ Loop
  BY DEF Inv, Loop
<1>3. PICK z : Reads(cl, outbox, z) /\ Agrees(z, task, skipping, inbox, owes)
  BY DEF StepInv, Agreement
<1>4. Framed(inbox, owes) /\ TaskSound(task, skipping) /\ Stocked'
  BY <1>1, StockedRests DEF StepInv
<1>5. task.at \in CopyStep /\ task.at \in Started /\ task.at \notin {"reading", "created"}
  BY <1>1 DEF CopyStep, Started
<1>6. /\ m = inbox[1] /\ m \in Incoming /\ s \in Seq(Incoming) /\ Len(inbox) \in Nat
      /\ Len(s) = Len(inbox) - 1 /\ (s = << >> <=> Len(s) = 0)
  BY <1>1, <1>2, InboxFacts
<1>7. Queued(skipping, first, inbox, z.waiting) /\ Linked(z, task, skipping) /\ Feeds(z, task, inbox)
  BY <1>3, <1>5 DEF Agrees, Fed
<1>8. /\ m.tag \in Within \cup {"CopyDone", "CopyFail"}
      /\ m.tag \notin Within => ~z.copying /\ (Ahead(task) > 0 => Len(inbox) = 1)
  BY <1>1, <1>2, <1>6, <1>7, FeedsFirst
<1>9. m.tag # "body"
  BY <1>1, <1>6, CommandAssumption DEF Incoming, CopyMessages, Messages, Body
<1>10. m.tag \in {"CopyData", "Flush", "CopyDone", "CopyFail"}
  BY <1>8, <1>9 DEF Within
<1>11. Unanswered(inbox[1])
  BY <1>6, <1>10 DEF Unanswered
<1> HIDE DEF first
<1>12. Queued(skipping, first, s, z.waiting)
  BY <1>1, <1>2, <1>7, <1>11, QueuedSkips
<1>13. Framed(s, owes)
  BY <1>1, <1>2, <1>4, FramedTail
<1>14. task = Task(task.at, task.msg, task.todo) /\ task.msg \in Alphabet
  BY <1>4, <1>5, StartedTask
<1>15. m.tag \in Within => Feeds(z, task, s)
  BY <1>1, <1>2, <1>6, <1>7, FeedsTail
<1>16. \/ inbox' = s /\ (m.tag = "CopyData" /\ ~HasBody => s = << >> /\ owes)
       \/ inbox' = Tail(s) /\ s # << >> /\ s[1].tag = "body" /\ HasBody /\ m.tag = "CopyData"
  BY <1>1, <1>2, <1>4, AfterFirstIs
<1> HIDE DEF s, m
<1>17. CASE m.tag = "CopyData"
  <2>1. /\ task' = IF HasBody THEN task ELSE [task EXCEPT !.at = "copy_body"]
        /\ UNCHANGED << outbox, skipping >>
    BY <1>17 DEF ReadCopyMessage, m
  <2>2. /\ task'.at \in CopyStep /\ task'.msg = task.msg /\ task'.todo = task.todo
        /\ task'.at = "copy_body" => ~HasBody
    <3>1. CASE HasBody
      BY <1>1, <1>5, <2>1, <3>1
    <3>2. CASE ~HasBody
      BY <1>14, <2>1, <3>2 DEF Task, CopyStep
    <3> QED BY <3>1, <3>2
  <2>3. Feeds(z, task, s)
    BY <1>15, <1>17 DEF Within
  <2>4. /\ Queued(skipping, first, inbox', z.waiting) /\ Feeds(z, task, inbox')
        /\ Framed(inbox', owes)
        /\ ~HasBody => inbox' = << >> /\ owes
    <3>1. CASE inbox' = s /\ (m.tag = "CopyData" /\ ~HasBody => s = << >> /\ owes)
      BY <1>12, <1>13, <1>17, <2>3, <3>1
    <3>2. CASE inbox' = Tail(s) /\ s # << >> /\ s[1].tag = "body" /\ HasBody
      <4>1. Unanswered(s[1]) /\ s[1].tag \in Within
        BY <3>2 DEF Unanswered, Within
      <4>2. Queued(skipping, first, Tail(s), z.waiting)
        BY <1>2, <1>6, <1>12, <3>2, <4>1, QueuedSkips
      <4>3. Feeds(z, task, Tail(s))
        BY <1>6, <2>3, <3>2, <4>1, FeedsTail
      <4>4. Framed(Tail(s), owes)
        BY <1>6, <1>13, <3>2, FramedTail
      <4> QED BY <3>2, <4>2, <4>3, <4>4
    <3> QED BY <1>16, <3>1, <3>2
  <2>5. Queued(skipping, First(task, skipping), inbox', z.waiting)
    BY <2>4 DEF first
  <2>6. task'.at = "copy_body" => IF inbox' = << >> THEN owes ELSE inbox'[1].tag = "body"
    BY <2>2, <2>4
  <2>7. TaskSound(task', skipping) /\ Agrees(z, task', skipping, inbox', owes)
    BY <1>4, <1>5, <1>7, <2>2, <2>4, <2>5, <2>6, CopyAgrees
  <2> QED BY <1>1, <1>3, <1>4, <2>1, <2>4, <2>7, ServerReads
<1>18. CASE m.tag = "Flush"
  <2>1. UNCHANGED << task, outbox, skipping >>
    BY <1>18 DEF ReadCopyMessage, m
  <2>2. inbox' = s /\ Feeds(z, task, s)
    BY <1>15, <1>16, <1>18 DEF Within
  <2>3. Queued(skipping, First(task, skipping), inbox', z.waiting) /\ Feeds(z, task, inbox')
    BY <1>12, <2>2 DEF first
  <2>4. task.at # "copy_body"
    BY <1>1
  <2>5. TaskSound(task, skipping) /\ Agrees(z, task, skipping, inbox', owes)
    BY <1>4, <1>5, <1>7, <2>3, <2>4, CopyAgrees
  <2>6. Framed(inbox', owes)
    BY <1>13, <2>2
  <2>7. TaskSound(task', skipping')
    BY <2>1, <2>5
  <2>8. Reads(cl, outbox', z) /\ Agrees(z, task', skipping', inbox', owes)
    BY <1>3, <2>1, <2>5
  <2> QED BY <1>1, <1>4, <2>6, <2>7, <2>8, ServerReads
<1>19. CASE m.tag \in {"CopyDone", "CopyFail"}
  <2>1. inbox' = s /\ ~z.copying /\ (Ahead(task) > 0 => Len(inbox) = 1)
    BY <1>8, <1>16, <1>19 DEF Within
  <2>2. Queued(skipping, First(task, skipping), s, z.waiting)
    BY <1>12 DEF first
  <2>3. Ahead(task) > 0 => s = << >> /\ ~owes
    <3>1. SUFFICES ASSUME Ahead(task) > 0 PROVE s = << >> /\ ~owes
      OBVIOUS
    <3>2. Len(inbox) = 1
      BY <2>1, <3>1
    <3>3. s = << >>
      BY <1>6, <3>2
    <3>4. ~owes
      BY <1>1, <1>4, <1>6, <1>19, <3>2 DEF Framed
    <3> QED BY <3>3, <3>4
  <2>4. CASE m.tag = "CopyDone"
    <3>1. task' = [task EXCEPT !.at = "copy_ended"] /\ UNCHANGED << outbox, skipping >>
      BY <2>4 DEF ReadCopyMessage, m
    <3>2. task'.at = "copy_ended" /\ task'.msg = task.msg /\ task'.todo = task.todo
      BY <1>14, <3>1 DEF Task
    <3>3. TaskSound(task', skipping) /\ Agrees(z, task', skipping, s, owes)
      BY <1>4, <1>5, <1>7, <2>1, <2>2, <2>3, <3>2, EndedAgrees
    <3> QED BY <1>1, <1>3, <1>4, <1>13, <2>1, <3>1, <3>3, ServerReads
  <2>5. CASE m.tag = "CopyFail"
    <3>1. Raise
      BY <2>5 DEF ReadCopyMessage, m
    <3>2. \E y : Reads(cl, outbox', y) /\ Agrees(y, task', skipping', s, owes)
      BY <1>3, <1>4, <1>5, <1>6, <1>7, <2>2, <3>1, RaiseAgrees
    <3>3. TaskSound(task', skipping')
      BY <3>1, ReadingSound DEF Raise, Finish
    <3> QED BY <1>1, <1>4, <1>13, <2>1, <3>2, <3>3, ServerReads
  <2> QED BY <1>19, <2>4, <2>5
<1> QED BY <1>10, <1>17, <1>18, <1>19

\* It reads the rest of a CopyData.
LEMMA CopyBodySteps ==
  ASSUME Inv, StepInv, ReadCopyBody
  PROVE  StepInv'
<1> DEFINE owes == cl.owesBody
           first == First(task, skipping)
<1>1. /\ task.at = "copy_body" /\ inbox # << >> /\ inbox' = Tail(inbox)
      /\ task' = [task EXCEPT !.at = "copying_in"]
      /\ UNCHANGED << outbox, skipping, statements, portals, cl >>
  BY DEF ReadCopyBody, client
<1>2. inbox \in Seq(Incoming) /\ skipping \in BOOLEAN
  BY DEF Inv, Loop
<1>3. PICK z : Reads(cl, outbox, z) /\ Agrees(z, task, skipping, inbox, owes)
  BY DEF StepInv, Agreement
<1>4. Framed(inbox, owes) /\ TaskSound(task, skipping) /\ Stocked'
  BY <1>1, StockedRests DEF StepInv
<1>5. task.at \in CopyStep /\ task.at \in Started
  BY <1>1 DEF CopyStep, Started
<1>6. task = Task(task.at, task.msg, task.todo)
  BY <1>4, <1>5, StartedTask
<1>7. /\ task'.at = "copying_in" /\ task'.at \in CopyStep /\ task'.msg = task.msg
      /\ task'.todo = task.todo
  BY <1>1, <1>6 DEF Task, CopyStep
<1>8. /\ Queued(skipping, first, inbox, z.waiting) /\ Linked(z, task, skipping)
      /\ Feeds(z, task, inbox) /\ inbox[1].tag = "body"
  BY <1>1, <1>3, <1>5 DEF Agrees, Fed
<1>9. Unanswered(inbox[1]) /\ inbox[1].tag \in Within
  BY <1>8 DEF Unanswered, Within
<1> HIDE DEF first
<1>10. Queued(skipping, first, Tail(inbox), z.waiting)
  BY <1>1, <1>2, <1>8, <1>9, QueuedSkips
<1>11. Feeds(z, task, Tail(inbox))
  BY <1>1, <1>2, <1>8, <1>9, FeedsTail
<1>12. Framed(Tail(inbox), owes)
  BY <1>1, <1>2, <1>4, FramedTail
<1>13. Queued(skipping, First(task, skipping), inbox', z.waiting) /\ Feeds(z, task, inbox')
  BY <1>1, <1>10, <1>11 DEF first
<1>14. TaskSound(task', skipping) /\ Agrees(z, task', skipping, inbox', owes)
  BY <1>4, <1>5, <1>7, <1>8, <1>13, CopyAgrees
<1> QED BY <1>1, <1>3, <1>4, <1>12, <1>14, ServerReads
-----------------------------------------------------------------------------
\* and the client.

\* A reply changes nothing of what the client owes.
LEMMA TakenOwes ==
  ASSUME NEW c \in Clients, NEW r, Expected(c, r)
  PROVE  Taken(c, r).owesBody = c.owesBody
<1>1. CASE r = "Error"
  BY <1>1, ErrorFields
<1>2. CASE r \in {"CopyIn", "CopyOut"}
  BY <1>2, CopyFields
<1>3. CASE c.waiting # << >> /\ Counts(c, r)
  BY <1>3, CountFields
<1>4. CASE c.waiting # << >> /\ Pops(c, r)
  BY <1>4, PopFields
<1> QED BY <1>1, <1>2, <1>3, <1>4, ReplyKinds

\* The client reads a reply.
LEMMA ReceiveSteps ==
  ASSUME Inv, StepInv, ClientReceives
  PROVE  StepInv'
<1> DEFINE r == outbox[1]
<1>1. /\ outbox # << >> /\ outbox' = Tail(outbox)
      /\ cl' = IF Expected(cl, Head(outbox)) THEN Taken(cl, Head(outbox))
               ELSE [cl EXCEPT !.inStep = FALSE]
      /\ UNCHANGED << inbox, task, skipping, statements, portals >>
  BY DEF ClientReceives, server
<1>2. outbox \in Seq(Replies)
  BY DEF Inv, Loop
<1>3. PICK z : Reads(cl, outbox, z) /\ Agrees(z, task, skipping, inbox, cl.owesBody)
  BY DEF StepInv, Agreement
<1>4. Head(outbox) = r
  BY <1>1, <1>2
<1> HIDE DEF r
<1>5. Due(cl, r) /\ Reads(Taken(cl, r), Tail(outbox), z)
  BY <1>1, <1>2, <1>3, ReadsFirst DEF r
<1>6. Expected(cl, r)
  BY <1>5 DEF Due
<1>7. cl' = Taken(cl, r)
  BY <1>1, <1>4, <1>6
<1>8. cl \in Clients
  BY <1>2, <1>3, ReadsEnds
<1>9. cl'.owesBody = cl.owesBody
  BY <1>6, <1>7, <1>8, TakenOwes
<1>10. Reads(cl', outbox', z) /\ Agrees(z, task', skipping', inbox', cl'.owesBody)
  BY <1>1, <1>3, <1>5, <1>7, <1>9
<1>11. Framed(inbox', cl'.owesBody) /\ TaskSound(task', skipping')
  BY <1>1, <1>9 DEF StepInv
<1>12. Stocked'
  BY <1>1, StockedRests DEF StepInv
<1> QED BY <1>10, <1>11, <1>12 DEF StepInv, Agreement

\* What is sent in a copy is never answered, and neither is a body.
LEMMA QueuedSilent ==
  ASSUME NEW skip \in BOOLEAN, NEW first, NEW in \in Seq(Incoming), NEW W,
         Queued(skip, first, in, W), NEW m \in Incoming, Unanswered(m),
         \/ in = << >> \/ CopyInsOf(in[Len(in)]) = 0
         \/ W = << >>
         \/ Len(W) = 1 /\ first # << >>
  PROVE  Queued(skip, first, Append(in, m), W)
<1>1. m.tag # "Query"
  BY DEF Unanswered
<1>2. AddLive(skip, W, m) = W
  BY DEF AddLive, Live
<1>3. Queued(skip, first, Append(in, m), AddLive(skip, W, m))
  BY <1>1, QueuedSent
<1> QED BY <1>2, <1>3

\* The rest of a CopyData arrives.
LEMMA BodySteps ==
  ASSUME Inv, StepInv, BodyArrives
  PROVE  StepInv'
<1> DEFINE s == Append(inbox, Body)
           first == First(task, skipping)
           owes == cl.owesBody
<1>1. /\ owes /\ inbox' = s /\ cl' = [cl EXCEPT !.owesBody = FALSE]
      /\ UNCHANGED << outbox, task, skipping, statements, portals >>
  BY DEF BodyArrives, server
<1>2. inbox \in Seq(Incoming) /\ skipping \in BOOLEAN /\ outbox \in Seq(Replies)
  BY DEF Inv, Loop
<1>3. PICK z : Reads(cl, outbox, z) /\ Agrees(z, task, skipping, inbox, owes)
  BY DEF StepInv, Agreement
<1>4. Framed(inbox, owes) /\ TaskSound(task, skipping) /\ Stocked'
  BY <1>1, StockedRests DEF StepInv
<1>5. cl' = Owes(cl, FALSE) /\ cl \in Clients /\ z \in Clients /\ Sound(z)
  BY <1>1, <1>2, <1>3, ReadsEnds DEF Owes
<1> DEFINE none == FALSE
           y == Owes(z, none)
<1>6. none \in BOOLEAN /\ ~none /\ cl' = Owes(cl, none)
  BY <1>5
<1> HIDE DEF none
<1>7. Reads(cl', outbox', y)
  BY <1>1, <1>2, <1>3, <1>6, ReadsOwing
<1>8. cl'.owesBody = none
  <2>1. Owes(cl, none).owesBody = none
    BY <1>5, <1>6, OwesFields
  <2> QED BY <1>6, <2>1
<1>9. /\ y.waiting = z.waiting /\ y.answered = z.answered /\ y.failed = z.failed
      /\ y.aborted = z.aborted /\ y.copying = z.copying /\ y.copied = z.copied
  BY <1>5, <1>6, OwesFields
<1> HIDE DEF y
<1>10. Body \in Incoming /\ Unanswered(Body) /\ Body.tag = "body" /\ Body.tag \in Within
  BY DEF Incoming, Unanswered, Body, Within
<1>11. /\ Len(inbox) \in Nat /\ Len(s) = Len(inbox) + 1 /\ (inbox = << >> <=> Len(inbox) = 0)
       /\ \A i \in 1..Len(inbox) : s[i] = inbox[i]
       /\ s[Len(inbox)+1] = Body
  BY <1>2, <1>10, InboxFacts, InboxGrows
<1> HIDE DEF s, Body
<1>12. inbox = << >> \/ inbox[Len(inbox)].tag = "CopyData"
  BY <1>1, <1>4 DEF Framed
<1>13. inbox = << >> \/ CopyInsOf(inbox[Len(inbox)]) = 0
  BY <1>12 DEF CopyInsOf
<1>14. /\ Queued(skipping, first, inbox, z.waiting) /\ Linked(z, task, skipping)
       /\ Quiet(task, skipping, inbox, owes) /\ Fed(z, task, inbox, owes)
  BY <1>3 DEF Agrees
<1> HIDE DEF first
<1>15. Queued(skipping, first, s, y.waiting)
  BY <1>2, <1>9, <1>10, <1>13, <1>14, QueuedSilent DEF s
<1>16. Linked(y, task, skipping)
  BY <1>9, <1>14 DEF Linked
<1>17. Quiet(task, skipping, s, none)
  BY <1>1, <1>14 DEF Quiet
<1>18. Fed(y, task, s, none)
  <2>1. SUFFICES ASSUME task.at \in CopyStep
                 PROVE  /\ Feeds(y, task, s)
                        /\ task.at = "copy_body" => IF s = << >> THEN none ELSE s[1].tag = "body"
    BY DEF Fed
  <2>2. Feeds(z, task, inbox)
    BY <1>14, <2>1 DEF Fed
  <2>3. ASSUME z.copying PROVE Feeds(y, task, s)
    <3>1. ASSUME NEW i \in 1..Len(s)
          PROVE  s[i].tag \in Within
      <4>1. i \in 1..Len(inbox) \/ i = Len(inbox) + 1
        BY <1>11
      <4> QED BY <1>10, <1>11, <2>2, <2>3, <4>1 DEF Feeds
    <3> QED BY <1>9, <2>2, <2>3, <3>1 DEF Feeds
  <2>4. ASSUME ~z.copying PROVE Feeds(y, task, s)
    <3>1. PICK j \in 1..Len(inbox) :
            /\ inbox[j].tag \in {"CopyDone", "CopyFail"}
            /\ \A i \in 1..j-1 : inbox[i].tag \in Within
            /\ Ahead(task) > 0 => j = Len(inbox) /\ z.waiting = << task.msg >>
      BY <2>2, <2>4 DEF Feeds, Ended
    <3>2. ~(Ahead(task) > 0)
      BY <1>11, <1>12, <3>1
    <3>3. j \in 1..Len(s) /\ s[j] = inbox[j] /\ \A i \in 1..j-1 : s[i] = inbox[i]
      BY <1>11
    <3>4. Ended(y.waiting, task, s)
      BY <3>1, <3>2, <3>3 DEF Ended
    <3> QED BY <1>9, <2>4, <3>4 DEF Feeds
  <2>5. ASSUME task.at = "copy_body"
        PROVE  s # << >> /\ s[1].tag = "body"
    <3>1. s # << >>
      <4>1. Len(<< >>) = 0
        OBVIOUS
      <4> QED BY <1>11, <4>1
    <3>2. CASE inbox = << >>
      BY <1>10, <1>11, <3>1, <3>2
    <3>3. CASE inbox # << >>
      <4>1. inbox[1].tag = "body" /\ 1 \in 1..Len(inbox)
        BY <1>11, <1>14, <2>1, <2>5, <3>3 DEF Fed
      <4> QED BY <1>11, <3>1, <4>1
    <3> QED BY <3>2, <3>3
  <2> QED BY <2>3, <2>4, <2>5
<1>19. Agrees(y, task, skipping, s, none)
  BY <1>15, <1>16, <1>17, <1>18 DEF Agrees, first
<1>20. Framed(s, none)
  BY <1>1, <1>2, <1>4, <1>6, FramedBody DEF s
<1> QED BY <1>1, <1>4, <1>7, <1>8, <1>19, <1>20 DEF StepInv, Agreement

\* A message that the client sends in its turn, and that no copy is before: what the
\* client expects an answer to is what the server will answer.
LEMMA SentQueued ==
  ASSUME Inv, TaskSound(task, skipping), NEW z \in Clients, Sound(z), ~Busy(z),
         NEW in \in Seq(Incoming), NEW owes, Agrees(z, task, skipping, in, owes),
         NEW m \in Alphabet, InTurn(z, m)
  PROVE  /\ ~MayStillCopy(z)
         /\ Queued(skipping, First(task, skipping), Append(in, m), Sends(z, m).waiting)
         /\ Linked(Sends(z, m), task, skipping)
<1> DEFINE W == z.waiting
           y == Sends(z, m)
           first == First(task, skipping)
<1>1. skipping \in BOOLEAN /\ m \in Incoming
  BY DEF Inv, Loop, Incoming
<1>2. W \in Seq(Alphabet) /\ z.copied \in Nat /\ z.aborted \in BOOLEAN
  BY ClientTypes
<1>3. /\ y.waiting = IF Expects(z, m) THEN Append(W, m) ELSE W
      /\ y.aborted = (z.aborted /\ m.tag # "Sync")
      /\ y.answered = z.answered /\ y.failed = z.failed /\ y.copying = z.copying
      /\ y.copied = z.copied
  BY SendsFields
<1> HIDE DEF y
<1>4. Queued(skipping, first, in, W) /\ Linked(z, task, skipping)
  BY DEF Agrees
<1>5. /\ z.aborted <=> skipping /\ W = << >>
      /\ ~z.failed
  BY <1>4 DEF Linked
<1>6. z.aborted => z.inBatch
  BY DEF Sound
<1>7. m.tag = "Query" => ~z.inBatch
  BY DEF InTurn
<1>8. Unanswered(m) <=> m.tag \in {"Flush", "Terminate"}
  <2>1. m \in Messages
    BY CommandAssumption
  <2>2. m.tag \notin {"CopyData", "CopyDone", "CopyFail", "body"}
    BY <2>1 DEF Messages
  <2> QED BY <2>2 DEF Unanswered
<1>9. Live(skipping, W, m) <=> Expects(z, m)
  BY <1>5, <1>6, <1>7, <1>8 DEF Live, Expects, EndsWithReady
<1>10. y.waiting = AddLive(skipping, W, m)
  BY <1>3, <1>9 DEF AddLive
<1>11. ~MayStillCopy(z)
  BY <1>5 DEF Busy
<1>12. /\ Last(W) = W[Len(W)] /\ Len(W) \in Nat /\ (W = << >> <=> Len(W) = 0)
       /\ W # << >> => W[Len(W)] \in Alphabet
  BY <1>2, ListFacts
<1>13. ASSUME W # << >>
       PROVE  \/ CopyInsOf(W[Len(W)]) = 0
              \/ Len(W) = 1 /\ first # << >>
  <2>1. ~(CopyInsOf(W[Len(W)]) > IF Len(W) = 1 THEN z.copied ELSE 0)
    BY <1>11, <1>12, <1>13 DEF MayStillCopy
  <2>2. CopyInsOf(W[Len(W)]) \in Nat
    BY <1>12, <1>13, CopyInsType
  <2>3. CASE Len(W) # 1
    BY <2>1, <2>2, <2>3
  <2>4. CASE Len(W) = 1 /\ task.at \in Started
    <3>1. first = << task.msg >>
      BY <2>4, StartedTask
    <3>2. first # << >>
      BY <3>1
    <3> QED BY <2>4, <3>2
  <2>5. CASE Len(W) = 1 /\ task.at \notin Started
    <3>1. z.copied = 0
      BY <1>4, <2>5 DEF Linked
    <3> QED BY <2>1, <2>2, <2>5, <3>1
  <2> QED BY <2>3, <2>4, <2>5
<1>14. m.tag = "Query" => /\ W # << >> => EndsWithReady(W[Len(W)])
                          /\ ~(skipping /\ W = << >>)
  BY <1>5, <1>6, <1>7 DEF Sound
<1> HIDE DEF first, W
<1>15. Queued(skipping, first, Append(in, m), AddLive(skipping, W, m))
  BY <1>1, <1>4, <1>13, <1>14, QueuedSent
<1>16. y.aborted <=> skipping /\ y.waiting = << >>
  <2>1. CASE Expects(z, m)
    <3>1. Append(W, m) # << >>
      <4>1. Len(Append(W, m)) = Len(W) + 1
        BY <1>2, AppendProperties DEF W
      <4>2. Len(<< >>) = 0
        OBVIOUS
      <4> QED BY <1>12, <4>1, <4>2
    <3>2. z.aborted => m.tag = "Sync"
      BY <2>1 DEF Expects
    <3> QED BY <1>3, <2>1, <3>1, <3>2 DEF W
  <2>2. CASE ~Expects(z, m)
    <3>1. m.tag # "Sync"
      BY <2>2 DEF Expects
    <3> QED BY <1>3, <1>5, <2>2, <3>1 DEF W
  <2> QED BY <2>1, <2>2
<1>17. Linked(y, task, skipping)
  BY <1>3, <1>4, <1>16 DEF Linked
<1> QED BY <1>10, <1>11, <1>15, <1>17 DEF y, first

\* A client that may send waits for no message that may still start a copy.
LEMMA NoCopyAhead ==
  ASSUME Inv, TaskSound(task, skipping), task.at # "reading", NEW z \in Clients,
         Linked(z, task, skipping), ~MayStillCopy(z), z.waiting = << task.msg >>,
         task.msg \in Alphabet
  PROVE  ~(Ahead(task) > 0) /\ ~z.copying
<1> DEFINE m == task.msg
           W == z.waiting
<1>1. z.copied \in Nat /\ W \in Seq(Alphabet)
  BY ClientTypes
<1>2. CopyInsOf(m) \in Nat
  BY CopyInsType
<1>3. W # << >> /\ Len(W) = 1 /\ W[1] = m
  OBVIOUS
<1>4. Last(W) = m
  <2>1. Last(W) = W[Len(W)]
    BY <1>1, ListFacts
  <2> QED BY <1>3, <2>1
<1>5. ~(CopyInsOf(m) > z.copied)
  BY <1>3, <1>4 DEF MayStillCopy
<1>6. CASE task.at \in Started
  <2>1. Ahead(task) \in Nat
    BY <1>6, StartedTask
  <2>2. z.copied + Ahead(task) + (IF z.copying THEN 1 ELSE 0) <= CopyInsOf(m)
    BY <1>6 DEF Linked
  <2>3. \A k, a, n \in Nat :
          ~(n > k) => ~(k + a + 1 <= n) /\ (k + a + 0 <= n => ~(a > 0))
    OBVIOUS
  <2>4. CASE z.copying
    BY <1>1, <1>2, <1>5, <2>1, <2>2, <2>3, <2>4
  <2>5. CASE ~z.copying
    BY <1>1, <1>2, <1>5, <2>1, <2>2, <2>3, <2>5
  <2> QED BY <2>4, <2>5
<1>7. CASE task.at \notin Started
  <2>1. z.copied = 0 /\ ~z.copying
    BY <1>7 DEF Linked, Started
  <2>2. Ahead(task) = CopyInsOf(m)
    BY <1>7 DEF Ahead, Started
  <2> QED BY <1>2, <1>5, <2>1, <2>2
<1> QED BY <1>6, <1>7

\* The client sends a message.
LEMMA SendSteps ==
  ASSUME Inv, StepInv, NEW m \in Alphabet, ClientSends(m), ~SyncEarly
  PROVE  StepInv'
<1> DEFINE s == Append(inbox, m)
           first == First(task, skipping)
           owes == cl.owesBody
<1>1. /\ MaySend(m) /\ ~owes /\ inbox' = s /\ cl' = Sends(cl, m)
      /\ UNCHANGED << outbox, task, skipping, statements, portals >>
  BY DEF ClientSends, server
<1>2. inbox \in Seq(Incoming) /\ skipping \in BOOLEAN /\ outbox \in Seq(Replies) /\ m \in Incoming
  BY DEF Inv, Loop, Incoming
<1>3. PICK z : Reads(cl, outbox, z) /\ Agrees(z, task, skipping, inbox, owes)
  BY DEF StepInv, Agreement
<1>4. Framed(inbox, owes) /\ TaskSound(task, skipping) /\ Stocked'
  BY <1>1, StockedRests DEF StepInv
<1>5. cl \in Clients /\ z \in Clients /\ Sound(z)
  BY <1>2, <1>3, ReadsEnds
<1>6. InTurn(cl, m) /\ ~MayStillCopy(cl)
  BY <1>1 DEF MaySend, InTurn
<1> DEFINE y == Sends(z, m)
           W == z.waiting
<1>7. Reads(cl', outbox', y) /\ ~Busy(z) /\ z.inBatch = cl.inBatch
  BY <1>1, <1>2, <1>3, <1>6, ReadsSent
<1>8. InTurn(z, m)
  BY <1>6, <1>7 DEF InTurn
<1>9. ~MayStillCopy(z) /\ Queued(skipping, first, s, y.waiting) /\ Linked(y, task, skipping)
  BY <1>2, <1>3, <1>4, <1>5, <1>7, <1>8, SentQueued
<1>10. /\ Queued(skipping, first, inbox, W) /\ Linked(z, task, skipping)
       /\ Quiet(task, skipping, inbox, owes) /\ Fed(z, task, inbox, owes)
  BY <1>3 DEF Agrees
<1>11. cl'.owesBody = owes /\ y.copying = z.copying
  BY <1>1, <1>5, SendsFields
<1>12. /\ Len(inbox) \in Nat /\ Len(s) = Len(inbox) + 1 /\ (inbox = << >> <=> Len(inbox) = 0)
       /\ \A i \in 1..Len(inbox) : s[i] = inbox[i]
  BY <1>2, InboxFacts, InboxGrows
<1>13. Framed(s, owes)
  <2>1. m.tag # "CopyData"
    BY CommandAssumption DEF Messages
  <2> QED BY <1>1, <1>2, <1>4, <2>1, FramedSent
<1> HIDE DEF s, y, first, W
<1>14. ASSUME inbox = << >> PROVE W = first
  <2>1. /\ first \in Seq(Alphabet) /\ W \in Seq(Alphabet)
        /\ skipping /\ first # << >> => first[1].tag = "Sync"
        /\ skipping /\ W # << >> => W[1].tag = "Sync"
        /\ inbox = << >> => W = first
    BY ONLY <1>2, <1>10, QueuedEnds
  <2> QED BY <1>14, <2>1
<1>15. Quiet(task, skipping, s, owes)
  <2>1. SUFFICES ASSUME task.at \notin CopyStep \cup {"reading"}, first # << >>, Ahead(task) > 0
                 PROVE  FALSE
    BY DEF Quiet, first
  <2>2. inbox = << >>
    BY <1>10, <2>1 DEF Quiet, first
  <2>3. first = << task.msg >>
    <3>1. Append(<< >>, task.msg) = << task.msg >>
      OBVIOUS
    <3> QED BY <2>1, <3>1 DEF first, First, AddLive
  <2>4. task.msg \in Alphabet
    <3>1. ~Unanswered(task.msg)
      BY <2>1 DEF first, First, AddLive, Live
    <3>2. task # Reading
      BY <2>1 DEF Reading
    <3>3. task.msg \in Dispatched
      BY <3>2 DEF Inv, Loop, Tasks
    <3> QED BY <3>1, <3>3, AnsweredMessages DEF Incoming, Dispatched
  <2>5. z.waiting = << task.msg >>
    BY <1>14, <2>2, <2>3 DEF W
  <2> QED BY <1>4, <1>5, <1>9, <1>10, <2>1, <2>4, <2>5, NoCopyAhead
<1>16. Fed(y, task, s, owes)
  <2>1. SUFFICES ASSUME task.at \in CopyStep
                 PROVE  /\ Feeds(y, task, s)
                        /\ task.at = "copy_body" => IF s = << >> THEN owes ELSE s[1].tag = "body"
    BY DEF Fed
  <2>2. Feeds(z, task, inbox)
    BY <1>10, <2>1 DEF Fed
  <2>3. task.at \in Started /\ task.at # "reading"
    BY <2>1 DEF Started, CopyStep
  <2>4. task.msg \in Alphabet
    BY <1>4, <2>3, StartedTask
  <2>5. z.waiting = << task.msg >> => ~(Ahead(task) > 0) /\ ~z.copying
    BY <1>4, <1>5, <1>9, <1>10, <2>3, <2>4, NoCopyAhead
  <2>6. ~z.copying
    BY <2>2, <2>5 DEF Feeds
  <2>7. PICK j \in 1..Len(inbox) :
          /\ inbox[j].tag \in {"CopyDone", "CopyFail"}
          /\ \A i \in 1..j-1 : inbox[i].tag \in Within
          /\ Ahead(task) > 0 => j = Len(inbox) /\ z.waiting = << task.msg >>
    BY <2>2, <2>6 DEF Feeds, Ended
  <2>8. ~(Ahead(task) > 0)
    BY <2>5, <2>7
  <2>9. j \in 1..Len(s) /\ s[j] = inbox[j] /\ \A i \in 1..j-1 : s[i] = inbox[i]
    BY <1>12
  <2>10. Ended(y.waiting, task, s)
    BY <2>7, <2>8, <2>9 DEF Ended
  <2>11. Feeds(y, task, s)
    BY <1>11, <2>6, <2>10 DEF Feeds
  <2>12. inbox # << >> /\ s # << >> /\ 1 \in 1..Len(inbox)
    <3>1. Len(<< >>) = 0
      OBVIOUS
    <3> QED BY <1>12, <2>7, <3>1
  <2>13. ASSUME task.at = "copy_body" PROVE s[1].tag = "body"
    BY <1>10, <1>12, <2>1, <2>12, <2>13 DEF Fed
  <2> QED BY <2>11, <2>12, <2>13
<1>17. Agrees(y, task, skipping, s, owes)
  BY <1>9, <1>15, <1>16 DEF Agrees, first
<1> QED BY <1>1, <1>4, <1>7, <1>11, <1>13, <1>17 DEF StepInv, Agreement

\* The client sends a message of a copy that it has read all replies of.
LEMMA CopiedAgrees ==
  ASSUME Inv, TaskSound(task, skipping), NEW z \in Clients, Sound(z), z.copying,
         NEW in \in Seq(Incoming), NEW owes, ~owes, Agrees(z, task, skipping, in, owes),
         NEW tag \in {"CopyData", "CopyDone", "CopyFail", "Flush"}, NEW m \in Incoming, m.tag = tag,
         NEW next
  PROVE  Agrees(Copies(z, tag), task, skipping, Append(in, m), next)
<1> DEFINE y == Copies(z, tag)
           s == Append(in, m)
           first == First(task, skipping)
<1>1. skipping \in BOOLEAN
  BY DEF Inv, Loop
<1>2. /\ Queued(skipping, first, in, z.waiting) /\ Linked(z, task, skipping)
      /\ Fed(z, task, in, owes)
  BY DEF Agrees
<1>3. task.at \in CopyStep
  BY <1>2 DEF Linked
<1>4. task.at \in Started
  BY <1>3 DEF Started
<1>5. /\ first = << task.msg >> /\ CopyInsOf(task.msg) \in Nat /\ Ahead(task) \in Nat
  BY <1>4, StartedTask
<1>6. z.waiting = << task.msg >> /\ \A i \in 1..Len(in) : in[i].tag \in Within
  BY <1>2, <1>3 DEF Fed, Feeds
<1>7. Len(z.waiting) = 1 /\ first # << >> /\ z.copied \in Nat
  <2>1. Len(<< task.msg >>) = 1 /\ << task.msg >> # << >>
    OBVIOUS
  <2>2. z.copied \in Nat
    BY ClientTypes
  <2> QED BY <1>5, <1>6, <2>1, <2>2
<1>8. Unanswered(m)
  BY DEF Unanswered
<1>9. /\ y.copying = (tag \in Sending)
      /\ y.copied = IF tag \in Sending THEN z.copied ELSE z.copied + 1
      /\ y.waiting = z.waiting /\ y.answered = z.answered /\ y.failed = z.failed
      /\ y.aborted = z.aborted
  BY CopiesFields
<1>10. /\ Len(in) \in Nat /\ Len(s) = Len(in) + 1 /\ (in = << >> <=> Len(in) = 0)
       /\ \A i \in 1..Len(in) : s[i] = in[i]
       /\ s[Len(in)+1] = m
  BY InboxFacts, InboxGrows
<1> HIDE DEF y, first
<1>11. Queued(skipping, first, s, y.waiting)
  BY <1>1, <1>2, <1>7, <1>8, <1>9, QueuedSilent
<1> HIDE DEF s
<1>12. Linked(y, task, skipping)
  <2>1. y.copied + Ahead(task) + (IF y.copying THEN 1 ELSE 0) <= CopyInsOf(task.msg)
    <3>1. z.copied + Ahead(task) + 1 <= CopyInsOf(task.msg)
      BY <1>2, <1>4 DEF Linked
    <3>2. CASE tag \in Sending
      BY <1>9, <3>1, <3>2
    <3>3. CASE tag \notin Sending
      <4>1. \A k, a, n \in Nat : k + a + 1 <= n => (k + 1) + a + 0 <= n
        OBVIOUS
      <4>2. (z.copied + 1) + Ahead(task) + 0 <= CopyInsOf(task.msg)
        BY <1>5, <1>7, <3>1, <4>1
      <4> QED BY <1>9, <3>3, <4>2
    <3> QED BY <3>2, <3>3
  <2> QED BY <1>2, <1>3, <1>4, <1>9, <2>1 DEF Linked
<1>13. Quiet(task, skipping, s, next)
  BY <1>3 DEF Quiet
<1>14. Feeds(y, task, s)
  <2>1. CASE tag \in Sending
    <3>1. ASSUME NEW i \in 1..Len(s)
          PROVE  s[i].tag \in Within
      <4>1. i \in 1..Len(in) \/ i = Len(in) + 1
        BY <1>10
      <4> QED BY <1>6, <1>10, <2>1, <4>1 DEF Within, Sending
    <3> QED BY <1>6, <1>9, <2>1, <3>1 DEF Feeds
  <2>2. CASE tag \notin Sending
    <3>1. Len(s) \in 1..Len(s) /\ s[Len(s)].tag \in {"CopyDone", "CopyFail"}
      BY <1>10, <2>2 DEF Sending
    <3>2. \A i \in 1..Len(s)-1 : s[i].tag \in Within
      BY <1>6, <1>10
    <3>3. Ended(y.waiting, task, s)
      BY <1>6, <1>9, <3>1, <3>2 DEF Ended
    <3> QED BY <1>9, <2>2, <3>3 DEF Feeds
  <2> QED BY <2>1, <2>2
<1>15. task.at = "copy_body" => IF s = << >> THEN next ELSE s[1].tag = "body"
  <2>1. SUFFICES ASSUME task.at = "copy_body" PROVE s # << >> /\ s[1].tag = "body"
    OBVIOUS
  <2>2. in # << >> /\ in[1].tag = "body"
    BY <1>2, <1>3, <2>1 DEF Fed
  <2>3. 1 \in 1..Len(in)
    BY <1>10, <2>2
  <2>4. s # << >>
    <3>1. Len(<< >>) = 0
      OBVIOUS
    <3> QED BY <1>10, <3>1
  <2> QED BY <1>10, <2>2, <2>3, <2>4
<1>16. Fed(y, task, s, next)
  BY <1>14, <1>15 DEF Fed
<1> QED BY <1>11, <1>12, <1>13, <1>16 DEF Agrees, y, s, first

\* The client sends a message of a copy that an error has ended.
LEMMA LateAgrees ==
  ASSUME Inv, TaskSound(task, skipping), NEW z \in Clients, Over(z),
         NEW in \in Seq(Incoming), NEW owes, Agrees(z, task, skipping, in, owes),
         NEW m \in Incoming, Unanswered(m), NEW b \in BOOLEAN, NEW next
  PROVE  Agrees(Owes(z, b), task, skipping, Append(in, m), next)
<1> DEFINE y == Owes(z, b)
           first == First(task, skipping)
           W == z.waiting
<1>1. skipping \in BOOLEAN
  BY DEF Inv, Loop
<1>2. Queued(skipping, first, in, W) /\ Linked(z, task, skipping)
  BY DEF Agrees
<1>3. W = << >>
  BY <1>2 DEF Over, Linked
<1>4. /\ y.waiting = W /\ y.answered = z.answered /\ y.failed = z.failed
      /\ y.aborted = z.aborted /\ y.copying = z.copying /\ y.copied = z.copied
  BY OwesFields
<1>5. first = << >>
  <2>1. SUFFICES ASSUME first # << >> PROVE FALSE
    OBVIOUS
  <2>2. task.at # "reading"
    BY <2>1 DEF First
  <2>3. first = << task.msg >> /\ ~Unanswered(task.msg)
    <3>1. Append(<< >>, task.msg) = << task.msg >>
      OBVIOUS
    <3> QED BY <2>1, <2>2, <3>1 DEF First, AddLive, Live
  <2>4. task.msg \in Alphabet
    <3>1. task # Reading
      BY <2>2 DEF Reading
    <3>2. task.msg \in Dispatched
      BY <3>1 DEF Inv, Loop, Tasks
    <3> QED BY <2>3, <3>2, AnsweredMessages DEF Incoming, Dispatched
  <2>5. Queued(skipping, << task.msg >>, in, W)
    BY <1>2, <2>3
  <2> QED BY <1>1, <1>3, <2>4, <2>5, QueuedFirst
<1>6. task.at \notin Started
  <2>1. SUFFICES ASSUME task.at \in Started PROVE FALSE
    OBVIOUS
  <2>2. first = << task.msg >>
    BY <2>1, StartedTask
  <2> QED BY <1>5, <2>2
<1> HIDE DEF y, first, W
<1>7. Queued(skipping, first, Append(in, m), y.waiting)
  <2>1. Queued(skipping, first, Append(in, m), W)
    BY <1>1, <1>2, <1>3, QueuedSilent
  <2> QED BY <1>4, <2>1
<1>8. Linked(y, task, skipping)
  BY <1>2, <1>4 DEF Linked, W
<1>9. Quiet(task, skipping, Append(in, m), next)
  BY <1>5 DEF Quiet, first
<1>10. Fed(y, task, Append(in, m), next)
  BY <1>6 DEF Fed, Started
<1> QED BY <1>7, <1>8, <1>9, <1>10 DEF Agrees, y, first

\* The client sends a message of a copy.
LEMMA CopySteps ==
  ASSUME Inv, StepInv, NEW tag \in {"CopyData", "CopyDone", "CopyFail", "Flush"}, ClientCopies(tag),
         ~SyncEarly
  PROVE  StepInv'
<1> DEFINE m == [tag |-> tag]
           owes == cl.owesBody
           next == tag = "CopyData" /\ ~WholeMessages
<1>1. /\ cl.copying /\ ~owes /\ inbox' = Append(inbox, m) /\ cl' = Copies(cl, tag)
      /\ UNCHANGED << outbox, task, skipping, statements, portals >>
  BY DEF ClientCopies, SyncedEarly, server
<1>2. inbox \in Seq(Incoming) /\ skipping \in BOOLEAN /\ outbox \in Seq(Replies)
  BY DEF Inv, Loop
<1>3. PICK z : Reads(cl, outbox, z) /\ Agrees(z, task, skipping, inbox, owes)
  BY DEF StepInv, Agreement
<1>4. Framed(inbox, owes) /\ TaskSound(task, skipping) /\ Stocked'
  BY <1>1, StockedRests DEF StepInv
<1>5. /\ cl \in Clients /\ Sound(cl) /\ z \in Clients /\ Sound(z)
      /\ outbox = << >> => z = cl
  BY <1>2, <1>3, ReadsEnds
<1>6. m \in Incoming /\ m.tag = tag /\ Unanswered(m)
  BY DEF Incoming, CopyMessages, Unanswered
<1>7. next \in BOOLEAN /\ cl'.owesBody = next
  BY <1>1, <1>5, CopiesFields
<1>8. Framed(inbox', next)
  <2>1. next <=> m.tag = "CopyData" /\ ~WholeMessages
    BY <1>6
  <2> HIDE DEF m, next
  <2> QED BY <1>1, <1>2, <1>4, <1>6, <2>1, FramedSent
<1>9. \E y : Reads(cl', outbox', y) /\ Agrees(y, task, skipping, inbox', next)
  <2>1. CASE outbox = << >>
    <3>1. Copies(cl, tag) \in Clients /\ Sound(Copies(cl, tag))
      BY <1>1, <1>5, SoundCopies
    <3>2. Reads(cl', outbox', cl')
      BY <1>1, <2>1, <3>1, ReadsNothing
    <3>3. Agrees(cl, task, skipping, inbox, owes)
      BY <1>3, <1>5, <2>1
    <3>4. Agrees(Copies(cl, tag), task, skipping, Append(inbox, m), next)
      BY <1>1, <1>2, <1>4, <1>5, <1>6, <3>3, CopiedAgrees
    <3> QED BY <1>1, <3>2, <3>4
  <2>2. CASE outbox # << >>
    <3>1. Over(z) /\ Reads(Copies(cl, tag), outbox, Owes(z, next))
      BY <1>1, <1>2, <1>3, <2>2, ReadsCopied
    <3>2. Agrees(Owes(z, next), task, skipping, Append(inbox, m), next)
      BY <1>2, <1>3, <1>4, <1>5, <1>6, <1>7, <3>1, LateAgrees
    <3> QED BY <1>1, <3>1, <3>2
  <2> QED BY <2>1, <2>2
<1> QED BY <1>1, <1>4, <1>7, <1>8, <1>9 DEF StepInv, Agreement
-----------------------------------------------------------------------------
\* The client and the server stay in step.

\* For any pipeline of messages, errors, copies and cancels, the client that reads
\* all it has been sent and the server agree on what is still to be answered, unless
\* a cancel hits the task of a message without a reply, or the client sends its Sync
\* before it knows whether an Execute copies.
THEOREM AgreementInvariance ==
  ASSUME ~CancelStray, ~SyncEarly
  PROVE  Spec => []StepInv
<1>1. Init => StepInv
  <2> SUFFICES ASSUME Init PROVE StepInv
    OBVIOUS
  <2>1. /\ inbox = << >> /\ outbox = << >> /\ task = Reading /\ skipping = FALSE
        /\ statements = [n \in Names |-> NoName] /\ portals = [n \in Names |-> NoName]
    BY DEF Init
  <2>2. cl = [waiting |-> << >>, answered |-> 0, failed |-> FALSE, inBatch |-> FALSE,
              aborted |-> FALSE, copying |-> FALSE, copied |-> 0,
              owesBody |-> FALSE, inStep |-> TRUE]
    BY DEF Init
  <2>3. cl \in Clients
    <3>1. << >> \in Seq(Alphabet)
      OBVIOUS
    <3> QED BY <2>2, <3>1 DEF Clients
  <2>4. /\ cl.waiting = << >> /\ cl.answered = 0 /\ ~cl.failed /\ ~cl.inBatch
        /\ ~cl.aborted /\ ~cl.copying /\ cl.copied = 0 /\ ~cl.owesBody
    BY <2>2
  <2>5. Sound(cl)
    BY <2>4 DEF Sound
  <2>6. Reads(cl, outbox, cl)
    BY <2>1, <2>3, <2>5, ReadsNothing
  <2>7. TaskSound(task, skipping)
    BY <2>1, ReadingSound
  <2>8. Stocked
    BY <2>1 DEF Stocked
  <2>9. Framed(inbox, cl.owesBody)
    <3>1. Len(inbox) = 0
      BY <2>1
    <3> QED BY <2>4, <3>1 DEF Framed
  <2>10. task.at = "reading"
    BY <2>1 DEF Reading
  <2>11. Queued(skipping, First(task, skipping), inbox, cl.waiting)
    <3> DEFINE none == << >>
    <3>1. none \in Seq(Alphabet) /\ skipping \in BOOLEAN /\ (skipping => FALSE)
      <4>1. none \in Seq(Alphabet)
        OBVIOUS
      <4>2. skipping \in BOOLEAN /\ (skipping => FALSE)
        BY <2>1
      <4> QED BY <4>1, <4>2
    <3>2. Synced(none)
      <4>1. Len(none) = 0
        OBVIOUS
      <4> QED BY <4>1 DEF Synced
    <3>3. First(task, skipping) = none /\ inbox = << >> /\ cl.waiting = none
      BY <2>1, <2>4, <2>10 DEF First
    <3> HIDE DEF none
    <3>4. Queued(skipping, none, << >>, none)
      BY <3>1, <3>2, QueuedNothing
    <3> QED BY <3>3, <3>4
  <2>12. Linked(cl, task, skipping)
    BY <2>1, <2>4, <2>10 DEF Linked, Started, CopyStep
  <2>13. Quiet(task, skipping, inbox, cl.owesBody) /\ Fed(cl, task, inbox, cl.owesBody)
    BY <2>10 DEF Quiet, Fed, CopyStep
  <2>14. Agreement
    BY <2>6, <2>11, <2>12, <2>13 DEF Agreement, Agrees
  <2> QED BY <2>7, <2>8, <2>9, <2>14 DEF StepInv
<1>2. Inv /\ StepInv /\ [Next]_vars => StepInv'
  <2> SUFFICES ASSUME Inv, StepInv, [Next]_vars PROVE StepInv'
    OBVIOUS
  <2>1. CASE ReadBodyAsHeader \/ UNCHANGED vars
    <3>1. UNCHANGED << inbox, outbox, task, skipping, statements, portals, cl >>
      BY <2>1 DEF ReadBodyAsHeader, vars, server, client
    <3>2. Stocked'
      BY <3>1, StockedRests DEF StepInv
    <3> QED BY <3>1, <3>2 DEF StepInv, Agreement
  <2>2. CASE Server
    BY <2>1, <2>2, ReadMessageSteps, StartSteps, SimpleSteps, HandlerSteps, ExecuteSteps,
       CopyInSteps, CopyBodySteps, FinishCopySteps, EarlyEndSteps DEF Server
  <2>3. CASE CancelRequest
    BY <2>3, EarlyEndSteps
  <2>4. CASE \E m \in Alphabet : ClientSends(m)
    BY <2>4, SendSteps
  <2>5. CASE \E tag \in {"CopyData", "CopyDone", "CopyFail", "Flush"} : ClientCopies(tag)
    BY <2>5, CopySteps
  <2>6. CASE BodyArrives \/ ClientReceives
    BY <2>6, BodySteps, ReceiveSteps
  <2> QED BY <2>1, <2>2, <2>3, <2>4, <2>5, <2>6 DEF Next
<1> QED BY <1>1, <1>2, LoopInvariance, PTL DEF Spec

\* Each reply is one that the client can expect next, however it pipelines, whatever
\* raises, and wherever a cancel or the end of a copy lands, unless one of those two
\* happens.
THEOREM StaysInStep ==
  ASSUME ~CancelStray, ~SyncEarly
  PROVE  Spec => []InStep
<1>1. Inv /\ StepInv => InStep
  <2> SUFFICES ASSUME Inv, StepInv PROVE InStep
    OBVIOUS
  <2>1. PICK z : Reads(cl, outbox, z)
    BY DEF StepInv, Agreement
  <2>2. cl \in Clients
    BY <2>1, ReadsEnds DEF Inv, Loop
  <2> QED BY <2>2, ClientTypes DEF InStep
<1> QED BY <1>1, LoopInvariance, AgreementInvariance, PTL
=============================================================================
