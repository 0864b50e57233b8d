----------------------------- MODULE CommandLoop -----------------------------
(***************************************************************************)
(* The message loop of one connection, its client and its cancellers.      *)
(*                                                                         *)
(* _command_loop reads a message, runs _dispatch as a task of its own, and *)
(* ends a Query or a Sync with ReadyForQuery.  The task may be cancelled   *)
(* wherever it is suspended: before it starts, in the session's code, and  *)
(* in the copy sub-protocol, where it reads the stream itself.  Writes     *)
(* between two suspensions are one step.                                   *)
(*                                                                         *)
(* The client pipelines, so it may go on sending after the server failed.  *)
(* It keeps what it still waits for and takes each reply for the answer to *)
(* the first of those, as libpq does; cl.inStep turns false on a reply it  *)
(* could not expect.                                                       *)
(***************************************************************************)
EXTENDS Naturals, Sequences, SequencesExt, FiniteSets

CONSTANTS
  Names,          \* names of prepared statements and portals
  NoName,         \* what an absent statement or portal reads as
  Alphabet,       \* the messages the client sends outside a copy
  Rows,           \* the rows a query returns
  MaxSent,        \* bound: messages the client sends
  MaxCancels,     \* bound: cancel requests
  WholeMessages,  \* TRUE: a message arrives in one piece
  CancelStray,    \* TRUE: a cancel may hit the task of a message with no reply
  SyncEarly       \* TRUE: the client sends Sync before it knows of a copy

Statements == {"query", "begin", "end", "copy_in", "copy_out"}

\* A Query carries its statements; the other messages their names.
Messages ==
  [tag : {"Query"}, batch : Seq(Statements)]
  \cup [tag : {"Parse"}, name : Names, stmt : Statements]
  \cup [tag : {"Bind"}, name : Names, from : Names]
  \cup [tag : {"DescribeStatement", "DescribePortal", "CloseStatement", "ClosePortal"},
        name : Names]
  \cup [tag : {"Execute"}, name : Names, max : Nat]
  \cup [tag : {"Sync", "Flush", "Terminate", "Unsupported"}]

ASSUME CommandAssumption ==
  /\ NoName \notin Names
  /\ \A m \in Alphabet : m \in Messages
  /\ Rows \in Nat /\ MaxSent \in Nat /\ MaxCancels \in Nat
  /\ WholeMessages \in BOOLEAN /\ CancelStray \in BOOLEAN /\ SyncEarly \in BOOLEAN
  /\ SyncEarly => [tag |-> "Sync"] \in Alphabet

CopyMessages == [tag : {"CopyData", "CopyDone", "CopyFail"}]
\* The rest of a CopyData whose header has arrived: it is no message.
Body == [tag |-> "body"]

VARIABLES
  inbox,        \* what the client sent and the server has not read
  outbox,       \* what the server wrote and the client has not read
  task,         \* _current_task: where its dispatch is suspended
  tx,           \* tx_status
  skipping,     \* _ignore_until_sync
  statements,   \* state.statements
  portals,      \* state.portals
  link,         \* "up"; "closed" by Terminate; "lost": a body read as a header
  cl,           \* the client
  sent,         \* history: messages the client sent
  cancels       \* history: cancel requests that hit a task

server == << task, tx, skipping, statements, portals, link >>
client == << cl, sent >>
vars == << inbox, outbox, server, client, cancels >>

\* No task: the loop is reading.
Reading == [at |-> "reading"]
\* A task suspended at a point of the dispatch of msg, with these statements
\* of its batch to go.
Task(point, msg, batch) == [at |-> point, msg |-> msg, todo |-> batch]

\* A portal: its statement, the rows its source still holds, whether the
\* source was opened (_row_source), rows_returned, and as history how many
\* DataRows were written and whether no Execute of it has ended early.
NewPortal(stmt) ==
  [stmt |-> stmt, left |-> Rows, opened |-> FALSE, returned |-> 0,
   written |-> 0, whole |-> TRUE]

Init ==
  /\ inbox = << >>
  /\ outbox = << >>
  /\ task = Reading
  /\ tx = "I"
  /\ skipping = FALSE
  /\ statements = [n \in Names |-> NoName]
  /\ portals = [n \in Names |-> NoName]
  /\ link = "up"
  /\ cl = [waiting |-> << >>, answered |-> 0, failed |-> FALSE, inBatch |-> FALSE,
           aborted |-> FALSE, copying |-> FALSE, copied |-> 0,
           owesBody |-> FALSE, inStep |-> TRUE]
  /\ sent = 0
  /\ cancels = 0
-----------------------------------------------------------------------------
\* The server.

\* read_message: the first message has its body, and what follows it.
HasBody == Head(inbox).tag = "CopyData" => WholeMessages \/ Len(inbox) > 1
AfterFirst ==
  IF Head(inbox).tag = "CopyData" /\ ~WholeMessages /\ Len(inbox) > 1
  THEN Tail(Tail(inbox)) ELSE Tail(inbox)

\* _command_loop: a message was read, and its dispatch becomes a task.  A
\* CopyData needs its body before it is one.
ReadMessage ==
  /\ link = "up"
  /\ task = Reading
  /\ inbox # << >>
  /\ LET m == Head(inbox)
     IN  /\ m # Body
         /\ HasBody
         /\ inbox' = AfterFirst
         /\ IF m.tag = "Terminate"
            THEN link' = "closed" /\ UNCHANGED task
            ELSE task' = Task("created", m, << >>) /\ UNCHANGED link
  /\ UNCHANGED << outbox, tx, skipping, statements, portals, client, cancels >>

\* A body where a header should be: the loop has lost the stream.
ReadBodyAsHeader ==
  /\ link = "up"
  /\ task = Reading
  /\ inbox # << >>
  /\ Head(inbox) = Body
  /\ link' = "lost"
  /\ UNCHANGED << inbox, outbox, task, tx, skipping, statements, portals, client, cancels >>

EndsWithReady(m) == m.tag \in {"Query", "Sync"}

\* The dispatch of the task's message is over with these replies and status;
\* failed says that it raised or was cancelled.  The rest of _command_loop's
\* turn follows: ReadyForQuery, which ends skipping.
ReadyOnlyAfterSuccess(m, failed) == m.tag = "Sync" \/ (m.tag = "Query" /\ ~failed)
AnswersReady(m, failed) == EndsWithReady(m)
Finish(replies, status, failed) ==
  LET ready == AnswersReady(task.msg, failed)
  IN  /\ outbox' = outbox \o replies \o (IF ready THEN << "Ready" >> ELSE << >>)
      /\ tx' = status
      /\ skipping' = IF ready THEN FALSE ELSE skipping \/ failed
      /\ task' = Reading

FailedStatus == IF tx = "I" THEN "I" ELSE "E"
Raise == Finish(<< "Error" >>, FailedStatus, TRUE)

\* _dispatch answers nothing while skipping, nor to a copy message outside a
\* copy; Sync and Flush have no reply of their own.
DroppedIfSilent(m) == m.tag \in {"CopyData", "CopyDone", "CopyFail", "Sync", "Flush"}
DroppedIfSkipping(m) == (skipping /\ m.tag # "Sync") \/ m.tag \in {"Sync", "Flush"}
Dropped(m) ==
  \/ skipping /\ m.tag # "Sync"
  \/ m.tag \in {"CopyData", "CopyDone", "CopyFail", "Sync", "Flush"}

\* The first step of _dispatch.
Start ==
  /\ task.at = "created"
  /\ LET m == task.msg
     IN  CASE Dropped(m) -> Finish(<< >>, tx, FALSE)
           [] ~Dropped(m) /\ m.tag = "Unsupported" -> Raise
           [] ~Dropped(m) /\ m.tag = "Query" /\ m.batch = << >> ->
                Finish(<< "Empty" >>, tx, FALSE)
           [] OTHER ->
                /\ task' = Task("running", m, IF m.tag = "Query" THEN m.batch ELSE << >>)
                /\ UNCHANGED << outbox, tx, skipping >>
  /\ UNCHANGED << inbox, statements, portals, link, client, cancels >>

\* The gate of _execute_one_simple_statement and _handle_execute.
Allowed(stmt) == tx = "E" => stmt = "end"

\* What executing a statement of transaction_control leaves as tx_status.
StatusAfter(stmt) ==
  CASE stmt = "begin" -> "T"
    [] stmt = "end"   -> "I"
    [] OTHER          -> tx

\* One statement of the task is complete: the next one of the batch, or the
\* end of the dispatch.
Complete(replies, status) ==
  IF Len(task.todo) > 1
  THEN /\ outbox' = outbox \o replies
       /\ tx' = status
       /\ task' = Task("running", task.msg, Tail(task.todo))
       /\ UNCHANGED skipping
  ELSE Finish(replies, status, FALSE)

\* _run_copy: into the copy sub-protocol, from which the task reads or writes
\* the stream itself.
BeginCopy(stmt) ==
  /\ outbox' = Append(outbox, IF stmt = "copy_in" THEN "CopyIn" ELSE "CopyOut")
  /\ task' = [task EXCEPT !.at = IF stmt = "copy_in" THEN "copying_in" ELSE "copying_out"]
  /\ UNCHANGED << tx, skipping >>

\* _execute_one_simple_statement.
ExecuteSimple ==
  /\ task.at = "running"
  /\ task.msg.tag = "Query"
  /\ LET stmt == Head(task.todo)
     IN  /\ Allowed(stmt)
         /\ IF stmt \in {"copy_in", "copy_out"} THEN BeginCopy(stmt)
            ELSE Complete(<< "Complete" >>, StatusAfter(stmt))
  /\ UNCHANGED << inbox, statements, portals, link, client, cancels >>
-----------------------------------------------------------------------------
\* The extended protocol.
Handling(tag) == task.at = "running" /\ task.msg.tag = tag

HandleParse ==
  /\ Handling("Parse")
  /\ statements' = [statements EXCEPT ![task.msg.name] = task.msg.stmt]
  /\ Finish(<< "ParseComplete" >>, tx, FALSE)
  /\ UNCHANGED << inbox, portals, link, client, cancels >>

BindUnchecked ==
  /\ Handling("Bind")
  /\ portals' = [portals EXCEPT ![task.msg.name] = NewPortal(statements[task.msg.from])]
  /\ Finish(<< "BindComplete" >>, tx, FALSE)
  /\ UNCHANGED << inbox, statements, link, client, cancels >>
HandleBind ==
  /\ Handling("Bind")
  /\ statements[task.msg.from] # NoName
  /\ portals' = [portals EXCEPT ![task.msg.name] = NewPortal(statements[task.msg.from])]
  /\ Finish(<< "BindComplete" >>, tx, FALSE)
  /\ UNCHANGED << inbox, statements, link, client, cancels >>

HandleDescribe ==
  /\ \/ Handling("DescribeStatement") /\ statements[task.msg.name] # NoName
     \/ Handling("DescribePortal") /\ portals[task.msg.name] # NoName
  /\ Finish(<< "Description" >>, tx, FALSE)
  /\ UNCHANGED << inbox, statements, portals, link, client, cancels >>

HandleClose ==
  /\ \/ /\ Handling("CloseStatement")
        /\ statements' = [statements EXCEPT ![task.msg.name] = NoName]
        /\ UNCHANGED portals
     \/ /\ Handling("ClosePortal")
        /\ portals' = [portals EXCEPT ![task.msg.name] = NoName]
        /\ UNCHANGED statements
  /\ Finish(<< "CloseComplete" >>, tx, FALSE)
  /\ UNCHANGED << inbox, link, client, cancels >>

\* The portal an Execute may run, and drain_rows(): how many rows a full
\* drain pulls, and whether it stopped at its limit.
Executing ==
  /\ Handling("Execute")
  /\ portals[task.msg.name] # NoName
  /\ Allowed(portals[task.msg.name].stmt)
Pulled(p, max) == IF max = 0 \/ p.left < max THEN p.left ELSE max
Suspended(p, max) == max # 0 /\ p.left >= max

\* The portal after its source was opened, unless it was, and n rows pulled.
OpenLookingAhead(p, n) ==
  [p EXCEPT !.opened = TRUE, !.left = IF @ > n THEN @ - n - 1 ELSE 0]
Open(p, n) == [p EXCEPT !.opened = TRUE, !.left = @ - n]

\* _handle_execute of a query: rows, then PortalSuspended or CommandComplete.
ExecutePortal ==
  /\ Executing
  /\ LET p == portals[task.msg.name]
         n == Pulled(p, task.msg.max)
     IN  /\ p.stmt = "query"
         /\ portals' = [portals EXCEPT ![task.msg.name] =
              [Open(p, n) EXCEPT !.returned = @ + n, !.written = @ + n]]
         /\ Finish(<< IF Suspended(p, task.msg.max) THEN "Suspended" ELSE "Complete" >>,
                   tx, FALSE)
  /\ UNCHANGED << inbox, statements, link, client, cancels >>

\* _handle_execute of a statement without rows: its effect is its first
\* execution, and a limit is never reached.
ExecuteEffect ==
  /\ Executing
  /\ LET p == portals[task.msg.name]
     IN  /\ p.stmt \in {"begin", "end"}
         /\ portals' = [portals EXCEPT ![task.msg.name] = Open(p, 0)]
         /\ Finish(<< "Complete" >>, IF p.opened THEN tx ELSE StatusAfter(p.stmt), FALSE)
  /\ UNCHANGED << inbox, statements, link, client, cancels >>

ExecuteCopy ==
  /\ Executing
  /\ LET stmt == portals[task.msg.name].stmt
     IN  stmt \in {"copy_in", "copy_out"} /\ BeginCopy(stmt)
  /\ UNCHANGED << inbox, statements, portals, link, client, cancels >>
-----------------------------------------------------------------------------
\* _copy_in and _CopyInReader: the task reads copy messages until CopyDone,
\* and ignores Flush and Sync; whatever else it reads ends the copy.  After a
\* CopyDone the session's copy_in may still await or raise.

\* Mutant: a Sync in a copy is answered.
ReadCopyMessageAnswersSync ==
  /\ task.at = "copying_in"
  /\ inbox # << >>
  /\ LET m == Head(inbox)
     IN  /\ m # Body
         /\ inbox' = AfterFirst
         /\ CASE m.tag = "CopyData" ->
                   /\ task' = IF HasBody THEN task ELSE [task EXCEPT !.at = "copy_body"]
                   /\ UNCHANGED << outbox, tx, skipping >>
              [] m.tag = "CopyDone" ->
                   task' = [task EXCEPT !.at = "copy_ended"] /\ UNCHANGED << outbox, tx, skipping >>
              [] m.tag = "Flush" -> UNCHANGED << task, outbox, tx, skipping >>
              [] m.tag = "Sync" -> outbox' = Append(outbox, "Ready") /\ UNCHANGED << task, tx, skipping >>
              [] OTHER -> Raise
  /\ UNCHANGED << statements, portals, link, client, cancels >>
ReadCopyMessage ==
  /\ task.at = "copying_in"
  /\ inbox # << >>
  /\ LET m == Head(inbox)
     IN  /\ m # Body
         /\ inbox' = AfterFirst
         /\ CASE m.tag = "CopyData" ->
                   /\ task' = IF HasBody THEN task ELSE [task EXCEPT !.at = "copy_body"]
                   /\ UNCHANGED << outbox, tx, skipping >>
              [] m.tag = "CopyDone" ->
                   task' = [task EXCEPT !.at = "copy_ended"] /\ UNCHANGED << outbox, tx, skipping >>
              [] m.tag \in {"Flush", "Sync"} -> UNCHANGED << task, outbox, tx, skipping >>
              [] OTHER -> Raise
  /\ UNCHANGED << statements, portals, link, client, cancels >>

\* read_message: the rest of a CopyData whose header was read.
ReadCopyBody ==
  /\ task.at = "copy_body"
  /\ inbox # << >>
  /\ inbox' = Tail(inbox)
  /\ task' = [task EXCEPT !.at = "copying_in"]
  /\ UNCHANGED << outbox, tx, skipping, statements, portals, link, client, cancels >>

\* The session's copy_in returns; or _copy_out writes the rows after the first,
\* and CopyDone.
FinishCopy ==
  /\ task.at \in {"copying_out", "copy_ended"}
  /\ Complete(<< "Complete" >>, tx)
  /\ UNCHANGED << inbox, statements, portals, link, client, cancels >>
-----------------------------------------------------------------------------
\* What a query's portal is left as when the session raises or is cancelled
\* inside query(), so that the source is not opened; or while rows are pulled,
\* which finishes it.
Interrupted(p) ==
  (IF p.opened THEN {} ELSE {[p EXCEPT !.whole = FALSE]})
  \cup {[Open(p, 0) EXCEPT !.left = 0, !.whole = FALSE]}

\* The rows were pulled, and one of them could not be encoded.
Unencodable(p, n) ==
  {[Open(p, n) EXCEPT !.returned = @ + n, !.written = @ + w, !.whole = FALSE] : w \in 0..n-1}

\* An Execute that ends early leaves its portal as one of these.
Leaves(outcomes) ==
  IF Executing /\ portals[task.msg.name].stmt = "query"
  THEN \E p \in outcomes : portals' = [portals EXCEPT ![task.msg.name] = p]
  ELSE UNCHANGED portals

\* The handler raises: an unknown name, a statement refused in a failed
\* transaction, an error of the session's, bad copy data.
HandlerRaises ==
  /\ task.at \in {"running", "copying_in", "copy_ended", "copying_out"}
  /\ Raise
  /\ Leaves(LET p == portals[task.msg.name]
            IN  Interrupted(p) \cup Unencodable(p, Pulled(p, task.msg.max)))
  /\ UNCHANGED << inbox, statements, link, client, cancels >>

\* The messages that are read and dropped outside a copy: a cancel that hits
\* the task of one, before it starts, answers what nobody asked.
Silent(m) == m.tag \in {"CopyData", "CopyDone", "CopyFail", "Flush"}

\* request_cancel(): the task is cancelled where it is suspended.
CancelRequest ==
  /\ cancels < MaxCancels
  /\ task # Reading
  /\ CancelStray \/ ~(task.at = "created" /\ Silent(task.msg))
  /\ Raise
  /\ Leaves(Interrupted(portals[task.msg.name]))
  /\ cancels' = cancels + 1
  /\ UNCHANGED << inbox, statements, link, client >>
-----------------------------------------------------------------------------
\* The client.

\* It sends a Query only once its extended messages are synced, and nothing
\* but Flush after a message that may start a copy until it is answered; or, as
\* libpq does, a Sync too, which it sends again when it ends such a copy.
Extended(m) == m.tag \notin {"Query", "Sync", "Terminate"}
CopyInsOf(m) ==
  CASE m.tag = "Query"   -> Cardinality({i \in DOMAIN m.batch : m.batch[i] = "copy_in"})
    [] m.tag = "Execute" -> IF \E x \in Alphabet : x.tag = "Parse" /\ x.stmt = "copy_in"
                            THEN 1 ELSE 0
    [] OTHER -> 0

\* The last message it waits for may still start a copy: not when the client
\* has seen and ended all the copies it could start.
MayStillCopy(c) ==
  /\ c.waiting # << >>
  /\ CopyInsOf(Last(c.waiting)) > IF Len(c.waiting) = 1 THEN c.copied ELSE 0

\* A Sync it sent stands behind an Execute that may still start a copy.
SyncedEarly(c) ==
  /\ SyncEarly /\ Len(c.waiting) > 1 /\ Last(c.waiting).tag = "Sync"
  /\ CopyInsOf(Last(Front(c.waiting))) > IF Len(c.waiting) = 2 THEN c.copied ELSE 0

MaySend(m) ==
  /\ m.tag \in {"Query", "Terminate"} => ~cl.inBatch
  /\ m.tag = "Flush" => cl.inBatch
  /\ ~MayStillCopy(cl) \/ (SyncEarly /\ m.tag = "Sync" /\ cl.inBatch)
  /\ ~SyncedEarly(cl)

\* The messages it expects an answer to: those that follow an error it has
\* seen will be skipped until its Sync.
Expects(c, m) ==
  /\ m.tag \notin {"Flush", "Terminate"}
  /\ c.aborted => m.tag = "Sync"

\* The client once it has sent a message.
Sends(c, m) ==
  [c EXCEPT !.waiting = IF Expects(c, m) THEN Append(@, m) ELSE @,
            !.inBatch = (@ \/ Extended(m)) /\ m.tag # "Sync",
            !.aborted = @ /\ m.tag # "Sync"]

ClientSends(m) ==
  /\ link = "up"
  /\ sent < MaxSent
  /\ MaySend(m) /\ ~cl.owesBody
  /\ sent' = sent + 1
  /\ inbox' = Append(inbox, m)
  /\ cl' = Sends(cl, m)
  /\ UNCHANGED << outbox, server, cancels >>

\* In a copy the client sends data, and ends it.
Copies(c, tag) ==
  [c EXCEPT !.owesBody = tag = "CopyData" /\ ~WholeMessages,
            !.copying = tag \in {"CopyData", "Flush"},
            !.copied = IF tag \in {"CopyData", "Flush"} THEN @ ELSE @ + 1]

ClientCopies(tag) ==
  /\ link = "up"
  /\ cl.copying /\ ~cl.owesBody
  /\ tag = "CopyData" \/ tag = "Flush" => sent < MaxSent
  /\ sent' = IF tag \in {"CopyData", "Flush"} THEN sent + 1 ELSE sent
  /\ inbox' = IF SyncedEarly(cl) /\ tag \in {"CopyDone", "CopyFail"}
              THEN Append(Append(inbox, [tag |-> tag]), [tag |-> "Sync"])
              ELSE Append(inbox, [tag |-> tag])
  /\ cl' = Copies(cl, tag)
  /\ UNCHANGED << outbox, server, cancels >>

\* The rest of a CopyData arrives.
BodyArrives ==
  /\ cl.owesBody
  /\ inbox' = Append(inbox, Body)
  /\ cl' = [cl EXCEPT !.owesBody = FALSE]
  /\ UNCHANGED << outbox, server, sent, cancels >>

\* How many of its statements a Query must be told about.
Owed(m) == IF m.batch = << >> THEN 1 ELSE Len(m.batch)

\* The replies that may answer the first message waited for.
Answers(c, m) ==
  CASE m.tag = "Parse" -> {"ParseComplete"}
    [] m.tag = "Bind" -> {"BindComplete"}
    [] m.tag \in {"DescribeStatement", "DescribePortal"} -> {"Description"}
    [] m.tag \in {"CloseStatement", "ClosePortal"} -> {"CloseComplete"}
    [] m.tag = "Execute" -> {"Complete", "Suspended", "CopyIn", "CopyOut"}
    [] m.tag = "Sync" -> {"Ready"}
    [] m.tag = "Query" ->
         IF c.failed \/ c.answered = Owed(m) THEN {"Ready"}
         ELSE {"Complete", "CopyIn", "CopyOut"} \cup
              (IF m.batch = << >> THEN {"Empty"} ELSE {})
    [] OTHER -> {}

Expected(c, r) ==
  IF r = "Error" THEN c.waiting # << >> \/ c.inBatch
  ELSE c.waiting # << >> /\ r \in Answers(c, Head(c.waiting))

\* The messages an error leaves: from the Query it belongs to, or from the
\* next Sync.
Surviving(waiting) ==
  LET kept == {i \in DOMAIN waiting : EndsWithReady(waiting[i])}
  IN  IF kept = {} THEN << >>
      ELSE SubSeq(waiting, CHOOSE i \in kept : \A j \in kept : i <= j, Len(waiting))

\* The client once it has read a reply that it expected.
Taken(c, r) ==
  CASE r = "Error" ->
         [c EXCEPT !.waiting = Surviving(@), !.copying = FALSE, !.copied = 0,
                   !.failed = @ \/ (c.waiting # << >> /\ Head(c.waiting).tag = "Query"),
                   !.aborted = Surviving(c.waiting) = << >>]
    [] r \in {"CopyIn", "CopyOut"} -> [c EXCEPT !.copying = r = "CopyIn"]
    [] r \in {"Complete", "Empty"} /\ Head(c.waiting).tag = "Query" ->
         [c EXCEPT !.answered = @ + 1]
    [] OTHER -> [c EXCEPT !.waiting = Tail(@), !.answered = 0, !.failed = FALSE,
                          !.copied = 0]

\* It reads no reply in a copy that it must sync again.
ClientReceives ==
  /\ cl.inStep
  /\ ~(cl.copying /\ SyncedEarly(cl))
  /\ outbox # << >>
  /\ outbox' = Tail(outbox)
  /\ cl' = IF Expected(cl, Head(outbox)) THEN Taken(cl, Head(outbox))
           ELSE [cl EXCEPT !.inStep = FALSE]
  /\ UNCHANGED << inbox, server, sent, cancels >>

Server ==
  \/ ReadMessage \/ ReadBodyAsHeader \/ Start \/ ExecuteSimple
  \/ HandleParse \/ HandleBind \/ HandleDescribe \/ HandleClose
  \/ ExecutePortal \/ ExecuteEffect \/ ExecuteCopy
  \/ ReadCopyMessage \/ ReadCopyBody \/ FinishCopy
  \/ HandlerRaises

Next ==
  \/ Server
  \/ CancelRequest
  \/ \E m \in Alphabet : ClientSends(m)
  \/ \E tag \in {"CopyData", "CopyDone", "CopyFail", "Flush"} : ClientCopies(tag)
  \/ BodyArrives
  \/ ClientReceives

\* The event loop runs every task that can run, the session's awaits end, and
\* the client reads its replies and ends the copies it starts.
Fairness ==
  /\ WF_vars(Server)
  /\ WF_vars(ClientReceives) /\ WF_vars(BodyArrives)
  /\ WF_vars(ClientCopies("CopyDone") \/ ClientCopies("CopyFail"))

Spec == Init /\ [][Next]_vars /\ Fairness
-----------------------------------------------------------------------------
Points == {"created", "running", "copying_in", "copy_body", "copy_ended", "copying_out"}
Replies == {"ParseComplete", "BindComplete", "Description", "CloseComplete", "Complete",
            "Suspended", "Empty", "CopyIn", "CopyOut", "Error", "Ready"}

\* Every variable holds a value of its kind; a task is that of one message.
TypeOK ==
  /\ \A i \in DOMAIN inbox : inbox[i] \in Alphabet \cup CopyMessages \cup {Body, [tag |-> "Flush"]}
  /\ \A i \in DOMAIN outbox : outbox[i] \in Replies
  /\ task = Reading \/
       (task.at \in Points /\ task.msg \in Alphabet \cup CopyMessages \cup {[tag |-> "Flush"]})
  /\ tx \in {"I", "T", "E"}
  /\ skipping \in BOOLEAN
  /\ statements \in [Names -> Statements \cup {NoName}]
  /\ \A n \in Names : portals[n] = NoName \/ portals[n].stmt \in Statements
  /\ link \in {"up", "closed", "lost"}

\* The client and the server never disagree on which message a reply answers,
\* however the client pipelines, whatever raises, and wherever a cancel or
\* the end of a copy lands: each reply is one the client can expect next.
InStep == cl.inStep

\* No ReadyForQuery overtakes the end of a copy: a client that is in one, or is
\* about to be, reads the CommandComplete or the error first, also when its Sync
\* reached the server inside the copy (_read_batch, connection.py 784).
CopyAnsweredFirst ==
  \A j \in DOMAIN outbox : \A i \in 0..j-1 :
    outbox[j] = "Ready" /\ (IF i = 0 THEN cl.copying ELSE outbox[i] = "CopyIn")
    => \E k \in i+1..j-1 : outbox[k] \in {"Complete", "Error"}

\* After an error nothing the client sent before its Sync has an effect: no
\* statement is prepared, bound, run or closed while the loop is skipping.
SkipsToSync ==
  [][skipping => UNCHANGED << statements, portals >> /\ (tx' # tx => tx' = "E")]_vars

\* A portal whose Executes all ran to their end has written each of its rows
\* once when it completes, however the fetches were sized.
FetchesAreExact ==
  [][\A n \in Names :
       /\ ExecutePortal /\ task.msg.name = n /\ portals[n].whole
       /\ ~Suspended(portals[n], task.msg.max)
       => portals'[n].written = Rows /\ portals'[n].returned = Rows]_vars

\* A client waiting for ReadyForQuery gets it, unless the connection closed.
AwaitsReady == \E i \in DOMAIN cl.waiting : EndsWithReady(cl.waiting[i])
EventuallyReady == AwaitsReady ~> (~AwaitsReady \/ link # "up")

\* "A cancel mid-copy leaves a usable connection": what the loop takes for a
\* message is one.
NeverMisread == link # "lost"
=============================================================================
