--------------------------- MODULE MCCommandLoop ---------------------------
(***************************************************************************)
(* Alphabets of the client for model checking CommandLoop.                 *)
(***************************************************************************)
EXTENDS CommandLoop

Query(batch) == [tag |-> "Query", batch |-> batch]
Named(tag) == {[tag |-> tag, name |-> n] : n \in Names}
Plain(tag) == [tag |-> tag]
Parse(stmts) == {[tag |-> "Parse", name |-> n, stmt |-> s] : n \in Names, s \in stmts}
Bind == {[tag |-> "Bind", name |-> n, from |-> f] : n \in Names, f \in Names}
Execute(limits) == {[tag |-> "Execute", name |-> n, max |-> x] : n \in Names, x \in limits}

\* Pipelined batches of the extended protocol, with fetches in pieces and copies
\* that a Sync may precede.
ExtendedAlphabet ==
  Parse({"query", "copy_in"}) \cup Bind \cup Execute({0, 1})
  \cup Named("DescribePortal") \cup Named("CloseStatement") \cup Named("ClosePortal")
  \cup {Plain("Sync"), Plain("Flush"), Query(<< "query" >>)}

\* Batches with copies in them, of the simple protocol and of the extended one.
CopyAlphabet ==
  {Query(<< >>), Query(<< "end" >>), Query(<< "begin", "copy_in", "query" >>), Query(<< "copy_out", "query" >>),
   Plain("Terminate"), Plain("Flush"), Plain("Sync"), Plain("Unsupported")}
  \cup Parse({"begin", "copy_in", "copy_out"}) \cup Bind \cup Execute({0}) \cup Named("DescribeStatement")
=============================================================================
