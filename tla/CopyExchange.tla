---------------------------- MODULE CopyExchange ----------------------------
(***************************************************************************)
(* One COPY from its text to its rows.  A COPY FROM is sent by the client  *)
(* as bytes cut into CopyData messages anywhere; a COPY TO is encoded by   *)
(* the server, and its output is copied back in with the same options, the *)
(* way a dump is restored.                                                 *)
(***************************************************************************)
EXTENDS CopyCodec

CONSTANTS
  Statements,   \* records: the tokens `text`, and `asked`, the options it means to give
  Streamed,     \* the statements whose data is followed as well
  Hooks,        \* which of copy_in() and copy_out() a session overrides, a set of sets
  Inputs,       \* what clients send, as bytes
  Tables,       \* what sessions yield: sequences of rows
  Declared      \* Session.schema(): table -> column names

VARIABLES
  statement, hooks,
  plan,        \* what copy_statement() made of it
  phase,       \* "parse", "refused", "streaming", "done", "failed"
  source,      \* the rows a COPY TO was given
  data,        \* all the bytes of the exchange
  wire,        \* those not yet received
  decoder, rows

vars == << statement, hooks, plan, phase, source, data, wire, decoder, rows >>

Init ==
  /\ statement \in Statements
  /\ hooks \in Hooks
  /\ plan = Refused("not parsed")
  /\ phase = "parse"
  /\ source = << >> /\ data = << >> /\ wire = << >> /\ rows = << >>
  /\ decoder = [held |-> << >>, pending |-> << >>, ended |-> FALSE, skip |-> FALSE]

\* Parse: the statement is refused before the client is told to send.
Refuse ==
  /\ phase = "parse"
  /\ plan' = CopyStatementFor(statement.text, hooks)
  /\ plan'.error # "none"
  /\ phase' = "refused"
  /\ UNCHANGED << statement, hooks, source, data, wire, decoder, rows >>

\* The exchange starts with these bytes to come.
Starts(bytes) ==
  /\ phase' = "streaming"
  /\ data' = bytes /\ wire' = bytes
  /\ decoder' = NewDecoder(plan'.value.options)
  /\ UNCHANGED << statement, hooks, rows >>

CopyIn ==
  /\ phase = "parse"
  /\ plan' = CopyStatementFor(statement.text, hooks)
  /\ plan'.error = "none" /\ plan'.value.direction = "in"
  /\ \E bytes \in IF statement \in Streamed THEN Inputs ELSE {<< >>} : Starts(bytes)
  /\ UNCHANGED source

\* A HEADER that cannot be named fails the copy before its first line.
CopyOut ==
  /\ phase = "parse"
  /\ plan' = CopyStatementFor(statement.text, hooks)
  /\ plan'.error = "none" /\ plan'.value.direction = "out"
  /\ LET options == plan'.value.options
         names == HeaderNames(plan'.value.target, Declared)
         asChars == [i \in DOMAIN names.value |-> << names.value[i] >>]
     IN \/ /\ ~options.header \/ names.error = "none"
           /\ \E table \in IF statement \in Streamed THEN Tables ELSE {<< >>} :
                /\ source' = table
                /\ Starts(Encode(options, asChars, table))
        \/ /\ options.header /\ names.error # "none"
           /\ phase' = "failed"
           /\ UNCHANGED << statement, hooks, source, data, wire, decoder, rows >>

\* CopyData: the next n bytes, wherever they end.
Feed(n) ==
  /\ phase = "streaming"
  /\ LET fed == DecoderFeed(plan.value.options, decoder, SubSeq(wire, 1, n))
     IN decoder' = fed.decoder /\ rows' = rows \o fed.rows
  /\ wire' = SubSeq(wire, n + 1, Len(wire))
  /\ UNCHANGED << statement, hooks, plan, phase, source, data >>

\* CopyDone.
Finish ==
  /\ phase = "streaming" /\ wire = << >>
  /\ LET last == DecoderFinish(plan.value.options, decoder)
     IN /\ phase' = IF last.error = "none" THEN "done" ELSE "failed"
        /\ rows' = rows \o last.value
  /\ UNCHANGED << statement, hooks, plan, source, data, wire, decoder >>

Next ==
  \/ Refuse
  \/ CopyIn
  \/ CopyOut
  \/ \E n \in 1..Len(wire) : Feed(n)
  \/ Finish

Spec == Init /\ [][Next]_vars
-----------------------------------------------------------------------------
\* The rows of an input that arrives in one piece.
Whole(options, bytes) ==
  LET fed == DecoderFeed(options, NewDecoder(options), bytes)
  IN fed.rows \o DecoderFinish(options, fed.decoder).value

\* Where the CopyData messages are cut makes no difference to the rows a session
\* gets: not inside a row, a quoted field, an escape, a doubled quote, the
\* end-of-data marker or a multi-byte character (CopyInDecoder, copy.py 536).
ChunksDoNotMatter ==
  phase = "streaming" =>
    LET options == plan.value.options
        rest == DecoderFeed(options, decoder, wire)
    IN rows \o rest.rows \o DecoderFinish(options, rest.decoder).value = Whole(options, data)

\* Not the values the format cannot carry: in text, one that is written as the
\* null string is, which an escaped \N never is (copy.py 629); in CSV, the
\* end-of-data marker as the only field of its row.
Carried(options, table) ==
  \A i \in DOMAIN table :
    /\ ~options.csv => \A value \in ToSet(table[i]) \ {Null} :
                          TextField(options, value) # CharsOf(options.null)
    /\ options.csv => table[i] # << << "\\", "." >> >>

\* What COPY TO writes, COPY FROM with the same options reads back as the same
\* rows: NULLs as NULLs, and every delimiter, quote, backslash and newline in a
\* value where it was (CopyEncoder, CopyInDecoder).
RoundTrip ==
  /\ phase = "done" /\ plan.value.direction = "out"
  /\ statement \in Streamed /\ Carried(plan.value.options, source)
  => rows = source
-----------------------------------------------------------------------------
\* A COPY of a query goes out, whatever words, literals and parentheses the
\* query holds: it is never taken for an invitation to send, nor are its words for
\* options (copy.py 138).
QueryTextIsOpaque ==
  LET text == statement.text
      closes == {i \in DOMAIN text : i > 1 /\ text[i] = Punct(")") /\ Depth(text, i) = 1}
      close == CHOOSE i \in closes : \A j \in closes : i <= j
      copiesQuery == /\ text[1] = Punct("(") /\ closes # {} /\ Bad \notin ToSet(text)
                     /\ SubSeq(text, close + 1, Len(text)) = << Word("TO"), Word("STDOUT") >>
  IN phase # "parse" /\ copiesQuery =>
       IF "out" \in hooks
       THEN plan.error = "none" /\ plan.value.direction = "out" /\ ~plan.value.options.csv
       ELSE plan.error = "unsupported"

\* How an accepted statement shows that it heard an option.
Heard(options, item) ==
  CASE item[1] = "FORMAT" -> options.csv = (item[2] = "CSV")
    [] item[1] = "DELIMITER" -> options.delimiter = item[2]
    [] item[1] = "NULL" -> options.null = item[2]
    [] item[1] = "HEADER" -> options.header
    [] item[1] = "QUOTE" -> options.quote = item[2]
    [] item[1] = "ESCAPE" -> options.escape = item[2]
    [] item[1] = "ENCODING" -> item[2] = "UTF-8"
    [] OTHER -> FALSE

\* Either every option the client wrote is honoured or the statement is refused,
\* and it is refused only for an option that is not supported, in either syntax:
\* none is dropped, be it after the list or spelled with AS (_option_items,
\* _parse_options).
OptionsAreHeard ==
  LET asked == ToSet(statement.asked)
      supported == \A item \in asked :
        \/ item[1] \in {"FORMAT", "HEADER", "DELIMITER", "NULL"}
        \/ item = << "ENCODING", "UTF-8" >>
        \/ item[1] \in {"QUOTE", "ESCAPE"} /\ << "FORMAT", "CSV" >> \in asked
      wellFormed == hooks = {"in", "out"} /\ Bad \notin ToSet(statement.text)
  IN /\ phase \notin {"parse", "refused"} => \A item \in asked : Heard(plan.value.options, item)
     /\ phase = "refused" /\ plan.error # "not a copy" /\ wellFormed => ~supported
=============================================================================
