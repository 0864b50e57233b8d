------------------------------ MODULE CopyCodec ------------------------------
(***************************************************************************)
(* The text and CSV formats of COPY: CopyEncoder, CopyInDecoder.           *)
(*                                                                         *)
(* Text is a sequence of characters and a character is a string; EAcute    *)
(* stands for every character of more than one byte.  The options are the  *)
(* record that CopyStatement!ParseOptions answers.  A field is a text or   *)
(* Null, a row a sequence of fields.                                       *)
(***************************************************************************)
EXTENDS CopyStatement, Functions

EAcute == "e acute"
Lead == "first byte"
Continuation == "second byte"

\* The text of a NULL option.
CharsOf(s) == CASE s = "" -> << >> [] s = "\\N" -> << "\\", "N" >> [] OTHER -> << s >>

Utf8Encode(text) == FlattenSeq([i \in DOMAIN text |->
  IF text[i] = EAcute THEN << Lead, Continuation >> ELSE << text[i] >>])

\* Mutant: every message is decoded by itself.
Utf8DecodeAlone(held, data) ==
  LET whole == SelectSeq(IF data # << >> /\ data[1] = Continuation THEN Tail(data) ELSE data, LAMBDA b : b # Lead)
  IN [text |-> [i \in DOMAIN whole |-> IF whole[i] = Continuation THEN EAcute ELSE whole[i]],
      held |-> << >>]

\* The incremental decoder: it holds back a character of which it has the
\* first byte only.
Utf8Decode(held, data) ==
  LET bytes == held \o data
      cut == bytes # << >> /\ Last(bytes) = Lead
      whole == SelectSeq(IF cut THEN Front(bytes) ELSE bytes, LAMBDA b : b # Lead)
  IN [text |-> [i \in DOMAIN whole |-> IF whole[i] = Continuation THEN EAcute ELSE whole[i]],
      held |-> IF cut THEN << Lead >> ELSE << >>]
-----------------------------------------------------------------------------
\* CopyEncoder.
TextEscapes == [c \in {"\\", "\n", "\r", "\t"} |->
  << "\\", CASE c = "\\" -> "\\" [] c = "\n" -> "n" [] c = "\r" -> "r" [] c = "\t" -> "t" >>]

TextField(options, value) ==
  IF value = Null THEN CharsOf(options.null)
  ELSE FlattenSeq([i \in DOMAIN value |->
         CASE value[i] \in DOMAIN TextEscapes -> TextEscapes[value[i]]
           [] value[i] \notin DOMAIN TextEscapes /\ value[i] = options.delimiter -> << "\\", value[i] >>
           [] OTHER -> << value[i] >>])

\* Mutant: a value that looks like the null string goes unquoted.
CsvFieldBare(options, value) ==
  LET specials == {options.delimiter, options.quote, "\n", "\r"}
      body == FlattenSeq([i \in DOMAIN value |->
                IF value[i] \in {options.quote, options.escape} THEN << options.escape, value[i] >>
                ELSE << value[i] >>])
  IN CASE value = Null -> CharsOf(options.null)
       [] value # Null /\ ToSet(value) \cap specials = {} -> value
       [] OTHER -> << options.quote >> \o body \o << options.quote >>

CsvField(options, value) ==
  LET specials == {options.delimiter, options.quote, "\n", "\r"}
      needsQuotes == value = CharsOf(options.null) \/ ToSet(value) \cap specials # {}
      body == FlattenSeq([i \in DOMAIN value |->
                IF value[i] \in {options.quote, options.escape} THEN << options.escape, value[i] >>
                ELSE << value[i] >>])
  IN CASE value = Null -> CharsOf(options.null)
       [] value # Null /\ ~needsQuotes -> value
       [] OTHER -> << options.quote >> \o body \o << options.quote >>

Line(options, row) ==
  LET rendered == [i \in DOMAIN row |->
        IF options.csv THEN CsvField(options, row[i]) ELSE TextField(options, row[i])]
      joined == [i \in DOMAIN row |->
        IF i = 1 THEN rendered[i] ELSE << options.delimiter >> \o rendered[i]]
  IN Utf8Encode(Append(FlattenSeq(joined), "\n"))

\* What a COPY TO sends of some rows, its header first.
Encode(options, names, rows) ==
  (IF options.header THEN Line(options, names) ELSE << >>)
    \o FlattenSeq([i \in DOMAIN rows |-> Line(options, rows[i])])
-----------------------------------------------------------------------------
\* Fields of a text record: split at the delimiters that no backslash escapes,
\* compared with the null string, and only then unescaped.
TextUnescapes == [c \in {"n", "r", "t"} |->
  CASE c = "n" -> "\n" [] c = "r" -> "\r" [] c = "t" -> "\t"]
\* The characters whose codes are one, two or three digits 1.
OctalChar == << "chr 1", "\t", "I" >>
HexChar == << "chr 1", "chr 17" >>

\* The digits 1 at the front of text, at most limit of them.
TakeDigits(text, limit) ==
  LET runs == {n \in 0..limit : n <= Len(text) /\ \A i \in 1..n : text[i] = "1"}
  IN CHOOSE n \in runs : \A m \in runs : m <= n

RECURSIVE Unescape(_)
Unescape(field) ==
  IF Len(field) < 2 \/ field[1] # "\\"
  THEN IF field = << >> THEN << >> ELSE << field[1] >> \o Unescape(Tail(field))
  ELSE LET marker == field[2]
           rest == SubSeq(field, 3, Len(field))
           octal == TakeDigits(Tail(field), 3)
           hex == TakeDigits(rest, 2)
       IN CASE marker \in DOMAIN TextUnescapes -> << TextUnescapes[marker] >> \o Unescape(rest)
            [] marker = "x" /\ hex > 0 ->
                 << HexChar[hex] >> \o Unescape(SubSeq(rest, hex + 1, Len(rest)))
            [] marker = "1" ->
                 << OctalChar[octal] >> \o Unescape(SubSeq(field, octal + 2, Len(field)))
            [] OTHER -> << marker >> \o Unescape(rest)

\* Where the next unescaped delimiter of record is, at or after i, or its end.
RECURSIVE NextDelimiter(_, _, _)
NextDelimiter(options, record, i) ==
  CASE i > Len(record) -> Len(record) + 1
    [] i < Len(record) /\ record[i] = "\\" -> NextDelimiter(options, record, i + 2)
    [] i <= Len(record) /\ record[i] = options.delimiter /\ ~(record[i] = "\\" /\ i < Len(record)) -> i
    [] OTHER -> NextDelimiter(options, record, i + 1)

RECURSIVE TextFields(_, _)
TextFields(options, record) ==
  LET at == NextDelimiter(options, record, 1)
      raw == SubSeq(record, 1, at - 1)
      field == IF raw = CharsOf(options.null) THEN Null ELSE Unescape(raw)
  IN IF at > Len(record) THEN << field >>
     ELSE << field >> \o TextFields(options, SubSeq(record, at + 1, Len(record)))

\* Fields of a CSV record.  A field is NULL only if no part of it was quoted.
RECURSIVE CsvScan(_, _, _, _, _)
CsvScan(options, rest, current, quoted, inQuotes) ==
  LET value == IF ~quoted /\ current = CharsOf(options.null) THEN Null ELSE current
      c == rest[1]
      doubled == Len(rest) > 1 /\ options.escape = options.quote /\ rest[2] = options.quote
  IN CASE rest = << >> -> << value >>
       [] rest # << >> /\ inQuotes ->
            IF options.escape # options.quote /\ c = options.escape /\ Len(rest) > 1
            THEN CsvScan(options, Tail(Tail(rest)), Append(current, rest[2]), quoted, TRUE)
            ELSE IF c = options.quote /\ doubled
            THEN CsvScan(options, Tail(Tail(rest)), Append(current, c), quoted, TRUE)
            ELSE IF c = options.quote
            THEN CsvScan(options, Tail(rest), current, quoted, FALSE)
            ELSE CsvScan(options, Tail(rest), Append(current, c), quoted, TRUE)
       [] rest # << >> /\ ~inQuotes /\ c = options.quote ->
            CsvScan(options, Tail(rest), current, TRUE, TRUE)
       [] rest # << >> /\ ~inQuotes /\ c # options.quote /\ c = options.delimiter ->
            << value >> \o CsvScan(options, Tail(rest), << >>, FALSE, FALSE)
       [] OTHER -> CsvScan(options, Tail(rest), Append(current, c), quoted, FALSE)

CsvFields(options, record) == CsvScan(options, record, << >>, FALSE, FALSE)
-----------------------------------------------------------------------------
\* CopyInDecoder: what it has not split off yet, whether the end-of-data marker
\* was seen, whether the header is still to come.
NewDecoder(options) == [held |-> << >>, pending |-> << >>, ended |-> FALSE, skip |-> options.header]

\* The end of the first record in buffer, 0 while it is not all there.
RECURSIVE CsvRecordEnd(_, _, _, _)
CsvRecordEnd(options, buffer, i, inQuotes) ==
  LET q == options.quote
      e == options.escape
  IN CASE i > Len(buffer) -> 0
       [] i <= Len(buffer) /\ ~inQuotes ->
            IF buffer[i] = "\n" THEN i ELSE CsvRecordEnd(options, buffer, i + 1, buffer[i] = q)
       [] i <= Len(buffer) /\ inQuotes /\ e # q /\ buffer[i] = e ->
            CsvRecordEnd(options, buffer, i + 2, TRUE)
       [] i <= Len(buffer) /\ inQuotes /\ e # q /\ buffer[i] # e ->
            CsvRecordEnd(options, buffer, i + 1, buffer[i] # q)
       [] i <= Len(buffer) /\ inQuotes /\ e = q /\ buffer[i] # q ->
            CsvRecordEnd(options, buffer, i + 1, TRUE)
       [] OTHER ->
            IF i = Len(buffer) THEN 0
            ELSE IF buffer[i + 1] = q THEN CsvRecordEnd(options, buffer, i + 2, TRUE)
            ELSE CsvRecordEnd(options, buffer, i + 1, FALSE)

RecordEnd(options, buffer) ==
  IF options.csv THEN CsvRecordEnd(options, buffer, 1, FALSE)
  ELSE IF "\n" \in ToSet(buffer) THEN CHOOSE i \in DOMAIN buffer :
         buffer[i] = "\n" /\ \A j \in 1..(i - 1) : buffer[j] # "\n"
  ELSE 0

\* One record: the marker ends the data, a header is skipped, the rest are rows.
Record(options, decoder, raw) ==
  LET record == IF raw # << >> /\ Last(raw) = "\r" THEN Front(raw) ELSE raw
  IN CASE record = << "\\", "." >> -> [decoder |-> [decoder EXCEPT !.ended = TRUE], rows |-> << >>]
       [] record # << "\\", "." >> /\ decoder.skip ->
            [decoder |-> [decoder EXCEPT !.skip = FALSE], rows |-> << >>]
       [] OTHER ->
            [decoder |-> decoder,
             rows |-> << IF options.csv THEN CsvFields(options, record)
                         ELSE TextFields(options, record) >>]

RECURSIVE Consume(_, _)
Consume(options, decoder) ==
  LET at == RecordEnd(options, decoder.pending)
      cut == [decoder EXCEPT !.pending = SubSeq(@, at + 1, Len(@))]
      one == Record(options, cut, SubSeq(decoder.pending, 1, at - 1))
      more == Consume(options, one.decoder)
  IN CASE decoder.ended -> [decoder |-> [decoder EXCEPT !.pending = << >>], rows |-> << >>]
       [] ~decoder.ended /\ at = 0 -> [decoder |-> decoder, rows |-> << >>]
       [] OTHER -> [decoder |-> more.decoder, rows |-> one.rows \o more.rows]

DecoderFeed(options, decoder, data) ==
  LET utf8 == Utf8Decode(decoder.held, data)
  IN Consume(options, [decoder EXCEPT !.held = utf8.held, !.pending = @ \o utf8.text])

RECURSIVE StripNewlines(_)
StripNewlines(text) ==
  IF text # << >> /\ Last(text) \in {"\r", "\n"} THEN StripNewlines(Front(text)) ELSE text

\* CopyDone.  A last record needs no newline; half a character is an error.
DecoderFinish(options, decoder) ==
  LET leftover == StripNewlines(decoder.pending)
  IN CASE decoder.held # << >> -> Refused("utf8")
       [] decoder.held = << >> /\ leftover # << >> /\ ~decoder.ended ->
            Answer(Record(options, decoder, leftover).rows)
       [] OTHER -> Answer(<< >>)
=============================================================================
