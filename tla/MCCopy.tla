------------------------------- MODULE MCCopy -------------------------------
(***************************************************************************)
(* Statements, inputs and tables for model checking CopyExchange.          *)
(***************************************************************************)
EXTENDS CopyExchange

CONSTANTS TextLength, CsvLength

Upto(S, n) == UNION {[1..k -> S] : k \in 0..n}

\* The option lists a client may mean, spelled in the two syntaxes.
AskedItems == {<< "FORMAT", "CSV" >>, << "HEADER", "true" >>, << "DELIMITER", "|" >>,
               << "NULL", "" >>, << "QUOTE", "'" >>, << "ESCAPE", "\\" >>, << "FORCE_QUOTE", "a list" >>,
               << "FORCE_NOT_NULL", "a list" >>, << "OIDS", "true" >>, << "ENCODING", "LATIN1" >>,
               << "ENCODING", "UTF-8" >>, << "WHERE", "x" >>}
Asked == {s \in Upto(AskedItems, 2) : Len(s) = 2 => s[1][1] # s[2][1]}

\* The options SQL lets an AS follow.
MayHaveAs == {"DELIMITER", "NULL", "QUOTE", "ESCAPE"}

Modern(item) ==
  CASE item[1] \in {"HEADER", "OIDS"} -> << Word(item[1]), Word("1") >>
    [] item[1] \in {"FORCE_QUOTE", "FORCE_NOT_NULL"} ->
         << Word(item[1]), Punct("("), Word("A"), Punct(")") >>
    [] item[1] = "FORMAT" -> << Word("FORMAT"), Word(item[2]) >>
    [] OTHER -> << Word(item[1]), String(item[2]) >>
Legacy(item) ==
  CASE item[1] = "FORMAT" -> << Word("CSV") >>
    [] item[1] \in {"HEADER", "OIDS"} -> << Word(item[1]) >>
    [] item[1] = "FORCE_QUOTE" -> << Word("FORCE"), Word("QUOTE"), Word("A") >>
    [] item[1] = "FORCE_NOT_NULL" -> << Word("FORCE"), Word("NOT"), Word("NULL"), Word("A") >>
    [] item[1] \in MayHaveAs -> << Word(item[1]), Word("AS"), String(item[2]) >>
    [] OTHER -> Modern(item)

\* A WHERE is written after the list.
InList(asked) == SelectSeq(asked, LAMBDA item : item[1] # "WHERE")
After(asked) == FlattenSeq([i \in DOMAIN asked |->
  IF asked[i][1] = "WHERE" THEN Modern(asked[i]) ELSE << >>])
Spellings(asked) ==
  LET list == InList(asked)
      commas == [i \in DOMAIN list |->
                  (IF i = 1 THEN << >> ELSE << Punct(",") >>) \o Modern(list[i])]
      bare == FlattenSeq([i \in DOMAIN list |-> Legacy(list[i])])
      modern == << Punct("(") >> \o FlattenSeq(commas) \o << Punct(")") >> \o After(asked)
  IN {modern, << Word("WITH") >> \o modern \o << Punct(";") >>, bare \o After(asked)}

From == << Word("FROM"), Word("STDIN") >>
To == << Word("TO"), Word("STDOUT") >>
Table == << Word("T") >>
Listed == << Word("T"), Punct("("), Word("A"), Punct(","), Word("B"), Punct(")") >>

OptionStatements ==
  {[asked |-> asked, text |-> head \o spelled] :
     << asked, spelled >> \in UNION {{asked} \X Spellings(asked) : asked \in Asked},
     head \in {Table \o From, Listed \o To}}

\* Copies of queries over the words of an endpoint and of the options, a literal
\* that holds them, and parentheses.
QueryTokens == {Word("FROM"), Word("STDIN"), Word("TO"), Word("STDOUT"), Punct("("), Punct(")"),
                String("from stdin"), Bad, Word("WITH"), Word("CSV")}
Balanced(ts) == /\ \A i \in DOMAIN ts : Depth(ts, i + 1) >= 0
                /\ Depth(ts, Len(ts) + 1) = 0
QueryStatements ==
  {[asked |-> << >>, text |-> << Punct("(") >> \o inner \o << Punct(")") >> \o To] :
     inner \in {ts \in Upto(QueryTokens, 3) : Balanced(ts)}}
\* No COPY of the protocol's, malformed or unsupported; and the rest.
RefusedTexts ==
  {Table, From, << Punct("("), Word("FROM"), Word("STDIN") >>,
   Table \o << Word("FROM"), String("file") >>, Table \o From \o << Bad >>}
    \cup {Table \o To \o options : options \in {
      << Word("FORMAT") >>, << Word("BINARY") >>, << Word("FORMAT"), Word("XML") >>, << Punct("*") >>,
      << Word("HEADER"), Word("MATCH") >>, << Word("DELIMITER"), String("ab") >>,
      << Word("DELIMITER"), Punct(",") >>, << Word("QUOTE"), String("'") >>}}
OtherStatements ==
  {[asked |-> << << "MALFORMED", "" >> >>, text |-> t] : t \in RefusedTexts}
    \cup {[asked |-> << >>, text |-> t] : t \in {
            << Word("S"), Punct("("), Word("A"), Punct(")"), Word("B") >> \o From,
            Table \o To \o << Word("CSV"), Word("FALSE") >>,
            Table \o To \o << Word("CSV"), Word("HEADER"), Word("OFF") >>,
            Table \o To \o << Word("HEADER"), Word("0") >>}}
    \cup {[asked |-> << << "HEADER", "true" >> >>, text |-> << Word("U") >> \o To \o << Word("HEADER") >>]}

\* The statements whose data is followed: text and CSV with the defaults, CSV
\* with a header and with an escape of its own, text with another delimiter.
Plain(text, asked) == [asked |-> asked, text |-> text]
Spelled(head, asked) == Plain(head \o (CHOOSE s \in Spellings(asked) : TRUE), asked)
CsvItem == << "FORMAT", "CSV" >>
DataItems == {<< >>, << CsvItem >>, << CsvItem, << "HEADER", "true" >> >>,
              << CsvItem, << "ESCAPE", "\\" >> >>, << << "DELIMITER", "|" >> >>, << << "NULL", "" >> >>}
MCStreamed == {Spelled(head, asked) : head \in {Table \o From, Listed \o To}, asked \in DataItems}
MCStatements == OptionStatements \cup QueryStatements \cup OtherStatements \cup MCStreamed

TextAlphabet == {"a", "n", "N", ".", "1", "x", "\\", "\n", "\r", "\t", EAcute}
CsvAlphabet == {"a", ".", ",", "\"", "\\", "\n", "\r", EAcute}
MCInputs ==
  {Utf8Encode(t) : t \in Upto(TextAlphabet, TextLength) \cup Upto(CsvAlphabet, CsvLength)}
    \cup {<< "a", Lead >>, << "a", "\n", Lead >>}

ValueAlphabet == {"a", "N", ".", ",", "|", "\"", "\\", "\n", "\r", "\t"}
Hard == {"N", ".", "\"", "\\", "\n", "\r"}
FieldValues == {Null} \cup Upto(ValueAlphabet, 1) \cup [1..2 -> Hard]
MCTables == {<< << v, w >> >> : v \in FieldValues, w \in FieldValues}
            \cup {<< << v >>, << w >> >> : v \in FieldValues, w \in FieldValues}
            \cup {<< << << EAcute >>, Null >> >>}
MCHooks == {{"in", "out"}, {"in"}}
MCDeclared == [t \in {"T", "U"} |-> IF t = "T" THEN << "A", "B" >> ELSE << >>]
=============================================================================
