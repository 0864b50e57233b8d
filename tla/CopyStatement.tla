---------------------------- MODULE CopyStatement ----------------------------
(***************************************************************************)
(* COPY ... FROM STDIN / TO STDOUT as a statement: how it is recognised,   *)
(* what its target and its options mean in either of the two syntaxes, and *)
(* when it is refused.                                                     *)
(*                                                                         *)
(* A statement is the sequence of its tokens, the word COPY left out; a    *)
(* word is in upper case.  An unterminated literal is a token of kind      *)
(* "bad", which the tokenizer raises at.                                   *)
(***************************************************************************)
EXTENDS Integers, Sequences, FiniteSets, SequencesExt

CONSTANT Null     \* a NULL field, and a part of a target that is not there

Word(v) == [kind |-> "word", value |-> v]
String(v) == [kind |-> "string", value |-> v]
Punct(v) == [kind |-> "punct", value |-> v]
Bad == [kind |-> "bad", value |-> ""]
IsWord(t, words) == t.kind = "word" /\ t.value \in words

\* What a reader returns: a value, or the class of the PgError it raises.
Answer(v) == [error |-> "none", value |-> v]
Refused(e) == [error |-> e, value |-> << >>]
-----------------------------------------------------------------------------
\* _find_endpoint: only two adjacent words outside every parenthesis count.
Endpoints == {<< "FROM", "STDIN", "in" >>, << "TO", "STDOUT", "out" >>}

\* The parentheses open before token i.
Depth(ts, i) ==
  Cardinality({j \in 1..(i - 1) : ts[j] = Punct("(")})
    - Cardinality({j \in 1..(i - 1) : ts[j] = Punct(")")})

\* Mutant: the words of an endpoint count inside parentheses too.
IsEndpointAnywhere(ts, i, e) == ts[i] = Word(e[1]) /\ ts[i + 1] = Word(e[2])
IsEndpoint(ts, i, e) ==
  /\ ts[i] = Word(e[1]) /\ ts[i + 1] = Word(e[2])
  /\ Depth(ts, i) = 0

\* A terminator is the one ";" at the end of the text.
StripTerminator(ts) ==
  IF ts # << >> /\ Last(ts) = Punct(";") THEN Front(ts) ELSE ts

\* Nothing, or the direction, the target's tokens and the options' tokens.
FindEndpoint(ts) ==
  LET hits == {i \in 1..(Len(ts) - 1) : \E e \in Endpoints : IsEndpoint(ts, i, e)}
      at == CHOOSE i \in hits : \A j \in hits : i <= j
      endpoint == CHOOSE e \in Endpoints : IsEndpoint(ts, at, e)
  IN IF \/ hits = {}
        \/ \E j \in 1..at : ts[j] = Bad
        \/ at = 1
     THEN << >>
     ELSE << [direction |-> endpoint[3],
              target |-> SubSeq(ts, 1, at - 1),
              options |-> StripTerminator(SubSeq(ts, at + 2, Len(ts)))] >>

\* The target: a query, or a table with or without a column list.  A word is
\* an identifier of it, a list is split at its commas.
ParseTarget(target) ==
  LET opens == {i \in DOMAIN target : target[i] = Punct("(")}
      at == CHOOSE i \in opens : \A j \in opens : i <= j
      names == [i \in DOMAIN target |-> target[i].value]
      list == SelectSeq(SubSeq(target, at + 1, Len(target) - 1), LAMBDA t : t # Punct(","))
      nameless == [table |-> Null, columns |-> << >>]
  IN CASE opens = {} -> [table |-> Last(names), columns |-> << >>]
       [] opens # {} /\ (at = 1 \/ Last(target) # Punct(")")) -> nameless
       [] OTHER -> [table |-> names[at - 1], columns |-> [i \in DOMAIN list |-> list[i].value]]
-----------------------------------------------------------------------------
\* The option list, in the parenthesised syntax or as bare keywords.
ValueOptions == {"FORMAT", "DELIMITER", "NULL", "QUOTE", "ESCAPE", "ENCODING", "FORCE_QUOTE",
                 "FORCE_NOT_NULL", "FORCE_NULL", "DEFAULT", "ON_ERROR", "LOG_VERBOSITY", "REJECT_LIMIT"}
FlagOptions == {"CSV", "BINARY", "HEADER", "FREEZE", "OIDS"}
\* Mutant: AS is noise after one option only.
AsNoiseDelimiter == {"DELIMITER"}
AsNoiseOptions == {"DELIMITER", "NULL", "QUOTE", "ESCAPE"}
BooleanWords == [w \in {"TRUE", "ON", "1", "FALSE", "OFF", "0"} |->
                  IF w \in {"TRUE", "ON", "1"} THEN "true" ELSE "false"]

\* FORCE QUOTE, FORCE NOT NULL and FORCE NULL: every such word is joined to the
\* name.  Any other joining is a name no option has.
ForceName(words) ==
  CASE words = << "QUOTE" >> -> "FORCE_QUOTE"
    [] words = << "NOT", "NULL" >> -> "FORCE_NOT_NULL"
    [] words = << "NULL" >> -> "FORCE_NULL"
    [] OTHER -> "FORCE"
ReadOptionName(ts) ==
  LET joins(k) == \A i \in 2..k : IsWord(ts[i], {"QUOTE", "NOT", "NULL"})
      last == CHOOSE k \in DOMAIN ts : joins(k) /\ (k < Len(ts) => ~joins(k + 1))
  IN IF IsWord(ts[1], {"FORCE"})
     THEN [name |-> ForceName([i \in 1..(last - 1) |-> ts[i + 1].value]),
           rest |-> SubSeq(ts, last + 1, Len(ts))]
     ELSE [name |-> ts[1].value, rest |-> Tail(ts)]

\* A value may follow a noise word AS; a column list is consumed whole.
ReadOptionValue(name, ts) ==
  LET vs == IF ts # << >> /\ IsWord(ts[1], {"AS"}) /\ name \in AsNoiseOptions THEN Tail(ts) ELSE ts
      closes == {i \in DOMAIN vs : vs[i] = Punct(")")}
      close == IF closes = {} THEN Len(vs) ELSE CHOOSE i \in closes : \A j \in closes : i <= j
  IN CASE vs = << >> -> Refused("syntax")
       [] vs # << >> /\ (vs[1].kind # "punct" \/ vs[1].value = "*") ->
            Answer([value |-> vs[1].value, rest |-> Tail(vs)])
       [] vs # << >> /\ vs[1] = Punct("(") ->
            Answer([value |-> "a list", rest |-> SubSeq(vs, close + 1, Len(vs))])
       [] OTHER -> Refused("syntax")

\* Only the boolean words and MATCH are a flag's value.
ReadFlagValue(ts) ==
  CASE ts # << >> /\ IsWord(ts[1], DOMAIN BooleanWords) ->
         Answer([value |-> BooleanWords[ts[1].value], rest |-> Tail(ts)])
    [] ts # << >> /\ IsWord(ts[1], {"MATCH"}) -> Answer([value |-> "match", rest |-> Tail(ts)])
    [] OTHER -> Answer([value |-> "true", rest |-> ts])

RECURSIVE ReadItems(_, _, _)
ReadItems(ts, parenthesised, items) ==
  CASE ts = << >> -> Answer(items)
    [] ts # << >> /\ ts[1] = Punct(",") -> ReadItems(Tail(ts), parenthesised, items)
    [] ts # << >> /\ ts[1] = Punct(")") /\ parenthesised ->
         IF Len(ts) = 1 THEN Answer(items) ELSE Refused("syntax")
    [] ts # << >> /\ ts[1].kind = "word" ->
         LET option == ReadOptionName(ts)
             read == CASE option.name \in ValueOptions -> ReadOptionValue(option.name, option.rest)
                       [] option.name \in FlagOptions -> ReadFlagValue(option.rest)
                       [] OTHER -> Refused("syntax")
         IN IF read.error # "none" THEN read
            ELSE ReadItems(read.value.rest, parenthesised,
                           Append(items, << option.name, read.value.value >>))
    [] OTHER -> Refused("syntax")

OptionItems(text) ==
  LET ts == IF text # << >> /\ IsWord(text[1], {"WITH"}) THEN Tail(text) ELSE text
      parenthesised == ts # << >> /\ ts[1] = Punct("(")
  IN IF Bad \in ToSet(text) THEN Refused("syntax")
     ELSE ReadItems(IF parenthesised THEN Tail(ts) ELSE ts, parenthesised, << >>)
-----------------------------------------------------------------------------
\* The one-character values that occur.
Characters == {",", "|", "\t", "\"", "\\", "'"}

\* The format is the last one named; CSV and BINARY are its old spellings.
FormatOf(items) ==
  LET says(i) == items[i][1] = "FORMAT" \/ (items[i][1] \in {"CSV", "BINARY"} /\ items[i][2] # "false")
      hits == {i \in DOMAIN items : says(i)}
      last == items[CHOOSE i \in hits : \A j \in hits : j <= i]
  IN IF hits = {} THEN "TEXT" ELSE IF last[1] = "FORMAT" THEN last[2] ELSE last[1]

\* The names of the one encoding spoken.
Utf8Names == {"UTF8", "UTF-8", "UTF_8", "UNICODE"}

\* Why an option is refused, if it is.
OptionError(item) ==
  CASE item[1] \in {"FORMAT", "CSV", "BINARY", "NULL"} -> "none"
    [] item[1] \in {"DELIMITER", "QUOTE", "ESCAPE"} ->
         IF item[2] \in Characters THEN "none" ELSE "value"
    [] item[1] = "HEADER" -> IF item[2] = "match" THEN "unsupported" ELSE "none"
    [] item[1] = "ENCODING" -> IF item[2] \in Utf8Names THEN "none" ELSE "unsupported"
    [] OTHER -> "unsupported"

\* The last value given for an option, or what holds without it.
Given(items, name, otherwise) ==
  LET hits == {i \in DOMAIN items : items[i][1] = name}
  IN IF hits = {} THEN otherwise ELSE items[CHOOSE i \in hits : \A j \in hits : j <= i][2]

OptionsOf(read) ==
  LET items == read.value
      format == FormatOf(items)
      csv == format = "CSV"
      bad == SelectSeq(items, LAMBDA item : OptionError(item) # "none")
      quote == Given(items, "QUOTE", "\"")
  IN CASE read.error # "none" -> read
       [] read.error = "none" /\ format = "BINARY" -> Refused("unsupported")
       [] read.error = "none" /\ format \notin {"TEXT", "CSV", "BINARY"} -> Refused("syntax")
       [] read.error = "none" /\ format \in {"TEXT", "CSV"} /\ bad # << >> -> Refused(OptionError(bad[1]))
       [] read.error = "none" /\ format = "TEXT" /\ bad = << >>
          /\ \E i \in DOMAIN items : items[i][1] \in {"QUOTE", "ESCAPE"} -> Refused("unsupported")
       [] OTHER ->
            Answer([csv |-> csv,
                    delimiter |-> Given(items, "DELIMITER", IF csv THEN "," ELSE "\t"),
                    null |-> Given(items, "NULL", IF csv THEN "" ELSE "\\N"),
                    header |-> Given(items, "HEADER", "false") = "true",
                    quote |-> quote,
                    escape |-> Given(items, "ESCAPE", quote)])
ParseOptions(text) == OptionsOf(OptionItems(text))

\* copy_statement(): nothing for a statement that is no COPY of the protocol's,
\* a refusal, or the statement; hooks are the directions the session overrides.
Planned(found, options, hooks) ==
  CASE options.error # "none" -> options
    [] options.error = "none" /\ found.direction \notin hooks -> Refused("unsupported")
    [] OTHER -> Answer([direction |-> found.direction,
                        target |-> ParseTarget(found.target),
                        options |-> options.value])
CopyStatementFor(ts, hooks) ==
  LET plan(found) == IF found = << >> THEN Refused("not a copy")
                     ELSE Planned(found[1], ParseOptions(found[1].options), hooks)
  IN plan(FindEndpoint(ts))

\* The names of a HEADER line of COPY TO: of the statement, or declared.
HeaderNames(target, declared) ==
  CASE target.columns # << >> -> Answer(target.columns)
    [] target.columns = << >> /\ target.table \in DOMAIN declared /\ declared[target.table] # << >> ->
         Answer(declared[target.table])
    [] OTHER -> Refused("unsupported")
=============================================================================
