------------------------------ MODULE ArrayText ------------------------------
(***************************************************************************)
(* Array values on the wire: the shape a Python list must have, the binary *)
(* format and the text literal.                                            *)
(*                                                                         *)
(* A value is a list of values, a text or Null.  A text is a sequence of   *)
(* characters, and stands for whatever the element type's own codec wrote; *)
(* the word NULL is one character, in either case.                         *)
(***************************************************************************)
EXTENDS Integers, Sequences, SequencesExt, FiniteSetsExt

CONSTANT Null

ListOf(items) == [kind |-> "list", items |-> items]
TextOf(chars) == [kind |-> "text", chars |-> chars]
IsList(value) == value # Null /\ value.kind = "list"

Nbsp == "no-break space"
NullWords == {"NULL", "null"}

\* What a function returns, or that it raised ValueError.
Returns(value) == [ok |-> TRUE, value |-> value]
Raises == [ok |-> FALSE, value |-> Null]
-----------------------------------------------------------------------------
\* The sizes along the first elements; an empty list has no dimension.
RECURSIVE FirstSizes(_)
FirstSizes(value) ==
  CASE ~IsList(value) -> << >>
    [] IsList(value) /\ value.items = << >> -> << 0 >>
    [] OTHER -> << Len(value.items) >> \o FirstSizes(value.items[1])

RECURSIVE IsRectangular(_, _)
IsRectangular(value, dims) ==
  IF dims = << >> THEN ~IsList(value)
  ELSE /\ IsList(value)
       /\ Len(value.items) = dims[1]
       /\ \A i \in DOMAIN value.items : IsRectangular(value.items[i], Tail(dims))

Dimensions(value) ==
  CASE value.items = << >> -> Returns(<< >>)
    [] value.items # << >> /\ IsRectangular(value, FirstSizes(value)) -> Returns(FirstSizes(value))
    [] OTHER -> Raises

RECURSIVE Flatten(_)
Flatten(value) ==
  IF IsList(value) THEN FlattenSeq([i \in DOMAIN value.items |-> Flatten(value.items[i])])
  ELSE << value >>

\* A step of 0 is no step: range() raises.
RECURSIVE Reshape(_, _)
Reshape(flat, dims) ==
  LET step == FoldLeft(LAMBDA x, y : x * y, 1, Tail(dims))
      parts == [k \in 1..(Len(flat) \div step) |->
                 Reshape(SubSeq(flat, (k - 1) * step + 1, k * step), Tail(dims))]
  IN IF Len(dims) <= 1 THEN Returns(ListOf(flat))
     ELSE IF step = 0 \/ \E k \in DOMAIN parts : ~parts[k].ok THEN Raises
     ELSE Returns(ListOf([k \in DOMAIN parts |-> parts[k].value]))

\* The binary format: the sizes, a flag, and the elements in row-major order; a
\* length of -1 is a NULL.
EncodeArrayBinary(value) ==
  LET dims == Dimensions(value)
      flat == IF dims.value = << >> THEN << >> ELSE Flatten(value)
  IN IF ~dims.ok THEN Raises
     ELSE Returns([dims |-> dims.value, hasNull |-> Null \in ToSet(flat),
                   elements |-> [i \in DOMAIN flat |->
                     IF flat[i] = Null THEN [length |-> -1, chars |-> << >>]
                     ELSE [length |-> Len(flat[i].chars), chars |-> flat[i].chars]]])

DecodeArrayBinary(data) ==
  LET flat == [i \in DOMAIN data.elements |->
                IF data.elements[i].length = -1 THEN Null ELSE TextOf(data.elements[i].chars)]
  IN IF data.dims = << >> THEN Returns(ListOf(<< >>)) ELSE Reshape(flat, data.dims)
-----------------------------------------------------------------------------
\* The text literal.
\* Mutant: a quote inside an element does not make it quoted.
NeedsQuotingButQuotes == {"{", "}", ",", "\\", " "}
NeedsQuoting == {"{", "}", ",", "\"", "\\", " "}
IsSpace == {" ", Nbsp}

FormatElement(value) ==
  LET escaped == FlattenSeq([i \in DOMAIN value.chars |->
        IF value.chars[i] \in {"\\", "\""} THEN << "\\", value.chars[i] >> ELSE << value.chars[i] >>])
      quoted == \/ value.chars = << >>
                \/ value.chars \in {<< w >> : w \in NullWords}
                \/ ToSet(value.chars) \cap NeedsQuoting # {}
  IN CASE value = Null -> << "NULL" >>
       [] value # Null /\ quoted -> << "\"" >> \o escaped \o << "\"" >>
       [] OTHER -> value.chars

RECURSIVE FormatNested(_)
FormatNested(value) ==
  IF ~IsList(value) THEN FormatElement(value)
  ELSE << "{" >> \o FlattenSeq([i \in DOMAIN value.items |->
         (IF i = 1 THEN << >> ELSE << "," >>) \o FormatNested(value.items[i])]) \o << "}" >>

FormatArrayLiteral(value) ==
  IF Dimensions(value).ok THEN Returns(FormatNested(value)) ELSE Raises

\* Readers answer a value and the text after it.
Read(value, rest) == Returns([item |-> value, rest |-> rest])

RECURSIVE SkipSpace(_)
SkipSpace(text) == IF text # << >> /\ text[1] \in IsSpace THEN SkipSpace(Tail(text)) ELSE text
Strip(text) == Reverse(SkipSpace(Reverse(SkipSpace(text))))

RECURSIVE ParseQuoted(_, _)
ParseQuoted(text, chars) ==
  CASE text = << >> -> Raises
    [] text # << >> /\ text[1] = "\\" ->
         IF Len(text) = 1 THEN Raises ELSE ParseQuoted(Tail(Tail(text)), Append(chars, text[2]))
    [] text # << >> /\ text[1] = "\"" -> Read(TextOf(chars), Tail(text))
    [] OTHER -> ParseQuoted(Tail(text), Append(chars, text[1]))

\* Everything up to a comma or a brace; only a bare NULL is the null marker.
ParseBare(text) ==
  LET stops == {i \in DOMAIN text : text[i] \in {",", "}"}}
      stop == IF stops = {} THEN Len(text) + 1 ELSE Min(stops)
      token == Strip(SubSeq(text, 1, stop - 1))
      isNull == token \in {<< w >> : w \in NullWords}
  IN Read(IF isNull THEN Null ELSE TextOf(token), SubSeq(text, stop, Len(text)))

\* The text after an opening brace, and the items read so far.
RECURSIVE ParseItems(_, _)
ParseItems(text, items) ==
  LET start == SkipSpace(text)
      inner == SkipSpace(Tail(start))
      goOn(more, after) ==
        CASE after # << >> /\ after[1] = "," -> ParseItems(Tail(after), more)
          [] after # << >> /\ after[1] = "}" -> Read(ListOf(more), Tail(after))
          [] OTHER -> Raises
      add(read) == IF read.ok THEN goOn(Append(items, read.value.item), SkipSpace(read.value.rest))
                   ELSE Raises
  IN IF start = << >> THEN Raises
     ELSE add(CASE start[1] = "{" -> IF inner # << >> /\ inner[1] = "}"
                                     THEN Read(ListOf(<< >>), Tail(inner))
                                     ELSE ParseItems(inner, << >>)
                [] start[1] = "\"" -> ParseQuoted(Tail(start), << >>)
                [] OTHER -> ParseBare(start))

\* A literal may begin with its bounds, `[1:3]=`, which a list cannot keep.
ParseArrayLiteral(text) ==
  LET stripped == Strip(text)
      equals == {i \in DOMAIN stripped : stripped[i] = "="}
      bounded == stripped # << >> /\ stripped[1] = "["
      body == IF bounded THEN SkipSpace(SubSeq(stripped, Min(equals) + 1, Len(stripped))) ELSE stripped
      inner == SkipSpace(Tail(body))
      whole(read) == IF read.ok /\ SkipSpace(read.value.rest) = << >>
                     THEN Returns(read.value.item) ELSE Raises
  IN CASE bounded /\ equals = {} -> Raises
       [] (bounded => equals # {}) /\ (body = << >> \/ body[1] # "{") -> Raises
       [] OTHER -> whole(IF inner # << >> /\ inner[1] = "}" THEN Read(ListOf(<< >>), Tail(inner))
                         ELSE ParseItems(inner, << >>))
-----------------------------------------------------------------------------
\* The list that was sent is the one that is read, in text and in binary.
ReadBackFromText(value) ==
  LET text == FormatArrayLiteral(value)
  IN text.ok => ParseArrayLiteral(text.value) = Returns(value)
ReadBackFromBinary(value) ==
  LET binary == EncodeArrayBinary(value)
  IN binary.ok => DecodeArrayBinary(binary.value) = Returns(value)

\* Where that fails, against "Quoting and parsing are inverses" (test_arrays.py)
\* and "The inverse of the binary parameter decoders above" (types.py): the parser
\* strips every space character and the formatter quotes for the ASCII ones only,
\* so an element must not begin or end in another one unquoted; and the decoder
\* raises on the sizes that the encoder writes for an empty list inside a list.
Carries(value) ==
  \A e \in ToSet(Flatten(value)) : e # Null /\ e.chars # << >> =>
    ToSet(e.chars) \cap NeedsQuoting # {} \/ Nbsp \notin {e.chars[1], Last(e.chars)}
HoldsAnEmptyList(value) ==
  Dimensions(value).ok /\ 0 \in ToSet(Dimensions(value).value)

\* But for those two, which do fail, a list comes back from either format as it
\* was sent, NULLs, empty strings, the string NULL, quotes and braces included; and
\* a list that is no array is refused by both.
SurvivesTheWire(value) ==
  /\ FormatArrayLiteral(value).ok = EncodeArrayBinary(value).ok
  /\ FormatArrayLiteral(value).ok => (ReadBackFromText(value) <=> Carries(value))
  /\ ReadBackFromBinary(value) <=> ~HoldsAnEmptyList(value)

\* Whatever literal the parser accepts, writing its value and reading that gives
\* the value again, so a value that the literal carries is never changed by being
\* stored and fetched.
ReadsItsOwnWriting(text) ==
  LET kept(read) == read.ok /\ Carries(read.value) => ReadBackFromText(read.value)
  IN kept(ParseArrayLiteral(text))
=============================================================================
