---------------------------- MODULE SettingValues ----------------------------
(***************************************************************************)
(* What the value of a setting may be and what it means: parse and render  *)
(* of settings_values over the catalogue's types.                          *)
(*                                                                         *)
(* A text is a word (its characters) or a number with a unit; numbers are  *)
(* counted in tenths, so that 4.5 is a number and not an integer, and are  *)
(* exact.  How a number is written, with an exponent or not, is left out:  *)
(* float() reads both.                                                     *)
(***************************************************************************)
EXTENDS Integers, Sequences, SequencesExt, FiniteSetsExt

CONSTANTS
  Catalogue,   \* name -> [vartype, unit, low, high, enumvals, context, default]
  Families,    \* the unit families, each a function from units to sizes
  IntMax,      \* the largest value of an integer parameter (2^31 - 1)
  Significant, \* the digits that "%g" keeps (6)
  None         \* no such value

NoUnit == [multiple |-> 1, base |-> "none"]
Word(chars) == [kind |-> "word", chars |-> chars, tenths |-> 0, suffix |-> ""]
Number(tenths, suffix) == [kind |-> "number", chars |-> << >>, tenths |-> tenths, suffix |-> suffix]
On == Word(<< "o", "n" >>)
Off == Word(<< "o", "f", "f" >>)

Parsed(v) == [error |-> "none", value |-> v]
Invalid == [error |-> "22023", value |-> None]
-----------------------------------------------------------------------------
\* str.lower(), on the letters that occur in upper case.
Lower(chars) == [i \in DOMAIN chars |->
  CASE chars[i] = "T" -> "t" [] chars[i] = "U" -> "u" [] chars[i] = "F" -> "f" [] OTHER -> chars[i]]

\* Any prefix of true, yes, false and no; on and off need two characters.
Bools == {<< << "t", "r", "u", "e" >>, 1, TRUE >>, << << "y", "e", "s" >>, 1, TRUE >>,
          << << "f", "a", "l", "s", "e" >>, 1, FALSE >>, << << "n", "o" >>, 1, FALSE >>,
          << << "o", "n" >>, 2, TRUE >>, << << "o", "f", "f" >>, 2, FALSE >>}

ParseBool(text) ==
  LET word == Lower(text.chars)
      meant == {b \in Bools : Len(word) >= b[2] /\ IsPrefix(word, b[1])}
  IN CASE text \in {Number(10, ""), Number(0, "")} -> Parsed(text = Number(10, ""))
       [] text.kind = "word" /\ meant # {} -> Parsed((CHOOSE b \in meant : TRUE)[3])
       [] OTHER -> Invalid

\* A candidate in any case; one with on and off also takes the full words.
ParseEnum(text, allowed) ==
  LET same == {c \in allowed : text.kind = "word" /\ Lower(c) = Lower(text.chars)}
      asBool == {b \in Bools : text.kind = "word" /\ b[1] = Lower(text.chars)}
                \cup {b \in {<< << >>, 1, TRUE >>, << << >>, 1, FALSE >>} :
                        text = Number(IF b[3] THEN 10 ELSE 0, "")}
  IN CASE same # {} -> Parsed(CHOOSE c \in same : TRUE)
       [] same = {} /\ {On.chars, Off.chars} \subseteq allowed /\ asBool # {} ->
            Parsed(IF (CHOOSE b \in asBool : TRUE)[3] THEN On.chars ELSE Off.chars)
       [] OTHER -> Invalid

\* The units a parameter measured in `unit` accepts.
HasFamily(unit) == \E f \in Families : unit.base \in DOMAIN f
Family(unit) == CHOOSE f \in Families : unit.base \in DOMAIN f
OwnSize(unit) == unit.multiple * Family(unit)[unit.base]

\* int(): towards zero.
Truncated(a, b) == IF a < 0 THEN -((-a) \div b) ELSE a \div b

\* The number in the parameter's own unit, in tenths; an integer is truncated.
\* (A real's own unit is the smallest of its family here, which divides all.)
InOwnUnits(text, entry) ==
  LET amount == text.tenths * Family(entry.unit)[text.suffix]
      size == OwnSize(entry.unit)
  IN IF entry.vartype = "integer"
     THEN IF text.suffix = "" THEN 10 * Truncated(text.tenths, 10) ELSE 10 * Truncated(amount, 10 * size)
     ELSE IF text.suffix = "" THEN text.tenths ELSE amount \div size

ParseNumber(text, entry) ==
  LET unitless == text.suffix = "" \/ (HasFamily(entry.unit) /\ text.suffix \in DOMAIN Family(entry.unit))
      result == InOwnUnits(text, entry)
  IN IF /\ text.kind = "number" /\ unitless
        /\ entry.vartype = "integer" => result \in -(10 * (IntMax + 1))..(10 * IntMax)
        /\ result \in (10 * entry.low)..(10 * entry.high)
     THEN Parsed(result) ELSE Invalid

\* parse(): a name outside the catalogue is a custom setting and holds any text.
Parse(name, text) ==
  LET entry == Catalogue[name]
  IN CASE name \notin DOMAIN Catalogue -> Parsed(text)
       [] name \in DOMAIN Catalogue /\ entry.vartype = "bool" -> ParseBool(text)
       [] name \in DOMAIN Catalogue /\ entry.vartype = "enum" -> ParseEnum(text, entry.enumvals)
       [] name \in DOMAIN Catalogue /\ entry.vartype \in {"integer", "real"} -> ParseNumber(text, entry)
       [] OTHER -> Parsed(text)
-----------------------------------------------------------------------------
\* The powers of ten that rounding drops at most; more than any setting needs here.
Powers == {10 ^ k : k \in 0..3}
DropsTo(size) == Min({p \in Powers : size \div p < 10 ^ Significant})

\* f"{value:g}": rounded to the significant digits, half to even.
General(value) ==
  LET size == IF value < 0 THEN -value ELSE value
      power == DropsTo(size)
      quotient == size \div power
      up == \/ 2 * (size % power) > power
            \/ 2 * (size % power) = power /\ quotient % 2 = 1
      rounded == power * (IF up THEN quotient + 1 ELSE quotient)
  IN IF value < 0 THEN -rounded ELSE rounded
Plainly(value, entry) == IF entry.vartype = "integer" THEN value ELSE General(value)

\* Mutant: the multiple of the parameter's unit is forgotten.
RenderNumberInBase(value, entry) ==
  LET family == Family(entry.unit)
      absolute == value * family[entry.unit.base]
      exact == {u \in DOMAIN family : absolute % (10 * family[u]) = 0}
      unit == CHOOSE u \in exact : \A w \in exact : family[w] <= family[u]
  IN CASE ~HasFamily(entry.unit) \/ value = 0 -> Number(Plainly(value, entry), "")
       [] HasFamily(entry.unit) /\ value # 0 /\ exact # {} -> Number(absolute \div family[unit], unit)
       [] OTHER -> Number(General(value), entry.unit.base)

\* In the largest unit of the family that divides the amount; 0 has no unit, and
\* a real that no unit divides is shown in its own.
RenderNumber(value, entry) ==
  LET family == Family(entry.unit)
      absolute == value * OwnSize(entry.unit)
      exact == {u \in DOMAIN family : absolute % (10 * family[u]) = 0}
      unit == CHOOSE u \in exact : \A w \in exact : family[w] <= family[u]
  IN CASE ~HasFamily(entry.unit) \/ value = 0 -> Number(Plainly(value, entry), "")
       [] HasFamily(entry.unit) /\ value # 0 /\ exact # {} -> Number(absolute \div family[unit], unit)
       [] OTHER -> Number(General(value), entry.unit.base)

\* render(): what SHOW, current_setting() and ParameterStatus carry.
Render(name, value) ==
  LET entry == Catalogue[name]
  IN CASE name \notin DOMAIN Catalogue -> value
       [] name \in DOMAIN Catalogue /\ entry.vartype = "bool" -> IF value THEN On ELSE Off
       [] name \in DOMAIN Catalogue /\ entry.vartype = "enum" -> Word(value)
       [] name \in DOMAIN Catalogue /\ entry.vartype \in {"integer", "real"} -> RenderNumber(value, entry)
       [] OTHER -> value

\* _check_settable(): who may set a parameter.
Dotted(name) == name \in {"app.x", "app.y"}
CheckSettable(name) ==
  CASE Dotted(name) -> "none"
    [] ~Dotted(name) /\ name \notin DOMAIN Catalogue -> "42704"
    [] ~Dotted(name) /\ name \in DOMAIN Catalogue ->
         IF Catalogue[name].context \in {"user", "superuser"} THEN "none" ELSE "55P02"

\* _setting_value(): the override, the default, blank once it was named, or None.
SettingValue(vars, known, name) ==
  CASE vars[name] # None -> Render(name, vars[name])
    [] vars[name] = None /\ name \in DOMAIN Catalogue -> Catalogue[name].default
    [] vars[name] = None /\ name \notin DOMAIN Catalogue /\ name \in known -> Word(<< >>)
    [] OTHER -> None
-----------------------------------------------------------------------------
\* A real with more digits than "%g" keeps, and no whole number of a unit.
IsLong(name, value) ==
  LET entry == Catalogue[name]
      size == IF value < 0 THEN -value ELSE value
  IN /\ name \in DOMAIN Catalogue /\ entry.vartype = "real"
     /\ \A p \in Powers : value % p = 0 => size \div p >= 10 ^ Significant
     /\ HasFamily(entry.unit) =>
          \A u \in DOMAIN Family(entry.unit) : (value * OwnSize(entry.unit)) % (10 * Family(entry.unit)[u]) # 0

\* What SHOW reports of a setting can be SET again, in the unit it is reported in,
\* within the range (#115), and means the same, but for reals with more digits than
\* are shown, which do come back as others, against "The inverse of `parse`"
\* (render).  That happens once: what is then shown, maybe in another unit, stays.
CanBeSetAgain(name, text) ==
  LET parsed == Parse(name, text)
      again == Parse(name, Render(name, parsed.value))
  IN parsed.error = "none" =>
       /\ again.error = "none"
       /\ Parse(name, Render(name, again.value)) = again
       /\ again = parsed <=> ~IsLong(name, parsed.value)
=============================================================================
