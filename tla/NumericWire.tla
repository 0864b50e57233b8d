----------------------------- MODULE NumericWire -----------------------------
(***************************************************************************)
(* Numerics in binary: the digits of a Decimal in groups, aligned outwards *)
(* from the point, with the weight of the first group and the number of    *)
(* decimals to display.                                                    *)
(*                                                                         *)
(* A finite value is Decimal.as_tuple(): a sign, decimal digits without a  *)
(* leading zero, and an exponent; the others are NaN and the infinities.   *)
(* A text is the number it shows, as an integer of its last decimal, and   *)
(* how many decimals it shows, or the word for one of the others.          *)
(***************************************************************************)
EXTENDS Integers, Sequences, SequencesExt, TLC

CONSTANTS
  GroupSize,   \* decimal digits of a group: _NBASE is 10 ^ 4
  Precision    \* significant digits of the Decimal context: 28

Shows(negative, units, decimals) ==
  [word |-> "", negative |-> negative, units |-> units, decimals |-> decimals]
ShowsWord(word) == [word |-> word, negative |-> FALSE, units |-> 0, decimals |-> 0]
Value(digits) == FoldLeft(LAMBDA n, d : 10 * n + d, 0, digits)
Zeros(n) == [i \in 1..n |-> 0]
Padding(digits) == (GroupSize - (Len(digits) % GroupSize)) % GroupSize
Grouped(digits) == [i \in 1..(Len(digits) \div GroupSize) |->
                      Value(SubSeq(digits, (i - 1) * GroupSize + 1, i * GroupSize))]

\* Only the significant groups are stored; leading ones shift the weight.
Trimmed(groups, weight) ==
  LET used == {i \in DOMAIN groups : groups[i] # 0}
      first == CHOOSE i \in used : \A j \in used : i <= j
      final == CHOOSE i \in used : \A j \in used : i >= j
  IN IF used = {} THEN [groups |-> << >>, weight |-> 0]
     ELSE [groups |-> SubSeq(groups, first, final), weight |-> weight - (first - 1)]

\* The word that stands for a value that is not finite, in a text as in the sign
\* field of the wire.
NotFinite(v) ==
  CASE v.kind = "nan" -> "NaN"
    [] v.kind = "infinite" -> IF v.negative THEN "-Infinity" ELSE "Infinity"

EncodeFinite(v) ==
  LET decimals == IF v.exponent < 0 THEN -v.exponent ELSE 0
      missing == decimals + 1 - Len(v.digits)
      text == IF v.exponent >= 0 THEN v.digits \o Zeros(v.exponent)
              ELSE IF missing > 0 THEN Zeros(missing) \o v.digits ELSE v.digits
      integer == SubSeq(text, 1, Len(text) - decimals)
      fraction == SubSeq(text, Len(text) - decimals + 1, Len(text))
      before == Grouped(Zeros(Padding(integer)) \o integer)
      after == Grouped(fraction \o Zeros(Padding(fraction)))
  IN Trimmed(before \o after, Len(before) - 1) @@ [sign |-> IF v.negative THEN "-" ELSE "+", decimals |-> decimals]

\* _encode_numeric_bin
EncodeNumeric(v) ==
  IF v.kind = "finite" THEN EncodeFinite(v)
  ELSE [groups |-> << >>, weight |-> 0, sign |-> NotFinite(v), decimals |-> 0]

\* Decimal arithmetic rounds to the context's precision, halves to even.
Drop(n, k) ==
  LET kept == n \div 10^k
      twice == 2 * (n % 10^k)
  IN IF twice > 10^k \/ (twice = 10^k /\ kept % 2 = 1) THEN kept + 1 ELSE kept
Excess(n) == CHOOSE k \in 0..9 : n < 10^(Precision + k) /\ (k = 0 \/ n >= 10^(Precision + k - 1))
Rounded(n) == Drop(n, Excess(n)) * 10^Excess(n)

\* The digit string, scaled by the groups before the point, and shown with its
\* decimals.  Minus zero is zero.
DecodeNumeric(w) ==
  LET text == FoldLeft(LAMBDA n, g : n * 10^GroupSize + g, 0, w.groups)
      shift == (w.weight + 1 - Len(w.groups)) * GroupSize + w.decimals
      units == IF shift >= 0 THEN Rounded(text) * 10^shift ELSE Drop(Rounded(text), -shift)
  IN IF w.sign \notin {"+", "-"} THEN ShowsWord(w.sign)
     ELSE Shows(w.sign = "-" /\ Rounded(text) # 0, units, w.decimals)

\* What the text format shows, as format() of a Decimal with "f" does.
Plain(v) ==
  CASE v.kind # "finite" -> ShowsWord(NotFinite(v))
    [] v.kind = "finite" /\ v.exponent >= 0 -> Shows(v.negative, Value(v.digits) * 10^v.exponent, 0)
    [] OTHER -> Shows(v.negative, Value(v.digits), -v.exponent)

\* A numeric is the same number with the same decimals in both formats, and zero
\* has no sign.
SameInBinary(v) ==
  DecodeNumeric(EncodeNumeric(v)) = [Plain(v) EXCEPT !.negative = @ /\ Value(v.digits) # 0]

\* The numbers with no more significant digits than a Decimal computes with.
IsShort(v) == \A i \in DOMAIN v.digits : i > Precision => v.digits[i] = 0
=============================================================================
