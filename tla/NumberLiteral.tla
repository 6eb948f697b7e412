---------------------------- MODULE NumberLiteral ----------------------------
(***************************************************************************)
(* The value of a number literal (numberValue in parser/transform_single): *)
(* an INTEGER or BIGINT if it fits a word, else a HUGEINT or UHUGEINT      *)
(* accumulated digit by digit in two words, else a DOUBLE; a DECIMAL if it *)
(* has a point.  And how the transformers render such a value back.        *)
(*                                                                         *)
(* A number's text is its sign, the digits before and after its point, and *)
(* whether there is a point or an exponent; Bad stands for a character in  *)
(* the digits that is none (a second point).  The words are W bits wide.   *)
(***************************************************************************)
EXTENDS Integers, Sequences

CONSTANTS
    Texts,       \* the literals to read
    W,           \* the width of a word: uint64
    MaxWidth,    \* the digits of the widest DECIMAL: 38
    SmallWidth   \* the digits a word holds: 18

VARIABLES
    text,
    state,       \* "start"; "huge" or "uhuge" while its digits are read; "double", "done"
    digits,      \* the digits to read
    i,           \* the next of them
    hi, lo,      \* the words read so far
    value        \* the result, NoValue if there is none

vars == <<text, state, digits, i, hi, lo, value>>

Word    == 2^W
Bad     == 10
NoValue == [type |-> "none"]
Word64(type, n)        == [type |-> type, int |-> n]
Huge(type, up, low) == [type |-> type, upper |-> up, lower |-> low]
Double  == [type |-> "DOUBLE"]

\* The number of the digits ds; exact, where the code's words wrap.
Number(ds) == LET n[k \in 0..Len(ds)] == IF k = 0 THEN 0 ELSE 10 * n[k - 1] + ds[k] IN n[Len(ds)]
WellFormed(ds) == \A k \in 1..Len(ds) : ds[k] # Bad
NoZeros(ds) == LET first == CHOOSE k \in 1..(Len(ds) + 1) : /\ k = Len(ds) + 1 \/ ds[k] # 0
                                                            /\ \A j \in 1..(k - 1) : ds[j] = 0
               IN  SubSeq(ds, first, Len(ds))
Signed(n)  == IF text.neg THEN -n ELSE n
FitsInt64(n) == n >= -(Word \div 2) /\ n < Word \div 2
IntegerTypeFor(n) == LET half == 2^(W \div 2 - 1) IN IF n >= -half /\ n < half THEN "INTEGER" ELSE "BIGINT"

\* mul64 multiplies by halves of a word.
Mul64(v, by) ==
    LET half == 2^(W \div 2)
        l == (v % half) * by
        h == (v \div half) * by + l \div half
    IN  [lo |-> (h % half) * half + (l % half), carry |-> h \div half]

Decimal  == text.point /\ ~text.exponent
Width    == LET w == Len(text.whole) + Len(text.frac) IN IF w = 0 THEN 1 ELSE w
Unscaled == LET ds == NoZeros(text.whole) \o text.frac IN IF ds = <<>> THEN <<0>> ELSE ds

Init == /\ text \in Texts
        /\ state = "start" /\ digits = <<>> /\ i = 1 /\ hi = 0 /\ lo = 0
        /\ value = NoValue

Finish(v)    == state' = "done" /\ value' = v /\ UNCHANGED <<text, digits, i, hi, lo>>
GoTo(s, ds)  == state' = s /\ digits' = ds /\ i' = 1 /\ hi' = 0 /\ lo' = 0 /\ UNCHANGED <<text, value>>
\* An integer that is no HUGEINT may be a UHUGEINT; a decimal has no value.
NoHugeint    == IF Decimal THEN Finish(NoValue) ELSE GoTo("uhuge", digits)

-----------------------------------------------------------------------------
Classify ==
    /\ state = "start"
    /\ \/ text.exponent /\ GoTo("double", text.whole \o text.frac)
       \/ /\ Decimal
          /\ \/ Width > MaxWidth /\ GoTo("double", text.whole \o text.frac)
             \/ /\ Width <= SmallWidth /\ WellFormed(Unscaled)
                /\ Finish(Word64("DECIMAL", Signed(Number(Unscaled))))
             \/ /\ Width <= MaxWidth /\ ~(Width <= SmallWidth /\ WellFormed(Unscaled))
                /\ GoTo("huge", Unscaled)
       \/ /\ ~Decimal /\ ~text.exponent
          /\ LET n == Signed(Number(text.whole))
             IN  IF WellFormed(text.whole) /\ FitsInt64(n) THEN Finish(Word64(IntegerTypeFor(n), n))
                 ELSE GoTo("huge", text.whole)

\* Mutant: the digit's carry into the high word is lost.
HugeDigitNoCarry ==
    /\ state = "huge" /\ i <= Len(digits) /\ digits[i] # Bad
    /\ LET m == Mul64(lo, 10)
       IN  lo' = (m.lo + digits[i]) % Word /\ hi' = (hi * 10 + m.carry) % Word
    /\ i' = i + 1 /\ UNCHANGED <<text, state, digits, value>>

\* parseHugeint: one digit of its loop.
HugeDigit ==
    /\ state = "huge" /\ i <= Len(digits)
    /\ LET m     == Mul64(lo, 10)
           hiNew == (hi * 10 + m.carry) % Word
           loNew == (m.lo + digits[i]) % Word
           hiUp  == IF loNew < digits[i] THEN (hiNew + 1) % Word ELSE hiNew
       IN  IF digits[i] = Bad \/ hiNew < m.carry \/ (loNew < digits[i] /\ hiUp = 0) THEN NoHugeint
           ELSE /\ hi' = hiUp /\ lo' = loNew /\ i' = i + 1
                /\ UNCHANGED <<text, state, digits, value>>

\* negateHugeint: two's complement.
Negate(up, low) ==
    LET lowNeg == (Word - 1 - low + 1) % Word
        upNeg  == -up - 1
    IN  <<IF lowNeg = 0 THEN upNeg + 1 ELSE upNeg, lowNeg>>

HugeEnd ==
    /\ state = "huge" /\ i > Len(digits)
    /\ IF hi > Word \div 2 - 1 \/ digits = <<>> THEN NoHugeint
       ELSE LET h == IF text.neg THEN Negate(hi, lo) ELSE <<hi, lo>>
            IN  Finish(Huge(IF Decimal THEN "DECIMAL" ELSE "HUGEINT", h[1], h[2]))

\* parseUint128: one digit of its loop; a sign is no digit.
UhugeDigit ==
    /\ state = "uhuge" /\ i <= Len(digits)
    /\ LET m   == Mul64(lo, 10)
           up  == hi * 10 + m.carry
           low == (m.lo + digits[i]) % Word
       IN  IF \/ text.neg \/ digits[i] = Bad
              \/ hi > (Word - 1 - m.carry) \div 10
              \/ low < digits[i] /\ up = Word - 1
           THEN GoTo("double", digits)
           ELSE /\ hi' = (IF low < digits[i] THEN up + 1 ELSE up) /\ lo' = low /\ i' = i + 1
                /\ UNCHANGED <<text, state, digits, value>>

\* int64(hi): the upper word of a UHUGEINT is kept in a signed word.
AsInt64(n) == IF n >= Word \div 2 THEN n - Word ELSE n

UhugeEnd ==
    /\ state = "uhuge" /\ i > Len(digits)
    /\ IF digits = <<>> THEN GoTo("double", digits)
       ELSE Finish(Huge("UHUGEINT", AsInt64(hi), lo))

\* parseDouble: out of range is infinite, not an error.
ParseDouble ==
    /\ state = "double"
    /\ Finish(IF WellFormed(digits) /\ digits # <<>> THEN Double ELSE NoValue)

Next == Classify \/ HugeDigit \/ HugeEnd \/ UhugeDigit \/ UhugeEnd \/ ParseDouble
Spec == Init /\ [][Next]_vars

-----------------------------------------------------------------------------
(* valueString: a value rendered back, as its sign and digits. *)
HugeInteger(v)   == v.upper * Word + v.lower
IntegerOf(v)     == IF v.type \in {"HUGEINT", "UHUGEINT"} \/ "upper" \in DOMAIN v THEN HugeInteger(v) ELSE v.int
Magnitude(n) == IF n < 0 THEN -n ELSE n
DigitsOf(n) ==
    LET ds[k \in 0..n] == IF k < 10 THEN <<k>> ELSE Append(ds[k \div 10], k % 10) IN ds[n]

\* decimalValueString puts zeros before the digits until there are more than scale.
Pad(ds, scale) == [k \in 1..(scale + 1 - Len(ds)) |-> 0] \o ds

Rendered(v) ==
    LET scale == IF v.type = "DECIMAL" THEN Len(text.frac) ELSE 0
        n     == IntegerOf(v)
        ds    == Pad(DigitsOf(Magnitude(n)), scale)
    IN  [neg |-> n < 0, whole |-> SubSeq(ds, 1, Len(ds) - scale), frac |-> SubSeq(ds, Len(ds) - scale + 1, Len(ds))]

-----------------------------------------------------------------------------
(* Correctness. *)
Done == state = "done"
Written == Signed(Number(Unscaled))
Exactly(v) == IntegerOf(v) = Written

\* The type invariant: words stay words.
TypeOK == /\ state \in {"start", "huge", "uhuge", "double", "done"}
          /\ i \in 1..(Len(digits) + 1) /\ hi \in 0..(Word - 1) /\ lo \in 0..(Word - 1)
          /\ "upper" \in DOMAIN value => FitsInt64(value.upper) /\ value.lower \in 0..(Word - 1)
          /\ "int" \in DOMAIN value => FitsInt64(value.int)

\* While the digits read so far fit two words, the words hold exactly them:
\* the half-word multiplication and its carries lose nothing.
WordsExact ==
    state \in {"huge", "uhuge"} =>
        LET read == Number(SubSeq(digits, 1, i - 1))
        IN  read < Word * Word => hi * Word + lo = read

\* A literal that fits two words has exactly the value written, whatever its
\* type; and the unsigned path never accepts one that does not.
ExactIfItFits ==
    Done /\ value.type \notin {"none", "DOUBLE"} /\ (Magnitude(Written) < Word * Word \/ value.type = "UHUGEINT") =>
        IF value.type = "UHUGEINT" THEN (value.upper % Word) * Word + value.lower = Written ELSE Exactly(value)

\* The type is the narrowest that holds the value.
Narrowest ==
    Done /\ ~text.point /\ ~text.exponent /\ Magnitude(Written) < Word * Word =>
        value.type = IF -(2^(W \div 2)) <= 2 * Written /\ 2 * Written < 2^(W \div 2) THEN "INTEGER"
                     ELSE IF FitsInt64(Written) THEN "BIGINT"
                     ELSE IF Magnitude(Written) < (Word * Word) \div 2 THEN "HUGEINT"
                     ELSE IF Written > 0 THEN "UHUGEINT" ELSE "DOUBLE"

\* Every decimal of up to MaxWidth digits is a DECIMAL, wider ones are
\* doubles, and one with a second point has no value.
Canonical(r) == IF r.whole = <<>> THEN <<0>> ELSE r.whole
DecimalsRoundTrip ==
    Done /\ Decimal =>
        /\ value.type = "DECIMAL" <=> Width <= MaxWidth /\ WellFormed(text.frac)
        /\ value.type = "DECIMAL" =>
             LET r == Rendered(value)
             IN  /\ r.frac = text.frac
                 /\ r.whole = Canonical([whole |-> NoZeros(text.whole)])
                 /\ r.neg = (text.neg /\ Written # 0)

\* "integers become INTEGER/BIGINT/HUGEINT/UHUGEINT (then DOUBLE)"
\* (transform_single.go:317): an integer type's value is the number written.
IntegersAreExact == Done /\ value.type = "HUGEINT" => Exactly(value)
=============================================================================
