---------------------------- MODULE IntegerBuiltins ----------------------------
(***************************************************************************)
(* The integer builtins of kernels that clspv replaces by a few additions, *)
(* comparisons and selections: differences, averages, saturated sums, the  *)
(* comparisons of -hack-scf, and the overloads of max and min of the       *)
(* device library.  A state is the operands of one call.                   *)
(***************************************************************************)
EXTENDS Words

CONSTANT Third   \* the third operands that are tried

ASSUME ThirdAssumption == Third \subseteq Word /\ 0 \in Third

VARIABLES a, b, c

vars == <<a, b, c>>

---------------------------------------------------------------------------
\* replaceAbsDiff: both differences, and the one whose operands are in order.
AbsDiff(x, y, signed) ==
    IF Value(y, signed) > Value(x, signed) THEN Sub(y, x) ELSE Sub(x, y)

\* (a op b) & 1: of the joined word only the last bit is used.
JoinBit(join, x, y) ==
    IF join = "and" THEN (x % 2) * (y % 2)
    ELSE ((x % 2) + (y % 2)) - (x % 2) * (y % 2)

\* Wrong: the shifts of unsigned operands for signed ones too.
HaddLogical(x, y, signed, join) ==
    Add(Add(Shr1(x, FALSE), Shr1(y, FALSE)), JoinBit(join, x, y))

\* replaceHadd: hadd joins the last bits with "and", rhadd with "or".
Hadd(x, y, signed, join) ==
    Add(Add(Shr1(x, signed), Shr1(y, signed)), JoinBit(join, x, y))

\* The clamp of the narrow saturations, before the truncation.
Clamp(n) == IF n < -Half THEN -Half ELSE IF n > MaxWord THEN MaxWord ELSE n

\* replaceAddSubSat, words narrower than 32 bits: computed in twice the width.
AddSubSatNarrow(x, y, add) ==
    Wrap(Clamp(IF add THEN Signed(x) + Signed(y) ELSE Signed(x) - Signed(y)))

\* The same for 32 and 64 bits: the wrapped result is compared with x.
AddSubSatWide(x, y, add) ==
    LET op == IF add THEN Add(x, y) ELSE Sub(x, y)
        greater == Signed(op) > Signed(x)
        less == Signed(op) < Signed(x)
        negative == IF add THEN IF greater THEN MinWord ELSE op
                           ELSE IF less THEN MaxWord ELSE op
        positive == IF add THEN IF less THEN MaxWord ELSE op
                           ELSE IF greater THEN MinWord ELSE op
    IN  IF Signed(y) < 0 THEN negative ELSE positive

\* Wrong: a borrow clamps like a carry.
AddSubSatOnes(x, y, add) ==
    LET r == IF add THEN AddCarry(x, y) ELSE SubBorrow(x, y)
    IN  IF r.carry = 0 THEN r.val ELSE AllOnes

\* Unsigned: a carry or a borrow clamps.
AddSubSatUnsigned(x, y, add) ==
    LET r == IF add THEN AddCarry(x, y) ELSE SubBorrow(x, y)
    IN  IF r.carry = 0 THEN r.val ELSE IF add THEN AllOnes ELSE 0

\* Comparisons by the sign of a difference (-hack-scf).
Compare(pred, x, y) ==
    CASE pred = "sgt" -> Sub(Sub(x, y), 1) < Half
      [] pred = "sge" -> Sub(x, y) < Half
      [] pred = "slt" -> Sub(Sub(y, x), 1) < Half
      [] pred = "sle" -> Sub(y, x) < Half

\* max and min of an unsigned x and a signed y.
MixedMax(x, y) == IF Signed(y) < 0 THEN x ELSE IF x > y THEN x ELSE y

MixedMin(x, y) == IF Signed(y) < 0 THEN 0 ELSE IF x < y THEN x ELSE y

---------------------------------------------------------------------------
\* The program passes any operands to a builtin; from call to call one changes.
Init == a = 0 /\ b = 0 /\ c = 0

First == a' \in Word /\ UNCHANGED <<b, c>>

Second == b' \in Word /\ UNCHANGED <<a, c>>

Last == c' \in Third /\ UNCHANGED <<a, b>>

Next == First \/ Second \/ Last

Spec == Init /\ [][Next]_vars

---------------------------------------------------------------------------
\* The operands are words.
OperandsOK == a \in Word /\ b \in Word /\ c \in Third

\* r is the number of lo..hi that is nearest to n.
Nearest(r, n, lo, hi) ==
    /\ r \in lo..hi
    /\ n \in lo..hi => r = n
    /\ n < lo => r = lo
    /\ n > hi => r = hi

\* r is the quotient of n by 2, rounded down or up.
HalfOf(r, n, up) == n = 2 * r \/ n = 2 * r + (IF up THEN -1 ELSE 1)

\* abs_diff is the distance of its operands, which need not be a signed number;
\* hadd and rhadd are their average, rounded down and up, although their sum need
\* not fit in a word (replaceAbsDiff, replaceHadd).
DistanceExact ==
    \A signed \in BOOLEAN :
        LET x == Value(a, signed)
            y == Value(b, signed)
        IN  AbsDiff(a, b, signed) = IF x > y THEN x - y ELSE y - x

AverageExact ==
    \A signed \in BOOLEAN :
        LET sum == Value(a, signed) + Value(b, signed)
        IN  /\ HalfOf(Value(Hadd(a, b, signed, "and"), signed), sum, FALSE)
            /\ HalfOf(Value(Hadd(a, b, signed, "or"), signed), sum, TRUE)

\* add_sat and sub_sat yield the representable number nearest to the exact sum or
\* difference, by each of the three ways replaceAddSubSat computes them.
SumsSaturate ==
    \A add \in BOOLEAN :
        LET signed == IF add THEN Signed(a) + Signed(b) ELSE Signed(a) - Signed(b)
            plain == IF add THEN a + b ELSE a - b
        IN  /\ Nearest(Signed(AddSubSatNarrow(a, b, add)), signed, -Half, MaxWord)
            /\ Nearest(Signed(AddSubSatWide(a, b, add)), signed, -Half, MaxWord)
            /\ Nearest(AddSubSatUnsigned(a, b, add), plain, 0, AllOnes)

\* The replaced comparisons are right whenever the difference of the operands, less
\* one where one is taken off, is a signed number, and never otherwise: the
\* derivation in the code takes differences for exact.  The overloads of max and
\* min compare numbers.
ComparesDifferences ==
    LET less == Signed(a) < Signed(b)
        d == Signed(a) - Signed(b)
        fits(n) == n \in -Half..MaxWord
    IN  /\ (Compare("sge", a, b) = ~less) <=> fits(d)
        /\ (Compare("slt", a, b) = less) <=> fits(-d - 1)
        /\ (Compare("sgt", a, b) = (Signed(b) < Signed(a))) <=> fits(d - 1)
        /\ (Compare("sle", a, b) = (Signed(a) <= Signed(b))) <=> fits(-d)
        /\ MixedMax(a, b) = IF a > Signed(b) THEN a ELSE b
        /\ MixedMin(a, b) = IF a < Signed(b) THEN a ELSE IF Signed(b) < 0 THEN 0 ELSE b

\* The builtins that are replaced by a few differences, shifts and comparisons.
ShortFormsExact == DistanceExact /\ AverageExact /\ ComparesDifferences
===============================================================================
