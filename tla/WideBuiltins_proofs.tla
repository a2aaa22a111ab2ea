--------------------------- MODULE WideBuiltins_proofs ---------------------------
(***************************************************************************)
(* The integer builtins are right for words of every width.  Each lemma is *)
(* about one builtin, or one instruction it is made of, and all its        *)
(* operands; the theorems follow because the operands of a call are words. *)
(*                                                                         *)
(* The builtins of IntegerBuiltins come first.  Those of WideBuiltins rest *)
(* on two descriptions of a word: by its bits, of which it is the number   *)
(* (OfBitsOf, SameBits), so that shifted and joined words are compared bit *)
(* by bit; and, for products, by quotient and remainder (DivUnique).       *)
(***************************************************************************)
EXTENDS WideBuiltins, NaturalsInduction, WellFoundedInduction, TLAPS

---------------------------------------------------------------------------
(* The builtins that are replaced by a few additions and comparisons. *)

\* A word is what its value says, and values are in range.
LEMMA ValueFacts ==
    ASSUME NEW x \in Word, NEW signed \in BOOLEAN
    PROVE  /\ Value(x, signed) \in Int
           /\ Wrap(Value(x, signed)) = x
           /\ signed => Value(x, signed) \in -Half..(Half - 1)
           /\ ~signed => Value(x, signed) \in 0..(M - 1)
BY HalfAssumption DEF Word, Value, Wrap, M

\* A result that is in range is kept, as a signed and as an unsigned number.
LEMMA WrapFacts ==
    ASSUME NEW n \in Int
    PROVE  /\ n \in -Half..(M - 1) => Wrap(n) \in Word
           /\ n \in -Half..(Half - 1) => Signed(Wrap(n)) = n
           /\ n \in 0..(M - 1) => Wrap(n) = n
BY HalfAssumption DEF Word, Value, Signed, Wrap, M

\* What the sum and the difference of two words mean as signed numbers: the exact
\* result, or that less or more than it by a modulus.
LEMMA SignedSum ==
    ASSUME NEW x \in Word, NEW y \in Word
    PROVE  /\ Add(x, y) \in Word
           /\ Signed(Add(x, y)) =
                LET n == Signed(x) + Signed(y)
                IN  IF n >= Half THEN n - M ELSE IF n < -Half THEN n + M ELSE n
BY HalfAssumption DEF Word, Value, Signed, Add, Wrap, M

\* The same for the difference.
LEMMA SignedDifference ==
    ASSUME NEW x \in Word, NEW y \in Word
    PROVE  /\ Sub(x, y) \in Word
           /\ Signed(Sub(x, y)) =
                LET n == Signed(x) - Signed(y)
                IN  IF n >= Half THEN n - M ELSE IF n < -Half THEN n + M ELSE n
BY HalfAssumption DEF Word, Value, Signed, Sub, Wrap, M

---------------------------------------------------------------------------
\* Distances.
LEMMA DistanceLemma ==
    ASSUME NEW x \in Word, NEW y \in Word, NEW signed \in BOOLEAN
    PROVE  AbsDiff(x, y, signed) =
             IF Value(x, signed) > Value(y, signed)
             THEN Value(x, signed) - Value(y, signed)
             ELSE Value(y, signed) - Value(x, signed)
BY HalfAssumption DEF Word, Value, AbsDiff, Sub, Wrap, M

\* Halving a number drops its last bit, which is that of the word.
LEMMA HalvingLemma ==
    ASSUME NEW x \in Word, NEW signed \in BOOLEAN
    PROVE  \E q \in Int :
             /\ Value(x, signed) = 2 * q + (x % 2)
             /\ Shr1(x, signed) = Wrap(q)
             /\ x % 2 \in {0, 1}
             /\ signed => q \in -Half..(Half - 1)
             /\ ~signed => q \in 0..(Half - 1)
<1> DEFINE v == Value(x, signed)
<1>1. v \in Int /\ x \in Int /\ v \div 2 \in Int
  BY HalfAssumption DEF Word, Value, M
<1>2. v % 2 = x % 2
  BY HalfAssumption DEF Word, Value, M
<1>3. v = 2 * (v \div 2) + (v % 2) /\ v % 2 \in {0, 1}
  BY <1>1
<1>4. Shr1(x, signed) = Wrap(v \div 2)
  BY DEF Shr1
<1>5. /\ signed => v \in -Half..(Half - 1)
      /\ ~signed => v \in 0..(M - 1)
  BY ValueFacts
<1>6. /\ signed => v \div 2 \in -Half..(Half - 1)
      /\ ~signed => v \div 2 \in 0..(Half - 1)
  <2> HIDE DEF v
  <2> QED BY <1>1, <1>3, <1>5, HalfAssumption DEF M
<1> QED BY <1>1, <1>2, <1>3, <1>4, <1>6

\* Averages: the halves of the operands, and the bit that both or either lose.
LEMMA AverageLemma ==
    ASSUME NEW x \in Word, NEW y \in Word, NEW signed \in BOOLEAN
    PROVE  LET sum == Value(x, signed) + Value(y, signed)
           IN  /\ HalfOf(Value(Hadd(x, y, signed, "and"), signed), sum, FALSE)
               /\ HalfOf(Value(Hadd(x, y, signed, "or"), signed), sum, TRUE)
<1>1. PICK q \in Int :
        /\ Value(x, signed) = 2 * q + (x % 2)
        /\ Shr1(x, signed) = Wrap(q)
        /\ x % 2 \in {0, 1}
        /\ signed => q \in -Half..(Half - 1)
        /\ ~signed => q \in 0..(Half - 1)
  BY HalvingLemma
<1>2. PICK r \in Int :
        /\ Value(y, signed) = 2 * r + (y % 2)
        /\ Shr1(y, signed) = Wrap(r)
        /\ y % 2 \in {0, 1}
        /\ signed => r \in -Half..(Half - 1)
        /\ ~signed => r \in 0..(Half - 1)
  BY HalvingLemma
<1>3. /\ signed => Value(x, signed) \in -Half..(Half - 1)
      /\ signed => Value(y, signed) \in -Half..(Half - 1)
      /\ ~signed => Value(x, signed) \in 0..(M - 1)
      /\ ~signed => Value(y, signed) \in 0..(M - 1)
  BY ValueFacts
<1>4. /\ JoinBit("and", x, y) = IF x % 2 = 1 /\ y % 2 = 1 THEN 1 ELSE 0
      /\ JoinBit("or", x, y) = IF x % 2 = 0 /\ y % 2 = 0 THEN 0 ELSE 1
  <2>1. CASE x % 2 = 0
    BY <2>1, <1>2 DEF JoinBit
  <2>2. CASE x % 2 = 1
    BY <2>2, <1>2 DEF JoinBit
  <2> QED BY <1>1, <2>1, <2>2
<1>5. ASSUME NEW j \in {0, 1},
             signed => q + r + j \in -Half..(Half - 1),
             ~signed => q + r + j \in 0..(M - 1)
      PROVE  Value(Add(Add(Shr1(x, signed), Shr1(y, signed)), j), signed) = q + r + j
  <2>1. CASE signed
    <3>1. Wrap(q) \in Word /\ Wrap(r) \in Word
      BY <1>1, <1>2, <2>1, WrapFacts, HalfAssumption DEF M
    <3>2. Add(Wrap(q), Wrap(r)) \in 0..(M - 1)
      BY <3>1, SignedSum DEF Word
    <3>3. \/ Add(Wrap(q), Wrap(r)) = q + r
          \/ Add(Wrap(q), Wrap(r)) = q + r + M
          \/ Add(Wrap(q), Wrap(r)) = q + r + 2 * M
      BY <1>1, <1>2, <2>1, HalfAssumption DEF Add, Wrap, M
    <3>4. QED
      BY <1>1, <1>2, <1>5, <2>1, <3>2, <3>3, HalfAssumption
      DEF Add, Wrap, Value, M
  <2>2. CASE ~signed
    <3>1. Wrap(q) = q /\ Wrap(r) = r
      BY <1>1, <1>2, <2>2, HalfAssumption DEF Wrap, M
    <3>2. QED
      BY <1>1, <1>2, <1>5, <2>2, <3>1, HalfAssumption DEF Add, Wrap, Value, M
  <2> QED BY <2>1, <2>2
<1>6. ASSUME NEW join \in {"and", "or"}
      PROVE  Value(Hadd(x, y, signed, join), signed) = q + r + JoinBit(join, x, y)
  <2>1. JoinBit(join, x, y) \in {0, 1}
    BY <1>4
  <2>2. /\ signed => q + r + JoinBit(join, x, y) \in -Half..(Half - 1)
        /\ ~signed => q + r + JoinBit(join, x, y) \in 0..(M - 1)
    <3>1. /\ JoinBit(join, x, y) = 1 => x % 2 = 1 \/ y % 2 = 1
          /\ JoinBit(join, x, y) = 0 => x % 2 = 0 \/ y % 2 = 0
      BY <1>4, <1>1, <1>2
    <3> QED BY <1>1, <1>2, <1>3, <2>1, <3>1, HalfAssumption DEF M
  <2> QED BY <1>5, <2>1, <2>2 DEF Hadd
<1>7. Value(Hadd(x, y, signed, "and"), signed) = q + r + JoinBit("and", x, y)
  BY <1>6
<1>8. Value(Hadd(x, y, signed, "or"), signed) = q + r + JoinBit("or", x, y)
  BY <1>6
<1> QED BY <1>1, <1>2, <1>4, <1>7, <1>8 DEF HalfOf

---------------------------------------------------------------------------
\* Saturated sums and differences.
LEMMA NarrowLemma ==
    ASSUME NEW x \in Word, NEW y \in Word, NEW add \in BOOLEAN
    PROVE  Nearest(Signed(AddSubSatNarrow(x, y, add)),
                   IF add THEN Signed(x) + Signed(y) ELSE Signed(x) - Signed(y),
                   -Half, MaxWord)
<1> DEFINE n == IF add THEN Signed(x) + Signed(y) ELSE Signed(x) - Signed(y)
<1>1. n \in Int
  BY HalfAssumption DEF Word, Value, Signed, M
<1>2. AddSubSatNarrow(x, y, add) = Wrap(Clamp(n))
  BY DEF AddSubSatNarrow
<1> HIDE DEF n
<1>3. Clamp(n) \in -Half..(Half - 1)
  BY <1>1, HalfAssumption DEF Clamp, MaxWord
<1>4. Signed(Wrap(Clamp(n))) = Clamp(n)
  BY <1>3, WrapFacts, HalfAssumption
<1>5. Nearest(Clamp(n), n, -Half, MaxWord)
  BY <1>1, HalfAssumption DEF Clamp, Nearest, MaxWord
<1> QED BY <1>2, <1>4, <1>5 DEF n

\* The saturated sum and difference by the overflow tests of the wide forms.
LEMMA WideLemma ==
    ASSUME NEW x \in Word, NEW y \in Word, NEW add \in BOOLEAN
    PROVE  Nearest(Signed(AddSubSatWide(x, y, add)),
                   IF add THEN Signed(x) + Signed(y) ELSE Signed(x) - Signed(y),
                   -Half, MaxWord)
<1>1. /\ Signed(x) \in -Half..(Half - 1)
      /\ Signed(y) \in -Half..(Half - 1)
      /\ Signed(MinWord) = -Half
      /\ Signed(MaxWord) = MaxWord
      /\ MaxWord = Half - 1
      /\ M = 2 * Half
  BY HalfAssumption DEF Word, Value, Signed, MinWord, MaxWord, M
<1>2. CASE add
  BY <1>1, <1>2, SignedSum, HalfAssumption DEF AddSubSatWide, Nearest
<1>3. CASE ~add
  BY <1>1, <1>3, SignedDifference, HalfAssumption DEF AddSubSatWide, Nearest
<1> QED BY <1>2, <1>3

\* The saturated sum and difference of unsigned words, by carry and borrow.
LEMMA UnsignedLemma ==
    ASSUME NEW x \in Word, NEW y \in Word, NEW add \in BOOLEAN
    PROVE  Nearest(AddSubSatUnsigned(x, y, add), IF add THEN x + y ELSE x - y,
                   0, AllOnes)
BY HalfAssumption
DEF Word, AddSubSatUnsigned, AddCarry, SubBorrow, Add, Sub, Wrap, Nearest, AllOnes, M

---------------------------------------------------------------------------
\* Comparisons.
LEMMA CompareLemma ==
    ASSUME NEW x \in Word, NEW y \in Word
    PROVE  LET less == Signed(x) < Signed(y)
               d == Signed(x) - Signed(y)
               fits(n) == n \in -Half..MaxWord
           IN  /\ (Compare("sge", x, y) = ~less) <=> fits(d)
               /\ (Compare("slt", x, y) = less) <=> fits(-d - 1)
               /\ (Compare("sgt", x, y) = (Signed(y) < Signed(x))) <=> fits(d - 1)
               /\ (Compare("sle", x, y) = (Signed(x) <= Signed(y))) <=> fits(-d)
BY HalfAssumption DEF Word, Compare, Sub, Wrap, Value, Signed, MaxWord, M

\* max and min of an unsigned word and a signed one.
LEMMA MixedLemma ==
    ASSUME NEW x \in Word, NEW y \in Word
    PROVE  /\ MixedMax(x, y) = IF x > Signed(y) THEN x ELSE y
           /\ MixedMin(x, y) = IF x < Signed(y) THEN x
                               ELSE IF Signed(y) < 0 THEN 0 ELSE y
BY HalfAssumption DEF Word, MixedMax, MixedMin, Value, Signed, M

---------------------------------------------------------------------------
\* The operands of every call are words.
LEMMA OperandsAreWords == Spec => []OperandsOK
<1>1. Init => OperandsOK
  BY HalfAssumption, ThirdAssumption DEF Init, OperandsOK, Word, M
<1>2. OperandsOK /\ [Next]_vars => OperandsOK'
  BY DEF OperandsOK, Next, First, Second, Last, vars
<1> QED BY <1>1, <1>2, PTL DEF Spec

\* abs_diff, hadd and rhadd are exact for words of every width, and the comparisons
\* of -hack-scf are right where the differences they take are.
THEOREM ShortFormsAreExact == Spec => []ShortFormsExact
<1>1. OperandsOK => DistanceExact
  BY DistanceLemma DEF OperandsOK, DistanceExact
<1>2. OperandsOK => AverageExact
  BY AverageLemma DEF OperandsOK, AverageExact
<1>3. OperandsOK => ComparesDifferences
  BY CompareLemma, MixedLemma DEF OperandsOK, ComparesDifferences
<1> QED BY <1>1, <1>2, <1>3, OperandsAreWords, PTL DEF ShortFormsExact

\* add_sat and sub_sat saturate for words of every width, computed in any of the
\* three ways.
THEOREM SumsAreSaturated == Spec => []SumsSaturate
<1>1. OperandsOK => SumsSaturate
  BY NarrowLemma, WideLemma, UnsignedLemma DEF OperandsOK, SumsSaturate
<1> QED BY <1>1, OperandsAreWords, PTL

---------------------------------------------------------------------------
(* Numbers. *)

\* A set of numbers, each of which has a smaller one, is empty.
LEMMA NoLeast ==
    ASSUME NEW S, S \subseteq Nat, \A n \in S : \E m \in S : m < n
    PROVE  S = {}
<1> SUFFICES ASSUME S # {} PROVE FALSE
  OBVIOUS
<1> DEFINE R == {ss \in Nat \X Nat : ss[1] < ss[2]}
<1>1. R = OpToRel(<, Nat)
  BY DEF OpToRel
<1>2. IsWellFoundedOn(R, Nat)
  BY <1>1, NatLessThanWellFounded
<1> HIDE DEF R
<1>3. PICK n \in S : \A m \in S : <<m, n>> \notin R
  BY <1>2, WFMin
<1>4. \A m \in S : ~(m < n)
  BY <1>3 DEF R
<1> QED BY <1>4

\* A set of numbers that has a number's predecessor whenever it has the number, but
\* not zero, is empty.
LEMMA NoFirst ==
    ASSUME NEW S, S \subseteq Nat, 0 \notin S, \A n \in Nat : n + 1 \in S => n \in S
    PROVE  S = {}
<1>1. ASSUME NEW n \in S PROVE n - 1 \in S /\ n - 1 < n
  <2>1. n # 0 /\ n \in Nat
    OBVIOUS
  <2>2. n - 1 \in Nat /\ (n - 1) + 1 = n
    BY <2>1
  <2> QED BY <2>2
<1>2. \A n \in S : \E m \in S : m < n
  BY <1>1
<1> QED BY <1>2, NoLeast

\* Quotient and remainder, and that there is only one of each.
LEMMA DivFacts ==
    ASSUME NEW n \in Int, NEW d \in Nat \ {0}
    PROVE  /\ n \div d \in Int /\ n % d \in 0..(d - 1)
           /\ n = (n \div d) * d + (n % d)
           /\ n \in Nat => n \div d \in Nat
<1>1. n \div d \in Int /\ n % d \in 0..(d - 1) /\ n = (n \div d) * d + (n % d)
  BY SMTT(20)
<1>2. ASSUME n \in Nat PROVE n \div d \in Nat
  BY <1>2, SMTT(20)
<1> QED BY <1>1, <1>2

\* Of two different quotients, the smaller one's interval ends before the larger one's.
LEMMA Below ==
    ASSUME NEW p \in Int, NEW q \in Int, NEW d \in Nat \ {0}, p < q
    PROVE  p * d + d <= q * d
<1>1. PICK e \in Nat : q = p + 1 + e
  <2>1. q - p - 1 \in Nat /\ q = p + 1 + (q - p - 1)
    OBVIOUS
  <2> QED BY <2>1
<1>2. e * d \in Nat
  OBVIOUS
<1>3. q * d = p * d + d + e * d
  BY <1>1
<1> QED BY <1>2, <1>3

\* Quotient and remainder are the only pair that puts the number together.
LEMMA DivUnique ==
    ASSUME NEW n \in Int, NEW d \in Nat \ {0}, NEW q \in Int, NEW r \in 0..(d - 1),
           n = q * d + r
    PROVE  n \div d = q /\ n % d = r
<1>1. PICK p \in Int : p = n \div d
  BY DivFacts
<1>2. PICK s \in 0..(d - 1) : s = n % d
  BY DivFacts
<1>3. n = p * d + s
  BY <1>1, <1>2, DivFacts
<1>4. ~(p < q)
  <2> SUFFICES ASSUME p < q PROVE FALSE
    OBVIOUS
  <2>1. p * d + d <= q * d
    BY Below
  <2>2. p * d \in Int /\ q * d \in Int
    OBVIOUS
  <2> QED BY <2>1, <2>2, <1>3
<1>5. ~(q < p)
  <2> SUFFICES ASSUME q < p PROVE FALSE
    OBVIOUS
  <2>1. q * d + d <= p * d
    BY Below
  <2>2. p * d \in Int /\ q * d \in Int
    OBVIOUS
  <2> QED BY <2>1, <2>2, <1>3
<1>6. p = q
  BY <1>4, <1>5
<1>7. s = r
  <2>1. p * d \in Int
    OBVIOUS
  <2> QED BY <2>1, <1>3, <1>6
<1> QED BY <1>1, <1>2, <1>6, <1>7

---------------------------------------------------------------------------
(* Powers of two. *)

\* The recursive function Pow2 is what its definition says, at every number: a set
\* of numbers without such a function has no least member.
LEMMA PowFacts ==
    /\ Pow2[0] = 1
    /\ \A n \in Nat : /\ Pow2[n] \in Nat \ {0}
                      /\ Pow2[n + 1] = 2 * Pow2[n]
<1> DEFINE IsPow(e, m) == e = [n \in 0..m |-> IF n = 0 THEN 1 ELSE 2 * e[n - 1]]
           Missing == {m \in Nat : ~\E e : IsPow(e, m)}
<1>1. Missing = {}
  <2>1. 0 \notin Missing
    <3>1. IsPow([n \in 0..0 |-> 1], 0)
      OBVIOUS
    <3> HIDE DEF IsPow
    <3> QED BY <3>1
  <2>2. ASSUME NEW m \in Nat, m \notin Missing PROVE m + 1 \notin Missing
    <3>1. PICK e : IsPow(e, m)
      BY <2>2
    <3>2. PICK g : g = [n \in 0..(m + 1) |-> IF n = 0 THEN 1 ELSE 2 * e[n - 1]]
      OBVIOUS
    <3>3. \A n \in 0..m : g[n] = e[n]
      BY <3>1, <3>2
    <3>4. \A n \in 0..(m + 1) : g[n] = IF n = 0 THEN 1 ELSE 2 * g[n - 1]
      <4> SUFFICES ASSUME NEW n \in 0..(m + 1), n # 0 PROVE g[n] = 2 * g[n - 1]
        BY <3>2
      <4>1. n - 1 \in 0..m
        OBVIOUS
      <4> QED BY <4>1, <3>2, <3>3
    <3>5. g = [n \in 0..(m + 1) |-> IF n = 0 THEN 1 ELSE 2 * g[n - 1]]
      BY <3>2, <3>4
    <3>6. IsPow(g, m + 1)
      BY <3>5
    <3> HIDE DEF IsPow
    <3> QED BY <3>6
  <2>3. Missing \subseteq Nat
    OBVIOUS
  <2> HIDE DEF Missing
  <2> QED BY <2>1, <2>2, <2>3, NoFirst
<1> DEFINE upto(m) == CHOOSE e : IsPow(e, m)
<1>2. \A m \in Nat : IsPow(upto(m), m)
  <2> HIDE DEF IsPow
  <2> QED BY <1>1
<1> HIDE DEF upto
<1>3. ASSUME NEW m \in Nat PROVE upto(m + 1)[m] = upto(m)[m]
  <2> DEFINE Odd == {n \in Nat : n <= m /\ upto(m + 1)[n] # upto(m)[n]}
  <2>1. Odd = {}
    <3>1. \A n \in 0..m : /\ upto(m + 1)[n] = IF n = 0 THEN 1 ELSE 2 * upto(m + 1)[n - 1]
                          /\ upto(m)[n] = IF n = 0 THEN 1 ELSE 2 * upto(m)[n - 1]
      <4>1. IsPow(upto(m + 1), m + 1) /\ IsPow(upto(m), m)
        <5>1. m + 1 \in Nat
          OBVIOUS
        <5> HIDE DEF IsPow
        <5> QED BY <5>1, <1>2
      <4> QED BY <4>1
    <3>2. 0 \notin Odd
      BY <3>1
    <3>3. ASSUME NEW n \in Nat, n + 1 \in Odd PROVE n \in Odd
      <4>1. n + 1 \in 0..m /\ (n + 1) - 1 = n /\ n + 1 # 0
        BY <3>3
      <4>2. upto(m + 1)[n + 1] = 2 * upto(m + 1)[n] /\ upto(m)[n + 1] = 2 * upto(m)[n]
        BY <4>1, <3>1
      <4> QED BY <4>1, <4>2, <3>3
    <3>4. Odd \subseteq Nat
      OBVIOUS
    <3> HIDE DEF Odd
    <3> QED BY <3>2, <3>3, <3>4, NoFirst
  <2> QED BY <2>1
<1> DEFINE IsAll(g) == g = [n \in Nat |-> IF n = 0 THEN 1 ELSE 2 * g[n - 1]]
<1>4. IsAll(Pow2)
  <2>1. PICK g : g = [n \in Nat |-> upto(n)[n]]
    OBVIOUS
  <2>2. \A n \in Nat : g[n] = IF n = 0 THEN 1 ELSE 2 * g[n - 1]
    <3> SUFFICES ASSUME NEW n \in Nat PROVE g[n] = IF n = 0 THEN 1 ELSE 2 * g[n - 1]
      OBVIOUS
    <3>1. g[n] = IF n = 0 THEN 1 ELSE 2 * upto(n)[n - 1]
      <4>1. IsPow(upto(n), n)
        BY <1>2
      <4> QED BY <4>1, <2>1
    <3>2. ASSUME n # 0 PROVE upto(n)[n - 1] = g[n - 1]
      <4>1. PICK m \in Nat : n = m + 1
        <5>1. n - 1 \in Nat /\ n = (n - 1) + 1
          BY <3>2
        <5> QED BY <5>1
      <4>2. upto(m + 1)[m] = upto(m)[m] /\ n - 1 = m
        BY <4>1, <1>3
      <4> QED BY <4>1, <4>2, <2>1
    <3> QED BY <3>1, <3>2
  <2>3. g = [n \in Nat |-> IF n = 0 THEN 1 ELSE 2 * g[n - 1]]
    BY <2>1, <2>2
  <2>4. IsAll(g)
    BY <2>3
  <2>5. \E h : IsAll(h)
    BY <2>4
  <2> QED BY <2>5 DEF Pow2
<1>5. \A n \in Nat : Pow2[n] = IF n = 0 THEN 1 ELSE 2 * Pow2[n - 1]
  <2>1. PICK p : p = Pow2
    OBVIOUS
  <2>2. p = [n \in Nat |-> IF n = 0 THEN 1 ELSE 2 * p[n - 1]]
    BY <2>1, <1>4
  <2>3. \A n \in Nat : p[n] = IF n = 0 THEN 1 ELSE 2 * p[n - 1]
    BY <2>2
  <2> QED BY <2>1, <2>3
<1>6. \A n \in Nat : Pow2[n + 1] = 2 * Pow2[n]
  <2> SUFFICES ASSUME NEW n \in Nat PROVE Pow2[n + 1] = 2 * Pow2[n]
    OBVIOUS
  <2>1. n + 1 \in Nat /\ n + 1 # 0 /\ (n + 1) - 1 = n
    OBVIOUS
  <2> QED BY <2>1, <1>5
<1>7. Pow2[0] = 1
  BY <1>5
<1> DEFINE Odd == {n \in Nat : Pow2[n] \notin Nat \ {0}}
<1>8. Odd = {}
  <2>1. 0 \notin Odd
    BY <1>7
  <2>2. ASSUME NEW n \in Nat, n + 1 \in Odd PROVE n \in Odd
    BY <2>2, <1>6
  <2>3. Odd \subseteq Nat
    OBVIOUS
  <2> HIDE DEF Odd
  <2> QED BY <2>1, <2>2, <2>3, NoFirst
<1>9. \A n \in Nat : Pow2[n] \in Nat \ {0}
  BY <1>8
<1> QED BY <1>6, <1>7, <1>9

\* The power of a sum is the product of the powers.
LEMMA PowSum ==
    ASSUME NEW m \in Nat, NEW n \in Nat
    PROVE  Pow2[m + n] = Pow2[m] * Pow2[n]
<1> DEFINE Odd == {i \in Nat : Pow2[m + i] # Pow2[m] * Pow2[i]}
<1>1. Odd = {}
  <2>1. 0 \notin Odd
    BY PowFacts
  <2>2. ASSUME NEW i \in Nat, Pow2[m + i] = Pow2[m] * Pow2[i]
        PROVE  Pow2[m + (i + 1)] = Pow2[m] * Pow2[i + 1]
    <3>1. PICK x \in Nat : x = Pow2[m]
      BY PowFacts
    <3>2. PICK y \in Nat : y = Pow2[i]
      BY PowFacts
    <3>3. m + i \in Nat /\ m + (i + 1) = (m + i) + 1
      OBVIOUS
    <3>4. Pow2[m + (i + 1)] = 2 * Pow2[m + i] /\ Pow2[i + 1] = 2 * y
      BY <3>2, <3>3, PowFacts
    <3>5. 2 * (x * y) = x * (2 * y)
      OBVIOUS
    <3> QED BY <3>1, <3>2, <3>4, <3>5, <2>2
  <2>3. Odd \subseteq Nat /\ \A i \in Nat : i + 1 \in Odd => Pow2[m + (i + 1)] # Pow2[m] * Pow2[i + 1]
    OBVIOUS
  <2>4. \A i \in Nat : i \notin Odd => Pow2[m + i] = Pow2[m] * Pow2[i]
    OBVIOUS
  <2> HIDE DEF Odd
  <2> QED BY <2>1, <2>2, <2>3, <2>4, NoFirst
<1> QED BY <1>1

\* A greater power is a multiple.
LEMMA PowLess ==
    ASSUME NEW m \in Nat, NEW n \in Nat, m <= n
    PROVE  /\ n - m \in Nat /\ Pow2[n] = Pow2[n - m] * Pow2[m]
           /\ Pow2[m] <= Pow2[n]
<1>1. n - m \in Nat /\ (n - m) + m = n
  OBVIOUS
<1>2. Pow2[n] = Pow2[n - m] * Pow2[m]
  <2>1. Pow2[(n - m) + m] = Pow2[n - m] * Pow2[m]
    BY <1>1, PowSum
  <2> QED BY <2>1, <1>1
<1>3. PICK x \in Nat \ {0} : x = Pow2[n - m]
  BY <1>1, PowFacts
<1>4. PICK y \in Nat \ {0} : y = Pow2[m]
  BY PowFacts
<1>5. 0 * y + y <= x * y
  BY Below
<1>6. y <= x * y
  BY <1>5
<1> QED BY <1>1, <1>2, <1>3, <1>4, <1>6

\* A word is below the power of its width.
LEMMA WidthFacts ==
    /\ M = Pow2[W] /\ M \in Nat \ {0} /\ W \in Nat /\ Half \in Nat \ {0}
    /\ S2 \in Nat /\ W = S2 + S2 /\ S2 >= 2
    /\ Root \in Nat \ {0} /\ M = Root * Root /\ Root >= 4
<1>1. W - 1 \in Nat /\ (W - 1) + 1 = W /\ W \in Nat
  BY WidthAssumption
<1>2. Half = Pow2[W - 1] /\ Half \in Nat \ {0}
  BY WidthAssumption, HalfAssumption
<1>3. Pow2[(W - 1) + 1] = 2 * Pow2[W - 1]
  BY <1>1, PowFacts
<1>4. M = Pow2[W] /\ M \in Nat \ {0}
  BY <1>1, <1>2, <1>3 DEF M
<1>5. S2 \in Nat /\ W = S2 + S2 /\ S2 >= 2
  BY WidthAssumption, BytesAssumption DEF S2
<1>6. Root \in Nat \ {0} /\ M = Root * Root
  <2>1. Pow2[S2 + S2] = Pow2[S2] * Pow2[S2]
    BY <1>5, PowSum
  <2> QED BY <2>1, <1>4, <1>5, PowFacts DEF Root
<1>7. Root >= 4
  <2>1. Pow2[2] <= Pow2[S2]
    BY <1>5, PowLess
  <2>2. Pow2[0 + 1] = 2 /\ Pow2[1 + 1] = 2 * Pow2[1]
    BY PowFacts
  <2>3. Pow2[2] = 4
    BY <2>2
  <2> QED BY <2>1, <2>3, <1>6 DEF Root
<1> QED BY <1>1, <1>2, <1>4, <1>5, <1>6, <1>7

---------------------------------------------------------------------------
(* Bits. *)

\* A quotient's quotient is the quotient by the product.
LEMMA DivDiv ==
    ASSUME NEW n \in Nat, NEW a1 \in Nat \ {0}, NEW b1 \in Nat \ {0}
    PROVE  (n \div a1) \div b1 = n \div (a1 * b1)
<1>1. PICK q \in Nat : q = n \div a1
  BY DivFacts
<1>2. PICK r \in 0..(a1 - 1) : r = n % a1
  BY DivFacts
<1>3. n = q * a1 + r
  BY <1>1, <1>2, DivFacts
<1>4. PICK p \in Nat : p = q \div b1
  BY DivFacts
<1>5. PICK s \in 0..(b1 - 1) : s = q % b1
  BY DivFacts
<1>6. q = p * b1 + s
  BY <1>4, <1>5, DivFacts
<1>7. n = p * (a1 * b1) + (s * a1 + r)
  <2>1. q * a1 = (p * b1) * a1 + s * a1
    BY <1>6
  <2>2. (p * b1) * a1 = p * (a1 * b1)
    OBVIOUS
  <2>3. (p * b1) * a1 \in Nat /\ s * a1 \in Nat
    OBVIOUS
  <2> QED BY <2>1, <2>2, <2>3, <1>3
<1>8. s * a1 + r \in 0..(a1 * b1 - 1) /\ a1 * b1 \in Nat \ {0}
  <2>1. s * a1 + a1 <= b1 * a1
    BY Below
  <2>2. s * a1 \in Nat /\ a1 * b1 \in Nat /\ b1 * a1 = a1 * b1
    OBVIOUS
  <2> QED BY <2>1, <2>2
<1>9. n \div (a1 * b1) = p
  <2>1. PICK d \in Nat \ {0} : d = a1 * b1
    BY <1>8
  <2>2. PICK t \in 0..(d - 1) : t = s * a1 + r
    BY <2>1, <1>8
  <2>3. n = p * d + t
    BY <2>1, <2>2, <1>7
  <2> QED BY <2>1, <2>3, DivUnique
<1> QED BY <1>1, <1>4, <1>9

\* A bit is zero or one, and divides the remainder by the next power.
LEMMA BitSplits ==
    ASSUME NEW x \in Nat, NEW n \in Nat
    PROVE  /\ Bit(x, n) \in {0, 1}
           /\ x % Pow2[n + 1] = (x % Pow2[n]) + (IF Bit(x, n) = 1 THEN Pow2[n] ELSE 0)
<1>1. PICK p \in Nat \ {0} : p = Pow2[n]
  BY PowFacts
<1>2. Pow2[n + 1] = 2 * p
  BY <1>1, PowFacts
<1>3. PICK q \in Nat : q = x \div p
  BY DivFacts
<1>4. PICK r \in 0..(p - 1) : r = x % p
  BY DivFacts
<1>5. x = q * p + r
  BY <1>3, <1>4, DivFacts
<1>6. PICK h \in Nat : h = q \div 2
  BY DivFacts
<1>7. PICK e \in 0..(2 - 1) : e = q % 2
  BY DivFacts
<1>8. q = h * 2 + e
  BY <1>6, <1>7, DivFacts
<1>9. Bit(x, n) = e /\ e \in {0, 1}
  BY <1>1, <1>3, <1>7 DEF Bit
<1>10. x % (2 * p) = e * p + r
  <2>1. q * p = h * (2 * p) + e * p
    BY <1>8
  <2>2. q * p \in Nat /\ h * (2 * p) \in Nat /\ 2 * p \in Nat \ {0}
    OBVIOUS
  <2>3. e * p \in {0, p}
    BY <1>9
  <2>4. PICK t \in 0..(2 * p - 1) : t = e * p + r
    BY <2>3
  <2>5. x = h * (2 * p) + t
    BY <2>1, <2>2, <2>3, <2>4, <1>5
  <2>6. PICK d \in Nat \ {0} : d = 2 * p
    BY <2>2
  <2>7. x = h * d + t /\ t \in 0..(d - 1)
    BY <2>4, <2>5, <2>6
  <2>8. x % d = t
    BY <2>7, DivUnique
  <2> QED BY <2>4, <2>6, <2>8
<1>11. e * p = IF e = 1 THEN p ELSE 0
  BY <1>9
<1> QED BY <1>1, <1>2, <1>4, <1>9, <1>10, <1>11

\* The bits of a quotient by a power are those above.
LEMMA BitHigh ==
    ASSUME NEW x \in Nat, NEW k \in Nat, NEW i \in Nat
    PROVE  Bit(x \div Pow2[k], i) = Bit(x, k + i)
<1>1. Pow2[k] \in Nat \ {0} /\ Pow2[i] \in Nat \ {0}
  BY PowFacts
<1>2. (x \div Pow2[k]) \div Pow2[i] = x \div (Pow2[k] * Pow2[i])
  BY <1>1, DivDiv, ZenonT(30)
<1> QED BY <1>2, PowSum DEF Bit

\* A number has no bits at or above a power it is below.
LEMMA NoBits ==
    ASSUME NEW k \in Nat, NEW x \in Nat, x < Pow2[k], NEW i \in Nat, k <= i
    PROVE  Bit(x, i) = 0
<1>1. PICK p \in Nat \ {0} : p = Pow2[i]
  BY PowFacts
<1>2. x \in 0..(p - 1)
  <2>1. Pow2[k] <= p /\ Pow2[k] \in Nat
    BY <1>1, PowFacts, PowLess
  <2> QED BY <2>1, <1>1
<1>3. x = 0 * p + x
  OBVIOUS
<1>4. x \div p = 0
  BY <1>2, <1>3, DivUnique
<1> QED BY <1>1, <1>4 DEF Bit

\* The bits of a remainder by a power are those below it.
LEMMA BitLow ==
    ASSUME NEW x \in Nat, NEW k \in Nat, NEW i \in Nat
    PROVE  Bit(x % Pow2[k], i) = IF i < k THEN Bit(x, i) ELSE 0
<1>1. PICK p \in Nat \ {0} : p = Pow2[k]
  BY PowFacts
<1>2. PICK r \in 0..(p - 1) : r = x % p
  BY DivFacts
<1>3. CASE ~(i < k)
  <2>1. Bit(r, i) = 0
    BY <1>1, <1>2, <1>3, NoBits
  <2> QED BY <2>1, <1>1, <1>2, <1>3
<1>4. CASE i < k
  <2>1. PICK j \in Nat : k = i + 1 + j
    <3>1. k - i - 1 \in Nat /\ k = i + 1 + (k - i - 1)
      BY <1>4
    <3> QED BY <3>1
  <2>2. PICK e \in Nat \ {0} : e = Pow2[i]
    BY PowFacts
  <2>3. PICK g \in Nat \ {0} : g = Pow2[j]
    BY <2>1, PowFacts
  <2>4. p = (2 * g) * e
    <3>1. p = Pow2[(i + 1) + j]
      BY <1>1, <2>1
    <3>2. Pow2[(i + 1) + j] = Pow2[i + 1] * Pow2[j]
      BY <2>1, PowSum
    <3>3. Pow2[i + 1] = 2 * e
      BY <2>2, PowFacts
    <3>4. (2 * e) * g = (2 * g) * e
      OBVIOUS
    <3> QED BY <3>1, <3>2, <3>3, <3>4, <2>3
  <2>5. PICK q \in Nat : q = x \div p
    BY DivFacts
  <2>6. x = q * p + r
    BY <1>2, <2>5, DivFacts
  <2>7. PICK s \in Nat : s = r \div e
    BY DivFacts
  <2>8. PICK t \in 0..(e - 1) : t = r % e
    BY DivFacts
  <2>9. r = s * e + t
    BY <2>7, <2>8, DivFacts
  <2>10. PICK y \in Nat : y = 2 * (q * g) + s
    OBVIOUS
  <2>11. x = y * e + t
    <3>1. q * p = (2 * (q * g)) * e
      BY <2>4
    <3>2. y * e = (2 * (q * g)) * e + s * e
      BY <2>10
    <3>3. (2 * (q * g)) * e \in Nat /\ s * e \in Nat
      OBVIOUS
    <3> QED BY <3>1, <3>2, <3>3, <2>6, <2>9
  <2>12. x \div e = y
    BY <2>11, DivUnique
  <2>13. y % 2 = s % 2
    <3>1. PICK h \in Nat : h = q * g
      OBVIOUS
    <3> QED BY <3>1, <2>10, SMTT(20)
  <2> QED BY <1>1, <1>2, <1>4, <2>2, <2>7, <2>12, <2>13 DEF Bit
<1> QED BY <1>3, <1>4

\* The bits of a multiple of a power are those of the factor, moved.
LEMMA BitMoved ==
    ASSUME NEW x \in Nat, NEW k \in Nat, NEW i \in Nat
    PROVE  /\ x * Pow2[k] \in Nat
           /\ Bit(x * Pow2[k], i) = IF i < k THEN 0 ELSE Bit(x, i - k)
<1>1. PICK p \in Nat \ {0} : p = Pow2[k]
  BY PowFacts
<1>2. PICK z \in Nat : z = x * p
  OBVIOUS
<1>3. z = x * p + 0 /\ 0 \in 0..(p - 1)
  BY <1>2
<1>4. z \div p = x /\ z % p = 0
  BY <1>3, DivUnique
<1>5. CASE i < k
  <2>1. Bit(0, i) = 0
    <3>1. 0 < Pow2[0]
      BY PowFacts
    <3> QED BY <3>1, NoBits
  <2>2. Bit(z % p, i) = Bit(z, i)
    BY <1>1, <1>5, BitLow
  <2> QED BY <2>1, <2>2, <1>1, <1>2, <1>4, <1>5
<1>6. CASE ~(i < k)
  <2>1. PICK j \in Nat : j = i - k
    BY <1>6
  <2>2. Bit(z \div p, j) = Bit(z, k + j)
    BY <1>1, BitHigh
  <2>3. k + j = i
    BY <2>1
  <2> QED BY <2>1, <2>2, <2>3, <1>1, <1>2, <1>4, <1>6
<1> QED BY <1>1, <1>2, <1>5, <1>6

---------------------------------------------------------------------------
(* Words and their bits. *)

\* The partial sums of OfBits.
LEMMA BitSums ==
    ASSUME NEW S
    PROVE  \E s : /\ OfBits(S) = s[W]
                  /\ s[0] = 0
                  /\ \A n \in 0..(W - 1) :
                        s[n + 1] = s[n] + (IF n \in S THEN Pow2[n] ELSE 0)
<1> DEFINE Term(n) == IF n \in S THEN Pow2[n] ELSE 0
           IsSum(e, m) == e = [n \in 0..m |-> IF n = 0 THEN 0 ELSE e[n - 1] + Term(n - 1)]
           Missing == {m \in Nat : ~\E e : IsSum(e, m)}
<1> HIDE DEF Term
<1>1. Missing = {}
  <2>1. 0 \notin Missing
    <3>1. IsSum([n \in 0..0 |-> 0], 0)
      OBVIOUS
    <3> HIDE DEF IsSum
    <3> QED BY <3>1
  <2>2. ASSUME NEW m \in Nat, m \notin Missing PROVE m + 1 \notin Missing
    <3>1. PICK e : IsSum(e, m)
      BY <2>2
    <3>2. PICK g : g = [n \in 0..(m + 1) |-> IF n = 0 THEN 0 ELSE e[n - 1] + Term(n - 1)]
      OBVIOUS
    <3>3. \A n \in 0..m : g[n] = e[n]
      BY <3>1, <3>2
    <3>4. \A n \in 0..(m + 1) : g[n] = IF n = 0 THEN 0 ELSE g[n - 1] + Term(n - 1)
      <4> SUFFICES ASSUME NEW n \in 0..(m + 1), n # 0 PROVE g[n] = g[n - 1] + Term(n - 1)
        BY <3>2
      <4>1. n - 1 \in 0..m
        OBVIOUS
      <4> QED BY <4>1, <3>2, <3>3
    <3>5. g = [n \in 0..(m + 1) |-> IF n = 0 THEN 0 ELSE g[n - 1] + Term(n - 1)]
      BY <3>2, <3>4
    <3>6. IsSum(g, m + 1)
      BY <3>5
    <3> HIDE DEF IsSum
    <3> QED BY <3>6
  <2>3. Missing \subseteq Nat
    OBVIOUS
  <2> HIDE DEF Missing
  <2> QED BY <2>1, <2>2, <2>3, NoFirst
<1>2. \E e : IsSum(e, W)
  <2> HIDE DEF IsSum
  <2> QED BY <1>1, WidthFacts
<1>3. PICK s : s = CHOOSE e : IsSum(e, W)
  OBVIOUS
<1>4. IsSum(s, W)
  <2> HIDE DEF IsSum
  <2> QED BY <1>2, <1>3
<1>5. OfBits(S) = s[W]
  BY <1>3 DEF OfBits, Term
<1>6. \A n \in 0..W : s[n] = IF n = 0 THEN 0 ELSE s[n - 1] + Term(n - 1)
  BY <1>4
<1>7. s[0] = 0
  BY <1>6, WidthFacts
<1>8. ASSUME NEW n \in 0..(W - 1) PROVE s[n + 1] = s[n] + Term(n)
  <2>1. n + 1 \in 0..W /\ n + 1 # 0 /\ (n + 1) - 1 = n
    BY WidthFacts
  <2> QED BY <2>1, <1>6
<1> QED BY <1>5, <1>7, <1>8 DEF Term

\* A word is the number of its bits.
LEMMA OfBitsOf ==
    ASSUME NEW x \in Word, NEW S, \A i \in 0..(W - 1) : i \in S <=> Bit(x, i) = 1
    PROVE  OfBits(S) = x
<1>1. PICK s : /\ OfBits(S) = s[W]
               /\ s[0] = 0
               /\ \A n \in 0..(W - 1) :
                     s[n + 1] = s[n] + (IF n \in S THEN Pow2[n] ELSE 0)
  BY BitSums
<1>2. x \in Nat /\ x < Pow2[W]
  BY WidthFacts DEF Word
<1> DEFINE Odd == {n \in Nat : n <= W /\ s[n] # x % Pow2[n]}
<1>3. Odd = {}
  <2>1. 0 \notin Odd
    <3>1. x % 1 = 0
      BY <1>2, DivFacts
    <3> QED BY <3>1, <1>1, PowFacts
  <2>2. ASSUME NEW n \in Nat, n + 1 \in Odd PROVE n \in Odd
    <3>1. n \in 0..(W - 1) /\ n <= W /\ s[n + 1] # x % Pow2[n + 1]
      BY <2>2, WidthFacts
    <3>2. s[n + 1] = s[n] + (IF Bit(x, n) = 1 THEN Pow2[n] ELSE 0)
      BY <3>1, <1>1
    <3>3. x % Pow2[n + 1] = (x % Pow2[n]) + (IF Bit(x, n) = 1 THEN Pow2[n] ELSE 0)
      BY <1>2, BitSplits
    <3>4. s[n] # x % Pow2[n]
      BY <3>1, <3>2, <3>3
    <3> QED BY <3>1, <3>4
  <2>3. Odd \subseteq Nat
    OBVIOUS
  <2> HIDE DEF Odd
  <2> QED BY <2>1, <2>2, <2>3, NoFirst
<1>4. s[W] = x % Pow2[W]
  BY <1>3, WidthFacts
<1>5. x % Pow2[W] = x
  <2>1. x = 0 * Pow2[W] + x /\ Pow2[W] \in Nat \ {0} /\ x \in 0..(Pow2[W] - 1)
    BY <1>2, WidthFacts
  <2> QED BY <2>1, DivUnique
<1> QED BY <1>1, <1>4, <1>5

\* Words with the same bits are the same.
LEMMA SameBits ==
    ASSUME NEW x \in Word, NEW y \in Word, \A i \in 0..(W - 1) : Bit(x, i) = Bit(y, i)
    PROVE  x = y
<1> DEFINE S == {i \in 0..(W - 1) : Bit(x, i) = 1}
<1>1. OfBits(S) = x
  BY OfBitsOf
<1>2. OfBits(S) = y
  BY OfBitsOf
<1> QED BY <1>1, <1>2

\* The number of a set of bits is a word with these bits.
LEMMA BitsOfBits ==
    ASSUME NEW S
    PROVE  /\ OfBits(S) \in Word
           /\ \A i \in 0..(W - 1) : Bit(OfBits(S), i) = IF i \in S THEN 1 ELSE 0
<1>1. PICK s : /\ OfBits(S) = s[W]
               /\ s[0] = 0
               /\ \A n \in 0..(W - 1) :
                     s[n + 1] = s[n] + (IF n \in S THEN Pow2[n] ELSE 0)
  BY BitSums
\* Each partial sum is below its power.
<1> DEFINE Odd == {n \in Nat : n <= W /\ s[n] \notin 0..(Pow2[n] - 1)}
<1>2. Odd = {}
  <2>1. 0 \notin Odd
    BY <1>1, PowFacts
  <2>2. ASSUME NEW n \in Nat, n + 1 \in Odd PROVE n \in Odd
    <3>1. n \in 0..(W - 1) /\ n <= W /\ s[n + 1] \notin 0..(Pow2[n + 1] - 1)
      BY <2>2, WidthFacts
    <3>2. PICK p \in Nat \ {0} : p = Pow2[n]
      BY PowFacts
    <3>3. Pow2[n + 1] = 2 * p
      BY <3>2, PowFacts
    <3>4. s[n + 1] = s[n] + (IF n \in S THEN p ELSE 0)
      BY <3>1, <3>2, <1>1
    <3>5. s[n] \notin 0..(p - 1)
      BY <3>1, <3>3, <3>4
    <3> QED BY <3>1, <3>2, <3>5
  <2>3. Odd \subseteq Nat
    OBVIOUS
  <2> HIDE DEF Odd
  <2> QED BY <2>1, <2>2, <2>3, NoFirst
<1>3. \A n \in 0..W : s[n] \in 0..(Pow2[n] - 1)
  BY <1>2
<1>4. PICK x \in 0..(M - 1) : x = s[W]
  BY <1>3, WidthFacts
\* Each partial sum is the remainder of the last one by its power.
<1> DEFINE Wrong == {k \in Nat : k <= W /\ s[W - k] # x % Pow2[W - k]}
<1>5. Wrong = {}
  <2>1. 0 \notin Wrong
    <3>1. x = 0 * M + x /\ M \in Nat \ {0}
      BY WidthFacts
    <3>2. x % M = x
      BY <3>1, DivUnique
    <3> QED BY <3>2, <1>4, WidthFacts
  <2>2. ASSUME NEW k \in Nat, k + 1 \in Wrong PROVE k \in Wrong
    <3>1. PICK n \in 0..(W - 1) : n = W - (k + 1)
      BY <2>2, WidthFacts
    <3>2. n + 1 = W - k /\ k <= W /\ n \in 0..W
      BY <3>1, <2>2, WidthFacts
    <3>3. s[n] # x % Pow2[n]
      BY <2>2, <3>1
    <3>4. SUFFICES ASSUME s[n + 1] = x % Pow2[n + 1] PROVE FALSE
      BY <3>2
    <3>5. PICK p \in Nat \ {0} : p = Pow2[n]
      BY PowFacts
    <3>6. PICK y \in 0..(p - 1) : y = s[n]
      BY <1>3, <3>2, <3>5
    <3>7. PICK e \in Nat : x % Pow2[n + 1] = e * p + y
      <4>1. x % Pow2[n + 1] = y + (IF n \in S THEN p ELSE 0)
        BY <1>1, <3>4, <3>5, <3>6
      <4>2. CASE n \in S
        <5>1. x % Pow2[n + 1] = 1 * p + y
          BY <4>1, <4>2
        <5> QED BY <5>1
      <4>3. CASE n \notin S
        <5>1. x % Pow2[n + 1] = 0 * p + y
          BY <4>1, <4>3
        <5> QED BY <5>1
      <4> QED BY <4>2, <4>3
    <3>8. PICK d \in Nat \ {0} : d = Pow2[n + 1]
      BY <3>1, PowFacts
    <3>14. x \in Int /\ x \in Nat
      BY <1>4, WidthFacts
    <3>9. PICK q \in Nat : q = x \div d
      BY <3>14, DivFacts
    <3>10. x = q * d + (e * p + y)
      <4>1. x = (x \div d) * d + (x % d)
        BY <3>14, DivFacts
      <4> QED BY <4>1, <3>7, <3>8, <3>9
    <3>11. d = 2 * p
      BY <3>5, <3>8, PowFacts
    <3>12. x = (2 * q + e) * p + y
      BY <3>10, <3>11
    <3>13. x % p = y
      <4>1. PICK h \in Nat : h = 2 * q + e
        OBVIOUS
      <4>2. x = h * p + y
        BY <4>1, <3>12
      <4> QED BY <4>2, DivUnique
    <3> QED BY <3>3, <3>5, <3>6, <3>13
  <2>3. Wrong \subseteq Nat
    OBVIOUS
  <2> HIDE DEF Wrong
  <2> QED BY <2>1, <2>2, <2>3, NoFirst
<1>6. ASSUME NEW n \in 0..W PROVE s[n] = x % Pow2[n]
  <2>1. W - n \in Nat /\ W - n <= W /\ W - (W - n) = n
    BY WidthFacts
  <2> QED BY <2>1, <1>5
<1>7. ASSUME NEW i \in 0..(W - 1) PROVE Bit(x, i) = IF i \in S THEN 1 ELSE 0
  <2>1. i \in 0..W /\ i + 1 \in 0..W /\ i \in Nat
    BY WidthFacts
  <2>2. s[i + 1] = s[i] + (IF i \in S THEN Pow2[i] ELSE 0)
    BY <1>1
  <2>3. /\ Bit(x, i) \in {0, 1}
        /\ x % Pow2[i + 1] = (x % Pow2[i]) + (IF Bit(x, i) = 1 THEN Pow2[i] ELSE 0)
    BY <2>1, BitSplits
  <2>4. s[i + 1] = s[i] + (IF Bit(x, i) = 1 THEN Pow2[i] ELSE 0)
    BY <2>1, <2>3, <1>6
  <2>5. PICK p \in Nat \ {0} : p = Pow2[i]
    BY <2>1, PowFacts
  <2>6. s[i] \in Int
    BY <2>1, <2>5, <1>3
  <2>7. (IF Bit(x, i) = 1 THEN p ELSE 0) = (IF i \in S THEN p ELSE 0)
    BY <2>2, <2>4, <2>5, <2>6
  <2> QED BY <2>3, <2>5, <2>7
<1> QED BY <1>1, <1>4, <1>7 DEF Word

\* What is read of a word: its bits are zero or one, and zero above it.
LEMMA WordBits ==
    ASSUME NEW x \in Word
    PROVE  /\ x \in Nat /\ x \in Int /\ x < Pow2[W]
           /\ \A i \in Nat : Bit(x, i) \in {0, 1}
           /\ \A i \in Nat : i >= W => Bit(x, i) = 0
<1>1. x \in Nat /\ x \in Int /\ x < Pow2[W]
  BY WidthFacts DEF Word
<1>2. ASSUME NEW i \in Nat PROVE Bit(x, i) \in {0, 1}
  BY <1>1, BitSplits
<1>3. ASSUME NEW i \in Nat, i >= W PROVE Bit(x, i) = 0
  BY <1>1, <1>3, WidthFacts, NoBits
<1> QED BY <1>1, <1>2, <1>3

\* The bits of a word that is shifted to the left, ...
LEMMA ShlBits ==
    ASSUME NEW x \in Word, NEW n \in Nat
    PROVE  /\ Shl(x, n) \in Word
           /\ \A i \in 0..(W - 1) : Bit(Shl(x, n), i) = IF i < n THEN 0 ELSE Bit(x, i - n)
<1>1. PICK z \in Nat : z = x * Pow2[n]
  BY WordBits, BitMoved
<1>2. Shl(x, n) = z % M /\ M = Pow2[W]
  BY <1>1, WidthFacts DEF Shl
<1>3. Shl(x, n) \in Word
  <2>1. M \in Nat \ {0} /\ z \in Int
    BY WidthFacts
  <2>2. z % M \in 0..(M - 1)
    BY <2>1, DivFacts
  <2> QED BY <2>2, <1>2 DEF Word
<1>4. ASSUME NEW i \in 0..(W - 1)
      PROVE  Bit(Shl(x, n), i) = IF i < n THEN 0 ELSE Bit(x, i - n)
  <2>1. i \in Nat /\ i < W /\ W \in Nat
    BY WidthFacts
  <2>2. Bit(z % Pow2[W], i) = Bit(z, i)
    BY <2>1, BitLow
  <2>3. Bit(z, i) = IF i < n THEN 0 ELSE Bit(x, i - n)
    BY <1>1, <2>1, WordBits, BitMoved
  <2> QED BY <1>2, <2>2, <2>3
<1> QED BY <1>3, <1>4

\* ... and of one that is shifted to the right.
LEMMA LShrBits ==
    ASSUME NEW x \in Word, NEW n \in Nat
    PROVE  /\ LShr(x, n) \in Word /\ LShr(x, n) <= x
           /\ \A i \in Nat : Bit(LShr(x, n), i) = Bit(x, n + i)
<1>1. x \in Nat /\ x \in Int /\ x < M
  BY WordBits, WidthFacts
<1>2. PICK p \in Nat \ {0} : p = Pow2[n]
  BY PowFacts
<1>3. PICK q \in Nat : q = x \div p
  BY <1>1, DivFacts
<1>4. PICK r \in 0..(p - 1) : r = x % p
  BY <1>1, DivFacts
<1>5. x = q * p + r
  BY <1>1, <1>3, <1>4, DivFacts
<1>6. q <= q * p
  <2>1. PICK e \in Nat : p = e + 1
    <3>1. p - 1 \in Nat /\ p = (p - 1) + 1
      OBVIOUS
    <3> QED BY <3>1
  <2>2. q * p = q * e + q /\ q * e \in Nat
    BY <2>1
  <2> QED BY <2>2
<1>7. q * p \in Nat
  OBVIOUS
<1>8. q <= x
  BY <1>5, <1>6, <1>7
<1>9. LShr(x, n) = q
  BY <1>2, <1>3 DEF LShr
<1>10. \A i \in Nat : Bit(LShr(x, n), i) = Bit(x, n + i)
  BY <1>1, BitHigh DEF LShr
<1> QED BY <1>1, <1>8, <1>9, <1>10, WidthFacts DEF Word

\* The bits of words that are joined.
LEMMA JoinedBits ==
    ASSUME NEW x \in Word, NEW y \in Word
    PROVE  /\ And(x, y) \in Word /\ Or(x, y) \in Word /\ Xor(x, y) \in Word
           /\ \A i \in 0..(W - 1) :
                 /\ Bit(And(x, y), i) = IF Bit(x, i) = 1 /\ Bit(y, i) = 1 THEN 1 ELSE 0
                 /\ Bit(Or(x, y), i) = IF Bit(x, i) = 1 \/ Bit(y, i) = 1 THEN 1 ELSE 0
                 /\ Bit(Xor(x, y), i) = IF Bit(x, i) # Bit(y, i) THEN 1 ELSE 0
<1>1. And(x, y) \in Word /\ Or(x, y) \in Word /\ Xor(x, y) \in Word
  BY BitsOfBits DEF And, Or, Xor
<1>2. ASSUME NEW i \in 0..(W - 1)
      PROVE  Bit(And(x, y), i) = IF Bit(x, i) = 1 /\ Bit(y, i) = 1 THEN 1 ELSE 0
  BY BitsOfBits DEF And
<1>3. ASSUME NEW i \in 0..(W - 1)
      PROVE  Bit(Or(x, y), i) = IF Bit(x, i) = 1 \/ Bit(y, i) = 1 THEN 1 ELSE 0
  BY BitsOfBits DEF Or
<1>4. ASSUME NEW i \in 0..(W - 1)
      PROVE  Bit(Xor(x, y), i) = IF Bit(x, i) # Bit(y, i) THEN 1 ELSE 0
  BY BitsOfBits DEF Xor
<1> QED BY <1>1, <1>2, <1>3, <1>4

\* The complement has the other bits.
LEMMA NotBits ==
    ASSUME NEW x \in Word
    PROVE  /\ Not(x) \in Word
           /\ \A i \in 0..(W - 1) : Bit(Not(x), i) = 1 - Bit(x, i)
<1>1. x \in Nat /\ x \in Int /\ x < M /\ Not(x) = M - 1 - x
  BY WordBits, WidthFacts DEF Not, AllOnes
<1>2. Not(x) \in Word
  BY <1>1, WidthFacts DEF Word
<1>3. ASSUME NEW i \in 0..(W - 1) PROVE Bit(Not(x), i) = 1 - Bit(x, i)
  <2>1. PICK j \in Nat : W = i + 1 + j
    <3>1. W - i - 1 \in Nat /\ W = i + 1 + (W - i - 1)
      BY WidthFacts
    <3> QED BY <3>1
  <2>2. PICK p \in Nat \ {0} : p = Pow2[i]
    BY PowFacts
  <2>3. PICK g \in Nat \ {0} : g = Pow2[j]
    BY <2>1, PowFacts
  <2>4. M = (2 * g) * p
    <3>1. M = Pow2[(i + 1) + j]
      BY <2>1, WidthFacts
    <3>2. Pow2[(i + 1) + j] = Pow2[i + 1] * Pow2[j]
      BY <2>1, PowSum
    <3>3. Pow2[i + 1] = 2 * p
      BY <2>2, PowFacts
    <3>4. (2 * p) * g = (2 * g) * p
      OBVIOUS
    <3> QED BY <3>1, <3>2, <3>3, <3>4, <2>3
  <2>5. PICK q \in Nat : q = x \div p
    BY <1>1, DivFacts
  <2>6. PICK r \in 0..(p - 1) : r = x % p
    BY <1>1, DivFacts
  <2>7. x = q * p + r
    BY <1>1, <2>5, <2>6, DivFacts
  <2>8. PICK h \in Nat : h = q \div 2
    BY DivFacts
  <2>9. PICK e \in 0..(2 - 1) : e = q % 2
    BY DivFacts
  <2>10. q = h * 2 + e
    BY <2>8, <2>9, DivFacts
  <2>11. PICK z \in Nat : z = M - 1 - x
    BY <1>1, WidthFacts
  <2>12. PICK y \in Int : y = 2 * g - 1 - q
    OBVIOUS
  <2>13. z = y * p + (p - 1 - r)
    <3>1. y * p = (2 * g) * p - p - q * p
      BY <2>12
    <3>2. (2 * g) * p \in Int /\ q * p \in Int /\ y * p \in Int
      OBVIOUS
    <3> QED BY <3>1, <3>2, <2>4, <2>7, <2>11
  <2>14. PICK t \in 0..(p - 1) : t = p - 1 - r
    BY <2>6
  <2>15. z \div p = y
    <3>1. z = y * p + t
      BY <2>13, <2>14
    <3> QED BY <3>1, DivUnique
  <2>16. y % 2 = 1 - e
    <3>1. PICK k \in Int : k = g - 1 - h
      OBVIOUS
    <3>2. y = k * 2 + (1 - e) /\ 1 - e \in 0..(2 - 1)
      BY <3>1, <2>10, <2>12, <2>9
    <3> QED BY <3>2, DivUnique
  <2>17. Bit(x, i) = e
    BY <2>2, <2>5, <2>9 DEF Bit
  <2>18. Bit(z, i) = 1 - e
    BY <2>2, <2>15, <2>16 DEF Bit
  <2> QED BY <1>1, <2>11, <2>17, <2>18
<1> QED BY <1>2, <1>3

\* Joining with zero changes nothing, and the order does not matter.
LEMMA OrFacts ==
    ASSUME NEW x \in Word, NEW y \in Word
    PROVE  /\ Or(x, y) = Or(y, x)
           /\ Or(x, y) = 0 <=> x = 0 /\ y = 0
<1>1. Or(x, y) = Or(y, x)
  <2>1. \A i \in 0..(W - 1) : Bit(Or(x, y), i) = Bit(Or(y, x), i)
    BY JoinedBits
  <2> QED BY <2>1, JoinedBits, SameBits
<1>2. 0 \in Word /\ \A i \in 0..(W - 1) : Bit(0, i) = 0
  <2>1. 0 \in Word
    BY WidthFacts DEF Word
  <2>2. 0 < Pow2[0]
    BY PowFacts
  <2>3. ASSUME NEW i \in 0..(W - 1) PROVE Bit(0, i) = 0
    BY <2>2, NoBits
  <2> QED BY <2>1, <2>3
<1>3. ASSUME Or(x, y) = 0 PROVE x = 0 /\ y = 0
  <2>1. ASSUME NEW i \in 0..(W - 1) PROVE Bit(x, i) = 0 /\ Bit(y, i) = 0
    <3>1. Bit(x, i) \in {0, 1} /\ Bit(y, i) \in {0, 1}
      BY WordBits
    <3>2. Bit(Or(x, y), i) = 0
      BY <1>2, <1>3
    <3> QED BY <3>1, <3>2, JoinedBits
  <2> QED BY <2>1, <1>2, SameBits
<1>4. ASSUME x = 0, y = 0 PROVE Or(x, y) = 0
  <2>1. ASSUME NEW i \in 0..(W - 1) PROVE Bit(Or(x, y), i) = 0
    <3>1. Bit(x, i) = 0 /\ Bit(y, i) = 0
      BY <1>2, <1>4
    <3> QED BY <3>1, JoinedBits
  <2> QED BY <2>1, <1>2, JoinedBits, SameBits
<1> QED BY <1>1, <1>3, <1>4

\* The top bit of a word tells whether it is negative, and that of a symmetric
\* difference whether the signs differ.
LEMMA TopBit ==
    ASSUME NEW x \in Word
    PROVE  W - 1 \in 0..(W - 1) /\ (x >= Half <=> Bit(x, W - 1) = 1)
<1>1. Half = Pow2[W - 1] /\ M = 2 * Half /\ Half \in Nat \ {0} /\ W - 1 \in 0..(W - 1)
  BY WidthFacts, WidthAssumption DEF M
<1>2. x \in 0..(M - 1)
  BY DEF Word
<1>3. CASE x >= Half
  <2>1. PICK r \in 0..(Half - 1) : x = 1 * Half + r
    <3>1. x = 1 * Half + (x - Half) /\ x - Half \in 0..(Half - 1)
      BY <1>1, <1>2, <1>3
    <3> QED BY <3>1
  <2>2. x \in Int /\ 1 \in Int
    BY <1>1, <1>2
  <2>3. x \div Half = 1
    BY <2>1, <2>2, <1>1, DivUnique
  <2> QED BY <2>3, <1>1, <1>3 DEF Bit
<1>4. CASE x < Half
  <2>1. Bit(x, W - 1) = 0
    BY <1>1, <1>2, <1>4, NoBits
  <2> QED BY <2>1, <1>1, <1>2, <1>4
<1> QED BY <1>1, <1>2, <1>3, <1>4

\* The sign of the exclusive or tells whether the signs of the words differ, which is
\* how replaceMadSat tests the sign of a product.
LEMMA SignsDiffer ==
    ASSUME NEW x \in Word, NEW y \in Word
    PROVE  Xor(x, y) >= Half <=> (x >= Half) # (y >= Half)
<1>1. W - 1 \in 0..(W - 1) /\ Xor(x, y) \in Word
  BY TopBit, JoinedBits
<1>2. /\ x >= Half <=> Bit(x, W - 1) = 1
      /\ y >= Half <=> Bit(y, W - 1) = 1
      /\ Xor(x, y) >= Half <=> Bit(Xor(x, y), W - 1) = 1
  BY <1>1, TopBit
<1>3. Bit(x, W - 1) \in {0, 1} /\ Bit(y, W - 1) \in {0, 1}
  BY <1>1, WordBits
<1>4. Bit(Xor(x, y), W - 1) = IF Bit(x, W - 1) # Bit(y, W - 1) THEN 1 ELSE 0
  BY <1>1, JoinedBits
<1> QED BY <1>2, <1>3, <1>4

---------------------------------------------------------------------------
(* Funnel shifts and rotations. *)

\* The bits of a double word.
LEMMA PairBits ==
    ASSUME NEW hi \in Word, NEW lo \in Word
    PROVE  /\ hi * M + lo \in Nat
           /\ \A j \in Nat : Bit(hi * M + lo, j) = IF j < W THEN Bit(lo, j) ELSE Bit(hi, j - W)
<1>1. /\ hi \in Nat /\ hi \in Int /\ lo \in 0..(M - 1)
      /\ M \in Nat \ {0} /\ M = Pow2[W] /\ W \in Nat
  BY WordBits, WidthFacts DEF Word
<1>2. PICK d \in Nat : d = hi * M + lo
  <2>1. hi * M \in Nat
    BY <1>1
  <2> QED BY <2>1, <1>1
<1>3. d \div M = hi /\ d % M = lo
  <2>1. d \in Int
    OBVIOUS
  <2> QED BY <2>1, <1>1, <1>2, DivUnique
<1>4. ASSUME NEW j \in Nat
      PROVE  Bit(d, j) = IF j < W THEN Bit(lo, j) ELSE Bit(hi, j - W)
  <2>1. CASE j < W
    <3>1. Bit(d % Pow2[W], j) = Bit(d, j)
      BY <1>1, <2>1, BitLow
    <3> QED BY <3>1, <1>1, <1>3, <2>1
  <2>2. CASE ~(j < W)
    <3>1. PICK i \in Nat : i = j - W
      BY <1>1, <2>2
    <3>2. Bit(d \div Pow2[W], i) = Bit(d, W + i)
      BY <1>1, BitHigh
    <3>3. W + i = j
      BY <1>1, <3>1
    <3> QED BY <3>1, <3>2, <3>3, <1>1, <1>3, <2>2
  <2> QED BY <2>1, <2>2
<1> QED BY <1>2, <1>4

\* Both words of a funnel, each moved to its place, by an amount that is no multiple
\* of the width.
LEMMA FunnelBits ==
    ASSUME NEW hi \in Word, NEW lo \in Word, NEW m \in 1..(W - 1)
    PROVE  /\ Or(Shl(hi, m), LShr(lo, W - m)) \in Word
           /\ Or(LShr(lo, m), Shl(hi, W - m)) \in Word
           /\ \A i \in 0..(W - 1) :
                 /\ Bit(Or(Shl(hi, m), LShr(lo, W - m)), i)
                      = IF i < m THEN Bit(lo, W - m + i) ELSE Bit(hi, i - m)
                 /\ Bit(Or(LShr(lo, m), Shl(hi, W - m)), i)
                      = IF i < W - m THEN Bit(lo, m + i) ELSE Bit(hi, i - (W - m))
<1>1. m \in Nat /\ W - m \in Nat /\ W - m \in 1..(W - 1) /\ W \in Nat
  BY WidthFacts
<1>2. /\ Shl(hi, m) \in Word /\ LShr(lo, W - m) \in Word
      /\ LShr(lo, m) \in Word /\ Shl(hi, W - m) \in Word
  BY <1>1, ShlBits, LShrBits
<1>3. /\ Or(Shl(hi, m), LShr(lo, W - m)) \in Word
      /\ Or(LShr(lo, m), Shl(hi, W - m)) \in Word
  BY <1>2, JoinedBits
<1>4. ASSUME NEW p \in 1..(W - 1), NEW i \in 0..(W - 1)
      PROVE  /\ Bit(Shl(hi, p), i) = IF i < p THEN 0 ELSE Bit(hi, i - p)
             /\ Bit(LShr(lo, W - p), i) = IF i < p THEN Bit(lo, W - p + i) ELSE 0
             /\ Bit(Shl(hi, p), i) \in {0, 1} /\ Bit(LShr(lo, W - p), i) \in {0, 1}
  <2>1. p \in Nat /\ W - p \in Nat /\ i \in Nat
    BY WidthFacts
  <2>2. Bit(Shl(hi, p), i) = IF i < p THEN 0 ELSE Bit(hi, i - p)
    BY <2>1, ShlBits
  <2>3. Bit(LShr(lo, W - p), i) = Bit(lo, W - p + i)
    BY <2>1, LShrBits
  <2>4. W - p + i \in Nat /\ (~(i < p) => W - p + i >= W)
    BY <2>1, WidthFacts
  <2>5. ~(i < p) => Bit(lo, W - p + i) = 0
    BY <2>4, WordBits
  <2>6. Shl(hi, p) \in Word /\ LShr(lo, W - p) \in Word
    BY <2>1, ShlBits, LShrBits
  <2>7. Bit(Shl(hi, p), i) \in {0, 1} /\ Bit(LShr(lo, W - p), i) \in {0, 1}
    BY <2>1, <2>6, WordBits
  <2> QED BY <2>2, <2>3, <2>5, <2>7
<1>5. ASSUME NEW i \in 0..(W - 1)
      PROVE  Bit(Or(Shl(hi, m), LShr(lo, W - m)), i)
               = IF i < m THEN Bit(lo, W - m + i) ELSE Bit(hi, i - m)
  <2>1. /\ Bit(Shl(hi, m), i) = IF i < m THEN 0 ELSE Bit(hi, i - m)
        /\ Bit(LShr(lo, W - m), i) = IF i < m THEN Bit(lo, W - m + i) ELSE 0
        /\ Bit(Shl(hi, m), i) \in {0, 1} /\ Bit(LShr(lo, W - m), i) \in {0, 1}
    BY <1>4
  <2>2. Bit(Or(Shl(hi, m), LShr(lo, W - m)), i)
          = IF Bit(Shl(hi, m), i) = 1 \/ Bit(LShr(lo, W - m), i) = 1 THEN 1 ELSE 0
    BY <1>2, JoinedBits
  <2> QED BY <2>1, <2>2
<1>6. ASSUME NEW i \in 0..(W - 1)
      PROVE  Bit(Or(LShr(lo, m), Shl(hi, W - m)), i)
               = IF i < W - m THEN Bit(lo, m + i) ELSE Bit(hi, i - (W - m))
  <2>1. PICK p \in 1..(W - 1) : p = W - m /\ W - p = m
    <3>1. W - m \in 1..(W - 1) /\ W - (W - m) = m
      BY <1>1
    <3> QED BY <3>1
  <2>2. /\ Bit(Shl(hi, p), i) = IF i < p THEN 0 ELSE Bit(hi, i - p)
        /\ Bit(LShr(lo, W - p), i) = IF i < p THEN Bit(lo, W - p + i) ELSE 0
        /\ Bit(Shl(hi, p), i) \in {0, 1} /\ Bit(LShr(lo, W - p), i) \in {0, 1}
    BY <1>4
  <2>3. Bit(Or(LShr(lo, m), Shl(hi, p)), i)
          = IF Bit(LShr(lo, m), i) = 1 \/ Bit(Shl(hi, p), i) = 1 THEN 1 ELSE 0
    BY <2>1, <1>2, JoinedBits
  <2> QED BY <2>1, <2>2, <2>3
<1> QED BY <1>3, <1>5, <1>6

\* They are the words of the double word that is moved.
LEMMA FunnelIs ==
    ASSUME NEW hi \in Word, NEW lo \in Word, NEW m \in 1..(W - 1)
    PROVE  /\ Or(Shl(hi, m), LShr(lo, W - m)) = (((hi * M + lo) * Pow2[m]) \div M) % M
           /\ Or(LShr(lo, m), Shl(hi, W - m)) = ((hi * M + lo) \div Pow2[m]) % M
<1>1. M = Pow2[W] /\ M \in Nat \ {0} /\ W \in Nat /\ m \in Nat
  BY WidthFacts
<1>2. PICK d \in Nat : d = hi * M + lo
  BY PairBits
<1>3. \A j \in Nat : Bit(d, j) = IF j < W THEN Bit(lo, j) ELSE Bit(hi, j - W)
  BY <1>2, PairBits
<1>4. ASSUME NEW z \in Nat
      PROVE  /\ z % M \in Word
             /\ \A i \in 0..(W - 1) : Bit(z % M, i) = Bit(z, i)
  <2>1. z \in Int
    OBVIOUS
  <2>2. z % M \in Word
    BY <1>1, <2>1, DivFacts DEF Word
  <2>3. ASSUME NEW i \in 0..(W - 1) PROVE Bit(z % M, i) = Bit(z, i)
    <3>1. i \in Nat /\ i < W
      BY <1>1
    <3> QED BY <3>1, <1>1, BitLow
  <2> QED BY <2>2, <2>3
<1>5. Or(Shl(hi, m), LShr(lo, W - m)) = ((d * Pow2[m]) \div M) % M
  <2>1. PICK e \in Nat : e = d * Pow2[m]
    BY <1>1, BitMoved
  <2>2. PICK z \in Nat : z = e \div M
    <3>1. e \in Int
      OBVIOUS
    <3> QED BY <3>1, <1>1, DivFacts
  <2>3. ASSUME NEW i \in 0..(W - 1)
        PROVE  Bit(z, i) = IF i < m THEN Bit(lo, W - m + i) ELSE Bit(hi, i - m)
    <3>1. i \in Nat /\ W + i \in Nat /\ ~(W + i < m) /\ W + i - m \in Nat
      BY <1>1
    <3>2. Bit(z, i) = Bit(e, W + i)
      BY <1>1, <2>2, <3>1, BitHigh
    <3>3. Bit(e, W + i) = Bit(d, W + i - m)
      BY <1>1, <2>1, <3>1, BitMoved
    <3>4. PICK j \in Nat : j = W + i - m
      BY <3>1
    <3>5. Bit(d, j) = IF j < W THEN Bit(lo, j) ELSE Bit(hi, j - W)
      BY <1>3
    <3>6. j = W - m + i /\ j - W = i - m /\ (j < W <=> i < m)
      BY <1>1, <3>4
    <3> QED BY <3>2, <3>3, <3>4, <3>5, <3>6
  <2>4. z % M \in Word /\ \A i \in 0..(W - 1) : Bit(z % M, i) = Bit(z, i)
    BY <1>4
  <2>5. Or(Shl(hi, m), LShr(lo, W - m)) = z % M
    <3>1. PICK y \in Word : y = z % M
      BY <2>4
    <3> DEFINE x == Or(Shl(hi, m), LShr(lo, W - m))
    <3>2. /\ x \in Word
          /\ \A i \in 0..(W - 1) : Bit(x, i) = IF i < m THEN Bit(lo, W - m + i) ELSE Bit(hi, i - m)
      BY FunnelBits, ZenonT(40)
    <3> HIDE DEF x
    <3>3. \A i \in 0..(W - 1) : Bit(x, i) = Bit(y, i)
      BY <2>3, <2>4, <3>1, <3>2
    <3>4. x = y
      BY <3>2, <3>3, SameBits
    <3> QED BY <3>1, <3>4 DEF x
  <2> QED BY <2>1, <2>2, <2>5
<1>6. Or(LShr(lo, m), Shl(hi, W - m)) = (d \div Pow2[m]) % M
  <2>1. Pow2[m] \in Nat \ {0}
    BY <1>1, PowFacts
  <2>2. PICK z \in Nat : z = d \div Pow2[m]
    <3>1. d \in Int
      OBVIOUS
    <3> QED BY <3>1, <2>1, DivFacts
  <2>3. ASSUME NEW i \in 0..(W - 1)
        PROVE  Bit(z, i) = IF i < W - m THEN Bit(lo, m + i) ELSE Bit(hi, i - (W - m))
    <3>1. i \in Nat /\ m + i \in Nat
      BY <1>1
    <3>2. Bit(z, i) = Bit(d, m + i)
      BY <1>1, <2>2, <3>1, BitHigh
    <3>3. PICK j \in Nat : j = m + i
      BY <3>1
    <3>4. Bit(d, j) = IF j < W THEN Bit(lo, j) ELSE Bit(hi, j - W)
      BY <1>3
    <3>5. j - W = i - (W - m) /\ (j < W <=> i < W - m)
      BY <1>1, <3>3
    <3> QED BY <3>2, <3>3, <3>4, <3>5
  <2>4. z % M \in Word /\ \A i \in 0..(W - 1) : Bit(z % M, i) = Bit(z, i)
    BY <1>4
  <2>5. Or(LShr(lo, m), Shl(hi, W - m)) = z % M
    <3>1. PICK y \in Word : y = z % M
      BY <2>4
    <3> DEFINE x == Or(LShr(lo, m), Shl(hi, W - m))
    <3>2. /\ x \in Word
          /\ \A i \in 0..(W - 1) :
                Bit(x, i) = IF i < W - m THEN Bit(lo, m + i) ELSE Bit(hi, i - (W - m))
      BY FunnelBits, ZenonT(40)
    <3> HIDE DEF x
    <3>3. \A i \in 0..(W - 1) : Bit(x, i) = Bit(y, i)
      BY <2>3, <2>4, <3>1, <3>2
    <3>4. x = y
      BY <3>2, <3>3, SameBits
    <3> QED BY <3>1, <3>4 DEF x
  <2> QED BY <2>2, <2>5
<1> QED BY <1>2, <1>5, <1>6

\* What replaceFshl and replaceFshr yield, by the remainder of the amount.
LEMMA FunnelForms ==
    ASSUME NEW hi \in Word, NEW lo \in Word, NEW n \in Nat
    PROVE  /\ n % W \in 0..(W - 1)
           /\ n % W # 0 =>
                \A constant \in BOOLEAN :
                   /\ Fshl(hi, lo, n, constant) = Or(Shl(hi, n % W), LShr(lo, W - (n % W)))
                   /\ Fshr(hi, lo, n, constant) = Or(LShr(lo, n % W), Shl(hi, W - (n % W)))
           /\ n % W = 0 => /\ Fshl(hi, lo, n, FALSE) = Or(hi, lo)
                           /\ Fshr(hi, lo, n, FALSE) = Or(hi, lo)
<1>1. W \in Nat \ {0}
  BY WidthFacts
<1>2. PICK m \in 0..(W - 1) : m = n % W
  BY <1>1, DivFacts
<1>3. ASSUME m # 0, NEW constant \in BOOLEAN PROVE Complement(n, constant) = W - m
  <2>1. W - m = 0 * W + (W - m) /\ W - m \in 0..(W - 1)
    BY <1>1, <1>3
  <2>2. (W - m) % W = W - m
    BY <2>1, <1>1, DivUnique
  <2> QED BY <2>2, <1>2 DEF Complement
<1>4. ASSUME m = 0 PROVE Complement(n, FALSE) = 0
  <2>1. W = 1 * W + 0 /\ 0 \in 0..(W - 1) /\ W \in Int
    BY <1>1
  <2>2. W % W = 0
    BY <2>1, <1>1, DivUnique
  <2>3. W - m = W
    BY <1>1, <1>4
  <2> QED BY <2>2, <2>3, <1>2 DEF Complement
<1>5. ASSUME NEW x \in Word PROVE Shl(x, 0) = x /\ LShr(x, 0) = x
  <2>1. x \in Int /\ x \in 0..(M - 1) /\ M \in Nat \ {0}
    BY WidthFacts, WordBits DEF Word
  <2>2. x = x * 1 + 0 /\ 0 \in 0..(1 - 1) /\ x = 0 * M + x /\ x * 1 = x
    BY <2>1, WidthFacts
  <2>3. x \div 1 = x
    BY <2>1, <2>2, DivUnique
  <2>4. x % M = x
    BY <2>1, <2>2, DivUnique
  <2> QED BY <2>2, <2>3, <2>4, PowFacts DEF Shl, LShr
<1>6. ASSUME m = 0
      PROVE  Fshl(hi, lo, n, FALSE) = Or(hi, lo) /\ Fshr(hi, lo, n, FALSE) = Or(hi, lo)
  <2>1. n % W = 0 /\ Complement(n, FALSE) = 0
    BY <1>2, <1>4, <1>6
  <2>2. Fshl(hi, lo, n, FALSE) = Or(hi, lo)
    BY <2>1, <1>5, Zenon DEF Fshl
  <2>3. Fshr(hi, lo, n, FALSE) = Or(lo, hi)
    BY <2>1, <1>5, Zenon DEF Fshr
  <2> QED BY <2>2, <2>3, OrFacts
<1> QED BY <1>2, <1>3, <1>6 DEF Fshl, Fshr

\* Every bit of a rotated word arrives at its place.
LEMMA RotateIs ==
    ASSUME NEW x \in Word, NEW n \in Nat, NEW i \in 0..(W - 1)
    PROVE  Bit(Rotate(x, n), (i + n) % W) = Bit(x, i)
<1>1. W \in Nat \ {0} /\ i \in Nat
  BY WidthFacts
<1>2. PICK m \in 0..(W - 1) : m = n % W
  BY <1>1, DivFacts
<1>3. PICK q \in Nat : q = n \div W
  BY <1>1, DivFacts
<1>4. n = q * W + m
  BY <1>1, <1>2, <1>3, DivFacts
<1>5. PICK j \in 0..(W - 1) : /\ j = (i + n) % W
                              /\ j = IF i + m < W THEN i + m ELSE i + m - W
  <2>1. PICK j \in 0..(W - 1) : j = IF i + m < W THEN i + m ELSE i + m - W
    <3>1. (IF i + m < W THEN i + m ELSE i + m - W) \in 0..(W - 1)
      BY <1>1
    <3> QED BY <3>1
  <2>2. PICK k \in Nat : k = i + n
    OBVIOUS
  <2>3. q * W \in Nat
    BY <1>1
  <2>4. CASE i + m < W
    <3>1. k = q * W + j
      BY <2>1, <2>2, <2>3, <2>4, <1>1, <1>4
    <3>2. k % W = j
      BY <3>1, <1>1, DivUnique
    <3> QED BY <3>2, <2>1, <2>2
  <2>5. CASE ~(i + m < W)
    <3>1. (q + 1) * W = q * W + W /\ q + 1 \in Int
      BY <1>1
    <3>2. k = (q + 1) * W + j
      BY <3>1, <2>1, <2>2, <2>3, <2>5, <1>1, <1>4
    <3>3. k % W = j
      BY <3>1, <3>2, <1>1, DivUnique
    <3> QED BY <3>3, <2>1, <2>2
  <2> QED BY <2>4, <2>5
<1>6. CASE m = 0
  <2>1. Rotate(x, n) = Or(x, x)
    <3>1. n % W = 0
      BY <1>2, <1>6
    <3>2. Fshl(x, x, n, FALSE) = Or(x, x)
      BY <3>1, FunnelForms
    <3> QED BY <3>2 DEF Rotate
  <2>2. Bit(Or(x, x), i) = Bit(x, i)
    <3>1. Bit(x, i) \in {0, 1}
      BY <1>1, WordBits
    <3> QED BY <3>1, JoinedBits
  <2>3. j = i
    BY <1>1, <1>5, <1>6
  <2> QED BY <1>5, <2>1, <2>2, <2>3
<1>7. CASE m # 0
  <2>1. m \in 1..(W - 1)
    BY <1>1, <1>7
  <2>2. Rotate(x, n) = Or(Shl(x, m), LShr(x, W - m))
    <3>1. n % W # 0
      BY <1>2, <1>7
    <3>2. Fshl(x, x, n, FALSE) = Or(Shl(x, n % W), LShr(x, W - (n % W)))
      BY <3>1, FunnelForms
    <3> QED BY <3>2, <1>2 DEF Rotate
  <2>3. Bit(Rotate(x, n), j) = IF j < m THEN Bit(x, W - m + j) ELSE Bit(x, j - m)
    BY <2>1, <2>2, FunnelBits
  <2>4. IF j < m THEN W - m + j = i ELSE j - m = i
    BY <1>1, <1>5
  <2> QED BY <1>5, <2>3, <2>4
<1> QED BY <1>6, <1>7

\* The funnel shifts and rotations of operands.
LEMMA FunnelLemma == OperandsOK => FunnelsExact
<1> SUFFICES ASSUME OperandsOK PROVE FunnelsExact
  OBVIOUS
<1>1. a \in Word /\ b \in Word /\ c \in Nat
  BY ThirdAssumption, WordBits DEF OperandsOK
<1>2. c % W \in 0..(W - 1)
  BY <1>1, FunnelForms
<1>3. ASSUME c % W # 0, NEW constant \in BOOLEAN
      PROVE  /\ Fshl(a, b, c, constant) = (((a * M + b) * Pow2[c % W]) \div M) % M
             /\ Fshr(a, b, c, constant) = ((a * M + b) \div Pow2[c % W]) % M
  <2>1. PICK m \in 1..(W - 1) : m = c % W
    <3>1. PICK k \in 0..(W - 1) : k = c % W
      BY <1>2
    <3>2. k # 0 /\ k \in 1..(W - 1)
      BY <3>1, <1>3, WidthFacts
    <3> QED BY <3>1, <3>2
  <2>2. /\ Fshl(a, b, c, constant) = Or(Shl(a, m), LShr(b, W - m))
        /\ Fshr(a, b, c, constant) = Or(LShr(b, m), Shl(a, W - m))
    BY <2>1, <1>1, <1>3, FunnelForms
  <2>3. /\ Or(Shl(a, m), LShr(b, W - m)) = (((a * M + b) * Pow2[m]) \div M) % M
        /\ Or(LShr(b, m), Shl(a, W - m)) = ((a * M + b) \div Pow2[m]) % M
    BY <1>1, FunnelIs
  <2> QED BY <2>1, <2>2, <2>3
<1>4. ASSUME c % W = 0
      PROVE  Fshl(a, b, c, FALSE) = Or(a, b) /\ Fshr(a, b, c, FALSE) = Or(a, b)
  BY <1>1, <1>4, FunnelForms
<1>5. \A i \in 0..(W - 1) : Bit(Rotate(a, c), (i + c) % W) = Bit(a, i)
  BY <1>1, RotateIs
<1> QED BY <1>3, <1>4, <1>5 DEF FunnelsExact

---------------------------------------------------------------------------
(* Counted zeros. *)

\* The least and the greatest of a set of numbers.
LEMMA MinIs ==
    ASSUME NEW S, S \subseteq Int, NEW m \in S, \A y \in S : m <= y
    PROVE  Min(S) = m
<1> DEFINE IsMin(e) == e \in S /\ \A y \in S : e <= y
<1>1. Min(S) = CHOOSE e \in S : \A y \in S : e <= y
  BY DEF Min
<1>2. \E e \in S : \A y \in S : e <= y
  OBVIOUS
<1>3. Min(S) \in S /\ \A y \in S : Min(S) <= y
  BY <1>1, <1>2
<1>4. Min(S) <= m /\ m <= Min(S) /\ Min(S) \in Int /\ m \in Int
  BY <1>3
<1> QED BY <1>4

\* The maximum of a set is any member that is not below the others.
LEMMA MaxIs ==
    ASSUME NEW S, S \subseteq Int, NEW m \in S, \A y \in S : m >= y
    PROVE  Max(S) = m
<1>1. Max(S) = CHOOSE e \in S : \A y \in S : e >= y
  BY DEF Max
<1>2. \E e \in S : \A y \in S : e >= y
  OBVIOUS
<1>3. Max(S) \in S /\ \A y \in S : Max(S) >= y
  BY <1>1, <1>2
<1>4. Max(S) >= m /\ m >= Max(S) /\ Max(S) \in Int /\ m \in Int
  BY <1>3
<1> QED BY <1>4

\* A bounded set of numbers that is not empty has a greatest one.
LEMMA MaxOf ==
    ASSUME NEW w \in Nat, NEW S, S \subseteq 0..w, S # {}
    PROVE  Max(S) \in S /\ \A y \in S : Max(S) >= y
<1> DEFINE D == {k \in Nat : w - k \in S}
<1>1. PICK k \in D : \A j \in D : ~(j < k)
  <2>1. D # {}
    <3>1. PICK y \in S : TRUE
      OBVIOUS
    <3>2. w - y \in Nat /\ w - (w - y) = y
      OBVIOUS
    <3>3. w - y \in D
      BY <3>2
    <3> QED BY <3>3
  <2>2. D \subseteq Nat
    OBVIOUS
  <2> HIDE DEF D
  <2> QED BY <2>1, <2>2, NoLeast
<1>2. w - k \in S /\ k \in Nat
  BY <1>1
<1>3. ASSUME NEW y \in S PROVE w - k >= y
  <2>1. w - y \in Nat /\ w - (w - y) = y
    OBVIOUS
  <2>2. w - y \in D
    BY <2>1
  <2>3. ~(w - y < k)
    BY <1>1, <2>2
  <2> QED BY <2>1, <2>3, <1>2
<1>4. S \subseteq Int
  OBVIOUS
<1>5. Max(S) = w - k
  BY <1>2, <1>3, <1>4, MaxIs
<1> QED BY <1>2, <1>3, <1>5

\* The number of bits of a number.
LEMMA LengthOf ==
    ASSUME NEW x \in Nat, NEW k \in Nat, x < Pow2[k]
    PROVE  \E m \in 0..k : x < Pow2[m] /\ (m = 0 \/ Pow2[m - 1] <= x)
<1> DEFINE D == {n \in Nat : x < Pow2[n]}
<1>1. PICK m \in D : \A j \in D : ~(j < m)
  <2>1. k \in D /\ D \subseteq Nat
    OBVIOUS
  <2> HIDE DEF D
  <2> QED BY <2>1, NoLeast
<1>2. m \in Nat /\ x < Pow2[m] /\ ~(k < m)
  BY <1>1
<1>3. ASSUME m # 0 PROVE Pow2[m - 1] <= x
  <2>1. PICK j \in Nat : j = m - 1 /\ j < m
    <3>1. m - 1 \in Nat /\ m - 1 < m
      BY <1>2, <1>3
    <3> QED BY <3>1
  <2>2. ~(x < Pow2[j])
    BY <2>1, <1>1
  <2>3. Pow2[j] \in Nat
    BY PowFacts
  <2> QED BY <2>1, <2>2, <2>3
<1> QED BY <1>2, <1>3

\* Leading zeros are the places above.
LEMMA CtlzIs ==
    ASSUME NEW x \in Nat, NEW w \in Nat, NEW m \in 0..w,
           x < Pow2[m], m = 0 \/ Pow2[m - 1] <= x
    PROVE  Ctlz(x, w) = w - m
<1> DEFINE S == {n \in 0..w : x < Pow2[n]}
<1>1. m \in S /\ S \subseteq Int
  OBVIOUS
<1>2. ASSUME NEW n \in S PROVE m <= n
  <2>1. n \in Nat /\ x < Pow2[n] /\ m \in Nat
    OBVIOUS
  <2> SUFFICES ASSUME n < m PROVE FALSE
    BY <2>1
  <2>2. m - 1 \in Nat /\ n <= m - 1 /\ m # 0
    BY <2>1
  <2>3. Pow2[n] <= Pow2[m - 1]
    BY <2>1, <2>2, PowLess
  <2>4. Pow2[n] \in Nat /\ Pow2[m - 1] \in Nat
    BY <2>1, <2>2, PowFacts
  <2> QED BY <2>1, <2>2, <2>3, <2>4
<1> HIDE DEF S
<1>3. Min(S) = m
  BY <1>1, <1>2, MinIs
<1> QED BY <1>3 DEF Ctlz, S

\* The words of a pair: the halves of a word.
LEMMA HalvesOf ==
    ASSUME NEW x \in Word
    PROVE  \E h \in 0..(Root - 1), l \in 0..(Root - 1) :
              x = h * Root + l /\ LShr(x, S2) = h /\ x % Root = l /\ h * Root \in Nat
<1>1. x \in Nat /\ x \in Int /\ x < Root * Root /\ Root \in Nat \ {0} /\ Root = Pow2[S2]
  BY WordBits, WidthFacts DEF Root
<1>2. PICK h \in Nat : h = x \div Root
  BY <1>1, DivFacts
<1>3. PICK l \in 0..(Root - 1) : l = x % Root
  BY <1>1, DivFacts
<1>4. x = h * Root + l
  BY <1>1, <1>2, <1>3, DivFacts
<1>5. h < Root
  <2> SUFFICES ASSUME ~(h < Root) PROVE FALSE
    BY <1>1
  <2>1. CASE h = Root
    BY <2>1, <1>1, <1>3, <1>4
  <2>2. CASE Root < h
    <3>1. Root * Root + Root <= h * Root
      BY <2>2, <1>1, Below
    <3>2. Root * Root \in Nat /\ h * Root \in Nat
      BY <1>1
    <3> QED BY <3>1, <3>2, <1>1, <1>3, <1>4
  <2> QED BY <2>1, <2>2, <1>1
<1>6. LShr(x, S2) = h
  BY <1>1, <1>2 DEF LShr
<1>7. h \in 0..(Root - 1) /\ h * Root \in Nat
  BY <1>1, <1>5
<1> QED BY <1>3, <1>4, <1>6, <1>7

\* clz of a word from clz of its halves (replaceCountZeroes).
LEMMA LeadingHalves ==
    ASSUME NEW x \in Word
    PROVE  CountHalves(x, TRUE) = Ctlz(x, W)
<1>1. PICK h \in 0..(Root - 1), l \in 0..(Root - 1) :
         x = h * Root + l /\ LShr(x, S2) = h /\ x % Root = l /\ h * Root \in Nat
  BY HalvesOf
<1>2. /\ Root \in Nat \ {0} /\ Root = Pow2[S2] /\ S2 \in Nat /\ W = S2 + S2 /\ W \in Nat
      /\ h \in Nat /\ l \in Nat /\ h < Root /\ l < Root /\ x \in Nat
  BY WidthFacts, WordBits DEF Root
<1>3. PICK m \in 0..S2 : h < Pow2[m] /\ (m = 0 \/ Pow2[m - 1] <= h)
  BY <1>2, LengthOf
<1>4. Ctlz(h, S2) = S2 - m
  BY <1>2, <1>3, CtlzIs
<1>7. CountHalves(x, TRUE) = IF Ctlz(h, S2) = S2 THEN Ctlz(l, S2) + S2 ELSE Ctlz(h, S2)
  BY <1>1, Zenon DEF CountHalves
<1>5. CASE m = 0
  <2>1. h = 0 /\ x = l
    <3>1. h < 1
      BY <1>3, <1>5, PowFacts
    <3>2. h = 0
      BY <3>1, <1>2
    <3> QED BY <3>2, <1>1, <1>2
  <2>2. PICK j \in 0..S2 : l < Pow2[j] /\ (j = 0 \/ Pow2[j - 1] <= l)
    BY <1>2, LengthOf
  <2>3. Ctlz(l, S2) = S2 - j
    BY <1>2, <2>2, CtlzIs
  <2>4. Ctlz(x, W) = W - j
    <3>1. j \in 0..W
      BY <1>2, <2>2
    <3> QED BY <3>1, <1>2, <2>1, <2>2, CtlzIs
  <2>5. Ctlz(h, S2) = S2
    BY <1>2, <1>4, <1>5
  <2>6. CountHalves(x, TRUE) = Ctlz(l, S2) + S2
    BY <1>7, <2>5, Zenon
  <2>7. Ctlz(l, S2) + S2 = Ctlz(x, W)
    BY <2>2, <2>3, <2>4, <1>2
  <2> QED BY <2>6, <2>7, Zenon
<1>6. CASE m # 0
  <2>1. PICK k \in Nat : k = m - 1 /\ m = k + 1
    BY <1>2, <1>3, <1>6
  <2>2. PICK p \in Nat \ {0} : p = Pow2[k]
    BY PowFacts
  <2>3. Pow2[m] = 2 * p
    BY <2>1, <2>2, PowFacts
  <2>4. p <= h /\ h < 2 * p
    BY <1>3, <1>6, <2>1, <2>2, <2>3
  <2>5. Pow2[S2 + m] = (2 * p) * Root /\ Pow2[(S2 + m) - 1] = p * Root
    <3>1. Pow2[S2 + m] = Root * Pow2[m]
      BY <1>2, <1>3, PowSum
    <3>2. Pow2[S2 + k] = Root * Pow2[k] /\ (S2 + m) - 1 = S2 + k
      BY <1>2, <2>1, PowSum
    <3>3. Root * (2 * p) = (2 * p) * Root /\ Root * p = p * Root
      BY <1>2
    <3> QED BY <3>1, <3>2, <3>3, <2>2, <2>3
  <2>6. x < Pow2[S2 + m]
    <3>1. h * Root + Root <= (2 * p) * Root
      BY <2>4, <1>2, Below
    <3>2. h * Root \in Nat /\ (2 * p) * Root \in Nat
      BY <1>2
    <3> QED BY <3>1, <3>2, <2>5, <1>1, <1>2
  <2>7. Pow2[(S2 + m) - 1] <= x
    <3>1. p * Root \in Nat /\ h * Root \in Nat
      BY <1>2
    <3>2. p * Root <= h * Root
      <4>1. CASE p = h
        BY <4>1, <3>1
      <4>2. CASE p < h
        <5>1. p * Root + Root <= h * Root
          BY <4>2, <1>2, Below
        <5> QED BY <5>1, <3>1, <1>2
      <4> QED BY <4>1, <4>2, <2>4, <1>2
    <3> QED BY <3>1, <3>2, <2>5, <1>1, <1>2
  <2>8. Ctlz(x, W) = W - (S2 + m)
    <3>1. S2 + m \in 0..W
      BY <1>2, <1>3
    <3> QED BY <3>1, <2>6, <2>7, <1>2, CtlzIs
  <2>9. Ctlz(h, S2) # S2
    BY <1>2, <1>3, <1>4, <1>6
  <2>10. CountHalves(x, TRUE) = Ctlz(h, S2)
    BY <1>7, <2>9, Zenon
  <2>11. Ctlz(h, S2) = Ctlz(x, W)
    BY <2>8, <1>2, <1>3, <1>4
  <2> QED BY <2>10, <2>11, Zenon
<1> QED BY <1>5, <1>6

\* A word that is extended has more leading zeros.
LEMMA LeadingNarrow ==
    ASSUME NEW x \in Word, NEW native \in Nat, native > W
    PROVE  CountNarrow(x, TRUE, native) = Ctlz(x, W)
<1>1. x \in Nat /\ x < Pow2[W] /\ W \in Nat
  BY WordBits, WidthFacts
<1>2. PICK m \in 0..W : x < Pow2[m] /\ (m = 0 \/ Pow2[m - 1] <= x)
  BY <1>1, LengthOf
<1>3. Ctlz(x, W) = W - m
  BY <1>1, <1>2, CtlzIs
<1>4. Ctlz(x, native) = native - m
  <2>1. m \in 0..native
    BY <1>1, <1>2
  <2> QED BY <2>1, <1>1, <1>2, CtlzIs
<1>5. (native - m) - (native - W) = W - m
  BY <1>1, <1>2
<1> QED BY <1>3, <1>4, <1>5 DEF CountNarrow

\* A remainder by a power has the remainders of the number by the lesser powers.
LEMMA RemRem ==
    ASSUME NEW x \in Nat, NEW k \in Nat, NEW n \in Nat, n <= k
    PROVE  (x % Pow2[k]) % Pow2[n] = x % Pow2[n]
<1>1. PICK p \in Nat \ {0} : p = Pow2[n]
  BY PowFacts
<1>2. PICK g \in Nat \ {0} : Pow2[k] = g * p
  <2>1. k - n \in Nat /\ Pow2[k] = Pow2[k - n] * Pow2[n]
    BY PowLess
  <2>2. Pow2[k - n] \in Nat \ {0}
    BY <2>1, PowFacts
  <2> QED BY <2>1, <2>2, <1>1
<1>3. PICK d \in Nat \ {0} : d = Pow2[k]
  BY PowFacts
<1>4. PICK q \in Nat : q = x \div d
  BY DivFacts
<1>5. PICK r \in Nat : r = x % d
  <2>1. x % d \in 0..(d - 1)
    BY DivFacts
  <2> QED BY <2>1
<1>6. x = q * d + r
  BY <1>4, <1>5, DivFacts
<1>7. PICK s \in Nat : s = r \div p
  BY DivFacts
<1>8. PICK t \in 0..(p - 1) : t = r % p
  BY DivFacts
<1>9. r = s * p + t
  BY <1>7, <1>8, DivFacts
<1>10. PICK y \in Nat : y = q * g + s
  OBVIOUS
<1>11. x = y * p + t
  <2>1. q * d = (q * g) * p
    BY <1>2, <1>3
  <2>2. y * p = (q * g) * p + s * p
    BY <1>10
  <2>3. (q * g) * p \in Nat /\ s * p \in Nat
    OBVIOUS
  <2> QED BY <2>1, <2>2, <2>3, <1>6, <1>9
<1>12. x % p = t
  BY <1>11, DivUnique
<1> QED BY <1>1, <1>3, <1>5, <1>8, <1>12

\* Zero has as many trailing zeros as bits.
LEMMA ZerosOfZero ==
    ASSUME NEW w \in Nat
    PROVE  Cttz(0, w) = w
<1>1. \A n \in 0..w : 0 % Pow2[n] = 0
  <2> SUFFICES ASSUME NEW n \in 0..w PROVE 0 % Pow2[n] = 0
    OBVIOUS
  <2>1. PICK p \in Nat \ {0} : p = Pow2[n]
    BY PowFacts
  <2>2. 0 = 0 * p + 0 /\ 0 \in 0..(p - 1)
    BY <2>1
  <2>3. 0 % p = 0
    BY <2>2, DivUnique
  <2> QED BY <2>1, <2>3
<1> DEFINE S == {n \in 0..w : 0 % Pow2[n] = 0}
<1>2. w \in S /\ S \subseteq Int
  BY <1>1
<1>3. \A y \in S : w >= y
  OBVIOUS
<1> HIDE DEF S
<1>4. Max(S) = w
  BY <1>2, <1>3, MaxIs
<1> QED BY <1>4 DEF Cttz, S

\* ctz of a word from ctz of its halves (replaceCountZeroes).
LEMMA TrailingHalves ==
    ASSUME NEW x \in Word
    PROVE  CountHalves(x, FALSE) = Cttz(x, W)
<1>1. PICK h \in 0..(Root - 1), l \in 0..(Root - 1) :
         x = h * Root + l /\ LShr(x, S2) = h /\ x % Root = l /\ h * Root \in Nat
  BY HalvesOf
<1>2. /\ Root \in Nat \ {0} /\ Root = Pow2[S2] /\ S2 \in Nat /\ W = S2 + S2 /\ W \in Nat
      /\ h \in Nat /\ l \in Nat /\ h < Root /\ l < Root /\ x \in Nat
      /\ h \in Int /\ x \in Int
  BY WidthFacts, WordBits DEF Root
<1>3. CountHalves(x, FALSE) = IF Cttz(l, S2) = S2 THEN Cttz(h, S2) + S2 ELSE Cttz(l, S2)
  BY <1>1, Zenon DEF CountHalves
<1> DEFINE Zeros(y, w) == {n \in 0..w : y % Pow2[n] = 0}
<1>4. ASSUME NEW y \in Nat, NEW w \in Nat
      PROVE  0 \in Zeros(y, w) /\ Zeros(y, w) \subseteq 0..w
  <2>1. y = y * 1 + 0 /\ 0 \in 0..(1 - 1)
    OBVIOUS
  <2>2. y % 1 = 0
    BY <2>1, DivUnique
  <2> QED BY <2>2, PowFacts
<1>5. \A y, w : Cttz(y, w) = Max(Zeros(y, w))
  BY Zenon DEF Cttz
<1>6. ASSUME l # 0 PROVE CountHalves(x, FALSE) = Cttz(x, W)
  <2>1. S2 \notin Zeros(l, S2)
    <3>1. l = 0 * Root + l /\ l \in 0..(Root - 1)
      BY <1>2
    <3>2. l % Root = l
      BY <3>1, <1>2, DivUnique
    <3> QED BY <3>2, <1>2, <1>6
  <2>2. Zeros(l, S2) = Zeros(x, W)
    <3>1. ASSUME NEW n \in 0..S2 PROVE n \in 0..W /\ l % Pow2[n] = x % Pow2[n]
      <4>1. (x % Pow2[S2]) % Pow2[n] = x % Pow2[n]
        BY <1>2, RemRem
      <4> QED BY <4>1, <1>1, <1>2
    <3>2. ASSUME NEW n \in 0..W, x % Pow2[n] = 0 PROVE n \in 0..S2
      <4> SUFFICES ASSUME ~(n <= S2) PROVE FALSE
        BY <1>2
      <4>1. (x % Pow2[n]) % Pow2[S2] = x % Pow2[S2]
        BY <1>2, RemRem
      <4>2. 0 = 0 * Root + 0 /\ 0 \in 0..(Root - 1)
        BY <1>2
      <4>3. 0 % Root = 0
        BY <4>2, <1>2, DivUnique
      <4> QED BY <4>1, <4>3, <3>2, <1>1, <1>2, <1>6
    <3> QED BY <3>1, <3>2
  <2> HIDE DEF Zeros
  <2>3. Max(Zeros(l, S2)) \in Zeros(l, S2)
    <3>1. Zeros(l, S2) \subseteq 0..S2 /\ Zeros(l, S2) # {}
      BY <1>2, <1>4
    <3> QED BY <3>1, <1>2, MaxOf
  <2>4. Cttz(l, S2) # S2
    BY <2>1, <2>3, <1>5
  <2>5. CountHalves(x, FALSE) = Cttz(l, S2)
    BY <1>3, <2>4, Zenon
  <2> QED BY <2>2, <2>5, <1>5, Zenon
<1>7. ASSUME l = 0 PROVE CountHalves(x, FALSE) = Cttz(x, W)
  <2>1. Cttz(l, S2) = S2
    BY <1>2, <1>7, ZerosOfZero
  <2>2. CountHalves(x, FALSE) = Cttz(h, S2) + S2
    BY <1>3, <2>1, Zenon
  <2>3. ASSUME NEW i \in Nat
        PROVE  x % Pow2[S2 + i] = 0 <=> h % Pow2[i] = 0
    <3>1. PICK p \in Nat \ {0} : p = Pow2[i]
      BY PowFacts
    <3>2. Pow2[S2 + i] = Root * p
      BY <1>2, <3>1, PowSum
    <3>3. PICK q \in Nat : q = h \div p
      BY <1>2, DivFacts
    <3>4. PICK r \in 0..(p - 1) : r = h % p
      BY <1>2, DivFacts
    <3>5. h = q * p + r
      BY <1>2, <3>3, <3>4, DivFacts
    <3>6. PICK d \in Nat \ {0} : d = Root * p
      BY <1>2, PowFacts, <3>2
    <3>7. PICK t \in Nat : t = r * Root
      BY <1>2
    <3>8. t \in 0..(d - 1)
      <4>1. r * Root + Root <= p * Root
        BY <1>2, Below
      <4>2. p * Root = Root * p /\ p * Root \in Nat
        BY <1>2
      <4> QED BY <4>1, <4>2, <1>2, <3>6, <3>7
    <3>9. x = q * d + t
      <4>1. h * Root = (q * p) * Root + r * Root
        BY <1>2, <3>5
      <4>2. (q * p) * Root = q * (Root * p)
        BY <1>2
      <4>3. x = h * Root
        BY <1>1, <1>2, <1>7
      <4> QED BY <4>1, <4>2, <4>3, <3>6, <3>7
    <3>10. x % d = t
      <4>1. PICK y \in Nat : y = x
        BY <1>2
      <4>2. PICK s \in 0..(d - 1) : s = t
        BY <3>8
      <4>3. y = q * d + s
        BY <4>1, <4>2, <3>9
      <4>4. y % d = s
        BY <4>3, DivUnique
      <4> QED BY <4>1, <4>2, <4>4
    <3>11. t = 0 <=> r = 0
      <4>1. CASE r = 0
        BY <4>1, <1>2, <3>7
      <4>2. CASE r # 0
        <5>1. 0 * Root + Root <= r * Root
          BY <4>2, <1>2, Below
        <5>2. t # 0
          BY <5>1, <1>2, <3>7
        <5> QED BY <4>2, <5>2
      <4> QED BY <4>1, <4>2
    <3> QED BY <3>1, <3>2, <3>4, <3>6, <3>10, <3>11
  <2> DEFINE t == Max(Zeros(h, S2))
  <2>4. t \in Zeros(h, S2) /\ \A y \in Zeros(h, S2) : t >= y
    <3>1. Zeros(h, S2) \subseteq 0..S2 /\ Zeros(h, S2) # {}
      BY <1>2, <1>4
    <3> HIDE DEF Zeros
    <3> QED BY <3>1, <1>2, MaxOf
  <2> HIDE DEF t
  <2>5. t \in Nat /\ t <= S2 /\ h % Pow2[t] = 0
    BY <2>4, <1>2
  <2>6. S2 + t \in Zeros(x, W)
    <3>1. x % Pow2[S2 + t] = 0
      BY <2>3, <2>5
    <3>2. S2 + t \in 0..W
      BY <2>5, <1>2
    <3> QED BY <3>1, <3>2
  <2>7. ASSUME NEW n \in Zeros(x, W) PROVE S2 + t >= n
    <3>1. n \in 0..W /\ x % Pow2[n] = 0
      OBVIOUS
    <3>2. CASE n <= S2
      BY <3>1, <3>2, <2>5, <1>2
    <3>3. CASE ~(n <= S2)
      <4>1. PICK i \in Nat : i = n - S2
        BY <3>1, <3>3, <1>2
      <4>2. n = S2 + i /\ i \in 0..S2
        BY <4>1, <3>1, <1>2
      <4>3. h % Pow2[i] = 0
        BY <4>2, <3>1, <2>3
      <4>4. i \in Zeros(h, S2)
        BY <4>2, <4>3
      <4>5. t >= i
        BY <4>4, <2>4
      <4> QED BY <4>2, <4>5, <2>5, <1>2
    <3> QED BY <3>2, <3>3
  <2>8. Max(Zeros(x, W)) = S2 + t
    <3>1. Zeros(x, W) \subseteq Int
      BY <1>2
    <3> HIDE DEF Zeros
    <3> QED BY <3>1, <2>6, <2>7, MaxIs
  <2>9. Cttz(x, W) = S2 + t /\ Cttz(h, S2) = t
    BY <1>5, <2>8, Zenon DEF t
  <2>10. t + S2 = S2 + t
    BY <1>2, <2>5
  <2> QED BY <2>2, <2>9, <2>10, Zenon
<1> QED BY <1>6, <1>7

\* The bit that is put above a word bounds its trailing zeros.
LEMMA TrailingNarrow ==
    ASSUME NEW x \in Word, NEW native \in Nat, native > W
    PROVE  CountNarrow(x, FALSE, native) = Cttz(x, W)
<1>1. x \in Nat /\ x \in Int /\ x < M /\ M \in Nat \ {0} /\ M = Pow2[W] /\ W \in Nat
  BY WordBits, WidthFacts
<1>2. PICK y \in Nat : y = x + Pow2[W]
  BY <1>1
<1>3. ASSUME NEW n \in 0..W PROVE n \in 0..native /\ y % Pow2[n] = x % Pow2[n]
  <2>1. y = 1 * M + x /\ x \in 0..(M - 1)
    BY <1>1, <1>2
  <2>2. y % Pow2[W] = x
    BY <2>1, <1>1, DivUnique
  <2>3. (y % Pow2[W]) % Pow2[n] = y % Pow2[n]
    BY <1>1, RemRem
  <2> QED BY <2>2, <2>3, <1>1
<1>4. ASSUME NEW n \in 0..native, y % Pow2[n] = 0 PROVE n \in 0..W
  <2> SUFFICES ASSUME ~(n <= W) PROVE FALSE
    BY <1>1
  <2>1. PICK p \in Nat \ {0} : p = Pow2[n]
    BY PowFacts
  <2>2. Pow2[W + 1] = 2 * M
    BY <1>1, PowFacts
  <2>3. 2 * M <= p
    BY <1>1, <2>1, <2>2, PowLess
  <2>4. y = 0 * p + y /\ y \in 0..(p - 1) /\ y # 0
    BY <1>1, <1>2, <2>3
  <2>5. y % p = y
    BY <2>4, DivUnique
  <2> QED BY <1>4, <2>1, <2>4, <2>5
<1>5. {n \in 0..native : y % Pow2[n] = 0} = {n \in 0..W : x % Pow2[n] = 0}
  BY <1>3, <1>4
<1>6. Cttz(y, native) = Cttz(x, W)
  BY <1>5, Zenon DEF Cttz
<1>7. CountNarrow(x, FALSE, native) = Cttz(y, native)
  BY <1>2, Zenon DEF CountNarrow
<1> QED BY <1>6, <1>7, Zenon

---------------------------------------------------------------------------
(* Bits and bytes that are selected or moved. *)

\* bitselect takes each bit from the operand that the mask names (replaceBitSelect).
LEMMA SelectIs ==
    ASSUME NEW x \in Word, NEW y \in Word, NEW z \in Word, NEW i \in 0..(W - 1)
    PROVE  Bit(BitSelect(x, y, z), i) = IF Bit(z, i) = 1 THEN Bit(y, i) ELSE Bit(x, i)
<1>1. Not(z) \in Word /\ Bit(Not(z), i) = 1 - Bit(z, i)
  BY NotBits
<1>2. /\ And(Not(z), x) \in Word /\ And(z, y) \in Word
      /\ Bit(And(Not(z), x), i) = IF Bit(Not(z), i) = 1 /\ Bit(x, i) = 1 THEN 1 ELSE 0
      /\ Bit(And(z, y), i) = IF Bit(z, i) = 1 /\ Bit(y, i) = 1 THEN 1 ELSE 0
  BY <1>1, JoinedBits
<1>3. Bit(Or(And(Not(z), x), And(z, y)), i)
        = IF Bit(And(Not(z), x), i) = 1 \/ Bit(And(z, y), i) = 1 THEN 1 ELSE 0
  BY <1>2, JoinedBits
<1>4. Bit(x, i) \in {0, 1} /\ Bit(y, i) \in {0, 1} /\ Bit(z, i) \in {0, 1}
  BY WordBits, WidthFacts
<1>5. Bit(BitSelect(x, y, z), i) = IF Bit(z, i) = 1 THEN Bit(y, i) ELSE Bit(x, i)
  <2>1. CASE Bit(z, i) = 1
    <3>1. Bit(Not(z), i) = 0
      BY <1>1, <2>1
    <3> QED BY <3>1, <1>2, <1>3, <1>4, <2>1 DEF BitSelect
  <2>2. CASE Bit(z, i) = 0
    <3>1. Bit(Not(z), i) = 1
      BY <1>1, <2>2
    <3> QED BY <3>1, <1>2, <1>3, <1>4, <2>2 DEF BitSelect
  <2> QED BY <1>4, <2>1, <2>2
<1> QED BY <1>5

\* Two bytes are the same if their bits are.
LEMMA SameByte ==
    ASSUME NEW x \in Word, NEW y \in Word, NEW k \in Nat, NEW j \in Nat, NEW q \in 0..W,
           \A i \in 0..(q - 1) : Bit(x, k + i) = Bit(y, j + i)
    PROVE  LShr(x, k) % Pow2[q] = LShr(y, j) % Pow2[q]
<1>1. q \in Nat /\ W \in Nat /\ q <= W
  BY WidthFacts
<1>2. ASSUME NEW v \in Word
      PROVE  /\ v % Pow2[q] \in Word
             /\ \A i \in 0..(W - 1) : Bit(v % Pow2[q], i) = IF i < q THEN Bit(v, i) ELSE 0
  <2>1. v \in Nat /\ v \in Int
    BY WordBits
  <2>2. PICK p \in Nat \ {0} : p = Pow2[q]
    BY <1>1, PowFacts
  <2>3. p <= M
    BY <1>1, <2>2, WidthFacts, PowLess
  <2>4. v % p \in 0..(p - 1)
    BY <2>1, DivFacts
  <2>5. v % p \in Word
    BY <2>3, <2>4, WidthFacts DEF Word
  <2>6. \A i \in 0..(W - 1) : Bit(v % Pow2[q], i) = IF i < q THEN Bit(v, i) ELSE 0
    BY <1>1, <2>1, BitLow
  <2> QED BY <2>2, <2>5, <2>6
<1>3. LShr(x, k) \in Word /\ LShr(y, j) \in Word
  BY LShrBits
<1>4. PICK u \in Word : u = LShr(x, k)
  BY <1>3
<1>5. PICK v \in Word : v = LShr(y, j)
  BY <1>3
<1>6. ASSUME NEW i \in 0..(q - 1) PROVE Bit(u, i) = Bit(v, i)
  <2>1. i \in Nat
    OBVIOUS
  <2>2. Bit(u, i) = Bit(x, k + i) /\ Bit(v, i) = Bit(y, j + i)
    BY <1>4, <1>5, <2>1, LShrBits
  <2> QED BY <2>2
<1>7. \A i \in 0..(W - 1) : Bit(u % Pow2[q], i) = Bit(v % Pow2[q], i)
  <2> SUFFICES ASSUME NEW i \in 0..(W - 1)
               PROVE  Bit(u % Pow2[q], i) = Bit(v % Pow2[q], i)
    OBVIOUS
  <2>1. /\ Bit(u % Pow2[q], i) = IF i < q THEN Bit(u, i) ELSE 0
        /\ Bit(v % Pow2[q], i) = IF i < q THEN Bit(v, i) ELSE 0
    BY <1>2
  <2>2. i < q => i \in 0..(q - 1)
    BY <1>1
  <2> QED BY <2>1, <2>2, <1>6
<1>8. u % Pow2[q] \in Word /\ v % Pow2[q] \in Word
  BY <1>2
<1>9. u % Pow2[q] = v % Pow2[q]
  BY <1>7, <1>8, SameBits
<1> QED BY <1>4, <1>5, <1>9

\* The two bytes of a word change places.
LEMMA Swap2Is ==
    ASSUME NEW x \in Word, NEW k \in 0..1
    PROVE  LShr(Bswap2(x), k * S2) % Pow2[S2] = LShr(x, (1 - k) * S2) % Pow2[S2]
<1>1. S2 \in Nat /\ S2 \in 1..(W - 1) /\ W = S2 + S2 /\ W - S2 = S2 /\ S2 \in 0..W
  BY WidthFacts
<1>2. /\ Bswap2(x) \in Word
      /\ \A i \in 0..(W - 1) :
            Bit(Bswap2(x), i) = IF i < S2 THEN Bit(x, S2 + i) ELSE Bit(x, i - S2)
  BY <1>1, FunnelBits DEF Bswap2
<1>3. CASE k = 0
  <2>1. ASSUME NEW i \in 0..(S2 - 1) PROVE Bit(Bswap2(x), 0 + i) = Bit(x, S2 + i)
    <3>1. i \in 0..(W - 1) /\ 0 + i = i /\ i < S2
      BY <1>1
    <3> QED BY <3>1, <1>2
  <2>2. LShr(Bswap2(x), 0) % Pow2[S2] = LShr(x, S2) % Pow2[S2]
    BY <1>1, <1>2, <2>1, SameByte
  <2>3. k * S2 = 0 /\ (1 - k) * S2 = S2
    BY <1>1, <1>3
  <2> QED BY <2>2, <2>3
<1>4. CASE k = 1
  <2>1. ASSUME NEW i \in 0..(S2 - 1) PROVE Bit(Bswap2(x), S2 + i) = Bit(x, 0 + i)
    <3>1. S2 + i \in 0..(W - 1) /\ 0 + i = i /\ (S2 + i) - S2 = i /\ ~(S2 + i < S2)
      BY <1>1
    <3> QED BY <3>1, <1>2
  <2>2. LShr(Bswap2(x), S2) % Pow2[S2] = LShr(x, 0) % Pow2[S2]
    BY <1>1, <1>2, <2>1, SameByte
  <2>3. k * S2 = S2 /\ (1 - k) * S2 = 0
    BY <1>1, <1>4
  <2> QED BY <2>2, <2>3
<1> QED BY <1>3, <1>4

\* The bits of a mask.
LEMMA OnesBits ==
    ASSUME NEW q \in 0..W
    PROVE  /\ Pow2[q] - 1 \in Word
           /\ \A i \in 0..(W - 1) : Bit(Pow2[q] - 1, i) = IF i < q THEN 1 ELSE 0
<1>1. q \in Nat /\ W \in Nat /\ q <= W /\ M = Pow2[W] /\ M \in Nat \ {0}
  BY WidthFacts
<1>2. PICK p \in Nat \ {0} : p = Pow2[q]
  BY <1>1, PowFacts
<1>3. p <= M
  BY <1>1, <1>2, PowLess
<1>4. PICK g \in Nat \ {0} : M = g * p
  <2>1. W - q \in Nat /\ Pow2[W] = Pow2[W - q] * Pow2[q]
    BY <1>1, PowLess
  <2>2. Pow2[W - q] \in Nat \ {0}
    BY <2>1, PowFacts
  <2> QED BY <2>1, <2>2, <1>1, <1>2
<1>5. 0 \in Word /\ Not(0) = M - 1
  BY <1>1 DEF Word, Not, AllOnes
<1>6. PICK x \in Word : x = M - 1
  BY <1>5, NotBits
<1>7. \A i \in 0..(W - 1) : Bit(x, i) = 1
  <2>1. 0 < Pow2[0]
    BY PowFacts
  <2>2. ASSUME NEW i \in 0..(W - 1) PROVE Bit(0, i) = 0
    BY <2>1, NoBits
  <2>3. ASSUME NEW i \in 0..(W - 1) PROVE Bit(x, i) = 1
    <3>1. Bit(Not(0), i) = 1 - Bit(0, i)
      BY <1>5, NotBits
    <3> QED BY <3>1, <2>2, <1>5, <1>6
  <2> QED BY <2>3
<1>8. x % p = p - 1
  <2>1. (g - 1) * p = g * p - p /\ g * p \in Int
    OBVIOUS
  <2>2. PICK e \in Int : e = g - 1
    OBVIOUS
  <2>3. x = e * p + (p - 1) /\ p - 1 \in 0..(p - 1)
    BY <1>4, <1>6, <2>1, <2>2
  <2>4. x \in Int
    BY WordBits
  <2> QED BY <2>3, <2>4, DivUnique
<1>9. x \in Nat
  BY WordBits
<1>10. \A i \in 0..(W - 1) : Bit(x % Pow2[q], i) = IF i < q THEN Bit(x, i) ELSE 0
  BY <1>1, <1>9, BitLow
<1>11. p - 1 \in Word
  BY <1>1, <1>3 DEF Word
<1> QED BY <1>2, <1>7, <1>8, <1>10, <1>11

\* The four bytes of a word are reversed.
LEMMA Swap4Bits ==
    ASSUME NEW x \in Word, NEW q \in Nat, W = 4 * q, q > 0
    PROVE  /\ Bswap4(x) \in Word
           /\ \A i \in 0..(W - 1) :
                 Bit(Bswap4(x), i) = IF i < q THEN Bit(x, i + 3 * q)
                                     ELSE IF i < 2 * q THEN Bit(x, i + q)
                                     ELSE IF i < 3 * q THEN Bit(x, i - q)
                                     ELSE Bit(x, i - 3 * q)
<1>1. W \div 4 = q /\ W \in Nat
  <2>1. W = q * 4 + 0 /\ 0 \in 0..(4 - 1) /\ W \in Int
    OBVIOUS
  <2> QED BY <2>1, DivUnique
<1>2. q \in 0..W
  BY <1>1
<1> DEFINE ones == Pow2[q] - 1
           mask == Shl(ones, q)
           low == And(x, mask)
           high == LShr(x, q)
           t1 == Shl(x, 3 * q)
           t2 == Shl(low, q)
           t3 == And(high, mask)
           t4 == LShr(x, 3 * q)
<1>3. Bswap4(x) = Or(Or(t1, t2), Or(t3, t4))
  BY <1>1, Zenon DEF Bswap4
<1>4. ones \in Word /\ \A i \in 0..(W - 1) : Bit(ones, i) = IF i < q THEN 1 ELSE 0
  BY <1>2, OnesBits
<1> HIDE DEF ones
<1>5. /\ mask \in Word
      /\ \A i \in 0..(W - 1) : Bit(mask, i) = IF i < q THEN 0 ELSE Bit(ones, i - q)
  BY <1>4, ShlBits
<1>6. ASSUME NEW i \in 0..(W - 1)
      PROVE  Bit(mask, i) = IF q <= i /\ i < 2 * q THEN 1 ELSE 0
  <2>1. CASE i < q
    BY <1>5, <2>1
  <2>2. CASE ~(i < q)
    <3>1. PICK j \in 0..(W - 1) : j = i - q
      <4>1. i - q \in 0..(W - 1)
        BY <1>1, <2>2
      <4> QED BY <4>1
    <3>2. Bit(mask, i) = Bit(ones, j)
      BY <1>5, <2>2, <3>1
    <3>3. Bit(ones, j) = IF j < q THEN 1 ELSE 0
      BY <1>4
    <3>4. j < q <=> i < 2 * q
      BY <1>1, <3>1
    <3> QED BY <3>2, <3>3, <3>4, <2>2, <1>1
  <2> QED BY <2>1, <2>2
<1> HIDE DEF mask
<1>7. low \in Word /\ \A i \in 0..(W - 1) : Bit(low, i) = IF Bit(x, i) = 1 /\ Bit(mask, i) = 1 THEN 1 ELSE 0
  BY <1>5, JoinedBits
<1>8. high \in Word /\ \A i \in Nat : Bit(high, i) = Bit(x, q + i)
  BY LShrBits
<1> HIDE DEF low, high
<1>9. 3 * q \in Nat
  OBVIOUS
<1>10. t1 \in Word /\ \A i \in 0..(W - 1) : Bit(t1, i) = IF i < 3 * q THEN 0 ELSE Bit(x, i - 3 * q)
  BY <1>9, ShlBits
<1>11. t2 \in Word /\ \A i \in 0..(W - 1) : Bit(t2, i) = IF i < q THEN 0 ELSE Bit(low, i - q)
  BY <1>7, ShlBits
<1>12. t3 \in Word /\ \A i \in 0..(W - 1) : Bit(t3, i) = IF Bit(high, i) = 1 /\ Bit(mask, i) = 1 THEN 1 ELSE 0
  BY <1>5, <1>8, JoinedBits
<1>13. t4 \in Word /\ \A i \in Nat : Bit(t4, i) = Bit(x, 3 * q + i)
  BY <1>9, LShrBits
<1> HIDE DEF t1, t2, t3, t4
<1>14. Or(t1, t2) \in Word /\ Or(t3, t4) \in Word
  BY <1>10, <1>11, <1>12, <1>13, JoinedBits
<1>15. Bswap4(x) \in Word
  BY <1>3, <1>14, JoinedBits
<1>16. ASSUME NEW i \in 0..(W - 1)
       PROVE  Bit(Bswap4(x), i) = IF Bit(t1, i) = 1 \/ Bit(t2, i) = 1 \/ Bit(t3, i) = 1 \/ Bit(t4, i) = 1
                                  THEN 1 ELSE 0
  <2>1. Bit(Bswap4(x), i) = IF Bit(Or(t1, t2), i) = 1 \/ Bit(Or(t3, t4), i) = 1 THEN 1 ELSE 0
    BY <1>3, <1>14, JoinedBits
  <2>2. Bit(Or(t1, t2), i) = IF Bit(t1, i) = 1 \/ Bit(t2, i) = 1 THEN 1 ELSE 0
    BY <1>10, <1>11, JoinedBits
  <2>3. Bit(Or(t3, t4), i) = IF Bit(t3, i) = 1 \/ Bit(t4, i) = 1 THEN 1 ELSE 0
    BY <1>12, <1>13, JoinedBits
  <2> QED BY <2>1, <2>2, <2>3
<1>17. \A i \in Nat : Bit(x, i) \in {0, 1} /\ (i >= W => Bit(x, i) = 0)
  BY WordBits
<1>18. ASSUME NEW i \in 0..(W - 1)
       PROVE  /\ Bit(t1, i) = IF i < 3 * q THEN 0 ELSE Bit(x, i - 3 * q)
              /\ Bit(t2, i) = IF 2 * q <= i /\ i < 3 * q THEN Bit(x, i - q) ELSE 0
              /\ Bit(t3, i) = IF q <= i /\ i < 2 * q THEN Bit(x, i + q) ELSE 0
              /\ Bit(t4, i) = IF i < q THEN Bit(x, i + 3 * q) ELSE 0
  <2>1. Bit(t1, i) = IF i < 3 * q THEN 0 ELSE Bit(x, i - 3 * q)
    BY <1>10
  <2>2. Bit(t2, i) = IF 2 * q <= i /\ i < 3 * q THEN Bit(x, i - q) ELSE 0
    <3>1. CASE i < q
      <4>1. ~(2 * q <= i)
        BY <3>1, <1>1
      <4> QED BY <3>1, <4>1, <1>11
    <3>2. CASE ~(i < q)
      <4>1. PICK j \in 0..(W - 1) : j = i - q
        <5>1. i - q \in 0..(W - 1)
          BY <1>1, <3>2
        <5> QED BY <5>1
      <4>2. Bit(t2, i) = Bit(low, j)
        BY <1>11, <3>2, <4>1
      <4>3. Bit(low, j) = IF Bit(x, j) = 1 /\ Bit(mask, j) = 1 THEN 1 ELSE 0
        BY <1>7
      <4>4. Bit(mask, j) = IF q <= j /\ j < 2 * q THEN 1 ELSE 0
        BY <1>6
      <4>5. (q <= j <=> 2 * q <= i) /\ (j < 2 * q <=> i < 3 * q) /\ j \in Nat
        BY <1>1, <4>1
      <4>6. Bit(x, j) \in {0, 1}
        BY <4>5, <1>17
      <4> QED BY <4>1, <4>2, <4>3, <4>4, <4>5, <4>6
    <3> QED BY <3>1, <3>2
  <2>3. Bit(t3, i) = IF q <= i /\ i < 2 * q THEN Bit(x, i + q) ELSE 0
    <3>1. PICK j \in Nat : j = i + q /\ j = q + i
      BY <1>1
    <3>2. i \in Nat
      BY <1>1
    <3>3. Bit(high, i) = Bit(x, j)
      BY <1>8, <3>1, <3>2
    <3>4. Bit(t3, i) = IF Bit(high, i) = 1 /\ Bit(mask, i) = 1 THEN 1 ELSE 0
      BY <1>12
    <3>5. Bit(mask, i) = IF q <= i /\ i < 2 * q THEN 1 ELSE 0
      BY <1>6
    <3>6. Bit(x, j) \in {0, 1}
      BY <1>17
    <3> QED BY <3>1, <3>3, <3>4, <3>5, <3>6
  <2>4. Bit(t4, i) = IF i < q THEN Bit(x, i + 3 * q) ELSE 0
    <3>1. PICK j \in Nat : j = i + 3 * q /\ j = 3 * q + i
      BY <1>1
    <3>2. i \in Nat
      BY <1>1
    <3>3. Bit(t4, i) = Bit(x, j)
      BY <1>13, <3>1, <3>2
    <3>4. ~(i < q) => j >= W
      BY <1>1, <3>1, <3>2
    <3>5. j >= W => Bit(x, j) = 0
      BY <1>17
    <3> QED BY <3>1, <3>3, <3>4, <3>5
  <2> QED BY <2>1, <2>2, <2>3, <2>4
<1>19. ASSUME NEW i \in 0..(W - 1)
       PROVE  Bit(Bswap4(x), i) = IF i < q THEN Bit(x, i + 3 * q)
                                  ELSE IF i < 2 * q THEN Bit(x, i + q)
                                  ELSE IF i < 3 * q THEN Bit(x, i - q)
                                  ELSE Bit(x, i - 3 * q)
  <2>1. i \in Nat
    BY <1>1
  <2>2. CASE i < q
    <3>1. PICK j \in Nat : j = i + 3 * q
      BY <2>1
    <3>2. Bit(x, j) \in {0, 1}
      BY <1>17
    <3> QED BY <1>16, <1>18, <2>1, <2>2, <3>1, <3>2
  <2>3. CASE q <= i /\ i < 2 * q
    <3>1. PICK j \in Nat : j = i + q
      BY <2>1
    <3>2. Bit(x, j) \in {0, 1}
      BY <1>17
    <3> QED BY <1>16, <1>18, <2>1, <2>3, <3>1, <3>2
  <2>4. CASE 2 * q <= i /\ i < 3 * q
    <3>1. PICK j \in Nat : j = i - q
      BY <2>1, <2>4
    <3>2. Bit(x, j) \in {0, 1}
      BY <1>17
    <3> QED BY <1>16, <1>18, <2>1, <2>4, <3>1, <3>2
  <2>5. CASE 3 * q <= i
    <3>1. PICK j \in Nat : j = i - 3 * q
      BY <2>1, <2>5
    <3>2. Bit(x, j) \in {0, 1}
      BY <1>17
    <3> QED BY <1>16, <1>18, <2>1, <2>5, <3>1, <3>2
  <2> QED BY <2>1, <2>2, <2>3, <2>4, <2>5
<1> QED BY <1>15, <1>19

\* bswap of four bytes: byte k of the result is byte 3 - k of the operand
\* (replaceBswap).
LEMMA Swap4Is ==
    ASSUME NEW x \in Word, NEW k \in 0..3
    PROVE  LShr(Bswap4(x), k * (W \div 4)) % Pow2[W \div 4]
             = LShr(x, (3 - k) * (W \div 4)) % Pow2[W \div 4]
<1>1. PICK q \in Nat : q = W \div 4 /\ W = 4 * q /\ q > 0
  <2>1. W \in Nat \ {0} /\ W % 4 = 0 /\ W \in Int
    BY WidthFacts, BytesAssumption
  <2>2. W \div 4 \in Nat /\ W = (W \div 4) * 4 + (W % 4)
    BY <2>1, DivFacts
  <2>3. W = 4 * (W \div 4) /\ W \div 4 > 0
    BY <2>1, <2>2
  <2> QED BY <2>2, <2>3
<1>2. Bswap4(x) \in Word
  BY <1>1, Swap4Bits
<1>3. PICK s \in Word : s = Bswap4(x)
  BY <1>2
<1>4. \A i \in 0..(W - 1) :
         Bit(s, i) = IF i < q THEN Bit(x, i + 3 * q)
                     ELSE IF i < 2 * q THEN Bit(x, i + q)
                     ELSE IF i < 3 * q THEN Bit(x, i - q)
                     ELSE Bit(x, i - 3 * q)
  BY <1>1, <1>3, Swap4Bits
<1>5. q \in 0..W
  BY <1>1
<1>6. CASE k = 0
  <2>1. ASSUME NEW i \in 0..(q - 1) PROVE Bit(s, 0 + i) = Bit(x, 3 * q + i)
    <3>1. i \in 0..(W - 1) /\ 0 + i = i /\ i < q /\ i + 3 * q = 3 * q + i
      BY <1>1
    <3> QED BY <3>1, <1>4
  <2>2. LShr(s, 0) % Pow2[q] = LShr(x, 3 * q) % Pow2[q]
    BY <1>5, <2>1, SameByte
  <2>3. k * q = 0 /\ (3 - k) * q = 3 * q
    BY <1>6
  <2> QED BY <1>1, <1>3, <2>2, <2>3
<1>7. CASE k = 1
  <2>1. ASSUME NEW i \in 0..(q - 1) PROVE Bit(s, q + i) = Bit(x, 2 * q + i)
    <3>1. PICK j \in 0..(W - 1) : j = q + i
      <4>1. q + i \in 0..(W - 1)
        BY <1>1
      <4> QED BY <4>1
    <3>2. ~(j < q) /\ j < 2 * q /\ j + q = 2 * q + i
      BY <3>1
    <3> QED BY <3>1, <3>2, <1>4
  <2>2. 2 * q \in Nat
    OBVIOUS
  <2>3. LShr(s, q) % Pow2[q] = LShr(x, 2 * q) % Pow2[q]
    BY <1>5, <2>1, <2>2, SameByte
  <2>4. k * q = q /\ (3 - k) * q = 2 * q
    BY <1>7
  <2> QED BY <1>1, <1>3, <2>3, <2>4
<1>8. CASE k = 2
  <2>1. ASSUME NEW i \in 0..(q - 1) PROVE Bit(s, 2 * q + i) = Bit(x, q + i)
    <3>1. PICK j \in 0..(W - 1) : j = 2 * q + i
      <4>1. 2 * q + i \in 0..(W - 1)
        BY <1>1
      <4> QED BY <4>1
    <3>2. ~(j < q) /\ ~(j < 2 * q) /\ j < 3 * q /\ j - q = q + i
      BY <3>1
    <3> QED BY <3>1, <3>2, <1>4
  <2>2. 2 * q \in Nat
    OBVIOUS
  <2>3. LShr(s, 2 * q) % Pow2[q] = LShr(x, q) % Pow2[q]
    BY <1>5, <2>1, <2>2, SameByte
  <2>4. k * q = 2 * q /\ (3 - k) * q = q
    BY <1>8
  <2> QED BY <1>1, <1>3, <2>3, <2>4
<1>9. CASE k = 3
  <2>1. ASSUME NEW i \in 0..(q - 1) PROVE Bit(s, 3 * q + i) = Bit(x, 0 + i)
    <3>1. PICK j \in 0..(W - 1) : j = 3 * q + i
      <4>1. 3 * q + i \in 0..(W - 1)
        BY <1>1
      <4> QED BY <4>1
    <3>2. ~(j < q) /\ ~(j < 2 * q) /\ ~(j < 3 * q) /\ j - 3 * q = 0 + i
      BY <3>1
    <3> QED BY <3>1, <3>2, <1>4
  <2>2. 3 * q \in Nat
    OBVIOUS
  <2>3. LShr(s, 3 * q) % Pow2[q] = LShr(x, 0) % Pow2[q]
    BY <1>5, <2>1, <2>2, SameByte
  <2>4. k * q = 3 * q /\ (3 - k) * q = 0
    BY <1>9
  <2> QED BY <1>1, <1>3, <2>3, <2>4
<1> QED BY <1>6, <1>7, <1>8, <1>9

\* The counted zeros, selections and swaps of operands.
LEMMA MovesLemma == OperandsOK => MovesExact
<1> SUFFICES ASSUME OperandsOK PROVE MovesExact
  OBVIOUS
<1>1. a \in Word /\ b \in Word /\ c \in Word
  BY ThirdAssumption DEF OperandsOK
<1>2. W + 1 \in Nat /\ W + 1 > W /\ 2 * W \in Nat /\ 2 * W > W
  BY WidthFacts
<1>3. ASSUME NEW native \in {W + 1, 2 * W}
      PROVE  /\ CountNarrow(a, TRUE, native) = Ctlz(a, W)
             /\ CountNarrow(a, FALSE, native) = Cttz(a, W)
  <2>1. native \in Nat /\ native > W
    BY <1>2
  <2> QED BY <2>1, <1>1, LeadingNarrow, TrailingNarrow
<1>4. CountHalves(a, TRUE) = Ctlz(a, W) /\ CountHalves(a, FALSE) = Cttz(a, W)
  BY <1>1, LeadingHalves, TrailingHalves
<1>5. \A i \in 0..(W - 1) :
         Bit(BitSelect(a, b, c), i) = IF Bit(c, i) = 1 THEN Bit(b, i) ELSE Bit(a, i)
  BY <1>1, SelectIs
<1> DEFINE swapped(bytes) == IF bytes = 2 THEN Bswap2(a) ELSE Bswap4(a)
           byte(x, i, bytes) == LShr(x, i * (W \div bytes)) % Pow2[W \div bytes]
<1>6. ASSUME NEW bytes \in {2, 4}, NEW k \in 0..(bytes - 1)
      PROVE  byte(swapped(bytes), k, bytes) = byte(a, bytes - 1 - k, bytes)
  <2>1. CASE bytes = 2
    <3>1. k \in 0..1 /\ 2 - 1 - k = 1 - k
      BY <2>1
    <3>2. LShr(Bswap2(a), k * S2) % Pow2[S2] = LShr(a, (1 - k) * S2) % Pow2[S2]
      BY <3>1, <1>1, Swap2Is
    <3> QED BY <3>1, <3>2, <2>1 DEF S2
  <2>2. CASE bytes = 4
    <3>1. k \in 0..3 /\ 4 - 1 - k = 3 - k
      BY <2>2
    <3>2. LShr(Bswap4(a), k * (W \div 4)) % Pow2[W \div 4]
            = LShr(a, (3 - k) * (W \div 4)) % Pow2[W \div 4]
      BY <3>1, <1>1, Swap4Is
    <3> QED BY <3>1, <3>2, <2>2
  <2> QED BY <2>1, <2>2
<1> QED BY <1>3, <1>4, <1>5, <1>6 DEF MovesExact

---------------------------------------------------------------------------
(* Products. *)

\* There is only one pair of words for a number, up to a multiple of the square of
\* the modulus.
LEMMA PairUnique ==
    ASSUME NEW n \in Int, NEW lo \in Word, NEW hi \in Word, NEW k \in Int,
           lo + M * hi = n + k * (M * M)
    PROVE  n % M = lo /\ (n \div M) % M = hi
<1>1. M \in Nat \ {0} /\ lo \in 0..(M - 1) /\ hi \in 0..(M - 1)
  BY WidthFacts DEF Word
<1>2. PICK m \in Nat \ {0} : m = M
  BY <1>1
<1>3. PICK l \in 0..(m - 1) : l = lo
  BY <1>1, <1>2
<1>4. PICK h \in 0..(m - 1) : h = hi
  BY <1>1, <1>2
<1>5. l + m * h = n + k * (m * m)
  BY <1>2, <1>3, <1>4
<1>6. PICK q \in Int : q = h - k * m
  OBVIOUS
<1>7. n = q * m + l
  <2>1. q * m = m * h - k * (m * m)
    BY <1>6
  <2>2. m * h \in Int /\ k * (m * m) \in Int
    OBVIOUS
  <2> QED BY <2>1, <2>2, <1>5
<1>8. n \div m = q /\ n % m = l
  BY <1>7, DivUnique
<1>9. PICK j \in Int : j = -k
  OBVIOUS
<1>10. q = j * m + h
  BY <1>6, <1>9
<1>11. q % m = h
  BY <1>10, DivUnique
<1> QED BY <1>2, <1>3, <1>4, <1>8, <1>11

\* Products of numbers below bounds.
LEMMA ProductBelow ==
    ASSUME NEW x \in Nat, NEW y \in Nat, NEW p \in Nat, NEW q \in Nat, x < p, y < q
    PROVE  x * y < p * q
<1>1. PICK d \in Nat : p = x + 1 + d
  <2>1. p - x - 1 \in Nat /\ p = x + 1 + (p - x - 1)
    OBVIOUS
  <2> QED BY <2>1
<1>2. PICK e \in Nat : q = y + 1 + e
  <2>1. q - y - 1 \in Nat /\ q = y + 1 + (q - y - 1)
    OBVIOUS
  <2> QED BY <2>1
<1>3. p * q = x * y + x * (1 + e) + (1 + d) * y + (1 + d) * (1 + e)
  BY <1>1, <1>2
<1>4. x * (1 + e) \in Nat /\ (1 + d) * y \in Nat /\ x * y \in Nat
  OBVIOUS
<1>5. (1 + d) * (1 + e) = 1 + d + e + d * e /\ d * e \in Nat
  OBVIOUS
<1> QED BY <1>3, <1>4, <1>5

\* A number that fits in two words is what its pair of words says.
LEMMA PairExact ==
    ASSUME NEW n \in Int, NEW signed \in BOOLEAN,
           signed => -(Half * M) <= n /\ n < Half * M,
           ~signed => 0 <= n /\ n < M * M
    PROVE  /\ n % M \in Word /\ (n \div M) % M \in Word
           /\ (n % M) + M * Value((n \div M) % M, signed) = n
<1>1. PICK m \in Nat \ {0} : m = M
  BY WidthFacts
<1>2. PICK h \in Nat \ {0} : h = Half /\ m = 2 * h
  BY <1>1, WidthFacts DEF M
<1>3. PICK q \in Int : q = n \div m
  BY DivFacts
<1>4. PICK r \in 0..(m - 1) : r = n % m
  BY DivFacts
<1>5. n = q * m + r
  BY <1>3, <1>4, DivFacts
<1>6. PICK s \in 0..(m - 1) : s = q % m
  BY DivFacts
<1>7. ASSUME NEW lower \in Int, NEW upper \in Int, lower * m <= n, n < upper * m
      PROVE  lower <= q /\ q < upper
  <2>1. q * m \in Int /\ lower * m \in Int /\ upper * m \in Int
    OBVIOUS
  <2>2. ~(q < lower)
    <3> SUFFICES ASSUME q < lower PROVE FALSE
      OBVIOUS
    <3>1. q * m + m <= lower * m
      BY Below
    <3> QED BY <3>1, <2>1, <1>5, <1>7
  <2>3. ~(upper <= q)
    <3> SUFFICES ASSUME upper <= q PROVE FALSE
      OBVIOUS
    <3>1. CASE upper = q
      BY <3>1, <2>1, <1>5, <1>7
    <3>2. CASE upper < q
      <4>1. upper * m + m <= q * m
        BY <3>2, Below
      <4> QED BY <4>1, <2>1, <1>5, <1>7
    <3> QED BY <3>1, <3>2
  <2> QED BY <2>2, <2>3
<1>8. Value(s, signed) = q
  <2>1. CASE signed
    <3>1. (-h) * m = -(h * m) /\ -h \in Int
      OBVIOUS
    <3>2. -(h * m) <= n /\ n < h * m
      BY <1>1, <1>2, <2>1
    <3>3. (-h) * m <= n
      BY <3>1, <3>2
    <3>4. -h <= q /\ q < h
      <4>1. PICK lower \in Int : lower = -h
        OBVIOUS
      <4>2. lower * m <= n /\ n < h * m /\ h \in Int
        BY <4>1, <3>2, <3>3
      <4>3. lower <= q /\ q < h
        BY <4>2, <1>7
      <4> QED BY <4>1, <4>3
    <3>5. CASE q >= 0
      <4>1. PICK e \in 0..(m - 1) : e = q
        BY <3>4, <3>5, <1>2
      <4>2. q = 0 * m + e
        BY <4>1
      <4>3. q % m = e
        BY <4>2, DivUnique
      <4>4. s = q
        BY <4>1, <4>3, <1>6
      <4> QED BY <4>4, <3>4, <2>1, <1>2 DEF Value
    <3>6. CASE q < 0
      <4>1. q = (-1) * m + (q + m) /\ q + m \in 0..(m - 1) /\ -1 \in Int
        BY <3>4, <3>6, <1>2
      <4>2. s = q + m
        BY <4>1, <1>6, DivUnique
      <4>3. s >= h
        BY <4>2, <3>4, <1>2
      <4> QED BY <4>2, <4>3, <2>1, <1>1, <1>2 DEF Value
    <3> QED BY <3>5, <3>6
  <2>2. CASE ~signed
    <3>1. 0 * m <= n /\ n < m * m /\ 0 \in Int /\ m \in Int
      BY <1>1, <2>2
    <3>2. 0 <= q /\ q < m
      BY <1>7, <3>1, Zenon
    <3>3. PICK e \in 0..(m - 1) : e = q
      BY <3>2
    <3>4. s = q
      <4>1. q = 0 * m + e
        BY <3>3
      <4>2. q % m = e
        BY <4>1, DivUnique
      <4> QED BY <4>2, <3>3, <1>6
    <3> QED BY <3>4, <2>2 DEF Value
  <2> QED BY <2>1, <2>2
<1>9. r + m * q = n
  BY <1>5
<1> QED BY <1>1, <1>3, <1>4, <1>6, <1>8, <1>9 DEF Word

\* The size of the product of two words.
LEMMA ProductRange ==
    ASSUME NEW x \in Word, NEW y \in Word, NEW signed \in BOOLEAN
    PROVE  LET n == Value(x, signed) * Value(y, signed)
           IN  /\ n \in Int
               /\ signed => -(Half * M) <= n /\ n < Half * M
               /\ ~signed => 0 <= n /\ n < M * M
<1>1. PICK h \in Nat \ {0} : h = Half /\ M = 2 * h
  BY WidthFacts DEF M
<1>2. PICK m \in Nat \ {0} : m = M
  BY WidthFacts
<1>3. CASE ~signed
  <2>1. PICK u \in Nat : u = Value(x, signed) /\ u < m
    BY <1>2, <1>3 DEF Word, Value
  <2>2. PICK v \in Nat : v = Value(y, signed) /\ v < m
    BY <1>2, <1>3 DEF Word, Value
  <2>3. u * v < m * m /\ u * v \in Nat
    BY <2>1, <2>2, ProductBelow
  <2> QED BY <2>1, <2>2, <2>3, <1>2, <1>3
<1>4. CASE signed
  <2>0. x \in 0..(2 * h - 1) /\ y \in 0..(2 * h - 1)
    BY <1>1 DEF Word
  <2>1. PICK u \in Int : u = Value(x, signed) /\ -h <= u /\ u < h
    <3>1. Value(x, signed) = IF x >= h THEN x - 2 * h ELSE x
      BY <1>1, <1>4 DEF Value
    <3>2. Value(x, signed) \in Int /\ -h <= Value(x, signed) /\ Value(x, signed) < h
      BY <3>1, <2>0
    <3> QED BY <3>2
  <2>2. PICK v \in Int : v = Value(y, signed) /\ -h <= v /\ v < h
    <3>1. Value(y, signed) = IF y >= h THEN y - 2 * h ELSE y
      BY <1>1, <1>4 DEF Value
    <3>2. Value(y, signed) \in Int /\ -h <= Value(y, signed) /\ Value(y, signed) < h
      BY <3>1, <2>0
    <3> QED BY <3>2
  <2>3. PICK e \in Nat : e = IF u < 0 THEN -u ELSE u
    <3>1. (IF u < 0 THEN -u ELSE u) \in Nat
      OBVIOUS
    <3> QED BY <3>1
  <2>4. PICK f \in Nat : f = IF v < 0 THEN -v ELSE v
    <3>1. (IF v < 0 THEN -v ELSE v) \in Nat
      OBVIOUS
    <3> QED BY <3>1
  <2>5. e < h + 1 /\ f < 2 * h
    BY <2>1, <2>2, <2>3, <2>4
  <2>6. e * f < h * (2 * h)
    <3>1. CASE e < h
      BY <3>1, <2>5, ProductBelow
    <3>2. CASE e = h
      <4>1. PICK d \in Nat : 2 * h = f + 1 + d
        <5>1. 2 * h - f - 1 \in Nat /\ 2 * h = f + 1 + (2 * h - f - 1)
          BY <2>5
        <5> QED BY <5>1
      <4>2. h * (2 * h) = h * f + h + h * d
        BY <4>1
      <4>3. h * f \in Nat /\ h * d \in Nat
        OBVIOUS
      <4> QED BY <4>2, <4>3, <3>2
    <3> QED BY <3>1, <3>2, <2>5
  <2>7. u * v = e * f \/ u * v = -(e * f)
    <3>1. (u = e \/ u = -e) /\ (v = f \/ v = -f)
      BY <2>3, <2>4
    <3>2. (-e) * (-f) = e * f /\ e * (-f) = -(e * f) /\ (-e) * f = -(e * f)
      OBVIOUS
    <3> QED BY <3>1, <3>2
  <2>8. e * f \in Nat /\ u * v \in Int /\ h * (2 * h) \in Nat
    OBVIOUS
  <2>9. -(h * (2 * h)) <= u * v /\ u * v < h * (2 * h)
    BY <2>6, <2>7, <2>8
  <2> QED BY <2>1, <2>2, <2>8, <2>9, <1>1, <1>4
<1> QED BY <1>3, <1>4

\* The product by words of twice the width.
LEMMA DoubledIs ==
    ASSUME NEW x \in Word, NEW y \in Word, NEW signed \in BOOLEAN
    PROVE  MulDoubled(x, y, signed) = MulExtended(x, y, signed)
<1>1. PICK m \in Nat \ {0} : m = M
  BY WidthFacts
<1>2. PICK s \in Nat \ {0} : s = m * m
  OBVIOUS
<1>3. PICK u \in Int : u = Value(x, signed)
  BY WidthFacts DEF Word, Value
<1>4. PICK v \in Int : v = Value(y, signed)
  BY WidthFacts DEF Word, Value
<1>5. PICK i \in Int, e \in Nat : e = u % s /\ u = i * s + e
  <2>1. PICK q \in Int : q = u \div s
    BY DivFacts
  <2>2. PICK r \in 0..(s - 1) : r = u % s
    BY DivFacts
  <2>3. u = q * s + r /\ r \in Nat
    BY <2>1, <2>2, DivFacts
  <2> QED BY <2>2, <2>3
<1>6. PICK j \in Int, f \in Nat : f = v % s /\ v = j * s + f
  <2>1. PICK q \in Int : q = v \div s
    BY DivFacts
  <2>2. PICK r \in 0..(s - 1) : r = v % s
    BY DivFacts
  <2>3. v = q * s + r /\ r \in Nat
    BY <2>1, <2>2, DivFacts
  <2> QED BY <2>2, <2>3
<1>7. PICK k \in Int, g \in 0..(s - 1) : g = (e * f) % s /\ e * f = k * s + g
  <2>1. PICK z \in Int : z = e * f
    OBVIOUS
  <2>2. PICK q \in Int : q = z \div s
    BY DivFacts
  <2>3. PICK r \in 0..(s - 1) : r = z % s
    BY DivFacts
  <2>4. z = q * s + r
    BY <2>2, <2>3, DivFacts
  <2> QED BY <2>1, <2>3, <2>4
<1>8. PICK t \in Int : g = u * v + t * s
  <2>1. u * v = (i * j * s + i * f + e * j) * s + e * f
    BY <1>5, <1>6
  <2>2. PICK d \in Int : d = i * j * s + i * f + e * j
    OBVIOUS
  <2>3. u * v = d * s + (k * s + g)
    BY <2>1, <2>2, <1>7
  <2>4. (-(d + k)) * s = -(d * s) - k * s
    OBVIOUS
  <2>5. d * s \in Int /\ k * s \in Int /\ u * v \in Int
    OBVIOUS
  <2>6. g = u * v + (-(d + k)) * s /\ -(d + k) \in Int
    BY <2>3, <2>4, <2>5
  <2> QED BY <2>6
<1>9. PICK hi \in Int : hi = g \div m
  BY DivFacts
<1>10. PICK lo \in 0..(m - 1) : lo = g % m
  BY DivFacts
<1>11. g = hi * m + lo
  BY <1>9, <1>10, DivFacts
<1>12. hi \in 0..(m - 1)
  <2>1. hi * m \in Int
    OBVIOUS
  <2>2. ~(hi < 0)
    <3> SUFFICES ASSUME hi < 0 PROVE FALSE
      OBVIOUS
    <3>1. hi * m + m <= 0 * m
      BY Below
    <3> QED BY <3>1, <2>1, <1>11
  <2>3. ~(m <= hi)
    <3> SUFFICES ASSUME m <= hi PROVE FALSE
      OBVIOUS
    <3>1. CASE m = hi
      BY <3>1, <1>2, <1>11
    <3>2. CASE m < hi
      <4>1. m * m + m <= hi * m
        BY <3>2, Below
      <4> QED BY <4>1, <2>1, <1>2, <1>11
    <3> QED BY <3>1, <3>2
  <2> QED BY <2>2, <2>3
<1>13. hi % m = hi
  <2>1. hi = 0 * m + hi
    OBVIOUS
  <2> QED BY <2>1, <1>12, DivUnique
<1>14. MulDoubled(x, y, signed) = Pair(lo, hi)
  <2>1. M * M = s
    BY <1>1, <1>2
  <2>2. Pow2[W] = m
    BY <1>1, WidthFacts
  <2>3. MulDoubled(x, y, signed) = Pair(g % M, (g \div Pow2[W]) % M)
    BY <2>1, <1>3, <1>4, <1>5, <1>6, <1>7, Zenon DEF MulDoubled, LShr
  <2> QED BY <2>2, <2>3, <1>1, <1>9, <1>10, <1>13, Zenon
<1>15. (u * v) % M = lo /\ ((u * v) \div M) % M = hi
  <2>1. PICK n \in Int : n = u * v
    OBVIOUS
  <2>2. lo \in Word /\ hi \in Word
    BY <1>1, <1>12 DEF Word
  <2>3. m * hi = hi * m /\ hi * m \in Int /\ t * s \in Int
    OBVIOUS
  <2>4. lo + M * hi = n + t * (M * M)
    BY <2>1, <2>3, <1>1, <1>2, <1>8, <1>11
  <2>5. n % M = lo /\ (n \div M) % M = hi
    BY <2>2, <2>4, PairUnique
  <2> QED BY <2>1, <2>5
<1>16. MulExtended(x, y, signed) = Pair(lo, hi)
  BY <1>3, <1>4, <1>15, Zenon DEF MulExtended
<1> QED BY <1>14, <1>16

\* A number below the divisor is its own remainder.
LEMMA SmallRemainder ==
    ASSUME NEW d \in Nat \ {0}, NEW x \in 0..(d - 1)
    PROVE  x % d = x
<1>1. PICK q \in Int : q = 0
  OBVIOUS
<1>2. x \in Int /\ x = q * d + x
  BY <1>1
<1> QED BY <1>2, DivUnique, Zenon

\* The words that MulHalves puts together of the halves of two magnitudes.
HalvesMiddle(u1, u0, v1, v0) ==
    ((u0 * v0) \div Root + ((u1 * v0) % Root) + ((u0 * v1) % Root)) % M

\* The lower of the two words.
HalvesLower(u1, u0, v1, v0) ==
    Add((u0 * v0) % Root, Shl(HalvesMiddle(u1, u0, v1, v0), S2))

\* The upper of the two words.
HalvesUpper(u1, u0, v1, v0) ==
    Add((((u1 * v1) % Root) + (u1 * v0) \div Root + (u0 * v1) \div Root
           + Carry(HalvesMiddle(u1, u0, v1, v0))) % M,
        Shl((u1 * v1) \div Root, S2))

\* They are the words of the product; the middle carries at most two into the upper.
LEMMA HalvesMultiplied ==
    ASSUME NEW r \in Nat \ {0}, r = Root,
           NEW u1 \in 0..(r - 1), NEW u0 \in 0..(r - 1),
           NEW v1 \in 0..(r - 1), NEW v0 \in 0..(r - 1)
    PROVE  /\ HalvesLower(u1, u0, v1, v0) \in Word
           /\ HalvesUpper(u1, u0, v1, v0) \in Word
           /\ HalvesLower(u1, u0, v1, v0) + M * HalvesUpper(u1, u0, v1, v0)
                = (u1 * r + u0) * (v1 * r + v0)
<1>0. \A m \in 0..(r - 1), n \in 0..(r - 1) :
         \E up \in 0..(r - 1), low \in 0..(r - 1) :
            (m * n) \div r = up /\ (m * n) % r = low /\ m * n = up * r + low
  <2> SUFFICES ASSUME NEW m \in 0..(r - 1), NEW n \in 0..(r - 1)
               PROVE  \E up \in 0..(r - 1), low \in 0..(r - 1) :
                         (m * n) \div r = up /\ (m * n) % r = low /\ m * n = up * r + low
    OBVIOUS
  <2>2. PICK p \in Nat : p = m * n /\ p \in Int
    OBVIOUS
  <2>3. PICK up \in Nat : up = p \div r
    BY <2>2, DivFacts
  <2>4. PICK low \in 0..(r - 1) : low = p % r
    BY <2>2, DivFacts
  <2>5. p = up * r + low
    BY <2>2, <2>3, <2>4, DivFacts
  <2>6. p < r * r
    <3>1. m \in Nat /\ n \in Nat /\ m < r /\ n < r
      OBVIOUS
    <3> QED BY <3>1, <2>2, ProductBelow
  <2>7. up < r
    <3> SUFFICES ASSUME ~(up < r) PROVE FALSE
      OBVIOUS
    <3>1. up * r \in Nat /\ r * r \in Nat
      OBVIOUS
    <3>2. CASE up = r
      BY <3>1, <3>2, <2>5, <2>6
    <3>3. CASE r < up
      <4>1. r * r + r <= up * r
        BY <3>3, Below
      <4> QED BY <3>1, <4>1, <2>5, <2>6
    <3> QED BY <3>2, <3>3
  <2>8. up \in 0..(r - 1) /\ low \in 0..(r - 1)
    BY <2>7
  <2> QED BY <2>2, <2>3, <2>4, <2>5, <2>8
<1>1. PICK a1 \in 0..(r - 1), a0 \in 0..(r - 1) :
         (u0 * v0) \div r = a1 /\ (u0 * v0) % r = a0 /\ u0 * v0 = a1 * r + a0
  BY <1>0
<1>2. PICK b1 \in 0..(r - 1), b0 \in 0..(r - 1) :
         (u1 * v0) \div r = b1 /\ (u1 * v0) % r = b0 /\ u1 * v0 = b1 * r + b0
  BY <1>0
<1>3. PICK c1 \in 0..(r - 1), c0 \in 0..(r - 1) :
         (u0 * v1) \div r = c1 /\ (u0 * v1) % r = c0 /\ u0 * v1 = c1 * r + c0
  BY <1>0
<1>4. PICK d1 \in 0..(r - 1), d0 \in 0..(r - 1) :
         (u1 * v1) \div r = d1 /\ (u1 * v1) % r = d0 /\ u1 * v1 = d1 * r + d0
  BY <1>0
<1>5. PICK m \in Nat \ {0} : m = r * r /\ m = M
  BY WidthFacts
<1>6. r >= 4 /\ Pow2[S2] = r /\ 4 * r <= m
  <2>1. r >= 4 /\ Pow2[S2] = r
    BY WidthFacts DEF Root
  <2>2. PICK e \in Nat : r = 4 + e
    <3>1. r - 4 \in Nat /\ r = 4 + (r - 4)
      BY <2>1
    <3> QED BY <3>1
  <2>3. r * r = 4 * r + e * r /\ e * r \in Nat
    BY <2>2
  <2> QED BY <2>1, <2>3, <1>5
<1>7. PICK t \in Nat : t = a1 + b0 + c0
  OBVIOUS
<1>8. PICK k \in Nat : k = t \div r
  <2>1. t \in Int
    OBVIOUS
  <2> QED BY <2>1, DivFacts
<1>9. PICK l \in 0..(r - 1) : l = t % r
  <2>1. t \in Int
    OBVIOUS
  <2> QED BY <2>1, DivFacts
<1>10. t = k * r + l
  <2>1. t \in Int
    OBVIOUS
  <2> QED BY <2>1, <1>8, <1>9, DivFacts
<1>11. k <= 2
  <2> SUFFICES ASSUME 2 < k PROVE FALSE
    OBVIOUS
  <2>1. 2 * r + r <= k * r
    BY Below
  <2>2. k * r \in Nat
    OBVIOUS
  <2> QED BY <2>1, <2>2, <1>7, <1>10
<1>12. t \in 0..(m - 1) /\ d0 + b1 + c1 + k \in 0..(m - 1)
  BY <1>6, <1>7, <1>11
<1>13. ASSUME NEW x \in 0..(r - 1) PROVE x * r \in Nat /\ x * r + r <= m
  <2>1. x * r + r <= r * r
    BY Below
  <2>2. x * r \in Nat
    OBVIOUS
  <2> QED BY <2>1, <2>2, <1>5
<1>14. PICK lr \in Nat : lr = l * r /\ lr + r <= m
  BY <1>13
<1>15. PICK dr \in Nat : dr = d1 * r /\ dr + r <= m
  BY <1>13
<1>16. PICK s \in Nat : s = d0 + b1 + c1 + k
  OBVIOUS
<1>17. PICK lo \in Nat : lo = a0 + lr
  OBVIOUS
<1>18. PICK hi \in Nat : hi = s + dr
  OBVIOUS
<1>19. /\ t \in 0..(m - 1) /\ s \in 0..(m - 1) /\ lr \in 0..(m - 1) /\ dr \in 0..(m - 1)
       /\ a0 \in 0..(m - 1) /\ lo \in 0..(m - 1)
  BY <1>6, <1>12, <1>14, <1>15, <1>16, <1>17
<1>20. t * r = k * m + lr
  BY <1>5, <1>10, <1>14
<1>21. (u1 * r + u0) * (v1 * r + v0) = lo + m * hi
  <2>1. (u1 * r + u0) * (v1 * r + v0)
          = (u1 * v1) * m + (u1 * v0) * r + (u0 * v1) * r + u0 * v0
    BY <1>5
  <2>2. (u1 * v1) * m = dr * m + d0 * m
    BY <1>4, <1>15
  <2>3. (u1 * v0) * r = b1 * m + b0 * r
    BY <1>2, <1>5
  <2>4. (u0 * v1) * r = c1 * m + c0 * r
    BY <1>3, <1>5
  <2>5. a1 * r + b0 * r + c0 * r = k * m + lr
    BY <1>7, <1>20
  <2>6. m * hi = dr * m + d0 * m + b1 * m + c1 * m + k * m
    BY <1>16, <1>18
  <2>7. /\ dr * m \in Nat /\ d0 * m \in Nat /\ b1 * m \in Nat /\ c1 * m \in Nat
        /\ k * m \in Nat /\ b0 * r \in Nat /\ c0 * r \in Nat /\ a1 * r \in Nat
    OBVIOUS
  <2> QED BY <2>1, <2>2, <2>3, <2>4, <2>5, <2>6, <2>7, <1>1, <1>17
<1>22. hi \in 0..(m - 1)
  <2>1. PICK u \in Nat : u = u1 * r + u0 /\ u < m
    <3>1. u1 * r \in Nat /\ u1 * r + r <= m
      BY <1>13
    <3>2. u1 * r + u0 \in Nat /\ u1 * r + u0 < m
      BY <3>1
    <3> QED BY <3>2
  <2>2. PICK v \in Nat : v = v1 * r + v0 /\ v < m
    <3>1. v1 * r \in Nat /\ v1 * r + r <= m
      BY <1>13
    <3>2. v1 * r + v0 \in Nat /\ v1 * r + v0 < m
      BY <3>1
    <3> QED BY <3>2
  <2>3. u * v < m * m
    BY <2>1, <2>2, ProductBelow
  <2>4. u * v = lo + m * hi
    BY <2>1, <2>2, <1>21
  <2> SUFFICES ASSUME ~(hi < m) PROVE FALSE
    OBVIOUS
  <2>5. PICK e \in Nat : hi = m + e
    <3>1. hi - m \in Nat /\ hi = m + (hi - m)
      OBVIOUS
    <3> QED BY <3>1
  <2>6. m * hi = m * m + m * e /\ m * e \in Nat /\ m * m \in Nat /\ u * v \in Nat
    BY <2>5
  <2> QED BY <2>3, <2>4, <2>6
<1>23. \A x \in 0..(m - 1) : x % m = x
  BY SmallRemainder
<1>24. HalvesMiddle(u1, u0, v1, v0) = t
  <2>1. HalvesMiddle(u1, u0, v1, v0)
          = ((u0 * v0) \div r + ((u1 * v0) % r) + ((u0 * v1) % r)) % m
    BY <1>5, Zenon DEF HalvesMiddle
  <2>2. (u0 * v0) \div r = a1 /\ (u1 * v0) % r = b0 /\ (u0 * v1) % r = c0
    BY <1>1, <1>2, <1>3
  <2>3. HalvesMiddle(u1, u0, v1, v0) = (a1 + b0 + c0) % m
    BY <2>1, <2>2, Zenon
  <2> QED BY <2>3, <1>7, <1>19, <1>23, Zenon
<1>25. Carry(t) = k
  <2>1. t \in Int /\ k \in Int
    OBVIOUS
  <2>2. t \div r = k
    BY <2>1, <1>10, DivUnique, Zenon
  <2> QED BY <2>2, <1>6, Zenon DEF Carry, LShr
<1>26. Shl(t, S2) = lr
  <2>1. PICK y \in Int : y = t * r
    OBVIOUS
  <2>2. lr \in 0..(m - 1)
    BY <1>19
  <2>3. k \in Int /\ y = k * m + lr
    BY <2>1, <1>20
  <2>4. y % m = lr
    BY <2>2, <2>3, DivUnique, Zenon
  <2> QED BY <2>1, <2>4, <1>5, <1>6, Zenon DEF Shl
<1>27. Shl(d1, S2) = dr
  <2>1. Shl(d1, S2) = (d1 * r) % m
    BY <1>5, <1>6, Zenon DEF Shl
  <2> QED BY <2>1, <1>15, <1>19, <1>23, Zenon
<1>28. \A x \in 0..(m - 1), y \in 0..(m - 1) : x + y < m => Add(x, y) = x + y
  BY <1>5 DEF Add, Wrap
<1>29. HalvesLower(u1, u0, v1, v0) = lo
  <2>1. HalvesLower(u1, u0, v1, v0) = Add(a0, lr)
    BY <1>1, <1>24, <1>26, Zenon DEF HalvesLower
  <2>2. a0 + lr < m
    BY <1>17, <1>19
  <2>3. Add(a0, lr) = a0 + lr
    BY <2>2, <1>19, <1>28, Zenon
  <2> QED BY <2>1, <2>3, <1>17, Zenon
<1>30. HalvesUpper(u1, u0, v1, v0) = hi
  <2>1. HalvesUpper(u1, u0, v1, v0) = Add((d0 + b1 + c1 + k) % m, dr)
    BY <1>2, <1>3, <1>4, <1>5, <1>24, <1>25, <1>27, Zenon DEF HalvesUpper
  <2>2. HalvesUpper(u1, u0, v1, v0) = Add(s, dr)
    BY <2>1, <1>16, <1>19, <1>23, Zenon
  <2>3. s + dr < m
    BY <1>18, <1>22
  <2>4. Add(s, dr) = s + dr
    BY <2>3, <1>19, <1>28, Zenon
  <2> QED BY <2>2, <2>4, <1>18, Zenon
<1>31. lo \in Word /\ hi \in Word
  BY <1>5, <1>19, <1>22 DEF Word
<1> QED BY <1>5, <1>21, <1>29, <1>30, <1>31, Zenon

\* The magnitude of a word is a word, and its value is the magnitude or less than
\* zero by it.
LEMMA AbsFacts ==
    ASSUME NEW x \in Word
    PROVE  /\ Abs(x) \in Word
           /\ x >= Half => Value(x, TRUE) = -Abs(x)
           /\ ~(x >= Half) => Value(x, TRUE) = Abs(x)
<1>1. PICK h \in Nat \ {0} : h = Half /\ M = 2 * h
  BY WidthFacts DEF M
<1>2. x \in 0..(2 * h - 1)
  BY <1>1 DEF Word
<1>3. PICK e \in 0..(2 * h - 1) : e = Abs(x) /\ e = IF x >= h THEN 2 * h - x ELSE x
  <2>1. Abs(x) = IF x >= h THEN 2 * h - x ELSE x
    BY <1>1, <1>2 DEF Abs, Sub, Wrap
  <2>2. Abs(x) \in 0..(2 * h - 1)
    BY <2>1, <1>2
  <2> QED BY <2>1, <2>2
<1>4. PICK f \in Int : f = Value(x, TRUE) /\ f = IF x >= h THEN x - 2 * h ELSE x
  <2>1. Value(x, TRUE) = IF x >= Half THEN x - M ELSE x
    BY Zenon DEF Value
  <2>2. PICK f \in Int : f = IF x >= h THEN x - 2 * h ELSE x
    <3>1. (IF x >= h THEN x - 2 * h ELSE x) \in Int
      BY <1>2
    <3> QED BY <3>1
  <2> QED BY <2>1, <2>2, <1>1, Zenon
<1>5. (x >= h => f = -e) /\ (~(x >= h) => f = e)
  <2>1. PICK z \in Nat : z = x
    BY <1>2
  <2>2. CASE z >= h
    <3>1. e = 2 * h - z /\ f = z - 2 * h
      BY <1>3, <1>4, <2>1, <2>2
    <3> QED BY <3>1, <2>1, <2>2
  <2>3. CASE ~(z >= h)
    <3>1. e = z /\ f = z
      BY <1>3, <1>4, <2>1, <2>3
    <3> QED BY <3>1, <2>1, <2>3
  <2> QED BY <2>2, <2>3
<1>6. Abs(x) \in Word
  BY <1>1, <1>3 DEF Word
<1> QED BY <1>1, <1>3, <1>4, <1>5, <1>6, Zenon

\* The complement of a pair of words, plus one, is the pair of the negated number.
LEMMA PairNegated ==
    ASSUME NEW lo \in Word, NEW hi \in Word, NEW n \in Int, lo + M * hi = n
    PROVE  /\ AddCarry(Not(lo), 1).val \in Word
           /\ Add(AddCarry(Not(lo), 1).carry, Not(hi)) \in Word
           /\ \E k \in Int : AddCarry(Not(lo), 1).val
                               + M * Add(AddCarry(Not(lo), 1).carry, Not(hi))
                               = -n + k * (M * M)
<1>1. PICK m \in Nat \ {0} : m = M /\ m >= 2
  BY WidthFacts DEF M
<1>2. lo \in 0..(m - 1) /\ hi \in 0..(m - 1)
  BY <1>1 DEF Word
<1> DEFINE inverse == AddCarry(Not(lo), 1)
           upper == Add(inverse.carry, Not(hi))
<1>3. /\ inverse.val = IF lo = 0 THEN 0 ELSE m - lo
      /\ inverse.carry = IF lo = 0 THEN 1 ELSE 0
  BY <1>1, <1>2 DEF AddCarry, Add, Wrap, Not, AllOnes
<1> HIDE DEF inverse
<1>4. PICK cy \in {0, 1} : cy = inverse.carry /\ cy = IF lo = 0 THEN 1 ELSE 0
  BY <1>3
<1>5. upper = IF cy + (m - 1 - hi) >= m THEN cy - 1 - hi ELSE cy + (m - 1 - hi)
  BY <1>1, <1>2, <1>4 DEF Add, Wrap, Not, AllOnes
<1> HIDE DEF upper
<1>6. PICK x \in 0..(m - 1) : x = inverse.val
  <2>1. CASE lo = 0
    BY <2>1, <1>3
  <2>2. CASE lo # 0
    <3>1. m - lo \in 0..(m - 1)
      BY <2>2, <1>2
    <3> QED BY <3>1, <2>2, <1>3
  <2> QED BY <2>1, <2>2
<1>7. PICK y \in 0..(m - 1) : y = upper
  <2>1. upper \in 0..(m - 1)
    BY <1>2, <1>4, <1>5
  <2> QED BY <2>1
<1>8. \E k \in Int : x + m * y = -n + k * (m * m)
  <2>1. m * hi \in Nat /\ m * m \in Nat /\ lo + m * hi = n
    BY <1>1, <1>2
  <2>2. CASE lo # 0
    <3>1. y = m - 1 - hi /\ x = m - lo
      BY <2>2, <1>2, <1>3, <1>4, <1>5, <1>6, <1>7
    <3>2. m * (m - 1 - hi) = m * m - m - m * hi
      BY <1>2
    <3>3. x + m * y = -n + 1 * (m * m)
      BY <3>1, <3>2, <2>1, <1>2
    <3> QED BY <3>3
  <2>3. CASE lo = 0 /\ hi # 0
    <3>1. y = m - hi /\ x = 0
      BY <2>3, <1>2, <1>3, <1>4, <1>5, <1>6, <1>7
    <3>2. m * (m - hi) = m * m - m * hi
      BY <1>2
    <3>3. x + m * y = -n + 1 * (m * m)
      BY <3>1, <3>2, <2>1, <2>3
    <3> QED BY <3>3
  <2>4. CASE lo = 0 /\ hi = 0
    <3>1. y = 0 /\ x = 0
      BY <2>4, <1>2, <1>3, <1>4, <1>5, <1>6, <1>7
    <3>2. n = 0
      BY <2>1, <2>4
    <3>3. x + m * y = -n + 0 * (m * m)
      BY <3>1, <3>2, <2>1
    <3> QED BY <3>3
  <2> QED BY <2>2, <2>3, <2>4
<1>9. inverse.val \in Word /\ upper \in Word
  BY <1>1, <1>6, <1>7 DEF Word
<1>10. \E k \in Int : inverse.val + M * upper = -n + k * (M * M)
  BY <1>1, <1>6, <1>7, <1>8
<1> QED BY <1>9, <1>10, Zenon DEF inverse, upper

\* The product by halves.
LEMMA HalvesAre ==
    ASSUME NEW x \in Word, NEW y \in Word, NEW signed \in BOOLEAN
    PROVE  MulHalves(x, y, signed) = MulExtended(x, y, signed)
<1> DEFINE u == IF signed THEN Abs(x) ELSE x
           v == IF signed THEN Abs(y) ELSE y
           lo == HalvesLower(LShr(u, S2), u % Root, LShr(v, S2), v % Root)
           hi == HalvesUpper(LShr(u, S2), u % Root, LShr(v, S2), v % Root)
           inverse == AddCarry(Not(lo), 1)
           upper == Add(inverse.carry, Not(hi))
<1>1. MulHalves(x, y, signed) =
        IF signed /\ Xor(x, y) >= Half THEN Pair(inverse.val, upper) ELSE Pair(lo, hi)
  BY Zenon DEF MulHalves, HalvesLower, HalvesUpper, HalvesMiddle
<1>2. u \in Word /\ v \in Word
  BY AbsFacts
<1> HIDE DEF u, v
<1>3. PICK u1 \in 0..(Root - 1), u0 \in 0..(Root - 1) :
         u = u1 * Root + u0 /\ LShr(u, S2) = u1 /\ u % Root = u0 /\ u1 * Root \in Nat
  BY <1>2, HalvesOf
<1>4. PICK v1 \in 0..(Root - 1), v0 \in 0..(Root - 1) :
         v = v1 * Root + v0 /\ LShr(v, S2) = v1 /\ v % Root = v0 /\ v1 * Root \in Nat
  BY <1>2, HalvesOf
<1>5. lo \in Word /\ hi \in Word /\ \E p \in Int : p = u * v /\ lo + M * hi = p
  <2>1. lo = HalvesLower(u1, u0, v1, v0) /\ hi = HalvesUpper(u1, u0, v1, v0)
    BY <1>3, <1>4, Zenon
  <2>2. u \in Int /\ v \in Int
    BY <1>2, WordBits
  <2>3. u * v \in Int
    BY <2>2
  <2> HIDE DEF lo, hi
  <2>4. Root \in Nat \ {0}
    BY WidthFacts
  <2>5. /\ HalvesLower(u1, u0, v1, v0) \in Word
        /\ HalvesUpper(u1, u0, v1, v0) \in Word
        /\ HalvesLower(u1, u0, v1, v0) + M * HalvesUpper(u1, u0, v1, v0)
             = (u1 * Root + u0) * (v1 * Root + v0)
    BY <2>4, HalvesMultiplied
  <2>6. lo + M * hi = u * v /\ lo \in Word /\ hi \in Word
    BY <2>1, <2>5, <1>3, <1>4, Zenon
  <2> QED BY <2>3, <2>6
<1> HIDE DEF lo, hi
<1>9. PICK p \in Int : p = u * v /\ lo + M * hi = p
  BY <1>5
<1>6. ASSUME NEW n \in Int, NEW l \in Word, NEW h \in Word, NEW k \in Int,
             n = Value(x, signed) * Value(y, signed),
             l + M * h = n + k * (M * M)
      PROVE  MulExtended(x, y, signed) = Pair(l, h)
  <2>1. n % M = l /\ (n \div M) % M = h
    BY <1>6, PairUnique
  <2> QED BY <1>6, <2>1, Zenon DEF MulExtended
<1>7. CASE ~(signed /\ Xor(x, y) >= Half)
  <2>1. Value(x, signed) * Value(y, signed) = p
    <3>1. CASE ~signed
      <4>1. u = x /\ v = y /\ Value(x, signed) = x /\ Value(y, signed) = y
        BY <3>1 DEF u, v, Value
      <4> QED BY <4>1, <1>9, Zenon
    <3>2. CASE signed
      <4>1. (x >= Half) = (y >= Half)
        BY <1>7, <3>2, SignsDiffer
      <4>2. PICK e \in Int : e = u
        BY <1>2, WordBits
      <4>3. PICK f \in Int : f = v
        BY <1>2, WordBits
      <4>4. /\ signed = TRUE
            /\ x >= Half => Value(x, signed) = -e
            /\ ~(x >= Half) => Value(x, signed) = e
            /\ y >= Half => Value(y, signed) = -f
            /\ ~(y >= Half) => Value(y, signed) = f
        BY <3>2, <4>2, <4>3, AbsFacts DEF u, v
      <4>5. (-e) * (-f) = e * f
        OBVIOUS
      <4>6. Value(x, signed) * Value(y, signed) = e * f
        BY <4>1, <4>4, <4>5, Zenon
      <4> QED BY <4>2, <4>3, <4>6, <1>9
    <3> QED BY <3>1, <3>2
  <2>2. p + 0 * (M * M) = p /\ 0 \in Int
    BY WidthFacts
  <2>3. MulExtended(x, y, signed) = Pair(lo, hi)
    BY <2>1, <2>2, <1>5, <1>6, <1>9, Zenon
  <2> QED BY <2>3, <1>1, <1>7, Zenon
<1>8. CASE signed /\ Xor(x, y) >= Half
  <2>1. Value(x, signed) * Value(y, signed) = -p
    <3>1. (x >= Half) # (y >= Half)
      BY <1>8, SignsDiffer
    <3>2. PICK e \in Int : e = u
      BY <1>2, WordBits
    <3>3. PICK f \in Int : f = v
      BY <1>2, WordBits
    <3>4. /\ signed = TRUE
          /\ x >= Half => Value(x, signed) = -e
          /\ ~(x >= Half) => Value(x, signed) = e
          /\ y >= Half => Value(y, signed) = -f
          /\ ~(y >= Half) => Value(y, signed) = f
      BY <1>8, <3>2, <3>3, AbsFacts DEF u, v
    <3>5. (-e) * f = -(e * f) /\ e * (-f) = -(e * f)
      OBVIOUS
    <3>6. Value(x, signed) * Value(y, signed) = -(e * f)
      <4>1. CASE x >= Half
        <5>1. ~(y >= Half)
          BY <3>1, <4>1
        <5> QED BY <4>1, <5>1, <3>4, <3>5, Zenon
      <4>2. CASE ~(x >= Half)
        <5>1. y >= Half
          BY <3>1, <4>2
        <5> QED BY <4>2, <5>1, <3>4, <3>5, Zenon
      <4> QED BY <4>1, <4>2
    <3> QED BY <3>2, <3>3, <3>6, <1>9
  <2>2. /\ inverse.val \in Word /\ upper \in Word
        /\ \E k \in Int : inverse.val + M * upper = -p + k * (M * M)
    <3>1. /\ AddCarry(Not(lo), 1).val \in Word
          /\ Add(AddCarry(Not(lo), 1).carry, Not(hi)) \in Word
          /\ \E k \in Int : AddCarry(Not(lo), 1).val
                              + M * Add(AddCarry(Not(lo), 1).carry, Not(hi))
                              = -p + k * (M * M)
      <4>1. lo \in Word /\ hi \in Word /\ lo + M * hi = p
        BY <1>5, <1>9
      <4> QED BY <4>1, PairNegated
    <3> QED BY <3>1 DEF inverse, upper
  <2> HIDE DEF inverse, upper
  <2>3. PICK k \in Int : inverse.val + M * upper = -p + k * (M * M)
    BY <2>2
  <2>4. -p \in Int
    OBVIOUS
  <2>5. MulExtended(x, y, signed) = Pair(inverse.val, upper)
    BY <2>1, <2>2, <2>3, <2>4, <1>6, Zenon
  <2> QED BY <2>5, <1>1, <1>8, Zenon
<1> QED BY <1>7, <1>8

\* Both expansions yield the exact product of the operands.
LEMMA ProductsLemma == OperandsOK => ProductsExact
<1> SUFFICES ASSUME OperandsOK PROVE ProductsExact
  OBVIOUS
<1>1. a \in Word /\ b \in Word
  BY DEF OperandsOK
<1>2. ASSUME NEW signed \in BOOLEAN, NEW p \in {MulDoubled(a, b, signed), MulHalves(a, b, signed)}
      PROVE  /\ p.lo + M * Value(p.hi, signed) = Value(a, signed) * Value(b, signed)
             /\ Add(p.hi, c) = MadHi(a, b, c, signed)
  <2>1. p = MulExtended(a, b, signed)
    BY <1>1, DoubledIs, HalvesAre
  <2>2. PICK n \in Int : /\ n = Value(a, signed) * Value(b, signed)
                         /\ signed => -(Half * M) <= n /\ n < Half * M
                         /\ ~signed => 0 <= n /\ n < M * M
    BY <1>1, ProductRange
  <2>3. p = Pair(n % M, (n \div M) % M)
    BY <2>1, <2>2, Zenon DEF MulExtended
  <2>4. p.lo = n % M /\ p.hi = (n \div M) % M
    BY <2>3 DEF Pair
  <2>5. (n % M) + M * Value((n \div M) % M, signed) = n
    BY <2>2, PairExact
  <2>6. Add(p.hi, c) = MadHi(a, b, c, signed)
    BY <2>1, Zenon DEF MadHi, MulHi
  <2> QED BY <2>2, <2>4, <2>5, <2>6, Zenon
<1> QED BY <1>2, Zenon DEF ProductsExact

---------------------------------------------------------------------------
(* Saturated sums of products. *)

\* A number that is clamped and truncated is the nearest one.
LEMMA ClampIs ==
    ASSUME NEW n \in Int
    PROVE  Nearest(Signed(Wrap(Clamp(n))), n, -Half, MaxWord)
<1>1. Clamp(n) \in -Half..(Half - 1)
  BY HalfAssumption DEF Clamp, MaxWord
<1>2. Signed(Wrap(Clamp(n))) = Clamp(n)
  BY <1>1, WrapFacts, HalfAssumption
<1>3. Nearest(Clamp(n), n, -Half, MaxWord)
  BY HalfAssumption DEF Clamp, Nearest, MaxWord
<1> QED BY <1>2, <1>3

\* The two words of a signed product, and what its sign tells.
LEMMA SignedProduct ==
    ASSUME NEW x \in Word, NEW y \in Word
    PROVE  \E n \in Int, lo \in Word, hi \in Word :
              /\ n = Signed(x) * Signed(y)
              /\ MulExtended(x, y, TRUE) = Pair(lo, hi)
              /\ lo + M * Signed(hi) = n
              /\ (Signed(x) < 0) = (Signed(y) < 0) => n >= 0
              /\ (Signed(x) < 0) # (Signed(y) < 0) => n <= 0
              /\ Xor(x, y) < Half <=> (Signed(x) < 0) = (Signed(y) < 0)
<1>1. PICK n \in Int : /\ n = Value(x, TRUE) * Value(y, TRUE)
                       /\ -(Half * M) <= n /\ n < Half * M
  BY ProductRange
<1>2. PICK lo \in Word : lo = n % M
  BY <1>1, PairExact
<1>3. PICK hi \in Word : hi = (n \div M) % M
  BY <1>1, PairExact
<1>4. lo + M * Value(hi, TRUE) = n
  BY <1>1, <1>2, <1>3, PairExact
<1>5. MulExtended(x, y, TRUE) = Pair(lo, hi)
  BY <1>1, <1>2, <1>3, Zenon DEF MulExtended
<1>6. PICK h \in Nat \ {0} : h = Half /\ M = 2 * h
  BY WidthFacts DEF M
<1>7. \A v \in Word : Signed(v) \in Int /\ (Signed(v) < 0 <=> v >= Half)
  <2> SUFFICES ASSUME NEW v \in Word PROVE Signed(v) \in Int /\ (Signed(v) < 0 <=> v >= Half)
    OBVIOUS
  <2>1. v \in 0..(2 * h - 1)
    BY <1>6 DEF Word
  <2> QED BY <2>1, <1>6 DEF Signed, Value
<1>8. Xor(x, y) < Half <=> (Signed(x) < 0) = (Signed(y) < 0)
  <2>1. PICK z \in Nat : z = Xor(x, y)
    BY JoinedBits, WordBits
  <2>2. z >= h <=> (x >= Half) # (y >= Half)
    BY <2>1, <1>6, SignsDiffer
  <2>3. z < h <=> ~(z >= h)
    OBVIOUS
  <2> QED BY <2>1, <2>2, <2>3, <1>6, <1>7
<1>9. PICK u \in Int : u = Signed(x)
  BY <1>7
<1>10. PICK v \in Int : v = Signed(y)
  BY <1>7
<1>11. n = u * v
  BY <1>1, <1>9, <1>10 DEF Signed
<1>12. (u < 0) = (v < 0) => n >= 0
  <2>1. CASE u < 0 /\ v < 0
    <3>1. PICK e \in Nat : e = -u
      BY <2>1
    <3>2. PICK f \in Nat : f = -v
      BY <2>1
    <3>3. u * v = e * f /\ e * f \in Nat
      <4>1. u = -e /\ v = -f
        BY <3>1, <3>2
      <4>2. (-e) * (-f) = e * f /\ e * f \in Nat
        OBVIOUS
      <4> QED BY <4>1, <4>2
    <3> QED BY <3>3, <1>11
  <2>2. CASE ~(u < 0) /\ ~(v < 0)
    <3>1. PICK e \in Nat : e = u
      BY <2>2
    <3>2. PICK f \in Nat : f = v
      BY <2>2
    <3>3. e * f \in Nat
      OBVIOUS
    <3> QED BY <3>1, <3>2, <3>3, <1>11
  <2> QED BY <2>1, <2>2
<1>13. (u < 0) # (v < 0) => n <= 0
  <2>1. CASE u < 0 /\ ~(v < 0)
    <3>1. PICK e \in Nat : e = -u
      BY <2>1
    <3>2. PICK f \in Nat : f = v
      BY <2>1
    <3>3. u * v = -(e * f) /\ e * f \in Nat
      <4>1. u = -e /\ v = f
        BY <3>1, <3>2
      <4>2. (-e) * f = -(e * f) /\ e * f \in Nat
        OBVIOUS
      <4> QED BY <4>1, <4>2
    <3> QED BY <3>3, <1>11
  <2>2. CASE ~(u < 0) /\ v < 0
    <3>1. PICK e \in Nat : e = u
      BY <2>2
    <3>2. PICK f \in Nat : f = -v
      BY <2>2
    <3>3. u * v = -(e * f) /\ e * f \in Nat
      <4>1. u = e /\ v = -f
        BY <3>1, <3>2
      <4>2. e * (-f) = -(e * f) /\ e * f \in Nat
        OBVIOUS
      <4> QED BY <4>1, <4>2
    <3> QED BY <3>3, <1>11
  <2> QED BY <2>1, <2>2
<1>14. n = Signed(x) * Signed(y) /\ lo + M * Signed(hi) = n
  BY <1>1, <1>4, Zenon DEF Signed
<1>15. /\ (Signed(x) < 0) = (Signed(y) < 0) => n >= 0
       /\ (Signed(x) < 0) # (Signed(y) < 0) => n <= 0
  BY <1>9, <1>10, <1>12, <1>13
<1> QED BY <1>5, <1>8, <1>14, <1>15

\* The wide signed mad_sat, and where it is wrong.
LEMMA MadSatWideIs ==
    ASSUME NEW x \in Word, NEW y \in Word, NEW z \in Word
    PROVE  Nearest(Signed(MadSatWide(x, y, z)), Signed(x) * Signed(y) + Signed(z), -Half, MaxWord)
             <=> ~MadSatMisses(x, y, z)
<1>1. PICK n \in Int, lo \in Word, hi \in Word :
         /\ n = Signed(x) * Signed(y)
         /\ MulExtended(x, y, TRUE) = Pair(lo, hi)
         /\ lo + M * Signed(hi) = n
         /\ (Signed(x) < 0) = (Signed(y) < 0) => n >= 0
         /\ (Signed(x) < 0) # (Signed(y) < 0) => n <= 0
         /\ Xor(x, y) < Half <=> (Signed(x) < 0) = (Signed(y) < 0)
  BY SignedProduct
<1>2. PICK h \in Nat \ {0} : h = Half /\ M = 2 * h /\ h >= 2
  BY WidthFacts DEF M
<1>3. PICK l \in 0..(2 * h - 1) : l = lo
  BY <1>2 DEF Word
<1>4. PICK w \in 0..(2 * h - 1) : w = z
  BY <1>2 DEF Word
<1>5. PICK t \in Int : t = Signed(z) /\ t = IF w >= h THEN w - 2 * h ELSE w
  <2>1. Signed(z) = IF w >= h THEN w - 2 * h ELSE w
    BY <1>2, <1>4 DEF Signed, Value
  <2>2. (IF w >= h THEN w - 2 * h ELSE w) \in Int
    OBVIOUS
  <2> QED BY <2>1, <2>2
<1>6. PICK g \in -h..(h - 1) : g = Signed(hi) /\ (hi = 0 <=> g = 0) /\ (hi = AllOnes <=> g = -1)
  <2>1. PICK k \in 0..(2 * h - 1) : k = hi
    BY <1>2 DEF Word
  <2>2. Signed(hi) = IF k >= h THEN k - 2 * h ELSE k
    BY <1>2, <2>1 DEF Signed, Value
  <2>3. PICK g \in -h..(h - 1) : g = IF k >= h THEN k - 2 * h ELSE k
    <3>1. (IF k >= h THEN k - 2 * h ELSE k) \in -h..(h - 1)
      OBVIOUS
    <3> QED BY <3>1
  <2>4. (k = 0 <=> g = 0) /\ (k = 2 * h - 1 <=> g = -1)
    BY <2>3
  <2> QED BY <2>1, <2>2, <2>3, <2>4, <1>2 DEF AllOnes
<1>7. l + (2 * h) * g = n
  BY <1>1, <1>2, <1>3, <1>6
<1>8. PICK add \in 0..(2 * h - 1) : add = Add(lo, z) /\ add = IF l + w >= 2 * h THEN l + w - 2 * h ELSE l + w
  <2>1. Add(lo, z) = IF l + w >= 2 * h THEN l + w - 2 * h ELSE l + w
    BY <1>2, <1>3, <1>4 DEF Add, Wrap
  <2>2. (IF l + w >= 2 * h THEN l + w - 2 * h ELSE l + w) \in 0..(2 * h - 1)
    OBVIOUS
  <2> QED BY <2>1, <2>2
<1>9. PICK sub \in 0..(2 * h - 1) :
         sub = Sub(MaxWord, lo) /\ sub = IF h - 1 - l < 0 THEN h - 1 - l + 2 * h ELSE h - 1 - l
  <2>1. Sub(MaxWord, lo) = IF h - 1 - l < 0 THEN h - 1 - l + 2 * h ELSE h - 1 - l
    BY <1>2, <1>3 DEF Sub, Wrap, MaxWord
  <2>2. (IF h - 1 - l < 0 THEN h - 1 - l + 2 * h ELSE h - 1 - l) \in 0..(2 * h - 1)
    OBVIOUS
  <2> QED BY <2>1, <2>2
<1> DEFINE same == (Signed(x) < 0) = (Signed(y) < 0)
           over == (same /\ g # 0) \/ (g = 0 /\ l >= h - 1 /\ (t > 0 \/ add > h - 1))
           under == (~same /\ g # -1) \/ (g = -1 /\ l <= h /\ (t < 0 \/ w < sub))
           result == IF over THEN h - 1 ELSE IF under THEN h ELSE add
           number == IF over THEN h - 1 ELSE IF under THEN -h
                     ELSE IF add >= h THEN add - 2 * h ELSE add
<1>10. MadSatWide(x, y, z) = result
  <2>1. Pair(lo, hi).lo = lo /\ Pair(lo, hi).hi = hi
    BY DEF Pair
  <2>2. MaxWord = h - 1 /\ MinWord = h
    BY <1>2 DEF MaxWord, MinWord
  <2>3. (same <=> Xor(x, y) < Half) /\ (Xor(x, y) < Half) \in BOOLEAN
    BY <1>1
  <2> HIDE DEF same
  <2>4. over <=> \/ Xor(x, y) < Half /\ hi # 0
                 \/ hi = 0 /\ lo >= MaxWord /\ (Signed(z) > 0 \/ Add(lo, z) > MaxWord)
    BY <2>2, <2>3, <1>3, <1>5, <1>6, <1>8
  <2>5. under <=> \/ ~(Xor(x, y) < Half) /\ hi # AllOnes
                  \/ /\ hi = AllOnes /\ lo <= MinWord
                     /\ Signed(z) < 0 \/ z < Sub(MaxWord, lo)
    BY <2>2, <2>3, <1>3, <1>4, <1>5, <1>6, <1>9
  <2> HIDE DEF over, under
  <2>6. MadSatWide(x, y, z) = IF over THEN MaxWord ELSE IF under THEN MinWord ELSE Add(lo, z)
    BY <2>1, <2>4, <2>5, <1>1, Zenon DEF MadSatWide
  <2> QED BY <2>2, <2>6, <1>8, Zenon
<1>11. number \in -h..(h - 1)
  <2> HIDE DEF over, under
  <2> QED BY <1>8
<1>12. Signed(MadSatWide(x, y, z)) = number
  <2> HIDE DEF over, under
  <2>1. CASE over
    BY <2>1, <1>2, <1>10 DEF Signed, Value
  <2>2. CASE ~over /\ under
    BY <2>2, <1>2, <1>10 DEF Signed, Value
  <2>3. CASE ~over /\ ~under
    BY <2>3, <1>2, <1>8, <1>10 DEF Signed, Value
  <2> QED BY <2>1, <2>2, <2>3
<1> DEFINE misses == IF n = 0 /\ ~same THEN w # h
                     ELSE \/ n \in (1 - h)..(h - 2) /\ n + t \notin -h..(h - 1)
                          \/ n = -h /\ t > 0
                          \/ n < -h /\ n + t = -h - 1
                          \/ n = h - 1 /\ w = h
<1>13. MadSatMisses(x, y, z) <=> misses
  <2>1. MaxWord = h - 1 /\ MinWord = h /\ Half = h
    BY <1>2 DEF MaxWord, MinWord
  <2>2. (~same) <=> (Signed(x) < 0) # (Signed(y) < 0)
    OBVIOUS
  <2> HIDE DEF same
  <2> QED BY <2>1, <2>2, <1>1, <1>4, <1>5 DEF MadSatMisses
<1>14. (same => n >= 0) /\ (~same => n <= 0) /\ same \in BOOLEAN
  BY <1>1
<1>15. Nearest(number, n + t, -h, h - 1) <=> ~misses
  <2> HIDE DEF same
  <2>1. CASE g = 0
    <3>1. n = l
      BY <2>1, <1>7
    <3>2. CASE same
      <4>1. over <=> l >= h - 1 /\ (t > 0 \/ add > h - 1)
        BY <2>1, <3>2
      <4>2. ~under
        BY <2>1, <3>2
      <4>3. CASE over
        BY <4>1, <4>3, <2>1, <3>1, <3>2, <1>2, <1>5, <1>8 DEF Nearest
      <4>4. CASE ~over
        BY <4>1, <4>2, <4>4, <2>1, <3>1, <3>2, <1>2, <1>5, <1>8 DEF Nearest
      <4> QED BY <4>3, <4>4
    <3>3. CASE ~same
      <4>1. l = 0
        BY <3>1, <3>3, <1>14
      <4>2. ~over /\ under
        BY <4>1, <2>1, <3>3, <1>2
      <4> QED BY <4>1, <4>2, <3>1, <3>3, <1>2, <1>5 DEF Nearest
    <3> QED BY <3>2, <3>3
  <2>2. CASE g = -1
    <3>1. n = l - 2 * h
      BY <2>2, <1>7
    <3> QED BY <2>2, <3>1, <1>5, <1>8, <1>9, <1>14 DEF Nearest
  <2>3. CASE g > 0
    <3>1. n >= 2 * h
      <4>1. PICK k \in Nat : g = 1 + k
        <5>1. g - 1 \in Nat /\ g = 1 + (g - 1)
          BY <2>3
        <5> QED BY <5>1
      <4>2. (2 * h) * g = 2 * h + (2 * h) * k /\ (2 * h) * k \in Nat
        BY <4>1
      <4> QED BY <4>2, <1>7
    <3> QED BY <2>3, <3>1, <1>5, <1>14 DEF Nearest
  <2>4. CASE g < -1
    <3>1. n < -(2 * h)
      <4>1. PICK k \in Nat : g = -2 - k
        <5>1. -2 - g \in Nat /\ g = -2 - (-2 - g)
          BY <2>4
        <5> QED BY <5>1
      <4>2. (2 * h) * g = -(2 * (2 * h)) - (2 * h) * k /\ (2 * h) * k \in Nat
        BY <4>1
      <4> QED BY <4>2, <1>7
    <3> QED BY <2>4, <3>1, <1>5, <1>14 DEF Nearest
  <2> QED BY <2>1, <2>2, <2>3, <2>4
<1>16. MaxWord = h - 1 /\ Half = h
  BY <1>2 DEF MaxWord
<1> HIDE DEF number, misses
<1> QED BY <1>1, <1>5, <1>12, <1>13, <1>15, <1>16, Zenon

\* The unsigned mad_sat.
LEMMA MadSatUnsignedIs ==
    ASSUME NEW x \in Word, NEW y \in Word, NEW z \in Word
    PROVE  Nearest(MadSatUnsigned(x, y, z), x * y + z, 0, AllOnes)
<1>1. PICK n \in Int : /\ n = Value(x, FALSE) * Value(y, FALSE)
                       /\ 0 <= n /\ n < M * M
  BY ProductRange
<1>2. PICK lo \in Word : lo = n % M
  BY <1>1, PairExact
<1>3. PICK hi \in Word : hi = (n \div M) % M
  BY <1>1, PairExact
<1>4. lo + M * Value(hi, FALSE) = n
  BY <1>1, <1>2, <1>3, PairExact
<1>5. MulExtended(x, y, FALSE) = Pair(lo, hi)
  BY <1>1, <1>2, <1>3, Zenon DEF MulExtended
<1>6. n = x * y /\ lo + M * hi = n
  BY <1>1, <1>4, Zenon DEF Value
<1>7. PICK m \in Nat \ {0} : m = M /\ m >= 2
  BY WidthFacts DEF M
<1>8. PICK l \in 0..(m - 1) : l = lo
  BY <1>7 DEF Word
<1>9. PICK g \in 0..(m - 1) : g = hi
  BY <1>7 DEF Word
<1>10. PICK w \in 0..(m - 1) : w = z
  BY <1>7 DEF Word
<1>11. PICK cy \in {0, 1} : cy = AddCarry(lo, z).carry /\ cy = IF l + w >= m THEN 1 ELSE 0
  <2>1. AddCarry(lo, z).carry = IF l + w >= m THEN 1 ELSE 0
    BY <1>7, <1>8, <1>10 DEF AddCarry
  <2> QED BY <2>1
<1>12. Or(hi, cy) = 0 <=> g = 0 /\ cy = 0
  <2>1. cy \in Word
    BY <1>7 DEF Word
  <2> QED BY <2>1, <1>9, OrFacts
<1>13. AddCarry(lo, z).val = IF l + w >= m THEN l + w - m ELSE l + w
  BY <1>7, <1>8, <1>10 DEF AddCarry, Add, Wrap
<1>14. MadSatUnsigned(x, y, z) = IF g = 0 /\ cy = 0 THEN AddCarry(lo, z).val ELSE AllOnes
  <2>1. Pair(lo, hi).lo = lo /\ Pair(lo, hi).hi = hi
    BY DEF Pair
  <2> QED BY <2>1, <1>5, <1>11, <1>12, Zenon DEF MadSatUnsigned
<1>15. AllOnes = m - 1
  BY <1>7 DEF AllOnes
<1>16. CASE g = 0 /\ cy = 0
  <2>1. l + w < m
    BY <1>11, <1>16
  <2>2. MadSatUnsigned(x, y, z) = AddCarry(lo, z).val
    BY <1>14, <1>16, Zenon
  <2>3. MadSatUnsigned(x, y, z) = l + w
    BY <2>1, <2>2, <1>13
  <2>4. x * y + z = l + w
    BY <1>6, <1>7, <1>8, <1>9, <1>10, <1>16
  <2> QED BY <2>1, <2>3, <2>4, <1>15 DEF Nearest
<1>17. CASE ~(g = 0 /\ cy = 0)
  <2>1. MadSatUnsigned(x, y, z) = m - 1
    BY <1>14, <1>15, <1>17
  <2>2. PICK p \in Nat : p = m * g /\ (g # 0 => p >= m)
    <3>1. m * g \in Nat
      OBVIOUS
    <3>2. g # 0 => m * g >= m
      <4> SUFFICES ASSUME g # 0 PROVE m * g >= m
        OBVIOUS
      <4>1. PICK k \in Nat : g = 1 + k
        <5>1. g - 1 \in Nat /\ g = 1 + (g - 1)
          OBVIOUS
        <5> QED BY <5>1
      <4>2. m * g = m + m * k /\ m * k \in Nat
        BY <4>1
      <4> QED BY <4>2
    <3> QED BY <3>1, <3>2
  <2>3. x * y + z = l + p + w
    BY <2>2, <1>6, <1>7, <1>8, <1>9, <1>10
  <2>4. l + p + w >= m
    <3>1. CASE g # 0
      BY <3>1, <2>2
    <3>2. CASE cy # 0
      BY <3>2, <1>11
    <3> QED BY <3>1, <3>2, <1>17
  <2> QED BY <2>1, <2>3, <2>4, <1>15 DEF Nearest
<1> QED BY <1>16, <1>17

\* The saturated sums of products of operands.
LEMMA MadLemma == OperandsOK => MadSaturates
<1> SUFFICES ASSUME OperandsOK PROVE MadSaturates
  OBVIOUS
<1>1. a \in Word /\ b \in Word /\ c \in Word
  BY ThirdAssumption DEF OperandsOK
<1>2. Nearest(Signed(MadSatNarrow(a, b, c)), Signed(a) * Signed(b) + Signed(c), -Half, MaxWord)
  <2>1. Signed(a) \in Int /\ Signed(b) \in Int /\ Signed(c) \in Int
    BY <1>1, ValueFacts DEF Signed
  <2>2. Signed(a) * Signed(b) + Signed(c) \in Int
    BY <2>1
  <2> QED BY <2>2, ClampIs DEF MadSatNarrow
<1>3. Nearest(Signed(MadSatWide(a, b, c)), Signed(a) * Signed(b) + Signed(c), -Half, MaxWord)
        <=> ~MadSatMisses(a, b, c)
  BY <1>1, MadSatWideIs
<1>4. Nearest(MadSatUnsigned(a, b, c), a * b + c, 0, AllOnes)
  BY <1>1, MadSatUnsignedIs
<1> QED BY <1>2, <1>3, <1>4, Zenon DEF MadSaturates

---------------------------------------------------------------------------
(* The theorems about the wide builtins. *)

\* The funnel shifts, rotations, counted zeros, selections and swaps move the bits
\* they should, for words of every width that is a multiple of four
\* (replaceFshl, replaceFshr, replaceRotate, replaceCountZeroes, replaceBitSelect,
\* replaceBswap).
THEOREM BitsAreExact == Spec => []BitsExact
<1>1. OperandsOK => BitsExact
  BY FunnelLemma, MovesLemma DEF BitsExact
<1> QED BY <1>1, OperandsAreWords, PTL

\* Both expansions of the extended products are exact, and mad_sat saturates except,
\* in its wide signed form, for exactly the operands of MadSatMisses, for words of
\* every such width (InsertOpMulExtended, replaceMulHi, replaceMadSat).
THEOREM MultipliesAreExact == Spec => []MultipliesExact
<1>1. OperandsOK => MultipliesExact
  BY ProductsLemma, MadLemma DEF MultipliesExact
<1> QED BY <1>1, OperandsAreWords, PTL
===============================================================================
