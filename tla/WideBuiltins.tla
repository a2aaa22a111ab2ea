------------------------------ MODULE WideBuiltins ------------------------------
(***************************************************************************)
(* The integer builtins of kernels whose results are computed from single  *)
(* bits or from products: mul_hi, mad_hi and mad_sat, the funnel shifts    *)
(* and rotations, counted zeros, bit selection and reversed bytes.  They   *)
(* have the operands of IntegerBuiltins.                                   *)
(***************************************************************************)
EXTENDS IntegerBuiltins, FiniteSetsExt

ASSUME BytesAssumption == W % 4 = 0

---------------------------------------------------------------------------
\* The instructions.
Bit(x, i) == (x \div Pow2[i]) % 2

OfBits(S) ==
    LET sum[n \in 0..W] ==
            IF n = 0 THEN 0 ELSE sum[n - 1] + (IF n - 1 \in S THEN Pow2[n - 1] ELSE 0)
    IN  sum[W]

And(x, y) == OfBits({i \in 0..(W - 1) : Bit(x, i) = 1 /\ Bit(y, i) = 1})

Or(x, y) == OfBits({i \in 0..(W - 1) : Bit(x, i) = 1 \/ Bit(y, i) = 1})

Xor(x, y) == OfBits({i \in 0..(W - 1) : Bit(x, i) # Bit(y, i)})

Shl(x, n) == (x * Pow2[n]) % M

LShr(x, n) == x \div Pow2[n]

\* ctlz and cttz of a word of w bits.
Ctlz(x, w) == w - Min({n \in 0..w : x < Pow2[n]})

Cttz(x, w) == Max({n \in 0..w : x % Pow2[n] = 0})

Abs(x) == IF x >= Half THEN Sub(0, x) ELSE x

\* A product of two words, as a pair of words.
Pair(lo, hi) == [lo |-> lo, hi |-> hi]

MulExtended(x, y, signed) ==
    LET n == Value(x, signed) * Value(y, signed)
    IN  Pair(n % M, (n \div M) % M)

---------------------------------------------------------------------------
\* InsertOpMulExtended under -hack-mul-extended, by words of twice the width ...
MulDoubled(x, y, signed) ==
    LET ext(n) == Value(n, signed) % (M * M)
        mul == (ext(x) * ext(y)) % (M * M)
    IN  Pair(mul % M, LShr(mul, W) % M)

\* ... and, where there is none, from the four products of the operands' halves:
\* of magnitudes, the sign being restored at the end.
S2 == W \div 2

Root == Pow2[S2]

\* Wrong: what the middle of the product carries into its upper word is lost.
NoCarry(loHi) == 0

Carry(loHi) == LShr(loHi, S2)

MulHalves(x, y, signed) ==
    LET u == IF signed THEN Abs(x) ELSE x
        v == IF signed THEN Abs(y) ELSE y
        lower(m, n) == (m * n) % Root
        upper(m, n) == (m * n) \div Root
        u0 == u % Root
        u1 == LShr(u, S2)
        v0 == v % Root
        v1 == LShr(v, S2)
        loHi == (upper(u0, v0) + lower(u1, v0) + lower(u0, v1)) % M
        hiLo == (lower(u1, v1) + upper(u1, v0) + upper(u0, v1) + Carry(loHi)) % M
        lo == Add(lower(u0, v0), Shl(loHi, S2))
        hi == Add(hiLo, Shl(upper(u1, v1), S2))
        inverse == AddCarry(Not(lo), 1)
    IN  IF signed /\ Xor(x, y) >= Half
        THEN Pair(inverse.val, Add(inverse.carry, Not(hi)))
        ELSE Pair(lo, hi)

\* replaceMulHi.
MulHi(x, y, signed) == MulExtended(x, y, signed).hi

MadHi(x, y, z, signed) == Add(MulHi(x, y, signed), z)

\* replaceMadSat: narrow words in twice the width, ...
MadSatNarrow(x, y, z) == Wrap(Clamp(Signed(x) * Signed(y) + Signed(z)))

\* ... wide ones from the two words of the product, ...
MadSatWide(x, y, z) ==
    LET p == MulExtended(x, y, TRUE)
        add == Add(p.lo, z)
        sameSign == Xor(x, y) < Half
        overMax == \/ sameSign /\ p.hi # 0
                   \/ p.hi = 0 /\ p.lo >= MaxWord /\ (Signed(z) > 0 \/ add > MaxWord)
        underMin == \/ ~sameSign /\ p.hi # AllOnes
                    \/ /\ p.hi = AllOnes /\ p.lo <= MinWord
                       /\ Signed(z) < 0 \/ z < Sub(MaxWord, p.lo)
    IN  IF overMax THEN MaxWord ELSE IF underMin THEN MinWord ELSE add

\* ... and unsigned ones by the upper word and the carry.
MadSatUnsigned(x, y, z) ==
    LET p == MulExtended(x, y, FALSE)
        r == AddCarry(p.lo, z)
    IN  IF Or(p.hi, r.carry) = 0 THEN r.val ELSE AllOnes

---------------------------------------------------------------------------
\* replaceFshl and replaceFshr.  The complement of an amount that is not constant
\* is taken modulo the width too.
Complement(n, constant) ==
    IF constant THEN W - (n % W) ELSE (W - (n % W)) % W

Fshl(hi, lo, n, constant) == Or(Shl(hi, n % W), LShr(lo, Complement(n, constant)))

\* Wrong: the amount of the word that is kept is not taken modulo the width.
FshrWhole(hi, lo, n, constant) == Or(LShr(lo, n), Shl(hi, Complement(n, constant)))

Fshr(hi, lo, n, constant) == Or(LShr(lo, n % W), Shl(hi, Complement(n, constant)))

\* replaceRotate: both words of the funnel are the operand.
Rotate(x, n) == Fshl(x, x, n, FALSE)

\* replaceCountZeroes: words narrower than those of the instruction, whose width is
\* native, are extended; trailing zeros are bounded by a bit above the word.
CountNarrow(x, leading, native) ==
    IF leading THEN Ctlz(x, native) - (native - W) ELSE Cttz(x + Pow2[W], native)

\* Words of twice the instruction's width are counted by halves.
CountHalves(x, leading) ==
    LET top == LShr(x, S2)
        bot == x % Root
    IN  IF leading
        THEN IF Ctlz(top, S2) = S2 THEN Ctlz(bot, S2) + S2 ELSE Ctlz(top, S2)
        ELSE IF Cttz(bot, S2) = S2 THEN Cttz(top, S2) + S2 ELSE Cttz(bot, S2)

\* replaceBitSelect.
BitSelect(x, y, z) == Or(And(Not(z), x), And(z, y))

\* replaceBswap: words of two bytes and of four.
Bswap2(x) == Or(Shl(x, S2), LShr(x, S2))

Bswap4(x) ==
    LET byte == W \div 4
        mask == Shl(Pow2[byte] - 1, byte)
    IN  Or(Or(Shl(x, 3 * byte), Shl(And(x, mask), byte)),
           Or(And(LShr(x, byte), mask), LShr(x, 3 * byte)))

---------------------------------------------------------------------------
\* Both expansions of OpSMulExtended and OpUMulExtended, on which mul_hi, mad_hi and
\* mad_sat rest, yield the two words of the exact product, for the least number too,
\* whose magnitude is no signed number (InsertOpMulExtended).
ProductsExact ==
    \A signed \in BOOLEAN :
        LET exact == Value(a, signed) * Value(b, signed)
        IN  \A p \in {MulDoubled(a, b, signed), MulHalves(a, b, signed)} :
                /\ p.lo + M * Value(p.hi, signed) = exact
                /\ Add(p.hi, c) = MadHi(a, b, c, signed)

\* The operands for which the wide signed mad_sat is wrong: a product that is zero
\* although the signs differ; a product between the bounds whose sum is not; and
\* products at or below the bounds whose sum is within them or just below.
MadSatMisses(x, y, z) ==
    LET p == Signed(x) * Signed(y)
        s == p + Signed(z)
    IN  IF p = 0 /\ (Signed(x) < 0) # (Signed(y) < 0) THEN z # MinWord
        ELSE \/ p \in (1 - Half)..(Half - 2) /\ s \notin -Half..MaxWord
             \/ p = -Half /\ Signed(z) > 0
             \/ p < -Half /\ s = -Half - 1
             \/ p = MaxWord /\ z = MinWord

\* mad_sat yields the representable number nearest to a * b + c in each of the ways
\* replaceMadSat computes it, the wide signed one but for the operands above.
MadSaturates ==
    LET sum == Signed(a) * Signed(b) + Signed(c)
        saturated(r) == Nearest(Signed(r), sum, -Half, MaxWord)
    IN  /\ saturated(MadSatNarrow(a, b, c))
        /\ saturated(MadSatWide(a, b, c)) <=> ~MadSatMisses(a, b, c)
        /\ Nearest(MadSatUnsigned(a, b, c), a * b + c, 0, AllOnes)

\* A funnel shift moves the double word hi, lo by the amount modulo the width, but an
\* amount that is no constant and a multiple of the width joins both words; a
\* rotation is right for every amount (replaceFshl, replaceFshr, replaceRotate).
FunnelsExact ==
    LET n == c % W
        left == (((a * M + b) * Pow2[n]) \div M) % M
        right == ((a * M + b) \div Pow2[n]) % M
    IN  /\ n # 0 => \A constant \in BOOLEAN :
                        /\ Fshl(a, b, c, constant) = left
                        /\ Fshr(a, b, c, constant) = right
        /\ n = 0 => Fshl(a, b, c, FALSE) = Or(a, b) /\ Fshr(a, b, c, FALSE) = Or(a, b)
        /\ \A i \in 0..(W - 1) : Bit(Rotate(a, c), (i + c) % W) = Bit(a, i)

\* Zeros are counted alike by either detour, zero itself having as many as bits; a
\* bit or byte selected or moved is that of the operand.
MovesExact ==
    /\ \A native \in {W + 1, 2 * W} :
          /\ CountNarrow(a, TRUE, native) = Ctlz(a, W)
          /\ CountNarrow(a, FALSE, native) = Cttz(a, W)
    /\ CountHalves(a, TRUE) = Ctlz(a, W)
    /\ CountHalves(a, FALSE) = Cttz(a, W)
    /\ \A i \in 0..(W - 1) :
          Bit(BitSelect(a, b, c), i) = IF Bit(c, i) = 1 THEN Bit(b, i) ELSE Bit(a, i)
    /\ \A bytes \in {2, 4} : \A k \in 0..(bytes - 1) :
          LET swapped == IF bytes = 2 THEN Bswap2(a) ELSE Bswap4(a)
              byte(x, i) == LShr(x, i * (W \div bytes)) % Pow2[W \div bytes]
          IN  byte(swapped, k) = byte(a, bytes - 1 - k)

\* The builtins that move bits.
BitsExact == FunnelsExact /\ MovesExact

\* The builtins that multiply.
MultipliesExact == ProductsExact /\ MadSaturates
===============================================================================
