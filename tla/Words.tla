--------------------------------- MODULE Words ---------------------------------
(***************************************************************************)
(* The integers of a kernel: words of W bits, and the instructions of LLVM *)
(* and SPIR-V whose results differ from the exact one by at most one       *)
(* modulus.  WideBuiltins has the others.                                  *)
(***************************************************************************)
EXTENDS Integers

CONSTANTS
    W,     \* the bits of a word
    Half   \* the smallest word whose top bit is set

\* The powers of two.
Pow2[n \in Nat] == IF n = 0 THEN 1 ELSE 2 * Pow2[n - 1]

ASSUME HalfAssumption == Half \in Nat /\ Half > 0

ASSUME WidthAssumption == W \in Nat /\ W > 0 /\ Half = Pow2[W - 1]

M == 2 * Half

Word == 0..(M - 1)

AllOnes == M - 1

\* The least and the greatest signed number, as words.
MinWord == Half

MaxWord == Half - 1

\* What a word means to a signed instruction, and to any other.
Value(x, signed) == IF signed /\ x >= Half THEN x - M ELSE x

Signed(x) == Value(x, TRUE)

\* The word that is left of an exact result, which may be out of range by one
\* modulus.
Wrap(n) == IF n < 0 THEN n + M ELSE IF n >= M THEN n - M ELSE n

Add(x, y) == Wrap(x + y)

Sub(x, y) == Wrap(x - y)

Not(x) == AllOnes - x

\* OpIAddCarry and OpISubBorrow.
AddCarry(x, y) == [val |-> Add(x, y), carry |-> IF x + y >= M THEN 1 ELSE 0]

SubBorrow(x, y) == [val |-> Sub(x, y), carry |-> IF x < y THEN 1 ELSE 0]

\* ashr and lshr by one.
Shr1(x, signed) == Wrap(Value(x, signed) \div 2)
===============================================================================
