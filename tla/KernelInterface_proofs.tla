------------------------- MODULE KernelInterface_proofs -------------------------
(****************************************************************************)
(* Theorems about KernelInterface, and about Descriptors on which it rests, *)
(* for all programs: the resources of parameters are distinct, and what a   *)
(* launch gives to the device, or the program reads of its formats, is what *)
(* the compiler described.  The argument is in four parts.                  *)
(*                                                                          *)
(* First, what the operators of the model compute: offsets, ordinals,       *)
(* joined sequences.  Facts about all places of a sequence are proved from  *)
(* a minimal counterexample (NoLeast, NoFirst).  Second, the invariant of   *)
(* the pass, IInv, that says what its maps mean: a variable stands for the  *)
(* discriminant of its parameters, a binding for an index, a constant for a *)
(* type; and Complete, that says which parameters have them at each stage.  *)
(* Third, InterfaceInv: what is built later, lines, table, map and pass,    *)
(* are functions of the program and of these resources.  Fourth, that those *)
(* functions have the properties.                                           *)
(****************************************************************************)
EXTENDS KernelInterface, NaturalsInduction, WellFoundedInduction, FiniteSetTheorems, TLAPS

---------------------------------------------------------------------------
(* What the operators compute. *)

\* Integer division rounds down.
LEMMA DivFacts ==
    ASSUME NEW m \in Nat, NEW d \in Nat \ {0}
    PROVE  m \div d \in Nat /\ (m \div d) * d <= m /\ m < (m \div d) * d + d
BY SMTT(20)

\* An aligned number is no smaller.
LEMMA AlignFacts ==
    ASSUME NEW n \in Nat, NEW a \in Nat \ {0}
    PROVE  AlignTo(n, a) \in Nat /\ n <= AlignTo(n, a)
<1>1. n + a - 1 \in Nat
  OBVIOUS
<1>2. (n + a - 1) \div a \in Nat /\ n + a - 1 < ((n + a - 1) \div a) * a + a
  BY <1>1, DivFacts
<1>3. ((n + a - 1) \div a) * a \in Nat
  BY <1>2
<1> QED BY <1>2, <1>3 DEF AlignTo

\* A set of numbers, each of which has a smaller one, is empty.
LEMMA NoLeast ==
    ASSUME NEW S, S \subseteq Nat, \A n \in S : \E m \in S : m < n
    PROVE  S = {}
<1> SUFFICES ASSUME S # {} PROVE FALSE
  OBVIOUS
<1> DEFINE R == {ss \in Nat \X Nat : ss[1] < ss[2]}
<1>1. R = OpToRel(<, Nat)
  BY DEF OpToRel
<1>2. IsWellFoundedOn(R, Nat)
  BY <1>1, NatLessThanWellFounded
<1> HIDE DEF R
<1>3. PICK n \in S : \A m \in S : <<m, n>> \notin R
  BY <1>2, WFMin
<1>4. \A m \in S : ~(m < n)
  BY <1>3 DEF R
<1> QED BY <1>4

\* A set of numbers that has a number's predecessor whenever it has the number, but
\* not zero, is empty.
LEMMA NoFirst ==
    ASSUME NEW S, S \subseteq Nat, 0 \notin S, \A n \in Nat : n + 1 \in S => n \in S
    PROVE  S = {}
<1>1. ASSUME NEW n \in S PROVE n - 1 \in S /\ n - 1 < n
  <2>1. n # 0 /\ n \in Nat
    OBVIOUS
  <2>2. n - 1 \in Nat /\ (n - 1) + 1 = n
    BY <2>1
  <2> QED BY <2>2
<1>2. \A n \in S : \E m \in S : m < n
  BY <1>1
<1> QED BY <1>2, NoLeast

\* The ends of the members of a struct, as recursive function, exist and follow one
\* another.
LEMMA EndsFacts ==
    ASSUME NEW types \in Seq(ArgTypes)
    PROVE  /\ Ends(types) \in [0..Len(types) -> Nat]
           /\ Ends(types)[0] = 0
           /\ \A i \in 1..Len(types) :
                 Ends(types)[i] = AlignTo(Ends(types)[i - 1], types[i].align) + types[i].size
<1> DEFINE next(x, i) == AlignTo(x, types[i].align) + types[i].size
           IsEnds(e, n) == e = [i \in 0..n |-> IF i = 0 THEN 0 ELSE next(e[i - 1], i)]
           Missing == {n \in Nat : ~\E e : IsEnds(e, n)}
<1>1. Missing = {}
  <2> HIDE DEF next
  <2>1. 0 \notin Missing
    <3>1. IsEnds([i \in 0..0 |-> 0], 0)
      OBVIOUS
    <3> HIDE DEF IsEnds
    <3> QED BY <3>1
  <2>2. ASSUME NEW n \in Nat, n \notin Missing PROVE n + 1 \notin Missing
    <3>1. PICK e : IsEnds(e, n)
      BY <2>2
    <3>2. PICK g : g = [i \in 0..(n + 1) |-> IF i = 0 THEN 0 ELSE next(e[i - 1], i)]
      OBVIOUS
    <3>3. \A i \in 0..n : g[i] = e[i]
      BY <3>1, <3>2
    <3>4. \A i \in 0..(n + 1) : g[i] = IF i = 0 THEN 0 ELSE next(g[i - 1], i)
      <4> SUFFICES ASSUME NEW i \in 0..(n + 1), i # 0 PROVE g[i] = next(g[i - 1], i)
        BY <3>2
      <4>1. i - 1 \in 0..n
        OBVIOUS
      <4> QED BY <4>1, <3>2, <3>3
    <3>5. g = [i \in 0..(n + 1) |-> IF i = 0 THEN 0 ELSE next(g[i - 1], i)]
      BY <3>2, <3>4
    <3>6. IsEnds(g, n + 1)
      BY <3>5
    <3> HIDE DEF IsEnds
    <3> QED BY <3>6
  <2> HIDE DEF IsEnds
  <2>3. Missing \subseteq Nat
    OBVIOUS
  <2> HIDE DEF Missing
  <2> QED BY <2>1, <2>2, <2>3, NoFirst
<1>2. Len(types) \in Nat
  OBVIOUS
<1>3. \E e : IsEnds(e, Len(types))
  BY <1>1, <1>2
<1>4. IsEnds(Ends(types), Len(types))
  BY <1>3 DEF Ends
<1>5. /\ Ends(types) = [i \in 0..Len(types) |-> Ends(types)[i]]
      /\ DOMAIN Ends(types) = 0..Len(types) /\ Ends(types)[0] = 0
      /\ \A i \in 1..Len(types) : Ends(types)[i] = next(Ends(types)[i - 1], i)
  <2> DEFINE e == Ends(types)
  <2>1. IsEnds(e, Len(types))
    BY <1>4
  <2> HIDE DEF e, next
  <2> QED BY <2>1, <1>2 DEF e
<1> DEFINE Odd == {i \in Nat : i <= Len(types) /\ Ends(types)[i] \notin Nat}
<1>7. Odd = {}
  <2>1. 0 \notin Odd
    BY <1>5
  <2>2. ASSUME NEW n \in Nat, n \notin Odd, n + 1 <= Len(types) PROVE n + 1 \notin Odd
    <3>1. Ends(types)[n] \in Nat /\ n + 1 \in 1..Len(types) /\ (n + 1) - 1 = n
      BY <2>2, <1>2
    <3>2. Ends(types)[n + 1] = next(Ends(types)[n], n + 1)
      BY <3>1, <1>5
    <3>3. types[n + 1] \in ArgTypes
      BY <3>1
    <3>4. types[n + 1].size \in Nat /\ types[n + 1].align \in Nat \ {0}
      BY <3>3 DEF ArgTypes
    <3>5. AlignTo(Ends(types)[n], types[n + 1].align) \in Nat
      BY <3>1, <3>4, AlignFacts
    <3>6. next(Ends(types)[n], n + 1) \in Nat
      BY <3>4, <3>5
    <3> QED BY <3>2, <3>6
  <2>3. Odd \subseteq Nat /\ \A n \in Nat : n + 1 \in Odd => n + 1 <= Len(types)
    OBVIOUS
  <2> HIDE DEF Odd
  <2> QED BY <2>1, <2>2, <2>3, NoFirst
<1>8. \A i \in 0..Len(types) : Ends(types)[i] \in Nat
  BY <1>7, <1>2
<1>9. Ends(types) \in [0..Len(types) -> Nat]
  BY <1>5, <1>8
<1> QED BY <1>5, <1>9

\* Max is the largest of a set that has a bound.
LEMMA MaxFacts ==
    ASSUME NEW S, S \subseteq Nat, S # {}, NEW b \in Nat, \A x \in S : x <= b
    PROVE  Max(S) \in S /\ \A x \in S : x <= Max(S)
<1> DEFINE Bounds == {m \in Nat : \A x \in S : x <= m}
<1>1. PICK m \in Bounds : \A n \in Bounds : m <= n
  <2>1. Bounds # {} /\ Bounds \subseteq Nat
    OBVIOUS
  <2> HIDE DEF Bounds
  <2>2. ~\A n \in Bounds : \E m \in Bounds : m < n
    BY <2>1, NoLeast
  <2> QED BY <2>1, <2>2
<1>2. m \in S
  <2> SUFFICES ASSUME m \notin S PROVE FALSE
    OBVIOUS
  <2>1. m \in Nat /\ \A x \in S : x \in Nat /\ x < m
    BY <1>1
  <2>2. PICK x0 \in S : TRUE
    OBVIOUS
  <2>3. m - 1 \in Nat /\ m - 1 < m
    BY <2>1, <2>2
  <2>4. \A x \in S : x <= m - 1
    BY <2>1
  <2>5. m - 1 \in Bounds
    BY <2>3, <2>4
  <2> QED BY <1>1, <2>3, <2>5
<1>3. \E x \in S : \A y \in S : x >= y
  BY <1>1, <1>2
<1> QED BY <1>3 DEF Max

\* The places of the arguments by value, or of the others.
Chosen(args, byValue) == {i \in DOMAIN args : (args[i].kind = "pod") = byValue}

\* A part of a finite set has no more elements.
LEMMA Part ==
    ASSUME NEW S, NEW T, T \subseteq S, IsFiniteSet(S)
    PROVE  IsFiniteSet(T) /\ Cardinality(T) \in Nat /\ Cardinality(T) <= Cardinality(S)
<1>1. T \in SUBSET S
  OBVIOUS
<1> QED BY <1>1, FS_Subset, FS_CardinalityType

\* That of a set of places too.
LEMMA MaxPlace ==
    ASSUME NEW b \in Nat, NEW S, S \subseteq 1..b, S # {}
    PROVE  Max(S) \in S /\ \A x \in S : x <= Max(S)
<1>1. \A x \in S : x \in 1..b
  OBVIOUS
<1>2. \A x \in S : x \in Nat /\ x <= b
  BY <1>1
<1> QED BY <1>2, MaxFacts

\* Ordinals has each argument of its kind once, and no other.
LEMMA OrdinalsFacts ==
    ASSUME NEW T, NEW args \in Seq(T), NEW byValue
    PROVE  LET S == Chosen(args, byValue)
               f == Ordinals(args, byValue)
           IN  /\ f \in [1..Len(f) -> S] /\ Len(f) \in Nat /\ f \in Seq(S)
               /\ \A i \in S : \E n \in 1..Len(f) : f[n] = i
               /\ \A m, n \in 1..Len(f) : f[m] = f[n] => m = n
<1> DEFINE S == Chosen(args, byValue)
           upto(i) == {j \in S : j <= i}
           place(i) == Cardinality(upto(i))
           f == Ordinals(args, byValue)
<1>1. Len(args) \in Nat /\ S \subseteq 1..Len(args)
  BY DEF Chosen
<1> HIDE DEF S
<1>2. ASSUME NEW i \in Nat PROVE IsFiniteSet(upto(i)) /\ place(i) \in Nat
  <2>1. upto(i) \subseteq S /\ S \subseteq 1..Len(args) /\ 1 \in Int /\ Len(args) \in Int
    <3>1. upto(i) \subseteq S
      OBVIOUS
    <3> HIDE DEF upto
    <3> QED BY <3>1, <1>1
  <2>2. IsFiniteSet(1..Len(args)) /\ upto(i) \subseteq 1..Len(args)
    BY <2>1, FS_Interval
  <2> QED BY <2>1, <2>2, Part
<1>3. upto(0) = {} /\ upto(Len(args)) = S
  <2>1. \A j \in S : j \in Nat /\ 0 < j /\ j <= Len(args)
    BY <1>1
  <2> QED BY <2>1
<1>4. place(0) = 0 /\ place(Len(args)) = Cardinality(S) /\ Cardinality(S) \in Nat
  BY <1>1, <1>2, <1>3, FS_EmptySet
<1>5. ASSUME NEW i \in Nat
      PROVE  IF i + 1 \in S THEN place(i + 1) = place(i) + 1 ELSE place(i + 1) = place(i)
  <2>1. i + 1 \notin upto(i)
    OBVIOUS
  <2>2. \A j \in S : j <= i + 1 <=> j <= i \/ j = i + 1
    BY <1>1
  <2>3. CASE i + 1 \in S
    <3>1. upto(i + 1) = upto(i) \union {i + 1}
      BY <2>2, <2>3
    <3> QED BY <2>1, <2>3, <3>1, <1>2, FS_AddElement
  <2>4. CASE i + 1 \notin S
    <3>1. upto(i + 1) = upto(i)
      BY <2>2, <2>4
    <3> QED BY <2>4, <3>1
  <2> QED BY <2>3, <2>4
<1>6. ASSUME NEW i \in Nat, NEW j \in Nat, i <= j PROVE place(i) <= place(j)
  <2>1. \A x \in S : x \in Nat /\ (x <= i => x <= j)
    BY <1>1, <1>6
  <2>2. upto(i) \subseteq upto(j)
    BY <2>1
  <2> QED BY <2>2, <1>2, Part
<1>7. f = [n \in 1..Cardinality(S) |-> CHOOSE i \in S : place(i) = n]
  BY DEF Ordinals, Chosen, S
<1> HIDE DEF place, upto, f
<1>8. ASSUME NEW i \in S PROVE /\ place(i) = place(i - 1) + 1
                               /\ i - 1 \in Nat /\ i \in Nat /\ i <= Len(args)
  <2>1. i - 1 \in Nat /\ (i - 1) + 1 = i /\ i \in Nat /\ i <= Len(args)
    BY <1>1
  <2>2. IF (i - 1) + 1 \in S THEN place((i - 1) + 1) = place(i - 1) + 1
        ELSE place((i - 1) + 1) = place(i - 1)
    BY <2>1, <1>5
  <2> QED BY <2>1, <2>2
<1>9. ASSUME NEW i \in S, NEW j \in S, i < j PROVE place(i) < place(j)
  <2>1. /\ i \in Nat /\ j - 1 \in Nat /\ j \in Nat /\ place(j) = place(j - 1) + 1
    BY <1>8
  <2>2. i <= j - 1
    BY <2>1, <1>9
  <2>3. place(i) <= place(j - 1)
    BY <2>1, <2>2, <1>6
  <2>4. place(i) \in Nat /\ place(j - 1) \in Nat
    BY <2>1, <1>2
  <2> QED BY <2>1, <2>3, <2>4
<1>10. ASSUME NEW i \in S PROVE place(i) \in 1..Cardinality(S)
  <2>1. /\ place(i) = place(i - 1) + 1 /\ i - 1 \in Nat /\ i \in Nat /\ i <= Len(args)
    BY <1>8
  <2>2. place(i) <= Cardinality(S)
    BY <2>1, <1>1, <1>4, <1>6
  <2>3. place(i - 1) \in Nat
    BY <2>1, <1>2
  <2> QED BY <2>1, <2>2, <2>3, <1>4
<1>11. ASSUME NEW n \in 1..Cardinality(S) PROVE \E i \in S : place(i) = n
  <2> DEFINE Reached == {i \in Nat : place(i) >= n}
  <2>1. Len(args) \in Reached /\ 0 \notin Reached /\ Reached \subseteq Nat
    BY <1>1, <1>4
  <2>2. PICK i \in Nat : i + 1 \in Reached /\ i \notin Reached
    <3> HIDE DEF Reached
    <3> QED BY <2>1, NoFirst
  <2>3. place(i) \in Nat /\ place(i + 1) >= n /\ ~(place(i) >= n)
    BY <2>2, <1>2
  <2>4. IF i + 1 \in S THEN place(i + 1) = place(i) + 1 ELSE place(i + 1) = place(i)
    BY <1>5
  <2>5. i + 1 \in S /\ place(i + 1) = place(i) + 1
    BY <2>3, <2>4
  <2>6. place(i + 1) = n
    BY <2>3, <2>5, <1>4
  <2> QED BY <2>5, <2>6
<1>12. \A n \in 1..Cardinality(S) : f[n] \in S /\ place(f[n]) = n
  BY <1>7, <1>11
<1>13. /\ f \in [1..Cardinality(S) -> S] /\ f \in Seq(S)
       /\ Len(f) = Cardinality(S)
  BY <1>4, <1>7, <1>12
<1>14. ASSUME NEW i \in S PROVE f[place(i)] = i
  <2>1. place(i) \in 1..Cardinality(S)
    BY <1>10
  <2>2. PICK k \in S : k = f[place(i)] /\ place(k) = place(i)
    BY <2>1, <1>12
  <2>3. k \in Nat /\ i \in Nat /\ place(i) \in Nat
    BY <1>2, <1>8
  <2>4. ~(k < i)
    BY <2>2, <2>3, <1>9
  <2>5. ~(i < k)
    BY <2>2, <2>3, <1>9
  <2> QED BY <2>2, <2>3, <2>4, <2>5
<1>15. \A i \in S : \E n \in 1..Len(f) : f[n] = i
  BY <1>10, <1>13, <1>14
<1>16. \A m, n \in 1..Len(f) : f[m] = f[n] => m = n
  BY <1>12, <1>13
<1> QED BY <1>4, <1>13, <1>15, <1>16 DEF S, f

\* Members do not overlap: each begins behind the ends of those before it.
LEMMA OffsetFacts ==
    ASSUME NEW types \in Seq(ArgTypes)
    PROVE  /\ \A i \in 1..Len(types) : Offset(types, i) \in Nat
           /\ \A i, j \in 1..Len(types) :
                 i < j => Offset(types, i) + types[i].size <= Offset(types, j)
<1> DEFINE end == Ends(types)
<1>1. /\ Len(types) \in Nat /\ end \in [0..Len(types) -> Nat]
      /\ \A i \in 1..Len(types) :
            end[i] = AlignTo(end[i - 1], types[i].align) + types[i].size
  BY EndsFacts
<1> HIDE DEF end
<1>2. ASSUME NEW i \in 1..Len(types)
      PROVE  /\ Offset(types, i) \in Nat /\ end[i - 1] \in Nat /\ end[i] \in Nat
             /\ end[i - 1] <= Offset(types, i)
             /\ Offset(types, i) + types[i].size = end[i] /\ end[i - 1] <= end[i]
  <2>1. types[i] \in ArgTypes /\ i - 1 \in 0..Len(types) /\ i \in 0..Len(types)
    BY <1>1
  <2>2. /\ end[i - 1] \in Nat /\ end[i] \in Nat
        /\ types[i].size \in Nat /\ types[i].align \in Nat \ {0}
    BY <2>1, <1>1 DEF ArgTypes
  <2>3. /\ AlignTo(end[i - 1], types[i].align) \in Nat
        /\ end[i - 1] <= AlignTo(end[i - 1], types[i].align)
    BY <2>2, AlignFacts
  <2>4. end[i] = AlignTo(end[i - 1], types[i].align) + types[i].size
    BY <1>1
  <2>5. Offset(types, i) = end[i] - types[i].size
    BY DEF Offset, end
  <2> HIDE DEF AlignTo
  <2> QED BY <2>2, <2>3, <2>4, <2>5
<1>3. ASSUME NEW i \in 0..Len(types) PROVE \A j \in 0..Len(types) : i <= j => end[i] <= end[j]
  <2> DEFINE Odd == {d \in Nat : i + d <= Len(types) /\ ~(end[i] <= end[i + d])}
  <2>1. 0 \notin Odd
    BY <1>1
  <2>2. ASSUME NEW d \in Nat, d \notin Odd, d + 1 \in Odd PROVE FALSE
    <3>1. /\ i + d + 1 \in 1..Len(types) /\ (i + d + 1) - 1 = i + d
          /\ end[i] <= end[i + d] /\ ~(end[i] <= end[i + d + 1])
      BY <1>1, <2>2
    <3>2. end[i + d] \in Nat /\ end[i + d + 1] \in Nat /\ end[i + d] <= end[i + d + 1]
      BY <1>2, <3>1
    <3> QED BY <3>1, <3>2, <1>1
  <2>3. Odd \subseteq Nat
    OBVIOUS
  <2> HIDE DEF Odd
  <2>4. Odd = {}
    BY <2>1, <2>2, <2>3, NoFirst
  <2>5. ASSUME NEW j \in 0..Len(types), i <= j PROVE end[i] <= end[j]
    <3>1. j - i \in Nat /\ i + (j - i) = j /\ j <= Len(types)
      BY <1>1, <2>5
    <3> QED BY <2>4, <3>1 DEF Odd
  <2> QED BY <2>5
<1>4. ASSUME NEW i \in 1..Len(types), NEW j \in 1..Len(types), i < j
      PROVE  Offset(types, i) + types[i].size <= Offset(types, j)
  <2>1. i \in 0..Len(types) /\ j - 1 \in 0..Len(types) /\ i <= j - 1
    BY <1>1, <1>4
  <2>2. end[i] <= end[j - 1]
    BY <1>3, <2>1
  <2>3. /\ Offset(types, i) + types[i].size = end[i] /\ end[i] \in Nat
        /\ end[j - 1] <= Offset(types, j) /\ Offset(types, j) \in Nat /\ end[j - 1] \in Nat
    BY <1>2
  <2> QED BY <2>2, <2>3
<1> QED BY <1>2, <1>4

\* FlattenSeq is the last of the concatenations of the first sequences.
Joins(f, s, S) ==
    /\ f \in [0..Len(s) -> Seq(S)] /\ f[0] = <<>>
    /\ \A i \in 1..Len(s) : f[i] = f[i - 1] \o s[i]
    /\ FlattenSeq(s) = f[Len(s)]

\* There is such a function, though FlattenSeq chooses one that starts at 1.
LEMMA FlattenFacts ==
    ASSUME NEW S, NEW s \in Seq(Seq(S))
    PROVE  \E f : Joins(f, s, S)
<1> DEFINE join(x, i) == x \o s[i]
           IsFlat(e, n) == e = [i \in 1..n |-> IF i = 1 THEN s[i] ELSE join(e[i - 1], i)]
           Missing == {n \in Nat : ~\E e : IsFlat(e, n)}
<1> HIDE DEF IsFlat, join
<1>1. Missing = {}
  <2>1. 0 \notin Missing
    <3>1. IsFlat([i \in 1..0 |-> <<>>], 0)
      BY DEF IsFlat
    <3> QED BY <3>1
  <2>2. ASSUME NEW n \in Nat, n \notin Missing PROVE n + 1 \notin Missing
    <3>1. PICK e : IsFlat(e, n)
      BY <2>2
    <3>2. PICK g : g = [i \in 1..(n + 1) |-> IF i = 1 THEN s[i] ELSE join(e[i - 1], i)]
      OBVIOUS
    <3>3. \A i \in 1..n : g[i] = e[i]
      BY <3>1, <3>2 DEF IsFlat
    <3>4. \A i \in 1..(n + 1) : g[i] = IF i = 1 THEN s[i] ELSE join(g[i - 1], i)
      <4> SUFFICES ASSUME NEW i \in 1..(n + 1), i # 1 PROVE g[i] = join(g[i - 1], i)
        BY <3>2
      <4>1. i - 1 \in 1..n
        OBVIOUS
      <4>2. g[i - 1] = e[i - 1] /\ g[i] = join(e[i - 1], i)
        BY <4>1, <3>2, <3>3
      <4> QED BY <4>2
    <3>5. g = [i \in 1..(n + 1) |-> IF i = 1 THEN s[i] ELSE join(g[i - 1], i)]
      BY <3>2, <3>4
    <3>6. IsFlat(g, n + 1)
      BY <3>5 DEF IsFlat
    <3> QED BY <3>6
  <2>3. Missing \subseteq Nat
    OBVIOUS
  <2> HIDE DEF Missing
  <2> QED BY <2>1, <2>2, <2>3, NoFirst
<1>2. Len(s) \in Nat
  OBVIOUS
<1>3. PICK e : IsFlat(e, Len(s)) /\ (Len(s) # 0 => FlattenSeq(s) = e[Len(s)])
  <2>1. \E e : IsFlat(e, Len(s))
    BY <1>1, <1>2
  <2> DEFINE flat == CHOOSE e : IsFlat(e, Len(s))
  <2>2. IsFlat(flat, Len(s))
    BY <2>1
  <2>3. Len(s) # 0 => FlattenSeq(s) = flat[Len(s)]
    BY DEF FlattenSeq, IsFlat, join
  <2> HIDE DEF flat
  <2> QED BY <2>2, <2>3
<1>4. PICK f : f = [i \in 0..Len(s) |-> IF i = 0 THEN <<>> ELSE e[i]]
  OBVIOUS
<1>5. \A i \in 1..Len(s) : e[i] = IF i = 1 THEN s[i] ELSE e[i - 1] \o s[i]
  BY <1>2, <1>3 DEF IsFlat, join
<1>6. \A i \in 1..Len(s) : s[i] \in Seq(S)
  OBVIOUS
<1>7. \A i \in 1..Len(s) : f[i] = f[i - 1] \o s[i]
  <2> SUFFICES ASSUME NEW i \in 1..Len(s) PROVE f[i] = f[i - 1] \o s[i]
    OBVIOUS
  <2>1. f[i] = e[i]
    BY <1>2, <1>4
  <2>2. CASE i = 1
    <3>1. f[i - 1] = <<>> /\ f[i] = s[i] /\ s[i] \in Seq(S)
      BY <2>1, <2>2, <1>2, <1>4, <1>5, <1>6
    <3>2. s[i] = <<>> \o s[i]
      BY <3>1
    <3> QED BY <3>1, <3>2
  <2>3. CASE i # 1
    <3>1. f[i - 1] = e[i - 1]
      BY <2>3, <1>2, <1>4
    <3> QED BY <2>1, <2>3, <3>1, <1>5
  <2> QED BY <2>2, <2>3
<1>8. f[0] = <<>>
  BY <1>2, <1>4
<1> DEFINE Odd == {i \in Nat : i <= Len(s) /\ f[i] \notin Seq(S)}
<1>9. Odd = {}
  <2>1. 0 \notin Odd
    <3>1. <<>> \in Seq(S)
      OBVIOUS
    <3> QED BY <3>1, <1>8
  <2>2. ASSUME NEW n \in Nat, n \notin Odd, n + 1 \in Odd PROVE FALSE
    <3>1. n + 1 \in 1..Len(s) /\ (n + 1) - 1 = n /\ f[n] \in Seq(S) /\ f[n + 1] \notin Seq(S)
      BY <2>2, <1>2
    <3>2. f[n + 1] = f[n] \o s[n + 1] /\ s[n + 1] \in Seq(S)
      BY <3>1, <1>6, <1>7
    <3> QED BY <3>1, <3>2
  <2>3. Odd \subseteq Nat
    OBVIOUS
  <2> HIDE DEF Odd
  <2> QED BY <2>1, <2>2, <2>3, NoFirst
<1>10. f \in [0..Len(s) -> Seq(S)]
  <2>1. \A i \in 0..Len(s) : f[i] \in Seq(S)
    BY <1>9, <1>2
  <2> QED BY <2>1, <1>4
<1>11. FlattenSeq(s) = f[Len(s)]
  <2>1. CASE Len(s) = 0
    <3>1. s = <<>>
      BY <2>1
    <3> QED BY <2>1, <3>1, <1>8 DEF FlattenSeq
  <2>2. CASE Len(s) # 0
    BY <2>2, <1>2, <1>3, <1>4
  <2> QED BY <2>1, <2>2
<1> QED BY <1>7, <1>8, <1>10, <1>11 DEF Joins

\* A sequence is one of any set that has its elements.
LEMMA Elements ==
    ASSUME NEW S, NEW T, NEW s \in Seq(S), \A i \in 1..Len(s) : s[i] \in T
    PROVE  s \in Seq(T)
<1>1. s = [i \in 1..Len(s) |-> s[i]] /\ Len(s) \in Nat
  OBVIOUS
<1>2. PICK n \in Nat : n = Len(s)
  BY <1>1
<1>3. PICK f : f = [i \in 1..n |-> s[i]]
  OBVIOUS
<1>4. f \in Seq(T)
  BY <1>2, <1>3
<1> QED BY <1>1, <1>2, <1>3, <1>4

\* The arguments by their ordinals, and the types of those by value.
LEMMA ArgsFacts ==
    ASSUME NEW args \in Seq(Arguments)
    PROVE  LET others == Ordinals(args, FALSE)
               values == Ordinals(args, TRUE)
               types == PodTypes(args)
           IN  /\ others \in Seq(DOMAIN args) /\ values \in Seq(DOMAIN args)
               /\ Len(others) \in Nat /\ Len(values) \in Nat
               /\ \A n \in 1..Len(others) : /\ others[n] \in DOMAIN args
                                            /\ args[others[n]] \in Arguments
                                            /\ args[others[n]].kind # "pod"
               /\ \A j \in 1..Len(values) : /\ values[j] \in DOMAIN args
                                            /\ args[values[j]] \in Arguments
                                            /\ args[values[j]].kind = "pod"
               /\ \A m, n \in 1..Len(others) : others[m] = others[n] => m = n
               /\ \A m, n \in 1..Len(values) : values[m] = values[n] => m = n
               /\ types \in Seq(ArgTypes) /\ Len(types) = Len(values)
               /\ \A j \in 1..Len(types) : types[j] = args[values[j]].type
<1> DEFINE others == Ordinals(args, FALSE)
           values == Ordinals(args, TRUE)
           types == PodTypes(args)
<1>1. /\ others \in [1..Len(others) -> Chosen(args, FALSE)]
      /\ Len(others) \in Nat /\ others \in Seq(Chosen(args, FALSE))
      /\ \A m, n \in 1..Len(others) : others[m] = others[n] => m = n
  BY OrdinalsFacts
<1>2. /\ values \in [1..Len(values) -> Chosen(args, TRUE)]
      /\ Len(values) \in Nat /\ values \in Seq(Chosen(args, TRUE))
      /\ \A m, n \in 1..Len(values) : values[m] = values[n] => m = n
  BY OrdinalsFacts
<1>3. /\ \A i \in Chosen(args, FALSE) : /\ i \in DOMAIN args /\ args[i] \in Arguments
                                        /\ args[i].kind # "pod"
      /\ \A i \in Chosen(args, TRUE) : /\ i \in DOMAIN args /\ args[i] \in Arguments
                                       /\ args[i].kind = "pod"
  BY DEF Chosen
<1>4. types = [j \in DOMAIN values |-> args[values[j]].type]
  BY DEF PodTypes
<1> HIDE DEF others, values, types
<1>5. DOMAIN values = 1..Len(values)
  BY <1>2
<1>6. \A j \in 1..Len(values) : values[j] \in Chosen(args, TRUE)
  BY <1>2
<1>7. \A j \in 1..Len(values) : args[values[j]].type \in ArgTypes
  BY <1>3, <1>6 DEF Arguments
<1>8. types \in Seq(ArgTypes) /\ Len(types) = Len(values)
  BY <1>2, <1>4, <1>5, <1>7
<1>9. \A j \in 1..Len(types) : types[j] = args[values[j]].type
  BY <1>4, <1>5, <1>8
<1>10. others \in Seq(DOMAIN args) /\ values \in Seq(DOMAIN args)
  <2>1. \A n \in 1..Len(others) : others[n] \in DOMAIN args
    BY <1>1, <1>3
  <2>2. \A n \in 1..Len(values) : values[n] \in DOMAIN args
    BY <1>2, <1>3
  <2>3. others \in Seq(DOMAIN args)
    BY <1>1, <2>1, Elements
  <2>4. values \in Seq(DOMAIN args)
    BY <1>2, <2>2, Elements
  <2> QED BY <2>3, <2>4
<1>11. \A n \in 1..Len(others) : others[n] \in Chosen(args, FALSE)
  BY <1>1
<1> QED BY <1>1, <1>2, <1>3, <1>6, <1>8, <1>9, <1>10, <1>11 DEF others, values, types

\* The parameters are those of the other arguments, and one of the values if there are some.
LEMMA ParamsFacts ==
    ASSUME NEW args \in Seq(Arguments)
    PROVE  LET others == Ordinals(args, FALSE)
               values == Ordinals(args, TRUE)
               params == Params(args)
           IN  /\ Len(params) \in Nat /\ DOMAIN params = 1..Len(params)
               /\ Len(params) = IF Len(values) = 0 THEN Len(others) ELSE Len(others) + 1
               /\ \A n \in 1..Len(others) :
                     /\ params[n].kind = IF args[others[n]].kind = "local" THEN "local" ELSE "buffer"
                     /\ params[n].type = args[others[n]].type
                     /\ params[n].used = args[others[n]].used
               /\ Len(values) # 0 =>
                     /\ params[Len(params)].kind = PodKind(args)
                     /\ params[Len(params)].used =
                           \E i \in DOMAIN args : args[i].kind = "pod" /\ args[i].used
<1> DEFINE others == Ordinals(args, FALSE)
           values == Ordinals(args, TRUE)
           kind(i) == IF args[i].kind = "local" THEN "local" ELSE "buffer"
           value == [kind |-> PodKind(args), type |-> [members |-> Members(args)],
                     used |-> \E i \in DOMAIN args : args[i].kind = "pod" /\ args[i].used]
           front == [n \in DOMAIN others |->
                       [kind |-> kind(others[n]), type |-> args[others[n]].type,
                        used |-> args[others[n]].used]]
           back == IF values = <<>> THEN <<>> ELSE <<value>>
           V == Range(front) \union {value}
<1>1. Params(args) = front \o back
  BY DEF Params
<1>2. others \in Seq(DOMAIN args) /\ values \in Seq(DOMAIN args)
  BY ArgsFacts
<1>3. /\ value.kind = PodKind(args)
      /\ value.used = \E i \in DOMAIN args : args[i].kind = "pod" /\ args[i].used
  OBVIOUS
<1> HIDE DEF value, kind, others, values
<1>4. \A n \in 1..Len(others) : /\ front[n].kind = kind(others[n])
                                /\ front[n].type = args[others[n]].type
                                /\ front[n].used = args[others[n]].used
  BY <1>2
<1>5. DOMAIN front = 1..Len(others) /\ Len(others) \in Nat /\ Len(values) \in Nat
  BY <1>2
<1> HIDE DEF front
<1>6. front \in Seq(V) /\ Len(front) = Len(others)
  <2>1. \A n \in 1..Len(others) : front[n] \in V
    BY <1>5 DEF Range
  <2>2. front = [n \in 1..Len(others) |-> front[n]]
    BY <1>5 DEF front
  <2> HIDE DEF V
  <2> QED BY <1>5, <2>1, <2>2
<1> HIDE DEF V
<1>7. value \in V
  BY DEF V
<1>8. values = <<>> <=> Len(values) = 0
  BY <1>2
<1>9. CASE Len(values) = 0
  <2>1. Params(args) = front
    BY <1>1, <1>6, <1>8, <1>9
  <2>2. Len(front) \in Nat /\ DOMAIN front = 1..Len(front)
    BY <1>6
  <2> QED BY <2>1, <2>2, <1>4, <1>6, <1>9 DEF kind, others, values
<1>10. CASE Len(values) # 0
  <2>1. Params(args) = Append(front, value)
    BY <1>1, <1>6, <1>7, <1>8, <1>10
  <2>2. /\ Params(args) \in Seq(V) /\ Len(Params(args)) = Len(others) + 1
        /\ Params(args)[Len(others) + 1] = value
        /\ \A n \in 1..Len(others) : Params(args)[n] = front[n]
    BY <2>1, <1>5, <1>6, <1>7
  <2>3. Len(Params(args)) \in Nat /\ DOMAIN Params(args) = 1..Len(Params(args))
    BY <2>2
  <2> QED BY <2>2, <2>3, <1>3, <1>4, <1>10 DEF kind, others, values
<1> QED BY <1>5, <1>9, <1>10

\* The padding is made of members without room between them.
LEMMA PadFacts ==
    ASSUME NEW n \in Nat
    PROVE  /\ PadMembers(n) \in Seq(ArgTypes) /\ Len(PadMembers(n)) \in Nat
           /\ n = 0 => PadMembers(n) = <<>>
<1> DEFINE k == (n % 4) + (n \div 4)
<1>1. k \in Nat /\ (n = 0 => k = 0)
  OBVIOUS
<1>2. Scalar(1) \in ArgTypes /\ Scalar(4) \in ArgTypes
  BY DEF Scalar, ArgTypes
<1>3. PadMembers(n) = [j \in 1..k |-> IF j <= (n % 4) THEN Scalar(1) ELSE Scalar(4)]
  BY DEF PadMembers
<1> HIDE DEF k
<1> QED BY <1>1, <1>2, <1>3

\* Each value has its member, in their order, as long as the indexes are right.
LEMMA MembersFacts ==
    ASSUME NEW args \in Seq(Arguments), WellPlaced(args), PodKind(args) = "pod_ubo"
    PROVE  LET types == PodTypes(args)
               members == Members(args)
           IN  /\ members \in Seq(ArgTypes)
               /\ \A j \in 1..Len(types) : /\ MemberOf(args, j) \in 1..Len(members)
                                           /\ members[MemberOf(args, j)] = types[j]
               /\ \A i, j \in 1..Len(types) : i < j => MemberOf(args, i) < MemberOf(args, j)
<1> DEFINE types == PodTypes(args)
           L == Len(types)
           pads(j) == PadMembers(Padding(types, j))
           padded == [j \in DOMAIN types |-> Append(pads(j), types[j])]
<1>1. types \in Seq(ArgTypes) /\ L \in Nat /\ DOMAIN types = 1..L
  <2>1. types \in Seq(ArgTypes)
    BY ArgsFacts
  <2> HIDE DEF types
  <2> QED BY <2>1
<1>2. Members(args) = FlattenSeq(padded)
  BY DEF Members
<1>3. \A j \in 1..L : MemberOf(args, j) = j + Len(pads(j))
  BY DEF MemberOf
<1>4. \A i, j \in 1..L : i < j => Padding(types, i) = 0
  BY <1>1 DEF WellPlaced
<1> HIDE DEF types, L
<1>5. ASSUME NEW j \in 1..L PROVE Padding(types, j) \in Nat
  <2>1. Offset(types, j) \in Nat
    BY <1>1, OffsetFacts DEF L
  <2>2. AlignTo(Offset(types, j), 16) \in Nat /\ Offset(types, j) <= AlignTo(Offset(types, j), 16)
    <3>1. PICK x \in Nat : x = Offset(types, j)
      BY <2>1
    <3>2. PICK a \in Nat \ {0} : a = 16
      OBVIOUS
    <3>3. AlignTo(x, a) \in Nat /\ x <= AlignTo(x, a)
      BY AlignFacts
    <3> QED BY <3>1, <3>2, <3>3
  <2> QED BY <2>1, <2>2 DEF Padding
<1>6. ASSUME NEW j \in 1..L
      PROVE  /\ pads(j) \in Seq(ArgTypes) /\ Len(pads(j)) \in Nat
             /\ j < L => pads(j) = <<>>
  <2>1. j < L => Padding(types, j) = 0
    BY <1>1, <1>4
  <2> QED BY <2>1, <1>5, PadFacts
<1> HIDE DEF pads
<1>7. \A j \in 1..L : types[j] \in ArgTypes
  BY <1>1 DEF L
<1>8. padded \in Seq(Seq(ArgTypes)) /\ Len(padded) = L
  BY <1>1, <1>6, <1>7
<1>9. \A j \in 1..L : padded[j] = Append(pads(j), types[j])
  BY <1>1
<1> HIDE DEF padded
<1>10. PICK f : Joins(f, padded, ArgTypes)
  BY <1>8, FlattenFacts
<1>11. /\ f \in [0..L -> Seq(ArgTypes)] /\ f[0] = <<>> /\ Members(args) = f[L]
       /\ \A i \in 1..L : f[i] = f[i - 1] \o padded[i]
  BY <1>2, <1>8, <1>10 DEF Joins
<1>12. \A n \in 0..(L - 1) : Len(f[n]) = n /\ \A i \in 1..n : f[n][i] = types[i]
  <2> DEFINE Odd == {n \in Nat : n < L /\ ~(Len(f[n]) = n /\ \A i \in 1..n : f[n][i] = types[i])}
  <2>1. 0 \notin Odd
    BY <1>11
  <2>2. ASSUME NEW n \in Nat, n \notin Odd, n + 1 \in Odd PROVE FALSE
    <3>1. /\ n + 1 \in 1..L /\ (n + 1) - 1 = n /\ n + 1 < L /\ n \in 0..L
          /\ Len(f[n]) = n /\ \A i \in 1..n : f[n][i] = types[i]
      BY <2>2, <1>1
    <3>2. padded[n + 1] = <<types[n + 1]>>
      <4>1. pads(n + 1) = <<>>
        BY <3>1, <1>6
      <4> QED BY <4>1, <3>1, <1>9
    <3>3. f[n + 1] = Append(f[n], types[n + 1]) /\ f[n] \in Seq(ArgTypes)
      <4>1. f[n] \in Seq(ArgTypes) /\ f[n + 1] = f[n] \o <<types[n + 1]>> /\ types[n + 1] \in ArgTypes
        BY <3>1, <3>2, <1>7, <1>11
      <4> QED BY <4>1
    <3>4. Len(f[n + 1]) = n + 1 /\ \A i \in 1..(n + 1) : f[n + 1][i] = types[i]
      BY <3>1, <3>3, <1>7
    <3> QED BY <2>2, <3>4
  <2>3. Odd \subseteq Nat
    OBVIOUS
  <2> HIDE DEF Odd
  <2>4. Odd = {}
    BY <2>1, <2>2, <2>3, NoFirst
  <2> QED BY <2>4, <1>1 DEF Odd
<1>13. CASE L = 0
  BY <1>11, <1>13 DEF L, types
<1>14. CASE L # 0
  <2> DEFINE P == pads(L)
             F == f[L - 1]
  <2>1. /\ L \in 1..L /\ L - 1 \in 0..L /\ L - 1 \in 0..(L - 1)
    BY <1>1, <1>14
  <2>2. /\ F \in Seq(ArgTypes) /\ Len(F) = L - 1 /\ \A i \in 1..(L - 1) : F[i] = types[i]
        /\ P \in Seq(ArgTypes) /\ Len(P) \in Nat /\ types[L] \in ArgTypes
        /\ Members(args) = F \o Append(P, types[L])
    BY <2>1, <1>6, <1>7, <1>9, <1>11, <1>12
  <2> HIDE DEF P, F
  <2>3. /\ Members(args) \in Seq(ArgTypes) /\ Len(Members(args)) = L + Len(P)
        /\ Members(args)[L + Len(P)] = types[L]
        /\ \A i \in 1..(L - 1) : Members(args)[i] = types[i]
    BY <2>1, <2>2
  <2>4. MemberOf(args, L) = L + Len(P)
    BY <1>3, <2>1 DEF P
  <2>5. ASSUME NEW i \in 1..L, i < L PROVE MemberOf(args, i) = i
    <3>1. pads(i) = <<>>
      BY <1>6, <2>5
    <3> QED BY <3>1, <1>1, <1>3
  <2>6. ASSUME NEW j \in 1..L
        PROVE  /\ MemberOf(args, j) \in 1..Len(Members(args))
               /\ Members(args)[MemberOf(args, j)] = types[j]
    BY <1>1, <2>2, <2>3, <2>4, <2>5
  <2>7. ASSUME NEW i \in 1..L, NEW j \in 1..L, i < j PROVE MemberOf(args, i) < MemberOf(args, j)
    BY <1>1, <2>2, <2>4, <2>5, <2>7
  <2> QED BY <2>3, <2>6, <2>7 DEF L, types
<1> QED BY <1>13, <1>14

---------------------------------------------------------------------------
(* The invariant of the pass. *)

\* The stages of the pass.
Stages == {"scan", "bind", "local", "done"}

\* The parameters that are still to be handled are those of the stage.
InputOK ==
    /\ kernels \in Modules /\ stage \in Stages
    /\ todo \subseteq Used(kernels, stage = "local")
    /\ stage = "done" => todo = {}

\* A variable is the index of the discriminant of its parameters.
KeySet == [type : Types, index : Nat, space : Kinds]

\* A variable is the place of the discriminant of its parameters.
VariablesOK ==
    /\ keys \in Seq(KeySet)
    /\ DOMAIN variable \subseteq Used(kernels, FALSE)
    /\ \A p \in DOMAIN variable : /\ variable[p] \in 0..(Len(keys) - 1)
                                  /\ keys[variable[p] + 1] = Key(p)

\* All parameters are scanned before one is bound.
ScannedOK ==
    Used(kernels, FALSE) \subseteq DOMAIN variable \union (IF stage = "scan" THEN todo ELSE {})

\* A binding is the place of the index of its parameters; an index has one.
BindingsOK ==
    /\ slots \in Seq(Nat)
    /\ \A m, n \in 1..Len(slots) : slots[m] = slots[n] => m = n
    /\ DOMAIN bound \subseteq DOMAIN variable
    /\ \A p \in DOMAIN bound : /\ bound[p] \in 0..(Len(slots) - 1)
                               /\ slots[bound[p] + 1] = p[2]

\* A constant is the place of the type of its parameters, once in a kernel.
ConstantsOK ==
    /\ constants \in Seq(Types)
    /\ DOMAIN specId \subseteq Used(kernels, TRUE)
    /\ \A p \in DOMAIN specId :
          /\ specId[p] \in FirstLocalId..(FirstLocalId + Len(constants) - 1)
          /\ constants[specId[p] - FirstLocalId + 1] = At(p).type
    /\ \A p, q \in DOMAIN specId : p[1] = q[1] /\ specId[p] = specId[q] => p = q

\* The invariant of the pass.
IInv == InputOK /\ VariablesOK /\ ScannedOK /\ BindingsOK /\ ConstantsOK

---------------------------------------------------------------------------
(* Parameters. *)

\* A used parameter is one of a kernel, and has its type.
LEMMA UsedFacts ==
    ASSUME kernels \in Modules, NEW b \in BOOLEAN, NEW p \in Used(kernels, b)
    PROVE  /\ p = <<p[1], p[2]>> /\ p[2] \in Nat
           /\ At(p) \in Param
<1>1. kernels \in Seq(Seq(Param))
  BY ModulesAssumption
<1>2. /\ p \in (DOMAIN kernels) \X UNION {DOMAIN kernels[k] : k \in DOMAIN kernels}
      /\ p[2] \in DOMAIN kernels[p[1]]
  BY DEF Used
<1>3. p[1] \in DOMAIN kernels /\ p = <<p[1], p[2]>>
  BY <1>2
<1>4. kernels[p[1]] \in Seq(Param)
  BY <1>1, <1>3
<1> QED BY <1>2, <1>3, <1>4 DEF At

\* The discriminant of a parameter has its index.
LEMMA KeyFacts ==
    ASSUME kernels \in Modules, NEW p \in Used(kernels, FALSE)
    PROVE  Key(p) \in KeySet /\ Key(p).index = p[2]
BY UsedFacts DEF Key, KeySet, Param

---------------------------------------------------------------------------
(* What the invariant implies. *)

\* The invariant implies the property.
LEMMA Distinct == IInv => ResourcesDistinct
<1> SUFFICES ASSUME IInv PROVE ResourcesDistinct
  OBVIOUS
<1> USE DEF IInv
<1>1. \A p \in DOMAIN bound : /\ p = <<p[1], p[2]>> /\ p \in DOMAIN variable
                              /\ keys[variable[p] + 1].index = p[2]
  <2> SUFFICES ASSUME NEW p \in DOMAIN bound
               PROVE  /\ p = <<p[1], p[2]>> /\ p \in DOMAIN variable
                      /\ keys[variable[p] + 1].index = p[2]
    OBVIOUS
  <2>1. p \in DOMAIN variable /\ kernels \in Modules
    BY DEF BindingsOK, InputOK
  <2>2. p \in Used(kernels, FALSE) /\ keys[variable[p] + 1] = Key(p)
    BY <2>1 DEF VariablesOK
  <2>3. p = <<p[1], p[2]>>
    BY <2>1, <2>2, UsedFacts
  <2>4. Key(p).index = p[2]
    BY <2>1, <2>2, KeyFacts
  <2> QED BY <2>1, <2>2, <2>3, <2>4
<1>2. \A p, q \in DOMAIN bound : p[2] = q[2] => bound[p] = bound[q]
  <2> SUFFICES ASSUME NEW p \in DOMAIN bound, NEW q \in DOMAIN bound, p[2] = q[2]
               PROVE  bound[p] = bound[q]
    OBVIOUS
  <2>1. Len(slots) \in Nat
    BY DEF BindingsOK
  <2>2. /\ bound[p] \in 0..(Len(slots) - 1) /\ bound[q] \in 0..(Len(slots) - 1)
        /\ slots[bound[p] + 1] = slots[bound[q] + 1]
    BY DEF BindingsOK
  <2>3. bound[p] + 1 \in 1..Len(slots) /\ bound[q] + 1 \in 1..Len(slots)
    BY <2>1, <2>2
  <2>4. bound[p] + 1 = bound[q] + 1
    BY <2>2, <2>3 DEF BindingsOK
  <2> QED BY <2>1, <2>2, <2>4
<1>3. \A p, q \in DOMAIN bound : bound[p] = bound[q] => p[2] = q[2]
  BY DEF BindingsOK
<1>4. OneBinding
  BY <1>1, <1>2 DEF OneBinding
<1>5. OwnBindings
  <2> SUFFICES ASSUME NEW p \in DOMAIN bound, NEW q \in DOMAIN bound,
                      p[1] = q[1], bound[p] = bound[q]
               PROVE  p = q
    BY DEF OwnBindings
  <2>1. p[2] = q[2]
    BY <1>3
  <2>2. p = <<p[1], p[2]>> /\ q = <<q[1], q[2]>>
    BY <1>1
  <2> QED BY <2>1, <2>2
<1>6. OwnConstants
  BY DEF OwnConstants, ConstantsOK
<1> QED BY <1>4, <1>5, <1>6 DEF ResourcesDistinct

---------------------------------------------------------------------------
(* The steps of the pass, and its theorem. *)

\* The pass starts in the invariant.
LEMMA InitOK == DescriptorsInit => IInv
<1> SUFFICES ASSUME NEW ks \in Modules, Start(ks) PROVE IInv
  BY DEF DescriptorsInit
<1> USE DEF Start
<1>1. DOMAIN variable = {} /\ DOMAIN bound = {} /\ DOMAIN specId = {}
  OBVIOUS
<1>2. InputOK
  BY DEF InputOK, Stages
<1>3. VariablesOK /\ ScannedOK
  BY <1>1 DEF VariablesOK, ScannedOK
<1>4. BindingsOK /\ ConstantsOK
  BY <1>1 DEF BindingsOK, ConstantsOK
<1> QED BY <1>2, <1>3, <1>4 DEF IInv

\* A parameter gets the variable of its discriminant, a new one if there is none.
LEMMA ScanOK ==
    ASSUME IInv, NEW p \in todo, Scan(p)
    PROVE  IInv'
<1> USE DEF IInv
<1>1. /\ kernels' = kernels /\ stage' = stage /\ stage = "scan"
      /\ slots' = slots /\ bound' = bound /\ constants' = constants /\ specId' = specId
      /\ todo' = todo \ {p}
  BY DEF Scan
<1>2. kernels \in Modules /\ p \in Used(kernels, FALSE) /\ Key(p) \in KeySet
  BY <1>1, KeyFacts DEF InputOK
<1>3. PICK n \in Nat :
         /\ variable' = With(variable, p, n) /\ keys' \in Seq(KeySet)
         /\ n \in 0..(Len(keys') - 1) /\ keys'[n + 1] = Key(p)
         /\ Len(keys) <= Len(keys') /\ \A m \in 1..Len(keys) : keys'[m] = keys[m]
  <2>1. CASE \E n \in 1..Len(keys) : /\ keys[n] = Key(p)
                                     /\ variable' = With(variable, p, n - 1)
                                     /\ UNCHANGED keys
    BY <2>1 DEF VariablesOK
  <2>2. CASE keys' = Append(keys, Key(p)) /\ variable' = With(variable, p, Len(keys))
    BY <1>2, <2>2 DEF VariablesOK
  <2> QED BY <2>1, <2>2 DEF Scan
<1>4. \A q : Key(q)' = Key(q) /\ At(q)' = At(q)
  BY <1>1 DEF Key, At
<1>5. /\ DOMAIN variable' = DOMAIN variable \union {p}
      /\ variable'[p] = n
      /\ \A q \in DOMAIN variable : q # p => variable'[q] = variable[q]
  <2>1. variable' = With(variable, p, n)
    BY <1>3
  <2> QED BY <2>1 DEF With
<1>6. VariablesOK'
  <2>1. ASSUME NEW q \in DOMAIN variable'
        PROVE  variable'[q] \in 0..(Len(keys') - 1) /\ keys'[variable'[q] + 1] = Key(q)
    <3>1. CASE q = p
      BY <3>1, <1>3, <1>5
    <3>2. CASE q # p
      <4>1. q \in DOMAIN variable /\ variable'[q] = variable[q]
        BY <3>2, <1>5
      <4>2. variable[q] \in 0..(Len(keys) - 1) /\ keys[variable[q] + 1] = Key(q)
        BY <4>1 DEF VariablesOK
      <4>3. Len(keys) \in Nat /\ Len(keys') \in Nat
        BY <1>3 DEF VariablesOK
      <4>4. variable[q] + 1 \in 1..Len(keys) /\ variable[q] \in 0..(Len(keys') - 1)
        BY <4>2, <4>3, <1>3
      <4>5. keys'[variable[q] + 1] = keys[variable[q] + 1]
        BY <4>4, <1>3
      <4> QED BY <4>1, <4>2, <4>4, <4>5
    <3> QED BY <3>1, <3>2
  <2> QED BY <2>1, <1>1, <1>2, <1>3, <1>4, <1>5 DEF VariablesOK
<1>7. InputOK' /\ ScannedOK'
  BY <1>1, <1>5 DEF InputOK, ScannedOK
<1>8. BindingsOK' /\ ConstantsOK'
  BY <1>1, <1>4, <1>5 DEF BindingsOK, ConstantsOK
<1> QED BY <1>6, <1>7, <1>8

\* A parameter gets the binding of its index, a new one if there is none.
LEMMA BindOK ==
    ASSUME IInv, NEW p \in todo, Bind(p)
    PROVE  IInv'
<1> USE DEF IInv
<1>1. /\ kernels' = kernels /\ stage' = stage /\ stage = "bind"
      /\ keys' = keys /\ variable' = variable /\ constants' = constants /\ specId' = specId
      /\ todo' = todo \ {p}
  BY DEF Bind
<1>2. kernels \in Modules /\ p \in Used(kernels, FALSE) /\ p[2] \in Nat
  BY <1>1, UsedFacts DEF InputOK
<1>3. PICK n \in Nat :
         /\ bound' = With(bound, p, n) /\ slots' \in Seq(Nat)
         /\ n \in 0..(Len(slots') - 1) /\ slots'[n + 1] = p[2]
         /\ Len(slots) <= Len(slots') /\ \A m \in 1..Len(slots) : slots'[m] = slots[m]
         /\ \A i, j \in 1..Len(slots') : slots'[i] = slots'[j] => i = j
  <2>1. CASE \E n \in 1..Len(slots) : /\ slots[n] = p[2]
                                      /\ bound' = With(bound, p, n - 1)
                                      /\ UNCHANGED slots
    BY <2>1 DEF BindingsOK
  <2>2. CASE /\ \A n \in 1..Len(slots) : slots[n] # p[2]
             /\ slots' = Append(slots, p[2]) /\ bound' = With(bound, p, Len(slots))
    <3>1. slots \in Seq(Nat) /\ Len(slots) \in Nat
      BY DEF BindingsOK
    <3>2. /\ slots' \in Seq(Nat) /\ Len(slots') = Len(slots) + 1
          /\ slots'[Len(slots) + 1] = p[2]
          /\ \A m \in 1..Len(slots) : slots'[m] = slots[m]
      BY <1>2, <2>2, <3>1
    <3>3. ASSUME NEW i \in 1..Len(slots'), NEW j \in 1..Len(slots'), slots'[i] = slots'[j]
          PROVE  i = j
      <4>1. CASE i = Len(slots) + 1 /\ j # i
        BY <2>2, <3>1, <3>2, <3>3, <4>1
      <4>2. CASE j = Len(slots) + 1 /\ j # i
        BY <2>2, <3>1, <3>2, <3>3, <4>2
      <4>3. CASE i # Len(slots) + 1 /\ j # Len(slots) + 1
        <5>1. i \in 1..Len(slots) /\ j \in 1..Len(slots)
          BY <3>1, <3>2, <4>3
        <5> QED BY <5>1, <3>2, <3>3 DEF BindingsOK
      <4> QED BY <4>1, <4>2, <4>3
    <3>4. Len(slots) \in 0..(Len(slots') - 1) /\ Len(slots) <= Len(slots')
      BY <3>1, <3>2
    <3>5. bound' = With(bound, p, Len(slots))
      BY <2>2
    <3> QED BY <3>1, <3>2, <3>3, <3>4, <3>5
  <2> QED BY <2>1, <2>2 DEF Bind
<1>4. \A q : Key(q)' = Key(q) /\ At(q)' = At(q)
  BY <1>1 DEF Key, At
<1>5. /\ DOMAIN bound' = DOMAIN bound \union {p}
      /\ bound'[p] = n
      /\ \A q \in DOMAIN bound : q # p => bound'[q] = bound[q]
  <2>1. bound' = With(bound, p, n)
    BY <1>3
  <2> QED BY <2>1 DEF With
<1>6. BindingsOK'
  <2>1. ASSUME NEW q \in DOMAIN bound'
        PROVE  bound'[q] \in 0..(Len(slots') - 1) /\ slots'[bound'[q] + 1] = q[2]
    <3>1. CASE q = p
      BY <3>1, <1>3, <1>5
    <3>2. CASE q # p
      <4>1. q \in DOMAIN bound /\ bound'[q] = bound[q]
        BY <3>2, <1>5
      <4>2. bound[q] \in 0..(Len(slots) - 1) /\ slots[bound[q] + 1] = q[2]
        BY <4>1 DEF BindingsOK
      <4>3. PICK old, new \in Nat : old = Len(slots) /\ new = Len(slots') /\ old <= new
        <5>1. slots \in Seq(Nat)
          BY DEF BindingsOK
        <5>2. Len(slots) \in Nat /\ Len(slots') \in Nat
          BY <5>1, <1>3
        <5> QED BY <5>2, <1>3
      <4>4. bound[q] + 1 \in 1..Len(slots) /\ bound[q] \in 0..(Len(slots') - 1)
        BY <4>2, <4>3
      <4>5. slots'[bound[q] + 1] = slots[bound[q] + 1]
        BY <4>4, <1>3
      <4> QED BY <4>1, <4>2, <4>4, <4>5
    <3> QED BY <3>1, <3>2
  <2>2. DOMAIN bound' \subseteq DOMAIN variable'
    BY <1>1, <1>2, <1>5 DEF ScannedOK, BindingsOK
  <2> QED BY <2>1, <2>2, <1>3 DEF BindingsOK
<1>7. InputOK' /\ ScannedOK' /\ VariablesOK' /\ ConstantsOK'
  BY <1>1, <1>4 DEF InputOK, ScannedOK, VariablesOK, ConstantsOK
<1> QED BY <1>6, <1>7

\* A local parameter gets a constant of its type that its kernel does not use yet.
LEMMA SpecializeOK ==
    ASSUME IInv, NEW p \in todo, Specialize(p)
    PROVE  IInv'
<1> USE DEF IInv
<1>1. /\ kernels' = kernels /\ stage' = stage /\ stage = "local"
      /\ keys' = keys /\ variable' = variable /\ slots' = slots /\ bound' = bound
      /\ todo' = todo \ {p}
  BY DEF Specialize
<1>2. kernels \in Modules /\ p \in Used(kernels, TRUE) /\ At(p).type \in Types
  BY <1>1, UsedFacts DEF InputOK, Param
<1>3. PICK n \in Nat :
         /\ specId' = With(specId, p, FirstLocalId + n - 1) /\ constants' \in Seq(Types)
         /\ n \in 1..Len(constants') /\ constants'[n] = At(p).type
         /\ Len(constants) <= Len(constants')
         /\ \A m \in 1..Len(constants) : constants'[m] = constants[m]
         /\ \A q \in DOMAIN specId : q[1] = p[1] => specId[q] # FirstLocalId + n - 1
  <2>1. CASE \E n \in Reusable(p) : /\ specId' = With(specId, p, FirstLocalId + n - 1)
                                    /\ UNCHANGED constants
    BY <2>1 DEF ConstantsOK, Reusable
  <2>2. CASE /\ constants' = Append(constants, At(p).type)
             /\ specId' = With(specId, p, FirstLocalId + Len(constants))
    <3>1. Len(constants) \in Nat /\ Len(constants') = Len(constants) + 1
      BY <1>2, <2>2 DEF ConstantsOK
    <3>2. \A q \in DOMAIN specId : specId[q] # FirstLocalId + Len(constants)
      BY <3>1 DEF ConstantsOK, FirstLocalId
    <3>3. /\ FirstLocalId + Len(constants) = FirstLocalId + (Len(constants) + 1) - 1
          /\ Len(constants) + 1 \in 1..Len(constants') /\ Len(constants) + 1 \in Nat
      BY <3>1 DEF FirstLocalId
    <3>4. /\ constants' \in Seq(Types) /\ constants'[Len(constants) + 1] = At(p).type
          /\ \A m \in 1..Len(constants) : constants'[m] = constants[m]
      BY <1>2, <2>2 DEF ConstantsOK
    <3> QED BY <2>2, <3>1, <3>2, <3>3, <3>4
  <2> QED BY <2>1, <2>2 DEF Specialize
<1>4. \A q : Key(q)' = Key(q) /\ At(q)' = At(q)
  BY <1>1 DEF Key, At
<1>5. /\ DOMAIN specId' = DOMAIN specId \union {p}
      /\ specId'[p] = FirstLocalId + n - 1
      /\ \A q \in DOMAIN specId : q # p => specId'[q] = specId[q]
  <2>1. specId' = With(specId, p, FirstLocalId + n - 1)
    BY <1>3
  <2> QED BY <2>1 DEF With
<1>6. ConstantsOK'
  <2>0. Len(constants) \in Nat /\ Len(constants') \in Nat
    BY <1>3 DEF ConstantsOK
  <2>1. ASSUME NEW q \in DOMAIN specId'
        PROVE  /\ specId'[q] \in FirstLocalId..(FirstLocalId + Len(constants') - 1)
               /\ constants'[specId'[q] - FirstLocalId + 1] = At(q).type
    <3>1. CASE q = p
      <4>1. specId'[q] - FirstLocalId + 1 = n
        BY <3>1, <1>5 DEF FirstLocalId
      <4>2. FirstLocalId + n - 1 \in FirstLocalId..(FirstLocalId + Len(constants') - 1)
        BY <1>3, <2>0 DEF FirstLocalId
      <4> QED BY <3>1, <4>1, <4>2, <1>3, <1>5
    <3>2. CASE q # p
      <4>1. q \in DOMAIN specId /\ specId'[q] = specId[q]
        BY <3>2, <1>5
      <4>2. /\ specId[q] \in FirstLocalId..(FirstLocalId + Len(constants) - 1)
            /\ constants[specId[q] - FirstLocalId + 1] = At(q).type
        BY <4>1 DEF ConstantsOK
      <4>3. specId[q] - FirstLocalId + 1 \in 1..Len(constants)
        BY <4>2, <2>0 DEF FirstLocalId
      <4>4. specId[q] \in FirstLocalId..(FirstLocalId + Len(constants') - 1)
        BY <4>2, <2>0, <1>3 DEF FirstLocalId
      <4> QED BY <4>1, <4>2, <4>3, <4>4, <1>3
    <3> QED BY <3>1, <3>2
  <2>2. ASSUME NEW q \in DOMAIN specId', NEW r \in DOMAIN specId',
               q[1] = r[1], specId'[q] = specId'[r]
        PROVE  q = r
    <3>1. CASE q # p /\ r # p
      BY <3>1, <2>2, <1>5 DEF ConstantsOK
    <3>2. CASE q = p /\ r # p
      BY <3>2, <2>2, <1>3, <1>5
    <3>3. CASE q # p /\ r = p
      BY <3>3, <2>2, <1>3, <1>5
    <3> QED BY <3>1, <3>2, <3>3
  <2>3. DOMAIN specId' \subseteq Used(kernels, TRUE)
    BY <1>2, <1>5 DEF ConstantsOK
  <2> QED BY <2>1, <2>2, <2>3, <1>1, <1>3, <1>4 DEF ConstantsOK
<1>7. InputOK' /\ ScannedOK' /\ VariablesOK' /\ BindingsOK'
  BY <1>1, <1>4 DEF InputOK, ScannedOK, VariablesOK, BindingsOK
<1> QED BY <1>6, <1>7

\* A stage leaves the maps as they are.
LEMMA NextStageOK ==
    ASSUME IInv, NextStage
    PROVE  IInv'
<1> USE DEF IInv
<1>1. /\ kernels' = kernels /\ keys' = keys /\ variable' = variable
      /\ slots' = slots /\ bound' = bound /\ constants' = constants /\ specId' = specId
      /\ todo = {}
  BY DEF NextStage
<1>2. \A q : Key(q)' = Key(q) /\ At(q)' = At(q)
  BY <1>1 DEF Key, At
<1>3. \/ stage' = "bind" /\ todo' = Used(kernels, FALSE)
      \/ stage' = "local" /\ todo' = Used(kernels, TRUE)
      \/ stage' = "done" /\ todo' = {}
  BY DEF NextStage, InputOK, Stages
<1>4. InputOK'
  BY <1>1, <1>3 DEF InputOK, Stages
<1>5. ScannedOK'
  BY <1>1, <1>3 DEF ScannedOK
<1>6. VariablesOK' /\ BindingsOK' /\ ConstantsOK'
  BY <1>1, <1>2 DEF VariablesOK, BindingsOK, ConstantsOK
<1> QED BY <1>4, <1>5, <1>6

\* A variable has one binding, no two parameters of a kernel share a binding or a
\* constant, and only parameters of one type share a constant, whatever the module
\* (AllocateDescriptorsPass).
THEOREM ResourcesAreDistinct == DescriptorsSpec => []ResourcesDistinct
<1>1. IInv /\ [Allocate]_descriptorVars => IInv'
  <2> SUFFICES ASSUME IInv, [Allocate]_descriptorVars PROVE IInv'
    OBVIOUS
  <2>1. CASE UNCHANGED descriptorVars
    BY <2>1 DEF descriptorVars, IInv, InputOK, VariablesOK, ScannedOK, BindingsOK,
                ConstantsOK, Key, At
  <2>2. ASSUME NEW p \in todo, Scan(p) \/ Bind(p) \/ Specialize(p) PROVE IInv'
    BY <2>2, ScanOK, BindOK, SpecializeOK
  <2> QED BY <2>1, <2>2, NextStageOK DEF Allocate
<1> QED BY <1>1, InitOK, Distinct, PTL DEF DescriptorsSpec
---------------------------------------------------------------------------
(* What the pass has done. *)

\* What the pass has done behind its stages: all parameters have their binding or
\* constant at the end, and no binding or constant is without a parameter.
BoundOK ==
    /\ stage = "bind" => Used(kernels, FALSE) \subseteq DOMAIN bound \union todo
    /\ stage \in {"local", "done"} => Used(kernels, FALSE) \subseteq DOMAIN bound
    /\ \A n \in 1..Len(slots) : \E q \in DOMAIN bound : bound[q] = n - 1

\* The same of the constants of local parameters.
GivenOK ==
    /\ stage \in {"scan", "bind"} => DOMAIN specId = {}
    /\ stage = "local" => /\ Used(kernels, TRUE) \subseteq DOMAIN specId \union todo
                          /\ todo \intersect DOMAIN specId = {}
    /\ stage = "done" => Used(kernels, TRUE) \subseteq DOMAIN specId
    /\ \A n \in 1..Len(constants) : \E q \in DOMAIN specId : specId[q] = FirstLocalId + n - 1

\* While the local parameters have one type and no kernel has two, one constant is
\* enough.
Alike ==
    \A p, q \in DOMAIN specId : At(p).type = At(q).type /\ (p[1] = q[1] => p = q)

\* Then it is the first.
FirstOK == Alike => \A p \in DOMAIN specId : specId[p] = FirstLocalId

\* The invariant of what is done.
Complete == BoundOK /\ GivenOK /\ FirstOK

\* Each step of the pass keeps it.
LEMMA ScanComplete ==
    ASSUME IInv, Complete, NEW p \in todo, Scan(p)
    PROVE  Complete'
<1>1. /\ kernels' = kernels /\ stage' = stage /\ stage = "scan" /\ bound' = bound
      /\ slots' = slots /\ constants' = constants /\ specId' = specId
  BY DEF Scan
<1>2. \A q : At(q)' = At(q)
  BY <1>1 DEF At
<1> QED BY <1>1, <1>2 DEF Complete, BoundOK, GivenOK, FirstOK, Alike

\* A binding is new, or that of the parameters of its index.
LEMMA BindComplete ==
    ASSUME IInv, Complete, NEW p \in todo, Bind(p)
    PROVE  Complete'
<1>1. /\ kernels' = kernels /\ stage' = stage /\ stage = "bind" /\ todo' = todo \ {p}
      /\ constants' = constants /\ specId' = specId
  BY DEF Bind
<1>2. \A q : At(q)' = At(q)
  BY <1>1 DEF At
<1>3. PICK n : /\ bound' = With(bound, p, n)
               /\ \/ slots' = slots
                  \/ slots' = Append(slots, p[2]) /\ n = Len(slots)
  BY DEF Bind
<1>4. p \notin DOMAIN bound \/ bound[p] = n
  <2>1. CASE p \in DOMAIN bound
    <3>1. /\ bound[p] \in 0..(Len(slots) - 1) /\ slots[bound[p] + 1] = p[2]
          /\ slots \in Seq(Nat) /\ \A i, j \in 1..Len(slots) : slots[i] = slots[j] => i = j
      BY <2>1 DEF IInv, BindingsOK
    <3>2. bound[p] + 1 \in 1..Len(slots)
      BY <3>1
    <3>3. PICK m \in 1..Len(slots) : slots[m] = p[2] /\ bound' = With(bound, p, m - 1)
      BY <3>1, <3>2 DEF Bind
    <3>4. m = bound[p] + 1
      BY <3>1, <3>2, <3>3
    <3>5. bound'[p] = n /\ bound'[p] = m - 1
      BY <1>3, <3>3 DEF With
    <3> QED BY <3>1, <3>4, <3>5
  <2> QED BY <2>1
<1>5. /\ DOMAIN bound' = DOMAIN bound \union {p} /\ bound'[p] = n
      /\ \A q \in DOMAIN bound : bound'[q] = bound[q]
  <2>1. bound' = With(bound, p, n)
    BY <1>3
  <2> QED BY <2>1, <1>4 DEF With
<1>6. ASSUME NEW m \in 1..Len(slots') PROVE \E q \in DOMAIN bound' : bound'[q] = m - 1
  <2>1. slots \in Seq(Nat) /\ Len(slots) \in Nat
    BY DEF IInv, BindingsOK
  <2>2. CASE m \in 1..Len(slots)
    <3>1. PICK q \in DOMAIN bound : bound[q] = m - 1
      BY <2>2 DEF Complete, BoundOK
    <3> QED BY <3>1, <1>5
  <2>3. CASE m \notin 1..Len(slots)
    <3>1. slots' = Append(slots, p[2]) /\ n = Len(slots)
      BY <1>3, <2>3
    <3>2. Len(slots') = Len(slots) + 1
      BY <2>1, <3>1
    <3>3. m = Len(slots) + 1
      BY <2>1, <2>3, <3>2
    <3> QED BY <3>1, <3>3, <2>1, <1>5
  <2> QED BY <2>2, <2>3
<1>7. BoundOK'
  BY <1>1, <1>5, <1>6 DEF Complete, BoundOK
<1> QED BY <1>1, <1>2, <1>7 DEF Complete, GivenOK, FirstOK, Alike

\* A constant is new only if none can be reused.
LEMMA SpecializeComplete ==
    ASSUME IInv, Complete, NEW p \in todo, Specialize(p)
    PROVE  Complete'
<1>1. /\ kernels' = kernels /\ stage' = stage /\ stage = "local" /\ todo' = todo \ {p}
      /\ slots' = slots /\ bound' = bound
  BY DEF Specialize
<1>2. \A q : At(q)' = At(q)
  BY <1>1 DEF At
<1>3. p \notin DOMAIN specId /\ constants \in Seq(Types) /\ Len(constants) \in Nat
  BY <1>1 DEF Complete, GivenOK, IInv, ConstantsOK
<1>4. PICK n : /\ specId' = With(specId, p, FirstLocalId + n - 1)
               /\ \/ /\ constants' = constants /\ n \in Reusable(p)
                     /\ \A m \in Reusable(p) : n <= m
                  \/ /\ Reusable(p) = {} /\ n = Len(constants) + 1
                     /\ constants' = Append(constants, At(p).type)
  <2>1. ASSUME NEW n \in Reusable(p), \A m \in Reusable(p) : n <= m,
               specId' = With(specId, p, FirstLocalId + n - 1), UNCHANGED constants
        PROVE  \E m : /\ specId' = With(specId, p, FirstLocalId + m - 1)
                      /\ constants' = constants /\ m \in Reusable(p)
                      /\ \A i \in Reusable(p) : m <= i
    BY <2>1
  <2>2. ASSUME Reusable(p) = {}, specId' = With(specId, p, FirstLocalId + Len(constants))
        PROVE  specId' = With(specId, p, FirstLocalId + (Len(constants) + 1) - 1)
    <3>1. FirstLocalId + Len(constants) = FirstLocalId + (Len(constants) + 1) - 1
      BY <1>3 DEF FirstLocalId
    <3> QED BY <2>2, <3>1
  <2> QED BY <2>1, <2>2 DEF Specialize
<1>5. /\ DOMAIN specId' = DOMAIN specId \union {p} /\ specId'[p] = FirstLocalId + n - 1
      /\ \A q \in DOMAIN specId : specId'[q] = specId[q]
  <2>1. specId' = With(specId, p, FirstLocalId + n - 1)
    BY <1>4
  <2> QED BY <2>1, <1>3 DEF With
<1>6. ASSUME NEW m \in 1..Len(constants')
      PROVE  \E q \in DOMAIN specId' : specId'[q] = FirstLocalId + m - 1
  <2>1. CASE m \in 1..Len(constants)
    <3>1. PICK q \in DOMAIN specId : specId[q] = FirstLocalId + m - 1
      BY <2>1 DEF Complete, GivenOK
    <3> QED BY <3>1, <1>5
  <2>2. CASE m \notin 1..Len(constants)
    <3>1. constants' = Append(constants, At(p).type) /\ n = Len(constants) + 1
      BY <1>4, <2>2
    <3>2. Len(constants') = Len(constants) + 1
      BY <1>3, <3>1
    <3>3. m = n
      BY <1>3, <2>2, <3>1, <3>2
    <3> QED BY <3>3, <1>5
  <2> QED BY <2>1, <2>2
<1>7. FirstOK'
  <2> SUFFICES ASSUME Alike' PROVE \A q \in DOMAIN specId' : specId'[q] = FirstLocalId
    BY DEF FirstOK
  <2>1. /\ \A q \in DOMAIN specId : q[1] # p[1] /\ At(q).type = At(p).type
        /\ Alike
    BY <1>2, <1>3, <1>5 DEF Alike
  <2>2. \A q \in DOMAIN specId : specId[q] = FirstLocalId
    BY <2>1 DEF Complete, FirstOK
  <2>3. ASSUME NEW m \in 1..Len(constants) PROVE m = 1
    <3>1. PICK q \in DOMAIN specId : specId[q] = FirstLocalId + m - 1
      BY DEF Complete, GivenOK
    <3> QED BY <3>1, <2>2, <1>3 DEF FirstLocalId
  <2>4. n = 1
    <3>1. CASE n \in Reusable(p)
      BY <3>1, <2>3 DEF Reusable
    <3>2. CASE Reusable(p) = {} /\ n = Len(constants) + 1
      <4>1. ASSUME Len(constants) # 0 PROVE FALSE
        <5>1. 1 \in 1..Len(constants)
          BY <1>3, <4>1
        <5>2. PICK q \in DOMAIN specId : specId[q] = FirstLocalId + 1 - 1
          BY <5>1 DEF Complete, GivenOK
        <5>3. constants[specId[q] - FirstLocalId + 1] = At(q).type /\ specId[q] = FirstLocalId
          BY <5>2, <2>2 DEF IInv, ConstantsOK
        <5>4. constants[1] = At(p).type
          BY <5>3, <2>1 DEF FirstLocalId
        <5>5. 1 \in Reusable(p)
          BY <5>1, <5>4, <2>1 DEF Reusable
        <5> QED BY <5>5, <3>2
      <4> QED BY <4>1, <3>2
    <3> QED BY <3>1, <3>2, <1>4
  <2> QED BY <2>2, <2>4, <1>5 DEF FirstLocalId
<1>8. GivenOK'
  BY <1>1, <1>5, <1>6 DEF Complete, GivenOK
<1>9. BoundOK'
  BY <1>1 DEF Complete, BoundOK
<1> QED BY <1>7, <1>8, <1>9 DEF Complete

\* A stage ends when it has no parameter left.
LEMMA NextStageComplete ==
    ASSUME IInv, Complete, NextStage
    PROVE  Complete'
<1>1. /\ kernels' = kernels /\ slots' = slots /\ bound' = bound /\ constants' = constants
      /\ specId' = specId /\ todo = {}
  BY DEF NextStage
<1>2. \A q : At(q)' = At(q)
  BY <1>1 DEF At
<1>3. \/ stage = "scan" /\ stage' = "bind" /\ todo' = Used(kernels, FALSE)
      \/ stage = "bind" /\ stage' = "local" /\ todo' = Used(kernels, TRUE)
      \/ stage = "local" /\ stage' = "done" /\ todo' = {}
  BY DEF NextStage, IInv, InputOK, Stages
<1>4. BoundOK'
  BY <1>1, <1>3 DEF Complete, BoundOK
<1>5. GivenOK'
  BY <1>1, <1>3 DEF Complete, GivenOK
<1>6. FirstOK'
  BY <1>1, <1>2 DEF Complete, FirstOK, Alike
<1> QED BY <1>4, <1>5, <1>6 DEF Complete

\* Before the pass nothing is done and nothing is required.
LEMMA StartOK ==
    ASSUME NEW ks \in Modules, Start(ks)
    PROVE  IInv /\ Complete
<1>1. IInv
  BY InitOK DEF DescriptorsInit
<1>2. DOMAIN bound = {} /\ DOMAIN specId = {} /\ Len(slots) = 0 /\ Len(constants) = 0
  BY DEF Start
<1>3. stage = "scan"
  BY DEF Start
<1> QED BY <1>1, <1>2, <1>3 DEF Complete, BoundOK, GivenOK, FirstOK

\* A step of the pass in both invariants.
LEMMA AllocateOK ==
    ASSUME IInv, Complete, Allocate
    PROVE  IInv' /\ Complete' /\ stage # "done" /\ kernels' = kernels
<1>1. CASE NextStage
  BY <1>1, NextStageOK, NextStageComplete DEF NextStage
<1>2. ASSUME NEW p \in todo, Scan(p) \/ Bind(p) \/ Specialize(p)
      PROVE  IInv' /\ Complete' /\ stage # "done" /\ kernels' = kernels
  <2>1. stage # "done" /\ kernels' = kernels
    BY <1>2 DEF Scan, Bind, Specialize
  <2> QED BY <1>2, <2>1, ScanOK, BindOK, SpecializeOK,
             ScanComplete, BindComplete, SpecializeComplete
<1> QED BY <1>1, <1>2 DEF Allocate

---------------------------------------------------------------------------
(* The invariant of the interface. *)

\* What the later steps made is a function of the program and its resources.
ProgramOK ==
    /\ program \in Programs /\ kernels = Clustered(program)
    /\ IInv /\ Complete

\* The lines are those of the resources, which are final.
LinesOK ==
    /\ lines = <<>> => table = <<>>
    /\ \/ lines = <<>>
       \/ /\ stage = "done" /\ lines = [k \in DOMAIN program |-> KernelLines(k)]
          /\ printfLines = PrintfLines(Formats(program))

\* What a launch asks of all kernels, from the lines.
AnyEntryHasBindings == \E k \in DOMAIN lines : DOMAIN TableEntry(k).args # {}

\* The layout that the launch of a kernel makes.
Layout(k) == Entries(TableEntry(k).args, FALSE) \union Entries(TableEntry(k).args, TRUE)

\* An entry of the table is that of its lines; its layout has the globals or not yet.
TableOK ==
    \/ table = <<>>
    \/ /\ DOMAIN table = DOMAIN lines
       /\ \A k \in DOMAIN table :
             /\ table[k] = [args |-> TableEntry(k).args,
                            dynamicMem |-> TableEntry(k).dynamicMem,
                            printf |-> TableEntry(k).printf,
                            layout |-> table[k].layout,
                            complete |-> TableEntry(k).complete]
             /\ Entries(TableEntry(k).args, FALSE) \subseteq table[k].layout
             /\ table[k].layout \subseteq Layout(k)

\* The map of the runtime is that of the lines of the formats.
DataOK ==
    \/ printfData = NoData
    \/ table # <<>> /\ printfData = [started |-> TRUE, map |-> FormatMap(printfLines)]

\* What a launch gives to the device.
Given(k, memory) ==
    LET entry == TableEntry(k)
        groups == IF ~entry.complete \/ AnyEntryHasBindings THEN <<Layout(k)>> ELSE <<>>
    IN  [kernel |-> k,
         layouts |-> groups \o IF entry.printf THEN <<"printf">> ELSE <<>>,
         printfGroup |-> IF AnyEntryHasBindings THEN 2 ELSE 1,
         uniforms |-> Uniforms(entry.args),
         buffers |-> Buffers(entry.args),
         asked |-> memory,
         shared |-> IF entry.dynamicMem = 0 THEN 1 
                    ELSE Max({memory \div entry.dynamicMem, 1})]

\* A pass is given what a launch of its kernel gives.
PassOK ==
    \/ pass = NoPass
    \/ table # <<>> /\ \E k \in DOMAIN table, memory \in Memories : pass = Given(k, memory)

\* The invariant of the interface.
InterfaceInv == ProgramOK /\ LinesOK /\ TableOK /\ DataOK /\ PassOK

---------------------------------------------------------------------------
(* Its steps. *)

\* It holds before the pass.
LEMMA InterfaceInitOK == InterfaceInit => InterfaceInv
<1> SUFFICES ASSUME InterfaceInit PROVE InterfaceInv
  OBVIOUS
<1>1. Clustered(program) \in Modules
  BY ProgramsAssumption DEF InterfaceInit
<1>2. IInv /\ Complete
  BY <1>1, StartOK DEF InterfaceInit
<1>3. kernels = Clustered(program)
  BY DEF InterfaceInit, Start
<1> QED BY <1>2, <1>3 DEF InterfaceInit, InterfaceInv, ProgramOK, LinesOK, TableOK, DataOK, PassOK

\* The pass has no lines to disturb.
LEMMA CompileOK ==
    ASSUME InterfaceInv, Compile
    PROVE  InterfaceInv'
<1>1. IInv' /\ Complete' /\ stage # "done" /\ kernels' = kernels
  BY AllocateOK DEF InterfaceInv, ProgramOK, Compile
<1>2. UNCHANGED <<formatVars, program, lines, table, pass>>
  BY DEF Compile
<1>3. lines = <<>> /\ table = <<>> /\ printfData = NoData /\ pass = NoPass
  BY <1>1 DEF InterfaceInv, LinesOK, DataOK, PassOK
<1> QED BY <1>1, <1>2, <1>3
        DEF InterfaceInv, ProgramOK, LinesOK, TableOK, DataOK, PassOK, formatVars

\* Steps behind the pass leave its resources and all that is computed from them.
LEMMA ResourcesUnread ==
    ASSUME ProgramOK, UNCHANGED descriptorVars, UNCHANGED program
    PROVE  ProgramOK'
<1>1. /\ kernels' = kernels /\ stage' = stage /\ todo' = todo /\ keys' = keys
      /\ variable' = variable /\ slots' = slots /\ bound' = bound
      /\ constants' = constants /\ specId' = specId
  BY DEF descriptorVars
<1>2. \A q : Key(q)' = Key(q) /\ At(q)' = At(q)
  BY <1>1 DEF Key, At
<1>3. InputOK' /\ VariablesOK' /\ ScannedOK' /\ BindingsOK' /\ ConstantsOK'
  <2>1. InputOK' /\ VariablesOK' /\ ScannedOK'
    BY <1>1, <1>2 DEF ProgramOK, IInv, InputOK, VariablesOK, ScannedOK
  <2>2. BindingsOK'
    BY <1>1 DEF ProgramOK, IInv, BindingsOK
  <2>3. ConstantsOK'
    BY <1>1, <1>2 DEF ProgramOK, IInv, ConstantsOK
  <2> QED BY <2>1, <2>2, <2>3
<1>4. BoundOK' /\ GivenOK' /\ FirstOK'
  <2>1. BoundOK'
    BY <1>1 DEF ProgramOK, Complete, BoundOK
  <2>2. GivenOK'
    BY <1>1 DEF ProgramOK, Complete, GivenOK
  <2>3. FirstOK'
    BY <1>1, <1>2 DEF ProgramOK, Complete, FirstOK, Alike
  <2> QED BY <2>1, <2>2, <2>3
<1> QED BY <1>1, <1>3, <1>4 DEF ProgramOK, IInv, Complete

\* The reflection describes the final resources.
LEMMA ReflectOK ==
    ASSUME InterfaceInv, Reflect
    PROVE  InterfaceInv'
<1>1. /\ stage = "done" /\ lines = <<>> /\ printfLines' = PrintfLines(Formats(program))
      /\ lines' = [k \in DOMAIN program |-> KernelLines(k)]
      /\ UNCHANGED <<descriptorVars, program, table, printfData, pass>>
  BY DEF Reflect
<1>2. \A k : KernelLines(k)' = KernelLines(k)
  <2>1. /\ kernels' = kernels /\ program' = program /\ specId' = specId
        /\ bound' = bound /\ variable' = variable
    BY <1>1 DEF descriptorVars
  <2> QED BY <2>1 DEF KernelLines, Line, BindingOf, At
<1>3. ProgramOK'
  BY <1>1, ResourcesUnread DEF InterfaceInv
<1> QED BY <1>1, <1>2, <1>3
        DEF InterfaceInv, LinesOK, TableOK, DataOK, PassOK, descriptorVars

\* The table is built from all lines.
LEMMA BuildTableOK ==
    ASSUME InterfaceInv, BuildTable
    PROVE  InterfaceInv'
<1>1. /\ lines # <<>> /\ table = <<>> /\ table' = [k \in DOMAIN lines |-> TableEntry(k)]
      /\ UNCHANGED <<descriptorVars, formatVars, program, lines, pass>>
  BY DEF BuildTable
<1>2. \A k : TableEntry(k)' = TableEntry(k)
  BY <1>1 DEF TableEntry
<1>3. \A k : TableEntry(k) = [args |-> TableEntry(k).args,
                             dynamicMem |-> TableEntry(k).dynamicMem,
                             printf |-> TableEntry(k).printf,
                             layout |-> TableEntry(k).layout,
                             complete |-> TableEntry(k).complete]
  BY DEF TableEntry
<1>4. \A k : TableEntry(k).layout = Entries(TableEntry(k).args, FALSE)
  BY DEF TableEntry
<1>5. ASSUME NEW k \in DOMAIN table'
      PROVE  /\ table'[k] = [args |-> TableEntry(k)'.args,
                             dynamicMem |-> TableEntry(k)'.dynamicMem,
                             printf |-> TableEntry(k)'.printf,
                             layout |-> table'[k].layout,
                             complete |-> TableEntry(k)'.complete]
             /\ Entries(TableEntry(k)'.args, FALSE) \subseteq table'[k].layout
             /\ table'[k].layout \subseteq Layout(k)'
  <2>1. table'[k] = TableEntry(k) /\ TableEntry(k)' = TableEntry(k)
    BY <1>1, <1>2
  <2>2. Layout(k)' = Layout(k)
    BY <2>1 DEF Layout
  <2> QED BY <2>1, <2>2, <1>3, <1>4 DEF Layout
<1>6. TableOK'
  BY <1>1, <1>5 DEF TableOK
<1>7. ProgramOK'
  BY <1>1, ResourcesUnread DEF InterfaceInv
<1>8. \A k : KernelLines(k)' = KernelLines(k)
  BY <1>1 DEF descriptorVars, KernelLines, Line, BindingOf, At
<1>9. LinesOK'
  BY <1>1, <1>8 DEF InterfaceInv, LinesOK, descriptorVars, formatVars
<1>10. printfData' = NoData /\ pass' = NoPass
  BY <1>1 DEF InterfaceInv, DataOK, PassOK, formatVars
<1> QED BY <1>6, <1>7, <1>9, <1>10 DEF InterfaceInv, DataOK, PassOK

\* Steps behind the reflection leave the lines and all that is computed from them.
LEMMA Unread ==
    ASSUME InterfaceInv, UNCHANGED <<descriptorVars, program, lines>>
    PROVE  /\ ProgramOK'
           /\ \A k : /\ TableEntry(k)' = TableEntry(k) /\ KernelLines(k)' = KernelLines(k)
                     /\ Layout(k)' = Layout(k)
           /\ \A k, memory : Given(k, memory)' = Given(k, memory)
<1>1. \A k : TableEntry(k)' = TableEntry(k)
  BY DEF TableEntry
<1>2. \A k : Layout(k)' = Layout(k)
  BY <1>1 DEF Layout
<1>3. \A k : KernelLines(k)' = KernelLines(k)
  BY DEF descriptorVars, KernelLines, Line, BindingOf, At
<1>4. AnyEntryHasBindings' = AnyEntryHasBindings
  BY <1>1 DEF AnyEntryHasBindings
<1>5. ASSUME NEW k, NEW memory PROVE Given(k, memory)' = Given(k, memory)
  BY <1>1, <1>2, <1>4 DEF Given
<1>6. ProgramOK'
  BY ResourcesUnread DEF InterfaceInv
<1> QED BY <1>1, <1>2, <1>3, <1>5, <1>6

\* The program reads the formats from the lines.
LEMMA StartModuleOK ==
    ASSUME InterfaceInv, StartModule
    PROVE  InterfaceInv'
<1>1. /\ table # <<>> /\ printfData' = [started |-> TRUE, map |-> FormatMap(printfLines)]
      /\ UNCHANGED <<descriptorVars, printfLines, program, lines, table, pass>>
  BY DEF StartModule
<1>2. /\ ProgramOK'
      /\ \A k : /\ TableEntry(k)' = TableEntry(k) /\ KernelLines(k)' = KernelLines(k)
                /\ Layout(k)' = Layout(k)
      /\ \A k, memory : Given(k, memory)' = Given(k, memory)
  BY <1>1, Unread
<1>3. LinesOK'
  BY <1>1, <1>2 DEF InterfaceInv, LinesOK, descriptorVars
<1>4. TableOK'
  BY <1>1, <1>2 DEF InterfaceInv, TableOK
<1>5. DataOK'
  BY <1>1 DEF DataOK
<1>6. PassOK'
  BY <1>1, <1>2 DEF InterfaceInv, PassOK
<1> QED BY <1>2, <1>3, <1>4, <1>5, <1>6 DEF InterfaceInv

\* What a launch takes from the table is what was built from the lines.
LEMMA TableFacts ==
    ASSUME InterfaceInv, NEW k \in DOMAIN table
    PROVE  /\ table # <<>> /\ lines # <<>> /\ DOMAIN table = DOMAIN lines
           /\ table[k] = [args |-> TableEntry(k).args, dynamicMem |-> TableEntry(k).dynamicMem,
                          printf |-> TableEntry(k).printf, layout |-> table[k].layout,
                          complete |-> TableEntry(k).complete]
           /\ table[k].layout \union Entries(table[k].args, TRUE) = Layout(k)
           /\ AnyKernelHasBindings = AnyEntryHasBindings
<1>1. table # <<>> /\ lines # <<>>
  BY DEF InterfaceInv, LinesOK
<1>2. /\ DOMAIN table = DOMAIN lines
      /\ \A i \in DOMAIN table :
            /\ table[i] = [args |-> TableEntry(i).args, dynamicMem |-> TableEntry(i).dynamicMem,
                           printf |-> TableEntry(i).printf, layout |-> table[i].layout,
                           complete |-> TableEntry(i).complete]
            /\ Entries(TableEntry(i).args, FALSE) \subseteq table[i].layout
            /\ table[i].layout \subseteq Layout(i)
  BY <1>1 DEF InterfaceInv, TableOK
<1>3. \A i \in DOMAIN table : table[i].args = TableEntry(i).args
  <2> SUFFICES ASSUME NEW i \in DOMAIN table PROVE table[i].args = TableEntry(i).args
    OBVIOUS
  <2>1. table[i] = [args |-> TableEntry(i).args, dynamicMem |-> TableEntry(i).dynamicMem,
                    printf |-> TableEntry(i).printf, layout |-> table[i].layout,
                    complete |-> TableEntry(i).complete]
    BY <1>2
  <2> QED BY <2>1
<1>4. AnyKernelHasBindings = AnyEntryHasBindings
  BY <1>2, <1>3 DEF AnyKernelHasBindings, AnyEntryHasBindings
<1>5. table[k].layout \union Entries(table[k].args, TRUE) = Layout(k)
  BY <1>2, <1>3 DEF Layout
<1> QED BY <1>1, <1>2, <1>4, <1>5

\* A launch completes the layout of its kernel and gives what the table says.
LEMMA LaunchOK ==
    ASSUME InterfaceInv, NEW k \in DOMAIN table, NEW memory \in Memories, Launch(k, memory)
    PROVE  InterfaceInv'
<1> DEFINE layout == table[k].layout \union Entries(table[k].args, TRUE)
<1>1. /\ table' = [table EXCEPT ![k].layout = layout]
      /\ UNCHANGED <<descriptorVars, formatVars, program, lines>>
  BY DEF Launch
<1>2. /\ table # <<>> /\ lines # <<>> /\ DOMAIN table = DOMAIN lines
      /\ table[k] = [args |-> TableEntry(k).args, dynamicMem |-> TableEntry(k).dynamicMem,
                     printf |-> TableEntry(k).printf, layout |-> table[k].layout,
                     complete |-> TableEntry(k).complete]
      /\ layout = Layout(k) /\ AnyKernelHasBindings = AnyEntryHasBindings
  BY TableFacts
<1>3. /\ ProgramOK'
      /\ \A i : /\ TableEntry(i)' = TableEntry(i) /\ KernelLines(i)' = KernelLines(i)
                /\ Layout(i)' = Layout(i)
      /\ \A i, m : Given(i, m)' = Given(i, m)
  BY <1>1, Unread
<1>4. LinesOK'
  BY <1>1, <1>2, <1>3 DEF InterfaceInv, LinesOK, descriptorVars, formatVars
<1>5. /\ table[k].args = TableEntry(k).args /\ table[k].printf = TableEntry(k).printf
      /\ table[k].dynamicMem = TableEntry(k).dynamicMem
      /\ table[k].complete = TableEntry(k).complete
  <2> HIDE DEF layout
  <2> QED BY <1>2
<1>6. pass' = Given(k, memory)
  <2> HIDE DEF layout
  <2>1. pass' = [kernel |-> k,
                 layouts |-> (IF ~table[k].complete \/ AnyKernelHasBindings
                              THEN <<layout>> ELSE <<>>)
                             \o IF table[k].printf THEN <<"printf">> ELSE <<>>,
                 printfGroup |-> IF AnyKernelHasBindings THEN 2 ELSE 1,
                 uniforms |-> Uniforms(table[k].args),
                 buffers |-> Buffers(table[k].args),
                 asked |-> memory,
                 shared |-> IF table[k].dynamicMem = 0 THEN 1
                            ELSE Max({memory \div table[k].dynamicMem, 1})]
    BY DEF Launch, layout
  <2> QED BY <2>1, <1>2, <1>5 DEF Given
<1> HIDE DEF layout
<1>7. /\ DOMAIN table' = DOMAIN table /\ k \in DOMAIN table'
      /\ table'[k] = [table[k] EXCEPT !.layout = layout]
      /\ \A i \in DOMAIN table : i # k => table'[i] = table[i]
  BY <1>1
<1>8. table' # <<>>
  BY <1>7
<1>9. TableOK'
  <2>1. ASSUME NEW i \in DOMAIN table'
        PROVE  /\ table'[i] = [args |-> TableEntry(i).args,
                               dynamicMem |-> TableEntry(i).dynamicMem,
                               printf |-> TableEntry(i).printf,
                               layout |-> table'[i].layout,
                               complete |-> TableEntry(i).complete]
               /\ Entries(TableEntry(i).args, FALSE) \subseteq table'[i].layout
               /\ table'[i].layout \subseteq Layout(i)
    <3>1. CASE i # k
      BY <3>1, <1>2, <1>7 DEF InterfaceInv, TableOK
    <3>2. CASE i = k
      <4>1. table'[k] = [args |-> TableEntry(k).args, dynamicMem |-> TableEntry(k).dynamicMem,
                         printf |-> TableEntry(k).printf, layout |-> layout,
                         complete |-> TableEntry(k).complete]
        BY <1>2, <1>7
      <4>2. table'[k].layout = layout
        BY <4>1
      <4> QED BY <3>2, <4>1, <4>2, <1>2 DEF Layout
    <3> QED BY <3>1, <3>2
  <2>2. DOMAIN table' = DOMAIN lines'
    BY <1>1, <1>2, <1>7
  <2> QED BY <2>1, <2>2, <1>3 DEF TableOK
<1>10. DataOK'
  BY <1>1, <1>8 DEF InterfaceInv, DataOK, formatVars
<1>11. PassOK'
  BY <1>3, <1>6, <1>7, <1>8 DEF PassOK
<1> QED BY <1>3, <1>4, <1>9, <1>10, <1>11 DEF InterfaceInv

\* Every step keeps the invariant.
LEMMA InterfaceStep == InterfaceInv /\ [InterfaceNext]_interfaceVars => InterfaceInv'
<1> SUFFICES ASSUME InterfaceInv, [InterfaceNext]_interfaceVars PROVE InterfaceInv'
  OBVIOUS
<1>1. CASE UNCHANGED interfaceVars
  <2>1. /\ UNCHANGED <<descriptorVars, program, lines>>
        /\ UNCHANGED <<printfLines, printfData, table, pass>>
    BY <1>1 DEF interfaceVars, formatVars
  <2>2. /\ ProgramOK'
        /\ \A k : /\ TableEntry(k)' = TableEntry(k) /\ KernelLines(k)' = KernelLines(k)
                  /\ Layout(k)' = Layout(k)
        /\ \A k, memory : Given(k, memory)' = Given(k, memory)
    BY <2>1, Unread
  <2>3. LinesOK'
    BY <2>1, <2>2 DEF InterfaceInv, LinesOK, descriptorVars
  <2>4. TableOK'
    BY <2>1, <2>2 DEF InterfaceInv, TableOK
  <2>5. DataOK' /\ PassOK'
    BY <2>1, <2>2 DEF InterfaceInv, DataOK, PassOK
  <2> QED BY <2>2, <2>3, <2>4, <2>5 DEF InterfaceInv
<1>2. ASSUME NEW k \in DOMAIN table, NEW memory \in Memories, Launch(k, memory)
      PROVE  InterfaceInv'
  BY <1>2, LaunchOK
<1> QED BY <1>1, <1>2, CompileOK, ReflectOK, BuildTableOK, StartModuleOK DEF InterfaceNext

\* It always holds.
LEMMA InterfaceAlways == InterfaceSpec => []InterfaceInv
BY InterfaceInitOK, InterfaceStep, PTL DEF InterfaceSpec

---------------------------------------------------------------------------
(* What it says of lines and launches; the shared memory. *)

\* The lines of a kernel, and what a launch found in the table.
LEMMA Built ==
    ASSUME InterfaceInv, lines # <<>>
    PROVE  /\ stage = "done" /\ DOMAIN lines = DOMAIN program /\ DOMAIN kernels = DOMAIN program
           /\ printfLines = PrintfLines(Formats(program))
           /\ \A k \in DOMAIN program :
                 /\ lines[k] = KernelLines(k) /\ kernels[k] = Params(program[k].args)
                 /\ program[k].args \in Seq(Arguments)
<1>1. /\ stage = "done" /\ lines = [k \in DOMAIN program |-> KernelLines(k)]
      /\ printfLines = PrintfLines(Formats(program))
  BY DEF InterfaceInv, LinesOK
<1>2. kernels = [k \in DOMAIN program |-> Params(program[k].args)]
  BY DEF InterfaceInv, ProgramOK, Clustered
<1>3. program \in Seq([args : Seq(Arguments), printf : Seq(PrintfCalls)])
  BY ProgramsAssumption DEF InterfaceInv, ProgramOK
<1>4. ASSUME NEW k \in DOMAIN program PROVE program[k].args \in Seq(Arguments)
  <2> DEFINE T == [args : Seq(Arguments), printf : Seq(PrintfCalls)]
  <2>1. program \in Seq(T)
    BY <1>3
  <2> HIDE DEF T
  <2>2. program[k] \in T
    BY <2>1
  <2> QED BY <2>2 DEF T
<1> QED BY <1>1, <1>2, <1>4

\* A pass is that of a kernel of the program.
LEMMA LaunchFacts ==
    ASSUME InterfaceInv, Launched
    PROVE  /\ lines # <<>> /\ pass.kernel \in DOMAIN program
           /\ \E memory \in Memories : pass = Given(pass.kernel, memory)
<1>1. PICK k \in DOMAIN table, memory \in Memories : table # <<>> /\ pass = Given(k, memory)
  BY DEF InterfaceInv, PassOK, Launched
<1>2. lines # <<>> /\ DOMAIN table = DOMAIN lines
  BY <1>1, TableFacts
<1>3. pass.kernel = k
  BY <1>1 DEF Given
<1> QED BY <1>1, <1>2, <1>3, Built

\* The binding of a parameter is its own, since its variable has one.
LEMMA BindingFacts ==
    ASSUME IInv, NEW p \in DOMAIN bound
    PROVE  BindingOf(p) = bound[p]
<1>1. OneBinding
  BY Distinct DEF ResourcesDistinct
<1> DEFINE c == CHOOSE q \in DOMAIN bound : variable[q] = variable[p]
<1>2. c \in DOMAIN bound /\ variable[c] = variable[p]
  OBVIOUS
<1>3. BindingOf(p) = bound[c]
  BY DEF BindingOf
<1> HIDE DEF c
<1> QED BY <1>1, <1>2, <1>3 DEF OneBinding

\* A used parameter has its binding or its constant once the pass is done.
LEMMA ResourceFacts ==
    ASSUME IInv, Complete, stage = "done", NEW k \in DOMAIN kernels, NEW n \in DOMAIN kernels[k],
           kernels[k][n].used
    PROVE  IF kernels[k][n].kind = "local" THEN <<k, n>> \in DOMAIN specId
           ELSE <<k, n>> \in DOMAIN bound
<1> DEFINE p == <<k, n>>
<1>1. p \in (DOMAIN kernels) \X UNION {DOMAIN kernels[i] : i \in DOMAIN kernels}
  OBVIOUS
<1>2. p[1] = k /\ p[2] = n
  OBVIOUS
<1>3. p \in Used(kernels, kernels[k][n].kind = "local")
  BY <1>1, <1>2 DEF Used
<1> HIDE DEF p
<1>4. Used(kernels, TRUE) \subseteq DOMAIN specId /\ Used(kernels, FALSE) \subseteq DOMAIN bound
  BY DEF Complete, BoundOK, GivenOK
<1>5. CASE kernels[k][n].kind = "local"
  <2>1. p \in Used(kernels, TRUE)
    BY <1>3, <1>5
  <2> QED BY <2>1, <1>4, <1>5 DEF p
<1>6. CASE kernels[k][n].kind # "local"
  <2>1. (kernels[k][n].kind = "local") = FALSE
    BY <1>6
  <2>2. p \in Used(kernels, FALSE)
    BY <1>3, <2>1
  <2> QED BY <2>2, <1>4, <1>6 DEF p
<1> QED BY <1>5, <1>6

\* The places of the lines: those of the other arguments, then those of the values.
LEMMA LinePlaces ==
    ASSUME InterfaceInv, lines # <<>>, NEW k \in DOMAIN program
    PROVE  LET args == program[k].args
               others == Ordinals(args, FALSE)
               values == Ordinals(args, TRUE)
               last == <<k, Len(kernels[k])>>
           IN  /\ DOMAIN lines[k] \subseteq 1..(Len(others) + Len(values))
               /\ \A n \in 1..Len(others) :
                     /\ n \in DOMAIN lines[k] <=> kernels[k][n].used
                     /\ n \in DOMAIN lines[k] => lines[k][n] = Line(k, others[n], <<k, n>>, 0)
               /\ \A j \in 1..Len(values) :
                     LET n == Len(others) + j
                     IN  /\ n \in DOMAIN lines[k] <=> At(last).used
                         /\ n \in DOMAIN lines[k] =>
                               lines[k][n] = Line(k, values[j], last, ArgOffset(args, j))
<1> DEFINE args == program[k].args
           others == Ordinals(args, FALSE)
           values == Ordinals(args, TRUE)
           ordinals == others \o values
           last == <<k, Len(kernels[k])>>
           param(n) == <<k, IF n <= Len(others) THEN n ELSE Len(kernels[k])>>
           offset(n) == IF n <= Len(others) THEN 0 ELSE ArgOffset(args, n - Len(others))
<1>1. args \in Seq(Arguments) /\ lines[k] = KernelLines(k)
  BY Built
<1>2. KernelLines(k) = [n \in {m \in DOMAIN ordinals : At(param(m)).used} |->
                           Line(k, ordinals[n], param(n), offset(n))]
  BY DEF KernelLines
<1>3. others \in Seq(DOMAIN args) /\ values \in Seq(DOMAIN args)
  BY <1>1, ArgsFacts
<1> HIDE DEF args, others, values
<1>4. /\ DOMAIN ordinals = 1..(Len(others) + Len(values))
      /\ \A n \in 1..Len(others) : ordinals[n] = others[n]
      /\ \A j \in 1..Len(values) : ordinals[Len(others) + j] = values[j]
      /\ Len(others) \in Nat /\ Len(values) \in Nat
  BY <1>3
<1> HIDE DEF ordinals
<1>5. \A n \in 1..Len(others) : param(n) = <<k, n>> /\ offset(n) = 0
  BY <1>4
<1>6. \A j \in 1..Len(values) : /\ param(Len(others) + j) = last
                                /\ offset(Len(others) + j) = ArgOffset(args, j)
  BY <1>4
<1> HIDE DEF param, offset, last
<1>7. DOMAIN lines[k] = {m \in DOMAIN ordinals : At(param(m)).used}
  BY <1>1, <1>2
<1>8. \A n \in DOMAIN lines[k] : lines[k][n] = Line(k, ordinals[n], param(n), offset(n))
  BY <1>1, <1>2
<1>9. ASSUME NEW n \in 1..Len(others)
      PROVE  /\ n \in DOMAIN lines[k] <=> kernels[k][n].used
             /\ n \in DOMAIN lines[k] => lines[k][n] = Line(k, others[n], <<k, n>>, 0)
  <2>1. At(param(n)) = kernels[k][n] /\ n \in DOMAIN ordinals
    BY <1>4, <1>5 DEF At
  <2> QED BY <2>1, <1>4, <1>5, <1>7, <1>8
<1>10. ASSUME NEW j \in 1..Len(values)
       PROVE  /\ Len(others) + j \in DOMAIN lines[k] <=> At(last).used
              /\ Len(others) + j \in DOMAIN lines[k] =>
                    lines[k][Len(others) + j] = Line(k, values[j], last, ArgOffset(args, j))
  <2>1. param(Len(others) + j) = last /\ Len(others) + j \in DOMAIN ordinals
    BY <1>4, <1>6
  <2> QED BY <2>1, <1>4, <1>6, <1>7, <1>8
<1> QED BY <1>4, <1>7, <1>9, <1>10 DEF args, others, values, last

\* The line of an argument that is not passed by value.
LEMMA OtherLine ==
    ASSUME InterfaceInv, lines # <<>>, NEW k \in DOMAIN program,
           NEW n \in 1..Len(Ordinals(program[k].args, FALSE))
    PROVE  LET args == program[k].args
               o == Ordinals(args, FALSE)[n]
               l == lines[k][n]
           IN  /\ args[o] \in Arguments /\ n \in DOMAIN kernels[k]
               /\ kernels[k][n].type = args[o].type
               /\ kernels[k][n].kind = IF args[o].kind = "local" THEN "local" ELSE "buffer"
               /\ n \in DOMAIN lines[k] <=> args[o].used
               /\ args[o].used =>
                     /\ l.ordinal = o /\ l.kind = kernels[k][n].kind /\ l.size = args[o].type.size
                     /\ l.offset = 0 /\ l.global = (args[o].kind = "global")
                     /\ IF l.kind = "local" THEN <<k, n>> \in DOMAIN specId
                        ELSE <<k, n>> \in DOMAIN bound /\ l.binding = bound[<<k, n>>]
<1> DEFINE args == program[k].args
           others == Ordinals(args, FALSE)
           o == others[n]
           l == lines[k][n]
           p == <<k, n>>
<1>1. /\ args \in Seq(Arguments) /\ kernels[k] = Params(args) /\ k \in DOMAIN kernels
      /\ stage = "done" /\ IInv /\ Complete
  BY Built DEF InterfaceInv, ProgramOK
<1>2. args[o] \in Arguments /\ Len(others) \in Nat
  BY <1>1, ArgsFacts
<1>3. /\ Len(kernels[k]) \in Nat /\ DOMAIN kernels[k] = 1..Len(kernels[k])
      /\ Len(kernels[k]) = Len(others) \/ Len(kernels[k]) = Len(others) + 1
      /\ kernels[k][n].kind = IF args[o].kind = "local" THEN "local" ELSE "buffer"
      /\ kernels[k][n].type = args[o].type /\ kernels[k][n].used = args[o].used
  <2>1. /\ Len(Params(args)) \in Nat /\ DOMAIN Params(args) = 1..Len(Params(args))
        /\ Len(Params(args)) = Len(others) \/ Len(Params(args)) = Len(others) + 1
        /\ Params(args)[n].kind = IF args[o].kind = "local" THEN "local" ELSE "buffer"
        /\ Params(args)[n].type = args[o].type /\ Params(args)[n].used = args[o].used
    BY <1>1, ParamsFacts
  <2> HIDE DEF args, others, o
  <2> QED BY <2>1, <1>1
<1>4. /\ n \in DOMAIN lines[k] <=> kernels[k][n].used
      /\ n \in DOMAIN lines[k] => l = Line(k, o, p, 0)
  BY LinePlaces
<1>5. n \in DOMAIN kernels[k]
  <2>1. n \in 1..Len(others)
    OBVIOUS
  <2> HIDE DEF others
  <2> QED BY <2>1, <1>2, <1>3
<1>6. ASSUME args[o].used
      PROVE  /\ l.ordinal = o /\ l.kind = kernels[k][n].kind /\ l.size = args[o].type.size
             /\ l.offset = 0 /\ l.global = (args[o].kind = "global")
             /\ l.kind # "local" => l.binding = BindingOf(p)
  <2>1. l = Line(k, o, p, 0)
    BY <1>3, <1>4, <1>6
  <2>2. At(p) = kernels[k][n]
    BY DEF At
  <2> HIDE DEF l, p, o
  <2>3. /\ l.ordinal = o /\ l.kind = kernels[k][n].kind /\ l.size = args[o].type.size
        /\ l.offset = 0 /\ l.global = (args[o].kind = "global")
    BY <2>1, <2>2 DEF Line
  <2>4. l.kind # "local" => l.binding = BindingOf(p)
    BY <2>1, <2>2 DEF Line
  <2> QED BY <2>3, <2>4
<1>7. ASSUME args[o].used
      PROVE  IF kernels[k][n].kind = "local" THEN p \in DOMAIN specId
             ELSE p \in DOMAIN bound /\ BindingOf(p) = bound[p]
  <2>1. IF kernels[k][n].kind = "local" THEN p \in DOMAIN specId ELSE p \in DOMAIN bound
    BY <1>1, <1>3, <1>5, <1>7, ResourceFacts
  <2> QED BY <2>1, <1>1, BindingFacts
<1> QED BY <1>2, <1>3, <1>4, <1>5, <1>6, <1>7

\* The line of a value: they share a parameter.
LEMMA ValueLine ==
    ASSUME InterfaceInv, lines # <<>>, NEW k \in DOMAIN program,
           NEW j \in 1..Len(Ordinals(program[k].args, TRUE))
    PROVE  LET args == program[k].args
               o == Ordinals(args, TRUE)[j]
               n == Len(Ordinals(args, FALSE)) + j
               last == Len(kernels[k])
               l == lines[k][n]
           IN  /\ args[o] \in Arguments /\ last \in DOMAIN kernels[k]
               /\ last = Len(Ordinals(args, FALSE)) + 1
               /\ kernels[k][last].kind = PodKind(args)
               /\ n \in DOMAIN lines[k] <=> kernels[k][last].used
               /\ args[o].used => n \in DOMAIN lines[k]
               /\ n \in DOMAIN lines[k] =>
                     /\ l.ordinal = o /\ l.kind = PodKind(args) /\ l.size = args[o].type.size
                     /\ l.offset = ArgOffset(args, j) /\ l.global = FALSE
                     /\ <<k, last>> \in DOMAIN bound /\ l.binding = bound[<<k, last>>]
<1> DEFINE args == program[k].args
           others == Ordinals(args, FALSE)
           values == Ordinals(args, TRUE)
           o == values[j]
           n == Len(others) + j
           last == Len(kernels[k])
           l == lines[k][n]
           p == <<k, last>>
<1>1. /\ args \in Seq(Arguments) /\ kernels[k] = Params(args) /\ k \in DOMAIN kernels
      /\ stage = "done" /\ IInv /\ Complete
  BY Built DEF InterfaceInv, ProgramOK
<1>2. /\ args[o] \in Arguments /\ args[o].kind = "pod" /\ o \in DOMAIN args
      /\ Len(others) \in Nat /\ Len(values) \in Nat
  BY <1>1, ArgsFacts
<1>3. Len(values) # 0 /\ Len(others) \in Nat
  <2>1. j \in 1..Len(values)
    OBVIOUS
  <2> HIDE DEF others, values
  <2> QED BY <2>1, <1>2
<1>4. /\ last = Len(others) + 1 /\ DOMAIN kernels[k] = 1..last
      /\ kernels[k][last].kind = PodKind(args)
      /\ kernels[k][last].used = \E i \in DOMAIN args : args[i].kind = "pod" /\ args[i].used
  <2> DEFINE params == Params(args)
  <2>1. /\ DOMAIN params = 1..Len(params) /\ Len(params) = Len(others) + 1
        /\ params[Len(params)].kind = PodKind(args)
        /\ params[Len(params)].used = \E i \in DOMAIN args : args[i].kind = "pod" /\ args[i].used
    BY <1>1, <1>3, ParamsFacts
  <2>2. kernels[k] = params
    BY <1>1
  <2> HIDE DEF params
  <2> QED BY <2>1, <2>2
<1>5. last \in DOMAIN kernels[k]
  <2> HIDE DEF last, others
  <2> QED BY <1>3, <1>4
<1>6. At(p) = kernels[k][last]
  BY DEF At
<1>7. /\ n \in DOMAIN lines[k] <=> At(p).used
      /\ n \in DOMAIN lines[k] => l = Line(k, o, p, ArgOffset(args, j))
  BY LinePlaces
<1>8. args[o].used => kernels[k][last].used
  BY <1>2, <1>4
<1>9. PodKind(args) # "local"
  BY DEF PodKind
<1>10. ASSUME n \in DOMAIN lines[k]
       PROVE  /\ l.ordinal = o /\ l.kind = PodKind(args) /\ l.size = args[o].type.size
              /\ l.offset = ArgOffset(args, j) /\ l.global = FALSE
              /\ l.binding = BindingOf(p)
  <2>1. l = Line(k, o, p, ArgOffset(args, j))
    BY <1>7, <1>10
  <2> HIDE DEF l, p, o, args, last
  <2>2. l = [ordinal |-> o, global |-> program[k].args[o].kind = "global", kind |-> At(p).kind,
             binding |-> IF At(p).kind = "local" THEN 0 ELSE BindingOf(p),
             specId |-> IF At(p).kind = "local" THEN specId[p] ELSE 0,
             offset |-> ArgOffset(args, j), size |-> program[k].args[o].type.size]
    BY <2>1 DEF Line
  <2>3. At(p).kind = PodKind(args)
    BY <1>4, <1>6
  <2> QED BY <2>2, <2>3, <1>2, <1>9 DEF args
<1>11. ASSUME n \in DOMAIN lines[k] PROVE p \in DOMAIN bound /\ BindingOf(p) = bound[p]
  <2>1. kernels[k][last].used /\ kernels[k][last].kind # "local"
    BY <1>4, <1>6, <1>7, <1>9, <1>11
  <2>2. p \in DOMAIN bound
    BY <2>1, <1>1, <1>5, ResourceFacts
  <2> QED BY <2>2, <1>1, BindingFacts
<1> QED BY <1>2, <1>4, <1>5, <1>6, <1>7, <1>8, <1>10, <1>11

\* A line is that of an argument that is not passed by value, or of a value.
LEMMA Places ==
    ASSUME InterfaceInv, lines # <<>>, NEW k \in DOMAIN program, NEW n \in DOMAIN lines[k]
    PROVE  LET others == Ordinals(program[k].args, FALSE)
               values == Ordinals(program[k].args, TRUE)
           IN  \/ n \in 1..Len(others) /\ lines[k][n].kind \in {"local", "buffer"}
               \/ /\ \E j \in 1..Len(values) : n = Len(others) + j
                  /\ lines[k][n].kind \in {"pod_ubo", "pod"}
<1> DEFINE others == Ordinals(program[k].args, FALSE)
           values == Ordinals(program[k].args, TRUE)
<1>1. Len(others) \in Nat /\ Len(values) \in Nat
  BY Built, ArgsFacts
<1>2. n \in 1..(Len(others) + Len(values))
  BY LinePlaces
<1>3. CASE n \in 1..Len(others)
  <2> DEFINE o == others[n]
             arg == program[k].args[o]
  <2>1. /\ n \in DOMAIN lines[k] <=> arg.used
        /\ kernels[k][n].kind = IF arg.kind = "local" THEN "local" ELSE "buffer"
        /\ arg.used => lines[k][n].kind = kernels[k][n].kind
    BY <1>3, OtherLine
  <2>2. lines[k][n].kind \in {"local", "buffer"}
    <3> HIDE DEF arg
    <3> QED BY <2>1
  <2> QED BY <2>2, <1>3
<1>4. ASSUME NEW j \in 1..Len(values), n = Len(others) + j
      PROVE  lines[k][n].kind \in {"pod_ubo", "pod"}
  <2>1. lines[k][n].kind = PodKind(program[k].args)
    BY <1>4, ValueLine
  <2> QED BY <2>1 DEF PodKind
<1>5. CASE n \notin 1..Len(others)
  <2> HIDE DEF others, values
  <2>1. n - Len(others) \in 1..Len(values) /\ n = Len(others) + (n - Len(others))
    BY <1>1, <1>2, <1>5
  <2>2. PICK j \in 1..Len(values) : n = Len(others) + j
    BY <2>1
  <2> QED BY <2>2, <1>4 DEF others, values
<1> QED BY <1>3, <1>5

\* The shared memory has the elements that fit, and one more exceeds what is asked.
LEMMA ElementsFacts ==
    ASSUME NEW memory \in Nat, NEW size \in Nat \ {0}
    PROVE  (Max({memory \div size, 1}) + 1) * size > memory
<1> DEFINE n == memory \div size
           S == {n, 1}
<1>1. n \in Nat /\ memory < n * size + size
  BY DivFacts
<1> HIDE DEF n
<1>2. S \subseteq Nat /\ S # {} /\ n + 1 \in Nat /\ \A x \in S : x <= n + 1
  BY <1>1
<1>3. Max(S) \in S /\ \A x \in S : x <= Max(S)
  <2> HIDE DEF S
  <2> QED BY <1>2, MaxFacts
<1>4. PICK d \in Nat : Max(S) = n + d
  <2>1. Max(S) \in Nat /\ n <= Max(S)
    BY <1>2, <1>3
  <2>2. Max(S) - n \in Nat /\ Max(S) = n + (Max(S) - n)
    BY <2>1, <1>1
  <2> QED BY <2>2
<1>5. (n + d + 1) * size = n * size + size + d * size
  BY <1>1
<1>6. d * size \in Nat /\ n * size \in Nat
  BY <1>1
<1>7. (Max(S) + 1) * size > memory
  BY <1>1, <1>4, <1>5, <1>6
<1> QED BY <1>7 DEF n

\* The length of the shared memory, from the invariant: the only local line of the
\* kernel is that of its constant.
LEMMA SharedOK == InterfaceInv => SharedIsGiven
<1> SUFFICES ASSUME InterfaceInv, Launched, Alike,
                    NEW p \in DOMAIN specId, p[1] = pass.kernel
             PROVE  LET length == IF specId[p] = FirstLocalId THEN pass.shared ELSE 1
                    IN  (length + 1) * At(p).type.size > pass.asked
  BY DEF SharedIsGiven, Alike
<1> DEFINE k == pass.kernel
           args == program[k].args
           others == Ordinals(args, FALSE)
           locals == {n \in DOMAIN lines[k] : lines[k][n].kind = "local"}
           n == p[2]
<1>1. lines # <<>> /\ k \in DOMAIN program
  BY LaunchFacts
<1>2. PICK memory \in Memories : pass = Given(k, memory)
  BY LaunchFacts
<1> HIDE DEF k
<1>3. IInv /\ Complete /\ kernels \in Modules /\ kernels[k] = Params(args) /\ args \in Seq(Arguments)
  BY <1>1, Built DEF InterfaceInv, ProgramOK, IInv, InputOK
<1>4. specId[p] = FirstLocalId
  BY <1>3 DEF Complete, FirstOK
<1>5. p \in Used(kernels, TRUE)
  BY <1>3 DEF IInv, ConstantsOK
<1>6. p = <<k, n>> /\ n \in DOMAIN kernels[k] /\ kernels[k][n].used /\ kernels[k][n].kind = "local"
  <2>1. p = <<p[1], p[2]>>
    BY <1>3, <1>5, UsedFacts
  <2>2. /\ p[2] \in DOMAIN kernels[p[1]] /\ kernels[p[1]][p[2]].used
        /\ kernels[p[1]][p[2]].kind = "local"
    BY <1>5 DEF Used
  <2> QED BY <2>1, <2>2 DEF k
<1>7. n \in 1..Len(others)
  <2>1. /\ Len(Params(args)) = IF Len(Ordinals(args, TRUE)) = 0 THEN Len(others) ELSE Len(others) + 1
        /\ DOMAIN Params(args) = 1..Len(Params(args))
        /\ Len(Ordinals(args, TRUE)) # 0 => Params(args)[Len(Params(args))].kind = PodKind(args)
    BY <1>3, ParamsFacts
  <2>2. Len(others) \in Nat
    BY <1>3, ArgsFacts
  <2>3. PodKind(args) # "local"
    BY DEF PodKind
  <2> HIDE DEF args, others, n
  <2>4. n \in 1..Len(Params(args)) /\ Params(args)[n].kind = "local"
    BY <2>1, <1>3, <1>6
  <2>5. CASE Len(Ordinals(args, TRUE)) = 0
    BY <2>1, <2>4, <2>5
  <2>6. CASE Len(Ordinals(args, TRUE)) # 0
    <3>1. Len(Params(args)) = Len(others) + 1 /\ n # Len(Params(args))
      BY <2>1, <2>3, <2>4, <2>6
    <3> QED BY <3>1, <2>2, <2>4
  <2> QED BY <2>5, <2>6
<1>8. n \in locals /\ At(p).type = args[others[n]].type /\ args[others[n]].type \in ArgTypes
  <2>1. /\ args[others[n]] \in Arguments /\ kernels[k][n].type = args[others[n]].type
        /\ kernels[k][n].kind = IF args[others[n]].kind = "local" THEN "local" ELSE "buffer"
        /\ n \in DOMAIN lines[k] <=> args[others[n]].used
        /\ args[others[n]].used => lines[k][n].kind = kernels[k][n].kind
    <3> HIDE DEF n
    <3> QED BY <1>1, <1>7, OtherLine
  <2>2. n \in DOMAIN lines[k] <=> kernels[k][n].used
    BY <1>1, <1>7, LinePlaces
  <2>3. At(p) = kernels[k][n]
    BY <1>6 DEF At
  <2> HIDE DEF args, others, n
  <2> QED BY <2>1, <2>2, <2>3, <1>6 DEF Arguments
<1>9. Max(locals) \in locals
  <2> DEFINE values == Ordinals(args, TRUE)
  <2>1. locals # {} /\ locals \subseteq 1..(Len(others) + Len(values))
    BY <1>1, <1>8, LinePlaces
  <2>2. Len(others) \in Nat /\ Len(values) \in Nat
    BY <1>3, ArgsFacts
  <2> HIDE DEF locals, others, values
  <2>3. Len(others) + Len(values) \in Nat
    BY <2>2
  <2> QED BY <2>1, <2>3, MaxPlace
<1> DEFINE m == Max(locals)
<1>10. m \in DOMAIN lines[k] /\ lines[k][m].kind = "local" /\ m \in 1..Len(others)
  <2>1. m \in DOMAIN lines[k] /\ lines[k][m].kind = "local"
    BY <1>9
  <2> HIDE DEF m
  <2> QED BY <2>1, <1>1, Places
<1>11. <<k, m>> \in DOMAIN specId /\ lines[k][m].size = args[others[m]].type.size
  <2> HIDE DEF m
  <2>1. args[others[m]].used
    BY <1>1, <1>10, OtherLine
  <2> QED BY <2>1, <1>1, <1>10, OtherLine
<1>12. m = n
  <2> HIDE DEF m, n
  <2>1. <<k, m>>[1] = p[1]
    BY <1>6
  <2>2. <<k, m>> = p
    BY <2>1, <1>11 DEF Alike
  <2> QED BY <2>2, <1>6
<1> DEFINE size == args[others[n]].type.size
<1>13. TableEntry(k).dynamicMem = size
  <2>1. TableEntry(k).dynamicMem = IF locals = {} THEN 0 ELSE lines[k][Max(locals)].size
    BY DEF TableEntry
  <2>2. locals # {} /\ lines[k][Max(locals)].size = size
    BY <1>8, <1>11, <1>12
  <2> HIDE DEF locals, size
  <2> QED BY <2>1, <2>2
<1>14. size \in Nat \ {0} /\ memory \in Nat
  BY <1>8, MemoriesAssumption DEF ArgTypes
<1> HIDE DEF size
<1>15. pass.shared = Max({memory \div size, 1}) /\ pass.asked = memory
  BY <1>2, <1>13, <1>14 DEF Given
<1>16. (Max({memory \div size, 1}) + 1) * size > memory
  BY <1>14, ElementsFacts
<1>17. At(p).type.size = size
  BY <1>8 DEF size
<1> QED BY <1>4, <1>15, <1>16, <1>17

\* What a launch asks for is the length of the shared memory, for all programs whose
\* shared arrays have one type, at most one in a kernel (DynamicMem in compile,
\* wasm_hipLaunchKernel).
THEOREM SharedMemoryIsGiven == InterfaceSpec => []SharedIsGiven
BY InterfaceAlways, SharedOK, PTL

---------------------------------------------------------------------------
(* The arguments of a launch. *)

\* The arguments of a kernel in the table are its lines of buffers and of values.
LEMMA EntryArgs ==
    ASSUME NEW k
    PROVE  LET entry == TableEntry(k).args
           IN  /\ DOMAIN entry = {n \in DOMAIN lines[k] : lines[k][n].kind \in {"buffer", "pod_ubo"}}
               /\ \A n \in DOMAIN entry : entry[n] = lines[k][n]
BY DEF TableEntry, Restrict

\* No other line has the binding of a buffer.
LEMMA BuffersArrive ==
    ASSUME InterfaceInv, lines # <<>>, NEW k \in DOMAIN program,
           NEW n \in 1..Len(Ordinals(program[k].args, FALSE)),
           program[k].args[Ordinals(program[k].args, FALSE)[n]].used,
           program[k].args[Ordinals(program[k].args, FALSE)[n]].kind # "local"
    PROVE  Buffers(TableEntry(k).args)[BindingOf(<<k, n>>)] = Ordinals(program[k].args, FALSE)[n]
<1> DEFINE entry == TableEntry(k).args
           o(m) == Ordinals(program[k].args, FALSE)[m]
           used(m) == program[k].args[o(m)].used
           p(m) == <<k, m>>
           others == 1..Len(Ordinals(program[k].args, FALSE))
<1>1. \A m \in others : /\ m \in DOMAIN lines[k] <=> used(m)
                        /\ used(m) =>
                              /\ lines[k][m].ordinal = o(m)
                              /\ lines[k][m].kind = kernels[k][m].kind
                              /\ lines[k][m].kind # "local" =>
                                    p(m) \in DOMAIN bound /\ lines[k][m].binding = bound[p(m)]
  <2> SUFFICES ASSUME NEW m \in others
               PROVE  /\ m \in DOMAIN lines[k] <=> used(m)
                      /\ used(m) =>
                            /\ lines[k][m].ordinal = o(m)
                            /\ lines[k][m].kind = kernels[k][m].kind
                            /\ lines[k][m].kind # "local" =>
                                  p(m) \in DOMAIN bound /\ lines[k][m].binding = bound[p(m)]
    OBVIOUS
  <2> QED BY OtherLine
<1>2. kernels[k][n].kind = "buffer"
  BY OtherLine
<1>3. IInv /\ OwnBindings
  BY Distinct DEF InterfaceInv, ProgramOK, ResourcesDistinct
<1>4. \A m \in DOMAIN lines[k] : lines[k][m].kind = "buffer" => m \in others
  BY Places
<1>5. /\ DOMAIN entry = {m \in DOMAIN lines[k] : lines[k][m].kind \in {"buffer", "pod_ubo"}}
      /\ \A m \in DOMAIN entry : entry[m] = lines[k][m]
  BY EntryArgs
<1>6. \A m, i : p(m)[1] = p(i)[1] /\ (p(m) = p(i) => m = i)
  OBVIOUS
<1>7. n \in others /\ used(n)
  OBVIOUS
<1> HIDE DEF entry, o, used, p, others
<1>8. /\ n \in DOMAIN entry /\ entry[n] = lines[k][n] /\ p(n) \in DOMAIN bound
      /\ entry[n].kind = "buffer" /\ entry[n].binding = bound[p(n)] /\ entry[n].ordinal = o(n)
  BY <1>1, <1>2, <1>5, <1>7
<1> DEFINE b == bound[p(n)]
           c == CHOOSE l \in Range(entry) : l.kind = "buffer" /\ l.binding = b
<1>9. b \in {l.binding : l \in {x \in Range(entry) : x.kind = "buffer"}}
  BY <1>8 DEF Range
<1>10. Buffers(entry)[b] = c.ordinal
  BY <1>9 DEF Buffers
<1>11. c \in Range(entry) /\ c.kind = "buffer" /\ c.binding = b
  <2>1. entry[n] \in Range(entry) /\ entry[n].kind = "buffer" /\ entry[n].binding = b
    BY <1>8 DEF Range
  <2> QED BY <2>1
<1> HIDE DEF b, c
<1>12. PICK m \in DOMAIN entry : c = entry[m]
  BY <1>11 DEF Range
<1>13. m \in DOMAIN lines[k] /\ c = lines[k][m] /\ m \in others
  BY <1>4, <1>5, <1>11, <1>12
<1>14. p(m) \in DOMAIN bound /\ bound[p(m)] = bound[p(n)] /\ c.ordinal = o(m)
  BY <1>1, <1>11, <1>13 DEF b
<1>15. m = n
  BY <1>3, <1>6, <1>8, <1>14 DEF OwnBindings
<1>16. BindingOf(p(n)) = b
  BY <1>3, <1>8, BindingFacts DEF b
<1>17. Buffers(entry)[BindingOf(p(n))] = o(n)
  BY <1>10, <1>14, <1>15, <1>16
<1> QED BY <1>17 DEF entry, o, p

\* The bytes of the values do not overlap.
LEMMA RangesFacts ==
    ASSUME NEW args \in Seq(Arguments), WellPlaced(args), PodKind(args) = "pod_ubo"
    PROVE  LET values == Ordinals(args, TRUE)
           IN  /\ \A j \in 1..Len(values) :
                     /\ ArgOffset(args, j) \in Nat /\ args[values[j]].type.size \in Nat \ {0}
                     /\ Members(args)[MemberOf(args, j)] = args[values[j]].type
               /\ \A i, j \in 1..Len(values) :
                     i < j => ArgOffset(args, i) + args[values[i]].type.size <= ArgOffset(args, j)
<1> DEFINE values == Ordinals(args, TRUE)
           members == Members(args)
           size(j) == args[values[j]].type.size
           m(j) == MemberOf(args, j)
<1>1. /\ PodTypes(args) \in Seq(ArgTypes) /\ Len(PodTypes(args)) = Len(values)
      /\ \A j \in 1..Len(values) : PodTypes(args)[j] = args[values[j]].type
  BY ArgsFacts
<1>2. /\ members \in Seq(ArgTypes)
      /\ \A j \in 1..Len(values) : m(j) \in 1..Len(members) /\ members[m(j)] = PodTypes(args)[j]
      /\ \A i, j \in 1..Len(values) : i < j => m(i) < m(j)
  BY <1>1, MembersFacts
<1> HIDE DEF values, members, m
<1>3. /\ \A i \in 1..Len(members) : Offset(members, i) \in Nat
      /\ \A i, j \in 1..Len(members) :
            i < j => Offset(members, i) + members[i].size <= Offset(members, j)
  BY <1>2, OffsetFacts
<1>4. \A j \in 1..Len(values) : ArgOffset(args, j) = Offset(members, m(j))
  BY DEF ArgOffset, members, m
<1>5. ASSUME NEW j \in 1..Len(values)
      PROVE  /\ ArgOffset(args, j) \in Nat /\ size(j) \in Nat \ {0}
             /\ members[m(j)] = args[values[j]].type
  <2>1. PodTypes(args)[j] \in ArgTypes
    BY <1>1
  <2> QED BY <2>1, <1>1, <1>2, <1>3, <1>4 DEF ArgTypes
<1>6. ASSUME NEW i \in 1..Len(values), NEW j \in 1..Len(values), i < j
      PROVE  ArgOffset(args, i) + size(i) <= ArgOffset(args, j)
  <2>1. /\ m(i) < m(j) /\ m(i) \in 1..Len(members) /\ m(j) \in 1..Len(members)
        /\ members[m(i)].size = size(i)
    BY <1>2, <1>5, <1>6
  <2> QED BY <2>1, <1>3, <1>4
<1> QED BY <1>5, <1>6 DEF values, members, m

\* A value is in the member of the uniform buffer that the kernel reads.
LEMMA ValuesArrive ==
    ASSUME InterfaceInv, lines # <<>>, NEW k \in DOMAIN program,
           WellPlaced(program[k].args), PodKind(program[k].args) = "pod_ubo",
           NEW j \in 1..Len(Ordinals(program[k].args, TRUE)),
           program[k].args[Ordinals(program[k].args, TRUE)[j]].used,
           NEW b \in 0..(program[k].args[Ordinals(program[k].args, TRUE)[j]].type.size - 1)
    PROVE  LET args == program[k].args
               uniform == Uniforms(TableEntry(k).args)[BindingOf(<<k, Len(kernels[k])>>)]
               at == ArgOffset(args, j) + b
           IN  at \in DOMAIN uniform /\ uniform[at] = <<Ordinals(args, TRUE)[j], b>>
<1> DEFINE args == program[k].args
           values == Ordinals(args, TRUE)
           N == Len(values)
           front == Len(Ordinals(args, FALSE))
           entry == TableEntry(k).args
           last == <<k, Len(kernels[k])>>
           B == bound[last]
           off(i) == ArgOffset(args, i)
           size(i) == args[values[i]].type.size
           at == off(j) + b
<1>1. args \in Seq(Arguments) /\ IInv /\ OwnBindings
  BY Built, Distinct DEF InterfaceInv, ProgramOK, ResourcesDistinct
<1>2. N \in Nat /\ front \in Nat
  BY <1>1, ArgsFacts
<1>3. /\ \A i \in 1..N : off(i) \in Nat /\ size(i) \in Nat \ {0}
      /\ \A h, i \in 1..N : h < i => off(h) + size(h) <= off(i)
  BY <1>1, RangesFacts
<1>4. ASSUME NEW i \in 1..N
      PROVE  /\ front + i \in DOMAIN lines[k] <=> kernels[k][Len(kernels[k])].used
             /\ Len(kernels[k]) = front + 1
             /\ args[values[i]].used => front + i \in DOMAIN lines[k]
             /\ front + i \in DOMAIN lines[k] =>
                   /\ lines[k][front + i].ordinal = values[i]
                   /\ lines[k][front + i].kind = "pod_ubo"
                   /\ lines[k][front + i].size = size(i) /\ lines[k][front + i].offset = off(i)
                   /\ last \in DOMAIN bound /\ lines[k][front + i].binding = B
  BY ValueLine
<1>5. /\ DOMAIN entry = {m \in DOMAIN lines[k] : lines[k][m].kind \in {"buffer", "pod_ubo"}}
      /\ \A m \in DOMAIN entry : entry[m] = lines[k][m]
  BY EntryArgs
<1>6. j \in 1..N /\ args[values[j]].used /\ b \in 0..(size(j) - 1)
  OBVIOUS
<1>7. \A m \in DOMAIN lines[k] : \/ m \in 1..front /\ lines[k][m].kind \in {"local", "buffer"}
                                 \/ \E i \in 1..N : m = front + i
  BY Places
<1>8. \A m \in 1..front : m \in DOMAIN lines[k] /\ lines[k][m].kind # "local" =>
                             <<k, m>> \in DOMAIN bound /\ lines[k][m].binding = bound[<<k, m>>]
  <2> SUFFICES ASSUME NEW m \in 1..front, m \in DOMAIN lines[k], lines[k][m].kind # "local"
               PROVE  <<k, m>> \in DOMAIN bound /\ lines[k][m].binding = bound[<<k, m>>]
    OBVIOUS
  <2> QED BY OtherLine
<1> HIDE DEF args, values, N, front, entry, off, size
<1>9. /\ \A i \in 1..N : /\ front + i \in DOMAIN entry /\ entry[front + i].ordinal = values[i]
                         /\ entry[front + i].kind = "pod_ubo" /\ entry[front + i].binding = B
                         /\ entry[front + i].size = size(i) /\ entry[front + i].offset = off(i)
      /\ last \in DOMAIN bound /\ Len(kernels[k]) = front + 1
  <2>1. kernels[k][Len(kernels[k])].used /\ Len(kernels[k]) = front + 1 /\ last \in DOMAIN bound
    BY <1>4, <1>6
  <2> QED BY <2>1, <1>4, <1>5
<1>10. ASSUME NEW m \in DOMAIN entry, entry[m].binding = B PROVE \E i \in 1..N : m = front + i
  <2>1. m \in DOMAIN lines[k] /\ entry[m] = lines[k][m] /\ lines[k][m].kind \in {"buffer", "pod_ubo"}
    BY <1>5
  <2>2. CASE m \in 1..front /\ lines[k][m].kind \in {"local", "buffer"}
    <3>1. <<k, m>> \in DOMAIN bound /\ bound[<<k, m>>] = bound[last]
      BY <2>1, <2>2, <1>8, <1>10
    <3>2. <<k, m>>[1] = last[1] /\ (<<k, m>> = last => m = front + 1)
      BY <1>9
    <3>3. m = front + 1
      BY <3>1, <3>2, <1>1, <1>9 DEF OwnBindings
    <3> QED BY <3>3, <2>2, <1>2
  <2> QED BY <2>1, <2>2, <1>7
<1> HIDE DEF B, last
<1> DEFINE S == {entry[n].offset + entry[n].size : n \in {m \in DOMAIN entry : entry[m].binding = B}}
           top == off(N) + size(N)
<1>11. N \in 1..N /\ top \in Nat
  BY <1>2, <1>3, <1>6
<1>12. \A i \in 1..N : off(i) + size(i) \in S /\ off(i) + size(i) \in Nat /\ off(i) + size(i) <= top
  <2> SUFFICES ASSUME NEW i \in 1..N
               PROVE  /\ off(i) + size(i) \in S /\ off(i) + size(i) \in Nat
                      /\ off(i) + size(i) <= top
    OBVIOUS
  <2>1. /\ front + i \in DOMAIN entry /\ entry[front + i].binding = B
        /\ entry[front + i].offset + entry[front + i].size = off(i) + size(i)
    BY <1>9
  <2>2. off(i) + size(i) \in S
    BY <2>1
  <2>3. off(i) \in Nat /\ size(i) \in Nat /\ off(N) \in Nat /\ size(N) \in Nat
    BY <1>3, <1>11
  <2>4. CASE i = N
    BY <2>2, <2>3, <2>4
  <2>5. CASE i # N
    <3>1. i < N
      BY <2>5, <1>2
    <3>2. off(i) + size(i) <= off(N)
      BY <3>1, <1>3, <1>11
    <3> HIDE DEF S
    <3> QED BY <2>2, <2>3, <3>2
  <2> QED BY <2>4, <2>5
<1>13. \A x \in S : \E i \in 1..N : x = off(i) + size(i)
  <2> SUFFICES ASSUME NEW m \in DOMAIN entry, entry[m].binding = B
               PROVE  \E i \in 1..N : entry[m].offset + entry[m].size = off(i) + size(i)
    OBVIOUS
  <2>1. PICK i \in 1..N : m = front + i
    BY <1>10
  <2> QED BY <2>1, <1>9
<1> HIDE DEF S, top
<1>14. \A x \in S : x \in Nat /\ x <= top
  BY <1>12, <1>13
<1>15. Max(S) \in S /\ \A x \in S : x <= Max(S)
  <2>1. S # {} /\ S \subseteq Nat
    BY <1>11, <1>12, <1>14
  <2> QED BY <2>1, <1>11, <1>14, MaxFacts
<1>16. UniformSize(entry, B) = Max(S)
  BY DEF UniformSize, S
<1>17. /\ at \in Nat /\ off(j) <= at /\ at <= off(j) + size(j) - 1
       /\ at \in 0..(UniformSize(entry, B) - 1)
  <2>1. off(j) \in Nat /\ size(j) \in Nat /\ b \in Nat /\ b <= size(j) - 1
    BY <1>3, <1>6
  <2>2. off(j) + size(j) <= Max(S) /\ Max(S) \in Nat
    BY <1>6, <1>12, <1>14, <1>15
  <2> QED BY <2>1, <2>2, <1>16
<1> HIDE DEF at
<1> DEFINE writers == {m \in DOMAIN entry :
                         /\ entry[m].kind = "pod_ubo" /\ entry[m].binding = B
                         /\ at \in entry[m].offset..(entry[m].offset + entry[m].size - 1)}
<1>18. writers = {front + j}
  <2>1. front + j \in writers
    <3>1. /\ front + j \in DOMAIN entry /\ entry[front + j].kind = "pod_ubo"
          /\ entry[front + j].binding = B
          /\ entry[front + j].offset = off(j) /\ entry[front + j].size = size(j)
      BY <1>6, <1>9
    <3>2. at \in off(j)..(off(j) + size(j) - 1)
      BY <1>3, <1>6, <1>17
    <3> QED BY <3>1, <3>2
  <2>2. ASSUME NEW m \in writers PROVE m = front + j
    <3>1. m \in DOMAIN entry /\ entry[m].binding = B
      OBVIOUS
    <3>2. PICK i \in 1..N : m = front + i
      BY <3>1, <1>10
    <3>3. at \in off(i)..(off(i) + size(i) - 1)
      BY <3>2, <1>9
    <3>4. /\ off(i) \in Nat /\ size(i) \in Nat /\ off(j) \in Nat /\ size(j) \in Nat
          /\ i < j => off(i) + size(i) <= off(j)
          /\ j < i => off(j) + size(j) <= off(i)
      BY <1>3, <1>6
    <3>5. ~(i < j) /\ ~(j < i)
      BY <3>3, <3>4, <1>17
    <3>6. i = j
      BY <3>5, <1>2, <1>6
    <3> QED BY <3>2, <3>6
  <2> QED BY <2>1, <2>2
<1>19. Max(writers) = front + j
  <2>1. front + j \in Nat
    BY <1>2, <1>6
  <2> HIDE DEF writers
  <2>2. writers \subseteq Nat /\ writers # {} /\ \A x \in writers : x <= front + j
    BY <2>1, <1>18
  <2>3. Max(writers) \in writers
    BY <2>1, <2>2, MaxFacts
  <2> QED BY <2>3, <1>18
<1>20. ByteAt(entry, B, at) = <<values[j], b>>
  <2>1. ByteAt(entry, B, at) =
          IF writers = {} THEN <<0, 0>>
          ELSE <<entry[Max(writers)].ordinal, at - entry[Max(writers)].offset>>
    BY DEF ByteAt
  <2> HIDE DEF writers
  <2>2. /\ writers # {} /\ entry[Max(writers)].ordinal = values[j]
        /\ entry[Max(writers)].offset = off(j)
    BY <1>6, <1>9, <1>18, <1>19
  <2>3. at - off(j) = b
    BY <1>3, <1>6 DEF at
  <2> QED BY <2>1, <2>2, <2>3
<1>21. B \in {l.binding : l \in {x \in Range(entry) : x.kind = "pod_ubo"}}
  <2>1. /\ entry[front + j] \in Range(entry) /\ entry[front + j].kind = "pod_ubo"
        /\ entry[front + j].binding = B
    BY <1>6, <1>9 DEF Range
  <2> QED BY <2>1
<1>22. Uniforms(entry)[B] = [x \in 0..(UniformSize(entry, B) - 1) |-> ByteAt(entry, B, x)]
  BY <1>21 DEF Uniforms
<1>23. at \in DOMAIN Uniforms(entry)[B] /\ Uniforms(entry)[B][at] = <<values[j], b>>
  BY <1>17, <1>20, <1>22
<1>24. BindingOf(last) = B
  BY <1>1, <1>9, BindingFacts DEF B
<1> QED BY <1>23, <1>24 DEF entry, values, args, at, off, last

\* The arguments of a launch, from the invariant.
LEMMA ArriveOK == InterfaceInv => ArgumentsArrive
<1> SUFFICES ASSUME InterfaceInv, Launched PROVE ArgumentsArrive
  BY DEF ArgumentsArrive
<1> DEFINE k == pass.kernel
           args == program[k].args
           others == Ordinals(args, FALSE)
           values == Ordinals(args, TRUE)
           last == <<k, Len(kernels[k])>>
           entry == TableEntry(k).args
<1>1. lines # <<>> /\ k \in DOMAIN program
  BY LaunchFacts
<1> HIDE DEF k
<1>2. pass.uniforms = Uniforms(entry) /\ pass.buffers = Buffers(entry)
  <2>1. PICK memory \in Memories : pass = Given(k, memory)
    BY LaunchFacts DEF k
  <2> QED BY <2>1 DEF Given
<1>3. /\ args \in Seq(Arguments) /\ others \in Seq(DOMAIN args) /\ values \in Seq(DOMAIN args)
  BY <1>1, Built, ArgsFacts
<1>4. DOMAIN others = 1..Len(others) /\ DOMAIN values = 1..Len(values)
  <2> HIDE DEF others, values
  <2> QED BY <1>3
<1>5. ASSUME NEW n \in DOMAIN others, args[others[n]].used, args[others[n]].kind # "local"
      PROVE  pass.buffers[BindingOf(<<k, n>>)] = others[n]
  <2>1. n \in 1..Len(others)
    BY <1>4
  <2> QED BY <2>1, <1>1, <1>2, <1>5, BuffersArrive
<1>6. ASSUME WellPlaced(args), PodKind(args) = "pod_ubo",
             NEW j \in DOMAIN values, args[values[j]].used
      PROVE  LET m == MemberOf(args, j)
                 uniform == pass.uniforms[BindingOf(last)]
                 at(b) == Offset(Members(args), m) + b
             IN  /\ Members(args)[m] = args[values[j]].type
                 /\ \A b \in 0..(args[values[j]].type.size - 1) :
                       at(b) \in DOMAIN uniform /\ uniform[at(b)] = <<values[j], b>>
  <2>1. j \in 1..Len(values)
    BY <1>4
  <2>2. Members(args)[MemberOf(args, j)] = args[values[j]].type
    BY <2>1, <1>3, <1>6, RangesFacts
  <2>3. ASSUME NEW b \in 0..(args[values[j]].type.size - 1)
        PROVE  /\ ArgOffset(args, j) + b \in DOMAIN Uniforms(entry)[BindingOf(last)]
               /\ Uniforms(entry)[BindingOf(last)][ArgOffset(args, j) + b] = <<values[j], b>>
    BY <2>1, <1>1, <1>6, ValuesArrive
  <2> QED BY <2>2, <2>3, <1>2 DEF ArgOffset
<1> QED BY <1>5, <1>6 DEF ArgumentsArrive, LaunchedArgs, k

\* Every argument that a kernel uses reaches it, for all programs: the buffers always,
\* the values where no padding shifts their indexes (ClusterPodKernelArgumentsPass,
\* AddArgumentReflection, wasm_hipLaunchKernel).
THEOREM ArgumentsReachKernels == InterfaceSpec => []ArgumentsArrive
BY InterfaceAlways, ArriveOK, PTL

---------------------------------------------------------------------------
(* The layouts of a launch. *)

\* The uses of a kernel are its lines in the table, unless values are in a storage
\* buffer, which the table does not have.
Use(k, n) == n \in DOMAIN kernels[k] /\ kernels[k][n].used /\ kernels[k][n].kind # "local"

\* A line of a buffer or of values is that of a parameter that the kernel uses.
LEMMA UseOfLine ==
    ASSUME InterfaceInv, lines # <<>>, NEW k \in DOMAIN program,
           NEW t \in DOMAIN TableEntry(k).args
    PROVE  LET l == TableEntry(k).args[t]
           IN  /\ l.global \in BOOLEAN
               /\ \E n : /\ Use(k, n) /\ <<k, n>> \in DOMAIN bound
                         /\ l.kind = kernels[k][n].kind /\ l.binding = BindingOf(<<k, n>>)
<1> DEFINE others == Ordinals(program[k].args, FALSE)
           values == Ordinals(program[k].args, TRUE)
           l == lines[k][t]
<1>1. t \in DOMAIN lines[k] /\ TableEntry(k).args[t] = l /\ l.kind \in {"buffer", "pod_ubo"}
  BY EntryArgs
<1>2. IInv
  BY DEF InterfaceInv, ProgramOK
<1>3. \/ t \in 1..Len(others) /\ l.kind \in {"local", "buffer"}
      \/ \E j \in 1..Len(values) : t = Len(others) + j
  BY <1>1, Places
<1>4. CASE t \in 1..Len(others) /\ l.kind \in {"local", "buffer"}
  <2> DEFINE arg == program[k].args[others[t]]
  <2>1. /\ t \in DOMAIN kernels[k] /\ arg.used
        /\ l.kind = kernels[k][t].kind /\ l.global = (arg.kind = "global")
        /\ l.kind # "local" => <<k, t>> \in DOMAIN bound /\ l.binding = bound[<<k, t>>]
    BY <1>1, <1>4, OtherLine
  <2>2. kernels[k][t].used
    BY <1>1, <1>4, LinePlaces
  <2> HIDE DEF l, arg
  <2>3. BindingOf(<<k, t>>) = bound[<<k, t>>]
    BY <2>1, <1>1, <1>2, BindingFacts
  <2>4. Use(k, t) /\ l.global \in BOOLEAN
    BY <2>1, <2>2, <1>1 DEF Use
  <2> QED BY <2>1, <2>3, <2>4, <1>1
<1>5. ASSUME NEW j \in 1..Len(values), t = Len(others) + j
      PROVE  /\ l.global \in BOOLEAN
             /\ \E n : /\ Use(k, n) /\ <<k, n>> \in DOMAIN bound
                       /\ l.kind = kernels[k][n].kind /\ l.binding = BindingOf(<<k, n>>)
  <2> DEFINE last == Len(kernels[k])
  <2>1. /\ last \in DOMAIN kernels[k] /\ kernels[k][last].used
        /\ kernels[k][last].kind = PodKind(program[k].args)
        /\ l.kind = PodKind(program[k].args) /\ l.global = FALSE
        /\ <<k, last>> \in DOMAIN bound /\ l.binding = bound[<<k, last>>]
    BY <1>1, <1>5, ValueLine
  <2> HIDE DEF l, last
  <2>2. BindingOf(<<k, last>>) = bound[<<k, last>>]
    BY <2>1, <1>2, BindingFacts
  <2>3. Use(k, last)
    BY <2>1, <1>1 DEF Use
  <2> QED BY <2>1, <2>2, <2>3
<1> QED BY <1>1, <1>3, <1>4, <1>5

\* A parameter that the kernel uses has such a line.
LEMMA LineOfUse ==
    ASSUME InterfaceInv, lines # <<>>, NEW k \in DOMAIN program,
           PodKind(program[k].args) = "pod_ubo", NEW n, Use(k, n)
    PROVE  \E t \in DOMAIN TableEntry(k).args :
              LET l == TableEntry(k).args[t]
              IN  l.kind = kernels[k][n].kind /\ l.binding = BindingOf(<<k, n>>)
<1> DEFINE args == program[k].args
           others == Ordinals(args, FALSE)
           values == Ordinals(args, TRUE)
<1>1. IInv /\ args \in Seq(Arguments) /\ kernels[k] = Params(args)
  BY Built DEF InterfaceInv, ProgramOK
<1>2. /\ DOMAIN TableEntry(k).args =
            {m \in DOMAIN lines[k] : lines[k][m].kind \in {"buffer", "pod_ubo"}}
      /\ \A m \in DOMAIN TableEntry(k).args : TableEntry(k).args[m] = lines[k][m]
  BY EntryArgs
<1>3. CASE n \in 1..Len(others)
  <2> DEFINE arg == args[others[n]]
             l == lines[k][n]
  <2>1. n \in DOMAIN lines[k]
    BY <1>3, LinePlaces DEF Use
  <2>2. /\ kernels[k][n].kind = IF arg.kind = "local" THEN "local" ELSE "buffer"
        /\ l.kind = kernels[k][n].kind
        /\ l.kind # "local" => <<k, n>> \in DOMAIN bound /\ l.binding = bound[<<k, n>>]
    BY <2>1, <1>3, OtherLine
  <2> HIDE DEF arg, l
  <2>3. /\ l.kind = "buffer" /\ l.kind = kernels[k][n].kind
        /\ <<k, n>> \in DOMAIN bound /\ l.binding = bound[<<k, n>>]
    BY <2>2 DEF Use
  <2>4. l.binding = BindingOf(<<k, n>>)
    BY <2>3, <1>1, BindingFacts
  <2>5. n \in DOMAIN TableEntry(k).args /\ TableEntry(k).args[n] = l
    BY <2>1, <2>3, <1>2 DEF l
  <2> QED BY <2>3, <2>4, <2>5
<1>4. CASE n \notin 1..Len(others)
  <2>1. /\ Len(others) \in Nat /\ Len(values) \in Nat
    BY <1>1, ArgsFacts
  <2>2. /\ DOMAIN Params(args) = 1..Len(Params(args))
        /\ Len(Params(args)) = IF Len(values) = 0 THEN Len(others) ELSE Len(others) + 1
    BY <1>1, ParamsFacts
  <2>3. n \in 1..Len(kernels[k]) /\ Len(values) # 0 /\ n = Len(kernels[k])
    <3> HIDE DEF args, others, values
    <3>1. n \in 1..Len(Params(args)) /\ Len(kernels[k]) = Len(Params(args))
      BY <1>1, <2>2 DEF Use
    <3>2. Len(values) # 0
      BY <3>1, <2>1, <2>2, <1>4
    <3> QED BY <3>1, <3>2, <2>1, <2>2, <1>4
  <2>4. 1 \in 1..Len(values)
    <3> HIDE DEF values
    <3> QED BY <2>1, <2>3
  <2> DEFINE t == Len(others) + 1
             l == lines[k][t]
             last == Len(kernels[k])
  <2>5. /\ kernels[k][last].kind = PodKind(args)
        /\ t \in DOMAIN lines[k] <=> kernels[k][last].used
        /\ t \in DOMAIN lines[k] =>
              l.kind = PodKind(args) /\ <<k, last>> \in DOMAIN bound /\ l.binding = bound[<<k, last>>]
    BY <2>4, ValueLine
  <2> HIDE DEF l, t, last, args, others, values
  <2>6. /\ t \in DOMAIN lines[k] /\ l.kind = "pod_ubo" /\ l.kind = kernels[k][n].kind
        /\ <<k, n>> \in DOMAIN bound /\ l.binding = bound[<<k, n>>]
    BY <2>3, <2>5 DEF Use, last, args
  <2>7. l.binding = BindingOf(<<k, n>>)
    BY <2>6, <1>1, BindingFacts
  <2>8. t \in DOMAIN TableEntry(k).args /\ TableEntry(k).args[t] = l
    BY <2>6, <1>2 DEF l
  <2> QED BY <2>6, <2>7, <2>8
<1> QED BY <1>3, <1>4

\* Some kernel has bindings in the table when there are bindings at all.
LEMMA AnyFacts ==
    ASSUME InterfaceInv, lines # <<>>, \A k \in DOMAIN program : PodKind(program[k].args) = "pod_ubo"
    PROVE  AnyEntryHasBindings <=> slots # <<>>
<1>1. /\ IInv /\ Complete /\ stage = "done" /\ kernels \in Modules
      /\ DOMAIN lines = DOMAIN program /\ DOMAIN kernels = DOMAIN program
  BY Built DEF InterfaceInv, ProgramOK, IInv, InputOK
<1>2. slots \in Seq(Nat) /\ Len(slots) \in Nat
  BY <1>1 DEF IInv, BindingsOK
<1>3. ASSUME slots # <<>> PROVE AnyEntryHasBindings
  <2>1. 1 \in 1..Len(slots)
    BY <1>2, <1>3
  <2>2. PICK q \in DOMAIN bound : TRUE
    BY <2>1, <1>1 DEF Complete, BoundOK
  <2>3. q \in Used(kernels, FALSE)
    BY <1>1, <2>2 DEF IInv, BindingsOK, VariablesOK
  <2>4. /\ q[1] \in DOMAIN program /\ q[2] \in DOMAIN kernels[q[1]] /\ kernels[q[1]][q[2]].used
        /\ kernels[q[1]][q[2]].kind # "local"
    BY <1>1, <2>3 DEF Used
  <2>5. \E t \in DOMAIN TableEntry(q[1]).args : TRUE
    BY <2>4, LineOfUse DEF Use
  <2> QED BY <2>4, <2>5, <1>1 DEF AnyEntryHasBindings
<1>4. ASSUME AnyEntryHasBindings PROVE slots # <<>>
  <2>0. PICK k \in DOMAIN program : DOMAIN TableEntry(k).args # {}
    BY <1>1, <1>4 DEF AnyEntryHasBindings
  <2>1. PICK t : t \in DOMAIN TableEntry(k).args
    BY <2>0
  <2>2. PICK n : <<k, n>> \in DOMAIN bound
    BY <2>1, UseOfLine
  <2>3. bound[<<k, n>>] \in 0..(Len(slots) - 1)
    BY <1>1, <2>2 DEF IInv, BindingsOK
  <2>4. Len(slots) # 0
    BY <1>2, <2>3
  <2> QED BY <2>4
<1> QED BY <1>3, <1>4

\* The layouts of a launch, from the invariant.
LEMMA LayoutsOK == InterfaceInv => LaunchLayouts
<1> SUFFICES ASSUME InterfaceInv, Launched,
                    \A k \in DOMAIN program : PodKind(program[k].args) = "pod_ubo"
             PROVE  LET k == pass.kernel
                        uses == {<<k, n>> : n \in {m \in DOMAIN kernels[k] :
                                    kernels[k][m].used /\ kernels[k][m].kind # "local"}}
                        printfSet == IF slots = <<>> THEN 1 ELSE 2
                    IN  /\ uses # {} =>
                              pass.layouts[1] = {[binding |-> BindingOf(p),
                                                  type |-> BufferType(At(p).kind)] : p \in uses}
                        /\ program[k].printf # <<>> =>
                              /\ pass.printfGroup = printfSet
                              /\ Len(pass.layouts) = printfSet
  BY DEF LaunchLayouts
<1> DEFINE k == pass.kernel
           uses == {<<k, n>> : n \in {m \in DOMAIN kernels[k] :
                       kernels[k][m].used /\ kernels[k][m].kind # "local"}}
           entry == TableEntry(k).args
           of(p) == [binding |-> BindingOf(p), type |-> BufferType(At(p).kind)]
           in(l) == [binding |-> l.binding, type |-> BufferType(l.kind)]
           groups == IF ~TableEntry(k).complete \/ AnyEntryHasBindings THEN <<Layout(k)>> ELSE <<>>
           ends == IF TableEntry(k).printf THEN <<"printf">> ELSE <<>>
<1>1. lines # <<>> /\ k \in DOMAIN program
  BY LaunchFacts
<1>2. DOMAIN lines = DOMAIN program
  BY <1>1, Built
<1> HIDE DEF k
<1>3. /\ pass.layouts = groups \o ends
      /\ pass.printfGroup = IF AnyEntryHasBindings THEN 2 ELSE 1
  <2>1. PICK memory \in Memories : pass = Given(k, memory)
    BY LaunchFacts DEF k
  <2> QED BY <2>1 DEF Given
<1>4. AnyEntryHasBindings <=> slots # <<>>
  BY <1>1, AnyFacts
<1>5. \A n : <<k, n>> \in uses <=> Use(k, n)
  BY DEF Use
<1>6. \A n : At(<<k, n>>) = kernels[k][n]
  BY DEF At
<1>7. \A p \in uses : \E n : p = <<k, n>>
  OBVIOUS
<1> HIDE DEF uses
<1>8. \A p \in uses : \E t \in DOMAIN entry : of(p) = in(entry[t])
  <2> SUFFICES ASSUME NEW n, <<k, n>> \in uses
               PROVE  \E t \in DOMAIN entry : of(<<k, n>>) = in(entry[t])
    BY <1>7
  <2>1. Use(k, n)
    BY <1>5
  <2>2. PICK t \in DOMAIN entry : /\ entry[t].kind = kernels[k][n].kind
                                  /\ entry[t].binding = BindingOf(<<k, n>>)
    BY <2>1, <1>1, LineOfUse
  <2> QED BY <2>2, <1>6
<1>9. ASSUME NEW t \in DOMAIN entry
      PROVE  entry[t].global \in BOOLEAN /\ \E p \in uses : of(p) = in(entry[t])
  <2>1. PICK n : /\ Use(k, n) /\ entry[t].kind = kernels[k][n].kind
                 /\ entry[t].binding = BindingOf(<<k, n>>)
    BY <1>1, UseOfLine
  <2>2. entry[t].global \in BOOLEAN
    BY <1>1, UseOfLine
  <2> QED BY <2>1, <2>2, <1>5, <1>6
<1>10. Layout(k) = {in(entry[t]) : t \in DOMAIN entry}
  <2>1. /\ Entries(entry, TRUE) = {in(entry[t]) : t \in {m \in DOMAIN entry : entry[m].global = TRUE}}
        /\ Entries(entry, FALSE) = {in(entry[t]) : t \in {m \in DOMAIN entry : entry[m].global = FALSE}}
    BY DEF Entries
  <2>2. \A t \in DOMAIN entry : entry[t].global = TRUE \/ entry[t].global = FALSE
    BY <1>9
  <2>3. Layout(k) = Entries(entry, FALSE) \union Entries(entry, TRUE)
    BY DEF Layout
  <2> HIDE DEF entry, in
  <2> QED BY <2>1, <2>2, <2>3
<1>11. Layout(k) = {of(p) : p \in uses}
  <2> HIDE DEF entry, in, of
  <2> QED BY <1>8, <1>9, <1>10
<1>12. ASSUME uses # {} PROVE pass.layouts[1] = {of(p) : p \in uses}
  <2>1. DOMAIN entry # {}
    BY <1>8, <1>12
  <2>2. AnyEntryHasBindings
    BY <2>1, <1>1, <1>2 DEF AnyEntryHasBindings
  <2>3. pass.layouts = <<Layout(k)>> \o ends
    BY <2>2, <1>3
  <2>4. pass.layouts[1] = Layout(k)
    BY <2>3
  <2> QED BY <2>4, <1>11
<1>13. ASSUME program[k].printf # <<>>
       PROVE  /\ pass.printfGroup = IF slots = <<>> THEN 1 ELSE 2
              /\ Len(pass.layouts) = IF slots = <<>> THEN 1 ELSE 2
  <2>1. TableEntry(k).printf
    BY <1>13 DEF TableEntry
  <2>2. CASE AnyEntryHasBindings
    <3>1. PICK layout : layout = Layout(k)
      OBVIOUS
    <3>2. groups = <<layout>> /\ ends = <<"printf">>
      BY <2>1, <2>2, <3>1
    <3>3. Len(<<layout>> \o <<"printf">>) = 2
      OBVIOUS
    <3>4. Len(pass.layouts) = 2
      BY <3>2, <3>3, <1>3
    <3> QED BY <3>4, <2>2, <1>3, <1>4
  <2>3. CASE ~AnyEntryHasBindings
    <3>1. DOMAIN entry = {}
      BY <2>3, <1>1, <1>2 DEF AnyEntryHasBindings
    <3>2. TableEntry(k).complete = \A n \in DOMAIN entry : ~entry[n].global
      BY DEF TableEntry
    <3>3. TableEntry(k).complete
      BY <3>1, <3>2
    <3>4. pass.layouts = <<"printf">>
      BY <3>3, <2>1, <2>3, <1>3
    <3> QED BY <3>4, <2>3, <1>3, <1>4
  <2> QED BY <2>2, <2>3
<1> QED BY <1>12, <1>13 DEF k, uses

---------------------------------------------------------------------------
(* The formats of printf. *)

\* The number of the hexadecimal digits that are read: smaller than the one that was
\* written, unless that has one decimal digit.
LEMMA DigitsFacts ==
    ASSUME NEW n \in Nat
    PROVE  /\ LeadingDigits(n) \in Nat
           /\ n < 10 => LeadingDigits(n) = n
           /\ n >= 10 => LeadingDigits(n) < n
<1> DEFINE digit(d) == IF d < 10 THEN [all |-> TRUE, value |-> d] ELSE [all |-> FALSE, value |-> 0]
           next(x, k) == IF x.all /\ digit(k % 16).all
                         THEN [all |-> TRUE, value |-> 10 * x.value + (k % 16)]
                         ELSE [all |-> FALSE, value |-> x.value]
           IsRead(e, m) == e = [k \in 0..m |-> IF k < 16 THEN digit(k) ELSE next(e[k \div 16], k)]
           Missing == {m \in Nat : ~\E e : IsRead(e, m)}
<1> HIDE DEF digit, next
<1>1. \A k \in Nat : k >= 16 => k \div 16 \in 1..(k - 1)
  <2> SUFFICES ASSUME NEW k \in Nat, k >= 16 PROVE k \div 16 \in 1..(k - 1)
    OBVIOUS
  <2>1. 16 \in Nat \ {0}
    OBVIOUS
  <2>2. k \div 16 \in Nat /\ (k \div 16) * 16 <= k /\ k < (k \div 16) * 16 + 16
    BY <2>1, DivFacts
  <2> QED BY <2>2
<1>2. Missing = {}
  <2>1. 0 \notin Missing
    <3> DEFINE none == [k \in 0..0 |-> digit(k)]
    <3>1. none = [k \in 0..0 |-> IF k < 16 THEN digit(k) ELSE next(none[k \div 16], k)]
      OBVIOUS
    <3>2. IsRead(none, 0)
      BY <3>1
    <3> HIDE DEF IsRead, none
    <3> QED BY <3>2
  <2>2. ASSUME NEW m \in Nat, m \notin Missing PROVE m + 1 \notin Missing
    <3>1. PICK e : IsRead(e, m)
      BY <2>2
    <3>2. PICK g : g = [k \in 0..(m + 1) |-> IF k < 16 THEN digit(k) ELSE next(e[k \div 16], k)]
      OBVIOUS
    <3>3. \A k \in 0..m : g[k] = e[k]
      BY <3>1, <3>2
    <3>4. \A k \in 0..(m + 1) : g[k] = IF k < 16 THEN digit(k) ELSE next(g[k \div 16], k)
      <4> SUFFICES ASSUME NEW k \in 0..(m + 1), k >= 16 PROVE g[k] = next(g[k \div 16], k)
        BY <3>2
      <4>1. k \div 16 \in 0..m
        BY <1>1
      <4>2. g[k] = next(e[k \div 16], k)
        BY <3>2
      <4> QED BY <4>1, <4>2, <3>3
    <3>5. g = [k \in 0..(m + 1) |-> IF k < 16 THEN digit(k) ELSE next(g[k \div 16], k)]
      BY <3>2, <3>4
    <3>6. IsRead(g, m + 1)
      BY <3>5
    <3> HIDE DEF IsRead
    <3> QED BY <3>6
  <2> HIDE DEF IsRead
  <2>3. Missing \subseteq Nat
    OBVIOUS
  <2> HIDE DEF Missing
  <2> QED BY <2>1, <2>2, <2>3, NoFirst
<1>3. PICK read : IsRead(read, n) /\ LeadingDigits(n) = read[n].value
  <2>1. \E e : IsRead(e, n)
    BY <1>2
  <2> DEFINE read == CHOOSE e : IsRead(e, n)
  <2>2. IsRead(read, n)
    BY <2>1
  <2>3. LeadingDigits(n) = read[n].value
    BY DEF LeadingDigits, digit, next
  <2> HIDE DEF read
  <2> QED BY <2>2, <2>3
<1>4. \A k \in 0..n : read[k] = IF k < 16 THEN digit(k) ELSE next(read[k \div 16], k)
  BY <1>3
<1> HIDE DEF IsRead
<1> DEFINE Right(x, k) == /\ x.value \in Nat
                          /\ k < 10 => x.value = k
                          /\ k >= 10 => x.value < k
           Odd == {k \in 0..n : ~Right(read[k], k)}
<1>5. ASSUME NEW k \in Odd PROVE \E m \in Odd : m < k
  <2>1. CASE k < 16
    <3>1. read[k] = digit(k) /\ k \in Nat
      BY <2>1, <1>4
    <3>2. Right(digit(k), k)
      BY <3>1, <2>1 DEF digit
    <3> QED BY <3>1, <3>2
  <2>2. CASE k >= 16
    <3>1. PICK q, r : q = k \div 16 /\ r = k % 16
      OBVIOUS
    <3>2. q \in 1..(k - 1) /\ r \in Nat /\ k = 16 * q + r
      <4>1. k \in Nat
        OBVIOUS
      <4>2. k % 16 \in Nat /\ k = 16 * (k \div 16) + (k % 16)
        BY <4>1, SMTT(20)
      <4> QED BY <4>1, <4>2, <3>1, <2>2, <1>1
    <3>3. read[k] = next(read[q], k) /\ k \in Nat
      BY <2>2, <3>1, <1>4
    <3>4. CASE q \in Odd
      BY <3>2, <3>4
    <3>5. CASE q \notin Odd
      <4>1. Right(read[q], q)
        BY <3>5, <3>2
      <4>2. PICK v \in Nat : v = read[q].value /\ v <= q
        BY <4>1, <3>2
      <4>3. read[k].value = 10 * v + r \/ read[k].value = v
        BY <4>2, <3>3, <3>1 DEF next
      <4>4. 10 * v + r \in Nat /\ 10 * v + r < k /\ v < k
        BY <4>2, <3>2
      <4>5. Right(read[k], k)
        BY <4>3, <4>4, <2>2, <3>3
      <4> QED BY <4>5
    <3> QED BY <3>4, <3>5
  <2> QED BY <2>1, <2>2
<1>6. Odd = {}
  <2>1. Odd \subseteq Nat
    OBVIOUS
  <2> HIDE DEF Odd
  <2> QED BY <1>5, <2>1, NoLeast
<1>7. Right(read[n], n)
  BY <1>6
<1> QED BY <1>3, <1>7

\* The length of a text that is printed: each byte adds a place if it is ASCII and
\* four if it is not.
LEMMA LengthFacts ==
    ASSUME NEW n \in Nat, NEW text \in [1..n -> Nat], NEW len \in [0..n -> Nat],
           len[0] = 0,
           \A i \in 1..n : /\ text[i] < 128 => len[i] = len[i - 1] + 1
                           /\ text[i] >= 128 => len[i] = len[i - 1] + 4
    PROVE  /\ (\E j \in 1..n : text[j] >= 128) => len[n] > n
           /\ (\A j \in 1..n : text[j] < 128) => \A i \in 0..n : len[i] = i
<1> DEFINE Long(i) == /\ len[i] >= i
                      /\ (\E j \in 1..i : text[j] >= 128) => len[i] > i
           Short == {i \in Nat : i <= n /\ ~Long(i)}
           Other == {i \in Nat : i <= n /\ len[i] # i}
<1>1. ASSUME NEW i \in Nat, i + 1 <= n
      PROVE  /\ i \in 0..n /\ len[i] \in Nat /\ len[i + 1] \in Nat /\ text[i + 1] \in Nat
             /\ text[i + 1] < 128 => len[i + 1] = len[i] + 1
             /\ text[i + 1] >= 128 => len[i + 1] = len[i] + 4
  <2>1. i + 1 \in 1..n /\ (i + 1) - 1 = i /\ i \in 0..n /\ i + 1 \in 0..n
    BY <1>1
  <2>2. len[i] \in Nat /\ len[i + 1] \in Nat /\ text[i + 1] \in Nat
    BY <2>1
  <2> QED BY <2>1, <2>2
<1>2. Short = {}
  <2>1. 0 \notin Short
    OBVIOUS
  <2>2. ASSUME NEW i \in Nat, i + 1 <= n, Long(i) PROVE Long(i + 1)
    <3>1. len[i + 1] >= len[i] + 1 /\ len[i + 1] >= i + 1
      <4>1. text[i + 1] < 128 \/ text[i + 1] >= 128
        BY <1>1, <2>2
      <4>2. len[i + 1] = len[i] + 1 \/ len[i + 1] = len[i] + 4
        BY <4>1, <1>1, <2>2
      <4>3. len[i] \in Nat /\ len[i + 1] \in Nat /\ len[i] >= i
        BY <1>1, <2>2
      <4>4. PICK a, b \in Nat : a = len[i] /\ b = len[i + 1] /\ (b = a + 1 \/ b = a + 4) /\ a >= i
        BY <4>2, <4>3
      <4> QED BY <4>4
    <3>2. ASSUME NEW j \in 1..(i + 1), text[j] >= 128 PROVE len[i + 1] > i + 1
      <4>1. CASE j = i + 1
        BY <4>1, <1>1, <2>2, <3>2
      <4>2. CASE j # i + 1
        <5>1. j \in 1..i
          BY <4>2
        <5>2. len[i] > i
          BY <5>1, <3>2, <2>2
        <5> QED BY <5>2, <3>1, <1>1, <2>2
      <4> QED BY <4>1, <4>2
    <3> QED BY <3>1, <3>2
  <2>3. /\ Short \subseteq Nat
        /\ \A i \in Nat : i + 1 \in Short => i + 1 <= n /\ ~Long(i + 1)
        /\ \A i \in Nat : i + 1 <= n /\ i \notin Short => Long(i)
    <3> HIDE DEF Long
    <3> QED OBVIOUS
  <2> HIDE DEF Short, Long
  <2> QED BY <2>1, <2>2, <2>3, NoFirst
<1>3. ASSUME \A j \in 1..n : text[j] < 128 PROVE Other = {}
  <2>1. 0 \notin Other
    OBVIOUS
  <2>2. ASSUME NEW i \in Nat, i + 1 \in Other PROVE i \in Other
    <3>1. i + 1 <= n /\ i + 1 \in 1..n
      BY <2>2
    <3>2. len[i + 1] = len[i] + 1
      BY <3>1, <1>1, <1>3
    <3> QED BY <3>1, <3>2, <1>1, <2>2
  <2>3. Other \subseteq Nat
    OBVIOUS
  <2> HIDE DEF Other
  <2> QED BY <2>1, <2>2, <2>3, NoFirst
<1>4. Long(n)
  <2>1. n \notin Short
    BY <1>2
  <2> HIDE DEF Long
  <2> QED BY <2>1
<1>5. ASSUME Other = {}, NEW i \in 0..n PROVE len[i] = i
  <2>1. i \notin Other
    BY <1>5
  <2> QED BY <2>1
<1> HIDE DEF Other
<1> QED BY <1>3, <1>4, <1>5

\* The bytes of a text are printed as they are if all are ASCII, and never otherwise.
LEMMA TextFacts ==
    ASSUME NEW text \in Seq(Nat)
    PROVE  (FlattenSeq([i \in DOMAIN text |-> ByteDigits(text[i])]) = text)
               <=> \A i \in DOMAIN text : text[i] < 128
<1> DEFINE s == [i \in DOMAIN text |-> ByteDigits(text[i])]
<1>1. PICK n \in Nat : n = Len(text)
  OBVIOUS
<1>2. text \in [1..n -> Nat] /\ DOMAIN text = 1..n
  BY <1>1
<1>3. ASSUME NEW b \in Nat
      PROVE  /\ ByteDigits(b) \in Seq(Nat)
             /\ b < 128 => ByteDigits(b) = <<b>>
             /\ b >= 128 => Len(ByteDigits(b)) = 4
  BY DEF ByteDigits
<1>4. s \in Seq(Seq(Nat)) /\ Len(s) = n
  <2>1. s = [i \in 1..n |-> ByteDigits(text[i])]
    BY <1>2
  <2>2. \A i \in 1..n : ByteDigits(text[i]) \in Seq(Nat)
    BY <1>2, <1>3
  <2> HIDE DEF s
  <2> QED BY <2>1, <2>2
<1>5. \A i \in 1..n : s[i] = ByteDigits(text[i])
  BY <1>2
<1> HIDE DEF s
<1>6. PICK g : Joins(g, s, Nat)
  BY <1>4, FlattenFacts
<1>7. /\ g[0] = <<>> /\ \A i \in 0..n : g[i] \in Seq(Nat)
      /\ \A i \in 1..n : g[i] = g[i - 1] \o s[i]
      /\ FlattenSeq(s) = g[n]
  BY <1>4, <1>6 DEF Joins
<1>8. PICK len : len = [i \in 0..n |-> Len(g[i])]
  OBVIOUS
<1>9. len \in [0..n -> Nat] /\ len[0] = 0
  <2>1. \A i \in 0..n : Len(g[i]) \in Nat
    BY <1>7
  <2>2. Len(g[0]) = 0
    BY <1>7
  <2> QED BY <1>8, <2>1, <2>2
<1>10. ASSUME NEW i \in 1..n
       PROVE  \E front, back \in Seq(Nat), b \in Nat :
                 /\ front = g[i - 1] /\ b = text[i] /\ back = ByteDigits(b)
                 /\ g[i] = front \o back
                 /\ len[i - 1] = Len(front) /\ len[i] = Len(front) + Len(back)
  <2>1. PICK front : front = g[i - 1]
    OBVIOUS
  <2>2. PICK b : b = text[i]
    OBVIOUS
  <2>3. b \in Nat /\ front \in Seq(Nat) /\ ByteDigits(b) \in Seq(Nat)
    <3>1. i - 1 \in 0..n
      OBVIOUS
    <3>2. b \in Nat
      BY <2>2, <1>2
    <3> QED BY <3>1, <3>2, <2>1, <1>3, <1>7
  <2>4. PICK back \in Seq(Nat) : back = ByteDigits(b)
    BY <2>3
  <2>5. g[i] = front \o back
    BY <2>1, <2>2, <2>4, <1>5, <1>7
  <2>6. Len(front \o back) = Len(front) + Len(back)
    BY <2>3
  <2>7. i - 1 \in 0..n /\ i \in 0..n
    OBVIOUS
  <2>8. len[i - 1] = Len(front) /\ len[i] = Len(front \o back)
    BY <2>1, <2>5, <2>7, <1>8
  <2> QED BY <2>1, <2>2, <2>3, <2>4, <2>5, <2>6, <2>8
<1>11. ASSUME NEW i \in 1..n
       PROVE  /\ text[i] < 128 => len[i] = len[i - 1] + 1
              /\ text[i] >= 128 => len[i] = len[i - 1] + 4
  <2>1. PICK front, back \in Seq(Nat), b \in Nat :
                 /\ b = text[i] /\ back = ByteDigits(b)
                 /\ len[i - 1] = Len(front) /\ len[i] = Len(front) + Len(back)
    BY <1>10
  <2>2. b < 128 => Len(back) = 1
    <3>1. Len(<<b>>) = 1
      OBVIOUS
    <3> QED BY <3>1, <2>1, <1>3
  <2>3. b >= 128 => Len(back) = 4
    BY <2>1, <1>3
  <2> QED BY <2>1, <2>2, <2>3
<1>12. /\ (\E j \in 1..n : text[j] >= 128) => len[n] > n
       /\ (\A j \in 1..n : text[j] < 128) => \A i \in 0..n : len[i] = i
  BY <1>2, <1>9, <1>11, LengthFacts
<1>13. PICK end \in Seq(Nat) : end = g[n] /\ len[n] = Len(end)
  <2>1. n \in 0..n
    OBVIOUS
  <2> QED BY <2>1, <1>7, <1>8
<1>14. ASSUME \A i \in 1..n : text[i] < 128 PROVE end = text
  <2>1. \A i \in 0..n : len[i] = i
    BY <1>12, <1>14
  <2> DEFINE Equal(i) == \A j \in 1..i : g[i][j] = text[j]
             Other == {i \in Nat : i <= n /\ ~Equal(i)}
  <2>2. Other = {}
    <3>1. 0 \notin Other
      OBVIOUS
    <3>2. ASSUME NEW i \in Nat, i + 1 <= n, Equal(i) PROVE Equal(i + 1)
      <4>1. i + 1 \in 1..n /\ (i + 1) - 1 = i /\ i \in 0..n
        BY <3>2
      <4>2. PICK front, back \in Seq(Nat), b \in Nat :
                 /\ front = g[i] /\ b = text[i + 1] /\ back = ByteDigits(b)
                 /\ g[i + 1] = front \o back /\ len[i] = Len(front)
        <5>1. \E front, back \in Seq(Nat), b \in Nat :
                 /\ front = g[(i + 1) - 1] /\ b = text[i + 1] /\ back = ByteDigits(b)
                 /\ g[i + 1] = front \o back
                 /\ len[(i + 1) - 1] = Len(front) /\ len[i + 1] = Len(front) + Len(back)
          BY <4>1, <1>10, Zenon
        <5> QED BY <5>1, <4>1
      <4>3. b < 128 /\ back = <<b>> /\ Len(front) = i
        BY <4>1, <4>2, <1>3, <1>14, <2>1
      <4>4. /\ (front \o <<b>>)[i + 1] = b
            /\ \A j \in 1..i : (front \o <<b>>)[j] = front[j]
        <5>1. /\ (front \o <<b>>)[Len(front) + 1] = b
              /\ \A j \in 1..Len(front) : (front \o <<b>>)[j] = front[j]
          OBVIOUS
        <5> QED BY <5>1, <4>3
      <4>5. \A j \in 1..i : front[j] = text[j]
        BY <4>2, <3>2
      <4>6. ASSUME NEW j \in 1..(i + 1) PROVE (front \o <<b>>)[j] = text[j]
        <5>1. j = i + 1 \/ j \in 1..i
          OBVIOUS
        <5> QED BY <5>1, <4>2, <4>4, <4>5
      <4> QED BY <4>2, <4>3, <4>6
    <3>3. /\ Other \subseteq Nat
          /\ \A i \in Nat : i + 1 \in Other => i + 1 <= n /\ ~Equal(i + 1)
          /\ \A i \in Nat : i + 1 <= n /\ i \notin Other => Equal(i)
      <4> HIDE DEF Equal
      <4> QED OBVIOUS
    <3> HIDE DEF Other, Equal
    <3> QED BY <3>1, <3>2, <3>3, NoFirst
  <2>3. \A j \in 1..n : end[j] = text[j]
    <3>1. n \notin Other
      BY <2>2
    <3> QED BY <3>1, <1>13
  <2>4. Len(end) = n
    BY <2>1, <1>13
  <2> QED BY <2>3, <2>4, <1>1
<1>15. ASSUME end = text, NEW i \in 1..n PROVE text[i] < 128
  <2>1. ~(len[n] > n)
    BY <1>1, <1>13, <1>15
  <2>2. ~(text[i] >= 128)
    BY <2>1, <1>12
  <2>3. PICK b \in Nat : b = text[i]
    BY <1>2
  <2>4. ~(b >= 128)
    BY <2>2, <2>3
  <2>5. b < 128
    BY <2>4
  <2> QED BY <2>3, <2>5
<1> QED BY <1>2, <1>7, <1>13, <1>14, <1>15 DEF s

\* Tables of formats.
FormatTables == Seq([text : Texts, sizes : Seq(Nat)])

\* The format that is read of a line.
ReadFormat(l) == [text |-> l.text, sizes |-> [k \in DOMAIN l.sizes |-> ReadNumber(l.sizes[k])]]

\* What is read of the line of an entry: its identifier, text and sizes are those of the
\* entry unless one of them, printed in hexadecimal or as a signed byte, needs more digits.
LEMMA FormatLine ==
    ASSUME NEW entries \in FormatTables, NEW n \in 1..Len(entries),
           NEW line, line = PrintfLines(entries)[n]
    PROVE  /\ ReadNumber(line.id) \in 0..(n - 1)
           /\ ReadNumber(line.id) = n - 1 <=> (HexBehind(entries, n - 1) => n - 1 < 10)
           /\ ReadFormat(line) = entries[n] <=>
                 /\ HexBehind(entries, n) =>
                       \A i \in DOMAIN entries[n].sizes : entries[n].sizes[i] < 10
                 /\ \A i \in DOMAIN entries[n].text : entries[n].text[i] < 128
<1> DEFINE printed(t) == FlattenSeq([i \in DOMAIN t |-> ByteDigits(t[i])])
           numeral(number, hex) == [number |-> number, hex |-> hex]
<1>1. PICK text, sizes : /\ text \in Texts /\ sizes \in Seq(Nat)
                         /\ text = entries[n].text /\ sizes = entries[n].sizes
                         /\ entries[n] = [text |-> text, sizes |-> sizes]
  <2> DEFINE Formatted == [text : Texts, sizes : Seq(Nat)]
  <2>1. entries[n] \in Formatted
    <3>1. entries \in Seq(Formatted)
      BY DEF FormatTables
    <3> HIDE DEF Formatted
    <3> QED BY <3>1
  <2> QED BY <2>1
<1>2. PICK before, behind \in BOOLEAN :
          before = HexBehind(entries, n - 1) /\ behind = HexBehind(entries, n)
  BY DEF HexBehind
<1> DEFINE numerals == [i \in DOMAIN sizes |-> numeral(sizes[i], behind)]
           read == [i \in DOMAIN numerals |-> ReadNumber(numerals[i])]
<1>3. n \in DOMAIN entries
  BY DEF FormatTables
<1>4. line = [id |-> numeral(n - 1, before), text |-> printed(text), sizes |-> numerals]
  <2>1. line = PrintfLine(entries, n)
    BY <1>3 DEF PrintfLines
  <2> QED BY <2>1, <1>1, <1>2 DEF PrintfLine
<1>5. /\ ReadNumber(line.id) = IF before THEN LeadingDigits(n - 1) ELSE n - 1
      /\ ReadFormat(line) = [text |-> printed(text), sizes |-> read]
  <2>1. /\ line.id = numeral(n - 1, before) /\ line.text = printed(text)
        /\ line.sizes = numerals
    <3> HIDE DEF printed, numerals, numeral
    <3> QED BY <1>4
  <2>2. ReadFormat(line) = [text |-> printed(text), sizes |-> read]
    <3> HIDE DEF printed, numerals, numeral
    <3> QED BY <2>1 DEF ReadFormat
  <2>3. ReadNumber(line.id) = IF before THEN LeadingDigits(n - 1) ELSE n - 1
    BY <2>1 DEF ReadNumber
  <2> QED BY <2>2, <2>3
<1>6. n - 1 \in Nat
  BY DEF FormatTables
<1>7. /\ ReadNumber(line.id) \in 0..(n - 1)
      /\ ReadNumber(line.id) = n - 1 <=> (before => n - 1 < 10)
  <2>1. PICK m \in Nat : m = n - 1
    BY <1>6
  <2>2. PICK d \in Nat : d = LeadingDigits(m) /\ (m < 10 => d = m) /\ (m >= 10 => d < m)
    BY DigitsFacts
  <2>3. d \in 0..m /\ (d = m <=> m < 10) /\ m \in 0..m
    BY <2>2
  <2>4. ReadNumber(line.id) = IF before THEN d ELSE m
    BY <2>1, <2>2, <1>5
  <2>5. CASE before
    BY <2>5, <2>1, <2>3, <2>4
  <2>6. CASE ~before
    BY <2>6, <2>1, <2>3, <2>4
  <2> QED BY <2>5, <2>6
<1>8. printed(text) = text <=> \A i \in DOMAIN text : text[i] < 128
  <2>1. ASSUME NEW i \in 1..Len(text) PROVE text[i] \in Nat
    <3>1. \A b \in 0..255 : b \in Nat
      OBVIOUS
    <3>2. PICK bytes : text \in Seq(bytes) /\ bytes = 0..255
      BY <1>1 DEF Texts
    <3>3. ASSUME NEW S, NEW t \in Seq(S), NEW j \in 1..Len(t) PROVE t[j] \in S
      OBVIOUS
    <3>4. text[i] \in bytes
      BY <3>2, <3>3, Zenon
    <3> QED BY <3>1, <3>2, <3>4, Zenon
  <2>2. PICK bytes : text \in Seq(bytes)
    BY <1>1 DEF Texts
  <2>3. text \in Seq(Nat)
    BY <2>1, <2>2, Elements, Zenon
  <2> QED BY <2>3, TextFacts
<1>9. read = sizes <=> (behind => \A i \in DOMAIN sizes : sizes[i] < 10)
  <2>1. DOMAIN numerals = DOMAIN sizes
        /\ \A i \in DOMAIN sizes : numerals[i] = numeral(sizes[i], behind)
    OBVIOUS
  <2>2. \A i \in DOMAIN sizes :
            ReadNumber(numerals[i]) = IF behind THEN LeadingDigits(sizes[i]) ELSE sizes[i]
    BY <2>1 DEF ReadNumber
  <2>3. ASSUME NEW i \in DOMAIN sizes
        PROVE  ReadNumber(numerals[i]) = sizes[i] <=> (behind => sizes[i] < 10)
    <3>1. PICK m \in Nat : m = sizes[i]
      BY <1>1
    <3>2. PICK d \in Nat : d = LeadingDigits(m) /\ (m < 10 => d = m) /\ (m >= 10 => d < m)
      BY DigitsFacts
    <3>3. d = m <=> m < 10
      BY <3>2
    <3> HIDE DEF numerals
    <3> QED BY <3>1, <3>2, <3>3, <2>2
  <2>4. sizes = [i \in DOMAIN sizes |-> sizes[i]]
    BY <1>1
  <2>5. read = [i \in DOMAIN sizes |-> ReadNumber(numerals[i])]
    BY <2>1
  <2> HIDE DEF read, numerals
  <2>6. read = sizes <=> \A i \in DOMAIN sizes : ReadNumber(numerals[i]) = sizes[i]
    BY <2>4, <2>5
  <2> QED BY <2>3, <2>6
<1>10. ReadFormat(line) = entries[n] <=> printed(text) = text /\ read = sizes
  <2> HIDE DEF printed, read, numerals
  <2> QED BY <1>1, <1>5
<1> HIDE DEF printed, read, numerals
<1> QED BY <1>1, <1>2, <1>7, <1>8, <1>9, <1>10

\* The map that is read of the lines of a table has its entries and nothing else
\* exactly if the table is printable: a bad identifier leaves the last one out.
LEMMA FaithfulFacts ==
    ASSUME NEW entries \in FormatTables
    PROVE  Faithful(FormatMap(PrintfLines(entries)), entries) <=> Printable(entries)
<1> DEFINE lns == PrintfLines(entries)
           id(n) == ReadNumber(lns[n].id)
           last(i) == Max({n \in DOMAIN lns : id(n) = i})
           ids == {id(n) : n \in DOMAIN lns}
           map == FormatMap(lns)
           Short(n) == HexBehind(entries, n - 1) => n - 1 < 10
           Right(n) == /\ HexBehind(entries, n) =>
                             \A i \in DOMAIN entries[n].sizes : entries[n].sizes[i] < 10
                       /\ \A i \in DOMAIN entries[n].text : entries[n].text[i] < 128
<1>1. PICK size \in Nat : size = Len(entries) /\ DOMAIN entries = 1..size
  BY DEF FormatTables
<1>2. DOMAIN lns = 1..size
  BY <1>1 DEF PrintfLines
<1>3. map = [i \in ids |-> ReadFormat(lns[last(i)])]
  BY DEF FormatMap, ReadFormat
<1>4. \A n \in 1..size : /\ id(n) \in 0..(n - 1)
                         /\ id(n) = n - 1 <=> Short(n)
                         /\ ReadFormat(lns[n]) = entries[n] <=> Right(n)
  <2> SUFFICES ASSUME NEW n \in 1..size
               PROVE  /\ id(n) \in 0..(n - 1)
                      /\ id(n) = n - 1 <=> Short(n)
                      /\ ReadFormat(lns[n]) = entries[n] <=> Right(n)
    OBVIOUS
  <2>1. PICK line : line = lns[n]
    OBVIOUS
  <2> QED BY <2>1, <1>1, FormatLine
<1>5. Printable(entries) <=> \A n \in 1..size : Short(n) /\ Right(n)
  BY <1>1 DEF Printable
<1>6. \A m, n \in 1..size : m <= n /\ ~Short(m) => ~Short(n)
  <2> SUFFICES ASSUME NEW m \in 1..size, NEW n \in 1..size, m <= n, ~Short(m) PROVE ~Short(n)
    OBVIOUS
  <2>1. HexBehind(entries, m - 1) /\ ~(m - 1 < 10)
    OBVIOUS
  <2>2. HexBehind(entries, n - 1)
    BY <2>1 DEF HexBehind
  <2> QED BY <2>1, <2>2
<1>7. Faithful(map, entries) <=> map = [i \in 0..(size - 1) |-> entries[i + 1]]
  BY <1>1 DEF Faithful
<1> HIDE DEF id, Short, Right, lns
<1>8. ASSUME \A n \in 1..size : Short(n)
      PROVE  /\ ids = 0..(size - 1)
             /\ \A i \in 0..(size - 1) : last(i) = i + 1
  <2>1. \A n \in 1..size : id(n) = n - 1
    BY <1>4, <1>8
  <2>2. ids = {n - 1 : n \in 1..size}
    BY <2>1, <1>2
  <2>3. {n - 1 : n \in 1..size} = 0..(size - 1)
    <3>1. \A i \in 0..(size - 1) : i + 1 \in 1..size /\ i = (i + 1) - 1
      OBVIOUS
    <3>2. \A i \in 0..(size - 1) : \E n \in 1..size : i = n - 1
      BY <3>1
    <3>3. \A n \in 1..size : n - 1 \in 0..(size - 1)
      OBVIOUS
    <3> QED BY <3>2, <3>3
  <2>4. ASSUME NEW i \in 0..(size - 1) PROVE last(i) = i + 1
    <3> DEFINE same == {n \in DOMAIN lns : id(n) = i}
    <3>1. same = {i + 1}
      BY <2>1, <1>2
    <3>2. same \subseteq 1..size /\ same # {}
      BY <3>1, <1>2
    <3>3. Max(same) \in same
      <4> HIDE DEF same
      <4> QED BY <3>2, MaxPlace
    <3> QED BY <3>1, <3>3
  <2> QED BY <2>2, <2>3, <2>4
<1>9. ASSUME map = [i \in 0..(size - 1) |-> entries[i + 1]], NEW m \in 1..size, ~Short(m)
      PROVE  FALSE
  <2>1. ids = 0..(size - 1)
    <3>1. DOMAIN map = ids
      <4> HIDE DEF ids, last, map
      <4> QED BY <1>3
    <3>2. DOMAIN map = 0..(size - 1)
      <4> HIDE DEF map
      <4> QED BY <1>9
    <3> QED BY <3>1, <3>2
  <2>2. size \in 1..size /\ m <= size /\ size - 1 \in 0..(size - 1)
    OBVIOUS
  <2>3. PICK n \in 1..size : id(n) = size - 1
    BY <2>1, <2>2, <1>2
  <2>4. n = size
    BY <2>3, <1>4
  <2>5. Short(size)
    BY <2>2, <2>3, <2>4, <1>4
  <2> QED BY <2>2, <2>5, <1>6, <1>9
<1>10. ASSUME \A n \in 1..size : Short(n)
       PROVE  map = [i \in 0..(size - 1) |-> entries[i + 1]] <=> \A n \in 1..size : Right(n)
  <2>1. map = [i \in 0..(size - 1) |-> ReadFormat(lns[i + 1])]
    BY <1>3, <1>8, <1>10
  <2> HIDE DEF map
  <2>2. map = [i \in 0..(size - 1) |-> entries[i + 1]]
            <=> \A i \in 0..(size - 1) : ReadFormat(lns[i + 1]) = entries[i + 1]
    BY <2>1
  <2>3. (\A i \in 0..(size - 1) : ReadFormat(lns[i + 1]) = entries[i + 1])
            <=> \A n \in 1..size : ReadFormat(lns[n]) = entries[n]
    <3>1. \A n \in 1..size : n - 1 \in 0..(size - 1) /\ (n - 1) + 1 = n
      OBVIOUS
    <3>2. \A i \in 0..(size - 1) : i + 1 \in 1..size
      OBVIOUS
    <3> QED BY <3>1, <3>2
  <2> QED BY <2>2, <2>3, <1>4
<1> HIDE DEF map
<1> QED BY <1>5, <1>7, <1>9, <1>10 DEF map, lns

\* What FlattenSeq joins has their elements.
LEMMA FlattenType ==
    ASSUME NEW S, NEW s \in Seq(Seq(S))
    PROVE  FlattenSeq(s) \in Seq(S)
<1>1. PICK f : Joins(f, s, S)
  BY FlattenFacts
<1>2. Len(s) \in 0..Len(s)
  OBVIOUS
<1> QED BY <1>1, <1>2 DEF Joins

\* A function on the places of a sequence is one.
LEMMA AsSequence ==
    ASSUME NEW S, NEW n \in Nat, NEW f \in [1..n -> S]
    PROVE  f \in Seq(S)
OBVIOUS

\* The table of calls is a table of formats.
LEMMA TableType ==
    ASSUME NEW calls \in Seq(PrintfCalls)
    PROVE  FormatTable(calls) \in FormatTables
<1> DEFINE T == [text : Texts, sizes : Seq(Nat)]
           A == [size : Nat, literals : Seq(Texts)]
           format(c) == [text |-> c.text, sizes |-> [i \in DOMAIN c.args |-> c.args[i].size]]
           literals(c) == FlattenSeq([i \in DOMAIN c.args |-> c.args[i].literals])
           behind(c) == [i \in DOMAIN literals(c) |-> [text |-> literals(c)[i], sizes |-> <<>>]]
           entries(c) == <<format(c)>> \o behind(c)
<1>1. ASSUME NEW c \in PrintfCalls PROVE entries(c) \in Seq(T)
  <2>1. PICK args : args = c.args
    OBVIOUS
  <2>2. c.text \in Texts /\ args \in Seq(A)
    BY <2>1 DEF PrintfCalls
  <2>3. PICK n \in Nat : DOMAIN args = 1..n /\ \A i \in 1..n : args[i] \in A
    <3> HIDE DEF A
    <3> QED BY <2>2
  <2>4. format(c) \in T
    <3>1. [i \in DOMAIN args |-> args[i].size] \in [1..n -> Nat]
      BY <2>3
    <3>2. [i \in DOMAIN args |-> args[i].size] \in Seq(Nat)
      BY <3>1, AsSequence
    <3> QED BY <3>2, <2>1, <2>2
  <2>5. literals(c) \in Seq(Texts)
    <3> DEFINE all == [i \in DOMAIN args |-> args[i].literals]
    <3>1. all \in [1..n -> Seq(Texts)]
      BY <2>3
    <3> HIDE DEF all
    <3>2. all \in Seq(Seq(Texts))
      BY <3>1, AsSequence
    <3>3. FlattenSeq(all) \in Seq(Texts)
      BY <3>2, FlattenType
    <3> QED BY <3>3, <2>1 DEF all
  <2>6. PICK texts \in Seq(Texts) : texts = literals(c)
    BY <2>5
  <2>7. behind(c) \in Seq(T)
    <3>1. \A i \in 1..Len(texts) : [text |-> texts[i], sizes |-> <<>>] \in T
      <4>1. \A i \in 1..Len(texts) : texts[i] \in Texts
        BY <2>6
      <4>2. <<>> \in Seq(Nat)
        OBVIOUS
      <4> QED BY <4>1, <4>2
    <3>2. DOMAIN texts = 1..Len(texts) /\ Len(texts) \in Nat
      BY <2>6
    <3>3. behind(c) = [i \in 1..Len(texts) |-> [text |-> texts[i], sizes |-> <<>>]]
      <4> HIDE DEF literals
      <4> QED BY <2>6, <3>2
    <3> HIDE DEF T, behind
    <3>4. behind(c) \in [1..Len(texts) -> T]
      BY <3>1, <3>3
    <3> QED BY <3>2, <3>4, AsSequence
  <2> HIDE DEF T, format, behind
  <2> QED BY <2>4, <2>7
<1> DEFINE tables == [i \in DOMAIN calls |-> entries(calls[i])]
<1> HIDE DEF T, entries
<1>2. tables \in Seq(Seq(T))
  <2>1. \A i \in 1..Len(calls) : calls[i] \in PrintfCalls
    OBVIOUS
  <2>2. \A i \in 1..Len(calls) : entries(calls[i]) \in Seq(T)
    BY <2>1, <1>1
  <2>3. tables = [i \in 1..Len(calls) |-> entries(calls[i])]
    OBVIOUS
  <2> HIDE DEF tables
  <2> QED BY <2>2, <2>3
<1>3. FlattenSeq(tables) \in Seq(T)
  <2> HIDE DEF tables
  <2> QED BY <1>2, FlattenType
<1> QED BY <1>3 DEF FormatTable, FormatTables, T, entries

\* That of a program too.
LEMMA FormatsType ==
    ASSUME InterfaceInv
    PROVE  Formats(program) \in FormatTables
<1> DEFINE T == [args : Seq(Arguments), printf : Seq(PrintfCalls)]
           calls == [k \in DOMAIN program |-> program[k].printf]
<1>1. program \in Seq(T)
  BY ProgramsAssumption DEF InterfaceInv, ProgramOK
<1>2. \A k \in 1..Len(program) : program[k].printf \in Seq(PrintfCalls)
  <2>1. \A k \in 1..Len(program) : program[k] \in T
    <3> HIDE DEF T
    <3> QED BY <1>1
  <2> QED BY <2>1
<1>3. calls \in Seq(Seq(PrintfCalls))
  <2>1. calls = [k \in 1..Len(program) |-> program[k].printf] /\ Len(program) \in Nat
    <3> HIDE DEF T
    <3> QED BY <1>1
  <2> HIDE DEF calls
  <2> QED BY <1>2, <2>1
<1> HIDE DEF calls
<1>4. FlattenSeq(calls) \in Seq(PrintfCalls)
  BY <1>3, FlattenType
<1> QED BY <1>4, TableType DEF Formats, calls

\* The map of the runtime is that of the lines of the program's formats.
LEMMA FormatsOK == InterfaceInv => FormatsRead
<1> SUFFICES ASSUME InterfaceInv, printfData.started
             PROVE  Faithful(printfData.map, Formats(program)) <=> Printable(Formats(program))
  BY DEF FormatsRead
<1>1. table # <<>> /\ printfData = [started |-> TRUE, map |-> FormatMap(printfLines)]
  BY DEF InterfaceInv, DataOK, NoData
<1>2. lines # <<>>
  BY <1>1 DEF InterfaceInv, LinesOK
<1>3. printfData.map = FormatMap(PrintfLines(Formats(program)))
  BY <1>1, <1>2, Built
<1> QED BY <1>3, FormatsType, FaithfulFacts

\* What the page and the program read of the reflection is what clspv described, for
\* all programs: the layouts of a launch and the set of its printf buffer are those of
\* the kernel, and the formats of printf are found if, and only if, the numbers and
\* bytes of their lines need no digits that strtol reads differently
\* (GeneratePrintfReflection, compile, wasm_hipLaunchKernel and PrintfData).
THEOREM ReflectionIsReadAlways == InterfaceSpec => []ReflectionIsRead
<1>1. InterfaceInv => ReflectionIsRead
  BY LayoutsOK, FormatsOK DEF ReflectionIsRead
<1> QED BY <1>1, InterfaceAlways, PTL

\* No two resources of the module have a place in common, in whatever order the
\* compilation, the page and the launches follow one another (AllocateDescriptors).
THEOREM ResourcesStayDistinct == InterfaceSpec => []ResourcesDistinct
<1>1. InterfaceInv => ResourcesDistinct
  BY Distinct DEF InterfaceInv, ProgramOK
<1> QED BY <1>1, InterfaceAlways, PTL
===============================================================================
