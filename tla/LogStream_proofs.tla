-------------------------- MODULE LogStream_proofs --------------------------
(***************************************************************************)
(* A line of the log shows the second it was made in and the integers that *)
(* were streamed to it, and stays in its buffer: proved for any threads,   *)
(* any readings of the clock, strings of any length and every width of an  *)
(* integer.                                                                *)
(*                                                                         *)
(* What convert computes is an induction over the integer.  The library's  *)
(* induction theorems take an operator as a parameter, so the inductions   *)
(* here are by the least counterexample (LeastNatural).                    *)
(***************************************************************************)
EXTENDS LogStream, SequenceTheorems, FiniteSetTheorems, FunctionTheorems,
        WellFoundedInduction, TLAPS

\* A set of naturals that is not empty has a least element.
LEMMA LeastNatural ==
  ASSUME NEW T \in SUBSET Nat, T # {}
  PROVE  \E x \in T : \A y \in T : x <= y
<1> DEFINE R == OpToRel(<, Nat)
<1>1. IsWellFoundedOn(R, Nat)
  BY NatLessThanWellFounded
<1>2. \A x, y \in Nat : y < x => <<y, x>> \in R
  BY DEF OpToRel
<1> HIDE DEF R
<1>3. PICK x \in T : \A y \in T : ~(<<y, x>> \in R)
  BY <1>1, WFMin
<1>4. ASSUME NEW y \in T PROVE x <= y
  <2>1. x \in Nat /\ y \in Nat /\ ~(y < x)
    BY <1>2, <1>3
  <2> QED
    BY <2>1
<1> QED
  BY <1>4

----------------------------------------------------------------------------
(* C's division, and the digits it takes off.                              *)

Abs(v) == IF v < 0 THEN -v ELSE v

\* C's division takes the last digit off, whatever the sign.
LEMMA Division ==
  ASSUME NEW v \in Int
  PROVE  /\ Quotient(v) \in Int /\ Lsd(v) \in Int /\ Zero(Lsd(v)) \in 0 .. 9
         /\ Abs(v) \in Nat /\ Abs(Quotient(v)) \in Nat
         /\ Abs(v) = 10 * Abs(Quotient(v)) + Zero(Lsd(v))
<1>1. CASE v < 0
  <2> DEFINE w == -v
             q == w \div 10
  <2>1. w \in Nat /\ v = -w
    BY <1>1
  <2> HIDE DEF w
  <2>2. q \in Nat /\ 10 * q <= w /\ w < 10 * q + 10
    BY <2>1
  <2>3. Quotient(v) = -q
    BY <1>1 DEF Quotient, w
  <2> HIDE DEF q
  <2> QED
    BY <1>1, <2>1, <2>2, <2>3 DEF Lsd, Zero, Abs
<1>2. CASE ~(v < 0)
  <2> DEFINE q == v \div 10
  <2>1. q \in Nat /\ 10 * q <= v /\ v < 10 * q + 10 /\ v \in Nat
    BY <1>2
  <2>2. Quotient(v) = q
    BY <1>2 DEF Quotient
  <2> HIDE DEF q
  <2> QED
    BY <1>2, <2>1, <2>2 DEF Lsd, Zero, Abs
<1> QED
  BY <1>1, <1>2

\* The body of the recursion.
Step(f, v) == (IF More(Quotient(v)) THEN f[Quotient(v)] ELSE <<>>) \o <<Zero(Lsd(v))>>

\* A solution for the integers of up to n.
IsPart(f, n) == f = [v \in -n .. n |-> Step(f, v)]

\* The step looks at a smaller integer.
LEMMA StepDown ==
  ASSUME NEW v \in Int, More(Quotient(v))
  PROVE  /\ Quotient(v) \in Int /\ Abs(Quotient(v)) \in Nat
         /\ Abs(Quotient(v)) < Abs(v) /\ Abs(v) \in Nat
<1>1. /\ Quotient(v) \in Int /\ Quotient(v) # 0 /\ Zero(Lsd(v)) \in 0 .. 9
      /\ Abs(v) \in Nat /\ Abs(Quotient(v)) \in Nat
      /\ Abs(v) = 10 * Abs(Quotient(v)) + Zero(Lsd(v))
  BY Division DEF More
<1>2. Abs(Quotient(v)) # 0
  BY <1>1 DEF Abs
<1> QED
  BY <1>1, <1>2

\* A solution satisfies the recursion at each of its integers.
LEMMA PartAt ==
  ASSUME NEW f, NEW n, IsPart(f, n), NEW v \in -n .. n
  PROVE  f[v] = Step(f, v)
<1>1. f = [w \in -n .. n |-> Step(f, w)]
  BY DEF IsPart
<1> QED
  BY <1>1, Zenon

\* The step looks at no other integer.
LEMMA StepSame ==
  ASSUME NEW f, NEW g, NEW v, More(Quotient(v)) => f[Quotient(v)] = g[Quotient(v)]
  PROVE  Step(f, v) = Step(g, v)
BY DEF Step

\* The integers of up to n.
LEMMA AbsRange ==
  ASSUME NEW v \in Int, NEW n \in Nat
  PROVE  v \in -n .. n <=> Abs(v) <= n
BY DEF Abs

\* There is a solution for the integers of up to any n: the least n without
\* one would have one, by a step from n - 1.
LEMMA PartExists == \A n \in Nat : \E f : IsPart(f, n)
<1> DEFINE T == {n \in Nat : ~ \E f : IsPart(f, n)}
<1>1. SUFFICES ASSUME T # {} PROVE FALSE
  OBVIOUS
<1> T \in SUBSET Nat
  OBVIOUS
<1>2. PICK n \in T : \A m \in T : n <= m
  BY <1>1, LeastNatural
<1>3. n \in Nat /\ \A f : ~IsPart(f, n)
  BY <1>2
\* A solution for the smaller ones, or nothing.
<1>4. PICK f : n # 0 => IsPart(f, n - 1)
  <2>1. CASE n = 0
    BY <2>1
  <2>2. CASE n # 0
    <3>1. n - 1 \in Nat /\ n - 1 \notin T
      <4> HIDE DEF T
      <4> QED
        BY <1>2, <1>3, <2>2
    <3> QED
      BY <3>1
  <2> QED
    BY <2>1, <2>2
<1> DEFINE g == [v \in -n .. n |-> Step(f, v)]
<1>5. ASSUME NEW v \in -n .. n PROVE Step(f, v) = Step(g, v)
  <2> SUFFICES ASSUME More(Quotient(v)) PROVE f[Quotient(v)] = g[Quotient(v)]
    BY StepSame
  <2> DEFINE q == Quotient(v)
  <2>1. v \in Int /\ Abs(v) <= n
    BY <1>3, AbsRange
  <2>2. q \in Int /\ Abs(q) \in Nat /\ Abs(q) < Abs(v) /\ Abs(v) \in Nat
    BY <2>1, StepDown
  <2> HIDE DEF q
  <2>3. n # 0 /\ n - 1 \in Nat /\ Abs(q) <= n - 1 /\ Abs(q) <= n
    BY <1>3, <2>1, <2>2
  <2>4. q \in -(n - 1) .. n - 1 /\ q \in -n .. n
    BY <1>3, <2>2, <2>3, AbsRange
  <2>5. f[q] = Step(f, q)
    BY <1>4, <2>3, <2>4, PartAt
  <2>6. g[q] = Step(f, q)
    BY <2>4, Zenon
  <2> QED
    BY <2>5, <2>6 DEF q
<1>6. g = [v \in -n .. n |-> Step(g, v)]
  <2> HIDE DEF Step
  <2>1. [v \in -n .. n |-> Step(f, v)] = [v \in -n .. n |-> Step(g, v)]
    BY <1>5, Zenon
  <2> QED
    BY <2>1, Zenon
<1> HIDE DEF g
<1>7. IsPart(g, n)
  BY <1>6 DEF IsPart
<1> QED
  BY <1>3, <1>7

\* Two of them agree where both are defined.
LEMMA PartUnique ==
  ASSUME NEW m \in Nat, NEW n \in Nat, NEW f, NEW g, IsPart(f, m), IsPart(g, n),
         NEW v \in Int, Abs(v) <= m, Abs(v) <= n
  PROVE  f[v] = g[v]
<1> DEFINE T == {a \in Nat : \E w \in Int : a = Abs(w) /\ a <= m /\ a <= n /\ f[w] # g[w]}
<1>1. SUFFICES ASSUME T # {} PROVE FALSE
  BY Division
<1> T \in SUBSET Nat
  OBVIOUS
<1>2. PICK a \in T : \A b \in T : a <= b
  BY <1>1, LeastNatural
<1>3. PICK w \in Int : a = Abs(w) /\ a <= m /\ a <= n /\ f[w] # g[w]
  BY <1>2
<1>4. f[w] = Step(f, w) /\ g[w] = Step(g, w)
  <2>1. w \in -m .. m /\ w \in -n .. n
    BY <1>3, AbsRange
  <2> QED
    BY <2>1, PartAt
<1>5. ASSUME More(Quotient(w)) PROVE f[Quotient(w)] = g[Quotient(w)]
  <2> DEFINE q == Quotient(w)
  <2>1. q \in Int /\ Abs(q) \in Nat /\ Abs(q) < a
    BY <1>3, <1>5, StepDown
  <2> HIDE DEF q
  <2>2. Abs(q) \notin T
    <3> HIDE DEF T
    <3> QED
      BY <1>2, <2>1
  <2>3. Abs(q) <= m /\ Abs(q) <= n
    BY <1>3, <2>1
  <2> QED
    BY <2>1, <2>2, <2>3 DEF q
<1> QED
  BY <1>3, <1>4, <1>5, StepSame

\* The recursion by which the digits are defined has a solution.
LEMMA DigitsAt == \A v \in Int : Digits[v] = Step(Digits, v)
<1> DEFINE Part(n) == CHOOSE f : IsPart(f, n)
           F == [v \in Int |-> Part(Abs(v))[v]]
<1>1. \A n \in Nat : IsPart(Part(n), n)
  BY PartExists
<1> HIDE DEF Part
<1>2. ASSUME NEW v \in Int PROVE F[v] = Step(F, v)
  <2>1. Abs(v) \in Nat
    BY Division
  <2>2. F[v] = Step(Part(Abs(v)), v)
    <3>1. v \in -Abs(v) .. Abs(v)
      BY <2>1, AbsRange
    <3>2. Part(Abs(v))[v] = Step(Part(Abs(v)), v)
      BY <1>1, <2>1, <3>1, PartAt
    <3> QED
      BY <3>2
  <2>3. ASSUME More(Quotient(v))
        PROVE  Part(Abs(v))[Quotient(v)] = F[Quotient(v)]
    <3> DEFINE q == Quotient(v)
    <3>1. q \in Int /\ Abs(q) \in Nat /\ Abs(q) < Abs(v)
      BY <2>3, StepDown
    <3> HIDE DEF q
    <3>2. Abs(q) <= Abs(v) /\ Abs(q) <= Abs(q)
      BY <2>1, <3>1
    <3>3. Part(Abs(v))[q] = Part(Abs(q))[q]
      BY <1>1, <2>1, <3>1, <3>2, PartUnique
    <3>4. F[q] = Part(Abs(q))[q]
      BY <3>1, Zenon
    <3> QED
      BY <3>3, <3>4 DEF q
  <2> HIDE DEF F
  <2> QED
    BY <2>2, <2>3, StepSame
<1>3. F = [v \in Int |-> Step(F, v)]
  <2>1. F = [v \in Int |-> F[v]]
    OBVIOUS
  <2> HIDE DEF F
  <2> QED
    BY <1>2, <2>1, Zenon
<1> HIDE DEF F
<1>4. Digits = CHOOSE f : f = [v \in Int |-> Step(f, v)]
  BY Zenon DEF Digits, Step
<1>5. Digits = [v \in Int |-> Step(Digits, v)]
  BY <1>3, <1>4, Zenon
<1> QED
  BY <1>5, Zenon
----------------------------------------------------------------------------
(* The number that digits stand for.                                       *)

\* f solves the recursion by which Value is defined.
IsValue(f, ds) ==
  f = [n \in 0 .. Len(ds) |-> IF n = 0 THEN 0 ELSE 10 * f[n - 1] + ds[n]]

\* Value is the last value of the recursive function.
LEMMA ValueIs ==
  ASSUME NEW ds PROVE Value(ds) = (CHOOSE f : IsValue(f, ds))[Len(ds)]
BY DEF Value, IsValue

\* The recursive function satisfies its recursion.
LEMMA ValueAt ==
  ASSUME NEW f, NEW ds, IsValue(f, ds), NEW n \in 0 .. Len(ds)
  PROVE  f[n] = IF n = 0 THEN 0 ELSE 10 * f[n - 1] + ds[n]
<1> DEFINE F(k) == IF k = 0 THEN 0 ELSE 10 * f[k - 1] + ds[k]
<1>1. f = [k \in 0 .. Len(ds) |-> F(k)]
  BY DEF IsValue
<1> HIDE DEF F
<1>2. f[n] = F(n)
  BY <1>1, Zenon
<1> QED
  BY <1>2 DEF F

\* It exists for all digits.
LEMMA ValueExists ==
  ASSUME NEW ds, Len(ds) \in Nat
  PROVE  \E f : IsValue(f, ds)
<1> DEFINE Part(f, n) == f = [k \in 0 .. n |-> IF k = 0 THEN 0 ELSE 10 * f[k - 1] + ds[k]]
           T == {n \in Nat : ~ \E f : Part(f, n)}
<1>1. SUFFICES ASSUME T # {} PROVE FALSE
  BY DEF IsValue
<1> T \in SUBSET Nat
  OBVIOUS
<1>2. PICK n \in T : \A m \in T : n <= m
  BY <1>1, LeastNatural
<1>3. n \in Nat /\ n # 0
  <2>1. Part([k \in 0 .. 0 |-> 0], 0)
    OBVIOUS
  <2> QED
    BY <2>1
<1>4. n - 1 \in Nat /\ n - 1 \notin T
  <2> HIDE DEF T
  <2> QED
    BY <1>2, <1>3
<1>5. PICK f : Part(f, n - 1)
  BY <1>4
<1> DEFINE g == [k \in 0 .. n |-> IF k = n THEN 10 * f[k - 1] + ds[k] ELSE f[k]]
<1>6. ASSUME NEW k \in 0 .. n
      PROVE  g[k] = IF k = 0 THEN 0 ELSE 10 * g[k - 1] + ds[k]
  <2>1. k # 0 => k - 1 \in 0 .. n /\ k - 1 # n /\ g[k - 1] = f[k - 1]
    BY <1>3
  <2>2. CASE k = n
    BY <1>3, <2>1, <2>2
  <2>3. CASE k # n
    <3>1. k \in 0 .. n - 1 /\ g[k] = f[k]
      BY <1>3, <2>3
    <3>2. f[k] = IF k = 0 THEN 0 ELSE 10 * f[k - 1] + ds[k]
      BY <1>5, <3>1
    <3> QED
      BY <2>1, <3>1, <3>2
  <2> QED
    BY <2>2, <2>3
<1>7. g = [k \in 0 .. n |-> g[k]]
  OBVIOUS
<1> HIDE DEF g
<1>8. Part(g, n)
  BY <1>6, <1>7
<1> QED
  BY <1>2, <1>8

\* One digit more.
LEMMA ValueStep ==
  ASSUME NEW ds, NEW es, NEW n \in Nat, Len(ds) = n, Len(es) = n + 1,
         \A k \in 1 .. n : ds[k] = es[k]
  PROVE  Value(es) = 10 * Value(ds) + es[n + 1]
<1> DEFINE f == CHOOSE f : IsValue(f, ds)
           g == CHOOSE g : IsValue(g, es)
<1>1. IsValue(f, ds) /\ IsValue(g, es)
  BY ValueExists
<1>2. Value(ds) = f[n] /\ Value(es) = g[n + 1]
  BY ValueIs
<1> HIDE DEF f, g
<1>3. f[n] = g[n]
  <2> DEFINE T == {k \in 0 .. n : f[k] # g[k]}
  <2>1. SUFFICES ASSUME T # {} PROVE FALSE
    OBVIOUS
  <2> T \in SUBSET Nat
    OBVIOUS
  <2>2. PICK k \in T : \A j \in T : k <= j
    BY <2>1, LeastNatural
  <2>3. /\ f[k] = IF k = 0 THEN 0 ELSE 10 * f[k - 1] + ds[k]
        /\ g[k] = IF k = 0 THEN 0 ELSE 10 * g[k - 1] + es[k]
    <3>1. k \in 0 .. Len(ds) /\ k \in 0 .. Len(es)
      OBVIOUS
    <3> QED
      BY <1>1, <3>1, ValueAt
  <2>4. k # 0 => f[k - 1] = g[k - 1]
    BY <2>2
  <2> QED
    BY <2>3, <2>4
<1>4. g[n + 1] = 10 * g[n] + es[n + 1]
  <2> DEFINE m == n + 1
  <2>1. m \in 0 .. Len(es)
    OBVIOUS
  <2>2. m # 0 /\ m - 1 = n
    OBVIOUS
  <2> HIDE DEF m
  <2>3. IsValue(g, es)
    BY <1>1
  <2>4. g[m] = IF m = 0 THEN 0 ELSE 10 * g[m - 1] + es[m]
    BY ONLY <2>1, <2>3, ValueAt
  <2> QED
    BY <2>2, <2>4 DEF m
<1> QED
  BY <1>2, <1>3, <1>4

\* No digits stand for 0.
LEMMA ValueNone == ASSUME NEW ds, Len(ds) = 0 PROVE Value(ds) = 0
<1> DEFINE f == CHOOSE f : IsValue(f, ds)
<1>1. IsValue(f, ds) /\ Value(ds) = f[0]
  BY ValueExists, ValueIs
<1> HIDE DEF f
<1>2. 0 \in 0 .. Len(ds)
  OBVIOUS
<1>3. f[0] = IF 0 = 0 THEN 0 ELSE 10 * f[0 - 1] + ds[0]
  BY <1>1, <1>2, ValueAt, Zenon
<1> QED
  BY <1>1, <1>3

----------------------------------------------------------------------------
(* What convert computes.                                                  *)

\* ds are the digits of v, and there is no leading zero.
Shows(ds, v) ==
  /\ ds \in Seq(0 .. 9) /\ ds # <<>>
  /\ Value(ds) = Abs(v)
  /\ Len(ds) > 1 => Head(ds) # 0
  /\ v # 0 => Head(ds) # 0

\* A digit behind the digits of the quotient.
LEMMA ShowsMore ==
  ASSUME NEW v \in Int, NEW ds, Shows(ds, Quotient(v)), Quotient(v) # 0
  PROVE  Shows(ds \o <<Zero(Lsd(v))>>, v)
<1> DEFINE d == Zero(Lsd(v))
           n == Len(ds)
           es == ds \o <<d>>
<1>1. d \in 0 .. 9 /\ Abs(Quotient(v)) \in Nat /\ Abs(v) = 10 * Abs(Quotient(v)) + d
  BY Division
<1>2. ds \in Seq(0 .. 9) /\ ds # <<>> /\ n \in Nat \ {0} /\ Head(ds) # 0
      /\ Value(ds) = Abs(Quotient(v)) /\ Head(ds) = ds[1]
  BY DEF Shows
<1> HIDE DEF d
<1>3. <<d>> \in Seq(0 .. 9) /\ Len(<<d>>) = 1 /\ <<d>>[1] = d
  BY <1>1
<1>4. es \in Seq(0 .. 9) /\ Len(es) = n + 1 /\ es[n + 1] = d
      /\ \A k \in 1 .. n : es[k] = ds[k]
  <2>1. /\ es \in Seq(0 .. 9) /\ Len(es) = Len(ds) + Len(<<d>>)
        /\ \A k \in 1 .. Len(ds) + Len(<<d>>) :
             es[k] = IF k <= Len(ds) THEN ds[k] ELSE <<d>>[k - Len(ds)]
    BY <1>2, <1>3, ConcatProperties
  <2> HIDE DEF es
  <2> QED
    BY <1>2, <1>3, <2>1
<1> HIDE DEF es, n
<1>5. Value(es) = 10 * Value(ds) + d
  <2>1. Value(es) = 10 * Value(ds) + es[n + 1]
    <3>1. n \in Nat /\ Len(ds) = n
      BY <1>2 DEF n
    <3> QED
      BY <1>4, <3>1, ValueStep
  <2> QED
    BY <1>4, <2>1
<1>6. es # <<>> /\ Head(es) # 0
  BY <1>2, <1>4
<1> QED
  BY <1>1, <1>2, <1>4, <1>5, <1>6 DEF Shows, es, d

\* A single digit.
LEMMA ShowsOne ==
  ASSUME NEW v \in Int, Quotient(v) = 0
  PROVE  Shows(<<>> \o <<Zero(Lsd(v))>>, v) /\ Len(<<>> \o <<Zero(Lsd(v))>>) = 1
<1> DEFINE d == Zero(Lsd(v))
           es == <<d>>
<1>1. d \in 0 .. 9 /\ Abs(v) = d /\ (v # 0 => d # 0)
  BY Division DEF Abs
<1> HIDE DEF d
<1>2. <<>> \o <<d>> = es
  BY <1>1
<1>3. es \in Seq(0 .. 9) /\ Len(es) = 1 /\ es[1] = d /\ es # <<>> /\ Head(es) = d
  BY <1>1
<1>4. Value(es) = 10 * Value(<<>>) + es[1]
  <2> DEFINE none == <<>>
  <2>1. Len(none) = 0
    OBVIOUS
  <2> HIDE DEF none, es
  <2>2. Len(es) = 0 + 1 /\ 0 \in Nat
    BY <1>3
  <2>3. \A k \in 1 .. 0 : none[k] = es[k]
    OBVIOUS
  <2>4. Value(es) = 10 * Value(none) + es[0 + 1]
    BY ONLY <2>1, <2>2, <2>3, ValueStep
  <2> QED
    BY <2>4 DEF none
<1>5. Value(<<>>) = 0
  BY ValueNone
<1> HIDE DEF es
<1>6. Value(es) = d
  BY <1>1, <1>3, <1>4, <1>5
<1>7. Shows(es, v) /\ Len(es) = 1
  BY <1>1, <1>3, <1>6 DEF Shows
<1> QED
  BY <1>2, <1>7 DEF d

\* Every integer is shown right, the smallest one of its type and 0 included.
LEMMA DigitsShow == \A v \in Int : Shows(Digits[v], v)
<1> DEFINE T == {a \in Nat : \E v \in Int : a = Abs(v) /\ ~Shows(Digits[v], v)}
<1>1. SUFFICES ASSUME T # {} PROVE FALSE
  BY Division
<1> T \in SUBSET Nat
  OBVIOUS
<1>2. PICK a \in T : \A b \in T : a <= b
  BY <1>1, LeastNatural
<1>3. PICK v \in Int : a = Abs(v) /\ ~Shows(Digits[v], v)
  BY <1>2
<1>4. Digits[v] = (IF More(Quotient(v)) THEN Digits[Quotient(v)] ELSE <<>>) \o <<Zero(Lsd(v))>>
  BY DigitsAt DEF Step
<1>5. CASE Quotient(v) = 0
  BY <1>3, <1>4, <1>5, ShowsOne DEF More
<1>6. CASE Quotient(v) # 0
  <2> DEFINE q == Quotient(v)
  <2>1. q \in Int /\ Abs(q) \in Nat /\ Abs(q) < a
    BY <1>3, <1>6, StepDown DEF More
  <2>2. Abs(q) \notin T
    <3> HIDE DEF T, q
    <3> QED
      BY <1>2, <2>1
  <2>3. Shows(Digits[q], q)
    <3> HIDE DEF q
    <3> QED
      BY <2>1, <2>2
  <2>4. Shows(Digits[q] \o <<Zero(Lsd(v))>>, v)
    BY <1>6, <2>3, ShowsMore
  <2> QED
    BY <1>3, <1>4, <1>6, <2>4 DEF More
<1> QED
  BY <1>5, <1>6

\* What convert writes stands for the integer it was given.
LEMMA ConvertShows ==
  ASSUME NEW v \in Int
  PROVE  /\ ValueOf(Convert(v)) = v
         /\ Len(Convert(v).digits) > 1 => Head(Convert(v).digits) # 0
<1>1. Convert(v).digits = Digits[v] /\ Convert(v).minus = (v < 0)
  BY DEF Convert
<1>2. Value(Digits[v]) = Abs(v) /\ (Len(Digits[v]) > 1 => Head(Digits[v]) # 0)
  BY DigitsShow DEF Shows
<1>3. ValueOf(Convert(v)) = (IF v < 0 THEN -1 ELSE 1) * Abs(v)
  BY <1>1, <1>2 DEF ValueOf
<1> QED
  BY <1>1, <1>2, <1>3 DEF Abs
----------------------------------------------------------------------------
(* How long a numeral is.                                                  *)

\* The arithmetic of powers, from the number of subsets of a set.
LEMMA PowerStep == ASSUME NEW n \in Nat PROVE 2 ^ (n + 1) = 2 * 2 ^ n
<1> DEFINE A == SUBSET (1 .. n)
           B == {S \cup {n + 1} : S \in A}
           F == [S \in A |-> S \cup {n + 1}]
<1>1. /\ IsFiniteSet(1 .. n) /\ Cardinality(1 .. n) = n
      /\ IsFiniteSet(1 .. n + 1) /\ Cardinality(1 .. n + 1) = n + 1
  BY FS_Interval
<1>2. IsFiniteSet(A) /\ Cardinality(A) = 2 ^ n
  BY <1>1, FS_SUBSET
<1>3. Cardinality(SUBSET (1 .. n + 1)) = 2 ^ (n + 1)
  BY <1>1, FS_SUBSET
<1>4. SUBSET (1 .. n + 1) = A \cup B
  <2>1. 1 .. n + 1 = (1 .. n) \cup {n + 1}
    OBVIOUS
  <2>2. ASSUME NEW S, S \subseteq 1 .. n + 1 PROVE S \in A \cup B
    <3>1. CASE n + 1 \in S
      <4>1. S \ {n + 1} \in A /\ S = (S \ {n + 1}) \cup {n + 1}
        BY <2>1, <2>2, <3>1
      <4> QED
        BY <4>1, Zenon
    <3>2. CASE n + 1 \notin S
      BY <2>1, <2>2, <3>2
    <3> QED
      BY <3>1, <3>2
  <2>3. A \cup B \subseteq SUBSET (1 .. n + 1)
    BY <2>1
  <2> QED
    BY <2>2, <2>3, Zenon
<1>5. n + 1 \notin 1 .. n
  OBVIOUS
<1>6. A \cap B = {}
  BY <1>5
<1>7. ExistsBijection(A, B)
  <2>1. F \in [A -> B]
    OBVIOUS
  <2>2. \A S, U \in A : F[S] = F[U] => S = U
    <3>1. ASSUME NEW S \in A, NEW U \in A, F[S] = F[U] PROVE S = U
      <4>1. S \cup {n + 1} = U \cup {n + 1} /\ n + 1 \notin S /\ n + 1 \notin U
        BY <1>5, <3>1
      <4>2. S = (S \cup {n + 1}) \ {n + 1} /\ U = (U \cup {n + 1}) \ {n + 1}
        BY <4>1
      <4> QED
        BY <4>1, <4>2, Zenon
    <3> QED
      BY <3>1
  <2>3. \A x \in B : \E S \in A : F[S] = x
    OBVIOUS
  <2>4. F \in Bijection(A, B)
    <3> HIDE DEF F, A, B
    <3> QED
      BY <2>1, <2>2, <2>3, Fun_IsBij
  <2> QED
    BY <2>4 DEF ExistsBijection
<1>8. IsFiniteSet(B) /\ Cardinality(B) = 2 ^ n
  BY <1>2, <1>7, FS_Bijection
<1>9. Cardinality(A \cup B) = Cardinality(A) + Cardinality(B) - Cardinality(A \cap B)
  <2> HIDE DEF A, B
  <2> QED
    BY <1>2, <1>8, FS_Union
<1>10. Cardinality(A \cap B) = 0
  BY <1>6, FS_EmptySet
<1>11. 2 ^ (n + 1) = 2 ^ n + 2 ^ n - 0
  BY <1>2, <1>3, <1>4, <1>8, <1>9, <1>10
<1>12. 2 ^ n \in Int
  OBVIOUS
<1> QED
  BY <1>11, <1>12

\* Powers of two are positive,
LEMMA PowerPositive == \A n \in Nat : 2 ^ n \in Int /\ 2 ^ n >= 1
<1> DEFINE T == {n \in Nat : ~(2 ^ n >= 1)}
<1>1. \A n \in Nat : 2 ^ n \in Int
  OBVIOUS
<1>2. SUFFICES ASSUME T # {} PROVE FALSE
  BY <1>1
<1> T \in SUBSET Nat
  OBVIOUS
<1>3. PICK n \in T : \A m \in T : n <= m
  BY <1>2, LeastNatural
<1>4. n \in Nat /\ ~(2 ^ n >= 1)
  BY <1>3
<1>5. n # 0
  <2>1. 2 ^ 0 = 1 /\ 1 >= 1
    OBVIOUS
  <2>2. n = 0 => 2 ^ n >= 1
    BY ONLY <2>1, Zenon
  <2> QED
    BY <1>4, <2>2, Zenon
<1> DEFINE p == n - 1
<1>6. p \in Nat /\ p \notin T /\ p + 1 = n
  <2> HIDE DEF T
  <2> QED
    BY <1>3, <1>4, <1>5
<1> HIDE DEF p
<1>7. 2 ^ p \in Int /\ 2 ^ p >= 1
  BY <1>1, <1>6
<1>8. 2 ^ (p + 1) = 2 * 2 ^ p
  BY <1>6, PowerStep
<1> DEFINE x == 2 ^ p
           y == 2 ^ n
<1>9. y = 2 * x /\ x \in Int /\ x >= 1 /\ ~(y >= 1)
  BY <1>4, <1>6, <1>7, <1>8
<1> HIDE DEF x, y
<1> QED
  BY <1>9

\* and grow.
LEMMA PowerGrows == ASSUME NEW m \in Nat PROVE \A d \in Nat : 2 ^ m <= 2 ^ (m + d)
<1> DEFINE T == {d \in Nat : ~(2 ^ m <= 2 ^ (m + d))}
<1>1. SUFFICES ASSUME T # {} PROVE FALSE
  OBVIOUS
<1> T \in SUBSET Nat
  OBVIOUS
<1>2. PICK d \in T : \A e \in T : d <= e
  BY <1>1, LeastNatural
<1>3. d \in Nat /\ ~(2 ^ m <= 2 ^ (m + d))
  BY <1>2
<1>4. d # 0
  <2>1. 2 ^ m \in Int
    BY PowerPositive
  <2>2. d = 0 => m + d = m
    OBVIOUS
  <2> QED
    BY <1>3, <2>1, <2>2
<1> DEFINE p == d - 1
<1>5. p \in Nat /\ p \notin T /\ d = p + 1
  <2> HIDE DEF T
  <2> QED
    BY <1>2, <1>3, <1>4
<1> HIDE DEF p
<1>6. 2 ^ m <= 2 ^ (m + p)
  BY <1>5
<1>7. m + p \in Nat /\ m + d = (m + p) + 1
  BY <1>5
<1>8. 2 ^ (m + d) = 2 * 2 ^ (m + p)
  BY <1>7, PowerStep
<1> DEFINE x == 2 ^ m
           y == 2 ^ (m + p)
           z == 2 ^ (m + d)
<1>9. x \in Int /\ y \in Int /\ y >= 1
  BY <1>7, PowerPositive
<1>10. x <= y /\ z = 2 * y /\ ~(x <= z)
  BY <1>3, <1>6, <1>8
<1> HIDE DEF x, y, z
<1> QED
  BY <1>9, <1>10

\* A digit stands for more than three bits.
LEMMA PowerOfDigit ==
  ASSUME NEW j \in Nat PROVE 2 ^ (3 * (j + 1)) = 8 * 2 ^ (3 * j) /\ 2 ^ (3 * j) \in Int
<1> DEFINE a == 3 * j
           w == 2 ^ a
           x == 2 ^ (a + 1)
           y == 2 ^ (a + 2)
           z == 2 ^ (a + 3)
<1>1. a \in Nat /\ (a + 1) + 1 = a + 2 /\ (a + 2) + 1 = a + 3 /\ 3 * (j + 1) = a + 3
  OBVIOUS
<1> HIDE DEF a
<1>2. x = 2 * w /\ w \in Int
  BY <1>1, PowerStep, PowerPositive
<1>3. y = 2 * x
  <2>1. 2 ^ ((a + 1) + 1) = 2 * 2 ^ (a + 1)
    BY <1>1, PowerStep
  <2> QED
    BY <1>1, <2>1
<1>4. z = 2 * y
  <2>1. 2 ^ ((a + 2) + 1) = 2 * 2 ^ (a + 2)
    BY <1>1, PowerStep
  <2> QED
    BY <1>1, <2>1
<1>5. 2 ^ (3 * (j + 1)) = z
  BY <1>1
<1> HIDE DEF w, x, y, z
<1>6. z = 8 * w
  BY <1>2, <1>3, <1>4
<1> QED
  BY <1>2, <1>5, <1>6 DEF w, a

\* k digits are enough for an integer of 3k bits.
LEMMA DigitsShort ==
  \A k \in Nat : \A v \in Int : k # 0 /\ Abs(v) < 2 ^ (3 * k) => Len(Digits[v]) <= k
<1> DEFINE T == {k \in Nat : k # 0 /\ \E v \in Int : Abs(v) < 2 ^ (3 * k)
                                                     /\ ~(Len(Digits[v]) <= k)}
<1>1. SUFFICES ASSUME T # {} PROVE FALSE
  OBVIOUS
<1> T \in SUBSET Nat
  OBVIOUS
<1>2. PICK k \in T : \A m \in T : k <= m
  BY <1>1, LeastNatural
<1>3. PICK v \in Int : k \in Nat \ {0} /\ Abs(v) < 2 ^ (3 * k) /\ ~(Len(Digits[v]) <= k)
  BY <1>2
<1> DEFINE q == Quotient(v)
           ds == Digits[q]
           d == Zero(Lsd(v))
<1>4. /\ q \in Int /\ Abs(q) \in Nat /\ Abs(v) \in Nat /\ d \in 0 .. 9
      /\ Abs(v) = 10 * Abs(q) + d
  BY Division
<1>5. Digits[v] = (IF q # 0 THEN ds ELSE <<>>) \o <<d>>
  BY DigitsAt DEF Step, More
<1>6. q # 0
  <2>1. Quotient(v) = 0 => Len(<<>> \o <<Zero(Lsd(v))>>) = 1
    BY ShowsOne
  <2>2. q = 0 => Len(Digits[v]) = 1
    BY <1>5, <2>1
  <2>3. k >= 1
    BY <1>3
  <2> HIDE DEF q
  <2>4. q = 0 => Len(Digits[v]) <= k
    BY <1>3, <2>2, <2>3
  <2> QED
    BY <1>3, <2>4, Zenon
<1>7. Shows(ds, q)
  BY <1>4, DigitsShow
<1> HIDE DEF q, ds, d
<1>8. Len(Digits[v]) = Len(ds) + 1 /\ Len(ds) \in Nat
  <2>1. ds \in Seq(0 .. 9) /\ <<d>> \in Seq(0 .. 9) /\ Len(<<d>>) = 1
    BY <1>4, <1>7 DEF Shows
  <2>2. Len(ds \o <<d>>) = Len(ds) + Len(<<d>>)
    BY <2>1, ConcatProperties
  <2> QED
    BY <1>5, <1>6, <2>1, <2>2
<1>9. Abs(q) >= 1
  BY <1>4, <1>6 DEF Abs
<1> DEFINE j == k - 1
<1>10. j \in Nat /\ k = j + 1
  BY <1>3
<1> HIDE DEF j
<1>11. 2 ^ (3 * k) = 8 * 2 ^ (3 * j) /\ 2 ^ (3 * j) \in Int
  BY <1>10, PowerOfDigit
<1>12. Abs(q) < 2 ^ (3 * j)
  <2> DEFINE x == 2 ^ (3 * j)
             a == Abs(q)
             b == Abs(v)
  <2>1. b < 8 * x /\ x \in Int /\ b = 10 * a + d /\ a \in Nat /\ d \in Nat
    BY <1>3, <1>4, <1>11
  <2> HIDE DEF x, a, b
  <2>2. a < x
    BY <2>1
  <2> QED
    BY <2>2 DEF a, x
<1>13. j # 0
  <2> SUFFICES ASSUME j = 0 PROVE FALSE
    OBVIOUS
  <2>1. 3 * j = 0 /\ 2 ^ 0 = 1
    OBVIOUS
  <2>2. 2 ^ (3 * j) = 1
    BY ONLY <2>1, Zenon
  <2>3. Abs(q) < 1
    BY ONLY <1>12, <2>2, Zenon
  <2> QED
    BY <1>4, <1>9, <2>3
<1>14. j \notin T
  <2> HIDE DEF T
  <2> QED
    BY <1>2, <1>3, <1>10
<1>15. Len(ds) <= j
  BY <1>4, <1>10, <1>12, <1>13, <1>14 DEF ds
<1> QED
  BY <1>3, <1>8, <1>10, <1>15

\* The numerals of the widest type are well within kMaxNumericSize.
LEMMA NumeralFits ==
  ASSUME NEW v \in Ints
  PROVE  v \in Int /\ Length(Convert(v)) \in 1 .. 23
<1> DEFINE n == Bits - 1
           x == 2 ^ n
<1>1. n \in Nat /\ 65 - n \in Nat /\ n + (65 - n) = 65
  BY BitsAssumption
<1>2. v \in {-x, 0, x - 1, 2 * x - 1}
  <2>1. n + 1 = Bits
    BY BitsAssumption
  <2>2. 2 ^ (n + 1) = 2 * 2 ^ n
    BY <1>1, PowerStep
  <2>3. 2 ^ Bits = 2 * x
    BY ONLY <2>1, <2>2, Zenon
  <2> QED
    BY <2>3 DEF Ints, SignedInts
<1> HIDE DEF n
<1>3. x \in Int /\ x >= 1
  BY <1>1, PowerPositive
<1>4. x <= 2 ^ 65
  <2>1. 2 ^ n <= 2 ^ (n + (65 - n))
    BY <1>1, PowerGrows
  <2> QED
    BY <1>1, <2>1
<1>5. 2 ^ (65 + 1) = 2 * 2 ^ 65 /\ 2 ^ 65 \in Int /\ 2 ^ 65 >= 1
  BY PowerStep, PowerPositive
<1>6. v \in Int /\ Abs(v) < 2 ^ (3 * 22)
  <2> DEFINE y == 2 ^ 65
             z == 2 ^ (3 * 22)
  <2>1. 65 + 1 = 3 * 22
    OBVIOUS
  <2>2. 2 ^ (3 * 22) = 2 * 2 ^ 65
    BY ONLY <1>5, <2>1, Zenon
  <2>3. y \in Int /\ z = 2 * y /\ x <= y /\ y >= 1
    BY ONLY <1>4, <1>5, <2>2, Zenon
  <2> HIDE DEF x, y, z
  <2>4. v \in Int /\ Abs(v) < z
    BY <1>2, <1>3, <2>3 DEF Abs
  <2> QED
    BY <2>4 DEF z
<1>7. Len(Digits[v]) <= 22
  <2>1. 22 \in Nat /\ 22 # 0
    OBVIOUS
  <2> QED
    BY ONLY <1>6, <2>1, DigitsShort, Zenon
<1>8. Len(Digits[v]) \in Nat \ {0}
  BY <1>6, DigitsShow DEF Shows
<1> DEFINE l == Len(Digits[v])
<1>9. Length(Convert(v)) = l + (IF v < 0 THEN 1 ELSE 0)
  BY DEF Length, Convert
<1>10. l \in Nat \ {0} /\ l <= 22
  BY <1>7, <1>8
<1> HIDE DEF l
<1>11. Length(Convert(v)) \in 1 .. 23
  <2>1. CASE v < 0
    BY <1>9, <1>10, <2>1
  <2>2. CASE ~(v < 0)
    BY <1>9, <1>10, <2>2
  <2> QED
    BY <2>1, <2>2
<1> QED
  BY <1>6, <1>11
----------------------------------------------------------------------------
\* What a line is made of.
Item == ({"time"} \X (Seconds \cup {0})) \cup ({"string"} \X Nat)
          \cup {<<"int", v, Convert(v)>> : v \in Ints} \cup {<<"newline">>}

\* b is a line that begins with the time s.
Begins(b, s) == /\ DOMAIN b = {"text", "cur", "reach"}
                /\ b.text \in Seq(Item) /\ b.text # <<>>
                /\ Head(b.text) = <<"time", s>>

\* Whatever fits or does not, a piece that is streamed leaves the beginning.
LEMMA AppendBegins ==
  ASSUME NEW b, NEW s, Begins(b, s), NEW item \in Item, NEW len
  PROVE  Begins(BufferAppend(b, item, len), s)
<1>1. CASE Avail(b) > len
  <2>1. BufferAppend(b, item, len)
          = [text |-> Append(b.text, item), cur |-> b.cur + len, reach |-> b.cur + len]
    BY <1>1 DEF BufferAppend, Add
  <2>2. /\ Append(b.text, item) \in Seq(Item) /\ Append(b.text, item) # <<>>
        /\ Head(Append(b.text, item)) = Head(b.text)
    BY DEF Begins
  <2> QED
    BY <2>1, <2>2 DEF Begins
<1>2. CASE ~(Avail(b) > len)
  BY <1>2 DEF BufferAppend
<1> QED
  BY <1>1, <1>2

\* So does a string that is streamed,
LEMMA StringBegins ==
  ASSUME NEW b, NEW s, Begins(b, s), NEW len \in Nat
  PROVE  Begins(String(b, len), s)
<1>1. <<"string", len>> \in Item
  BY DEF Item
<1> QED
  BY <1>1, AppendBegins DEF String

\* and an integer.
LEMMA IntegerBegins ==
  ASSUME NEW b, NEW s, Begins(b, s), NEW v \in Ints
  PROVE  Begins(FormatInteger(b, v), s)
<1> DEFINE item == <<"int", v, Convert(v)>>
<1>1. item \in Item
  BY DEF Item
<1>2. CASE RoomForNumber(b)
  <2>1. FormatInteger(b, v)
          = [text |-> Append(b.text, item), cur |-> b.cur + Length(Convert(v)),
             reach |-> b.cur + (Length(Convert(v)) + 1)]
    BY <1>2 DEF FormatInteger, Add
  <2> HIDE DEF item
  <2>2. /\ Append(b.text, item) \in Seq(Item) /\ Append(b.text, item) # <<>>
        /\ Head(Append(b.text, item)) = Head(b.text)
    BY <1>1 DEF Begins
  <2> QED
    BY <2>1, <2>2 DEF Begins
<1>3. CASE ~RoomForNumber(b)
  BY <1>3 DEF FormatInteger
<1> QED
  BY <1>2, <1>3

----------------------------------------------------------------------------
Stages == {"idle", "gmtime", "stamp", "stream", "output"}

\* t_time shows t_lastSecond, except while it is being formatted; from then on
\* both are the second of the line, and the line begins with it.
SecondInv(t) ==
  /\ lastSecond[t] \in Seconds \cup {0} /\ time[t] \in Seconds \cup {0}
  /\ second[t] \in Seconds \cup {0}
  /\ pc[t] \in Stages
  /\ pc[t] # "gmtime" => time[t] = lastSecond[t]
  /\ pc[t] # "idle" => lastSecond[t] = second[t]
  /\ pc[t] \in {"stream", "output"} => Begins(buffer[t], second[t])

FunctionsOK ==
  /\ DOMAIN lastSecond = Threads /\ DOMAIN time = Threads /\ DOMAIN second = Threads
  /\ DOMAIN pc = Threads /\ DOMAIN buffer = Threads /\ DOMAIN level = Threads

Inv == FunctionsOK /\ \A t \in Threads : SecondInv(t)

\* The first piece of every header is the time in t_time: a new buffer has room.
LEMMA HeaderBegins ==
  ASSUME NEW t \in Threads, time[t] \in Seconds \cup {0}
  PROVE  Begins(Header(t), time[t])
<1> DEFINE item == <<"time", time[t]>>
           date == BufferAppend(EmptyBuffer, item, 17)
           lname == IF level[t] = "INFO" THEN 4 ELSE 5
<1>1. item \in Item
  BY DEF Item
<1>2. date = [text |-> Append(<<>>, item), cur |-> 17, reach |-> 17]
  BY DEF BufferAppend, EmptyBuffer, Avail, Add, kSmallBuffer
<1>3. Begins(date, time[t])
  <2>1. ASSUME NEW x \in Item
        PROVE  /\ Append(<<>>, x) \in Seq(Item) /\ Append(<<>>, x) # <<>>
               /\ Head(Append(<<>>, x)) = x
    OBVIOUS
  <2> HIDE DEF item, date
  <2>2. /\ Append(<<>>, item) \in Seq(Item) /\ Append(<<>>, item) # <<>>
        /\ Head(Append(<<>>, item)) = item
    BY <1>1, <2>1
  <2>3. Begins(date, time[t]) <=> /\ date.text \in Seq(Item) /\ date.text # <<>>
                                  /\ Head(date.text) = item
    BY <1>2 DEF Begins, item
  <2> QED
    BY <1>2, <2>2, <2>3
<1>4. lname \in Nat
  OBVIOUS
<1>5. Header(t) = String(String(String(date, 9), 5), lname)
  BY DEF Header, Cache
<1> HIDE DEF item, date, lname
<1>6. Begins(String(String(date, 9), 5), time[t])
  BY <1>3, StringBegins
<1> QED
  BY <1>4, <1>5, <1>6, StringBegins

\* The stamp of a line.
LEMMA StampBegins ==
  ASSUME Inv, NEW t \in Threads, Stamp(t)
  PROVE  \E b : buffer' = [buffer EXCEPT ![t] = b] /\ Begins(b, second[t])
<1> DEFINE h == Header(t)
<1>1. Begins(h, second[t])
  BY HeaderBegins DEF Inv, SecondInv, Stamp
<1>2. PICK b : /\ buffer' = [buffer EXCEPT ![t] = b]
               /\ \/ b = String(String(h, 4), 1)
                  \/ b = h
                  \/ \E errno \in Ints : b = SavedErrno(h, errno)
  BY DEF Stamp, Ints
<1> HIDE DEF h
<1>3. ASSUME NEW errno \in Ints PROVE Begins(SavedErrno(h, errno), second[t])
  <2>1. Begins(String(String(h, 17), 8), second[t])
    BY <1>1, StringBegins
  <2>2. Begins(FormatInteger(String(String(h, 17), 8), errno), second[t])
    BY <2>1, IntegerBegins
  <2> QED
    BY <2>2, StringBegins DEF SavedErrno
<1>4. Begins(String(String(h, 4), 1), second[t])
  BY <1>1, StringBegins
<1> QED
  BY <1>1, <1>2, <1>3, <1>4

\* What the caller streams to a line.
LEMMA StreamBegins ==
  ASSUME Inv, NEW t \in Threads, Stream(t)
  PROVE  \E b : buffer' = [buffer EXCEPT ![t] = b] /\ Begins(b, second[t])
<1>1. Begins(buffer[t], second[t])
  BY DEF Inv, SecondInv, Stream
<1>2. CASE \E v \in Ints : buffer' = [buffer EXCEPT ![t] = FormatInteger(@, v)]
  BY <1>1, <1>2, IntegerBegins
<1>3. CASE \E len \in Lengths : buffer' = [buffer EXCEPT ![t] = String(@, len)]
  BY <1>1, <1>3, StringBegins, LengthsAssumption
<1> QED
  BY <1>2, <1>3 DEF Stream

\* What ends a line.
LEMMA OutputBegins ==
  ASSUME Inv, NEW t \in Threads, Output(t)
  PROVE  \E b : buffer' = [buffer EXCEPT ![t] = b] /\ Begins(b, second[t])
<1>1. Begins(buffer[t], second[t])
  BY DEF Inv, SecondInv, Output
<1>2. PICK line \in Ints : buffer' = [buffer EXCEPT ![t] = Finish(buffer[t], line)]
  BY DEF Output, Ints
<1>3. Begins(String(String(String(buffer[t], 3), 13), 1), second[t])
  <2>1. Begins(String(String(buffer[t], 3), 13), second[t])
    BY <1>1, StringBegins
  <2> QED
    BY <2>1, StringBegins
<1>4. Begins(FormatInteger(String(String(String(buffer[t], 3), 13), 1), line), second[t])
  BY <1>3, IntegerBegins
<1>5. <<"newline">> \in Item
  BY DEF Item
<1>6. Begins(Finish(buffer[t], line), second[t])
  BY <1>4, <1>5, AppendBegins DEF Finish
<1> QED
  BY <1>2, <1>6

\* A step of one thread's Logger keeps the invariant of that thread, and does
\* not touch that of another.
LEMMA SecondInvariant == Inv /\ [Next]_vars => Inv'
<1> SUFFICES ASSUME Inv, [Next]_vars PROVE Inv'
  OBVIOUS
<1>1. CASE UNCHANGED vars
  BY <1>1 DEF vars, Inv, FunctionsOK, SecondInv
<1>2. ASSUME NEW t \in Threads, Construct(t) PROVE Inv'
  <2>1. PICK s \in Seconds :
          /\ second' = [second EXCEPT ![t] = s]
          /\ lastSecond' = [lastSecond EXCEPT ![t] = s]
          /\ pc' = [pc EXCEPT ![t] = IF s # lastSecond[t] THEN "gmtime" ELSE "stamp"]
    BY <1>2 DEF Construct, Cache
  <2>2. pc[t] = "idle" /\ UNCHANGED <<time, buffer>>
    BY <1>2 DEF Construct
  <2>3. FunctionsOK'
    BY <1>2, <2>1, <2>2 DEF Construct, Inv, FunctionsOK
  <2> QED
    BY <2>1, <2>2, <2>3 DEF Inv, FunctionsOK, SecondInv, Stages
<1>3. ASSUME NEW t \in Threads, FormatSecond(t) PROVE Inv'
  BY <1>3 DEF FormatSecond, Cache, Inv, FunctionsOK, SecondInv, Stages
<1>4. ASSUME NEW t \in Threads, Stamp(t) \/ Stream(t) \/ Output(t) PROVE Inv'
  <2>1. PICK b : buffer' = [buffer EXCEPT ![t] = b] /\ Begins(b, second[t])
    BY <1>4, StampBegins, StreamBegins, OutputBegins
  <2>2. /\ UNCHANGED <<lastSecond, time, second, level>>
        /\ pc[t] \in {"stamp", "stream"}
        /\ \/ pc' = pc
           \/ pc' = [pc EXCEPT ![t] = "stream"]
           \/ pc' = [pc EXCEPT ![t] = "output"]
    BY <1>4 DEF Stamp, Stream, Output
  <2> QED
    BY <2>1, <2>2 DEF Inv, FunctionsOK, SecondInv, Stages
<1>5. ASSUME NEW t \in Threads, Destroy(t) PROVE Inv'
  BY <1>5 DEF Destroy, Inv, FunctionsOK, SecondInv, Stages
<1> QED
  BY <1>1, <1>2, <1>3, <1>4, <1>5 DEF Next

\* Every line shows the second its Logger was made in, however many threads log
\* and wherever the clock is set (Impl::formatTime and its __thread variables).
THEOREM LinesShowTheirSecond == Spec => []ShowsItsSecond
<1>1. Init => Inv
  BY DEF Init, Inv, FunctionsOK, SecondInv, Stages
<1>2. Inv => ShowsItsSecond
  BY DEF Inv, SecondInv, ShowsItsSecond, Begins
<1> QED
  BY <1>1, <1>2, SecondInvariant, PTL DEF Spec
----------------------------------------------------------------------------
(* What is in a line, and how much.                                        *)

\* data_ holds kSmallBuffer bytes; the last one is never part of the text.
Line(b) == /\ DOMAIN b = {"text", "cur", "reach"}
           /\ b.text \in Seq(Item)
           /\ b.cur \in 0 .. kSmallBuffer - 1 /\ b.reach \in 0 .. kSmallBuffer

Ended(b) == b.cur < kSmallBuffer - 1 => Last(b.text) = <<"newline">>

LineInv ==
  \A t \in Threads : Line(buffer[t]) /\ (pc[t] = "output" => Ended(buffer[t]))

\* The sizes of a line, as numbers.
LEMMA LineSizes ==
  ASSUME NEW b, Line(b)
  PROVE  /\ b.cur \in Int /\ 0 <= b.cur /\ b.cur <= 3999
         /\ b.reach \in Int /\ 0 <= b.reach /\ b.reach <= 4000
<1>1. b.cur \in 0 .. kSmallBuffer - 1 /\ b.reach \in 0 .. kSmallBuffer
  BY Zenon DEF Line
<1> DEFINE x == b.cur
           y == b.reach
<1>2. x \in 0 .. kSmallBuffer - 1 /\ y \in 0 .. kSmallBuffer
  BY <1>1
<1> HIDE DEF x, y
<1>3. x \in Int /\ 0 <= x /\ x <= 3999 /\ y \in Int /\ 0 <= y /\ y <= 4000
  BY <1>2 DEF kSmallBuffer
<1> QED
  BY <1>3 DEF x, y

\* What is added within the buffer leaves a line, and is the end of it.
LEMMA AddLine ==
  ASSUME NEW b, Line(b), NEW item \in Item, NEW len \in Nat, NEW end \in Nat,
         b.cur + len < kSmallBuffer, b.cur + end <= kSmallBuffer
  PROVE  Line(Add(b, item, len, end)) /\ Last(Add(b, item, len, end).text) = item
<1> DEFINE c == Add(b, item, len, end)
<1>1. c = [text |-> Append(b.text, item), cur |-> b.cur + len, reach |-> b.cur + end]
  BY DEF Add
<1>2. /\ DOMAIN c = {"text", "cur", "reach"} /\ c.text = Append(b.text, item)
      /\ c.cur = b.cur + len /\ c.reach = b.cur + end
  BY <1>1
<1>3. b.text \in Seq(Item)
  BY DEF Line
<1>4. /\ Append(b.text, item) \in Seq(Item)
      /\ Append(b.text, item)[Len(Append(b.text, item))] = item
  BY <1>3
<1>5. b.cur + len \in 0 .. kSmallBuffer - 1 /\ b.cur + end \in 0 .. kSmallBuffer
  <2> DEFINE x == b.cur
  <2>1. x \in Int /\ 0 <= x /\ x + len < kSmallBuffer /\ x + end <= kSmallBuffer
    BY LineSizes
  <2> HIDE DEF x
  <2>2. x + len \in 0 .. kSmallBuffer - 1 /\ x + end \in 0 .. kSmallBuffer
    BY <2>1 DEF kSmallBuffer
  <2> QED
    BY <2>2 DEF x
<1> HIDE DEF c
<1>6. Line(c)
  BY <1>2, <1>4, <1>5 DEF Line
<1>7. Last(c.text) = item
  BY <1>2, <1>4 DEF Last
<1> QED
  BY <1>6, <1>7 DEF c

\* append takes a piece only if it leaves the last byte.
LEMMA AppendLine ==
  ASSUME NEW b, Line(b), NEW item \in Item, NEW len \in Nat
  PROVE  Line(BufferAppend(b, item, len))
<1>1. CASE Avail(b) > len
  <2>1. b.cur + len < kSmallBuffer /\ b.cur + len <= kSmallBuffer
    BY <1>1, LineSizes DEF Avail, kSmallBuffer
  <2>2. Line(Add(b, item, len, len))
    BY <2>1, AddLine
  <2> QED
    BY <1>1, <2>2 DEF BufferAppend
<1>2. CASE ~(Avail(b) > len)
  BY <1>2 DEF BufferAppend
<1> QED
  BY <1>1, <1>2

\* A string is a piece that is appended.
LEMMA StringLine ==
  ASSUME NEW b, Line(b), NEW len \in Nat
  PROVE  Line(String(b, len))
<1>1. <<"string", len>> \in Item
  BY DEF Item
<1> QED
  BY <1>1, AppendLine DEF String

\* A numeral and its NUL fit in the kMaxNumericSize bytes that are left.
LEMMA IntegerLine ==
  ASSUME NEW b, Line(b), NEW v \in Ints
  PROVE  Line(FormatInteger(b, v))
<1> DEFINE item == <<"int", v, Convert(v)>>
           len == Length(Convert(v))
<1>1. item \in Item
  BY DEF Item
<1>2. len \in 1 .. 23
  BY NumeralFits
<1>3. FormatInteger(b, v) = IF RoomForNumber(b) THEN Add(b, item, len, len + 1) ELSE b
  BY DEF FormatInteger
<1> HIDE DEF item, len
<1>4. CASE RoomForNumber(b)
  <2>1. b.cur + len < kSmallBuffer /\ b.cur + (len + 1) <= kSmallBuffer
    BY <1>2, <1>4, LineSizes DEF RoomForNumber, Avail, kSmallBuffer, kMaxNumericSize
  <2>2. len \in Nat /\ len + 1 \in Nat
    BY <1>2
  <2>3. Line(Add(b, item, len, len + 1))
    BY <1>1, <2>1, <2>2, AddLine
  <2> QED
    BY <1>3, <1>4, <2>3
<1>5. CASE ~RoomForNumber(b)
  BY <1>3, <1>5
<1> QED
  BY <1>4, <1>5

\* The newline is left out only if the line is full.
LEMMA FinishLine ==
  ASSUME NEW b, Line(b), NEW v \in Ints
  PROVE  Line(Finish(b, v)) /\ Ended(Finish(b, v))
<1> DEFINE c == FormatInteger(String(String(String(b, 3), 13), 1), v)
           item == <<"newline">>
<1>1. Line(String(String(b, 3), 13))
  BY StringLine
<1>2. Line(String(String(String(b, 3), 13), 1))
  BY <1>1, StringLine
<1>3. Line(c)
  BY <1>2, IntegerLine
<1>4. item \in Item
  BY DEF Item
<1>5. Finish(b, v) = IF Avail(c) > 1 THEN Add(c, item, 1, 1) ELSE c
  BY DEF Finish, BufferAppend
<1>6. item = <<"newline">>
  OBVIOUS
<1> HIDE DEF c, item
<1>7. CASE Avail(c) > 1
  <2>1. c.cur + 1 < kSmallBuffer /\ c.cur + 1 <= kSmallBuffer
    BY <1>3, <1>7, LineSizes DEF Avail, kSmallBuffer
  <2>2. Line(Add(c, item, 1, 1)) /\ Last(Add(c, item, 1, 1).text) = item
    BY <1>3, <1>4, <2>1, AddLine
  <2> QED
    BY <1>5, <1>6, <1>7, <2>2, Zenon DEF Ended
<1>8. CASE ~(Avail(c) > 1)
  <2>1. ~(c.cur < kSmallBuffer - 1)
    BY <1>3, <1>8, LineSizes DEF Avail, kSmallBuffer
  <2> QED
    BY <1>3, <1>5, <1>8, <2>1, Zenon DEF Ended
<1> QED
  BY <1>7, <1>8

\* The buffer of a new Logger.
LEMMA EmptyLine == Line(EmptyBuffer)
BY DEF Line, EmptyBuffer, kSmallBuffer

\* The header of a line.
LEMMA HeaderLine ==
  ASSUME NEW t \in Threads, time[t] \in Seconds \cup {0}
  PROVE  Line(Header(t))
<1> DEFINE item == <<"time", time[t]>>
           date == BufferAppend(EmptyBuffer, item, 17)
           lname == IF level[t] = "INFO" THEN 4 ELSE 5
<1>1. item \in Item
  BY DEF Item
<1>2. lname \in Nat
  OBVIOUS
<1>3. Header(t) = String(String(String(date, 9), 5), lname)
  BY DEF Header, Cache
<1> HIDE DEF item, lname
<1>4. Line(date)
  BY <1>1, EmptyLine, AppendLine
<1> HIDE DEF date
<1>5. Line(String(String(date, 9), 5))
  BY <1>4, StringLine
<1> QED
  BY <1>2, <1>3, <1>5, StringLine

\* What the constructor writes.
LEMMA StampLine ==
  ASSUME Inv, NEW t \in Threads, Stamp(t)
  PROVE  \E b : buffer' = [buffer EXCEPT ![t] = b] /\ Line(b)
<1> DEFINE h == Header(t)
<1>1. Line(h)
  BY HeaderLine DEF Inv, SecondInv
<1>2. PICK b : /\ buffer' = [buffer EXCEPT ![t] = b]
               /\ \/ b = String(String(h, 4), 1)
                  \/ b = h
                  \/ \E errno \in Ints : b = SavedErrno(h, errno)
  BY DEF Stamp, Ints
<1> HIDE DEF h
<1>3. ASSUME NEW errno \in Ints PROVE Line(SavedErrno(h, errno))
  <2>1. Line(String(String(h, 17), 8))
    BY <1>1, StringLine
  <2>2. Line(FormatInteger(String(String(h, 17), 8), errno))
    BY <2>1, IntegerLine
  <2> QED
    BY <2>2, StringLine DEF SavedErrno
<1>4. Line(String(String(h, 4), 1))
  BY <1>1, StringLine
<1> QED
  BY <1>1, <1>2, <1>3, <1>4

\* What the caller streams.
LEMMA StreamLine ==
  ASSUME LineInv, NEW t \in Threads, Stream(t)
  PROVE  \E b : buffer' = [buffer EXCEPT ![t] = b] /\ Line(b)
<1>1. Line(buffer[t])
  BY DEF LineInv
<1>2. CASE \E v \in Ints : buffer' = [buffer EXCEPT ![t] = FormatInteger(@, v)]
  BY <1>1, <1>2, IntegerLine
<1>3. CASE \E len \in Lengths : buffer' = [buffer EXCEPT ![t] = String(@, len)]
  BY <1>1, <1>3, StringLine, LengthsAssumption
<1> QED
  BY <1>2, <1>3 DEF Stream

\* Every step that writes to a line keeps it in its buffer.
LEMMA LineInvariant == Inv /\ LineInv /\ [Next]_vars => LineInv'
<1> SUFFICES ASSUME Inv, LineInv, [Next]_vars PROVE LineInv'
  OBVIOUS
<1>0. DOMAIN buffer = Threads /\ DOMAIN pc = Threads
  BY DEF Inv, FunctionsOK
<1>1. CASE UNCHANGED vars
  BY <1>1 DEF vars, LineInv
<1>2. ASSUME NEW t \in Threads, Construct(t) \/ FormatSecond(t) PROVE LineInv'
  <2>1. UNCHANGED buffer /\ \A u \in Threads : pc'[u] = "output" => pc[u] = "output"
    BY <1>0, <1>2 DEF Construct, FormatSecond
  <2> QED
    BY <2>1 DEF LineInv
<1>3. ASSUME NEW t \in Threads, Stamp(t) \/ Stream(t) PROVE LineInv'
  <2>1. PICK b : buffer' = [buffer EXCEPT ![t] = b] /\ Line(b)
    BY <1>3, StampLine, StreamLine
  <2>2. pc'[t] # "output" /\ \A u \in Threads \ {t} : pc'[u] = pc[u]
    BY <1>0, <1>3 DEF Stamp, Stream
  <2> QED
    BY <1>0, <2>1, <2>2 DEF LineInv
<1>4. ASSUME NEW t \in Threads, Output(t) PROVE LineInv'
  <2>1. PICK line \in Ints : buffer' = [buffer EXCEPT ![t] = Finish(buffer[t], line)]
    BY <1>4 DEF Output, Ints
  <2>2. Line(Finish(buffer[t], line)) /\ Ended(Finish(buffer[t], line))
    BY FinishLine DEF LineInv
  <2>3. \A u \in Threads \ {t} : pc'[u] = pc[u]
    BY <1>0, <1>4 DEF Output
  <2> QED
    BY <1>0, <2>1, <2>2, <2>3 DEF LineInv
<1>5. ASSUME NEW t \in Threads, Destroy(t) PROVE LineInv'
  <2>1. pc'[t] # "output" /\ \A u \in Threads \ {t} : pc'[u] = pc[u]
    BY <1>0, <1>5 DEF Destroy
  <2>2. buffer' = [buffer EXCEPT ![t] = EmptyBuffer]
    BY <1>5 DEF Destroy
  <2> QED
    BY <1>0, <2>1, <2>2, EmptyLine DEF LineInv
<1> QED
  BY <1>1, <1>2, <1>3, <1>4, <1>5 DEF Next

\* The invariant holds in every state.
LEMMA LineInvAlways == Spec => []LineInv
<1>1. Init => Inv
  BY DEF Init, Inv, FunctionsOK, SecondInv, Stages
<1>2. Init => LineInv
  <2>1. Init => \A t \in Threads : buffer[t] = EmptyBuffer /\ pc[t] = "idle"
    BY DEF Init
  <2> QED
    BY <2>1, EmptyLine DEF LineInv
<1> QED
  BY <1>1, <1>2, SecondInvariant, LineInvariant, PTL DEF Spec

\* However much is streamed to it, no line leaves its buffer of kSmallBuffer
\* bytes, the NUL of convert included, and one with room for it ends in a
\* newline: for every integer type and strings of any length (FixedBuffer,
\* LogStream::formatInteger, Impl::finish).
THEOREM LinesStayInBuffer == Spec => []LineInBuffer
<1>1. LineInv => LineInBuffer
  <2> SUFFICES ASSUME LineInv, NEW t \in Threads
               PROVE  /\ buffer[t].reach <= kSmallBuffer
                      /\ pc[t] = "output" /\ buffer[t].cur < kSmallBuffer - 1
                           => Last(buffer[t].text) = <<"newline">>
    BY Zenon DEF LineInBuffer
  <2>1. buffer[t].reach <= kSmallBuffer
    BY LineSizes DEF LineInv, kSmallBuffer
  <2>2. pc[t] = "output" => Ended(buffer[t])
    BY DEF LineInv
  <2> QED
    BY <2>1, <2>2, Zenon DEF Ended
<1> QED
  BY <1>1, LineInvAlways, PTL

\* Every integer is shown by the digits that stand for it, without leading
\* zeros: whatever its width, the smallest one of its type and 0 included, where
\* the loop of convert works on negative remainders (convert).
THEOREM IntegersAreShown == Spec => []NumeralsRight
<1>1. LineInv => NumeralsRight
  <2> SUFFICES ASSUME LineInv, NEW t \in Threads, NEW k \in DOMAIN buffer[t].text,
                      NEW item, item = buffer[t].text[k], Head(item) = "int"
               PROVE  /\ ValueOf(item[3]) = item[2]
                      /\ Len(item[3].digits) > 1 => Head(item[3].digits) # 0
    BY Zenon DEF NumeralsRight
  <2>1. buffer[t].text \in Seq(Item)
    BY DEF LineInv, Line
  <2>2. item \in Item
    BY <2>1
  <2>3. PICK v \in Ints : item = <<"int", v, Convert(v)>>
    BY <2>2 DEF Item
  <2>4. item[2] = v /\ item[3] = Convert(v) /\ v \in Int
    BY <2>3, NumeralFits
  <2> QED
    BY <2>4, ConvertShows
<1> QED
  BY <1>1, LineInvAlways, PTL
=============================================================================
