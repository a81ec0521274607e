------------------------------ MODULE MrzProofs ------------------------------
(* Theorems about Mrz: what a misread character can do to a line and to the *)
(* issue date, for every passport of the form that PassportAssumption       *)
(* states and every date.                                                   *)
EXTENDS Mrz, TLAPS, FiniteSetTheorems, SequenceTheorems, WellFoundedInduction

(********************************* Sums ************************************)

LEMMA LeastNumber ==
    ASSUME NEW T \in SUBSET Nat, T # {} PROVE \E x \in T : \A y \in T : x <= y
<1> DEFINE R == {p \in Nat \X Nat : p[1] < p[2]}
<1>1. IsWellFoundedOn(R, Nat)
  BY NatLessThanWellFounded DEF OpToRel
<1> HIDE DEF R
<1>2. PICK x \in T : \A y \in T : <<y, x>> \notin R
  BY <1>1, WFMin
<1>3. \A y \in T : ~(y < x)
  BY <1>2 DEF R
<1> QED
  BY <1>3

LEMMA Smaller ==
    ASSUME NEW D, IsFiniteSet(D), NEW s \in SUBSET D
    PROVE  /\ IsFiniteSet(s) /\ Cardinality(s) \in Nat
           /\ \A x \in s : s \ {x} \in SUBSET D /\ Cardinality(s \ {x}) = Cardinality(s) - 1
<1>1. IsFiniteSet(s)
  BY FS_Subset
<1>2. Cardinality(s) \in Nat
  BY <1>1, FS_CardinalityType
<1>3. \A x \in s : Cardinality(s \ {x}) = Cardinality(s) - 1
  BY <1>1, FS_RemoveElement
<1> QED
  BY <1>1, <1>2, <1>3

\* One of the sets has the fewest elements.
LEMMA SmallestSet ==
    ASSUME NEW D, IsFiniteSet(D), NEW B \in SUBSET (SUBSET D), B # {}
    PROVE  \E s \in B : \A x \in s : s \ {x} \notin B
<1> DEFINE T == {Cardinality(s) : s \in B}
<1>1. T \in SUBSET Nat /\ T # {}
  BY Smaller
<1>2. PICK n \in T : \A m \in T : n <= m
  <2> HIDE DEF T
  <2> QED
    BY <1>1, LeastNumber
<1>3. PICK s \in B : n = Cardinality(s)
  BY <1>2
<1>4. \A x \in s : s \ {x} \notin B
  <2> SUFFICES ASSUME NEW x \in s, s \ {x} \in B PROVE FALSE
    OBVIOUS
  <2>1. Cardinality(s) \in Nat /\ Cardinality(s \ {x}) = Cardinality(s) - 1
    BY Smaller
  <2>2. Cardinality(s \ {x}) \in T
    OBVIOUS
  <2>3. n <= Cardinality(s \ {x})
    BY <1>2, <2>2
  <2> QED
    BY <1>3, <2>1, <2>3
<1> QED
  BY <1>4

Some(s) == CHOOSE x \in s : TRUE

\* The sums of the subsets of D, as the fold makes them.
Adds(it, f, D) ==
    /\ it \in [SUBSET D -> Int] /\ it[{}] = 0
    /\ \A s \in SUBSET D : s # {} => it[s] = f[Some(s)] + it[s \ {Some(s)}]

UpTo(D, k) == {s \in SUBSET D : Cardinality(s) <= k}
AddsUpTo(it, f, D, k) ==
    /\ it \in [UpTo(D, k) -> Int] /\ it[{}] = 0
    /\ \A s \in UpTo(D, k) : s # {} => it[s] = f[Some(s)] + it[s \ {Some(s)}]

LEMMA SumsUpTo ==
    ASSUME NEW D, IsFiniteSet(D), NEW f \in [D -> Int], NEW n \in Nat
    PROVE  \E it : AddsUpTo(it, f, D, n)
<1> DEFINE Bad == {k \in Nat : ~ \E it : AddsUpTo(it, f, D, k)}
<1> SUFFICES ASSUME Bad # {} PROVE FALSE
  OBVIOUS
<1>1. PICK k \in Bad : \A m \in Bad : k <= m
  <2>1. Bad \in SUBSET Nat
    OBVIOUS
  <2> HIDE DEF Bad
  <2> QED
    BY <2>1, LeastNumber
<1>2. k \in Nat /\ ~ \E it : AddsUpTo(it, f, D, k)
  BY <1>1
<1>3. Cardinality({}) = 0 /\ {} \in SUBSET D
  BY FS_EmptySet
<1>4. CASE k = 0
  <2> DEFINE it == [s \in UpTo(D, 0) |-> 0]
  <2>1. \A s \in UpTo(D, 0) : s = {}
    <3> SUFFICES ASSUME NEW s \in UpTo(D, 0) PROVE s = {}
      OBVIOUS
    <3>1. IsFiniteSet(s) /\ Cardinality(s) \in Nat /\ Cardinality(s) <= 0
      BY Smaller DEF UpTo
    <3> QED
      BY <3>1, FS_EmptySet
  <2>2. {} \in UpTo(D, 0)
    BY <1>3 DEF UpTo
  <2>3. it \in [UpTo(D, 0) -> Int] /\ it[{}] = 0
    BY <2>2
  <2>4. AddsUpTo(it, f, D, 0)
    BY <2>1, <2>3 DEF AddsUpTo
  <2> QED
    BY <1>2, <1>4, <2>4
<1>5. CASE k # 0
  <2>1. k - 1 \in Nat
    BY <1>2, <1>5
  <2>2. k - 1 \notin Bad
    <3> HIDE DEF Bad
    <3> QED
      BY <1>1, <1>2, <2>1
  <2>3. PICK g : AddsUpTo(g, f, D, k - 1)
    BY <2>1, <2>2
  <2> DEFINE it == [s \in UpTo(D, k) |-> IF s = {} THEN 0
                                         ELSE f[Some(s)] + g[s \ {Some(s)}]]
  <2>4. \A s \in UpTo(D, k) : s # {} =>
            /\ Some(s) \in s /\ Some(s) \in D
            /\ s \ {Some(s)} \in UpTo(D, k - 1) /\ s \ {Some(s)} \in UpTo(D, k)
    <3> SUFFICES ASSUME NEW s \in UpTo(D, k), s # {}
                 PROVE  /\ Some(s) \in s /\ Some(s) \in D
                        /\ s \ {Some(s)} \in UpTo(D, k - 1) /\ s \ {Some(s)} \in UpTo(D, k)
      OBVIOUS
    <3>1. s \in SUBSET D /\ Cardinality(s) <= k
      BY DEF UpTo
    <3>2. Some(s) \in s
      BY DEF Some
    <3>3. /\ Cardinality(s) \in Nat /\ s \ {Some(s)} \in SUBSET D
          /\ Cardinality(s \ {Some(s)}) = Cardinality(s) - 1
      BY <3>1, <3>2, Smaller
    <3> QED
      BY <1>2, <3>1, <3>2, <3>3 DEF UpTo
  <2>5. {} \in UpTo(D, k) /\ {} \in UpTo(D, k - 1)
    BY <1>2, <1>3, <2>1 DEF UpTo
  <2>6. /\ g \in [UpTo(D, k - 1) -> Int] /\ g[{}] = 0
        /\ \A s \in UpTo(D, k - 1) : s # {} => g[s] = f[Some(s)] + g[s \ {Some(s)}]
    BY <2>3 DEF AddsUpTo
  <2>7. \A s \in UpTo(D, k) : s # {} => f[Some(s)] + g[s \ {Some(s)}] \in Int
    BY <2>4, <2>6
  <2>8. it \in [UpTo(D, k) -> Int] /\ it[{}] = 0
    BY <2>5, <2>7
  <2>9. \A s \in UpTo(D, k) : s # {} => it[s] = f[Some(s)] + g[s \ {Some(s)}]
    OBVIOUS
  <2>10. \A s \in UpTo(D, k - 1) : s \in UpTo(D, k)
    BY <1>2, Smaller DEF UpTo
  <2> HIDE DEF it
  <2>11. \A s \in UpTo(D, k - 1) : it[s] = g[s]
    BY <2>6, <2>8, <2>9, <2>10
  <2>12. AddsUpTo(it, f, D, k)
    BY <2>4, <2>8, <2>9, <2>11 DEF AddsUpTo
  <2> QED
    BY <1>2, <2>12
<1> QED
  BY <1>4, <1>5

\* There is one way to add.
LEMMA SumExists ==
    ASSUME NEW D, IsFiniteSet(D), NEW f \in [D -> Int]
    PROVE  \E it : Adds(it, f, D) /\ SumFunction(f) = it[D]
<1> DEFINE n == Cardinality(D)
           Fold(h) == [s \in SUBSET D |-> IF s = {} THEN 0
                                          ELSE f[CHOOSE x \in s : TRUE]
                                               + h[s \ {CHOOSE x \in s : TRUE}]]
           g == CHOOSE h : h = Fold(h)
<1>1. SumFunction(f) = g[D]
  BY DEF SumFunction, SumFunctionOnSet, FoldFunctionOnSet, MapThenFoldSet
<1>2. n \in Nat
  BY FS_CardinalityType
<1>3. UpTo(D, n) = SUBSET D
  <2>1. \A s \in SUBSET D : Cardinality(s) <= n
    BY FS_Subset
  <2> QED
    BY <2>1 DEF UpTo
<1>4. PICK it : Adds(it, f, D)
  <2>1. PICK h : AddsUpTo(h, f, D, n)
    BY <1>2, SumsUpTo
  <2> QED
    BY <1>3, <2>1 DEF Adds, AddsUpTo
<1>5. it = Fold(it)
  <2>1. it = [s \in SUBSET D |-> it[s]]
    BY <1>4 DEF Adds
  <2>2. \A s \in SUBSET D : it[s] = IF s = {} THEN 0
                                    ELSE f[CHOOSE x \in s : TRUE]
                                         + it[s \ {CHOOSE x \in s : TRUE}]
    BY <1>4 DEF Adds, Some
  <2> QED
    BY <2>1, <2>2, Zenon
<1>6. g = Fold(g)
  BY <1>5
<1> HIDE DEF g
<1>7. \A s \in SUBSET D : g[s] = IF s = {} THEN 0 ELSE f[Some(s)] + g[s \ {Some(s)}]
  BY <1>6 DEF Some
<1> DEFINE Bad == {s \in SUBSET D : g[s] # it[s]}
<1>8. Bad = {}
  <2> SUFFICES ASSUME Bad # {} PROVE FALSE
    OBVIOUS
  <2>1. PICK s \in Bad : \A x \in s : s \ {x} \notin Bad
    <3>1. Bad \in SUBSET (SUBSET D)
      OBVIOUS
    <3> HIDE DEF Bad
    <3> QED
      BY <3>1, SmallestSet
  <2>2. s \in SUBSET D /\ g[s] # it[s]
    BY <2>1
  <2>3. s # {}
    BY <1>4, <1>7, <2>2 DEF Adds
  <2>4. Some(s) \in s
    BY <2>3 DEF Some
  <2>5. s \ {Some(s)} \in SUBSET D /\ s \ {Some(s)} \notin Bad
    BY <2>1, <2>2, <2>4
  <2>6. g[s \ {Some(s)}] = it[s \ {Some(s)}]
    BY <2>5
  <2>7. g[s] = f[Some(s)] + g[s \ {Some(s)}] /\ it[s] = f[Some(s)] + it[s \ {Some(s)}]
    BY <1>4, <1>7, <2>2, <2>3 DEF Adds
  <2> QED
    BY <2>2, <2>6, <2>7
<1>9. g[D] = it[D]
  BY <1>8
<1> QED
  BY <1>1, <1>4, <1>9

\* Any element may be added last.
AddsAny(it, f, D) == \A s \in SUBSET D : \A y \in s : it[s] = f[y] + it[s \ {y}]

LEMMA AnyLast ==
    ASSUME NEW D, IsFiniteSet(D), NEW f \in [D -> Int], NEW it, Adds(it, f, D)
    PROVE  AddsAny(it, f, D)
<1> DEFINE Bad == {s \in SUBSET D : \E y \in s : it[s] # f[y] + it[s \ {y}]}
<1> SUFFICES ASSUME Bad # {} PROVE FALSE
  BY DEF AddsAny
<1>1. PICK s \in Bad : \A x \in s : s \ {x} \notin Bad
  <2>1. Bad \in SUBSET (SUBSET D)
    OBVIOUS
  <2> HIDE DEF Bad
  <2> QED
    BY <2>1, SmallestSet
<1>2. s \in SUBSET D
  BY <1>1
<1>3. PICK y \in s : it[s] # f[y] + it[s \ {y}]
  BY <1>1
<1>4. PICK x \in s : it[s] = f[x] + it[s \ {x}]
  BY <1>2, <1>3 DEF Adds, Some
<1>5. x # y
  BY <1>3, <1>4
<1>6. /\ s \ {x} \in SUBSET D /\ s \ {y} \in SUBSET D
      /\ y \in s \ {x} /\ x \in s \ {y} /\ (s \ {x}) \ {y} = (s \ {y}) \ {x}
      /\ (s \ {x}) \ {y} \in SUBSET D
  BY <1>2, <1>5
<1>7. /\ it[s \ {x}] = f[y] + it[(s \ {x}) \ {y}]
      /\ it[s \ {y}] = f[x] + it[(s \ {y}) \ {x}]
  BY <1>1, <1>6
<1>8. /\ f[x] \in Int /\ f[y] \in Int /\ it[(s \ {x}) \ {y}] \in Int
      /\ it[s \ {y}] \in Int /\ it[s] \in Int
  BY <1>2, <1>6 DEF Adds
<1>9. PICK a \in Int, b \in Int, r \in Int :
          a = f[x] /\ b = f[y] /\ r = it[(s \ {x}) \ {y}]
  BY <1>8
<1>10. it[s \ {x}] = b + r /\ it[s \ {y}] = a + r
  BY <1>6, <1>7, <1>9
<1>11. it[s] = a + (b + r) /\ it[s] # b + (a + r)
  BY <1>3, <1>4, <1>9, <1>10
<1> QED
  BY <1>9, <1>11

\* The sum is of what is under one element and a rest.
Alike(f, g, D, i) ==
    /\ IsFiniteSet(D) /\ i \in D /\ f \in [D -> Int] /\ g \in [D -> Int]
    /\ \A x \in D \ {i} : f[x] = g[x]

LEMMA OneApart ==
    ASSUME NEW D, NEW i, NEW f, NEW g, Alike(f, g, D, i)
    PROVE  \E r \in Int : SumFunction(f) = f[i] + r /\ SumFunction(g) = g[i] + r
<1>0. /\ IsFiniteSet(D) /\ i \in D /\ f \in [D -> Int] /\ g \in [D -> Int]
      /\ \A x \in D \ {i} : f[x] = g[x]
  BY DEF Alike
<1>1. PICK F : Adds(F, f, D) /\ SumFunction(f) = F[D]
  BY <1>0, SumExists
<1>2. PICK G : Adds(G, g, D) /\ SumFunction(g) = G[D]
  BY <1>0, SumExists
<1> DEFINE Rest == D \ {i}
           Bad == {s \in SUBSET Rest : F[s] # G[s]}
<1>3. Bad = {}
  <2> SUFFICES ASSUME Bad # {} PROVE FALSE
    OBVIOUS
  <2>1. PICK s \in Bad : \A x \in s : s \ {x} \notin Bad
    <3>1. Bad \in SUBSET (SUBSET D)
      OBVIOUS
    <3> HIDE DEF Bad
    <3> QED
      BY <1>0, <3>1, SmallestSet
  <2>2. s \in SUBSET Rest /\ s \in SUBSET D /\ F[s] # G[s]
    BY <2>1
  <2>3. s # {}
    BY <1>1, <1>2, <2>2 DEF Adds
  <2>4. Some(s) \in s
    BY <2>3 DEF Some
  <2>5. s \ {Some(s)} \in SUBSET Rest /\ f[Some(s)] = g[Some(s)]
    BY <1>0, <2>2, <2>4
  <2>6. F[s \ {Some(s)}] = G[s \ {Some(s)}]
    BY <2>1, <2>4, <2>5
  <2>7. F[s] = f[Some(s)] + F[s \ {Some(s)}] /\ G[s] = g[Some(s)] + G[s \ {Some(s)}]
    BY <1>1, <1>2, <2>2, <2>3 DEF Adds
  <2> QED
    BY <2>2, <2>5, <2>6, <2>7
<1>4. F[Rest] = G[Rest] /\ F[Rest] \in Int
  BY <1>1, <1>3 DEF Adds
<1>5. F[D] = f[i] + F[Rest] /\ G[D] = g[i] + G[Rest]
  <2>1. AddsAny(F, f, D)
    BY <1>0, <1>1, AnyLast
  <2>2. AddsAny(G, g, D)
    BY <1>0, <1>2, AnyLast
  <2> HIDE DEF Bad
  <2> QED
    BY <1>0, <2>1, <2>2 DEF AddsAny
<1> QED
  BY <1>1, <1>2, <1>4, <1>5

LEMMA SixSum ==
    ASSUME NEW f \in [1..6 -> Int]
    PROVE  SumFunction(f) = f[1] + f[2] + f[3] + f[4] + f[5] + f[6]
<1>1. IsFiniteSet(1..6)
  <2>1. 1 \in Int /\ 6 \in Int
    OBVIOUS
  <2> QED
    BY <2>1, FS_Interval, Zenon
<1>2. PICK F : Adds(F, f, 1..6) /\ SumFunction(f) = F[1..6]
  BY <1>1, SumExists
<1>3. \A k \in 1..6 : F[1..k] = f[k] + F[1..(k - 1)]
  <2>0. AddsAny(F, f, 1..6)
    BY <1>1, <1>2, AnyLast
  <2> SUFFICES ASSUME NEW k \in 1..6 PROVE F[1..k] = f[k] + F[1..(k - 1)]
    OBVIOUS
  <2>1. 1..k \in SUBSET (1..6) /\ k \in 1..k /\ (1..k) \ {k} = 1..(k - 1)
    OBVIOUS
  <2> QED
    BY <2>0, <2>1 DEF AddsAny
<1>4. F[1..0] = 0
  <2>1. 1..0 = {}
    OBVIOUS
  <2> QED
    BY <1>2, <2>1 DEF Adds
<1>5. /\ F[1..1] = f[1] + F[1..0] /\ F[1..2] = f[2] + F[1..1] /\ F[1..3] = f[3] + F[1..2]
      /\ F[1..4] = f[4] + F[1..3] /\ F[1..5] = f[5] + F[1..4] /\ F[1..6] = f[6] + F[1..5]
  <2>1. 1 - 1 = 0 /\ 2 - 1 = 1 /\ 3 - 1 = 2 /\ 4 - 1 = 3 /\ 5 - 1 = 4 /\ 6 - 1 = 5
    OBVIOUS
  <2> QED
    BY <1>3, <2>1
<1> QED
  BY <1>2, <1>4, <1>5

(********************************* Dates ***********************************)

Decimal == 0..9

LEMMA NumberIs ==
    ASSUME NEW d \in [1..6 -> Int]
    PROVE  Number(d) = d[1] * 100000 + d[2] * 10000 + d[3] * 1000
                       + d[4] * 100 + d[5] * 10 + d[6]
<1> DEFINE f == [i \in 1..6 |-> d[i] * 10 ^ (6 - i)]
<1>1. /\ f[1] = d[1] * 100000 /\ f[2] = d[2] * 10000 /\ f[3] = d[3] * 1000
      /\ f[4] = d[4] * 100 /\ f[5] = d[5] * 10 /\ f[6] = d[6]
  OBVIOUS
<1>2. f \in [1..6 -> Int]
  <2>1. \A i \in 1..6 : i = 1 \/ i = 2 \/ i = 3 \/ i = 4 \/ i = 5 \/ i = 6
    OBVIOUS
  <2>2. \A i \in 1..6 : f[i] \in Int
    <3> HIDE DEF f
    <3> QED
      BY <1>1, <2>1
  <2> QED
    BY <2>2
<1>3. Number(d) = SumFunction(f)
  BY DEF Number
<1> HIDE DEF f
<1> QED
  BY <1>1, <1>2, <1>3, SixSum

\* Tenths of a number, one after the other.
LEMMA TenthOfTenth ==
    ASSUME NEW n \in Nat
    PROVE  /\ n \div 100 = (n \div 10) \div 10 /\ n \div 1000 = (n \div 100) \div 10
           /\ n \div 10000 = (n \div 1000) \div 10
           /\ n \div 100000 = (n \div 10000) \div 10
<1>1. n \div 100 = (n \div 10) \div 10
  BY SMT
<1>2. n \div 1000 = (n \div 100) \div 10
  BY SMT
<1>3. n \div 10000 = (n \div 1000) \div 10
  BY SMT
<1>4. n \div 100000 = (n \div 10000) \div 10
  BY SMT
<1> QED
  BY <1>1, <1>2, <1>3, <1>4

LEMMA LastDigits ==
    ASSUME NEW c \in Nat, NEW k \in Nat
    PROVE  /\ k < 100 => (c * 100 + k) % 100 = k
           /\ k < 10000 => (c * 10000 + k) % 10000 = k /\ (c * 10000 + k) \div 10000 = c
<1>1. k < 100 => (c * 100 + k) % 100 = k
  BY SMT
<1>2. k < 10000 => (c * 10000 + k) % 10000 = k
  BY SMT
<1>3. k < 10000 => (c * 10000 + k) \div 10000 = c
  BY SMT
<1> QED
  BY <1>1, <1>2, <1>3

LEMMA TenAndRest ==
    ASSUME NEW n \in Nat
    PROVE  n \div 10 \in Nat /\ n % 10 \in Decimal /\ n = (n \div 10) * 10 + (n % 10)
<1>1. n \div 10 \in Nat /\ n % 10 \in 0..9
  BY SMT
<1>2. n = (n \div 10) * 10 + (n % 10)
  BY SMT
<1> QED
  BY <1>1, <1>2 DEF Decimal

LEMMA DigitsOf ==
    ASSUME NEW date \in Nat
    PROVE  /\ Digits(date) \in [1..6 -> Decimal]
           /\ Number(Digits(date)) \div 10000 = Year(date) % 100
           /\ Number(Digits(date)) % 10000 = date % 10000
           /\ date = Year(date) * 10000 + (date % 10000) /\ Year(date) \in Nat
<1> DEFINE d == Digits(date)
<1>1. /\ d[1] = (date \div 100000) % 10 /\ d[2] = (date \div 10000) % 10
      /\ d[3] = (date \div 1000) % 10 /\ d[4] = (date \div 100) % 10
      /\ d[5] = (date \div 10) % 10 /\ d[6] = date % 10
  BY DEF Digits
<1>2. PICK a \in Nat, b \in Nat, c \in Nat, y \in Nat, h \in Nat, g \in Nat :
          /\ a = date \div 10 /\ b = date \div 100 /\ c = date \div 1000
          /\ y = date \div 10000 /\ h = date \div 100000 /\ g = h \div 10
          /\ b = a \div 10 /\ c = b \div 10 /\ y = c \div 10 /\ h = y \div 10
  BY TenthOfTenth, TenAndRest
<1>3. d[1] = h % 10 /\ d[2] = y % 10 /\ d[3] = c % 10 /\ d[4] = b % 10 /\ d[5] = a % 10
  BY <1>1, <1>2
<1>4. d \in [1..6 -> Decimal]
  <2>1. /\ d[1] \in Decimal /\ d[2] \in Decimal /\ d[3] \in Decimal
        /\ d[4] \in Decimal /\ d[5] \in Decimal /\ d[6] \in Decimal
    BY <1>1, <1>2, <1>3, TenAndRest
  <2>2. \A i \in 1..6 : i = 1 \/ i = 2 \/ i = 3 \/ i = 4 \/ i = 5 \/ i = 6
    OBVIOUS
  <2>3. d = [i \in 1..6 |-> d[i]]
    BY DEF Digits
  <2> HIDE DEF d
  <2> QED
    BY <2>1, <2>2, <2>3
<1> HIDE DEF d
<1>5. PICK d1 \in Decimal, d2 \in Decimal, d3 \in Decimal, d4 \in Decimal,
           d5 \in Decimal, d6 \in Decimal :
          d1 = d[1] /\ d2 = d[2] /\ d3 = d[3] /\ d4 = d[4] /\ d5 = d[5] /\ d6 = d[6]
  BY <1>4
<1>6. /\ date = a * 10 + d6 /\ a = b * 10 + d5 /\ b = c * 10 + d4 /\ c = y * 10 + d3
      /\ y = h * 10 + d2 /\ h = g * 10 + d1
  BY <1>1, <1>2, <1>3, <1>5, TenAndRest
<1>7. PICK mmdd \in Nat, yy \in Nat :
          /\ mmdd = d3 * 1000 + d4 * 100 + d5 * 10 + d6 /\ mmdd < 10000
          /\ yy = d1 * 10 + d2 /\ yy < 100
  <2>1. /\ d3 * 1000 + d4 * 100 + d5 * 10 + d6 \in Nat
        /\ d3 * 1000 + d4 * 100 + d5 * 10 + d6 < 10000
    BY SMT DEF Decimal
  <2>2. d1 * 10 + d2 \in Nat /\ d1 * 10 + d2 < 100
    BY SMT DEF Decimal
  <2> QED
    BY <2>1, <2>2
<1>8. date = y * 10000 + mmdd /\ y = g * 100 + yy
  <2>1. /\ d1 \in Int /\ d2 \in Int /\ d3 \in Int /\ d4 \in Int /\ d5 \in Int /\ d6 \in Int
    BY DEF Decimal
  <2>2. y = g * 100 + yy
    BY <1>6, <1>7, <2>1
  <2>3. b = y * 100 + d3 * 10 + d4
    BY <1>6, <2>1
  <2>4. date = b * 100 + d5 * 10 + d6
    BY <1>6, <2>1
  <2> QED
    BY <1>7, <2>1, <2>2, <2>3, <2>4
<1>9. date % 10000 = mmdd /\ y % 100 = yy
  BY <1>7, <1>8, LastDigits
<1>10. Number(d) = yy * 10000 + mmdd
  <2>1. Number(d) = d1 * 100000 + d2 * 10000 + d3 * 1000 + d4 * 100 + d5 * 10 + d6
    <3>1. d \in [1..6 -> Int]
      BY <1>4 DEF Decimal
    <3> QED
      BY <1>5, <3>1, NumberIs
  <2> QED
    BY <1>5, <1>7, <2>1 DEF Decimal
<1>11. Number(d) \div 10000 = yy /\ Number(d) % 10000 = mmdd
  BY <1>7, <1>10, LastDigits
<1>12. Year(date) = y
  BY <1>2 DEF Year
<1>13. date = y * 10000 + (date % 10000) /\ y \in Nat
  BY <1>8, <1>9
<1> QED
  BY <1>4, <1>9, <1>11, <1>12, <1>13 DEF d

Born(date) ==
    /\ date \in Nat /\ IsDate(date) /\ Year(Today) \in 2000..2099
    /\ Year(date) \in Year(Today) - 99..Year(Today)
Expires(date) == date \in Nat /\ IsDate(date) /\ Year(date) \in 2000..2099

LEMMA BirthYear ==
    ASSUME NEW date, Born(date) PROVE Completed(Digits(date), TRUE) = Year(date)
<1>0. /\ date \in Nat /\ Year(Today) \in 2000..2099
      /\ Year(date) \in Year(Today) - 99..Year(Today)
  BY DEF Born
<1>1. PICK y \in Nat, t \in Nat : y = Year(date) /\ t = Year(Today)
  <2>1. Year(date) \in Nat
    BY <1>0, DigitsOf
  <2>2. Year(Today) \in Nat
    BY <1>0
  <2> QED
    BY <2>1, <2>2
<1>2. PICK yy \in 0..99, c \in Nat : yy = y % 100 /\ y = c * 100 + yy
  BY SMT
<1>3. t \in 2000..2099 /\ y \in t - 99..t
  BY <1>0, <1>1
<1>4. (IF 2000 + yy > t THEN (2000 + yy) - 100 ELSE 2000 + yy) = y
  BY <1>2, <1>3
<1>5. Number(Digits(date)) \div 10000 = yy
  BY <1>0, <1>1, <1>2, DigitsOf
<1> QED
  BY <1>1, <1>4, <1>5 DEF Completed

LEMMA ExpiryYear ==
    ASSUME NEW date, Expires(date) PROVE Completed(Digits(date), FALSE) = Year(date)
<1>0. date \in Nat /\ Year(date) \in 2000..2099
  BY DEF Expires
<1>1. PICK y \in Nat : y = Year(date)
  BY <1>0, DigitsOf
<1>2. y \in 2000..2099 /\ 2000 + (y % 100) = y
  BY <1>0, <1>1
<1>3. Number(Digits(date)) \div 10000 = y % 100
  BY <1>0, <1>1, DigitsOf
<1> QED
  BY <1>1, <1>2, <1>3 DEF Completed

LEMMA DateIsRead ==
    ASSUME NEW date \in Nat, IsDate(date)
    PROVE  /\ Completed(Digits(date), TRUE) = Year(date)
              => DateValue(Digits(date), TRUE) = date
           /\ Completed(Digits(date), FALSE) = Year(date)
              => DateValue(Digits(date), FALSE) = date
           /\ date # NoDate
<1>1. \A i \in 1..6 : IsDigit(Digits(date)[i])
  <2>1. Digits(date) \in [1..6 -> Decimal]
    BY DigitsOf
  <2> QED
    BY <2>1 DEF IsDigit, Decimal
<1>2. Year(date) * 10000 + (Number(Digits(date)) % 10000) = date
  BY DigitsOf
<1>3. date # NoDate
  BY DEF IsDate, NoDate
<1> QED
  BY <1>1, <1>2, <1>3 DEF DateValue, Completed

LEMMA BirthIsRead ==
    ASSUME NEW date, Born(date) PROVE DateValue(Digits(date), TRUE) = date /\ date # NoDate
<1>1. Completed(Digits(date), TRUE) = Year(date)
  BY BirthYear, Zenon
<1>2. date \in Nat /\ IsDate(date)
  BY DEF Born
<1> QED
  BY <1>1, <1>2, DateIsRead, Zenon

LEMMA ExpiryIsRead ==
    ASSUME NEW date, Expires(date)
    PROVE  DateValue(Digits(date), FALSE) = date /\ date # NoDate
<1>1. Completed(Digits(date), FALSE) = Year(date)
  BY ExpiryYear, Zenon
<1>2. date \in Nat /\ IsDate(date)
  BY DEF Expires
<1> QED
  BY <1>1, <1>2, DateIsRead, Zenon

\* The date printed is the one read, in its century.
LEMMA DatesAreRead ==
    ASSUME NEW p \in Passport
    PROVE  /\ DateValue(Digits(p.dob), TRUE) = p.dob /\ p.dob # NoDate
           /\ DateValue(Digits(p.expiry), FALSE) = p.expiry /\ p.expiry # NoDate
<1>1. Born(p.dob) /\ Expires(p.expiry)
  BY PassportAssumption DEF IsPassport, Born, Expires
<1> QED
  BY <1>1, BirthIsRead, ExpiryIsRead, Zenon

(****************************** Check digits *******************************)

Weighted(s) == [i \in DOMAIN s |-> (s[i] % Filler) * Weight(i)]

LEMMA WeightedTyped ==
    ASSUME NEW s \in Seq(Char)
    PROVE  /\ IsFiniteSet(DOMAIN s) /\ Weighted(s) \in [DOMAIN s -> Int]
           /\ \A i \in DOMAIN s : s[i] % Filler \in 0..35 /\ Weight(i) \in {7, 3, 1}
<1>1. DOMAIN s = 1..Len(s) /\ Len(s) \in Nat /\ \A i \in DOMAIN s : s[i] \in Char
  BY LenProperties
<1>2. \A c \in Char : c % Filler \in 0..35
  BY DEF Char, Filler
<1>3. \A i \in Nat \ {0} : Weight(i) \in {7, 3, 1}
  <2> SUFFICES ASSUME NEW i \in Nat \ {0} PROVE Weight(i) \in {7, 3, 1}
    OBVIOUS
  <2>1. PICK k \in 0..2 : k = (i - 1) % 3
    OBVIOUS
  <2> QED
    BY <2>1 DEF Weight
<1>4. \A i \in DOMAIN s : s[i] % Filler \in 0..35 /\ Weight(i) \in {7, 3, 1}
  BY <1>1, <1>2, <1>3
<1>5. \A i \in DOMAIN s : (s[i] % Filler) * Weight(i) \in Int
  <2> SUFFICES ASSUME NEW i \in DOMAIN s PROVE (s[i] % Filler) * Weight(i) \in Int
    OBVIOUS
  <2>1. PICK a : a = s[i] % Filler
    OBVIOUS
  <2>2. PICK w : w = Weight(i)
    OBVIOUS
  <2>3. a \in 0..35 /\ w \in {7, 3, 1}
    BY <1>4, <2>1, <2>2
  <2>4. a * w \in Int
    BY <2>3
  <2> QED
    BY <2>1, <2>2, <2>4
<1>6. IsFiniteSet(DOMAIN s)
  BY <1>1, FS_Interval
<1> QED
  BY <1>4, <1>5, <1>6 DEF Weighted

LEMMA DigitTyped == ASSUME NEW s \in Seq(Char) PROVE Digit(s) \in Decimal
<1>1. PICK F : Adds(F, Weighted(s), DOMAIN s) /\ SumFunction(Weighted(s)) = F[DOMAIN s]
  BY WeightedTyped, SumExists
<1>2. PICK n \in Int : n = SumFunction(Weighted(s))
  BY <1>1 DEF Adds
<1>3. Digit(s) = n % 10
  BY <1>2 DEF Digit, Weighted
<1>4. n % 10 \in 0..9
  OBVIOUS
<1> QED
  BY <1>3, <1>4 DEF Decimal

\* Characters of the values a and b, of weight w, before or after a sum r.
Weighs(a, b, w, r) == a \in 0..35 /\ b \in 0..35 /\ w \in {7, 3, 1} /\ r \in Int

LEMMA WeightsInvert ==
    ASSUME NEW a, NEW b, NEW w, NEW r, Weighs(a, b, w, r), a % 10 # b % 10
    PROVE  (a * w + r) % 10 # (b * w + r) % 10
<1>1. CASE w = 1
  BY <1>1 DEF Weighs
<1>2. CASE w = 3
  BY <1>2 DEF Weighs
<1>3. CASE w = 7
  BY <1>3 DEF Weighs
<1> QED
  BY <1>1, <1>2, <1>3 DEF Weighs

\* One character read as one that a check digit tells apart changes the digit.
LEMMA DistinctIsSeen ==
    ASSUME NEW s \in Seq(Char), NEW t \in Seq(Char), Len(s) = Len(t), NEW i \in 1..Len(s),
           \A j \in 1..Len(s) \ {i} : s[j] = t[j], Distinct(s[i], t[i])
    PROVE  Digit(s) # Digit(t)
<1>1. DOMAIN s = 1..Len(s) /\ DOMAIN t = 1..Len(s)
  BY LenProperties
<1>2. \A j \in DOMAIN s \ {i} : Weighted(s)[j] = Weighted(t)[j]
  BY <1>1 DEF Weighted
<1>3. PICK r \in Int : /\ SumFunction(Weighted(s)) = Weighted(s)[i] + r
                       /\ SumFunction(Weighted(t)) = Weighted(t)[i] + r
  <2>1. /\ IsFiniteSet(DOMAIN s) /\ Weighted(s) \in [DOMAIN s -> Int]
        /\ Weighted(t) \in [DOMAIN s -> Int] /\ i \in DOMAIN s
    BY <1>1, WeightedTyped
  <2> QED
    <3>1. Alike(Weighted(s), Weighted(t), DOMAIN s, i)
      BY <1>2, <2>1 DEF Alike
    <3> QED
      BY <3>1, OneApart
<1>4. PICK a \in 0..35, b \in 0..35, w \in {7, 3, 1} :
          a = s[i] % Filler /\ b = t[i] % Filler /\ w = Weight(i)
  BY <1>1, WeightedTyped
<1>5. Weighted(s)[i] = a * w /\ Weighted(t)[i] = b * w
  BY <1>1, <1>4 DEF Weighted
<1>6. Digit(s) = (a * w + r) % 10 /\ Digit(t) = (b * w + r) % 10
  BY <1>3, <1>5 DEF Digit, Weighted
<1>7. a % 10 # b % 10
  BY <1>4 DEF Distinct
<1> QED
  <2>1. (a * w + r) % 10 # (b * w + r) % 10
    <3>1. Weighs(a, b, w, r)
      BY DEF Weighs
    <3> QED
      BY <1>7, <3>1, WeightsInvert
  <2> QED
    BY <1>6, <2>1

(******************************** The line *********************************)

\* What stands from m to n.
LEMMA Piece ==
    ASSUME NEW l \in Seq(Char), NEW m \in 1..Len(l), NEW n \in m..Len(l),
           NEW t \in Seq(Char), Len(t) = n - m + 1, \A j \in 1..Len(t) : t[j] = l[m + j - 1]
    PROVE  SubSeq(l, m, n) = t
<1>1. Len(l) \in Nat /\ m \in Int /\ n \in Int /\ m <= n /\ \A j \in m..n : l[j] \in Char
  BY LenProperties
<1>2. /\ SubSeq(l, m, n) \in Seq(Char) /\ Len(SubSeq(l, m, n)) = n - m + 1
      /\ \A j \in 1..n - m + 1 : SubSeq(l, m, n)[j] = l[m + j - 1]
  BY <1>1, SubSeqProperties
<1> QED
  BY <1>2, SeqEqual

\* Part t of the line l begins at m.
Stands(t, l, m) ==
    /\ t \in Seq(Char) /\ l \in Seq(Char) /\ m \in Nat \ {0} /\ Len(t) \in Nat
    /\ Len(l) \in Nat /\ m + Len(t) - 1 <= Len(l)
    /\ \A j \in 1..Len(t) : l[m + j - 1] = t[j]

LEMMA StandsBefore ==
    ASSUME NEW t, NEW l, NEW m, Stands(t, l, m), NEW u \in Seq(Char)
    PROVE  Stands(t, l \o u, m)
<1>1. /\ l \o u \in Seq(Char) /\ Len(l \o u) = Len(l) + Len(u) /\ Len(u) \in Nat
      /\ \A i \in 1..Len(l) : (l \o u)[i] = l[i]
  BY ConcatProperties DEF Stands
<1>2. \A j \in 1..Len(t) : (l \o u)[m + j - 1] = t[j]
  BY <1>1 DEF Stands
<1> QED
  BY <1>1, <1>2 DEF Stands

LEMMA StandsLast ==
    ASSUME NEW l \in Seq(Char), NEW u \in Seq(Char)
    PROVE  /\ Stands(l, l \o u, 1) /\ Stands(u, l \o u, Len(l) + 1)
           /\ Len(l \o u) = Len(l) + Len(u) /\ Len(l) \in Nat /\ Len(u) \in Nat
           /\ l \o u \in Seq(Char)
<1>1. /\ l \o u \in Seq(Char) /\ Len(l \o u) = Len(l) + Len(u)
      /\ Len(l) \in Nat /\ Len(u) \in Nat
      /\ \A i \in 1..Len(l) + Len(u) :
             (l \o u)[i] = IF i <= Len(l) THEN l[i] ELSE u[i - Len(l)]
  BY ConcatProperties
<1>2. \A j \in 1..Len(l) : (l \o u)[1 + j - 1] = l[j]
  BY <1>1
<1>3. \A j \in 1..Len(u) : (l \o u)[(Len(l) + 1) + j - 1] = u[j]
  <2> SUFFICES ASSUME NEW j \in 1..Len(u) PROVE (l \o u)[(Len(l) + 1) + j - 1] = u[j]
    OBVIOUS
  <2>1. PICK i \in 1..Len(l) + Len(u) : i = Len(l) + j
    BY <1>1
  <2>2. (Len(l) + 1) + j - 1 = i /\ i - Len(l) = j /\ ~(i <= Len(l))
    BY <1>1, <2>1
  <2> QED
    BY <1>1, <2>2
<1> QED
  BY <1>1, <1>2, <1>3 DEF Stands

LEMMA StandsIs ==
    ASSUME NEW t, NEW l, NEW m, Stands(t, l, m), t # <<>>
    PROVE  /\ SubSeq(l, m, m + Len(t) - 1) = t /\ l[m] = t[1]
<1>1. Len(t) \in Nat \ {0}
  BY EmptySeq DEF Stands
<1>2. m \in 1..Len(l) /\ m + Len(t) - 1 \in m..Len(l) /\ Len(t) = (m + Len(t) - 1) - m + 1
  BY <1>1 DEF Stands
<1>3. SubSeq(l, m, m + Len(t) - 1) = t
  BY <1>2, Piece DEF Stands
<1>4. l[m] = t[1]
  BY <1>1 DEF Stands
<1> QED
  BY <1>3, <1>4

Text(s, n) == s \in Seq(Char) /\ Len(s) = n

LEMMA Joined ==
    ASSUME NEW s, NEW t, NEW m \in Nat, NEW n \in Nat, Text(s, m), Text(t, n)
    PROVE  Text(s \o t, m + n)
BY ConcatProperties DEF Text

LEMMA StandsAfter ==
    ASSUME NEW s, NEW t, NEW m \in Nat, NEW n \in Nat, Text(s, m), Text(t, n)
    PROVE  Stands(s, s \o t, 1) /\ Stands(t, s \o t, m + 1)
BY StandsLast DEF Text

LEMMA SixParts ==
    ASSUME NEW a, NEW b, NEW c, NEW d, NEW e, NEW f, Text(a, 10), Text(b, 3), Text(c, 7),
           Text(d, 1), Text(e, 22), Text(f, 1), NEW l, l = a \o b \o c \o d \o e \o f
    PROVE  /\ Text(l, 44)
           /\ Stands(a, l, 1) /\ Stands(b, l, 11) /\ Stands(c, l, 14) /\ Stands(d, l, 21)
           /\ Stands(e, l, 22) /\ Stands(f, l, 44)
<1>0. /\ b \in Seq(Char) /\ c \in Seq(Char) /\ d \in Seq(Char) /\ e \in Seq(Char)
      /\ f \in Seq(Char)
  BY DEF Text
<1>1. PICK l2 : l2 = a \o b /\ Text(l2, 13) /\ Stands(a, l2, 1) /\ Stands(b, l2, 11)
  <2>1. /\ Text(a \o b, 10 + 3) /\ Stands(a, a \o b, 1) /\ Stands(b, a \o b, 10 + 1)
    BY Joined, StandsAfter
  <2>2. 10 + 3 = 13 /\ 10 + 1 = 11
    OBVIOUS
  <2> QED
    BY <2>1, <2>2
<1>2. PICK l3 : /\ l3 = l2 \o c /\ Text(l3, 20) /\ Stands(a, l3, 1) /\ Stands(b, l3, 11)
                /\ Stands(c, l3, 14)
  <2>1. Text(l2 \o c, 13 + 7) /\ Stands(c, l2 \o c, 13 + 1)
    BY <1>1, Joined, StandsAfter
  <2>2. 13 + 7 = 20 /\ 13 + 1 = 14
    OBVIOUS
  <2>3. Stands(a, l2 \o c, 1) /\ Stands(b, l2 \o c, 11)
    BY <1>0, <1>1, StandsBefore
  <2> QED
    BY <2>1, <2>2, <2>3
<1>3. PICK l4 : /\ l4 = l3 \o d /\ Text(l4, 21) /\ Stands(a, l4, 1) /\ Stands(b, l4, 11)
                /\ Stands(c, l4, 14) /\ Stands(d, l4, 21)
  <2>1. Text(l3 \o d, 20 + 1) /\ Stands(d, l3 \o d, 20 + 1)
    BY <1>2, Joined, StandsAfter
  <2>2. 20 + 1 = 21
    OBVIOUS
  <2>3. Stands(a, l3 \o d, 1) /\ Stands(b, l3 \o d, 11) /\ Stands(c, l3 \o d, 14)
    BY <1>0, <1>2, StandsBefore
  <2> QED
    BY <2>1, <2>2, <2>3
<1>4. PICK l5 : /\ l5 = l4 \o e /\ Text(l5, 43) /\ Stands(a, l5, 1) /\ Stands(b, l5, 11)
                /\ Stands(c, l5, 14) /\ Stands(d, l5, 21) /\ Stands(e, l5, 22)
  <2>1. Text(l4 \o e, 21 + 22) /\ Stands(e, l4 \o e, 21 + 1)
    BY <1>3, Joined, StandsAfter
  <2>2. 21 + 22 = 43 /\ 21 + 1 = 22
    OBVIOUS
  <2>3. /\ Stands(a, l4 \o e, 1) /\ Stands(b, l4 \o e, 11) /\ Stands(c, l4 \o e, 14)
        /\ Stands(d, l4 \o e, 21)
    BY <1>0, <1>3, StandsBefore
  <2> QED
    BY <2>1, <2>2, <2>3
<1>5. l = l5 \o f
  BY <1>1, <1>2, <1>3, <1>4
<1>6. Text(l5 \o f, 43 + 1) /\ Stands(f, l5 \o f, 43 + 1) /\ 43 + 1 = 44
  BY <1>4, Joined, StandsAfter
<1>7. /\ Stands(a, l5 \o f, 1) /\ Stands(b, l5 \o f, 11) /\ Stands(c, l5 \o f, 14)
      /\ Stands(d, l5 \o f, 21) /\ Stands(e, l5 \o f, 22)
  BY <1>0, <1>4, StandsBefore
<1> QED
  BY <1>5, <1>6, <1>7

\* The parts of a printed line.
NumberOf(p) == p.number \o Fillers(9 - Len(p.number))
HeadOf(p) == NumberOf(p) \o <<Digit(NumberOf(p))>>
BirthOf(p) == Digits(p.dob) \o <<Digit(Digits(p.dob))>>
RestOf(p) == Digits(p.expiry) \o <<Digit(Digits(p.expiry))>> \o Fillers(15)

LEMMA FillersTyped == \A n \in Nat : Fillers(n) \in Seq(Char) /\ Len(Fillers(n)) = n
BY DEF Fillers, Char, Filler

LEMMA DigitsTyped ==
    \A date \in Nat : Digits(date) \in Seq(Char) /\ Len(Digits(date)) = 6
<1> SUFFICES ASSUME NEW date \in Nat
             PROVE  Digits(date) \in Seq(Char) /\ Len(Digits(date)) = 6
  OBVIOUS
<1>1. Digits(date) \in [1..6 -> Decimal]
  BY DigitsOf
<1>2. \A i \in 1..6 : Digits(date)[i] \in Char
  BY <1>1 DEF Decimal, Char
<1>3. Digits(date) = [i \in 1..6 |-> Digits(date)[i]]
  BY DEF Digits
<1>4. [i \in 1..6 |-> Digits(date)[i]] \in Seq(Char)
  BY <1>2
<1> QED
  BY <1>3, <1>4

LEMMA OneTyped == \A c \in Char : <<c>> \in Seq(Char) /\ Len(<<c>>) = 1 /\ <<c>>[1] = c
OBVIOUS

LEMMA PartsTyped ==
    ASSUME NEW p \in Passport
    PROVE  /\ NumberOf(p) \in Seq(Char) /\ Len(NumberOf(p)) = 9
           /\ HeadOf(p) \in Seq(Char) /\ Len(HeadOf(p)) = 10
           /\ p.country \in Seq(Char) /\ Len(p.country) = 3
           /\ BirthOf(p) \in Seq(Char) /\ Len(BirthOf(p)) = 7
           /\ p.sex \in Char
           /\ RestOf(p) \in Seq(Char) /\ Len(RestOf(p)) = 22
<1>1. /\ p.number \in Seq(Char) /\ Len(p.number) \in 1..9 /\ p.country \in Seq(Char)
      /\ Len(p.country) = 3 /\ p.sex \in Char /\ p.dob \in Nat /\ p.expiry \in Nat
  <2>1. 0..35 \subseteq Char /\ 10..35 \subseteq Char
    BY DEF Char
  <2>2. IsPassport(p)
    BY PassportAssumption
  <2>3. p.sex \in Char
    BY <2>2 DEF IsPassport, Letter, Filler, Char
  <2>4. p.number \in Seq(Char) /\ p.country \in Seq(Char)
    <3>1. p.number \in Seq(0..35) /\ p.country \in Seq(10..35)
      BY <2>2 DEF IsPassport
    <3>2. Seq(0..35) \subseteq Seq(Char) /\ Seq(10..35) \subseteq Seq(Char)
      BY <2>1, SeqMonotonic
    <3> QED
      BY <3>1, <3>2
  <2> QED
    BY <2>2, <2>3, <2>4 DEF IsPassport
<1>2. Text(NumberOf(p), 9)
  <2>1. PICK n \in Nat, k \in Nat : n = Len(p.number) /\ k = 9 - n /\ n + k = 9
    <3>1. PICK n \in 1..9 : n = Len(p.number)
      BY <1>1
    <3>2. n \in Nat /\ 9 - n \in Nat /\ n + (9 - n) = 9
      OBVIOUS
    <3> QED
      BY <3>1, <3>2
  <2>2. Text(p.number, n) /\ Text(Fillers(k), k)
    BY <1>1, <2>1, FillersTyped DEF Text
  <2>3. Text(p.number \o Fillers(k), n + k)
    BY <2>2, Joined
  <2> QED
    BY <2>1, <2>3 DEF NumberOf
<1>3. \A s \in Seq(Char) : Text(<<Digit(s)>>, 1)
  <2>1. \A s \in Seq(Char) : Digit(s) \in Char
    BY DigitTyped DEF Decimal, Char
  <2> QED
    BY <2>1, OneTyped DEF Text
<1>4. Text(HeadOf(p), 10)
  <2>1. Text(<<Digit(NumberOf(p))>>, 1)
    BY <1>2, <1>3 DEF Text
  <2>2. Text(NumberOf(p) \o <<Digit(NumberOf(p))>>, 9 + 1)
    BY <1>2, <2>1, Joined
  <2> QED
    BY <2>2 DEF HeadOf
<1>5. \A date \in Nat : Text(Digits(date) \o <<Digit(Digits(date))>>, 7)
  <2> SUFFICES ASSUME NEW date \in Nat
               PROVE  Text(Digits(date) \o <<Digit(Digits(date))>>, 7)
    OBVIOUS
  <2>1. Text(Digits(date), 6)
    BY DigitsTyped DEF Text
  <2>2. Text(<<Digit(Digits(date))>>, 1)
    BY <1>3, <2>1 DEF Text
  <2>3. Text(Digits(date) \o <<Digit(Digits(date))>>, 6 + 1)
    BY <2>1, <2>2, Joined
  <2> QED
    BY <2>3
<1>6. Text(RestOf(p), 22)
  <2>1. Text(Digits(p.expiry) \o <<Digit(Digits(p.expiry))>>, 7) /\ Text(Fillers(15), 15)
    BY <1>1, <1>5, FillersTyped DEF Text
  <2>2. Text(Digits(p.expiry) \o <<Digit(Digits(p.expiry))>> \o Fillers(15), 7 + 15)
    BY <2>1, Joined
  <2> QED
    BY <2>2 DEF RestOf
<1>7. Text(BirthOf(p), 7)
  BY <1>1, <1>5 DEF BirthOf
<1> QED
  BY <1>1, <1>2, <1>4, <1>6, <1>7 DEF Text

\* Where a printed line holds what.
PrintedSo(l, p) ==
    /\ l \in Seq(Char) /\ Len(l) = 44
    /\ SubSeq(l, 1, 9) = NumberOf(p) /\ SubSeq(l, 1, 10) = HeadOf(p)
    /\ l[10] = Digit(NumberOf(p))
    /\ SubSeq(l, 11, 13) = p.country
    /\ SubSeq(l, 14, 19) = Digits(p.dob) /\ SubSeq(l, 14, 20) = BirthOf(p)
    /\ l[20] = Digit(Digits(p.dob)) /\ l[21] = p.sex
    /\ SubSeq(l, 22, 27) = Digits(p.expiry) /\ SubSeq(l, 22, 43) = RestOf(p)
    /\ l[28] = Digit(Digits(p.expiry)) /\ l[43] = Filler
    /\ l[44] = Digit(HeadOf(p) \o BirthOf(p) \o RestOf(p))

\* What stands in a part stands in the line.
LEMMA StandsWithin ==
    ASSUME NEW t, NEW u, NEW l, NEW m, NEW k, Stands(t, u, k), Stands(u, l, m)
    PROVE  Stands(t, l, m + k - 1)
<1>1. \A j \in 1..Len(t) : l[(m + k - 1) + j - 1] = t[j]
  <2> SUFFICES ASSUME NEW j \in 1..Len(t) PROVE l[(m + k - 1) + j - 1] = t[j]
    OBVIOUS
  <2>1. PICK i \in 1..Len(u) : i = k + j - 1
    BY DEF Stands
  <2>2. (m + k - 1) + j - 1 = m + i - 1
    BY <2>1 DEF Stands
  <2>3. l[m + i - 1] = u[i] /\ u[i] = t[j]
    BY <2>1 DEF Stands
  <2> QED
    BY <2>2, <2>3
<1> QED
  BY <1>1 DEF Stands

Cut(l, m, k) == SubSeq(l, m, k)

LEMMA StandsFrom ==
    ASSUME NEW t, NEW l, NEW m \in Nat, NEW n \in Nat \ {0}, NEW k, k = m + n - 1,
           Stands(t, l, m), Text(t, n)
    PROVE  Cut(l, m, k) = t
<1>1. t # <<>> /\ Len(t) = n
  BY EmptySeq DEF Text
<1> QED
  BY <1>1, StandsIs DEF Cut

LEMMA LineIsPrinted == ASSUME NEW p \in Passport PROVE PrintedSo(Printed(p), p)
<1> DEFINE last == <<Digit(HeadOf(p) \o BirthOf(p) \o RestOf(p))>>
<1>1. PICK l : l = Printed(p)
  OBVIOUS
<1>2. l = HeadOf(p) \o p.country \o BirthOf(p) \o <<p.sex>> \o RestOf(p) \o last
  BY <1>1 DEF Printed, HeadOf, NumberOf, BirthOf, RestOf
<1>3. \A s \in Seq(Char) : <<Digit(s)>> \in Seq(Char) /\ Len(<<Digit(s)>>) = 1
  <2>1. \A s \in Seq(Char) : Digit(s) \in Char
    BY DigitTyped DEF Decimal, Char
  <2> QED
    BY <2>1, OneTyped
<1>4. last \in Seq(Char) /\ Len(last) = 1
  <2>1. Text(HeadOf(p), 10) /\ Text(BirthOf(p), 7) /\ Text(RestOf(p), 22)
    BY PartsTyped DEF Text
  <2>2. Text(HeadOf(p) \o BirthOf(p), 10 + 7)
    BY <2>1, Joined
  <2>3. Text(HeadOf(p) \o BirthOf(p) \o RestOf(p), (10 + 7) + 22)
    BY <2>1, <2>2, Joined
  <2> QED
    BY <1>3, <2>3 DEF Text
<1>5. <<p.sex>> \in Seq(Char) /\ Len(<<p.sex>>) = 1
  BY PartsTyped, OneTyped
<1> HIDE DEF last
<1>6. /\ Text(l, 44)
      /\ Stands(HeadOf(p), l, 1) /\ Stands(p.country, l, 11) /\ Stands(BirthOf(p), l, 14)
      /\ Stands(<<p.sex>>, l, 21) /\ Stands(RestOf(p), l, 22) /\ Stands(last, l, 44)
  <2>1. /\ Text(HeadOf(p), 10) /\ Text(p.country, 3) /\ Text(BirthOf(p), 7)
        /\ Text(<<p.sex>>, 1) /\ Text(RestOf(p), 22) /\ Text(last, 1)
    BY <1>4, <1>5, PartsTyped DEF Text
  <2> QED
    BY <1>2, <2>1, SixParts
<1>7. \A date \in Nat :
          /\ Stands(Digits(date), Digits(date) \o <<Digit(Digits(date))>>, 1)
          /\ Stands(<<Digit(Digits(date))>>, Digits(date) \o <<Digit(Digits(date))>>, 7)
          /\ Text(Digits(date) \o <<Digit(Digits(date))>>, 7)
  <2> SUFFICES ASSUME NEW date \in Nat
      PROVE  /\ Stands(Digits(date), Digits(date) \o <<Digit(Digits(date))>>, 1)
             /\ Stands(<<Digit(Digits(date))>>, Digits(date) \o <<Digit(Digits(date))>>, 7)
             /\ Text(Digits(date) \o <<Digit(Digits(date))>>, 7)
    OBVIOUS
  <2>1. Text(Digits(date), 6) /\ Text(<<Digit(Digits(date))>>, 1)
    BY <1>3, DigitsTyped DEF Text
  <2>2. /\ Stands(Digits(date), Digits(date) \o <<Digit(Digits(date))>>, 1)
        /\ Stands(<<Digit(Digits(date))>>, Digits(date) \o <<Digit(Digits(date))>>, 6 + 1)
        /\ Text(Digits(date) \o <<Digit(Digits(date))>>, 6 + 1)
    BY <2>1, Joined, StandsAfter
  <2> QED
    BY <2>2
<1>8. p.dob \in Nat /\ p.expiry \in Nat
  BY PassportAssumption DEF IsPassport
<1>9. Stands(NumberOf(p), HeadOf(p), 1) /\ Stands(<<Digit(NumberOf(p))>>, HeadOf(p), 10)
  <2>1. Text(NumberOf(p), 9) /\ Text(<<Digit(NumberOf(p))>>, 1)
    BY <1>3, PartsTyped DEF Text
  <2>2. /\ Stands(NumberOf(p), NumberOf(p) \o <<Digit(NumberOf(p))>>, 1)
        /\ Stands(<<Digit(NumberOf(p))>>, NumberOf(p) \o <<Digit(NumberOf(p))>>, 9 + 1)
    BY <2>1, StandsAfter
  <2> QED
    BY <2>2 DEF HeadOf
<1>10. Stands(Digits(p.dob), BirthOf(p), 1) /\ Stands(<<Digit(Digits(p.dob))>>, BirthOf(p), 7)
  BY <1>7, <1>8 DEF BirthOf
<1>11. /\ Stands(Digits(p.expiry), RestOf(p), 1)
       /\ Stands(<<Digit(Digits(p.expiry))>>, RestOf(p), 7)
       /\ Stands(Fillers(15), RestOf(p), 8)
  <2>1. PICK u : u = Digits(p.expiry) \o <<Digit(Digits(p.expiry))>> /\ Text(u, 7)
    BY <1>7, <1>8
  <2>2. Stands(Digits(p.expiry), u, 1) /\ Stands(<<Digit(Digits(p.expiry))>>, u, 7)
    BY <1>7, <1>8, <2>1
  <2>3. Fillers(15) \in Seq(Char) /\ Text(Fillers(15), 15)
    BY FillersTyped DEF Text
  <2>4. RestOf(p) = u \o Fillers(15)
    BY <2>1 DEF RestOf
  <2>5. Stands(Fillers(15), u \o Fillers(15), 7 + 1)
    BY <2>1, <2>3, StandsAfter
  <2> QED
    BY <2>2, <2>3, <2>4, <2>5, StandsBefore
<1>12. Stands(NumberOf(p), l, 1) /\ Stands(<<Digit(NumberOf(p))>>, l, 10)
  <2>1. Stands(NumberOf(p), l, 1 + 1 - 1) /\ Stands(<<Digit(NumberOf(p))>>, l, 1 + 10 - 1)
    BY <1>6, <1>9, StandsWithin
  <2> QED
    BY <2>1
<1>13. Stands(Digits(p.dob), l, 14) /\ Stands(<<Digit(Digits(p.dob))>>, l, 20)
  <2>1. /\ Stands(Digits(p.dob), l, 14 + 1 - 1)
        /\ Stands(<<Digit(Digits(p.dob))>>, l, 14 + 7 - 1)
    BY <1>6, <1>10, StandsWithin
  <2> QED
    BY <2>1
<1>14. /\ Stands(Digits(p.expiry), l, 22) /\ Stands(<<Digit(Digits(p.expiry))>>, l, 28)
       /\ Stands(Fillers(15), l, 29)
  <2>1. /\ Stands(Digits(p.expiry), l, 22 + 1 - 1)
        /\ Stands(<<Digit(Digits(p.expiry))>>, l, 22 + 7 - 1)
        /\ Stands(Fillers(15), l, 22 + 8 - 1)
    BY <1>6, <1>11, StandsWithin
  <2> QED
    BY <2>1
<1>15. SubSeq(l, 1, 10) = HeadOf(p) /\ SubSeq(l, 11, 13) = p.country
       /\ SubSeq(l, 14, 20) = BirthOf(p) /\ SubSeq(l, 22, 43) = RestOf(p)
  <2>1. /\ Text(HeadOf(p), 10) /\ Text(p.country, 3) /\ Text(BirthOf(p), 7)
        /\ Text(RestOf(p), 22)
    BY PartsTyped DEF Text
  <2>2. Cut(l, 1, 10) = HeadOf(p)
    BY <1>6, <2>1, StandsFrom
  <2>3. Cut(l, 11, 13) = p.country
    BY <1>6, <2>1, StandsFrom
  <2>4. Cut(l, 14, 20) = BirthOf(p)
    BY <1>6, <2>1, StandsFrom
  <2>5. Cut(l, 22, 43) = RestOf(p)
    BY <1>6, <2>1, StandsFrom
  <2> QED
    BY <2>2, <2>3, <2>4, <2>5 DEF Cut
<1>16. /\ SubSeq(l, 1, 9) = NumberOf(p) /\ SubSeq(l, 14, 19) = Digits(p.dob)
       /\ SubSeq(l, 22, 27) = Digits(p.expiry)
  <2>1. Text(NumberOf(p), 9) /\ Text(Digits(p.dob), 6) /\ Text(Digits(p.expiry), 6)
    BY <1>8, DigitsTyped, PartsTyped DEF Text
  <2>2. Cut(l, 1, 9) = NumberOf(p)
    BY <1>12, <2>1, StandsFrom
  <2>3. Cut(l, 14, 19) = Digits(p.dob)
    BY <1>13, <2>1, StandsFrom
  <2>4. Cut(l, 22, 27) = Digits(p.expiry)
    BY <1>14, <2>1, StandsFrom
  <2> QED
    BY <2>2, <2>3, <2>4 DEF Cut
<1>17. \A c, m : Stands(<<c>>, l, m) => l[m] = c
  BY DEF Stands
<1>18. l[43] = Filler
  <2>1. l[29 + 15 - 1] = Fillers(15)[15]
    BY <1>14, FillersTyped DEF Stands
  <2> QED
    BY <2>1 DEF Fillers
<1>19. /\ l[10] = Digit(NumberOf(p)) /\ l[20] = Digit(Digits(p.dob)) /\ l[21] = p.sex
       /\ l[28] = Digit(Digits(p.expiry))
       /\ l[44] = Digit(HeadOf(p) \o BirthOf(p) \o RestOf(p))
  BY <1>6, <1>12, <1>13, <1>14, <1>17 DEF last
<1> QED
  BY <1>1, <1>6, <1>15, <1>16, <1>18, <1>19 DEF PrintedSo, Text

(******************************* The number ********************************)

\* A number of n characters, filled up to nine.
Filled(s, n) ==
    /\ s \in Seq(Char) /\ Len(s) = 9 /\ n \in 1..9
    /\ \A i \in 1..n : s[i] # Filler
    /\ \A i \in 1..9 : i > n => s[i] = Filler

LEMMA NumberIsFilled ==
    ASSUME NEW p \in Passport
    PROVE  /\ Filled(NumberOf(p), Len(p.number))
           /\ SubSeq(NumberOf(p), 1, Len(p.number)) = p.number
           /\ \A i \in 1..Len(p.number) : NumberOf(p)[i] = p.number[i]
<1>1. /\ p.number \in Seq(0..35) /\ Len(p.number) \in 1..9
  BY PassportAssumption DEF IsPassport
<1>2. PICK n \in 1..9, k \in 0..8 : n = Len(p.number) /\ k = 9 - n
  <2>1. PICK n \in 1..9 : n = Len(p.number)
    BY <1>1
  <2>2. 9 - n \in 0..8
    OBVIOUS
  <2> QED
    BY <2>1, <2>2
<1>3. 0..35 \subseteq Char /\ p.number \in Seq(Char)
  <2>1. 0..35 \subseteq Char
    BY DEF Char
  <2> QED
    BY <1>1, <2>1, SeqMonotonic
<1>4. Fillers(k) \in Seq(Char) /\ Len(Fillers(k)) = k /\ \A i \in 1..k : Fillers(k)[i] = Filler
  <2>1. k \in Nat
    OBVIOUS
  <2> QED
    BY <2>1, FillersTyped DEF Fillers
<1>5. /\ NumberOf(p) \in Seq(Char) /\ Len(NumberOf(p)) = 9
      /\ \A i \in 1..n : NumberOf(p)[i] = p.number[i]
      /\ \A i \in n + 1..9 : NumberOf(p)[i] = Filler
  <2>1. PICK s \in Seq(Char), t \in Seq(Char) : s = p.number /\ t = Fillers(k)
    BY <1>3, <1>4
  <2>2. Stands(s, s \o t, 1) /\ Stands(t, s \o t, n + 1) /\ Text(s \o t, n + k)
    <3>1. Text(s, n) /\ n \in Nat
      BY <1>2, <2>1 DEF Text
    <3>2. Text(t, k) /\ k \in Nat
      BY <1>4, <2>1 DEF Text
    <3> QED
      BY <3>1, <3>2, StandsAfter, Joined
  <2>3. NumberOf(p) = s \o t /\ n + k = 9
    BY <1>2, <2>1 DEF NumberOf
  <2>4. \A i \in 1..n : (s \o t)[i] = s[i]
    <3> SUFFICES ASSUME NEW i \in 1..n PROVE (s \o t)[i] = s[i]
      OBVIOUS
    <3>1. Len(s) = n /\ 1 + i - 1 = i
      BY <1>2, <2>1
    <3>2. (s \o t)[1 + i - 1] = s[i]
      BY <2>2, <3>1 DEF Stands
    <3> QED
      BY <3>1, <3>2
  <2>5. \A i \in n + 1..9 : (s \o t)[i] = Filler
    <3> SUFFICES ASSUME NEW i \in n + 1..9 PROVE (s \o t)[i] = Filler
      OBVIOUS
    <3>1. PICK j \in 1..k : j = i - n /\ i = n + 1 + j - 1
      <4>0. k = 9 - n /\ i \in Int /\ n \in Int /\ i > n /\ i <= 9
        BY <1>2
      <4>1. i - n \in 1..k /\ i = n + 1 + (i - n) - 1
        BY <4>0
      <4> QED
        BY <4>1
    <3>2. (s \o t)[n + 1 + j - 1] = t[j]
      BY <1>4, <2>1, <2>2 DEF Stands
    <3> QED
      BY <1>4, <2>1, <3>1, <3>2
  <2> QED
    BY <2>1, <2>2, <2>3, <2>4, <2>5 DEF Text
<1>6. \A i \in 1..n : p.number[i] # Filler
  <2>1. \A i \in 1..n : p.number[i] \in 0..35
    <3>1. p.number \in [1..Len(p.number) -> 0..35]
      BY <1>1, LenProperties
    <3> QED
      BY <1>2, <3>1
  <2> QED
    BY <2>1 DEF Filler
<1>7. Filled(NumberOf(p), n)
  BY <1>5, <1>6 DEF Filled
<1>8. SubSeq(NumberOf(p), 1, n) = p.number
  <2>1. Text(p.number, n) /\ Stands(p.number, NumberOf(p), 1)
    <3>1. \A j \in 1..n : NumberOf(p)[1 + j - 1] = p.number[j]
      <4>1. \A j \in 1..n : 1 + j - 1 = j
        OBVIOUS
      <4> QED
        BY <1>5, <4>1
    <3>2. n \in Nat /\ 1 + n - 1 <= 9
      OBVIOUS
    <3>3. Len(p.number) = n
      BY <1>2
    <3> QED
      BY <1>3, <1>5, <3>1, <3>2, <3>3 DEF Text, Stands
  <2>2. n \in Nat \ {0} /\ n = 1 + n - 1
    OBVIOUS
  <2>3. Cut(NumberOf(p), 1, n) = p.number
    BY <2>1, <2>2, StandsFrom
  <2> QED
    BY <2>3 DEF Cut
<1> QED
  BY <1>2, <1>5, <1>7, <1>8

LEMMA FilledIsStripped ==
    ASSUME NEW s, NEW n, Filled(s, n) PROVE Stripped(s) = SubSeq(s, 1, n)
<1> DEFINE T == {0} \cup {i \in 1..9 : s[i] # Filler}
<1>1. n \in T /\ \A i \in T : n >= i
  BY DEF Filled
<1>2. T \subseteq Int
  OBVIOUS
<1>3. Max(T) = n
  <2> HIDE DEF T
  <2>1. Max(T) \in T /\ \A i \in T : Max(T) >= i
    BY <1>1 DEF Max
  <2>2. PICK m : m = Max(T)
    OBVIOUS
  <2>3. m \in Int /\ n \in Int /\ m >= n /\ n >= m
    BY <1>1, <1>2, <2>1, <2>2
  <2> QED
    BY <2>2, <2>3
<1> QED
  BY <1>3 DEF Stripped

LEMMA FilledIsKept ==
    ASSUME NEW s, NEW n, Filled(s, n) PROVE WithoutFillers(s) = SubSeq(s, 1, n)
<1> DEFINE Step(h) == [i \in 0..Len(s) |->
                          IF i = 0 THEN <<>>
                          ELSE IF s[i] = Filler THEN h[i - 1] ELSE Append(h[i - 1], s[i])]
           g == CHOOSE h : h = Step(h)
           Upto(i) == SubSeq(s, 1, IF i <= n THEN i ELSE n)
           w == [i \in 0..9 |-> Upto(i)]
<1>1. s \in Seq(Char) /\ Len(s) = 9 /\ n \in 1..9
  BY DEF Filled
<1>2. Upto(0) = <<>>
  <2>1. 0 <= n
    BY <1>1
  <2> QED
    BY <2>1, SubSeqEmpty
<1>3. \A i \in 1..9 : Upto(i) = IF s[i] = Filler THEN Upto(i - 1) ELSE Append(Upto(i - 1), s[i])
  <2> SUFFICES ASSUME NEW i \in 1..9
      PROVE Upto(i) = IF s[i] = Filler THEN Upto(i - 1) ELSE Append(Upto(i - 1), s[i])
    OBVIOUS
  <2>1. CASE i <= n
    <3>1. s[i] # Filler /\ i - 1 <= n
      BY <1>1, <2>1 DEF Filled
    <3>2. SubSeq(s, 1, i) = SubSeq(s, 1, i - 1) \o <<s[i]>>
      BY <1>1, SubSeqRecursiveSecond
    <3>3. SubSeq(s, 1, i - 1) \in Seq(Char) /\ s[i] \in Char
      <4>1. \A j \in 1..9 : s[j] \in Char
        BY <1>1, LenProperties
      <4>2. \A j \in 1..i - 1 : s[j] \in Char
        BY <4>1
      <4>3. 1 \in Int /\ i - 1 \in Int
        OBVIOUS
      <4>4. SubSeq(s, 1, i - 1) \in Seq(Char)
        BY <4>2, <4>3, SubSeqProperties
      <4> QED
        BY <4>1, <4>4
    <3>4. Append(SubSeq(s, 1, i - 1), s[i]) = SubSeq(s, 1, i - 1) \o <<s[i]>>
      BY <3>3, AppendIsConcat
    <3> QED
      BY <2>1, <3>1, <3>2, <3>4
  <2>2. CASE ~(i <= n)
    <3>1. s[i] = Filler /\ (i - 1 <= n => i - 1 = n)
      BY <1>1, <2>2 DEF Filled
    <3> QED
      BY <2>2, <3>1
  <2> QED
    BY <2>1, <2>2
<1>4. w = Step(w)
  <2> HIDE DEF Upto
  <2>1. \A i \in 0..9 : w[i] = IF i = 0 THEN <<>>
                               ELSE IF s[i] = Filler THEN w[i - 1] ELSE Append(w[i - 1], s[i])
    <3>1. \A i \in 1..9 : w[i] = Upto(i) /\ w[i - 1] = Upto(i - 1)
      OBVIOUS
    <3>2. w[0] = <<>>
      BY <1>2
    <3> HIDE DEF w
    <3>3. \A i \in 1..9 : w[i] = IF s[i] = Filler THEN w[i - 1] ELSE Append(w[i - 1], s[i])
      BY <1>3, <3>1
    <3>4. \A i \in 0..9 : i = 0 \/ i \in 1..9
      OBVIOUS
    <3> QED
      BY <3>2, <3>3, <3>4
  <2>2. w = [i \in 0..9 |-> w[i]]
    OBVIOUS
  <2> HIDE DEF w
  <2> QED
    BY <1>1, <2>1, <2>2
<1>5. g = Step(g)
  <2> HIDE DEF w
  <2> QED
    BY <1>4
<1>6. WithoutFillers(s) = g[Len(s)]
  BY DEF WithoutFillers
<1> HIDE DEF g
<1>7. \A i \in 0..9 : g[i] = IF i = 0 THEN <<>>
                             ELSE IF s[i] = Filler THEN g[i - 1] ELSE Append(g[i - 1], s[i])
  BY <1>1, <1>5
<1> DEFINE Bad == {i \in 0..9 : g[i] # Upto(i)}
<1>8. Bad = {}
  <2> HIDE DEF Upto
  <2> SUFFICES ASSUME Bad # {} PROVE FALSE
    OBVIOUS
  <2>1. PICK i \in Bad : \A j \in Bad : i <= j
    <3>1. Bad \in SUBSET Nat
      OBVIOUS
    <3> HIDE DEF Bad
    <3> QED
      BY <3>1, LeastNumber
  <2>2. i \in 0..9 /\ g[i] # Upto(i)
    BY <2>1
  <2>3. i # 0
    BY <1>2, <1>7, <2>2
  <2>4. i \in 1..9 /\ i - 1 \in 0..9 /\ i - 1 \notin Bad
    BY <2>1, <2>2, <2>3
  <2>5. g[i - 1] = Upto(i - 1)
    BY <2>4
  <2> QED
    BY <1>3, <1>7, <2>2, <2>3, <2>4, <2>5
<1>9. g[9] = Upto(9)
  BY <1>8
<1>10. Upto(9) = SubSeq(s, 1, n)
  <2>1. 9 <= n => n = 9
    BY <1>1
  <2> QED
    BY <2>1
<1> QED
  BY <1>1, <1>6, <1>9, <1>10

(***************************** One misread *********************************)

\* A line of p, misread nowhere but at i.
MisreadAt(l, p, i) ==
    /\ p \in Passport /\ l \in Seq(Char) /\ Len(l) = 44 /\ i \in 1..44
    /\ \A j \in 1..44 : j # i => l[j] = Printed(p)[j]

\* And there told from what is printed, as read; and as repaired.
ToldAsRead(l, p, i) ==
    /\ MisreadAt(l, p, i)
    /\ l[i] = Printed(p)[i] \/ Distinct(l[i], Printed(p)[i])
Told(l, p, i) ==
    /\ ToldAsRead(l, p, i)
    /\ i \in 1..9 => \/ Repaired(l)[i] = Printed(p)[i]
                     \/ Distinct(Repaired(l)[i], Printed(p)[i])
    /\ Indian(l) => p.country = IND

\* A text whose check digit is right is the one printed.
LEMMA TextIsRead ==
    ASSUME NEW s, NEW t, NEW n, Text(s, n), Text(t, n), NEW k,
           \A j \in 1..n : j # k => s[j] = t[j],
           k \in 1..n => Digit(s) = Digit(t) /\ (s[k] = t[k] \/ Distinct(s[k], t[k]))
    PROVE  s = t
<1>0. s \in Seq(Char) /\ t \in Seq(Char) /\ Len(s) = n /\ Len(t) = n
  BY DEF Text
<1>1. k \in 1..n => s[k] = t[k]
  <2> SUFFICES ASSUME k \in 1..n, Distinct(s[k], t[k]) PROVE FALSE
    OBVIOUS
  <2>1. \A j \in 1..Len(s) \ {k} : s[j] = t[j]
    BY <1>0
  <2> QED
    BY <1>0, <2>1, DistinctIsSeen
<1>2. \A j \in 1..n : s[j] = t[j]
  <2> SUFFICES ASSUME NEW j \in 1..n PROVE s[j] = t[j]
    OBVIOUS
  <2>1. CASE j = k
    BY <1>1, <2>1
  <2>2. CASE j # k
    BY <2>2
  <2> QED
    BY <2>1, <2>2
<1> QED
  BY <1>0, <1>2, SeqEqual

\* Parts of a line.
Within(m, n, k) == m \in 1..44 /\ n \in m..44 /\ k = n - m + 1

LEMMA PartIs ==
    ASSUME NEW l, Text(l, 44), NEW m, NEW n, NEW k, Within(m, n, k)
    PROVE  Text(Cut(l, m, n), k) /\ Stands(Cut(l, m, n), l, m)
<1>1. \A j \in 1..44 : l[j] \in Char
  BY LenProperties DEF Text
<1>2. m \in Int /\ n \in Int /\ m <= n
  BY DEF Within
<1>3. \A j \in m..n : l[j] \in Char
  BY <1>1 DEF Within
<1>4. Text(Cut(l, m, n), k) /\ \A j \in 1..k : Cut(l, m, n)[j] = l[m + j - 1]
  <2>1. /\ SubSeq(l, m, n) \in Seq(Char) /\ Len(SubSeq(l, m, n)) = n - m + 1
        /\ \A j \in 1..n - m + 1 : SubSeq(l, m, n)[j] = l[m + j - 1]
    BY <1>2, <1>3, SubSeqProperties
  <2> QED
    BY <2>1 DEF Text, Cut, Within
<1>5. Text(Cut(l, m, n), k)
  BY <1>4 DEF Text
<1>6. m \in Nat \ {0} /\ k \in Nat /\ m + k - 1 <= 44
  BY DEF Within
<1>7. Stands(Cut(l, m, n), l, m)
  <2> PICK t : t = Cut(l, m, n)
    OBVIOUS
  <2>1. t \in Seq(Char) /\ Len(t) = k /\ l \in Seq(Char) /\ Len(l) = 44
    BY <1>5, Zenon DEF Text
  <2>2. Len(t) \in Nat /\ Len(l) \in Nat /\ m + Len(t) - 1 <= Len(l)
    BY <1>6, <2>1
  <2>3. \A j \in 1..Len(t) : l[m + j - 1] = t[j]
    BY <1>4, <2>1, Zenon
  <2> QED
    BY <1>6, <2>1, <2>2, <2>3, Zenon DEF Stands
<1> QED
  BY <1>5, <1>7

LEMMA CharTyped ==
    /\ \A c \in Char : Numeric(c) \in Char /\ Lead(c) \in Char
    /\ \A c \in Decimal : Numeric(c) = c
    /\ \A c \in 10..35 : Lead(c) = c
    /\ Filler \in Char /\ Decimal \subseteq Char
  <1>1. \A c \in Char : Numeric(c) \in Char
    BY DEF Numeric, Letter, Char
  <1>2. \A c \in Char : Lead(c) \in Char
    BY DEF Lead, Letter, Char
  <1>3. \A c \in Decimal : Numeric(c) = c
    BY DEF Numeric, Letter, Decimal
  <1>4. \A c \in 10..35 : Lead(c) = c
    BY DEF Lead, Letter
  <1>5. Filler \in Char /\ Decimal \subseteq Char
    BY DEF Filler, Char, Decimal
  <1> QED
    BY <1>1, <1>2, <1>3, <1>4, <1>5

LEMMA NumericIs ==
    ASSUME NEW s, NEW n \in Nat, Text(s, n)
    PROVE  Text(AllNumeric(s), n) /\ \A j \in 1..n : AllNumeric(s)[j] = Numeric(s[j])
<1>1. DOMAIN s = 1..n /\ \A j \in 1..n : s[j] \in Char
  BY LenProperties DEF Text
<1>2. AllNumeric(s) = [j \in 1..n |-> Numeric(s[j])]
  BY <1>1 DEF AllNumeric
<1>3. \A j \in 1..n : Numeric(s[j]) \in Char
  BY <1>1, CharTyped
<1> QED
  BY <1>2, <1>3 DEF Text

LEMMA RepairedIs ==
    ASSUME NEW l \in Seq(Char), Len(l) = 44
    PROVE  /\ Text(Repaired(l), 9)
           /\ ~Indian(l) => \A j \in 1..9 : Repaired(l)[j] = l[j]
           /\ Indian(l) => /\ Repaired(l)[1] = Lead(l[1]) /\ Repaired(l)[9] = Filler
                           /\ \A j \in 2..8 : Repaired(l)[j] = Numeric(l[j])
<1>1. CASE ~Indian(l)
  <2>1. Repaired(l) = Cut(l, 1, 9)
    BY <1>1 DEF Repaired, Number9, Cut
  <2>2. Text(Cut(l, 1, 9), 9) /\ Stands(Cut(l, 1, 9), l, 1)
    <3>1. Within(1, 9, 9) /\ Text(l, 44)
      BY DEF Within, Text
    <3> QED
      BY <3>1, PartIs
  <2>3. \A j \in 1..9 : 1 + j - 1 = j
    OBVIOUS
  <2> QED
    BY <1>1, <2>1, <2>2, <2>3 DEF Text, Stands
<1>2. CASE Indian(l)
  <2>1. l[1] \in Char
    BY LenProperties
  <2>2. PICK t : /\ t = AllNumeric(SubSeq(l, 2, 8)) /\ Text(t, 7)
                 /\ \A j \in 1..7 : t[j] = Numeric(l[j + 1])
    <3>1. Text(Cut(l, 2, 8), 7) /\ Stands(Cut(l, 2, 8), l, 2)
      <4>1. Within(2, 8, 7) /\ Text(l, 44)
        BY DEF Within, Text
      <4> QED
        BY <4>1, PartIs
    <3>2. \A j \in 1..7 : Cut(l, 2, 8)[j] = l[j + 1]
      <4>1. \A j \in 1..7 : 2 + j - 1 = j + 1
        OBVIOUS
      <4> QED
        BY <3>1, <4>1 DEF Text, Stands
    <3>3. /\ Text(AllNumeric(Cut(l, 2, 8)), 7)
          /\ \A j \in 1..7 : AllNumeric(Cut(l, 2, 8))[j] = Numeric(l[j + 1])
      BY <3>1, <3>2, NumericIs
    <3> QED
      BY <3>3 DEF Cut
  <2>3. PICK a, f : a = <<Lead(l[1])>> /\ f = <<Filler>> /\ Text(a, 1) /\ Text(f, 1)
    <3>1. Lead(l[1]) \in Char /\ Filler \in Char
      BY <2>1, CharTyped
    <3> QED
      BY <3>1, OneTyped DEF Text
  <2>4. Repaired(l) = a \o t \o f
    BY <1>2, <2>2, <2>3 DEF Repaired
  <2>5. /\ Text(a \o t, 1 + 7) /\ Stands(a, a \o t, 1) /\ Stands(t, a \o t, 1 + 1)
        /\ 1 + 7 = 8 /\ 1 + 1 = 2
    BY <2>2, <2>3, Joined, StandsAfter
  <2>6. PICK u : u = a \o t /\ Text(u, 8) /\ Stands(a, u, 1) /\ Stands(t, u, 2)
    BY <2>5
  <2>7. Text(u \o f, 8 + 1) /\ Stands(f, u \o f, 8 + 1) /\ 8 + 1 = 9
    BY <2>3, <2>6, Joined, StandsAfter
  <2>8. Stands(a, u \o f, 1) /\ Stands(t, u \o f, 2)
    BY <2>3, <2>6, StandsBefore DEF Text
  <2>9. PICK r : r = Repaired(l) /\ Text(r, 9) /\ Stands(f, r, 9) /\ Stands(a, r, 1) /\ Stands(t, r, 2)
    BY <2>4, <2>6, <2>7, <2>8
  <2>10. r[9] = Filler /\ r[1] = Lead(l[1])
    BY <2>3, <2>9 DEF Stands
  <2>11. \A j \in 2..8 : r[j] = Numeric(l[j])
    <3> SUFFICES ASSUME NEW j \in 2..8 PROVE r[j] = Numeric(l[j])
      OBVIOUS
    <3>1. PICK k \in 1..7 : k = j - 1 /\ 2 + k - 1 = j /\ k + 1 = j
      OBVIOUS
    <3>2. r[2 + k - 1] = t[k]
      BY <2>2, <2>9 DEF Stands, Text
    <3> QED
      BY <2>2, <3>1, <3>2
  <2> QED
    BY <1>2, <2>9, <2>10, <2>11
<1> QED
  BY <1>1, <1>2

LEMMA LineTyped ==
    ASSUME NEW p \in Passport
    PROVE  /\ Text(Printed(p), 44) /\ Stands(NumberOf(p), Printed(p), 1)
           /\ Text(NumberOf(p), 9) /\ \A j \in 1..9 : NumberOf(p)[j] = Printed(p)[j]
<1>1. Text(Printed(p), 44) /\ Cut(Printed(p), 1, 9) = NumberOf(p)
  BY LineIsPrinted DEF PrintedSo, Text, Cut
<1>2. Within(1, 9, 9)
  BY DEF Within
<1>3. Text(NumberOf(p), 9) /\ Stands(NumberOf(p), Printed(p), 1)
  BY <1>1, <1>2, PartIs
<1>4. \A j \in 1..9 : 1 + j - 1 = j
  OBVIOUS
<1>5. \A j \in 1..9 : NumberOf(p)[j] = Printed(p)[j]
  BY <1>3, <1>4 DEF Text, Stands
<1> QED
  BY <1>1, <1>3, <1>5

\* Repairs leave an Indian number as it is.
LEMMA IndianIsFixed ==
    ASSUME NEW p \in Passport, p.country = IND
    PROVE  /\ IndianForm(NumberOf(p)) /\ NumberOf(p)[9] = Filler
           /\ Lead(NumberOf(p)[1]) = NumberOf(p)[1]
           /\ \A j \in 2..8 : Numeric(NumberOf(p)[j]) = NumberOf(p)[j]
<1>1. /\ Len(p.number) = 8 /\ IndianForm(p.number) /\ Numeric(p.number[2]) = p.number[2]
  BY PassportAssumption DEF IsPassport
<1>2. PICK n \in 1..9 : n = Len(p.number) /\ n = 8
  BY <1>1
<1>3. NumberOf(p)[9] = Filler /\ \A j \in 1..8 : NumberOf(p)[j] = p.number[j]
  <2>1. /\ \A j \in 1..9 : j > n => NumberOf(p)[j] = Filler
        /\ \A j \in 1..n : NumberOf(p)[j] = p.number[j]
    BY <1>2, NumberIsFilled DEF Filled
  <2>2. 9 \in 1..9 /\ 9 > n
    BY <1>2
  <2> QED
    BY <1>2, <2>1, <2>2
<1>4. IndianForm(NumberOf(p))
  BY <1>1, <1>3 DEF IndianForm
<1>5. Lead(NumberOf(p)[1]) = NumberOf(p)[1]
  BY <1>4, CharTyped DEF IndianForm, IsLetter
<1>6. Numeric(NumberOf(p)[2]) = NumberOf(p)[2]
  BY <1>1, <1>3
<1>7. \A j \in 3..8 : Numeric(NumberOf(p)[j]) = NumberOf(p)[j]
  BY <1>4, CharTyped DEF IndianForm, IsDigit, Decimal
<1>8. \A j \in 2..8 : j = 2 \/ j \in 3..8
  OBVIOUS
<1> QED
  BY <1>3, <1>4, <1>5, <1>6, <1>7, <1>8

\* A number that passes its check digit is the one printed.
LEMMA NumberIsRead ==
    ASSUME NEW l, NEW p, NEW i, Told(l, p, i), Digit(Repaired(l)) = Numeric(l[10])
    PROVE  Repaired(l) = NumberOf(p)
<1>1. PICK q, n : /\ q = Printed(p) /\ n = NumberOf(p) /\ Text(n, 9)
                  /\ \A j \in 1..9 : n[j] = q[j]
                  /\ q[10] = Digit(n)
  BY LineTyped, LineIsPrinted DEF PrintedSo, Told, ToldAsRead, MisreadAt
<1>2. PICK r : r = Repaired(l) /\ Text(r, 9)
  BY RepairedIs DEF Told, ToldAsRead, MisreadAt
<1>3. /\ p \in Passport /\ l \in Seq(Char) /\ Len(l) = 44 /\ i \in 1..44
      /\ \A j \in 1..44 : j # i => l[j] = q[j]
      /\ i \in 1..9 => r[i] = q[i] \/ Distinct(r[i], q[i])
      /\ Indian(l) => p.country = IND
  BY <1>1, <1>2 DEF Told, ToldAsRead, MisreadAt
<1>4. \A j \in 1..9 : j # i => r[j] = n[j]
  <2> SUFFICES ASSUME NEW j \in 1..9, j # i PROVE r[j] = n[j]
    OBVIOUS
  <2>1. j \in 1..44
    OBVIOUS
  <2>2. l[j] = n[j]
    BY <1>1, <1>3, <2>1
  <2>3. CASE ~Indian(l)
    BY <1>2, <1>3, <2>2, <2>3, RepairedIs
  <2>4. CASE Indian(l)
    <3>1. r[1] = Lead(l[1]) /\ r[9] = Filler /\ \A k \in 2..8 : r[k] = Numeric(l[k])
      BY <1>2, <1>3, <2>4, RepairedIs
    <3>2. n[9] = Filler /\ Lead(n[1]) = n[1] /\ \A k \in 2..8 : Numeric(n[k]) = n[k]
      BY <1>1, <1>3, <2>4, IndianIsFixed
    <3>3. j = 1 \/ j = 9 \/ j \in 2..8
      OBVIOUS
    <3> QED
      BY <2>2, <3>1, <3>2, <3>3
  <2> QED
    BY <2>3, <2>4
<1>5. i \in 1..9 => Digit(r) = Digit(n) /\ (r[i] = n[i] \/ Distinct(r[i], n[i]))
  <2> SUFFICES ASSUME i \in 1..9
               PROVE  Digit(r) = Digit(n) /\ (r[i] = n[i] \/ Distinct(r[i], n[i]))
    OBVIOUS
  <2>1. 10 \in 1..44 /\ 10 # i
    OBVIOUS
  <2>2. l[10] = Digit(n)
    BY <1>1, <1>3, <2>1
  <2>3. Digit(n) \in Decimal
    BY <1>1, DigitTyped DEF Text
  <2>4. Digit(r) = Digit(n)
    BY <1>2, <2>2, <2>3, CharTyped
  <2>5. n[i] = q[i]
    BY <1>1
  <2> QED
    BY <1>3, <2>4, <2>5
<1>6. r = n
  <2>1. PICK k : k = 9
    OBVIOUS
  <2>2. /\ Text(r, k) /\ Text(n, k) /\ \A j \in 1..k : j # i => r[j] = n[j]
        /\ i \in 1..k => Digit(r) = Digit(n) /\ (r[i] = n[i] \/ Distinct(r[i], n[i]))
    BY <1>1, <1>2, <1>4, <1>5, <2>1
  <2> QED
    BY <2>2, TextIsRead
<1> QED
  BY <1>1, <1>2, <1>6

(*************************** Dates and digits *******************************)

\* Two lines alike but at i, where they are told apart.
OneOff(l, q, i) ==
    /\ Text(l, 44) /\ Text(q, 44) /\ i \in 1..44
    /\ \A j \in 1..44 : j # i => l[j] = q[j]
    /\ l[i] = q[i] \/ Distinct(l[i], q[i])

LEMMA PartIsRead ==
    ASSUME NEW l, NEW q, NEW i, OneOff(l, q, i), NEW m, NEW n, NEW k, Within(m, n, k),
           NEW c \in 1..44, c \notin m..n, q[c] = Digit(Cut(q, m, n)),
           Digit(Cut(l, m, n)) = l[c]
    PROVE  Cut(l, m, n) = Cut(q, m, n)
<1>1. PICK s, t : /\ s = Cut(l, m, n) /\ t = Cut(q, m, n) /\ Text(s, k) /\ Text(t, k)
                  /\ Stands(s, l, m) /\ Stands(t, q, m)
  BY PartIs DEF OneOff
<1>2. \A j \in 1..k : m + j - 1 \in 1..44 /\ s[j] = l[m + j - 1] /\ t[j] = q[m + j - 1]
  <2>1. \A j \in 1..k : m + j - 1 \in 1..44
    BY DEF Within
  <2> QED
    BY <1>1, <2>1 DEF Text, Stands
<1>3. PICK h \in Int : h = i - m + 1
  BY DEF OneOff, Within
<1>4. \A j \in 1..k : j # h => m + j - 1 # i
  BY <1>3 DEF OneOff, Within
<1>5. \A j \in 1..k : j # h => s[j] = t[j]
  BY <1>2, <1>4 DEF OneOff
<1>6. h \in 1..k => Digit(s) = Digit(t) /\ (s[h] = t[h] \/ Distinct(s[h], t[h]))
  <2> SUFFICES ASSUME h \in 1..k
               PROVE  Digit(s) = Digit(t) /\ (s[h] = t[h] \/ Distinct(s[h], t[h]))
    OBVIOUS
  <2>1. m + h - 1 = i /\ i \in m..n
    BY <1>3 DEF OneOff, Within
  <2>2. c # i
    BY <2>1
  <2>3. l[c] = q[c]
    BY <2>2 DEF OneOff
  <2>4. s[h] = l[i] /\ t[h] = q[i]
    BY <1>2, <2>1
  <2> QED
    BY <1>1, <2>3, <2>4 DEF OneOff
<1>7. s = t
  BY <1>1, <1>5, <1>6, TextIsRead
<1> QED
  BY <1>1, <1>7

LEMMA NumericTold ==
    ASSUME NEW a \in Char, NEW b \in Decimal, a = b \/ Distinct(a, b)
    PROVE  Numeric(a) = b \/ Distinct(Numeric(a), b)
<1>1. Numeric(a) = a \/ Numeric(a) \in Decimal
  BY DEF Numeric, Letter, Decimal
<1>2. \A x \in Decimal : x = b \/ Distinct(x, b)
  BY DEF Decimal, Distinct, Filler
<1> QED
  BY <1>1, <1>2

LEMMA RepairIsRead ==
    ASSUME NEW l, NEW q, NEW i, OneOff(l, q, i), NEW m, NEW n, NEW k, Within(m, n, k),
           NEW c \in 1..44, c \notin m..n, q[c] = Digit(Cut(q, m, n)),
           \A j \in 1..k : Cut(q, m, n)[j] \in Decimal,
           Digit(AllNumeric(Cut(l, m, n))) = Numeric(l[c])
    PROVE  AllNumeric(Cut(l, m, n)) = Cut(q, m, n)
<1>1. PICK s, t : /\ s = Cut(l, m, n) /\ t = Cut(q, m, n) /\ Text(s, k) /\ Text(t, k)
                  /\ Stands(s, l, m) /\ Stands(t, q, m)
  BY PartIs DEF OneOff
<1>2. \A j \in 1..k : m + j - 1 \in 1..44 /\ s[j] = l[m + j - 1] /\ t[j] = q[m + j - 1]
  <2>1. \A j \in 1..k : m + j - 1 \in 1..44
    BY DEF Within
  <2> QED
    BY <1>1, <2>1 DEF Text, Stands
<1>3. PICK u : u = AllNumeric(s) /\ Text(u, k) /\ \A j \in 1..k : u[j] = Numeric(s[j])
  <2>1. k \in Nat
    BY DEF Within
  <2> QED
    BY <1>1, <2>1, NumericIs
<1>4. PICK h \in Int : h = i - m + 1
  BY DEF OneOff, Within
<1>5. \A j \in 1..k : j # h => m + j - 1 # i
  BY <1>4 DEF OneOff, Within
<1>6. \A j \in 1..k : j # h => s[j] = t[j]
  BY <1>2, <1>5 DEF OneOff
<1>7. \A j \in 1..k : t[j] \in Decimal
  BY <1>1
<1>8. \A j \in 1..k : j # h => u[j] = t[j]
  BY <1>3, <1>6, <1>7, CharTyped
<1>9. h \in 1..k => Digit(u) = Digit(t) /\ (u[h] = t[h] \/ Distinct(u[h], t[h]))
  <2> SUFFICES ASSUME h \in 1..k
               PROVE  Digit(u) = Digit(t) /\ (u[h] = t[h] \/ Distinct(u[h], t[h]))
    OBVIOUS
  <2>1. m + h - 1 = i /\ i \in m..n
    BY <1>4 DEF OneOff, Within
  <2>2. c # i
    BY <2>1
  <2>3. l[c] = q[c]
    BY <2>2 DEF OneOff
  <2>4. s[h] = l[i] /\ t[h] = q[i]
    BY <1>2, <2>1
  <2>5. Digit(t) \in Decimal
    BY <1>1, DigitTyped DEF Text
  <2>6. Digit(u) = Digit(t)
    BY <1>1, <1>3, <2>3, <2>5, CharTyped
  <2>7. s[h] \in Char
    BY <1>1, LenProperties DEF Text
  <2>8. s[h] = t[h] \/ Distinct(s[h], t[h])
    BY <2>4 DEF OneOff
  <2>9. Numeric(s[h]) = t[h] \/ Distinct(Numeric(s[h]), t[h])
    BY <1>7, <2>7, <2>8, NumericTold
  <2> QED
    BY <1>3, <2>6, <2>9
<1>10. u = t
  BY <1>1, <1>3, <1>8, <1>9, TextIsRead
<1> QED
  BY <1>1, <1>3, <1>10

(******************************** Readings *********************************)

\* The dates of checked_prefix, of parse_td3.
Dob(l) == DateValue(AllNumeric(Birth(l)), TRUE)
End(l) == DateValue(AllNumeric(Expiry(l)), FALSE)
FormalDob(l) == DateValue(Birth(l), TRUE)
FormalEnd(l) == DateValue(Expiry(l), FALSE)

LEMMA DobIs ==
    ASSUME NEW l, NEW p \in Passport
    PROVE  /\ AllNumeric(Birth(l)) = Digits(p.dob) => Dob(l) = p.dob
           /\ AllNumeric(Expiry(l)) = Digits(p.expiry) => End(l) = p.expiry
           /\ Birth(l) = Digits(p.dob) => FormalDob(l) = p.dob
           /\ Expiry(l) = Digits(p.expiry) => FormalEnd(l) = p.expiry
BY DatesAreRead, Zenon DEF Dob, End, FormalDob, FormalEnd

Passes(l) ==
    /\ \A i \in 11..13 : IsLetter(l[i])
    /\ Indian(l) => IndianForm(Repaired(l))
    /\ Digit(Repaired(l)) = Numeric(l[10])
    /\ Digit(AllNumeric(Birth(l))) = Numeric(l[20])
    /\ Digit(AllNumeric(Expiry(l))) = Numeric(l[28])
    /\ Dob(l) # NoDate /\ End(l) # NoDate /\ Dob(l) < End(l)
    /\ l[21] \in {Letter.M, Letter.F, Letter.X, Filler}

LEMMA PrefixIs ==
    ASSUME NEW l
    PROVE  CheckedPrefix(l) =
               IF Passes(l)
               THEN [number |-> Stripped(Repaired(l)), dob |-> Dob(l), expiry |-> End(l)]
               ELSE NoReading
BY Zenon DEF CheckedPrefix, Passes, Dob, End

FormalPasses(l) ==
    /\ Digit(Number9(l)) = l[10]
    /\ Digit(Birth(l)) = l[20] /\ Digit(Expiry(l)) = l[28]
    /\ Digit(SubSeq(l, 1, 10) \o (SubSeq(l, 14, 20) \o SubSeq(l, 22, 43))) = l[44]
    /\ l[43] # Filler => Digit(SubSeq(l, 29, 42)) = l[43]

LEMMA FormalIs ==
    ASSUME NEW l
    PROVE  ParseTd3(l) =
               [number |-> WithoutFillers(Number9(l)), dob |-> FormalDob(l),
                expiry |-> FormalEnd(l), valid |-> FormalPasses(l)]
BY Zenon DEF ParseTd3, FormalPasses, FormalDob, FormalEnd

Reads(reading, p) ==
    reading.number = p.number /\ reading.dob = p.dob /\ reading.expiry = p.expiry

LEMMA NumberIsStripped ==
    ASSUME NEW p \in Passport
    PROVE  Stripped(NumberOf(p)) = p.number /\ WithoutFillers(NumberOf(p)) = p.number
<1>1. PICK n : n = Len(p.number) /\ Filled(NumberOf(p), n) /\ SubSeq(NumberOf(p), 1, n) = p.number
  BY NumberIsFilled
<1> QED
  BY <1>1, FilledIsStripped, FilledIsKept

\* The digits of a date, and where they are printed.
LEMMA DatesArePrinted ==
    ASSUME NEW p \in Passport, NEW q, q = Printed(p)
    PROVE  /\ Text(q, 44)
           /\ Cut(q, 1, 9) = NumberOf(p) /\ q[10] = Digit(Cut(q, 1, 9))
           /\ Cut(q, 14, 19) = Digits(p.dob) /\ q[20] = Digit(Cut(q, 14, 19))
           /\ Cut(q, 22, 27) = Digits(p.expiry) /\ q[28] = Digit(Cut(q, 22, 27))
           /\ \A j \in 1..6 : Digits(p.dob)[j] \in Decimal /\ Digits(p.expiry)[j] \in Decimal
<1>1. PrintedSo(q, p)
  BY LineIsPrinted
<1>2. p.dob \in Nat /\ p.expiry \in Nat
  BY PassportAssumption DEF IsPassport
<1>3. \A j \in 1..6 : Digits(p.dob)[j] \in Decimal /\ Digits(p.expiry)[j] \in Decimal
  <2>1. \A d \in Nat : \A j \in 1..6 : Digits(d)[j] \in Decimal
    <3> SUFFICES ASSUME NEW d \in Nat PROVE \A j \in 1..6 : Digits(d)[j] \in Decimal
      OBVIOUS
    <3>1. Digits(d) \in [1..6 -> Decimal]
      BY DigitsOf
    <3> QED
      BY <3>1
  <2> QED
    BY <1>2, <2>1
<1> QED
  BY <1>1, <1>3 DEF PrintedSo, Text, Cut

LEMMA ToldIsOneOff ==
    ASSUME NEW l, NEW p, NEW i, ToldAsRead(l, p, i)
    PROVE  OneOff(l, Printed(p), i) /\ p \in Passport
BY DatesArePrinted DEF ToldAsRead, MisreadAt, OneOff, Text

\* An accepted line has the dates of the passport, and its number if that is told.
LEMMA PrefixIsRight ==
    ASSUME NEW l, NEW p, NEW i, ToldAsRead(l, p, i), CheckedPrefix(l) # NoReading
    PROVE  /\ CheckedPrefix(l).dob = p.dob /\ CheckedPrefix(l).expiry = p.expiry
           /\ Told(l, p, i) => CheckedPrefix(l).number = p.number
<1>1. PICK q : q = Printed(p) /\ OneOff(l, q, i) /\ p \in Passport
  BY ToldIsOneOff
<1>2. Passes(l)
  BY PrefixIs
<1>3. Told(l, p, i) => Repaired(l) = NumberOf(p)
  BY <1>2, NumberIsRead DEF Passes
<1>4. AllNumeric(Birth(l)) = Digits(p.dob)
  <2>1. Within(14, 19, 6) /\ 20 \in 1..44 /\ 20 \notin 14..19
    BY DEF Within
  <2>2. q[20] = Digit(Cut(q, 14, 19)) /\ \A j \in 1..6 : Cut(q, 14, 19)[j] \in Decimal
    BY <1>1, DatesArePrinted
  <2>3. Digit(AllNumeric(Cut(l, 14, 19))) = Numeric(l[20])
    BY <1>2 DEF Passes, Birth, Cut
  <2>4. AllNumeric(Cut(l, 14, 19)) = Cut(q, 14, 19)
    BY <1>1, <2>1, <2>2, <2>3, RepairIsRead
  <2> QED
    BY <1>1, <2>4, DatesArePrinted DEF Birth, Cut
<1>5. AllNumeric(Expiry(l)) = Digits(p.expiry)
  <2>1. Within(22, 27, 6) /\ 28 \in 1..44 /\ 28 \notin 22..27
    BY DEF Within
  <2>2. q[28] = Digit(Cut(q, 22, 27)) /\ \A j \in 1..6 : Cut(q, 22, 27)[j] \in Decimal
    BY <1>1, DatesArePrinted
  <2>3. Digit(AllNumeric(Cut(l, 22, 27))) = Numeric(l[28])
    BY <1>2 DEF Passes, Expiry, Cut
  <2>4. AllNumeric(Cut(l, 22, 27)) = Cut(q, 22, 27)
    BY <1>1, <2>1, <2>2, <2>3, RepairIsRead
  <2> QED
    BY <1>1, <2>4, DatesArePrinted DEF Expiry, Cut
<1>6. Dob(l) = p.dob /\ End(l) = p.expiry
  BY <1>1, <1>4, <1>5, DobIs
<1>7. Told(l, p, i) => Stripped(Repaired(l)) = p.number
  BY <1>1, <1>3, NumberIsStripped
<1> QED
  BY <1>2, <1>6, <1>7, PrefixIs

LEMMA FormalIsRight ==
    ASSUME NEW l, NEW p, NEW i, ToldAsRead(l, p, i), ParseTd3(l).valid
    PROVE  Reads(ParseTd3(l), p)
<1>1. PICK q : q = Printed(p) /\ OneOff(l, q, i) /\ p \in Passport
  BY ToldIsOneOff
<1>2. FormalPasses(l)
  BY FormalIs
<1>3. Number9(l) = NumberOf(p)
  <2>1. Within(1, 9, 9) /\ 10 \in 1..44 /\ 10 \notin 1..9
    BY DEF Within
  <2>2. q[10] = Digit(Cut(q, 1, 9)) /\ Cut(q, 1, 9) = NumberOf(p)
    BY <1>1, DatesArePrinted
  <2>3. Digit(Cut(l, 1, 9)) = l[10]
    BY <1>2 DEF FormalPasses, Number9, Cut
  <2>4. Cut(l, 1, 9) = Cut(q, 1, 9)
    BY <1>1, <2>1, <2>2, <2>3, PartIsRead
  <2> QED
    BY <2>2, <2>4 DEF Number9, Cut
<1>4. Birth(l) = Digits(p.dob)
  <2>1. Within(14, 19, 6) /\ 20 \in 1..44 /\ 20 \notin 14..19
    BY DEF Within
  <2>2. q[20] = Digit(Cut(q, 14, 19)) /\ Cut(q, 14, 19) = Digits(p.dob)
    BY <1>1, DatesArePrinted
  <2>3. Digit(Cut(l, 14, 19)) = l[20]
    BY <1>2 DEF FormalPasses, Birth, Cut
  <2>4. Cut(l, 14, 19) = Cut(q, 14, 19)
    BY <1>1, <2>1, <2>2, <2>3, PartIsRead
  <2> QED
    BY <2>2, <2>4 DEF Birth, Cut
<1>5. Expiry(l) = Digits(p.expiry)
  <2>1. Within(22, 27, 6) /\ 28 \in 1..44 /\ 28 \notin 22..27
    BY DEF Within
  <2>2. q[28] = Digit(Cut(q, 22, 27)) /\ Cut(q, 22, 27) = Digits(p.expiry)
    BY <1>1, DatesArePrinted
  <2>3. Digit(Cut(l, 22, 27)) = l[28]
    BY <1>2 DEF FormalPasses, Expiry, Cut
  <2>4. Cut(l, 22, 27) = Cut(q, 22, 27)
    BY <1>1, <2>1, <2>2, <2>3, PartIsRead
  <2> QED
    BY <2>2, <2>4 DEF Expiry, Cut
<1>6. FormalDob(l) = p.dob /\ FormalEnd(l) = p.expiry /\ WithoutFillers(Number9(l)) = p.number
  BY <1>1, <1>3, <1>4, <1>5, DobIs, NumberIsStripped
<1> QED
  BY <1>2, <1>6, FormalIs DEF Reads

(**************************** Lines accepted *******************************)

\* Where a digit is repaired: in the number only that of an Indian line.
Repairable(l) == (IF Indian(l) THEN 2..8 ELSE {}) \cup {10} \cup 14..20 \cup 22..28

\* A line of p, read as printed but perhaps at i, where it is repaired.
LooksAt(l, p, i) ==
    /\ MisreadAt(l, p, i)
    /\ l[i] = Printed(p)[i] \/ (i \in Repairable(l) /\ Numeric(l[i]) = Printed(p)[i])

LEMMA CutsAlike ==
    ASSUME NEW l, NEW q, NEW m, NEW n, NEW k, Text(l, 44), Text(q, 44), Within(m, n, k)
    PROVE  /\ (\A j \in m..n : l[j] = q[j]) => Cut(l, m, n) = Cut(q, m, n)
           /\ (\A j \in m..n : Numeric(l[j]) = q[j]) => AllNumeric(Cut(l, m, n)) = Cut(q, m, n)
           /\ \A j \in m..n : j - m + 1 \in 1..k /\ q[j] = Cut(q, m, n)[j - m + 1]
<1>1. PICK s, t : /\ s = Cut(l, m, n) /\ t = Cut(q, m, n) /\ Text(s, k) /\ Text(t, k)
                  /\ Stands(s, l, m) /\ Stands(t, q, m)
  BY PartIs
<1>2. \A j \in 1..k : m + j - 1 \in m..n /\ s[j] = l[m + j - 1] /\ t[j] = q[m + j - 1]
  <2>1. \A j \in 1..k : m + j - 1 \in m..n
    BY DEF Within
  <2> QED
    BY <1>1, <2>1 DEF Text, Stands
<1>3. PICK u : u = AllNumeric(s) /\ Text(u, k) /\ \A j \in 1..k : u[j] = Numeric(s[j])
  <2>1. k \in Nat
    BY DEF Within
  <2> QED
    BY <1>1, <2>1, NumericIs
<1>4. (\A j \in m..n : l[j] = q[j]) => s = t
  <2> SUFFICES ASSUME \A j \in m..n : l[j] = q[j] PROVE s = t
    OBVIOUS
  <2>1. \A j \in 1..k : s[j] = t[j]
    BY <1>2
  <2> QED
    BY <1>1, <2>1, SeqEqual DEF Text
<1>5. (\A j \in m..n : Numeric(l[j]) = q[j]) => u = t
  <2> SUFFICES ASSUME \A j \in m..n : Numeric(l[j]) = q[j] PROVE u = t
    OBVIOUS
  <2>1. \A j \in 1..k : u[j] = t[j]
    BY <1>2, <1>3
  <2> QED
    BY <1>1, <1>3, <2>1, SeqEqual DEF Text
<1>6. \A j \in m..n : j - m + 1 \in 1..k /\ q[j] = t[j - m + 1]
  <2> SUFFICES ASSUME NEW j \in m..n PROVE j - m + 1 \in 1..k /\ q[j] = t[j - m + 1]
    OBVIOUS
  <2>1. PICK h \in 1..k : h = j - m + 1 /\ m + h - 1 = j
    BY DEF Within
  <2> QED
    BY <1>2, <2>1
<1> QED
  BY <1>1, <1>3, <1>4, <1>5, <1>6

\* Which characters of a line are digits, and which letters.
LEMMA DigitsStand ==
    ASSUME NEW p \in Passport, NEW q, q = Printed(p)
    PROVE  /\ \A j \in {10} \cup 14..20 \cup 22..28 : q[j] \in Decimal
           /\ Cut(q, 11, 13) = p.country /\ \A j \in 11..13 : IsLetter(q[j])
           /\ q[21] \in {Letter.M, Letter.F, Letter.X, Filler}
<1>1. /\ Text(q, 44) /\ SubSeq(q, 11, 13) = p.country /\ q[21] = p.sex
      /\ Cut(q, 14, 19) = Digits(p.dob) /\ Cut(q, 22, 27) = Digits(p.expiry)
      /\ q[10] = Digit(Cut(q, 1, 9)) /\ q[20] = Digit(Cut(q, 14, 19))
      /\ q[28] = Digit(Cut(q, 22, 27))
      /\ \A j \in 1..6 : Digits(p.dob)[j] \in Decimal /\ Digits(p.expiry)[j] \in Decimal
  BY DatesArePrinted, LineIsPrinted DEF PrintedSo
<1>2. /\ Within(1, 9, 9) /\ Within(14, 19, 6) /\ Within(22, 27, 6) /\ Within(11, 13, 3)
  BY DEF Within
<1>3. q[10] \in Decimal /\ q[20] \in Decimal /\ q[28] \in Decimal
  <2>1. Text(Cut(q, 1, 9), 9) /\ Text(Cut(q, 14, 19), 6) /\ Text(Cut(q, 22, 27), 6)
    BY <1>1, <1>2, PartIs
  <2> QED
    BY <1>1, <2>1, DigitTyped DEF Text
<1>4. \A j \in 14..19 : q[j] \in Decimal
  <2>1. \A j \in 14..19 : j - 14 + 1 \in 1..6 /\ q[j] = Cut(q, 14, 19)[j - 14 + 1]
    BY <1>1, <1>2, CutsAlike
  <2> QED
    BY <1>1, <2>1
<1>5. \A j \in 22..27 : q[j] \in Decimal
  <2>1. \A j \in 22..27 : j - 22 + 1 \in 1..6 /\ q[j] = Cut(q, 22, 27)[j - 22 + 1]
    BY <1>1, <1>2, CutsAlike
  <2> QED
    BY <1>1, <2>1
<1>6. \A j \in 11..13 : IsLetter(q[j])
  <2>1. \A j \in 11..13 : j - 11 + 1 \in 1..3 /\ q[j] = Cut(q, 11, 13)[j - 11 + 1]
    BY <1>1, <1>2, CutsAlike
  <2>2. p.country \in Seq(10..35) /\ Len(p.country) = 3
    BY PassportAssumption DEF IsPassport
  <2>3. \A j \in 1..3 : p.country[j] \in 10..35
    BY <2>2, LenProperties
  <2> QED
    BY <1>1, <2>1, <2>3 DEF Cut, IsLetter
<1>7. q[21] \in {Letter.M, Letter.F, Letter.X, Filler}
  BY <1>1, PassportAssumption DEF IsPassport
<1>8. \A j \in {10} \cup 14..20 \cup 22..28 : j \in {10, 20, 28} \/ j \in 14..19 \/ j \in 22..27
  OBVIOUS
<1>9. \A j \in {10} \cup 14..20 \cup 22..28 : q[j] \in Decimal
  BY <1>3, <1>4, <1>5, <1>8
<1> QED
  BY <1>1, <1>6, <1>7, <1>9 DEF Cut

LEMMA NumberIsRepaired ==
    ASSUME NEW l, NEW p, NEW i, LooksAt(l, p, i)
    PROVE  Repaired(l) = NumberOf(p) /\ (Indian(l) => p.country = IND)
<1>1. PICK q, n : /\ q = Printed(p) /\ n = NumberOf(p) /\ Text(n, 9) /\ Text(q, 44)
                  /\ \A j \in 1..9 : n[j] = q[j]
  BY LineTyped DEF LooksAt, MisreadAt
<1>2. PICK r : r = Repaired(l) /\ Text(r, 9)
  BY RepairedIs DEF LooksAt, MisreadAt
<1>3. /\ p \in Passport /\ l \in Seq(Char) /\ Len(l) = 44 /\ i \in 1..44
      /\ \A j \in 1..44 : j # i => l[j] = q[j]
      /\ l[i] = q[i] \/ (i \in Repairable(l) /\ Numeric(l[i]) = q[i])
  BY <1>1 DEF LooksAt, MisreadAt
<1>4. Indian(l) => p.country = IND
  <2>1. \A j \in 11..13 : j \in 1..44 /\ j \notin Repairable(l)
    BY DEF Repairable
  <2>2. \A j \in 11..13 : l[j] = q[j]
    BY <1>3, <2>1
  <2>3. Within(11, 13, 3) /\ Text(l, 44)
    BY <1>3 DEF Within, Text
  <2>4. Cut(l, 11, 13) = Cut(q, 11, 13)
    BY <1>1, <2>2, <2>3, CutsAlike
  <2>5. Cut(q, 11, 13) = p.country
    BY <1>1, <1>3, DigitsStand
  <2> QED
    BY <2>4, <2>5 DEF Indian, Cut
<1>5. \A j \in 1..9 : r[j] = n[j]
  <2>1. CASE ~Indian(l)
    <3>1. \A j \in 1..9 : j \in 1..44 /\ j \notin Repairable(l)
      BY <2>1 DEF Repairable
    <3>2. \A j \in 1..9 : l[j] = q[j]
      BY <1>3, <3>1
    <3> QED
      BY <1>1, <1>2, <1>3, <2>1, <3>2, RepairedIs
  <2>2. CASE Indian(l)
    <3>1. r[1] = Lead(l[1]) /\ r[9] = Filler /\ \A k \in 2..8 : r[k] = Numeric(l[k])
      BY <1>2, <1>3, <2>2, RepairedIs
    <3>2. n[9] = Filler /\ Lead(n[1]) = n[1] /\ \A k \in 2..8 : Numeric(n[k]) = n[k]
      BY <1>1, <1>3, <1>4, <2>2, IndianIsFixed
    <3>3. l[1] = q[1]
      <4>1. 1 \in 1..44 /\ 1 \notin Repairable(l)
        BY DEF Repairable
      <4> QED
        BY <1>3, <4>1
    <3>4. \A j \in 2..8 : j \in 1..44 /\ j \in 1..9
      OBVIOUS
    <3>5. \A j \in 2..8 : Numeric(l[j]) = n[j]
      <4> SUFFICES ASSUME NEW j \in 2..8 PROVE Numeric(l[j]) = n[j]
        OBVIOUS
      <4>1. j \in 1..44 /\ n[j] = q[j] /\ Numeric(n[j]) = n[j]
        BY <1>1, <3>2, <3>4
      <4>2. l[j] = q[j] \/ Numeric(l[j]) = q[j]
        BY <1>3, <4>1
      <4> QED
        BY <4>1, <4>2
    <3>6. r[1] = n[1]
      BY <1>1, <3>1, <3>2, <3>3
    <3>7. \A j \in 1..9 : j = 1 \/ j = 9 \/ j \in 2..8
      OBVIOUS
    <3> QED
      BY <3>1, <3>2, <3>5, <3>6, <3>7
  <2> QED
    BY <2>1, <2>2
<1>6. r = n
  BY <1>1, <1>2, <1>5, SeqEqual DEF Text
<1> QED
  BY <1>1, <1>2, <1>4, <1>6

LEMMA PrefixIsRead ==
    ASSUME NEW l, NEW p, NEW i, LooksAt(l, p, i) PROVE Reads(CheckedPrefix(l), p)
<1>1. PICK q : q = Printed(p) /\ Text(q, 44)
  BY DatesArePrinted DEF LooksAt, MisreadAt
<1>2. /\ p \in Passport /\ Text(l, 44) /\ i \in 1..44
      /\ \A j \in 1..44 : j # i => l[j] = q[j]
      /\ l[i] = q[i] \/ (i \in Repairable(l) /\ Numeric(l[i]) = q[i])
  BY <1>1 DEF LooksAt, MisreadAt, Text
<1>3. \A j \in {10} \cup 14..20 \cup 22..28 : Numeric(l[j]) = q[j]
  <2>1. \A j \in {10} \cup 14..20 \cup 22..28 : j \in 1..44 /\ q[j] \in Decimal
    BY <1>1, <1>2, DigitsStand
  <2> QED
    BY <1>2, <2>1, CharTyped
<1>4. \A j \in 11..13 : l[j] = q[j]
  <2>1. \A j \in 11..13 : j \in 1..44 /\ j \notin Repairable(l)
    BY DEF Repairable
  <2> QED
    BY <1>2, <2>1
<1>5. l[21] = q[21]
  <2>1. 21 \in 1..44 /\ 21 \notin Repairable(l)
    BY DEF Repairable
  <2> QED
    BY <1>2, <2>1
<1>6. Within(14, 19, 6) /\ Within(22, 27, 6)
  BY DEF Within
<1>7. AllNumeric(Birth(l)) = Digits(p.dob) /\ q[20] = Digit(Digits(p.dob))
  <2>1. \A j \in 14..19 : Numeric(l[j]) = q[j]
    BY <1>3
  <2>2. AllNumeric(Cut(l, 14, 19)) = Cut(q, 14, 19)
    BY <1>1, <1>2, <1>6, <2>1, CutsAlike
  <2>3. Cut(q, 14, 19) = Digits(p.dob) /\ q[20] = Digit(Cut(q, 14, 19))
    BY <1>1, <1>2, DatesArePrinted
  <2> QED
    BY <2>2, <2>3 DEF Birth, Cut
<1>8. AllNumeric(Expiry(l)) = Digits(p.expiry) /\ q[28] = Digit(Digits(p.expiry))
  <2>1. \A j \in 22..27 : Numeric(l[j]) = q[j]
    BY <1>3
  <2>2. AllNumeric(Cut(l, 22, 27)) = Cut(q, 22, 27)
    BY <1>1, <1>2, <1>6, <2>1, CutsAlike
  <2>3. Cut(q, 22, 27) = Digits(p.expiry) /\ q[28] = Digit(Cut(q, 22, 27))
    BY <1>1, <1>2, DatesArePrinted
  <2> QED
    BY <2>2, <2>3 DEF Expiry, Cut
<1>9. Dob(l) = p.dob /\ End(l) = p.expiry
  BY <1>2, <1>7, <1>8, DobIs
<1>10. p.dob # NoDate /\ p.expiry # NoDate /\ p.dob < p.expiry
  <2>1. p.dob < p.issued /\ p.issued < p.expiry /\ p.dob \in Nat /\ p.issued \in Nat /\ p.expiry \in Nat
    BY <1>2, PassportAssumption DEF IsPassport
  <2>2. p.dob < p.expiry
    BY <2>1
  <2> QED
    BY <1>2, <2>2, DatesAreRead, Zenon
<1>11. Repaired(l) = NumberOf(p) /\ (Indian(l) => IndianForm(Repaired(l)))
  BY <1>2, NumberIsRepaired, IndianIsFixed
<1>12. q[10] = Digit(NumberOf(p))
  BY <1>1, <1>2, DatesArePrinted
<1>13. Numeric(l[10]) = q[10] /\ Numeric(l[20]) = q[20] /\ Numeric(l[28]) = q[28]
  BY <1>3
<1>14. \A j \in 11..13 : IsLetter(l[j])
  BY <1>1, <1>2, <1>4, DigitsStand
<1>15. l[21] \in {Letter.M, Letter.F, Letter.X, Filler}
  BY <1>1, <1>2, <1>5, DigitsStand
<1>16. Passes(l)
  BY <1>7, <1>8, <1>9, <1>10, <1>11, <1>12, <1>13, <1>14, <1>15 DEF Passes
<1>17. Stripped(Repaired(l)) = p.number
  BY <1>2, <1>11, NumberIsStripped
<1> QED
  BY <1>9, <1>16, <1>17, PrefixIs DEF Reads

LEMMA FormalIsRead ==
    ASSUME NEW p \in Passport
    PROVE  Reads(ParseTd3(Printed(p)), p) /\ ParseTd3(Printed(p)).valid
<1>1. PICK q : q = Printed(p) /\ PrintedSo(q, p)
  BY LineIsPrinted
<1>2. Number9(q) = NumberOf(p) /\ Birth(q) = Digits(p.dob) /\ Expiry(q) = Digits(p.expiry)
  BY <1>1 DEF PrintedSo, Number9, Birth, Expiry
<1>3. Digit(Number9(q)) = q[10] /\ Digit(Birth(q)) = q[20] /\ Digit(Expiry(q)) = q[28]
  BY <1>1, <1>2 DEF PrintedSo
<1>4. Digit(SubSeq(q, 1, 10) \o (SubSeq(q, 14, 20) \o SubSeq(q, 22, 43))) = q[44]
  <2>1. HeadOf(p) \o BirthOf(p) \o RestOf(p) = HeadOf(p) \o (BirthOf(p) \o RestOf(p))
    <3>1. HeadOf(p) \in Seq(Char) /\ BirthOf(p) \in Seq(Char) /\ RestOf(p) \in Seq(Char)
      BY PartsTyped
    <3> HIDE DEF HeadOf, BirthOf, RestOf
    <3> QED
      BY <3>1, ConcatAssociative
  <2> QED
    BY <1>1, <2>1 DEF PrintedSo
<1>5. FormalPasses(q)
  BY <1>1, <1>3, <1>4 DEF PrintedSo, FormalPasses
<1>6. /\ WithoutFillers(Number9(q)) = p.number /\ FormalDob(q) = p.dob
      /\ FormalEnd(q) = p.expiry
  BY <1>2, NumberIsStripped, DobIs
<1> QED
  BY <1>1, <1>5, <1>6, FormalIs DEF Reads

(******************************* Invariants ********************************)

\* The line is the printed one but where it is misread.
LineInv ==
    /\ passport \in Passport /\ line \in Seq(Char) /\ Len(line) = 44
    /\ misread \in SUBSET (1..44) /\ IsFiniteSet(misread)
    /\ \A j \in 1..44 : j \notin misread => line[j] = Printed(passport)[j]

\* What the readers made of it is kept with it.
ReadingInv ==
    /\ prefix = Unread => formal = NotParsed /\ seen = {}
    /\ prefix # Unread => prefix = CheckedPrefix(line) /\ formal = ParseTd3(line)

\* The issue date comes from the dates seen and the dates known.
IssueInv ==
    /\ seen \in SUBSET Dates
    /\ seen # {} => issue = RecoveredIssue(seen, Known(prefix.dob, labels.dob),
                                          Known(prefix.expiry, labels.expiry))

MrzInv == LineInv /\ ReadingInv /\ IssueInv

LEMMA PrefixIsNotUnread == ASSUME NEW l PROVE CheckedPrefix(l) # Unread
<1>1. CASE Passes(l)
  BY <1>1, PrefixIs DEF Passes, Unread
<1>2. CASE ~Passes(l)
  <2>1. <<>> # <<Filler>>
    BY EmptySeq
  <2> QED
    BY <1>2, <2>1, PrefixIs DEF NoReading, Unread
<1> QED
  BY <1>1, <1>2

LEMMA InitMrz == MrzInit => MrzInv
<1> SUFFICES ASSUME MrzInit PROVE MrzInv
  OBVIOUS
<1>1. LineInv
  BY DatesArePrinted, FS_EmptySet DEF MrzInit, LineInv, Text
<1>2. ReadingInv /\ IssueInv
  BY DEF MrzInit, ReadingInv, IssueInv
<1> QED
  BY <1>1, <1>2 DEF MrzInv

LEMMA NextMrz == MrzInv /\ [MrzNext]_mrzVars => MrzInv'
<1> SUFFICES ASSUME MrzInv, [MrzNext]_mrzVars PROVE MrzInv'
  OBVIOUS
<1>0. LineInv /\ ReadingInv /\ IssueInv
  BY DEF MrzInv
<1>1. ASSUME NEW i \in Positions, NEW c \in Glyph, Misread(i, c) PROVE MrzInv'
  <2>1. /\ passport' = passport /\ prefix' = prefix /\ formal' = formal /\ seen' = seen
        /\ issue' = issue /\ misread' = misread \cup {i} /\ line' = [line EXCEPT ![i] = c]
        /\ prefix = Unread /\ i \in 1..44 /\ c \in Char /\ labels' = labels
    BY <1>1, PassportAssumption DEF Misread, Positions
  <2>2. line \in [1..44 -> Char]
    BY <1>0, LenProperties DEF LineInv
  <2>3. line' \in Seq(Char) /\ Len(line') = 44
    <3>1. line' \in [1..44 -> Char]
      BY <2>1, <2>2
    <3>2. line' = [j \in 1..44 |-> line'[j]] /\ \A j \in 1..44 : line'[j] \in Char
      BY <3>1
    <3>3. [j \in 1..44 |-> line'[j]] \in Seq(Char) /\ Len([j \in 1..44 |-> line'[j]]) = 44
      BY <3>2
    <3> QED
      BY <3>2, <3>3
  <2>4. misread' \in SUBSET (1..44) /\ IsFiniteSet(misread')
    BY <1>0, <2>1, FS_AddElement DEF LineInv
  <2>5. \A j \in 1..44 : j \notin misread' => line'[j] = Printed(passport)[j]
    BY <1>0, <2>1, <2>2 DEF LineInv
  <2>6. LineInv'
    BY <1>0, <2>1, <2>3, <2>4, <2>5 DEF LineInv
  <2>7. ReadingInv' /\ IssueInv'
    BY <1>0, <2>1 DEF ReadingInv, IssueInv, Dates
  <2> QED
    BY <2>6, <2>7 DEF MrzInv
<1>2. ASSUME ReadLine PROVE MrzInv'
  <2>1. /\ passport' = passport /\ line' = line /\ misread' = misread /\ seen' = seen
        /\ issue' = issue /\ prefix = Unread /\ prefix' = CheckedPrefix(line)
        /\ formal' = ParseTd3(line) /\ labels' = labels
    BY <1>2 DEF ReadLine
  <2>2. LineInv'
    BY <1>0, <2>1 DEF LineInv
  <2>3. ReadingInv'
    BY <2>1, PrefixIsNotUnread DEF ReadingInv
  <2>4. IssueInv'
    BY <1>0, <2>1 DEF ReadingInv, IssueInv, Dates
  <2> QED
    BY <2>2, <2>3, <2>4 DEF MrzInv
<1>3. ASSUME RecoverIssue PROVE MrzInv'
  <2>1. PICK dates \in SUBSET Dates : \E d \in dates \cup {NoDate}, x \in dates \cup {NoDate} :
          /\ seen' = dates /\ labels' = [dob |-> d, expiry |-> x]
          /\ issue' = RecoveredIssue(dates, Known(prefix.dob, d), Known(prefix.expiry, x))
    BY <1>3 DEF RecoverIssue
  <2>a. PICK d, x : /\ seen' = dates /\ labels' = [dob |-> d, expiry |-> x]
                    /\ issue' = RecoveredIssue(dates, Known(prefix.dob, d),
                                               Known(prefix.expiry, x))
    BY <2>1
  <2>2. /\ passport' = passport /\ line' = line /\ misread' = misread /\ prefix' = prefix
        /\ formal' = formal /\ prefix # Unread
    BY <1>3 DEF RecoverIssue
  <2>3. LineInv'
    BY <1>0, <2>2 DEF LineInv
  <2>4. ReadingInv'
    BY <1>0, <2>2 DEF ReadingInv
  <2>5. Dates' = Dates /\ labels'.dob = d /\ labels'.expiry = x
    BY <2>a, <2>2 DEF Dates
  <2>6. IssueInv'
    BY <2>a, <2>2, <2>5 DEF IssueInv
  <2> QED
    BY <2>3, <2>4, <2>6 DEF MrzInv
<1>4. CASE UNCHANGED mrzVars
  BY <1>0, <1>4 DEF mrzVars, MrzInv, LineInv, ReadingInv, IssueInv, Dates
<1> QED
  BY <1>1, <1>2, <1>3, <1>4 DEF MrzNext

\* A line differs from the printed one where it is misread alone, readings are those of
\* the line, and a recovered issue date is one of the dates seen.
THEOREM MrzInvariant == MrzSpec => []MrzInv
<1>1. MrzInit => MrzInv
  BY InitMrz
<1>2. MrzInv /\ [MrzNext]_mrzVars => MrzInv'
  BY NextMrz
<1> QED
  BY <1>1, <1>2, PTL DEF MrzSpec

\* At most one character is misread: there is a place where alone it may be.
LEMMA OnePlace ==
    ASSUME LineInv, Cardinality(misread) <= 1
    PROVE  \E i : MisreadAt(line, passport, i) /\ (misread = {i} \/ (misread = {} /\ i = 44))
<1>1. Cardinality(misread) \in Nat
  BY FS_CardinalityType DEF LineInv
<1>2. misread = {} \/ \E i : misread = {i}
  <2>1. Cardinality(misread) = 0 => misread = {}
    BY FS_EmptySet DEF LineInv
  <2>2. Cardinality(misread) = 1 => \E i : misread = {i}
    BY FS_Singleton DEF LineInv
  <2> QED
    BY <1>1, <2>1, <2>2
<1>3. CASE misread = {}
  <2>1. 44 \in 1..44
    OBVIOUS
  <2>2. MisreadAt(line, passport, 44)
    BY <1>3, <2>1 DEF LineInv, MisreadAt
  <2> QED
    BY <1>3, <2>2
<1>4. CASE \E i : misread = {i}
  <2>1. PICK i : misread = {i}
    BY <1>4
  <2>2. i \in 1..44
    BY <2>1 DEF LineInv
  <2>3. MisreadAt(line, passport, i)
    BY <2>1, <2>2 DEF LineInv, MisreadAt
  <2> QED
    BY <2>1, <2>3
<1> QED
  BY <1>2, <1>3, <1>4

LEMMA OneTold ==
    ASSUME LineInv, OneMisread
    PROVE  \E i : /\ ToldAsRead(line, passport, i)
                  /\ ~RepairMisleads => Told(line, passport, i)
<1>1. PICK i : /\ MisreadAt(line, passport, i)
               /\ misread = {i} \/ (misread = {} /\ i = 44)
  BY OnePlace DEF OneMisread
<1>2. ~RepairMisleads /\ Indian(line) => passport.country = IND
  BY DEF RepairMisleads
<1>3. CASE misread = {i}
  <2>1. Distinct(line[i], Printed(passport)[i])
    BY <1>3 DEF OneMisread
  <2>2. ~RepairMisleads /\ i \in 1..9 =>
            \/ Repaired(line)[i] = line[i] \/ Repaired(line)[i] = Printed(passport)[i]
            \/ Distinct(Repaired(line)[i], Printed(passport)[i])
    BY <1>3 DEF RepairMisleads
  <2>3. ~RepairMisleads /\ i \in 1..9 =>
            \/ Repaired(line)[i] = Printed(passport)[i]
            \/ Distinct(Repaired(line)[i], Printed(passport)[i])
    BY <2>1, <2>2
  <2> QED
    BY <1>1, <1>2, <2>1, <2>3 DEF Told, ToldAsRead
<1>4. CASE misread = {} /\ i = 44
  <2>1. line[i] = Printed(passport)[i]
    BY <1>1, <1>4 DEF LineInv, MisreadAt
  <2>2. i \notin 1..9
    BY <1>4
  <2> QED
    BY <1>1, <1>2, <2>1, <2>2 DEF Told, ToldAsRead
<1> QED
  BY <1>1, <1>3, <1>4

\* One misread character that can be told leaves the dates, and the number too but
\* for a misleading repair.
LEMMA Refused == MrzInv => MisreadIsRefused
<1> SUFFICES ASSUME MrzInv, OneMisread
             PROVE  /\ Accepted => OwnDates(prefix) /\ (Is(prefix) \/ RepairMisleads)
                    /\ formal.valid => Is(formal)
  BY Zenon DEF MisreadIsRefused
<1>1. PICK i : /\ ToldAsRead(line, passport, i)
               /\ ~RepairMisleads => Told(line, passport, i)
  BY OneTold DEF MrzInv
<1>2. ASSUME Accepted PROVE OwnDates(prefix) /\ (Is(prefix) \/ RepairMisleads)
  <2>1. prefix = CheckedPrefix(line) /\ prefix # NoReading
    BY <1>2 DEF Accepted, MrzInv, ReadingInv
  <2>2. prefix.dob = passport.dob /\ prefix.expiry = passport.expiry
    BY <1>1, <2>1, PrefixIsRight
  <2>3. ~RepairMisleads => prefix.number = passport.number
    BY <1>1, <2>1, PrefixIsRight
  <2> QED
    BY <2>2, <2>3 DEF Is, OwnDates
<1>3. ASSUME formal.valid PROVE Is(formal)
  <2>1. formal = ParseTd3(line)
    BY <1>3 DEF MrzInv, ReadingInv, NotParsed
  <2> QED
    BY <1>1, <1>3, <2>1, FormalIsRight DEF Is, OwnDates, Reads
<1> QED
  BY <1>2, <1>3

LEMMA Read == MrzInv => LineIsRead
<1> SUFFICES ASSUME MrzInv, prefix # Unread PROVE
        /\ misread = {} => Is(prefix) /\ Is(formal) /\ formal.valid
        /\ \A i \in misread :
            /\ misread = {i} /\ \E x \in Looks : line[i] = x[2] /\ Printed(passport)[i] = x[1]
            /\ i \in (IF Indian(line) THEN 2..8 ELSE {}) \cup {10} \cup 14..20 \cup 22..28
            => Is(prefix)
  BY DEF LineIsRead
<1>1. LineInv /\ prefix = CheckedPrefix(line) /\ formal = ParseTd3(line)
  BY DEF MrzInv, ReadingInv
<1>2. ASSUME misread = {} PROVE Is(prefix) /\ Is(formal) /\ formal.valid
  <2>1. \A j \in 1..44 : line[j] = Printed(passport)[j]
    BY <1>1, <1>2 DEF LineInv
  <2>2. 44 \in 1..44
    OBVIOUS
  <2>3. LooksAt(line, passport, 44)
    <3>1. line[44] = Printed(passport)[44]
      BY <2>1, <2>2
    <3>2. MisreadAt(line, passport, 44)
      BY <1>1, <2>1, <2>2 DEF LineInv, MisreadAt
    <3> QED
      BY <3>1, <3>2 DEF LooksAt
  <2>4. line = Printed(passport)
    <3>1. Text(Printed(passport), 44) /\ Text(line, 44)
      BY <1>1, DatesArePrinted DEF LineInv, Text
    <3> QED
      BY <2>1, <3>1, SeqEqual DEF Text
  <2>5. Reads(prefix, passport)
    BY <1>1, <2>3, PrefixIsRead
  <2>6. Reads(formal, passport) /\ formal.valid
    BY <1>1, <2>4, FormalIsRead DEF LineInv
  <2> QED
    BY <2>5, <2>6 DEF Is, OwnDates, Reads
<1>3. ASSUME NEW i \in misread, misread = {i}, i \in Repairable(line),
             NEW x \in Looks, line[i] = x[2], Printed(passport)[i] = x[1]
      PROVE  Is(prefix)
  <2>1. MisreadAt(line, passport, i)
    BY <1>1, <1>3 DEF LineInv, MisreadAt
  <2>2. Numeric(line[i]) = Printed(passport)[i]
    BY <1>3 DEF Looks, Numeric, Letter
  <2>3. LooksAt(line, passport, i)
    BY <1>3, <2>1, <2>2 DEF LooksAt
  <2> QED
    BY <1>1, <2>3, PrefixIsRead DEF Is, OwnDates, Reads
<1> QED
  BY <1>2, <1>3 DEF Repairable

\* Numbers that are not above a bound have a greatest.
LEMMA GreatestNumber ==
    ASSUME NEW T \in SUBSET Nat, T # {}, NEW b \in Nat, \A t \in T : t <= b
    PROVE  Max(T) \in T /\ \A t \in T : Max(T) >= t
<1> DEFINE R == {b - t : t \in T}
<1>1. R \in SUBSET Nat /\ R # {}
  <2>1. \A t \in T : b - t \in Nat
    OBVIOUS
  <2> QED
    BY <2>1
<1>2. PICK n \in R : \A m \in R : n <= m
  <2> HIDE DEF R
  <2> QED
    BY <1>1, LeastNumber
<1>3. PICK g \in T : n = b - g
  BY <1>2
<1>4. \A t \in T : g >= t
  <2> SUFFICES ASSUME NEW t \in T PROVE g >= t
    OBVIOUS
  <2>1. n <= b - t
    BY <1>2
  <2> QED
    BY <1>3, <2>1
<1> QED
  BY <1>4 DEF Max

LEMMA Recovered == MrzInv => IssueIsRecovered
<1> SUFFICES ASSUME MrzInv, passport.issued \in seen, RightlyKnown
             PROVE  /\ issue >= passport.issued
                    /\ issue # passport.issued =>
                          /\ issue \in seen /\ issue <= Today
                          /\ Known(prefix.expiry, labels.expiry) # NoDate =>
                                 issue < passport.expiry
  BY DEF IssueIsRecovered
<1>1. passport \in Passport /\ prefix # Unread
  BY DEF MrzInv, LineInv, ReadingInv
<1>2. PICK b, s, e : b = passport.dob /\ s = passport.issued /\ e = passport.expiry
  OBVIOUS
<1>3. /\ b \in Nat /\ s \in Nat /\ e \in Nat /\ b < s /\ s <= Today /\ s < e /\ Today \in Nat
      /\ Stray \in SUBSET Nat
  BY <1>1, <1>2, PassportAssumption DEF IsPassport
<1>4. PICK dob, end : /\ dob = Known(prefix.dob, labels.dob)
                      /\ end = Known(prefix.expiry, labels.expiry)
                      /\ dob \in {NoDate, b} /\ end \in {NoDate, e}
  <2>1. CASE Accepted /\ OneMisread
    <3>1. prefix.dob = b /\ prefix.expiry = e
      BY <1>2, <2>1, Refused DEF MisreadIsRefused, OwnDates
    <3>2. Known(prefix.expiry, labels.expiry) = e
      BY <1>3, <3>1 DEF Known, NoDate
    <3>3. Known(prefix.dob, labels.dob) \in {NoDate, b}
      <4>1. b # NoDate
        <5>1. Year(0) = 0
          BY DEF Year
        <5>2. Year(b) \in Year(Today) - 99..Year(Today) /\ Year(Today) \in 2000..2099
          BY <1>1, <1>2, PassportAssumption DEF IsPassport
        <5> QED
          BY <5>1, <5>2 DEF NoDate
      <4> QED
        BY <3>1, <4>1 DEF Known
    <3> QED
      BY <3>2, <3>3
  <2>2. CASE /\ ~Accepted /\ labels.dob \in {NoDate, passport.dob}
             /\ labels.expiry \in {NoDate, passport.expiry}
    <3>1. prefix.dob = NoDate /\ prefix.expiry = NoDate
      BY <1>1, <2>2 DEF Accepted, NoReading
    <3> QED
      BY <1>2, <2>2, <3>1 DEF Known
  <2> QED
    BY <2>1, <2>2 DEF RightlyKnown
<1>5. seen \in SUBSET Nat /\ s \in seen
  BY <1>2, <1>3 DEF MrzInv, IssueInv, Dates
<1> DEFINE T == {NoDate} \cup {t \in seen \ {dob, end} : Plausible(t, dob, end)}
<1>6. s \in T
  BY <1>3, <1>4, <1>5 DEF Plausible, NoDate
<1>7. T \in SUBSET Nat /\ \A t \in T : t <= Today
  <2>1. \A t \in T : t \in Nat
    <3>1. NoDate \in Nat
      BY DEF NoDate
    <3>2. \A t \in T : t = NoDate \/ t \in seen
      OBVIOUS
    <3> HIDE DEF T
    <3> QED
      BY <1>5, <3>1, <3>2
  <2>2. NoDate <= Today
    BY <1>3 DEF NoDate
  <2>3. \A t \in seen : Plausible(t, dob, end) => t <= Today
    BY DEF Plausible
  <2> QED
    BY <2>1, <2>2, <2>3
<1>8. issue = Max(T)
  BY <1>4, <1>5 DEF MrzInv, IssueInv, RecoveredIssue
<1>9. issue \in T /\ \A t \in T : issue >= t
  <2> HIDE DEF T
  <2> QED
    BY <1>3, <1>6, <1>7, <1>8, GreatestNumber
<1>10. issue \in Nat /\ issue >= s /\ issue <= Today
  <2> HIDE DEF T
  <2> QED
    BY <1>6, <1>7, <1>9
<1>11. issue # s => issue \in seen /\ (end # NoDate => issue < e)
  <2> SUFFICES ASSUME issue # s PROVE issue \in seen /\ (end # NoDate => issue < e)
    OBVIOUS
  <2>1. issue # NoDate
    BY <1>3, <1>10 DEF NoDate
  <2>2. issue \in seen /\ Plausible(issue, dob, end)
    BY <1>9, <2>1
  <2> QED
    BY <1>4, <2>2 DEF Plausible
<1> QED
  BY <1>2, <1>4, <1>10, <1>11

\* What one misread character can do to the number and the dates of either reader,
\* whatever the passport: a misleading repair alone makes another number
\* (ocr_recovery.py 179-208, mrz.py 4-23).
THEOREM MisreadsAreRefused == MrzSpec => []MisreadIsRefused
BY MrzInvariant, Refused, PTL

\* A clean line is read by both, and a look-alike is repaired, whatever the passport
\* and the day (ocr_recovery.py 8, 166-200).
THEOREM LinesAreRead == MrzSpec => []LineIsRead
BY MrzInvariant, Read, PTL

\* Whatever dates a text shows, the issue date recovered beside rightly known dates is
\* the passport's own, or a later one of the text that they allow
\* (ocr_recovery.py 13-84).
THEOREM IssuesAreRecovered == MrzSpec => []IssueIsRecovered
BY MrzInvariant, Recovered, PTL
=============================================================================
