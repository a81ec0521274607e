----------------------------- MODULE OcrJobProofs -----------------------------
(* Theorems about OcrJob: an extraction page by page, in a child that may be  *)
(* refused, fail, hang or die, gives the verdict that Verification gives to   *)
(* the whole upload, for every upload, every page limit and every order.      *)
EXTENDS OcrJob, VerificationProofs, SequenceTheorems, WellFoundedInduction

(************************* Least and flattened *****************************)

LEMMA LeastNumber ==
    ASSUME NEW T \in SUBSET Nat, T # {} PROVE \E x \in T : \A y \in T : x <= y
<1> DEFINE R == {p \in Nat \X Nat : p[1] < p[2]}
<1>1. IsWellFoundedOn(R, Nat)
  BY NatLessThanWellFounded DEF OpToRel
<1> HIDE DEF R
<1>2. PICK x \in T : \A y \in T : <<y, x>> \notin R
  BY <1>1, WFMin
<1>3. \A y \in T : ~(y < x)
  BY <1>2 DEF R
<1> QED
  BY <1>3

LEMMA MinIsLeast ==
    ASSUME NEW T \in SUBSET Nat, T # {}
    PROVE  Min(T) \in T /\ \A y \in T : Min(T) <= y
BY LeastNumber DEF Min

\* What is flattened up to each sequence.
Sums(F, T, s) ==
    /\ F \in [0..Len(s) -> Seq(T)] /\ F[0] = <<>>
    /\ \A i \in 1..Len(s) : F[i] = F[i - 1] \o s[i]

\* The sums up to n exist: the least n without them would have them.
FirstSums(f, T, s, n) ==
    /\ f \in [1..n -> Seq(T)] /\ f[1] = s[1]
    /\ \A i \in 2..n : f[i] = f[i - 1] \o s[i]

LEMMA SumsExist ==
    ASSUME NEW T, NEW s \in Seq(Seq(T)), NEW k \in 1..Len(s)
    PROVE  \E f : FirstSums(f, T, s, k)
<1> DEFINE Bad == {n \in 1..Len(s) : ~ \E f : FirstSums(f, T, s, n)}
<1>1. Len(s) \in Nat /\ \A i \in 1..Len(s) : s[i] \in Seq(T)
  OBVIOUS
<1> SUFFICES ASSUME Bad # {} PROVE FALSE
  OBVIOUS
<1>2. PICK n \in Bad : \A m \in Bad : n <= m
  <2>1. Bad \in SUBSET Nat
    BY <1>1
  <2> HIDE DEF Bad
  <2> QED
    BY <2>1, LeastNumber
<1>3. n \in 1..Len(s) /\ n \in Nat
  BY <1>1, <1>2
<1>4. CASE n = 1
  <2>1. s[1] \in Seq(T)
    BY <1>1, <1>3, <1>4
  <2>2. FirstSums([i \in 1..1 |-> s[1]], T, s, 1)
    BY <2>1 DEF FirstSums
  <2> QED
    BY <1>2, <1>4, <2>2
<1>5. CASE n # 1
  <2>1. n - 1 \in 1..Len(s)
    BY <1>1, <1>3, <1>5
  <2>2. n - 1 \notin Bad
    <3> HIDE DEF Bad
    <3> QED
      BY <1>2, <1>3
  <2>3. PICK f : FirstSums(f, T, s, n - 1)
    BY <2>1, <2>2
  <2>4. f[n - 1] \in Seq(T) /\ s[n] \in Seq(T)
    BY <1>1, <1>3, <2>1, <2>3 DEF FirstSums
  <2>5. PICK last \in Seq(T) : last = f[n - 1] \o s[n]
    BY <2>4, ConcatProperties
  <2> DEFINE g == [i \in 1..n |-> IF i = n THEN last ELSE f[i]]
  <2>6. g[n] = last /\ \A i \in 1..(n - 1) : g[i] = f[i]
    BY <1>3
  <2>7. g \in [1..n -> Seq(T)]
    <3>1. \A i \in 1..(n - 1) : f[i] \in Seq(T)
      BY <2>3 DEF FirstSums
    <3>2. \A i \in 1..n : i # n => i \in 1..(n - 1)
      BY <1>3
    <3> QED
      BY <2>5, <3>1, <3>2
  <2>8. last = g[n - 1] \o s[n]
    <3>1. n - 1 \in 1..(n - 1)
      BY <1>3, <2>1
    <3> QED
      BY <2>5, <2>6, <3>1
  <2> HIDE DEF g
  <2>9. g[1] = s[1]
    BY <1>3, <2>1, <2>3, <2>6 DEF FirstSums
  <2>10. \A i \in 2..n : g[i] = g[i - 1] \o s[i]
    <3> SUFFICES ASSUME NEW i \in 2..n PROVE g[i] = g[i - 1] \o s[i]
      OBVIOUS
    <3>1. CASE i = n
      BY <2>6, <2>8, <3>1
    <3>2. CASE i # n
      <4>1. i \in 2..(n - 1) /\ i - 1 \in 1..(n - 1) /\ i \in 1..(n - 1)
        BY <1>3, <3>2
      <4>2. f[i] = f[i - 1] \o s[i]
        BY <2>3, <4>1 DEF FirstSums
      <4> QED
        BY <2>6, <4>1, <4>2
    <3> QED
      BY <3>1, <3>2
  <2>11. FirstSums(g, T, s, n)
    BY <2>7, <2>9, <2>10 DEF FirstSums
  <2> QED
    BY <1>2, <2>11
<1> QED
  BY <1>4, <1>5

LEMMA FlatSums ==
    ASSUME NEW T, NEW s \in Seq(Seq(T))
    PROVE  \E F : Sums(F, T, s) /\ FlattenSeq(s) = F[Len(s)]
<1>1. Len(s) \in Nat /\ \A i \in 1..Len(s) : s[i] \in Seq(T)
  OBVIOUS
<1>2. CASE Len(s) = 0
  <2> DEFINE F == [i \in {0} |-> <<>>]
  <2>1. s = <<>> /\ FlattenSeq(s) = <<>> /\ 0..Len(s) = {0} /\ 1..Len(s) = {}
    BY <1>2 DEF FlattenSeq
  <2>2. F \in [{0} -> Seq(T)] /\ F[0] = <<>>
    OBVIOUS
  <2>3. Sums(F, T, s) /\ FlattenSeq(s) = F[Len(s)]
    BY <1>2, <2>1, <2>2 DEF Sums
  <2> QED
    BY <2>3
<1>3. CASE Len(s) # 0
  <2> DEFINE Ind(f) == [i \in 1..Len(s) |-> IF i = 1 THEN s[i] ELSE f[i - 1] \o s[i]]
             g == CHOOSE f : f = Ind(f)
  <2>1. FlattenSeq(s) = g[Len(s)]
    BY <1>3 DEF FlattenSeq
  <2>2. PICK f : FirstSums(f, T, s, Len(s))
    BY <1>1, <1>3, SumsExist
  <2>3. f = Ind(f)
    <3>1. \A i \in 1..Len(s) : i # 1 => i \in 2..Len(s)
      BY <1>1
    <3>2. \A i \in 1..Len(s) : f[i] = IF i = 1 THEN s[i] ELSE f[i - 1] \o s[i]
      BY <2>2, <3>1 DEF FirstSums
    <3>3. f = [i \in 1..Len(s) |-> f[i]]
      BY <2>2 DEF FirstSums
    <3> QED
      BY <3>2, <3>3, Zenon
  <2>4. g = Ind(g)
    BY <2>3
  <2>5. \A i \in 1..Len(s) : g[i] = IF i = 1 THEN s[i] ELSE g[i - 1] \o s[i]
    <3> HIDE DEF g
    <3> QED
      BY <2>4
  <2> HIDE DEF g
  <2> DEFINE Bad == {i \in 1..Len(s) : g[i] # f[i]}
  <2>6. Bad = {}
    <3> SUFFICES ASSUME Bad # {} PROVE FALSE
      OBVIOUS
    <3>1. PICK n \in Bad : \A m \in Bad : n <= m
      <4>1. Bad \in SUBSET Nat
        BY <1>1
      <4> HIDE DEF Bad
      <4> QED
        BY <4>1, LeastNumber
    <3>2. n \in 1..Len(s) /\ n \in Nat /\ g[n] # f[n]
      BY <1>1, <3>1
    <3>3. CASE n = 1
      BY <2>2, <2>5, <3>2, <3>3 DEF FirstSums
    <3>4. CASE n # 1
      <4>1. n - 1 \in 1..Len(s) /\ n \in 2..Len(s)
        BY <1>1, <3>2, <3>4
      <4>2. n - 1 \notin Bad
        BY <1>1, <3>1, <3>2
      <4>3. g[n - 1] = f[n - 1]
        BY <4>1, <4>2
      <4>4. g[n] = g[n - 1] \o s[n]
        BY <2>5, <3>2, <3>4
      <4>5. f[n] = f[n - 1] \o s[n]
        BY <2>2, <4>1 DEF FirstSums
      <4> QED
        BY <3>2, <4>3, <4>4, <4>5
    <3> QED
      BY <3>3, <3>4
  <2>7. \A i \in 1..Len(s) : f[i] \in Seq(T)
    BY <2>2 DEF FirstSums
  <2> DEFINE F == [i \in 0..Len(s) |-> IF i = 0 THEN <<>> ELSE f[i]]
  <2>8. F \in [0..Len(s) -> Seq(T)]
    BY <1>1, <2>7
  <2>9. F[0] = <<>> /\ \A i \in 1..Len(s) : F[i] = f[i]
    BY <1>1
  <2> HIDE DEF F
  <2>10. \A i \in 1..Len(s) : F[i] = F[i - 1] \o s[i]
    <3> SUFFICES ASSUME NEW i \in 1..Len(s) PROVE F[i] = F[i - 1] \o s[i]
      OBVIOUS
    <3>1. CASE i = 1
      <4>1. <<>> \o s[1] = s[1] /\ f[1] = s[1] /\ i - 1 = 0
        BY <1>1, <2>2, <3>1, ConcatEmptySeq DEF FirstSums
      <4> QED
        BY <2>9, <3>1, <4>1
    <3>2. CASE i # 1
      <4>1. i \in 2..Len(s) /\ i - 1 \in 1..Len(s)
        BY <1>1, <3>2
      <4>2. f[i] = f[i - 1] \o s[i]
        BY <2>2, <4>1 DEF FirstSums
      <4> QED
        BY <2>9, <4>1, <4>2
    <3> QED
      BY <3>1, <3>2
  <2>11. FlattenSeq(s) = F[Len(s)]
    <3>1. Len(s) \in 1..Len(s)
      BY <1>1, <1>3
    <3>2. g[Len(s)] = f[Len(s)]
      BY <2>6, <3>1
    <3> QED
      BY <2>1, <2>9, <3>1, <3>2
  <2> QED
    BY <2>8, <2>9, <2>10, <2>11 DEF Sums
<1> QED
  BY <1>2, <1>3

(****************************** Prefixes ***********************************)

LEMMA PrefixOfLonger ==
    ASSUME NEW T, NEW s \in Seq(T), NEW t \in Seq(T)
    PROVE  IsPrefix(s, s \o t)
<1>1. /\ Len(s) \in Nat /\ Len(t) \in Nat /\ s \o t \in Seq(T)
      /\ Len(s \o t) = Len(s) + Len(t)
      /\ \A i \in 1..Len(s) : (s \o t)[i] = s[i]
  BY ConcatProperties
<1>2. SubSeq(s, 1, Len(s)) = SubSeq(s \o t, 1, Len(s))
  BY <1>1
<1> QED
  BY <1>1, <1>2 DEF IsPrefix

LEMMA PrefixAlike ==
    ASSUME NEW T, NEW s \in Seq(T), NEW t \in Seq(T)
    PROVE  IsPrefix(s, t) <=> Len(s) <= Len(t) /\ \A i \in 1..Len(s) : s[i] = t[i]
<1>1. Len(s) \in Nat /\ Len(t) \in Nat
  OBVIOUS
<1>2. SubSeq(s, 1, Len(s)) = [i \in 1..Len(s) |-> s[i]]
  BY <1>1
<1>3. SubSeq(t, 1, Len(s)) = [i \in 1..Len(s) |-> t[i]]
  BY <1>1
<1> QED
  BY <1>2, <1>3 DEF IsPrefix

LEMMA PrefixTransitive ==
    ASSUME NEW T, NEW s \in Seq(T), NEW t \in Seq(T), NEW u \in Seq(T),
           IsPrefix(s, t), IsPrefix(t, u)
    PROVE  IsPrefix(s, u)
<1>1. /\ Len(s) <= Len(t) /\ \A i \in 1..Len(s) : s[i] = t[i]
      /\ Len(t) <= Len(u) /\ \A i \in 1..Len(t) : t[i] = u[i]
  BY PrefixAlike
<1>2. Len(s) \in Nat /\ Len(t) \in Nat /\ Len(u) \in Nat
  OBVIOUS
<1>3. Len(s) <= Len(u) /\ \A i \in 1..Len(s) : s[i] = u[i]
  BY <1>1, <1>2
<1> QED
  BY <1>3, PrefixAlike

(*********************** The pages of an upload ****************************)

PagesOf(u) == [i \in DOMAIN u |-> u[i].pages]

\* The pages of the sources before each one.
IsBefore(F, u) == Sums(F, Page, PagesOf(u)) /\ AllPages(u) = F[Len(u)]
Before(u) == CHOOSE F : IsBefore(F, u)

LEMMA PagesBefore ==
    ASSUME NEW u \in Uploads
    PROVE  /\ u \in Seq(Source) /\ Len(u) \in Nat
           /\ \A i \in 1..Len(u) : u[i] \in Source /\ u[i].pages \in Seq(Page)
           /\ Before(u) \in [0..Len(u) -> Seq(Page)] /\ Before(u)[0] = <<>>
           /\ \A i \in 1..Len(u) : Before(u)[i] = Before(u)[i - 1] \o u[i].pages
           /\ AllPages(u) = Before(u)[Len(u)]
<1>1. u \in Seq(Source)
  BY UploadsAssumption
<1>2. Len(u) \in Nat /\ DOMAIN u = 1..Len(u) /\ \A i \in 1..Len(u) : u[i] \in Source
  BY <1>1
<1>3. \A i \in 1..Len(u) : u[i].pages \in Seq(Page)
  BY <1>2 DEF Source
<1>4. /\ PagesOf(u) \in Seq(Seq(Page)) /\ Len(PagesOf(u)) = Len(u)
      /\ \A i \in 1..Len(u) : PagesOf(u)[i] = u[i].pages
  BY <1>2, <1>3, IsASeq DEF PagesOf
<1>5. AllPages(u) = FlattenSeq(PagesOf(u))
  BY DEF AllPages, PagesOf
<1>6. \E F : IsBefore(F, u)
  BY <1>4, <1>5, FlatSums DEF IsBefore
<1>7. IsBefore(Before(u), u)
  BY <1>6 DEF Before
<1> QED
  BY <1>1, <1>2, <1>3, <1>4, <1>7 DEF IsBefore, Sums

LEMMA BeforeIsPrefix ==
    ASSUME NEW u \in Uploads, NEW k \in 0..Len(u)
    PROVE  IsPrefix(Before(u)[k], AllPages(u))
<1> DEFINE P(n) == IsPrefix(Before(u)[Len(u) - n], AllPages(u))
           Bad == {n \in 0..Len(u) : ~P(n)}
<1>1. /\ Len(u) \in Nat /\ AllPages(u) = Before(u)[Len(u)]
      /\ \A i \in 0..Len(u) : Before(u)[i] \in Seq(Page)
      /\ \A i \in 1..Len(u) : u[i].pages \in Seq(Page)
      /\ \A i \in 1..Len(u) : Before(u)[i] = Before(u)[i - 1] \o u[i].pages
  BY PagesBefore
<1>2. Bad = {}
  <2> SUFFICES ASSUME Bad # {} PROVE FALSE
    OBVIOUS
  <2>1. PICK n \in Bad : \A m \in Bad : n <= m
    <3>1. Bad \in SUBSET Nat
      <4> HIDE DEF P
      <4> QED
        BY <1>1
    <3> HIDE DEF Bad
    <3> QED
      BY <3>1, LeastNumber
  <2>2. n \in 0..Len(u) /\ n \in Nat /\ ~P(n)
    BY <1>1, <2>1
  <2>3. n # 0
    <3>1. AllPages(u) \in Seq(Page)
      BY <1>1
    <3>2. IsPrefix(AllPages(u), AllPages(u))
      BY <3>1, PrefixAlike
    <3>3. Before(u)[Len(u) - 0] = AllPages(u)
      BY <1>1
    <3> QED
      BY <2>2, <3>2, <3>3
  <2>4. n - 1 \in 0..Len(u) /\ Len(u) - n \in 0..Len(u) /\ Len(u) - (n - 1) \in 1..Len(u)
        /\ Len(u) - (n - 1) - 1 = Len(u) - n /\ ~(n <= n - 1)
    BY <1>1, <2>2, <2>3
  <2>5. P(n - 1)
    <3> HIDE DEF P
    <3> QED
      BY <2>1, <2>4
  <2>6. PICK i \in 1..Len(u) : i = Len(u) - (n - 1) /\ i - 1 = Len(u) - n
    BY <2>4
  <2>7. Before(u)[i] = Before(u)[i - 1] \o u[i].pages /\ i - 1 \in 0..Len(u)
        /\ Before(u)[i - 1] \in Seq(Page) /\ Before(u)[i] \in Seq(Page)
        /\ AllPages(u) \in Seq(Page) /\ u[i].pages \in Seq(Page)
    <3>1. i - 1 \in 0..Len(u) /\ i \in 0..Len(u) /\ Len(u) \in 0..Len(u)
      BY <1>1
    <3> QED
      BY <1>1, <3>1
  <2>8. IsPrefix(Before(u)[i - 1], Before(u)[i])
    BY <2>7, PrefixOfLonger
  <2>9. IsPrefix(Before(u)[i], AllPages(u))
    BY <2>5, <2>6
  <2>10. IsPrefix(Before(u)[i - 1], AllPages(u))
    BY <2>7, <2>8, <2>9, PrefixTransitive
  <2> QED
    BY <2>2, <2>6, <2>10
<1>3. Len(u) - k \in 0..Len(u) /\ Len(u) - (Len(u) - k) = k
  BY <1>1
<1>4. P(Len(u) - k)
  <2> HIDE DEF P
  <2> QED
    BY <1>2, <1>3
<1> QED
  BY <1>3, <1>4

(************************ The first value found ****************************)

LEMMA PageTyped ==
    ASSUME NEW pg \in Page
    PROVE  PageFields(pg) \in Fields /\ \A z \in pg.formal : z.fields \in Fields
<1>1. /\ pg.like \in Fields
      /\ \A eng \in Engine : pg.text[eng].label \in Fields
      /\ \A z \in pg.formal : z.fields \in Fields
  BY DEF Page, Text
<1>2. /\ pg.text["easyocr"].label \in Fields /\ pg.text["tesseract"].label \in Fields
  BY <1>1 DEF Engine
<1> QED
  BY <1>1, <1>2 DEF PageFields, FirstOf, Fields

LEMMA NothingFound == \A f \in Critical : FirstFound(<<>>, f) = Blank
BY DEF FirstFound

\* One more page gives what no page before it has.
LEMMA FirstFoundNext ==
    ASSUME NEW ps \in Seq(Page), NEW pg \in Page, NEW f \in Critical
    PROVE  FirstFound(Append(ps, pg), f) =
               IF FirstFound(ps, f) # Blank THEN FirstFound(ps, f) ELSE PageFields(pg)[f]
<1> DEFINE Has(s) == {i \in DOMAIN s : PageFields(s[i])[f] # Blank}
<1> PICK n \in Nat : n = Len(ps)
  OBVIOUS
<1> PICK qs \in Seq(Page) : qs = Append(ps, pg)
  BY AppendProperties
<1>1. /\ DOMAIN ps = 1..n /\ DOMAIN qs = 1..(n + 1)
      /\ qs[n + 1] = pg /\ \A i \in 1..n : qs[i] = ps[i]
  BY AppendProperties
<1>2. /\ Has(ps) \in SUBSET Nat /\ Has(qs) \in SUBSET Nat
      /\ \A i \in Has(ps) : PageFields(ps[i])[f] # Blank
  BY <1>1
<1>3. \A i \in 1..n : i \in Has(qs) <=> i \in Has(ps)
  BY <1>1
<1>4. CASE Has(ps) # {}
  <2>1. PICK a : a = Min(Has(ps))
    OBVIOUS
  <2>2. PICK b : b = Min(Has(qs))
    OBVIOUS
  <2>3. FirstFound(ps, f) = PageFields(ps[a])[f]
    BY <1>4, <2>1 DEF FirstFound
  <2> HIDE DEF Has
  <2>4. a \in Has(ps) /\ \A y \in Has(ps) : a <= y
    BY <1>2, <1>4, <2>1, MinIsLeast
  <2>5. a \in 1..n
    BY <1>1, <2>4 DEF Has
  <2>6. a \in Has(qs)
    BY <1>3, <2>4, <2>5
  <2>7. b \in Has(qs) /\ \A y \in Has(qs) : b <= y
    BY <1>2, <2>2, <2>6, MinIsLeast
  <2>8. b \in 1..(n + 1)
    BY <1>1, <2>7 DEF Has
  <2>9. b <= a /\ b \in 1..n
    BY <2>5, <2>6, <2>7, <2>8
  <2>10. a <= b
    BY <1>3, <2>4, <2>7, <2>9
  <2>11. a = b
    BY <2>5, <2>9, <2>10
  <2>12. FirstFound(qs, f) = PageFields(qs[b])[f]
    BY <2>2, <2>6 DEF FirstFound, Has
  <2>13. qs[b] = ps[a]
    BY <1>1, <2>5, <2>11
  <2>14. FirstFound(ps, f) # Blank
    BY <1>2, <2>3, <2>4
  <2> QED
    BY <2>3, <2>12, <2>13, <2>14
<1>5. CASE Has(ps) = {} /\ PageFields(pg)[f] # Blank
  <2>1. FirstFound(ps, f) = Blank
    BY <1>5 DEF FirstFound
  <2>2. Has(qs) = {n + 1}
    BY <1>1, <1>3, <1>5
  <2>3. Min(Has(qs)) = n + 1
    BY <1>2, <2>2, MinIsLeast
  <2>4. FirstFound(qs, f) = PageFields(qs[Min(Has(qs))])[f]
    BY <2>2 DEF FirstFound
  <2> QED
    BY <1>1, <2>1, <2>3, <2>4
<1>6. CASE Has(ps) = {} /\ PageFields(pg)[f] = Blank
  <2>1. Has(qs) = {}
    BY <1>1, <1>3, <1>6
  <2> QED
    BY <1>6, <2>1 DEF FirstFound
<1> QED
  BY <1>4, <1>5, <1>6

(******************************* The loop **********************************)

Formals(ps) == UNION {ps[i].formal : i \in DOMAIN ps}

LEMMA FormalsNext ==
    ASSUME NEW ps \in Seq(Page), NEW pg \in Page
    PROVE  Formals(Append(ps, pg)) = Formals(ps) \cup pg.formal
<1> PICK n \in Nat : n = Len(ps)
  OBVIOUS
<1> PICK qs \in Seq(Page) : qs = Append(ps, pg)
  BY AppendProperties
<1>1. /\ DOMAIN ps = 1..n /\ DOMAIN qs = 1..(n + 1)
      /\ qs[n + 1] = pg /\ \A i \in 1..n : qs[i] = ps[i]
  BY AppendProperties
<1>2. DOMAIN qs = DOMAIN ps \cup {n + 1}
  BY <1>1
<1>3. Formals(qs) = Formals(ps) \cup pg.formal
  BY <1>1, <1>2 DEF Formals
<1> QED
  BY <1>3

\* What was read so far, and what was found on it.
LoopInv ==
    /\ upload \in Uploads /\ source \in 1..Len(upload) + 1 /\ page \in Nat \ {0}
    /\ pages \in Seq(Page) /\ Len(pages) <= MaxPages
    /\ source <= Len(upload) =>
           /\ page <= Len(upload[source].pages) + 1
           /\ pages = Before(upload)[source - 1]
                      \o SubSeq(upload[source].pages, 1, page - 1)
    /\ source > Len(upload) => pages = AllPages(upload)
    /\ fields = [f \in Critical |-> FirstFound(pages, f)]
    /\ zones = Formals(pages)
    /\ outcome \in {"running", "ok", "refused"}
    /\ outcome = "ok" => result = Reconcile(Reference(upload))

LEMMA LoopStarts == ExtractionInit => LoopInv
<1> SUFFICES ASSUME ExtractionInit PROVE LoopInv
  OBVIOUS
<1>1. /\ upload \in Uploads /\ source = 1 /\ page = 1 /\ pages = <<>> /\ zones = {}
      /\ fields = NoFields /\ outcome = "running"
  BY DEF ExtractionInit
<1>2. /\ Len(upload) \in Nat /\ \A i \in 1..Len(upload) : upload[i].pages \in Seq(Page)
      /\ Before(upload)[0] = <<>> /\ AllPages(upload) = Before(upload)[Len(upload)]
  BY <1>1, PagesBefore
<1>3. /\ pages \in Seq(Page) /\ Len(pages) = 0 /\ MaxPages \in Nat
  BY <1>1, UploadsAssumption
<1>4. 1 <= Len(upload) => /\ 1 <= Len(upload[1].pages) + 1
                          /\ <<>> = <<>> \o SubSeq(upload[1].pages, 1, 0)
  <2> SUFFICES ASSUME 1 <= Len(upload)
               PROVE  /\ 1 <= Len(upload[1].pages) + 1
                      /\ <<>> = <<>> \o SubSeq(upload[1].pages, 1, 0)
    OBVIOUS
  <2>1. upload[1].pages \in Seq(Page)
    BY <1>2
  <2> QED
    BY <2>1, SubSeqEmpty
<1>5. 1 > Len(upload) => AllPages(upload) = <<>>
  BY <1>2
<1>6. Formals(pages) = {}
  BY <1>1 DEF Formals
<1>7. fields = [f \in Critical |-> FirstFound(pages, f)]
  BY <1>1, NothingFound DEF NoFields
<1>8. 1 - 1 = 0 /\ 1 \in 1..Len(upload) + 1
  BY <1>2
<1> QED
  BY <1>1, <1>2, <1>3, <1>4, <1>5, <1>6, <1>7, <1>8 DEF LoopInv

LEMMA PageIsRead == ASSUME LoopInv, ReadPage PROVE LoopInv'
<1> PICK pg : pg = upload[source].pages[page]
  OBVIOUS
<1> PICK own : own = upload[source].pages
  OBVIOUS
<1>1. /\ source <= Len(upload) /\ page <= Len(own) /\ Len(pages) < MaxPages
      /\ pages' = Append(pages, pg) /\ fields' = FirstOf(fields, PageFields(pg))
      /\ zones' = zones \cup pg.formal /\ page' = page + 1 /\ outcome = "running"
      /\ UNCHANGED <<upload, source, outcome, result>>
  <2>1. MaxPages \in Nat /\ Len(pages) \in Nat
    BY UploadsAssumption DEF LoopInv
  <2> QED
    BY <2>1 DEF ReadPage, OnPage, Reading, Current, BadPage, NoSize
<1>2. /\ upload \in Uploads /\ source \in 1..Len(upload) + 1 /\ page \in Nat \ {0}
      /\ pages \in Seq(Page) /\ pages = Before(upload)[source - 1] \o SubSeq(own, 1, page - 1)
      /\ fields = [f \in Critical |-> FirstFound(pages, f)] /\ zones = Formals(pages)
  BY <1>1 DEF LoopInv
<1>3. /\ Len(upload) \in Nat /\ own \in Seq(Page) /\ source \in 1..Len(upload)
      /\ Before(upload)[source - 1] \in Seq(Page)
  <2>1. source \in 1..Len(upload) /\ source - 1 \in 0..Len(upload) /\ Len(upload) \in Nat
    BY <1>1, <1>2, PagesBefore
  <2> QED
    BY <1>2, <2>1, PagesBefore
<1>4. Len(own) \in Nat /\ page \in 1..Len(own) /\ pg \in Page /\ pg = own[page]
  BY <1>1, <1>2, <1>3
<1>5. pages' \in Seq(Page) /\ Len(pages') = Len(pages) + 1
  BY <1>1, <1>2, <1>4, AppendProperties
<1>6. pages' = Before(upload)[source - 1] \o SubSeq(own, 1, page' - 1)
  <2>1. SubSeq(own, 1, page) = Append(SubSeq(own, 1, page - 1), pg)
    <3>1. 1 \in 1..Len(own) /\ page \in 1..Len(own)
      BY <1>4
    <3>2. SubSeq(own, 1, page) = SubSeq(own, 1, page - 1) \o <<own[page]>>
      BY <1>3, <3>1, SubSeqRecursiveSecond
    <3>3. SubSeq(own, 1, page - 1) \in Seq(Page)
      BY <1>3, <1>4, SubSeqProperties
    <3> QED
      BY <1>4, <3>2, <3>3, AppendIsConcat
  <2>2. SubSeq(own, 1, page - 1) \in Seq(Page)
    BY <1>3, <1>4, SubSeqProperties
  <2>3. PICK a \in Seq(Page), b \in Seq(Page) :
            a = Before(upload)[source - 1] /\ b = SubSeq(own, 1, page - 1)
    BY <1>3, <2>2
  <2>4. Append(a \o b, pg) = a \o Append(b, pg)
    BY <1>4
  <2>5. page' - 1 = page
    BY <1>1, <1>4
  <2> QED
    BY <1>1, <1>2, <2>1, <2>3, <2>4, <2>5
<1>7. fields' = [f \in Critical |-> FirstFound(pages', f)]
  BY <1>1, <1>2, <1>4, FirstFoundNext DEF FirstOf
<1>8. zones' = Formals(pages')
  <2>1. Formals(Append(pages, pg)) = Formals(pages) \cup pg.formal
    BY <1>2, <1>4, FormalsNext
  <2> QED
    BY <1>1, <1>2, <2>1
<1>9. page' \in Nat \ {0} /\ page' <= Len(own) + 1 /\ Len(pages') <= MaxPages
      /\ ~(source > Len(upload))
  <2>1. MaxPages \in Nat /\ Len(pages) \in Nat
    <3>1. pages \in Seq(Page)
      BY <1>2
    <3>2. Len(pages) \in Nat
      BY <3>1, LenProperties
    <3> QED
      BY <3>2, UploadsAssumption
  <2> QED
    BY <1>1, <1>3, <1>4, <1>5, <2>1
<1> QED
  BY <1>1, <1>2, <1>5, <1>6, <1>7, <1>8, <1>9 DEF LoopInv

LEMMA SourceIsRead == ASSUME LoopInv, NextSource PROVE LoopInv'
<1>1. /\ source <= Len(upload) /\ page > Len(upload[source].pages)
      /\ source' = source + 1 /\ page' = 1
      /\ UNCHANGED <<upload, pages, fields, zones, outcome, result>>
  BY DEF NextSource, Reading, Current
<1>2. /\ upload \in Uploads /\ source \in 1..Len(upload) + 1 /\ page \in Nat \ {0}
      /\ page <= Len(upload[source].pages) + 1
      /\ pages = Before(upload)[source - 1] \o SubSeq(upload[source].pages, 1, page - 1)
  BY <1>1 DEF LoopInv
<1>3. /\ Len(upload) \in Nat /\ source \in 1..Len(upload)
      /\ upload[source].pages \in Seq(Page)
      /\ Before(upload)[source] = Before(upload)[source - 1] \o upload[source].pages
      /\ AllPages(upload) = Before(upload)[Len(upload)]
  <2>1. source \in 1..Len(upload) /\ Len(upload) \in Nat
    BY <1>1, <1>2, PagesBefore
  <2> QED
    BY <1>2, <2>1, PagesBefore
<1>4. page - 1 = Len(upload[source].pages)
  BY <1>1, <1>2, <1>3
<1>5. SubSeq(upload[source].pages, 1, page - 1) = upload[source].pages
  BY <1>3, <1>4, SubSeqFull
<1>6. pages = Before(upload)[source]
  BY <1>2, <1>3, <1>5
<1>7. source' \in 1..Len(upload) + 1 /\ source' - 1 = source
  BY <1>1, <1>3
<1>8. source' > Len(upload) => pages = AllPages(upload)
  <2>1. source' > Len(upload) => source = Len(upload)
    BY <1>1, <1>3
  <2> QED
    BY <1>3, <1>6, <2>1
<1>9. source' <= Len(upload) =>
          /\ page' <= Len(upload[source'].pages) + 1
          /\ pages = Before(upload)[source' - 1] \o SubSeq(upload[source'].pages, 1, page' - 1)
  <2> SUFFICES ASSUME source' <= Len(upload)
               PROVE  /\ page' <= Len(upload[source'].pages) + 1
                      /\ pages = Before(upload)[source' - 1]
                                 \o SubSeq(upload[source'].pages, 1, page' - 1)
    OBVIOUS
  <2>1. upload[source'].pages \in Seq(Page)
    <3>1. source' \in 1..Len(upload)
      BY <1>3, <1>7
    <3> QED
      BY <1>2, <3>1, PagesBefore
  <2>2. SubSeq(upload[source'].pages, 1, page' - 1) = <<>>
    BY <1>1, SubSeqEmpty
  <2>3. pages \o <<>> = pages
    BY ConcatEmptySeq DEF LoopInv
  <2>4. page' <= Len(upload[source'].pages) + 1
    BY <1>1, <2>1
  <2>5. Before(upload)[source' - 1] = pages
    BY <1>6, <1>7
  <2> QED
    BY <2>2, <2>3, <2>4, <2>5
<1>10. /\ pages' \in Seq(Page) /\ Len(pages') <= MaxPages
       /\ fields' = [f \in Critical |-> FirstFound(pages', f)]
       /\ zones' = Formals(pages') /\ outcome' \in {"running", "ok", "refused"}
       /\ outcome' = "ok" => result' = Reconcile(Reference(upload'))
  BY <1>1 DEF LoopInv
<1>11. upload' \in Uploads /\ source' \in 1..Len(upload') + 1 /\ page' \in Nat \ {0}
  BY <1>1, <1>2, <1>7
<1>12. /\ source' <= Len(upload') =>
              /\ page' <= Len(upload'[source'].pages) + 1
              /\ pages' = Before(upload')[source' - 1]
                          \o SubSeq(upload'[source'].pages, 1, page' - 1)
       /\ source' > Len(upload') => pages' = AllPages(upload')
  BY <1>1, <1>8, <1>9
<1> QED
  BY <1>10, <1>11, <1>12 DEF LoopInv

LEMMA LoopEnds == ASSUME LoopInv, Finish PROVE LoopInv'
<1>1. /\ source > Len(upload)
      /\ \/ outcome' = "refused"
         \/ outcome' = "ok"
            /\ result' = Reconcile(EvidenceOf(pages, Overruled(zones, fields)))
      /\ UNCHANGED <<upload, source, page, pages, fields, zones>>
  BY DEF Finish
<1>2. EvidenceOf(pages, Overruled(zones, fields)) = Reference(upload)
  BY <1>1 DEF LoopInv, Reference, Formals
<1> QED
  BY <1>1, <1>2 DEF LoopInv

LEMMA LoopStays == ASSUME LoopInv, UNCHANGED evars PROVE LoopInv'
BY DEF LoopInv, evars

LEMMA LoopStep == ASSUME LoopInv, ExtractionStep PROVE LoopInv'
<1>1. CASE RefuseSource \/ PageFails
  BY <1>1 DEF LoopInv, RefuseSource, PageFails, Refuse
<1> QED
  BY <1>1, PageIsRead, SourceIsRead, LoopEnds DEF ExtractionStep

(******************************** The job **********************************)

\* The record is the one of the whole upload or none, and there is none
\* before the worker has received a result.
JobInv ==
    /\ LoopInv /\ SandboxTypeOK
    /\ evidence = Reference(upload) /\ sheet \in Sheet \cup {NoSheet}
    /\ verdict \in {"none", "extracted", "approved", "review", "failed"}
    /\ record = IF verdict = "none" THEN NoRecord ELSE Reconcile(evidence)
    /\ parent \in {"waiting", "receiving"} => verdict = "none"

LEMMA VerdictTyped == \A s, r : Verify(s, r) \in {"approved", "review", "failed"}
BY DEF Verify, Gate, Compare, Tier

LEMMA SandboxStays == ASSUME SandboxTypeOK, UNCHANGED svars PROVE SandboxTypeOK'
BY DEF SandboxTypeOK, svars

\* What the child and its helpers do moves neither worker nor record.
LEMMA ChildSteps ==
    ASSUME JobInv,
           \/ ChildReads \/ ChildStartsHelper \/ ChildSends \/ ChildLives \/ ChildDies
           \/ HelperStops
    PROVE  LoopInv' /\ SandboxTypeOK' /\ UNCHANGED <<vars, parent>>
<1>1. CASE ChildReads
  BY <1>1, LoopStep, SandboxStays DEF ChildReads, JobInv, svars
<1>2. CASE ChildStartsHelper
  BY <1>2, LoopStays DEF ChildStartsHelper, StartHelper, JobInv, SandboxTypeOK
<1>3. CASE ChildSends
  BY <1>3, LoopStays DEF ChildSends, BeginSend, JobInv, SandboxTypeOK
<1>4. CASE ChildLives
  BY <1>4, LoopStays DEF ChildLives, SetSession, EndSend, Exit, JobInv, SandboxTypeOK
<1>5. CASE ChildDies
  BY <1>5, LoopStays DEF ChildDies, Die, JobInv, SandboxTypeOK
<1>6. CASE HelperStops
  BY <1>6, LoopStays DEF HelperStops, HelperEnds, JobInv, SandboxTypeOK
<1> QED
  BY <1>1, <1>2, <1>3, <1>4, <1>5, <1>6

LEMMA UploadStays ==
    ASSUME \/ ChildReads \/ ChildStartsHelper \/ ChildSends \/ ChildLives \/ ChildDies
           \/ HelperStops
    PROVE  upload' = upload
BY DEF ChildReads, ChildStartsHelper, ChildSends, ChildLives, ChildDies, HelperStops, evars,
       ExtractionStep, RefuseSource, PageFails, Refuse, ReadPage, NextSource, Finish

LEMMA WorkerSteps ==
    ASSUME JobInv, WorkerWaits
    PROVE  /\ LoopInv' /\ SandboxTypeOK' /\ UNCHANGED vars
           /\ parent' \in {"waiting", "receiving"} => parent \in {"waiting", "receiving"}
<1>1. SandboxTypeOK /\ LoopInv /\ WorkerStep /\ UNCHANGED <<vars, evars>>
  BY DEF JobInv, WorkerWaits
<1>2. LoopInv'
  BY <1>1, LoopStays
<1>3. SandboxTypeOK'
  BY <1>1 DEF WorkerStep, Poll, DeadlinePasses, ReceiveEnd, KillGroup, NoGroup, Terminate,
             Join, SandboxTypeOK
<1>4. parent' \in {"waiting", "receiving"} => parent \in {"waiting", "receiving"}
  BY <1>1 DEF WorkerStep, Poll, DeadlinePasses, ReceiveEnd, KillGroup, NoGroup, Terminate,
             Join
<1> QED
  BY <1>1, <1>2, <1>3, <1>4

LEMMA ResultArrives ==
    ASSUME JobInv, WorkerReceives
    PROVE  /\ LoopInv' /\ SandboxTypeOK' /\ UNCHANGED <<upload, evidence, sheet>>
           /\ parent' = "closing"
           /\ \/ Extract
              \/ UNCHANGED vars
<1>1. /\ LoopInv /\ SandboxTypeOK /\ parent = "receiving" /\ parent' = "closing"
      /\ UNCHANGED <<evars, evidence, sheet, child, message, helper, orphaned>>
      /\ answer' \in {"value", "error"}
  BY DEF JobInv, WorkerReceives, Receive
<1>2. LoopInv' /\ upload' = upload
  BY <1>1, LoopStays DEF evars
<1>3. SandboxTypeOK'
  BY <1>1 DEF SandboxTypeOK
<1>4. CASE outcome = "ok"
  <2>1. verdict = "none" /\ evidence = Reference(upload)
        /\ result = Reconcile(Reference(upload))
    BY <1>1, <1>4 DEF JobInv, LoopInv
  <2>2. record' = result /\ verdict' = "extracted"
    BY <1>4 DEF WorkerReceives
  <2>3. Extract
    BY <1>1, <2>1, <2>2 DEF Extract
  <2> QED
    BY <1>1, <1>2, <1>3, <2>3
<1>5. CASE outcome # "ok"
  <2>1. UNCHANGED <<record, verdict>>
    BY <1>5 DEF WorkerReceives
  <2> QED
    BY <1>1, <1>2, <1>3, <2>1 DEF vars
<1> QED
  BY <1>4, <1>5

LEMMA VerdictGiven ==
    ASSUME JobInv, WorkerDecides
    PROVE  LoopInv' /\ SandboxTypeOK' /\ Decide /\ UNCHANGED <<upload, parent>>
           /\ parent = "done"
<1>1. /\ LoopInv /\ SandboxTypeOK /\ Decide /\ UNCHANGED <<evars, svars>> /\ parent = "done"
  BY DEF JobInv, WorkerDecides
<1>2. upload' = upload /\ parent' = parent
  BY <1>1 DEF evars, svars
<1> QED
  BY <1>1, <1>2, LoopStays, SandboxStays

\* Every step of the job is a step of Verification or leaves what it is about.
LEMMA JobStep ==
    ASSUME JobInv, [JobNext]_jobvars
    PROVE  JobInv' /\ [Next]_vars
<1>1. CASE UNCHANGED jobvars
  <2>1. UNCHANGED vars /\ UNCHANGED evars /\ UNCHANGED svars
    BY <1>1 DEF jobvars
  <2>2. LoopInv' /\ SandboxTypeOK'
    BY <2>1, LoopStays, SandboxStays DEF JobInv
  <2> QED
    BY <2>1, <2>2 DEF JobInv, vars, evars, svars
<1>2. CASE \/ ChildReads \/ ChildStartsHelper \/ ChildSends \/ ChildLives \/ ChildDies
           \/ HelperStops
  <2>1. LoopInv' /\ SandboxTypeOK' /\ UNCHANGED <<vars, parent>>
    BY <1>2, ChildSteps
  <2>2. upload' = upload
    BY <1>2, UploadStays
  <2> QED
    BY <2>1, <2>2 DEF JobInv, vars
<1>3. CASE WorkerWaits
  <2>1. upload' = upload
    BY <1>3 DEF WorkerWaits, evars
  <2> QED
    BY <1>3, <2>1, WorkerSteps DEF JobInv, vars
<1>4. CASE WorkerReceives
  <2>1. /\ LoopInv' /\ SandboxTypeOK' /\ UNCHANGED <<upload, evidence, sheet>>
        /\ parent' = "closing" /\ (Extract \/ UNCHANGED vars)
    BY <1>4, ResultArrives
  <2>2. CASE Extract
    BY <2>1, <2>2 DEF JobInv, Extract, Next
  <2>3. CASE UNCHANGED vars
    BY <2>1, <2>3 DEF JobInv, vars
  <2> QED
    BY <2>1, <2>2, <2>3
<1>5. CASE WorkerDecides
  <2>1. LoopInv' /\ SandboxTypeOK' /\ Decide /\ UNCHANGED <<upload, parent>>
        /\ parent = "done"
    BY <1>5, VerdictGiven
  <2>2. verdict' \in {"approved", "review", "failed"} /\ verdict = "extracted"
        /\ UNCHANGED <<evidence, sheet, record>>
    BY <2>1, VerdictTyped DEF Decide
  <2> QED
    BY <2>1, <2>2 DEF JobInv, Next
<1> QED
  BY <1>1, <1>2, <1>3, <1>4, <1>5 DEF JobNext

LEMMA JobStarts == JobInit => JobInv /\ Init
<1> SUFFICES ASSUME JobInit PROVE JobInv /\ Init
  OBVIOUS
<1>1. LoopInv
  BY LoopStarts DEF JobInit
<1>2. SandboxTypeOK
  BY DEF JobInit, SandboxInit, SandboxTypeOK
<1>3. evidence \in Evidence
  BY ReferenceAssumption DEF JobInit, ExtractionInit
<1> QED
  BY <1>1, <1>2, <1>3 DEF JobInit, JobInv, Init

LEMMA JobInvariant == JobSpec => []JobInv
<1>1. JobInv /\ [JobNext]_jobvars => JobInv'
  BY JobStep
<1> QED
  BY <1>1, JobStarts, PTL DEF JobSpec

\* The detailed extraction does what Verification does in one step.
THEOREM VerificationIsImplemented == JobSpec => ImplementsVerification
<1>1. JobInv /\ [JobNext]_jobvars => [Next]_vars
  BY JobStep
<1> QED
  BY <1>1, JobStarts, JobInvariant, PTL DEF JobSpec, Spec, ImplementsVerification

(******************************** Types ************************************)

LEMMA ReconcileTyped ==
    ASSUME NEW e \in EvidenceShape
    PROVE  Reconcile(e) \in [fields: [Critical -> Field], multi: BOOLEAN, review: BOOLEAN]
<1>1. \A f \in Critical : Resolve(e, f) \in Field
  <2> SUFFICES ASSUME NEW f \in Critical PROVE Resolve(e, f) \in Field
    OBVIOUS
  <2> DEFINE checked == CheckedValues(e, f)
             leaders == Leaders(AllVotes(e, f))
  <2>1. checked \subseteq Value /\ IsFiniteSet(checked)
    BY CheckedFinite
  <2>2. leaders \subseteq Value /\ IsFiniteSet(leaders)
    BY ValuesAssumption, FS_Subset DEF Leaders
  <2>3. e.kept[f] \in Value \cup {Blank}
    BY DEF EvidenceShape
  <2>4. CASE Cardinality(checked) = 1
    BY <2>1, <2>4, OnlyMember DEF Resolve, Field
  <2>5. CASE Cardinality(checked) # 1 /\ checked # {}
    <3>1. FirstChecked(checked) \in Value
      BY <2>1, <2>5 DEF FirstChecked
    <3>2. Resolve(e, f) = Untrusted(IF e.kept[f] \in checked THEN e.kept[f]
                                    ELSE FirstChecked(checked))
      BY <2>5 DEF Resolve
    <3> HIDE DEF checked
    <3> QED
      BY <2>3, <3>1, <3>2 DEF Untrusted, Field
  <2>6. CASE checked = {} /\ Cardinality(leaders) = 1
    <3>1. (CHOOSE u \in leaders : TRUE) \in Value
      BY <2>2, <2>6, OnlyMember
    <3>2. Cardinality({}) # 1
      BY FS_EmptySet
    <3>3. PICK v \in Value : v = CHOOSE u \in leaders : TRUE
      BY <3>1
    <3>4. Resolve(e, f) = [value |-> v, trusted |-> Enough(AllVotes(e, f)[v])]
      BY <2>6, <3>2, <3>3 DEF Resolve
    <3>5. Enough(AllVotes(e, f)[v]) \in BOOLEAN
      BY DEF Enough
    <3> QED
      BY <3>4, <3>5 DEF Field
  <2>7. CASE checked = {} /\ Cardinality(leaders) # 1
    <3>1. Cardinality({}) # 1
      BY FS_EmptySet
    <3> DEFINE some == {v \in Value : AllVotes(e, f)[v] # {}}
    <3>2. \/ Resolve(e, f) = Untrusted(e.kept[f])
          \/ Resolve(e, f) = Untrusted(KeptIfAmong(e, f, some))
      BY <2>7, <3>1 DEF Resolve
    <3>3. KeptIfAmong(e, f, some) \in {e.kept[f], Blank}
      BY DEF KeptIfAmong
    <3> HIDE DEF some
    <3>4. PICK x \in Value \cup {Blank} : Resolve(e, f) = Untrusted(x)
      BY <2>3, <3>2, <3>3
    <3> QED
      BY <3>4 DEF Untrusted, Field
  <2> QED
    BY <2>4, <2>5, <2>6, <2>7
<1> QED
  BY <1>1 DEF Reconcile

\* The state of the loop is that of the pages read so far.
THEOREM JobTyped == JobSpec => []JobTypeOK
<1>1. JobInv => JobTypeOK
  <2> SUFFICES ASSUME JobInv PROVE JobTypeOK
    OBVIOUS
  <2>1. LoopInv /\ SandboxTypeOK /\ upload \in Uploads /\ pages \in Seq(Page)
    BY DEF JobInv, LoopInv
  <2>2. evidence \in EvidenceShape
    BY <2>1, ReferenceAssumption, InputsAssumption DEF JobInv
  <2>3. NoRecord \in [fields: [Critical -> Field], multi: BOOLEAN, review: BOOLEAN]
    BY DEF NoRecord, Untrusted, Field
  <2>4. TypeOK
    BY <2>2, <2>3, ReconcileTyped DEF JobInv, TypeOK
  <2>5. IsPrefix(pages, AllPages(upload))
    <3>1. /\ Len(upload) \in Nat /\ source \in 1..Len(upload) + 1 /\ page \in Nat \ {0}
          /\ AllPages(upload) = Before(upload)[Len(upload)]
          /\ \A i \in 0..Len(upload) : Before(upload)[i] \in Seq(Page)
      BY <2>1, PagesBefore DEF LoopInv
    <3>2. CASE source > Len(upload)
      <4>1. pages = AllPages(upload)
        BY <2>1, <3>2 DEF LoopInv
      <4> QED
        BY <2>1, <4>1, PrefixAlike
    <3>3. CASE source <= Len(upload)
      <4>1. source \in 1..Len(upload) /\ source \in 0..Len(upload)
            /\ source - 1 \in 0..Len(upload) /\ Len(upload) \in 0..Len(upload)
        BY <3>1, <3>3
      <4>2. PICK own \in Seq(Page), a \in Seq(Page) :
                /\ own = upload[source].pages /\ a = Before(upload)[source - 1]
                /\ Before(upload)[source] = a \o own
        BY <2>1, <3>1, <4>1, PagesBefore
      <4>3. page <= Len(own) + 1 /\ pages = a \o SubSeq(own, 1, page - 1)
        BY <2>1, <3>3, <4>2 DEF LoopInv
      <4>4. Len(own) \in Nat /\ page \in Nat
        BY <3>1
      <4>5. PICK b \in Seq(Page), c \in Seq(Page) :
                /\ b = SubSeq(own, 1, page - 1) /\ c = SubSeq(own, page, Len(own))
        <5>1. SubSeq(own, 1, page - 1) \in Seq(Page)
          BY <3>1, <4>3, <4>4, SubSeqProperties
        <5>2. SubSeq(own, page, Len(own)) \in Seq(Page)
          BY <3>1, <4>3, <4>4, SubSeqProperties
        <5> QED
          BY <5>1, <5>2
      <4>6. own = b \o c
        <5>1. /\ 1 \in 1..Len(own) + 1 /\ page - 1 \in (1 - 1)..Len(own)
              /\ Len(own) \in (page - 1)..Len(own) /\ page - 1 + 1 = page
          BY <3>1, <4>3, <4>4
        <5>2. SubSeq(own, 1, page - 1) \o SubSeq(own, page - 1 + 1, Len(own))
              = SubSeq(own, 1, Len(own))
          BY <5>1, ConcatAdjacentSubSeq
        <5> QED
          BY <4>5, <5>1, <5>2, SubSeqFull
      <4>7. a \o own = (a \o b) \o c
        BY <4>6, ConcatAssociative
      <4>8. a \o b \in Seq(Page)
        BY ConcatProperties
      <4>9. IsPrefix(pages, Before(upload)[source])
        BY <4>2, <4>3, <4>5, <4>7, <4>8, PrefixOfLonger
      <4>10. IsPrefix(Before(upload)[source], AllPages(upload))
        BY <2>1, <4>1, BeforeIsPrefix
      <4>11. Before(upload)[source] \in Seq(Page) /\ AllPages(upload) \in Seq(Page)
        BY <3>1, <4>1
      <4> QED
        BY <2>1, <4>9, <4>10, <4>11, PrefixTransitive
    <3> QED
      BY <3>1, <3>2, <3>3
  <2>6. fields \in Fields
    <3> SUFFICES ASSUME NEW f \in Critical PROVE FirstFound(pages, f) \in Value \cup {Blank}
      BY <2>1 DEF LoopInv, Fields
    <3> DEFINE having == {i \in DOMAIN pages : PageFields(pages[i])[f] # Blank}
    <3>1. CASE having = {}
      BY <3>1 DEF FirstFound
    <3>2. CASE having # {}
      <4>1. having \in SUBSET Nat
        BY <2>1
      <4>2. PICK i \in DOMAIN pages : i = Min(having)
        BY <3>2, <4>1, MinIsLeast
      <4>3. FirstFound(pages, f) = PageFields(pages[i])[f]
        BY <3>2, <4>2 DEF FirstFound
      <4>4. PageFields(pages[i]) \in Fields
        BY <2>1, PageTyped
      <4> QED
        BY <4>3, <4>4 DEF Fields
    <3> QED
      BY <3>1, <3>2
  <2> QED
    BY <2>1, <2>4, <2>5, <2>6 DEF LoopInv, JobTypeOK
<1> QED
  BY <1>1, JobInvariant, PTL

(************************** What a verdict rests on ************************)

\* What holds of Verification holds of every extraction: its approvals rest
\* on confirmed values, its failures on a known number, and agreement never hurts.
THEOREM JobVerdictsAreEarned ==
    JobSpec => [](ApprovedIsConfirmed /\ FailureIsOfKnownNumber /\ AgreementNeverHurts)
BY VerificationIsImplemented, ApprovalsAreEarned, FailuresAreEarned, AgreementHelps, PTL DEF ImplementsVerification

(**************************** What is left *********************************)

\* A helper runs with a working child, or was left by one that died alone.
SandboxInv ==
    /\ helper => child = "working" \/ orphaned
    /\ parent = "done" => child = "dead"

\* When the worker has its answer there is no child, and no Tesseract process
\* either unless the child died without its process group: by itself, or
\* because it was terminated before it was seen to lead a group.
THEOREM NothingIsLeft ==
    JobSpec => [](parent = "done" => child = "dead" /\ (helper => orphaned))
<1>1. JobInit => SandboxInv
  BY DEF JobInit, SandboxInit, SandboxInv
<1>2. SandboxInv /\ [JobNext]_jobvars => SandboxInv'
  <2> SUFFICES ASSUME SandboxInv, [JobNext]_jobvars PROVE SandboxInv'
    OBVIOUS
  <2>1. CASE UNCHANGED svars
    BY <2>1 DEF SandboxInv, svars
  <2>2. CASE StartHelper \/ HelperEnds \/ BeginSend \/ SetSession \/ EndSend \/ Exit \/ Die
    BY <2>2 DEF SandboxInv, StartHelper, HelperEnds, BeginSend, SetSession, EndSend, Exit, Die
  <2>3. CASE WorkerStep
    <3>1. CASE Poll \/ DeadlinePasses \/ ReceiveEnd \/ NoGroup \/ Join
      BY <3>1 DEF SandboxInv, Poll, DeadlinePasses, ReceiveEnd, NoGroup, Join
    <3>2. CASE KillGroup
      BY <3>2 DEF SandboxInv, KillGroup
    <3>3. CASE Terminate
      BY <3>3, Zenon DEF SandboxInv, Terminate
    <3> QED
      BY <2>3, <3>1, <3>2, <3>3 DEF WorkerStep
  <2>4. CASE Receive(outcome = "ok")
    BY <2>4 DEF SandboxInv, Receive
  <2> QED
    BY <2>1, <2>2, <2>3, <2>4
    DEF JobNext, jobvars, ChildReads, ChildStartsHelper, ChildSends, ChildLives, ChildDies,
        HelperStops, WorkerWaits, WorkerReceives, WorkerDecides
<1>3. SandboxInv => (parent = "done" => child = "dead" /\ (helper => orphaned))
  BY DEF SandboxInv
<1> QED
  BY <1>1, <1>2, <1>3, PTL DEF JobSpec

===============================================================================
