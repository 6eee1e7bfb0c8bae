--------------------------- MODULE InflateProofs ---------------------------
(***************************************************************************)
(* Proofs about the decoder of compressed entries: for any entry, in       *)
(* blocks of any kind and under any codes, what is inflated is what was    *)
(* packed.                                                                 *)
(***************************************************************************)
EXTENDS StoreLane, TLAPS, SequenceTheorems, FiniteSetTheorems

-----------------------------------------------------------------------------
(* Induction, for sets of naturals.                                          *)

LEMMA Induction ==
  ASSUME NEW T, 0 \in T, \A n \in Nat : n \in T => n + 1 \in T
  PROVE  Nat \subseteq T
<1> SUFFICES ASSUME NEW k \in Nat, k \notin T PROVE FALSE
  OBVIOUS
<1>1. PICK B : B = {n \in Nat : n \notin T}
  OBVIOUS
<1>2. PICK C : C = {0..n - 1 : n \in B}
  OBVIOUS
<1>3. C # {}
  BY <1>1, <1>2
<1>4. C \subseteq FiniteSubsetsOf(Nat)
  <2> SUFFICES ASSUME NEW n \in B PROVE 0..n - 1 \in FiniteSubsetsOf(Nat)
    BY <1>2
  <2>1. n \in Nat
    BY <1>1
  <2> QED  BY <2>1, FS_Interval DEF FiniteSubsetsOf
<1>5. PICK x \in C : \A y \in C : <<y, x>> \notin StrictSubsetOrdering(Nat)
  BY <1>3, <1>4, FS_StrictSubsetOrderingWellFounded, WFMin
<1>6. PICK m \in B : x = 0..m - 1
  BY <1>2, <1>5
<1>7. m - 1 \in B
  BY <1>1, <1>6
<1>8. 0..(m - 1) - 1 \in C
  BY <1>2, <1>7
<1>9. <<0..(m - 1) - 1, x>> \in StrictSubsetOrdering(Nat)
  BY <1>1, <1>6, <1>7 DEF StrictSubsetOrdering
<1> QED  BY <1>5, <1>8, <1>9

-----------------------------------------------------------------------------
(* Numbers from their digits.                                                *)

WorthOn(v, d, m) == v = [n \in 0..m |-> IF n = 0 THEN 0 ELSE 2 * v[n - 1] + d[n]]

LEMMA WorthExists ==
  ASSUME NEW d, NEW k \in Nat
  PROVE  \E v : WorthOn(v, d, k)
<1>1. PICK N : N = {m \in Nat : \E v : WorthOn(v, d, m)}
  OBVIOUS
<1>2. 0 \in N
  <2>1. PICK v : v = [n \in 0..0 |-> 0]
    OBVIOUS
  <2>2. WorthOn(v, d, 0)
    BY <2>1 DEF WorthOn
  <2> QED  BY <1>1, <2>2
<1>3. ASSUME NEW m \in Nat, m \in N PROVE m + 1 \in N
  <2>1. PICK v : WorthOn(v, d, m)
    BY <1>1, <1>3
  <2>2. PICK x : x = 2 * v[m] + d[m + 1]
    OBVIOUS
  <2>3. PICK w : w = [n \in 0..m + 1 |-> IF n = m + 1 THEN x ELSE v[n]]
    OBVIOUS
  <2>4. ASSUME NEW n \in 0..m + 1
        PROVE  w[n] = IF n = 0 THEN 0 ELSE 2 * w[n - 1] + d[n]
    <3>1. CASE n = m + 1
      <4>1. n # 0 /\ n - 1 = m /\ m \in 0..m + 1 /\ m # m + 1
        BY <3>1
      <4>2. w[m] = v[m] /\ w[n] = x
        BY <2>3, <3>1, <4>1
      <4> QED  BY <2>2, <3>1, <4>1, <4>2
    <3>2. CASE n # m + 1
      <4>1. n \in 0..m
        BY <3>2
      <4>2. v[n] = IF n = 0 THEN 0 ELSE 2 * v[n - 1] + d[n]
        BY <2>1, <4>1 DEF WorthOn
      <4>3. w[n] = v[n]
        BY <2>3, <3>2
      <4>4. n # 0 => n - 1 \in 0..m + 1 /\ n - 1 # m + 1
        BY <4>1
      <4>5. n # 0 => w[n - 1] = v[n - 1]
        BY <2>3, <4>4
      <4> QED  BY <4>2, <4>3, <4>5
    <3> QED  BY <3>1, <3>2
  <2>5. WorthOn(w, d, m + 1)
    <3>1. w = [n \in 0..m + 1 |-> w[n]]
      BY <2>3
    <3> QED  BY <2>4, <3>1 DEF WorthOn
  <2> QED  BY <1>1, <2>5
<1> QED  BY <1>1, <1>2, <1>3, Induction

LEMMA WorthIs ==
  ASSUME NEW d, NEW m \in Nat
  PROVE  WorthOn(Worth(d, m), d, m)
BY WorthExists DEF Worth, WorthOn

LEMMA WorthStep ==
  ASSUME NEW d, NEW m \in Nat
  PROVE  /\ Worth(d, m)[0] = 0
         /\ \A n \in 1..m : Worth(d, m)[n] = 2 * Worth(d, m)[n - 1] + d[n]
<1>1. PICK v : v = Worth(d, m)
  OBVIOUS
<1>2. v = [n \in 0..m |-> IF n = 0 THEN 0 ELSE 2 * v[n - 1] + d[n]]
  BY <1>1, WorthIs DEF WorthOn
<1>3. v[0] = 0
  BY <1>2
<1>4. ASSUME NEW n \in 1..m PROVE v[n] = 2 * v[n - 1] + d[n]
  <2>1. n \in 0..m /\ n # 0
    OBVIOUS
  <2> QED  BY <1>2, <2>1
<1> QED  BY <1>1, <1>3, <1>4

LEMMA WorthNat ==
  ASSUME NEW d, NEW m \in Nat, \A i \in 1..m : d[i] \in Nat
  PROVE  \A n \in 0..m : Worth(d, m)[n] \in Nat
<1>1. PICK N : N = {n \in Nat : n \in 0..m => Worth(d, m)[n] \in Nat}
  OBVIOUS
<1>2. 0 \in N
  BY <1>1, WorthStep
<1>3. ASSUME NEW n \in Nat, n \in N PROVE n + 1 \in N
  <2>1. CASE n + 1 \in 0..m
    <3>1. n \in 0..m /\ n + 1 \in 1..m /\ (n + 1) - 1 = n
      BY <2>1
    <3>2. Worth(d, m)[n + 1] = 2 * Worth(d, m)[n] + d[n + 1]
      BY <3>1, WorthStep
    <3>3. Worth(d, m)[n] \in Nat /\ d[n + 1] \in Nat
      BY <1>1, <1>3, <3>1
    <3> QED  BY <1>1, <3>2, <3>3
  <2> QED  BY <1>1, <2>1
<1>4. Nat \subseteq N
  BY <1>2, <1>3, Induction
<1> QED  BY <1>1, <1>4

LEMMA WorthSame ==
  ASSUME NEW d, NEW e, NEW m \in Nat, NEW l \in Nat, NEW k \in 0..m, k <= l, \A i \in 1..k : d[i] = e[i]
  PROVE  Worth(d, m)[k] = Worth(e, l)[k]
<1>1. PICK N : N = {n \in Nat : n <= k => Worth(d, m)[n] = Worth(e, l)[n]}
  OBVIOUS
<1>2. 0 \in N
  BY <1>1, WorthStep
<1>3. ASSUME NEW n \in Nat, n \in N PROVE n + 1 \in N
  <2>1. CASE n + 1 <= k
    <3>1. n <= k /\ n + 1 \in 1..m /\ n + 1 \in 1..l /\ n + 1 \in 1..k /\ (n + 1) - 1 = n
      BY <2>1
    <3>2. Worth(d, m)[n + 1] = 2 * Worth(d, m)[n] + d[n + 1]
      BY <3>1, WorthStep
    <3>3. Worth(e, l)[n + 1] = 2 * Worth(e, l)[n] + e[n + 1]
      BY <3>1, WorthStep
    <3> QED  BY <1>1, <1>3, <3>1, <3>2, <3>3
  <2> QED  BY <1>1, <2>1
<1>4. Nat \subseteq N
  BY <1>2, <1>3, Induction
<1> QED  BY <1>1, <1>4

LEMMA NumberNat ==
  ASSUME NEW b \in Seq({0, 1}), NEW from \in Nat, NEW n \in Nat, from + n <= Len(b)
  PROVE  Number(b, from, n) \in Nat
<1>1. PICK d : d = [i \in 1..n |-> b[from + n + 1 - i]]
  OBVIOUS
<1>2. ASSUME NEW i \in 1..n PROVE d[i] \in Nat
  <2>1. from + n + 1 - i \in 1..Len(b)
    BY LenProperties
  <2>2. b[from + n + 1 - i] \in {0, 1}
    BY <2>1, ElementOfSeq
  <2> QED  BY <1>1, <2>2
<1>3. Worth(d, n)[n] \in Nat
  BY <1>2, WorthNat
<1> QED  BY <1>1, <1>3 DEF Number

-----------------------------------------------------------------------------
(* The symbols of a code.                                                    *)

Alike(l, n, m) == {t \in 1..m : l[t] = n}

LEMMA AlikeFinite ==
  ASSUME NEW l, NEW n, NEW m \in Nat
  PROVE  IsFiniteSet(Alike(l, n, m)) /\ Cardinality(Alike(l, n, m)) \in Nat
<1>1. IsFiniteSet(1..m)
  BY FS_Interval
<1>2. IsFiniteSet(Alike(l, n, m))
  BY <1>1, FS_Subset DEF Alike
<1> QED  BY <1>2, FS_CardinalityType

LEMMA AlikeMore ==
  ASSUME NEW l, NEW n, NEW m \in Nat
  PROVE  Cardinality(Alike(l, n, m + 1)) = IF l[m + 1] = n THEN Cardinality(Alike(l, n, m)) + 1
                                           ELSE Cardinality(Alike(l, n, m))
<1>1. CASE l[m + 1] = n
  <2>1. Alike(l, n, m + 1) = Alike(l, n, m) \cup {m + 1}
    BY <1>1 DEF Alike
  <2>2. m + 1 \notin Alike(l, n, m)
    BY DEF Alike
  <2> QED  BY <1>1, <2>1, <2>2, AlikeFinite, FS_AddElement
<1>2. CASE l[m + 1] # n
  <2>1. Alike(l, n, m + 1) = Alike(l, n, m)
    BY <1>2 DEF Alike
  <2> QED  BY <1>2, <2>1
<1> QED  BY <1>1, <1>2

LEMMA CountsAre ==
  ASSUME NEW l, l \in Seq(0..15)
  PROVE  \A n \in 1..15 : Counts(l)[n] = Cardinality(Alike(l, n, Len(l))) /\ Counts(l)[n] \in Nat
<1> SUFFICES ASSUME NEW n \in 1..15
             PROVE  Counts(l)[n] = Cardinality(Alike(l, n, Len(l))) /\ Counts(l)[n] \in Nat
  OBVIOUS
<1>1. DOMAIN l = 1..Len(l) /\ Len(l) \in Nat
  BY LenProperties
<1>2. Counts(l)[n] = Cardinality({p \in DOMAIN l : l[p] = n})
  BY DEF Counts
<1>3. Counts(l)[n] = Cardinality(Alike(l, n, Len(l)))
  BY <1>1, <1>2 DEF Alike
<1> QED  BY <1>1, <1>3, AlikeFinite

LEMMA RankIs ==
  ASSUME NEW l, NEW p \in Nat \ {0}
  PROVE  Rank(l, p) = Cardinality(Alike(l, l[p], p - 1)) /\ Rank(l, p) \in Nat
<1>1. Rank(l, p) = Cardinality(Alike(l, l[p], p - 1))
  BY DEF Rank, Alike
<1> QED  BY <1>1, AlikeFinite

\* The symbols of a length have the ranks below their number, each one of its own.
LEMMA RanksGiven ==
  ASSUME NEW l, l \in Seq(0..15), NEW n \in 1..15, NEW r \in 0..Counts(l)[n] - 1
  PROVE  \E p \in DOMAIN l : l[p] = n /\ Rank(l, p) = r
<1>1. PICK N : N = {m \in Nat : r < Cardinality(Alike(l, n, m)) => \E p \in 1..m : l[p] = n /\ Rank(l, p) = r}
  OBVIOUS
<1>2. 0 \in N
  <2>1. Alike(l, n, 0) = {}
    BY DEF Alike
  <2>2. Cardinality(Alike(l, n, 0)) = 0 /\ Counts(l)[n] \in Nat
    BY <2>1, FS_EmptySet, CountsAre
  <2>3. ~(r < Cardinality(Alike(l, n, 0)))
    BY <2>2
  <2> QED  BY <1>1, <2>3
<1>3. ASSUME NEW m \in Nat, m \in N PROVE m + 1 \in N
  <2> SUFFICES ASSUME r < Cardinality(Alike(l, n, m + 1)) PROVE \E p \in 1..m + 1 : l[p] = n /\ Rank(l, p) = r
    BY <1>1
  <2>1. CASE r < Cardinality(Alike(l, n, m))
    BY <1>1, <1>3, <2>1
  <2>2. CASE ~(r < Cardinality(Alike(l, n, m)))
    <3>1. Cardinality(Alike(l, n, m)) \in Nat /\ Counts(l)[n] \in Nat
      BY AlikeFinite, CountsAre
    <3>2. l[m + 1] = n
      BY <2>2, AlikeMore
    <3>3. r = Cardinality(Alike(l, n, m))
      BY <2>2, <3>1, <3>2, AlikeMore
    <3>4. m + 1 \in Nat \ {0} /\ (m + 1) - 1 = m /\ m + 1 \in 1..m + 1
      OBVIOUS
    <3>5. Rank(l, m + 1) = r
      BY <3>2, <3>3, <3>4, RankIs
    <3> QED  BY <3>2, <3>4, <3>5
  <2> QED  BY <2>1, <2>2
<1>4. Len(l) \in N /\ DOMAIN l = 1..Len(l)
  BY <1>2, <1>3, Induction, LenProperties
<1>5. r < Cardinality(Alike(l, n, Len(l)))
  <2>1. Counts(l)[n] = Cardinality(Alike(l, n, Len(l))) /\ Counts(l)[n] \in Nat
    BY CountsAre
  <2> QED  BY <2>1
<1> QED  BY <1>1, <1>4, <1>5

LEMMA RankInside ==
  ASSUME NEW l, l \in Seq(0..15), NEW p \in DOMAIN l, l[p] # 0
  PROVE  l[p] \in 1..15 /\ Rank(l, p) \in 0..Counts(l)[l[p]] - 1
<1>1. p \in Nat \ {0} /\ p \in 1..Len(l) /\ Len(l) \in Nat /\ l[p] \in 1..15
  BY LenProperties, ElementOfSeq
<1>2. Alike(l, l[p], p - 1) \subseteq Alike(l, l[p], Len(l)) \ {p}
  BY <1>1 DEF Alike
<1>3. p \in Alike(l, l[p], Len(l))
  BY <1>1 DEF Alike
<1>4. PICK S : S = Alike(l, l[p], Len(l))
  OBVIOUS
<1>5. IsFiniteSet(S) /\ Cardinality(S) = Counts(l)[l[p]] /\ Cardinality(S) \in Nat
  BY <1>1, <1>4, AlikeFinite, CountsAre
<1>6. IsFiniteSet(S \ {p}) /\ Cardinality(S \ {p}) = Cardinality(S) - 1
  BY <1>3, <1>4, <1>5, FS_RemoveElement
<1>7. Cardinality(Alike(l, l[p], p - 1)) <= Cardinality(S \ {p})
  BY <1>2, <1>4, <1>6, FS_Subset
<1>8. Rank(l, p) = Cardinality(Alike(l, l[p], p - 1)) /\ Rank(l, p) \in Nat
  BY <1>1, RankIs
<1> QED  BY <1>1, <1>5, <1>6, <1>7, <1>8

LEMMA RankGrows ==
  ASSUME NEW l, NEW p \in Nat \ {0}, NEW q \in Nat, p < q, l[p] = l[q]
  PROVE  Rank(l, p) < Rank(l, q)
<1>1. Alike(l, l[p], p - 1) \cup {p} \subseteq Alike(l, l[q], q - 1)
  BY DEF Alike
<1>2. p \notin Alike(l, l[p], p - 1)
  BY DEF Alike
<1>3. PICK S : S = Alike(l, l[p], p - 1)
  OBVIOUS
<1>4. PICK U : U = Alike(l, l[q], q - 1)
  OBVIOUS
<1>5. p - 1 \in Nat /\ q - 1 \in Nat /\ q \in Nat \ {0}
  OBVIOUS
<1>6. IsFiniteSet(S) /\ Cardinality(S) \in Nat
  BY <1>3, <1>5, AlikeFinite
<1>7. IsFiniteSet(U) /\ Cardinality(U) \in Nat
  BY <1>4, <1>5, AlikeFinite
<1>8. Cardinality(S \cup {p}) = Cardinality(S) + 1
  BY <1>2, <1>3, <1>6, FS_AddElement
<1>9. Cardinality(S \cup {p}) <= Cardinality(U)
  BY <1>1, <1>3, <1>4, <1>7, FS_Subset
<1> QED  BY <1>3, <1>4, <1>5, <1>6, <1>7, <1>8, <1>9, RankIs

LEMMA RankOnce ==
  ASSUME NEW l, l \in Seq(0..15), NEW p \in DOMAIN l, NEW q \in DOMAIN l, l[p] = l[q], Rank(l, p) = Rank(l, q)
  PROVE  p = q
<1>1. p \in Nat \ {0} /\ q \in Nat \ {0}
  BY LenProperties
<1>2. Rank(l, p) \in Nat /\ Rank(l, q) \in Nat
  BY <1>1, RankIs
<1>3. ~(p < q)
  BY <1>1, <1>2, RankGrows
<1>4. ~(q < p)
  BY <1>1, <1>2, RankGrows
<1> QED  BY <1>1, <1>3, <1>4

\* What the table says of a length and a rank.
TableSymbol(l, n, r) == CodeOf(l).symbols[n][r]

LEMMA SymbolOf ==
  ASSUME NEW l \in Seq(0..15), NEW n \in 1..15, NEW r \in 0..Counts(l)[n] - 1
  PROVE  /\ TableSymbol(l, n, r) \in Nat /\ TableSymbol(l, n, r) + 1 \in DOMAIN l
         /\ l[TableSymbol(l, n, r) + 1] = n /\ Rank(l, TableSymbol(l, n, r) + 1) = r
<1>1. PICK rank : rank = [p \in DOMAIN l |-> Rank(l, p)]
  OBVIOUS
<1>2. CodeOf(l).symbols[n][r] = (CHOOSE p \in DOMAIN l : l[p] = n /\ rank[p] = r) - 1
  BY <1>1 DEF CodeOf, Tables
<1>3. \E p \in DOMAIN l : l[p] = n /\ rank[p] = r
  <2>1. PICK p \in DOMAIN l : l[p] = n /\ Rank(l, p) = r
    BY RanksGiven
  <2>2. rank[p] = r
    BY <1>1, <2>1
  <2> QED  BY <2>1, <2>2
<1>4. PICK p : p = CHOOSE q \in DOMAIN l : l[q] = n /\ rank[q] = r
  OBVIOUS
<1>5. p \in DOMAIN l /\ l[p] = n /\ Rank(l, p) = r
  BY <1>1, <1>3, <1>4
<1>6. p \in Nat \ {0}
  BY <1>5, LenProperties
<1>7. TableSymbol(l, n, r) = p - 1
  BY <1>2, <1>4 DEF TableSymbol
<1>8. p - 1 \in Nat /\ (p - 1) + 1 = p
  BY <1>6
<1> QED  BY <1>5, <1>7, <1>8

-----------------------------------------------------------------------------
(* decode finds the symbol whose word is there, and no other.                *)

CodeAt(from) == Worth([i \in 1..15 |-> Bits[from + i]], 15)
LimitOf(l) == Worth(Counts(l), 15)
Fits(l, from) == {n \in 1..15 : Has(from, n) /\ CodeAt(from)[n] < LimitOf(l)[n]}

LEMMA DecodeIs ==
  ASSUME NEW l, NEW from
  PROVE  /\ Fits(l, from) = {} => Decode(CodeOf(l), from).symbol = -1
         /\ \A n \in Fits(l, from) : (\A k \in Fits(l, from) : n <= k) =>
              /\ Decode(CodeOf(l), from).symbol = CodeOf(l).symbols[n][CodeAt(from)[n] - 2 * LimitOf(l)[n - 1]]
              /\ Decode(CodeOf(l), from).next = from + n
<1>1. CodeOf(l).limit = LimitOf(l)
  BY DEF CodeOf, Tables, LimitOf
<1>2. PICK h : h = CodeOf(l)
  OBVIOUS
<1>3. PICK F : F = Fits(l, from)
  OBVIOUS
<1>4. Decode(h, from) =
        IF F = {} THEN [symbol |-> -1, next |-> 0]
        ELSE [symbol |-> h.symbols[CHOOSE n \in F : \A k \in F : n <= k]
                           [CodeAt(from)[CHOOSE n \in F : \A k \in F : n <= k]
                              - 2 * h.limit[(CHOOSE n \in F : \A k \in F : n <= k) - 1]],
              next |-> from + (CHOOSE n \in F : \A k \in F : n <= k)]
  BY <1>1, <1>2, <1>3 DEF Decode, Fits, CodeAt, LimitOf
<1>5. ASSUME NEW n \in F, \A k \in F : n <= k
      PROVE  n = CHOOSE m \in F : \A k \in F : m <= k
  <2>1. PICK m : m = CHOOSE j \in F : \A k \in F : j <= k
    OBVIOUS
  <2>2. m \in F /\ \A k \in F : m <= k
    BY <1>5, <2>1
  <2>3. m <= n /\ n <= m /\ m \in Nat /\ n \in Nat
    BY <1>3, <1>5, <2>2 DEF Fits
  <2>4. m = n
    BY <2>3
  <2> QED  BY <2>1, <2>4
<1>6. F = {} => Decode(h, from).symbol = -1
  BY <1>4
<1>7. ASSUME NEW n \in F, \A k \in F : n <= k
      PROVE  /\ Decode(h, from).symbol = h.symbols[n][CodeAt(from)[n] - 2 * LimitOf(l)[n - 1]]
             /\ Decode(h, from).next = from + n
  <2>1. F # {} /\ n = CHOOSE m \in F : \A k \in F : m <= k
    BY <1>5, <1>7
  <2>2. h.limit = LimitOf(l)
    BY <1>1, <1>2
  <2> QED  BY <1>4, <2>1, <2>2
<1> QED  BY <1>2, <1>3, <1>6, <1>7

LEMMA Halves ==
  \A a, b, c \in Nat : \A x \in {0, 1} : a = 2 * b + x /\ a >= 2 * c => b >= c
OBVIOUS

LEMMA Doubles ==
  \A b, c, d, k \in Nat : c = 2 * d + k /\ b >= c => b >= 2 * d
OBVIOUS

LEMMA Digits ==
  ASSUME Bits \in Seq({0, 1}), NEW from \in Nat, NEW n \in 1..15, Has(from, n)
  PROVE  /\ CodeAt(from)[0] = 0
         /\ CodeAt(from)[n] = 2 * CodeAt(from)[n - 1] + Bits[from + n]
         /\ Bits[from + n] \in {0, 1}
         /\ CodeAt(from)[n] \in Nat /\ CodeAt(from)[n - 1] \in Nat
         /\ Worth([i \in 1..n |-> Bits[from + i]], n)[n] = CodeAt(from)[n]
<1>1. PICK d : d = [i \in 1..15 |-> Bits[from + i]]
  OBVIOUS
<1>2. PICK e : e = [i \in 1..n |-> Bits[from + i]]
  OBVIOUS
<1>3. \A i \in 1..n : e[i] = d[i] /\ e[i] \in {0, 1}
  <2> SUFFICES ASSUME NEW i \in 1..n PROVE e[i] = d[i] /\ e[i] \in {0, 1}
    OBVIOUS
  <2>1. from + i \in 1..Len(Bits) /\ i \in 1..15
    BY LenProperties DEF Has
  <2>2. Bits[from + i] \in {0, 1}
    BY <2>1, ElementOfSeq
  <2> QED  BY <1>1, <1>2, <2>1, <2>2
<1>4. CodeAt(from) = Worth(d, 15)
  BY <1>1 DEF CodeAt
<1>5. Worth(d, 15)[0] = 0 /\ Worth(d, 15)[n] = 2 * Worth(d, 15)[n - 1] + d[n]
  BY WorthStep
<1>6. ASSUME NEW m \in 0..n PROVE Worth(d, 15)[m] = Worth(e, n)[m]
  <2>1. n \in Nat /\ 15 \in Nat /\ m \in 0..15 /\ m <= n /\ \A i \in 1..m : d[i] = e[i]
    BY <1>3
  <2> QED  BY <2>1, WorthSame
<1>7. \A m \in 0..n : Worth(e, n)[m] \in Nat
  <2>1. n \in Nat /\ \A i \in 1..n : e[i] \in Nat
    BY <1>3
  <2> QED  BY <2>1, WorthNat
<1>8. n \in 0..n /\ n - 1 \in 0..n /\ n \in 1..n
  OBVIOUS
<1>9. d[n] = Bits[from + n]
  BY <1>1
<1> QED  BY <1>2, <1>3, <1>4, <1>5, <1>6, <1>7, <1>8, <1>9

LEMMA Limits ==
  ASSUME NEW l, l \in Seq(0..15), NEW n \in 1..15
  PROVE  /\ LimitOf(l)[n] = 2 * LimitOf(l)[n - 1] + Counts(l)[n] /\ Counts(l)[n] \in Nat
         /\ LimitOf(l)[n] \in Nat /\ LimitOf(l)[n - 1] \in Nat /\ LimitOf(l)[0] = 0
<1>1. PICK d : d = Counts(l)
  OBVIOUS
<1>2. \A i \in 1..15 : d[i] \in Nat
  BY <1>1, CountsAre
<1>3. \A m \in 0..15 : Worth(d, 15)[m] \in Nat
  BY <1>2, WorthNat
<1>4. Worth(d, 15)[0] = 0 /\ Worth(d, 15)[n] = 2 * Worth(d, 15)[n - 1] + d[n]
  BY WorthStep
<1>5. n \in 0..15 /\ n - 1 \in 0..15
  OBVIOUS
<1> QED  BY <1>1, <1>2, <1>3, <1>4, <1>5 DEF LimitOf

\* A code that is not below the first of its length has beginnings that are beyond the shorter lengths.
LEMMA Beyond ==
  ASSUME Bits \in Seq({0, 1}), NEW from \in Nat, NEW l, l \in Seq(0..15), NEW n \in 1..15, Has(from, n),
         CodeAt(from)[n] >= 2 * LimitOf(l)[n - 1]
  PROVE  \A m \in 1..n - 1 : m \notin Fits(l, from)
<1>1. PICK N : N = {k \in Nat : k <= n - 1 => CodeAt(from)[n - k] >= 2 * LimitOf(l)[n - k - 1]}
  OBVIOUS
<1>2. ASSUME NEW m \in 1..n - 1, CodeAt(from)[m + 1] >= 2 * LimitOf(l)[m]
      PROVE  CodeAt(from)[m] >= LimitOf(l)[m] /\ CodeAt(from)[m] >= 2 * LimitOf(l)[m - 1] /\ m \notin Fits(l, from)
  <2>1. m + 1 \in 1..15 /\ m \in 1..15 /\ (m + 1) - 1 = m /\ Has(from, m + 1) /\ Has(from, m)
    BY LenProperties DEF Has
  <2>2. /\ CodeAt(from)[m + 1] = 2 * CodeAt(from)[m] + Bits[from + (m + 1)]
        /\ Bits[from + (m + 1)] \in {0, 1} /\ CodeAt(from)[m] \in Nat
    BY <2>1, Digits
  <2>3. /\ LimitOf(l)[m] = 2 * LimitOf(l)[m - 1] + Counts(l)[m] /\ Counts(l)[m] \in Nat
        /\ LimitOf(l)[m] \in Nat /\ LimitOf(l)[m - 1] \in Nat
    BY <2>1, Limits
  <2>4. CodeAt(from)[m] >= LimitOf(l)[m]
    <3>1. CodeAt(from)[m + 1] \in Nat
      BY <2>1, Digits
    <3> QED  BY <1>2, <2>2, <2>3, <3>1, Halves
  <2>5. CodeAt(from)[m] >= 2 * LimitOf(l)[m - 1]
    BY <2>2, <2>3, <2>4, Doubles
  <2>6. m \notin Fits(l, from)
    BY <2>2, <2>3, <2>4 DEF Fits
  <2> QED  BY <2>4, <2>5, <2>6
<1>3. 0 \in N
  BY <1>1
<1>4. ASSUME NEW k \in Nat, k \in N PROVE k + 1 \in N
  <2> SUFFICES ASSUME k + 1 <= n - 1 PROVE CodeAt(from)[n - (k + 1)] >= 2 * LimitOf(l)[n - (k + 1) - 1]
    BY <1>1
  <2>1. PICK m : m = n - (k + 1)
    OBVIOUS
  <2>2. m \in 1..n - 1 /\ n - k = m + 1 /\ n - k - 1 = m
    BY <2>1
  <2>3. CodeAt(from)[m + 1] >= 2 * LimitOf(l)[m]
    BY <1>1, <1>4, <2>2
  <2> QED  BY <1>2, <2>1, <2>2, <2>3
<1>5. Nat \subseteq N
  BY <1>3, <1>4, Induction
<1>6. ASSUME NEW m \in 1..n - 1 PROVE m \notin Fits(l, from)
  <2>1. PICK k : k = n - (m + 1)
    OBVIOUS
  <2>2. k \in Nat /\ k <= n - 1 /\ n - k = m + 1 /\ n - k - 1 = m
    BY <2>1
  <2>3. CodeAt(from)[m + 1] >= 2 * LimitOf(l)[m]
    BY <1>1, <1>5, <2>2
  <2> QED  BY <1>2, <2>3
<1> QED  BY <1>6

LEMMA DecodeFinds ==
  ASSUME Bits \in Seq({0, 1}), NEW from \in Nat, NEW l, l \in Seq(0..15),
         NEW s \in Nat, Spells(stream, from, l, s)
  PROVE  Decode(CodeOf(l), from).symbol = s /\ Decode(CodeOf(l), from).next = from + l[s + 1]
<1>1. PICK p : p = s + 1
  OBVIOUS
<1>2. PICK n : n = l[p]
  OBVIOUS
<1>3. /\ p \in DOMAIN l /\ n # 0 /\ Has(from, n)
      /\ Worth([i \in 1..n |-> Bits[from + i]], n)[n] = 2 * LimitOf(l)[n - 1] + Rank(l, p)
  BY <1>1, <1>2 DEF Spells, Room, Has, Bits, WordOf, LimitOf
<1>4. n \in 1..15 /\ Rank(l, p) \in 0..Counts(l)[n] - 1
  BY <1>2, <1>3, RankInside
<1>5. PICK r : r = Rank(l, p)
  OBVIOUS
<1>6. CodeAt(from)[n] = 2 * LimitOf(l)[n - 1] + r /\ CodeAt(from)[n] \in Nat
  BY <1>3, <1>4, <1>5, Digits
<1>7. /\ LimitOf(l)[n] = 2 * LimitOf(l)[n - 1] + Counts(l)[n] /\ Counts(l)[n] \in Nat
      /\ LimitOf(l)[n] \in Nat /\ LimitOf(l)[n - 1] \in Nat
  BY <1>4, Limits
<1>18. /\ CodeAt(from)[n] < LimitOf(l)[n] /\ CodeAt(from)[n] >= 2 * LimitOf(l)[n - 1]
       /\ CodeAt(from)[n] - 2 * LimitOf(l)[n - 1] = r
  <2>1. PICK x, y, z, k : x = CodeAt(from)[n] /\ y = LimitOf(l)[n - 1] /\ z = LimitOf(l)[n] /\ k = Counts(l)[n]
    OBVIOUS
  <2>2. x \in Nat /\ y \in Nat /\ z \in Nat /\ k \in Nat /\ r \in 0..k - 1 /\ z = 2 * y + k /\ x = 2 * y + r
    BY <1>4, <1>5, <1>6, <1>7, <2>1
  <2>3. x < z /\ x >= 2 * y /\ x - 2 * y = r
    BY <2>2
  <2> QED  BY <2>1, <2>3
<1>8. n \in Fits(l, from)
  BY <1>3, <1>4, <1>18 DEF Fits
<1>9. \A m \in 1..n - 1 : m \notin Fits(l, from)
  BY <1>3, <1>4, <1>18, Beyond
<1>10. \A k \in Fits(l, from) : n <= k
  <2> SUFFICES ASSUME NEW k \in Fits(l, from), k < n PROVE FALSE
    BY <1>4 DEF Fits
  <2>1. k \in 1..n - 1
    BY <1>4 DEF Fits
  <2> QED  BY <1>9, <2>1
<1>11. CodeAt(from)[n] - 2 * LimitOf(l)[n - 1] = r /\ r \in 0..Counts(l)[n] - 1
  BY <1>4, <1>5, <1>18
<1>12. /\ Decode(CodeOf(l), from).symbol = CodeOf(l).symbols[n][r]
       /\ Decode(CodeOf(l), from).next = from + n
  BY <1>8, <1>10, <1>11, DecodeIs
<1>13. PICK t : t = CodeOf(l).symbols[n][r]
  OBVIOUS
<1>14. t \in Nat /\ t + 1 \in DOMAIN l /\ l[t + 1] = n /\ Rank(l, t + 1) = r
  <2>1. n \in 1..15 /\ r \in 0..Counts(l)[n] - 1
    BY <1>4, <1>11, Zenon
  <2>2. t = TableSymbol(l, n, r)
    BY <1>13 DEF TableSymbol
  <2> QED  BY <2>1, <2>2, SymbolOf
<1>15. t + 1 = p
  BY <1>2, <1>3, <1>5, <1>14, RankOnce
<1> QED  BY <1>1, <1>2, <1>12, <1>13, <1>14, <1>15

LEMMA DecodeSpelt ==
  ASSUME Bits \in Seq({0, 1}), NEW from \in Nat, NEW l, l \in Seq(0..15),
         Decode(CodeOf(l), from).symbol # -1
  PROVE  Decode(CodeOf(l), from).symbol \in Nat /\ Spells(stream, from, l, Decode(CodeOf(l), from).symbol)
<1>1. Fits(l, from) # {}
  BY DecodeIs
<1>2. \E n \in Fits(l, from) : \A k \in Fits(l, from) : n <= k
  <2>1. PICK N : N = {m \in Nat : \A k \in 0..m : k \notin Fits(l, from)}
    OBVIOUS
  <2> SUFFICES ASSUME ~\E n \in Fits(l, from) : \A k \in Fits(l, from) : n <= k PROVE FALSE
    OBVIOUS
  <2>2. Fits(l, from) \subseteq 1..15
    BY DEF Fits
  <2>3. 0 \in N
    <3>1. \A k \in 0..0 : k \notin 1..15
      OBVIOUS
    <3> QED  BY <2>1, <2>2, <3>1
  <2>4. ASSUME NEW m \in Nat, m \in N PROVE m + 1 \in N
    <3>1. \A k \in 0..m : k \notin Fits(l, from)
      BY <2>1, <2>4
    <3>2. ASSUME NEW k \in Fits(l, from) PROVE k \in Nat /\ m + 1 <= k
      <4>2. k \in 1..15
        BY <2>2
      <4>3. k \notin 0..m
        BY <3>1
      <4>1. k \in Nat /\ k \notin 0..m
        BY <4>2, <4>3
      <4> QED  BY <4>1
    <3>3. m + 1 \notin Fits(l, from)
      BY <3>2
    <3> QED  BY <2>1, <3>1, <3>3
  <2>5. Nat \subseteq N
    BY <2>3, <2>4, Induction
  <2>6. 15 \in N
    BY <2>5
  <2>7. \A k \in 1..15 : k \in 0..15
    OBVIOUS
  <2> QED  BY <1>1, <2>1, <2>2, <2>6, <2>7, Zenon
<1>3. PICK n \in Fits(l, from) : \A k \in Fits(l, from) : n <= k
  BY <1>2
<1>4. n \in 1..15 /\ Has(from, n) /\ CodeAt(from)[n] < LimitOf(l)[n]
  BY <1>3 DEF Fits
<1>5. /\ LimitOf(l)[n] = 2 * LimitOf(l)[n - 1] + Counts(l)[n] /\ Counts(l)[n] \in Nat
      /\ LimitOf(l)[n] \in Nat /\ LimitOf(l)[n - 1] \in Nat /\ LimitOf(l)[0] = 0
  BY <1>4, Limits
<1>6. /\ CodeAt(from)[0] = 0 /\ CodeAt(from)[n] = 2 * CodeAt(from)[n - 1] + Bits[from + n]
      /\ Bits[from + n] \in {0, 1} /\ CodeAt(from)[n] \in Nat /\ CodeAt(from)[n - 1] \in Nat
      /\ Worth([i \in 1..n |-> Bits[from + i]], n)[n] = CodeAt(from)[n]
  BY <1>4, Digits
<1>7. CodeAt(from)[n] >= 2 * LimitOf(l)[n - 1]
  <2>1. CASE n = 1
    BY <1>5, <1>6, <2>1
  <2>2. CASE n # 1
    <3>3. \A b, c \in Nat : \A x \in {0, 1} : b >= c => 2 * b + x >= 2 * c
      OBVIOUS
    <3>1. n - 1 \in 1..15 /\ Has(from, n - 1) /\ n - 1 \notin Fits(l, from)
      BY <1>3, <1>4, <2>2, LenProperties DEF Has, Fits
    <3>2. CodeAt(from)[n - 1] >= LimitOf(l)[n - 1]
      <4>1. ~(CodeAt(from)[n - 1] < LimitOf(l)[n - 1])
        BY <3>1 DEF Fits
      <4>2. \A x, y \in Nat : ~(x < y) => x >= y
        OBVIOUS
      <4> QED  BY <1>5, <1>6, <4>1, <4>2
    <3> QED  BY <1>5, <1>6, <3>2, <3>3
  <2> QED  BY <2>1, <2>2
<1>8. PICK r : r = CodeAt(from)[n] - 2 * LimitOf(l)[n - 1]
  OBVIOUS
<1>9. r \in 0..Counts(l)[n] - 1 /\ CodeAt(from)[n] = 2 * LimitOf(l)[n - 1] + r
  <2>1. CodeAt(from)[n] < LimitOf(l)[n]
    BY <1>4
  <2>2. /\ CodeAt(from)[n] - 2 * LimitOf(l)[n - 1] \in 0..Counts(l)[n] - 1
        /\ CodeAt(from)[n] = 2 * LimitOf(l)[n - 1] + (CodeAt(from)[n] - 2 * LimitOf(l)[n - 1])
    <3>1. PICK a : a = CodeAt(from)[n]
      OBVIOUS
    <3>2. PICK b : b = LimitOf(l)[n - 1]
      OBVIOUS
    <3>3. PICK c : c = LimitOf(l)[n]
      OBVIOUS
    <3>4. PICK k : k = Counts(l)[n]
      OBVIOUS
    <3>5. a \in Nat /\ b \in Nat /\ c \in Nat /\ k \in Nat /\ c = 2 * b + k /\ a < c /\ a >= 2 * b
      BY <1>5, <1>6, <1>7, <2>1, <3>1, <3>2, <3>3, <3>4
    <3>6. a - 2 * b \in 0..k - 1 /\ a = 2 * b + (a - 2 * b)
      BY <3>5
    <3> QED  BY <3>1, <3>2, <3>4, <3>6
  <2> QED  BY <1>8, <2>2
<1>10. PICK s : s = CodeOf(l).symbols[n][r]
  OBVIOUS
<1>11. Decode(CodeOf(l), from).symbol = s
  BY <1>3, <1>8, <1>10, DecodeIs
<1>12. s \in Nat /\ s + 1 \in DOMAIN l /\ l[s + 1] = n /\ Rank(l, s + 1) = r
  <2>1. n \in 1..15 /\ r \in 0..Counts(l)[n] - 1
    BY <1>4, <1>9, Zenon
  <2>2. s = TableSymbol(l, n, r)
    BY <1>10 DEF TableSymbol
  <2> QED  BY <2>1, <2>2, SymbolOf
<1>13. Spells(stream, from, l, s)
  <2>1. Room(stream, from + n)
    BY <1>4 DEF Room, Has, Bits
  <2>2. Worth([i \in 1..n |-> stream.bits[from + i]], n)[n] = 2 * LimitOf(l)[n - 1] + r
    BY <1>6, <1>9 DEF Bits
  <2>3. l[s + 1] = n /\ n # 0
    BY <1>4, <1>12
  <2>4. WordOf(l, s) = 2 * LimitOf(l)[n - 1] + r
    BY <1>12, <2>3 DEF WordOf, LimitOf
  <2> QED  BY <1>12, <2>1, <2>2, <2>3, <2>4, Zenon DEF Spells
<1> QED  BY <1>11, <1>12, <1>13

-----------------------------------------------------------------------------
(* The decoder and the items of its entry.                                   *)

\* The decoder is before an item: it has read the bits, the bytes and the lengths before it.
Before(i) ==
  LET b == BlockUnder(stream, i) IN
  /\ bit = i.at /\ out = SubSeq(stream.plain, 1, i.out)
  /\ reading = IF i.place = "end" THEN "done" ELSE i.place
  /\ i.place \in {"lens", "symbols"} => last = b.last
  /\ i.place = "lens" => want = b.want /\ clens = CodeOf(b.cl) /\ lens = SubSeq(b.lens, 1, i.read)
  /\ i.place = "symbols" => lit = CodeOf(LitLens(b)) /\ dist = CodeOf(DistLens(b))
InflateInv ==
  /\ stream \in Streams
  /\ \/ reading = "failed" /\ ~stream.whole
     \/ \E k \in 1..Len(stream.items) : Before(stream.items[k])

\* A sequence up to m and the n elements behind that.
LEMMA Extended ==
  ASSUME NEW S, NEW s \in Seq(S), NEW m \in Nat, NEW n \in Nat, m + n <= Len(s),
         NEW f, f = [k \in 1..n |-> s[m + k]]
  PROVE  SubSeq(s, 1, m) \o f = SubSeq(s, 1, m + n)
<1>1. Len(s) \in Nat
  BY LenProperties
<1>2. \A k \in 1..n : m + k \in 1..Len(s) /\ f[k] \in S
  BY <1>1, ElementOfSeq
<1>3. f \in Seq(S) /\ Len(f) = n
  <2>1. f \in [1..n -> S]
    BY <1>2
  <2> QED  BY <2>1 DEF Seq
<1>4. PICK u : u = SubSeq(s, 1, m)
  OBVIOUS
<1>5. u \in Seq(S) /\ Len(u) = m /\ \A k \in 1..m : u[k] = s[k]
  BY <1>1, <1>4, SubSeqProperties
<1>6. PICK w : w = SubSeq(s, 1, m + n)
  OBVIOUS
<1>7. w \in Seq(S) /\ Len(w) = m + n /\ \A k \in 1..m + n : w[k] = s[k]
  BY <1>1, <1>6, SubSeqProperties
<1>8. /\ u \o f \in Seq(S) /\ Len(u \o f) = m + n
      /\ \A k \in 1..m + n : (u \o f)[k] = IF k <= m THEN u[k] ELSE f[k - m]
  <2>1. /\ u \o f \in Seq(S) /\ Len(u \o f) = Len(u) + Len(f)
        /\ \A k \in 1..Len(u) + Len(f) : (u \o f)[k] = IF k <= Len(u) THEN u[k] ELSE f[k - Len(u)]
    <3>1. u \in Seq(S) /\ f \in Seq(S)
      BY <1>3, <1>5
    <3> QED  BY <3>1, ConcatProperties
  <2> QED  BY <1>3, <1>5, <2>1
<1>9. ASSUME NEW k \in 1..m + n PROVE (u \o f)[k] = w[k]
  <2>1. CASE k <= m
    <3>1. k \in 1..m
      BY <2>1
    <3> QED  BY <1>5, <1>7, <1>8, <2>1, <3>1
  <2>2. CASE ~(k <= m)
    <3>1. k - m \in 1..n /\ m + (k - m) = k
      BY <2>2
    <3> QED  BY <1>7, <1>8, <2>2, <3>1
  <2> QED  BY <2>1, <2>2
<1>10. u \o f = w
  BY <1>7, <1>8, <1>9, SeqEqual
<1> QED  BY <1>4, <1>6, <1>10

LEMMA PackedFacts ==
  ASSUME Packed(stream), NEW k \in 1..Len(stream.items)
  PROVE  /\ Bits \in Seq({0, 1}) /\ stream.plain \in Seq(0..255) /\ Len(Bits) \in Nat /\ Len(stream.plain) \in Nat
         /\ ItemTyped(stream, stream.items[k])
         /\ \A n \in DOMAIN stream.blocks : BlockTyped(stream.blocks[n])
         /\ \/ k < Len(stream.items) /\ k + 1 \in 1..Len(stream.items)
                 /\ Item(stream, stream.items[k], stream.items[k + 1])
            \/ IF stream.whole THEN stream.items[k].place = "end" /\ stream.items[k].out = Len(stream.plain)
               ELSE NoItem(stream, stream.items[k])
<1>1. Bits \in Seq({0, 1}) /\ stream.plain \in Seq(0..255)
  BY DEF Packed, Bits
<1>2. Len(Bits) \in Nat /\ Len(stream.plain) \in Nat
  BY <1>1, LenProperties
<1>3. CASE k = Len(stream.items)
  BY <1>1, <1>2, <1>3 DEF Packed
<1>4. CASE k # Len(stream.items)
  <2>1. k \in 1..Len(stream.items) - 1 /\ k < Len(stream.items) /\ k + 1 \in 1..Len(stream.items)
    BY <1>4
  <2> QED  BY <1>1, <1>2, <2>1 DEF Packed
<1> QED  BY <1>3, <1>4

\* What Before says after a step.
LEMMA BeforeNext ==
  ASSUME NEW j, stream' = stream, bit' = j.at, out' = SubSeq(stream.plain, 1, j.out),
         reading' = (IF j.place = "end" THEN "done" ELSE j.place),
         j.place \in {"lens", "symbols"} => last' = BlockUnder(stream, j).last,
         j.place = "lens" => /\ want' = BlockUnder(stream, j).want /\ clens' = CodeOf(BlockUnder(stream, j).cl)
                             /\ lens' = SubSeq(BlockUnder(stream, j).lens, 1, j.read),
         j.place = "symbols" => /\ lit' = CodeOf(LitLens(BlockUnder(stream, j)))
                                /\ dist' = CodeOf(DistLens(BlockUnder(stream, j)))
  PROVE  Before(j)'
BY DEF Before, BlockUnder

-----------------------------------------------------------------------------
(* Headers.                                                                  *)

LEMMA HeaderIs ==
  ASSUME Header, NEW final, final = (Bits[bit + 1] = 1)
  PROVE  \/ ~Has(bit, 3) /\ Refuse
         \/ Has(bit, 3) /\ Number(Bits, bit + 1, 2) = 0 /\ StoredBlock(final, Aligned(bit + 3))
         \/ /\ Has(bit, 3) /\ Number(Bits, bit + 1, 2) = 1
            /\ lit' = FixedLit /\ dist' = FixedDist /\ Block(final, "symbols", bit + 3) /\ UNCHANGED <<want, clens, lens, out>>
         \/ Has(bit, 3) /\ Number(Bits, bit + 1, 2) = 2 /\ Dynamic(final, bit + 3)
         \/ Has(bit, 3) /\ Number(Bits, bit + 1, 2) \notin {0, 1, 2} /\ Refuse
<1>1. CASE ~Has(bit, 3)
  BY <1>1 DEF Header
<1>2. CASE Has(bit, 3)
  <2>1. CASE Number(Bits, bit + 1, 2) = 0
    BY <1>2, <2>1 DEF Header
  <2>2. CASE Number(Bits, bit + 1, 2) = 1
    BY <1>2, <2>2 DEF Header
  <2>3. CASE Number(Bits, bit + 1, 2) = 2
    BY <1>2, <2>3 DEF Header
  <2>4. CASE Number(Bits, bit + 1, 2) \notin {0, 1, 2}
    BY <1>2, <2>4 DEF Header
  <2> QED  BY <1>2, <2>1, <2>2, <2>3, <2>4
<1> QED  BY <1>1, <1>2

LEMMA AlignedNat ==
  \A n \in Nat : Aligned(n) \in Nat
BY DEF Aligned

\* A header that cannot be read is refused.
LEMMA HeaderRefused ==
  ASSUME bit \in Nat, Bits \in Seq({0, 1}), Header, ~HeaderAt(stream, bit)
  PROVE  Refuse
<1>1. PICK final : final = (Bits[bit + 1] = 1)
  OBVIOUS
<1>2. PICK a : a = Aligned(bit + 3)
  OBVIOUS
<1>4. CASE Has(bit, 3) /\ Number(Bits, bit + 1, 2) = 0 /\ StoredBlock(final, a)
  <2>1. ~StoredAt(stream, a)
    BY <1>2, <1>4 DEF HeaderAt, Type, Room, Has, Bits
  <2>2. PICK n : n = Number(Bits, a, 16)
    OBVIOUS
  <2>3. ~(Has(a, 32) /\ Number(Bits, a + 16, 16) = Inverted(n) /\ Has(a + 32, 8 * n))
    BY <2>1, <2>2 DEF StoredAt, Room, Has, Bits
  <2> QED  BY <1>4, <2>2, <2>3 DEF StoredBlock
<1>5. CASE Has(bit, 3) /\ Number(Bits, bit + 1, 2) = 2 /\ Dynamic(final, bit + 3)
  <2>1. ~DynamicAt(stream, bit + 3)
    BY <1>5 DEF HeaderAt, Type, Room, Has, Bits
  <2> QED  BY <1>5, <2>1 DEF Dynamic, DynamicAt, Room, Has, Bits
<1>6. ~(Has(bit, 3) /\ Number(Bits, bit + 1, 2) = 1)
  BY DEF HeaderAt, Type, Room, Has, Bits
<1> QED  BY <1>1, <1>2, <1>4, <1>5, <1>6, HeaderIs

\* What is known of an item and the next when the decoder takes it.
Taking(i, j) ==
  /\ Bits \in Seq({0, 1}) /\ stream.plain \in Seq(0..255)
  /\ \A n \in DOMAIN stream.blocks : BlockTyped(stream.blocks[n])
  /\ ItemTyped(stream, i) /\ ItemTyped(stream, j) /\ Before(i)
  /\ i.block \in DOMAIN stream.blocks

LEMMA StoredTaken ==
  ASSUME NEW i, NEW j, Taking(i, j), NEW b, b = BlockUnder(stream, i), NEW final, final = b.last, NEW at \in Nat,
         StoredAt(stream, at), StoredItem(stream, b, i, j, at), StoredBlock(final, at)
  PROVE  Before(j)'
<1>1. PICK n : n = Number(Bits, at, 16)
  OBVIOUS
<1>2. Has(at, 32) /\ Number(Bits, at + 16, 16) = Inverted(n) /\ Has(at + 32, 8 * n)
  BY <1>1 DEF StoredAt, Room, Has, Bits
<1>3. n \in Nat
  BY <1>1, <1>2, NumberNat, LenProperties DEF Has, Taking
<1>5. PICK f : f = [k \in 1..n |-> Number(Bits, at + 32 + 8 * (k - 1), 8)]
  OBVIOUS
<1>6. /\ out' = out \o f /\ reading' = AfterBlock(final) /\ last' = final /\ bit' = at + 32 + 8 * n
      /\ stream' = stream
  <2>1. Has(at, 32) /\ Number(Bits, at + 16, 16) = Inverted(Number(Bits, at, 16)) /\ Has(at + 32, 8 * Number(Bits, at, 16))
    BY <1>1, <1>2
  <2>2. /\ out' = out \o [k \in 1..Number(Bits, at, 16) |-> Number(Bits, at + 32 + 8 * (k - 1), 8)]
        /\ Block(final, AfterBlock(final), at + 32 + 8 * Number(Bits, at, 16))
    BY <2>1, Zenon DEF StoredBlock
  <2> QED  BY <1>1, <1>5, <2>2 DEF Block
<1>7. /\ j.at = at + 32 + 8 * n /\ j.out = i.out + n /\ Closes(b, i, j)
      /\ \A k \in 1..n : stream.plain[i.out + k] = Number(Bits, at + 32 + 8 * (k - 1), 8)
  BY <1>1 DEF StoredItem, Bits
<1>8. f = [k \in 1..n |-> stream.plain[i.out + k]]
  BY <1>5, <1>7
<1>9. i.out \in Nat /\ i.out + n <= Len(stream.plain) /\ out = SubSeq(stream.plain, 1, i.out)
  BY <1>7 DEF Taking, ItemTyped, Before
<1>10. out' = SubSeq(stream.plain, 1, j.out)
  <2>1. stream.plain \in Seq(0..255)
    BY DEF Taking
  <2>2. SubSeq(stream.plain, 1, i.out) \o f = SubSeq(stream.plain, 1, i.out + n)
    <3>1. PICK m, q : m = i.out /\ q = stream.plain
      OBVIOUS
    <3>2. q \in Seq(0..255) /\ m \in Nat /\ m + n <= Len(q) /\ f = [k \in 1..n |-> q[m + k]]
      BY <1>8, <1>9, <2>1, <3>1
    <3>3. SubSeq(q, 1, m) \o f = SubSeq(q, 1, m + n)
      BY <1>3, <3>2, Extended
    <3> QED  BY <3>1, <3>3
  <2> QED  BY <1>6, <1>7, <1>9, <2>2
<1>11. reading' = (IF j.place = "end" THEN "done" ELSE j.place) /\ j.place \notin {"lens", "symbols"}
  BY <1>6, <1>7 DEF Closes, AfterBlock
<1> QED  BY <1>6, <1>7, <1>10, <1>11, BeforeNext

LEMMA OrderTold == \A n \in 1..19 : \E k \in 1..19 : Order[k] = n - 1
<1> SUFFICES ASSUME NEW n \in 1..19 PROVE \E k \in 1..19 : Order[k] = n - 1
  OBVIOUS
<1>1. /\ Order[1] = 16 /\ Order[2] = 17 /\ Order[3] = 18 /\ Order[4] = 0 /\ Order[5] = 8 /\ Order[6] = 7
      /\ Order[7] = 9 /\ Order[8] = 6 /\ Order[9] = 10 /\ Order[10] = 5 /\ Order[11] = 11 /\ Order[12] = 4
      /\ Order[13] = 12 /\ Order[14] = 3 /\ Order[15] = 13 /\ Order[16] = 2 /\ Order[17] = 14 /\ Order[18] = 1
      /\ Order[19] = 15
  BY DEF Order
<1>2. n \in {1, 2, 3, 4, 5, 6, 7, 8, 9, 10, 11, 12, 13, 14, 15, 16, 17, 18, 19}
  OBVIOUS
<1> QED  BY <1>1, <1>2

LEMMA DynamicTaken ==
  ASSUME NEW i, NEW j, Taking(i, j), NEW b, b = BlockUnder(stream, i), NEW final, final = b.last, NEW at \in Nat,
         DynamicAt(stream, at), DynamicHead(stream, b, i, j, at), Dynamic(final, at)
  PROVE  Before(j)'
<1>1. PICK n : n = Number(Bits, at + 10, 4) + 4
  OBVIOUS
<1>2. Has(at, 14) /\ Has(at + 14, 3 * n)
  BY <1>1 DEF DynamicAt, Room, Has, Bits
<1>3. PICK cl : cl = [q \in 1..19 |-> LET k == CHOOSE k \in 1..19 : Order[k] = q - 1 IN
                                     IF k <= n THEN Number(Bits, at + 14 + 3 * (k - 1), 3) ELSE 0]
  OBVIOUS
<1>4. /\ want' = <<Number(Bits, at, 5) + 257, Number(Bits, at + 5, 5) + 1>> /\ clens' = CodeOf(cl)
      /\ lens' = <<>> /\ reading' = "lens" /\ last' = final /\ bit' = at + 14 + 3 * n
      /\ stream' = stream /\ out' = out
  BY <1>1, <1>2, <1>3 DEF Dynamic, Block
<1>5. /\ b.want = <<Number(Bits, at, 5) + 257, Number(Bits, at + 5, 5) + 1>>
      /\ \A k \in 1..19 : b.cl[Order[k] + 1] = IF k <= n THEN Number(Bits, at + 14 + 3 * (k - 1), 3) ELSE 0
      /\ j.at = at + 14 + 3 * n /\ j.out = i.out /\ j.place = "lens" /\ j.block = i.block /\ j.read = 0
  BY <1>1 DEF DynamicHead, Bits
<1>6. b.cl \in Seq(0..15) /\ Len(b.cl) = 19 /\ b.lens \in Seq(0..15)
  BY DEF Taking, BlockTyped, BlockUnder
<1>7. ASSUME NEW q \in 1..19 PROVE cl[q] = b.cl[q]
  <2>1. PICK k : k = CHOOSE m \in 1..19 : Order[m] = q - 1
    OBVIOUS
  <2>2. k \in 1..19 /\ Order[k] = q - 1
    BY <2>1, OrderTold
  <2>3. cl[q] = IF k <= n THEN Number(Bits, at + 14 + 3 * (k - 1), 3) ELSE 0
    BY <1>3, <2>1
  <2>4. Order[k] + 1 = q
    BY <2>2
  <2> QED  BY <1>5, <2>2, <2>3, <2>4
<1>8. cl = b.cl
  <2>1. b.cl = [q \in 1..19 |-> b.cl[q]]
    BY <1>6, LenProperties
  <2> QED  BY <1>3, <1>7, <2>1
<1>9. lens' = SubSeq(b.lens, 1, 0)
  BY <1>4, <1>6, SubSeqEmpty
<1>10. out' = SubSeq(stream.plain, 1, j.out)
  BY <1>4, <1>5 DEF Taking, Before
<1>11. BlockUnder(stream, j) = b
  BY <1>5 DEF BlockUnder
<1> QED  BY <1>4, <1>5, <1>8, <1>9, <1>10, <1>11, BeforeNext

LEMMA HeaderTaken ==
  ASSUME NEW i, NEW j, Taking(i, j), HeaderItem(stream, BlockUnder(stream, i), i, j), Header
  PROVE  Before(j)'
<1>1. PICK b : b = BlockUnder(stream, i)
  OBVIOUS
<1>2. PICK final : final = (Bits[bit + 1] = 1)
  OBVIOUS
<1>3. bit = i.at /\ bit \in Nat /\ i.place = "header" /\ out = SubSeq(stream.plain, 1, i.out)
  BY DEF Taking, Before, ItemTyped, HeaderItem
<1>4. /\ HeaderAt(stream, bit) /\ b.type = Number(Bits, bit + 1, 2) /\ final = b.last
      /\ \/ b.type = 0 /\ StoredItem(stream, b, i, j, Aligned(bit + 3))
         \/ b.type = 1 /\ Fixed(i, j)
         \/ b.type = 2 /\ DynamicHead(stream, b, i, j, bit + 3)
  BY <1>1, <1>2, <1>3 DEF HeaderItem, Type, Bits
<1>5. Has(bit, 3) /\ Aligned(bit + 3) \in Nat
  <2>1. Room(stream, bit + 3)
    BY <1>4 DEF HeaderAt
  <2>2. bit + 3 \in Nat
    BY <1>3
  <2> QED  BY <2>1, <2>2, AlignedNat DEF Room, Has, Bits
<1>6. CASE b.type = 0
  <2>1. StoredBlock(final, Aligned(bit + 3))
    BY <1>2, <1>4, <1>5, <1>6, HeaderIs
  <2>2. StoredAt(stream, Aligned(bit + 3)) /\ StoredItem(stream, b, i, j, Aligned(bit + 3))
    BY <1>4, <1>6 DEF HeaderAt, Type, Bits
  <2> QED  BY <1>1, <1>4, <1>5, <2>1, <2>2, StoredTaken
<1>7. CASE b.type = 1
  <2>1. /\ lit' = FixedLit /\ dist' = FixedDist /\ reading' = "symbols" /\ last' = final /\ bit' = bit + 3
        /\ stream' = stream /\ out' = out
    BY <1>2, <1>4, <1>5, <1>7, HeaderIs DEF Block
  <2>2. j.at = i.at + 3 /\ j.out = i.out /\ j.place = "symbols" /\ j.block = i.block
    BY <1>4, <1>7 DEF Fixed
  <2>3. BlockUnder(stream, j) = b
    BY <1>1, <2>2 DEF BlockUnder
  <2>4. LitLens(b) = FixedLens /\ DistLens(b) = FixedDistLens
    BY <1>7 DEF LitLens, DistLens
  <2> QED  BY <1>3, <1>4, <2>1, <2>2, <2>3, <2>4, BeforeNext DEF FixedLit, FixedDist
<1>8. CASE b.type = 2
  <2>1. Dynamic(final, bit + 3)
    BY <1>2, <1>4, <1>5, <1>8, HeaderIs
  <2>2. DynamicAt(stream, bit + 3) /\ DynamicHead(stream, b, i, j, bit + 3)
    BY <1>4, <1>8 DEF HeaderAt, Type, Bits
  <2> QED  BY <1>1, <1>3, <1>4, <2>1, <2>2, DynamicTaken
<1> QED  BY <1>4, <1>6, <1>7, <1>8

-----------------------------------------------------------------------------
(* The lengths of a dynamic block.                                           *)

RunOf(s, at) ==
  IF s <= 15 THEN <<s>>
  ELSE [q \in 1..RunLength(s, Number(Bits, at, RunBits(s))) |-> IF s = 16 THEN lens[Len(lens)] ELSE 0]

LEMMA LengthsIs ==
  ASSUME Lengths, NEW s, s = Decode(clens, bit).symbol, NEW at, at = Decode(clens, bit).next
  PROVE  /\ Len(lens) < want[1] + want[2]
         /\ \/ (s = -1 \/ ~Has(at, RunBits(s)) \/ (s = 16 /\ lens = <<>>)) /\ Refuse
            \/ /\ ~(s = -1 \/ ~Has(at, RunBits(s)) \/ (s = 16 /\ lens = <<>>))
               /\ lens' = lens \o RunOf(s, at) /\ bit' = at + RunBits(s)
               /\ UNCHANGED <<stream, reading, last, want, clens, lit, dist, out>>
BY DEF Lengths, RunOf

LEMMA OfSeq == \A S : \A s \in Seq(S) : \A k \in DOMAIN s : s[k] \in S
BY LenProperties, ElementOfSeq

LEMMA RunBitsNat == \A s \in Nat : RunBits(s) \in Nat
BY DEF RunBits

LEMMA LensRead ==
  ASSUME NEW i, ItemTyped(stream, i), Before(i), NEW b, b = BlockUnder(stream, i), BlockTyped(b), i.place = "lens"
  PROVE  /\ bit = i.at /\ bit \in Nat /\ want = b.want /\ clens = CodeOf(b.cl) /\ last = b.last /\ reading = "lens"
         /\ b.cl \in Seq(0..15) /\ DOMAIN b.cl = 1..19
         /\ b.lens \in Seq(0..15) /\ lens = SubSeq(b.lens, 1, i.read) /\ Len(lens) = i.read
         /\ i.read \in Nat /\ i.read <= Len(b.lens) /\ Len(b.lens) \in Nat /\ b.want[1] \in Nat /\ b.want[2] \in Nat
         /\ i.read > 0 => lens[Len(lens)] = b.lens[i.read]
<1>1. /\ bit = i.at /\ bit \in Nat /\ want = b.want /\ clens = CodeOf(b.cl) /\ last = b.last /\ reading = "lens"
      /\ lens = SubSeq(b.lens, 1, i.read)
  BY DEF Before, ItemTyped
<1>2. b.cl \in Seq(0..15) /\ DOMAIN b.cl = 1..19 /\ b.lens \in Seq(0..15) /\ b.want[1] \in Nat /\ b.want[2] \in Nat
  BY LenProperties DEF BlockTyped
<1>3. i.read \in Nat /\ i.read <= Len(b.lens)
  BY DEF ItemTyped
<1>4. Len(b.lens) \in Nat
  BY <1>2, LenProperties
<1>5. \A n \in 1..i.read : b.lens[n] \in 0..15
  BY <1>2, <1>3, <1>4, ElementOfSeq
<1>6. Len(lens) = i.read /\ \A n \in 1..i.read : lens[n] = b.lens[n]
  BY <1>1, <1>3, <1>5, SubSeqProperties
<1> QED  BY <1>1, <1>2, <1>3, <1>4, <1>6

LEMMA LengthTaken ==
  ASSUME NEW i, NEW j, Taking(i, j), NEW b, b = BlockUnder(stream, i), LengthItem(stream, b, i, j), Lengths
  PROVE  Before(j)'
<1>1. PICK s : s = i.symbol
  OBVIOUS
<1>2. PICK at : at = i.at + b.cl[s + 1]
  OBVIOUS
<1>3. PICK n : n = IF s <= 15 THEN 1 ELSE RunLength(s, Number(Bits, at, RunBits(s)))
  OBVIOUS
<1>4. /\ i.place = "lens" /\ i.read < Wanted(b) /\ LengthAt(stream, b, i, s)
      /\ j.at = at + RunBits(s) /\ j.out = i.out /\ j.place = "lens" /\ j.block = i.block /\ j.read = i.read + n
      /\ \A k \in i.read + 1..j.read : b.lens[k] = IF s <= 15 THEN s ELSE IF s = 16 THEN b.lens[i.read] ELSE 0
  BY <1>1, <1>2, <1>3 DEF LengthItem, Bits
<1>5. BlockTyped(b) /\ ItemTyped(stream, i) /\ Before(i) /\ ItemTyped(stream, j) /\ Bits \in Seq({0, 1})
  BY DEF Taking, BlockUnder
<1>6. /\ bit = i.at /\ bit \in Nat /\ want = b.want /\ clens = CodeOf(b.cl) /\ last = b.last /\ reading = "lens"
      /\ b.cl \in Seq(0..15) /\ DOMAIN b.cl = 1..19
      /\ b.lens \in Seq(0..15) /\ lens = SubSeq(b.lens, 1, i.read) /\ Len(lens) = i.read
      /\ i.read \in Nat /\ i.read <= Len(b.lens) /\ Len(b.lens) \in Nat /\ b.want[1] \in Nat /\ b.want[2] \in Nat
      /\ i.read > 0 => lens[Len(lens)] = b.lens[i.read]
  BY <1>4, <1>5, LensRead
<1>7. /\ s \in Nat /\ Spells(stream, bit, b.cl, s) /\ Has(at, RunBits(s)) /\ (s = 16 => i.read > 0)
      /\ s + 1 \in 1..19
  BY <1>1, <1>2, <1>4, <1>5, <1>6 DEF LengthAt, Spells, ItemTyped, Room, Has, Bits
<1>8. s = Decode(clens, bit).symbol /\ at = Decode(clens, bit).next
  BY <1>2, <1>5, <1>6, <1>7, DecodeFinds
<1>9. ~(s = -1 \/ ~Has(at, RunBits(s)) \/ (s = 16 /\ lens = <<>>))
  <2>1. s # -1
    BY <1>7
  <2>2. s = 16 => lens # <<>>
    BY <1>6, <1>7, EmptySeq
  <2> QED  BY <1>7, <2>1, <2>2
<1>10. /\ lens' = lens \o RunOf(s, at) /\ bit' = at + RunBits(s)
       /\ UNCHANGED <<stream, reading, last, want, clens, lit, dist, out>>
  BY <1>8, <1>9, LengthsIs
<1>11. at \in Nat /\ RunBits(s) \in Nat
  <2>1. b.cl[s + 1] \in 0..15
    <3>1. b.cl \in Seq(0..15) /\ s + 1 \in DOMAIN b.cl
      BY <1>6, <1>7
    <3> QED  BY <3>1, OfSeq
  <2>2. at = bit + b.cl[s + 1]
    BY <1>2, <1>6
  <2>3. PICK x : x = b.cl[s + 1]
    OBVIOUS
  <2>4. at = bit + x /\ x \in 0..15 /\ bit \in Nat
    BY <1>6, <2>1, <2>2, <2>3
  <2>5. RunBits(s) \in Nat
    BY <1>7, RunBitsNat
  <2> QED  BY <2>4, <2>5
<1>12. n \in Nat
  <2>1. Number(Bits, at, RunBits(s)) \in Nat
    BY <1>5, <1>7, <1>11, NumberNat DEF Has
  <2> QED  BY <1>3, <2>1 DEF RunLength
<1>13. RunOf(s, at) = [k \in 1..n |-> b.lens[i.read + k]]
  <2>1. ASSUME NEW k \in 1..n
        PROVE  b.lens[i.read + k] = IF s <= 15 THEN s ELSE IF s = 16 THEN lens[Len(lens)] ELSE 0
    <3>1. i.read + k \in i.read + 1..j.read
      BY <1>4, <1>6, <1>12
    <3> QED  BY <1>4, <1>6, <1>7, <3>1
  <2>2. CASE s <= 15
    <3>1. n = 1 /\ RunOf(s, at) = <<s>>
      BY <1>3, <2>2 DEF RunOf
    <3>2. <<s>> = [k \in 1..1 |-> s]
      OBVIOUS
    <3>3. [k \in 1..1 |-> s] = [k \in 1..1 |-> b.lens[i.read + k]]
      BY <2>1, <2>2, <3>1
    <3> QED  BY <3>1, <3>2, <3>3
  <2>3. CASE ~(s <= 15)
    <3>1. RunOf(s, at) = [k \in 1..n |-> IF s = 16 THEN lens[Len(lens)] ELSE 0]
      BY <1>3, <2>3 DEF RunOf
    <3> QED  BY <2>1, <2>3, <3>1
  <2> QED  BY <2>2, <2>3
<1>14. lens' = SubSeq(b.lens, 1, j.read)
  <2>1. i.read + n <= Len(b.lens)
    BY <1>4, <1>5 DEF ItemTyped, BlockUnder
  <2>3. PICK f : f = RunOf(s, at)
    OBVIOUS
  <2>4. f = [k \in 1..n |-> b.lens[i.read + k]]
    BY <1>13, <2>3
  <2>5. b.lens \in Seq(0..15) /\ i.read \in Nat
    BY <1>6
  <2>6. SubSeq(b.lens, 1, i.read) \o f = SubSeq(b.lens, 1, i.read + n)
    BY <1>12, <2>1, <2>4, <2>5, Extended
  <2>2. SubSeq(b.lens, 1, i.read) \o RunOf(s, at) = SubSeq(b.lens, 1, i.read + n)
    BY <2>3, <2>6
  <2> QED  BY <1>4, <1>6, <1>10, <2>2
<1>15. BlockUnder(stream, j) = b /\ out = SubSeq(stream.plain, 1, i.out)
  BY <1>4, <1>5 DEF BlockUnder, Before
<1> QED  BY <1>4, <1>6, <1>10, <1>14, <1>15, BeforeNext

LEMMA LengthRefused ==
  ASSUME Bits \in Seq({0, 1}), NEW i, ItemTyped(stream, i), Before(i), NEW b, b = BlockUnder(stream, i), BlockTyped(b),
         i.place = "lens", \A s \in 0..18 : ~LengthAt(stream, b, i, s), Lengths
  PROVE  Refuse
<1>1. PICK s : s = Decode(clens, bit).symbol
  OBVIOUS
<1>2. PICK at : at = Decode(clens, bit).next
  OBVIOUS
<1>3. /\ bit = i.at /\ bit \in Nat /\ clens = CodeOf(b.cl)
      /\ b.cl \in Seq(0..15) /\ DOMAIN b.cl = 1..19 /\ Len(lens) = i.read /\ i.read \in Nat
      /\ lens = SubSeq(b.lens, 1, i.read)
  BY LensRead
<1> SUFFICES ASSUME s # -1, Has(at, RunBits(s)), ~(s = 16 /\ lens = <<>>) PROVE FALSE
  BY <1>1, <1>2, LengthsIs
<1>4. s \in Nat /\ Spells(stream, bit, b.cl, s)
  BY <1>1, <1>3, DecodeSpelt
<1>5. at = bit + b.cl[s + 1]
  <2>1. Decode(CodeOf(b.cl), bit).next = bit + b.cl[s + 1]
    BY <1>3, <1>4, DecodeFinds
  <2> QED  BY <1>2, <1>3, <2>1
<1>6. s \in 0..18
  <2>1. s + 1 \in 1..19
    BY <1>3, <1>4 DEF Spells
  <2> QED  BY <1>4, <2>1
<1>7. s = 16 => i.read > 0
  <2>1. i.read = 0 => lens = <<>>
    BY <1>3, SubSeqEmpty
  <2>2. i.read = 0 \/ i.read > 0
    <3>1. \A x \in Nat : x = 0 \/ x > 0
      OBVIOUS
    <3> QED  BY <1>3, <3>1
  <2> QED  BY <2>1, <2>2
<1>8. LengthAt(stream, b, i, s)
  BY <1>3, <1>4, <1>5, <1>7 DEF LengthAt, Room, Has, Bits
<1> QED  BY <1>6, <1>8

LEMMA SubOfSub ==
  ASSUME NEW S, NEW s \in Seq(S), NEW m \in Nat, m <= Len(s), NEW a \in Nat \ {0}, NEW c \in Nat, c <= m
  PROVE  SubSeq(SubSeq(s, 1, m), a, c) = SubSeq(s, a, c)
<1>1. Len(s) \in Nat /\ \A k \in 1..Len(s) : s[k] \in S
  BY LenProperties, ElementOfSeq
<1>2. PICK t : t = SubSeq(s, 1, m)
  OBVIOUS
<1>3. t \in Seq(S) /\ Len(t) = m /\ \A k \in 1..m : t[k] = s[k]
  BY <1>1, <1>2, SubSeqProperties
<1>4. PICK u : u = SubSeq(t, a, c)
  OBVIOUS
<1>5. PICK v : v = SubSeq(s, a, c)
  OBVIOUS
<1>6. \A k \in a..c : t[k] = s[k] /\ t[k] \in S /\ s[k] \in S
  BY <1>1, <1>3
<1>7. u \in Seq(S) /\ Len(u) = (IF a <= c THEN c - a + 1 ELSE 0) /\ \A k \in 1..c - a + 1 : u[k] = t[a + k - 1]
  BY <1>4, <1>6, SubSeqProperties
<1>8. v \in Seq(S) /\ Len(v) = (IF a <= c THEN c - a + 1 ELSE 0) /\ \A k \in 1..c - a + 1 : v[k] = s[a + k - 1]
  BY <1>5, <1>6, SubSeqProperties
<1>9. ASSUME NEW k \in 1..Len(u) PROVE u[k] = v[k]
  <2>1. k \in 1..c - a + 1 /\ a + k - 1 \in a..c
    BY <1>7
  <2> QED  BY <1>6, <1>7, <1>8, <2>1
<1>10. u = v
  BY <1>7, <1>8, <1>9, SeqEqual
<1> QED  BY <1>2, <1>4, <1>5, <1>10

LEMMA CodesTaken ==
  ASSUME NEW i, NEW j, Taking(i, j), NEW b, b = BlockUnder(stream, i), CodesItem(b, i, j), Codes
  PROVE  Before(j)'
<1>1. /\ i.place = "lens" /\ i.read = b.want[1] + b.want[2]
      /\ j.at = i.at /\ j.out = i.out /\ j.place = "symbols" /\ j.block = i.block
  BY DEF CodesItem, Wanted
<1>2. BlockTyped(b) /\ ItemTyped(stream, i) /\ Before(i)
  BY DEF Taking, BlockUnder
<1>3. /\ bit = i.at /\ want = b.want /\ last = b.last /\ reading = "lens"
      /\ b.lens \in Seq(0..15) /\ lens = SubSeq(b.lens, 1, i.read) /\ Len(lens) = i.read
      /\ i.read \in Nat /\ i.read <= Len(b.lens) /\ Len(b.lens) \in Nat /\ b.want[1] \in Nat /\ b.want[2] \in Nat
  BY <1>1, <1>2, LensRead
<1>4. /\ lit' = CodeOf(SubSeq(lens, 1, want[1])) /\ dist' = CodeOf(SubSeq(lens, want[1] + 1, Len(lens)))
      /\ reading' = "symbols" /\ UNCHANGED <<stream, bit, last, want, clens, lens, out>>
  BY <1>1, <1>3 DEF Codes
<1>5. LitLens(b) = SubSeq(b.lens, 1, b.want[1]) /\ DistLens(b) = SubSeq(b.lens, b.want[1] + 1, i.read)
  <2>1. b.type # 1
    BY <1>1, <1>2 DEF ItemTyped
  <2> QED  BY <1>1, <2>1 DEF LitLens, DistLens
<1>6. SubSeq(lens, 1, want[1]) = SubSeq(b.lens, 1, b.want[1])
  <2>1. 1 \in Nat \ {0} /\ b.want[1] \in Nat /\ b.want[1] <= i.read /\ i.read \in Nat /\ i.read <= Len(b.lens)
    BY <1>1, <1>3
  <2>2. SubSeq(SubSeq(b.lens, 1, i.read), 1, b.want[1]) = SubSeq(b.lens, 1, b.want[1])
    BY <1>3, <2>1, SubOfSub
  <2> QED  BY <1>3, <2>2
<1>7. SubSeq(lens, want[1] + 1, Len(lens)) = SubSeq(b.lens, b.want[1] + 1, i.read)
  <2>1. PICK a : a = b.want[1] + 1
    OBVIOUS
  <2>2. PICK m : m = i.read
    OBVIOUS
  <2>3. a \in Nat \ {0} /\ m \in Nat /\ m <= m /\ m <= Len(b.lens) /\ b.lens \in Seq(0..15)
    BY <1>3, <2>1, <2>2
  <2>4. SubSeq(SubSeq(b.lens, 1, m), a, m) = SubSeq(b.lens, a, m)
    BY <2>3, SubOfSub
  <2> QED  BY <1>3, <2>1, <2>2, <2>4
<1>8. BlockUnder(stream, j) = b /\ out = SubSeq(stream.plain, 1, i.out)
  BY <1>1, <1>2 DEF BlockUnder, Before
<1> QED  BY <1>1, <1>3, <1>4, <1>5, <1>6, <1>7, <1>8, BeforeNext

-----------------------------------------------------------------------------
(* The symbols of a block.                                                   *)

LEMMA TablesTyped ==
  /\ \A k \in 1..29 : LenBase[k] \in Nat /\ LenExtra[k] \in Nat
  /\ \A k \in 1..30 : DistBase[k] \in Nat \ {0} /\ DistExtra[k] \in Nat
<1>1. ASSUME NEW k \in 1..29 PROVE LenBase[k] \in Nat
  BY SMT DEF LenBase
<1>2. ASSUME NEW k \in 1..29 PROVE LenExtra[k] \in Nat
  BY SMT DEF LenExtra
<1>3. ASSUME NEW k \in 1..30 PROVE DistBase[k] \in Nat \ {0}
  BY SMT DEF DistBase
<1>4. ASSUME NEW k \in 1..30 PROVE DistExtra[k] \in Nat
  BY SMT DEF DistExtra
<1> QED  BY <1>1, <1>2, <1>3, <1>4

LEMMA OfLength == \A S : \A n \in Nat : \A f \in [1..n -> S] : f \in Seq(S)
BY DEF Seq

LEMMA CodesTyped ==
  ASSUME NEW b, BlockTyped(b), b.type = 1 \/ Wanted(b) <= Len(b.lens)
  PROVE  LitLens(b) \in Seq(0..15) /\ DistLens(b) \in Seq(0..15)
<1>1. CASE b.type = 1
  <2>1. FixedLens \in Seq(0..15)
    <3>1. PICK n \in Nat : n = 288
      OBVIOUS
    <3>2. FixedLens \in [1..288 -> 0..15]
      BY DEF FixedLens
    <3>3. FixedLens \in [1..n -> 0..15]
      BY <3>1, <3>2
    <3> QED  BY <3>3, OfLength
  <2>2. FixedDistLens \in Seq(0..15)
    <3>1. PICK n \in Nat : n = 30
      OBVIOUS
    <3>2. FixedDistLens \in [1..30 -> 0..15]
      BY DEF FixedDistLens
    <3>3. FixedDistLens \in [1..n -> 0..15]
      BY <3>1, <3>2
    <3> QED  BY <3>3, OfLength
  <2> QED  BY <1>1, <2>1, <2>2 DEF LitLens, DistLens
<1>2. CASE b.type # 1
  <2>1. b.lens \in Seq(0..15) /\ b.want[1] \in Nat /\ b.want[2] \in Nat /\ b.want[1] + b.want[2] <= Len(b.lens)
    BY <1>2 DEF BlockTyped, Wanted
  <2>2. Len(b.lens) \in Nat /\ \A k \in 1..Len(b.lens) : b.lens[k] \in 0..15
    BY <2>1, LenProperties, ElementOfSeq
  <2>3. SubSeq(b.lens, 1, b.want[1]) \in Seq(0..15)
    <3>1. PICK m, n : m = b.want[1] /\ n = Len(b.lens)
      OBVIOUS
    <3>2. m \in Nat /\ n \in Nat /\ m <= n
      BY <2>1, <2>2, <3>1
    <3>3. \A k \in 1..m : k \in 1..n
      BY <3>2
    <3>4. \A k \in 1..m : b.lens[k] \in 0..15
      BY <2>2, <3>1, <3>3
    <3>5. SubSeq(b.lens, 1, m) \in Seq(0..15)
      BY <3>2, <3>4, SubSeqProperties
    <3> QED  BY <3>1, <3>5
  <2>4. SubSeq(b.lens, b.want[1] + 1, b.want[1] + b.want[2]) \in Seq(0..15)
    <3>1. PICK a : a = b.want[1] + 1
      OBVIOUS
    <3>2. PICK c : c = b.want[1] + b.want[2]
      OBVIOUS
    <3>3. a \in Int /\ c \in Int /\ \A k \in a..c : b.lens[k] \in 0..15
      BY <2>1, <2>2, <3>1, <3>2
    <3>4. SubSeq(b.lens, a, c) \in Seq(0..15)
      BY <3>3, SubSeqProperties
    <3> QED  BY <3>1, <3>2, <3>4
  <2> QED  BY <1>2, <2>3, <2>4 DEF LitLens, DistLens
<1> QED  BY <1>1, <1>2

\* The bytes from a distance back.
CopiedOn(f, l, d) ==
  f = [i \in 0..l |-> IF i = 0 THEN out ELSE Append(f[i - 1], f[i - 1][Len(out) + i - d])]

LEMMA Referred ==
  ASSUME NEW S, NEW s \in Seq(S), NEW m \in Nat, NEW l \in Nat, m + l <= Len(s), out = SubSeq(s, 1, m),
         NEW d \in Nat \ {0}, d <= m, \A n \in m + 1..m + l : s[n] = s[n - d]
  PROVE  BackReference(l, d) = SubSeq(s, 1, m + l)
<1>1. Len(s) \in Nat /\ \A k \in 1..Len(s) : s[k] \in S
  BY LenProperties, ElementOfSeq
<1>2. ASSUME NEW n \in 0..m + l
      PROVE  SubSeq(s, 1, n) \in Seq(S) /\ Len(SubSeq(s, 1, n)) = n /\ \A k \in 1..n : SubSeq(s, 1, n)[k] = s[k]
  <2>1. n \in Int /\ \A k \in 1..n : s[k] \in S
    BY <1>1
  <2> QED  BY <2>1, SubSeqProperties
<1>3. Len(out) = m
  BY <1>2
<1>4. ASSUME NEW i \in 1..l
      PROVE  SubSeq(s, 1, m + i) = Append(SubSeq(s, 1, m + (i - 1)), SubSeq(s, 1, m + (i - 1))[Len(out) + i - d])
  <2>1. PICK t : t = SubSeq(s, 1, m + (i - 1))
    OBVIOUS
  <2>2. PICK n : n = m + (i - 1)
    OBVIOUS
  <2>3. n \in 0..m + l /\ n + 1 \in 0..m + l /\ n + 1 \in m + 1..m + l /\ n + 1 = m + i /\ n + 1 <= Len(s)
    BY <1>1, <2>2
  <2>4. t \in Seq(S) /\ Len(t) = n /\ \A k \in 1..n : t[k] = s[k]
    BY <1>2, <2>1, <2>2, <2>3
  <2>5. n + 1 - d \in 1..n /\ Len(out) + i - d = n + 1 - d
    BY <1>3, <2>2, <2>3
  <2>6. t[n + 1 - d] = s[n + 1]
    BY <2>3, <2>4, <2>5
  <2>7. s[n + 1] \in S
    BY <1>1, <2>3
  <2>8. PICK u : u = Append(t, s[n + 1])
    OBVIOUS
  <2>9. u \in Seq(S) /\ Len(u) = n + 1 /\ \A k \in 1..n + 1 : u[k] = s[k]
    <3>1. PICK x : x = s[n + 1]
      OBVIOUS
    <3>2. u \in Seq(S) /\ Len(u) = Len(t) + 1 /\ \A k \in 1..Len(t) + 1 : u[k] = IF k <= Len(t) THEN t[k] ELSE x
      <4>1. t \in Seq(S) /\ x \in S /\ u = Append(t, x)
        BY <2>4, <2>7, <2>8, <3>1
      <4>2. /\ Append(t, x) \in Seq(S) /\ Len(Append(t, x)) = Len(t) + 1
            /\ \A k \in 1..Len(t) + 1 : Append(t, x)[k] = IF k <= Len(t) THEN t[k] ELSE x
        BY <4>1, AppendProperties
      <4> QED  BY <4>1, <4>2
    <3>3. ASSUME NEW k \in 1..n + 1 PROVE u[k] = s[k]
      <4>1. CASE k <= n
        <5>1. k \in 1..n
          BY <2>3, <4>1
        <5> QED  BY <2>3, <2>4, <3>2, <4>1, <5>1
      <4>2. CASE ~(k <= n)
        <5>1. k = n + 1
          BY <2>3, <4>2
        <5> QED  BY <2>4, <3>1, <3>2, <4>2, <5>1
      <4> QED  BY <4>1, <4>2
    <3> QED  BY <2>4, <3>2, <3>3
  <2>10. PICK v : v = SubSeq(s, 1, n + 1)
    OBVIOUS
  <2>11. v \in Seq(S) /\ Len(v) = n + 1 /\ \A k \in 1..n + 1 : v[k] = s[k]
    BY <1>2, <2>3, <2>10
  <2>12. u = v
    BY <2>9, <2>11, SeqEqual
  <2> QED  BY <2>1, <2>3, <2>5, <2>6, <2>8, <2>10, <2>12
<1>5. PICK g : g = [i \in 0..l |-> SubSeq(s, 1, m + i)]
  OBVIOUS
<1>6. CopiedOn(g, l, d)
  <2>1. ASSUME NEW i \in 0..l
        PROVE  g[i] = IF i = 0 THEN out ELSE Append(g[i - 1], g[i - 1][Len(out) + i - d])
    <3>1. CASE i = 0
      BY <1>5, <3>1
    <3>2. CASE i # 0
      <4>1. i \in 1..l /\ i - 1 \in 0..l
        BY <3>2
      <4>2. g[i] = SubSeq(s, 1, m + i) /\ g[i - 1] = SubSeq(s, 1, m + (i - 1))
        BY <1>5, <4>1
      <4> QED  BY <1>4, <3>2, <4>1, <4>2
    <3> QED  BY <3>1, <3>2
  <2>2. g = [i \in 0..l |-> g[i]]
    BY <1>5
  <2> QED  BY <2>1, <2>2 DEF CopiedOn
<1>7. PICK f : CopiedOn(f, l, d) /\ BackReference(l, d) = f[l]
  <2>1. PICK f : f = CHOOSE h : CopiedOn(h, l, d)
    OBVIOUS
  <2>2. CopiedOn(f, l, d)
    BY <1>6, <2>1
  <2>3. BackReference(l, d) = f[l]
    BY <2>1 DEF BackReference, CopiedOn
  <2> QED  BY <2>2, <2>3
<1>8. PICK N : N = {n \in Nat : n <= l => f[n] = SubSeq(s, 1, m + n)}
  OBVIOUS
<1>9. 0 \in N
  BY <1>7, <1>8 DEF CopiedOn
<1>10. ASSUME NEW n \in Nat, n \in N PROVE n + 1 \in N
  <2> SUFFICES ASSUME n + 1 <= l PROVE f[n + 1] = SubSeq(s, 1, m + (n + 1))
    BY <1>8
  <2>1. PICK i : i = n + 1
    OBVIOUS
  <2>2. i \in 0..l /\ i # 0 /\ i \in 1..l /\ i - 1 = n /\ n <= l
    BY <2>1
  <2>3. f[i] = Append(f[i - 1], f[i - 1][Len(out) + i - d])
    BY <1>7, <2>2 DEF CopiedOn
  <2>4. f[i - 1] = SubSeq(s, 1, m + (i - 1))
    BY <1>8, <1>10, <2>2
  <2> QED  BY <1>4, <2>1, <2>2, <2>3, <2>4
<1>11. l \in N
  BY <1>9, <1>10, Induction
<1> QED  BY <1>7, <1>8, <1>11

LEMMA CodesRefused ==
  ASSUME NEW i, ItemTyped(stream, i), Before(i), NEW b, b = BlockUnder(stream, i), BlockTyped(b),
         i.place = "lens", i.read > Wanted(b), Codes
  PROVE  Refuse
<1>1. want = b.want /\ Len(lens) = i.read /\ i.read \in Nat /\ b.want[1] \in Nat /\ b.want[2] \in Nat
  BY LensRead
<1>2. Len(lens) # want[1] + want[2]
  BY <1>1 DEF Wanted
<1> QED  BY <1>2 DEF Codes

LEMMA SymbolsRead ==
  ASSUME stream.plain \in Seq(0..255),
         NEW i, ItemTyped(stream, i), Before(i), NEW b, b = BlockUnder(stream, i), BlockTyped(b), i.place = "symbols"
  PROVE  /\ bit = i.at /\ bit \in Nat /\ last = b.last /\ reading = "symbols"
         /\ lit = CodeOf(LitLens(b)) /\ dist = CodeOf(DistLens(b))
         /\ LitLens(b) \in Seq(0..15) /\ DistLens(b) \in Seq(0..15)
         /\ i.out \in Nat /\ i.out <= Len(stream.plain) /\ Len(stream.plain) \in Nat
         /\ out = SubSeq(stream.plain, 1, i.out) /\ Len(out) = i.out
<1>1. /\ bit = i.at /\ bit \in Nat /\ last = b.last /\ reading = "symbols"
      /\ lit = CodeOf(LitLens(b)) /\ dist = CodeOf(DistLens(b)) /\ out = SubSeq(stream.plain, 1, i.out)
  BY DEF Before, ItemTyped
<1>2. b.type = 1 \/ Wanted(b) <= Len(b.lens)
  BY DEF ItemTyped
<1>3. LitLens(b) \in Seq(0..15) /\ DistLens(b) \in Seq(0..15)
  BY <1>2, CodesTyped
<1>4. i.out \in Nat /\ i.out <= Len(stream.plain) /\ Len(stream.plain) \in Nat
  BY LenProperties DEF ItemTyped
<1>5. ASSUME NEW n \in 1..i.out PROVE stream.plain[n] \in 0..255
  <2>1. n \in 1..Len(stream.plain)
    BY <1>4
  <2> QED  BY <2>1, ElementOfSeq
<1>6. Len(out) = i.out
  BY <1>1, <1>4, <1>5, SubSeqProperties
<1> QED  BY <1>1, <1>3, <1>4, <1>6

\* The four ways a symbol is taken.
SymbolCase(s, at) ==
  \/ s \in 0..255 /\ Read(at, Append(out, s), "symbols")
  \/ s = EndOfBlock /\ Read(at, out, AfterBlock(last))
  \/ s \in 257..285 /\ Match(s, at)
  \/ s \notin 0..285 /\ Refuse

LEMMA SymbolIs ==
  ASSUME Symbol, NEW s, s = Decode(lit, bit).symbol, NEW at, at = Decode(lit, bit).next
  PROVE  SymbolCase(s, at)
<1>1. /\ s \in 0..255 => s # EndOfBlock /\ s \notin 257..285
      /\ s = EndOfBlock => s \notin 0..255 /\ s \notin 257..285
      /\ s \in 257..285 => s \notin 0..255 /\ s # EndOfBlock
      /\ s \notin 0..255 /\ s # EndOfBlock /\ s \notin 257..285 => s \notin 0..285
  <2>1. s \in 0..255 => s # EndOfBlock /\ s \notin 257..285
    BY DEF EndOfBlock
  <2>2. s = EndOfBlock => s \notin 0..255 /\ s \notin 257..285
    BY DEF EndOfBlock
  <2>3. s \in 257..285 => s \notin 0..255 /\ s # EndOfBlock
    BY DEF EndOfBlock
  <2>4. s \in 0..285 => s \in 0..255 \/ s = EndOfBlock \/ s \in 257..285
    BY DEF EndOfBlock
  <2> QED  BY <2>1, <2>2, <2>3, <2>4
<1>2. CASE s \in 0..255
  BY <1>1, <1>2 DEF Symbol, SymbolCase
<1>3. CASE s = EndOfBlock
  BY <1>1, <1>3 DEF Symbol, SymbolCase
<1>4. CASE s \in 257..285
  BY <1>1, <1>4 DEF Symbol, SymbolCase
<1>5. CASE s \notin 0..255 /\ s # EndOfBlock /\ s \notin 257..285
  BY <1>1, <1>5 DEF Symbol, SymbolCase
<1> QED  BY <1>2, <1>3, <1>4, <1>5

LEMMA MatchIs ==
  ASSUME NEW s, NEW from, Match(s, from), NEW k, k = s - EndOfBlock,
         NEW d, d = Decode(dist, from + LenExtra[k]).symbol, NEW at, at = Decode(dist, from + LenExtra[k]).next,
         NEW l, l = LenBase[k] + Number(Bits, from, LenExtra[k]),
         NEW distance, distance = DistBase[d + 1] + Number(Bits, at, DistExtra[d + 1])
  PROVE  \/ (~Has(from, LenExtra[k]) \/ d \notin 0..29 \/ ~Has(at, DistExtra[d + 1]) \/ distance > Len(out)) /\ Refuse
         \/ /\ ~(~Has(from, LenExtra[k]) \/ d \notin 0..29 \/ ~Has(at, DistExtra[d + 1]) \/ distance > Len(out))
            /\ Read(at + DistExtra[d + 1], BackReference(l, distance), "symbols")
<1> USE DEF Match
<1>1. CASE ~Has(from, LenExtra[k]) \/ d \notin 0..29
  BY <1>1
<1>2. CASE ~(~Has(from, LenExtra[k]) \/ d \notin 0..29)
  BY <1>2
<1> QED  BY <1>1, <1>2

LEMMA AppendedNext ==
  ASSUME NEW S, NEW s \in Seq(S), NEW m \in Nat, m + 1 <= Len(s)
  PROVE  Append(SubSeq(s, 1, m), s[m + 1]) = SubSeq(s, 1, m + 1)
<1>1. Len(s) \in Nat /\ \A k \in 1..Len(s) : s[k] \in S
  BY LenProperties, ElementOfSeq
<1>2. PICK t : t = SubSeq(s, 1, m)
  OBVIOUS
<1>3. t \in Seq(S) /\ Len(t) = m /\ \A k \in 1..m : t[k] = s[k]
  BY <1>1, <1>2, SubSeqProperties
<1>4. m + 1 \in 1..Len(s) /\ m + 1 \in Nat
  BY <1>1
<1>5. PICK x : x = s[m + 1]
  OBVIOUS
<1>6. x \in S
  BY <1>1, <1>4, <1>5
<1>7. PICK u : u = Append(t, x)
  OBVIOUS
<1>8. u \in Seq(S) /\ Len(u) = m + 1 /\ \A k \in 1..m + 1 : u[k] = IF k <= m THEN t[k] ELSE x
  BY <1>3, <1>6, <1>7, AppendProperties
<1>9. PICK v : v = SubSeq(s, 1, m + 1)
  OBVIOUS
<1>10. v \in Seq(S) /\ Len(v) = m + 1 /\ \A k \in 1..m + 1 : v[k] = s[k]
  BY <1>1, <1>4, <1>9, SubSeqProperties
<1>11. ASSUME NEW k \in 1..m + 1 PROVE u[k] = v[k]
  <2>1. CASE k <= m
    <3>1. k \in 1..m
      BY <2>1
    <3> QED  BY <1>3, <1>8, <1>10, <2>1, <3>1
  <2>2. CASE ~(k <= m)
    <3>1. k = m + 1
      BY <2>2
    <3> QED  BY <1>5, <1>8, <1>10, <2>2, <3>1
  <2> QED  BY <2>1, <2>2
<1>12. u = v
  BY <1>8, <1>10, <1>11, SeqEqual
<1> QED  BY <1>2, <1>5, <1>7, <1>9, <1>12

LEMMA SymbolTaken ==
  ASSUME NEW i, NEW j, Taking(i, j), NEW b, b = BlockUnder(stream, i), SymbolItem(stream, b, i, j), Symbol
  PROVE  Before(j)'
<1>1. PICK s : s = i.symbol
  OBVIOUS
<1>2. PICK from : from = i.at + LitLens(b)[s + 1]
  OBVIOUS
<1>3. /\ i.place = "symbols" /\ SymbolAt(stream, b, i, s, i.far)
      /\ \/ s < EndOfBlock /\ LiteralItem(stream, i, j, from)
         \/ s = EndOfBlock /\ j.at = from /\ j.out = i.out /\ Closes(b, i, j)
         \/ s > EndOfBlock /\ CopyItem(stream, b, i, j, from)
  BY <1>1, <1>2 DEF SymbolItem
<1>4. /\ BlockTyped(b) /\ ItemTyped(stream, i) /\ Before(i) /\ ItemTyped(stream, j) /\ Bits \in Seq({0, 1})
      /\ stream.plain \in Seq(0..255)
  BY DEF Taking, BlockUnder
<1>5. /\ bit = i.at /\ bit \in Nat /\ last = b.last /\ reading = "symbols"
      /\ lit = CodeOf(LitLens(b)) /\ dist = CodeOf(DistLens(b))
      /\ LitLens(b) \in Seq(0..15) /\ DistLens(b) \in Seq(0..15)
      /\ i.out \in Nat /\ i.out <= Len(stream.plain) /\ Len(stream.plain) \in Nat
      /\ out = SubSeq(stream.plain, 1, i.out) /\ Len(out) = i.out
  BY <1>3, <1>4, SymbolsRead
<1>6. s \in Nat /\ s \in 0..285 /\ Spells(stream, bit, LitLens(b), s)
  <2>1. s \in 0..285 /\ Spells(stream, i.at, LitLens(b), s)
    BY <1>3 DEF SymbolAt
  <2>2. s \in Nat
    BY <2>1
  <2> QED  BY <1>5, <2>1, <2>2
<1>7. s = Decode(lit, bit).symbol /\ from = Decode(lit, bit).next
  <2>1. PICK w : w = LitLens(b)
    OBVIOUS
  <2>2. Decode(CodeOf(w), bit).symbol = s /\ Decode(CodeOf(w), bit).next = bit + w[s + 1]
    BY <1>4, <1>5, <1>6, <2>1, DecodeFinds
  <2> QED  BY <1>2, <1>5, <2>1, <2>2
<1>8. from \in Nat /\ from <= Len(Bits)
  <2>1. LitLens(b)[s + 1] \in 0..15 /\ Room(stream, bit + LitLens(b)[s + 1])
    <3>1. s + 1 \in 1..Len(LitLens(b))
      BY <1>5, <1>6, LenProperties DEF Spells
    <3> QED  BY <1>5, <1>6, <3>1, ElementOfSeq DEF Spells
  <2>2. PICK x : x = LitLens(b)[s + 1]
    OBVIOUS
  <2>3. from = bit + x /\ x \in 0..15 /\ bit \in Nat
    BY <1>2, <1>5, <2>1, <2>2
  <2>4. from \in Nat
    BY <2>3
  <2>5. Room(stream, from)
    BY <2>1, <2>2, <2>3
  <2> QED  BY <2>4, <2>5 DEF Room, Bits
<1>9. EndOfBlock = 256
  BY DEF EndOfBlock
<1>10. CASE s < EndOfBlock
  <2>1. LiteralItem(stream, i, j, from) /\ s \in 0..255 /\ s \notin 257..285 /\ s # EndOfBlock
    BY <1>3, <1>6, <1>9, <1>10
  <2>2. Read(from, Append(out, s), "symbols")
    BY <1>6, <1>7, <2>1, SymbolIs DEF SymbolCase
  <2>3. j.at = from /\ j.out = i.out + 1 /\ stream.plain[j.out] = s /\ j.place = "symbols" /\ j.block = i.block
    BY <1>1, <2>1 DEF LiteralItem
  <2>4. i.out + 1 <= Len(stream.plain)
    BY <1>4, <2>3 DEF ItemTyped
  <2>5. Append(out, s) = SubSeq(stream.plain, 1, j.out)
    BY <1>4, <1>5, <2>3, <2>4, AppendedNext
  <2>6. BlockUnder(stream, j) = b
    BY <2>3 DEF BlockUnder
  <2> QED  BY <1>5, <2>2, <2>3, <2>5, <2>6, BeforeNext DEF Read
<1>11. CASE s = EndOfBlock
  <2>1. j.at = from /\ j.out = i.out /\ Closes(b, i, j) /\ s \in 0..285 /\ s \notin 0..255 /\ s \notin 257..285
    BY <1>3, <1>6, <1>9, <1>11
  <2>2. Read(from, out, AfterBlock(last))
    BY <1>7, <2>1, SymbolIs DEF SymbolCase
  <2>3. reading' = (IF j.place = "end" THEN "done" ELSE j.place) /\ j.place \notin {"lens", "symbols"}
    BY <1>5, <2>1, <2>2 DEF Closes, AfterBlock, Read
  <2> QED  BY <1>5, <2>1, <2>2, <2>3, BeforeNext DEF Read
<1>12. CASE s > EndOfBlock
  <2>1. PICK k : k = s - EndOfBlock
    OBVIOUS
  <2>2. PICK d : d = i.far
    OBVIOUS
  <2>3. PICK way : way = from + LenExtra[k]
    OBVIOUS
  <2>4. PICK at : at = way + DistLens(b)[d + 1]
    OBVIOUS
  <2>5. s \in 257..285 /\ s \notin 0..255 /\ s # EndOfBlock /\ k \in 1..29
    BY <1>6, <1>9, <1>12, <2>1
  <2>6. /\ d \in 0..29 /\ Spells(stream, way, DistLens(b), d)
        /\ Room(stream, at + DistExtra[d + 1]) /\ DistanceOf(stream, at, d) <= i.out
    BY <1>2, <1>3, <1>12, <2>1, <2>2, <2>3, <2>4 DEF SymbolAt, DistanceAt
  <2>7. /\ LenBase[k] \in Nat /\ LenExtra[k] \in Nat /\ DistBase[d + 1] \in Nat \ {0} /\ DistExtra[d + 1] \in Nat
    <3>1. d + 1 \in 1..30
      BY <2>6
    <3> QED  BY <2>5, <3>1, TablesTyped
  <2>8. way \in Nat /\ at \in Nat /\ way <= at /\ at <= Len(Bits)
    <3>1. d + 1 \in 1..Len(DistLens(b))
      BY <1>5, <2>6, LenProperties DEF Spells
    <3>2. PICK x : x = DistLens(b)[d + 1]
      OBVIOUS
    <3>3. x \in 0..15
      BY <1>5, <3>1, <3>2, ElementOfSeq
    <3>4. PICK y : y = LenExtra[k]
      OBVIOUS
    <3>5. way = from + y /\ at = way + x /\ y \in Nat
      BY <2>3, <2>4, <2>7, <3>2, <3>4
    <3>6. way \in Nat /\ at \in Nat /\ way <= at
      BY <1>8, <3>3, <3>5
    <3>7. Room(stream, at)
      BY <2>4, <2>6, <3>2 DEF Spells
    <3> QED  BY <3>6, <3>7 DEF Room, Bits
  <2>9. Has(from, LenExtra[k]) /\ Has(at, DistExtra[d + 1])
    <3>1. Len(Bits) \in Nat
      BY <1>4, LenProperties
    <3>2. Has(from, LenExtra[k])
      BY <2>3, <2>8, <3>1 DEF Has
    <3> QED  BY <2>6, <3>2 DEF Room, Has, Bits
  <2>10. d = Decode(dist, way).symbol /\ at = Decode(dist, way).next
    BY <1>4, <1>5, <2>4, <2>6, <2>8, DecodeFinds
  <2>11. PICK l : l = LenBase[k] + Number(Bits, from, LenExtra[k])
    OBVIOUS
  <2>12. PICK distance : distance = DistBase[d + 1] + Number(Bits, at, DistExtra[d + 1])
    OBVIOUS
  <2>13. l \in Nat /\ distance \in Nat \ {0}
    <3>1. Number(Bits, from, LenExtra[k]) \in Nat
      BY <1>4, <1>8, <2>7, <2>9, NumberNat DEF Has
    <3>2. Number(Bits, at, DistExtra[d + 1]) \in Nat
      BY <1>4, <2>7, <2>8, <2>9, NumberNat DEF Has
    <3>3. PICK x, y : x = LenBase[k] /\ y = DistBase[d + 1]
      OBVIOUS
    <3>4. PICK v, w : v = Number(Bits, from, LenExtra[k]) /\ w = Number(Bits, at, DistExtra[d + 1])
      OBVIOUS
    <3>5. l = x + v /\ distance = y + w /\ x \in Nat /\ v \in Nat /\ w \in Nat /\ y \in Nat \ {0}
      BY <2>7, <2>11, <2>12, <3>1, <3>2, <3>3, <3>4
    <3> QED  BY <3>5
  <2>14. distance <= i.out
    BY <2>6, <2>12 DEF DistanceOf, Bits
  <2>15. ~(~Has(from, LenExtra[k]) \/ d \notin 0..29 \/ ~Has(at, DistExtra[d + 1]) \/ distance > Len(out))
    <3>1. ~(distance > Len(out))
      BY <1>5, <2>13, <2>14
    <3> QED  BY <2>6, <2>9, <3>1
  <2>16. Match(s, from)
    BY <1>7, <2>5, SymbolIs DEF SymbolCase
  <2>17. Read(at + DistExtra[d + 1], BackReference(l, distance), "symbols")
    <3>1. d = Decode(dist, from + LenExtra[k]).symbol /\ at = Decode(dist, from + LenExtra[k]).next
      BY <2>3, <2>10
    <3> QED  BY <2>1, <2>11, <2>12, <2>15, <2>16, <3>1, MatchIs
  <2>18. /\ j.at = at + DistExtra[d + 1] /\ j.out = i.out + l
         /\ \A n \in i.out + 1..j.out : stream.plain[n] = stream.plain[n - distance]
         /\ j.place = "symbols" /\ j.block = i.block
    <3>1. CopyItem(stream, b, i, j, from)
      BY <1>3, <2>5, <1>9
    <3>2. i.symbol - EndOfBlock = k /\ i.far = d /\ s = i.symbol
      BY <1>1, <2>1, <2>2
    <3>3. LengthOf(stream, from, i.symbol) = l /\ DistanceOf(stream, at, i.far) = distance
      BY <2>11, <2>12, <3>2 DEF LengthOf, DistanceOf, Bits
    <3>4. from + LenExtra[i.symbol - EndOfBlock] + DistLens(b)[i.far + 1] = at
      BY <2>3, <2>4, <3>2
    <3> QED  BY <3>1, <3>2, <3>3, <3>4 DEF CopyItem
  <2>19. BackReference(l, distance) = SubSeq(stream.plain, 1, j.out)
    <3>1. i.out + l <= Len(stream.plain)
      BY <1>4, <2>18 DEF ItemTyped
    <3>2. PICK m, q : m = i.out /\ q = stream.plain
      OBVIOUS
    <3>3. /\ q \in Seq(0..255) /\ m \in Nat /\ m + l <= Len(q) /\ out = SubSeq(q, 1, m) /\ distance <= m
          /\ \A n \in m + 1..m + l : q[n] = q[n - distance]
      BY <1>4, <1>5, <2>14, <2>18, <3>1, <3>2
    <3>4. BackReference(l, distance) = SubSeq(q, 1, m + l)
      BY <2>13, <3>3, Referred
    <3> QED  BY <2>18, <3>2, <3>4
  <2>20. BlockUnder(stream, j) = b
    BY <2>18 DEF BlockUnder
  <2> QED  BY <1>5, <2>17, <2>18, <2>19, <2>20, BeforeNext DEF Read
<1> QED  BY <1>3, <1>10, <1>11, <1>12

LEMMA SymbolRefused ==
  ASSUME Bits \in Seq({0, 1}), stream.plain \in Seq(0..255),
         NEW i, ItemTyped(stream, i), Before(i), NEW b, b = BlockUnder(stream, i), BlockTyped(b),
         i.place = "symbols", Symbol
  PROVE  Refuse \/ \E t \in 0..285, c \in 0..29 : SymbolAt(stream, b, i, t, c)
<1>1. PICK s : s = Decode(lit, bit).symbol
  OBVIOUS
<1>2. PICK from : from = Decode(lit, bit).next
  OBVIOUS
<1>3. /\ bit = i.at /\ bit \in Nat
      /\ lit = CodeOf(LitLens(b)) /\ dist = CodeOf(DistLens(b))
      /\ LitLens(b) \in Seq(0..15) /\ DistLens(b) \in Seq(0..15) /\ Len(out) = i.out /\ i.out \in Nat
  BY SymbolsRead
<1>6. SymbolCase(s, from)
  BY <1>1, <1>2, SymbolIs
<1>4. CASE s = -1
  <2>1. s \notin 0..285 /\ s \notin 0..255 /\ s \notin 257..285 /\ s # EndOfBlock
    BY <1>4 DEF EndOfBlock
  <2> QED  BY <1>6, <2>1 DEF SymbolCase
<1>5. CASE s # -1
  <2>1. s \in Nat /\ Spells(stream, bit, LitLens(b), s)
    BY <1>1, <1>3, <1>5, DecodeSpelt
  <2>2. from = bit + LitLens(b)[s + 1]
    BY <1>1, <1>2, <1>3, <2>1, DecodeFinds
  <2>3. CASE s \in 0..255 \/ s = EndOfBlock
    <3>1. s \in 0..285 /\ ~(s > EndOfBlock) /\ 0 \in 0..29
      BY <2>1, <2>3 DEF EndOfBlock
    <3>2. SymbolAt(stream, b, i, s, 0)
      BY <1>3, <2>1, <3>1 DEF SymbolAt
    <3> QED  BY <3>1, <3>2
  <2>5. CASE s \in 257..285
    <3>17. s \notin 0..255 /\ s # EndOfBlock /\ s \in 0..285
      BY <2>5 DEF EndOfBlock
    <3>1. Match(s, from)
      BY <1>6, <2>5, <3>17 DEF SymbolCase
    <3>2. PICK k : k = s - EndOfBlock
      OBVIOUS
    <3>3. PICK way : way = from + LenExtra[k]
      OBVIOUS
    <3>4. PICK d : d = Decode(dist, way).symbol
      OBVIOUS
    <3>5. PICK at : at = Decode(dist, way).next
      OBVIOUS
    <3>6. PICK l : l = LenBase[k] + Number(Bits, from, LenExtra[k])
      OBVIOUS
    <3>7. PICK distance : distance = DistBase[d + 1] + Number(Bits, at, DistExtra[d + 1])
      OBVIOUS
    <3>18. d = Decode(dist, from + LenExtra[k]).symbol /\ at = Decode(dist, from + LenExtra[k]).next
      BY <3>3, <3>4, <3>5
    <3>19. \/ (~Has(from, LenExtra[k]) \/ d \notin 0..29 \/ ~Has(at, DistExtra[d + 1]) \/ distance > Len(out)) /\ Refuse
           \/ ~(~Has(from, LenExtra[k]) \/ d \notin 0..29 \/ ~Has(at, DistExtra[d + 1]) \/ distance > Len(out))
      BY <3>1, <3>2, <3>6, <3>7, <3>18, MatchIs
    <3>8. SUFFICES ASSUME Has(from, LenExtra[k]), d \in 0..29, Has(at, DistExtra[d + 1]), ~(distance > Len(out))
                   PROVE  \E t \in 0..285, c \in 0..29 : SymbolAt(stream, b, i, t, c)
      BY <3>19
    <3>9. way \in Nat
      <4>1. k \in 1..29 /\ s + 1 \in 1..Len(LitLens(b))
        BY <1>3, <2>1, <2>5, <3>2, LenProperties DEF EndOfBlock, Spells
      <4>2. PICK x, y : x = LenExtra[k] /\ y = LitLens(b)[s + 1]
        OBVIOUS
      <4>3. x \in Nat /\ y \in 0..15
        BY <1>3, <4>1, <4>2, TablesTyped, ElementOfSeq
      <4>4. way = (bit + y) + x /\ bit \in Nat
        BY <1>3, <2>2, <3>3, <4>2
      <4> QED  BY <4>3, <4>4
    <3>10. Spells(stream, way, DistLens(b), d)
      <4>1. d # -1
        <5>1. \A x \in 0..29 : x # -1
          OBVIOUS
        <5> QED  BY <3>8, <5>1, Zenon
      <4> QED  BY <1>3, <3>4, <3>9, <4>1, DecodeSpelt
    <3>11. at = way + DistLens(b)[d + 1]
      <4>1. d \in Nat
        <5>1. \A x \in 0..29 : x \in Nat
          OBVIOUS
        <5> QED  BY <3>8, <5>1, Zenon
      <4> QED  BY <1>3, <3>4, <3>5, <3>9, <3>10, <4>1, DecodeFinds
    <3>12. DistanceOf(stream, at, d) <= i.out
      <4>1. distance \in Nat
        <5>1. d + 1 \in 1..30 /\ d + 1 \in 1..Len(DistLens(b))
          BY <1>3, <3>8, <3>10, LenProperties DEF Spells
        <5>2. PICK x, y, z : x = DistBase[d + 1] /\ y = DistExtra[d + 1] /\ z = DistLens(b)[d + 1]
          OBVIOUS
        <5>3. x \in Nat /\ y \in Nat /\ z \in 0..15
          BY <1>3, <5>1, <5>2, TablesTyped, ElementOfSeq
        <5>4. at \in Nat
          <6>1. at = way + z
            BY <3>11, <5>2
          <6> QED  BY <3>9, <5>3, <6>1
        <5>5. Number(Bits, at, y) \in Nat
          BY <3>8, <5>2, <5>3, <5>4, NumberNat DEF Has
        <5>6. PICK w : w = Number(Bits, at, y)
          OBVIOUS
        <5>7. distance = x + w /\ w \in Nat
          BY <3>7, <5>2, <5>5, <5>6
        <5> QED  BY <5>3, <5>7
      <4>2. distance <= i.out
        BY <1>3, <3>8, <4>1
      <4> QED  BY <3>7, <4>2 DEF DistanceOf, Bits
    <3>13. DistanceAt(stream, b, i, way, d)
      BY <3>8, <3>10, <3>11, <3>12 DEF DistanceAt, Room, Has, Bits
    <3>14. way = i.at + LitLens(b)[s + 1] + LenExtra[s - EndOfBlock]
      BY <1>3, <2>2, <3>2, <3>3
    <3>16. SymbolAt(stream, b, i, s, d)
      BY <1>3, <2>1, <3>13, <3>14, <3>17 DEF SymbolAt
    <3>20. d \in 0..29
      BY <3>8
    <3>21. s \in 0..285
      BY <3>17
    <3>22. \E t \in 0..285, c \in 0..29 : SymbolAt(stream, b, i, t, c)
      BY <3>16, <3>20, <3>21
    <3> QED  BY <3>22
  <2>6. CASE s \notin 0..255 /\ s # EndOfBlock /\ s \notin 257..285
    BY <1>6, <2>6 DEF SymbolCase
  <2> QED  BY <2>3, <2>5, <2>6
<1> QED  BY <1>4, <1>5

-----------------------------------------------------------------------------
(* Every step takes the item the decoder is before, or refuses where none fits. *)

LEMMA StreamKept ==
  ASSUME InflateNext
  PROVE  stream' = stream
<1>1. Refuse => stream' = stream
  BY DEF Refuse
<1>2. CASE Header
  <2>1. PICK final : final = (Bits[bit + 1] = 1)
    OBVIOUS
  <2>2. ASSUME NEW at, StoredBlock(final, at) PROVE stream' = stream
    BY <1>1, <2>2 DEF StoredBlock, Block
  <2>3. ASSUME NEW at, Dynamic(final, at) PROVE stream' = stream
    BY <1>1, <2>3 DEF Dynamic, Block
  <2> QED  BY <1>1, <1>2, <2>1, <2>2, <2>3, HeaderIs DEF Block
<1>3. CASE Lengths
  BY <1>1, <1>3, LengthsIs
<1>4. CASE Codes
  BY <1>1, <1>4 DEF Codes
<1>5. CASE Symbol
  <2>1. ASSUME NEW next, NEW bytes, NEW to, Read(next, bytes, to) PROVE stream' = stream
    BY <2>1 DEF Read
  <2>2. ASSUME NEW s, NEW from, Match(s, from) PROVE stream' = stream
    BY <1>1, <2>1, <2>2, MatchIs
  <2>3. PICK s, at : s = Decode(lit, bit).symbol /\ at = Decode(lit, bit).next
    OBVIOUS
  <2>4. SymbolCase(s, at)
    BY <1>5, <2>3, SymbolIs
  <2> QED  BY <1>1, <2>1, <2>2, <2>4 DEF SymbolCase
<1> QED  BY <1>2, <1>3, <1>4, <1>5 DEF InflateNext

LEMMA ItemTaken ==
  ASSUME NEW i, NEW j, Taking(i, j), Item(stream, i, j), InflateNext
  PROVE  Before(j)'
<1>1. PICK b : b = BlockUnder(stream, i)
  OBVIOUS
<1>2. BlockTyped(b) /\ ItemTyped(stream, i) /\ Before(i)
  BY <1>1 DEF Taking, BlockUnder
<1>3. reading = IF i.place = "end" THEN "done" ELSE i.place
  BY <1>2 DEF Before
<1>4. CASE HeaderItem(stream, b, i, j)
  <2>1. reading = "header"
    BY <1>3, <1>4 DEF HeaderItem
  <2>2. Header
    BY <2>1 DEF InflateNext, Lengths, Codes, Symbol
  <2> QED  BY <1>1, <1>4, <2>2, HeaderTaken
<1>5. CASE LengthItem(stream, b, i, j)
  <2>1. i.place = "lens" /\ i.read < Wanted(b)
    BY <1>5 DEF LengthItem
  <2>2. reading = "lens" /\ want = b.want /\ Len(lens) = i.read /\ i.read \in Nat /\ b.want[1] \in Nat /\ b.want[2] \in Nat
    BY <1>1, <1>2, <2>1, LensRead
  <2>3. ~(Len(lens) >= want[1] + want[2])
    BY <2>1, <2>2 DEF Wanted
  <2>4. Lengths
    BY <2>2, <2>3 DEF InflateNext, Header, Codes, Symbol
  <2> QED  BY <1>1, <1>5, <2>4, LengthTaken
<1>6. CASE CodesItem(b, i, j)
  <2>1. i.place = "lens" /\ i.read = Wanted(b)
    BY <1>6 DEF CodesItem
  <2>2. reading = "lens" /\ want = b.want /\ Len(lens) = i.read /\ i.read \in Nat /\ b.want[1] \in Nat /\ b.want[2] \in Nat
    BY <1>1, <1>2, <2>1, LensRead
  <2>3. ~(Len(lens) < want[1] + want[2])
    BY <2>1, <2>2 DEF Wanted
  <2>4. Codes
    BY <2>2, <2>3 DEF InflateNext, Header, Lengths, Symbol
  <2> QED  BY <1>1, <1>6, <2>4, CodesTaken
<1>7. CASE SymbolItem(stream, b, i, j)
  <2>1. reading = "symbols"
    BY <1>3, <1>7 DEF SymbolItem
  <2>2. Symbol
    BY <2>1 DEF InflateNext, Header, Lengths, Codes
  <2> QED  BY <1>1, <1>7, <2>2, SymbolTaken
<1> QED  BY <1>1, <1>4, <1>5, <1>6, <1>7 DEF Item

LEMMA NoItemRefused ==
  ASSUME Bits \in Seq({0, 1}), stream.plain \in Seq(0..255),
         \A n \in DOMAIN stream.blocks : BlockTyped(stream.blocks[n]),
         NEW i, ItemTyped(stream, i), Before(i), NoItem(stream, i), InflateNext
  PROVE  Refuse
<1>1. reading = IF i.place = "end" THEN "done" ELSE i.place
  BY DEF Before
<1>2. PICK b : b = BlockUnder(stream, i)
  OBVIOUS
<1>3. CASE i.place = "header" /\ ~HeaderAt(stream, i.at)
  <2>1. reading = "header" /\ bit = i.at /\ bit \in Nat
    BY <1>1, <1>3 DEF Before, ItemTyped
  <2>2. Header
    BY <2>1 DEF InflateNext, Lengths, Codes, Symbol
  <2> QED  BY <1>3, <2>1, <2>2, HeaderRefused
<1>4. ASSUME i.place = "lens"
      PROVE  /\ reading = "lens" /\ want = b.want /\ Len(lens) = i.read /\ i.read \in Nat
             /\ b.want[1] \in Nat /\ b.want[2] \in Nat /\ BlockTyped(b)
  <2>1. BlockTyped(b)
    BY <1>2, <1>4 DEF ItemTyped, BlockUnder
  <2> QED  BY <1>2, <1>4, <2>1, LensRead
<1>5. CASE i.place = "lens" /\ i.read > Wanted(b)
  <2>1. ~(Len(lens) < want[1] + want[2])
    BY <1>4, <1>5 DEF Wanted
  <2>2. Codes
    BY <1>4, <1>5, <2>1 DEF InflateNext, Header, Lengths, Symbol
  <2> QED  BY <1>2, <1>4, <1>5, <2>2, CodesRefused
<1>6. CASE i.place = "lens" /\ i.read < Wanted(b) /\ \A s \in 0..18 : ~LengthAt(stream, b, i, s)
  <2>3. i.place = "lens" /\ i.read < Wanted(b)
    BY <1>6
  <2>1. ~(Len(lens) >= want[1] + want[2])
    BY <1>4, <2>3 DEF Wanted
  <2>2. Lengths
    BY <1>4, <1>6, <2>1 DEF InflateNext, Header, Codes, Symbol
  <2> QED  BY <1>2, <1>4, <1>6, <2>2, LengthRefused
<1>7. CASE i.place = "symbols" /\ \A s \in 0..285, d \in 0..29 : ~SymbolAt(stream, b, i, s, d)
  <2>1. BlockTyped(b)
    BY <1>2, <1>7 DEF ItemTyped, BlockUnder
  <2>2. Symbol
    BY <1>1, <1>7 DEF InflateNext, Header, Lengths, Codes
  <2> QED  BY <1>2, <1>7, <2>1, <2>2, SymbolRefused
<1> QED  BY <1>2, <1>3, <1>5, <1>6, <1>7 DEF NoItem

LEMMA NothingLeft ==
  ASSUME NEW i, Before(i), i.place = "end"
  PROVE  ~InflateNext /\ \A j : ~Item(stream, i, j)
<1>1. reading = "done"
  BY DEF Before
<1>2. ~InflateNext
  BY <1>1 DEF InflateNext, Header, Lengths, Codes, Symbol
<1> QED  BY <1>2 DEF Item, HeaderItem, LengthItem, CodesItem, SymbolItem

LEMMA InflateStep ==
  ASSUME InflateInv, InflateNext
  PROVE  InflateInv'
<1>1. stream' = stream /\ stream \in Streams /\ Packed(stream)
  BY StreamKept, StreamsAssumption DEF InflateInv
<1>2. reading # "failed"
  BY DEF InflateNext, Header, Lengths, Codes, Symbol
<1>3. PICK k \in 1..Len(stream.items) : Before(stream.items[k])
  BY <1>2 DEF InflateInv
<1>4. PICK i : i = stream.items[k]
  OBVIOUS
<1>5. /\ Bits \in Seq({0, 1}) /\ stream.plain \in Seq(0..255) /\ ItemTyped(stream, i) /\ Before(i)
      /\ \A n \in DOMAIN stream.blocks : BlockTyped(stream.blocks[n])
  BY <1>1, <1>3, <1>4, PackedFacts
<1>6. ASSUME k < Len(stream.items), k + 1 \in 1..Len(stream.items), Item(stream, i, stream.items[k + 1])
      PROVE  InflateInv'
  <2>1. PICK j : j = stream.items[k + 1]
    OBVIOUS
  <2>2. ItemTyped(stream, j) /\ Item(stream, i, j)
    BY <1>1, <1>6, <2>1, PackedFacts
  <2>3. Taking(i, j)
    BY <1>5, <2>2 DEF Taking, Item
  <2>4. Before(j)'
    BY <2>2, <2>3, ItemTaken
  <2>5. Before(stream.items[k + 1])'
    BY <1>1, <2>1, <2>4 DEF Before, BlockUnder
  <2> QED  BY <1>1, <1>6, <2>5 DEF InflateInv
<1>7. ASSUME ~stream.whole, NoItem(stream, i)
      PROVE  InflateInv'
  <2>1. Refuse
    BY <1>5, <1>7, NoItemRefused
  <2> QED  BY <1>1, <1>7, <2>1 DEF Refuse, InflateInv
<1>8. ~(i.place = "end")
  BY <1>5, NothingLeft
<1> QED  BY <1>1, <1>4, <1>6, <1>7, <1>8, PackedFacts

LEMMA InflateShows ==
  ASSUME InflateInv
  PROVE  InflatesBack
<1>1. CASE reading = "failed" /\ ~stream.whole
  BY <1>1 DEF InflatesBack
<1>2. CASE \E k \in 1..Len(stream.items) : Before(stream.items[k])
  <2>1. PICK k \in 1..Len(stream.items) : Before(stream.items[k])
    BY <1>2
  <2>2. PICK i : i = stream.items[k]
    OBVIOUS
  <2>3. Packed(stream)
    BY StreamsAssumption DEF InflateInv
  <2>4. ItemTyped(stream, i) /\ Before(i) /\ stream.plain \in Seq(0..255)
    BY <2>1, <2>2, <2>3, PackedFacts
  <2>5. reading = (IF i.place = "end" THEN "done" ELSE i.place) /\ out = SubSeq(stream.plain, 1, i.out)
        /\ i.place \in {"header", "lens", "symbols", "end"}
    BY <2>4 DEF Before, ItemTyped
  <2>6. reading # "failed"
    BY <2>5
  <2>7. ASSUME reading = "done" PROVE stream.whole /\ out = stream.plain
    <3>1. i.place = "end"
      BY <2>5, <2>7
    <3>2. ~NoItem(stream, i) /\ \A j : ~Item(stream, i, j)
      BY <2>4, <3>1, NothingLeft DEF NoItem
    <3>3. stream.whole /\ i.out = Len(stream.plain)
      BY <2>2, <2>3, <3>2, PackedFacts
    <3>4. SubSeq(stream.plain, 1, Len(stream.plain)) = stream.plain
      BY <2>4, SubSeqFull
    <3> QED  BY <2>5, <3>3, <3>4
  <2> QED  BY <2>6, <2>7 DEF InflatesBack
<1> QED  BY <1>1, <1>2 DEF InflateInv

LEMMA InflateStarts ==
  ASSUME InflateInit
  PROVE  InflateInv
<1>1. stream \in Streams /\ Packed(stream)
  BY StreamsAssumption DEF InflateInit
<1>2. 1 \in 1..Len(stream.items)
  BY <1>1 DEF Packed
<1>3. PICK i : i = stream.items[1]
  OBVIOUS
<1>4. i.place = "header" /\ i.at = 0 /\ i.out = 0
  BY <1>1, <1>3 DEF Packed
<1>5. SubSeq(stream.plain, 1, 0) = <<>>
  BY <1>1, SubSeqEmpty DEF Packed
<1>6. Before(i)
  BY <1>4, <1>5 DEF Before, InflateInit
<1> QED  BY <1>1, <1>2, <1>3, <1>6 DEF InflateInv

LEMMA InflateStays ==
  ASSUME InflateInv, UNCHANGED inflateVars
  PROVE  InflateInv'
<1>1. /\ stream' = stream /\ bit' = bit /\ reading' = reading /\ last' = last /\ want' = want /\ clens' = clens
      /\ lens' = lens /\ lit' = lit /\ dist' = dist /\ out' = out
  BY DEF inflateVars
<1>2. ASSUME NEW i, Before(i) PROVE Before(i)'
  BY <1>1, <1>2 DEF Before, BlockUnder
<1>3. CASE reading = "failed" /\ ~stream.whole
  BY <1>1, <1>3 DEF InflateInv
<1>4. CASE \E k \in 1..Len(stream.items) : Before(stream.items[k])
  <2>1. PICK k \in 1..Len(stream.items) : Before(stream.items[k])
    BY <1>4
  <2>2. PICK i : i = stream.items[k]
    OBVIOUS
  <2>3. Before(i)'
    BY <1>2, <2>1, <2>2
  <2>4. Before(stream.items[k])'
    BY <1>1, <2>2, <2>3 DEF Before, BlockUnder
  <2> QED  BY <1>1, <2>4 DEF InflateInv
<1> QED  BY <1>3, <1>4 DEF InflateInv

-----------------------------------------------------------------------------
LEMMA InflateIsInv == Spec => []InflateInv
<1>1. Init => InflateInv
  BY InflateStarts DEF Init
<1>2. InflateInv /\ [Next]_laneVars => InflateInv'
  <2> SUFFICES ASSUME InflateInv, [Next]_laneVars PROVE InflateInv'
    OBVIOUS
  <2>1. CASE InflateNext
    BY <2>1, InflateStep
  <2>2. CASE UNCHANGED inflateVars
    BY <2>2, InflateStays
  <2> QED  BY <2>1, <2>2 DEF Next, laneVars
<1> QED  BY <1>1, <1>2, PTL DEF Spec

(***************************************************************************)
(* Whatever blocks an entry was packed in, and however the codes of its    *)
(* symbols were written, what is inflated is what was packed; an entry     *)
(* that breaks off is refused, and no other (inflate, inflate_block,       *)
(* Huffman::decode).                                                       *)
(***************************************************************************)
THEOREM EntriesInflateBack == Spec => []InflatesBack
<1>1. InflateInv => InflatesBack
  BY InflateShows
<1> QED  BY <1>1, InflateIsInv, PTL
=============================================================================
