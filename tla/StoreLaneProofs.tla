--------------------------- MODULE StoreLaneProofs ---------------------------
(***************************************************************************)
(* Proofs about the store lane: for any cookies, files, redirects and      *)
(* number of requests, which cookies go along on a hop, and that a session *)
(* outlives its process; and for any package, receipts and clock, what the *)
(* package that is rebuilt holds.                                          *)
(***************************************************************************)
EXTENDS StoreLane, TLAPS, SequenceTheorems, FiniteSetTheorems

-----------------------------------------------------------------------------
(* Induction, for sets of naturals and of sequences.                         *)

LEMMA Induction ==
  ASSUME NEW T, 0 \in T, \A n \in Nat : n \in T => n + 1 \in T
  PROVE  Nat \subseteq T
<1> SUFFICES ASSUME NEW k \in Nat, k \notin T PROVE FALSE
  OBVIOUS
<1>1. PICK B : B = {n \in Nat : n \notin T}
  OBVIOUS
<1>2. PICK C : C = {0..n - 1 : n \in B}
  OBVIOUS
<1>3. C # {}
  BY <1>1, <1>2
<1>4. C \subseteq FiniteSubsetsOf(Nat)
  <2> SUFFICES ASSUME NEW n \in B PROVE 0..n - 1 \in FiniteSubsetsOf(Nat)
    BY <1>2
  <2>1. n \in Nat
    BY <1>1
  <2> QED  BY <2>1, FS_Interval DEF FiniteSubsetsOf
<1>5. PICK x \in C : \A y \in C : <<y, x>> \notin StrictSubsetOrdering(Nat)
  BY <1>3, <1>4, FS_StrictSubsetOrderingWellFounded, WFMin
<1>6. PICK m \in B : x = 0..m - 1
  BY <1>2, <1>5
<1>7. m - 1 \in B
  BY <1>1, <1>6
<1>8. 0..(m - 1) - 1 \in C
  BY <1>2, <1>7
<1>9. <<0..(m - 1) - 1, x>> \in StrictSubsetOrdering(Nat)
  BY <1>1, <1>6, <1>7 DEF StrictSubsetOrdering
<1> QED  BY <1>5, <1>8, <1>9

LEMMA SeqInduction ==
  ASSUME NEW T, NEW P, <<>> \in P, \A s \in Seq(T) : \A x \in T : s \in P => Append(s, x) \in P
  PROVE  Seq(T) \subseteq P
<1>1. PICK N : N = {n \in Nat : \A s \in Seq(T) : Len(s) = n => s \in P}
  OBVIOUS
<1>2. 0 \in N
  BY <1>1, EmptySeq
<1>3. ASSUME NEW n \in Nat, n \in N PROVE n + 1 \in N
  <2> SUFFICES ASSUME NEW s \in Seq(T), Len(s) = n + 1 PROVE s \in P
    BY <1>1
  <2>1. PICK r : r = SubSeq(s, 1, n)
    OBVIOUS
  <2>2. r \in Seq(T) /\ Len(r) = n /\ \A i \in 1..n : r[i] = s[i]
    BY <2>1, SubSeqProperties, LenProperties
  <2>3. s[n + 1] \in T
    BY LenProperties
  <2>4. Append(r, s[n + 1]) \in Seq(T) /\ Len(Append(r, s[n + 1])) = n + 1
        /\ \A i \in 1..n + 1 : Append(r, s[n + 1])[i] = s[i]
    BY <2>2, <2>3, AppendProperties
  <2>5. Append(r, s[n + 1]) = s
    BY <2>4, SeqEqual
  <2> QED  BY <1>1, <1>3, <2>2, <2>3, <2>5
<1>4. Nat \subseteq N
  BY <1>2, <1>3, Induction
<1> QED  BY <1>1, <1>4, LenProperties

-----------------------------------------------------------------------------
(* What Keep makes of a sequence.                                            *)

\* The recursion of Keep, over the first m elements; and that it has a solution.
KeptOn(f, s, V, m) ==
  f = [n \in 0..m |-> IF n = 0 THEN <<>> ELSE IF s[n] \in V THEN Append(f[n - 1], s[n]) ELSE f[n - 1]]

LEMMA KeepExists ==
  ASSUME NEW s, NEW V, NEW k \in Nat
  PROVE  \E f : KeptOn(f, s, V, k)
<1>1. PICK N : N = {m \in Nat : \E f : KeptOn(f, s, V, m)}
  OBVIOUS
<1>2. 0 \in N
  <2>1. PICK f : f = [n \in 0..0 |-> <<>>]
    OBVIOUS
  <2>2. KeptOn(f, s, V, 0)
    BY <2>1 DEF KeptOn
  <2> QED  BY <1>1, <2>2
<1>3. ASSUME NEW m \in Nat, m \in N PROVE m + 1 \in N
  <2>1. PICK f : KeptOn(f, s, V, m)
    BY <1>1, <1>3
  <2>2. PICK x : x = IF s[m + 1] \in V THEN Append(f[m], s[m + 1]) ELSE f[m]
    OBVIOUS
  <2>3. PICK g : g = [n \in 0..m + 1 |-> IF n = m + 1 THEN x ELSE f[n]]
    OBVIOUS
  <2>4. \A n \in 0..m + 1 :
          g[n] = IF n = 0 THEN <<>> ELSE IF s[n] \in V THEN Append(g[n - 1], s[n]) ELSE g[n - 1]
    <3> TAKE n \in 0..m + 1
    <3>1. CASE n = m + 1
      <4>1. g[n] = x /\ g[n - 1] = f[m]
        BY <2>3, <3>1
      <4> QED  BY <2>2, <3>1, <4>1
    <3>2. CASE n # m + 1
      <4>1. n \in 0..m /\ g[n] = f[n] /\ (n # 0 => g[n - 1] = f[n - 1])
        BY <2>3, <3>2
      <4>2. f[n] = IF n = 0 THEN <<>> ELSE IF s[n] \in V THEN Append(f[n - 1], s[n]) ELSE f[n - 1]
        BY <2>1, <4>1 DEF KeptOn
      <4> QED  BY <4>1, <4>2
    <3> QED  BY <3>1, <3>2
  <2>5. g = [n \in 0..m + 1 |->
               IF n = 0 THEN <<>> ELSE IF s[n] \in V THEN Append(g[n - 1], s[n]) ELSE g[n - 1]]
    BY <2>3, <2>4
  <2>6. KeptOn(g, s, V, m + 1)
    BY <2>5 DEF KeptOn
  <2> QED  BY <1>1, <2>6
<1> QED  BY <1>1, <1>2, <1>3, Induction

\* What Keep yields is what any such solution yields.
LEMMA KeepIs ==
  ASSUME NEW s, NEW V, Len(s) \in Nat
  PROVE  \E f : KeptOn(f, s, V, Len(s)) /\ Keep(s, V) = f[Len(s)]
<1>1. \E f : KeptOn(f, s, V, Len(s))
  BY KeepExists
<1> QED  BY <1>1 DEF Keep, KeptOn

LEMMA KeptStep ==
  ASSUME NEW s, NEW V, NEW k \in Nat, NEW f, KeptOn(f, s, V, k), NEW m \in Nat, m + 1 <= k
  PROVE  f[m + 1] = IF s[m + 1] \in V THEN Append(f[m], s[m + 1]) ELSE f[m]
<1>1. PICK n : n = m + 1
  OBVIOUS
<1>2. n \in 0..k /\ n # 0 /\ n - 1 = m
  BY <1>1
<1>3. f[n] = IF s[n] \in V THEN Append(f[n - 1], s[n]) ELSE f[n - 1]
  BY <1>2 DEF KeptOn
<1> QED  BY <1>1, <1>2, <1>3

\* Two solutions agree where the sequences do.
LEMMA KeptOnce ==
  ASSUME NEW s, NEW t, NEW V, NEW k \in Nat, NEW l \in Nat, k <= l, NEW f, NEW g,
         KeptOn(f, s, V, k), KeptOn(g, t, V, l), \A i \in 1..k : s[i] = t[i]
  PROVE  f[k] = g[k]
<1>1. PICK N : N = {m \in Nat : m <= k => f[m] = g[m]}
  OBVIOUS
<1>2. 0 \in N
  BY <1>1 DEF KeptOn
<1>3. ASSUME NEW m \in Nat, m \in N PROVE m + 1 \in N
  <2> SUFFICES ASSUME m + 1 <= k PROVE f[m + 1] = g[m + 1]
    BY <1>1
  <2>1. f[m] = g[m] /\ s[m + 1] = t[m + 1]
    BY <1>1, <1>3
  <2>2. f[m + 1] = IF s[m + 1] \in V THEN Append(f[m], s[m + 1]) ELSE f[m]
    BY KeptStep
  <2>3. g[m + 1] = IF t[m + 1] \in V THEN Append(g[m], t[m + 1]) ELSE g[m]
    <3>1. m + 1 <= l
      OBVIOUS
    <3> QED  BY <3>1, KeptStep
  <2> QED  BY <2>1, <2>2, <2>3
<1> QED  BY <1>1, <1>2, <1>3, Induction

LEMMA KeepEmpty ==
  ASSUME NEW V
  PROVE  Keep(<<>>, V) = <<>>
<1>1. PICK s : s = <<>>
  OBVIOUS
<1>2. Len(s) = 0
  BY <1>1
<1>3. PICK f : KeptOn(f, s, V, 0) /\ Keep(s, V) = f[0]
  BY <1>2, KeepIs
<1>4. f[0] = <<>>
  BY <1>3 DEF KeptOn
<1> QED  BY <1>1, <1>3, <1>4

LEMMA KeepAppend ==
  ASSUME NEW T, NEW s \in Seq(T), NEW x \in T, NEW V
  PROVE  Keep(Append(s, x), V) = IF x \in V THEN Append(Keep(s, V), x) ELSE Keep(s, V)
<1>1. PICK t : t = Append(s, x)
  OBVIOUS
<1>2. t \in Seq(T) /\ Len(t) = Len(s) + 1 /\ Len(s) \in Nat /\ t[Len(s) + 1] = x /\ \A i \in 1..Len(s) : s[i] = t[i]
  BY <1>1, AppendProperties, LenProperties
<1>3. PICK f : KeptOn(f, s, V, Len(s)) /\ Keep(s, V) = f[Len(s)]
  BY <1>2, KeepIs
<1>4. PICK g : KeptOn(g, t, V, Len(s) + 1) /\ Keep(t, V) = g[Len(s) + 1]
  BY <1>2, KeepIs
<1>5. f[Len(s)] = g[Len(s)]
  BY <1>2, <1>3, <1>4, KeptOnce
<1>6. g[Len(s) + 1] = IF x \in V THEN Append(g[Len(s)], x) ELSE g[Len(s)]
  <2>1. g[Len(s) + 1] = IF t[Len(s) + 1] \in V THEN Append(g[Len(s)], t[Len(s) + 1]) ELSE g[Len(s)]
    BY <1>2, <1>4, KeptStep
  <2> QED  BY <1>2, <2>1
<1> QED  BY <1>1, <1>3, <1>4, <1>5, <1>6

\* It is a sequence of those elements that lie in the set.
LEMMA KeepElements ==
  ASSUME NEW T, NEW V
  PROVE  \A s \in Seq(T) : Keep(s, V) \in Seq(T) /\ ToSet(Keep(s, V)) = ToSet(s) \intersect V
<1>1. PICK P : P = {s \in Seq(T) : Keep(s, V) \in Seq(T) /\ ToSet(Keep(s, V)) = ToSet(s) \intersect V}
  OBVIOUS
<1>2. <<>> \in P
  <2>1. ToSet(<<>>) = {} /\ <<>> \in Seq(T)
    BY DEF ToSet
  <2>2. Keep(<<>>, V) \in Seq(T) /\ ToSet(Keep(<<>>, V)) = ToSet(<<>>) \intersect V
    BY <2>1, KeepEmpty, Zenon
  <2> QED  BY <1>1, <2>1, <2>2, Zenon
<1>3. ASSUME NEW s \in Seq(T), NEW x \in T, s \in P PROVE Append(s, x) \in P
  <2>1. ASSUME NEW r \in Seq(T) PROVE Append(r, x) \in Seq(T) /\ ToSet(Append(r, x)) = ToSet(r) \union {x}
    <3>1. PICK a : a = Append(r, x)
      OBVIOUS
    <3>2. a \in Seq(T) /\ Len(a) = Len(r) + 1 /\ Len(r) \in Nat /\ a[Len(r) + 1] = x /\ \A i \in 1..Len(r) : a[i] = r[i]
      BY <3>1, AppendProperties, LenProperties
    <3>3. DOMAIN a = 1..Len(r) + 1 /\ DOMAIN r = 1..Len(r)
      BY <3>2, LenProperties
    <3>4. ToSet(a) = ToSet(r) \union {x}
      BY <3>2, <3>3 DEF ToSet
    <3> QED  BY <3>1, <3>2, <3>4
  <2>2. PICK k : k = Keep(s, V)
    OBVIOUS
  <2>3. k \in Seq(T) /\ ToSet(k) = ToSet(s) \intersect V
    BY <1>1, <1>3, <2>2
  <2>4. Append(s, x) \in Seq(T) /\ ToSet(Append(s, x)) = ToSet(s) \union {x}
    BY <2>1
  <2>5. Keep(Append(s, x), V) = IF x \in V THEN Append(k, x) ELSE k
    BY <2>2, KeepAppend
  <2>6. CASE x \in V
    <3>1. Append(k, x) \in Seq(T) /\ ToSet(Append(k, x)) = ToSet(k) \union {x}
      BY <2>1, <2>3
    <3>2. Keep(Append(s, x), V) = Append(k, x)
      BY <2>5, <2>6
    <3>3. Keep(Append(s, x), V) \in Seq(T) /\ ToSet(Keep(Append(s, x), V)) = ToSet(Append(s, x)) \intersect V
      BY <2>3, <2>4, <2>6, <3>1, <3>2
    <3> QED  BY <1>1, <2>4, <3>3
  <2>7. CASE x \notin V
    <3>1. Keep(Append(s, x), V) = k
      BY <2>5, <2>7
    <3>2. Keep(Append(s, x), V) \in Seq(T) /\ ToSet(Keep(Append(s, x), V)) = ToSet(Append(s, x)) \intersect V
      BY <2>3, <2>4, <2>7, <3>1
    <3> QED  BY <1>1, <2>4, <3>2
  <2> QED  BY <2>6, <2>7
<1>4. Seq(T) \subseteq P
  BY <1>2, <1>3, SeqInduction
<1> QED  BY <1>1, <1>4

\* Keeping by two sets that agree on the sequence, and by one set after the other.
LEMMA KeepSame ==
  ASSUME NEW T, NEW V, NEW W
  PROVE  \A s \in Seq(T) : ToSet(s) \intersect V = ToSet(s) \intersect W => Keep(s, V) = Keep(s, W)
<1>1. PICK P : P = {s \in Seq(T) : ToSet(s) \intersect V = ToSet(s) \intersect W => Keep(s, V) = Keep(s, W)}
  OBVIOUS
<1>2. <<>> \in P
  BY <1>1, KeepEmpty
<1>3. ASSUME NEW s \in Seq(T), NEW x \in T, s \in P PROVE Append(s, x) \in P
  <2>1. PICK a : a = Append(s, x)
    OBVIOUS
  <2>2. a \in Seq(T) /\ Len(a) = Len(s) + 1 /\ Len(s) \in Nat /\ a[Len(s) + 1] = x /\ \A i \in 1..Len(s) : a[i] = s[i]
    BY <2>1, AppendProperties, LenProperties
  <2>3. DOMAIN a = 1..Len(s) + 1 /\ DOMAIN s = 1..Len(s)
    BY <2>2, LenProperties
  <2>4. ToSet(a) = ToSet(s) \union {x}
    BY <2>2, <2>3 DEF ToSet
  <2> SUFFICES ASSUME ToSet(a) \intersect V = ToSet(a) \intersect W PROVE Keep(a, V) = Keep(a, W)
    BY <1>1, <2>1, <2>2
  <2>5. ToSet(s) \intersect V = ToSet(s) \intersect W /\ (x \in V <=> x \in W)
    BY <2>4
  <2>6. Keep(s, V) = Keep(s, W)
    BY <1>1, <1>3, <2>5
  <2>7. Keep(a, V) = IF x \in V THEN Append(Keep(s, V), x) ELSE Keep(s, V)
    BY <2>1, KeepAppend
  <2>8. Keep(a, W) = IF x \in W THEN Append(Keep(s, W), x) ELSE Keep(s, W)
    BY <2>1, KeepAppend
  <2> QED  BY <2>5, <2>6, <2>7, <2>8, Zenon
<1>4. Seq(T) \subseteq P
  BY <1>2, <1>3, SeqInduction
<1> QED  BY <1>1, <1>4

LEMMA KeepKeep ==
  ASSUME NEW T, NEW V, NEW W
  PROVE  \A s \in Seq(T) : Keep(Keep(s, V), W) = Keep(s, V \intersect W)
<1>1. PICK P : P = {s \in Seq(T) : Keep(Keep(s, V), W) = Keep(s, V \intersect W)}
  OBVIOUS
<1>2. <<>> \in P
  BY <1>1, KeepEmpty
<1>3. ASSUME NEW s \in Seq(T), NEW x \in T, s \in P PROVE Append(s, x) \in P
  <2>1. Append(s, x) \in Seq(T) /\ Keep(s, V) \in Seq(T)
    BY AppendProperties, KeepElements
  <2>2. Keep(Append(Keep(s, V), x), W)
        = IF x \in W THEN Append(Keep(Keep(s, V), W), x) ELSE Keep(Keep(s, V), W)
    BY <2>1, KeepAppend
  <2>3. Keep(Append(s, x), V \intersect W)
        = IF x \in V \intersect W THEN Append(Keep(s, V \intersect W), x) ELSE Keep(s, V \intersect W)
    BY KeepAppend
  <2>4. Keep(Append(s, x), V) = IF x \in V THEN Append(Keep(s, V), x) ELSE Keep(s, V)
    BY KeepAppend
  <2>5. Keep(Keep(s, V), W) = Keep(s, V \intersect W)
    BY <1>1, <1>3
  <2>6. Keep(Keep(Append(s, x), V), W) = Keep(Append(s, x), V \intersect W)
    <3>1. CASE x \in V /\ x \in W
      BY <2>2, <2>3, <2>4, <2>5, <3>1, Zenon
    <3>2. CASE x \in V /\ x \notin W
      BY <2>2, <2>3, <2>4, <2>5, <3>2, Zenon
    <3>3. CASE x \notin V
      BY <2>3, <2>4, <2>5, <3>3, Zenon
    <3> QED  BY <3>1, <3>2, <3>3
  <2> QED  BY <1>1, <2>1, <2>6
<1>4. Seq(T) \subseteq P
  BY <1>2, <1>3, SeqInduction
<1> QED  BY <1>1, <1>4

\* A function applied to each element: what is kept of the images are the images of what is kept.
Image(f, s) == [i \in DOMAIN s |-> f[s[i]]]

LEMMA ImageTyped ==
  ASSUME NEW T, NEW f, NEW U, \A x \in T : f[x] \in U
  PROVE  \A s \in Seq(T) : /\ Image(f, s) \in Seq(U) /\ Len(Image(f, s)) = Len(s)
                           /\ \A i \in 1..Len(s) : Image(f, s)[i] = f[s[i]]
<1> SUFFICES ASSUME NEW s \in Seq(T)
             PROVE  /\ Image(f, s) \in Seq(U) /\ Len(Image(f, s)) = Len(s)
                    /\ \A i \in 1..Len(s) : Image(f, s)[i] = f[s[i]]
  OBVIOUS
<1>1. DOMAIN s = 1..Len(s) /\ Len(s) \in Nat /\ \A i \in 1..Len(s) : s[i] \in T
  BY LenProperties
<1>2. Image(f, s) \in [1..Len(s) -> U]
  BY <1>1 DEF Image
<1> QED  BY <1>1, <1>2 DEF Image

LEMMA ImageAppend ==
  ASSUME NEW T, NEW f
  PROVE  /\ Image(f, <<>>) = <<>>
         /\ \A s \in Seq(T) : \A x \in T : Image(f, Append(s, x)) = Append(Image(f, s), f[x])
<1>1. PICK U : \A x \in T : f[x] \in U
  <2>1. \A x \in T : f[x] \in {f[y] : y \in T}
    OBVIOUS
  <2> QED  BY <2>1
<1>2. ASSUME NEW r \in Seq(T)
      PROVE  /\ Image(f, r) \in Seq(U) /\ Len(Image(f, r)) = Len(r)
             /\ \A i \in 1..Len(r) : Image(f, r)[i] = f[r[i]]
  <2>1. Image(f, r) \in Seq(U)
    BY <1>1, ImageTyped
  <2>2. Len(Image(f, r)) = Len(r) /\ \A i \in 1..Len(r) : Image(f, r)[i] = f[r[i]]
    BY LenProperties DEF Image
  <2> QED  BY <2>1, <2>2
<1>3. Image(f, <<>>) = <<>>
  <2>1. <<>> \in Seq(T) /\ Len(<<>>) = 0
    BY EmptySeq
  <2>2. Len(Image(f, <<>>)) = 0 /\ Image(f, <<>>) \in Seq(U)
    BY <1>2, <2>1
  <2> QED  BY <2>2, EmptySeq
<1>4. ASSUME NEW s \in Seq(T), NEW x \in T PROVE Image(f, Append(s, x)) = Append(Image(f, s), f[x])
  <2>1. PICK a : a = Append(s, x)
    OBVIOUS
  <2>2. a \in Seq(T) /\ Len(a) = Len(s) + 1 /\ Len(s) \in Nat /\ a[Len(s) + 1] = x /\ \A i \in 1..Len(s) : a[i] = s[i]
    BY <2>1, AppendProperties, LenProperties
  <2>3. PICK y : y = f[x]
    OBVIOUS
  <2>4. PICK r : r = Image(f, s)
    OBVIOUS
  <2>5. r \in Seq(U) /\ y \in U /\ Len(r) = Len(s) /\ \A i \in 1..Len(s) : r[i] = f[s[i]]
    BY <1>1, <1>2, <2>3, <2>4
  <2>6. PICK b : b = Append(r, y)
    OBVIOUS
  <2>7. b \in Seq(U) /\ Len(b) = Len(s) + 1 /\ b[Len(s) + 1] = y /\ \A i \in 1..Len(s) : b[i] = f[s[i]]
    BY <2>5, <2>6, AppendProperties
  <2>8. Image(f, a) \in Seq(U) /\ Len(Image(f, a)) = Len(s) + 1 /\ \A i \in 1..Len(s) + 1 : Image(f, a)[i] = f[a[i]]
    BY <1>2, <2>2
  <2>9. \A i \in 1..Len(s) + 1 : Image(f, a)[i] = b[i]
    BY <2>2, <2>3, <2>7, <2>8
  <2>10. Image(f, a) = b
    BY <2>7, <2>8, <2>9, SeqEqual
  <2> QED  BY <2>1, <2>3, <2>4, <2>6, <2>10
<1> QED  BY <1>3, <1>4

LEMMA KeepImage ==
  ASSUME NEW T, NEW f, NEW V, NEW W, \A x \in T : x \in W <=> f[x] \in V
  PROVE  \A s \in Seq(T) : Keep(Image(f, s), V) = Image(f, Keep(s, W))
<1>1. PICK U : \A x \in T : f[x] \in U
  <2>1. \A x \in T : f[x] \in {f[y] : y \in T}
    OBVIOUS
  <2> QED  BY <2>1
<1>2. PICK P : P = {s \in Seq(T) : Keep(Image(f, s), V) = Image(f, Keep(s, W))}
  OBVIOUS
<1>3. \A s \in Seq(T) : Image(f, s) \in Seq(U)
  BY <1>1, ImageTyped
<1>4. Image(f, <<>>) = <<>> /\ \A s \in Seq(T) : \A x \in T : Image(f, Append(s, x)) = Append(Image(f, s), f[x])
  BY ImageAppend
<1>5. <<>> \in P
  BY <1>2, <1>4, KeepEmpty, EmptySeq
<1>6. ASSUME NEW s \in Seq(T), NEW x \in T, s \in P PROVE Append(s, x) \in P
  <2>1. Append(s, x) \in Seq(T) /\ Keep(s, W) \in Seq(T)
    BY AppendProperties, KeepElements
  <2>2. PICK r, y : r = Image(f, s) /\ y = f[x]
    OBVIOUS
  <2>3. r \in Seq(U) /\ y \in U /\ Image(f, Append(s, x)) = Append(r, y)
    BY <1>1, <1>3, <1>4, <2>2
  <2>4. Keep(Append(r, y), V) = IF y \in V THEN Append(Keep(r, V), y) ELSE Keep(r, V)
    BY <2>3, KeepAppend
  <2>5. Keep(Append(s, x), W) = IF x \in W THEN Append(Keep(s, W), x) ELSE Keep(s, W)
    BY KeepAppend
  <2>6. Image(f, Append(Keep(s, W), x)) = Append(Image(f, Keep(s, W)), y)
    BY <1>4, <2>1, <2>2
  <2>7. Keep(r, V) = Image(f, Keep(s, W)) /\ (x \in W <=> y \in V)
    BY <1>2, <1>6, <2>2
  <2>8. Keep(Image(f, Append(s, x)), V) = Image(f, Keep(Append(s, x), W))
    BY <2>3, <2>4, <2>5, <2>6, <2>7
  <2> QED  BY <1>2, <2>1, <2>8
<1>7. Seq(T) \subseteq P
  BY <1>5, <1>6, SeqInduction
<1> QED  BY <1>2, <1>7

-----------------------------------------------------------------------------
(* The cookies of an answer.                                                 *)

LEMMA GreatestIsThere ==
  ASSUME NEW n \in Nat, NEW S \in SUBSET (1..n), S # {}
  PROVE  Max(S) \in S
<1>1. PICK N : N = {k \in Nat : \A U \in SUBSET (1..n) : U # {} /\ U \subseteq 1..k => \E i \in U : \A j \in U : i >= j}
  BY Zenon
<1>2. 0 \in N
  <2>1. ASSUME NEW U \in SUBSET (1..n), U # {}, U \subseteq 1..0 PROVE FALSE
    <3>1. PICK i \in U : i \in 1..0
      BY <2>1
    <3> QED  BY <3>1
  <2> QED  BY <1>1, <2>1
<1>3. ASSUME NEW k \in Nat, k \in N PROVE k + 1 \in N
  <2> SUFFICES ASSUME NEW U \in SUBSET (1..n), U # {}, U \subseteq 1..k + 1
               PROVE  \E i \in U : \A j \in U : i >= j
    BY <1>1
  <2>1. CASE k + 1 \in U
    BY <2>1
  <2>2. CASE k + 1 \notin U
    <3>1. U \subseteq 1..k
      BY <2>2
    <3> QED  BY <1>1, <1>3, <3>1
  <2> QED  BY <2>1, <2>2
<1>4. n \in N
  BY <1>2, <1>3, Induction
<1>5. \E i \in S : \A j \in S : i >= j
  BY <1>1, <1>4
<1> QED  BY <1>5 DEF Max

\* What the attributes of a header say.
LEMMA AttributesTyped ==
  ASSUME NEW attrs \in Seq(Attribute), NEW t \in Nat
  PROVE  /\ Attributes(attrs, t).dot \in BOOLEAN /\ Attributes(attrs, t).secure \in BOOLEAN
         /\ Attributes(attrs, t).httpOnly \in BOOLEAN
         /\ Attributes(attrs, t).host \in Seq(STRING) /\ Attributes(attrs, t).path \in Path
         /\ Attributes(attrs, t).expires \in Nat
<1>1. DOMAIN attrs = 1..Len(attrs) /\ Len(attrs) \in Nat /\ \A i \in 1..Len(attrs) : attrs[i] \in Attribute
  BY LenProperties
<1>2. ASSUME NEW S \in SUBSET (1..Len(attrs)), NEW none, NEW U, none \in U, \A i \in S : attrs[i][2] \in U
      PROVE  LastOf(attrs, S, none) \in U
  <2>1. S # {} => Max(S) \in S
    BY <1>1, GreatestIsThere
  <2> QED  BY <1>2, <2>1 DEF LastOf
<1>3. \A i \in 1..Len(attrs) : /\ attrs[i][1] = "domain" => attrs[i][2] \in Seq(STRING)
                               /\ attrs[i][1] = "path" => attrs[i][2] \in Path
                               /\ attrs[i][1] = "max-age" => attrs[i][2] \in Int
  BY <1>1 DEF Attribute
<1>4. PICK domains : domains = {i \in Said(attrs, "domain") : attrs[i][2] # <<>>}
  OBVIOUS
<1>5. PICK lives : lives = {i \in Said(attrs, "max-age") : attrs[i][2] > 0}
  OBVIOUS
<1>6. LastOf(attrs, domains, <<>>) \in Seq(STRING)
  <2>1. domains \in SUBSET (1..Len(attrs)) /\ \A i \in domains : attrs[i][2] \in Seq(STRING)
    BY <1>1, <1>3, <1>4 DEF Said
  <2>2. <<>> \in Seq(STRING)
    BY EmptySeq
  <2> QED  BY <1>2, <2>1, <2>2
<1>7. LastOf(attrs, Said(attrs, "path"), Root) \in Path
  <2>1. Said(attrs, "path") \in SUBSET (1..Len(attrs)) /\ \A i \in Said(attrs, "path") : attrs[i][2] \in Path
    BY <1>1, <1>3 DEF Said
  <2>2. Root \in Path
    BY EmptySeq DEF Root, Path
  <2> QED  BY <1>2, <2>1, <2>2
<1>8. LastOf(attrs, lives, 0) \in Nat
  <2>1. lives \in SUBSET (1..Len(attrs)) /\ \A i \in lives : attrs[i][2] \in Nat
    BY <1>1, <1>3, <1>5 DEF Said
  <2> QED  BY <1>2, <2>1
<1>9. PICK e : e = IF \E i \in lives : \A j \in Said(attrs, "expires") : j < i THEN t + LastOf(attrs, lives, 0) ELSE 0
  OBVIOUS
<1>10. e \in Nat
  BY <1>8, <1>9
<1>11. Attributes(attrs, t) =
         [dot |-> domains # {}, host |-> LastOf(attrs, domains, <<>>),
          path |-> LastOf(attrs, Said(attrs, "path"), Root),
          secure |-> Said(attrs, "secure") # {}, httpOnly |-> Said(attrs, "httponly") # {},
          expires |-> e, deleted |-> Said(attrs, "max-age") # lives]
  BY <1>4, <1>5, <1>9, Zenon DEF Attributes
<1> HIDE DEF Attribute
<1> QED  BY <1>6, <1>7, <1>10, <1>11

LEMMA CookieTyped ==
  ASSUME NEW h \in SetCookie, NEW host \in Host, NEW t \in Nat, h.pair # <<>>
  PROVE  CookieOf(h.pair, Attributes(h.attrs, t), host) \in Cookie
<1>1. h.pair[1] \in Word \ {Empty} /\ h.pair[2] \in Word /\ h.attrs \in Seq(Attribute)
  BY DEF SetCookie
<1>2. PICK a : a = Attributes(h.attrs, t)
  OBVIOUS
<1>3. /\ a.dot \in BOOLEAN /\ a.secure \in BOOLEAN /\ a.httpOnly \in BOOLEAN
      /\ a.host \in Seq(STRING) /\ a.path \in Path /\ a.expires \in Nat
  BY <1>1, <1>2, AttributesTyped
<1>4. PICK w : w = IF a.host = <<>> THEN host ELSE a.host
  OBVIOUS
<1>5. w \in Host
  BY <1>3, <1>4 DEF Host
<1>6. PICK n, v : n = h.pair[1] /\ v = h.pair[2]
  OBVIOUS
<1>7. [name |-> n, value |-> v, dot |-> a.dot, host |-> w, path |-> a.path, secure |-> a.secure,
       httpOnly |-> a.httpOnly, expires |-> a.expires] \in Cookie
  BY <1>1, <1>3, <1>5, <1>6 DEF Cookie
<1> QED  BY <1>2, <1>4, <1>6, <1>7 DEF CookieOf

LEMMA HeaderTyped ==
  ASSUME NEW j \in Seq(Cookie), NEW h \in SetCookie, NEW host \in Host, NEW t \in Nat
  PROVE  AddFromSetCookie(j, h, host, t) \in Seq(Cookie)
<1>1. CASE h.pair = <<>>
  BY <1>1 DEF AddFromSetCookie
<1>2. CASE h.pair # <<>>
  <2>1. PICK c : c = CookieOf(h.pair, Attributes(h.attrs, t), host)
    OBVIOUS
  <2>2. c \in Cookie
    BY <1>2, <2>1, CookieTyped
  <2>3. PICK k : k = RemoveMatching(j, c)
    OBVIOUS
  <2>4. k \in Seq(Cookie)
    BY <2>3, KeepElements DEF RemoveMatching
  <2>5. Append(k, c) \in Seq(Cookie)
    BY <2>2, <2>4, AppendProperties
  <2>6. AddFromSetCookie(j, h, host, t) \in {k, Append(k, c)}
    BY <1>2, <2>1, <2>3 DEF AddFromSetCookie
  <2> QED  BY <2>4, <2>5, <2>6
<1> QED  BY <1>1, <1>2

\* The recursion over the headers of an answer has a solution, which stays a jar.
AddedOn(f, j, hs, host, t, m) ==
  f = [n \in 0..m |-> IF n = 0 THEN j ELSE AddFromSetCookie(f[n - 1], hs[n], host, t)]

LEMMA AddedExists ==
  ASSUME NEW j, NEW hs, NEW host, NEW t, NEW k \in Nat
  PROVE  \E f : AddedOn(f, j, hs, host, t, k)
<1>1. PICK N : N = {m \in Nat : \E f : AddedOn(f, j, hs, host, t, m)}
  OBVIOUS
<1>2. 0 \in N
  <2>1. PICK f : f = [n \in 0..0 |-> j]
    OBVIOUS
  <2>2. AddedOn(f, j, hs, host, t, 0)
    BY <2>1 DEF AddedOn
  <2> QED  BY <1>1, <2>2
<1>3. ASSUME NEW m \in Nat, m \in N PROVE m + 1 \in N
  <2>1. PICK f : AddedOn(f, j, hs, host, t, m)
    BY <1>1, <1>3
  <2>2. PICK x : x = AddFromSetCookie(f[m], hs[m + 1], host, t)
    OBVIOUS
  <2>3. PICK g : g = [n \in 0..m + 1 |-> IF n = m + 1 THEN x ELSE f[n]]
    OBVIOUS
  <2>4. \A n \in 0..m + 1 : g[n] = IF n = 0 THEN j ELSE AddFromSetCookie(g[n - 1], hs[n], host, t)
    <3> TAKE n \in 0..m + 1
    <3>1. CASE n = m + 1
      <4>1. g[n] = x /\ g[n - 1] = f[m]
        BY <2>3, <3>1
      <4> QED  BY <2>2, <3>1, <4>1
    <3>2. CASE n # m + 1
      <4>1. n \in 0..m /\ g[n] = f[n] /\ (n # 0 => g[n - 1] = f[n - 1])
        BY <2>3, <3>2
      <4>2. f[n] = IF n = 0 THEN j ELSE AddFromSetCookie(f[n - 1], hs[n], host, t)
        BY <2>1, <4>1 DEF AddedOn
      <4> QED  BY <4>1, <4>2
    <3> QED  BY <3>1, <3>2
  <2>5. g = [n \in 0..m + 1 |-> IF n = 0 THEN j ELSE AddFromSetCookie(g[n - 1], hs[n], host, t)]
    BY <2>3, <2>4
  <2>6. AddedOn(g, j, hs, host, t, m + 1)
    BY <2>5 DEF AddedOn
  <2> QED  BY <1>1, <2>6
<1> QED  BY <1>1, <1>2, <1>3, Induction

LEMMA AddedTyped ==
  ASSUME NEW j \in Seq(Cookie), NEW hs \in Seq(SetCookie), NEW host \in Host, NEW t \in Nat
  PROVE  AddedAll(j, hs, host, t) \in Seq(Cookie)
<1>1. Len(hs) \in Nat /\ \A i \in 1..Len(hs) : hs[i] \in SetCookie
  BY LenProperties
<1>2. \E f : AddedOn(f, j, hs, host, t, Len(hs))
  BY <1>1, AddedExists
<1>3. \E f : AddedOn(f, j, hs, host, t, Len(hs)) /\ AddedAll(j, hs, host, t) = f[Len(hs)]
  BY <1>2 DEF AddedAll, AddedOn
<1>4. PICK f : AddedOn(f, j, hs, host, t, Len(hs)) /\ AddedAll(j, hs, host, t) = f[Len(hs)]
  BY <1>3
<1>5. PICK N : N = {m \in Nat : m <= Len(hs) => f[m] \in Seq(Cookie)}
  OBVIOUS
<1>6. 0 \in N
  BY <1>1, <1>4, <1>5 DEF AddedOn
<1>7. ASSUME NEW m \in Nat, m \in N PROVE m + 1 \in N
  <2> SUFFICES ASSUME m + 1 <= Len(hs) PROVE f[m + 1] \in Seq(Cookie)
    BY <1>5
  <2>1. f[m] \in Seq(Cookie)
    BY <1>1, <1>5, <1>7
  <2>2. PICK n : n = m + 1
    OBVIOUS
  <2>3. n \in 0..Len(hs) /\ n # 0 /\ n - 1 = m /\ hs[n] \in SetCookie
    BY <1>1, <2>2
  <2>4. f[n] = AddFromSetCookie(f[m], hs[n], host, t)
    BY <1>4, <2>3 DEF AddedOn
  <2>5. f[n] \in Seq(Cookie)
    BY <2>1, <2>3, <2>4, HeaderTyped
  <2> QED  BY <2>2, <2>5
<1>8. f[Len(hs)] \in Seq(Cookie)
  <2>1. Nat \subseteq N
    BY <1>6, <1>7, Induction
  <2> QED  BY <1>1, <1>5, <2>1
<1> QED  BY <1>4, <1>8

-----------------------------------------------------------------------------
(* Which cookies go along.                                                   *)

\* Sequences of labels or segments, compared place by place.
LEMMA PrefixPlaces ==
  ASSUME NEW T, NEW s \in Seq(T), NEW t \in Seq(T)
  PROVE  IsPrefix(s, t) <=> Len(s) <= Len(t) /\ \A i \in 1..Len(s) : s[i] = t[i]
<1>1. Len(s) \in Nat /\ Len(t) \in Nat /\ (\A i \in 1..Len(s) : s[i] \in T) /\ (\A i \in 1..Len(t) : t[i] \in T)
  BY LenProperties
<1>2. SUFFICES ASSUME Len(s) <= Len(t)
               PROVE  SubSeq(s, 1, Len(s)) = SubSeq(t, 1, Len(s)) <=> \A i \in 1..Len(s) : s[i] = t[i]
  BY DEF IsPrefix
<1>3. PICK a, b : a = SubSeq(s, 1, Len(s)) /\ b = SubSeq(t, 1, Len(s))
  OBVIOUS
<1>4. a \in Seq(T) /\ Len(a) = Len(s) /\ \A i \in 1..Len(s) : a[i] = s[i]
  BY <1>1, <1>3, SubSeqProperties
<1>5. b \in Seq(T) /\ Len(b) = Len(s) /\ \A i \in 1..Len(s) : b[i] = t[i]
  BY <1>1, <1>2, <1>3, SubSeqProperties
<1>6. a = b <=> \A i \in 1..Len(s) : s[i] = t[i]
  BY <1>4, <1>5, SeqEqual
<1> QED  BY <1>3, <1>6

LEMMA BeginningPlaces ==
  ASSUME NEW T, NEW s \in Seq(T), NEW t \in Seq(T)
  PROVE  (\E k \in 0..Len(t) : SubSeq(t, 1, k) = s) <=> Len(s) <= Len(t) /\ \A i \in 1..Len(s) : s[i] = t[i]
<1>1. Len(s) \in Nat /\ Len(t) \in Nat /\ \A i \in 1..Len(t) : t[i] \in T
  BY LenProperties
<1>2. ASSUME NEW k \in 0..Len(t)
      PROVE  SubSeq(t, 1, k) \in Seq(T) /\ Len(SubSeq(t, 1, k)) = k /\ \A i \in 1..k : SubSeq(t, 1, k)[i] = t[i]
  BY <1>1, SubSeqProperties
<1>3. ASSUME NEW k \in 0..Len(t), SubSeq(t, 1, k) = s PROVE Len(s) <= Len(t) /\ \A i \in 1..Len(s) : s[i] = t[i]
  BY <1>2, <1>3
<1>4. ASSUME Len(s) <= Len(t), \A i \in 1..Len(s) : s[i] = t[i] PROVE \E k \in 0..Len(t) : SubSeq(t, 1, k) = s
  <2>1. Len(s) \in 0..Len(t)
    BY <1>1, <1>4
  <2>2. SubSeq(t, 1, Len(s)) = s
    BY <1>2, <1>4, <2>1, SeqEqual
  <2> QED  BY <2>1, <2>2
<1> QED  BY <1>3, <1>4

\* A host lies under a domain when the labels of the domain are its last ones.
LEMMA UnderIsSuffix ==
  ASSUME NEW d \in Seq(STRING), NEW h \in Seq(STRING)
  PROVE  IsSuffix(d, h) <=> Under(h, d)
<1>1. /\ Len(d) \in Nat /\ Len(h) \in Nat
      /\ (\A i \in 1..Len(d) : d[i] \in STRING) /\ (\A i \in 1..Len(h) : h[i] \in STRING)
  BY LenProperties
<1>2. ASSUME NEW s \in Seq(STRING)
      PROVE  /\ Reverse(s) \in Seq(STRING) /\ Len(Reverse(s)) = Len(s)
             /\ \A i \in 1..Len(s) : Reverse(s)[i] = s[Len(s) - i + 1]
  <2>1. Len(s) \in Nat /\ \A i \in 1..Len(s) : s[i] \in STRING
    BY LenProperties
  <2>2. \A i \in 1..Len(s) : Len(s) - i + 1 \in 1..Len(s)
    BY <2>1
  <2>3. Reverse(s) \in [1..Len(s) -> STRING]
    BY <2>1, <2>2 DEF Reverse
  <2> QED  BY <2>1, <2>3 DEF Reverse
<1>3. IsSuffix(d, h) <=> Len(d) <= Len(h) /\ \A i \in 1..Len(d) : d[Len(d) - i + 1] = h[Len(h) - i + 1]
  BY <1>1, <1>2, PrefixPlaces DEF IsSuffix
<1>4. ASSUME NEW k \in 0..Len(h)
      PROVE  /\ SubSeq(h, k + 1, Len(h)) \in Seq(STRING) /\ Len(SubSeq(h, k + 1, Len(h))) = Len(h) - k
             /\ \A i \in 1..Len(h) - k : SubSeq(h, k + 1, Len(h))[i] = h[k + i]
  <2>1. \A i \in k + 1..Len(h) : h[i] \in STRING
    BY <1>1
  <2>2. /\ SubSeq(h, k + 1, Len(h)) \in Seq(STRING)
        /\ Len(SubSeq(h, k + 1, Len(h))) = IF k + 1 <= Len(h) THEN Len(h) - (k + 1) + 1 ELSE 0
        /\ \A i \in 1..Len(h) - (k + 1) + 1 : SubSeq(h, k + 1, Len(h))[i] = h[(k + 1) + i - 1]
    BY <1>1, <2>1, SubSeqProperties
  <2> QED  BY <1>1, <2>2
<1>5. ASSUME NEW k \in 0..Len(h), SubSeq(h, k + 1, Len(h)) = d
      PROVE  Len(d) <= Len(h) /\ \A i \in 1..Len(d) : d[Len(d) - i + 1] = h[Len(h) - i + 1]
  <2>1. Len(d) = Len(h) - k /\ \A i \in 1..Len(d) : d[i] = h[k + i]
    BY <1>4, <1>5
  <2>2. ASSUME NEW i \in 1..Len(d) PROVE d[Len(d) - i + 1] = h[Len(h) - i + 1]
    <3>1. Len(d) - i + 1 \in 1..Len(d) /\ k + (Len(d) - i + 1) = Len(h) - i + 1
      BY <1>1, <2>1
    <3> QED  BY <2>1, <3>1
  <2> QED  BY <1>1, <2>1, <2>2
<1>6. ASSUME Len(d) <= Len(h), \A i \in 1..Len(d) : d[Len(d) - i + 1] = h[Len(h) - i + 1]
      PROVE  \E k \in 0..Len(h) : SubSeq(h, k + 1, Len(h)) = d
  <2>1. PICK k : k = Len(h) - Len(d)
    OBVIOUS
  <2>2. k \in 0..Len(h) /\ Len(h) - k = Len(d)
    BY <1>1, <1>6, <2>1
  <2>3. ASSUME NEW i \in 1..Len(d) PROVE h[k + i] = d[i]
    <3>1. PICK j : j = Len(d) - i + 1
      OBVIOUS
    <3>2. j \in 1..Len(d) /\ Len(d) - j + 1 = i /\ Len(h) - j + 1 = k + i
      BY <1>1, <2>1, <3>1
    <3> QED  BY <1>6, <3>2
  <2>4. SubSeq(h, k + 1, Len(h)) = d
    BY <1>4, <2>2, <2>3, SeqEqual
  <2> QED  BY <2>2, <2>4
<1> QED  BY <1>3, <1>5, <1>6 DEF Under

\* A path lies below a cookie's when it goes on from there at a segment.
LEMMA BelowIsMatch ==
  ASSUME NEW c \in Path, NEW p \in Path
  PROVE  PathMatches(c, p) <=> Below(p, c)
<1>1. Len(c) \in Nat /\ Len(p) \in Nat /\ (c # Root => Len(c) > 0) /\ \A i \in 1..Len(c) : c[i] \in Word
  BY LenProperties, EmptySeq DEF Path, Root
<1>2. ASSUME NEW q \in Path PROVE (\E k \in 0..Len(p) : SubSeq(p, 1, k) = q) <=> IsPrefix(q, p)
  BY PrefixPlaces, BeginningPlaces DEF Path
<1>3. CASE c = Root
  <2>1. Root \in Path /\ Len(Root) = 0
    BY EmptySeq DEF Root, Path
  <2>2. IsPrefix(Root, p)
    <3>1. SubSeq(p, 1, 0) = Root
      BY SubSeqEmpty DEF Root
    <3>2. 0 \in 0..Len(p)
      BY <1>1
    <3>3. \E k \in 0..Len(p) : SubSeq(p, 1, k) = Root
      BY <3>1, <3>2, Zenon
    <3> QED  BY <1>2, <2>1, <3>3, Zenon
  <2> QED  BY <1>2, <1>3, <2>1, <2>2 DEF PathMatches, Below
<1>4. CASE c # Root /\ Last(c) = Empty
  <2>1. PICK q : q = Front(c)
    OBVIOUS
  <2>2. q \in Path /\ Len(q) = Len(c) - 1
    <3>1. \A i \in 1..Len(c) - 1 : c[i] \in Word
      BY <1>1
    <3>2. /\ SubSeq(c, 1, Len(c) - 1) \in Seq(Word)
          /\ Len(SubSeq(c, 1, Len(c) - 1)) = IF 1 <= Len(c) - 1 THEN Len(c) - 1 - 1 + 1 ELSE 0
      BY <1>1, <3>1, SubSeqProperties
    <3>3. q = SubSeq(c, 1, Len(c) - 1)
      BY <2>1 DEF Front
    <3>4. Len(c) > 0
      BY <1>1, <1>4
    <3>5. Len(q) = Len(c) - 1
      <4>1. PICK n : n = Len(c)
        OBVIOUS
      <4>2. n \in Nat /\ n > 0 /\ Len(q) = IF 1 <= n - 1 THEN n - 1 - 1 + 1 ELSE 0
        BY <1>1, <3>2, <3>3, <3>4, <4>1
      <4>3. Len(q) = n - 1
        BY <4>2
      <4> QED  BY <4>1, <4>3
    <3> QED  BY <3>2, <3>3, <3>5 DEF Path
  <2>3. q # c
    BY <1>1, <2>2
  <2>4. Below(p, c) <=> (\E k \in 0..Len(p) : SubSeq(p, 1, k) = q) /\ Len(p) > Len(q)
    BY <1>4, <2>1, <2>3, Zenon DEF Below
  <2>5. PathMatches(c, p) <=> Len(p) >= Len(c) /\ IsPrefix(q, p)
    BY <1>4, <2>1, Zenon DEF PathMatches
  <2> QED  BY <1>1, <1>2, <2>2, <2>4, <2>5
<1>5. CASE c # Root /\ Last(c) # Empty
  <2>1. Below(p, c) <=> \E k \in 0..Len(p) : SubSeq(p, 1, k) = c
    BY <1>5, Zenon DEF Below
  <2>2. PathMatches(c, p) <=> IsPrefix(c, p)
    BY <1>5, Zenon DEF PathMatches
  <2> QED  BY <1>2, <2>1, <2>2
<1> QED  BY <1>3, <1>4, <1>5

\* What a request carries, of any jar.
LEMMA HeaderScope ==
  ASSUME NEW j \in Seq(Cookie), NEW u \in AnyUrl, NEW t
  PROVE  /\ CookieHeader(j, u, t) \in Seq(Cookie)
         /\ ToSet(CookieHeader(j, u, t)) \subseteq ToSet(j)
         /\ \A i \in DOMAIN j :
              j[i] \in ToSet(CookieHeader(j, u, t)) <=>
                /\ Under(u.host, j[i].host) /\ Below(u.path, j[i].path)
                /\ j[i].secure => u.scheme = "https"
                /\ j[i].expires = 0 \/ j[i].expires > t
<1>1. PICK W : W = {c \in ToSet(j) : Live(c, t) /\ Matches(c, u)}
  OBVIOUS
<1>2. CookieHeader(j, u, t) \in Seq(Cookie) /\ ToSet(CookieHeader(j, u, t)) = ToSet(j) \intersect W
  BY <1>1, KeepElements DEF CookieHeader
<1>3. ASSUME NEW i \in DOMAIN j
      PROVE  j[i] \in ToSet(CookieHeader(j, u, t)) <=>
               /\ Under(u.host, j[i].host) /\ Below(u.path, j[i].path)
               /\ j[i].secure => u.scheme = "https"
               /\ j[i].expires = 0 \/ j[i].expires > t
  <2>1. PICK c : c = j[i]
    OBVIOUS
  <2>2. c \in Cookie /\ c \in ToSet(j)
    BY <2>1, LenProperties DEF ToSet
  <2>3. c.host \in Seq(STRING) /\ c.path \in Path /\ u.host \in Seq(STRING) /\ u.path \in Path
    BY <2>2 DEF Cookie, AnyUrl, Host
  <2>4. IsSuffix(c.host, u.host) <=> Under(u.host, c.host)
    BY <2>3, UnderIsSuffix
  <2>5. PathMatches(c.path, u.path) <=> Below(u.path, c.path)
    BY <2>3, BelowIsMatch
  <2>6. c \in ToSet(CookieHeader(j, u, t)) <=> Live(c, t) /\ Matches(c, u)
    BY <1>1, <1>2, <2>2
  <2>7. c \in ToSet(CookieHeader(j, u, t)) <=>
               /\ Under(u.host, c.host) /\ Below(u.path, c.path)
               /\ c.secure => u.scheme = "https"
               /\ c.expires = 0 \/ c.expires > t
    BY <2>4, <2>5, <2>6, Zenon DEF Live, Matches, DomainMatches
  <2> QED  BY <2>1, <2>7
<1> QED  BY <1>2, <1>3

-----------------------------------------------------------------------------
(* What was said of cookies, and the jar that came of it.                    *)

Hearsay == [cookie : Cookie, gone : BOOLEAN, by : Seq(STRING)]

\* Nothing that was said later takes it back.
Standing(s, k) == \A i \in k + 1..Len(s) : s[i].by = <<>> \/ ~SameKey(s[i].cookie, s[k].cookie)

\* A jar holds what was said last and has not expired, and nothing that was not said.
Tells(s, j, t) ==
  /\ \A c \in ToSet(j) : \E k \in DOMAIN s : s[k].cookie = c /\ ~s[k].gone /\ Standing(s, k)
  /\ \A k \in DOMAIN s : ~s[k].gone /\ Standing(s, k) => s[k].cookie \in ToSet(j) \/ ~Live(s[k].cookie, t)

LEMMA OneMoreTold ==
  ASSUME NEW j \in Seq(Cookie), NEW s \in Seq(Hearsay), NEW e \in Hearsay, NEW t, e.by # <<>>, Tells(s, j, t)
  PROVE  Tells(Append(s, e),
               IF e.gone THEN RemoveMatching(j, e.cookie) ELSE Append(RemoveMatching(j, e.cookie), e.cookie), t)
<1>1. PICK k : k = RemoveMatching(j, e.cookie)
  OBVIOUS
<1>2. PICK W : W = {d \in ToSet(j) : ~SameKey(e.cookie, d)}
  OBVIOUS
<1>3. k \in Seq(Cookie) /\ ToSet(k) = ToSet(j) \intersect W
  BY <1>1, <1>2, KeepElements DEF RemoveMatching
<1>4. PICK r : r = IF e.gone THEN k ELSE Append(k, e.cookie)
  OBVIOUS
<1>5. e.cookie \in Cookie /\ e.gone \in BOOLEAN
  BY DEF Hearsay
<1>6. ToSet(r) = ToSet(k) \union (IF e.gone THEN {} ELSE {e.cookie})
  <2>1. CASE e.gone
    BY <1>4, <2>1
  <2>2. CASE ~e.gone
    <3>1. r = Append(k, e.cookie)
      BY <1>4, <2>2
    <3>2. DOMAIN k = 1..Len(k) /\ Len(k) \in Nat
      BY <1>3, LenProperties
    <3>3. /\ DOMAIN r = 1..Len(k) + 1 /\ r[Len(k) + 1] = e.cookie
          /\ \A i \in 1..Len(k) : r[i] = k[i]
      BY <1>3, <1>5, <3>1, <3>2, AppendProperties
    <3> QED  BY <2>2, <3>2, <3>3 DEF ToSet
  <2> QED  BY <2>1, <2>2
<1>7. PICK q : q = Append(s, e)
  OBVIOUS
<1>8. PICK n : n = Len(s)
  OBVIOUS
<1>9. /\ n \in Nat /\ DOMAIN s = 1..n /\ DOMAIN q = 1..n + 1 /\ Len(q) = n + 1
      /\ q[n + 1] = e /\ \A i \in 1..n : q[i] = s[i]
  BY <1>7, <1>8, LenProperties, AppendProperties
<1>10. Standing(q, n + 1)
  BY <1>9 DEF Standing
<1>11. ASSUME NEW i \in 1..n PROVE Standing(q, i) <=> Standing(s, i) /\ ~SameKey(e.cookie, s[i].cookie)
  <2>1. i + 1..n + 1 = (i + 1..n) \union {n + 1} /\ i + 1..n \subseteq 1..n
    BY <1>9
  <2> QED  BY <1>8, <1>9, <2>1, Zenon DEF Standing
<1>12. ASSUME NEW c \in ToSet(r) PROVE \E i \in DOMAIN q : q[i].cookie = c /\ ~q[i].gone /\ Standing(q, i)
  <2>1. CASE ~e.gone /\ c = e.cookie
    <3>1. n + 1 \in DOMAIN q
      BY <1>9
    <3> QED  BY <1>9, <1>10, <2>1, <3>1, Zenon
  <2>2. CASE c \in ToSet(k)
    <3>1. c \in ToSet(j) /\ ~SameKey(e.cookie, c)
      BY <1>2, <1>3, <2>2
    <3>2. PICK i \in DOMAIN s : s[i].cookie = c /\ ~s[i].gone /\ Standing(s, i)
      BY <3>1, Zenon DEF Tells
    <3>3. i \in 1..n /\ i \in DOMAIN q /\ q[i] = s[i]
      BY <1>9
    <3>4. Standing(q, i)
      BY <1>11, <3>1, <3>2, <3>3, Zenon
    <3> QED  BY <3>2, <3>3, <3>4, Zenon
  <2> QED  BY <1>6, <2>1, <2>2
<1>13. ASSUME NEW i \in DOMAIN q, ~q[i].gone, Standing(q, i) PROVE q[i].cookie \in ToSet(r) \/ ~Live(q[i].cookie, t)
  <2>1. CASE i = n + 1
    BY <1>6, <1>9, <1>13, <2>1
  <2>2. CASE i # n + 1
    <3>1. i \in 1..n /\ i \in DOMAIN s /\ q[i] = s[i]
      BY <1>9, <2>2
    <3>2. ~s[i].gone /\ Standing(s, i) /\ ~SameKey(e.cookie, s[i].cookie)
      BY <1>11, <1>13, <3>1, Zenon
    <3>3. s[i].cookie \in ToSet(j) \/ ~Live(s[i].cookie, t)
      BY <3>1, <3>2, Zenon DEF Tells
    <3>4. s[i].cookie \in ToSet(j) => s[i].cookie \in ToSet(k)
      BY <1>2, <1>3, <3>2
    <3> QED  BY <1>6, <3>1, <3>3, <3>4
  <2> QED  BY <2>1, <2>2
<1>14. Tells(q, r, t)
  BY <1>12, <1>13, Zenon DEF Tells
<1> QED  BY <1>1, <1>4, <1>7, <1>14, Zenon

\* What expires later than the time that counted still counts as expired; what is dropped has expired.
LEMMA TellsLater ==
  ASSUME NEW j, NEW s \in Seq(Hearsay), NEW t \in Nat, NEW u \in Nat, t <= u, Tells(s, j, t)
  PROVE  Tells(s, j, u)
<1>1. ASSUME NEW k \in DOMAIN s, Live(s[k].cookie, u) PROVE Live(s[k].cookie, t)
  <2>1. s[k].cookie.expires \in Nat
    <3>1. DOMAIN s = 1..Len(s) /\ \A i \in 1..Len(s) : s[i] \in Hearsay
      BY LenProperties
    <3>2. s[k] \in Hearsay
      BY <3>1
    <3>3. s[k].cookie \in Cookie
      BY <3>2 DEF Hearsay
    <3> QED  BY <3>3 DEF Cookie
  <2> QED  BY <1>1, <2>1 DEF Live
<1> QED  BY <1>1, Zenon DEF Tells

LEMMA TellsTheLive ==
  ASSUME NEW j \in Seq(Cookie), NEW s, NEW t, Tells(s, j, t)
  PROVE  Tells(s, RetainLive(j, t), t)
<1>1. PICK L : L = {c \in ToSet(j) : Live(c, t)}
  OBVIOUS
<1>2. PICK r : r = RetainLive(j, t)
  OBVIOUS
<1>3. ToSet(r) = ToSet(j) \intersect L
  BY <1>1, <1>2, KeepElements DEF RetainLive
<1>4. ASSUME NEW c PROVE c \in ToSet(r) <=> c \in ToSet(j) /\ Live(c, t)
  BY <1>1, <1>3
<1>5. Tells(s, r, t)
  BY <1>4, Zenon DEF Tells
<1> QED  BY <1>2, <1>5

ToldOn(f, s, hs, m) ==
  f = [n \in 0..m |-> IF n = 0 THEN s
                      ELSE IF hs[n].pair = <<>> THEN f[n - 1] ELSE Append(f[n - 1], Saying(hs[n]))]

LEMMA NothingTold ==
  ASSUME NEW t
  PROVE  Tells(<<>>, <<>>, t) /\ <<>> \in Seq(Hearsay)
<1>1. PICK e : e = <<>>
  OBVIOUS
<1>2. e \in Seq(Hearsay) /\ DOMAIN e = {} /\ ToSet(e) = {}
  BY <1>1, EmptySeq DEF ToSet
<1>3. Tells(e, e, t)
  BY <1>2 DEF Tells
<1> QED  BY <1>1, <1>2, <1>3

\* A file that has just been read: no host has said any of it.
LEMMA FileTold ==
  ASSUME NEW j \in Seq(Cookie), NEW t
  PROVE  LET s == [i \in DOMAIN j |-> FromFile(j[i])] IN s \in Seq(Hearsay) /\ Tells(s, j, t)
<1>1. DOMAIN j = 1..Len(j) /\ Len(j) \in Nat /\ \A i \in 1..Len(j) : j[i] \in Cookie
  BY LenProperties
<1>2. <<>> \in Seq(STRING)
  BY EmptySeq
<1>3. PICK e : e = <<>>
  OBVIOUS
<1>4. PICK s : s = [i \in 1..Len(j) |-> FromFile(j[i])]
  OBVIOUS
<1>5. \A i \in 1..Len(j) : FromFile(j[i]) \in Hearsay
  BY <1>1, <1>2, <1>3 DEF FromFile, Hearsay
<1>6. s \in Seq(Hearsay) /\ Len(s) = Len(j) /\ DOMAIN s = 1..Len(j)
  BY <1>1, <1>4, <1>5
<1>7. \A i \in 1..Len(j) : s[i].cookie = j[i] /\ s[i].gone = FALSE /\ s[i].by = <<>>
  BY <1>4 DEF FromFile
<1>8. \A i \in 1..Len(j) : Standing(s, i)
  <2>1. \A i \in 1..Len(j) : i + 1..Len(j) \subseteq 1..Len(j)
    BY <1>1
  <2> QED  BY <1>6, <1>7, <2>1 DEF Standing
<1>9. Tells(s, j, t)
  <2>1. ASSUME NEW c \in ToSet(j) PROVE \E k \in DOMAIN s : s[k].cookie = c /\ ~s[k].gone /\ Standing(s, k)
    <3>1. PICK k \in 1..Len(j) : j[k] = c
      BY <1>1 DEF ToSet
    <3> QED  BY <1>6, <1>7, <1>8, <3>1
  <2>2. \A k \in DOMAIN s : s[k].cookie \in ToSet(j)
    BY <1>1, <1>6, <1>7 DEF ToSet
  <2> QED  BY <2>1, <2>2, Zenon DEF Tells
<1> QED  BY <1>1, <1>4, <1>6, <1>9, Zenon

LEMMA ToldExists ==
  ASSUME NEW s, NEW hs, NEW k \in Nat
  PROVE  \E f : ToldOn(f, s, hs, k)
<1>1. PICK N : N = {m \in Nat : \E f : ToldOn(f, s, hs, m)}
  OBVIOUS
<1>2. 0 \in N
  <2>1. PICK f : f = [n \in 0..0 |-> s]
    OBVIOUS
  <2>2. ToldOn(f, s, hs, 0)
    BY <2>1 DEF ToldOn
  <2> QED  BY <1>1, <2>2
<1>3. ASSUME NEW m \in Nat, m \in N PROVE m + 1 \in N
  <2>1. PICK f : ToldOn(f, s, hs, m)
    BY <1>1, <1>3
  <2>2. PICK x : x = IF hs[m + 1].pair = <<>> THEN f[m] ELSE Append(f[m], Saying(hs[m + 1]))
    OBVIOUS
  <2>3. PICK g : g = [n \in 0..m + 1 |-> IF n = m + 1 THEN x ELSE f[n]]
    OBVIOUS
  <2>4. \A n \in 0..m + 1 :
          g[n] = IF n = 0 THEN s ELSE IF hs[n].pair = <<>> THEN g[n - 1] ELSE Append(g[n - 1], Saying(hs[n]))
    <3> TAKE n \in 0..m + 1
    <3>1. CASE n = m + 1
      <4>1. g[n] = x /\ g[n - 1] = f[m] /\ n # 0
        BY <2>3, <3>1
      <4> QED  BY <2>2, <3>1, <4>1, Zenon
    <3>2. CASE n # m + 1
      <4>1. n \in 0..m /\ g[n] = f[n] /\ (n # 0 => g[n - 1] = f[n - 1])
        BY <2>3, <3>2
      <4>2. f[n] = IF n = 0 THEN s ELSE IF hs[n].pair = <<>> THEN f[n - 1] ELSE Append(f[n - 1], Saying(hs[n]))
        BY <2>1, <4>1 DEF ToldOn
      <4> QED  BY <4>1, <4>2, Zenon
    <3> QED  BY <3>1, <3>2
  <2>5. g = [n \in 0..m + 1 |-> IF n = 0 THEN s
                                ELSE IF hs[n].pair = <<>> THEN g[n - 1] ELSE Append(g[n - 1], Saying(hs[n]))]
    BY <2>3, <2>4
  <2>6. ToldOn(g, s, hs, m + 1)
    BY <2>5 DEF ToldOn
  <2> QED  BY <1>1, <2>6
<1> QED  BY <1>1, <1>2, <1>3, Induction

\* What an answer says of a cookie, for the host that was asked first.
LEMMA SayingTyped ==
  ASSUME NEW h \in SetCookie, now \in Nat, req.url.host \in Host, url.host \in Host, h.pair # <<>>
  PROVE  Saying(h) \in Hearsay /\ Saying(h).by # <<>>
<1>1. PICK c, d, b : /\ c = CookieOf(h.pair, Attributes(h.attrs, now), req.url.host)
                     /\ d = Attributes(h.attrs, now).deleted /\ b = url.host
  OBVIOUS
<1>2. c \in Cookie
  BY <1>1, CookieTyped
<1>3. d \in BOOLEAN
  BY <1>1 DEF Attributes
<1>4. b \in Seq(STRING) /\ b # <<>>
  BY <1>1 DEF Host
<1>5. Saying(h) = [cookie |-> c, gone |-> d, by |-> b]
  BY <1>1, Zenon DEF Saying
<1> QED  BY <1>2, <1>3, <1>4, <1>5 DEF Hearsay

LEMMA AllTold ==
  ASSUME NEW j \in Seq(Cookie), NEW s \in Seq(Hearsay), NEW hs \in Seq(SetCookie),
         now \in Nat, req.url.host \in Host, url.host \in Host, Tells(s, j, now)
  PROVE  Told(s, hs) \in Seq(Hearsay) /\ Tells(Told(s, hs), AddedAll(j, hs, req.url.host, now), now)
<1>1. Len(hs) \in Nat /\ \A i \in 1..Len(hs) : hs[i] \in SetCookie
  BY LenProperties
<1>2. \E f : AddedOn(f, j, hs, req.url.host, now, Len(hs))
  BY <1>1, AddedExists
<1>3. \E f : AddedOn(f, j, hs, req.url.host, now, Len(hs)) /\ AddedAll(j, hs, req.url.host, now) = f[Len(hs)]
  BY <1>2 DEF AddedAll, AddedOn
<1>4. PICK f : AddedOn(f, j, hs, req.url.host, now, Len(hs)) /\ AddedAll(j, hs, req.url.host, now) = f[Len(hs)]
  BY <1>3
<1>5. \E g : ToldOn(g, s, hs, Len(hs))
  BY <1>1, ToldExists
<1>6. \E g : ToldOn(g, s, hs, Len(hs)) /\ Told(s, hs) = g[Len(hs)]
  BY <1>5 DEF Told, ToldOn
<1>7. PICK g : ToldOn(g, s, hs, Len(hs)) /\ Told(s, hs) = g[Len(hs)]
  BY <1>6
<1>8. PICK N : N = {m \in Nat : m <= Len(hs) =>
                      f[m] \in Seq(Cookie) /\ g[m] \in Seq(Hearsay) /\ Tells(g[m], f[m], now)}
  OBVIOUS
<1>9. 0 \in N
  <2>1. f[0] = j
    BY <1>1, <1>4 DEF AddedOn
  <2>2. g[0] = s
    BY <1>1, <1>7 DEF ToldOn
  <2> QED  BY <1>8, <2>1, <2>2
<1>10. ASSUME NEW m \in Nat, m \in N PROVE m + 1 \in N
  <2> SUFFICES ASSUME m + 1 <= Len(hs)
               PROVE  f[m + 1] \in Seq(Cookie) /\ g[m + 1] \in Seq(Hearsay) /\ Tells(g[m + 1], f[m + 1], now)
    BY <1>8
  <2>1. f[m] \in Seq(Cookie) /\ g[m] \in Seq(Hearsay) /\ Tells(g[m], f[m], now)
    BY <1>1, <1>8, <1>10
  <2>2. PICK n : n = m + 1
    OBVIOUS
  <2>3. n \in 0..Len(hs) /\ n # 0 /\ n - 1 = m /\ hs[n] \in SetCookie
    BY <1>1, <2>2
  <2>4. f[n] = AddFromSetCookie(f[m], hs[n], req.url.host, now)
    BY <1>4, <2>3 DEF AddedOn
  <2>5. g[n] = IF hs[n].pair = <<>> THEN g[m] ELSE Append(g[m], Saying(hs[n]))
    BY <1>7, <2>3 DEF ToldOn
  <2>6. f[n] \in Seq(Cookie)
    BY <2>1, <2>3, <2>4, HeaderTyped
  <2>7. CASE hs[n].pair = <<>>
    <3>1. f[n] = f[m] /\ g[n] = g[m]
      BY <2>4, <2>5, <2>7, Zenon DEF AddFromSetCookie
    <3> QED  BY <2>1, <2>2, <3>1
  <2>8. CASE hs[n].pair # <<>>
    <3>1. PICK e : e = Saying(hs[n])
      OBVIOUS
    <3>2. e \in Hearsay /\ e.by # <<>>
      BY <2>3, <2>8, <3>1, SayingTyped
    <3>3. /\ e.cookie = CookieOf(hs[n].pair, Attributes(hs[n].attrs, now), req.url.host)
          /\ e.gone = Attributes(hs[n].attrs, now).deleted
      BY <3>1 DEF Saying
    <3>4. f[n] = IF e.gone THEN RemoveMatching(f[m], e.cookie) ELSE Append(RemoveMatching(f[m], e.cookie), e.cookie)
      BY <2>4, <2>8, <3>3, Zenon DEF AddFromSetCookie
    <3>5. g[n] = Append(g[m], e) /\ g[n] \in Seq(Hearsay)
      BY <2>1, <2>5, <2>8, <3>1, <3>2, AppendProperties
    <3>6. Tells(g[n], f[n], now)
      BY <2>1, <3>2, <3>4, <3>5, OneMoreTold
    <3> QED  BY <2>2, <2>6, <3>5, <3>6
  <2> QED  BY <2>7, <2>8
<1>11. g[Len(hs)] \in Seq(Hearsay) /\ Tells(g[Len(hs)], f[Len(hs)], now)
  <2>1. Nat \subseteq N
    BY <1>9, <1>10, Induction
  <2> QED  BY <1>1, <1>8, <2>1
<1> QED  BY <1>4, <1>7, <1>11

-----------------------------------------------------------------------------
(* The file: what is written is read back, and nothing of it outlives its    *)
(* deadline.                                                                 *)

LEMMA CommentIsText == Comment \in Text /\ Torn \in Seq(Text) /\ Len(Torn) = 2 /\ Torn[2] = Comment
<1>1. Empty \in Word
  BY DEF Word
<1>2. <<>> \in Seq(STRING) /\ Root \in Path
  BY EmptySeq DEF Root, Path
<1>3. Comment \in Text
  <2>1. PICK e : e = Empty
    OBVIOUS
  <2>2. PICK r, n : r = Root /\ n = <<>>
    OBVIOUS
  <2>3. PICK b \in BOOLEAN : b = FALSE
    OBVIOUS
  <2>4. [form |-> "comment", name |-> e, value |-> e, dot |-> b, host |-> n, path |-> r,
         secure |-> b, httpOnly |-> b, expires |-> 0] \in Text
    BY <1>1, <1>2, <2>1, <2>2 DEF Text
  <2> QED  BY <2>1, <2>2, <2>3, <2>4, Zenon DEF Comment
<1>4. PICK c : c = Comment
  OBVIOUS
<1>5. <<c, c>> \in Seq(Text) /\ Len(<<c, c>>) = 2 /\ <<c, c>>[2] = c
  <2>1. c \in Text
    BY <1>3, <1>4
  <2> QED  BY <2>1
<1> QED  BY <1>3, <1>4, <1>5, Zenon DEF Torn

\* A line that is not kept may as well not be there.
LEMMA KeepAfter ==
  ASSUME NEW T, NEW V, NEW c \in T, c \notin V
  PROVE  \A s \in Seq(T) : Keep(<<c>> \o s, V) = Keep(s, V)
<1>1. PICK P : P = {s \in Seq(T) : Keep(<<c>> \o s, V) = Keep(s, V)}
  OBVIOUS
<1>2. PICK o : o = <<c>>
  OBVIOUS
<1>3. o \in Seq(T)
  BY <1>2
<1>4. <<>> \in P
  <2>1. PICK e : e = <<>>
    OBVIOUS
  <2>2. e \in Seq(T) /\ Keep(e, V) = e
    BY <2>1, EmptySeq, KeepEmpty
  <2>3. o = Append(e, c)
    BY <1>2, <2>1
  <2>4. Keep(o, V) = e
    BY <2>2, <2>3, KeepAppend
  <2>5. o \o e = o
    BY <1>3, <2>1, ConcatEmptySeq
  <2> QED  BY <1>1, <1>2, <2>1, <2>2, <2>4, <2>5
<1>5. ASSUME NEW s \in Seq(T), NEW x \in T, s \in P PROVE Append(s, x) \in P
  <2>1. PICK k : k = o \o s
    OBVIOUS
  <2>2. k \in Seq(T) /\ Append(s, x) \in Seq(T) /\ Append(k, x) \in Seq(T)
    BY <1>3, <2>1, ConcatProperties, AppendProperties
  <2>3. o \o Append(s, x) = Append(k, x)
    <3>1. PICK y : y = <<x>>
      OBVIOUS
    <3>2. y \in Seq(T) /\ Append(s, x) = s \o y /\ Append(k, x) = k \o y
      BY <2>2, <3>1, AppendIsConcat
    <3> QED  BY <1>3, <2>1, <3>2, ConcatAssociative, SMTT(30)
  <2>4. Keep(k, V) = Keep(s, V)
    BY <1>1, <1>2, <1>5, <2>1
  <2>5. Keep(Append(k, x), V) = Keep(Append(s, x), V)
    <3>1. Keep(Append(k, x), V) = IF x \in V THEN Append(Keep(k, V), x) ELSE Keep(k, V)
      BY <2>2, KeepAppend
    <3>2. Keep(Append(s, x), V) = IF x \in V THEN Append(Keep(s, V), x) ELSE Keep(s, V)
      BY KeepAppend
    <3>3. CASE x \in V
      BY <2>4, <3>1, <3>2, <3>3
    <3>4. CASE x \notin V
      BY <2>4, <3>1, <3>2, <3>4
    <3> QED  BY <3>3, <3>4
  <2> QED  BY <1>1, <1>2, <2>2, <2>3, <2>5
<1>6. Seq(T) \subseteq P
  BY <1>4, <1>5, SeqInduction
<1> QED  BY <1>1, <1>6

\* The lines that are read, and the cookies of a file as an image of them.
RowsAt(t) == {l \in Text : Readable(l, t)}
CookieFrom == [l \in Text |-> CookieOn(l)]

LEMMA LoadedIsImage ==
  ASSUME NEW f \in Seq(Text), NEW t
  PROVE  Keep(f, RowsAt(t)) \in Seq(Text) /\ Loaded(f, t) = Image(CookieFrom, Keep(f, RowsAt(t)))
<1>1. PICK W : W = {line \in ToSet(f) : Readable(line, t)}
  OBVIOUS
<1>2. ToSet(f) \subseteq Text
  BY LenProperties DEF ToSet
<1>3. ToSet(f) \intersect W = ToSet(f) \intersect RowsAt(t)
  BY <1>1, <1>2 DEF RowsAt
<1>4. Keep(f, W) = Keep(f, RowsAt(t))
  BY <1>3, KeepSame
<1>5. PICK rows : rows = Keep(f, RowsAt(t))
  OBVIOUS
<1>6. rows \in Seq(Text)
  BY <1>5, KeepElements
<1>7. Loaded(f, t) = [i \in DOMAIN rows |-> CookieOn(rows[i])]
  BY <1>1, <1>4, <1>5, Zenon DEF Loaded
<1>8. \A i \in DOMAIN rows : CookieFrom[rows[i]] = CookieOn(rows[i])
  BY <1>6, LenProperties DEF CookieFrom
<1>9. Image(CookieFrom, rows) = [i \in DOMAIN rows |-> CookieOn(rows[i])]
  BY <1>8, Zenon DEF Image
<1> QED  BY <1>5, <1>6, <1>7, <1>9

LEMMA ReadIsCookie ==
  ASSUME NEW l \in Text, NEW t \in Nat, Readable(l, t)
  PROVE  CookieOn(l) \in Cookie
<1>1. /\ l.name \in Word \ {Empty} /\ l.value \in Word /\ l.dot \in BOOLEAN /\ l.path \in Path
      /\ l.secure \in BOOLEAN /\ l.httpOnly \in BOOLEAN
  BY DEF Text, Readable
<1>2. l.host \in Host
  BY DEF Text, Readable, Host
<1>3. l.expires \in Nat
  BY DEF Text, Readable
<1> QED  BY <1>1, <1>2, <1>3 DEF Cookie, CookieOn

LEMMA LoadedTyped ==
  ASSUME NEW f \in Seq(Text), NEW t \in Nat
  PROVE  Loaded(f, t) \in Seq(Cookie)
<1>1. PICK rows : rows = Keep(f, RowsAt(t))
  OBVIOUS
<1>2. rows \in Seq(Text) /\ ToSet(rows) = ToSet(f) \intersect RowsAt(t) /\ Loaded(f, t) = Image(CookieFrom, rows)
  BY <1>1, KeepElements, LoadedIsImage
<1>3. DOMAIN rows = 1..Len(rows) /\ Len(rows) \in Nat
  BY <1>2, LenProperties
<1>4. \A i \in 1..Len(rows) : CookieFrom[rows[i]] \in Cookie
  <2> TAKE i \in 1..Len(rows)
  <2>1. rows[i] \in RowsAt(t)
    BY <1>2, <1>3 DEF ToSet
  <2> QED  BY <2>1, ReadIsCookie DEF RowsAt, CookieFrom
<1>5. Image(CookieFrom, rows) \in [1..Len(rows) -> Cookie]
  BY <1>3, <1>4 DEF Image
<1> QED  BY <1>2, <1>3, <1>5

\* What was read earlier and still lives is what is read now.
LEMMA LoadedLive ==
  ASSUME NEW f \in Seq(Text), NEW n \in Nat, NEW t \in Nat, n <= t
  PROVE  RetainLive(Loaded(f, n), t) = Loaded(f, t)
<1>1. PICK U : U = {CookieOn(l) : l \in Text}
  OBVIOUS
<1>2. CookieFrom \in [Text -> U]
  BY <1>1 DEF CookieFrom
<1>3. PICK rows : rows = Keep(f, RowsAt(n))
  OBVIOUS
<1>4. rows \in Seq(Text) /\ Loaded(f, n) = Image(CookieFrom, rows)
  BY <1>3, LoadedIsImage
<1>5. PICK j : j = Loaded(f, n)
  OBVIOUS
<1>6. j \in Seq(Cookie)
  BY <1>5, LoadedTyped
<1>7. PICK L : L = {c \in Cookie : Live(c, t)}
  OBVIOUS
<1>8. RetainLive(j, t) = Keep(j, L)
  <2>1. PICK W : W = {c \in ToSet(j) : Live(c, t)}
    OBVIOUS
  <2>2. ToSet(j) \subseteq Cookie
    BY <1>6, LenProperties DEF ToSet
  <2>3. ToSet(j) \intersect W = ToSet(j) \intersect L
    BY <1>7, <2>1, <2>2
  <2>4. Keep(j, W) = Keep(j, L)
    BY <1>6, <2>3, KeepSame
  <2> QED  BY <2>1, <2>4, Zenon DEF RetainLive
<1>9. PICK W : W = {x \in Text : CookieFrom[x] \in L}
  OBVIOUS
<1>10. Keep(Image(CookieFrom, rows), L) = Image(CookieFrom, Keep(rows, W))
  <2>1. \A x \in Text : x \in W <=> CookieFrom[x] \in L
    BY <1>9
  <2>2. \A s \in Seq(Text) : Keep(Image(CookieFrom, s), L) = Image(CookieFrom, Keep(s, W))
    BY <2>1, KeepImage
  <2> QED  BY <1>4, <2>2
<1>11. Keep(rows, W) = Keep(f, RowsAt(n) \intersect W)
  BY <1>3, KeepKeep
<1>12. RowsAt(n) \intersect W = RowsAt(t)
  <2>1. ASSUME NEW l \in Text
        PROVE  l \in RowsAt(n) /\ l \in W <=> l \in RowsAt(t)
    <3>1. CookieFrom[l] = CookieOn(l) /\ CookieOn(l).expires = l.expires /\ l.expires \in Int
      BY DEF CookieFrom, CookieOn, Text
    <3>2. l \in RowsAt(n) => CookieOn(l) \in Cookie
      BY ReadIsCookie DEF RowsAt
    <3>3. l \in RowsAt(n) => (l \in W <=> l.expires = 0 \/ l.expires > t)
      BY <1>7, <1>9, <3>1, <3>2 DEF Live
    <3>4. l \in RowsAt(t) => l \in RowsAt(n)
      BY <3>1 DEF RowsAt, Readable
    <3>5. l \in RowsAt(n) => (l \in RowsAt(t) <=> l.expires = 0 \/ l.expires > t)
      BY <3>1 DEF RowsAt, Readable
    <3> QED  BY <3>3, <3>4, <3>5
  <2> QED  BY <2>1 DEF RowsAt
<1>13. Loaded(f, t) = Image(CookieFrom, Keep(f, RowsAt(t)))
  BY LoadedIsImage
<1> QED  BY <1>4, <1>5, <1>8, <1>10, <1>11, <1>12, <1>13

\* What is written for a jar.
LineFor == [c \in Cookie |-> Line(c)]

LEMMA LinesReadBack ==
  ASSUME NEW j \in Seq(Cookie)
  PROVE  /\ Lines(j) \in Seq(Text)
         /\ j # <<>> => Lines(j) # Torn
         /\ \A t \in Nat : Loaded(Lines(j), t) = RetainLive(j, t)
<1>1. ASSUME NEW c \in Cookie
      PROVE  Line(c) \in Text /\ Line(c).form = "row" /\ CookieOn(Line(c)) = c
  <2>1. Line(c) \in Text
    <3>1. /\ c.name \in Word /\ c.value \in Word /\ c.dot \in BOOLEAN /\ c.path \in Path
          /\ c.secure \in BOOLEAN /\ c.httpOnly \in BOOLEAN /\ c.host \in Seq(STRING) /\ c.expires \in Int
      BY DEF Cookie, Host
    <3> QED  BY <3>1 DEF Line, Text
  <2>2. CookieOn(Line(c)) = c
    BY DEF CookieOn, Line, Cookie
  <2> QED  BY <2>1, <2>2 DEF Line
<1>2. LineFor \in [Cookie -> Text]
  BY <1>1 DEF LineFor
<1>3. PICK s : s = Image(LineFor, j)
  OBVIOUS
<1>4. s \in Seq(Text)
  <2>1. \A c \in Cookie : LineFor[c] \in Text
    BY <1>2
  <2> QED  BY <1>3, <2>1, ImageTyped
<1>5. DOMAIN j = 1..Len(j) /\ Len(j) \in Nat /\ \A i \in 1..Len(j) : j[i] \in Cookie
  BY LenProperties
<1>6. s = [i \in DOMAIN j |-> Line(j[i])]
  BY <1>3, <1>5 DEF Image, LineFor
<1>7. PICK o : o = <<Comment>>
  OBVIOUS
<1>8. o \in Seq(Text) /\ Len(o) = 1
  BY <1>7, CommentIsText
<1>9. Lines(j) = o \o s
  BY <1>6, <1>7, Zenon DEF Lines
<1>10. Lines(j) \in Seq(Text)
  BY <1>4, <1>8, <1>9, ConcatProperties
<1>11. ASSUME j # <<>> PROVE Lines(j) # Torn
  <2>1. Len(j) > 0
    BY <1>5, <1>11, EmptySeq
  <2>2. Len(s) = Len(j) /\ s[1] = Line(j[1])
    BY <1>4, <1>5, <1>6, <2>1
  <2>3. (o \o s)[2] = s[1]
    <3>1. \A i \in 1..Len(o) + Len(s) : (o \o s)[i] = IF i <= Len(o) THEN o[i] ELSE s[i - Len(o)]
      BY <1>4, <1>8, ConcatProperties
    <3>2. 2 \in 1..Len(o) + Len(s) /\ ~ (2 <= Len(o)) /\ 2 - Len(o) = 1
      BY <1>5, <1>8, <2>1, <2>2
    <3> QED  BY <3>1, <3>2
  <2>4. Line(j[1]).form = "row"
    BY <1>1, <1>5, <2>1
  <2>5. Comment.form = "comment"
    BY DEF Comment
  <2> QED  BY <1>9, <2>2, <2>3, <2>4, <2>5, CommentIsText
<1>12. ASSUME NEW t \in Nat PROVE Loaded(Lines(j), t) = RetainLive(j, t)
  <2>1. Loaded(Lines(j), t) = Image(CookieFrom, Keep(Lines(j), RowsAt(t)))
    BY <1>10, LoadedIsImage
  <2>2. Comment \notin RowsAt(t)
    BY DEF RowsAt, Readable, Comment
  <2>3. Keep(Lines(j), RowsAt(t)) = Keep(s, RowsAt(t))
    BY <1>4, <1>7, <1>9, <2>2, CommentIsText, KeepAfter
  <2>4. PICK W : W = {c \in Cookie : LineFor[c] \in RowsAt(t)}
    OBVIOUS
  <2>5. Keep(s, RowsAt(t)) = Image(LineFor, Keep(j, W))
    <3>1. PICK R : R = RowsAt(t)
      OBVIOUS
    <3>2. \A x \in Cookie : x \in W <=> LineFor[x] \in R
      BY <2>4, <3>1
    <3>3. \A r \in Seq(Cookie) : Keep(Image(LineFor, r), R) = Image(LineFor, Keep(r, W))
      BY <3>2, KeepImage
    <3> QED  BY <1>3, <3>1, <3>3
  <2>6. ASSUME NEW c \in Cookie PROVE c \in W <=> Live(c, t)
    <3>1. LineFor[c] = Line(c) /\ Line(c) \in Text
      BY <1>1 DEF LineFor
    <3>2. Readable(Line(c), t) <=> Live(c, t)
      BY DEF Readable, Line, Live, Cookie, Host
    <3> QED  BY <2>4, <3>1, <3>2 DEF RowsAt
  <2>7. PICK V : V = {c \in ToSet(j) : Live(c, t)}
    OBVIOUS
  <2>8. ToSet(j) \intersect W = ToSet(j) \intersect V
    <3>1. ToSet(j) \subseteq Cookie
      BY <1>5 DEF ToSet
    <3> QED  BY <2>6, <2>7, <3>1
  <2>9. Keep(j, W) = RetainLive(j, t)
    <3>1. Keep(j, W) = Keep(j, V)
      BY <2>8, KeepSame
    <3> QED  BY <2>7, <3>1, Zenon DEF RetainLive
  <2>10. PICK k : k = RetainLive(j, t)
    OBVIOUS
  <2>11. k \in Seq(Cookie)
    BY <2>9, <2>10, KeepElements
  <2>12. Image(CookieFrom, Image(LineFor, k)) = k
    <3>1. DOMAIN k = 1..Len(k) /\ Len(k) \in Nat /\ (\A i \in 1..Len(k) : k[i] \in Cookie) /\ k \in [1..Len(k) -> Cookie]
      BY <2>11, LenProperties
    <3>2. \A i \in 1..Len(k) : CookieFrom[LineFor[k[i]]] = k[i]
      BY <1>1, <3>1 DEF CookieFrom, LineFor
    <3>3. Image(CookieFrom, Image(LineFor, k)) = [i \in 1..Len(k) |-> CookieFrom[LineFor[k[i]]]]
      BY <3>1 DEF Image
    <3> QED  BY <3>1, <3>2, <3>3
  <2> QED  BY <2>1, <2>3, <2>5, <2>9, <2>10, <2>12
<1> QED  BY <1>10, <1>11, <1>12

-----------------------------------------------------------------------------
(* The inductive invariant.                                                  *)

\* What is asked for, answered, kept and written is well-formed.
WebTyped ==
  /\ now \in Nat /\ jar \in Seq(Cookie) /\ file \in Seq(Text) /\ tmp \in Seq(Text)
  /\ req \in Calls \union {NoCall} /\ url \in AnyUrl /\ res \in Answers \union {NoRes} /\ sent.url \in AnyUrl

\* The header of the hop that is out is that of its own URL and time, over the jar as it still is.
HopInv ==
  place = "answer" =>
    /\ sent.cookies = IF req.cookie THEN <<>> ELSE CookieHeader(jar, sent.url, sent.time)
    /\ sent.range = req.range

\* A file that holds the jar: whatever the time, reading it yields what of the jar still lives.
HoldsJar(f, j, t) == \A n \in Nat : t <= n => Loaded(f, n) = RetainLive(j, n)

\* Until it has an agent a process has no cookies; what it renames is its jar; and but for a
\* save under way, or one that failed, the file holds the jar.
FileInv ==
  /\ ~agent => jar = <<>> /\ place \in {"idle", "raw"}
  /\ place \in {"rename", "rerename"} => tmp = Lines(jar) /\ jar # <<>>
  /\ file # Torn
  /\ agent /\ jar # <<>> /\ ~unsaved /\ place \notin {"save", "rename"} => HoldsJar(file, jar, now)

\* The jar is what the last words on its cookies make of it, at the time that its next header counts from.
ToldInv ==
  /\ heard \in Seq(Hearsay)
  /\ place = "answer" => sent.time \in Nat /\ sent.time <= now
  /\ Tells(heard, jar, IF place = "answer" THEN sent.time ELSE now)

WebInv == WebTyped /\ HopInv /\ FileInv /\ ToldInv

LEMMA CallsTyped ==
  ASSUME NEW c \in Calls \union {NoCall}
  PROVE  c.url \in AnyUrl /\ c.url.host \in Host
<1>1. \A u \in Urls : u \in AnyUrl
  BY RequestsAssumption
<1>2. NoCall.url \in Urls
  <2>1. \E u \in Urls : TRUE
    BY RequestsAssumption
  <2>2. (CHOOSE u \in Urls : TRUE) \in Urls
    BY <2>1
  <2> QED  BY <2>2 DEF NoCall
<1>3. c \in Calls => c.url \in Urls
  BY RequestsAssumption DEF Call
<1>4. c.url \in AnyUrl
  BY <1>1, <1>2, <1>3
<1> QED  BY <1>4 DEF AnyUrl

LEMMA AnswersTyped ==
  ASSUME NEW r \in Answers \union {NoRes}
  PROVE  r.set \in Seq(SetCookie) /\ (r.location.kind # "none" => r.location \in Location)
<1>1. r.set = <<>> \/ \E h \in SetCookies : r.set = <<h>>
  BY DEF Answers, NoRes
<1>2. r.set \in Seq(SetCookie)
  <2>1. <<>> \in Seq(SetCookie)
    BY EmptySeq
  <2>2. \A h \in SetCookies : h \in SetCookie
    BY RequestsAssumption
  <2>3. \A h \in SetCookie : <<h>> \in Seq(SetCookie)
    OBVIOUS
  <2> QED  BY <1>1, <2>1, <2>2, <2>3
<1>3. r.location.kind = "none" \/ r.location \in Locations
  BY DEF Answers, NoRes
<1> QED  BY <1>2, <1>3, RequestsAssumption

LEMMA JoinedTyped ==
  ASSUME NEW u \in AnyUrl, NEW l \in Location
  PROVE  Joined(u, l) \in AnyUrl
<1>1. u.path \in Path /\ u.scheme \in STRING /\ u.host \in Host /\ u = [scheme |-> u.scheme, host |-> u.host, path |-> u.path]
  BY DEF AnyUrl
<1>2. ASSUME NEW p \in Path PROVE [u EXCEPT !.path = p] \in AnyUrl
  BY DEF AnyUrl
<1>3. CASE l.kind = "absolute"
  <2>1. l.url \in AnyUrl
    BY <1>3 DEF Location
  <2> QED  BY <1>3, <2>1 DEF Joined
<1>4. CASE l.kind = "rooted"
  <2>1. l.path \in Path
    BY <1>4 DEF Location
  <2> QED  BY <1>2, <1>4, <2>1 DEF Joined
<1>5. CASE l.kind = "relative"
  <2>1. l.path \in Path
    BY <1>5 DEF Location
  <2>2. PICK b : b = IF u.path = Root THEN Root ELSE Front(u.path)
    OBVIOUS
  <2>3. b \in Path
    <3>1. Root \in Path
      BY EmptySeq DEF Root, Path
    <3>2. Len(u.path) \in Nat /\ \A i \in 1..Len(u.path) : u.path[i] \in Word
      BY <1>1, LenProperties DEF Path
    <3>3. Front(u.path) \in Path
      BY <3>2, SubSeqProperties DEF Front, Path
    <3> QED  BY <2>2, <3>1, <3>3
  <2>4. b \o l.path \in Path
    BY <2>1, <2>3, ConcatProperties DEF Path
  <2>5. Joined(u, l) = [u EXCEPT !.path = b \o l.path]
    BY <1>5, <2>2 DEF Joined
  <2> QED  BY <1>2, <2>4, <2>5
<1> QED  BY <1>3, <1>4, <1>5 DEF Location

LEMMA ForgetTyped ==
  ASSUME Forget
  PROVE  req' \in Calls \union {NoCall} /\ url' \in AnyUrl /\ res' \in Answers \union {NoRes} /\ sent'.url \in AnyUrl
<1>1. NoCall.url \in AnyUrl
  BY CallsTyped
<1> QED  BY <1>1 DEF Forget, NoneSent

LEMMA ReturnTyped ==
  ASSUME Return
  PROVE  /\ req' \in Calls \union {NoCall} /\ url' \in AnyUrl /\ res' \in Answers \union {NoRes} /\ sent'.url \in AnyUrl
         /\ place' = "idle"
BY ForgetTyped DEF Return

LEMMA WebInitInv ==
  ASSUME WebInit
  PROVE  WebInv
<1>1. NoCall.url \in AnyUrl
  BY CallsTyped
<1>2. <<>> \in Seq(Cookie) /\ <<>> \in Seq(Text)
  BY EmptySeq
<1>3. file \in Seq(Text) /\ file # Torn
  BY RequestsAssumption DEF WebInit, Torn
<1>4. WebTyped
  BY <1>1, <1>2, <1>3 DEF WebInit, WebTyped, NoneSent, NoFile
<1>5. HopInv
  BY DEF WebInit, HopInv
<1>6. FileInv
  BY <1>3 DEF WebInit, FileInv
<1>7. ToldInv
  <2>1. PICK e : e = <<>>
    OBVIOUS
  <2>2. heard = e /\ jar = e /\ place = "idle"
    BY <2>1 DEF WebInit
  <2>3. Tells(e, e, now) /\ e \in Seq(Hearsay)
    BY <2>1, NothingTold
  <2> QED  BY <2>2, <2>3 DEF ToldInv
<1> QED  BY <1>4, <1>5, <1>6, <1>7 DEF WebInv

-----------------------------------------------------------------------------
LEMMA TypedKept ==
  ASSUME WebTyped, WebNext
  PROVE  WebTyped'
<1> USE DEF WebTyped
<1>1. CASE Send
  <2>1. \E c \in Calls : req' = c /\ url' = c.url
    BY <1>1 DEF Send
  <2>2. req' \in Calls /\ url' \in AnyUrl
    BY <2>1, CallsTyped
  <2>3. jar' \in Seq(Cookie)
    <3>1. Loaded(file, now) \in Seq(Cookie)
      BY LoadedTyped
    <3>2. jar' \in {jar, Loaded(file, now)}
      BY <1>1 DEF Send, LoadFile
    <3> QED  BY <3>1, <3>2
  <2> QED  BY <1>1, <2>2, <2>3 DEF Send
<1>2. CASE Unsupported \/ Unreachable \/ RawAnswered
  BY <1>2, ReturnTyped DEF Unsupported, Unreachable, RawAnswered
<1>3. CASE Exchange
  BY <1>3 DEF Exchange
<1>4. CASE Follow
  <2>1. CASE Return
    BY <1>4, <2>1, ReturnTyped DEF Follow
  <2>2. CASE ~Return
    <3>1. url' = Joined(url, res.location) /\ UNCHANGED req /\ res' = NoRes /\ sent' = NoneSent
      BY <1>4, <2>2 DEF Follow
    <3>2. res.location \in Location
      BY <1>4, AnswersTyped DEF Follow, Final
    <3>3. url' \in AnyUrl
      BY <3>1, <3>2, JoinedTyped
    <3>4. sent'.url \in AnyUrl
      BY <3>1, CallsTyped DEF NoneSent
    <3> QED  BY <1>4, <3>1, <3>3, <3>4 DEF Follow
  <2> QED  BY <2>1, <2>2
<1>5. CASE Accept
  <2>1. PICK j : j = AddedAll(jar, res.set, req.url.host, now)
    OBVIOUS
  <2>2. j \in Seq(Cookie)
    BY <2>1, AddedTyped, AnswersTyped, CallsTyped
  <2>3. RetainLive(j, now) \in Seq(Cookie)
    BY <2>2, KeepElements DEF RetainLive
  <2>4. Forget
    BY <1>5 DEF Accept
  <2> QED  BY <1>5, <2>1, <2>3, <2>4, ForgetTyped DEF Accept
<1>6. CASE SkipSave \/ Rename
  BY <1>6, ReturnTyped, EmptySeq DEF SkipSave, Rename, AfterSave, NoFile
<1>7. CASE WriteTmp
  BY <1>7, LinesReadBack DEF WriteTmp
<1>8. CASE SaveFails
  <2>1. tmp' \in {Torn, NoFile} /\ UNCHANGED <<now, file, jar>> /\ (UNCHANGED <<req, url, hop, sent, res>> \/ Return)
    BY <1>8 DEF SaveFails
  <2>2. Torn \in Seq(Text) /\ NoFile \in Seq(Text)
    BY CommentIsText, EmptySeq DEF NoFile
  <2> QED  BY <2>1, <2>2, ReturnTyped
<1>9. CASE Body
  BY <1>9, ReturnTyped DEF Body
<1>10. CASE RawRequest
  <2>1. \E u \in Urls : sent'.url = u
    BY <1>10 DEF RawRequest
  <2> QED  BY <1>10, <2>1, RequestsAssumption DEF RawRequest
<1>11. CASE Restart
  <2>1. tmp' \in {tmp, Torn} /\ jar' = <<>> /\ UNCHANGED <<now, file>> /\ Return
    BY <1>11 DEF Restart
  <2> QED  BY <2>1, ReturnTyped, CommentIsText, EmptySeq
<1>12. CASE Tick
  BY <1>12 DEF Tick
<1> QED  BY <1>1, <1>2, <1>3, <1>4, <1>5, <1>6, <1>7, <1>8, <1>9, <1>10, <1>11, <1>12 DEF WebNext

LEMMA HopKept ==
  ASSUME WebTyped, HopInv, WebNext
  PROVE  HopInv'
<1>1. CASE Exchange
  <2>1. PICK c : c = Cookies
    OBVIOUS
  <2>2. sent' = [url |-> url, cookies |-> c, range |-> req.range, time |-> now] /\ UNCHANGED <<jar, req>>
    BY <1>1, <2>1 DEF Exchange
  <2>3. sent'.cookies = c /\ sent'.range = req'.range /\ sent'.url = url /\ sent'.time = now /\ jar' = jar /\ req' = req
    BY <2>2
  <2>4. c = IF req'.cookie THEN <<>> ELSE CookieHeader(jar', sent'.url, sent'.time)
    BY <2>1, <2>3, Zenon DEF Cookies
  <2> QED  BY <2>3, <2>4, Zenon DEF HopInv
<1>2. CASE Tick
  BY <1>2, Zenon DEF Tick, HopInv
<1>3. CASE ~Exchange /\ ~Tick
  <2>1. place' # "answer"
    BY <1>3 DEF WebNext, Send, Unsupported, Unreachable, Follow, Accept, SkipSave, WriteTmp, Rename, SaveFails, Body,
                RawRequest, RawAnswered, Restart, Return, AfterSave
  <2> QED  BY <2>1 DEF HopInv
<1> QED  BY <1>1, <1>2, <1>3

LEMMA FileKept ==
  ASSUME WebTyped, FileInv, WebNext
  PROVE  FileInv'
<1> DEFINE Same == UNCHANGED <<now, file, tmp, agent, jar, unsaved>>
<1>1. CASE Send
  <2>1. /\ agent' /\ place' = "ask" /\ UNCHANGED <<now, file, unsaved>>
        /\ jar' = IF agent THEN jar ELSE LoadFile(jar, file, now)
    BY <1>1 DEF Send
  <2>2. place = "idle"
    BY <1>1 DEF Send
  <2>3. ASSUME jar' # <<>>, ~unsaved PROVE HoldsJar(file, jar', now)
    <3>1. CASE agent
      BY <2>1, <2>2, <2>3, <3>1 DEF FileInv
    <3>2. CASE ~agent
      <4>1. jar' = Loaded(file, now)
        BY <2>1, <2>3, <3>2 DEF FileInv, LoadFile
      <4>2. \A n \in Nat : now <= n => Loaded(file, n) = RetainLive(Loaded(file, now), n)
        BY LoadedLive DEF WebTyped
      <4> QED  BY <4>1, <4>2 DEF HoldsJar
    <3> QED  BY <3>1, <3>2
  <2>4. HoldsJar(file, jar', now) => HoldsJar(file', jar', now')
    BY <2>1
  <2>5. agent' /\ place' = "ask" /\ file' = file /\ unsaved' = unsaved /\ file # Torn
    BY <2>1 DEF FileInv
  <2> QED  BY <2>3, <2>4, <2>5 DEF FileInv
<1>2. CASE Unsupported \/ Unreachable \/ RawAnswered \/ Body \/ Follow \/ Exchange \/ RawRequest
  <2>1. Same /\ place' \notin {"rename", "rerename"} /\ (~agent => place' \in {"idle", "raw"})
        /\ place \notin {"save", "rename"}
    BY <1>2 DEF FileInv, Unsupported, Unreachable, RawAnswered, Body, Follow, Exchange, RawRequest, Return
  <2>2. HoldsJar(file, jar, now) => HoldsJar(file', jar', now')
    BY <2>1
  <2> QED  BY <2>1, <2>2 DEF FileInv
<1>3. CASE Accept
  BY <1>3 DEF Accept, FileInv
<1>4. CASE SkipSave
  BY <1>4 DEF SkipSave, AfterSave, Return, FileInv, Saves
<1>5. CASE WriteTmp
  <2>1. /\ tmp' = Lines(jar) /\ jar # <<>> /\ UNCHANGED <<now, file, agent, jar, unsaved>> /\ agent
        /\ (place = "save" /\ place' = "rename") \/ (place = "resave" /\ place' = "rerename")
    BY <1>5 DEF WriteTmp, Saves, FileInv
  <2>2. HoldsJar(file, jar, now) => HoldsJar(file', jar', now')
    BY <2>1
  <2>3. tmp' = Lines(jar') /\ jar' # <<>>
    BY <2>1
  <2> QED  BY <2>1, <2>2, <2>3 DEF FileInv
<1>6. CASE Rename
  <2>1. /\ file' = Lines(jar) /\ jar # <<>> /\ UNCHANGED <<now, agent, jar>> /\ agent
        /\ place' \in {"body", "idle"}
    BY <1>6 DEF Rename, AfterSave, Return, FileInv
  <2>2. Lines(jar) # Torn /\ HoldsJar(Lines(jar), jar, now)
    BY <2>1, LinesReadBack DEF WebTyped, HoldsJar
  <2>3. file' # Torn /\ HoldsJar(file', jar', now')
    BY <2>1, <2>2
  <2> QED  BY <2>1, <2>3 DEF FileInv
<1>7. CASE SaveFails
  <2>1. unsaved' /\ UNCHANGED <<file, agent, jar>> /\ jar # <<>> /\ place' \in {"body", "idle"}
    BY <1>7 DEF SaveFails, Return
  <2> QED  BY <2>1 DEF FileInv
<1>8. CASE Restart
  BY <1>8 DEF Restart, Return, FileInv
<1>9. CASE Tick
  <2>1. now' = now + 1 /\ UNCHANGED <<file, tmp, agent, jar, unsaved, place>> /\ now \in Nat
    BY <1>9 DEF Tick, WebTyped
  <2>2. HoldsJar(file, jar, now) => HoldsJar(file', jar', now')
    <3>1. ASSUME HoldsJar(file, jar, now) PROVE HoldsJar(file, jar, now + 1)
      BY <2>1, <3>1 DEF HoldsJar
    <3> QED  BY <2>1, <3>1
  <2>3. tmp = Lines(jar) => tmp' = Lines(jar')
    BY <2>1
  <2> QED  BY <2>1, <2>2, <2>3 DEF FileInv
<1> QED  BY <1>1, <1>2, <1>3, <1>4, <1>5, <1>6, <1>7, <1>8, <1>9 DEF WebNext

LEMMA ToldKept ==
  ASSUME WebTyped, FileInv, ToldInv, WebNext
  PROVE  ToldInv'
<1>1. now \in Nat /\ jar \in Seq(Cookie) /\ heard \in Seq(Hearsay)
  BY DEF WebTyped, ToldInv
<1>2. Tells(heard, jar, now)
  <2>1. CASE place = "answer"
    <3>1. sent.time \in Nat /\ sent.time <= now /\ Tells(heard, jar, sent.time)
      BY <2>1, Zenon DEF ToldInv
    <3> QED  BY <1>1, <3>1, TellsLater
  <2>2. CASE place # "answer"
    BY <2>2, Zenon DEF ToldInv
  <2> QED  BY <2>1, <2>2
<1>3. CASE Send
  <2>1. place' = "ask" /\ now' = now
    BY <1>3 DEF Send
  <2>2. CASE agent
    <3>1. jar' = jar /\ heard' = heard
      BY <1>3, <2>2 DEF Send
    <3> QED  BY <1>1, <1>2, <2>1, <3>1 DEF ToldInv
  <2>3. CASE ~agent
    <3>1. jar' \in Seq(Cookie)
      <4>1. Loaded(file, now) \in Seq(Cookie)
        BY LoadedTyped DEF WebTyped
      <4>2. jar' \in {jar, Loaded(file, now)}
        BY <1>3 DEF Send, LoadFile
      <4> QED  BY <1>1, <4>1, <4>2
    <3>2. PICK j : j = jar'
      OBVIOUS
    <3>3. heard' = [i \in DOMAIN j |-> FromFile(j[i])]
      BY <1>3, <2>3, <3>2 DEF Send
    <3>4. heard' \in Seq(Hearsay) /\ Tells(heard', j, now)
      BY <3>1, <3>2, <3>3, FileTold
    <3>5. Tells(heard', jar', now')
      BY <2>1, <3>2, <3>4
    <3> QED  BY <2>1, <3>4, <3>5 DEF ToldInv
  <2> QED  BY <2>2, <2>3
<1>4. CASE Exchange
  <2>1. place' = "answer" /\ sent'.time = now /\ UNCHANGED <<now, jar, heard>>
    BY <1>4 DEF Exchange
  <2>2. sent'.time \in Nat /\ sent'.time <= now'
    BY <1>1, <2>1
  <2>3. Tells(heard', jar', sent'.time) /\ heard' \in Seq(Hearsay)
    BY <1>1, <1>2, <2>1
  <2> QED  BY <2>1, <2>2, <2>3, Zenon DEF ToldInv
<1>5. CASE Accept
  <2>1. PICK j : j = AddedAll(jar, res.set, req.url.host, now)
    OBVIOUS
  <2>2. /\ jar' = RetainLive(j, now) /\ heard' = Told(heard, res.set) /\ place' = "save" /\ now' = now
    BY <1>5, <2>1 DEF Accept
  <2>3. res.set \in Seq(SetCookie) /\ req.url.host \in Host /\ url.host \in Host
    BY AnswersTyped, CallsTyped DEF WebTyped, AnyUrl
  <2>4. j \in Seq(Cookie)
    BY <1>1, <2>1, <2>3, AddedTyped
  <2>5. heard' \in Seq(Hearsay) /\ Tells(heard', j, now)
    BY <1>1, <1>2, <2>1, <2>2, <2>3, AllTold
  <2>6. Tells(heard', jar', now')
    BY <2>2, <2>4, <2>5, TellsTheLive
  <2> QED  BY <2>2, <2>5, <2>6 DEF ToldInv
<1>6. CASE Restart
  <2>1. PICK e : e = <<>>
    OBVIOUS
  <2>2. heard' = e /\ jar' = e /\ place' = "idle"
    BY <1>6, <2>1 DEF Restart, Return
  <2>3. Tells(e, e, now') /\ e \in Seq(Hearsay)
    BY <2>1, NothingTold
  <2> QED  BY <2>2, <2>3 DEF ToldInv
<1>7. CASE Tick
  <2>1. now' = now + 1 /\ UNCHANGED <<place, sent, jar, heard>>
    BY <1>7 DEF Tick
  <2>2. CASE place = "answer"
    <3>1. sent.time \in Nat /\ sent.time <= now /\ Tells(heard, jar, sent.time)
      BY <2>2, Zenon DEF ToldInv
    <3>2. sent'.time \in Nat /\ sent'.time <= now'
      BY <1>1, <2>1, <3>1
    <3>3. Tells(heard', jar', sent'.time) /\ heard' \in Seq(Hearsay) /\ place' = "answer"
      BY <1>1, <2>1, <2>2, <3>1
    <3> QED  BY <3>2, <3>3, Zenon DEF ToldInv
  <2>3. CASE place # "answer"
    <3>1. Tells(heard, jar, now + 1)
      BY <1>1, <1>2, TellsLater
    <3> QED  BY <1>1, <2>1, <2>3, <3>1 DEF ToldInv
  <2> QED  BY <2>2, <2>3
<1>8. CASE \/ Unsupported \/ Unreachable \/ Follow \/ SkipSave \/ WriteTmp \/ Rename \/ SaveFails \/ Body
           \/ RawRequest \/ RawAnswered
  <2>1. place' # "answer" /\ UNCHANGED <<now, jar, heard>>
    BY <1>8 DEF Unsupported, Unreachable, Follow, SkipSave, WriteTmp, Rename, SaveFails, Body,
                RawRequest, RawAnswered, Return, AfterSave
  <2> QED  BY <1>1, <1>2, <2>1 DEF ToldInv
<1> QED  BY <1>3, <1>4, <1>5, <1>6, <1>7, <1>8 DEF WebNext

LEMMA StillInv ==
  ASSUME WebInv, UNCHANGED webVars
  PROVE  WebInv'
<1>1. /\ now' = now /\ file' = file /\ tmp' = tmp /\ agent' = agent /\ jar' = jar /\ unsaved' = unsaved
      /\ place' = place /\ req' = req /\ url' = url /\ sent' = sent /\ res' = res /\ heard' = heard
  BY DEF webVars
<1>2. WebTyped'
  BY <1>1 DEF WebInv, WebTyped
<1>3. HopInv'
  BY <1>1, Zenon DEF WebInv, HopInv
<1>4. FileInv'
  BY <1>1, Zenon DEF WebInv, FileInv
<1>5. ToldInv'
  BY <1>1, Zenon DEF WebInv, ToldInv
<1> QED  BY <1>2, <1>3, <1>4, <1>5 DEF WebInv

LEMMA WebIsInv == Spec => []WebInv
<1>1. Init => WebInv
  BY WebInitInv DEF Init
<1>2. WebInv /\ [Next]_laneVars => WebInv'
  <2> SUFFICES ASSUME WebInv, [Next]_laneVars PROVE WebInv'
    OBVIOUS
  <2>1. CASE WebNext
    BY <2>1, TypedKept, HopKept, FileKept, ToldKept DEF WebInv
  <2>2. CASE UNCHANGED webVars
    BY <2>2, StillInv
  <2> QED  BY <2>1, <2>2 DEF Next, laneVars
<1> QED  BY <1>1, <1>2, PTL DEF Spec

-----------------------------------------------------------------------------
(***************************************************************************)
(* On every hop what goes along is the last word on its cookie, not late,  *)
(* within its domain, path and scheme; every such cookie that is owed to   *)
(* the hop's host does; and the range is asked for on every hop (dispatch, *)
(* get_cookie_header_for_url, add_from_set_cookie).                        *)
(***************************************************************************)
THEOREM CookiesKeepTheirScope == Spec => []ScopeKept
<1>1. WebInv => ScopeKept
  <2> SUFFICES ASSUME WebInv, place = "answer", ~req.cookie
               PROVE  /\ \A c \in ToSet(sent.cookies) :
                           /\ Valid(c, sent.url, sent.time) /\ Under(sent.url.host, c.host)
                           /\ \E i \in DOMAIN heard : heard[i].cookie = c /\ ~heard[i].gone /\ LastWord(i)
                      /\ \A i \in DOMAIN heard :
                           /\ ~heard[i].gone /\ LastWord(i)
                           /\ Owed(heard[i], sent.url) /\ Valid(heard[i].cookie, sent.url, sent.time)
                           => heard[i].cookie \in ToSet(sent.cookies)
                      /\ sent.range = req.range
    BY Zenon DEF ScopeKept
  <2>1. sent.cookies = CookieHeader(jar, sent.url, sent.time) /\ sent.range = req.range
    BY DEF WebInv, HopInv
  <2>2. jar \in Seq(Cookie) /\ sent.url \in AnyUrl /\ heard \in Seq(Hearsay) /\ Tells(heard, jar, sent.time)
    BY Zenon DEF WebInv, WebTyped, ToldInv
  <2>3. ASSUME NEW c \in ToSet(jar)
        PROVE  c \in ToSet(sent.cookies) <=> Valid(c, sent.url, sent.time) /\ Under(sent.url.host, c.host)
    <3>1. PICK i \in DOMAIN jar : jar[i] = c
      BY DEF ToSet
    <3>2. c \in ToSet(sent.cookies) <=>
            /\ Under(sent.url.host, c.host) /\ Below(sent.url.path, c.path)
            /\ c.secure => sent.url.scheme = "https"
            /\ c.expires = 0 \/ c.expires > sent.time
      BY <2>1, <2>2, <3>1, HeaderScope
    <3> QED  BY <3>2, Zenon DEF Valid
  <2>4. \A i : LastWord(i) <=> Standing(heard, i)
    BY Zenon DEF LastWord, Standing
  <2>5. ASSUME NEW c \in ToSet(sent.cookies)
        PROVE  /\ Valid(c, sent.url, sent.time) /\ Under(sent.url.host, c.host)
               /\ \E i \in DOMAIN heard : heard[i].cookie = c /\ ~heard[i].gone /\ LastWord(i)
    <3>1. c \in ToSet(jar)
      BY <2>1, <2>2, HeaderScope
    <3> QED  BY <2>2, <2>3, <2>4, <3>1, Zenon DEF Tells
  <2>6. ASSUME NEW i \in DOMAIN heard, ~heard[i].gone, LastWord(i), Owed(heard[i], sent.url),
               Valid(heard[i].cookie, sent.url, sent.time)
        PROVE  heard[i].cookie \in ToSet(sent.cookies)
    <3>1. PICK c : c = heard[i].cookie
      OBVIOUS
    <3>2. c \in Cookie
      <4>1. DOMAIN heard = 1..Len(heard) /\ \A k \in 1..Len(heard) : heard[k] \in Hearsay
        BY <2>2, LenProperties
      <4>2. heard[i] \in Hearsay
        BY <4>1
      <4> QED  BY <3>1, <4>2 DEF Hearsay
    <3>3. Live(c, sent.time)
      BY <2>6, <3>1, Zenon DEF Valid, Live
    <3>4. c \in ToSet(jar)
      BY <2>2, <2>4, <2>6, <3>1, <3>3, Zenon DEF Tells
    <3>5. Under(sent.url.host, c.host)
      <4>1. CASE c.dot
        BY <2>6, <3>1, <4>1, Zenon DEF Owed
      <4>2. CASE ~c.dot
        <5>1. sent.url.host = c.host
          BY <2>6, <3>1, <4>2, Zenon DEF Owed
        <5>2. PICK h : h = c.host
          OBVIOUS
        <5>3. h \in Seq(STRING) /\ Len(h) \in Nat /\ \A k \in 1..Len(h) : h[k] \in STRING
          BY <3>2, <5>2, LenProperties DEF Cookie, Host
        <5>4. SubSeq(h, 0 + 1, Len(h)) = h
          BY <5>3, SubSeqFull
        <5>5. 0 \in 0..Len(h)
          BY <5>3
        <5>6. Under(h, h)
          BY <5>4, <5>5, Zenon DEF Under
        <5> QED  BY <5>1, <5>2, <5>6
      <4> QED  BY <4>1, <4>2
    <3> QED  BY <2>3, <2>6, <3>1, <3>4, <3>5, Zenon
  <2> QED  BY <2>1, <2>5, <2>6, Zenon
<1> QED  BY <1>1, WebIsInv, PTL

\* What has expired does not count for the header, whether it is still in the jar or not.
LEMMA HeaderOfLive ==
  ASSUME NEW j \in Seq(Cookie), NEW u, NEW t
  PROVE  CookieHeader(RetainLive(j, t), u, t) = CookieHeader(j, u, t)
<1>1. PICK L : L = {c \in ToSet(j) : Live(c, t)}
  OBVIOUS
<1>2. PICK k : k = RetainLive(j, t)
  OBVIOUS
<1>3. k = Keep(j, L) /\ ToSet(k) = ToSet(j) \intersect L
  BY <1>1, <1>2, KeepElements DEF RetainLive
<1>4. PICK V : V = {c \in ToSet(k) : Live(c, t) /\ Matches(c, u)}
  OBVIOUS
<1>5. PICK W : W = {c \in ToSet(j) : Live(c, t) /\ Matches(c, u)}
  OBVIOUS
<1>6. L \intersect V = W
  BY <1>1, <1>3, <1>4, <1>5
<1>7. Keep(k, V) = Keep(j, W)
  BY <1>3, <1>6, KeepKeep
<1> QED  BY <1>2, <1>4, <1>5, <1>7, Zenon DEF CookieHeader

(***************************************************************************)
(* A session survives its process: but for a failed save, the next process *)
(* sends the same cookies in the same order to every URL; and no kill cuts *)
(* the file short (save_netscape_file, load_netscape_file).                *)
(***************************************************************************)
THEOREM SessionsOutliveProcesses == Spec => []SessionSurvives
<1>1. WebInv => SessionSurvives
  <2> SUFFICES ASSUME WebInv PROVE SessionSurvives
    OBVIOUS
  <2>1. file # Torn
    BY DEF WebInv, FileInv
  <2>2. ASSUME place = "idle", agent, jar # <<>>, ~unsaved, NEW u \in Urls
        PROVE  CookieHeader(Loaded(file, now), u, now) = CookieHeader(jar, u, now)
    <3>1. HoldsJar(file, jar, now)
      BY <2>2 DEF WebInv, FileInv
    <3>2. Loaded(file, now) = RetainLive(jar, now) /\ jar \in Seq(Cookie)
      BY <3>1 DEF HoldsJar, WebInv, WebTyped
    <3> QED  BY <3>2, HeaderOfLive
  <2> QED  BY <2>1, <2>2 DEF SessionSurvives
<1> QED  BY <1>1, WebIsInv, PTL

-----------------------------------------------------------------------------
(* Sequences of whatever they hold.                                          *)

Sequence(s) == s \in Seq({s[i] : i \in DOMAIN s})

LEMMA SequenceOf ==
  ASSUME NEW T, NEW s \in Seq(T)
  PROVE  Sequence(s) /\ Len(s) \in Nat /\ DOMAIN s = 1..Len(s)
<1>1. Len(s) \in Nat /\ DOMAIN s = 1..Len(s)
  BY LenProperties
<1> QED  BY <1>1, IsASeq DEF Sequence

LEMMA SequenceFacts ==
  ASSUME NEW s, Sequence(s)
  PROVE  Len(s) \in Nat /\ DOMAIN s = 1..Len(s) /\ ToSet(s) = {s[i] : i \in DOMAIN s} /\ s \in Seq(ToSet(s))
<1>1. PICK T : T = {s[i] : i \in DOMAIN s}
  OBVIOUS
<1>2. s \in Seq(T)
  BY <1>1 DEF Sequence
<1> QED  BY <1>1, <1>2, LenProperties DEF ToSet

LEMMA SequenceWider ==
  ASSUME NEW s, Sequence(s), NEW T, \A i \in DOMAIN s : s[i] \in T
  PROVE  s \in Seq(T)
<1>1. Len(s) \in Nat /\ DOMAIN s = 1..Len(s) /\ s \in Seq(ToSet(s))
  BY SequenceFacts
<1> QED  BY <1>1, IsASeq

LEMMA SequenceAppend ==
  ASSUME NEW s, Sequence(s), NEW x, NEW t, t = Append(s, x)
  PROVE  /\ Sequence(t) /\ Len(t) = Len(s) + 1 /\ DOMAIN t = 1..Len(s) + 1 /\ t[Len(s) + 1] = x
         /\ \A i \in 1..Len(s) : t[i] = s[i]
         /\ Last(t) = x /\ t # <<>>
<1>1. PICK T : T = ToSet(s) \union {x}
  OBVIOUS
<1>2. Len(s) \in Nat /\ DOMAIN s = 1..Len(s) /\ ToSet(s) = {s[i] : i \in DOMAIN s}
  BY SequenceFacts
<1>3. s \in Seq(T)
  BY <1>1, <1>2, SequenceWider
<1>4. /\ t \in Seq(T) /\ Len(t) = Len(s) + 1 /\ DOMAIN t = 1..Len(s) + 1 /\ t[Len(s) + 1] = x
      /\ \A i \in 1..Len(s) : t[i] = s[i]
  BY <1>1, <1>2, <1>3, AppendProperties, LenProperties
<1>5. t # <<>>
  BY <1>2, <1>4, EmptySeq
<1> QED  BY <1>4, <1>5, SequenceOf DEF Last

-----------------------------------------------------------------------------
(* How long the extra fields are.                                            *)

SizedOn(f, x, m) == f = [n \in 0..m |-> IF n = 0 THEN 0 ELSE f[n - 1] + FieldSize(x[n])]

LEMMA SizedExists ==
  ASSUME NEW x, NEW k \in Nat
  PROVE  \E f : SizedOn(f, x, k)
<1>1. PICK N : N = {m \in Nat : \E f : SizedOn(f, x, m)}
  OBVIOUS
<1>2. 0 \in N
  <2>1. PICK f : f = [n \in 0..0 |-> 0]
    OBVIOUS
  <2>2. SizedOn(f, x, 0)
    BY <2>1 DEF SizedOn
  <2> QED  BY <1>1, <2>2
<1>3. ASSUME NEW m \in Nat, m \in N PROVE m + 1 \in N
  <2>1. PICK f : SizedOn(f, x, m)
    BY <1>1, <1>3
  <2>2. PICK g : g = [n \in 0..m + 1 |-> IF n = 0 THEN 0 ELSE f[n - 1] + FieldSize(x[n])]
    OBVIOUS
  <2>3. \A n \in 0..m : g[n] = f[n]
    BY <2>1, <2>2 DEF SizedOn
  <2>4. \A n \in 0..m + 1 : n # 0 => g[n - 1] = f[n - 1]
    BY <2>3
  <2>5. SizedOn(g, x, m + 1)
    BY <2>2, <2>4 DEF SizedOn
  <2> QED  BY <1>1, <2>5
<1>4. k \in N
  BY <1>2, <1>3, Induction
<1> QED  BY <1>1, <1>4

LEMMA SizeIs ==
  ASSUME NEW x, Len(x) \in Nat
  PROVE  \E f : SizedOn(f, x, Len(x)) /\ ExtraSize(x) = f[Len(x)]
<1>1. \E f : SizedOn(f, x, Len(x))
  BY SizedExists
<1> QED  BY <1>1 DEF ExtraSize, SizedOn

LEMMA SizedStep ==
  ASSUME NEW x, NEW k \in Nat, NEW f, SizedOn(f, x, k), NEW m \in Nat, m + 1 <= k
  PROVE  f[m + 1] = f[m] + FieldSize(x[m + 1])
<1>1. PICK n : n = m + 1
  OBVIOUS
<1>2. n \in 0..k /\ n # 0 /\ n - 1 = m
  BY <1>1
<1>3. f[n] = f[n - 1] + FieldSize(x[n])
  BY <1>2 DEF SizedOn
<1> QED  BY <1>1, <1>2, <1>3

\* Fields have a length, and so has the whole; one more field makes it longer by its own.
LEMMA SizeTyped ==
  ASSUME NEW x, IsExtra(x)
  PROVE  ExtraSize(x) \in Nat
<1>1. Len(x) \in Nat /\ \A i \in 1..Len(x) : FieldSize(x[i]) \in Nat
  BY SequenceFacts DEF IsExtra, Sequence, FieldSize
<1>2. PICK f : SizedOn(f, x, Len(x)) /\ ExtraSize(x) = f[Len(x)]
  BY <1>1, SizeIs
<1>3. PICK N : N = {m \in Nat : m <= Len(x) => f[m] \in Nat}
  OBVIOUS
<1>4. 0 \in N
  BY <1>2, <1>3 DEF SizedOn
<1>5. ASSUME NEW m \in Nat, m \in N PROVE m + 1 \in N
  <2> SUFFICES ASSUME m + 1 <= Len(x) PROVE f[m + 1] \in Nat
    BY <1>3
  <2>1. f[m + 1] = f[m] + FieldSize(x[m + 1])
    BY <1>1, <1>2, SizedStep
  <2> QED  BY <1>1, <1>3, <1>5, <2>1
<1>6. Len(x) \in N
  BY <1>1, <1>4, <1>5, Induction
<1> QED  BY <1>2, <1>3, <1>6

LEMMA SizeAppend ==
  ASSUME NEW x, IsExtra(x), NEW y, NEW z, z = Append(x, y)
  PROVE  ExtraSize(z) = ExtraSize(x) + FieldSize(y)
<1>1. /\ Len(x) \in Nat /\ Len(z) = Len(x) + 1 /\ z[Len(x) + 1] = y /\ \A i \in 1..Len(x) : z[i] = x[i]
  BY SequenceFacts, SequenceAppend DEF IsExtra, Sequence
<1>2. PICK f : SizedOn(f, x, Len(x)) /\ ExtraSize(x) = f[Len(x)]
  BY <1>1, SizeIs
<1>3. PICK g : SizedOn(g, z, Len(z)) /\ ExtraSize(z) = g[Len(z)]
  <2>1. Len(z) \in Nat
    BY <1>1
  <2> QED  BY <2>1, SizeIs
<1>4. PICK N : N = {m \in Nat : m <= Len(x) => f[m] = g[m]}
  OBVIOUS
<1>5. 0 \in N
  <2>1. f[0] = 0 /\ g[0] = 0
    BY <1>1, <1>2, <1>3 DEF SizedOn
  <2> QED  BY <1>4, <2>1
<1>6. ASSUME NEW m \in Nat, m \in N PROVE m + 1 \in N
  <2> SUFFICES ASSUME m + 1 <= Len(x) PROVE f[m + 1] = g[m + 1]
    BY <1>4
  <2>1. f[m + 1] = f[m] + FieldSize(x[m + 1])
    BY <1>1, <1>2, SizedStep
  <2>2. m + 1 <= Len(z) /\ Len(z) \in Nat
    BY <1>1
  <2>3. g[m + 1] = g[m] + FieldSize(z[m + 1])
    BY <1>3, <2>2, SizedStep
  <2> QED  BY <1>1, <1>4, <1>6, <2>1, <2>3
<1>7. f[Len(x)] = g[Len(x)]
  <2>1. Nat \subseteq N
    BY ONLY <1>5, <1>6, Induction
  <2>2. Len(x) \in N
    BY <1>1, <2>1
  <2> QED  BY ONLY <1>1, <1>4, <2>2
<1>8. g[Len(x) + 1] = g[Len(x)] + FieldSize(z[Len(x) + 1])
  <2>1. Len(x) + 1 <= Len(z) /\ Len(z) \in Nat
    BY <1>1
  <2> QED  BY <1>1, <1>3, <2>1, SizedStep
<1> QED  BY <1>1, <1>2, <1>3, <1>7, <1>8

-----------------------------------------------------------------------------
(* What is kept of extra fields, and what a ZIP64 field says.                *)

Zips(x) == Keep(x, {f \in ToSet(x) : f.id = "zip64"})

LEMMA WithoutIs ==
  ASSUME NEW T, NEW s \in Seq(T), NEW ids, NEW V, \A f \in T : f \in V <=> f.id \notin ids
  PROVE  Without(s, ids) = Keep(s, V)
<1>1. PICK W : W = {f \in ToSet(s) : f.id \notin ids}
  OBVIOUS
<1>2. ToSet(s) \subseteq T
  BY LenProperties DEF ToSet
<1>3. ToSet(s) \intersect V = ToSet(s) \intersect W
  BY <1>1, <1>2
<1> QED  BY <1>1, <1>3, KeepSame DEF Without

LEMMA ZipsIs ==
  ASSUME NEW T, NEW s \in Seq(T), NEW V, \A f \in T : f \in V <=> f.id = "zip64"
  PROVE  Zips(s) = Keep(s, V)
<1>1. PICK W : W = {f \in ToSet(s) : f.id = "zip64"}
  OBVIOUS
<1>2. ToSet(s) \subseteq T
  BY LenProperties DEF ToSet
<1>3. ToSet(s) \intersect V = ToSet(s) \intersect W
  BY <1>1, <1>2
<1> QED  BY <1>1, <1>3, KeepSame DEF Zips

LEMMA ExtraFacts ==
  ASSUME NEW x, IsExtra(x)
  PROVE  Sequence(x) /\ x \in Seq(ToSet(x)) /\ \A f \in ToSet(x) : f.n \in Nat
<1>1. Sequence(x) /\ \A i \in DOMAIN x : x[i].n \in Nat
  BY DEF IsExtra, Sequence
<1> QED  BY <1>1, SequenceFacts

LEMMA ExtraIs ==
  ASSUME NEW T, \A f \in T : f.n \in Nat, NEW x \in Seq(T)
  PROVE  IsExtra(x)
<1>1. Sequence(x) /\ DOMAIN x = 1..Len(x)
  BY SequenceOf
<1>2. \A i \in DOMAIN x : x[i] \in T
  BY <1>1, LenProperties
<1> QED  BY <1>1, <1>2 DEF IsExtra, Sequence

\* Without its ZIP64 fields, it has no values, and the other fields.
LEMMA Stripped ==
  ASSUME NEW x, IsExtra(x), NEW y, y = StripZip64(x)
  PROVE  /\ IsExtra(y) /\ Zips(y) = <<>> /\ StripZip64(y) = y
         /\ Without(y, {"zip64", "pad"}) = Without(x, {"zip64", "pad"})
<1>1. PICK T : T = ToSet(x)
  OBVIOUS
<1>2. x \in Seq(T) /\ \A f \in T : f.n \in Nat
  BY <1>1, ExtraFacts
<1>3. PICK V : V = {f \in T : f.id \notin {"zip64"}}
  OBVIOUS
<1>4. y = Keep(x, V)
  BY <1>2, <1>3, WithoutIs DEF StripZip64
<1>5. y \in Seq(T)
  BY <1>2, <1>4, KeepElements
<1>6. IsExtra(y)
  BY <1>2, <1>5, ExtraIs
<1>7. PICK Z : Z = {f \in T : f.id = "zip64"}
  OBVIOUS
<1>8. Zips(y) = Keep(x, V \intersect Z)
  <2>1. Zips(y) = Keep(y, Z)
    BY <1>5, <1>7, ZipsIs
  <2> QED  BY <1>2, <1>4, <2>1, KeepKeep
<1>9. Zips(y) = <<>>
  <2>1. PICK k : k = Keep(x, V \intersect Z)
    OBVIOUS
  <2>2. V \intersect Z = {}
    BY <1>3, <1>7
  <2>3. k \in Seq(T) /\ ToSet(k) = {}
    BY <1>2, <2>1, <2>2, KeepElements
  <2>4. Len(k) \in Nat /\ DOMAIN k = 1..Len(k)
    BY <2>3, LenProperties
  <2>5. Len(k) = 0
    <3>1. \A i \in DOMAIN k : k[i] \in ToSet(k)
      BY DEF ToSet
    <3>2. Len(k) # 0 => 1 \in DOMAIN k
      BY <2>4
    <3> QED  BY <2>3, <3>1, <3>2
  <2> QED  BY <1>8, <2>1, <2>3, <2>5, EmptySeq
<1>10. StripZip64(y) = y
  <2>1. StripZip64(y) = Keep(y, V)
    BY <1>3, <1>5, WithoutIs DEF StripZip64
  <2>2. Keep(Keep(x, V), V) = Keep(x, V \intersect V)
    BY <1>2, KeepKeep
  <2>3. V \intersect V = V
    OBVIOUS
  <2> QED  BY <1>4, <2>1, <2>2, <2>3
<1>11. Without(y, {"zip64", "pad"}) = Without(x, {"zip64", "pad"})
  <2>1. PICK W : W = {f \in T : f.id \notin {"zip64", "pad"}}
    OBVIOUS
  <2>2. Without(y, {"zip64", "pad"}) = Keep(y, W) /\ Without(x, {"zip64", "pad"}) = Keep(x, W)
    BY <1>2, <1>5, <2>1, WithoutIs
  <2>3. V \intersect W = W
    BY <1>3, <2>1
  <2> QED  BY <1>2, <1>4, <2>2, <2>3, KeepKeep
<1> QED  BY <1>6, <1>9, <1>10, <1>11

LEMMA FieldAdded ==
  ASSUME NEW x, IsExtra(x), NEW f, f.n \in Nat, NEW y, y = Append(x, f)
  PROVE  /\ IsExtra(y)
         /\ \A ids : Without(y, ids) = IF f.id \in ids THEN Without(x, ids) ELSE Append(Without(x, ids), f)
         /\ Zips(y) = IF f.id = "zip64" THEN Append(Zips(x), f) ELSE Zips(x)
<1>1. PICK T : T = ToSet(x) \union {f}
  OBVIOUS
<1>2. x \in Seq(T) /\ \A g \in T : g.n \in Nat
  <2>1. Sequence(x) /\ \A i \in DOMAIN x : x[i] \in T
    BY <1>1, ExtraFacts, SequenceFacts
  <2> QED  BY <1>1, <2>1, ExtraFacts, SequenceWider
<1>3. f \in T /\ y \in Seq(T)
  BY <1>1, <1>2, AppendProperties
<1>4. IsExtra(y)
  BY <1>2, <1>3, ExtraIs
<1>5. ASSUME NEW ids
      PROVE  Without(y, ids) = IF f.id \in ids THEN Without(x, ids) ELSE Append(Without(x, ids), f)
  <2>1. PICK V : V = {g \in T : g.id \notin ids}
    OBVIOUS
  <2>2. \A g \in T : g \in V <=> g.id \notin ids
    BY <2>1
  <2>6. \A s \in Seq(T) : Without(s, ids) = Keep(s, V)
    BY <2>2, WithoutIs
  <2>4. Without(y, ids) = Keep(y, V)
    BY <1>3, <2>6, Zenon
  <2>5. Without(x, ids) = Keep(x, V)
    BY <1>2, <2>6, Zenon
  <2>3. Keep(y, V) = IF f \in V THEN Append(Keep(x, V), f) ELSE Keep(x, V)
    BY <1>2, <1>3, KeepAppend
  <2> QED  BY <1>3, <2>2, <2>3, <2>4, <2>5
<1>6. Zips(y) = IF f.id = "zip64" THEN Append(Zips(x), f) ELSE Zips(x)
  <2>1. PICK V : V = {g \in T : g.id = "zip64"}
    OBVIOUS
  <2>2. Zips(y) = Keep(y, V) /\ Zips(x) = Keep(x, V)
    BY <1>2, <1>3, <2>1, ZipsIs
  <2>3. Keep(y, V) = IF f \in V THEN Append(Keep(x, V), f) ELSE Keep(x, V)
    BY <1>2, <1>3, KeepAppend
  <2> QED  BY <1>3, <2>1, <2>2, <2>3
<1> QED  BY <1>4, <1>5, <1>6

LEMMA ConcatOne ==
  ASSUME NEW x, Sequence(x), NEW f
  PROVE  x \o <<f>> = Append(x, f) /\ x \o <<>> = x
<1>1. PICK T : T = ToSet(x) \union {f}
  OBVIOUS
<1>2. x \in Seq(T) /\ f \in T
  BY <1>1, SequenceFacts, SequenceWider
<1>3. <<f>> \in Seq(T) /\ Len(<<f>>) = 1 /\ <<f>>[1] = f /\ <<>> \in Seq(T) /\ Len(<<>>) = 0
  BY <1>2, EmptySeq
<1>4. /\ x \o <<f>> \in Seq(T) /\ Len(x \o <<f>>) = Len(x) + 1
      /\ \A i \in 1..Len(x) + 1 : (x \o <<f>>)[i] = IF i <= Len(x) THEN x[i] ELSE <<f>>[i - Len(x)]
  BY <1>2, <1>3, ConcatProperties
<1>5. /\ Append(x, f) \in Seq(T) /\ Len(Append(x, f)) = Len(x) + 1
      /\ \A i \in 1..Len(x) + 1 : Append(x, f)[i] = IF i <= Len(x) THEN x[i] ELSE f
  BY <1>2, AppendProperties
<1>6. x \o <<f>> = Append(x, f)
  <2>1. Len(x) \in Nat
    BY <1>2, LenProperties
  <2>2. \A i \in 1..Len(x) + 1 : (x \o <<f>>)[i] = Append(x, f)[i]
    BY <1>3, <1>4, <1>5, <2>1
  <2> QED  BY <1>4, <1>5, <2>2, SeqEqual
<1> QED  BY <1>2, <1>6, ConcatEmptySeq

\* A header's fields: those it had but for the sizes, which are written anew.
LEMMA ValuesWritten ==
  ASSUME NEW x, IsExtra(x), NEW vals \in Seq(Nat), NEW y, y = StripZip64(x) \o Zip64(vals)
  PROVE  /\ IsExtra(y) /\ Values(y) = vals /\ StripZip64(y) = StripZip64(x)
         /\ Without(y, {"zip64", "pad"}) = Without(x, {"zip64", "pad"})
<1>1. PICK z : z = StripZip64(x)
  OBVIOUS
<1>2. /\ IsExtra(z) /\ Zips(z) = <<>> /\ StripZip64(z) = z
      /\ Without(z, {"zip64", "pad"}) = Without(x, {"zip64", "pad"})
  BY <1>1, Stripped
<1>3. Sequence(z)
  BY <1>2, ExtraFacts
<1>4. CASE vals = <<>>
  <2>1. Zip64(vals) = <<>>
    BY <1>4 DEF Zip64
  <2>2. y = z
    BY <1>1, <1>3, <2>1, ConcatOne
  <2>3. Values(y) = <<>>
    BY <1>2, <2>2 DEF Values, Zips
  <2> QED  BY <1>1, <1>2, <1>4, <2>2, <2>3
<1>5. CASE vals # <<>>
  <2>1. PICK f : f = [id |-> "zip64", n |-> 8 * Len(vals), vals |-> vals]
    OBVIOUS
  <2>2. Zip64(vals) = <<f>>
    BY <1>5, <2>1 DEF Zip64
  <2>3. f.n \in Nat /\ f.id = "zip64" /\ f.vals = vals
    BY <2>1, LenProperties
  <2>4. y = Append(z, f)
    BY <1>1, <1>3, <2>2, ConcatOne
  <2>5. IsExtra(y) /\ Zips(y) = <<f>>
    <3>1. IsExtra(y) /\ Zips(y) = Append(Zips(z), f)
      BY <1>2, <2>3, <2>4, FieldAdded, ZenonT(60)
    <3>2. Append(<<>>, f) = <<f>>
      OBVIOUS
    <3> QED  BY <1>2, <3>1, <3>2
  <2>6. Values(y) = vals
    <3>1. PICK k : k = Zips(y)
      OBVIOUS
    <3>2. k[1] = f /\ k # <<>>
      BY <2>5, <3>1
    <3> QED  BY <2>3, <3>1, <3>2 DEF Values, Zips
  <2>7. \A ids : f.id \in ids => Without(y, ids) = Without(z, ids)
    BY <1>2, <2>3, <2>4, FieldAdded, ZenonT(60)
  <2>8. Without(y, {"zip64"}) = Without(z, {"zip64"}) /\ Without(y, {"zip64", "pad"}) = Without(z, {"zip64", "pad"})
    BY <2>3, <2>7
  <2> QED  BY <1>1, <1>2, <2>5, <2>6, <2>8 DEF StripZip64
<1> QED  BY <1>4, <1>5

-----------------------------------------------------------------------------
(* The page that a binary starts on.                                         *)

LEMMA Wraps ==
  ASSUME NEW t \in Nat, NEW n \in Nat, n > 0, NEW r, r = t % n
  PROVE  /\ r \in 0..n - 1
         /\ r # 0 => (t + (n - r)) % n = 0 /\ (t + (n - r) + n) % n = 0
<1>1. PICK q : q = t \div n
  OBVIOUS
<1>2. q \in Nat /\ t = n * q + r /\ r \in 0..n - 1
  BY <1>1
<1>3. t + (n - r) = n * (q + 1) /\ t + (n - r) + n = n * (q + 2)
  BY <1>2
<1>4. ASSUME NEW k \in Nat PROVE (n * k) % n = 0
  OBVIOUS
<1> QED  BY <1>2, <1>3, <1>4

LEMMA PageAligned ==
  ASSUME NEW x, IsExtra(x), NEW offset \in Nat, NEW n \in Nat, NEW y, y = AlignPayload(x, offset, n)
  PROVE  /\ IsExtra(y) /\ Values(y) = Values(x)
         /\ Without(y, {"zip64", "pad"}) = Without(x, {"zip64", "pad"})
         /\ (offset + 30 + n + ExtraSize(y)) % Align = 0
<1>1. ExtraSize(x) \in Nat /\ Align \in Nat /\ Align >= 4
  BY SizeTyped, ArchiveAssumption
<1>2. PICK t : t = offset + 30 + n + ExtraSize(x)
  OBVIOUS
<1>3. PICK r : r = t % Align
  OBVIOUS
<1>4. t \in Nat /\ r \in 0..Align - 1 /\ (r # 0 => (t + (Align - r)) % Align = 0 /\ (t + (Align - r) + Align) % Align = 0)
  <2>1. t \in Nat /\ Align \in Nat /\ Align > 0
    BY <1>1, <1>2
  <2> QED  BY <1>3, <2>1, Wraps
<1>5. CASE r = 0
  BY <1>2, <1>3, <1>5 DEF AlignPayload
<1>6. CASE r # 0
  <2>1. PICK pad : pad = IF Align - r < 4 THEN Align - r + Align ELSE Align - r
    OBVIOUS
  <2>2. pad \in Nat /\ pad >= 4 /\ (t + pad) % Align = 0
    <3>1. t + (Align - r + Align) = t + (Align - r) + Align
      BY <1>1, <1>4
    <3> QED  BY <1>1, <1>4, <1>6, <2>1, <3>1
  <2>3. PICK f : f = [id |-> "pad", n |-> pad - 4, vals |-> <<>>]
    OBVIOUS
  <2>4. f.id = "pad" /\ f.n = pad - 4 /\ f.n \in Nat
    BY <2>2, <2>3
  <2>5. y = Append(x, f)
    BY <1>2, <1>3, <1>6, <2>1, <2>3 DEF AlignPayload
  <2>6. IsExtra(y) /\ Zips(y) = Zips(x) /\ Without(y, {"zip64", "pad"}) = Without(x, {"zip64", "pad"})
    <3>1. \A ids : f.id \in ids => Without(y, ids) = Without(x, ids)
      BY <2>4, <2>5, FieldAdded
    <3>2. IsExtra(y) /\ Zips(y) = IF f.id = "zip64" THEN Append(Zips(x), f) ELSE Zips(x)
      BY <2>4, <2>5, FieldAdded
    <3> QED  BY <2>4, <3>1, <3>2
  <2>7. ExtraSize(y) = ExtraSize(x) + pad
    <3>1. ExtraSize(y) = ExtraSize(x) + FieldSize(f)
      BY <2>5, SizeAppend
    <3> QED  BY <1>1, <2>2, <2>4, <3>1 DEF FieldSize
  <2>8. offset + 30 + n + ExtraSize(y) = t + pad
    BY <1>1, <1>2, <2>2, <2>7
  <2>9. Values(y) = Values(x)
    BY <2>6 DEF Values, Zips
  <2> QED  BY <2>2, <2>6, <2>8, <2>9
<1> QED  BY <1>5, <1>6

-----------------------------------------------------------------------------
(* The calendar.                                                             *)

\* The year of the era that a day falls in, and its day, counted from the first of March.
YearOf(doe) == (doe - doe \div 1460 + doe \div 36524 - doe \div 146096) \div 365
YearDay(doe) == doe - (365 * YearOf(doe) + YearOf(doe) \div 4 - YearOf(doe) \div 100)

LEMMA YearBounds ==
  ASSUME NEW doe \in Nat, doe <= 146096
  PROVE  /\ YearOf(doe) \in Nat /\ YearOf(doe) <= 399
         /\ YearDay(doe) \in Nat /\ YearDay(doe) <= 365
<1>1. PICK a, b, c : a = doe \div 1460 /\ b = doe \div 36524 /\ c = doe \div 146096
  OBVIOUS
<1>2. /\ a \in Nat /\ 1460 * a <= doe /\ doe <= 1460 * a + 1459
      /\ b \in Nat /\ 36524 * b <= doe /\ doe <= 36524 * b + 36523
      /\ c \in Nat /\ 146096 * c <= doe /\ doe <= 146096 * c + 146095
  BY <1>1, SMTT(30)
<1>3. PICK q : q = doe - a + b - c
  OBVIOUS
<1>4. PICK y : y = q \div 365
  OBVIOUS
<1>5. q \in Nat /\ q <= 145999 /\ y \in Nat /\ y <= 399 /\ 365 * y <= q /\ q <= 365 * y + 364
  BY <1>2, <1>3, <1>4, SMTT(30)
<1>6. PICK f, g : f = y \div 4 /\ g = y \div 100
  OBVIOUS
<1>7. /\ f \in Nat /\ 4 * f <= y /\ y <= 4 * f + 3
      /\ g \in Nat /\ 100 * g <= y /\ y <= 100 * g + 99
  BY <1>5, <1>6, SMTT(30)
<1>8. doe - (365 * y + f - g) \in Nat /\ doe - (365 * y + f - g) <= 365
  BY <1>2, <1>3, <1>5, <1>7, SMTT(120)
<1>9. YearOf(doe) = y
  BY <1>1, <1>3, <1>4 DEF YearOf
<1> QED  BY <1>5, <1>6, <1>8, <1>9 DEF YearDay

LEMMA MonthBounds ==
  ASSUME NEW doy \in Nat, doy <= 365, NEW mp, mp = (5 * doy + 2) \div 153
  PROVE  /\ mp \in Nat /\ mp <= 11 /\ (153 * mp + 2) \div 5 <= doy /\ doy <= (153 * mp + 2) \div 5 + 30
         /\ (mp < 10 <=> doy < 306)
  BY SMTT(60)

\* Between 1980 and 2107 the format keeps the day, and the time but for an odd second.
LEMMA DateParts ==
  ASSUME NEW days \in Nat, 3652 <= days, days <= 50402
  PROVE  LET c == Civil(days) IN
         /\ c.y \in Nat /\ 1980 <= c.y /\ c.y <= 2107 /\ c.m \in Nat /\ 1 <= c.m /\ c.m <= 12
         /\ c.d \in Nat /\ 1 <= c.d /\ c.d <= 31
         /\ \A y, doy : /\ y = (IF c.m <= 2 THEN c.y - 1 ELSE c.y)
                       /\ doy = (153 * ((c.m + 9) % 12) + 2) \div 5 + c.d - 1
              => (y \div 400) * 146097 + (y - (y \div 400) * 400) * 365 + (y - (y \div 400) * 400) \div 4
                   - (y - (y \div 400) * 400) \div 100 + doy - 719468 = days
<1>1. PICK era, doe : era = (days + 719468) \div 146097 /\ doe = (days + 719468) % 146097
  OBVIOUS
<1>2. era \in {4, 5} /\ doe \in Nat /\ doe <= 146096 /\ days + 719468 = 146097 * era + doe
  BY <1>1, SMTT(30)
<1>3. PICK yoe, doy : yoe = YearOf(doe) /\ doy = YearDay(doe)
  OBVIOUS
<1>4. /\ yoe \in Nat /\ yoe <= 399 /\ doy \in Nat /\ doy <= 365
      /\ doe = 365 * yoe + yoe \div 4 - yoe \div 100 + doy
  <2>1. yoe \in Nat /\ yoe <= 399 /\ doy \in Nat /\ doy <= 365
    BY <1>2, <1>3, YearBounds
  <2> QED  BY <1>2, <1>3, <2>1 DEF YearDay
<1>5. PICK mp : mp = (5 * doy + 2) \div 153
  OBVIOUS
<1>6. /\ mp \in Nat /\ mp <= 11 /\ (153 * mp + 2) \div 5 <= doy /\ doy <= (153 * mp + 2) \div 5 + 30
      /\ (mp < 10 <=> doy < 306)
  BY <1>4, <1>5, MonthBounds
<1>7. PICK m, d, y : /\ m = (IF mp < 10 THEN mp + 3 ELSE mp - 9) /\ d = doy - (153 * mp + 2) \div 5 + 1
                     /\ y = yoe + era * 400 + (IF m <= 2 THEN 1 ELSE 0)
  OBVIOUS
<1>8. m \in Nat /\ 1 <= m /\ m <= 12 /\ (m <= 2 <=> doy >= 306) /\ (m + 9) % 12 = mp
  BY <1>6, <1>7, <1>4, SMTT(30)
<1>9. d \in Nat /\ 1 <= d /\ d <= 31 /\ (153 * mp + 2) \div 5 + d - 1 = doy
  BY <1>4, <1>6, <1>7
<1>10. y \in Nat /\ 1980 <= y /\ y <= 2107
  BY <1>2, <1>4, <1>7, <1>8, SMTT(120)
<1>11. PICK z : z = IF m <= 2 THEN y - 1 ELSE y
  OBVIOUS
<1>12. z = yoe + era * 400 /\ z \div 400 = era /\ z - (z \div 400) * 400 = yoe
  BY <1>2, <1>4, <1>7, <1>8, <1>11, SMTT(30)
<1>13. PICK c : c = Civil(days)
  OBVIOUS
<1>14. c = [y |-> y, m |-> m, d |-> d]
  <2>1. yoe = (doe - doe \div 1460 + doe \div 36524 - doe \div 146096) \div 365
    BY <1>3, SMTT(30) DEF YearOf
  <2>2. doy = doe - (365 * yoe + yoe \div 4 - yoe \div 100)
    BY <1>3, SMTT(30) DEF YearDay
  <2> QED  BY ONLY <1>1, <1>5, <1>7, <1>13, <2>1, <2>2, SMTT(60) DEF Civil
<1>15. c.y = y /\ c.m = m /\ c.d = d
  BY <1>14
<1>16. (z \div 400) * 146097 + (z - (z \div 400) * 400) * 365 + (z - (z \div 400) * 400) \div 4
         - (z - (z \div 400) * 400) \div 100 + doy - 719468 = days
  <2>1. era * 146097 + yoe * 365 + yoe \div 4 - yoe \div 100 + doy - 719468 = days
    BY <1>2, <1>4
  <2> QED  BY <1>12, <2>1
<1>17. (153 * ((m + 9) % 12) + 2) \div 5 + d - 1 = doy
  <2>1. PICK p : p = (m + 9) % 12
    OBVIOUS
  <2>2. p = mp
    BY ONLY <1>8, <2>1
  <2>3. (153 * p + 2) \div 5 + d - 1 = doy
    BY ONLY <1>9, <2>2
  <2> QED  BY ONLY <2>1, <2>3
<1>18. ASSUME NEW n, NEW o, n = (IF c.m <= 2 THEN c.y - 1 ELSE c.y),
              o = (153 * ((c.m + 9) % 12) + 2) \div 5 + c.d - 1
       PROVE  n = z /\ o = doy
  BY <1>11, <1>15, <1>17, <1>18, SMTT(30)
<1>19. ASSUME NEW n, NEW o, n = (IF c.m <= 2 THEN c.y - 1 ELSE c.y),
              o = (153 * ((c.m + 9) % 12) + 2) \div 5 + c.d - 1
       PROVE  (n \div 400) * 146097 + (n - (n \div 400) * 400) * 365 + (n - (n \div 400) * 400) \div 4
                - (n - (n \div 400) * 400) \div 100 + o - 719468 = days
  BY <1>16, <1>18, <1>19, SMTT(30)
<1>20. /\ c.y \in Nat /\ 1980 <= c.y /\ c.y <= 2107 /\ c.m \in Nat /\ 1 <= c.m /\ c.m <= 12
       /\ c.d \in Nat /\ 1 <= c.d /\ c.d <= 31
  BY <1>8, <1>9, <1>10, <1>15, SMTT(30)
<1> QED  BY <1>13, <1>19, <1>20, SMTT(30)

LEMMA DatesReadBack ==
  ASSUME NEW t \in Nat, 3652 <= t \div 86400, t \div 86400 <= 50402
  PROVE  DosToUnix(DosDatetime(t)) \in {t, t - 1}
<1>1. PICK days, s : days = t \div 86400 /\ s = t % 86400
  OBVIOUS
<1>2. days \in Nat /\ s \in Nat /\ s < 86400 /\ t = days * 86400 + s
  BY <1>1, SMTT(30)
<1>3. PICK c : c = Civil(days)
  OBVIOUS
<1>4. /\ c.y \in Nat /\ 1980 <= c.y /\ c.y <= 2107 /\ c.m \in Nat /\ 1 <= c.m /\ c.m <= 12
      /\ c.d \in Nat /\ 1 <= c.d /\ c.d <= 31
  BY <1>1, <1>2, <1>3, DateParts
<1>5. PICK a, b : /\ a = ((IF c.y < 1980 THEN 0 ELSE c.y - 1980) % 128) * 512 + c.m * 32 + c.d
                  /\ b = (s \div 3600) * 2048 + ((s % 3600) \div 60) * 32 + ((s % 60) \div 2)
  OBVIOUS
<1>6. PICK u : u = DosDatetime(t)
  OBVIOUS
<1>7. u[1] = a /\ u[2] = b
  <2>1. u = <<a, b>>
    BY <1>1, <1>3, <1>5, <1>6, SMTT(30) DEF DosDatetime
  <2> QED  BY <2>1
<1>8. 1980 + a \div 512 = c.y /\ (a \div 32) % 16 = c.m /\ a % 32 = c.d
  <2>1. a = (c.y - 1980) * 512 + c.m * 32 + c.d
    BY <1>4, <1>5, SMTT(30)
  <2>2. a \div 512 = c.y - 1980 /\ a % 32 = c.d /\ a \div 32 = (c.y - 1980) * 16 + c.m
    BY <1>4, <2>1, SMTT(30)
  <2>3. ((c.y - 1980) * 16 + c.m) % 16 = c.m
    <3>1. PICK k, n : k = c.y - 1980 /\ n = c.m
      OBVIOUS
    <3>2. k \in Nat /\ n \in Nat /\ n < 16
      BY <1>4, <3>1, SMTT(30)
    <3>3. ASSUME NEW i \in Nat, NEW j \in Nat, j < 16 PROVE (i * 16 + j) % 16 = j
      BY <3>3, SMTT(30)
    <3> QED  BY <3>1, <3>2, <3>3, SMTT(30)
  <2> QED  BY <1>4, <2>2, <2>3, SMTT(30)
<1>9. (b \div 2048) * 3600 + ((b \div 32) % 64) * 60 + (b % 32) * 2 \in {s, s - 1}
  <2>1. PICK h, mi, se : h = s \div 3600 /\ mi = (s % 3600) \div 60 /\ se = s % 60
    OBVIOUS
  <2>2. h \in Nat /\ h <= 23 /\ mi \in Nat /\ mi <= 59 /\ se \in Nat /\ se <= 59 /\ s = h * 3600 + mi * 60 + se
    BY <1>2, <2>1, SMTT(60)
  <2>3. PICK half : half = se \div 2
    OBVIOUS
  <2>4. half \in Nat /\ half <= 29 /\ 2 * half \in {se, se - 1}
    BY <2>2, <2>3, SMTT(30)
  <2>5. b = h * 2048 + mi * 32 + half
    BY <1>5, <2>1, <2>3
  <2>6. b \div 2048 = h /\ (b \div 32) % 64 = mi /\ b % 32 = half
    BY <2>2, <2>4, <2>5, SMTT(60)
  <2>7. h * 3600 + mi * 60 + half * 2 \in {s, s - 1}
    BY <2>2, <2>4, SMTT(30)
  <2> QED  BY <2>6, <2>7, SMTT(30)
<1>10. PICK y, doy : y = (IF c.m <= 2 THEN c.y - 1 ELSE c.y) /\ doy = (153 * ((c.m + 9) % 12) + 2) \div 5 + c.d - 1
  OBVIOUS
<1>11. (y \div 400) * 146097 + (y - (y \div 400) * 400) * 365 + (y - (y \div 400) * 400) \div 4
         - (y - (y \div 400) * 400) \div 100 + doy - 719468 = days
  BY <1>1, <1>2, <1>3, <1>10, DateParts
<1>12. DosToUnix(u) = days * 86400 + (b \div 2048) * 3600 + ((b \div 32) % 64) * 60 + (b % 32) * 2
  <2>1. /\ 1980 + u[1] \div 512 = c.y /\ (u[1] \div 32) % 16 = c.m /\ u[1] % 32 = c.d /\ u[2] = b
    BY <1>7, <1>8
  <2> QED  BY <1>10, <1>11, <2>1 DEF DosToUnix
<1>13. PICK h, mi, se : h = (b \div 2048) * 3600 /\ mi = ((b \div 32) % 64) * 60 /\ se = (b % 32) * 2
  OBVIOUS
<1>14. b \in Nat
  BY <1>2, <1>5, SMTT(30)
<1>15. h \in Nat /\ mi \in Nat /\ se \in Nat
  BY <1>13, <1>14, SMTT(30)
<1>16. h + mi + se \in {s, s - 1} /\ DosToUnix(u) = days * 86400 + h + mi + se
  BY <1>9, <1>12, <1>13, SMTT(30)
<1> QED  BY <1>2, <1>6, <1>15, <1>16, SMTT(30)

-----------------------------------------------------------------------------
(* Blocks, one behind the other.                                             *)

Follows(b, a) == Len(a) <= Len(b) /\ \A i \in 1..Len(a) : b[i] = a[i]
Chain(a) ==
  /\ Sequence(a)
  /\ \A i \in DOMAIN a : /\ a[i].at \in Nat /\ a[i].len \in Nat /\ a[i].at + a[i].len <= Size(a)
                         /\ a[i].kind # "data" => a[i].len > 0
  /\ \A i, j \in DOMAIN a : i < j => a[i].at + a[i].len <= a[j].at

LEMMA ChainSize ==
  ASSUME NEW a, Chain(a)
  PROVE  Len(a) \in Nat /\ DOMAIN a = 1..Len(a) /\ Size(a) \in Nat
<1>1. Len(a) \in Nat /\ DOMAIN a = 1..Len(a)
  BY SequenceFacts DEF Chain
<1>2. CASE a = <<>>
  BY <1>1, <1>2 DEF Size
<1>3. CASE a # <<>>
  <2>1. Len(a) \in DOMAIN a
    <3>1. a \in Seq(ToSet(a))
      BY SequenceFacts DEF Chain
    <3>2. Len(a) # 0
      BY <1>3, <3>1, EmptySeq
    <3> QED  BY <1>1, <3>2
  <2> QED  BY <1>1, <1>3, <2>1 DEF Chain, Size, Last
<1> QED  BY <1>1, <1>2, <1>3

LEMMA ChainNone == Chain(<<>>) /\ Size(<<>>) = 0 /\ Len(<<>>) = 0
<1>1. PICK e : e = <<>>
  OBVIOUS
<1>2. e \in Seq(Nat) /\ Len(e) = 0
  BY <1>1, EmptySeq
<1>3. Sequence(e) /\ DOMAIN e = 1..0
  BY <1>2, SequenceOf
<1>4. DOMAIN e = {}
  BY <1>3
<1>5. Chain(e) /\ Size(e) = 0
  BY <1>1, <1>3, <1>4 DEF Chain, Size
<1> QED  BY <1>1, <1>2, <1>5

LEMMA ChainLaid ==
  ASSUME NEW a, Chain(a), NEW b, b.at = Size(a), b.len \in Nat, b.kind # "data" => b.len > 0,
         NEW c, c = Append(a, b)
  PROVE  /\ Chain(c) /\ Size(c) = Size(a) + b.len /\ Follows(c, a)
         /\ Len(c) = Len(a) + 1 /\ DOMAIN c = 1..Len(a) + 1 /\ c[Len(a) + 1] = b
<1>1. Len(a) \in Nat /\ DOMAIN a = 1..Len(a) /\ Size(a) \in Nat
  BY ChainSize
<1>2. /\ Sequence(c) /\ Len(c) = Len(a) + 1 /\ DOMAIN c = 1..Len(a) + 1 /\ c[Len(a) + 1] = b
      /\ \A i \in 1..Len(a) : c[i] = a[i]
      /\ Last(c) = b /\ c # <<>>
  <2>1. Sequence(a)
    BY DEF Chain
  <2>2. Sequence(c) /\ Len(c) = Len(a) + 1 /\ DOMAIN c = 1..Len(a) + 1
    BY <2>1, SequenceAppend
  <2>3. c[Len(a) + 1] = b /\ Last(c) = b /\ c # <<>>
    BY <2>1, SequenceAppend
  <2>4. \A i \in 1..Len(a) : c[i] = a[i]
    BY <2>1, SequenceAppend
  <2> QED  BY <2>2, <2>3, <2>4
<1>3. Size(c) = Size(a) + b.len
  BY <1>2 DEF Size
<1>4. \A i \in 1..Len(a) : c[i].at \in Nat /\ c[i].len \in Nat /\ c[i].at + c[i].len <= Size(a)
                           /\ (c[i].kind # "data" => c[i].len > 0)
  BY <1>1, <1>2 DEF Chain
<1>5. \A i \in DOMAIN c : /\ c[i].at \in Nat /\ c[i].len \in Nat /\ c[i].at + c[i].len <= Size(c)
                          /\ c[i].kind # "data" => c[i].len > 0
  <2> SUFFICES ASSUME NEW i \in DOMAIN c
               PROVE  /\ c[i].at \in Nat /\ c[i].len \in Nat /\ c[i].at + c[i].len <= Size(c)
                      /\ c[i].kind # "data" => c[i].len > 0
    OBVIOUS
  <2>1. CASE i \in 1..Len(a)
    BY <1>1, <1>3, <1>4, <2>1
  <2>2. CASE i = Len(a) + 1
    BY <1>1, <1>2, <1>3, <2>2
  <2> QED  BY <1>1, <1>2, <2>1, <2>2
<1>6. \A i, j \in DOMAIN c : i < j => c[i].at + c[i].len <= c[j].at
  <2> SUFFICES ASSUME NEW i \in DOMAIN c, NEW j \in DOMAIN c, i < j PROVE c[i].at + c[i].len <= c[j].at
    OBVIOUS
  <2>1. i \in 1..Len(a)
    BY <1>1, <1>2
  <2>2. CASE j \in 1..Len(a)
    BY <1>1, <1>2, <2>1, <2>2 DEF Chain
  <2>3. CASE j = Len(a) + 1
    BY <1>2, <1>4, <2>1, <2>3
  <2> QED  BY <1>1, <1>2, <2>2, <2>3
<1>7. Follows(c, a)
  BY <1>1, <1>2 DEF Follows
<1> QED  BY <1>2, <1>3, <1>5, <1>6, <1>7 DEF Chain

\* There is one block of a kind at an offset, but for the bytes of entries.
LEMMA BlockIs ==
  ASSUME NEW a, Chain(a), NEW i \in DOMAIN a, a[i].kind # "data"
  PROVE  BlockAt(a, a[i].at, a[i].kind) = i
<1>1. PICK b : b = {j \in DOMAIN a : a[j].kind = a[i].kind /\ a[j].at = a[i].at}
  OBVIOUS
<1>2. ASSUME NEW j \in b PROVE j = i
  <2>1. j \in DOMAIN a /\ a[j].kind = a[i].kind /\ a[j].at = a[i].at
    BY <1>1
  <2>2. i \in Nat /\ j \in Nat
    BY <2>1, ChainSize
  <2>3. /\ a[i].len \in Nat /\ a[j].len \in Nat /\ a[i].len > 0 /\ a[j].len > 0 /\ a[i].at \in Nat
        /\ (i < j => a[i].at + a[i].len <= a[j].at) /\ (j < i => a[j].at + a[j].len <= a[i].at)
    BY <2>1 DEF Chain
  <2> QED  BY <2>1, <2>2, <2>3
<1>3. b = {i}
  BY <1>1, <1>2
<1> QED  BY <1>1, <1>3 DEF BlockAt

LEMMA FollowsOn ==
  ASSUME NEW a, NEW b, NEW c, Len(a) \in Nat, Len(b) \in Nat, Len(c) \in Nat, Follows(b, a), Follows(c, b)
  PROVE  Follows(c, a)
  BY DEF Follows

-----------------------------------------------------------------------------
(* The writer: an entry that is written stands where it is recorded.         *)

Sound(w) == Chain(w.out) /\ w.offset = Size(w.out) /\ Sequence(w.entries)

LEMMA RawWrites ==
  ASSUME NEW w, Sound(w), NEW block, NEW b, Laid(w.out, block) = Append(w.out, b),
         b.at = Size(w.out), block.len = b.len, b.len \in Nat, b.kind # "data" => b.len > 0,
         NEW v, v = Raw(w, block)
  PROVE  /\ Sound(v) /\ v.entries = w.entries /\ v.offset = w.offset + block.len
         /\ Len(v.out) = Len(w.out) + 1 /\ v.out[Len(w.out) + 1] = b /\ Follows(v.out, w.out)
<1>1. v.out = Append(w.out, b) /\ v.offset = w.offset + block.len /\ v.entries = w.entries
  BY DEF Raw
<1>2. Chain(w.out) /\ w.offset = Size(w.out) /\ Sequence(w.entries)
  BY DEF Sound
<1>3. /\ Chain(v.out) /\ Size(v.out) = Size(w.out) + b.len /\ Follows(v.out, w.out)
      /\ Len(v.out) = Len(w.out) + 1 /\ v.out[Len(w.out) + 1] = b
  <2>1. PICK a, c : a = w.out /\ c = v.out
    OBVIOUS
  <2>2. Chain(a) /\ b.at = Size(a) /\ c = Append(a, b) /\ b.len \in Nat /\ (b.kind # "data" => b.len > 0)
    BY <1>1, <1>2, <2>1
  <2>3. Chain(c) /\ Size(c) = Size(a) + b.len /\ Follows(c, a) /\ Len(c) = Len(a) + 1 /\ c[Len(a) + 1] = b
    BY ONLY <2>2, ChainLaid, ZenonT(60)
  <2> QED  BY <2>1, <2>3
<1> QED  BY <1>1, <1>2, <1>3 DEF Sound

\* The block i is the header of the entry c, and what is found there is what is expected.
Stands(a, c, i, expected) ==
  /\ i \in 1..Len(a) /\ i + 1 \in 1..Len(a) /\ (c.bit3 => i + 2 \in 1..Len(a))
  /\ a[i].kind = "local" /\ a[i].at = c.offset
  /\ HoldsEntry(a, c, i, expected)

LEMMA StandsOn ==
  ASSUME NEW a, NEW b, Len(a) \in Nat, Len(b) \in Nat, Follows(b, a), NEW c, NEW i, NEW x, Stands(a, c, i, x)
  PROVE  Stands(b, c, i, x)
<1>1. i \in 1..Len(b) /\ i + 1 \in 1..Len(b) /\ b[i] = a[i] /\ b[i + 1] = a[i + 1]
  BY DEF Follows, Stands
<1>2. c.bit3 => i + 2 \in 1..Len(b) /\ b[i + 2] = a[i + 2]
  BY DEF Follows, Stands
<1>3. HoldsEntry(b, c, i, x)
  <2>1. HoldsEntry(a, c, i, x)
    BY DEF Stands
  <2>2. Agrees(b[i], b[i + 1], b[i + 2], c)
    <3>1. Agrees(a[i], a[i + 1], a[i + 2], c)
      BY <2>1 DEF HoldsEntry
    <3> QED  BY <1>1, <1>2, <3>1 DEF Agrees
  <2> QED  BY <1>1, <2>1, <2>2 DEF HoldsEntry
<1> QED  BY <1>1, <1>2, <1>3 DEF Stands

\* What is found where an entry was written: the entry, with the fields x of its header.
AsWritten(e, x) ==
  [name |-> e.name, method |-> e.method, crc |-> e.crc, usize |-> e.usize, body |-> [len |-> e.csize, crc |-> e.crc],
   attrs |-> e.attrs, modified |-> e.modified, extra |-> StripZip64(e.extra), local |-> Without(x, {"zip64", "pad"})]

\* The values that four bytes do not hold, and the place of each among them.
LEMMA LargeFacts ==
  ASSUME NEW v \in Nat
  PROVE  /\ Large(v) \in Seq(Nat) /\ Len(Large(v)) = (IF v >= Sub THEN 1 ELSE 0)
         /\ v >= Sub => Large(v)[1] = v
<1>1. CASE v >= Sub
  <2>1. Large(v) = <<v>>
    BY <1>1 DEF Large
  <2>2. <<v>> \in Seq(Nat) /\ Len(<<v>>) = 1 /\ <<v>>[1] = v
    OBVIOUS
  <2> QED  BY <1>1, <2>1, <2>2
<1>2. CASE ~(v >= Sub)
  <2>1. Large(v) = <<>>
    BY <1>2 DEF Large
  <2> QED  BY <1>2, <2>1, EmptySeq
<1> QED  BY <1>1, <1>2

LEMMA TwoLarge ==
  ASSUME NEW u \in Nat, NEW c \in Nat, NEW s, s = Large(u) \o Large(c)
  PROVE  /\ s \in Seq(Nat) /\ Len(s) = Len(Large(u)) + Len(Large(c))
         /\ u >= Sub => s[1] = u
         /\ c >= Sub => s[Len(Large(u)) + 1] = c
<1>1. PICK l, m : l = Large(u) /\ m = Large(c)
  OBVIOUS
<1>2. /\ l \in Seq(Nat) /\ Len(l) \in Nat /\ (u >= Sub => Len(l) = 1 /\ l[1] = u)
      /\ m \in Seq(Nat) /\ Len(m) \in Nat /\ (c >= Sub => Len(m) = 1 /\ m[1] = c)
  <2>1. l \in Seq(Nat) /\ Len(l) = (IF u >= Sub THEN 1 ELSE 0) /\ (u >= Sub => l[1] = u)
    BY <1>1, LargeFacts
  <2>2. m \in Seq(Nat) /\ Len(m) = (IF c >= Sub THEN 1 ELSE 0) /\ (c >= Sub => m[1] = c)
    BY <1>1, LargeFacts
  <2> QED  BY ONLY <2>1, <2>2
<1>3. /\ s \in Seq(Nat) /\ Len(s) = Len(l) + Len(m)
      /\ \A i \in 1..Len(l) + Len(m) : s[i] = IF i <= Len(l) THEN l[i] ELSE m[i - Len(l)]
  BY <1>1, <1>2, ConcatProperties
<1>4. ASSUME u >= Sub PROVE s[1] = u
  <2>2. Len(l) = 1 /\ l[1] = u
    BY <1>2, <1>4, Zenon
  <2>3. Len(m) \in Nat
    BY <1>2
  <2>1. 1 \in 1..Len(l) + Len(m) /\ 1 <= Len(l)
    BY ONLY <2>2, <2>3
  <2> QED  BY <1>2, <1>3, <1>4, <2>1
<1>5. ASSUME c >= Sub PROVE s[Len(l) + 1] = c
  <2>1. PICK i : i = Len(l) + 1
    OBVIOUS
  <2>4. Len(m) = 1 /\ m[1] = c
    BY <1>2, <1>5, Zenon
  <2>5. Len(l) \in Nat
    BY <1>2
  <2>2. i \in 1..Len(l) + Len(m) /\ ~(i <= Len(l)) /\ i - Len(l) = 1
    BY ONLY <2>1, <2>4, <2>5
  <2>3. s[i] = m[i - Len(l)]
    BY <1>3, <2>2
  <2> QED  BY <1>2, <1>5, <2>1, <2>2, <2>3
<1> QED  BY <1>1, <1>3, <1>4, <1>5

\* What is found at the place of each.
Places(s, u, c, o) ==
  /\ u >= Sub => s[1] = u
  /\ c >= Sub => s[Len(Large(u)) + 1] = c
  /\ o >= Sub => s[Len(Large(u)) + Len(Large(c)) + 1] = o

LEMMA ThreeLarge ==
  ASSUME NEW u \in Nat, NEW c \in Nat, NEW o \in Nat, NEW s, s = Large(u) \o Large(c) \o Large(o)
  PROVE  s \in Seq(Nat) /\ Places(s, u, c, o)
<1>1. PICK t, m : t = Large(u) \o Large(c) /\ m = Large(o)
  OBVIOUS
<1>2. PICK k, l : k = Len(Large(u)) /\ l = Len(Large(c))
  OBVIOUS
<1>3. k = (IF u >= Sub THEN 1 ELSE 0) /\ l = (IF c >= Sub THEN 1 ELSE 0)
  BY <1>2, LargeFacts
<1>4. t \in Seq(Nat) /\ Len(t) = k + l
  BY <1>1, <1>2, TwoLarge
<1>5. (u >= Sub => t[1] = u) /\ (c >= Sub => t[k + 1] = c)
  BY <1>1, <1>2, TwoLarge
<1>6. m \in Seq(Nat) /\ Len(m) = (IF o >= Sub THEN 1 ELSE 0) /\ (o >= Sub => m[1] = o)
  BY <1>1, LargeFacts
<1>7. s = t \o m
  BY <1>1
<1>8. s \in Seq(Nat) /\ \A i \in 1..Len(t) + Len(m) : s[i] = IF i <= Len(t) THEN t[i] ELSE m[i - Len(t)]
  BY ONLY <1>4, <1>6, <1>7, ConcatProperties
<1>9. u >= Sub => s[1] = u
  <2> SUFFICES ASSUME u >= Sub PROVE s[1] = u
    OBVIOUS
  <2>1. 1 \in 1..Len(t) + Len(m) /\ 1 <= Len(t)
    BY <1>3, <1>4, <1>6
  <2> QED  BY <1>5, <1>8, <2>1
<1>10. c >= Sub => s[k + 1] = c
  <2> SUFFICES ASSUME c >= Sub PROVE s[k + 1] = c
    OBVIOUS
  <2>1. PICK i : i = k + 1
    OBVIOUS
  <2>2. i \in 1..Len(t) + Len(m) /\ i <= Len(t)
    BY <1>3, <1>4, <1>6, <2>1
  <2> QED  BY <1>5, <1>8, <2>1, <2>2
<1>11. o >= Sub => s[k + l + 1] = o
  <2> SUFFICES ASSUME o >= Sub PROVE s[k + l + 1] = o
    OBVIOUS
  <2>1. PICK i : i = k + l + 1
    OBVIOUS
  <2>2. i \in 1..Len(t) + Len(m) /\ ~(i <= Len(t)) /\ i - Len(t) = 1
    BY <1>3, <1>4, <1>6, <2>1
  <2>3. s[i] = m[i - Len(t)]
    BY <1>8, <2>2
  <2> QED  BY <1>6, <2>1, <2>2, <2>3
<1> QED  BY <1>2, <1>8, <1>9, <1>10, <1>11 DEF Places

LEMMA ValuesOfLocal ==
  ASSUME NEW u \in Nat, NEW c \in Nat, c = u \/ (c < Sub /\ u < Sub), NEW b,
         Values(b.extra) = Large(u) \o Large(c),
         b.csize = (IF c >= Sub \/ u >= Sub THEN Sub ELSE c), b.usize = (IF c >= Sub \/ u >= Sub THEN Sub ELSE u)
  PROVE  Csize(b) = c /\ Usize(b) = u
<1>1. Sub \in Nat
  BY ArchiveAssumption
<1>2. CASE c < Sub /\ u < Sub
  BY <1>1, <1>2 DEF Csize, Usize
<1>3. CASE c = u /\ u >= Sub
  <2>1. b.csize = Sub /\ b.usize = Sub
    BY <1>1, <1>3
  <2>2. PICK s : s = Values(b.extra)
    OBVIOUS
  <2>3. Len(Large(u)) = 1
    BY <1>3, LargeFacts
  <2>4. s = Large(u) \o Large(c)
    BY <2>2
  <2>5. s[1] = u /\ s[Len(Large(u)) + 1] = c
    BY ONLY <1>3, <2>4, u \in Nat, c \in Nat, TwoLarge
  <2>6. Usize(b) = s[1]
    BY <2>1, <2>2, Zenon DEF Usize
  <2>7. InField(b.usize) + 1 = 2 /\ Len(Large(u)) + 1 = 2
    BY ONLY <2>1, <2>3 DEF InField
  <2>8. Csize(b) = s[2]
    BY <2>1, <2>2, <2>7, Zenon DEF Csize
  <2> QED  BY <2>5, <2>6, <2>7, <2>8
<1> QED  BY <1>1, <1>2, <1>3

LEMMA EntryWritten ==
  ASSUME NEW w, Sound(w), NEW e, NEW h, NEW x, NEW body, NEW c, c = Entry(e, w.offset),
         h.name.len \in Nat, e.csize \in Nat, e.usize \in Nat, IsExtra(x),
         h.name = e.name, h.modified = e.modified, body.len = e.csize, body.crc = e.crc,
         ~Streaming(e) => Values(x) = Large(e.usize) \o Large(e.csize) /\ (e.csize = e.usize \/ ~Need64(e)),
         IsExecutable(e.name.segs) => (w.offset + 30 + h.name.len + ExtraSize(x)) % Align = 0,
         NEW w2, w2 = Raw(Raw(w, LocalHeader(e, h, x)), Data(body)),
         NEW w3, w3 = IF Streaming(e) THEN Raw(w2, Descriptor(e)) ELSE w2,
         NEW v, v = Recorded(w3, c)
  PROVE  /\ Sound(v) /\ Follows(v.out, w.out) /\ v.entries = Append(w.entries, c)
         /\ \A i \in Len(w.out) + 1..Len(v.out) : v.out[i].kind \in {"local", "data", "descriptor"}
         /\ Stands(v.out, c, Len(w.out) + 1, AsWritten(e, x))
<1>1. PICK at : at = Size(w.out)
  OBVIOUS
<1>2. Chain(w.out) /\ w.offset = at /\ at \in Nat /\ Len(w.out) \in Nat /\ ExtraSize(x) \in Nat
  BY <1>1, ChainSize, SizeTyped DEF Sound
<1>3. PICK b1 : b1 = [LocalHeader(e, h, x) EXCEPT !.at = at]
  OBVIOUS
<1>4. b1.kind = "local" /\ b1.at = at /\ b1.len = 30 + h.name.len + ExtraSize(x)
  BY ONLY <1>3 DEF LocalHeader
<1>41. LocalHeader(e, h, x).len = 30 + h.name.len + ExtraSize(x)
  BY DEF LocalHeader
<1>42. b1.name = h.name /\ b1.method = e.method /\ b1.modified = h.modified /\ b1.extra = x
  BY ONLY <1>3 DEF LocalHeader
<1>43. b1.bit3 = Streaming(e)
  BY ONLY <1>3 DEF LocalHeader
<1>44. ~Streaming(e) => /\ b1.crc = e.crc
                           /\ b1.csize = (IF Need64(e) THEN Sub ELSE e.csize)
                           /\ b1.usize = (IF Need64(e) THEN Sub ELSE e.usize)
  BY ONLY <1>3 DEF LocalHeader
<1>5. PICK w1 : w1 = Raw(w, LocalHeader(e, h, x))
  OBVIOUS
<1>6. /\ Sound(w1) /\ w1.entries = w.entries /\ Len(w1.out) = Len(w.out) + 1 /\ w1.out[Len(w.out) + 1] = b1
      /\ Follows(w1.out, w.out) /\ Size(w1.out) = at + b1.len
  <2>1. Laid(w.out, LocalHeader(e, h, x)) = Append(w.out, b1)
    BY <1>1, <1>3 DEF Laid
  <2>2. b1.len \in Nat /\ b1.len > 0 /\ b1.at = Size(w.out)
    BY <1>1, <1>2, <1>4
  <2>3. PICK block : block = LocalHeader(e, h, x)
    OBVIOUS
  <2>4. Laid(w.out, block) = Append(w.out, b1) /\ block.len = b1.len /\ w1 = Raw(w, block)
    BY <1>4, <1>41, <1>5, <2>1, <2>3
  <2>5. Sound(w1) /\ w1.entries = w.entries /\ w1.offset = w.offset + block.len
    BY ONLY Sound(w), <2>2, <2>4, RawWrites
  <2>6. Len(w1.out) = Len(w.out) + 1 /\ w1.out[Len(w.out) + 1] = b1 /\ Follows(w1.out, w.out)
    BY ONLY Sound(w), <2>2, <2>4, RawWrites
  <2>7. Size(w1.out) = at + b1.len
    BY <1>2, <2>4, <2>5 DEF Sound
  <2> QED  BY <2>5, <2>6, <2>7
<1>7. PICK b2 : b2 = [Data(body) EXCEPT !.at = Size(w1.out)]
  OBVIOUS
<1>8. /\ b2.kind = "data" /\ b2.at = Size(w1.out) /\ b2.len = body.len /\ b2.crc = body.crc
      /\ Data(body).len = body.len
  BY ONLY <1>7 DEF Data
<1>9. /\ Sound(w2) /\ w2.entries = w.entries /\ Len(w2.out) = Len(w.out) + 2 /\ w2.out[Len(w.out) + 2] = b2
      /\ Follows(w2.out, w1.out)
  <2>1. Laid(w1.out, Data(body)) = Append(w1.out, b2)
    BY <1>7 DEF Laid
  <2>2. b2.len \in Nat /\ (b2.kind # "data" => b2.len > 0) /\ b2.at = Size(w1.out)
    BY <1>8
  <2>3. PICK block : block = Data(body)
    OBVIOUS
  <2>4. Laid(w1.out, block) = Append(w1.out, b2) /\ block.len = b2.len /\ w2 = Raw(w1, block)
    BY <1>5, <1>8, <2>1, <2>3
  <2>5. Sound(w2) /\ w2.entries = w1.entries /\ w2.offset = w1.offset + block.len
    BY ONLY <1>6, <2>2, <2>4, RawWrites
  <2>6. Len(w2.out) = Len(w1.out) + 1 /\ w2.out[Len(w1.out) + 1] = b2 /\ Follows(w2.out, w1.out)
    BY ONLY <1>6, <2>2, <2>4, RawWrites, SMTT(30)
  <2>7. Len(w.out) + 1 + 1 = Len(w.out) + 2
    BY <1>2
  <2> QED  BY <1>6, <2>5, <2>6, <2>7
<1>10. PICK b3 : b3 = [Descriptor(e) EXCEPT !.at = Size(w2.out)]
  OBVIOUS
<1>11. /\ b3.kind = "descriptor" /\ b3.at = Size(w2.out) /\ b3.len = Descriptor(e).len /\ b3.len \in Nat /\ b3.len > 0
       /\ b3.crc = e.crc /\ b3.csize = e.csize /\ b3.usize = e.usize
  BY ONLY <1>10 DEF Descriptor
<1>12. /\ Sound(w3) /\ w3.entries = w.entries /\ Follows(w3.out, w2.out)
       /\ Streaming(e) => Len(w3.out) = Len(w.out) + 3 /\ w3.out[Len(w.out) + 3] = b3
       /\ ~Streaming(e) => w3.out = w2.out
  <2>1. CASE Streaming(e)
    <3>1. Laid(w2.out, Descriptor(e)) = Append(w2.out, b3)
      BY <1>10 DEF Laid
    <3>2. PICK block : block = Descriptor(e)
      OBVIOUS
    <3>3. Laid(w2.out, block) = Append(w2.out, b3) /\ block.len = b3.len /\ w3 = Raw(w2, block)
      BY <1>11, <2>1, <3>1, <3>2
    <3>4. Sound(w3) /\ w3.entries = w2.entries
      BY ONLY <1>9, <1>11, <3>3, RawWrites
    <3>5. PICK y, z : y = w2 /\ z = w3
      OBVIOUS
    <3>6. Len(z.out) = Len(y.out) + 1 /\ z.out[Len(y.out) + 1] = b3
      <4>1. Sound(y) /\ b3.at = Size(y.out) /\ b3.len \in Nat /\ b3.len > 0
        BY <1>9, <1>11, <3>5
      <4>2. Laid(y.out, block) = Append(y.out, b3) /\ z = Raw(y, block)
        BY <3>3, <3>5
      <4>3. Len(z.out) = Len(y.out) + 1
        BY ONLY <3>3, <4>1, <4>2, RawWrites
      <4>4. z.out[Len(y.out) + 1] = b3
        BY ONLY <3>3, <4>1, <4>2, RawWrites
      <4> QED  BY <4>3, <4>4
    <3>7. Follows(w3.out, w2.out)
      BY ONLY <1>9, <1>11, <3>3, RawWrites
    <3>8. Len(w.out) + 2 + 1 = Len(w.out) + 3
      BY <1>2
    <3> QED  BY <1>9, <2>1, <3>4, <3>5, <3>6, <3>7, <3>8
  <2>2. CASE ~Streaming(e)
    BY <1>9, <2>2 DEF Follows
  <2> QED  BY <2>1, <2>2
<1>13. PICK n : n = Len(w.out) + 1
  OBVIOUS
<1>14. /\ n \in Nat /\ n \in 1..Len(w3.out) /\ n + 1 \in 1..Len(w3.out) /\ (Streaming(e) => n + 2 \in 1..Len(w3.out))
       /\ w3.out[n] = b1 /\ w3.out[n + 1] = b2 /\ (Streaming(e) => w3.out[n + 2] = b3)
       /\ Follows(w3.out, w.out)
       /\ \A i \in Len(w.out) + 1..Len(w3.out) : i \in {n, n + 1} \/ (i = n + 2 /\ Streaming(e))
  <2>1. Len(w1.out) = Len(w.out) + 1 /\ Len(w2.out) = Len(w.out) + 2 /\ Len(w3.out) \in Nat
        /\ Len(w2.out) <= Len(w3.out)
    BY <1>6, <1>9, <1>12, ChainSize DEF Sound, Follows
  <2>2. w2.out[n] = b1
    <3>1. n \in 1..Len(w1.out) /\ w1.out[n] = b1
      BY <1>2, <1>6, <1>13
    <3> QED  BY <1>9, <3>1 DEF Follows
  <2>3. w3.out[n] = b1 /\ w3.out[n + 1] = b2
    <3>1. n \in 1..Len(w2.out) /\ n + 1 \in 1..Len(w2.out) /\ n + 1 = Len(w.out) + 2
      BY <1>2, <1>13, <2>1
    <3>2. w2.out[n + 1] = b2
      BY <1>9, <3>1
    <3> QED  BY <1>12, <2>2, <3>1, <3>2 DEF Follows
  <2>4. Follows(w3.out, w.out)
    BY <1>2, <1>6, <1>9, <1>12, <2>1, FollowsOn
  <2>5. n + 2 = Len(w.out) + 3 /\ (Streaming(e) => Len(w3.out) = n + 2) /\ (~Streaming(e) => Len(w3.out) = n + 1)
    BY <1>2, <1>12, <1>13, <2>1
  <2>6. n \in Nat /\ n \in 1..Len(w3.out) /\ n + 1 \in 1..Len(w3.out) /\ (Streaming(e) => n + 2 \in 1..Len(w3.out))
    BY <1>2, <1>13, <2>1, <2>5
  <2>7. ASSUME NEW i \in Len(w.out) + 1..Len(w3.out) PROVE i \in {n, n + 1} \/ (i = n + 2 /\ Streaming(e))
    <3>1. i \in Nat /\ n <= i /\ i <= Len(w3.out)
      BY <1>2, <1>13, <2>1
    <3>2. CASE Streaming(e)
      BY ONLY <2>5, <2>6, <3>1, <3>2
    <3>3. CASE ~Streaming(e)
      <4>1. Len(w3.out) = n + 1
        BY <2>5, <3>3
      <4> QED  BY ONLY <2>6, <3>1, <4>1
    <3> QED  BY <3>2, <3>3
  <2>8. Streaming(e) => w3.out[n + 2] = b3
    BY <1>12, <2>5
  <2> QED  BY <2>3, <2>4, <2>6, <2>7, <2>8
<1>15. v.out = w3.out /\ v.offset = w3.offset /\ v.entries = Append(w3.entries, c)
  BY DEF Recorded
<1>16. \A i \in Len(w.out) + 1..Len(v.out) : v.out[i].kind \in {"local", "data", "descriptor"}
  <2> SUFFICES ASSUME NEW i \in Len(w.out) + 1..Len(w3.out) PROVE w3.out[i].kind \in {"local", "data", "descriptor"}
    BY <1>15
  <2>1. i = n \/ i = n + 1 \/ (i = n + 2 /\ Streaming(e))
    BY <1>14
  <2>2. w3.out[i] \in {b1, b2} \/ w3.out[i] = b3
    BY <1>14, <2>1
  <2> QED  BY <1>4, <1>8, <1>11, <2>2
<1>17. Sound(v)
  <2>1. Sequence(v.entries)
    BY <1>12, <1>15, SequenceAppend DEF Sound
  <2> QED  BY <1>12, <1>15, <2>1 DEF Sound
<1>18. /\ c.name = e.name /\ c.method = e.method /\ c.bit3 = Streaming(e) /\ c.crc = e.crc /\ c.csize = e.csize
       /\ c.usize = e.usize /\ c.offset = w.offset /\ c.attrs = e.attrs /\ c.modified = e.modified /\ c.extra = e.extra
  BY DEF Entry
<1>19. Agrees(b1, b2, w3.out[n + 2], c)
  <2>1. b1.name = c.name /\ b1.method = c.method /\ b1.bit3 = c.bit3 /\ b1.modified = c.modified
    BY <1>42, <1>43, <1>18
  <2>2. b2.kind = "data" /\ b2.len = c.csize
    BY <1>8, <1>18
  <2>3. CASE Streaming(e)
    <3>1. w3.out[n + 2].kind = "descriptor" /\ w3.out[n + 2].crc = c.crc /\ w3.out[n + 2].csize = c.csize
          /\ w3.out[n + 2].usize = c.usize
      BY <1>11, <1>14, <1>18, <2>3
    <3> QED  BY <1>18, <2>1, <2>2, <2>3, <3>1 DEF Agrees
  <2>4. CASE ~Streaming(e)
    <3>1. b1.crc = c.crc
      BY <1>44, <1>18, <2>4
    <3>2. Csize(b1) = e.csize /\ Usize(b1) = e.usize
      <4>1. Values(b1.extra) = Large(e.usize) \o Large(e.csize) /\ (e.csize = e.usize \/ (e.csize < Sub /\ e.usize < Sub))
        BY <1>42, <2>4, ArchiveAssumption DEF Need64
      <4>2. b1.csize = (IF e.csize >= Sub \/ e.usize >= Sub THEN Sub ELSE e.csize)
            /\ b1.usize = (IF e.csize >= Sub \/ e.usize >= Sub THEN Sub ELSE e.usize)
        BY <1>44, <2>4 DEF Need64
      <4>3. PICK cs, us : cs = e.csize /\ us = e.usize
        OBVIOUS
      <4>4. cs \in Nat /\ us \in Nat /\ Values(b1.extra) = Large(us) \o Large(cs) /\ (cs = us \/ (cs < Sub /\ us < Sub))
            /\ b1.csize = (IF cs >= Sub \/ us >= Sub THEN Sub ELSE cs)
            /\ b1.usize = (IF cs >= Sub \/ us >= Sub THEN Sub ELSE us)
        BY <4>1, <4>2, <4>3
      <4>5. Csize(b1) = cs /\ Usize(b1) = us
        BY ONLY <4>4, ValuesOfLocal
      <4> QED  BY <4>3, <4>5
    <3> QED  BY <1>18, <2>1, <2>2, <2>4, <3>1, <3>2 DEF Agrees
  <2> QED  BY <2>3, <2>4
<1>20. Found(b1, b2, c) = AsWritten(e, x)
  <2>1. Bytes(b2) = [len |-> e.csize, crc |-> e.crc]
    BY <1>8 DEF Bytes
  <2> QED  BY <1>18, <1>42, <2>1 DEF Found, AsWritten
<1>21. IsExecutable(c.name.segs) => b2.at % Align = 0
  <2>1. b2.at = w.offset + 30 + h.name.len + ExtraSize(x)
    <3>1. b2.at = at + b1.len /\ b1.len = 30 + h.name.len + ExtraSize(x)
      BY <1>4, <1>6, <1>8
    <3> QED  BY <1>2, <3>1, SMTT(30)
  <2> QED  BY <1>18, <2>1
<1>22. Stands(v.out, c, n, AsWritten(e, x))
  <2>1. HoldsEntry(v.out, c, n, AsWritten(e, x))
    BY <1>14, <1>15, <1>19, <1>20, <1>21, SMTT(30) DEF HoldsEntry
  <2>2. v.out[n].kind = "local" /\ v.out[n].at = c.offset
    BY <1>2, <1>4, <1>14, <1>15, <1>18
  <2> QED  BY <1>14, <1>15, <1>18, <2>1, <2>2 DEF Stands
<1> QED  BY <1>12, <1>13, <1>14, <1>15, <1>16, <1>17, <1>22

\* What is recorded of an entry.
Recordable(e) == e.name.len \in Nat /\ e.csize \in Nat /\ e.usize \in Nat /\ e.offset \in Nat /\ IsExtra(e.extra)

\* Whatever has been recorded stands where it is recorded, as is expected of it.
Written(w, expected) ==
  /\ Sound(w)
  /\ \A i \in DOMAIN w.out : w.out[i].kind \in {"local", "data", "descriptor"}
  /\ \A k \in DOMAIN w.entries : Recordable(w.entries[k]) /\ \E i : Stands(w.out, w.entries[k], i, expected[k])

\* v is w with the entry c behind it.
Adds(v, w, c, x) ==
  /\ Sound(v) /\ Follows(v.out, w.out) /\ v.entries = Append(w.entries, c)
  /\ \A i \in Len(w.out) + 1..Len(v.out) : v.out[i].kind \in {"local", "data", "descriptor"}
  /\ Stands(v.out, c, Len(w.out) + 1, x)

LEMMA WrittenMore ==
  ASSUME NEW w, NEW expected, Written(w, expected), NEW v, NEW c, NEW x, Adds(v, w, c, x), Recordable(c),
         expected[Len(w.entries) + 1] = x
  PROVE  Written(v, expected) /\ Len(v.entries) = Len(w.entries) + 1
<1>1. Sequence(w.entries) /\ v.entries = Append(w.entries, c)
  BY DEF Written, Adds, Sound
<1>2. PICK p, q : p = w.entries /\ q = v.entries
  OBVIOUS
<1>3. Sequence(p) /\ q = Append(p, c)
  BY <1>1, <1>2
<1>4. Len(p) \in Nat /\ DOMAIN p = 1..Len(p)
  BY ONLY <1>3, SequenceFacts
<1>5. Len(q) = Len(p) + 1 /\ DOMAIN q = 1..Len(p) + 1
  BY ONLY <1>3, SequenceAppend
<1>6. q[Len(p) + 1] = c /\ \A i \in 1..Len(p) : q[i] = p[i]
  BY ONLY <1>3, SequenceAppend
<1>7. PICK m, n : m = Len(w.out) /\ n = Len(v.out)
  OBVIOUS
<1>8. /\ m \in Nat /\ n \in Nat /\ m <= n /\ DOMAIN w.out = 1..m /\ DOMAIN v.out = 1..n
      /\ \A i \in 1..m : v.out[i] = w.out[i]
  BY <1>7, ChainSize DEF Written, Adds, Sound, Follows
<1>9. \A i \in DOMAIN v.out : v.out[i].kind \in {"local", "data", "descriptor"}
  <2> SUFFICES ASSUME NEW i \in 1..n PROVE v.out[i].kind \in {"local", "data", "descriptor"}
    BY <1>8
  <2>1. CASE i \in 1..m
    BY <1>8, <2>1 DEF Written
  <2>2. CASE i \in m + 1..n
    BY <1>7, <2>2 DEF Adds
  <2> QED  BY <1>8, <2>1, <2>2
<1>10. \A k \in DOMAIN v.entries : Recordable(v.entries[k]) /\ \E i : Stands(v.out, v.entries[k], i, expected[k])
  <2> SUFFICES ASSUME NEW k \in DOMAIN q PROVE Recordable(q[k]) /\ \E i : Stands(v.out, q[k], i, expected[k])
    BY <1>2
  <2>1. CASE k \in 1..Len(p)
    <3>1. q[k] = p[k] /\ k \in DOMAIN p
      BY <1>4, <1>6, <2>1
    <3>2. PICK i : Stands(w.out, p[k], i, expected[k])
      BY <1>2, <3>1 DEF Written
    <3>3. Follows(v.out, w.out)
      BY DEF Adds
    <3>4. Stands(v.out, p[k], i, expected[k])
      BY ONLY <1>7, <1>8, <3>2, <3>3, StandsOn
    <3>5. Recordable(p[k])
      BY <1>2, <3>1 DEF Written
    <3> QED  BY <3>1, <3>4, <3>5
  <2>2. CASE k = Len(p) + 1
    <3>1. q[k] = c /\ expected[k] = x
      BY <1>2, <1>6, <2>2
    <3>2. Stands(v.out, c, Len(w.out) + 1, x)
      BY DEF Adds
    <3> QED  BY <3>1, <3>2
  <2> QED  BY <1>4, <1>5, <2>1, <2>2
<1> QED  BY <1>2, <1>5, <1>9, <1>10 DEF Written, Adds

-----------------------------------------------------------------------------
\* An entry as it is copied: its header's fields but for the sizes, on a page if it is a binary.
LEMMA LocalFields ==
  ASSUME NEW w, w.offset \in Nat, NEW e, NEW h, IsExtra(h.extra), h.name.len \in Nat, e.csize \in Nat, e.usize \in Nat,
         NEW x, x = LocalExtra(w, e, h)
  PROVE  /\ IsExtra(x)
         /\ ~Streaming(e) => Values(x) = Large(e.usize) \o Large(e.csize)
         /\ IsExecutable(e.name.segs) => (w.offset + 30 + h.name.len + ExtraSize(x)) % Align = 0
         /\ Without(x, {"zip64", "pad"}) = Without(h.extra, {"zip64", "pad"})
<1>1. PICK vals : vals = IF Streaming(e) THEN <<>> ELSE Large(e.usize) \o Large(e.csize)
  OBVIOUS
<1>2. vals \in Seq(Nat)
  <2>1. PICK t : t = Large(e.usize) \o Large(e.csize)
    OBVIOUS
  <2>2. t \in Seq(Nat)
    BY <2>1, TwoLarge
  <2> QED  BY <1>1, <2>1, <2>2, EmptySeq
<1>3. PICK y : y = StripZip64(h.extra) \o Zip64(vals)
  OBVIOUS
<1>4. /\ IsExtra(y) /\ Values(y) = vals
      /\ Without(y, {"zip64", "pad"}) = Without(h.extra, {"zip64", "pad"})
  <2>1. PICK g : g = h.extra
    OBVIOUS
  <2>2. IsExtra(g) /\ y = StripZip64(g) \o Zip64(vals)
    BY <1>3, <2>1
  <2>3. IsExtra(y) /\ Values(y) = vals
    BY ONLY <1>2, <2>2, ValuesWritten
  <2>4. Without(y, {"zip64", "pad"}) = Without(g, {"zip64", "pad"})
    BY ONLY <1>2, <2>2, ValuesWritten
  <2> QED  BY <2>1, <2>3, <2>4
<1>5. y = StripZip64(h.extra) \o (IF Streaming(e) THEN <<>> ELSE Zip64Local(e.usize, e.csize))
  <2>1. Zip64(<<>>) = <<>>
    BY DEF Zip64
  <2>2. Zip64Local(e.usize, e.csize) = Zip64(Large(e.usize) \o Large(e.csize))
    BY DEF Zip64Local
  <2>3. Zip64(vals) = IF Streaming(e) THEN <<>> ELSE Zip64Local(e.usize, e.csize)
    BY <1>1, <2>1, <2>2
  <2> QED  BY <1>3, <2>3
<1>6. x = IF IsExecutable(e.name.segs) THEN AlignPayload(y, w.offset, h.name.len) ELSE y
  BY <1>5 DEF LocalExtra
<1>7. CASE IsExecutable(e.name.segs)
  <2>1. PICK o, n : o = w.offset /\ n = h.name.len
    OBVIOUS
  <2>2. o \in Nat /\ n \in Nat /\ x = AlignPayload(y, o, n)
    BY <1>6, <1>7, <2>1
  <2>3. IsExtra(x) /\ Values(x) = Values(y)
    BY ONLY <1>4, <2>2, PageAligned
  <2>4. Without(x, {"zip64", "pad"}) = Without(y, {"zip64", "pad"})
    BY ONLY <1>4, <2>2, PageAligned
  <2>5. (o + 30 + n + ExtraSize(x)) % Align = 0
    BY ONLY <1>4, <2>2, PageAligned
  <2> QED  BY <1>1, <1>4, <1>7, <2>1, <2>3, <2>4, <2>5
<1>8. CASE ~IsExecutable(e.name.segs)
  BY <1>1, <1>4, <1>6, <1>8
<1> QED  BY <1>7, <1>8

\* An entry that was found is copied as what it is.
LEMMA CopiedAdds ==
  ASSUME NEW w, Sound(w), NEW e, NEW h, NEW body, NEW f, IsPacked(f),
         e.name = f.name, e.method = f.method, e.crc = f.crc, e.csize = f.csize, e.usize = f.usize,
         e.attrs = f.attrs, e.modified = f.modified, e.extra = f.extra,
         h.name = f.name, h.modified = f.modified, h.extra = f.local,
         body.len = e.csize, body.crc = f.crc,
         NEW x, x = LocalExtra(w, e, h), NEW v, v = Copied(w, e, h, x, body)
  PROVE  Adds(v, w, Entry(e, w.offset), FromSource(f)) /\ Recordable(Entry(e, w.offset))
<1>1. w.offset \in Nat
  <2>1. w.offset = Size(w.out) /\ Chain(w.out)
    BY DEF Sound
  <2> QED  BY <2>1, ChainSize
<1>2. /\ f.name.len \in Nat /\ f.csize \in Nat /\ f.usize \in Nat /\ IsExtra(f.extra) /\ IsExtra(f.local)
      /\ ~Streaming(f) => f.csize = f.usize \/ ~Need64(f)
  BY DEF IsPacked
<1>3. Streaming(e) = Streaming(f) /\ Need64(e) = Need64(f)
  BY DEF Streaming, Need64
<1>4. h.name.len \in Nat /\ e.csize \in Nat /\ e.usize \in Nat /\ IsExtra(h.extra)
  BY <1>2
<1>5. /\ IsExtra(x)
      /\ ~Streaming(e) => Values(x) = Large(e.usize) \o Large(e.csize)
      /\ IsExecutable(e.name.segs) => (w.offset + 30 + h.name.len + ExtraSize(x)) % Align = 0
      /\ Without(x, {"zip64", "pad"}) = Without(h.extra, {"zip64", "pad"})
  BY ONLY <1>1, <1>4, x = LocalExtra(w, e, h), LocalFields
<1>6. PICK w2 : w2 = Raw(Raw(w, LocalHeader(e, h, x)), Data(body))
  OBVIOUS
<1>7. PICK w3 : w3 = IF Streaming(e) THEN Raw(w2, Descriptor(e)) ELSE w2
  OBVIOUS
<1>8. PICK c : c = Entry(e, w.offset)
  OBVIOUS
<1>9. v = Recorded(w3, c)
  BY <1>6, <1>7, <1>8 DEF Copied
<1>10. ~Streaming(e) => Values(x) = Large(e.usize) \o Large(e.csize) /\ (e.csize = e.usize \/ ~Need64(e))
  BY <1>2, <1>3, <1>5
<1>11. h.name = e.name /\ h.modified = e.modified /\ body.crc = e.crc /\ body.len = e.csize
  OBVIOUS
<1>12. /\ Sound(v) /\ Follows(v.out, w.out) /\ v.entries = Append(w.entries, c)
       /\ \A i \in Len(w.out) + 1..Len(v.out) : v.out[i].kind \in {"local", "data", "descriptor"}
  BY ONLY Sound(w), <1>4, <1>5, <1>6, <1>7, <1>8, <1>9, <1>10, <1>11, EntryWritten
<1>13. Stands(v.out, c, Len(w.out) + 1, AsWritten(e, x))
  BY ONLY Sound(w), <1>4, <1>5, <1>6, <1>7, <1>8, <1>9, <1>10, <1>11, EntryWritten
<1>14. AsWritten(e, x) = FromSource(f)
  BY <1>5 DEF AsWritten, FromSource
<1>15. c.name = f.name /\ c.csize = f.csize /\ c.usize = f.usize /\ c.offset = w.offset /\ c.extra = f.extra
  BY <1>8 DEF Entry
<1>16. Recordable(c)
  BY <1>1, <1>2, <1>15 DEF Recordable
<1> QED  BY <1>8, <1>12, <1>13, <1>14, <1>16 DEF Adds

\* What is added is stored, and is no binary.
LEMMA StoredAdds ==
  ASSUME NEW w, Sound(w), NEW name, name.len \in Nat, ~IsExecutable(name.segs), NEW data, data = Bytes(data), data.len \in Nat,
         NEW time, NEW v, v = Stored(w, name, data, time)
  PROVE  /\ Recordable(Entry(StoredEntry(name, data, time), w.offset))
         /\ Adds(v, w, Entry(StoredEntry(name, data, time), w.offset),
                 [name |-> name, method |-> 0, crc |-> data.crc, usize |-> data.len, body |-> data,
                  attrs |-> "regular", modified |-> time, extra |-> <<>>, local |-> <<>>])
<1>1. w.offset \in Nat
  <2>1. w.offset = Size(w.out) /\ Chain(w.out)
    BY DEF Sound
  <2> QED  BY <2>1, ChainSize
<1>2. PICK none : none = <<>>
  OBVIOUS
<1>3. none \in Seq({}) /\ IsExtra(none) /\ DOMAIN none = {}
  <2>1. none \in Seq({}) /\ Len(none) = 0
    BY <1>2, EmptySeq
  <2>2. IsExtra(none)
    BY <2>1, ExtraIs
  <2> QED  BY <2>1, <2>2, LenProperties
<1>4. \A ids : Without(none, ids) = none
  BY <1>2, KeepEmpty DEF Without
<1>5. PICK e : e = StoredEntry(name, data, time)
  OBVIOUS
<1>6. PICK h : h = [name |-> name, modified |-> time, extra |-> none]
  OBVIOUS
<1>7. PICK len : len = data.len
  OBVIOUS
<1>8. /\ e.name = name /\ e.method = 0 /\ e.crc = data.crc /\ e.csize = len /\ e.usize = len
      /\ e.attrs = "regular" /\ e.modified = time /\ e.extra = none
      /\ h.name = name /\ h.modified = time /\ h.extra = none /\ len \in Nat
  BY <1>2, <1>5, <1>6, <1>7 DEF StoredEntry
<1>9. ~Streaming(e)
  BY <1>8 DEF Streaming
<1>10. PICK x : x = Zip64Local(len, len)
  OBVIOUS
<1>11. IsExtra(x) /\ Values(x) = Large(len) \o Large(len) /\ Without(x, {"zip64", "pad"}) = none
  <2>1. PICK vals : vals = Large(len) \o Large(len)
    OBVIOUS
  <2>2. vals \in Seq(Nat)
    BY <1>8, <2>1, TwoLarge
  <2>3. PICK y : y = StripZip64(none) \o Zip64(vals)
    OBVIOUS
  <2>4. IsExtra(y) /\ Values(y) = vals
    BY ONLY <1>3, <2>2, <2>3, ValuesWritten
  <2>5. Without(y, {"zip64", "pad"}) = Without(none, {"zip64", "pad"})
    BY ONLY <1>3, <2>2, <2>3, ValuesWritten
  <2>6. y = x
    <3>1. StripZip64(none) = none /\ x = Zip64(vals)
      BY <1>4, <1>10, <2>1 DEF StripZip64, Zip64Local
    <3>2. PICK z : z = Zip64(vals)
      OBVIOUS
    <3>3. Sequence(z)
      <4>1. CASE vals = <<>>
        BY <1>2, <1>3, <3>2, <4>1 DEF Zip64, IsExtra, Sequence
      <4>2. CASE vals # <<>>
        <5>1. PICK g : g = [id |-> "zip64", n |-> 8 * Len(vals), vals |-> vals]
          OBVIOUS
        <5>2. z = <<g>>
          BY <3>2, <4>2, <5>1 DEF Zip64
        <5>3. z \in Seq({g})
          BY <5>2
        <5> QED  BY <5>3, SequenceOf
      <4> QED  BY <4>1, <4>2
    <3>4. <<>> \o z = z
      <4>1. z \in Seq(ToSet(z))
        BY <3>3, SequenceFacts
      <4> QED  BY <4>1, ConcatEmptySeq
    <3> QED  BY <1>2, <2>3, <3>1, <3>2, <3>4
  <2> QED  BY <1>4, <2>1, <2>4, <2>5, <2>6
<1>111. IsExtra(x)
  BY <1>11
<1>112. PICK body : body = data
  OBVIOUS
<1>12. PICK w2 : w2 = Raw(Raw(w, LocalHeader(e, h, x)), Data(body))
  OBVIOUS
<1>13. PICK w3 : w3 = IF Streaming(e) THEN Raw(w2, Descriptor(e)) ELSE w2
  OBVIOUS
<1>14. PICK c : c = Entry(e, w.offset)
  OBVIOUS
<1>15. v = Recorded(w3, c)
  <2>1. w3 = w2
    BY <1>9, <1>13
  <2>2. h = [name |-> name, modified |-> time, extra |-> <<>>]
    BY <1>2, <1>6
  <2>3. v = Recorded(Raw(Raw(w, LocalHeader(e, h, Zip64Local(data.len, data.len))), Data(data)), Entry(e, w.offset))
    BY <1>5, <2>2 DEF Stored
  <2> QED  BY <1>7, <1>10, <1>112, <1>12, <1>14, <2>1, <2>3
<1>16. h.name.len \in Nat /\ e.csize \in Nat /\ e.usize \in Nat /\ h.name = e.name /\ h.modified = e.modified
       /\ body.len = e.csize /\ body.crc = e.crc
  BY <1>7, <1>8, <1>112
<1>17. ~Streaming(e) => Values(x) = Large(e.usize) \o Large(e.csize) /\ (e.csize = e.usize \/ ~Need64(e))
  BY <1>8, <1>11
<1>18. IsExecutable(e.name.segs) => (w.offset + 30 + h.name.len + ExtraSize(x)) % Align = 0
  BY <1>8
<1>19. /\ Sound(v) /\ Follows(v.out, w.out) /\ v.entries = Append(w.entries, c)
       /\ \A i \in Len(w.out) + 1..Len(v.out) : v.out[i].kind \in {"local", "data", "descriptor"}
  <2>1. Sound(v) /\ Follows(v.out, w.out)
    BY ONLY Sound(w), <1>111, <1>12, <1>13, <1>14, <1>15, <1>16, <1>17, <1>18, EntryWritten
  <2>2. v.entries = Append(w.entries, c)
    BY ONLY Sound(w), <1>111, <1>12, <1>13, <1>14, <1>15, <1>16, <1>17, <1>18, EntryWritten
  <2>3. \A i \in Len(w.out) + 1..Len(v.out) : v.out[i].kind \in {"local", "data", "descriptor"}
    BY ONLY Sound(w), <1>111, <1>12, <1>13, <1>14, <1>15, <1>16, <1>17, <1>18, EntryWritten
  <2> QED  BY <2>1, <2>2, <2>3
<1>20. Stands(v.out, c, Len(w.out) + 1, AsWritten(e, x))
  BY ONLY Sound(w), <1>111, <1>12, <1>13, <1>14, <1>15, <1>16, <1>17, <1>18, EntryWritten
<1>21. AsWritten(e, x) = [name |-> name, method |-> 0, crc |-> data.crc, usize |-> data.len, body |-> data,
                      attrs |-> "regular", modified |-> time, extra |-> <<>>, local |-> <<>>]
  <2>1. [len |-> e.csize, crc |-> e.crc] = data
    BY <1>7, <1>8 DEF Bytes
  <2>2. StripZip64(e.extra) = <<>> /\ Without(x, {"zip64", "pad"}) = <<>>
    BY <1>2, <1>4, <1>8, <1>11 DEF StripZip64
  <2> QED  BY <1>7, <1>8, <2>1, <2>2 DEF AsWritten
<1>22. Recordable(c)
  <2>1. c.name = name /\ c.csize = len /\ c.usize = len /\ c.offset = w.offset /\ c.extra = none
    BY <1>8, <1>14 DEF Entry
  <2> QED  BY <1>1, <1>3, <1>8, <2>1 DEF Recordable
<1> QED  BY <1>5, <1>14, <1>19, <1>20, <1>21, <1>22 DEF Adds

-----------------------------------------------------------------------------
(* The directory.                                                            *)

LEMMA CentralFields ==
  ASSUME NEW e, Recordable(e), NEW x, x = CentralExtra(e)
  PROVE  /\ IsExtra(x) /\ Values(x) = Large(e.usize) \o Large(e.csize) \o Large(e.offset)
         /\ StripZip64(x) = StripZip64(e.extra)
<1>1. e.usize \in Nat /\ e.csize \in Nat /\ e.offset \in Nat /\ IsExtra(e.extra)
  BY DEF Recordable
<1>2. PICK vals : vals = Large(e.usize) \o Large(e.csize) \o Large(e.offset)
  OBVIOUS
<1>3. vals \in Seq(Nat)
  BY ONLY <1>1, <1>2, ThreeLarge
<1>4. PICK y : y = e.extra
  OBVIOUS
<1>5. IsExtra(y) /\ x = StripZip64(y) \o Zip64(vals)
  BY <1>1, <1>2, <1>4 DEF CentralExtra, Zip64Central
<1>6. IsExtra(x) /\ Values(x) = vals
  BY ONLY <1>3, <1>5, ValuesWritten
<1>7. StripZip64(x) = StripZip64(y)
  BY ONLY <1>3, <1>5, ValuesWritten
<1> QED  BY <1>2, <1>4, <1>6, <1>7

\* A record of the directory, where it is laid.
CentralAt(e, at) == [Central(e) EXCEPT !.at = at]

LEMMA CentralPlaced ==
  ASSUME NEW e, Recordable(e), NEW at, NEW d, d = CentralAt(e, at)
  PROVE  /\ d.kind = "central" /\ d.at = at /\ d.len = Central(e).len /\ d.len \in Nat /\ d.len > 0
         /\ d.name = e.name /\ d.method = e.method /\ d.bit3 = e.bit3 /\ d.crc = e.crc /\ d.attrs = e.attrs
         /\ d.modified = e.modified /\ d.extra = CentralExtra(e)
         /\ d.csize = Placeholder(e.csize) /\ d.usize = Placeholder(e.usize) /\ d.offset = Placeholder(e.offset)
<1>1. PICK x : x = CentralExtra(e)
  OBVIOUS
<1>2. ExtraSize(x) \in Nat /\ e.name.len \in Nat
  <2>1. IsExtra(x)
    BY <1>1, CentralFields
  <2> QED  BY <2>1, SizeTyped DEF Recordable
<1>3. Central(e).len = 46 + e.name.len + ExtraSize(x)
  BY <1>1 DEF Central
<1>4. d.kind = "central" /\ d.at = at /\ d.len = 46 + e.name.len + ExtraSize(x)
  BY ONLY <1>1, d = CentralAt(e, at) DEF Central, CentralAt
<1>5. d.name = e.name /\ d.method = e.method /\ d.bit3 = e.bit3 /\ d.crc = e.crc /\ d.attrs = e.attrs
  BY ONLY d = CentralAt(e, at) DEF Central, CentralAt
<1>6. d.modified = e.modified /\ d.extra = CentralExtra(e)
  BY ONLY d = CentralAt(e, at) DEF Central, CentralAt
<1>7. d.csize = Placeholder(e.csize) /\ d.usize = Placeholder(e.usize) /\ d.offset = Placeholder(e.offset)
  BY ONLY d = CentralAt(e, at) DEF Central, CentralAt
<1>8. d.len \in Nat /\ d.len > 0
  BY ONLY <1>2, <1>4
<1> QED  BY <1>3, <1>4, <1>5, <1>6, <1>7, <1>8

Reads(d, u, c, o) == Usize(d) = u /\ Csize(d) = c /\ Offset(d) = o

\* What four bytes do not hold is found in the field, each at its place.
LEMMA FieldsRead ==
  ASSUME NEW u \in Nat, NEW c \in Nat, NEW o \in Nat, NEW d,
         Values(d.extra) = Large(u) \o Large(c) \o Large(o),
         d.usize = Placeholder(u), d.csize = Placeholder(c), d.offset = Placeholder(o)
  PROVE  Reads(d, u, c, o)
<1>1. Sub \in Nat
  BY ArchiveAssumption
<1>2. PICK s : s = Values(d.extra)
  OBVIOUS
<1>3. /\ u >= Sub => s[1] = u
      /\ c >= Sub => s[Len(Large(u)) + 1] = c
      /\ o >= Sub => s[Len(Large(u)) + Len(Large(c)) + 1] = o
  <2>1. s = Large(u) \o Large(c) \o Large(o)
    BY <1>2
  <2>2. Places(s, u, c, o)
    BY ONLY <2>1, u \in Nat, c \in Nat, o \in Nat, ThreeLarge
  <2> QED  BY <2>2 DEF Places
<1>4. \A v \in Nat : /\ v >= Sub => Placeholder(v) = Sub /\ InField(Placeholder(v)) = 1
                     /\ ~(v >= Sub) => Placeholder(v) = v /\ v # Sub /\ InField(Placeholder(v)) = 0
  BY <1>1 DEF Placeholder, InField
<1>5. InField(d.usize) = Len(Large(u)) /\ InField(d.csize) = Len(Large(c))
  <2>1. Len(Large(u)) = (IF u >= Sub THEN 1 ELSE 0) /\ Len(Large(c)) = (IF c >= Sub THEN 1 ELSE 0)
    BY LargeFacts
  <2> QED  BY <1>4, <2>1
<1>6. Usize(d) = u
  <2>1. CASE u >= Sub
    BY <1>2, <1>3, <1>4, <2>1 DEF Usize
  <2>2. CASE ~(u >= Sub)
    BY <1>4, <2>2 DEF Usize
  <2> QED  BY <2>1, <2>2
<1>7. Csize(d) = c
  <2>1. CASE c >= Sub
    BY <1>2, <1>3, <1>4, <1>5, <2>1 DEF Csize
  <2>2. CASE ~(c >= Sub)
    BY <1>4, <2>2 DEF Csize
  <2> QED  BY <2>1, <2>2
<1>8. Offset(d) = o
  <2>1. CASE o >= Sub
    BY <1>2, <1>3, <1>4, <1>5, <2>1 DEF Offset
  <2>2. CASE ~(o >= Sub)
    BY <1>4, <2>2 DEF Offset
  <2> QED  BY <2>1, <2>2
<1> QED  BY <1>6, <1>7, <1>8 DEF Reads

\* A record of the directory says of its entry what was recorded.
LEMMA EntryRead ==
  ASSUME NEW e, Recordable(e), NEW at, NEW d, d = CentralAt(e, at), NEW r, r = Resolved(d),
         NEW a, NEW i, NEW x
  PROVE  r.offset = e.offset /\ (HoldsEntry(a, e, i, x) => HoldsEntry(a, r, i, x))
<1>1. /\ d.name = e.name /\ d.method = e.method /\ d.bit3 = e.bit3 /\ d.crc = e.crc /\ d.attrs = e.attrs
      /\ d.modified = e.modified /\ d.extra = CentralExtra(e)
      /\ d.csize = Placeholder(e.csize) /\ d.usize = Placeholder(e.usize) /\ d.offset = Placeholder(e.offset)
  BY ONLY Recordable(e), d = CentralAt(e, at), CentralPlaced
<1>2. PICK y : y = CentralExtra(e)
  OBVIOUS
<1>3. Values(y) = Large(e.usize) \o Large(e.csize) \o Large(e.offset) /\ StripZip64(y) = StripZip64(e.extra)
  BY ONLY <1>2, Recordable(e), CentralFields
<1>4. Usize(d) = e.usize /\ Csize(d) = e.csize /\ Offset(d) = e.offset
  <2>1. PICK u, c, o : u = e.usize /\ c = e.csize /\ o = e.offset
    OBVIOUS
  <2>2. u \in Nat /\ c \in Nat /\ o \in Nat
    BY <2>1 DEF Recordable
  <2>3. /\ Values(d.extra) = Large(u) \o Large(c) \o Large(o)
        /\ d.usize = Placeholder(u) /\ d.csize = Placeholder(c) /\ d.offset = Placeholder(o)
    BY ONLY <1>1, <1>2, <1>3, <2>1
  <2>4. Reads(d, u, c, o)
    BY ONLY <2>2, <2>3, FieldsRead
  <2> QED  BY <2>1, <2>4 DEF Reads
<1>5. PICK u, c, o : u = Usize(d) /\ c = Csize(d) /\ o = Offset(d)
  OBVIOUS
<1>6. r = [[Central(e) EXCEPT !.at = at] EXCEPT !.usize = u, !.csize = c, !.offset = o]
  BY <1>5 DEF Resolved, CentralAt
<1>7. r.name = e.name /\ r.method = e.method /\ r.bit3 = e.bit3 /\ r.crc = e.crc /\ r.attrs = e.attrs
  BY ONLY <1>6 DEF Central
<1>8. r.modified = e.modified /\ r.extra = y /\ r.usize = u /\ r.csize = c /\ r.offset = o
  BY ONLY <1>2, <1>6 DEF Central
<1>9. r.usize = e.usize /\ r.csize = e.csize /\ r.offset = e.offset
  BY ONLY <1>4, <1>5, <1>8
<1>10. ASSUME HoldsEntry(a, e, i, x) PROVE HoldsEntry(a, r, i, x)
  <2>1. Agrees(a[i], a[i + 1], a[i + 2], e)
    BY <1>10 DEF HoldsEntry
  <2>2. Agrees(a[i], a[i + 1], a[i + 2], r)
    BY ONLY <1>7, <1>8, <1>9, <2>1 DEF Agrees
  <2>3. Found(a[i], a[i + 1], r) = Found(a[i], a[i + 1], e)
    BY ONLY <1>3, <1>7, <1>8, <1>9 DEF Found
  <2> QED  BY ONLY <1>7, <1>10, <2>2, <2>3 DEF HoldsEntry
<1> QED  BY <1>9, <1>10

-----------------------------------------------------------------------------
\* The directory is laid behind the entries, record by record.
LaidOn(f, w, m) == f = [n \in 0..m |-> IF n = 0 THEN w ELSE Raw(f[n - 1], Central(w.entries[n]))]

LEMMA LaidExists ==
  ASSUME NEW w, NEW k \in Nat
  PROVE  \E f : LaidOn(f, w, k)
<1>1. PICK N : N = {m \in Nat : \E f : LaidOn(f, w, m)}
  OBVIOUS
<1>2. 0 \in N
  <2>1. PICK f : f = [n \in 0..0 |-> w]
    OBVIOUS
  <2>2. LaidOn(f, w, 0)
    BY <2>1 DEF LaidOn
  <2> QED  BY <1>1, <2>2
<1>3. ASSUME NEW m \in Nat, m \in N PROVE m + 1 \in N
  <2>1. PICK f : LaidOn(f, w, m)
    BY <1>1, <1>3
  <2>2. PICK g : g = [n \in 0..m + 1 |-> IF n = 0 THEN w ELSE Raw(f[n - 1], Central(w.entries[n]))]
    OBVIOUS
  <2>3. \A n \in 0..m : g[n] = f[n]
    BY <2>1, <2>2 DEF LaidOn
  <2>4. \A n \in 0..m + 1 : n # 0 => g[n - 1] = f[n - 1]
    BY <2>3
  <2>5. LaidOn(g, w, m + 1)
    BY <2>2, <2>4 DEF LaidOn
  <2> QED  BY <1>1, <2>5
<1>4. k \in N
  BY <1>2, <1>3, Induction
<1> QED  BY <1>1, <1>4

LEMMA CentralsIs ==
  ASSUME NEW w, Len(w.entries) \in Nat
  PROVE  \E f : LaidOn(f, w, Len(w.entries)) /\ Centrals(w) = f[Len(w.entries)]
<1>1. \E f : LaidOn(f, w, Len(w.entries))
  BY LaidExists
<1> QED  BY <1>1 DEF Centrals, LaidOn

LEMMA LaidStep ==
  ASSUME NEW w, NEW k \in Nat, NEW f, LaidOn(f, w, k), NEW m \in Nat, m + 1 <= k
  PROVE  f[m + 1] = Raw(f[m], Central(w.entries[m + 1]))
<1>1. PICK n : n = m + 1
  OBVIOUS
<1>2. n \in 0..k /\ n # 0 /\ n - 1 = m
  BY <1>1
<1>3. f[n] = Raw(f[n - 1], Central(w.entries[n]))
  BY <1>2 DEF LaidOn
<1> QED  BY <1>1, <1>2, <1>3

\* The writer u has the first n records of the directory of w.
LaidUpTo(u, w, n) ==
  /\ Sound(u) /\ Follows(u.out, w.out) /\ Len(u.out) = Len(w.out) + n
  /\ n = 0 => u.offset = w.offset
  /\ \A k \in 1..n : \E at : /\ u.out[Len(w.out) + k] = CentralAt(w.entries[k], at)
                             /\ k = 1 => at = w.offset

LEMMA LaidFurther ==
  ASSUME NEW w, Sound(w), NEW n \in Nat, Recordable(w.entries[n + 1]), NEW u, LaidUpTo(u, w, n),
         NEW v, v = Raw(u, Central(w.entries[n + 1]))
  PROVE  LaidUpTo(v, w, n + 1)
<1>1. PICK e : e = w.entries[n + 1]
  OBVIOUS
<1>2. PICK b : b = CentralAt(e, Size(u.out))
  OBVIOUS
<1>3. Recordable(e)
  BY <1>1
<1>4. b.kind = "central" /\ b.at = Size(u.out) /\ b.len = Central(e).len /\ b.len \in Nat /\ b.len > 0
  <2>1. PICK at : at = Size(u.out)
    OBVIOUS
  <2>2. b = CentralAt(e, at)
    BY <1>2, <2>1
  <2>3. b.kind = "central" /\ b.at = at /\ b.len = Central(e).len /\ b.len \in Nat /\ b.len > 0
    BY ONLY <1>3, <2>2, CentralPlaced
  <2> QED  BY <2>1, <2>3
<1>5. PICK block : block = Central(e)
  OBVIOUS
<1>6. Sound(u) /\ Follows(u.out, w.out) /\ Len(u.out) = Len(w.out) + n
  BY DEF LaidUpTo
<1>7. Laid(u.out, block) = Append(u.out, b) /\ block.len = b.len /\ v = Raw(u, block)
  BY <1>1, <1>2, <1>4, <1>5 DEF Laid, CentralAt
<1>8. Sound(v) /\ Len(v.out) = Len(u.out) + 1 /\ Follows(v.out, u.out)
  BY ONLY <1>4, <1>6, <1>7, RawWrites, ZenonT(60)
<1>81. v.out[Len(u.out) + 1] = b
  BY ONLY <1>4, <1>6, <1>7, RawWrites
<1>9. Len(w.out) \in Nat /\ Len(u.out) \in Nat /\ Len(v.out) \in Nat
  BY <1>6, <1>8, ChainSize DEF Sound
<1>10. Follows(v.out, w.out)
  BY <1>6, <1>8, <1>9, FollowsOn
<1>11. Len(v.out) = Len(w.out) + (n + 1)
  <2>1. PICK p, q, r : p = Len(w.out) /\ q = Len(u.out) /\ r = Len(v.out)
    OBVIOUS
  <2>2. p \in Nat /\ q = p + n /\ r = q + 1
    BY <1>6, <1>8, <1>9, <2>1
  <2>3. r = p + (n + 1)
    BY ONLY <2>2, n \in Nat
  <2> QED  BY <2>1, <2>3
<1>12. ASSUME NEW k \in 1..n + 1
       PROVE  \E at : /\ v.out[Len(w.out) + k] = CentralAt(w.entries[k], at)
                      /\ k = 1 => at = w.offset
  <2>1. CASE k \in 1..n
    <3>1. PICK at : /\ u.out[Len(w.out) + k] = CentralAt(w.entries[k], at)
                    /\ k = 1 => at = w.offset
      BY <2>1 DEF LaidUpTo
    <3>2. PICK j : j = Len(w.out) + k
      OBVIOUS
    <3>3. j \in 1..Len(u.out)
      BY <1>6, <1>9, <2>1, <3>2
    <3>4. v.out[j] = u.out[j]
      BY <1>8, <3>3 DEF Follows
    <3> QED  BY <3>1, <3>2, <3>4
  <2>2. CASE k = n + 1
    <3>1. Len(w.out) + k = Len(u.out) + 1
      <4>1. PICK p, q : p = Len(w.out) /\ q = Len(u.out)
        OBVIOUS
      <4>2. p \in Nat /\ q = p + n
        BY <1>6, <1>9, <4>1
      <4>3. p + k = q + 1
        BY ONLY <2>2, <4>2, n \in Nat
      <4> QED  BY <4>1, <4>3
    <3>2. v.out[Len(w.out) + k] = CentralAt(w.entries[k], Size(u.out))
      BY <1>1, <1>2, <1>81, <2>2, <3>1
    <3>3. ASSUME k = 1 PROVE Size(u.out) = w.offset
      <4>1. n = 0
        BY <2>2, <3>3
      <4> QED  BY <1>6, <4>1 DEF LaidUpTo, Sound
    <3> QED  BY <3>2, <3>3
  <2>3. k \in 1..n \/ k = n + 1
    OBVIOUS
  <2> QED  BY <2>1, <2>2, <2>3
<1>13. n + 1 # 0
  OBVIOUS
<1> QED  BY <1>8, <1>10, <1>11, <1>12, <1>13 DEF LaidUpTo

LEMMA CentralsLaid ==
  ASSUME NEW w, Sound(w), \A k \in DOMAIN w.entries : Recordable(w.entries[k])
  PROVE  LaidUpTo(Centrals(w), w, Len(w.entries))
<1>1. Len(w.entries) \in Nat /\ DOMAIN w.entries = 1..Len(w.entries)
  BY SequenceFacts DEF Sound
<1>2. PICK f : LaidOn(f, w, Len(w.entries)) /\ Centrals(w) = f[Len(w.entries)]
  BY <1>1, CentralsIs
<1>3. PICK N : N = {n \in Nat : n <= Len(w.entries) => LaidUpTo(f[n], w, n)}
  OBVIOUS
<1>4. 0 \in N
  <2>1. f[0] = w
    BY <1>1, <1>2 DEF LaidOn
  <2>2. Len(w.out) \in Nat
    BY ChainSize DEF Sound
  <2>3. LaidUpTo(w, w, 0)
    BY <2>2 DEF LaidUpTo, Follows
  <2> QED  BY <1>3, <2>1, <2>3
<1>5. ASSUME NEW n \in Nat, n \in N PROVE n + 1 \in N
  <2> SUFFICES ASSUME n + 1 <= Len(w.entries) PROVE LaidUpTo(f[n + 1], w, n + 1)
    BY <1>3
  <2>1. f[n + 1] = Raw(f[n], Central(w.entries[n + 1]))
    BY <1>1, <1>2, LaidStep
  <2>2. LaidUpTo(f[n], w, n)
    BY <1>1, <1>3, <1>5
  <2>3. Recordable(w.entries[n + 1])
    <3>1. n + 1 \in DOMAIN w.entries
      BY <1>1
    <3> QED  BY <3>1
  <2> QED  BY <2>1, <2>2, <2>3, LaidFurther
<1>6. Len(w.entries) \in N
  BY <1>1, <1>4, <1>5, Induction
<1> QED  BY <1>1, <1>2, <1>3, <1>6

\* The directory of w, behind its entries in a, leads to each of them.
LEMMA DirectoryRead ==
  ASSUME NEW w, NEW expected, Written(w, expected), Len(expected) = Len(w.entries),
         NEW a, Chain(a), Follows(a, Centrals(w).out),
         NEW final, final.count = Len(w.entries), NEW d, d = Directory(a, final, w.offset)
  PROVE  HoldsAll(a, final, d, expected)
<1>1. PICK u : u = Centrals(w)
  OBVIOUS
<1>2. Sound(w) /\ \A k \in DOMAIN w.entries : Recordable(w.entries[k])
  BY DEF Written
<1>3. LaidUpTo(u, w, Len(w.entries))
  BY ONLY <1>1, <1>2, CentralsLaid
<1>4. PICK m, n, l : m = Len(w.out) /\ n = Len(w.entries) /\ l = Len(a)
  OBVIOUS
<1>5. m \in Nat /\ n \in Nat /\ l \in Nat /\ DOMAIN w.entries = 1..n /\ DOMAIN a = 1..l /\ w.offset \in Nat
  <2>1. m \in Nat /\ l \in Nat /\ DOMAIN a = 1..l /\ Size(w.out) \in Nat
    BY <1>2, <1>4, ChainSize DEF Sound
  <2>2. n \in Nat /\ DOMAIN w.entries = 1..n
    BY <1>2, <1>4, SequenceFacts DEF Sound
  <2> QED  BY <1>2, <2>1, <2>2 DEF Sound
<1>6. Len(u.out) = m + n /\ Follows(u.out, w.out) /\ Follows(a, u.out)
  BY <1>1, <1>3, <1>4 DEF LaidUpTo
<1>7. m + n <= l /\ (\A i \in 1..m + n : a[i] = u.out[i]) /\ Follows(a, w.out)
  <2>1. m + n \in Nat
    BY <1>5
  <2>2. Follows(a, w.out)
    BY <1>4, <1>5, <1>6, <2>1, FollowsOn
  <2> QED  BY <1>4, <1>6, <2>2 DEF Follows
<1>8. \A k \in 1..n : \E at : a[m + k] = CentralAt(w.entries[k], at) /\ (k = 1 => at = w.offset)
  <2> SUFFICES ASSUME NEW k \in 1..n
               PROVE  \E at : a[m + k] = CentralAt(w.entries[k], at) /\ (k = 1 => at = w.offset)
    OBVIOUS
  <2>1. PICK at : u.out[m + k] = CentralAt(w.entries[k], at) /\ (k = 1 => at = w.offset)
    BY <1>3, <1>4 DEF LaidUpTo
  <2>2. PICK j : j = m + k
    OBVIOUS
  <2>3. j \in 1..m + n
    BY ONLY <1>5, <2>2, k \in 1..n
  <2>4. a[j] = u.out[j]
    BY <1>7, <2>3
  <2> QED  BY <2>1, <2>2, <2>4
<1>9. \A k \in 1..n : a[m + k].kind = "central"
  <2> SUFFICES ASSUME NEW k \in 1..n PROVE a[m + k].kind = "central"
    OBVIOUS
  <2>1. PICK at : a[m + k] = CentralAt(w.entries[k], at)
    BY <1>8
  <2>2. Recordable(w.entries[k])
    BY <1>2, <1>5
  <2> QED  BY ONLY <2>1, <2>2, CentralPlaced
<1>10. CASE n = 0
  <2>1. d = <<>>
    BY <1>4, <1>10 DEF Directory
  <2>2. Len(d) = 0 /\ DOMAIN d = {}
    BY <2>1, ChainNone, EmptySeq
  <2> QED  BY <1>4, <1>10, <2>2 DEF HoldsAll
<1>11. CASE n # 0
  <2>1. BlockAt(a, w.offset, "central") = m + 1
    <3>1. PICK i, at : i = m + 1 /\ at = w.offset
      OBVIOUS
    <3>2. i \in DOMAIN a
      BY ONLY <1>5, <1>7, <1>11, <3>1
    <3>3. a[i] = CentralAt(w.entries[1], at) /\ Recordable(w.entries[1])
      <4>1. 1 \in 1..n
        BY <1>5, <1>11
      <4> QED  BY <1>2, <1>5, <1>8, <3>1, <4>1
    <3>4. a[i].kind = "central" /\ a[i].at = at
      BY ONLY <3>3, CentralPlaced
    <3>5. BlockAt(a, a[i].at, a[i].kind) = i
      BY ONLY Chain(a), <3>2, <3>4, BlockIs
    <3> QED  BY <3>1, <3>4, <3>5
  <2>2. ~(m + 1 = 0 \/ m + 1 + n - 1 > l)
    BY ONLY <1>5, <1>7
  <2>3. ~\E j \in (m + 1)..(m + 1 + n - 1) : a[j].kind # "central"
    <3> SUFFICES ASSUME NEW j \in (m + 1)..(m + 1 + n - 1) PROVE a[j].kind = "central"
      OBVIOUS
    <3>1. PICK k : k = j - m
      OBVIOUS
    <3>2. k \in 1..n /\ m + k = j
      BY ONLY <1>5, <3>1, j \in (m + 1)..(m + 1 + n - 1)
    <3> QED  BY <1>9, <3>2
  <2>4. d = SubSeq(a, m + 1, m + 1 + n - 1)
    BY <1>4, <1>11, <2>1, <2>2, <2>3 DEF Directory
  <2>5. Len(d) = n /\ DOMAIN d = 1..n /\ \A k \in 1..n : d[k] = a[m + k]
    <3>1. a \in Seq(ToSet(a))
      BY SequenceFacts DEF Chain
    <3>2. PICK p, q : p = m + 1 /\ q = m + 1 + n - 1
      OBVIOUS
    <3>3. p \in 1..l + 1 /\ q \in p - 1..l /\ q - p + 1 = n /\ d = SubSeq(a, p, q)
      BY <1>5, <1>7, <2>4, <3>2
    <3>4. d \in Seq(ToSet(a)) /\ Len(d) = q - p + 1 /\ \A i \in 1..q - p + 1 : d[i] = a[p + i - 1]
      BY ONLY <1>4, <3>1, <3>3, SubSeqProperties, SMTT(30)
    <3>5. \A k \in 1..n : p + k - 1 = m + k
      BY ONLY <1>5, <3>2
    <3> QED  BY <3>3, <3>4, <3>5, LenProperties
  <2>6. ASSUME NEW k \in 1..n, NEW r, r = Resolved(d[k])
        PROVE  HoldsEntry(a, r, BlockAt(a, r.offset, "local"), expected[k])
    <3>1. PICK e : e = w.entries[k]
      OBVIOUS
    <3>2. PICK i : Recordable(e) /\ Stands(w.out, e, i, expected[k])
      BY <1>5, <3>1 DEF Written
    <3>3. PICK y : y = w.out
      OBVIOUS
    <3>4. Stands(a, e, i, expected[k])
      <4>1. Len(y) \in Nat /\ Len(a) \in Nat /\ Follows(a, y) /\ Stands(y, e, i, expected[k])
        BY <1>4, <1>5, <1>7, <3>2, <3>3
      <4> QED  BY ONLY <4>1, StandsOn
    <3>5. i \in DOMAIN a /\ a[i].kind = "local" /\ a[i].at = e.offset /\ HoldsEntry(a, e, i, expected[k])
      BY <1>4, <1>5, <3>4 DEF Stands
    <3>6. BlockAt(a, e.offset, "local") = i
      <4>1. BlockAt(a, a[i].at, a[i].kind) = i
        BY ONLY Chain(a), <3>5, BlockIs
      <4> QED  BY <3>5, <4>1
    <3>7. PICK at : d[k] = CentralAt(e, at)
      BY <1>8, <2>5, <3>1
    <3>8. PICK c, x : c = d[k] /\ x = expected[k]
      OBVIOUS
    <3>9. Recordable(e) /\ c = CentralAt(e, at) /\ r = Resolved(c) /\ HoldsEntry(a, e, i, x)
      BY <2>6, <3>2, <3>5, <3>7, <3>8
    <3>10. r.offset = e.offset /\ HoldsEntry(a, r, i, x)
      BY ONLY <3>9, EntryRead
    <3> QED  BY <3>6, <3>8, <3>10
  <2> QED  BY <1>4, <2>5, <2>6 DEF HoldsAll
<1> QED  BY <1>10, <1>11

\* The record that ends the archive, or the one its locator leads to, has the directory.
LEMMA EndRead ==
  ASSUME NEW w, Sound(w), NEW u, LaidUpTo(u, w, Len(w.entries)), NEW a, a = WithEnds(w, u)
  PROVE  Chain(a) /\ Follows(a, u.out) /\ EndOf(a).count = Len(w.entries) /\ EndOf(a).start = w.offset
<1>1. PICK y, at, n, size, start : /\ y = u.out /\ at = Size(y) /\ n = Len(w.entries)
                                   /\ size = u.offset - w.offset /\ start = w.offset
  OBVIOUS
<1>2. Chain(y) /\ u.offset = at /\ Len(y) \in Nat /\ at \in Nat
  BY <1>1, ChainSize DEF LaidUpTo, Sound
<1>3. CASE FitsPlainEnd(w, u)
  <2>1. PICK b : b = [EndRecord(n, size, start) EXCEPT !.at = at]
    OBVIOUS
  <2>2. b.kind = "end" /\ b.at = at /\ b.len = 22 /\ b.count = n /\ b.size = size /\ b.start = start
    BY ONLY <2>1 DEF EndRecord
  <2>3. a = Append(y, b)
    BY <1>1, <1>3, <2>1 DEF WithEnds, Laid
  <2>4. Chain(a) /\ Follows(a, y)
    <3>1. b.at = Size(y) /\ b.len \in Nat /\ b.len > 0
      BY <1>1, <2>2
    <3> QED  BY ONLY <1>2, <2>3, <3>1, ChainLaid
  <2>5. Last(a) = b
    <3>1. Sequence(y)
      BY <1>2 DEF Chain
    <3> QED  BY ONLY <2>3, <3>1, SequenceAppend
  <2>6. Sub \notin {size, start}
    <3>1. size < Sub /\ start < Sub
      BY <1>1, <1>3 DEF FitsPlainEnd
    <3>2. Sub \in Nat
      BY ArchiveAssumption
    <3>3. start \in Nat /\ size \in Int
      <4>1. w.offset = Size(w.out) /\ Chain(w.out)
        BY DEF Sound
      <4>2. w.offset \in Nat
        BY <4>1, ChainSize
      <4> QED  BY <1>1, <1>2, <4>2
    <3> QED  BY ONLY <3>1, <3>2, <3>3
  <2>7. EndOf(a) = b
    BY <2>2, <2>5, <2>6 DEF EndOf
  <2> QED  BY <1>1, <2>2, <2>4, <2>7
<1>4. CASE ~FitsPlainEnd(w, u)
  <2>1. PICK b1 : b1 = [End64Record(n, size, start) EXCEPT !.at = at]
    OBVIOUS
  <2>2. b1.kind = "end64" /\ b1.at = at /\ b1.len = 56 /\ b1.count = n /\ b1.start = start
    BY ONLY <2>1 DEF End64Record
  <2>3. PICK y1 : y1 = Append(y, b1)
    OBVIOUS
  <2>4. Chain(y1) /\ Follows(y1, y) /\ Len(y1) = Len(y) + 1 /\ y1[Len(y) + 1] = b1
    <3>1. b1.at = Size(y) /\ b1.len \in Nat /\ b1.len > 0
      BY <1>1, <2>2
    <3> QED  BY ONLY <1>2, <2>3, <3>1, ChainLaid
  <2>5. PICK b2 : b2 = [Locator(at) EXCEPT !.at = Size(y1)]
    OBVIOUS
  <2>6. b2.kind = "locator" /\ b2.at = Size(y1) /\ b2.len = 20 /\ b2.to = at
    <3>1. PICK o : o = Size(y1)
      OBVIOUS
    <3>2. b2 = [Locator(at) EXCEPT !.at = o]
      BY <2>5, <3>1
    <3> QED  BY ONLY <3>1, <3>2 DEF Locator
  <2>7. PICK y2 : y2 = Append(y1, b2)
    OBVIOUS
  <2>8. Chain(y2) /\ Follows(y2, y1) /\ Len(y2) = Len(y1) + 1 /\ y2[Len(y1) + 1] = b2
    <3>1. b2.len \in Nat /\ b2.len > 0 /\ b2.at = Size(y1)
      BY ONLY <2>6
    <3>2. Chain(y1)
      BY ONLY <2>4
    <3> QED  BY ONLY <2>7, <3>1, <3>2, ChainLaid
  <2>9. PICK b3 : b3 = [EndRecord(Sub16, Sub, Sub) EXCEPT !.at = Size(y2)]
    OBVIOUS
  <2>10. b3.kind = "end" /\ b3.at = Size(y2) /\ b3.len = 22 /\ b3.size = Sub
    <3>1. PICK o, s, t : o = Size(y2) /\ s = Sub /\ t = Sub16
      OBVIOUS
    <3>2. b3 = [EndRecord(t, s, s) EXCEPT !.at = o]
      BY <2>9, <3>1
    <3> QED  BY ONLY <3>1, <3>2 DEF EndRecord
  <2>11. a = Append(y2, b3)
    <3>1. a = Laid(Laid(Laid(y, End64Record(n, size, start)), Locator(at)), EndRecord(Sub16, Sub, Sub))
      BY <1>1, <1>2, <1>4 DEF WithEnds
    <3>2. Laid(y, End64Record(n, size, start)) = y1
      BY <1>1, <2>1, <2>3 DEF Laid
    <3>3. Laid(y1, Locator(at)) = y2
      BY <2>5, <2>7 DEF Laid
    <3>4. Laid(y2, EndRecord(Sub16, Sub, Sub)) = Append(y2, b3)
      BY <2>9 DEF Laid
    <3> QED  BY <3>1, <3>2, <3>3, <3>4
  <2>12. Chain(a) /\ Follows(a, y2) /\ Len(a) = Len(y2) + 1
    <3>1. b3.len \in Nat /\ b3.len > 0
      BY <2>10
    <3> QED  BY ONLY <2>8, <2>10, <2>11, <3>1, ChainLaid
  <2>13. Last(a) = b3
    <3>1. Sequence(y2)
      BY <2>8 DEF Chain
    <3> QED  BY ONLY <2>11, <3>1, SequenceAppend
  <2>14. PICK p : p = Len(y)
    OBVIOUS
  <2>15. p \in Nat /\ Len(y1) = p + 1 /\ Len(y2) = p + 2 /\ Len(a) = p + 3
    BY ONLY <1>2, <2>4, <2>8, <2>12, <2>14
  <2>16. a[p + 1] = b1 /\ a[p + 2] = b2
    <3>1. p + 1 \in 1..Len(y1) /\ p + 1 \in 1..Len(y2) /\ p + 2 \in 1..Len(y2) /\ Len(y1) + 1 = p + 2
      BY ONLY <2>15
    <3>2. y2[p + 1] = b1 /\ y2[p + 2] = b2
      BY <2>4, <2>8, <2>14, <3>1 DEF Follows
    <3> QED  BY <2>12, <3>1, <3>2 DEF Follows
  <2>17. Follows(a, y)
    <3>1. Len(y1) \in Nat /\ Len(y2) \in Nat /\ Len(a) \in Nat
      BY ONLY <2>15
    <3>2. Follows(y2, y)
      BY ONLY <1>2, <2>4, <2>8, <3>1, FollowsOn
    <3> QED  BY ONLY <1>2, <2>12, <3>1, <3>2, FollowsOn
  <2>18. BlockAt(a, at, "end64") = p + 1
    <3>1. PICK i : i = p + 1
      OBVIOUS
    <3>2. i \in DOMAIN a
      <4>1. DOMAIN a = 1..Len(a)
        BY <2>12, ChainSize
      <4> QED  BY ONLY <2>15, <3>1, <4>1
    <3>3. a[i] = b1
      BY <2>16, <3>1
    <3>4. a[i].kind = "end64" /\ a[i].at = at
      BY <2>2, <3>3
    <3>5. BlockAt(a, a[i].at, a[i].kind) = i
      BY ONLY <2>12, <3>2, <3>4, BlockIs
    <3> QED  BY <3>1, <3>4, <3>5
  <2>19. EndOf(a) = b1
    <3>1. ~(Sub \notin {Last(a).size, Last(a).start})
      BY <2>10, <2>13
    <3>2. a[Len(a) - 1].to = at
      <4>1. Len(a) - 1 = p + 2
        BY ONLY <2>15
      <4> QED  BY <2>6, <2>16, <4>1
    <3>3. p + 1 # 0
      BY <2>15
    <3> QED  BY <2>16, <2>18, <3>1, <3>2, <3>3 DEF EndOf
  <2> QED  BY <1>1, <2>2, <2>12, <2>17, <2>19
<1> QED  BY <1>3, <1>4

\* What is written is found, from the end of the archive that is finished.
LEMMA FinishedHolds ==
  ASSUME NEW w, NEW expected, Written(w, expected), Len(expected) = Len(w.entries), NEW a, a = Finished(w)
  PROVE  HoldsAll(a, EndOf(a), Directory(a, EndOf(a), EndOf(a).start), expected)
<1>1. PICK u : u = Centrals(w)
  OBVIOUS
<1>2. Sound(w) /\ \A k \in DOMAIN w.entries : Recordable(w.entries[k])
  BY DEF Written
<1>3. LaidUpTo(u, w, Len(w.entries))
  BY ONLY <1>1, <1>2, CentralsLaid
<1>4. a = WithEnds(w, u)
  BY <1>1 DEF Finished
<1>5. PICK final : final = EndOf(a)
  OBVIOUS
<1>6. Chain(a) /\ Follows(a, u.out) /\ final.count = Len(w.entries) /\ final.start = w.offset
  BY ONLY <1>2, <1>3, <1>4, <1>5, EndRead
<1>7. PICK d : d = Directory(a, final, w.offset)
  OBVIOUS
<1>8. HoldsAll(a, final, d, expected)
  <2>1. Follows(a, Centrals(w).out)
    BY <1>1, <1>6
  <2> QED  BY ONLY <1>6, <1>7, <2>1, Written(w, expected), Len(expected) = Len(w.entries), DirectoryRead
<1> QED  BY <1>5, <1>6, <1>7, <1>8

-----------------------------------------------------------------------------
(* What is added: each path once, and a receipt for every one.               *)

OnceOn(f, s, m) ==
  f = [n \in 0..m |-> IF n = 0 THEN <<>> ELSE IF s[n] \in ToSet(f[n - 1]) THEN f[n - 1] ELSE Append(f[n - 1], s[n])]

LEMMA OnceExists ==
  ASSUME NEW s, NEW k \in Nat
  PROVE  \E f : OnceOn(f, s, k)
<1>1. PICK N : N = {m \in Nat : \E f : OnceOn(f, s, m)}
  OBVIOUS
<1>2. 0 \in N
  <2>1. PICK f : f = [n \in 0..0 |-> <<>>]
    OBVIOUS
  <2>2. OnceOn(f, s, 0)
    BY <2>1 DEF OnceOn
  <2> QED  BY <1>1, <2>2
<1>3. ASSUME NEW m \in Nat, m \in N PROVE m + 1 \in N
  <2>1. PICK f : OnceOn(f, s, m)
    BY <1>1, <1>3
  <2>2. PICK g : g = [n \in 0..m + 1 |-> IF n = 0 THEN <<>>
                                         ELSE IF s[n] \in ToSet(f[n - 1]) THEN f[n - 1] ELSE Append(f[n - 1], s[n])]
    OBVIOUS
  <2>3. \A n \in 0..m : g[n] = f[n]
    <3> SUFFICES ASSUME NEW n \in 0..m PROVE g[n] = f[n]
      OBVIOUS
    <3>1. f[n] = IF n = 0 THEN <<>> ELSE IF s[n] \in ToSet(f[n - 1]) THEN f[n - 1] ELSE Append(f[n - 1], s[n])
      BY <2>1 DEF OnceOn
    <3>2. n \in 0..m + 1
      OBVIOUS
    <3> QED  BY <2>2, <3>1, <3>2
  <2>4. \A n \in 0..m + 1 : n # 0 => g[n - 1] = f[n - 1]
    BY <2>3
  <2>5. OnceOn(g, s, m + 1)
    BY <2>2, <2>4 DEF OnceOn
  <2> QED  BY <1>1, <2>5
<1>4. k \in N
  BY <1>2, <1>3, Induction
<1> QED  BY <1>1, <1>4

LEMMA OnceIs ==
  ASSUME NEW s, Len(s) \in Nat
  PROVE  \E f : OnceOn(f, s, Len(s)) /\ Once(s) = f[Len(s)]
<1>1. \E f : OnceOn(f, s, Len(s))
  BY OnceExists
<1> QED  BY <1>1 DEF Once, OnceOn

\* The elements are the same.
LEMMA OnceElements ==
  ASSUME NEW T, NEW s \in Seq(T)
  PROVE  Once(s) \in Seq(T) /\ ToSet(Once(s)) = ToSet(s)
<1>1. Len(s) \in Nat /\ DOMAIN s = 1..Len(s) /\ \A i \in 1..Len(s) : s[i] \in T
  BY LenProperties
<1>2. PICK f : OnceOn(f, s, Len(s)) /\ Once(s) = f[Len(s)]
  BY <1>1, OnceIs
<1>3. PICK N : N = {m \in Nat : m <= Len(s) => f[m] \in Seq(T) /\ ToSet(f[m]) = {s[i] : i \in 1..m}}
  OBVIOUS
<1>4. 0 \in N
  <2>1. f[0] = <<>>
    BY <1>1, <1>2 DEF OnceOn
  <2>2. f[0] \in Seq(T) /\ ToSet(f[0]) = {}
    <3>1. PICK e : e = f[0]
      OBVIOUS
    <3>2. e \in Seq(T) /\ Len(e) = 0
      BY <2>1, <3>1, EmptySeq
    <3>3. DOMAIN e = {}
      BY <3>2, LenProperties
    <3> QED  BY <3>1, <3>2, <3>3 DEF ToSet
  <2>3. {s[i] : i \in 1..0} = {}
    OBVIOUS
  <2> QED  BY <1>3, <2>2, <2>3
<1>5. ASSUME NEW m \in Nat, m \in N PROVE m + 1 \in N
  <2> SUFFICES ASSUME m + 1 <= Len(s)
               PROVE  f[m + 1] \in Seq(T) /\ ToSet(f[m + 1]) = {s[i] : i \in 1..m + 1}
    BY <1>3
  <2>1. f[m + 1] = IF s[m + 1] \in ToSet(f[m]) THEN f[m] ELSE Append(f[m], s[m + 1])
    <3>1. PICK n : n = m + 1
      OBVIOUS
    <3>2. n \in 0..Len(s) /\ n # 0 /\ n - 1 = m
      BY <1>1, <3>1
    <3>3. f[n] = IF s[n] \in ToSet(f[n - 1]) THEN f[n - 1] ELSE Append(f[n - 1], s[n])
      BY <1>2, <3>2 DEF OnceOn
    <3> QED  BY <3>1, <3>2, <3>3
  <2>2. f[m] \in Seq(T) /\ ToSet(f[m]) = {s[i] : i \in 1..m}
    <3>1. m <= Len(s)
      BY <1>1
    <3> QED  BY ONLY <1>3, <1>5, <3>1
  <2>3. PICK x : x = s[m + 1]
    OBVIOUS
  <2>4. x \in T
    <3>1. m + 1 \in 1..Len(s)
      BY <1>1
    <3> QED  BY <1>1, <2>3, <3>1
  <2>5. {s[i] : i \in 1..m + 1} = {s[i] : i \in 1..m} \union {x}
    <3>1. \A i : i \in 1..m + 1 <=> i \in 1..m \/ i = m + 1
      OBVIOUS
    <3> QED  BY <2>3, <3>1
  <2>6. CASE x \in ToSet(f[m])
    <3>1. f[m + 1] = f[m]
      BY <2>1, <2>3, <2>6
    <3> QED  BY <2>2, <2>5, <2>6, <3>1
  <2>7. CASE x \notin ToSet(f[m])
    <3>1. PICK t, r : t = f[m + 1] /\ r = f[m]
      OBVIOUS
    <3>2. t = Append(r, x) /\ r \in Seq(T)
      BY <2>1, <2>2, <2>3, <2>7, <3>1
    <3>3. t \in Seq(T) /\ ToSet(t) = ToSet(r) \union {x}
      <4>1. /\ t \in Seq(T) /\ Len(t) = Len(r) + 1 /\ t[Len(r) + 1] = x /\ Len(r) \in Nat
            /\ DOMAIN r = 1..Len(r) /\ DOMAIN t = 1..Len(r) + 1 /\ \A i \in 1..Len(r) : t[i] = r[i]
        BY <2>4, <3>2, AppendProperties, LenProperties
      <4>2. \A y \in ToSet(t) : y \in ToSet(r) \union {x}
        <5> SUFFICES ASSUME NEW i \in 1..Len(r) + 1 PROVE t[i] \in ToSet(r) \union {x}
          BY <4>1 DEF ToSet
        <5>1. CASE i \in 1..Len(r)
          BY <4>1, <5>1 DEF ToSet
        <5>2. CASE i = Len(r) + 1
          BY <4>1, <5>2
        <5> QED  BY <4>1, <5>1, <5>2
      <4>3. \A y \in ToSet(r) \union {x} : y \in ToSet(t)
        <5>1. ASSUME NEW i \in 1..Len(r) PROVE r[i] \in ToSet(t)
          <6>1. i \in 1..Len(r) + 1 /\ t[i] = r[i]
            BY <4>1
          <6> QED  BY <4>1, <6>1 DEF ToSet
        <5>2. x \in ToSet(t)
          <6>1. Len(r) + 1 \in 1..Len(r) + 1
            BY <4>1
          <6> QED  BY <4>1, <6>1 DEF ToSet
        <5> QED  BY <4>1, <5>1, <5>2 DEF ToSet
      <4> QED  BY <4>1, <4>2, <4>3
    <3> QED  BY <2>2, <2>5, <3>1, <3>3
  <2> QED  BY <2>6, <2>7
<1>6. Len(s) \in N
  BY <1>1, <1>4, <1>5, Induction
<1>7. f[Len(s)] \in Seq(T) /\ ToSet(f[Len(s)]) = {s[i] : i \in 1..Len(s)}
  BY <1>1, <1>3, <1>6
<1>8. ToSet(s) = {s[i] : i \in 1..Len(s)}
  BY <1>1 DEF ToSet
<1> QED  BY <1>2, <1>7, <1>8

LEMMA ConcatElements ==
  ASSUME NEW T
  PROVE  \A r, s \in Seq(T) : r \o s \in Seq(T) /\ ToSet(r \o s) = ToSet(r) \union ToSet(s)
<1> SUFFICES ASSUME NEW r \in Seq(T), NEW s \in Seq(T), NEW t, t = r \o s
             PROVE  t \in Seq(T) /\ ToSet(t) = ToSet(r) \union ToSet(s)
  OBVIOUS
<1>1. /\ t \in Seq(T) /\ Len(t) = Len(r) + Len(s) /\ Len(r) \in Nat /\ Len(s) \in Nat
      /\ \A i \in 1..Len(r) + Len(s) : t[i] = IF i <= Len(r) THEN r[i] ELSE s[i - Len(r)]
      /\ DOMAIN r = 1..Len(r) /\ DOMAIN s = 1..Len(s) /\ DOMAIN t = 1..Len(r) + Len(s)
  BY ConcatProperties, LenProperties
<1>2. ASSUME NEW i \in 1..Len(r) + Len(s) PROVE t[i] \in ToSet(r) \union ToSet(s)
  <2>1. CASE i <= Len(r)
    <3>1. i \in 1..Len(r) /\ t[i] = r[i]
      BY <1>1, <2>1
    <3> QED  BY <1>1, <3>1 DEF ToSet
  <2>2. CASE ~(i <= Len(r))
    <3>1. PICK j : j = i - Len(r)
      OBVIOUS
    <3>2. j \in 1..Len(s) /\ t[i] = s[j]
      BY <1>1, <2>2, <3>1
    <3> QED  BY <1>1, <3>2 DEF ToSet
  <2> QED  BY <2>1, <2>2
<1>3. ASSUME NEW i \in 1..Len(r) PROVE r[i] \in ToSet(t)
  <2>1. i \in 1..Len(r) + Len(s) /\ t[i] = r[i]
    BY <1>1
  <2> QED  BY <1>1, <2>1 DEF ToSet
<1>4. ASSUME NEW i \in 1..Len(s) PROVE s[i] \in ToSet(t)
  <2>1. PICK j : j = Len(r) + i
    OBVIOUS
  <2>2. j \in 1..Len(r) + Len(s) /\ ~(j <= Len(r)) /\ j - Len(r) = i
    BY <1>1, <2>1
  <2>3. t[j] = s[i]
    BY <1>1, <2>2
  <2> QED  BY <1>1, <2>2, <2>3 DEF ToSet
<1>5. ToSet(t) \subseteq ToSet(r) \union ToSet(s)
  <2> SUFFICES ASSUME NEW x \in ToSet(t) PROVE x \in ToSet(r) \union ToSet(s)
    OBVIOUS
  <2>1. PICK i \in 1..Len(r) + Len(s) : x = t[i]
    BY <1>1 DEF ToSet
  <2> QED  BY <1>2, <2>1
<1>6. ToSet(r) \subseteq ToSet(t) /\ ToSet(s) \subseteq ToSet(t)
  <2>1. ASSUME NEW x \in ToSet(r) PROVE x \in ToSet(t)
    <3>1. PICK i \in 1..Len(r) : x = r[i]
      BY <1>1 DEF ToSet
    <3> QED  BY <1>3, <3>1
  <2>2. ASSUME NEW x \in ToSet(s) PROVE x \in ToSet(t)
    <3>1. PICK i \in 1..Len(s) : x = s[i]
      BY <1>1 DEF ToSet
    <3> QED  BY <1>4, <3>1
  <2> QED  BY <2>1, <2>2
<1> QED  BY <1>1, <1>5, <1>6

LEMMA LeastIsThere ==
  ASSUME NEW n \in Nat, NEW S \in SUBSET (1..n), S # {}
  PROVE  First(S) \in S
<1>1. PICK N : N = {k \in Nat : (\E i \in S : i <= k) => \E i \in S : \A j \in S : i <= j}
  OBVIOUS
<1>2. 0 \in N
  BY <1>1
<1>3. ASSUME NEW k \in Nat, k \in N PROVE k + 1 \in N
  <2> SUFFICES ASSUME NEW i \in S, i <= k + 1 PROVE \E l \in S : \A j \in S : l <= j
    BY <1>1
  <2>1. CASE \E l \in S : l <= k
    BY <1>1, <1>3, <2>1
  <2>2. CASE ~\E l \in S : l <= k
    <3>1. i = k + 1 /\ \A j \in S : k + 1 <= j
      BY <2>2
    <3> QED  BY <3>1
  <2> QED  BY <2>1, <2>2
<1>4. n \in N
  BY <1>2, <1>3, Induction
<1>5. \E i \in S : \A j \in S : i <= j
  <2>1. PICK i : i \in S
    OBVIOUS
  <2>2. i <= n
    BY <2>1
  <2> QED  BY <1>1, <1>4, <2>1, <2>2
<1> QED  BY <1>5 DEF First

\* Paths that are listed are those that either list names.
LEMMA ListedElements ==
  ASSUME src \in Sources, NEW named, NEW Paths,
         Paths = ToSet(src.manifest.replication) \union ToSet(src.manifest.sinf)
  PROVE  /\ Listed(named) \in Seq(Paths) /\ ToSet(Listed(named)) \subseteq Paths
         /\ named # {} => ToSet(Listed(named)) = Paths \ {Empty}
<1>1. PICK r, s : r = src.manifest.replication /\ s = src.manifest.sinf
  OBVIOUS
<1>2. r \in Seq(Paths) /\ s \in Seq(Paths) /\ Paths = ToSet(r) \union ToSet(s)
  BY <1>1, PackAssumption DEF WellPacked
<1>3. PICK all : all = r \o s
  OBVIOUS
<1>4. all \in Seq(Paths) /\ ToSet(all) = Paths
  <2>1. all \in Seq(Paths) /\ ToSet(all) = ToSet(r) \union ToSet(s)
    <3>1. all \in Seq(Paths)
      BY <1>2, <1>3, ConcatElements
    <3>2. ToSet(all) = ToSet(r) \union ToSet(s)
      <4>1. r \in Seq(Paths) /\ s \in Seq(Paths)
        BY <1>2
      <4>2. PICK T : r \in Seq(T) /\ s \in Seq(T)
        BY <4>1
      <4>3. PICK t : t = r \o s
        OBVIOUS
      <4>4. ToSet(r \o s) = ToSet(r) \union ToSet(s)
        BY ONLY <4>2, ConcatElements
      <4> QED  BY <1>3, <4>3, <4>4
    <3> QED  BY <3>1, <3>2
  <2> QED  BY <1>2, <2>1
<1>5. CASE named = {}
  <2>1. Listed(named) = <<>>
    BY <1>5 DEF Listed
  <2>2. PICK e : e = <<>>
    OBVIOUS
  <2>3. e \in Seq(Paths) /\ ToSet(e) = {}
    <3>1. e \in Seq(Paths) /\ Len(e) = 0
      BY <2>2, EmptySeq
    <3>2. DOMAIN e = {}
      BY <3>1, LenProperties
    <3> QED  BY <3>1, <3>2 DEF ToSet
  <2> QED  BY <1>5, <2>1, <2>2, <2>3
<1>6. CASE named # {}
  <2>1. PICK V : V = Paths \ {Empty}
    OBVIOUS
  <2>2. Listed(named) = Keep(all, V)
    BY <1>1, <1>3, <1>4, <1>6, <2>1 DEF Listed
  <2>3. Keep(all, V) \in Seq(Paths) /\ ToSet(Keep(all, V)) = ToSet(all) \intersect V
    BY <1>4, KeepElements
  <2> QED  BY <1>4, <2>1, <2>2, <2>3
<1> QED  BY <1>5, <1>6

LEMMA ThreeSegments ==
  ASSUME NEW a, NEW b, NEW c, NEW s, s = <<a, b>> \o <<c>>
  PROVE  Len(s) = 3 /\ s[2] = b /\ s[3] = c
<1>1. PICK T : T = {a, b, c}
  OBVIOUS
<1>2. <<a, b>> \in Seq(T) /\ Len(<<a, b>>) = 2 /\ <<c>> \in Seq(T) /\ Len(<<c>>) = 1
  BY <1>1
<1>3. PICK l, r : l = <<a, b>> /\ r = <<c>>
  OBVIOUS
<1>4. l \in Seq(T) /\ Len(l) = 2 /\ r \in Seq(T) /\ Len(r) = 1 /\ s = l \o r
  BY <1>2, <1>3
<1>5. Len(s) = 3 /\ \A i \in 1..3 : s[i] = IF i <= 2 THEN l[i] ELSE r[i - 2]
  <2>1. Len(s) = Len(l) + Len(r) /\ \A i \in 1..Len(l) + Len(r) : s[i] = IF i <= Len(l) THEN l[i] ELSE r[i - Len(l)]
    BY ONLY <1>4, ConcatProperties
  <2>2. Len(l) + Len(r) = 3
    BY <1>4
  <2> QED  BY <1>4, <2>1, <2>2
<1>6. s[2] = l[2] /\ s[3] = r[1]
  BY <1>5
<1> QED  BY <1>3, <1>5, <1>6

LEMMA FourSegments ==
  ASSUME NEW a, NEW b, NEW c, NEW d, NEW s, s = <<a, b>> \o <<c, d>>
  PROVE  Len(s) = 4 /\ s[3] = c
<1>1. PICK T : T = {a, b, c, d}
  OBVIOUS
<1>2. <<a, b>> \in Seq(T) /\ Len(<<a, b>>) = 2 /\ <<c, d>> \in Seq(T) /\ Len(<<c, d>>) = 2
  BY <1>1
<1>3. PICK l, r : l = <<a, b>> /\ r = <<c, d>>
  OBVIOUS
<1>4. l \in Seq(T) /\ Len(l) = 2 /\ r \in Seq(T) /\ Len(r) = 2 /\ s = l \o r
  BY <1>2, <1>3
<1>5. Len(s) = 4 /\ \A i \in 1..4 : s[i] = IF i <= 2 THEN l[i] ELSE r[i - 2]
  <2>1. Len(s) = Len(l) + Len(r) /\ \A i \in 1..Len(l) + Len(r) : s[i] = IF i <= Len(l) THEN l[i] ELSE r[i - Len(l)]
    BY ONLY <1>4, ConcatProperties
  <2>2. Len(l) + Len(r) = 4
    BY <1>4
  <2> QED  BY <1>4, <2>1, <2>2
<1>6. s[3] = r[1]
  BY <1>5
<1> QED  BY <1>3, <1>5, <1>6

\* A receipt's place is no binary, unless it has the name of the bundle's.
LEMMA PlacesAreNoBinaries ==
  ASSUME NEW p
  PROVE  /\ p # Bundle(First(BundlesIn(entries))) => ~IsExecutable(PathName(p).segs)
         /\ ~IsExecutable(Fallback.segs) /\ PathName(p).len = 20 /\ Fallback.len = 30
<1>1. PICK b : b = Bundle(First(BundlesIn(entries)))
  OBVIOUS
<1>2. PICK s : s = PathName(p).segs
  OBVIOUS
<1>3. Len(s) = 3 /\ s[2] = Segment(b, "app") /\ Last(s) = Plain(p)
  <2>1. s = <<Plain("Payload"), Segment(b, "app")>> \o <<Plain(p)>>
    BY <1>1, <1>2 DEF PathName, InBundle
  <2>2. PICK x, y, z : x = Plain("Payload") /\ y = Segment(b, "app") /\ z = Plain(p)
    OBVIOUS
  <2>3. s = <<x, y>> \o <<z>>
    BY <2>1, <2>2
  <2>4. Len(s) = 3 /\ s[2] = y
    BY ONLY <2>3, ThreeSegments
  <2>5. s[3] = z
    BY ONLY <2>3, ThreeSegments
  <2> QED  BY <2>2, <2>4, <2>5 DEF Last
<1>4. ASSUME IsExecutable(s) PROVE p = b
  <2>1. Last(s) = Plain(s[Len(s) - 1].stem)
    BY <1>4 DEF IsExecutable
  <2>2. Len(s) - 1 = 2 /\ s[2].stem = b
    BY <1>3 DEF Segment
  <2>3. Plain(p) = Plain(b)
    BY <1>3, <2>1, <2>2
  <2>4. Plain(p).stem = p /\ Plain(b).stem = b
    BY DEF Plain, Segment
  <2> QED  BY <2>3, <2>4
<1>5. PICK f : f = Fallback.segs
  OBVIOUS
<1>6. Len(f) = 4 /\ f[3] = Plain("SC_Info")
  <2>1. f = <<Plain("Payload"), Segment(b, "app")>> \o <<Plain("SC_Info"), Segment(src.executable, "sinf")>>
    BY <1>1, <1>5 DEF Fallback, InBundle
  <2>2. PICK x, y, z, v : /\ x = Plain("Payload") /\ y = Segment(b, "app") /\ z = Plain("SC_Info")
                          /\ v = Segment(src.executable, "sinf")
    OBVIOUS
  <2>3. f = <<x, y>> \o <<z, v>>
    BY <2>1, <2>2
  <2>4. Len(f) = 4 /\ f[3] = z
    BY ONLY <2>3, FourSegments
  <2> QED  BY <2>2, <2>4
<1>7. ~IsExecutable(f)
  <2>1. Len(f) - 1 = 3 /\ f[3].ext = Empty
    BY <1>6 DEF Plain, Segment
  <2>2. Empty \notin {"app", "framework", "appex"}
    BY DEF Empty
  <2>3. f[Len(f) - 1].ext \notin {"app", "framework", "appex"}
    BY <2>1, <2>2
  <2> QED  BY <2>3 DEF IsExecutable
<1>8. PathName(p).len = 20 /\ Fallback.len = 30
  BY DEF PathName, Fallback
<1> QED  BY <1>1, <1>2, <1>4, <1>5, <1>7, <1>8

Addable(x) == x[1].len \in Nat /\ ~IsExecutable(x[1].segs) /\ x[2] = Bytes(x[2]) /\ x[2].len \in Nat

LEMMA PairAddable ==
  ASSUME NEW name, NEW data, name.len \in Nat, ~IsExecutable(name.segs), data = Bytes(data), data.len \in Nat,
         NEW x, x = <<name, data>>
  PROVE  Addable(x)
  BY DEF Addable

LEMMA TopAddable ==
  ASSUME NEW stem, NEW n \in Nat, NEW len \in Nat, NEW crc, NEW x, x = <<AtTop(stem, n), [len |-> len, crc |-> crc]>>
  PROVE  Addable(x)
<1>1. PICK name, data : name = AtTop(stem, n) /\ data = [len |-> len, crc |-> crc]
  OBVIOUS
<1>2. name.len = n /\ name.segs = <<Plain(stem)>>
  BY <1>1 DEF AtTop
<1>3. ~IsExecutable(name.segs)
  <2>1. PICK s : s = <<Plain(stem)>>
    OBVIOUS
  <2>2. Len(s) = 1
    BY <2>1
  <2>3. ~(Len(s) >= 2)
    BY <2>2
  <2>4. ~IsExecutable(s)
    BY <2>3 DEF IsExecutable
  <2> QED  BY <1>2, <2>1, <2>4
<1>4. data = Bytes(data) /\ data.len \in Nat
  BY <1>1 DEF Bytes
<1>5. name.len \in Nat /\ x = <<name, data>>
  BY <1>1, <1>2
<1> QED  BY ONLY <1>3, <1>4, <1>5, PairAddable

\* Receipts are additions, and each path has one if there is a receipt at all.
LEMMA ReceiptsFit ==
  ASSUME NEW T, \A x \in T : x = Bytes(x) /\ x.len \in Nat, NEW sinfs \in Seq(T), NEW P, NEW paths \in Seq(P),
         \A p \in ToSet(paths) : p # Bundle(First(BundlesIn(entries))),
         NEW r, r = Receipts(sinfs, paths)
  PROVE  /\ Sequence(r) /\ \A x \in ToSet(r) : Addable(x)
         /\ sinfs # <<>> => \A p \in ToSet(paths) : \E x \in ToSet(r) : x[1] = PathName(p)
<1>1. /\ Len(sinfs) \in Nat /\ \A i \in 1..Len(sinfs) : sinfs[i] \in T
      /\ Len(paths) \in Nat /\ DOMAIN paths = 1..Len(paths) /\ ToSet(paths) = {paths[i] : i \in 1..Len(paths)}
  BY LenProperties DEF ToSet
<1>2. CASE sinfs = <<>>
  <2>1. r = <<>>
    BY <1>2 DEF Receipts
  <2>2. Sequence(r) /\ ToSet(r) = {}
    <3>1. r \in Seq({}) /\ Len(r) = 0
      BY <2>1, EmptySeq
    <3>2. Sequence(r) /\ DOMAIN r = 1..Len(r)
      BY <3>1, SequenceOf
    <3>3. DOMAIN r = {}
      BY <3>1, <3>2
    <3> QED  BY <3>2, <3>3 DEF ToSet
  <2> QED  BY <1>2, <2>2
<1>3. CASE sinfs # <<>> /\ paths = <<>>
  <2>1. PICK a : a = <<Fallback, sinfs[1]>>
    OBVIOUS
  <2>2. r = <<a>>
    BY <1>3, <2>1 DEF Receipts
  <2>3. r \in Seq({a}) /\ Len(r) = 1 /\ r[1] = a
    BY <2>2
  <2>4. Sequence(r) /\ ToSet(r) = {a}
    <3>1. Sequence(r) /\ DOMAIN r = 1..1
      BY <2>3, SequenceOf
    <3> QED  BY <2>3, <3>1 DEF ToSet
  <2>5. Addable(a)
    <3>1. PICK name, data : name = Fallback /\ data = sinfs[1]
      OBVIOUS
    <3>2. data \in T
      <4>1. Len(sinfs) # 0
        BY <1>3, EmptySeq
      <4> QED  BY <1>1, <3>1, <4>1
    <3>3. data = Bytes(data) /\ data.len \in Nat
      BY <3>2
    <3>4. name.len = 30 /\ ~IsExecutable(name.segs)
      BY <3>1, PlacesAreNoBinaries
    <3>5. a = <<name, data>> /\ name.len \in Nat
      BY <2>1, <3>1, <3>4
    <3> QED  BY ONLY <3>3, <3>4, <3>5, PairAddable
  <2>6. ToSet(paths) = {}
    <3>1. Len(paths) = 0
      BY <1>3, EmptySeq
    <3> QED  BY <1>1, <3>1
  <2> QED  BY <2>4, <2>5, <2>6
<1>4. CASE sinfs # <<>> /\ paths # <<>>
  <2>1. PICK n : n = Len(sinfs)
    OBVIOUS
  <2>2. n \in Nat /\ n # 0
    BY <1>1, <1>4, <2>1, EmptySeq
  <2>3. PICK g : g = [i \in DOMAIN paths |->
                        IF Len(sinfs) = 1 \/ Len(paths) = 1 THEN sinfs[1]
                        ELSE sinfs[IF i < Len(sinfs) THEN i ELSE Len(sinfs)]]
    OBVIOUS
  <2>4. \A i \in 1..Len(paths) : g[i] \in T
    <3> SUFFICES ASSUME NEW i \in 1..Len(paths) PROVE g[i] \in T
      OBVIOUS
    <3>1. 1 \in 1..n /\ (IF i < n THEN i ELSE n) \in 1..n
      BY <2>2
    <3>2. g[i] = IF n = 1 \/ Len(paths) = 1 THEN sinfs[1] ELSE sinfs[IF i < n THEN i ELSE n]
      BY <1>1, <2>1, <2>3
    <3> QED  BY <1>1, <2>1, <3>1, <3>2
  <2>5. r = [i \in DOMAIN paths |-> <<PathName(paths[i]), g[i]>>]
    BY <1>4, <2>3 DEF Receipts
  <2>6. DOMAIN r = 1..Len(paths) /\ \A i \in 1..Len(paths) : r[i] = <<PathName(paths[i]), g[i]>>
    BY <1>1, <2>5
  <2>7. Sequence(r)
    <3>1. PICK R : R = {r[i] : i \in DOMAIN r}
      OBVIOUS
    <3>2. r \in [1..Len(paths) -> R]
      BY <1>1, <2>5, <2>6, <3>1
    <3>3. r \in Seq(R)
      BY <1>1, <3>2
    <3> QED  BY <3>3, SequenceOf
  <2>8. ToSet(r) = {r[i] : i \in 1..Len(paths)}
    BY <2>6 DEF ToSet
  <2>9. ASSUME NEW i \in 1..Len(paths) PROVE Addable(r[i]) /\ r[i][1] = PathName(paths[i])
    <3>1. PICK name, data, x : name = PathName(paths[i]) /\ data = g[i] /\ x = r[i]
      OBVIOUS
    <3>2. data = Bytes(data) /\ data.len \in Nat
      BY <2>4, <3>1
    <3>3. name.len = 20 /\ ~IsExecutable(name.segs)
      <4>1. paths[i] # Bundle(First(BundlesIn(entries)))
        BY <1>1
      <4> QED  BY <3>1, <4>1, PlacesAreNoBinaries
    <3>4. x = <<name, data>> /\ name.len \in Nat
      BY <2>6, <3>1, <3>3
    <3>5. Addable(x)
      BY ONLY <3>2, <3>3, <3>4, PairAddable
    <3> QED  BY <3>1, <3>4, <3>5
  <2> QED  BY <1>1, <2>7, <2>8, <2>9
<1> QED  BY <1>2, <1>3, <1>4

LEMMA AdditionsFit ==
  ASSUME NEW T, \A x \in T : x = Bytes(x) /\ x.len \in Nat, info.sinfs \in Seq(T), NEW P, NEW paths \in Seq(P),
         \A p \in ToSet(paths) : p # Bundle(First(BundlesIn(entries))),
         NEW t, t = Additions(paths)
  PROVE  /\ Sequence(t) /\ \A x \in ToSet(t) : Addable(x)
         /\ (\E s \in ToSet(info.sinfs) : s.len > 0)
              => \A p \in ToSet(paths) : \E x \in ToSet(t) : x[1] = PathName(p)
<1>1. PICK sinfs : sinfs = Keep(info.sinfs, {s \in ToSet(info.sinfs) : s.len > 0})
  OBVIOUS
<1>2. sinfs \in Seq(T) /\ ToSet(sinfs) = {s \in ToSet(info.sinfs) : s.len > 0}
  <2>1. PICK V : V = {s \in ToSet(info.sinfs) : s.len > 0}
    OBVIOUS
  <2>2. sinfs \in Seq(T) /\ ToSet(sinfs) = ToSet(info.sinfs) \intersect V
    BY <1>1, <2>1, KeepElements
  <2> QED  BY <2>1, <2>2
<1>3. PICK r : r = Receipts(sinfs, paths)
  OBVIOUS
<1>4. /\ Sequence(r) /\ \A x \in ToSet(r) : Addable(x)
      /\ sinfs # <<>> => \A p \in ToSet(paths) : \E x \in ToSet(r) : x[1] = PathName(p)
  <2>1. Sequence(r) /\ \A x \in ToSet(r) : Addable(x)
    BY <1>2, <1>3, ReceiptsFit
  <2>2. sinfs # <<>> => \A p \in ToSet(paths) : \E x \in ToSet(r) : x[1] = PathName(p)
    BY <1>2, <1>3, ReceiptsFit
  <2> QED  BY <2>1, <2>2
<1>5. PICK a, b : /\ a = <<AtTop("iTunesMetadata.plist", 20), [len |-> 40, crc |-> "metadata"]>>
                  /\ b = <<AtTop("iTunesArtwork", 13), [len |-> 50, crc |-> "artwork"]>>
  OBVIOUS
<1>6. Addable(a) /\ Addable(b)
  BY <1>5, TopAddable
<1>7. PICK art : art = IF info.artwork THEN <<b>> ELSE <<>>
  OBVIOUS
<1>8. t = <<a>> \o art \o r
  BY <1>1, <1>3, <1>5, <1>7 DEF Additions
<1>9. PICK R : R = {a, b} \union ToSet(r)
  OBVIOUS
<1>10. \A x \in R : Addable(x)
  BY <1>4, <1>6, <1>9
<1>11. r \in Seq(R)
  <2>1. \A i \in DOMAIN r : r[i] \in R
    BY <1>9 DEF ToSet
  <2> QED  BY <1>4, <2>1, SequenceWider
<1>12. <<a>> \in Seq(R) /\ art \in Seq(R)
  <2>1. a \in R /\ b \in R
    BY <1>9
  <2>2. <<a>> \in Seq(R) /\ <<b>> \in Seq(R)
    BY <2>1
  <2>3. PICK e : e = <<>>
    OBVIOUS
  <2>4. e \in Seq(R)
    BY <2>3, EmptySeq
  <2> QED  BY <1>7, <2>2, <2>3, <2>4
<1>13. PICK l : l = <<a>> \o art
  OBVIOUS
<1>14. l \in Seq(R)
  BY <1>12, <1>13, ConcatElements
<1>15. t \in Seq(R) /\ ToSet(t) = ToSet(l) \union ToSet(r)
  <2>1. t = l \o r
    BY <1>8, <1>13
  <2>2. l \o r \in Seq(R)
    BY <1>11, <1>14, ConcatElements
  <2>3. ToSet(l \o r) = ToSet(l) \union ToSet(r)
    BY ONLY <1>11, <1>14, ConcatElements
  <2> QED  BY <2>1, <2>2, <2>3
<1>16. Sequence(t) /\ ToSet(t) \subseteq R
  <2>1. Sequence(t) /\ DOMAIN t = 1..Len(t)
    BY <1>15, SequenceOf
  <2>2. \A i \in DOMAIN t : t[i] \in R
    BY <1>15, <2>1, LenProperties
  <2> QED  BY <2>1, <2>2 DEF ToSet
<1>17. (\E s \in ToSet(info.sinfs) : s.len > 0) => sinfs # <<>>
  <2> SUFFICES ASSUME sinfs = <<>>, NEW s \in ToSet(info.sinfs), s.len > 0 PROVE FALSE
    OBVIOUS
  <2>1. s \in ToSet(sinfs)
    BY <1>2
  <2>2. Len(sinfs) = 0 /\ DOMAIN sinfs = 1..Len(sinfs)
    BY <1>2, EmptySeq, LenProperties
  <2> QED  BY <2>1, <2>2 DEF ToSet
<1> QED  BY <1>4, <1>10, <1>15, <1>16, <1>17

-----------------------------------------------------------------------------
(* The invariant of the rebuild.                                             *)

Adding(a, time) ==
  [name |-> a[1], method |-> 0, crc |-> a[2].crc, usize |-> a[2].len, body |-> a[2], attrs |-> "regular",
   modified |-> time, extra |-> <<>>, local |-> <<>>]
ExpectedOf(files, td, time) ==
  [i \in DOMAIN files |-> FromSource(files[i])] \o [i \in DOMAIN td |-> Adding(td[i], time)]

EndFound(s, e) ==
  LET i == FindEnd(s.blocks, TailOf(s.blocks), TailOf(s.blocks)) IN i # 0 /\ e = s.blocks[i]
DirectoryFound(s, e, d) == d = Directory(s.blocks, e, e.start) /\ Len(d) = e.count /\ BundlesIn(d) # {}

\* What InBundle is in a directory d.
Inside(d, rest) ==
  LET segs == d[First(BundlesIn(d))].name.segs IN
  <<Plain("Payload"), Segment(segs[Len(segs) - 1].stem, "app")>> \o rest
ManifestIn(d) == {i \in DOMAIN d : d[i].name.segs = Inside(d, <<Plain("SC_Info"), Segment("Manifest", "plist")>>)}

Ready(s, f, d, td) ==
  /\ Sequence(td) /\ \A x \in ToSet(td) : Addable(x)
  /\ (\E x \in ToSet(f.sinfs) : x.len > 0) /\ ManifestIn(d) # {} =>
       \A p \in ToSet(s.manifest.replication) \union ToSet(s.manifest.sinf) :
         p # Empty => \E x \in ToSet(td) : x[1] = [segs |-> Inside(d, <<Plain(p)>>), len |-> 20]

Rebuilding(s, f, t, d, td, w, c, n) ==
  /\ Ready(s, f, d, td)
  /\ c \in 0..Len(d) /\ n \in 0..Len(td) /\ (n > 0 => c = Len(d))
  /\ \A k \in 1..c : LeadsTo(s.blocks, d[k], s.files[k])
  /\ Written(w, ExpectedOf(s.files, td, DosDatetime(t))) /\ Len(w.entries) = c + n

Progress(s, f, t, st, e, d, td, w, m, c, n) ==
  /\ st \in {"tail", "directory", "manifest", "copy", "done", "failed"}
  /\ st \in {"directory", "manifest", "copy", "done"} => EndFound(s, e)
  /\ st \in {"manifest", "copy", "done"} => DirectoryFound(s, e, d)
  /\ st \in {"tail", "directory", "manifest"} => w = NewWriter /\ c = 0 /\ n = 0
  /\ st \in {"copy", "done"} => Rebuilding(s, f, t, d, td, w, c, n)
  /\ st = "done" => m = Finished(w) /\ c = Len(d) /\ n = Len(td)

PackInv ==
  /\ src \in Sources /\ info \in Infos /\ clock \in Clocks
  /\ IF job = "replicate"
     THEN Progress(src, info, clock, step, end, entries, todo, writer, made, copied, added)
     ELSE step # "done"

-----------------------------------------------------------------------------
LEMMA ExpectedAt ==
  ASSUME NEW files, Sequence(files), NEW td, Sequence(td), NEW time, NEW x, x = ExpectedOf(files, td, time)
  PROVE  /\ Len(x) = Len(files) + Len(td)
         /\ \A k \in 1..Len(files) : x[k] = FromSource(files[k])
         /\ \A k \in 1..Len(td) : x[Len(files) + k] = Adding(td[k], time)
<1>1. /\ Len(files) \in Nat /\ DOMAIN files = 1..Len(files)
      /\ Len(td) \in Nat /\ DOMAIN td = 1..Len(td)
  BY SequenceFacts
<1>2. PICK l, r : /\ l = [i \in DOMAIN files |-> FromSource(files[i])]
                  /\ r = [i \in DOMAIN td |-> Adding(td[i], time)]
  OBVIOUS
<1>3. PICK T : T = {l[i] : i \in DOMAIN files} \union {r[i] : i \in DOMAIN td}
  OBVIOUS
<1>4. l \in Seq(T) /\ Len(l) = Len(files) /\ \A k \in 1..Len(files) : l[k] = FromSource(files[k])
  <2>1. DOMAIN l = 1..Len(files) /\ \A i \in 1..Len(files) : l[i] \in T
    BY <1>1, <1>2, <1>3
  <2>2. l \in [1..Len(files) -> T]
    BY <1>1, <1>2, <2>1
  <2>3. l \in Seq(T)
    BY <1>1, <2>2
  <2> QED  BY <1>1, <1>2, <2>1, <2>3, LenProperties
<1>5. r \in Seq(T) /\ Len(r) = Len(td) /\ \A k \in 1..Len(td) : r[k] = Adding(td[k], time)
  <2>1. DOMAIN r = 1..Len(td) /\ \A i \in 1..Len(td) : r[i] \in T
    BY <1>1, <1>2, <1>3
  <2>2. r \in [1..Len(td) -> T]
    BY <1>1, <1>2, <2>1
  <2>3. r \in Seq(T)
    BY <1>1, <2>2
  <2> QED  BY <1>1, <1>2, <2>1, <2>3, LenProperties
<1>6. PICK m, n : m = Len(files) /\ n = Len(td)
  OBVIOUS
<1>7. Len(x) = m + n /\ \A i \in 1..m + n : x[i] = IF i <= m THEN l[i] ELSE r[i - m]
  <2>1. x = l \o r
    BY <1>2 DEF ExpectedOf
  <2> QED  BY <1>4, <1>5, <1>6, <2>1, ConcatProperties
<1>8. ASSUME NEW k \in 1..m PROVE x[k] = l[k]
  BY <1>1, <1>6, <1>7
<1>9. ASSUME NEW k \in 1..n PROVE x[m + k] = r[k]
  <2>1. PICK i : i = m + k
    OBVIOUS
  <2>2. m \in Nat /\ n \in Nat
    BY <1>1, <1>6
  <2>3. i \in 1..m + n /\ ~(i <= m) /\ i - m = k
    BY ONLY <2>1, <2>2, k \in 1..n
  <2> QED  BY <1>7, <2>1, <2>3
<1> QED  BY <1>4, <1>5, <1>6, <1>7, <1>8, <1>9

LEMMA DirectoryLeads ==
  ASSUME NEW s \in Sources, NEW e, EndFound(s, e), NEW d, DirectoryFound(s, e, d)
  PROVE  /\ Sequence(s.files) /\ \A k \in 1..Len(s.files) : IsPacked(s.files[k])
         /\ Sequence(d) /\ Len(d) = Len(s.files) /\ Len(d) \in Nat
         /\ \A k \in 1..Len(d) : BodyOf(s.blocks, d[k]) # 0 => LeadsTo(s.blocks, d[k], s.files[k])
<1>1. PICK a, i : a = s.blocks /\ i = FindEnd(a, TailOf(a), TailOf(a))
  OBVIOUS
<1>2. i # 0 /\ e = a[i] /\ d = Directory(a, a[i], a[i].start) /\ Len(d) = a[i].count
  BY <1>1 DEF EndFound, DirectoryFound
<1>3. WellPacked(s)
  BY PackAssumption
<1>4. s.files \in Seq(ToSet(s.files)) /\ \A k \in DOMAIN s.files : IsPacked(s.files[k])
  BY <1>3 DEF WellPacked
<1>5. /\ d \in Seq(ToSet(d)) /\ Len(d) = Len(s.files)
      /\ \A k \in DOMAIN d : BodyOf(a, d[k]) # 0 => LeadsTo(a, d[k], s.files[k])
  BY <1>1, <1>2, <1>3 DEF WellPacked
<1>6. Sequence(s.files) /\ DOMAIN s.files = 1..Len(s.files)
  BY <1>4, SequenceOf
<1>7. Sequence(d) /\ DOMAIN d = 1..Len(d) /\ Len(d) \in Nat
  BY <1>5, SequenceOf
<1> QED  BY <1>1, <1>4, <1>5, <1>6, <1>7

LEMMA BodyLength ==
  ASSUME NEW a, NEW x, BodyOf(a, x) # 0
  PROVE  a[BodyOf(a, x)].len = x.csize
<1>1. PICK B : B = {i \in DOMAIN a : /\ a[i].kind = "data" /\ a[i].len = x.csize
                                     /\ \E j \in DOMAIN a : /\ a[j].kind = "local" /\ a[j].at = x.offset
                                                            /\ a[i].at = a[j].at + a[j].len}
  OBVIOUS
<1>2. BodyOf(a, x) = IF B = {} THEN 0 ELSE CHOOSE i \in B : TRUE
  BY <1>1 DEF BodyOf
<1>3. BodyOf(a, x) \in B
  BY <1>2
<1> QED  BY <1>1, <1>3

LEMMA CopyKept ==
  ASSUME NEW s \in Sources, NEW f, NEW t, NEW e, EndFound(s, e), NEW d, DirectoryFound(s, e, d),
         NEW td, NEW w, NEW c, NEW n, Rebuilding(s, f, t, d, td, w, c, n), c < Len(d),
         NEW x, x = d[c + 1], NEW b, b = BodyOf(s.blocks, x), b # 0,
         NEW h, h = s.blocks[LocalOf(s.blocks, x)],
         NEW v, v = Copied(w, x, h, LocalExtra(w, x, h), s.blocks[b])
  PROVE  Rebuilding(s, f, t, d, td, v, c + 1, n)
<1>1. /\ Sequence(s.files) /\ \A k \in 1..Len(s.files) : IsPacked(s.files[k])
      /\ Sequence(d) /\ Len(d) = Len(s.files) /\ Len(d) \in Nat
  BY DirectoryLeads
<1>2. \A k \in 1..Len(d) : BodyOf(s.blocks, d[k]) # 0 => LeadsTo(s.blocks, d[k], s.files[k])
  BY DirectoryLeads
<1>3. PICK exp : exp = ExpectedOf(s.files, td, DosDatetime(t))
  OBVIOUS
<1>4. /\ Ready(s, f, d, td) /\ c \in Nat /\ c < Len(d) /\ n = 0
      /\ \A k \in 1..c : LeadsTo(s.blocks, d[k], s.files[k])
      /\ Written(w, exp) /\ Len(w.entries) = c
  BY <1>1, <1>3 DEF Rebuilding
<1>5. PICK m : m = c + 1
  OBVIOUS
<1>6. m \in 1..Len(d) /\ m \in 1..Len(s.files)
  BY <1>1, <1>4, <1>5
<1>7. PICK g : g = s.files[m]
  OBVIOUS
<1>8. IsPacked(g) /\ LeadsTo(s.blocks, x, g) /\ exp[m] = FromSource(g)
  <2>1. Sequence(td)
    BY <1>4 DEF Ready
  <2>2. \A k \in 1..Len(s.files) : exp[k] = FromSource(s.files[k])
    BY <1>1, <1>3, <2>1, ExpectedAt
  <2> QED  BY <1>1, <1>2, <1>5, <1>6, <1>7, <2>2
<1>9. PICK body : body = s.blocks[b]
  OBVIOUS
<1>10. /\ x.name = g.name /\ x.method = g.method /\ x.crc = g.crc /\ x.csize = g.csize /\ x.usize = g.usize
       /\ x.attrs = g.attrs /\ x.modified = g.modified /\ x.extra = g.extra
       /\ h.name = g.name /\ h.modified = g.modified /\ h.extra = g.local /\ body.crc = g.crc
  BY <1>8, <1>9 DEF LeadsTo
<1>11. body.len = x.csize
  <2>1. PICK a : a = s.blocks
    OBVIOUS
  <2>2. a[b].len = x.csize
    BY <2>1, BodyLength
  <2> QED  BY <1>9, <2>1, <2>2
<1>12. PICK y : y = LocalExtra(w, x, h)
  OBVIOUS
<1>13. v = Copied(w, x, h, y, body) /\ Sound(w) /\ IsPacked(g)
  BY <1>4, <1>8, <1>9, <1>12 DEF Written
<1>14. PICK r : r = Entry(x, w.offset)
  OBVIOUS
<1>15. Adds(v, w, r, FromSource(g)) /\ Recordable(r)
  BY ONLY <1>10, <1>11, <1>12, <1>13, <1>14, CopiedAdds
<1>16. PICK z : z = FromSource(g)
  OBVIOUS
<1>17. Adds(v, w, r, z) /\ exp[Len(w.entries) + 1] = z
  BY <1>4, <1>5, <1>8, <1>15, <1>16
<1>18. Written(v, exp) /\ Len(v.entries) = Len(w.entries) + 1
  BY ONLY <1>4, <1>15, <1>17, WrittenMore
<1>19. \A k \in 1..c + 1 : LeadsTo(s.blocks, d[k], s.files[k])
  <2> SUFFICES ASSUME NEW k \in 1..c + 1 PROVE LeadsTo(s.blocks, d[k], s.files[k])
    OBVIOUS
  <2>1. CASE k \in 1..c
    BY <1>4, <2>1
  <2>2. CASE k = c + 1
    BY <1>5, <1>7, <1>8, <2>2
  <2>3. k \in 1..c \/ k = c + 1
    BY <1>4
  <2> QED  BY <2>1, <2>2, <2>3
<1>20. c + 1 \in 0..Len(d) /\ n \in 0..Len(td) /\ ~(n > 0) /\ Len(v.entries) = c + 1 + n
  <2>1. n \in 0..Len(td)
    BY DEF Rebuilding
  <2> QED  BY <1>1, <1>4, <1>18, <2>1
<1> QED  BY <1>3, <1>4, <1>18, <1>19, <1>20 DEF Rebuilding

LEMMA AddKept ==
  ASSUME NEW s \in Sources, NEW f, NEW t, NEW e, EndFound(s, e), NEW d, DirectoryFound(s, e, d),
         NEW td, NEW w, NEW c, NEW n, Rebuilding(s, f, t, d, td, w, c, n), c = Len(d), n < Len(td),
         NEW x, x = td[n + 1], NEW v, v = Stored(w, x[1], x[2], DosDatetime(t))
  PROVE  Rebuilding(s, f, t, d, td, v, c, n + 1)
<1>1. Sequence(s.files) /\ Len(d) = Len(s.files) /\ Len(d) \in Nat
  BY DirectoryLeads
<1>2. PICK time : time = DosDatetime(t)
  OBVIOUS
<1>3. PICK exp : exp = ExpectedOf(s.files, td, time)
  OBVIOUS
<1>4. /\ Ready(s, f, d, td) /\ n \in 0..Len(td) /\ Written(w, exp) /\ Len(w.entries) = c + n
      /\ \A k \in 1..c : LeadsTo(s.blocks, d[k], s.files[k])
  BY <1>2, <1>3 DEF Rebuilding
<1>5. Sequence(td) /\ Len(td) \in Nat /\ DOMAIN td = 1..Len(td) /\ \A y \in ToSet(td) : Addable(y)
  BY <1>4, SequenceFacts DEF Ready
<1>6. n \in Nat /\ n + 1 \in 1..Len(td)
  BY <1>4, <1>5
<1>7. Addable(x)
  <2>1. x \in ToSet(td)
    BY <1>5, <1>6 DEF ToSet
  <2> QED  BY <1>5, <2>1
<1>8. PICK name, data : name = x[1] /\ data = x[2]
  OBVIOUS
<1>9. name.len \in Nat /\ ~IsExecutable(name.segs) /\ data = Bytes(data) /\ data.len \in Nat
  BY <1>7, <1>8 DEF Addable
<1>10. v = Stored(w, name, data, time) /\ Sound(w)
  BY <1>2, <1>4, <1>8 DEF Written
<1>11. PICK r : r = Entry(StoredEntry(name, data, time), w.offset)
  OBVIOUS
<1>12. PICK z : z = [name |-> name, method |-> 0, crc |-> data.crc, usize |-> data.len, body |-> data,
                     attrs |-> "regular", modified |-> time, extra |-> <<>>, local |-> <<>>]
  OBVIOUS
<1>13. Recordable(r)
  BY ONLY <1>9, <1>10, <1>11, StoredAdds
<1>14. Adds(v, w, r, z)
  BY ONLY <1>9, <1>10, <1>11, <1>12, StoredAdds
<1>15. exp[Len(w.entries) + 1] = z
  <2>1. \A k \in 1..Len(td) : exp[Len(s.files) + k] = Adding(td[k], time)
    BY <1>1, <1>3, <1>5, ExpectedAt
  <2>2. Len(w.entries) + 1 = Len(s.files) + (n + 1)
    <3>1. PICK l, p : l = Len(w.entries) /\ p = Len(s.files)
      OBVIOUS
    <3>2. l = c + n /\ c = p /\ p \in Nat
      BY <1>1, <1>4, <3>1
    <3>3. l + 1 = p + (n + 1)
      BY ONLY <1>6, <3>2
    <3> QED  BY <3>1, <3>3
  <2>3. Adding(x, time) = z
    BY <1>8, <1>12 DEF Adding
  <2>4. exp[Len(s.files) + (n + 1)] = Adding(td[n + 1], time)
    BY <1>6, <2>1
  <2> QED  BY <2>2, <2>3, <2>4
<1>16. Written(v, exp) /\ Len(v.entries) = Len(w.entries) + 1
  BY ONLY <1>4, <1>13, <1>14, <1>15, WrittenMore
<1>17. c \in 0..Len(d) /\ n + 1 \in 0..Len(td) /\ Len(v.entries) = c + (n + 1)
  <2>1. c \in Nat /\ c \in 0..Len(d) /\ n + 1 \in 0..Len(td)
    BY <1>1, <1>5, <1>6
  <2>2. PICK l, m : l = Len(w.entries) /\ m = Len(v.entries)
    OBVIOUS
  <2>3. l = c + n /\ m = l + 1
    BY <1>4, <1>16, <2>2
  <2>4. m = c + (n + 1)
    BY ONLY <1>6, <2>1, <2>3
  <2> QED  BY <2>1, <2>2, <2>4
<1> QED  BY <1>2, <1>3, <1>4, <1>16, <1>17 DEF Rebuilding

LEMMA InsideIs ==
  ASSUME NEW rest
  PROVE  InBundle(rest) = Inside(entries, rest)
  BY DEF InBundle, Bundle, Inside

\* The path of the bundle's own property list names the bundle.
LEMMA InfoNamesBundle ==
  ASSUME NEW s, s = InBundle(<<Segment("Info", "plist")>>)
  PROVE  NamesBundle(s) /\ s[Len(s) - 1].stem = Bundle(First(BundlesIn(entries)))
<1>1. PICK x, y, z : /\ x = Plain("Payload") /\ y = Segment(Bundle(First(BundlesIn(entries))), "app")
                     /\ z = Segment("Info", "plist")
  OBVIOUS
<1>2. s = <<x, y>> \o <<z>>
  BY <1>1 DEF InBundle
<1>3. Len(s) = 3 /\ s[2] = y
  BY ONLY <1>2, ThreeSegments
<1>4. s[3] = z
  BY ONLY <1>2, ThreeSegments
<1>5. y.ext = "app" /\ y.stem = Bundle(First(BundlesIn(entries)))
  BY <1>1 DEF Segment
<1>6. Len(s) - 1 = 2 /\ Last(s) = z
  BY <1>3, <1>4 DEF Last
<1>7. y # Plain("Watch")
  <2>1. Plain("Watch").ext = Empty
    BY DEF Plain, Segment
  <2>2. "app" # Empty
    BY DEF Empty
  <2> QED  BY <1>5, <2>1, <2>2
<1>8. \A i \in 2..Len(s) - 1 : s[i] # Plain("Watch")
  <2>1. \A i \in 2..2 : i = 2
    OBVIOUS
  <2> QED  BY <1>3, <1>6, <1>7, <2>1
<1>9. NamesBundle(s)
  <2>1. Len(s) >= 2
    BY ONLY <1>3
  <2>2. s[Len(s) - 1].ext = "app"
    BY ONLY <1>3, <1>5, <1>6
  <2>3. Last(s) = Segment("Info", "plist")
    BY ONLY <1>1, <1>6
  <2> QED  BY ONLY <1>8, <2>1, <2>2, <2>3 DEF NamesBundle
<1> QED  BY <1>3, <1>5, <1>6, <1>9

LEMMA NoneWritten ==
  ASSUME NEW expected
  PROVE  Written(NewWriter, expected) /\ Len(NewWriter.entries) = 0
<1>1. PICK e, w : e = <<>> /\ w = NewWriter
  OBVIOUS
<1>2. w.out = e /\ w.entries = e /\ w.offset = 0
  BY <1>1 DEF NewWriter
<1>3. e \in Seq({}) /\ Len(e) = 0
  BY <1>1, EmptySeq
<1>4. Sequence(e) /\ DOMAIN e = 1..0
  BY <1>3, SequenceOf
<1>5. DOMAIN e = {}
  BY <1>4
<1>6. Chain(e) /\ Size(e) = 0
  BY <1>1, ChainNone
<1>7. Sound(w)
  BY <1>2, <1>4, <1>6 DEF Sound
<1>8. DOMAIN w.out = {} /\ DOMAIN w.entries = {} /\ Len(w.entries) = 0
  BY <1>2, <1>3, <1>5
<1> QED  BY <1>1, <1>7, <1>8 DEF Written

LEMMA ManifestKept ==
  ASSUME src \in Sources, info \in Infos, EndFound(src, end), DirectoryFound(src, end, entries),
         NEW named, named = {i \in DOMAIN entries :
                               entries[i].name.segs = InBundle(<<Plain("SC_Info"), Segment("Manifest", "plist")>>)},
         NEW plist, plist = {i \in DOMAIN entries : entries[i].name.segs = InBundle(<<Segment("Info", "plist")>>)},
         plist # {}, BodyOf(src.blocks, entries[First(plist)]) # 0,
         NEW td, td = Additions(Once(Listed(named)))
  PROVE  Rebuilding(src, info, clock, entries, td, NewWriter, 0, 0)
<1>1. /\ Sequence(src.files) /\ Sequence(entries) /\ Len(entries) = Len(src.files) /\ Len(entries) \in Nat
      /\ \A k \in 1..Len(entries) :
            BodyOf(src.blocks, entries[k]) # 0 => LeadsTo(src.blocks, entries[k], src.files[k])
  BY DirectoryLeads
<1>2. DOMAIN entries = 1..Len(entries) /\ DOMAIN src.files = 1..Len(src.files)
  BY <1>1, SequenceFacts
<1>3. PICK Paths : Paths = ToSet(src.manifest.replication) \union ToSet(src.manifest.sinf)
  OBVIOUS
<1>4. PICK stem : stem = Bundle(First(BundlesIn(entries)))
  OBVIOUS
<1>5. stem \notin Paths
  <2>1. PICK k : k = First(plist)
    OBVIOUS
  <2>2. k \in plist
    <3>1. plist \in SUBSET (1..Len(entries))
      BY <1>2
    <3> QED  BY <1>1, <2>1, <3>1, LeastIsThere
  <2>3. k \in 1..Len(entries) /\ entries[k].name.segs = InBundle(<<Segment("Info", "plist")>>)
    BY <1>2, <2>2
  <2>4. LeadsTo(src.blocks, entries[k], src.files[k])
    BY <1>1, <2>1, <2>3
  <2>5. PICK g : g = src.files[k]
    OBVIOUS
  <2>6. g.name.segs = InBundle(<<Segment("Info", "plist")>>)
    BY <2>3, <2>4, <2>5 DEF LeadsTo
  <2>7. NamesBundle(g.name.segs) /\ g.name.segs[Len(g.name.segs) - 1].stem = stem
    BY <1>4, <2>6, InfoNamesBundle
  <2>8. g \in ToSet(src.files)
    BY <1>1, <1>2, <2>3, <2>5 DEF ToSet
  <2>9. WellPacked(src)
    BY PackAssumption
  <2>10. \A f \in ToSet(src.files) : NamesBundle(f.name.segs) => f.name.segs[Len(f.name.segs) - 1].stem \notin Paths
    BY <1>3, <2>9 DEF WellPacked
  <2> QED  BY ONLY <2>7, <2>8, <2>10
<1>6. PICK ls, paths : ls = Listed(named) /\ paths = Once(ls)
  OBVIOUS
<1>7. /\ ls \in Seq(Paths) /\ ToSet(ls) \subseteq Paths
      /\ named # {} => ToSet(ls) = Paths \ {Empty}
  <2>1. ls \in Seq(Paths) /\ ToSet(ls) \subseteq Paths
    BY <1>3, <1>6, ListedElements
  <2>2. named # {} => ToSet(ls) = Paths \ {Empty}
    BY <1>3, <1>6, ListedElements, SMTT(30)
  <2> QED  BY <2>1, <2>2
<1>8. paths \in Seq(Paths) /\ ToSet(paths) = ToSet(ls)
  BY <1>6, <1>7, OnceElements
<1>9. \A p \in ToSet(paths) : p # stem
  BY <1>5, <1>7, <1>8
<1>10. PICK T : T = ToSet(info.sinfs)
  OBVIOUS
<1>11. info.sinfs \in Seq(T) /\ \A x \in T : x = Bytes(x) /\ x.len \in Nat
  BY <1>10, PackAssumption
<1>12. td = Additions(paths) /\ \A p \in ToSet(paths) : p # Bundle(First(BundlesIn(entries)))
  BY <1>4, <1>6, <1>9
<1>13. Sequence(td) /\ \A x \in ToSet(td) : Addable(x)
  BY ONLY <1>8, <1>11, <1>12, AdditionsFit
<1>14. (\E s \in ToSet(info.sinfs) : s.len > 0) => \A p \in ToSet(paths) : \E x \in ToSet(td) : x[1] = PathName(p)
  BY ONLY <1>8, <1>11, <1>12, AdditionsFit
<1>15. named = ManifestIn(entries)
  BY InsideIs DEF ManifestIn
<1>16. \A p : PathName(p) = [segs |-> Inside(entries, <<Plain(p)>>), len |-> 20]
  BY InsideIs DEF PathName
<1>17. Ready(src, info, entries, td)
  <2> SUFFICES ASSUME \E x \in ToSet(info.sinfs) : x.len > 0, ManifestIn(entries) # {}, NEW p \in Paths, p # Empty
               PROVE  \E x \in ToSet(td) : x[1] = [segs |-> Inside(entries, <<Plain(p)>>), len |-> 20]
    BY <1>3, <1>13 DEF Ready
  <2>1. p \in ToSet(paths)
    BY <1>7, <1>8, <1>15
  <2>2. PICK x \in ToSet(td) : x[1] = PathName(p)
    BY <1>14, <2>1
  <2> QED  BY <1>16, <2>2
<1>18. Written(NewWriter, ExpectedOf(src.files, td, DosDatetime(clock))) /\ Len(NewWriter.entries) = 0
  BY NoneWritten
<1>19. Len(td) \in Nat
  BY <1>13, SequenceFacts
<1> QED  BY <1>1, <1>17, <1>18, <1>19 DEF Rebuilding

-----------------------------------------------------------------------------
LEMMA FailedMeansNothing ==
  ASSUME NEW s, NEW f, NEW t, NEW e, NEW d, NEW td, NEW w, NEW m, NEW c, NEW n
  PROVE  Progress(s, f, t, "failed", e, d, td, w, m, c, n)
  BY DEF Progress

LEMMA ReplicateKept ==
  ASSUME PackInv, ZipNext, job = "replicate"
  PROVE  Progress(src, info, clock, step', end', entries', todo', writer', made', copied', added')
<1> DEFINE Goal == Progress(src, info, clock, step', end', entries', todo', writer', made', copied', added')
<1>1. /\ src \in Sources /\ info \in Infos /\ clock \in Clocks
      /\ Progress(src, info, clock, step, end, entries, todo, writer, made, copied, added)
  BY DEF PackInv
<1>2. /\ step \in {"directory", "manifest", "copy", "done"} => EndFound(src, end)
      /\ step \in {"manifest", "copy", "done"} => DirectoryFound(src, end, entries)
      /\ step \in {"tail", "directory", "manifest"} => writer = NewWriter /\ copied = 0 /\ added = 0
      /\ step \in {"copy", "done"} => Rebuilding(src, info, clock, entries, todo, writer, copied, added)
  BY <1>1 DEF Progress
<1>3. ASSUME step' = "failed" PROVE Goal
  BY <1>3, FailedMeansNothing
<1>4. CASE ReadEnd
  <2>1. PICK i : i = FindEnd(A, Window, Window)
    OBVIOUS
  <2>2. CASE i = 0
    BY <1>3, <1>4, <2>1, <2>2 DEF ReadEnd, FromEnd, Goto
  <2>3. CASE i # 0
    <3>1. /\ step = "tail" /\ end' = A[i] /\ step' = "directory"
          /\ UNCHANGED <<entries, todo, writer, made, copied, added>>
      BY <1>4, <2>1, <2>3 DEF ReadEnd, FromEnd, Goto
    <3>2. EndFound(src, end')
      BY <2>1, <2>3, <3>1 DEF EndFound, A, Window
    <3> QED  BY <1>2, <3>1, <3>2 DEF Progress
  <2> QED  BY <2>2, <2>3
<1>5. CASE ReadDirectory
  <2>1. PICK d : d = Directory(A, end, end.start)
    OBVIOUS
  <2>2. CASE Len(d) # end.count \/ ~(BundlesIn(d) # {})
    BY <1>3, <1>5, <2>1, <2>2 DEF ReadDirectory, FromDirectory, Goto
  <2>3. CASE Len(d) = end.count /\ BundlesIn(d) # {}
    <3>1. /\ step = "directory" /\ entries' = d /\ step' = "manifest"
          /\ UNCHANGED <<end, todo, writer, made, copied, added>>
      BY <1>5, <2>1, <2>3 DEF ReadDirectory, FromDirectory, Goto
    <3>2. DirectoryFound(src, end, d)
      BY <2>1, <2>3 DEF DirectoryFound, A
    <3> QED  BY <1>2, <3>1, <3>2 DEF Progress
  <2> QED  BY <2>2, <2>3
<1>6. CASE ReadManifest
  <2>1. PICK named : named = {i \in DOMAIN entries :
                                entries[i].name.segs = InBundle(<<Plain("SC_Info"), Segment("Manifest", "plist")>>)}
    OBVIOUS
  <2>2. PICK plist : plist = {i \in DOMAIN entries : entries[i].name.segs = InBundle(<<Segment("Info", "plist")>>)}
    OBVIOUS
  <2>3. step = "manifest" /\ (step' = "failed" \/
          /\ plist # {} /\ BodyOf(A, entries[First(plist)]) # 0
          /\ todo' = Additions(Once(Listed(named))) /\ step' = "copy"
          /\ UNCHANGED <<end, entries, writer, made, copied, added>>)
    BY <1>6, <2>1, <2>2 DEF ReadManifest, Goto
  <2>4. CASE /\ plist # {} /\ BodyOf(A, entries[First(plist)]) # 0
             /\ todo' = Additions(Once(Listed(named))) /\ step' = "copy"
             /\ UNCHANGED <<end, entries, writer, made, copied, added>>
    <3>1. Rebuilding(src, info, clock, entries, todo', NewWriter, 0, 0)
      <4>1. PICK td : td = todo'
        OBVIOUS
      <4>2. td = Additions(Once(Listed(named))) /\ BodyOf(src.blocks, entries[First(plist)]) # 0
        BY <2>4, <4>1 DEF A
      <4> QED  BY <1>1, <1>2, <2>1, <2>2, <2>3, <2>4, <4>1, <4>2, ManifestKept
    <3> QED  BY <1>2, <2>3, <2>4, <3>1 DEF Progress
  <2> QED  BY <1>3, <2>3, <2>4
<1>7. CASE CopyEntry
  <2>1. PICK x, h, b : x = entries[copied + 1] /\ h = A[LocalOf(A, x)] /\ b = BodyOf(A, x)
    OBVIOUS
  <2>2. step = "copy" /\ copied < Len(entries) /\ (step' = "failed" \/
          /\ b # 0 /\ writer' = Copied(writer, x, h, LocalExtra(writer, x, h), A[b])
          /\ copied' = copied + 1 /\ step' = "copy" /\ UNCHANGED <<end, entries, todo, made, added>>)
    BY <1>7, <2>1 DEF CopyEntry, Goto
  <2>3. CASE /\ b # 0 /\ writer' = Copied(writer, x, h, LocalExtra(writer, x, h), A[b])
             /\ copied' = copied + 1 /\ step' = "copy" /\ UNCHANGED <<end, entries, todo, made, added>>
    <3>1. Rebuilding(src, info, clock, entries, todo, writer', copied + 1, added)
      <4>1. PICK v : v = writer'
        OBVIOUS
      <4>2. v = Copied(writer, x, h, LocalExtra(writer, x, h), src.blocks[b]) /\ b = BodyOf(src.blocks, x)
            /\ h = src.blocks[LocalOf(src.blocks, x)]
        BY <2>1, <2>3, <4>1 DEF A
      <4> QED  BY <1>1, <1>2, <2>1, <2>2, <2>3, <4>1, <4>2, CopyKept
    <3> QED  BY <1>2, <2>2, <2>3, <3>1 DEF Progress
  <2> QED  BY <1>3, <2>2, <2>3
<1>8. CASE AddEntry
  <2>1. PICK x : x = todo[added + 1]
    OBVIOUS
  <2>2. /\ step = "copy" /\ copied = Len(entries) /\ added < Len(todo) /\ step' = "copy"
        /\ writer' = Stored(writer, x[1], x[2], DosDatetime(clock)) /\ added' = added + 1
        /\ UNCHANGED <<end, entries, todo, made, copied>>
    BY <1>8, <2>1 DEF AddEntry, Goto
  <2>3. Rebuilding(src, info, clock, entries, todo, writer', copied, added + 1)
    <3>1. PICK v : v = writer'
      OBVIOUS
    <3> QED  BY <1>1, <1>2, <2>1, <2>2, <3>1, AddKept
  <2> QED  BY <1>2, <2>2, <2>3 DEF Progress
<1>9. CASE Finish
  <2>1. /\ step = "copy" /\ copied = Len(entries) /\ added = Len(todo)
        /\ \/ step' = "failed"
           \/ made' = Finished(writer) /\ step' = "done" /\ UNCHANGED <<end, entries, todo, writer, copied, added>>
    BY <1>9 DEF Finish, Goto
  <2>2. CASE made' = Finished(writer) /\ step' = "done" /\ UNCHANGED <<end, entries, todo, writer, copied, added>>
    BY <1>2, <2>1, <2>2 DEF Progress
  <2> QED  BY <1>3, <2>1, <2>2
<1>10. CASE Fails
  BY <1>3, <1>10 DEF Fails, Goto
<1>11. ~(FetchTail \/ FetchDirectory \/ FetchHeader \/ FetchBody \/ RequestLost)
  BY DEF FetchTail, FetchDirectory, FetchHeader, FetchBody, Fetched, RequestLost
<1> QED  BY <1>4, <1>5, <1>6, <1>7, <1>8, <1>9, <1>10, <1>11 DEF ZipNext

LEMMA PackKept ==
  ASSUME PackInv, ZipNext
  PROVE  PackInv'
<1>1. src' = src /\ info' = info /\ clock' = clock /\ job' = job
  BY DEF ZipNext, ReadEnd, FromEnd, ReadDirectory, FromDirectory, ReadManifest, CopyEntry, AddEntry, Finish, Fails,
         FetchTail, FetchDirectory, FetchHeader, FetchBody, Fetched, RequestLost, Goto
<1>2. CASE job = "replicate"
  BY <1>1, <1>2, ReplicateKept DEF PackInv
<1>3. CASE job # "replicate"
  <2>1. step' # "done"
    BY <1>3 DEF ZipNext, ReadEnd, ReadDirectory, ReadManifest, CopyEntry, AddEntry, Finish, Fails,
                FetchTail, FromEnd, FetchDirectory, FromDirectory, FetchHeader, FetchBody, Fetched, RequestLost, Goto
  <2> QED  BY <1>1, <1>3, <2>1 DEF PackInv
<1> QED  BY <1>2, <1>3

LEMMA PackIsInv == Spec => []PackInv
<1>1. Init => PackInv
  <2> SUFFICES ASSUME Init PROVE PackInv
    OBVIOUS
  <2>1. /\ src \in Sources /\ info \in Infos /\ clock \in Clocks /\ step = "tail"
        /\ writer = NewWriter /\ copied = 0 /\ added = 0
    BY DEF Init, ZipInit
  <2>2. Progress(src, info, clock, step, end, entries, todo, writer, made, copied, added)
    BY <2>1 DEF Progress
  <2> QED  BY <2>1, <2>2 DEF PackInv
<1>2. PackInv /\ [Next]_laneVars => PackInv'
  <2> SUFFICES ASSUME PackInv, [Next]_laneVars PROVE PackInv'
    OBVIOUS
  <2>1. CASE ZipNext
    BY <2>1, PackKept
  <2>2. CASE UNCHANGED zipVars
    BY <2>2 DEF PackInv, zipVars
  <2> QED  BY <2>1, <2>2 DEF Next, laneVars
<1> QED  BY <1>1, <1>2, PTL DEF Spec

(***************************************************************************)
(* The package that is rebuilt holds each entry of the one that was        *)
(* downloaded, then the metadata and a receipt at every place that asks    *)
(* for one, wherever its sizes and offsets lie, and its binaries start on  *)
(* a page (replicate_to, ZipWriter).                                       *)
(***************************************************************************)
THEOREM RebuiltPackagesHold == Spec => []RebuiltHolds
<1>1. PackInv => RebuiltHolds
  <2> SUFFICES ASSUME PackInv, step = "done" PROVE RebuiltHolds
    BY DEF RebuiltHolds
  <2>1. /\ src \in Sources /\ info \in Infos /\ clock \in Clocks
        /\ Progress(src, info, clock, step, end, entries, todo, writer, made, copied, added)
    BY DEF PackInv
  <2>2. /\ EndFound(src, end) /\ DirectoryFound(src, end, entries)
        /\ Rebuilding(src, info, clock, entries, todo, writer, copied, added)
        /\ made = Finished(writer) /\ copied = Len(entries) /\ added = Len(todo)
    BY <2>1 DEF Progress
  <2>3. Sequence(src.files) /\ Sequence(entries) /\ Len(entries) = Len(src.files) /\ Len(entries) \in Nat
    BY <2>1, <2>2, DirectoryLeads
  <2>4. PICK exp : exp = ExpectedOf(src.files, todo, DosDatetime(clock))
    OBVIOUS
  <2>5. /\ Ready(src, info, entries, todo) /\ Written(writer, exp) /\ Len(writer.entries) = copied + added
        /\ \A k \in 1..copied : LeadsTo(src.blocks, entries[k], src.files[k])
    BY <2>2, <2>4 DEF Rebuilding
  <2>6. Len(exp) = Len(writer.entries)
    <3>1. Sequence(todo)
      BY <2>5 DEF Ready
    <3>2. Len(exp) = Len(src.files) + Len(todo)
      BY <2>3, <2>4, <3>1, ExpectedAt
    <3> QED  BY <2>2, <2>3, <2>5, <3>2
  <2>7. Expected = exp
    BY <2>4 DEF Expected, ExpectedOf, FromAddition, Adding
  <2>8. HoldsAll(made, EndOf(made), Directory(made, EndOf(made), EndOf(made).start), exp)
    BY <2>2, <2>5, <2>6, FinishedHolds
  <2>9. ASSUME NEW p \in ToSet(src.manifest.replication) \union ToSet(src.manifest.sinf),
               \E s \in ToSet(info.sinfs) : s.len > 0, Lists, p # Empty
        PROVE  \E i \in DOMAIN todo : todo[i][1] = PathName(p)
    <3>1. ManifestIn(entries) # {}
      <4>1. PICK f \in ToSet(src.files) :
                   f.name.segs = InBundle(<<Plain("SC_Info"), Segment("Manifest", "plist")>>)
        BY <2>9 DEF Lists
      <4>2. PICK k \in 1..Len(entries) : f = src.files[k]
        BY <2>3, <4>1, SequenceFacts
      <4>3. entries[k].name = f.name
        BY <2>2, <2>5, <4>2 DEF LeadsTo
      <4>4. k \in DOMAIN entries
        BY <2>3, <4>2, SequenceFacts
      <4> QED  BY <4>1, <4>3, <4>4, InsideIs DEF ManifestIn
    <3>2. PathName(p) = [segs |-> Inside(entries, <<Plain(p)>>), len |-> 20]
      BY InsideIs DEF PathName
    <3>3. PICK x \in ToSet(todo) : x[1] = [segs |-> Inside(entries, <<Plain(p)>>), len |-> 20]
      BY <2>5, <2>9, <3>1 DEF Ready
    <3> QED  BY <3>2, <3>3 DEF ToSet
  <2>10. DosToUnix(DosDatetime(clock)) \in {clock, clock - 1}
    BY <2>1, PackAssumption, DatesReadBack
  <2> QED  BY <2>7, <2>8, <2>9, <2>10 DEF RebuiltHolds
<1> QED  BY <1>1, PackIsInv, PTL
=============================================================================
