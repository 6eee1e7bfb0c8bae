--------------------------- MODULE DownloadProofs ---------------------------
(***************************************************************************)
(* Theorems about Download, for every set of packages, layout of their     *)
(* entries, choice of destinations and size of error pages.                *)
(***************************************************************************)
EXTENDS Download, WellFoundedInduction, SequenceTheorems, TLAPS

USE SizeAssumption, SentinelAssumption

-----------------------------------------------------------------------------
(* Reading a file back *)

\* A non-empty set of positions has a last one.
LEMMA LastPosition ==
  ASSUME NEW n \in Nat, NEW S \in SUBSET (1..n), S # {}
  PROVE  \E i \in S : \A j \in S : j <= i
<1> DEFINE T == {k \in Nat : \E i \in S : k + i = n}
<1>1. T # {}
  <2>1. PICK i \in S : TRUE
    OBVIOUS
  <2>2. n - i \in Nat /\ (n - i) + i = n
    BY <2>1
  <2> QED  BY <2>1, <2>2
<1>2. PICK m \in T : \A k \in T : m <= k
  <2> DEFINE R == OpToRel(<, Nat)
  <2>1. IsWellFoundedOn(R, Nat)
    BY NatLessThanWellFounded
  <2>2. T \subseteq Nat
    OBVIOUS
  <2>3. \A x, y \in Nat : <<y, x>> \in R <=> y < x
    BY DEF OpToRel
  <2> HIDE DEF T, R
  <2>4. \E x \in T : \A y \in T : ~ (<<y, x>> \in R)
    BY <1>1, <2>1, <2>2, WFMin, Zenon
  <2>5. PICK m \in T : \A k \in T : ~ (<<k, m>> \in R)
    BY <2>4
  <2>6. \A k \in T : m \in Nat /\ k \in Nat /\ ~ (k < m)
    BY <2>2, <2>3, <2>5
  <2> QED  BY <2>6, SMT
<1>3. PICK i \in S : m + i = n
  BY <1>2
<1>4. ASSUME NEW j \in S
      PROVE  j <= i
  <2>1. n - j \in Nat /\ (n - j) + j = n
    OBVIOUS
  <2>2. n - j \in T
    BY <2>1
  <2>3. m <= n - j
    BY <1>2, <2>2
  <2> QED  BY <1>3, <2>1, <2>3
<1> QED  BY <1>4

\* find_eocd_at settles on a record that is there.
LEMMA LastEocdFound ==
  ASSUME NEW f \in File, EocdPositions(f) # {}
  PROVE  LastEocd(f) \in EocdPositions(f)
<1>1. EocdPositions(f) \in SUBSET (1..Len(f)) /\ Len(f) \in Nat
  BY DEF EocdPositions, File
<1>2. \E i \in EocdPositions(f) : \A j \in EocdPositions(f) : j <= i
  BY <1>1, LastPosition
<1> QED  BY <1>2 DEF LastEocd

\* What the replicator reads from a readable file: a package, its directory in place.
LEMMA DirectoryRead ==
  ASSUME NEW f \in File, Readable(f)
  PROVE  /\ DirectoryOf(f) \in HasBundle
         /\ DirectoryOf(f) \in Packages
         /\ Size[DirectoryOf(f)] \in 1..Len(f)
         /\ f[Size[DirectoryOf(f)]] = [of |-> DirectoryOf(f), at |-> Size[DirectoryOf(f)]]
<1> DEFINE i == LastEocd(f)  q == DirectoryOf(f)
<1>1. i \in 1..Len(f) /\ f[i] # Junk /\ f[i].at = Size[f[i].of] /\ Size[f[i].of] <= i
  BY LastEocdFound DEF Readable, EocdPositions, IsEocd
<1>2. f[i] \in Block
  BY <1>1 DEF File
<1>3. f[i] = [of |-> q, at |-> Size[q]] /\ q \in Packages
  BY <1>1, <1>2 DEF DirectoryOf, Block
<1>4. Size[q] \in 1..Len(f)
  BY <1>1, <1>3 DEF DirectoryOf, File
<1> QED  BY <1>3, <1>4 DEF Readable

\* The copy of a readable file is a finished package.
LEMMA ReplicatedWhole ==
  ASSUME NEW f \in File, Readable(f), NEW p \in Packages
  PROVE  Replicated(f, p) \in Published /\ IsWhole(Replicated(f, p))
<1> DEFINE q == DirectoryOf(f)  n == Size[q]  o == Replicated(f, p)
<1>1. q \in Packages /\ q \in HasBundle /\ n \in 1..Len(f) /\ f[n] = [of |-> q, at |-> n]
  BY DirectoryRead
<1>2. /\ SubSeq(f, 1, n) \in File
      /\ Len(SubSeq(f, 1, n)) = n
      /\ \A k \in 1..n : SubSeq(f, 1, n)[k] = f[k]
  BY <1>1 DEF File
<1>3. o.dir = q /\ o.info = p /\ o.body = SubSeq(f, 1, n)
  BY DEF Replicated
<1>4. o \in Published
  BY <1>1, <1>2 DEF Replicated, Published
<1>5. IsWhole(o)
  BY <1>1, <1>2, <1>3 DEF IsWhole
<1> QED  BY <1>4, <1>5

-----------------------------------------------------------------------------
(* What every answer of the server has in common *)

LEMMA Answers ==
  ASSUME NEW p \in Packages, NEW n \in Nat,
         NEW a \in GoodAnswers(p, n) \union BadAnswers(p, n)
  PROVE  /\ a \in Answer
         /\ a.status = 200 => a.first = 1 /\ a.last = Size[p]
         /\ a.status = 206 => n > 0 /\ a.last <= Size[p]
         /\ a.status = 416 => n >= Size[p] /\ a.total = Size[p] /\ n > 0
<1>1. Size[p] \in Nat /\ Size[p] > 0
  OBVIOUS
<1>2. CASE a = Whole(p)
  BY <1>1, <1>2 DEF Whole, Answer
<1>3. CASE a \in ErrorPages
  BY <1>3 DEF ErrorPages, Answer
<1>4. CASE n > 0 /\ \E i, j \in 1..Size[p] : a = Part(p, i, j)
  BY <1>1, <1>4 DEF Part, Answer
<1>5. CASE n > 0 /\ n >= Size[p] /\ a = Unsatisfiable(p)
  BY <1>1, <1>5 DEF Unsatisfiable, Answer
<1>6. a = Whole(p) \/ a \in ErrorPages
      \/ (n > 0 /\ \E i, j \in 1..Size[p] : a = Part(p, i, j))
      \/ (n > 0 /\ n >= Size[p] /\ a = Unsatisfiable(p))
  <2>1. CASE n = 0
    BY <2>1 DEF GoodAnswers, BadAnswers
  <2>2. CASE n > 0 /\ a \in GoodAnswers(p, n)
    BY <1>1, <2>2 DEF GoodAnswers
  <2>3. CASE n > 0 /\ a \in BadAnswers(p, n)
    <3>1. \/ a \in ErrorPages
          \/ \E j \in 1..Size[p] : n < j /\ j < Size[p] /\ a = Part(p, n + 1, j)
          \/ \E i \in 1..Size[p] : a = Part(p, i, Size[p])
      BY <2>3 DEF BadAnswers
    <3>2. ASSUME NEW j \in 1..Size[p], n < j, j < Size[p]
          PROVE  n + 1 \in 1..Size[p]
      BY <1>1, <2>3, <3>2
    <3>3. Size[p] \in 1..Size[p]
      BY <1>1
    <3> QED  BY <2>3, <3>1, <3>2, <3>3
  <2> QED  BY <2>1, <2>2, <2>3
<1> QED  BY <1>2, <1>3, <1>4, <1>5, <1>6

-----------------------------------------------------------------------------
(* Types, and what stands at a destination *)

\* The part of the state that replicate and the final rename rely on: a directory that
\* was read stays readable, and a finished `.partial` is a whole package.
Finished ==
  /\ pc = "copy" => Readable(tmp[job.dest])
  /\ pc = "publish" => /\ partial[job.dest] \in Published
                       /\ IsWhole(partial[job.dest])

\* TypeOK alone is not inductive: Publish moves whatever `.partial` holds.
WholeInv == TypeOK /\ Finished /\ PublishedWhole

\* A running process has a target and an open partial.
LEMMA Running ==
  ASSUME TypeOK, pc # "idle"
  PROVE  /\ job \in Targets /\ job.dest \in Dests /\ job.pkg \in Packages
         /\ tmp[job.dest] \in File
         /\ Len(tmp[job.dest]) \in Nat
<1>1. job \in Targets /\ job.dest \in Dests /\ job.pkg \in Packages
  BY DEF TypeOK
<1>2. tmp[job.dest] \in File
  BY <1>1 DEF TypeOK
<1> QED  BY <1>1, <1>2 DEF File

LEMMA WholeInit == Init => WholeInv
<1> SUFFICES ASSUME Init PROVE WholeInv
  OBVIOUS
<1>1. TypeOK
  BY DEF Init, TypeOK, NoAnswer, Answer
<1>2. Finished /\ PublishedWhole
  BY DEF Init, Finished, PublishedWhole
<1> QED  BY <1>1, <1>2 DEF WholeInv

\* A run that ends without touching what is published keeps the invariant.
LEMMA WholeExit ==
  ASSUME WholeInv, Exit, UNCHANGED dst,
         tmp' \in [Dests -> File \union {NoFile}],
         partial' \in [Dests -> Published \union {NoFile, Torn}],
         pre' \in [Dests -> File \union {NoFile}]
  PROVE  WholeInv'
<1>1. TypeOK'
  BY DEF WholeInv, TypeOK, Exit, NoAnswer, Answer
<1>2. Finished' /\ PublishedWhole'
  BY DEF WholeInv, Exit, Finished, PublishedWhole
<1> QED  BY <1>1, <1>2 DEF WholeInv

LEMMA WholeSetAside ==
  ASSUME WholeInv, SetAside, pc # "idle"
  PROVE  WholeInv'
<1>1. Exit /\ UNCHANGED dst
  BY DEF SetAside
<1>2. tmp[job.dest] \in File
  BY Running DEF WholeInv
<1>3. /\ tmp' \in [Dests -> File \union {NoFile}]
      /\ partial' \in [Dests -> Published \union {NoFile, Torn}]
      /\ pre' \in [Dests -> File \union {NoFile}]
  BY <1>2 DEF WholeInv, TypeOK, SetAside
<1> QED  BY <1>1, <1>3, WholeExit

\* Nobody but replicate and the rename touches what a published name depends on, so a
\* step that only fills the partial keeps the invariant.
LEMMA WholeStep == WholeInv /\ [Next]_vars => WholeInv'
<1> SUFFICES ASSUME WholeInv, [Next]_vars PROVE WholeInv'
  OBVIOUS
<1> USE DEF WholeInv
<1>0. Len(<<>>) \in Nat /\ <<>> \in File
  BY DEF File
<1>1. ASSUME NEW t \in Targets, Start(t) PROVE WholeInv'
  <2>1. t.dest \in Dests
    OBVIOUS
  <2>2. tmp'[t.dest] \in File /\ tmp'[t.dest] # NoFile
        /\ tmp' \in [Dests -> File \union {NoFile}]
    BY <1>0, <1>1, <2>1 DEF TypeOK, Start, File
  <2>3. local' \in Nat
    BY <1>1, <2>2 DEF Start, File
  <2>4. TypeOK'
    BY <1>1, <2>2, <2>3 DEF TypeOK, Start
  <2>5. Finished' /\ PublishedWhole'
    BY <1>1 DEF Start, Finished, PublishedWhole
  <2> QED  BY <2>4, <2>5
<1>2. ASSUME pc = "send",
             NEW a \in GoodAnswers(job.pkg, local) \union BadAnswers(job.pkg, local),
             Respond(a)
      PROVE  WholeInv'
  <2>1. job \in Targets /\ job.dest \in Dests /\ job.pkg \in Packages /\ local \in Nat
    BY <1>2, Running DEF TypeOK
  <2>2. a \in Answer
    BY <2>1, Answers
  <2>3. CASE local = 0 \/ RangeAccepted(a, local)
    <3>1. /\ pc' = "stream" /\ resp' = a
          /\ tmp' = [tmp EXCEPT ![job.dest] = IF a.status = 200 /\ local > 0 THEN <<>> ELSE @]
          /\ UNCHANGED <<partial, dst, pre, job, local>>
      BY <1>2, <2>3 DEF Respond
    <3>2. tmp' \in [Dests -> File \union {NoFile}] /\ tmp'[job.dest] # NoFile
      <4>1. tmp[job.dest] \in File
        BY <1>2, Running
      <4>2. tmp \in [Dests -> File \union {NoFile}] /\ NoFile \notin File
        BY DEF TypeOK, File
      <4> QED  BY <1>0, <2>1, <3>1, <4>1, <4>2
    <3>3. TypeOK'
      BY <1>2, <2>1, <2>2, <3>1, <3>2 DEF TypeOK
    <3>4. Finished' /\ PublishedWhole'
      BY <3>1 DEF Finished, PublishedWhole
    <3> QED  BY <3>3, <3>4
  <2>4. CASE ~ (local = 0 \/ RangeAccepted(a, local))
    BY <1>2, <2>4, WholeExit DEF Respond, TypeOK
  <2> QED  BY <2>3, <2>4
<1>3. CASE Stream
  <2>1. /\ pc = "stream" /\ pc # "idle"
        /\ job.dest \in Dests /\ job.pkg \in Packages /\ tmp[job.dest] \in File
    BY <1>3, Running DEF Stream
  <2>2. resp \in Answer
    BY DEF TypeOK
  <2>3. BodyBlock(resp, job.pkg) \in Block \union {Junk}
    BY <2>1, <2>2 DEF BodyBlock, Answer, Block
  <2>4. Append(tmp[job.dest], BodyBlock(resp, job.pkg)) \in File
    BY <2>1, <2>3 DEF File
  <2>5. tmp' \in [Dests -> File \union {NoFile}] /\ tmp'[job.dest] # NoFile
    BY <1>3, <2>1, <2>4 DEF Stream, TypeOK, File
  <2>6. resp' \in Answer
    <3>1. resp' = [resp EXCEPT !.first = resp.first + 1]
      BY <1>3 DEF Stream
    <3>2. resp.first + 1 \in Nat \ {0}
      BY <2>2 DEF Answer
    <3> QED  BY ONLY <2>2, <3>1, <3>2 DEF Answer
  <2>7. TypeOK'
    BY <1>3, <2>1, <2>5, <2>6 DEF TypeOK, Stream
  <2>8. Finished' /\ PublishedWhole'
    BY <1>3 DEF Stream, Finished, PublishedWhole
  <2> QED  BY <2>7, <2>8
<1>4. CASE BodyEnds
  BY <1>4 DEF BodyEnds, TypeOK, Finished, PublishedWhole
<1>5. CASE ReplicateOpen
  <2>1. pc = "replicate" /\ pc # "idle"
    BY <1>5 DEF ReplicateOpen
  <2>2. CASE Readable(tmp[job.dest])
    <3>1. /\ partial' = [partial EXCEPT ![job.dest] = Torn] /\ pc' = "copy"
          /\ UNCHANGED <<tmp, dst, pre, job, local, resp>>
      BY <1>5, <2>2 DEF ReplicateOpen
    <3>2. TypeOK'
      BY <2>1, <3>1 DEF TypeOK
    <3>3. Finished' /\ PublishedWhole'
      BY <2>2, <3>1 DEF Finished, PublishedWhole
    <3> QED  BY <3>2, <3>3
  <2>3. CASE ~ Readable(tmp[job.dest])
    BY <1>5, <2>1, <2>3, WholeSetAside DEF ReplicateOpen
  <2> QED  BY <2>2, <2>3
<1>6. CASE ReplicateCopy
  <2>1. pc = "copy" /\ pc # "idle"
    BY <1>6 DEF ReplicateCopy
  <2>2. /\ job.dest \in Dests /\ job.pkg \in Packages
        /\ tmp[job.dest] \in File /\ Readable(tmp[job.dest])
    BY <2>1, Running DEF Finished
  <2>3. CASE EntriesFound(tmp[job.dest])
    <3> DEFINE o == Replicated(tmp[job.dest], job.pkg)
    <3>1. /\ partial' = [partial EXCEPT ![job.dest] = o] /\ pc' = "publish"
          /\ UNCHANGED <<tmp, dst, pre, job, local, resp>>
      BY <1>6, <2>3 DEF ReplicateCopy
    <3>2. o \in Published /\ IsWhole(o)
      BY <2>2, ReplicatedWhole
    <3> HIDE DEF o
    <3>3. TypeOK'
      BY <2>1, <3>1, <3>2 DEF TypeOK
    <3>4. Finished' /\ PublishedWhole'
      BY <2>2, <3>1, <3>2 DEF Finished, PublishedWhole, TypeOK
    <3> QED  BY <3>3, <3>4
  <2>4. CASE ~ EntriesFound(tmp[job.dest])
    BY <1>6, <2>1, <2>4, WholeSetAside DEF ReplicateCopy
  <2> QED  BY <2>3, <2>4
<1>7. CASE ReplicateFail
  BY <1>7, WholeSetAside DEF ReplicateFail
<1>8. CASE Publish
  <2>1. pc = "publish" /\ job.dest \in Dests
    BY <1>8, Running DEF Publish
  <2>2. partial[job.dest] \in Published /\ IsWhole(partial[job.dest])
    BY <2>1 DEF Finished
  <2>3. TypeOK'
    BY <1>8, <2>1, <2>2 DEF Publish, TypeOK
  <2>4. Finished'
    BY <1>8 DEF Publish, Finished
  <2>5. PublishedWhole'
    BY <1>8, <2>1, <2>2 DEF Publish, PublishedWhole, TypeOK
  <2> QED  BY <2>3, <2>4, <2>5
<1>9. CASE Cleanup
  <2>1. tmp' \in [Dests -> File \union {NoFile}]
    BY <1>9 DEF Cleanup, TypeOK
  <2> QED  BY <1>9, <2>1, WholeExit DEF Cleanup, TypeOK
<1>10. CASE Cut \/ Crash
  BY <1>10, WholeExit DEF Cut, Crash, files, TypeOK
<1>11. CASE UNCHANGED vars
  BY <1>11 DEF vars, TypeOK, Finished, PublishedWhole
<1> QED
  BY <1>1, <1>2, <1>3, <1>4, <1>5, <1>6, <1>7, <1>8, <1>9, <1>10, <1>11
     DEF Next, Work, Fault, AnswerGood, AnswerBad

\* The types, in every behaviour: the process never loses the partial it has opened.
THEOREM TypeCorrect == Spec => []TypeOK
<1>1. WholeInv => TypeOK
  BY DEF WholeInv
<1> QED  BY WholeInit, WholeStep, <1>1, PTL DEF Spec

\* "cannot leave a truncated package at the path" (ipa::replicate), for every package
\* layout and every history of crashes, retries and answers.
THEOREM DestinationWhole == Spec => []PublishedWhole
<1>1. WholeInv => PublishedWhole
  BY DEF WholeInv
<1> QED  BY WholeInit, WholeStep, <1>1, PTL DEF Spec

-----------------------------------------------------------------------------
(* Where the blocks of a partial stand *)

\* What lets an answer be appended blindly: local_size is the length of the file, and
\* the block of content that is due is the one behind its end.
Aligned ==
  /\ pc = "send" => local = Len(tmp[job.dest])
  /\ pc = "stream" /\ resp.status \in {200, 206} =>
       resp.first = Len(tmp[job.dest]) + 1

PlaceInv == WholeInv /\ InPlace /\ Aligned /\ WholeNeverAppended

LEMMA PrefixEmpty ==
  ASSUME NEW p \in Packages
  PROVE  Prefix(p, 0) = <<>>
BY DEF Prefix

LEMMA PrefixAppend ==
  ASSUME NEW p \in Packages, NEW n \in Nat
  PROVE  Append(Prefix(p, n), [of |-> p, at |-> n + 1]) = Prefix(p, n + 1)
<1> DEFINE b(i) == [of |-> p, at |-> i]
<1>1. Prefix(p, n) \in Seq(Block) /\ Len(Prefix(p, n)) = n
  BY DEF Prefix, Block
<1>2. Prefix(p, n + 1) \in Seq(Block) /\ Len(Prefix(p, n + 1)) = n + 1
  BY DEF Prefix, Block
<1>3. b(n + 1) \in Block
  BY DEF Block
<1>4. /\ Append(Prefix(p, n), b(n + 1)) \in Seq(Block)
      /\ Len(Append(Prefix(p, n), b(n + 1))) = n + 1
  BY <1>1, <1>3
<1>5. ASSUME NEW i \in 1..(n + 1)
      PROVE  Append(Prefix(p, n), b(n + 1))[i] = Prefix(p, n + 1)[i]
  BY <1>1, <1>3 DEF Prefix
<1> QED  BY <1>2, <1>4, <1>5, SeqEqual

\* A step that leaves every partial as it is, set aside or gone keeps content in place.
LEMMA PlaceExit ==
  ASSUME PlaceInv, WholeInv', Exit,
         \A d \in Dests : tmp'[d] \in {tmp[d], NoFile}
  PROVE  PlaceInv'
<1>1. InPlace'
  BY DEF PlaceInv, InPlace
<1>2. Aligned' /\ WholeNeverAppended'
  BY DEF Exit, Aligned, WholeNeverAppended
<1> QED  BY <1>1, <1>2 DEF PlaceInv

LEMMA PlaceInit == Init => PlaceInv
BY WholeInit DEF Init, PlaceInv, InPlace, Aligned, WholeNeverAppended

LEMMA PlaceStep == PlaceInv /\ [Next]_vars => PlaceInv'
<1> SUFFICES ASSUME PlaceInv, [Next]_vars PROVE PlaceInv'
  OBVIOUS
<1>0. WholeInv' /\ WholeInv /\ TypeOK
  BY WholeStep DEF PlaceInv, WholeInv
<1>1. ASSUME NEW t \in Targets, Start(t) PROVE PlaceInv'
  <2>1. t.dest \in Dests /\ tmp[t.dest] \in File \union {NoFile}
    BY <1>0 DEF TypeOK
  <2>2. tmp'[t.dest] = IF tmp[t.dest] = NoFile THEN <<>> ELSE tmp[t.dest]
    BY <1>0, <1>1, <2>1 DEF Start, TypeOK
  <2>3. \A d \in Dests : d # t.dest => tmp'[d] = tmp[d]
    BY <1>0, <1>1, <2>1 DEF Start, TypeOK
  <2>4. InPlace'
    BY <2>2, <2>3 DEF PlaceInv, InPlace
  <2>5. Aligned' /\ WholeNeverAppended'
    BY <1>1 DEF Start, Aligned, WholeNeverAppended
  <2> QED  BY <1>0, <2>4, <2>5 DEF PlaceInv
<1>2. ASSUME pc = "send",
             NEW a \in GoodAnswers(job.pkg, local) \union BadAnswers(job.pkg, local),
             Respond(a)
      PROVE  PlaceInv'
  <2> DEFINE d == job.dest
  <2>1. d \in Dests /\ job.pkg \in Packages /\ tmp[d] \in File
    BY <1>0, <1>2, Running
  <2>2. local = Len(tmp[d]) /\ local \in Nat
    BY <1>0, <1>2 DEF PlaceInv, Aligned, TypeOK
  <2>3. /\ a.status = 200 => a.first = 1
        /\ a.status = 206 => local > 0
    BY <2>1, <2>2, Answers
  <2>4. CASE local = 0 \/ RangeAccepted(a, local)
    <3>1. /\ pc' = "stream" /\ resp' = a /\ UNCHANGED <<job, local>>
          /\ tmp' = [tmp EXCEPT ![d] = IF a.status = 200 /\ local > 0 THEN <<>> ELSE @]
      BY <1>2, <2>4 DEF Respond
    <3>2. tmp'[d] = IF a.status = 200 THEN <<>> ELSE tmp[d]
      <4>1. local = 0 => tmp[d] = <<>>
        BY <2>1, <2>2, EmptySeq DEF File
      <4> QED  BY <1>0, <2>1, <2>2, <3>1, <4>1 DEF TypeOK
    <3>3. \A e \in Dests : e # d => tmp'[e] = tmp[e]
      BY <1>0, <2>1, <3>1 DEF TypeOK
    <3>4. InPlace'
      BY <3>2, <3>3 DEF PlaceInv, InPlace
    <3>5. a.status = 206 => a.first = local + 1
      BY <2>3, <2>4 DEF RangeAccepted
    <3>6. Aligned'
      BY <2>2, <2>3, <3>1, <3>2, <3>5 DEF Aligned
    <3>7. a.status = 200 => tmp'[d] = Prefix(job.pkg, a.first - 1)
      BY <2>1, <2>3, <3>2, PrefixEmpty
    <3>8. WholeNeverAppended'
      BY <3>1, <3>7 DEF WholeNeverAppended
    <3> QED  BY <1>0, <3>4, <3>6, <3>8 DEF PlaceInv
  <2>5. CASE ~ (local = 0 \/ RangeAccepted(a, local))
    BY <1>0, <1>2, <2>5, PlaceExit DEF Respond
  <2> QED  BY <2>4, <2>5
<1>3. CASE Stream
  <2> DEFINE d == job.dest  f == tmp[d]  b == BodyBlock(resp, job.pkg)
  <2>1. pc = "stream" /\ d \in Dests /\ job.pkg \in Packages /\ f \in File
    BY <1>0, <1>3, Running DEF Stream
  <2>2. resp \in Answer
    BY <1>0 DEF TypeOK
  <2>3. b \in Block \union {Junk} /\ (b # Junk => b.at = Len(f) + 1)
    BY <2>1, <2>2 DEF BodyBlock, Answer, Block, PlaceInv, Aligned
  <2>4. tmp'[d] = Append(f, b) /\ \A e \in Dests : e # d => tmp'[e] = tmp[e]
    BY <1>0, <1>3, <2>1 DEF Stream, TypeOK
  <2>5. pc' = pc /\ job' = job /\ resp' = [resp EXCEPT !.first = @ + 1]
    BY <1>3 DEF Stream
  <2>6. resp'.first = resp.first + 1 /\ resp'.status = resp.status
    BY <2>2, <2>5 DEF Answer
  <2> HIDE DEF b
  <2>7. Len(Append(f, b)) = Len(f) + 1 /\ Len(f) \in Nat
    BY <2>1, <2>3 DEF File
  <2>8. InPlace'
    <3>1. ASSUME NEW i \in 1..Len(Append(f, b)), Append(f, b)[i] # Junk
          PROVE  Append(f, b)[i].at = i
      <4>1. CASE i = Len(f) + 1
        BY <2>1, <2>3, <3>1, <4>1 DEF File
      <4>2. CASE i \in 1..Len(f)
        BY <2>1, <2>3, <3>1, <4>2 DEF File, PlaceInv, InPlace, SentinelAssumption
      <4> QED  BY <2>7, <4>1, <4>2
    <3>2. \A i \in 1..Len(tmp'[d]) : tmp'[d][i] # Junk => tmp'[d][i].at = i
      BY <2>4, <3>1
    <3>3. \A e \in Dests : e # d => (tmp'[e] # NoFile =>
            \A i \in 1..Len(tmp'[e]) : tmp'[e][i] # Junk => tmp'[e][i].at = i)
      BY <2>4 DEF PlaceInv, InPlace
    <3> QED  BY <3>2, <3>3 DEF InPlace
  <2>9. Aligned'
    BY <2>1, <2>4, <2>5, <2>6, <2>7 DEF PlaceInv, Aligned
  <2>10. WholeNeverAppended'
    <3>1. SUFFICES ASSUME resp.status = 200
                   PROVE  tmp'[d] = Prefix(job.pkg, resp.first)
      BY <2>2, <2>5, <2>6 DEF WholeNeverAppended, Answer
    <3>2. b = [of |-> job.pkg, at |-> resp.first]
      BY <3>1 DEF b, BodyBlock
    <3>3. f = Prefix(job.pkg, resp.first - 1) /\ resp.first - 1 \in Nat
      BY <2>1, <2>2, <3>1 DEF PlaceInv, WholeNeverAppended, Answer
    <3>4. Append(Prefix(job.pkg, resp.first - 1), [of |-> job.pkg, at |-> resp.first])
            = Prefix(job.pkg, resp.first)
      <4> DEFINE n == resp.first - 1
      <4>1. n \in Nat /\ n + 1 = resp.first
        BY <2>2, <3>3 DEF Answer
      <4>2. Append(Prefix(job.pkg, n), [of |-> job.pkg, at |-> n + 1]) = Prefix(job.pkg, n + 1)
        BY <2>1, <4>1, PrefixAppend
      <4> QED  BY <4>1, <4>2
    <3> QED  BY <2>4, <3>2, <3>3, <3>4
  <2> QED  BY <1>0, <2>8, <2>9, <2>10 DEF PlaceInv
<1>4. CASE BodyEnds
  BY <1>0, <1>4 DEF BodyEnds, PlaceInv, InPlace, Aligned, WholeNeverAppended
<1>5. ASSUME SetAside PROVE PlaceInv'
  BY <1>0, <1>5, PlaceExit DEF SetAside, TypeOK
<1>6. CASE ReplicateOpen \/ ReplicateCopy \/ ReplicateFail
  <2>1. CASE SetAside
    BY <1>5, <2>1
  <2>2. CASE UNCHANGED <<tmp, job>> /\ pc' \in {"copy", "publish"}
    BY <1>0, <2>2 DEF PlaceInv, InPlace, Aligned, WholeNeverAppended
  <2> QED  BY <1>6, <2>1, <2>2 DEF ReplicateOpen, ReplicateCopy, ReplicateFail
<1>7. CASE Publish
  BY <1>0, <1>7 DEF Publish, PlaceInv, InPlace, Aligned, WholeNeverAppended
<1>8. CASE Cleanup \/ Cut \/ Crash
  <2>1. Exit /\ \A d \in Dests : tmp'[d] \in {tmp[d], NoFile}
    BY <1>0, <1>8 DEF Cleanup, Cut, Crash, files, TypeOK
  <2> QED  BY <1>0, <2>1, PlaceExit
<1>9. CASE UNCHANGED vars
  BY <1>0, <1>9 DEF vars, PlaceInv, InPlace, Aligned, WholeNeverAppended
<1> QED
  BY <1>1, <1>2, <1>3, <1>4, <1>6, <1>7, <1>8, <1>9
     DEF Next, Work, Fault, AnswerGood, AnswerBad

\* No resume, accepted, refused or ignored, shifts a block of content: the check of
\* Content-Range against local_size and the truncation on a 200 are enough.
THEOREM ContentInPlace == Spec => []InPlace
<1>1. PlaceInv => InPlace
  BY DEF PlaceInv
<1> QED  BY PlaceInit, PlaceStep, <1>1, PTL DEF Spec

\* The body of a 200 is alone in the partial, however long the partial was before.
THEOREM WholeBodyAlone == Spec => []WholeNeverAppended
<1>1. PlaceInv => WholeNeverAppended
  BY DEF PlaceInv
<1> QED  BY PlaceInit, PlaceStep, <1>1, PTL DEF Spec

-----------------------------------------------------------------------------
(* Destinations that belong to one package *)

\* Every block of package content in f is package p's.
OnlyFrom(f, p) == \A i \in 1..Len(f) : f[i] # Junk => f[i] = [of |-> p, at |-> i]

\* Once the first block is content, an error page can only stand behind the last one.
CleanHead(f, p) ==
  Len(f) > 0 /\ f[1] # Junk => \A i \in 1..Len(f) : i <= Size[p] => f[i] # Junk

\* What every step keeps true of a target whose destination is its own: an error page is
\* streamed only into a file without content, the body of a 416 only behind all of it.
Pure(t) ==
  /\ tmp[t.dest] # NoFile => OnlyFrom(tmp[t.dest], t.pkg) /\ CleanHead(tmp[t.dest], t.pkg)
  /\ job = t /\ pc = "stream" /\ resp.status = 503 =>
       \A i \in 1..Len(tmp[t.dest]) : tmp[t.dest][i] = Junk
  /\ job = t /\ pc = "stream" /\ resp.status = 416 => Size[t.pkg] <= Len(tmp[t.dest])
  /\ job = t /\ pc = "publish" => partial[t.dest] = Genuine(t.pkg)
  /\ dst[t.dest] \in {NoFile, Genuine(t.pkg)}

PureInv == PlaceInv /\ \A t \in OwnTargets : Pure(t)

\* The run that works on an own destination is a run for its package.
LEMMA OwnJob ==
  ASSUME NEW t \in OwnTargets, NEW u \in Targets, u.dest = t.dest
  PROVE  u = t
<1>1. t \in Targets /\ u.pkg = t.pkg
  BY DEF OwnTargets
<1>2. t \in [pkg : Packages, dest : Dests] /\ u \in [pkg : Packages, dest : Dests]
  BY <1>1
<1> QED  BY <1>1, <1>2

\* A file with no foreign content, of which replicate can read the directory and find
\* the first local header, holds the whole package and is replicated as that.
LEMMA GenuineCopy ==
  ASSUME NEW f \in File, NEW p \in Packages, OnlyFrom(f, p), CleanHead(f, p),
         Readable(f), EntriesFound(f)
  PROVE  Replicated(f, p) = Genuine(p)
<1> DEFINE q == DirectoryOf(f)  n == Size[p]
<1>1. q \in Packages /\ Size[q] \in 1..Len(f) /\ f[Size[q]] = [of |-> q, at |-> Size[q]]
  BY DirectoryRead
<1>2. f[Size[q]] # Junk
  BY <1>1 DEF Block
<1>3. q = p
  <2>1. f[Size[q]] = [of |-> p, at |-> Size[q]]
    BY <1>1, <1>2 DEF OnlyFrom
  <2>2. [of |-> q, at |-> Size[q]].of = [of |-> p, at |-> Size[q]].of
    BY <1>1, <2>1
  <2> QED  BY <2>2
<1>4. n \in 1..Len(f) /\ Len(f) \in Nat
  BY <1>1, <1>3 DEF File
<1>5. f[1] # Junk
  BY <1>1 DEF EntriesFound
<1>6. \A i \in 1..n : f[i] = [of |-> p, at |-> i]
  BY <1>4, <1>5 DEF OnlyFrom, CleanHead
<1>7. /\ SubSeq(f, 1, n) \in File
      /\ Len(SubSeq(f, 1, n)) = n
      /\ \A k \in 1..n : SubSeq(f, 1, n)[k] = f[k]
  BY <1>4 DEF File
<1>8. Prefix(p, n) \in File /\ Len(Prefix(p, n)) = n
      /\ \A k \in 1..n : Prefix(p, n)[k] = [of |-> p, at |-> k]
  <2>1. n \in Nat /\ \A k \in 1..n : [of |-> p, at |-> k] \in Block
    BY DEF Block
  <2> QED  BY <2>1 DEF Prefix, File
<1>9. SubSeq(f, 1, n) = Prefix(p, n)
  <2> DEFINE s == SubSeq(f, 1, n)  u == Prefix(p, n)
  <2>1. s \in Seq(Block \union {Junk}) /\ u \in Seq(Block \union {Junk}) /\ Len(s) = Len(u)
    BY <1>7, <1>8 DEF File
  <2>2. \A i \in 1..Len(s) : s[i] = u[i]
    BY <1>6, <1>7, <1>8
  <2> HIDE DEF s, u
  <2>3. s = u
    BY <2>1, <2>2, SeqEqual
  <2> QED  BY <2>3 DEF s, u
<1> QED  BY <1>3, <1>9 DEF Replicated, Genuine

LEMMA PureInit == Init => PureInv
<1> SUFFICES ASSUME Init PROVE PureInv
  OBVIOUS
<1>1. ASSUME NEW t \in OwnTargets PROVE Pure(t)
  <2>1. t.dest \in Dests /\ t # NoJob
    BY DEF OwnTargets
  <2> QED  BY <2>1 DEF Init, Pure
<1> QED  BY <1>1, PlaceInit DEF PureInv

\* A run that ends, whether its partial is kept, set aside or deleted.
LEMMA PureExit ==
  ASSUME NEW t \in OwnTargets, Pure(t), Exit, dst' = dst,
         \A d \in Dests : tmp'[d] \in {tmp[d], NoFile}
  PROVE  Pure(t)'
<1>1. t.dest \in Dests /\ t # NoJob
  BY DEF OwnTargets
<1> QED  BY <1>1 DEF Pure, Exit

LEMMA PureStep == PureInv /\ [Next]_vars => PureInv'
<1> SUFFICES ASSUME PureInv, [Next]_vars PROVE PureInv'
  OBVIOUS
<1>0. PlaceInv' /\ PlaceInv /\ WholeInv /\ TypeOK
  BY PlaceStep DEF PureInv, PlaceInv, WholeInv
<1> SUFFICES ASSUME NEW t \in OwnTargets PROVE Pure(t)'
  BY <1>0 DEF PureInv
<1> DEFINE d == t.dest  p == t.pkg
<1>a. Pure(t) /\ t \in Targets /\ d \in Dests /\ p \in Packages
  BY DEF PureInv, OwnTargets
<1>b. job \in Targets /\ job.dest = d => job = t
  BY OwnJob
<1>1. ASSUME NEW u \in Targets, Start(u) PROVE Pure(t)'
  <2>1. tmp'[d] = tmp[d] \/ tmp'[d] = <<>>
    BY <1>0, <1>1, <1>a DEF Start, TypeOK
  <2>2. OnlyFrom(<<>>, p) /\ CleanHead(<<>>, p)
    BY DEF OnlyFrom, CleanHead
  <2>3. tmp'[d] # NoFile => OnlyFrom(tmp'[d], p) /\ CleanHead(tmp'[d], p)
    BY <2>1, <2>2, <1>a DEF Pure
  <2> QED  BY <1>1, <1>a, <2>3 DEF Start, Pure
<1>2. ASSUME pc = "send",
             NEW a \in GoodAnswers(job.pkg, local) \union BadAnswers(job.pkg, local),
             Respond(a)
      PROVE  Pure(t)'
  <2>1. job \in Targets /\ job.dest \in Dests /\ job.pkg \in Packages
        /\ tmp[job.dest] \in File
    BY <1>0, <1>2, Running
  <2>2. local = Len(tmp[job.dest]) /\ local \in Nat
    BY <1>0, <1>2 DEF PlaceInv, Aligned, TypeOK
  <2>3. /\ a \in Answer
        /\ a.status = 416 => local >= Size[job.pkg] /\ a.total = Size[job.pkg]
    BY <2>1, <2>2, Answers
  <2>4. CASE local = 0 \/ RangeAccepted(a, local)
    <3>1. /\ pc' = "stream" /\ resp' = a /\ UNCHANGED <<dst, partial, job, local>>
          /\ tmp' = [tmp EXCEPT ![job.dest] =
                       IF a.status = 200 /\ local > 0 THEN <<>> ELSE @]
      BY <1>2, <2>4 DEF Respond
    <3>2. tmp'[d] = tmp[d] \/ (tmp'[d] = <<>> /\ a.status = 200)
      BY <1>0, <1>a, <2>1, <3>1 DEF TypeOK
    <3>3. OnlyFrom(<<>>, p) /\ CleanHead(<<>>, p)
      BY DEF OnlyFrom, CleanHead
    <3>4. tmp'[d] # NoFile => OnlyFrom(tmp'[d], p) /\ CleanHead(tmp'[d], p)
      BY <3>2, <3>3, <1>a DEF Pure
    <3>5. ASSUME job = t, a.status = 503
          PROVE  \A i \in 1..Len(tmp'[d]) : tmp'[d][i] = Junk
      BY <2>2, <2>4, <3>2, <3>5 DEF RangeAccepted
    <3>6. ASSUME job = t, a.status = 416
          PROVE  Size[p] <= Len(tmp'[d])
      BY <2>2, <2>3, <3>2, <3>6
    <3> QED  BY <1>a, <3>1, <3>4, <3>5, <3>6 DEF Pure
  <2>5. CASE ~ (local = 0 \/ RangeAccepted(a, local))
    BY <1>2, <1>a, <2>5, PureExit DEF Respond
  <2> QED  BY <2>4, <2>5
<1>3. CASE Stream
  <2> DEFINE f == tmp[job.dest]  b == BodyBlock(resp, job.pkg)  g == Append(f, b)
  <2>1. pc = "stream" /\ job \in Targets /\ job.dest \in Dests /\ f \in File
    BY <1>0, <1>3, Running DEF Stream
  <2>2. tmp'[job.dest] = g /\ \A e \in Dests : e # job.dest => tmp'[e] = tmp[e]
    BY <1>0, <1>3, <2>1 DEF Stream, TypeOK
  <2>3. pc' = pc /\ UNCHANGED <<job, dst, partial>> /\ resp' = [resp EXCEPT !.first = @ + 1]
    BY <1>3 DEF Stream
  <2>4. resp \in Answer /\ resp'.status = resp.status
    BY <1>0, <2>3 DEF TypeOK, Answer
  <2>5. CASE job.dest # d
    BY <1>a, <2>1, <2>2, <2>3, <2>5 DEF Pure
  <2>6. CASE job.dest = d
    <3>1. job = t
      BY <1>b, <2>1, <2>6
    <3>2. CASE resp.status \in {200, 206}
      <4>1. b = [of |-> p, at |-> Len(f) + 1] /\ b \in Block /\ b # Junk
        <5>1. resp.first = Len(f) + 1 /\ Len(f) \in Nat
          BY <1>0, <2>1, <3>2 DEF PlaceInv, Aligned, File
        <5>2. b = [of |-> p, at |-> Len(f) + 1]
          BY <3>1, <3>2, <5>1 DEF BodyBlock
        <5> QED  BY <1>a, <5>1, <5>2 DEF Block
      <4> HIDE DEF b
      <4>2. /\ Len(g) = Len(f) + 1 /\ Len(f) \in Nat /\ g[Len(f) + 1] = b
            /\ \A i \in 1..Len(f) : g[i] = f[i]
        BY <2>1, <4>1 DEF File
      <4> HIDE DEF g
      <4>3. f # NoFile /\ OnlyFrom(f, p) /\ CleanHead(f, p)
        BY <1>a, <2>1, <3>1 DEF Pure, SentinelAssumption
      <4>4. OnlyFrom(g, p)
        BY <4>1, <4>2, <4>3 DEF OnlyFrom
      <4>5. CleanHead(g, p)
        <5> SUFFICES ASSUME g[1] # Junk, NEW i \in 1..Len(g), i <= Size[p]
                     PROVE  g[i] # Junk
          BY DEF CleanHead
        <5>1. CASE i = Len(f) + 1
          BY <4>1, <4>2, <5>1
        <5>2. CASE i \in 1..Len(f)
          <6>1. f[1] # Junk /\ Len(f) > 0
            BY <4>2, <5>2
          <6> QED  BY <4>2, <4>3, <5>2, <6>1 DEF CleanHead
        <5> QED  BY <4>2, <5>1, <5>2
      <4> QED  BY <1>a, <2>1, <2>2, <2>3, <2>4, <2>6, <3>1, <3>2, <4>4, <4>5 DEF Pure
    <3>3. CASE resp.status \in {416, 503}
      <4>1. b = Junk
        BY <3>3 DEF BodyBlock
      <4> HIDE DEF b
      <4>2. /\ Len(g) = Len(f) + 1 /\ Len(f) \in Nat /\ g[Len(f) + 1] = Junk
            /\ \A i \in 1..Len(f) : g[i] = f[i]
        BY <2>1, <4>1 DEF File
      <4> HIDE DEF g
      <4>3. f # NoFile /\ OnlyFrom(f, p) /\ CleanHead(f, p)
        BY <1>a, <2>1, <3>1 DEF Pure, SentinelAssumption
      <4>4. /\ resp.status = 503 => \A i \in 1..Len(f) : f[i] = Junk
            /\ resp.status = 416 => Size[p] <= Len(f)
        BY <1>a, <2>1, <3>1 DEF Pure
      <4>5. OnlyFrom(g, p)
        BY <4>2, <4>3 DEF OnlyFrom
      <4>6. CleanHead(g, p)
        <5> SUFFICES ASSUME g[1] # Junk, NEW i \in 1..Len(g), i <= Size[p]
                     PROVE  g[i] # Junk
          BY DEF CleanHead
        <5>1. Len(f) > 0 /\ f[1] # Junk
          BY <4>2
        <5>2. resp.status # 503
          BY <4>2, <4>4, <5>1
        <5>3. i \in 1..Len(f)
          BY <1>a, <3>3, <4>2, <4>4, <5>2
        <5> QED  BY <4>2, <4>3, <5>1, <5>3 DEF CleanHead
      <4>7. /\ resp.status = 503 => \A i \in 1..Len(g) : g[i] = Junk
            /\ resp.status = 416 => Size[p] <= Len(g)
        <5>1. \A i \in 1..Len(g) : i \in 1..Len(f) \/ i = Len(f) + 1
          BY <4>2
        <5>2. ASSUME resp.status = 503, NEW i \in 1..Len(g) PROVE g[i] = Junk
          BY <4>2, <4>4, <5>1, <5>2
        <5>3. resp.status = 416 => Size[p] <= Len(f)
          BY <4>4
        <5>4. Size[p] \in Nat
          BY <1>a
        <5>5. resp.status = 416 => Size[p] <= Len(g)
          BY <4>2, <5>3, <5>4
        <5> QED  BY <5>2, <5>5
      <4> QED  BY <1>a, <2>1, <2>2, <2>3, <2>4, <2>6, <3>1, <4>5, <4>6, <4>7 DEF Pure
    <3> QED  BY <2>4, <3>2, <3>3 DEF Answer
  <2> QED  BY <2>5, <2>6
<1>4. CASE BodyEnds
  BY <1>4, <1>a DEF BodyEnds, Pure
<1>5. ASSUME SetAside PROVE Pure(t)'
  BY <1>0, <1>5, <1>a, PureExit DEF SetAside, TypeOK
<1>6. CASE ReplicateOpen
  <2>1. CASE pc' = "copy" /\ UNCHANGED <<tmp, dst, job>>
    BY <1>a, <2>1 DEF Pure
  <2> QED  BY <1>5, <1>6, <2>1 DEF ReplicateOpen
<1>7. CASE ReplicateCopy
  <2> DEFINE f == tmp[job.dest]
  <2>1. pc = "copy" /\ job \in Targets /\ job.dest \in Dests /\ f \in File
    BY <1>0, <1>7, Running DEF ReplicateCopy
  <2>2. CASE EntriesFound(f)
    <3>1. /\ partial' = [partial EXCEPT ![job.dest] = Replicated(f, job.pkg)]
          /\ pc' = "publish" /\ UNCHANGED <<tmp, dst, job>>
      BY <1>7, <2>2 DEF ReplicateCopy
    <3>2. ASSUME job = t
          PROVE  partial'[d] = Genuine(p)
      <4>1. f # NoFile /\ OnlyFrom(f, p) /\ CleanHead(f, p) /\ Readable(f)
        BY <1>0, <1>a, <2>1, <3>2 DEF Pure, WholeInv, Finished, SentinelAssumption
      <4>2. Replicated(f, p) = Genuine(p)
        BY <1>a, <2>1, <2>2, <4>1, GenuineCopy
      <4> QED  BY <1>0, <2>1, <3>1, <3>2, <4>2 DEF TypeOK
    <3> QED  BY <1>a, <3>1, <3>2 DEF Pure
  <2> QED  BY <1>5, <1>7, <2>2 DEF ReplicateCopy
<1>8. CASE ReplicateFail
  BY <1>5, <1>8 DEF ReplicateFail
<1>9. CASE Publish
  <2>1. pc = "publish" /\ job \in Targets /\ job.dest \in Dests
    BY <1>0, <1>9, Running DEF Publish
  <2>2. dst'[d] = IF job.dest = d THEN partial[d] ELSE dst[d]
    BY <1>0, <1>9, <1>a, <2>1 DEF Publish, TypeOK
  <2>3. dst'[d] \in {NoFile, Genuine(p)}
    BY <1>a, <1>b, <2>1, <2>2 DEF Pure
  <2> QED  BY <1>9, <1>a, <2>3 DEF Publish, Pure
<1>10. CASE Cleanup \/ Cut \/ Crash
  <2>1. Exit /\ dst' = dst /\ \A e \in Dests : tmp'[e] \in {tmp[e], NoFile}
    BY <1>0, <1>10 DEF Cleanup, Cut, Crash, files, TypeOK
  <2> QED  BY <1>a, <2>1, PureExit
<1>11. CASE UNCHANGED vars
  BY <1>11, <1>a DEF vars, Pure
<1> QED
  BY <1>1, <1>2, <1>3, <1>4, <1>6, <1>7, <1>8, <1>9, <1>10, <1>11
     DEF Next, Work, Fault, AnswerGood, AnswerBad

\* An own destination never shows anything but the package it is named after, byte for
\* byte: neither error pages, nor short or foreign ranges, nor crashes get through.
THEOREM DestinationPure == Spec => []PublishedPure
<1>1. PureInv => PublishedPure
  BY DEF PureInv, Pure, PublishedPure
<1> QED  BY PureInit, PureStep, <1>1, PTL DEF Spec

-----------------------------------------------------------------------------
(* The files implement the abstract store *)

\* The genuine package is not one of the sentinels, so the mapping shows it.
LEMMA GenuineSeen ==
  ASSUME NEW p \in Packages
  PROVE  PackageAt(Genuine(p)) = p
<1>1. Size[p] \in Nat /\ \A k \in 1..Size[p] : [of |-> p, at |-> k] \in Block
  BY DEF Block
<1>2. Prefix(p, Size[p]) \in File
  BY <1>1 DEF Prefix, File
<1>3. Genuine(p) \in Published /\ Genuine(p).info = p
  BY <1>2 DEF Genuine, Published
<1>4. Genuine(p) # NoFile
  BY <1>3, SentinelAssumption
<1> QED  BY <1>3, <1>4 DEF PackageAt

LEMMA StoreInit == Init => Store!Init
BY DEF Init, Store!Init, Packed, PackageAt

\* The end of a run, however it comes about, ends the command.
LEMMA StoreExit ==
  ASSUME Exit, dst' = dst, pc # "idle", TypeOK
  PROVE  Store!End
<1>1. job # NoJob /\ job' = NoJob
  BY DEF TypeOK, Exit
<1>2. Packed' = Packed
  BY DEF Packed, PackageAt
<1> QED  BY <1>1, <1>2 DEF Store!End

\* A step of the files is a step of the store, or none.
LEMMA StoreStep ==
  ASSUME OwnTargets = Targets
  PROVE  PureInv /\ [Next]_vars => [Store!Next]_<<Packed, job>>
<1> SUFFICES ASSUME PureInv, [Next]_vars PROVE [Store!Next]_<<Packed, job>>
  OBVIOUS
<1>0. TypeOK /\ WholeInv
  BY DEF PureInv, PlaceInv, WholeInv
<1>u. dst' = dst => Packed' = Packed
  BY DEF Packed, PackageAt
<1>s. UNCHANGED <<dst, job>> => [Store!Next]_<<Packed, job>>
  BY <1>u
<1>e. Exit /\ dst' = dst /\ pc # "idle" => [Store!Next]_<<Packed, job>>
  BY <1>0, StoreExit DEF Store!Next
<1>1. ASSUME NEW t \in Targets, Start(t) PROVE [Store!Next]_<<Packed, job>>
  <2>1. job = NoJob /\ job' = t /\ Packed' = Packed
    BY <1>0, <1>1, <1>u DEF Start, TypeOK
  <2>2. Store!Begin(t)
    BY <2>1 DEF Store!Begin
  <2> QED  BY <2>2 DEF Store!Next
<1>2. ASSUME pc = "send", NEW a, Respond(a) PROVE [Store!Next]_<<Packed, job>>
  BY <1>2, <1>s, <1>e DEF Respond
<1>3. CASE Stream \/ BodyEnds
  BY <1>3, <1>s DEF Stream, BodyEnds
<1>4. CASE ReplicateOpen \/ ReplicateCopy \/ ReplicateFail
  <2>1. pc # "idle"
    BY <1>4 DEF ReplicateOpen, ReplicateCopy, ReplicateFail
  <2>2. CASE SetAside
    BY <1>e, <2>1, <2>2 DEF SetAside
  <2>3. CASE UNCHANGED <<dst, job>>
    BY <1>s, <2>3
  <2> QED  BY <1>4, <2>2, <2>3 DEF ReplicateOpen, ReplicateCopy, ReplicateFail
<1>5. CASE Publish
  <2>1. job \in Targets /\ job.dest \in Dests /\ job.pkg \in Packages /\ pc = "publish"
        /\ job # NoJob
    BY <1>0, <1>5, Running DEF Publish
  <2>2. partial[job.dest] = Genuine(job.pkg)
    BY <2>1 DEF PureInv, Pure
  <2>3. dst' = [dst EXCEPT ![job.dest] = Genuine(job.pkg)] /\ job' = job
    BY <1>5, <2>2 DEF Publish
  <2>4. Packed' = [Packed EXCEPT ![job.dest] = job.pkg]
    <3>1. \A d \in Dests : d # job.dest => dst'[d] = dst[d]
      BY <1>0, <2>1, <2>3 DEF TypeOK
    <3>2. PackageAt(dst'[job.dest]) = job.pkg
      BY <1>0, <2>1, <2>3, GenuineSeen DEF TypeOK
    <3>3. Packed' = [d \in Dests |-> PackageAt(dst'[d])]
      BY DEF Packed, PackageAt
    <3>4. \A d \in Dests : d # job.dest => PackageAt(dst'[d]) = PackageAt(dst[d])
      BY <3>1
    <3> HIDE DEF PackageAt
    <3> QED  BY <2>1, <3>2, <3>3, <3>4 DEF Packed
  <2>5. Store!Replace
    BY <2>1, <2>3, <2>4 DEF Store!Replace
  <2> QED  BY <2>5 DEF Store!Next
<1>6. CASE Cleanup \/ Cut \/ Crash
  BY <1>6, <1>e DEF Cleanup, Cut, Crash, files
<1>7. CASE UNCHANGED vars
  BY <1>7, <1>s DEF vars
<1> QED
  BY <1>1, <1>2, <1>3, <1>4, <1>5, <1>6, <1>7
     DEF Next, Work, Fault, AnswerGood, AnswerBad

\* Crashes, resumes and refused answers included, the files behave like a store in which
\* a package appears in one step, when no destination is shared by two packages.
THEOREM StoreImplemented ==
  ASSUME OwnTargets = Targets
  PROVE  Spec => ImplementsStore
<1>1. PureInv /\ [Next]_vars => [Store!Next]_<<Packed, job>>
  BY StoreStep
<1> QED
  BY PureInit, PureStep, StoreInit, <1>1, PTL DEF Spec, ImplementsStore, Store!Spec

-----------------------------------------------------------------------------
(* What becomes of downloaded blocks *)

\* The raw download stays as it is from the copy of its entries to the rename, so that what is
\* published is made of what is deleted afterwards.
Matching ==
  /\ pc = "publish" => partial[job.dest] = Replicated(tmp[job.dest], job.pkg)
  /\ pc = "cleanup" => dst[job.dest] = Replicated(tmp[job.dest], job.pkg)

KeptInv == WholeInv /\ Matching

\* What a step may do to the partial of d.
Keeps(d) ==
  tmp[d] # NoFile =>
    \/ Extends(tmp'[d], tmp[d])
    \/ tmp'[d] = <<>> /\ resp'.status = 200
    \/ tmp'[d] = NoFile /\ pre'[d] = tmp[d]
    \/ tmp'[d] = NoFile /\ dst[d] = Replicated(tmp[d], job.pkg)

LEMMA ExtendsItself ==
  ASSUME NEW f \in File
  PROVE  Extends(f, f)
<1>1. f # NoFile /\ Len(f) \in Nat /\ f \in Seq(Block \union {Junk})
  BY DEF File
<1>2. SubSeq(f, 1, Len(f)) = f
  BY <1>1, SubSeqFull
<1> QED  BY <1>1, <1>2 DEF Extends

LEMMA AppendExtends ==
  ASSUME NEW f \in File, NEW b \in Block \union {Junk}
  PROVE  Extends(Append(f, b), f)
<1>. DEFINE g == Append(f, b)
            s == SubSeq(g, 1, Len(f))
<1>1. f \in Seq(Block \union {Junk}) /\ g \in Seq(Block \union {Junk}) /\ g # NoFile
  BY DEF File
<1>2. Len(f) \in Nat /\ Len(g) = Len(f) + 1 /\ \A k \in 1..Len(f) : g[k] = f[k]
  BY <1>1
<1>3. s \in Seq(Block \union {Junk}) /\ Len(s) = Len(f) /\ \A k \in 1..Len(f) : s[k] = g[k]
  BY <1>1, <1>2
<1>4. s = f
  <2>. HIDE DEF g, s
  <2> QED  BY <1>1, <1>2, <1>3, SeqEqual
<1> QED  BY <1>1, <1>2, <1>4 DEF Extends

LEMMA KeptInit == Init => KeptInv
BY WholeInit DEF Init, KeptInv, Matching

LEMMA SetAsideKeeps ==
  ASSUME TypeOK, SetAside, pc # "idle", NEW d \in Dests
  PROVE  Keeps(d)
<1>1. job.dest \in Dests
  BY Running
<1>2. CASE d = job.dest
  BY <1>1, <1>2 DEF SetAside, TypeOK, Keeps
<1>3. CASE d # job.dest
  <2>1. tmp'[d] = tmp[d]
    BY <1>1, <1>3 DEF SetAside, TypeOK
  <2>2. tmp[d] # NoFile => tmp[d] \in File
    BY DEF TypeOK
  <2> QED  BY <2>1, <2>2, ExtendsItself DEF Keeps
<1> QED  BY <1>2, <1>3

LEMMA SameKeeps ==
  ASSUME TypeOK, NEW d \in Dests, tmp'[d] = tmp[d]
  PROVE  Keeps(d)
<1>1. tmp[d] # NoFile => tmp[d] \in File
  BY DEF TypeOK
<1> QED  BY <1>1, ExtendsItself DEF Keeps

LEMMA KeptStep == KeptInv /\ [Next]_vars => KeptInv' /\ \A d \in Dests : Keeps(d)
<1> SUFFICES ASSUME KeptInv, [Next]_vars
             PROVE  Matching' /\ \A d \in Dests : Keeps(d)
  BY WholeStep DEF KeptInv
<1>0. TypeOK /\ NoFile \notin File
  BY DEF KeptInv, WholeInv, File
<1>1. ASSUME NEW t \in Targets, Start(t)
      PROVE  Matching' /\ \A d \in Dests : Keeps(d)
  <2>1. Matching'
    BY <1>1 DEF Start, Matching
  <2>2. ASSUME NEW d \in Dests
        PROVE  Keeps(d)
    <3>1. tmp[d] # NoFile => tmp'[d] = tmp[d]
      BY <1>0, <1>1 DEF Start, TypeOK
    <3> QED  BY <1>0, <3>1, SameKeeps DEF Keeps
  <2> QED  BY <2>1, <2>2
<1>2. ASSUME SetAside, pc # "idle"
      PROVE  Matching' /\ \A d \in Dests : Keeps(d)
  <2>1. Matching'
    BY <1>2 DEF SetAside, Exit, Matching
  <2> QED  BY <1>0, <1>2, <2>1, SetAsideKeeps
<1>3. ASSUME Exit, UNCHANGED tmp
      PROVE  Matching' /\ \A d \in Dests : Keeps(d)
  BY <1>0, <1>3, SameKeeps DEF Exit, Matching
<1>4. ASSUME pc = "send", NEW a, Respond(a)
      PROVE  Matching' /\ \A d \in Dests : Keeps(d)
  <2>1. CASE local = 0 \/ RangeAccepted(a, local)
    <3>1. /\ pc' = "stream" /\ resp' = a
          /\ tmp' = [tmp EXCEPT ![job.dest] = IF a.status = 200 /\ local > 0 THEN <<>> ELSE @]
      BY <1>4, <2>1 DEF Respond
    <3>2. ASSUME NEW d \in Dests
          PROVE  Keeps(d)
      <4>1. tmp'[d] = tmp[d] \/ (tmp'[d] = <<>> /\ resp'.status = 200)
        BY <1>0, <3>1 DEF TypeOK
      <4> QED  BY <1>0, <4>1, SameKeeps DEF Keeps
    <3> QED  BY <3>1, <3>2 DEF Matching
  <2>2. CASE ~ (local = 0 \/ RangeAccepted(a, local))
    BY <1>3, <1>4, <2>2 DEF Respond
  <2> QED  BY <2>1, <2>2
<1>5. CASE Stream
  <2>1. pc = "stream" /\ job.dest \in Dests /\ job.pkg \in Packages /\ tmp[job.dest] \in File
    BY <1>0, <1>5, Running DEF Stream
  <2>2. resp \in Answer
    BY <1>0 DEF TypeOK
  <2>3. PICK b \in Block \union {Junk} : tmp' = [tmp EXCEPT ![job.dest] = Append(@, b)]
    <3>1. BodyBlock(resp, job.pkg) \in Block \union {Junk}
      BY <2>1, <2>2 DEF BodyBlock, Answer, Block
    <3> QED  BY <1>5, <3>1 DEF Stream
  <2>4. ASSUME NEW d \in Dests
        PROVE  Keeps(d)
    <3>1. CASE d = job.dest
      <4>1. tmp'[d] = Append(tmp[d], b)
        BY <1>0, <2>1, <2>3, <3>1 DEF TypeOK
      <4> QED  BY <2>1, <3>1, <4>1, AppendExtends DEF Keeps
    <3>2. CASE d # job.dest
      BY <1>0, <2>1, <2>3, <3>2, SameKeeps DEF TypeOK
    <3> QED  BY <3>1, <3>2
  <2>5. Matching'
    BY <1>5 DEF Stream, Matching
  <2> QED  BY <2>4, <2>5
<1>6. CASE BodyEnds
  BY <1>0, <1>6, SameKeeps DEF BodyEnds, Matching
<1>7. CASE ReplicateOpen
  <2>1. CASE Readable(tmp[job.dest])
    BY <1>0, <1>7, <2>1, SameKeeps DEF ReplicateOpen, Matching
  <2> QED  BY <1>2, <1>7, <2>1 DEF ReplicateOpen
<1>8. CASE ReplicateCopy
  <2>1. pc = "copy" /\ job.dest \in Dests
    BY <1>0, <1>8, Running DEF ReplicateCopy
  <2>2. CASE EntriesFound(tmp[job.dest])
    <3>1. /\ partial' = [partial EXCEPT ![job.dest] = Replicated(tmp[job.dest], job.pkg)]
          /\ pc' = "publish" /\ UNCHANGED <<tmp, dst, job>>
      BY <1>8, <2>2 DEF ReplicateCopy
    <3>2. partial'[job.dest] = Replicated(tmp[job.dest], job.pkg)
      BY <1>0, <2>1, <3>1 DEF TypeOK
    <3>3. Matching'
      BY <3>1, <3>2 DEF Matching
    <3> QED  BY <1>0, <3>1, <3>3, SameKeeps
  <2> QED  BY <1>2, <1>8, <2>1, <2>2 DEF ReplicateCopy
<1>9. CASE ReplicateFail
  BY <1>2, <1>9 DEF ReplicateFail
<1>10. CASE Publish
  <2>1. pc = "publish" /\ job.dest \in Dests
    BY <1>0, <1>10, Running DEF Publish
  <2>2. dst'[job.dest] = partial[job.dest]
    BY <1>0, <1>10, <2>1 DEF Publish, TypeOK
  <2>3. pc' = "cleanup" /\ UNCHANGED <<tmp, job>>
    BY <1>10 DEF Publish
  <2>4. Matching'
    BY <2>1, <2>2, <2>3 DEF KeptInv, Matching
  <2> QED  BY <1>0, <2>3, <2>4, SameKeeps
<1>11. CASE Cleanup
  <2>1. pc = "cleanup" /\ job.dest \in Dests /\ Exit /\ tmp' = [tmp EXCEPT ![job.dest] = NoFile]
    BY <1>0, <1>11, Running DEF Cleanup
  <2>2. ASSUME NEW d \in Dests
        PROVE  Keeps(d)
    <3>1. CASE d = job.dest
      <4>1. tmp'[d] = NoFile
        BY <1>0, <2>1, <3>1 DEF TypeOK
      <4> QED  BY <2>1, <3>1, <4>1 DEF KeptInv, Matching, Keeps
    <3>2. CASE d # job.dest
      BY <1>0, <2>1, <3>2, SameKeeps DEF TypeOK
    <3> QED  BY <3>1, <3>2
  <2> QED  BY <2>1, <2>2 DEF Exit, Matching
<1>12. CASE Cut \/ Crash
  BY <1>3, <1>12 DEF Cut, Crash, files
<1>13. CASE UNCHANGED vars
  <2>1. UNCHANGED <<tmp, dst, partial, pc, job>>
    BY <1>13 DEF vars
  <2>2. Matching'
    BY <2>1 DEF KeptInv, Matching
  <2> QED  BY <1>0, <2>1, <2>2, SameKeeps
<1> QED
  BY <1>1, <1>4, <1>5, <1>6, <1>7, <1>8, <1>9, <1>10, <1>11, <1>12, <1>13
     DEF Next, Work, Fault, AnswerGood, AnswerBad

\* Whatever answers, crashes and failures there are, downloaded blocks leave a partial only when a full
\* body replaces them, when they are set aside, or when the package made of them stands at the
\* destination (PartialKept).
THEOREM BlocksAreKept == Spec => PartialKept
<1>1. KeptInv /\ [Next]_vars => KeptInv' /\ \A d \in Dests : Keeps(d)
  BY KeptStep
<1>2. (\A d \in Dests : Keeps(d)) =>
        \A d \in Dests : tmp[d] # NoFile =>
           \/ Extends(tmp'[d], tmp[d])
           \/ tmp'[d] = <<>> /\ resp'.status = 200
           \/ tmp'[d] = NoFile /\ pre'[d] = tmp[d]
           \/ tmp'[d] = NoFile /\ dst[d] = Replicated(tmp[d], job.pkg)
  BY DEF Keeps
<1> QED  BY KeptInit, <1>1, <1>2, PTL DEF Spec, PartialKept
=============================================================================
