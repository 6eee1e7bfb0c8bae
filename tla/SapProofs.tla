----------------------------- MODULE SapProofs -----------------------------
(***************************************************************************)
(* Proofs about the Mach-O guest: its heap, for any size of the arena, any *)
(* sizes asked for and any number of sessions; and its sessions, for any   *)
(* directories of assets, any files in them and any shims called: what the *)
(* shims tell the guest, when the guest is entered, and what a session     *)
(* leaves behind. Then its loader, for any files that are linked as        *)
(* LinkAssumption says: what each cell of an image holds.                  *)
(***************************************************************************)
EXTENDS Sap, TLAPS, SequenceTheorems, FiniteSetTheorems, WellFoundedInduction

heapVars == <<tail, heap, blocks>>
tellVars == <<iterator, cursor, answer>>

\* The arena is used up to the tail t, and no unit twice.
BlockIn(x, t) ==
  /\ x.at \in Nat /\ x.at >= 1 /\ x.size \in Nat
  /\ x.at + GoodSize(x.size) <= t
SizeIn(x, h) == x.at - Prefix \in DOMAIN h /\ h[x.at - Prefix] = x.size
Apart(x, y) == x.at + GoodSize(x.size) < y.at \/ y.at + GoodSize(y.size) < x.at

HeapInv ==
  /\ tail \in Nat \cup {-1} /\ TailNow <= HeapUnits
  /\ \A x \in blocks : BlockIn(x, TailNow) /\ SizeIn(x, heap)
  /\ \A x, y \in blocks : x # y => Apart(x, y)

LEMMA GoodSizes ==
  /\ \A n \in Nat : GoodSize(n) \in Nat
  /\ \A m, n \in Nat : m <= n => GoodSize(m) <= GoodSize(n)
BY DEF GoodSize

LEMMA InitHeap == Init => HeapInv
BY ShimsAssumption DEF Init, SapInit, ShimsInit, HeapInv, TailNow

\* malloc from a heap in which every size is where it was put.
LEMMA AllocateKeeps ==
  ASSUME HeapInv, NEW n \in Nat, NEW h, \A x \in blocks : SizeIn(x, h), Allocate(n, h)
  PROVE  HeapInv'
<1>1. TailNow \in Nat /\ GoodSize(n) \in Nat /\ HeapUnits \in Nat
  BY GoodSizes, ShimsAssumption DEF HeapInv, TailNow
<1>2. CASE ~Fits(n)
  <2>1. tail' = TailNow /\ heap' = h /\ blocks' = blocks
    BY <1>2 DEF Allocate
  <2>2. TailNow' = TailNow
    BY <1>1, <2>1 DEF TailNow
  <2> QED  BY <1>1, <2>1, <2>2 DEF HeapInv
<1>3. CASE Fits(n)
  <2>1. PICK new : /\ tail' = TailNow + 1 + GoodSize(n) /\ heap' = Holding(h, TailNow, n)
                   /\ blocks' = blocks \cup {new}
                   /\ new.at = TailNow + 1 /\ new.size = n
    <3>. DEFINE b == [at |-> UserOf(n), size |-> n, session |-> session]
    <3>1. b.at = TailNow + 1 /\ b.size = n
      BY DEF UserOf, Prefix
    <3>2. tail' = TailNow + 1 + GoodSize(n) /\ heap' = Holding(h, TailNow, n) /\ blocks' = blocks \cup {b}
      BY <1>3 DEF Allocate, Taken, UserOf, Prefix
    <3> QED  BY <3>1, <3>2
  <2>2. TailNow' = tail' /\ tail' \in Nat /\ tail' <= HeapUnits
    BY <1>1, <1>3, <2>1 DEF TailNow, Fits, Prefix
  <2>3. \A x \in blocks : BlockIn(x, tail') /\ x.at + GoodSize(x.size) < new.at
    BY <1>1, <2>1, GoodSizes DEF HeapInv, BlockIn
  <2>4. \A x \in blocks : SizeIn(x, heap')
    <3> SUFFICES ASSUME NEW x \in blocks PROVE SizeIn(x, heap')
      OBVIOUS
    <3>1. x.at - 1 \in DOMAIN h /\ h[x.at - 1] = x.size /\ x.at - 1 # TailNow
      BY <1>1, GoodSizes DEF HeapInv, BlockIn, SizeIn, Prefix
    <3> QED  BY <2>1, <3>1 DEF Holding, SizeIn, Prefix
  <2>5. SizeIn(new, heap')
    BY <1>1, <2>1 DEF SizeIn, Holding, Prefix
  <2>6. BlockIn(new, tail')
    BY <1>1, <2>1 DEF BlockIn
  <2>7. \A x \in blocks' : BlockIn(x, TailNow') /\ SizeIn(x, heap')
    BY <2>1, <2>2, <2>3, <2>4, <2>5, <2>6
  <2>8. \A x, y \in blocks' : x # y => Apart(x, y)
    BY <2>1, <2>3 DEF HeapInv, Apart
  <2> QED  BY <2>2, <2>7, <2>8 DEF HeapInv
<1> QED  BY <1>2, <1>3

\* The copy goes to units above the tail, where no size is.
LEMMA ReallocKeeps ==
  ASSUME HeapInv, Realloc
  PROVE  HeapInv'
<1>1. PICK b, n, copied, merged :
        /\ b \in blocks /\ n \in Sizes
        /\ DOMAIN copied = TailNow + 1..TailNow + GoodSize(Smaller(MallocSize(b), n))
        /\ merged = [u \in DOMAIN heap \cup DOMAIN copied |-> IF u \in DOMAIN copied THEN copied[u] ELSE heap[u]]
        /\ Allocate(n, IF Fits(n) THEN merged ELSE heap)
  <2>1. PICK b \in blocks, n \in Sizes :
          LET old == MallocSize(b)
              to == UserOf(n)
              units == GoodSize(Smaller(old, n))
              copy == [u \in to..to + units - 1 |->
                         IF u - to + b.at \in DOMAIN heap THEN heap[u - to + b.at] ELSE "zero"]
              h == [u \in DOMAIN heap \cup DOMAIN copy |-> IF u \in DOMAIN copy THEN copy[u] ELSE heap[u]]
          IN  Allocate(n, IF Fits(n) THEN h ELSE heap)
    BY DEF Realloc
  <2>. DEFINE len == GoodSize(Smaller(MallocSize(b), n))
              cells == [u \in UserOf(n)..UserOf(n) + len - 1 |->
                         IF u - UserOf(n) + b.at \in DOMAIN heap THEN heap[u - UserOf(n) + b.at] ELSE "zero"]
              all == [u \in DOMAIN heap \cup DOMAIN cells |-> IF u \in DOMAIN cells THEN cells[u] ELSE heap[u]]
  <2>2. MallocSize(b) = b.size /\ b.size \in Nat /\ n \in Nat
    BY ShimsAssumption DEF HeapInv, BlockIn, SizeIn, MallocSize, BlockSize
  <2>3. len \in Nat
    BY <2>2, GoodSizes DEF Smaller
  <2>4. TailNow \in Nat
    BY DEF HeapInv, TailNow
  <2>5. DOMAIN cells = TailNow + 1..TailNow + len
    <3>1. UserOf(n) = TailNow + 1 /\ UserOf(n) + len - 1 = TailNow + len
      BY <2>3, <2>4 DEF UserOf, Prefix
    <3> QED  BY <3>1
  <2>6. Allocate(n, IF Fits(n) THEN all ELSE heap)
    BY <2>1
  <2> QED  BY <2>5, <2>6
<1>2. \A x \in blocks : SizeIn(x, IF Fits(n) THEN merged ELSE heap)
  <2> SUFFICES ASSUME NEW x \in blocks PROVE SizeIn(x, merged)
    BY DEF HeapInv
  <2>1. x.at - 1 \in DOMAIN heap /\ heap[x.at - 1] = x.size /\ x.at - 1 \notin DOMAIN copied
    <3>1. TailNow \in Nat /\ x.at - 1 <= TailNow
      <4>1. TailNow \in Nat /\ BlockIn(x, TailNow)
        BY DEF HeapInv, TailNow
      <4> QED  BY <4>1, GoodSizes DEF BlockIn
    <3>2. x.at - 1 \in DOMAIN heap /\ heap[x.at - 1] = x.size
      BY DEF HeapInv, SizeIn, Prefix
    <3> QED  BY <1>1, <3>1, <3>2 DEF HeapInv, BlockIn
  <2> QED  BY <1>1, <2>1 DEF SizeIn, Prefix
<1>3. n \in Nat
  BY <1>1, ShimsAssumption
<1> QED  BY <1>1, <1>2, <1>3, AllocateKeeps

\* The guest writes between the size of a block and the next one.
LEMMA FillKeeps ==
  ASSUME HeapInv, Fill
  PROVE  HeapInv'
<1>1. PICK b \in blocks :
        /\ heap' = [u \in DOMAIN heap \cup b.at..b.at + GoodSize(b.size) - 1 |->
                      IF u \in b.at..b.at + GoodSize(b.size) - 1 THEN "filled" ELSE heap[u]]
        /\ tail' = tail /\ blocks' = blocks
  BY DEF Fill
<1>2. \A x \in blocks : SizeIn(x, heap')
  <2> SUFFICES ASSUME NEW x \in blocks PROVE SizeIn(x, heap')
    OBVIOUS
  <2>1. x.at - 1 \in DOMAIN heap /\ heap[x.at - 1] = x.size
    BY DEF HeapInv, SizeIn, Prefix
  <2>2. x.at - 1 \notin b.at..b.at + GoodSize(b.size) - 1
    <3>1. x.at \in Nat /\ b.at \in Nat /\ GoodSize(x.size) \in Nat /\ GoodSize(b.size) \in Nat
      BY GoodSizes DEF HeapInv, BlockIn
    <3>2. x = b \/ Apart(x, b)
      BY DEF HeapInv
    <3> QED  BY <3>1, <3>2 DEF Apart
  <2> QED  BY <1>1, <2>1, <2>2 DEF SizeIn, Prefix
<1>3. TailNow' = TailNow
  BY <1>1 DEF TailNow
<1> QED  BY <1>1, <1>2, <1>3 DEF HeapInv

LEMMA StaysSo ==
  ASSUME HeapInv, UNCHANGED heapVars
  PROVE  HeapInv'
BY DEF HeapInv, heapVars, TailNow

LEMMA CallsKeep ==
  ASSUME HeapInv, GuestCalls
  PROVE  HeapInv'
<1>1. \A x \in blocks : SizeIn(x, heap)
  BY DEF HeapInv
<1>2. CASE Malloc
  BY <1>1, <1>2, AllocateKeeps, ShimsAssumption DEF Malloc
<1>3. CASE Calloc
  <2>1. PICK n \in Sizes, count \in {1, 2} : Allocate(count * n, heap)
    BY <1>3 DEF Calloc
  <2>2. count * n \in Nat
    BY ShimsAssumption
  <2> QED  BY <1>1, <2>1, <2>2, AllocateKeeps
<1>4. CASE Open \/ ReadIcxs \/ IteratorNext \/ Once \/ Asks
  <2>1. UNCHANGED heapVars
    BY <1>4 DEF Open, ReadIcxs, IteratorNext, Once, Asks, RestOfTelling, shimVars, heapVars
  <2> QED  BY <2>1, StaysSo
<1> QED  BY <1>2, <1>3, <1>4, ReallocKeeps, FillKeeps DEF GuestCalls

\* Nothing but a shim that the guest calls touches the heap, not a new session either; and what the
\* shims tell the guest starts over with a session.
LEMMA SessionStep ==
  ASSUME SapNext
  PROVE  GuestCalls \/ ResetAndServe \/ UNCHANGED <<heapVars, tellVars>>
<1>1. CASE Begin \/ LoadCore \/ LoadKit
  BY <1>1 DEF Begin, LoadCore, LoadKit, LoadImage, Lower, shimVars, talkVars, heapVars, tellVars
<1>3. CASE Exports
  BY <1>3 DEF Exports, ExportsFound, NewFails, shimVars, talkVars, heapVars, tellVars
<1>4. CASE Loading
  BY <1>4 DEF Loading, NewFails, shimVars, talkVars, heapVars, tellVars
<1>5. CASE FindEntries
  BY <1>5 DEF FindEntries, talkVars, heapVars, tellVars
<1>6. CASE MapRegion
  BY <1>6 DEF MapRegion, NewFails, Lower, shimVars, talkVars, heapVars, tellVars
<1>7. CASE SapInitCall
  BY <1>7 DEF SapInitCall, talkVars, heapVars, tellVars
<1>8. CASE InitReturns \/ Exchange \/ EntryReturns \/ DisposeReturns
  BY <1>8 DEF InitReturns, Exchange, EntryReturns, DisposeReturns, RestOfReturn, Lower, shimVars, talkVars, heapVars, tellVars
<1>9. CASE Sign \/ SignFails \/ Finish \/ Teardown \/ TeardownReturns \/ Again
  BY <1>9 DEF Sign, SignFails, Finish, Teardown, TeardownReturns, Again, Lower, shimVars, talkVars, heapVars, tellVars
<1>10. CASE DropRuntime
  BY <1>10 DEF DropRuntime, shimVars, talkVars, heapVars, tellVars
<1>11. CASE ShimCalled
  BY <1>11 DEF ShimCalled
<1> QED  BY <1>1, <1>3, <1>4, <1>5, <1>6, <1>7, <1>8, <1>9, <1>10, <1>11 DEF SapNext

LEMMA HeapStep == HeapInv /\ [Next]_sapAllVars => HeapInv'
<1> SUFFICES ASSUME HeapInv, [Next]_sapAllVars PROVE HeapInv'
  OBVIOUS
<1>1. GuestCalls \/ UNCHANGED heapVars
  <2>1. CASE focus = "loader" /\ LoaderNext /\ UNCHANGED <<shimVars, talkVars, sapVars>>
    BY <2>1 DEF shimVars, heapVars
  <2>2. CASE SapNext
    <3>1. ResetAndServe => UNCHANGED heapVars
      BY DEF ResetAndServe, ResetShims, heapVars
    <3> QED  BY <2>2, <3>1, SessionStep
  <2>3. CASE UNCHANGED sapAllVars
    BY <2>3 DEF sapAllVars, shimVars, heapVars
  <2> QED  BY <2>1, <2>2, <2>3 DEF Next
<1> QED  BY <1>1, CallsKeep, StaysSo

LEMMA HeapIsApart == HeapInv => BlocksApart
<1> SUFFICES ASSUME HeapInv PROVE BlocksApart
  OBVIOUS
<1>1. TailNow \in Nat /\ TailNow <= HeapUnits /\ HeapUnits \in Nat
  BY ShimsAssumption DEF HeapInv, TailNow
<1>2. ASSUME NEW x \in blocks
      PROVE  UnitsOf(x) \subseteq 0..HeapUnits - 1 /\ MallocSize(x) = x.size
  <2>1. /\ x.at \in Nat /\ x.at >= 1 /\ GoodSize(x.size) \in Nat
        /\ x.at + GoodSize(x.size) <= TailNow
    BY GoodSizes DEF HeapInv, BlockIn
  <2>2. UnitsOf(x) \subseteq 0..HeapUnits - 1
    BY <1>1, <2>1 DEF UnitsOf, Prefix
  <2>3. MallocSize(x) = x.size
    BY DEF HeapInv, SizeIn, MallocSize, BlockSize
  <2> QED  BY <2>2, <2>3
<1>3. ASSUME NEW x \in blocks, NEW y \in blocks, x # y
      PROVE  UnitsOf(x) \cap UnitsOf(y) = {}
  <2>1. /\ x.at \in Nat /\ GoodSize(x.size) \in Nat
        /\ y.at \in Nat /\ GoodSize(y.size) \in Nat /\ Apart(x, y)
    BY <1>3, GoodSizes DEF HeapInv, BlockIn
  <2> QED  BY <2>1 DEF UnitsOf, Prefix, Apart
<1> QED  BY <1>2, <1>3 DEF BlocksApart

\* Whatever the guest asks for, in whichever session, no two blocks it was given share a unit, all
\* lie in the arena, and malloc_size reports what was asked for (BlocksApart).
THEOREM HeapApart == Spec => []BlocksApart
<1> QED  BY InitHeap, HeapStep, HeapIsApart, PTL DEF Spec

-----------------------------------------------------------------------------
(***************************************************************************)
(* What the shims tell the guest, since its session began.                 *)
(***************************************************************************)
AnswerInv ==
  /\ iterator \in Nat /\ cursor \in 0..Len(Icxs)
  /\ answer = [asked |-> iterator, sinceOpen |-> SubSeq(Icxs, 1, cursor)]

LEMMA IcxsIsASequence == \E S : Icxs \in Seq(S) /\ Len(Icxs) \in Nat
<1>1. Len(Icxs) \in Nat
  BY ShimsAssumption
<1> QED  BY <1>1, ShimsAssumption

\* What is read piece by piece is what is read at once.
LEMMA Pieces ==
  ASSUME NEW i \in 0..Len(Icxs), NEW j \in i..Len(Icxs)
  PROVE  SubSeq(Icxs, 1, i) \o SubSeq(Icxs, i + 1, j) = SubSeq(Icxs, 1, j)
<1>1. PICK S : Icxs \in Seq(S) /\ Len(Icxs) \in Nat
  BY IcxsIsASequence
<1>. DEFINE a == SubSeq(Icxs, 1, i)
            b == SubSeq(Icxs, i + 1, j)
            c == SubSeq(Icxs, 1, j)
<1>2. /\ a \in Seq(S) /\ Len(a) = i /\ \A k \in 1..i : a[k] = Icxs[k]
      /\ b \in Seq(S) /\ Len(b) = j - i /\ \A k \in 1..j - i : b[k] = Icxs[i + k]
      /\ c \in Seq(S) /\ Len(c) = j /\ \A k \in 1..j : c[k] = Icxs[k]
  <2>1. \A m \in 1..Len(Icxs) + 1, n \in 0..Len(Icxs) : m <= n + 1 =>
          /\ SubSeq(Icxs, m, n) \in Seq(S) /\ Len(SubSeq(Icxs, m, n)) = n - m + 1
          /\ \A k \in 1..n - m + 1 : SubSeq(Icxs, m, n)[k] = Icxs[m + k - 1]
    <3> TAKE m \in 1..Len(Icxs) + 1, n \in 0..Len(Icxs)
    <3> HAVE m <= n + 1
    <3>1. m..n \subseteq 1..Len(Icxs)
      BY <1>1
    <3>2. SubSeq(Icxs, m, n) \in Seq(S)
      BY <1>1, <3>1, SubSeqProperties
    <3>3. Len(SubSeq(Icxs, m, n)) = n - m + 1
      BY <1>1, <3>1, SubSeqProperties
    <3>4. \A k \in 1..n - m + 1 : SubSeq(Icxs, m, n)[k] = Icxs[m + k - 1]
      BY <1>1, <3>1, SubSeqProperties
    <3> QED  BY <3>2, <3>3, <3>4
  <2> QED  BY <1>1, <2>1
<1>. HIDE DEF a, b, c
<1>3. a \o b \in Seq(S) /\ Len(a \o b) = j
  BY <1>1, <1>2
<1>4. \A k \in 1..j : (a \o b)[k] = c[k]
  <2> SUFFICES ASSUME NEW k \in 1..j
               PROVE  (a \o b)[k] = c[k]
    OBVIOUS
  <2>1. (a \o b)[k] = IF k <= i THEN a[k] ELSE b[k - i]
    <3>1. \A x \in 1..Len(a) + Len(b) : (a \o b)[x] = IF x <= Len(a) THEN a[x] ELSE b[x - Len(a)]
      BY <1>2, ConcatProperties
    <3>2. Len(a) + Len(b) = j
      BY <1>1, <1>2
    <3> QED  BY <1>2, <3>1, <3>2
  <2>2. CASE k <= i
    BY <1>2, <2>1, <2>2
  <2>3. CASE k > i
    <3>1. k - i \in 1..j - i /\ i + (k - i) = k
      BY <1>1, <2>3
    <3> QED  BY <1>2, <2>1, <2>3, <3>1
  <2>4. k <= i \/ k > i
    BY <1>1
  <2> QED  BY <2>2, <2>3, <2>4
<1>5. a \o b = c
  BY <1>2, <1>3, <1>4, SeqEqual
<1> QED  BY <1>5 DEF a, b, c

LEMMA ReadKeeps ==
  ASSUME AnswerInv, ReadIcxs
  PROVE  AnswerInv'
<1>1. PICK count, n :
        /\ count \in Counts
        /\ n = IF icxs THEN Smaller(Remaining, count) ELSE 0
        /\ cursor' = cursor + n
        /\ answer' = [answer EXCEPT !.sinceOpen = @ \o SubSeq(Icxs, cursor + 1, cursor + n)]
        /\ iterator' = iterator
  BY DEF ReadIcxs
<1>2. Len(Icxs) \in Nat /\ cursor \in 0..Len(Icxs) /\ count \in Nat
  BY <1>1, IcxsIsASequence, ShimsAssumption DEF AnswerInv
<1>3. n \in 0..Len(Icxs) - cursor
  BY <1>1, <1>2 DEF Smaller, Remaining
<1>4. cursor + n \in cursor..Len(Icxs)
  BY <1>2, <1>3
<1>5. SubSeq(Icxs, 1, cursor) \o SubSeq(Icxs, cursor + 1, cursor + n) = SubSeq(Icxs, 1, cursor + n)
  BY <1>2, <1>4, Pieces
<1>6. answer' = [asked |-> iterator, sinceOpen |-> SubSeq(Icxs, 1, cursor + n)]
  BY <1>1, <1>5 DEF AnswerInv
<1>7. cursor + n \in 0..Len(Icxs)
  BY <1>2, <1>4
<1> QED  BY <1>1, <1>6, <1>7 DEF AnswerInv

LEMMA InitAnswers == Init => AnswerInv
<1>1. SubSeq(Icxs, 1, 0) = <<>>
  BY ShimsAssumption, SubSeqProperties
<1>2. Len(Icxs) \in Nat
  BY ShimsAssumption
<1> QED  BY <1>1, <1>2 DEF Init, SapInit, ShimsInit, NoAnswer, AnswerInv

LEMMA CallsTell ==
  ASSUME AnswerInv, GuestCalls
  PROVE  AnswerInv'
<1>1. CASE Malloc \/ Calloc \/ Realloc \/ Fill \/ Once \/ Asks
  BY <1>1 DEF Malloc, Calloc, Realloc, Fill, Once, Asks, RestOfShims, shimVars, talkVars, AnswerInv
<1>2. CASE Open
  <2>1. SubSeq(Icxs, 1, 0) = <<>>
    BY ShimsAssumption, SubSeqProperties
  <2> QED  BY <1>2, <2>1 DEF Open, AnswerInv
<1>3. CASE IteratorNext
  <2>1. iterator' = iterator + 1 /\ cursor' = cursor /\ answer' = [answer EXCEPT !.asked = @ + 1]
    BY <1>3 DEF IteratorNext
  <2>2. answer' = [asked |-> iterator + 1, sinceOpen |-> SubSeq(Icxs, 1, cursor)]
    BY <2>1 DEF AnswerInv
  <2> QED  BY <2>1, <2>2 DEF AnswerInv
<1> QED  BY <1>1, <1>2, <1>3, ReadKeeps DEF GuestCalls

-----------------------------------------------------------------------------
(***************************************************************************)
(* The loader, whoever calls it.                                           *)
(***************************************************************************)
Under == {"map", "patch", "stage", "copy", "read", "rebase", "bind", "quiet"}
LoadInv ==
  /\ space \in [Bases -> {"free", "loading", "owned", "leaked"}]
  /\ DOMAIN imageOf = Bases
  /\ load.step \in {"none", "loaded", "failed"} \cup Under
  /\ load.step \in Under =>
       /\ load = [step |-> load.step, file |-> load.file, base |-> load.base, way |-> load.way,
                  claim |-> load.claim, table |-> load.table, info |-> load.info, mixed |-> load.mixed,
                  data |-> load.data]
       /\ load.base \in Bases

\* What a step of a load does to the rest: it goes on with the same image, or the image is there, or
\* it fails, and it touches no other base.
GoesOn == /\ load'.step \in Under /\ load'.file = load.file /\ load'.base = load.base /\ load'.info = load.info
          /\ imageOf' = imageOf
Ready == /\ load'.step = "loaded" /\ space'[load.base] = "owned"
         /\ imageOf'[load.base].file = load.file
         /\ imageOf'[load.base].info = [base |-> load.info.base, symbols |-> load.info.symbols]
Stops == load'.step = "failed" /\ imageOf' = imageOf
LoadMoves ==
  /\ load.step \in Under
  /\ \A b \in Bases \ {load.base} : space'[b] = space[b] /\ imageOf'[b] = imageOf[b]
  /\ GoesOn \/ Ready \/ Stops

LEMMA Stepping ==
  ASSUME LoadInv, load.step \in Under, NEW s \in Under, LoadStep(s), imageOf' = imageOf
  PROVE  /\ GoesOn
         /\ load' = [step |-> load'.step, file |-> load'.file, base |-> load'.base, way |-> load'.way,
                  claim |-> load'.claim, table |-> load'.table, info |-> load'.info, mixed |-> load'.mixed,
                  data |-> load'.data]
BY DEF LoadInv, LoadStep, GoesOn

LEMMA StepKeeps ==
  ASSUME LoadInv, load.step \in Under, NEW s \in Under, LoadStep(s), imageOf' = imageOf,
         space' \in [Bases -> {"free", "loading", "owned", "leaked"}],
         \A b \in Bases \ {load.base} : space'[b] = space[b]
  PROVE  LoadInv' /\ LoadMoves
<1>1. load'.base \in Bases /\ load'.step \in Under
  BY Stepping DEF LoadInv, GoesOn
<1> QED  BY <1>1, Stepping DEF LoadInv, LoadMoves

LEMMA FailKeeps ==
  ASSUME LoadInv, load.step \in Under, LoadFails, imageOf' = imageOf,
         space' \in [Bases -> {"free", "loading", "owned", "leaked"}],
         \A b \in Bases \ {load.base} : space'[b] = space[b]
  PROVE  LoadInv' /\ LoadMoves
<1>1. load'.step = "failed" /\ "failed" \notin Under
  BY DEF LoadFails, Under
<1> QED  BY <1>1 DEF LoadInv, LoadMoves, Stops

LEMMA OwnKeeps ==
  ASSUME LoadInv, load.step \in Under, Owned(load.base)
  PROVE  LoadInv' /\ LoadMoves
<1>1. load'.step = "loaded" /\ "loaded" \notin Under /\ load.base \in Bases
  BY DEF Owned, Under, LoadInv
<1>2. space' = [space EXCEPT ![load.base] = "owned"]
  BY DEF Owned
<1>3. PICK image : /\ imageOf' = [imageOf EXCEPT ![load.base] = image]
                   /\ image.file = load.file
                   /\ image.info = [base |-> load.info.base, symbols |-> load.info.symbols]
  <2>1. PICK image : image = [file |-> load.file, info |-> [base |-> Info.base, symbols |-> Info.symbols],
                              by |-> [claim |-> load.claim, mixed |-> load.mixed, info |-> Info]]
    OBVIOUS
  <2>2. imageOf' = [imageOf EXCEPT ![load.base] = image]
    BY <2>1 DEF Owned
  <2>3. image.file = load.file /\ image.info = [base |-> Info.base, symbols |-> Info.symbols]
    BY <2>1
  <2>4. image.info = [base |-> load.info.base, symbols |-> load.info.symbols]
    BY <2>3 DEF Info
  <2> QED  BY <2>2, <2>3, <2>4
<1>4. space' \in [Bases -> {"free", "loading", "owned", "leaked"}] /\ DOMAIN imageOf' = Bases
  BY <1>1, <1>2, <1>3 DEF LoadInv
<1>5. LoadInv'
  BY <1>1, <1>4 DEF LoadInv
<1>6. Ready
  BY <1>1, <1>2, <1>3 DEF LoadInv, Ready
<1>7. \A b \in Bases \ {load.base} : space'[b] = space[b] /\ imageOf'[b] = imageOf[b]
  BY <1>2, <1>3 DEF LoadInv
<1> QED  BY <1>5, <1>6, <1>7 DEF LoadMoves

LEMMA SameSpace ==
  ASSUME LoadInv, space' = space
  PROVE  /\ space' \in [Bases -> {"free", "loading", "owned", "leaked"}]
         /\ \A b \in Bases \ {load.base} : space'[b] = space[b]
BY DEF LoadInv

LEMMA OtherSpace ==
  ASSUME LoadInv, load.step \in Under, NEW v \in {"loading", "leaked"}, space' = [space EXCEPT ![load.base] = v]
  PROVE  /\ space' \in [Bases -> {"free", "loading", "owned", "leaked"}]
         /\ \A b \in Bases \ {load.base} : space'[b] = space[b]
BY DEF LoadInv

LEMMA LoadStepKeeps ==
  ASSUME LoadInv, LoadNext
  PROVE  LoadInv' /\ LoadMoves
<1>1. CASE PatchCopy
  <2>1. load.step \in Under /\ space' = space /\ imageOf' = imageOf
    BY <1>1 DEF PatchCopy, Under
  <2>2. LoadFails \/ \E d : load' = [load EXCEPT !.step = "map", !.data = d]
    BY <1>1 DEF PatchCopy, Patched
  <2>3. CASE LoadFails
    BY <2>1, <2>3, SameSpace, FailKeeps
  <2>4. ASSUME NEW d, load' = [load EXCEPT !.step = "map", !.data = d]
        PROVE  LoadInv' /\ LoadMoves
    <3>1. /\ load'.step = "map" /\ load'.file = load.file /\ load'.base = load.base /\ load'.info = load.info
          /\ load' = [step |-> load'.step, file |-> load'.file, base |-> load'.base, way |-> load'.way,
                  claim |-> load'.claim, table |-> load'.table, info |-> load'.info, mixed |-> load'.mixed,
                  data |-> load'.data]
      BY <2>1, <2>4 DEF LoadInv
    <3>2. load'.step \in Under /\ load'.base \in Bases
      BY <2>1, <3>1 DEF LoadInv, Under
    <3> QED  BY <2>1, <3>1, <3>2, SameSpace DEF LoadInv, LoadMoves, GoesOn
  <2> QED  BY <2>2, <2>3, <2>4
<1>2. CASE MapSpan
  <2>1. load.step \in Under /\ imageOf' = imageOf
    BY <1>2 DEF MapSpan, Under
  <2>2. CASE LoadFails /\ space' = space
    BY <2>1, <2>2, SameSpace, FailKeeps
  <2>3. ASSUME space' = [space EXCEPT ![load.base] = "loading"],
               LoadStep(IF load.way = "file" THEN "read" ELSE "stage")
        PROVE  LoadInv' /\ LoadMoves
    <3>1. PICK s \in Under : s = IF load.way = "file" THEN "read" ELSE "stage"
      BY DEF Under
    <3>2. LoadStep(s)
      BY <2>3, <3>1
    <3> QED  BY <2>1, <2>3, <3>2, OtherSpace, StepKeeps
  <2> QED  BY <1>2, <2>2, <2>3 DEF MapSpan
<1>3. CASE ApplyStaged
  <2>1. load.step \in Under /\ imageOf' = imageOf /\ space' = space /\ LoadStep("copy") /\ "copy" \in Under
    BY <1>3 DEF ApplyStaged, Under
  <2> QED  BY <2>1, SameSpace, StepKeeps
<1>4. CASE CopySegments
  <2>1. load.step \in Under
    BY <1>4 DEF CopySegments, Under
  <2>2. (Leaks /\ imageOf' = imageOf) \/ Owned(load.base)
    BY <1>4 DEF CopySegments
  <2>3. CASE Leaks /\ imageOf' = imageOf
    BY <2>1, <2>3, OtherSpace, FailKeeps DEF Leaks
  <2> QED  BY <2>1, <2>2, <2>3, OwnKeeps
<1>5. CASE ReadSegments
  <2>1. load.step \in Under /\ imageOf' = imageOf /\ "rebase" \in Under
    BY <1>5 DEF ReadSegments, Under
  <2>2. CASE Leaks
    BY <2>1, <2>2, OtherSpace, FailKeeps DEF Leaks
  <2>3. CASE LoadStep("rebase") /\ space' = space
    BY <2>1, <2>3, SameSpace, StepKeeps
  <2> QED  BY <1>5, <2>2, <2>3 DEF ReadSegments
<1>6. ASSUME NEW fixups, NEW binds, NEW from, NEW to \in Under, from \in Under, PatchMapped(fixups, binds, from, to)
      PROVE  LoadInv' /\ LoadMoves
  <2>1. load.step \in Under /\ imageOf' = imageOf
    BY <1>6 DEF PatchMapped
  <2>2. CASE Leaks
    BY <2>1, <2>2, OtherSpace, FailKeeps DEF Leaks
  <2>3. CASE LoadStep(to) /\ space' = space
    BY <2>1, <2>3, SameSpace, StepKeeps
  <2> QED  BY <1>6, <2>2, <2>3 DEF PatchMapped, PatchWith
<1>7. CASE Rebase \/ Bind
  BY <1>6, <1>7 DEF Rebase, Bind, Under
<1>8. CASE Neutralize
  <2>1. load.step \in Under /\ Owned(load.base)
    BY <1>8 DEF Neutralize, Under
  <2> QED  BY <2>1, OwnKeeps
<1> QED  BY <1>1, <1>2, <1>3, <1>4, <1>5, <1>7, <1>8 DEF LoadNext

LEMMA UnmapKeeps ==
  ASSUME LoadInv, NEW S, Unmapped(S), UNCHANGED load \/ load' = NoLoad
  PROVE  LoadInv'
<1>1. space' \in [Bases -> {"free", "loading", "owned", "leaked"}] /\ DOMAIN imageOf' = Bases
  BY DEF Unmapped, LoadInv
<1>2. "none" \notin Under
  BY DEF Under
<1> QED  BY <1>1, <1>2 DEF LoadInv, NoLoad

LEMMA BeginKeeps ==
  ASSUME LoadInv, NEW f, NEW base \in Bases, NEW way, NEW claim, NEW table, BeginLoad(f, base, way, claim, table)
  PROVE  LoadInv'
<1>1. space' = space /\ imageOf' = imageOf
  BY DEF BeginLoad
<1>2. PICK info : Begun(f, base, way, claim, table, info)
  BY DEF BeginLoad
<1>3. CASE LoadFails
  <2>1. load'.step = "failed" /\ "failed" \notin Under
    BY <1>3 DEF LoadFails, Under
  <2> QED  BY <1>1, <2>1 DEF LoadInv
<1>4. CASE ~LoadFails
  <2>1. PICK s, data :
          s \in Under /\ load' = [step |-> s, file |-> f, base |-> base, way |-> way, claim |-> claim, table |-> table,
                   info |-> info, mixed |-> way = "buffer" /\ staged # <<>>, data |-> data]
    <3>1. PICK s : s = IF way = "file" THEN "map" ELSE "patch"
      OBVIOUS
    <3>2. PICK data : data = IF way = "file" THEN <<>> ELSE SliceCells(f)
      OBVIOUS
    <3>3. load' = [step |-> s, file |-> f, base |-> base, way |-> way, claim |-> claim, table |-> table,
                   info |-> info, mixed |-> way = "buffer" /\ staged # <<>>, data |-> data]
      BY <1>2, <1>4, <3>1, <3>2 DEF Begun
    <3>4. s \in Under
      BY <3>1 DEF Under
    <3> QED  BY <3>3, <3>4
  <2> QED  BY <1>1, <2>1 DEF LoadInv
<1> QED  BY <1>3, <1>4

LEMMA NoLoadKeeps ==
  ASSUME LoadInv, load' = NoLoad \/ load' = load, UNCHANGED <<space, imageOf>>
  PROVE  LoadInv'
<1>1. "none" \notin Under
  BY DEF Under
<1> QED  BY <1>1 DEF LoadInv, NoLoad

LEMMA InitLoad == Init => LoadInv
BY DEF Init, SapInit, MachInit, LoadInv, NoLoad, Under

-----------------------------------------------------------------------------
(***************************************************************************)
(* The course of a session: its phases, its context and its exchanges.     *)
(***************************************************************************)
LEMMA AppendToOne == ASSUME NEW x PROVE Append(<<1>>, x) = <<1, x>>
<1>. PICK S : S = {1, x}
  OBVIOUS
<1>1. <<1>> \in Seq(S) /\ x \in S /\ <<1, x>> \in Seq(S) /\ Len(<<1>>) = 1 /\ Len(<<1, x>>) = 2
  OBVIOUS
<1>2. /\ Append(<<1>>, x) \in Seq(S) /\ Len(Append(<<1>>, x)) = 2
      /\ Append(<<1>>, x)[1] = 1 /\ Append(<<1>>, x)[2] = x
  BY <1>1, AppendProperties
<1>3. \A i \in 1..2 : Append(<<1>>, x)[i] = <<1, x>>[i]
  BY <1>2
<1> QED  BY <1>1, <1>2, <1>3, SeqEqual
Making == {"exports", "core", "loadCore", "kit", "loadKit", "find", "made"} \cup Regions
Talking == {"cert", "post", "ready", "ending"}

\* The protocol: whose context there is, and what its exchanges reported.
ContextInv ==
  /\ session \in 0..MaxSessions /\ (phase = "reset" => session < MaxSessions)
  /\ context \in {0, session}
  /\ phase \in {"idle", "reset", "over"} \cup Making \/ callee = "init" => context = 0
  /\ phase \in {"cert", "post", "ready"} \/ callee \in {"exchange", "dispose", "sign", "teardown"} => context = session
CalleeInv ==
  /\ phase \in Phases /\ callee \in {"none", "init", "exchange", "dispose", "sign", "teardown"}
  /\ phase = "guest" <=> callee # "none"
  /\ pending # NoOutput => callee = "dispose"
RoundsInv ==
  /\ phase \in Making \cup {"cert"} \/ callee = "init" => rounds = <<>>
  /\ phase = "post" => rounds = <<1>>
  /\ phase = "ready" \/ callee = "sign" \/ pending = Signature => rounds = <<1, 0>>
  /\ callee = "exchange" \/ (callee = "dispose" /\ pending # Signature) => rounds \in {<<>>, <<1>>}
  /\ Len(rounds) <= 2
MacInv == phase \in {"guest"} \cup Talking => guestMac = mac
CourseInv == ContextInv /\ CalleeInv /\ RoundsInv /\ MacInv

LEMMA InitCourse == Init => CourseInv
BY SapAssumption DEF Init, SapInit, ShimsInit, CourseInv, ContextInv, CalleeInv, RoundsInv, MacInv, Phases, Making, Talking, Regions, NoOutput, Signature

courseVars == <<phase, session, context, callee, pending, rounds, guestMac, mac>>
LEMMA CourseStays ==
  ASSUME CourseInv, UNCHANGED courseVars
  PROVE  CourseInv'
BY DEF CourseInv, ContextInv, CalleeInv, RoundsInv, MacInv, courseVars

LEMMA CourseStep ==
  ASSUME CourseInv, SapNext
  PROVE  CourseInv'
<1>. USE DEF CourseInv, ContextInv, CalleeInv, RoundsInv, MacInv, Phases, Making, Talking, Regions, NoOutput, Signature
<1>1. CASE Begin
  BY <1>1, SapAssumption DEF Begin, Go, Lower, shimVars, talkVars, Process, Runtime, Protocol
<1>2. CASE ResetAndServe
  BY <1>2, SapAssumption DEF ResetAndServe, ResetShims, Go, Process
<1>3. CASE NewFails /\ phase \in Making
  BY <1>3 DEF NewFails, Dropped, Rest, Go, shimVars, talkVars, Process, Runtime, Protocol
<1>4. CASE Exports
  BY <1>3, <1>4 DEF Exports, ExportsFound, Go, talkVars, Process, Runtime, Protocol
<1>5. CASE LoadCore \/ LoadKit
  BY <1>5 DEF LoadCore, LoadKit, LoadImage, Go, shimVars, talkVars, Process, Runtime, Protocol
<1>6. CASE Loading
  BY <1>3, <1>6 DEF Loading, Go, shimVars, talkVars, sapVars, Process, Runtime, Protocol
<1>7. CASE FindEntries
  BY <1>7 DEF FindEntries, Dropped, Go, Rest, talkVars, Process, Runtime, Protocol
<1>8. CASE MapRegion
  BY <1>3, <1>8 DEF MapRegion, AfterRegion, Go, Lower, shimVars, talkVars, Process, Protocol
<1>9. CASE SapInitCall
  BY <1>9 DEF SapInitCall, Enter, Go, talkVars, Process, Protocol
<1>10. CASE InitReturns
  BY <1>10 DEF InitReturns, Ends, Go, RestOfReturn, Lower, shimVars, talkVars, Process
<1>11. CASE Exchange
  BY <1>11 DEF Exchange, Ends, Enter, Go, Lower, shimVars, talkVars, Process, Protocol
<1>12. CASE EntryReturns
  BY <1>12 DEF EntryReturns, Ends, Go, RestOfReturn, Lower, shimVars, talkVars, Process
<1>13. CASE DisposeReturns
  <2>1. /\ callee = "dispose" /\ callee' = "none" /\ pending' = NoOutput
        /\ UNCHANGED <<session, context, guestMac, mac>>
    BY <1>13 DEF DisposeReturns, Lower, shimVars, talkVars, Process, Runtime
  <2>2. CASE pending = Signature
    <3>1. rounds' = rounds /\ rounds = <<1, 0>> /\ phase' \in {"ready", "ending"}
      BY <1>13, <2>1, <2>2 DEF DisposeReturns, Go
    <3> QED  BY <2>1, <3>1
  <2>3. CASE pending # Signature
    <3>1. \/ phase' = "ending" /\ rounds' = rounds
          \/ AfterExchange(pending)
      BY <1>13, <2>3 DEF DisposeReturns, Go
    <3>2. rounds = <<>> \/ rounds = <<1>>
      BY <2>1, <2>3
    <3>3. CASE AfterExchange(pending) /\ rounds = <<>>
      <4>1. rounds' = <<pending>> /\ (phase' = "ending" \/ (phase' = "post" /\ pending = 1))
        BY <3>3 DEF AfterExchange, Accepted, Go
      <4> QED  BY <2>1, <4>1
    <3>4. CASE AfterExchange(pending) /\ rounds = <<1>>
      <4>1. rounds' = <<1, pending>> /\ (phase' = "ending" \/ (phase' = "ready" /\ pending = 0))
        <5>1. Len(rounds) + 1 = 2 /\ Append(rounds, pending) = <<1, pending>>
          BY <3>4, AppendToOne
        <5>2. rounds' = Append(rounds, pending)
          BY <3>4 DEF AfterExchange
        <5>3. phase' = IF ~Accepted(2, pending) THEN "ending" ELSE "ready"
          BY <3>4, <5>1 DEF AfterExchange, Go
        <5>4. Accepted(2, pending) <=> pending = 0
          BY DEF Accepted
        <5> QED  BY <5>1, <5>2, <5>3, <5>4
      <4> QED  BY <2>1, <4>1
    <3>5. CASE phase' = "ending" /\ rounds' = rounds
      BY <2>1, <3>2, <3>5
    <3> QED  BY <3>1, <3>2, <3>3, <3>4, <3>5
  <2> QED  BY <2>2, <2>3
<1>14. CASE Sign
  BY <1>14 DEF Sign, Ends, Enter, Go, Lower, shimVars, talkVars, Process
<1>15. CASE SignFails \/ Finish
  BY <1>15 DEF SignFails, Finish, Ends, Go, Lower, shimVars, talkVars, Process, Runtime, Protocol
<1>16. CASE Teardown \/ TeardownReturns
  BY <1>16 DEF Teardown, TeardownReturns, Ends, Go, Lower, shimVars, talkVars, Process, Runtime, Protocol
<1>17. CASE DropRuntime
  BY <1>17 DEF DropRuntime, Go, shimVars, talkVars, Process, Protocol
<1>18. CASE Again
  BY <1>18 DEF Again, Go, Lower, shimVars, talkVars, Process, Runtime, Protocol
<1>19. CASE ShimCalled
  <2>1. UNCHANGED <<phase, context, callee, pending, rounds, mac>>
    BY <1>19 DEF ShimCalled, Runtime, Protocol
  <2>2. UNCHANGED <<session, guestMac>>
    BY <1>19 DEF ShimCalled, GuestCalls, Malloc, Calloc, Realloc, Fill, Open, ReadIcxs, IteratorNext, Once, Asks,
         RestOfShims, RestOfTelling, shimVars, talkVars
  <2> QED  BY <2>1, <2>2
<1> QED  BY <1>1, <1>2, <1>4, <1>5, <1>6, <1>7, <1>8, <1>9, <1>10, <1>11, <1>12, <1>13, <1>14, <1>15, <1>16,
            <1>17, <1>18, <1>19 DEF SapNext

-----------------------------------------------------------------------------
(***************************************************************************)
(* Its regions, and CoreFP's exports.                                      *)
(***************************************************************************)
\* The regions that are mapped when a phase begins.
RegionsIn(p) == CASE p = "stack"  -> {"scratch"}
                  [] p = "bridge" -> {"scratch", "stack"}
                  [] p = "return" -> {"scratch", "stack", "bridge"}
                  [] p \in {"made", "guest"} \cup Talking -> Regions
                  [] OTHER -> {}
RegionInv == /\ regions \subseteq Regions /\ RegionsIn(phase) \subseteq regions
             /\ phase \in {"made", "guest"} \cup Talking => landing

\* CoreFP's exports, by the file alone.
TableOf(f) == LET m == MachFile[f].slices[LastSlice(f)].of IN [base |-> BaseOf(m), symbols |-> DefinedSymbols(m)]
Exported(d) == [n \in CorefpExports |-> SymbolIn(TableOf(Dirs[d].core), CorefpBase, n)]
ExportInv ==
  /\ phase \in (Making \ {"exports"}) \cup {"guest"} \cup Talking => found = Exported(dir)
  /\ phase \in Regions \cup {"made", "guest"} \cup Talking => exportsOf = Exported(dir)

LEMMA ReaderTable ==
  ASSUME NEW f, NEW r, r = ParsedReader(f), r.err = "none"
  PROVE  r.base = TableOf(f).base /\ r.symbols = TableOf(f).symbols
<1>1. PICK m : m = MachFile[f].slices[LastSlice(f)].of
  OBVIOUS
<1>2. PICK a : a = AllStreams(m, streamSymbol)
  OBVIOUS
<1>3. PICK info : info = Read(m, m.cmds = "empty" \/ ~Fetchable(m))
  OBVIOUS
<1>4. r = Checked(info, m.symtab = "empty")
  <2>1. X86(f) # {}
    <3>1. Refusal("noSlice").err = "noSlice"
      BY DEF Refusal
    <3> QED  BY <3>1 DEF ParsedReader
  <2> QED  BY <1>1, <1>3, <2>1 DEF ParsedReader, ReadFetched
<1>5. info = Refusal("refused") \/ info = InfoOf(m, a)
  BY <1>2, <1>3 DEF Read
<1>6. info.err # "none" \/ info = Parsed(m, a)
  <2>1. CASE info = Refusal("refused")
    BY <2>1 DEF Refusal
  <2>2. CASE info = InfoOf(m, a)
    BY <2>2 DEF InfoOf
  <2> QED  BY <1>5, <2>1, <2>2
<1>7. info.err = "none" /\ r = info
  <2>1. CASE info.err # "none"
    BY <1>4, <2>1 DEF Checked
  <2>2. CASE info.err = "none"
    <3>1. [info EXCEPT !.err = "truncated"].err = "truncated"
      BY <1>6, <2>2 DEF Parsed
    <3> QED  BY <1>4, <2>2, <3>1 DEF Checked
  <2> QED  BY <2>1, <2>2
<1>8. PICK u : u = BaseOf(m)
  OBVIOUS
<1>9. PICK v : v = DefinedSymbols(m)
  OBVIOUS
<1>10. TableOf(f) = [base |-> u, symbols |-> v]
  BY <1>1, <1>8, <1>9 DEF TableOf
<1>11. info.base = u /\ info.symbols = v
  BY <1>6, <1>7, <1>8, <1>9 DEF Parsed
<1>12. TableOf(f).base = u /\ TableOf(f).symbols = v
  BY <1>10
<1> QED  BY <1>7, <1>11, <1>12

LEMMA Looked ==
  ASSUME NEW i, NEW j, i.base = j.base, i.symbols = j.symbols, NEW b, NEW n
  PROVE  SymbolIn(i, b, n) = SymbolIn(j, b, n)
BY DEF SymbolIn

regionVars == <<phase, regions, landing>>
LEMMA InitRegions == Init => RegionInv /\ ExportInv
BY DEF Init, SapInit, RegionInv, ExportInv, RegionsIn, Making, Talking, Regions

LEMMA RegionStep ==
  ASSUME RegionInv, CourseInv, SapNext
  PROVE  RegionInv'
<1>. USE DEF RegionInv, RegionsIn, Making, Talking, Regions, Go
<1>1. CASE Begin \/ ResetAndServe
  BY <1>1 DEF Begin, ResetAndServe, Runtime
<1>2. CASE NewFails
  BY <1>2 DEF NewFails, Dropped, Rest, Runtime
<1>3. CASE Exports
  BY <1>2, <1>3 DEF Exports, ExportsFound, Runtime
<1>4. CASE LoadCore \/ LoadKit
  BY <1>4 DEF LoadCore, LoadKit, LoadImage, Runtime
<1>5. CASE Loading
  BY <1>2, <1>5 DEF Loading, Runtime, sapVars
<1>6. CASE FindEntries
  BY <1>6 DEF FindEntries, Dropped, Rest, Runtime
<1>7. CASE MapRegion
  BY <1>2, <1>7 DEF MapRegion, AfterRegion
<1>8. CASE SapInitCall \/ InitReturns
  BY <1>8 DEF SapInitCall, Enter, InitReturns, RestOfReturn, Ends
<1>9. CASE Exchange
  BY <1>9 DEF Exchange, Enter, Ends
<1>10. CASE EntryReturns \/ DisposeReturns
  BY <1>10 DEF EntryReturns, RestOfReturn, Ends, DisposeReturns, AfterExchange, Runtime
<1>11. CASE Sign \/ SignFails \/ Finish
  BY <1>11 DEF Sign, Enter, SignFails, Finish, Ends, Runtime
<1>12. CASE Teardown \/ TeardownReturns
  BY <1>12 DEF Teardown, TeardownReturns, Ends, Runtime
<1>13. CASE DropRuntime
  BY <1>13 DEF DropRuntime
<1>14. CASE Again \/ ShimCalled
  BY <1>14 DEF Again, ShimCalled, Runtime
<1> QED  BY <1>1, <1>3, <1>4, <1>5, <1>6, <1>7, <1>8, <1>9, <1>10, <1>11, <1>12, <1>13, <1>14 DEF SapNext

LEMMA ExportsStay ==
  ASSUME ExportInv, UNCHANGED <<found, exportsOf, dir>>,
         phase' = phase \/ phase' \notin Making \cup {"guest"} \cup Talking
         \/ (phase \in Making \ {"exports"} /\ phase' \in Making \ (Regions \cup {"made", "exports"}))
         \/ (phase \in Regions \cup {"made", "guest"} \cup Talking)
  PROVE  ExportInv'
BY DEF ExportInv, Making, Talking, Regions

LEMMA ExportStep ==
  ASSUME ExportInv, CourseInv, SapNext
  PROVE  ExportInv'
<1>. USE DEF Making, Talking, Regions, Go
<1>1. CASE Begin
  BY <1>1, ExportsStay DEF Begin, Lower, shimVars, Process
<1>2. CASE ResetAndServe
  BY <1>2 DEF ResetAndServe, ResetShims, Process, ExportInv
<1>3. CASE NewFails
  BY <1>3, ExportsStay DEF NewFails, Dropped, shimVars, Rest, Process
<1>4. CASE Exports
  <2>1. CASE Complete(CoreInfo)
    <3>1. /\ phase' = "core" /\ found' = CoreExports(CoreInfo) /\ dir' = dir
      BY <1>4, <2>1 DEF Exports, ExportsFound
    <3>2. CoreInfo.base = TableOf(Dirs[dir].core).base /\ CoreInfo.symbols = TableOf(Dirs[dir].core).symbols
      BY <2>1, ReaderTable DEF Complete, CoreInfo
    <3>3. \A n : SymbolIn(CoreInfo, CorefpBase, n) = SymbolIn(TableOf(Dirs[dir].core), CorefpBase, n)
      BY <3>2, Looked
    <3>4. found' = Exported(dir)
      BY <3>1, <3>3 DEF CoreExports, Exported
    <3> QED  BY <3>1, <3>4 DEF ExportInv
  <2>2. CASE ~Complete(CoreInfo)
    BY <1>3, <1>4, <2>2 DEF Exports, ExportsFound
  <2> QED  BY <2>1, <2>2
<1>5. CASE LoadCore \/ LoadKit
  BY <1>5, ExportsStay DEF LoadCore, LoadKit, LoadImage, shimVars, Process
<1>6. CASE Loading
  BY <1>3, <1>6, ExportsStay DEF Loading, shimVars, Process, sapVars
<1>7. CASE FindEntries
  BY <1>7 DEF FindEntries, Dropped, Rest, Process, ExportInv
<1>8. CASE MapRegion
  BY <1>3, <1>8, ExportsStay DEF MapRegion, AfterRegion, Lower, shimVars, Process
<1>9. CASE SapInitCall
  BY <1>9, ExportsStay DEF SapInitCall, Process
<1>10. CASE InitReturns \/ EntryReturns
  BY <1>10, ExportsStay DEF InitReturns, EntryReturns, RestOfReturn, Lower, shimVars, Process
<1>11. CASE Exchange
  BY <1>11, ExportsStay DEF Exchange, Lower, shimVars, Process
<1>12. CASE DisposeReturns
  BY <1>12, ExportsStay DEF DisposeReturns, Lower, shimVars, Process
<1>13. CASE Sign \/ SignFails \/ Finish
  BY <1>13, ExportsStay DEF Sign, SignFails, Finish, Lower, shimVars, Process
<1>14. CASE Teardown \/ TeardownReturns
  BY <1>14, ExportsStay DEF Teardown, TeardownReturns, Lower, shimVars, Process
<1>15. CASE DropRuntime
  BY <1>15, ExportsStay DEF DropRuntime, shimVars, Process
<1>16. CASE Again
  BY <1>16, ExportsStay DEF Again, Lower, shimVars, Process
<1>17. CASE ShimCalled
  <2>1. UNCHANGED <<phase, found, dir>>
    BY <1>17 DEF ShimCalled
  <2>2. exportsOf' = exportsOf
    BY <1>17 DEF ShimCalled, GuestCalls, Malloc, Calloc, Realloc, Fill, Open, ReadIcxs, IteratorNext, Once, Asks,
         RestOfShims, RestOfTelling, shimVars
  <2> QED  BY <2>1, <2>2, ExportsStay
<1> QED  BY <1>1, <1>2, <1>4, <1>5, <1>6, <1>7, <1>8, <1>9, <1>10, <1>11, <1>12, <1>13, <1>14, <1>15, <1>16,
            <1>17 DEF SapNext

-----------------------------------------------------------------------------
(***************************************************************************)
(* Its images, and what there is when there is no session.                 *)
(***************************************************************************)
\* The image a session loads in the phase p, and where.
FileIn(p) == IF p = "loadCore" THEN Dirs[dir].core ELSE Dirs[dir].kit
BaseIn(p) == IF p = "loadCore" THEN CorefpBase ELSE KitBase
IsImage(b, f) == space[b] = "owned" /\ imageOf[b].file = f /\ imageOf[b].info = TableOf(f)

Whole == {"find", "made", "guest"} \cup Regions \cup Talking
ImageInv ==
  /\ load.step = "none" <=> phase \notin {"loadCore", "loadKit"}
  /\ load.step \in Under =>
       /\ load.base = BaseIn(phase) /\ load.file = FileIn(phase)
       /\ [base |-> load.info.base, symbols |-> load.info.symbols] = TableOf(load.file)
  /\ load.step = "loaded" => IsImage(BaseIn(phase), FileIn(phase))
  /\ phase \in {"kit", "loadKit"} \cup Whole => IsImage(CorefpBase, Dirs[dir].core)
  /\ phase \in Whole => IsImage(KitBase, Dirs[dir].kit)

ImagesIn(p) == IF p \in {"loadCore", "kit"} THEN {CorefpBase}
               ELSE IF p \in {"loadKit"} \cup Whole THEN {CorefpBase, KitBase} ELSE {}
CleanInv ==
  ~spoiled => /\ \A b \in Bases \ ImagesIn(phase) : space[b] = "free"
              /\ regions \subseteq RegionsIn(phase)

SideInv == LoadInv /\ CourseInv /\ RegionInv /\ ImageInv /\ CleanInv

LEMMA Tables ==
  ASSUME NEW f, NEW r, r = ParsedReader(f), r.err = "none"
  PROVE  [base |-> r.base, symbols |-> r.symbols] = TableOf(f)
BY ReaderTable DEF TableOf

\* An action that leaves the images alone.
imageVars == <<space, imageOf, load, dir>>
LEMMA ImagesStay ==
  ASSUME ImageInv, UNCHANGED imageVars, {phase, phase'} \cap {"loadCore", "loadKit"} = {},
         phase' \in {"kit"} \cup Whole => phase \in {"kit"} \cup Whole,
         phase' \in Whole => phase \in Whole
  PROVE  ImageInv'
<1>1. load.step = "none" /\ "none" \notin Under
  BY DEF ImageInv, Under
<1>2. \A b, f : IsImage(b, f)' <=> IsImage(b, f)
  BY DEF IsImage, imageVars
<1> QED  BY <1>1, <1>2 DEF ImageInv, imageVars

LEMMA Beginning ==
  ASSUME NEW f, NEW base, NEW claim, NEW table, BeginLoad(f, base, "file", claim, table)
  PROVE  /\ load'.step # "none" /\ load'.step # "loaded"
         /\ load'.step \in Under => /\ load'.base = base /\ load'.file = f
                                    /\ [base |-> load'.info.base, symbols |-> load'.info.symbols] = TableOf(f)
<1>1. PICK info : info = ParsedReader(f) /\ Begun(f, base, "file", claim, table, info)
  BY DEF BeginLoad
<1>2. CASE info.err # "none"
  <2>1. load'.step = "failed" /\ "failed" \notin Under
    BY <1>1, <1>2 DEF Begun, LoadFails, Under
  <2> QED  BY <2>1
<1>3. CASE info.err = "none"
  <2>1. load' = [step |-> "map", file |-> f, base |-> base, way |-> "file", claim |-> claim,
                 table |-> table, info |-> info, mixed |-> FALSE, data |-> <<>>]
    BY <1>1, <1>3 DEF Begun
  <2>2. load'.step = "map" /\ load'.base = base /\ load'.file = f /\ load'.info = info
    BY <2>1
  <2> QED  BY <1>1, <1>3, <2>2, Tables
<1> QED  BY <1>2, <1>3

LEMMA FailLeaves ==
  ASSUME NewFails
  PROVE  phase' = "over" /\ spoiled' /\ load'.step = "none"
BY DEF NewFails, Dropped, Go, NoLoad

LEMMA InitImages == Init /\ focus = "session" => ImageInv /\ CleanInv
<1>1. Init => phase = "idle" /\ load = NoLoad /\ space = [b \in Bases |-> "free"] /\ regions = {}
  BY DEF Init, SapInit, MachInit
<1> QED  BY <1>1 DEF ImageInv, CleanInv, NoLoad, Under, Whole, Talking, Regions

\* The steps of a session between the find and the drop, and those before an image is loaded.
LEMMA CallStep ==
  ASSUME CourseInv, SapInitCall \/ InitReturns \/ Exchange \/ EntryReturns \/ DisposeReturns \/ Sign \/ SignFails
                    \/ Finish \/ Teardown \/ TeardownReturns \/ ShimCalled
  PROVE  /\ UNCHANGED <<imageVars, regions, spoiled>>
         /\ {phase, phase'} \subseteq {"made", "guest"} \cup Talking
<1>. USE DEF Talking, Go, Process, Runtime, Protocol, Lower, machVars, imageVars
<1>1. CASE SapInitCall \/ InitReturns
  BY <1>1 DEF SapInitCall, Enter, InitReturns, Ends, RestOfReturn
<1>2. CASE Exchange
  BY <1>2 DEF Exchange, Enter, Ends
<1>3. CASE EntryReturns
  BY <1>3 DEF EntryReturns, RestOfReturn, Ends
<1>4. CASE DisposeReturns
  BY <1>4 DEF DisposeReturns, AfterExchange
<1>5. CASE Sign \/ SignFails
  BY <1>5 DEF Sign, SignFails, Enter, Ends
<1>6. CASE Finish \/ Teardown \/ TeardownReturns
  BY <1>6 DEF Finish, Teardown, TeardownReturns, Ends
<1>7. CASE ShimCalled
  BY <1>7 DEF ShimCalled
<1> QED  BY <1>1, <1>2, <1>3, <1>4, <1>5, <1>6, <1>7

LEMMA ImageStep ==
  ASSUME LoadInv, CourseInv, ImageInv, SapNext
  PROVE  LoadInv' /\ ImageInv'
<1>1. CASE SapInitCall \/ InitReturns \/ Exchange \/ EntryReturns \/ DisposeReturns \/ Sign \/ SignFails
           \/ Finish \/ Teardown \/ TeardownReturns \/ ShimCalled
  <2>1. UNCHANGED imageVars /\ phase \in Whole /\ phase' \in Whole
    BY <1>1, CallStep DEF Whole
  <2>2. {phase, phase'} \cap {"loadCore", "loadKit"} = {}
    BY <1>1, CallStep DEF Talking
  <2> QED  BY <2>1, <2>2, ImagesStay, NoLoadKeeps DEF imageVars
<1>2. CASE Begin \/ ResetAndServe \/ Again
  <2>1. UNCHANGED imageVars
    BY <1>2 DEF Begin, ResetAndServe, Again, Lower, machVars, Process, imageVars
  <2>2. {phase, phase'} \subseteq {"idle", "reset", "exports", "over"}
    BY <1>2 DEF Begin, ResetAndServe, Again, Go
  <2>3. {phase, phase'} \cap ({"kit", "loadCore", "loadKit"} \cup Whole) = {}
    BY <2>2 DEF Whole, Talking, Regions
  <2> QED  BY <2>1, <2>3, ImagesStay, NoLoadKeeps DEF imageVars
<1>3. CASE NewFails
  <2>1. phase' = "over" /\ load'.step = "none"
    BY <1>3, FailLeaves
  <2>2. LoadInv'
    BY <1>3, UnmapKeeps DEF NewFails, Dropped
  <2> QED  BY <2>1, <2>2 DEF ImageInv, Under, Whole, Talking, Regions
<1>4. CASE Exports /\ ~NewFails
  <2>1. UNCHANGED imageVars /\ phase = "exports" /\ phase' = "core"
    BY <1>4 DEF Exports, ExportsFound, imageVars, Go
  <2>2. {phase, phase'} \cap ({"kit", "loadCore", "loadKit"} \cup Whole) = {}
    BY <2>1 DEF Whole, Talking, Regions
  <2> QED  BY <2>1, <2>2, ImagesStay, NoLoadKeeps DEF imageVars
<1>5. ASSUME NEW from, NEW to, NEW f, NEW base \in Bases, NEW name, LoadImage(from, to, f, base, name),
             \/ from = "core" /\ to = "loadCore" /\ f = Dirs[dir].core /\ base = CorefpBase
             \/ from = "kit" /\ to = "loadKit" /\ f = Dirs[dir].kit /\ base = KitBase
      PROVE  LoadInv' /\ ImageInv'
  <2>1. PICK claim, table : BeginLoad(f, base, "file", claim, table)
    BY <1>5 DEF LoadImage
  <2>2. LoadInv'
    BY <1>5, <2>1, BeginKeeps
  <2>3. phase = from /\ phase' = to /\ dir' = dir /\ space' = space /\ imageOf' = imageOf
    BY <1>5, <2>1 DEF LoadImage, BeginLoad, Go, Process
  <2>4. /\ load'.step # "none" /\ load'.step # "loaded"
        /\ load'.step \in Under => /\ load'.base = base /\ load'.file = f
                                   /\ [base |-> load'.info.base, symbols |-> load'.info.symbols] = TableOf(f)
    BY <2>1, Beginning
  <2>5. BaseIn(phase)' = base /\ FileIn(phase)' = f
    BY <1>5, <2>3 DEF BaseIn, FileIn
  <2>6. \A b, g : IsImage(b, g)' <=> IsImage(b, g)
    BY <2>3 DEF IsImage
  <2>7. to \notin Whole /\ to \in {"loadCore", "loadKit"} /\ (to = "loadKit" => from = "kit") /\ (to = "loadCore" => to \notin {"kit", "loadKit"})
    BY <1>5 DEF Whole, Talking, Regions
  <2> QED  BY <1>5, <2>2, <2>3, <2>4, <2>5, <2>6, <2>7 DEF ImageInv
<1>6. CASE LoadCore \/ LoadKit
  BY <1>5, <1>6, SapAssumption DEF LoadCore, LoadKit
<1>7. CASE phase \in {"loadCore", "loadKit"} /\ LoadNext /\ UNCHANGED <<shimVars, talkVars, sapVars>>
  <2>1. LoadInv' /\ LoadMoves
    BY <1>7, LoadStepKeeps
  <2>2. phase' = phase /\ dir' = dir /\ phase \notin Whole
    BY <1>7 DEF sapVars, Whole, Talking, Regions
  <2>3. BaseIn(phase)' = BaseIn(phase) /\ FileIn(phase)' = FileIn(phase)
    BY <2>2 DEF BaseIn, FileIn
  <2>4. /\ load.base = BaseIn(phase) /\ load.file = FileIn(phase)
        /\ [base |-> load.info.base, symbols |-> load.info.symbols] = TableOf(load.file)
    BY <2>1 DEF ImageInv, LoadMoves
  <2>5. phase = "loadKit" => IsImage(CorefpBase, Dirs[dir].core)'
    <3>1. phase = "loadKit" => IsImage(CorefpBase, Dirs[dir].core) /\ CorefpBase \in Bases \ {load.base}
      BY <2>4, SapAssumption DEF ImageInv, BaseIn
    <3> QED  BY <2>1, <2>2, <3>1 DEF IsImage, LoadMoves
  <2>6. load'.step # "none"
    BY <2>1 DEF LoadMoves, GoesOn, Ready, Stops, Under
  <2>7. load'.step \in Under =>
          /\ load'.base = BaseIn(phase) /\ load'.file = FileIn(phase)
          /\ [base |-> load'.info.base, symbols |-> load'.info.symbols] = TableOf(load'.file)
    BY <2>1, <2>4 DEF LoadMoves, GoesOn, Ready, Stops, Under
  <2>8. load'.step = "loaded" => IsImage(BaseIn(phase), FileIn(phase))'
    <3>1. load'.step = "loaded" => Ready
      BY <2>1 DEF LoadMoves, GoesOn, Stops, Under
    <3> QED  BY <2>3, <2>4, <3>1 DEF Ready, IsImage
  <2> QED  BY <1>7, <2>1, <2>2, <2>3, <2>5, <2>6, <2>7, <2>8 DEF ImageInv
<1>8. CASE /\ phase \in {"loadCore", "loadKit"} /\ load.step = "loaded" /\ load' = NoLoad
           /\ phase' = IF phase = "loadCore" THEN "kit" ELSE "find"
           /\ UNCHANGED <<space, imageOf, dir>>
  <2>1. LoadInv'
    BY <1>8, NoLoadKeeps
  <2>2. \A b, g : IsImage(b, g)' <=> IsImage(b, g)
    BY <1>8 DEF IsImage
  <2>3. load'.step = "none" /\ "none" \notin Under /\ "kit" \notin Whole
    BY <1>8 DEF NoLoad, Under, Whole, Talking, Regions
  <2>4. IsImage(BaseIn(phase), FileIn(phase)) /\ (phase = "loadKit" => IsImage(CorefpBase, Dirs[dir].core))
    BY <1>8 DEF ImageInv
  <2> QED  BY <1>8, <2>1, <2>2, <2>3, <2>4 DEF ImageInv, BaseIn, FileIn
<1>9. CASE Loading
  <2>1. \/ LoadNext /\ UNCHANGED <<shimVars, talkVars, sapVars>>
        \/ NewFails
        \/ /\ load.step = "loaded" /\ load' = NoLoad
           /\ phase' = IF phase = "loadCore" THEN "kit" ELSE "find"
           /\ UNCHANGED <<space, imageOf, dir>>
    BY <1>9 DEF Loading, Go, Process
  <2> QED  BY <1>3, <1>7, <1>8, <1>9, <2>1 DEF Loading
<1>10. CASE FindEntries
  <2>1. CASE Dropped
    <3>1. phase' = "over" /\ load'.step = "none"
      BY <2>1 DEF Dropped, Go, NoLoad
    <3>2. LoadInv'
      BY <2>1, UnmapKeeps DEF Dropped
    <3> QED  BY <3>1, <3>2 DEF ImageInv, Under, Whole, Talking, Regions
  <2>2. CASE ~Dropped
    <3>1. UNCHANGED imageVars /\ phase = "find" /\ phase' = "scratch"
      BY <1>10, <2>2 DEF FindEntries, Go, Rest, Process, imageVars
    <3>2. {phase, phase'} \subseteq Whole /\ {phase, phase'} \cap {"loadCore", "loadKit"} = {}
      BY <3>1 DEF Whole, Regions
    <3> QED  BY <3>1, <3>2, ImagesStay, NoLoadKeeps DEF imageVars
  <2> QED  BY <2>1, <2>2
<1>11. CASE MapRegion /\ ~NewFails
  <2>1. UNCHANGED imageVars /\ phase \in Regions /\ phase' \in Regions \cup {"made"}
    BY <1>11 DEF MapRegion, AfterRegion, Regions, Go, Lower, machVars, Process, imageVars
  <2>2. {phase, phase'} \subseteq Whole /\ {phase, phase'} \cap {"loadCore", "loadKit"} = {}
    BY <2>1 DEF Whole, Regions
  <2> QED  BY <2>1, <2>2, ImagesStay, NoLoadKeeps DEF imageVars
<1>12. CASE DropRuntime
  <2>1. phase = "ending" /\ phase' = "over" /\ load' = load
    BY <1>12 DEF DropRuntime, Go
  <2>2. LoadInv'
    BY <1>12, UnmapKeeps DEF DropRuntime
  <2> QED  BY <2>1, <2>2 DEF ImageInv, Under, Whole, Talking, Regions
<1> QED  BY <1>1, <1>2, <1>3, <1>4, <1>6, <1>9, <1>10, <1>11, <1>12 DEF SapNext, Exports, MapRegion

LEMMA CleanStep ==
  ASSUME LoadInv, CourseInv, RegionInv, ImageInv, CleanInv, SapNext
  PROVE  CleanInv'
<1>. USE DEF Talking, Regions, Go
<1>1. CASE SapInitCall \/ InitReturns \/ Exchange \/ EntryReturns \/ DisposeReturns \/ Sign \/ SignFails
           \/ Finish \/ Teardown \/ TeardownReturns \/ ShimCalled
  <2>1. UNCHANGED <<space, regions, spoiled>> /\ {phase, phase'} \subseteq {"made", "guest"} \cup Talking
    BY <1>1, CallStep DEF imageVars
  <2>2. ImagesIn(phase') = ImagesIn(phase) /\ RegionsIn(phase') = RegionsIn(phase)
    BY <2>1 DEF ImagesIn, RegionsIn, Whole
  <2> QED  BY <2>1, <2>2 DEF CleanInv
<1>2. CASE Begin \/ ResetAndServe \/ Again
  <2>1. UNCHANGED <<space, regions>> /\ {phase, phase'} \subseteq {"idle", "reset", "exports", "over"}
        /\ (spoiled => spoiled')
    BY <1>2 DEF Begin, ResetAndServe, Again, Lower, machVars, Runtime
  <2>2. ImagesIn(phase') = ImagesIn(phase) /\ RegionsIn(phase') = RegionsIn(phase)
    BY <2>1 DEF ImagesIn, RegionsIn, Whole
  <2> QED  BY <2>1, <2>2 DEF CleanInv
<1>3. CASE NewFails
  BY <1>3, FailLeaves DEF CleanInv
<1>4. CASE (Exports \/ LoadCore \/ LoadKit) /\ ~NewFails
  <2>1. UNCHANGED <<space, regions, spoiled>>
    BY <1>4 DEF Exports, ExportsFound, LoadCore, LoadKit, LoadImage, BeginLoad, Runtime
  <2>2. <<phase, phase'>> \in {<<"exports", "core">>, <<"core", "loadCore">>, <<"kit", "loadKit">>}
    BY <1>4 DEF Exports, ExportsFound, LoadCore, LoadKit, LoadImage
  <2>3. ImagesIn(phase) \subseteq ImagesIn(phase') /\ RegionsIn(phase') = RegionsIn(phase)
    BY <2>2 DEF ImagesIn, RegionsIn, Whole
  <2> QED  BY <2>1, <2>3 DEF CleanInv
<1>5. CASE phase \in {"loadCore", "loadKit"} /\ LoadNext /\ UNCHANGED <<shimVars, talkVars, sapVars>>
  <2>1. LoadMoves /\ UNCHANGED <<regions, spoiled, phase>>
    BY <1>5, LoadStepKeeps DEF sapVars
  <2>2. load.base \in ImagesIn(phase)
    BY <1>5, <2>1 DEF LoadMoves, ImageInv, BaseIn, ImagesIn
  <2>3. \A b \in Bases \ ImagesIn(phase) : space'[b] = space[b]
    BY <2>1, <2>2 DEF LoadMoves
  <2> QED  BY <2>1, <2>3 DEF CleanInv
<1>6. CASE Loading /\ ~NewFails
  <2>1. \/ LoadNext /\ UNCHANGED <<shimVars, talkVars, sapVars>>
        \/ /\ phase' = IF phase = "loadCore" THEN "kit" ELSE "find"
           /\ UNCHANGED <<space, regions, spoiled>>
    BY <1>6 DEF Loading, Runtime
  <2>2. phase \in {"loadCore", "loadKit"}
    BY <1>6 DEF Loading
  <2>3. CASE /\ phase' = IF phase = "loadCore" THEN "kit" ELSE "find"
             /\ UNCHANGED <<space, regions, spoiled>>
    <3>1. ImagesIn(phase) = ImagesIn(phase') /\ RegionsIn(phase') = RegionsIn(phase)
      BY <2>2, <2>3 DEF ImagesIn, RegionsIn, Whole
    <3> QED  BY <2>3, <3>1 DEF CleanInv
  <2> QED  BY <1>5, <2>1, <2>2, <2>3
<1>7. CASE FindEntries
  <2>1. CASE Dropped
    BY <2>1 DEF Dropped, CleanInv
  <2>2. CASE ~Dropped
    <3>1. UNCHANGED <<space, regions, spoiled>> /\ phase = "find" /\ phase' = "scratch"
      BY <1>7, <2>2 DEF FindEntries, Rest, Runtime
    <3>2. ImagesIn(phase) = ImagesIn(phase') /\ RegionsIn(phase') = RegionsIn(phase)
      BY <3>1 DEF ImagesIn, RegionsIn, Whole
    <3> QED  BY <3>1, <3>2 DEF CleanInv
  <2> QED  BY <2>1, <2>2
<1>8. CASE MapRegion /\ ~NewFails
  <2>1. /\ UNCHANGED <<space, spoiled>> /\ phase \in Regions
        /\ regions' = regions \cup {phase} /\ phase' = AfterRegion(phase)
    BY <1>8 DEF MapRegion, Lower, machVars
  <2>2. ImagesIn(phase) = ImagesIn(phase') /\ RegionsIn(phase) \cup {phase} = RegionsIn(phase')
    BY <2>1 DEF ImagesIn, RegionsIn, AfterRegion, Whole
  <2> QED  BY <2>1, <2>2 DEF CleanInv
<1>9. CASE DropRuntime
  <2>1. /\ phase = "ending" /\ phase' = "over" /\ regions' = {} /\ spoiled' = spoiled
        /\ space' = [b \in Bases |-> IF b \in {CorefpBase, KitBase} THEN "free" ELSE space[b]]
    BY <1>9 DEF DropRuntime, RuntimeRegions, RegionInv, Unmapped
  <2>2. ImagesIn(phase) = {CorefpBase, KitBase}
    BY <2>1 DEF ImagesIn, Whole
  <2> QED  BY <2>1, <2>2 DEF CleanInv
<1> QED  BY <1>1, <1>2, <1>3, <1>4, <1>6, <1>7, <1>8, <1>9 DEF SapNext, Exports, MapRegion

-----------------------------------------------------------------------------
(***************************************************************************)
(* The inductive invariant: the session's in its own focus, the loader's   *)
(* and the shims' in both.                                                 *)
(***************************************************************************)
GuestInv ==
  /\ HeapInv /\ AnswerInv /\ LoadInv /\ CourseInv /\ RegionInv /\ ExportInv
  /\ focus \in {"session", "loader"} /\ (focus = "loader" => phase = "idle")
  /\ focus = "session" => ImageInv /\ CleanInv

LEMMA InitGuest == Init => GuestInv
<1>1. Init => focus \in {"session", "loader"} /\ phase = "idle"
  BY DEF Init, SapInit
<1> QED  BY <1>1, InitHeap, InitAnswers, InitLoad, InitCourse, InitRegions, InitImages DEF GuestInv

LEMMA AnswerStep ==
  ASSUME AnswerInv, SapNext
  PROVE  AnswerInv'
<1>1. CASE GuestCalls
  BY <1>1, CallsTell
<1>2. CASE ResetAndServe
  <2>1. SubSeq(Icxs, 1, 0) = <<>> /\ Len(Icxs) \in Nat
    BY IcxsIsASequence, ShimsAssumption, SubSeqProperties
  <2> QED  BY <1>2, <2>1 DEF ResetAndServe, ResetShims, IteratorAfter, NoAnswer, AnswerInv
<1>3. CASE UNCHANGED tellVars
  BY <1>3 DEF AnswerInv, tellVars
<1> QED  BY <1>1, <1>2, <1>3, SessionStep

LEMMA LoaderStep ==
  ASSUME LoadInv, LoaderNext
  PROVE  LoadInv'
<1>1. CASE LoadAny
  <2>1. PICK f, b, way, claim : b \in Bases /\ BeginLoad(f, b, way, claim, ShimTable(Slotted, <<>>))
    BY <1>1 DEF LoadAny
  <2> QED  BY <2>1, BeginKeeps
<1>2. CASE LoadOver
  BY <1>2, NoLoadKeeps DEF LoadOver
<1>3. CASE DropImage
  BY <1>3, UnmapKeeps DEF DropImage
<1> QED  BY <1>1, <1>2, <1>3, LoadStepKeeps DEF LoaderNext

LEMMA GuestStep == GuestInv /\ [Next]_sapAllVars => GuestInv'
<1> SUFFICES ASSUME GuestInv, [Next]_sapAllVars
             PROVE  GuestInv'
  OBVIOUS
<1>1. HeapInv'
  BY HeapStep DEF GuestInv
<1>2. CASE focus = "session" /\ SapNext /\ focus' = focus
  <2>1. AnswerInv' /\ CourseInv' /\ RegionInv' /\ ExportInv'
    BY <1>2, AnswerStep, CourseStep, RegionStep, ExportStep DEF GuestInv
  <2>2. LoadInv' /\ ImageInv' /\ CleanInv'
    BY <1>2, ImageStep, CleanStep DEF GuestInv
  <2> QED  BY <1>1, <1>2, <2>1, <2>2 DEF GuestInv
<1>3. CASE focus = "loader" /\ LoadInv' /\ UNCHANGED <<focus, shimVars, talkVars, sapVars>>
  <2>1. AnswerInv' /\ RegionInv' /\ ExportInv'
    BY <1>3 DEF GuestInv, AnswerInv, RegionInv, ExportInv, shimVars, talkVars, sapVars
  <2>2. CourseInv'
    BY <1>3, CourseStays DEF GuestInv, courseVars, shimVars, talkVars, sapVars
  <2> QED  BY <1>1, <1>3, <2>1, <2>2 DEF GuestInv, sapVars
<1>4. CASE UNCHANGED sapAllVars
  <2>1. UNCHANGED <<machVars, shimVars, talkVars, sapVars, focus>>
    BY <1>4 DEF sapAllVars
  <2>2. AnswerInv' /\ RegionInv' /\ ExportInv' /\ CourseInv'
    BY <2>1, CourseStays DEF GuestInv, AnswerInv, RegionInv, ExportInv, courseVars, shimVars, talkVars, sapVars
  <2>3. LoadInv' /\ (ImageInv <=> ImageInv') /\ (CleanInv <=> CleanInv')
    <3>1. LoadInv'
      BY <2>1, NoLoadKeeps DEF GuestInv, machVars
    <3>2. \A b, f : IsImage(b, f)' <=> IsImage(b, f)
      BY <2>1 DEF IsImage, machVars
    <3>3. ImageInv <=> ImageInv'
      BY <2>1, <3>2 DEF ImageInv, BaseIn, FileIn, machVars, sapVars
    <3>4. CleanInv <=> CleanInv'
      BY <2>1 DEF CleanInv, machVars, sapVars
    <3> QED  BY <3>1, <3>3, <3>4
  <2> QED  BY <1>1, <2>1, <2>2, <2>3 DEF GuestInv, sapVars
<1>5. CASE focus = "loader" /\ LoaderNext /\ UNCHANGED <<focus, shimVars, talkVars, sapVars>>
  BY <1>3, <1>5, LoaderStep DEF GuestInv
<1> QED  BY <1>2, <1>4, <1>5 DEF Next

-----------------------------------------------------------------------------
LEMMA GuestTypes == GuestInv => TypeOK
<1> SUFFICES ASSUME GuestInv
             PROVE  TypeOK
  OBVIOUS
<1>1. \A b \in Bases : space[b] \in {"free", "loading", "owned", "leaked"}
  BY DEF GuestInv, LoadInv
<1>2. load.step \in {"none", "map", "patch", "stage", "copy", "read", "rebase", "bind", "quiet", "loaded", "failed"}
  BY DEF GuestInv, LoadInv, Under
<1>3. tail \in -1..HeapUnits
  BY ShimsAssumption DEF GuestInv, HeapInv, TailNow
<1>4. context \in 0..MaxSessions /\ Len(rounds) <= 2
  BY SapAssumption DEF GuestInv, CourseInv, ContextInv, RoundsInv
<1>5. phase \in Phases /\ callee \in {"none", "init", "exchange", "dispose", "sign", "teardown"} /\ (phase = "guest" <=> callee # "none")
  BY DEF GuestInv, CourseInv, CalleeInv
<1> QED  BY <1>1, <1>2, <1>3, <1>4, <1>5 DEF TypeOK, GuestInv, AnswerInv, RegionInv

LEMMA GuestStartsAlike == GuestInv => SessionStartsAlike
<1> SUFFICES ASSUME GuestInv
             PROVE  SessionStartsAlike
  OBVIOUS
<1>1. answer.asked % 2 = IteratorGives /\ answer.sinceOpen = SubSeq(Icxs, 1, cursor)
  BY DEF GuestInv, AnswerInv, IteratorGives
<1>2. ASSUME phase = "guest"
      PROVE  guestMac = mac
  BY <1>2 DEF GuestInv, CourseInv, MacInv
<1>3. ASSUME phase = "guest", NEW n \in CorefpExports
      PROVE  AnswerOf(n) = SymbolIn(imageOf[CorefpBase].info, CorefpBase, n)
  <2>1. imageOf[CorefpBase].info = TableOf(Dirs[dir].core)
    BY <1>3 DEF GuestInv, ImageInv, IsImage, Whole
  <2>2. exportsOf = Exported(dir)
    BY <1>3 DEF GuestInv, ExportInv
  <2>3. AnswerOf(n) = exportsOf[n]
    BY <2>2, SapAssumption DEF AnswerOf, Dlsym, Exported
  <2> QED  BY <2>1, <2>2, <2>3 DEF Exported
<1> QED  BY <1>1, <1>2, <1>3 DEF SessionStartsAlike

LEMMA GuestIsWhole == GuestInv => GuestEntersWhole
<1> SUFFICES ASSUME GuestInv, phase = "guest"
             PROVE  GuestEntersWhole
  BY DEF GuestEntersWhole
<1>1. IsImage(CorefpBase, Dirs[dir].core) /\ IsImage(KitBase, Dirs[dir].kit)
  BY DEF GuestInv, ImageInv, Whole
<1>2. regions = Regions /\ landing
  BY DEF GuestInv, RegionInv, RegionsIn
<1>3. callee # "init" => context = session
  BY DEF GuestInv, CourseInv, ContextInv, CalleeInv
<1>4. callee = "sign" \/ pending = Signature => rounds = <<1, 0>>
  BY DEF GuestInv, CourseInv, RoundsInv
<1> QED  BY <1>1, <1>2, <1>3, <1>4 DEF GuestEntersWhole, IsImage

LEMMA NothingIsLeft == GuestInv => SessionLeavesNothing
BY DEF GuestInv, SessionLeavesNothing, CleanInv, ImagesIn, RegionsIn, Whole, Talking, Regions

\* The state of the guest, its images and its sessions has the types declared for it (TypeOK).
THEOREM GuestTyped == Spec => []TypeOK
<1> QED  BY InitGuest, GuestStep, GuestTypes, PTL DEF Spec

\* Whatever the sessions before asked, read or left, each finds the shims as the first one did: the
\* iterator gives an entry and then none, the ICXS file is read from where it was opened, the machine
\* address is the session's, and dlsym answers with CoreFP where it is mapped (SessionStartsAlike).
THEOREM SessionsStartAlike == Spec => []SessionStartsAlike
<1> QED  BY InitGuest, GuestStep, GuestStartsAlike, PTL DEF Spec

\* Whatever failed before, the guest is entered only with both images and all regions mapped, with a way
\* back, with a context of this session, and to sign after two exchanges that went well
\* (GuestEntersWhole).
THEOREM GuestsAreWhole == Spec => []GuestEntersWhole
<1> QED  BY InitGuest, GuestStep, GuestIsWhole, PTL DEF Spec

\* A session that could be made leaves no image and no region behind, whichever call of the guest or of
\* the server ended it (SessionLeavesNothing).
THEOREM SessionsLeaveNothing == Spec => []SessionLeavesNothing
<1> QED  BY InitGuest, GuestStep, NothingIsLeft, PTL DEF Spec

-----------------------------------------------------------------------------
(***************************************************************************)
(* Induction, and what follows from it about numbers.                      *)
(***************************************************************************)
LEMMA Induction ==
  ASSUME NEW T, 0 \in T, \A n \in Nat : n \in T => n + 1 \in T
  PROVE  Nat \subseteq T
<1> SUFFICES ASSUME NEW k \in Nat, k \notin T PROVE FALSE
  OBVIOUS
<1>1. PICK B : B = {n \in Nat : n \notin T}
  OBVIOUS
<1>2. PICK C : C = {0..n - 1 : n \in B}
  OBVIOUS
<1>3. C # {}
  BY <1>1, <1>2
<1>4. C \subseteq FiniteSubsetsOf(Nat)
  <2> SUFFICES ASSUME NEW n \in B PROVE 0..n - 1 \in FiniteSubsetsOf(Nat)
    BY <1>2
  <2>1. n \in Nat
    BY <1>1
  <2> QED  BY <2>1, FS_Interval DEF FiniteSubsetsOf
<1>5. PICK x \in C : \A y \in C : <<y, x>> \notin StrictSubsetOrdering(Nat)
  BY <1>3, <1>4, FS_StrictSubsetOrderingWellFounded, WFMin
<1>6. PICK m \in B : x = 0..m - 1
  BY <1>2, <1>5
<1>7. m - 1 \in B
  BY <1>1, <1>6
<1>8. 0..(m - 1) - 1 \in C
  BY <1>2, <1>7
<1>9. <<0..(m - 1) - 1, x>> \in StrictSubsetOrdering(Nat)
  BY <1>1, <1>6, <1>7 DEF StrictSubsetOrdering
<1> QED  BY <1>5, <1>8, <1>9

LEMMA Extremes ==
  ASSUME NEW n \in Nat, NEW S \in SUBSET (1..n), S # {}
  PROVE  /\ \E i \in S : \A j \in S : i <= j
         /\ \E i \in S : \A j \in S : j <= i
<1>1. PICK N : N = {k \in Nat : \A U \in SUBSET (1..k) : U # {} =>
                      /\ \E i \in U : \A j \in U : i <= j
                      /\ \E i \in U : \A j \in U : j <= i}
  BY Zenon
<1>2. 0 \in N
  <2>1. \A U \in SUBSET (1..0) : U = {}
    OBVIOUS
  <2> QED  BY <1>1, <2>1
<1>3. ASSUME NEW k \in Nat, k \in N PROVE k + 1 \in N
  <2> SUFFICES ASSUME NEW U \in SUBSET (1..k + 1), U # {}
               PROVE  /\ \E i \in U : \A j \in U : i <= j
                      /\ \E i \in U : \A j \in U : j <= i
    BY <1>1
  <2>1. PICK V : V = U \ {k + 1}
    OBVIOUS
  <2>2. V \in SUBSET (1..k)
    BY <2>1
  <2>3. CASE V = {}
    <3>1. U = {k + 1}
      BY <2>1, <2>3
    <3> QED  BY <3>1
  <2>4. CASE V # {}
    <3>1. (\E i \in V : \A j \in V : i <= j) /\ (\E i \in V : \A j \in V : j <= i)
      BY <1>1, <1>3, <2>2, <2>4
    <3>2. PICK i \in V : \A j \in V : i <= j
      BY <3>1
    <3>3. PICK h \in V : \A j \in V : j <= h
      BY <3>1
    <3>4. \A j \in U : i <= j
      BY <2>1, <2>2, <3>2
    <3>5. CASE k + 1 \in U
      <4>1. \A j \in U : j <= k + 1
        OBVIOUS
      <4> QED  BY <2>1, <3>4, <3>5, <4>1
    <3>6. CASE k + 1 \notin U
      <4>1. U = V
        BY <2>1, <3>6
      <4> QED  BY <3>1, <4>1
    <3> QED  BY <3>5, <3>6
  <2> QED  BY <2>3, <2>4
<1>4. n \in N
  BY <1>2, <1>3, Induction
<1> QED  BY <1>1, <1>4

-----------------------------------------------------------------------------
(***************************************************************************)
(* What a pass over the fixups leaves.                                     *)
(***************************************************************************)
\* The value of a bind: the table's, the zero page, or a stub with this label.
BoundOk(table, x, v, labels) ==
  IF x.name \in DOMAIN table THEN v = table[x.name] + x.addend
  ELSE IF IsData(x.name) THEN v = ZeroPage
  ELSE \E k \in 1..Len(labels) : labels[k] = x.name /\ v = StubAddress(k)

Grown(labels, more) == Len(labels) <= Len(more) /\ \A k \in 1..Len(labels) : more[k] = labels[k]

LEMMA GrownAgain ==
  ASSUME NEW S, NEW a \in Seq(S), NEW b \in Seq(S), NEW c \in Seq(S), Grown(a, b), Grown(b, c)
  PROVE  Grown(a, c)
BY LenProperties DEF Grown

LEMMA BoundStays ==
  ASSUME NEW S, NEW a \in Seq(S), NEW b \in Seq(S), Grown(a, b), NEW table, NEW x, NEW v, BoundOk(table, x, v, a)
  PROVE  BoundOk(table, x, v, b)
BY LenProperties DEF Grown, BoundOk

Hit(at, n, c) == {k \in 1..n : at[k] = c}
LabelsOk(S, from, labels) == labels \in Seq(S) /\ Grown(from, labels)
CellOk(fixups, at, old, binds, n, labels, c, v) ==
  /\ Hit(at, n, c) = {} => v = old
  /\ binds => (Hit(at, n, c) # {} => \E k \in Hit(at, n, c) : BoundOk(load.table, fixups[k], v, labels))
  /\ ~binds => \A k : Hit(at, n, c) = {k} => v = Slide + old
CellsOk(fixups, at, cells, binds, n, acc) ==
  /\ DOMAIN acc.cells = DOMAIN cells
  /\ \A c \in DOMAIN cells : c >= 0 => CellOk(fixups, at, cells[c], binds, n, acc.labels, c, acc.cells[c])

LateFor(x, e) == e.name = SegmentName(x) /\ e.at = x.at
LateOk(fixups, at, binds, n, labels, e) ==
  \E k \in 1..n : /\ at[k] = -2 /\ LateFor(fixups[k], e)
                  /\ IF binds THEN BoundOk(load.table, fixups[k], e.value, labels) ELSE e.value = Slide + 0
StagedOk(fixups, at, binds, n, acc) ==
  /\ \E T : acc.staged \in Seq(T)
  /\ \A j \in 1..Len(acc.staged) : LateOk(fixups, at, binds, n, acc.labels, acc.staged[j])
  /\ \A k \in 1..n : at[k] = -2 => \E j \in 1..Len(acc.staged) : LateFor(fixups[k], acc.staged[j])

\* What the fixups write as a rebase, or as a bind.
NewValue(acc, x, at, binds) ==
  IF binds THEN BoundTo(x, acc.labels).value ELSE Slide + (IF at >= 0 THEN acc.cells[at] ELSE 0)
NewLabels(acc, x, binds) == IF binds THEN BoundTo(x, acc.labels).labels ELSE acc.labels

FixedSo(acc, x, at, binds) ==
  /\ Fixed(acc, x, at, binds).labels = NewLabels(acc, x, binds)
  /\ Fixed(acc, x, at, binds).cells =
       IF at >= 0 THEN [acc.cells EXCEPT ![at] = NewValue(acc, x, at, binds)] ELSE acc.cells
  /\ Fixed(acc, x, at, binds).staged =
       IF at = -2 THEN Append(acc.staged, [name |-> SegmentName(x), at |-> x.at,
                                           value |-> NewValue(acc, x, at, binds)])
       ELSE acc.staged
LEMMA FixedIs ==
  ASSUME NEW acc, NEW x, NEW at, NEW binds \in BOOLEAN
  PROVE  FixedSo(acc, x, at, binds)
<1>1. CASE binds = TRUE
  BY <1>1 DEF FixedSo, Fixed, NewLabels, NewValue
<1>2. CASE binds = FALSE
  BY <1>2 DEF FixedSo, Fixed, NewLabels, NewValue
<1> QED  BY <1>1, <1>2

\* A bind has its value, and the labels grow by its own at the most.
LEMMA BindingOk ==
  ASSUME NEW S, NEW labels \in Seq(S), NEW x, x.name \in S
  PROVE  /\ BoundTo(x, labels).labels \in Seq(S) /\ Grown(labels, BoundTo(x, labels).labels)
         /\ BoundOk(load.table, x, BoundTo(x, labels).value, BoundTo(x, labels).labels)
<1>1. Len(labels) \in Nat /\ Grown(labels, labels)
  BY LenProperties DEF Grown
<1>2. CASE x.name \in DOMAIN load.table
  <2>1. BoundTo(x, labels).labels = labels /\ BoundTo(x, labels).value = load.table[x.name] + x.addend
    BY <1>2 DEF BoundTo
  <2> QED  BY <1>1, <1>2, <2>1 DEF BoundOk
<1>3. CASE x.name \notin DOMAIN load.table /\ IsData(x.name)
  <2>1. BoundTo(x, labels).labels = labels /\ BoundTo(x, labels).value = ZeroPage
    BY <1>3 DEF BoundTo
  <2> QED  BY <1>1, <1>3, <2>1 DEF BoundOk
<1>4. CASE x.name \notin DOMAIN load.table /\ ~IsData(x.name)
  <2>1. PICK more : more = Append(labels, x.name)
    OBVIOUS
  <2>2. BoundTo(x, labels).labels = more /\ BoundTo(x, labels).value = StubAddress(Len(labels) + 1)
    BY <1>4, <2>1 DEF BoundTo
  <2>3. more \in Seq(S) /\ Len(more) = Len(labels) + 1 /\ more[Len(labels) + 1] = x.name /\ Grown(labels, more)
    BY <1>1, <2>1, AppendProperties DEF Grown
  <2>4. BoundOk(load.table, x, StubAddress(Len(labels) + 1), more)
    BY <1>1, <1>4, <2>3 DEF BoundOk
  <2> QED  BY <2>2, <2>3, <2>4
<1> QED  BY <1>2, <1>3, <1>4

LEMMA CellsStep ==
  ASSUME NEW S, NEW fixups, NEW at, NEW cells, NEW binds \in BOOLEAN, NEW n \in Nat, NEW acc,
         acc.labels \in Seq(S), CellsOk(fixups, at, cells, binds, n, acc),
         NEW m, m = n + 1, at[m] \in Int, fixups[m].name \in S,
         NEW new, new = Fixed(acc, fixups[m], at[m], binds)
  PROVE  CellsOk(fixups, at, cells, binds, m, new)
<1>1. PICK v : v = NewValue(acc, fixups[m], at[m], binds)
  OBVIOUS
<1>2. /\ new.cells = IF at[m] >= 0 THEN [acc.cells EXCEPT ![at[m]] = v] ELSE acc.cells
      /\ new.labels = NewLabels(acc, fixups[m], binds)
  <2>1. PICK x, a : x = fixups[m] /\ a = at[m]
    OBVIOUS
  <2>2. /\ Fixed(acc, x, a, binds).labels = NewLabels(acc, x, binds)
        /\ Fixed(acc, x, a, binds).cells =
             IF a >= 0 THEN [acc.cells EXCEPT ![a] = NewValue(acc, x, a, binds)] ELSE acc.cells
    <3>1. FixedSo(acc, x, a, binds)
      BY FixedIs
    <3> QED  BY <3>1, Zenon DEF FixedSo
  <2> QED  BY ONLY <1>1, <2>1, <2>2, new = Fixed(acc, fixups[m], at[m], binds)
<1>3. DOMAIN new.cells = DOMAIN cells
  BY <1>2 DEF CellsOk
<1>4. new.labels \in Seq(S) /\ Grown(acc.labels, new.labels)
  <2>1. Grown(acc.labels, acc.labels)
    BY LenProperties DEF Grown
  <2> QED  BY <1>2, <2>1, BindingOk DEF NewLabels
<1>5. ASSUME NEW c \in DOMAIN cells, c >= 0
      PROVE  CellOk(fixups, at, cells[c], binds, m, new.labels, c, new.cells[c])
  <2>1. CellOk(fixups, at, cells[c], binds, n, acc.labels, c, acc.cells[c])
    BY <1>5 DEF CellsOk
  <2>2. Hit(at, m, c) = Hit(at, n, c) \cup {k \in {m} : at[k] = c}
    BY DEF Hit
  <2>3. CASE at[m] # c
    <3>1. new.cells[c] = acc.cells[c] /\ Hit(at, m, c) = Hit(at, n, c)
      BY <1>2, <1>5, <2>2, <2>3 DEF CellsOk
    <3>2. \A k : BoundOk(load.table, fixups[k], acc.cells[c], acc.labels)
                 => BoundOk(load.table, fixups[k], acc.cells[c], new.labels)
      BY <1>4, BoundStays
    <3> QED  BY <2>1, <3>1, <3>2 DEF CellOk
  <2>4. CASE at[m] = c
    <3>1. new.cells[c] = v /\ m \in Hit(at, m, c)
      BY <1>2, <1>5, <2>2, <2>4 DEF CellsOk
    <3>2. CASE binds = TRUE
      <4>1. v = BoundTo(fixups[m], acc.labels).value /\ new.labels = BoundTo(fixups[m], acc.labels).labels
        BY <1>1, <1>2, <3>2 DEF NewValue, NewLabels
      <4>2. BoundOk(load.table, fixups[m], v, new.labels)
        BY <4>1, BindingOk
      <4> QED  BY <3>1, <3>2, <4>2 DEF CellOk
    <3>3. CASE binds = FALSE
      <4>1. v = Slide + acc.cells[c]
        BY <1>1, <1>5, <2>4, <3>3 DEF NewValue
      <4>2. ASSUME NEW k, Hit(at, m, c) = {k} PROVE v = Slide + cells[c]
        <5>1. m \notin Hit(at, n, c)
          BY DEF Hit
        <5>2. Hit(at, n, c) = {}
          BY <2>2, <3>1, <4>2, <5>1
        <5> QED  BY <2>1, <4>1, <5>2 DEF CellOk
      <4> QED  BY <3>1, <3>3, <4>2 DEF CellOk
    <3> QED  BY <3>2, <3>3
  <2> QED  BY <2>3, <2>4
<1> QED  BY <1>3, <1>5 DEF CellsOk

LEMMA StagedStep ==
  ASSUME NEW S, NEW fixups, NEW at, NEW binds \in BOOLEAN, NEW n \in Nat, NEW acc,
         acc.labels \in Seq(S), StagedOk(fixups, at, binds, n, acc),
         NEW m, m = n + 1, at[m] \in Int, fixups[m].name \in S,
         NEW new, new = Fixed(acc, fixups[m], at[m], binds)
  PROVE  StagedOk(fixups, at, binds, m, new)
<1>1. PICK v : v = NewValue(acc, fixups[m], at[m], binds)
  OBVIOUS
<1>2. PICK e : e = [name |-> SegmentName(fixups[m]), at |-> fixups[m].at, value |-> v]
  OBVIOUS
<1>3. /\ new.staged = IF at[m] = -2 THEN Append(acc.staged, e) ELSE acc.staged
      /\ new.labels = NewLabels(acc, fixups[m], binds)
  <2>1. PICK x, a : x = fixups[m] /\ a = at[m]
    OBVIOUS
  <2>2. /\ Fixed(acc, x, a, binds).labels = NewLabels(acc, x, binds)
        /\ Fixed(acc, x, a, binds).staged =
              IF a = -2 THEN Append(acc.staged, [name |-> SegmentName(x), at |-> x.at,
                                                  value |-> NewValue(acc, x, a, binds)])
              ELSE acc.staged
    <3>1. FixedSo(acc, x, a, binds)
      BY FixedIs
    <3> QED  BY <3>1, Zenon DEF FixedSo
  <2> QED  BY ONLY <1>1, <1>2, <2>1, <2>2, new = Fixed(acc, fixups[m], at[m], binds)
<1>4. new.labels \in Seq(S) /\ Grown(acc.labels, new.labels)
  <2>1. Grown(acc.labels, acc.labels)
    BY LenProperties DEF Grown
  <2> QED  BY <1>3, <2>1, BindingOk DEF NewLabels
<1>5. PICK T : acc.staged \in Seq(T)
  BY DEF StagedOk
<1>6. \A d : LateOk(fixups, at, binds, n, acc.labels, d) => LateOk(fixups, at, binds, m, new.labels, d)
  <2> SUFFICES ASSUME NEW d, LateOk(fixups, at, binds, n, acc.labels, d)
               PROVE  LateOk(fixups, at, binds, m, new.labels, d)
    OBVIOUS
  <2>1. PICK k \in 1..n : /\ at[k] = -2 /\ LateFor(fixups[k], d)
                          /\ IF binds THEN BoundOk(load.table, fixups[k], d.value, acc.labels) ELSE d.value = Slide + 0
    BY DEF LateOk
  <2>2. BoundOk(load.table, fixups[k], d.value, acc.labels) => BoundOk(load.table, fixups[k], d.value, new.labels)
    BY <1>4, BoundStays
  <2>3. k \in 1..m
    OBVIOUS
  <2> QED  BY <2>1, <2>2, <2>3 DEF LateOk
<1>7. CASE at[m] # -2
  <2>1. new.staged = acc.staged
    BY <1>3, <1>7
  <2>2. \A k \in 1..m : at[k] = -2 => k \in 1..n
    BY <1>7
  <2> QED  BY <1>5, <1>6, <2>1, <2>2 DEF StagedOk
<1>8. CASE at[m] = -2
  <2>1. PICK l \in Nat : l = Len(acc.staged)
    BY <1>5, LenProperties
  <2>2. /\ new.staged \in Seq(T \cup {e}) /\ Len(new.staged) = l + 1
        /\ \A j \in 1..l : new.staged[j] = acc.staged[j]
        /\ new.staged[l + 1] = e
    <3>1. acc.staged \in Seq(T \cup {e}) /\ e \in T \cup {e}
      BY <1>5
    <3>2. new.staged = Append(acc.staged, e)
      BY <1>3, <1>8
    <3> QED  BY <2>1, <3>1, <3>2, AppendProperties
  <2>3. LateOk(fixups, at, binds, m, new.labels, e)
    <3>1. LateFor(fixups[m], e) /\ e.value = v /\ m \in 1..m
      BY <1>2 DEF LateFor
    <3>2. CASE binds = TRUE
      <4>1. v = BoundTo(fixups[m], acc.labels).value /\ new.labels = BoundTo(fixups[m], acc.labels).labels
        BY <1>1, <1>3, <3>2 DEF NewValue, NewLabels
      <4>2. BoundOk(load.table, fixups[m], v, new.labels)
        BY <4>1, BindingOk
      <4> QED  BY <1>8, <3>1, <3>2, <4>2 DEF LateOk
    <3>3. CASE binds = FALSE
      <4>1. v = Slide + 0
        BY <1>1, <1>8, <3>3 DEF NewValue
      <4> QED  BY <1>8, <3>1, <3>3, <4>1 DEF LateOk
    <3> QED  BY <3>2, <3>3
  <2>4. \A j \in 1..l + 1 : LateOk(fixups, at, binds, m, new.labels, new.staged[j])
    <3> TAKE j \in 1..l + 1
    <3>1. CASE j = l + 1
      BY <2>2, <2>3, <3>1
    <3>2. CASE j # l + 1
      <4>1. j \in 1..l
        BY <3>2
      <4> QED  BY <1>6, <2>1, <2>2, <4>1 DEF StagedOk
    <3> QED  BY <3>1, <3>2
  <2>5. \A k \in 1..m : at[k] = -2 => \E j \in 1..l + 1 : LateFor(fixups[k], new.staged[j])
    <3> TAKE k \in 1..m
    <3> HAVE at[k] = -2
    <3>1. CASE k = m
      <4>1. LateFor(fixups[m], e) /\ l + 1 \in 1..l + 1
        BY <1>2 DEF LateFor
      <4> QED  BY <2>2, <3>1, <4>1
    <3>2. CASE k # m
      <4>1. k \in 1..n
        BY <3>2
      <4>2. PICK j \in 1..l : LateFor(fixups[k], acc.staged[j])
        BY <2>1, <4>1 DEF StagedOk
      <4>3. j \in 1..l + 1 /\ new.staged[j] = acc.staged[j]
        BY <2>2
      <4> QED  BY <4>2, <4>3
    <3> QED  BY <3>1, <3>2
  <2> QED  BY <2>2, <2>4, <2>5 DEF StagedOk
<1> QED  BY <1>7, <1>8

PassOk(S, fixups, at, cells, binds, n, acc) ==
  /\ LabelsOk(S, traps, acc.labels)
  /\ CellsOk(fixups, at, cells, binds, n, acc)
  /\ StagedOk(fixups, at, binds, n, acc)

PassStart(cells) == [labels |-> traps, cells |-> cells, staged |-> <<>>]
LEMMA PassBegins ==
  ASSUME NEW S, traps \in Seq(S), NEW fixups, NEW at, NEW cells, NEW binds \in BOOLEAN
  PROVE  PassOk(S, fixups, at, cells, binds, 0, PassStart(cells))
<1>1. PICK acc : acc = PassStart(cells)
  OBVIOUS
<1>2. acc.labels = traps /\ acc.cells = cells /\ acc.staged = <<>>
  BY <1>1 DEF PassStart
<1>3. LabelsOk(S, traps, acc.labels)
  BY <1>2, LenProperties DEF LabelsOk, Grown
<1>4. \A c : Hit(at, 0, c) = {}
  BY DEF Hit
<1>5. CellsOk(fixups, at, cells, binds, 0, acc)
  <2>1. ASSUME NEW c \in DOMAIN cells PROVE CellOk(fixups, at, cells[c], binds, 0, acc.labels, c, acc.cells[c])
    <3>1. Hit(at, 0, c) = {} /\ acc.cells[c] = cells[c]
      BY <1>2, <1>4
    <3>2. \A k : Hit(at, 0, c) # {k}
      BY <3>1
    <3> QED  BY <3>1, <3>2 DEF CellOk
  <2> QED  BY <1>2, <2>1 DEF CellsOk
<1>6. StagedOk(fixups, at, binds, 0, acc)
  <2>1. acc.staged \in Seq({}) /\ Len(acc.staged) = 0
    BY <1>2
  <2> QED  BY <2>1 DEF StagedOk
<1> QED  BY <1>1, <1>3, <1>5, <1>6 DEF PassOk

LEMMA PassGoesOn ==
  ASSUME NEW S, traps \in Seq(S), NEW fixups, NEW at, NEW cells, NEW binds \in BOOLEAN, NEW n \in Nat, NEW acc,
         PassOk(S, fixups, at, cells, binds, n, acc), NEW m, m = n + 1, at[m] \in Int, fixups[m].name \in S
  PROVE  PassOk(S, fixups, at, cells, binds, m, Fixed(acc, fixups[m], at[m], binds))
<1>1. PICK new : new = Fixed(acc, fixups[m], at[m], binds)
  OBVIOUS
<1>2. acc.labels \in Seq(S) /\ Grown(traps, acc.labels)
  BY DEF PassOk, LabelsOk
<1>3. new.labels \in Seq(S) /\ Grown(acc.labels, new.labels)
  <2>1. Grown(acc.labels, acc.labels)
    BY <1>2, LenProperties DEF Grown
  <2>2. new.labels = NewLabels(acc, fixups[m], binds)
    <3>1. FixedSo(acc, fixups[m], at[m], binds)
      BY FixedIs
    <3> QED  BY <1>1, <3>1, Zenon DEF FixedSo
  <2> QED  BY <1>2, <2>1, <2>2, BindingOk DEF NewLabels
<1>4. LabelsOk(S, traps, new.labels)
  BY <1>2, <1>3, GrownAgain DEF LabelsOk
<1>5. CellsOk(fixups, at, cells, binds, m, new)
  BY <1>1, <1>2, CellsStep DEF PassOk
<1>6. StagedOk(fixups, at, binds, m, new)
  BY <1>1, <1>2, StagedStep DEF PassOk
<1> QED  BY <1>1, <1>4, <1>5, <1>6 DEF PassOk

\* The recursion of Passed has a solution, which stays so.
PassedOn(f, fixups, at, cells, binds, m) ==
  f = [n \in 0..m |-> IF n = 0 THEN PassStart(cells) ELSE Fixed(f[n - 1], fixups[n], at[n], binds)]

LEMMA PassedExists ==
  ASSUME NEW fixups, NEW at, NEW cells, NEW binds, NEW k \in Nat
  PROVE  \E f : PassedOn(f, fixups, at, cells, binds, k)
<1>1. PICK N : N = {m \in Nat : \E f : PassedOn(f, fixups, at, cells, binds, m)}
  OBVIOUS
<1>2. 0 \in N
  <2>1. PICK f : f = [n \in 0..0 |-> PassStart(cells)]
    OBVIOUS
  <2>2. PassedOn(f, fixups, at, cells, binds, 0)
    BY <2>1 DEF PassedOn
  <2> QED  BY <1>1, <2>2
<1>3. ASSUME NEW m \in Nat, m \in N PROVE m + 1 \in N
  <2>1. PICK f : PassedOn(f, fixups, at, cells, binds, m)
    BY <1>1, <1>3
  <2>2. PICK x : x = Fixed(f[m], fixups[m + 1], at[m + 1], binds)
    OBVIOUS
  <2>3. PICK g : g = [n \in 0..m + 1 |-> IF n = m + 1 THEN x ELSE f[n]]
    OBVIOUS
  <2>4. \A n \in 0..m + 1 : g[n] = IF n = 0 THEN PassStart(cells) ELSE Fixed(g[n - 1], fixups[n], at[n], binds)
    <3> TAKE n \in 0..m + 1
    <3>1. CASE n = m + 1
      <4>1. g[n] = x /\ g[n - 1] = f[m]
        BY <2>3, <3>1
      <4> QED  BY <2>2, <3>1, <4>1
    <3>2. CASE n # m + 1
      <4>1. n \in 0..m /\ g[n] = f[n] /\ (n # 0 => g[n - 1] = f[n - 1])
        BY <2>3, <3>2
      <4>2. f[n] = IF n = 0 THEN PassStart(cells) ELSE Fixed(f[n - 1], fixups[n], at[n], binds)
        BY <2>1, <4>1 DEF PassedOn
      <4> QED  BY <4>1, <4>2
    <3> QED  BY <3>1, <3>2
  <2>5. g = [n \in 0..m + 1 |-> IF n = 0 THEN PassStart(cells) ELSE Fixed(g[n - 1], fixups[n], at[n], binds)]
    BY <2>3, <2>4
  <2>6. PassedOn(g, fixups, at, cells, binds, m + 1)
    BY <2>5 DEF PassedOn
  <2> QED  BY <1>1, <2>6
<1> QED  BY <1>1, <1>2, <1>3, Induction

\* A pass is a pass over a beginning of the list, and over all of it unless it is stopped.
Whereabouts(fixups, at) ==
  /\ Len(fixups) \in Nat /\ DOMAIN at = 1..Len(fixups) /\ \A k \in 1..Len(fixups) : at[k] \in Int
LEMMA ReachIs ==
  ASSUME NEW fixups, NEW at, Whereabouts(fixups, at)
  PROVE  Reach(fixups, at) \in 0..Len(fixups) /\ (~Stopped(at) => Reach(fixups, at) = Len(fixups))
<1>1. CASE ~Stopped(at)
  BY <1>1 DEF Reach, Whereabouts
<1>2. CASE Stopped(at)
  <2>1. PICK H : H = {k \in 1..Len(fixups) : at[k] = -1}
    OBVIOUS
  <2>2. H # {} /\ H \in SUBSET (1..Len(fixups))
    BY <1>2, <2>1 DEF Stopped, Whereabouts
  <2>3. PICK i \in H : \A j \in H : i <= j
    BY <2>2, Extremes DEF Whereabouts
  <2>4. i \in DOMAIN at /\ at[i] = -1 /\ \A j \in 1..i - 1 : at[j] # -1
    BY <2>1, <2>3 DEF Whereabouts
  <2>5. Reach(fixups, at) = CHOOSE k \in DOMAIN at : at[k] = -1 /\ \A j \in 1..k - 1 : at[j] # -1
    BY <1>2 DEF Reach
  <2>6. Reach(fixups, at) \in DOMAIN at
    BY <2>4, <2>5
  <2> QED  BY <1>2, <2>6 DEF Whereabouts
<1> QED  BY <1>1, <1>2

LEMMA PassedIs ==
  ASSUME NEW S, traps \in Seq(S), NEW fixups, NEW at, NEW cells, NEW binds \in BOOLEAN,
         Whereabouts(fixups, at), \A k \in 1..Len(fixups) : fixups[k].name \in S
  PROVE  \E n \in 0..Len(fixups) : /\ PassOk(S, fixups, at, cells, binds, n, Passed(fixups, at, cells, binds))
                                   /\ ~Stopped(at) => n = Len(fixups)
<1>1. Len(fixups) \in Nat
  BY DEF Whereabouts
<1>2. \E f : PassedOn(f, fixups, at, cells, binds, Len(fixups))
  BY <1>1, PassedExists
<1>3. \E f : PassedOn(f, fixups, at, cells, binds, Len(fixups)) /\ Passed(fixups, at, cells, binds) = f[Reach(fixups, at)]
  BY <1>2 DEF Passed, PassedOn, PassStart
<1>4. PICK f : PassedOn(f, fixups, at, cells, binds, Len(fixups)) /\ Passed(fixups, at, cells, binds) = f[Reach(fixups, at)]
  BY <1>3
<1>5. PICK N : N = {m \in Nat : m <= Len(fixups) => PassOk(S, fixups, at, cells, binds, m, f[m])}
  OBVIOUS
<1>6. 0 \in N
  <2>1. f[0] = PassStart(cells)
    BY <1>1, <1>4 DEF PassedOn
  <2> QED  BY <1>5, <2>1, PassBegins
<1>7. ASSUME NEW n \in Nat, n \in N PROVE n + 1 \in N
  <2> SUFFICES ASSUME n + 1 <= Len(fixups) PROVE PassOk(S, fixups, at, cells, binds, n + 1, f[n + 1])
    BY <1>5
  <2>1. PassOk(S, fixups, at, cells, binds, n, f[n])
    BY <1>1, <1>5, <1>7
  <2>2. PICK m : m = n + 1
    OBVIOUS
  <2>3. m \in 1..Len(fixups) /\ m \in 0..Len(fixups) /\ m # 0 /\ m - 1 = n
    BY <1>1, <2>2
  <2>4. f[m] = Fixed(f[n], fixups[m], at[m], binds)
    BY <1>4, <2>3 DEF PassedOn
  <2>5. at[m] \in Int /\ fixups[m].name \in S
    BY <2>3 DEF Whereabouts
  <2>6. PassOk(S, fixups, at, cells, binds, m, Fixed(f[n], fixups[m], at[m], binds))
    BY <2>1, <2>2, <2>5, PassGoesOn
  <2> QED  BY <2>2, <2>4, <2>6
<1>8. Nat \subseteq N
  BY <1>6, <1>7, Induction
<1>9. Reach(fixups, at) \in 0..Len(fixups) /\ (~Stopped(at) => Reach(fixups, at) = Len(fixups))
  BY ReachIs
<1>10. PassOk(S, fixups, at, cells, binds, Reach(fixups, at), f[Reach(fixups, at)])
  BY <1>1, <1>5, <1>8, <1>9
<1> QED  BY <1>4, <1>9, <1>10

-----------------------------------------------------------------------------
(***************************************************************************)
(* Where fixups go, and what the file brings.                              *)
(***************************************************************************)
\* An info that a load of the file may have.
IsInfo(f, info) == f \in Parsable /\ info \in InfosOf(f)
PlacedIn(info, x) == x.seg \in DOMAIN info.segs

LEMMA InfosPlaced ==
  ASSUME NEW f, NEW info, IsInfo(f, info)
  PROVE  /\ \A k \in DOMAIN info.rebases : PlacedIn(info, info.rebases[k])
         /\ \A k \in DOMAIN info.binds : PlacedIn(info, info.binds[k])
         /\ info.base = BaseOf(SliceOf(f)) /\ info.err = "none"
<1>1. PICK m : m = SliceOf(f)
  OBVIOUS
<1>2. PICK a : info = Parsed(m, a) /\ Placed(m, a.rebases) /\ Placed(m, a.binds)
  BY <1>1 DEF IsInfo, InfosOf
<1>3. /\ info.segs = m.segs /\ info.rebases = a.rebases /\ info.binds = a.binds /\ info.base = BaseOf(m)
      /\ info.err = "none"
  BY <1>2 DEF Parsed
<1> QED  BY <1>1, <1>2, <1>3 DEF Placed, PlacedIn

LEMMA InfosTyped ==
  ASSUME NEW f, NEW info, IsInfo(f, info)
  PROVE  InfoTyped(info, SliceOf(f).raw) /\ (Sound(info, SliceOf(f).raw) => WellLinked(f, info))
BY LinkAssumption DEF IsInfo

LEMMA FixupTyped ==
  ASSUME NEW info, NEW raw, InfoTyped(info, raw), NEW fixups \in {info.rebases, info.binds}
  PROVE  Len(fixups) \in Nat /\ DOMAIN fixups = 1..Len(fixups) /\ \A k \in DOMAIN fixups : fixups[k].at \in Nat
BY DEF InfoTyped

LEMMA SegmentIs ==
  ASSUME NEW info, NEW raw, InfoTyped(info, raw), NEW x, PlacedIn(info, x)
  PROVE  \E i \in DOMAIN info.segs : SegmentOf(info, x) = info.segs[i] /\ info.segs[i].name = info.segs[x.seg].name
<1>1. PICK N : N = Named(info, info.segs[x.seg].name)
  OBVIOUS
<1>2. N # {} /\ N \in SUBSET (1..Len(info.segs)) /\ Len(info.segs) \in Nat
  BY <1>1 DEF Named, InfoTyped, PlacedIn
<1>3. \E i \in N : \A j \in N : i <= j
  BY <1>2, Extremes
<1>4. PICK i : i = CHOOSE h \in N : \A j \in N : h <= j
  OBVIOUS
<1>5. i \in N /\ SegmentOf(info, x) = info.segs[i]
  BY <1>1, <1>3, <1>4 DEF SegmentOf
<1> QED  BY <1>1, <1>5 DEF Named

LEMMA SegmentTyped ==
  ASSUME NEW info, NEW raw, InfoTyped(info, raw), NEW x, PlacedIn(info, x)
  PROVE  LET s == SegmentOf(info, x) IN s.vm \in Nat /\ s.vmsize \in Nat /\ s.fileoff \in Nat /\ s.filesize \in Nat
<1>1. PICK i \in DOMAIN info.segs : SegmentOf(info, x) = info.segs[i]
  BY SegmentIs
<1> QED  BY <1>1 DEF InfoTyped

\* Segments with names of their own: it is the fixup's.
LEMMA SegmentIsOwn ==
  ASSUME NEW info, NEW raw, InfoTyped(info, raw), SegmentsApart(info, raw), NEW x, PlacedIn(info, x)
  PROVE  SegmentOf(info, x) = info.segs[x.seg]
<1>1. PICK i \in DOMAIN info.segs : SegmentOf(info, x) = info.segs[i] /\ info.segs[i].name = info.segs[x.seg].name
  BY SegmentIs
<1>2. i = x.seg
  BY <1>1 DEF SegmentsApart, PlacedIn
<1> QED  BY <1>1, <1>2

LEMMA OffsetsTyped ==
  ASSUME NEW info, NEW raw, InfoTyped(info, raw), NEW x, PlacedIn(info, x), x.at \in Nat
  PROVE  MapOffset(info, x) \in Int /\ FileOffset(info, x, Len(raw)) \in Int /\ Spot(info, x) \in Int
<1>1. PICK s : s = SegmentOf(info, x)
  OBVIOUS
<1>2. s.vm \in Nat /\ s.vmsize \in Nat /\ s.fileoff \in Nat /\ s.filesize \in Nat
  BY <1>1, SegmentTyped
<1>3. info.base \in Nat
  BY DEF InfoTyped
<1>4. s.vm - info.base + x.at \in Int /\ s.fileoff + x.at \in Int
  BY <1>2, <1>3
<1>5. MapOffset(info, x) \in {-1, s.vm - info.base + x.at}
  BY <1>1 DEF MapOffset
<1>6. FileOffset(info, x, Len(raw)) \in {-1, -2, s.fileoff + x.at}
  BY <1>1 DEF FileOffset
<1> QED  BY <1>1, <1>4, <1>5, <1>6 DEF Spot

\* In the mapping, a pass that goes on to its end hits every fixup's own cell.
MappedAt(info, fixups) == [k \in DOMAIN fixups |-> MapOffset(info, fixups[k])]
LEMMA MappingHits ==
  ASSUME NEW f, NEW info, IsInfo(f, info), NEW fixups \in {info.rebases, info.binds},
         ~Stopped(MappedAt(info, fixups))
  PROVE  /\ Inside(info, fixups)
         /\ \A c \in Nat : Hit(MappedAt(info, fixups), Len(fixups), c) = Hits(info, fixups, c)
<1>1. InfoTyped(info, SliceOf(f).raw) /\ DOMAIN fixups = 1..Len(fixups) /\ \A k \in DOMAIN fixups : fixups[k].at \in Nat
  BY InfosTyped, FixupTyped
<1>2. ASSUME NEW k \in DOMAIN fixups
      PROVE  /\ fixups[k].at + 1 <= SegmentOf(info, fixups[k]).vmsize
             /\ MappedAt(info, fixups)[k] = Spot(info, fixups[k])
  <2>1. MapOffset(info, fixups[k]) # -1
    BY DEF Stopped, MappedAt
  <2>2. PICK x : x = fixups[k]
    OBVIOUS
  <2>3. PICK s : s = SegmentOf(info, x)
    OBVIOUS
  <2>4. PlacedIn(info, x)
    BY <2>2, InfosPlaced
  <2>5. s.vmsize \in Nat /\ x.at \in Nat
    BY <1>1, <2>2, <2>3, <2>4, SegmentTyped
  <2>6. MapOffset(info, x) = IF x.at + 1 > s.vmsize \/ s.vm - info.base + x.at + 1 > SpanOf(info) THEN -1
                             ELSE s.vm - info.base + x.at
    BY <2>3 DEF MapOffset
  <2>7. x.at + 1 <= s.vmsize /\ MapOffset(info, x) = s.vm - info.base + x.at
    BY <2>1, <2>2, <2>5, <2>6
  <2> QED  BY <2>2, <2>3, <2>7 DEF MappedAt, Spot
<1> QED  BY <1>1, <1>2 DEF Inside, Hit, Hits

\* One segment at the most brings a cell, and it brings the file's.
LEMMA BroughtFrom ==
  ASSUME NEW info, NEW raw, InfoTyped(info, raw), SegmentsApart(info, raw), NEW c \in Nat,
         NEW i \in DOMAIN info.segs, Brings(info, i, c)
  PROVE  /\ \A j \in DOMAIN info.segs : Brings(info, j, c) => j = i
         /\ OffsetOf(info, i, c) \in InSlice(info, i) /\ OffsetOf(info, i, c) \in 0..Len(raw) - 1
         /\ c \in InMemory(info, i)
         /\ c - (info.segs[i].vm - info.base) \in 0..info.segs[i].filesize - 1
<1>1. \A j \in DOMAIN info.segs : /\ info.segs[j].vm \in Nat /\ info.segs[j].vmsize \in Nat /\ info.segs[j].fileoff \in Nat
                                  /\ info.segs[j].filesize \in Nat /\ info.segs[j].filesize <= info.segs[j].vmsize
  BY DEF InfoTyped, SegmentsApart
<1>2. info.base \in Nat /\ Len(raw) \in Nat
  BY DEF InfoTyped
<1>3. ASSUME NEW j \in DOMAIN info.segs, Brings(info, j, c)
      PROVE  c \in InMemory(info, j)
  <2>1. c \in info.segs[j].vm - info.base..info.segs[j].vm - info.base + info.segs[j].filesize - 1
    BY <1>3 DEF Brings
  <2>2. PICK low, n, m : low = info.segs[j].vm - info.base /\ n = info.segs[j].filesize /\ m = info.segs[j].vmsize
    OBVIOUS
  <2>3. low \in Int /\ n \in Nat /\ m \in Nat /\ n <= m
    BY <1>1, <1>2, <2>2
  <2>4. c \in low..low + m - 1
    BY <2>1, <2>2, <2>3
  <2> QED  BY <2>2, <2>4 DEF InMemory
<1>4. \A j \in DOMAIN info.segs : Brings(info, j, c) => j = i
  <2> SUFFICES ASSUME NEW j \in DOMAIN info.segs, Brings(info, j, c), j # i PROVE FALSE
    OBVIOUS
  <2>1. c \in InMemory(info, j) \cap InMemory(info, i)
    BY <1>3
  <2> QED  BY <2>1 DEF SegmentsApart
<1>5. c - (info.segs[i].vm - info.base) \in 0..info.segs[i].filesize - 1
  <2>1. c \in info.segs[i].vm - info.base..info.segs[i].vm - info.base + info.segs[i].filesize - 1
    BY DEF Brings
  <2> QED  BY <1>1, <1>2, <2>1
<1>6. OffsetOf(info, i, c) \in InSlice(info, i)
  BY <1>1, <1>2, <1>5 DEF OffsetOf, InSlice
<1>7. InSlice(info, i) \subseteq 0..Len(raw) - 1
  BY DEF SegmentsApart, Brings
<1> QED  BY <1>3, <1>4, <1>5, <1>6, <1>7

LEMMA FileCellIs ==
  ASSUME NEW info, NEW raw, InfoTyped(info, raw), SegmentsApart(info, raw), NEW c \in Nat, NEW data, NEW old
  PROVE  /\ \A i \in DOMAIN info.segs : Brings(info, i, c) => FileCell(info, data, c, old) = data[OffsetOf(info, i, c)]
         /\ (\A i \in DOMAIN info.segs : ~Brings(info, i, c)) => FileCell(info, data, c, old) = old
<1>1. PICK S : S = {i \in DOMAIN info.segs : Brings(info, i, c)}
  OBVIOUS
<1>2. PICK h : h = CHOOSE k \in S : \A j \in S : j <= k
  OBVIOUS
<1>3. FileCell(info, data, c, old) = IF S = {} THEN old ELSE data[OffsetOf(info, h, c)]
  BY <1>1, <1>2 DEF FileCell, OffsetOf
<1>4. ASSUME NEW i \in DOMAIN info.segs, Brings(info, i, c)
      PROVE  S # {} /\ h = i
  <2>1. S = {i}
    BY <1>1, <1>4, BroughtFrom
  <2>2. i <= i
    BY DEF InfoTyped
  <2>3. h \in S
    BY <1>2, <2>1, <2>2
  <2> QED  BY <2>1, <2>3
<1> QED  BY <1>1, <1>3, <1>4

\* In the file, a pass that goes on to its end hits a brought cell's place as often as the cell, and
\* keeps for later what goes to a cell that is not brought.
FiledAt(info, fixups, raw) == [k \in DOMAIN fixups |-> FileOffset(info, fixups[k], Len(raw))]

LEMMA FiledOne ==
  ASSUME NEW f, NEW info, IsInfo(f, info), NEW raw, raw = SliceOf(f).raw, NEW fixups \in {info.rebases, info.binds},
         ~Stopped(FiledAt(info, fixups, raw)), NEW k \in DOMAIN fixups
  PROVE  LET x == fixups[k]
             s == SegmentOf(info, x)
         IN  /\ x.at + 1 <= s.vmsize
             /\ FiledAt(info, fixups, raw)[k] = IF x.at + 1 > s.filesize THEN -2 ELSE s.fileoff + x.at
<1>1. PICK x, s : x = fixups[k] /\ s = SegmentOf(info, x)
  OBVIOUS
<1>2. FileOffset(info, x, Len(raw)) # -1
  BY <1>1 DEF Stopped, FiledAt
<1>3. x.at \in Nat /\ PlacedIn(info, x) /\ InfoTyped(info, raw)
  BY <1>1, InfosTyped, FixupTyped, InfosPlaced
<1>4. s.vmsize \in Nat /\ s.filesize \in Nat /\ s.fileoff \in Nat
  BY <1>1, <1>3, SegmentTyped
<1>5. FileOffset(info, x, Len(raw)) =
        IF x.at + 1 > s.vmsize THEN -1
        ELSE IF x.at + 1 > s.filesize THEN -2
        ELSE IF s.fileoff + x.at + 1 > Len(raw) THEN -1 ELSE s.fileoff + x.at
  BY <1>1 DEF FileOffset
<1>6. /\ x.at + 1 <= s.vmsize
      /\ FileOffset(info, x, Len(raw)) = IF x.at + 1 > s.filesize THEN -2 ELSE s.fileoff + x.at
  BY <1>2, <1>3, <1>4, <1>5
<1> QED  BY <1>1, <1>6 DEF FiledAt

LEMMA FiledInside ==
  ASSUME NEW f, NEW info, IsInfo(f, info), NEW raw, raw = SliceOf(f).raw, NEW fixups \in {info.rebases, info.binds},
         ~Stopped(FiledAt(info, fixups, raw))
  PROVE  Inside(info, fixups)
BY FiledOne DEF Inside

\* In a file that is linked well, a fixup of a cell belongs to the segment that brings it.
LEMMA FiledHits ==
  ASSUME NEW f, NEW info, IsInfo(f, info), NEW raw, raw = SliceOf(f).raw, NEW fixups \in {info.rebases, info.binds},
         ~Stopped(FiledAt(info, fixups, raw)), WellLinked(f, info),
         NEW c \in Nat, NEW i \in DOMAIN info.segs, Brings(info, i, c)
  PROVE  Hit(FiledAt(info, fixups, raw), Len(fixups), OffsetOf(info, i, c)) = Hits(info, fixups, c)
<1>1. InfoTyped(info, raw) /\ SegmentsApart(info, raw)
  BY InfosTyped DEF WellLinked
<1>2. PICK p : p = OffsetOf(info, i, c)
  OBVIOUS
<1>3. PICK low, off, size : low = info.segs[i].vm - info.base /\ off = info.segs[i].fileoff /\ size = info.segs[i].filesize
  OBVIOUS
<1>4. low \in Int /\ off \in Nat /\ size \in Nat
  BY <1>1, <1>3 DEF InfoTyped
<1>5. p = off + c - low /\ c - low \in 0..size - 1 /\ p \in InSlice(info, i) /\ c \in InMemory(info, i) /\ p \in 0..Len(raw) - 1
  BY <1>1, <1>2, <1>3, BroughtFrom DEF OffsetOf
<1>6. ASSUME NEW k \in DOMAIN fixups
      PROVE  FiledAt(info, fixups, raw)[k] = p <=> Spot(info, fixups[k]) = c
  <2>1. PICK x, g : x = fixups[k] /\ g = x.seg
    OBVIOUS
  <2>2. PICK s : s = info.segs[g]
    OBVIOUS
  <2>3. x.at \in Nat /\ PlacedIn(info, x)
    BY <1>1, <2>1, FixupTyped, InfosPlaced
  <2>4. SegmentOf(info, x) = s /\ g \in DOMAIN info.segs
    BY <1>1, <2>1, <2>2, <2>3, SegmentIsOwn DEF PlacedIn
  <2>5. s.vm \in Nat /\ s.vmsize \in Nat /\ s.fileoff \in Nat /\ s.filesize \in Nat /\ s.filesize <= s.vmsize /\ info.base \in Nat
    BY <1>1, <2>2, <2>4 DEF InfoTyped, SegmentsApart
  <2>6. /\ x.at + 1 <= s.vmsize
        /\ FiledAt(info, fixups, raw)[k] = IF x.at + 1 > s.filesize THEN -2 ELSE s.fileoff + x.at
    BY <2>1, <2>4, FiledOne
  <2>7. Spot(info, x) = s.vm - info.base + x.at
    BY <2>4 DEF Spot
  <2>8. ASSUME FiledAt(info, fixups, raw)[k] = p
        PROVE  Spot(info, x) = c
    <3>1. p = s.fileoff + x.at /\ x.at + 1 <= s.filesize
      BY <1>5, <2>3, <2>5, <2>6, <2>8
    <3>2. p \in InSlice(info, g)
      BY <2>2, <2>3, <2>5, <3>1 DEF InSlice
    <3>3. g = i
      BY <1>1, <1>5, <2>4, <3>2 DEF SegmentsApart
    <3>4. s.fileoff = off /\ s.vm - info.base = low
      BY <1>3, <2>2, <3>3
    <3> QED  BY <1>4, <1>5, <2>3, <2>7, <3>1, <3>4
  <2>9. ASSUME Spot(info, x) = c
        PROVE  FiledAt(info, fixups, raw)[k] = p
    <3>1. c \in InMemory(info, g)
      <4>1. PICK l : l = s.vm - info.base
        OBVIOUS
      <4>2. l \in Int /\ c = l + x.at /\ x.at + 1 <= s.vmsize
        BY <2>5, <2>6, <2>7, <2>9, <4>1
      <4>3. c \in l..l + s.vmsize - 1
        BY <2>3, <2>5, <4>2
      <4> QED  BY <2>2, <4>1, <4>3 DEF InMemory
    <3>2. g = i
      BY <1>1, <1>5, <2>4, <3>1 DEF SegmentsApart
    <3>3. s.fileoff = off /\ s.vm - info.base = low /\ s.filesize = size
      BY <1>3, <2>2, <3>2
    <3>4. x.at = c - low
      BY <1>4, <2>3, <2>7, <2>9, <3>3
    <3> QED  BY <1>4, <1>5, <2>3, <2>6, <3>3, <3>4
  <2> QED  BY <2>1, <2>8, <2>9
<1>7. DOMAIN fixups = 1..Len(fixups)
  BY <1>1, FixupTyped
<1> QED  BY <1>2, <1>6, <1>7 DEF Hit, Hits

LEMMA FiledLate ==
  ASSUME NEW f, NEW info, IsInfo(f, info), NEW raw, raw = SliceOf(f).raw, NEW fixups \in {info.rebases, info.binds},
         ~Stopped(FiledAt(info, fixups, raw)), WellLinked(f, info),
         NEW c \in Nat, \A i \in DOMAIN info.segs : ~Brings(info, i, c), NEW k \in Hits(info, fixups, c)
  PROVE  k \in 1..Len(fixups) /\ FiledAt(info, fixups, raw)[k] = -2
<1>1. InfoTyped(info, raw) /\ SegmentsApart(info, raw)
  BY InfosTyped DEF WellLinked
<1>2. PICK x, g : x = fixups[k] /\ g = x.seg
  OBVIOUS
<1>3. PICK s : s = info.segs[g]
  OBVIOUS
<1>4. k \in DOMAIN fixups /\ DOMAIN fixups = 1..Len(fixups) /\ x.at \in Nat /\ PlacedIn(info, x)
  BY <1>1, <1>2, FixupTyped, InfosPlaced DEF Hits
<1>5. SegmentOf(info, x) = s /\ g \in DOMAIN info.segs
  BY <1>1, <1>2, <1>3, <1>4, SegmentIsOwn DEF PlacedIn
<1>6. s.vm \in Nat /\ s.filesize \in Nat /\ info.base \in Nat
  BY <1>1, <1>3, <1>5 DEF InfoTyped
<1>7. s.name # "__PAGEZERO"
  BY <1>2, <1>3, <1>4 DEF WellLinked, OutOfZero
<1>8. c = s.vm - info.base + x.at
  BY <1>2, <1>5 DEF Hits, Spot
<1>9. x.at + 1 > s.filesize
  <2> SUFFICES ASSUME x.at + 1 <= s.filesize PROVE FALSE
    BY <1>4, <1>6
  <2>1. PICK l \in Int : l = s.vm - info.base
    BY <1>6
  <2>2. c \in l..l + s.filesize - 1 /\ s.filesize # 0
    <3>1. PICK n \in Nat, a \in Nat : n = s.filesize /\ a = x.at
      BY <1>4, <1>6
    <3>2. c = l + a /\ a + 1 <= n
      BY <1>8, <2>1, <3>1
    <3>3. c \in l..l + n - 1 /\ n # 0
      BY ONLY <3>1, <3>2, <2>1, n \in Nat, a \in Nat, l \in Int
    <3> QED  BY <3>1, <3>3
  <2>3. Brings(info, g, c)
    BY <1>3, <1>7, <2>1, <2>2 DEF Brings
  <2> QED  BY <1>5, <2>3
<1>10. FiledAt(info, fixups, raw)[k] = -2
  BY <1>2, <1>4, <1>5, <1>9, FiledOne
<1> QED  BY <1>4, <1>10

-----------------------------------------------------------------------------
(***************************************************************************)
(* The value that the passes leave in a cell, from the one it had; and     *)
(* what an image is to hold, with the shims and exports of a table.        *)
(***************************************************************************)
Rebased(info, base, c, old, v) ==
  /\ Hits(info, info.rebases, c) = {} => v = old
  /\ \A k \in DOMAIN info.rebases : Hits(info, info.rebases, c) = {k} => v = base - info.base + old
Settled(info, base, table, labels, c, old, v) ==
  /\ Hits(info, info.binds, c) = {} => Rebased(info, base, c, old, v)
  /\ Hits(info, info.binds, c) # {} =>
       \E k \in Hits(info, info.binds, c) : BoundOk(table, info.binds[k], v, labels)
CellIs(base, from, table, labels, unseen, e, v) ==
  /\ e.k \in {"file", "moved", "import", "timing", "free"}
  /\ e.k = "file" => v = e.v
  /\ e.k = "moved" => v = e.v + base - from
  /\ e.k = "import" => BoundOk(table, [name |-> e.name, addend |-> e.v], v, labels)
  /\ e.k = "timing" => v = Still \/ (v = Idiom /\ unseen)
CellEnds(f, info, d, base, table, labels, c, v) ==
  \/ IF c \in DOMAIN SliceOf(f).linked
     THEN CellIs(base, info.base, table, labels, Unseen(f, info, d, c), SliceOf(f).linked[c], v) ELSE v = 0
  \/ v = Still /\ Stray(f, info, d, c)

\* What the scan, or the table of a digest, makes of a cell.
Hushed(f, info, d, c, u, v) ==
  /\ v = u \/ (u = Idiom /\ v = Still /\ (c \in TextIn(info) \/ Stray(f, info, d, c)))
  /\ c \in TextIn(info) /\ u = Idiom /\ OwnSite(f, info, c) /\ ~Unseen(f, info, d, c) => v = Still

LEMMA PlainSettles ==
  ASSUME NEW info, NEW base, NEW table, NEW labels, NEW c, NEW old, NEW u,
         Settled(info, base, table, labels, c, old, u), Untouched(info, c)
  PROVE  u = old
BY DEF Settled, Untouched, Rebased

LEMMA EndsWell ==
  ASSUME NEW f, NEW info, IsInfo(f, info), WellLinked(f, info), NEW base \in Int, NEW table, NEW labels,
         NEW c \in 0..SpanOf(info) - 1, NEW raw, raw = SliceOf(f).raw,
         NEW old \in {ReadCell(info, raw, c, 0), FileCell(info, RawCells(raw), c, 0)},
         NEW u, Settled(info, base, table, labels, c, old, u), NEW d, NEW v, Hushed(f, info, d, c, u, v),
         ~(v = Still /\ Stray(f, info, d, c))
  PROVE  CellEnds(f, info, d, base, table, labels, c, v)
<1>1. LinkedCell(f, info, c)
  BY DEF WellLinked
<1>2. ASSUME NEW w, LinkedFrom(info, raw, c, w)
      PROVE  old = w
  BY <1>2 DEF LinkedFrom
<1>3. ASSUME NEW w, Plain(info, raw, c, w)
      PROVE  u = w
  BY <1>2, <1>3, PlainSettles DEF Plain
<1>4. CASE c \notin DOMAIN SliceOf(f).linked
  <2>1. Plain(info, raw, c, 0) /\ c \notin TextIn(info)
    BY <1>1, <1>4 DEF LinkedCell
  <2> QED  BY <1>3, <1>4, <2>1 DEF CellEnds, Hushed
<1>5. CASE c \in DOMAIN SliceOf(f).linked
  <2>1. PICK e : e = SliceOf(f).linked[c]
    OBVIOUS
  <2>2. SUFFICES CellIs(base, info.base, table, labels, Unseen(f, info, d, c), e, v)
    BY <1>5, <2>1 DEF CellEnds
  <2>3. CASE e.k = "file" /\ Plain(info, raw, c, e.v) /\ (c \in TextIn(info) => e.v # Idiom)
    BY <1>3, <2>3 DEF CellIs, Hushed
  <2>4. CASE e.k = "moved" /\ Moves(info, raw, c, e.v) /\ c \notin TextIn(info)
    <3>1. v = base - info.base + e.v
      BY <1>2, <2>4 DEF Moves, Settled, Rebased, Hushed
    <3>2. info.base \in Nat /\ e.v \in Int
      BY <2>4, InfosTyped DEF Moves, InfoTyped
    <3> QED  BY <2>4, <3>1, <3>2 DEF CellIs
  <2>5. CASE e.k = "import" /\ Imports(info, c, e.name, e.v) /\ c \notin TextIn(info)
    <3>1. PICK k \in Hits(info, info.binds, c) : BoundOk(table, info.binds[k], u, labels)
      BY <2>5 DEF Imports, Settled
    <3>2. info.binds[k].name = e.name /\ info.binds[k].addend = e.v /\ v = u
      BY <2>5, <3>1 DEF Imports, Hushed
    <3>3. BoundOk(table, [name |-> e.name, addend |-> e.v], v, labels)
      BY <3>1, <3>2 DEF BoundOk
    <3> QED  BY <2>5, <3>3 DEF CellIs
  <2>6. CASE e.k = "timing" /\ Plain(info, raw, c, Idiom) /\ c \in TextIn(info) /\ OwnSite(f, info, c)
    BY <1>3, <2>6 DEF CellIs, Hushed
  <2>7. CASE e.k = "free"
    BY <2>7 DEF CellIs
  <2> QED  BY <1>1, <1>5, <2>1, <2>3, <2>4, <2>5, <2>6, <2>7 DEF LinkedCell
<1> QED  BY <1>4, <1>5

LEMMA TextInside ==
  ASSUME NEW info, NEW raw, InfoTyped(info, raw)
  PROVE  TextIn(info) \subseteq 0..SpanOf(info) - 1
<1>1. CASE info.text = <<>>
  BY <1>1 DEF TextIn, TextCells
<1>2. CASE info.text # <<>>
  <2>1. PICK a \in Nat, n \in Nat : a = info.text[1] /\ n = info.text[2]
    BY <1>2 DEF InfoTyped
  <2>2. TextIn(info) = IF a + n > SpanOf(info) THEN {} ELSE a..a + n - 1
    BY <1>2, <2>1 DEF TextIn, TextCells
  <2>3. SpanOf(info) \in Nat
    BY DEF InfoTyped
  <2> QED  BY <2>2, <2>3
<1> QED  BY <1>1, <1>2

\* The table is followed to its end, or to the first entry that is not on an idiom.
LEMMA FittingIs ==
  ASSUME NEW table, table \in Seq(Nat), NEW cells
  PROVE  /\ Fitting(table, cells) \in 0..Len(table)
         /\ \A k \in 1..Fitting(table, cells) : OnIdiom(cells, table[k])
<1>1. Len(table) \in Nat
  BY LenProperties
<1>2. PICK H : H = {k \in 1..Len(table) : ~OnIdiom(cells, table[k])}
  OBVIOUS
<1>3. \E n \in 0..Len(table) : /\ \A k \in 1..n : OnIdiom(cells, table[k])
                               /\ n = Len(table) \/ ~OnIdiom(cells, table[n + 1])
  <2>1. CASE H = {}
    <3>1. \A k \in 1..Len(table) : OnIdiom(cells, table[k])
      BY <1>2, <2>1
    <3> QED  BY <1>1, <3>1
  <2>2. CASE H # {}
    <3>1. H \in SUBSET (1..Len(table))
      BY <1>2
    <3>2. PICK i \in H : \A j \in H : i <= j
      BY <1>1, <2>2, <3>1, Extremes
    <3>3. PICK n \in 0..Len(table) : n + 1 = i
      <4>1. i \in Nat /\ i - 1 \in 0..Len(table) /\ (i - 1) + 1 = i
        BY <1>1, <1>2, <3>2
      <4> QED  BY <4>1
    <3>4. \A k \in 1..n : OnIdiom(cells, table[k])
      <4> SUFFICES ASSUME NEW k \in 1..n, ~OnIdiom(cells, table[k]) PROVE FALSE
        OBVIOUS
      <4>1. k \in H
        BY <1>1, <1>2
      <4> QED  BY <3>2, <3>3, <4>1
    <3>5. ~OnIdiom(cells, table[n + 1])
      BY <1>2, <3>2, <3>3
    <3> QED  BY <3>4, <3>5
  <2> QED  BY <2>1, <2>2
<1>4. PICK n : n = Fitting(table, cells)
  OBVIOUS
<1>5. n \in 0..Len(table) /\ \A k \in 1..n : OnIdiom(cells, table[k])
  BY <1>3, <1>4 DEF Fitting
<1> QED  BY <1>4, <1>5

\* No fixup goes to the code.
LEMMA TextUntouched ==
  ASSUME NEW f, NEW info, WellLinked(f, info), NEW o \in 0..SpanOf(info) - 1, o \in TextIn(info)
  PROVE  Untouched(info, o)
BY DEF WellLinked, LinkedCell, Plain

LEMMA QuietedIs ==
  ASSUME NEW f, NEW info, IsInfo(f, info), WellLinked(f, info), load.info = info, load.file = f,
         NEW base, NEW labels, NEW cells, DOMAIN cells = 0..SpanOf(info) - 1,
         \A c \in 0..SpanOf(info) - 1 :
           Settled(info, base, load.table, labels, c, ReadCell(info, SliceOf(f).raw, c, 0), cells[c]),
         NEW c \in 0..SpanOf(info) - 1
  PROVE  Hushed(f, info, DigestOf(f, load.claim), c, cells[c], Quieted(cells)[c])
<1>1. PICK u, d, v : u = cells[c] /\ d = DigestOf(f, load.claim) /\ v = Quieted(cells)[c]
  OBVIOUS
<1>2. InfoTyped(info, SliceOf(f).raw) /\ TextIn(info) \subseteq 0..SpanOf(info) - 1
  BY InfosTyped, TextInside
<1>3. PICK patched : patched = IF d \in DOMAIN SiteTable THEN ByTable(SiteTable[d], cells) ELSE cells
  OBVIOUS
<1>4. v = (IF TextIn(info) = {} THEN cells
           ELSE IF d \in DOMAIN SiteTable /\ Fitting(SiteTable[d], cells) = Len(SiteTable[d]) THEN patched
           ELSE Scanned(info, patched, SpanOf(info)))[c]
  BY <1>1, <1>3 DEF Quieted, TextIn, Info
<1>5. CASE TextIn(info) = {}
  BY <1>1, <1>4, <1>5 DEF Hushed
<1>6. ASSUME d \in DOMAIN SiteTable, TextIn(info) # {}
      PROVE  /\ DOMAIN patched = DOMAIN cells
             /\ patched[c] # u => u = Idiom /\ patched[c] = Still /\ (c \in TextIn(info) \/ Stray(f, info, d, c))
             /\ /\ Fitting(SiteTable[d], cells) = Len(SiteTable[d]) /\ u = Idiom /\ OwnSite(f, info, c)
                /\ ~Unseen(f, info, d, c)
                => patched[c] = Still
  <2>1. PICK table : table = SiteTable[d]
    OBVIOUS
  <2>2. table \in Seq(Nat) /\ DOMAIN table = 1..Len(table) /\ Len(table) \in Nat
    BY <1>6, <2>1, LinkAssumption, LenProperties
  <2>3. PICK n : n = Fitting(table, cells)
    OBVIOUS
  <2>4. n \in 0..Len(table) /\ \A k \in 1..n : OnIdiom(cells, table[k])
    BY <2>2, <2>3, FittingIs
  <2>5. patched = [x \in DOMAIN cells |-> IF \E k \in 1..n : x = info.text[1] + table[k] THEN Still ELSE cells[x]]
    BY <1>3, <1>6, <2>1, <2>3 DEF ByTable, Info
  <2>6. \A k \in 1..n : /\ cells[info.text[1] + table[k]] = Idiom /\ info.text[1] + table[k] \in Sites(info, d)
                        /\ info.text[1] + table[k] \in 0..SpanOf(info) - 1
    <3> TAKE k \in 1..n
    <3>1. cells[info.text[1] + table[k]] = Idiom /\ info.text[1] + table[k] \in DOMAIN cells
      BY <2>4 DEF OnIdiom, Info
    <3>2. k \in DOMAIN table
      BY <2>2, <2>4
    <3> QED  BY <2>1, <3>1, <3>2 DEF Sites
  <2>7. ASSUME patched[c] # u
        PROVE  u = Idiom /\ patched[c] = Still /\ (c \in TextIn(info) \/ Stray(f, info, d, c))
    <3>1. u = Idiom /\ patched[c] = Still /\ c \in Sites(info, d)
      BY <1>1, <2>5, <2>6, <2>7
    <3>2. CASE d = Digest[f]
      BY <1>6, <3>1, <3>2 DEF WellLinked
    <3>3. CASE d # Digest[f]
      BY <1>6, <3>1, <3>3 DEF Stray, Other
    <3> QED  BY <3>1, <3>2, <3>3
  <2>8. ASSUME n = Len(table), u = Idiom, OwnSite(f, info, c), ~Unseen(f, info, d, c)
        PROVE  patched[c] = Still
    <3>1. CASE d = Digest[f]
      <4>1. c \in Sites(info, d)
        BY <1>6, <2>8, <3>1 DEF OwnSite
      <4>2. PICK k \in 1..Len(table) : c = info.text[1] + table[k]
        BY <2>1, <2>2, <4>1 DEF Sites
      <4> QED  BY <2>5, <2>8, <4>2
    <3>2. CASE d # Digest[f]
      <4>1. PICK o \in Sites(info, d) \cap TextIn(info) : ReadCell(info, SliceOf(f).raw, o, 0) # Idiom
        BY <1>6, <2>8, <3>2 DEF Unseen, TakenIn, Other
      <4>2. PICK k \in 1..Len(table) : o = info.text[1] + table[k]
        BY <2>1, <2>2, <4>1 DEF Sites
      <4>3. cells[o] = Idiom /\ o \in 0..SpanOf(info) - 1
        BY <2>6, <2>8, <4>2
      <4>4. cells[o] = ReadCell(info, SliceOf(f).raw, o, 0)
        BY <4>1, <4>3, TextUntouched, PlainSettles
      <4> QED  BY <4>1, <4>3, <4>4
    <3> QED  BY <3>1, <3>2
  <2> QED  BY <2>1, <2>3, <2>5, <2>7, <2>8
<1>7. ASSUME TextIn(info) # {}
      PROVE  /\ DOMAIN patched = DOMAIN cells
             /\ patched[c] # u => u = Idiom /\ patched[c] = Still /\ (c \in TextIn(info) \/ Stray(f, info, d, c))
  BY <1>1, <1>3, <1>6, <1>7
<1>8. CASE TextIn(info) # {} /\ d \in DOMAIN SiteTable /\ Fitting(SiteTable[d], cells) = Len(SiteTable[d])
  <2>1. v = patched[c]
    BY <1>4, <1>8
  <2> QED  BY <1>1, <1>6, <1>8, <2>1 DEF Hushed
<1>9. CASE TextIn(info) # {} /\ ~(d \in DOMAIN SiteTable /\ Fitting(SiteTable[d], cells) = Len(SiteTable[d]))
  <2>1. v = Scanned(info, patched, SpanOf(info))[c]
    BY <1>4, <1>9
  <2>2. v = IF c \in ScannedCells(info, SpanOf(info)) /\ patched[c] = Idiom THEN Still ELSE patched[c]
    BY <1>7, <1>9, <2>1 DEF Scanned
  <2>3. c \in ScannedCells(info, SpanOf(info)) => c \in TextIn(info)
    BY DEF ScannedCells, TextIn
  <2>4. ~Unseen(f, info, d, c) => c \in ScannedCells(info, SpanOf(info))
    BY DEF Unseen
  <2>5. v = u \/ (u = Idiom /\ v = Still /\ (c \in TextIn(info) \/ Stray(f, info, d, c)))
    BY <1>7, <1>9, <2>2, <2>3
  <2>6. c \in ScannedCells(info, SpanOf(info)) /\ u = Idiom => v = Still
    BY <1>7, <1>9, <2>2
  <2> QED  BY <1>1, <2>4, <2>5, <2>6 DEF Hushed
<1> QED  BY <1>5, <1>8, <1>9

\* The names in the streams of the files.
FixupNames(info) ==
  {info.rebases[k].name : k \in DOMAIN info.rebases} \cup {info.binds[k].name : k \in DOMAIN info.binds}
Names == UNION {FixupNames(info) : info \in UNION {InfosOf(f) : f \in Parsable}}

LEMMA NamesOfFixups ==
  ASSUME NEW f, NEW info, IsInfo(f, info), NEW fixups \in {info.rebases, info.binds}, NEW k \in DOMAIN fixups
  PROVE  fixups[k].name \in Names
<1>1. fixups[k].name \in FixupNames(info)
  BY DEF FixupNames
<1>2. InfosOf(f) \in {InfosOf(g) : g \in Parsable} /\ info \in InfosOf(f)
  BY DEF IsInfo
<1>3. info \in UNION {InfosOf(g) : g \in Parsable}
  BY <1>2
<1> QED  BY <1>1, <1>3 DEF Names

LEMMA RebasedFrom ==
  ASSUME NEW f, NEW info, IsInfo(f, info), load.info = info, NEW at, NEW p, NEW c, NEW labels, NEW old, NEW v,
         Hit(at, Len(info.rebases), p) = Hits(info, info.rebases, c),
         CellOk(info.rebases, at, old, FALSE, Len(info.rebases), labels, p, v)
  PROVE  Rebased(info, load.base, c, old, v)
BY DEF CellOk, Rebased, Slide, Info

LEMMA SettledFrom ==
  ASSUME NEW f, NEW info, IsInfo(f, info), load.info = info, NEW at, NEW p, NEW c, NEW labels, NEW old, NEW r, NEW v,
         Hit(at, Len(info.binds), p) = Hits(info, info.binds, c), Rebased(info, load.base, c, old, r),
         CellOk(info.binds, at, r, TRUE, Len(info.binds), labels, p, v)
  PROVE  Settled(info, load.base, load.table, labels, c, old, v)
BY DEF CellOk, Settled

\* What is kept for later, as it is put into the mapping.
LandsOn(info, e, c) ==
  \E i \in DOMAIN info.segs : info.segs[i].name = e.name /\ info.segs[i].vm - info.base + e.at = c
LateHits(info, list, c) == {k \in DOMAIN list : LandsOn(info, list[k], c)}
LateCell(info, list, c, old) ==
  IF LateHits(info, list, c) = {} THEN old
  ELSE list[CHOOSE k \in LateHits(info, list, c) : \A j \in LateHits(info, list, c) : j <= k].value

LEMMA StagedIntoIs ==
  ASSUME NEW cells, NEW c \in DOMAIN cells
  PROVE  DOMAIN StagedInto(cells) = DOMAIN cells /\ StagedInto(cells)[c] = LateCell(load.info, staged, c, cells[c])
BY DEF StagedInto, LateCell, LateHits, LandsOn, Info

LateCellOk(H, list, old, v) ==
  \/ H = {} /\ v = old
  \/ \E h \in H : (\A j \in H : j <= h) /\ v = list[h].value
LEMMA LateCellIs ==
  ASSUME NEW info, NEW T, NEW list \in Seq(T), NEW c, NEW old
  PROVE  LateCellOk(LateHits(info, list, c), list, old, LateCell(info, list, c, old))
<1>1. PICK H : H = LateHits(info, list, c)
  OBVIOUS
<1>2. CASE H = {}
  BY <1>1, <1>2 DEF LateCell, LateCellOk
<1>3. CASE H # {}
  <2>1. H \in SUBSET (1..Len(list)) /\ Len(list) \in Nat
    BY <1>1, LenProperties DEF LateHits
  <2>2. \E i \in H : \A j \in H : j <= i
    BY <1>3, <2>1, Extremes
  <2>3. PICK h : h = CHOOSE k \in H : \A j \in H : j <= k
    OBVIOUS
  <2>4. h \in H /\ \A j \in H : j <= h
    BY <2>2, <2>3
  <2>5. LateCell(info, list, c, old) = list[h].value
    BY <1>1, <1>3, <2>3 DEF LateCell
  <2> QED  BY <1>1, <2>4, <2>5 DEF LateCellOk
<1> QED  BY <1>2, <1>3

\* In a file that is linked well, what is kept of a fixup is for its own cell.
LEMMA LateSpot ==
  ASSUME NEW f, NEW info, IsInfo(f, info), WellLinked(f, info), load.info = info,
         NEW fixups \in {info.rebases, info.binds}, NEW k \in DOMAIN fixups, NEW e, LateFor(fixups[k], e), NEW c
  PROVE  LandsOn(info, e, c) <=> Spot(info, fixups[k]) = c
<1>1. InfoTyped(info, SliceOf(f).raw) /\ SegmentsApart(info, SliceOf(f).raw)
  BY InfosTyped DEF WellLinked
<1>2. PICK x : x = fixups[k]
  OBVIOUS
<1>3. PlacedIn(info, x)
  BY <1>2, InfosPlaced
<1>4. SegmentOf(info, x) = info.segs[x.seg] /\ x.seg \in DOMAIN info.segs
  BY <1>1, <1>3, SegmentIsOwn DEF PlacedIn
<1>5. e.name = info.segs[x.seg].name /\ e.at = x.at
  BY <1>2 DEF LateFor, SegmentName, Info
<1>6. \A i \in DOMAIN info.segs : info.segs[i].name = e.name => i = x.seg
  BY <1>1, <1>4, <1>5 DEF SegmentsApart
<1> QED  BY <1>2, <1>4, <1>5, <1>6 DEF Spot, LandsOn

\* Of a list that holds what a pass over the rebases kept, and then what one over the binds did.
LEMMA LateSettles ==
  ASSUME NEW f, NEW info, IsInfo(f, info), WellLinked(f, info), load.info = info, NEW raw, raw = SliceOf(f).raw,
         ~Stopped(FiledAt(info, info.rebases, raw)), ~Stopped(FiledAt(info, info.binds, raw)),
         NEW r, StagedOk(info.rebases, FiledAt(info, info.rebases, raw), FALSE, Len(info.rebases), r),
         NEW b, StagedOk(info.binds, FiledAt(info, info.binds, raw), TRUE, Len(info.binds), b),
         NEW list, list = r.staged \o b.staged,
         NEW c \in Nat, \A i \in DOMAIN info.segs : ~Brings(info, i, c)
  PROVE  /\ Settled(info, load.base, load.table, b.labels, c, 0, LateCell(info, list, c, 0))
         /\ ~Untouched(info, c) => LateHits(info, list, c) # {}
<1>1. PICK R, B : r.staged \in Seq(R) /\ b.staged \in Seq(B)
  BY DEF StagedOk
<1>2. PICK m \in Nat, n \in Nat : m = Len(r.staged) /\ n = Len(b.staged)
  BY <1>1, LenProperties
<1>3. /\ list \in Seq(R \cup B) /\ Len(list) = m + n
      /\ \A k \in 1..m : list[k] = r.staged[k]
      /\ \A k \in 1..n : list[m + k] = b.staged[k]
  <2>1. r.staged \in Seq(R \cup B) /\ b.staged \in Seq(R \cup B)
    BY <1>1
  <2>2. list \in Seq(R \cup B) /\ Len(list) = m + n
    BY <1>2, <2>1, ConcatProperties
  <2>3. \A k \in 1..m + n : list[k] = IF k <= m THEN r.staged[k] ELSE b.staged[k - m]
    BY <1>2, <2>1, ConcatProperties
  <2>4. \A k \in 1..m : list[k] = r.staged[k]
    <3> TAKE k \in 1..m
    <3>1. k \in 1..m + n /\ k <= m
      OBVIOUS
    <3> QED  BY <2>3, <3>1
  <2>5. \A k \in 1..n : list[m + k] = b.staged[k]
    <3> TAKE k \in 1..n
    <3>1. PICK j : j = m + k
      OBVIOUS
    <3>2. j \in 1..m + n /\ ~(j <= m) /\ j - m = k
      BY <3>1
    <3> QED  BY <2>3, <3>1, <3>2
  <2> QED  BY <2>2, <2>4, <2>5
<1>4. PICK H : H = LateHits(info, list, c)
  OBVIOUS
<1>5. DOMAIN list = 1..m + n /\ H \subseteq 1..m + n
  <2>1. DOMAIN list = 1..m + n
    BY <1>3, LenProperties
  <2>2. H \subseteq DOMAIN list
    BY <1>4 DEF LateHits
  <2> QED  BY <2>1, <2>2
<1>6. DOMAIN info.rebases = 1..Len(info.rebases) /\ DOMAIN info.binds = 1..Len(info.binds)
  BY InfosTyped, FixupTyped
\* An entry of the rebases that goes to the cell, and one of the binds.
<1>7. ASSUME NEW j \in 1..m, j \in H
      PROVE  \E k \in Hits(info, info.rebases, c) : list[j].value = Slide + 0
  <2>1. PICK k \in 1..Len(info.rebases) : LateFor(info.rebases[k], list[j]) /\ list[j].value = Slide + 0
    BY <1>2, <1>3 DEF StagedOk, LateOk
  <2>2. k \in DOMAIN info.rebases
    BY <1>6
  <2>3. LandsOn(info, list[j], c)
    BY <1>4, <1>7 DEF LateHits
  <2>4. Spot(info, info.rebases[k]) = c
    <3>1. PICK e, fixups : e = list[j] /\ fixups = info.rebases
      OBVIOUS
    <3>2. Spot(info, fixups[k]) = c
      BY <2>1, <2>2, <2>3, <3>1, LateSpot
    <3> QED  BY <3>1, <3>2
  <2> QED  BY <2>1, <2>2, <2>4 DEF Hits
<1>8. ASSUME NEW j \in 1..n, m + j \in H
      PROVE  \E k \in Hits(info, info.binds, c) : BoundOk(load.table, info.binds[k], list[m + j].value, b.labels)
  <2>1. PICK k \in 1..Len(info.binds) : /\ LateFor(info.binds[k], list[m + j])
                                        /\ BoundOk(load.table, info.binds[k], list[m + j].value, b.labels)
    BY <1>2, <1>3 DEF StagedOk, LateOk
  <2>2. k \in DOMAIN info.binds
    BY <1>6
  <2>3. LandsOn(info, list[m + j], c)
    BY <1>4, <1>8 DEF LateHits
  <2>4. Spot(info, info.binds[k]) = c
    <3>1. PICK e, fixups : e = list[m + j] /\ fixups = info.binds
      OBVIOUS
    <3>2. Spot(info, fixups[k]) = c
      BY <2>1, <2>2, <2>3, <3>1, LateSpot
    <3> QED  BY <3>1, <3>2
  <2> QED  BY <2>1, <2>2, <2>4 DEF Hits
\* A fixup of the cell has an entry.
<1>9. ASSUME NEW k \in Hits(info, info.rebases, c)
      PROVE  \E j \in 1..m : j \in H
  <2>1. k \in 1..Len(info.rebases) /\ FiledAt(info, info.rebases, raw)[k] = -2
    BY FiledLate
  <2>2. PICK j \in 1..m : LateFor(info.rebases[k], list[j])
    BY <1>2, <1>3, <2>1 DEF StagedOk
  <2>3. k \in DOMAIN info.rebases /\ Spot(info, info.rebases[k]) = c
    BY DEF Hits
  <2>4. LandsOn(info, list[j], c)
    <3>1. PICK e, fixups : e = list[j] /\ fixups = info.rebases
      OBVIOUS
    <3>2. fixups \in {info.rebases, info.binds} /\ k \in DOMAIN fixups /\ LateFor(fixups[k], e)
          /\ Spot(info, fixups[k]) = c
      BY <2>2, <2>3, <3>1
    <3>3. LandsOn(info, e, c) <=> Spot(info, fixups[k]) = c
      BY <3>2, LateSpot
    <3> QED  BY <3>1, <3>2, <3>3
  <2>5. j \in DOMAIN list
    BY <1>5
  <2> QED  BY <1>4, <2>4, <2>5 DEF LateHits
<1>10. ASSUME NEW k \in Hits(info, info.binds, c)
       PROVE  \E j \in 1..n : m + j \in H
  <2>1. k \in 1..Len(info.binds) /\ FiledAt(info, info.binds, raw)[k] = -2
    BY FiledLate
  <2>2. PICK j \in 1..n : LateFor(info.binds[k], list[m + j])
    BY <1>2, <1>3, <2>1 DEF StagedOk
  <2>3. k \in DOMAIN info.binds /\ Spot(info, info.binds[k]) = c
    BY DEF Hits
  <2>4. LandsOn(info, list[m + j], c)
    <3>1. PICK e, fixups : e = list[m + j] /\ fixups = info.binds
      OBVIOUS
    <3>2. fixups \in {info.rebases, info.binds} /\ k \in DOMAIN fixups /\ LateFor(fixups[k], e)
          /\ Spot(info, fixups[k]) = c
      BY <2>2, <2>3, <3>1
    <3>3. LandsOn(info, e, c) <=> Spot(info, fixups[k]) = c
      BY <3>2, LateSpot
    <3> QED  BY <3>1, <3>2, <3>3
  <2>5. m + j \in DOMAIN list
    BY <1>5
  <2> QED  BY <1>4, <2>4, <2>5 DEF LateHits
<1>11. PICK v : v = LateCell(info, list, c, 0)
  OBVIOUS
<1>12. \/ H = {} /\ v = 0
       \/ \E h \in H : (\A j \in H : j <= h) /\ v = list[h].value
  <2>1. PICK T : list \in Seq(T)
    BY <1>3
  <2>2. LateCellOk(H, list, 0, v)
    BY <1>4, <1>11, <2>1, LateCellIs
  <2> QED  BY <2>2 DEF LateCellOk
<1>13. ASSUME Hits(info, info.binds, c) = {}
       PROVE  Settled(info, load.base, load.table, b.labels, c, 0, v)
  <2>1. \A j \in H : j \in 1..m
    <3> TAKE j \in H
    <3>1. j \in 1..m \/ \E i \in 1..n : j = m + i
      <4>1. j \in 1..m + n
        BY <1>5
      <4>2. CASE j > m
        <5>1. j - m \in 1..n /\ j = m + (j - m)
          BY <4>1, <4>2
        <5> QED  BY <5>1
      <4> QED  BY <4>1, <4>2
    <3> QED  BY <1>8, <1>13, <3>1
  <2>2. Hits(info, info.rebases, c) = {} => H = {}
    BY <1>7, <2>1
  <2>3. Hits(info, info.rebases, c) # {} => v = load.base - info.base + 0
    <3>1. Hits(info, info.rebases, c) # {} => H # {}
      BY <1>9
    <3>2. Slide = load.base - info.base
      BY DEF Slide, Info
    <3> QED  BY <1>7, <1>12, <2>1, <3>1, <3>2
  <2>4. Rebased(info, load.base, c, 0, v)
    BY <1>12, <2>2, <2>3 DEF Rebased
  <2> QED  BY <1>13, <2>4 DEF Settled
<1>14. ASSUME Hits(info, info.binds, c) # {}
       PROVE  Settled(info, load.base, load.table, b.labels, c, 0, v)
  <2>1. PICK j \in 1..n : m + j \in H
    BY <1>10, <1>14
  <2>2. PICK h \in H : (\A i \in H : i <= h) /\ v = list[h].value
    BY <1>12, <2>1
  <2>3. h \in 1..m + n /\ m + j <= h
    BY <1>5, <2>1, <2>2
  <2>4. h - m \in 1..n /\ h = m + (h - m)
    BY <2>3
  <2>5. \E k \in Hits(info, info.binds, c) : BoundOk(load.table, info.binds[k], v, b.labels)
    BY <1>8, <2>2, <2>4
  <2> QED  BY <1>14, <2>5 DEF Settled
<1>15. ~Untouched(info, c) => H # {}
  BY <1>9, <1>10 DEF Untouched
<1> QED  BY <1>4, <1>11, <1>13, <1>14, <1>15

LEMMA Grouped ==
  ASSUME NEW S, NEW s \in Seq(S), NEW t \in Seq(S), NEW u \in Seq(S)
  PROVE  s \o t \o u = s \o (t \o u)
BY SMT

\* What another load left in the list comes before, and is written over.
LEMMA LeftBefore ==
  ASSUME NEW info, NEW S, NEW left \in Seq(S), NEW T, NEW own \in Seq(T), NEW c, LateHits(info, own, c) # {}
  PROVE  LateCell(info, left \o own, c, 0) = LateCell(info, own, c, 0)
<1>1. PICK m \in Nat, n \in Nat : m = Len(left) /\ n = Len(own)
  BY LenProperties
<1>2. PICK list : list = left \o own
  OBVIOUS
<1>3. left \in Seq(S \cup T) /\ own \in Seq(S \cup T)
  OBVIOUS
<1>4. list \in Seq(S \cup T) /\ Len(list) = m + n /\ \A k \in 1..m + n : list[k] = IF k <= m THEN left[k] ELSE own[k - m]
  BY <1>1, <1>2, <1>3, ConcatProperties
<1>5. DOMAIN list = 1..m + n /\ DOMAIN own = 1..n
  BY <1>1, <1>4, LenProperties
<1>6. PICK O, L : O = LateHits(info, own, c) /\ L = LateHits(info, list, c)
  OBVIOUS
<1>7. ASSUME NEW k \in 1..n PROVE m + k \in DOMAIN list /\ list[m + k] = own[k]
  <2>1. PICK j : j = m + k
    OBVIOUS
  <2>2. j \in 1..m + n /\ ~(j <= m) /\ j - m = k
    BY <2>1
  <2> QED  BY <1>4, <1>5, <2>1, <2>2
<1>8. \A k \in O : k \in 1..n /\ m + k \in L
  BY <1>5, <1>6, <1>7 DEF LateHits
<1>9. \A j \in L : j > m => j - m \in O
  <2> TAKE j \in L
  <2> HAVE j > m
  <2>1. j \in 1..m + n
    BY <1>5, <1>6 DEF LateHits
  <2>2. PICK k \in 1..n : k = j - m /\ j = m + k
    <3>1. j - m \in 1..n /\ j = m + (j - m)
      BY <2>1
    <3> QED  BY <3>1
  <2>3. list[j] = own[k]
    BY <1>7, <2>2
  <2> QED  BY <1>5, <1>6, <2>2, <2>3 DEF LateHits
<1>10. PICK v, w : v = LateCell(info, list, c, 0) /\ w = LateCell(info, own, c, 0)
  OBVIOUS
<1>11. LateCellOk(L, list, 0, v)
  BY <1>4, <1>6, <1>10, LateCellIs
<1>12. LateCellOk(O, own, 0, w)
  BY <1>6, <1>10, LateCellIs
<1>13. PICK h \in O : (\A k \in O : k <= h) /\ w = own[h].value
  BY <1>6, <1>12 DEF LateCellOk
<1>14. PICK g \in L : (\A j \in L : j <= g) /\ v = list[g].value
  BY <1>8, <1>11, <1>13 DEF LateCellOk
<1>15. h \in 1..n /\ m + h <= g /\ g \in 1..m + n
  BY <1>5, <1>6, <1>8, <1>13, <1>14 DEF LateHits
<1>16. g - m \in O
  BY <1>9, <1>14, <1>15
<1>17. g - m <= h
  BY <1>13, <1>16
<1>18. g = m + h
  BY <1>15, <1>17
<1>19. list[g] = own[h]
  BY <1>7, <1>15, <1>18
<1> QED  BY <1>2, <1>10, <1>13, <1>14, <1>19

-----------------------------------------------------------------------------
(***************************************************************************)
(* The inductive invariant of the loader: what each step of a load finds.  *)
(***************************************************************************)
\* Every load binds with this table: it depends on the directory alone.
ExportsNow == IF focus = "session" THEN Exported(dir) ELSE <<>>
TableNow == ShimTable(ShimNames, ExportsNow)

ThreadInv == /\ streamSymbol \in StreamSymbols /\ traps \in Seq(Names) /\ DOMAIN content = Bases
             /\ dir \in DOMAIN Dirs
SlotsInv == slots \in {<<>>, ShimNames} /\ (phase \in {"core", "loadCore", "kit"} => slots = ShimNames)

OfFile == load.way = "file" /\ load.step \in {"map", "read", "rebase", "bind", "quiet"}
OfBuffer == load.way = "buffer" /\ load.step \in {"patch", "map", "stage", "copy"}
UnderInv ==
  load.step \in Under =>
    /\ IsInfo(load.file, load.info) /\ load.table = TableNow
    /\ OfFile \/ OfBuffer
    /\ load.step \notin {"map", "patch"} => space[load.base] = "loading"

\* The mapping of a file that is loaded: as it is read, with its pointers moved, with its imports bound.
RawOf(f) == SliceOf(f).raw
Spans(info, cells) == DOMAIN cells = 0..SpanOf(info) - 1
IsRead(f, info, cells) ==
  /\ Spans(info, cells) /\ ~Short(info, RawOf(f))
  /\ \A c \in 0..SpanOf(info) - 1 : cells[c] = ReadCell(info, RawOf(f), c, 0)
IsRebased(f, info, base, cells) ==
  /\ Spans(info, cells) /\ ~Short(info, RawOf(f)) /\ Inside(info, info.rebases)
  /\ \A c \in 0..SpanOf(info) - 1 : Rebased(info, base, c, ReadCell(info, RawOf(f), c, 0), cells[c])
IsSettled(f, info, base, table, labels, cells) ==
  /\ Spans(info, cells) /\ Sound(info, RawOf(f))
  /\ \A c \in 0..SpanOf(info) - 1 : Settled(info, base, table, labels, c, ReadCell(info, RawOf(f), c, 0), cells[c])
IsZero(info, cells) == Spans(info, cells) /\ \A c \in 0..SpanOf(info) - 1 : cells[c] = 0
FileInv ==
  /\ load.step \in {"read", "stage"} => IsZero(load.info, content[load.base])
  /\ load.step = "rebase" => IsRead(load.file, load.info, content[load.base])
  /\ load.step = "bind" => IsRebased(load.file, load.info, load.base, content[load.base])
  /\ load.step = "quiet" => IsSettled(load.file, load.info, load.base, load.table, traps, content[load.base])

\* The copy that was patched, in the cells that it brings; and the other cells, as the list has them, or
\* the mapping that they were put into.
CopyCell(f, info, d, base, table, labels, data, i, c) ==
  \E u \in {Idiom, data[OffsetOf(info, i, c)]} :
    /\ Settled(info, base, table, labels, c, RawCells(RawOf(f))[OffsetOf(info, i, c)], u)
    /\ Hushed(f, info, d, c, u, data[OffsetOf(info, i, c)])
IsPatched(f, info, d, base, table, labels, data) ==
  /\ DOMAIN data = 0..Len(RawOf(f)) - 1
  /\ Inside(info, info.rebases) /\ Inside(info, info.binds)
  /\ WellLinked(f, info) =>
       \A c \in 0..SpanOf(info) - 1 : \A i \in DOMAIN info.segs :
         Brings(info, i, c) => CopyCell(f, info, d, base, table, labels, data, i, c)
IsKept(f, info, mixed, base, table, labels, list) ==
  WellLinked(f, info) =>
    \A c \in 0..SpanOf(info) - 1 :
      ~Brought(info, c) /\ (mixed => Filled(info, c)) =>
        Settled(info, base, table, labels, c, 0, LateCell(info, list, c, 0))
IsPlaced(f, info, mixed, base, table, labels, cells) ==
  /\ Spans(info, cells)
  /\ WellLinked(f, info) =>
       \A c \in 0..SpanOf(info) - 1 :
         ~Brought(info, c) /\ (mixed => Filled(info, c)) => Settled(info, base, table, labels, c, 0, cells[c])
LoadDigest == DigestOf(load.file, load.claim)
BufferInv ==
  load.step \in Under /\ load.way = "buffer" =>
    /\ load.step = "patch" => load.data = RawOf(load.file) /\ (load.mixed \/ staged = <<>>)
    /\ load.step # "patch" =>
         IsPatched(load.file, load.info, LoadDigest, load.base, load.table, traps, load.data)
    /\ load.step \in {"map", "stage"} =>
         IsKept(load.file, load.info, load.mixed, load.base, load.table, traps, staged)
    /\ load.step = "copy" =>
         IsPlaced(load.file, load.info, load.mixed, load.base, load.table, traps, content[load.base])

StagedInv == \E T : staged \in Seq(T)

OwnedEnds(b) ==
  LET image == imageOf[b]
      by == image.by
  IN  \A c \in DOMAIN content[b] :
        \/ CellEnds(image.file, by.info, DigestOf(image.file, by.claim), b, TableNow, traps, c, content[b][c])
        \/ by.mixed /\ ~Filled(by.info, c)
OwnInv == \A b \in Bases : space[b] = "owned" => OwnedEnds(b)

\* In a session.
HeldInv ==
  focus = "session" =>
    /\ staged = <<>> /\ (load.step \in Under => load.way = "file")
    /\ phase \notin {"idle", "over"} => {Dirs[dir].core, Dirs[dir].kit} \subseteq MachFiles
    /\ \A b \in Bases : space[b] = "owned" => b \in ImagesIn(phase) /\ IsImage(CorefpBase, Dirs[dir].core)

LinkInv == ThreadInv /\ UnderInv /\ FileInv /\ BufferInv /\ StagedInv /\ OwnInv

-----------------------------------------------------------------------------
\* Whichever shims have a slot, all of them have their own once the table is made.
FirstShims(n) == [k \in 1..n |-> ShimNames[k]]
GivenAt(sl, n) == IF sl = <<>> THEN FirstShims(n) ELSE ShimNames
GivenOn(f, sl) ==
  f = [n \in 0..Len(ShimNames) |-> IF n = 0 THEN sl ELSE SlotGiven(f[n - 1], ShimNames[n])]

LEMMA ShimsGiven ==
  ASSUME NEW sl \in {<<>>, ShimNames}, NEW n \in Nat, n < Len(ShimNames)
  PROVE  SlotGiven(GivenAt(sl, n), ShimNames[n + 1]) = GivenAt(sl, n + 1)
<1>1. PICK S : ShimNames \in Seq(S) /\ \A j, k \in DOMAIN ShimNames : ShimNames[j] = ShimNames[k] => j = k
  BY ShimsAssumption
<1>2. Len(ShimNames) \in Nat /\ DOMAIN ShimNames = 1..Len(ShimNames)
  BY <1>1, LenProperties
<1>3. PICK x : x = ShimNames[n + 1]
  OBVIOUS
<1>4. CASE sl = <<>>
  <2>1. PICK s, t : s = FirstShims(n) /\ t = FirstShims(n + 1)
    OBVIOUS
  <2>2. s \in Seq(S) /\ Len(s) = n /\ DOMAIN s = 1..n /\ \A k \in 1..n : s[k] = ShimNames[k]
    BY <1>1, <1>2, <2>1 DEF FirstShims
  <2>3. x \notin WithSlot(s)
    <3> SUFFICES ASSUME NEW k \in 1..n, s[k] = x PROVE FALSE
      BY <2>2 DEF WithSlot
    <3>1. k \in DOMAIN ShimNames /\ n + 1 \in DOMAIN ShimNames /\ ShimNames[k] = ShimNames[n + 1] /\ k # n + 1
      BY <1>2, <1>3, <2>2
    <3> QED  BY <1>1, <3>1
  <2>4. x \in S
    BY <1>1, <1>2, <1>3
  <2>5. PICK a : a = Append(s, x)
    OBVIOUS
  <2>6. a \in Seq(S) /\ Len(a) = n + 1 /\ (\A k \in 1..n : a[k] = s[k]) /\ a[n + 1] = x
    BY <2>2, <2>4, <2>5, AppendProperties
  <2>7. DOMAIN a = 1..n + 1 /\ \A k \in 1..n + 1 : a[k] = ShimNames[k]
    BY <1>3, <2>2, <2>6, LenProperties
  <2>8. a = t
    BY <2>1, <2>6, <2>7 DEF FirstShims
  <2>9. SlotGiven(s, x) = a
    BY <2>3, <2>5 DEF SlotGiven
  <2> QED  BY <1>3, <1>4, <2>1, <2>8, <2>9 DEF GivenAt
<1>5. CASE sl # <<>>
  <2>1. x \in WithSlot(ShimNames)
    BY <1>2, <1>3 DEF WithSlot
  <2> QED  BY <1>3, <1>5, <2>1 DEF GivenAt, SlotGiven
<1> QED  BY <1>4, <1>5

LEMMA AllSlotted ==
  ASSUME slots \in {<<>>, ShimNames}
  PROVE  Slotted = ShimNames
<1>1. PICK S : ShimNames \in Seq(S)
  BY ShimsAssumption
<1>2. PICK l \in Nat : l = Len(ShimNames) /\ DOMAIN ShimNames = 1..l
  BY <1>1, LenProperties
<1>3. PICK sl \in {<<>>, ShimNames} : sl = slots
  OBVIOUS
<1>4. GivenAt(sl, 0) = sl /\ GivenAt(sl, l) = ShimNames
  <2>1. FirstShims(0) = <<>>
    BY DEF FirstShims
  <2>2. FirstShims(l) = ShimNames
    BY <1>1, <1>2 DEF FirstShims
  <2> QED  BY <1>3, <2>1, <2>2 DEF GivenAt
<1>5. \E f : GivenOn(f, sl)
  <2>1. PICK f : f = [n \in 0..l |-> GivenAt(sl, n)]
    OBVIOUS
  <2>2. \A n \in 0..l : f[n] = IF n = 0 THEN sl ELSE SlotGiven(f[n - 1], ShimNames[n])
    <3> TAKE n \in 0..l
    <3>1. CASE n # 0
      <4>1. PICK m \in Nat : m = n - 1 /\ m < l /\ n = m + 1
        BY <3>1
      <4>2. SlotGiven(GivenAt(sl, m), ShimNames[m + 1]) = GivenAt(sl, m + 1)
        BY <1>2, <4>1, ShimsGiven
      <4> QED  BY <2>1, <3>1, <4>1, <4>2
    <3> QED  BY <1>4, <2>1, <3>1
  <2>3. f = [n \in 0..l |-> IF n = 0 THEN sl ELSE SlotGiven(f[n - 1], ShimNames[n])]
    BY <2>1, <2>2
  <2> QED  BY <1>2, <2>3 DEF GivenOn
<1>6. \E f : GivenOn(f, sl) /\ Given(sl) = f[Len(ShimNames)]
  BY <1>5 DEF Given, GivenOn
<1>7. PICK f : GivenOn(f, sl) /\ Given(sl) = f[l]
  BY <1>2, <1>6
<1>8. PICK N : N = {n \in Nat : n <= l => f[n] = GivenAt(sl, n)}
  OBVIOUS
<1>9. 0 \in N
  BY <1>2, <1>4, <1>7, <1>8 DEF GivenOn
<1>10. ASSUME NEW n \in Nat, n \in N PROVE n + 1 \in N
  <2> SUFFICES ASSUME n + 1 <= l PROVE f[n + 1] = GivenAt(sl, n + 1)
    BY <1>8
  <2>1. f[n] = GivenAt(sl, n)
    BY <1>8, <1>10
  <2>2. PICK m : m = n + 1
    OBVIOUS
  <2>3. m \in 0..l /\ m # 0 /\ m - 1 = n
    BY <2>2
  <2>4. f[m] = SlotGiven(f[n], ShimNames[m])
    BY <1>2, <1>7, <2>3 DEF GivenOn
  <2>5. SlotGiven(GivenAt(sl, n), ShimNames[n + 1]) = GivenAt(sl, n + 1)
    BY <1>2, ShimsGiven
  <2> QED  BY <2>1, <2>2, <2>4, <2>5
<1>11. l \in N
  BY <1>9, <1>10, Induction
<1> QED  BY <1>3, <1>4, <1>7, <1>8, <1>11 DEF Slotted

-----------------------------------------------------------------------------
\* What a reader makes of a file is an info that a load may have.
LEMMA OneSlice ==
  ASSUME NEW f \in MachFiles, X86(f) # {}
  PROVE  FirstSlice(f) \in X86(f) /\ LastSlice(f) = FirstSlice(f)
<1>1. PICK i \in X86(f) : X86(f) = {i} /\ i \in Nat
  BY LinkAssumption
<1>2. i <= i
  BY <1>1
<1>3. FirstSlice(f) = i
  BY <1>1, <1>2 DEF FirstSlice
<1>4. LastSlice(f) = i
  BY <1>1, <1>2 DEF LastSlice
<1> QED  BY <1>3, <1>4

LEMMA CheckedIs ==
  ASSUME NEW info, NEW cut \in BOOLEAN
  PROVE  Checked(info, cut) = info \/ Checked(info, cut) = [info EXCEPT !.err = "truncated"]
BY DEF Checked

LEMMA ParsedInfo ==
  ASSUME NEW f \in MachFiles, streamSymbol \in StreamSymbols, NEW r, r = ParsedReader(f) \/ r = ParsedWhole(f)
  PROVE  r.symbol \in StreamSymbols /\ (r.err = "none" => IsInfo(f, r))
<1>1. \A e : Refusal(e).err = e /\ Refusal(e).symbol = streamSymbol
  BY DEF Refusal
<1>2. CASE X86(f) = {}
  <2>1. r = Refusal("noSlice")
    BY <1>2 DEF ParsedReader, ParsedWhole
  <2> QED  BY <1>1, <2>1
<1>3. CASE X86(f) # {}
  <2>1. PICK m : m = SliceOf(f)
    OBVIOUS
  <2>2. m = MachFile[f].slices[LastSlice(f)].of /\ m = MachFile[f].slices[FirstSlice(f)].of
    BY <1>3, <2>1, OneSlice DEF SliceOf
  <2>3. PICK a : a = AllStreams(m, streamSymbol)
    OBVIOUS
  <2>4. a.symbol \in StreamSymbols
    BY <1>3, <2>2, <2>3, OneSlice, LinkAssumption
  <2>5. PICK t : t = InfoOf(m, a)
    OBVIOUS
  <2>6. \/ t.err # "none" /\ t.symbol \in StreamSymbols /\ t = [err |-> t.err, symbol |-> t.symbol]
        \/ t = Parsed(m, a) /\ t.symbol \in StreamSymbols /\ IsInfo(f, t)
    <3>1. CASE LoadableOf(m) = {}
      BY <2>5, <3>1 DEF InfoOf
    <3>2. CASE LoadableOf(m) # {} /\ a.err # "none"
      BY <2>4, <2>5, <3>2 DEF InfoOf
    <3>3. CASE LoadableOf(m) # {} /\ a.err = "none" /\ ~(Placed(m, a.rebases) /\ Placed(m, a.binds))
      BY <2>4, <2>5, <3>3 DEF InfoOf
    <3>4. CASE LoadableOf(m) # {} /\ a.err = "none" /\ Placed(m, a.rebases) /\ Placed(m, a.binds)
      <4>1. t = Parsed(m, a)
        BY <2>5, <3>4 DEF InfoOf
      <4>2. t.symbol = a.symbol
        BY <4>1 DEF Parsed
      <4>3. f \in Parsable
        BY <1>3, <2>1, <3>4 DEF Parsable
      <4>4. t \in InfosOf(f)
        BY <2>1, <2>3, <3>4, <4>1 DEF InfosOf
      <4> QED  BY <2>4, <4>1, <4>2, <4>3, <4>4 DEF IsInfo
    <3> QED  BY <3>1, <3>2, <3>3, <3>4
  <2>7. ASSUME NEW i, i = Refusal("refused") \/ i = t, NEW w, w = i \/ w = [i EXCEPT !.err = "truncated"]
        PROVE  w.symbol \in StreamSymbols /\ (w.err = "none" => IsInfo(f, w))
    <3>1. CASE w = i
      BY <1>1, <2>6, <2>7, <3>1
    <3>2. CASE w = [i EXCEPT !.err = "truncated"] /\ i = Refusal("refused")
      BY <3>2 DEF Refusal
    <3>3. CASE w = [i EXCEPT !.err = "truncated"] /\ i = t /\ t = [err |-> t.err, symbol |-> t.symbol] /\ t.symbol \in StreamSymbols
      BY <3>3
    <3>4. CASE w = [i EXCEPT !.err = "truncated"] /\ i = t /\ t = Parsed(m, a) /\ t.symbol \in StreamSymbols
      BY <3>4 DEF Parsed
    <3> QED  BY <2>6, <2>7, <3>1, <3>2, <3>3, <3>4
  <2>8. CASE r = ParsedReader(f)
    <3>1. PICK i : i = Read(m, m.cmds = "empty" \/ ~Fetchable(m))
      OBVIOUS
    <3>2. i = Refusal("refused") \/ i = t
      BY <2>3, <2>5, <3>1 DEF Read
    <3>3. r = Checked(i, m.symtab = "empty")
      BY <1>3, <2>2, <2>8, <3>1 DEF ParsedReader, ReadFetched
    <3>4. r = i \/ r = [i EXCEPT !.err = "truncated"]
      BY <3>3, CheckedIs DEF Checked
    <3> QED  BY <2>7, <3>2, <3>4
  <2>9. CASE r = ParsedWhole(f)
    <3>1. PICK i : i = Read(m, FALSE)
      OBVIOUS
    <3>2. i = Refusal("refused") \/ i = t
      BY <2>3, <2>5, <3>1 DEF Read
    <3>3. r = Refusal("truncated") \/ r = Checked(i, m.symtab = "cut")
      BY <1>3, <2>2, <2>9, <3>1 DEF ParsedWhole, ReadWhole
    <3>4. r = Refusal("truncated") \/ r = i \/ r = [i EXCEPT !.err = "truncated"]
      BY <3>3, CheckedIs DEF Checked
    <3> QED  BY <1>1, <2>7, <3>2, <3>4
  <2> QED  BY <2>8, <2>9
<1> QED  BY <1>2, <1>3

-----------------------------------------------------------------------------
(***************************************************************************)
(* What a step leaves as it was.                                           *)
(***************************************************************************)
LEMMA EndsStay ==
  ASSUME NEW f, NEW info, NEW d, NEW base, NEW table, NEW a \in Seq(Names), NEW b \in Seq(Names), Grown(a, b),
         NEW c, NEW v, CellEnds(f, info, d, base, table, a, c, v)
  PROVE  CellEnds(f, info, d, base, table, b, c, v)
<1>1. \A x : BoundOk(table, x, v, a) => BoundOk(table, x, v, b)
  BY BoundStays
<1> QED  BY <1>1 DEF CellEnds, CellIs

More == traps' \in Seq(Names) /\ Grown(traps, traps')
Same(b) == content'[b] = content[b] /\ imageOf'[b] = imageOf[b]

LEMMA NoMore ==
  ASSUME traps \in Seq(Names), traps' = traps
  PROVE  More
BY LenProperties DEF More, Grown

LEMMA TableStays ==
  ASSUME UNCHANGED <<focus, dir>>
  PROVE  TableNow' = TableNow
BY DEF TableNow, ExportsNow

LEMMA OwnersStay ==
  ASSUME OwnInv, traps \in Seq(Names), More, UNCHANGED <<focus, dir>>,
         NEW b \in Bases, space[b] = "owned", Same(b)
  PROVE  OwnedEnds(b)'
<1>1. OwnedEnds(b)
  BY DEF OwnInv
<1>2. PICK table : table = TableNow /\ table = TableNow'
  BY TableStays
<1>3. PICK f, by, d : f = imageOf[b].file /\ by = imageOf[b].by /\ d = DigestOf(f, by.claim)
  OBVIOUS
<1>4. \A c \in DOMAIN content[b] : \/ CellEnds(f, by.info, d, b, table, traps, c, content[b][c])
                                   \/ by.mixed /\ ~Filled(by.info, c)
  BY <1>1, <1>2, <1>3, Zenon DEF OwnedEnds
<1>5. \A c \in DOMAIN content[b] : \/ CellEnds(f, by.info, d, b, table, traps', c, content[b][c])
                                   \/ by.mixed /\ ~Filled(by.info, c)
  BY <1>4, EndsStay DEF More
<1> QED  BY <1>2, <1>3, <1>5 DEF OwnedEnds, Same

Elsewhere == \A b \in Bases \ {load.base} : space'[b] = space[b] /\ Same(b)
Around == streamSymbol' = streamSymbol /\ DOMAIN content' = Bases /\ More /\ Elsewhere /\ UNCHANGED <<focus, dir>>

LEMMA OthersStay ==
  ASSUME LinkInv, Around, space'[load.base] # "owned" \/ (space'[load.base] = space[load.base] /\ Same(load.base))
  PROVE  ThreadInv' /\ OwnInv'
<1>1. ThreadInv'
  BY DEF LinkInv, ThreadInv, Around, More
<1>2. ASSUME NEW b \in Bases, space'[b] = "owned"
      PROVE  OwnedEnds(b)'
  <2>1. space[b] = "owned" /\ Same(b)
    BY <1>2 DEF Around, Elsewhere
  <2> QED  BY <1>2, <2>1, OwnersStay DEF LinkInv, ThreadInv, Around
<1> QED  BY <1>1, <1>2 DEF OwnInv

LEMMA FailStays ==
  ASSUME LinkInv, Around, load'.step = "failed", StagedInv',
         space'[load.base] # "owned" \/ (space'[load.base] = space[load.base] /\ Same(load.base))
  PROVE  LinkInv'
<1>1. ThreadInv' /\ OwnInv'
  BY OthersStay
<1>2. UnderInv' /\ FileInv' /\ BufferInv'
  BY DEF UnderInv, FileInv, BufferInv, Under
<1> QED  BY <1>1, <1>2 DEF LinkInv

LEMMA ListStays ==
  ASSUME LinkInv, staged' = staged
  PROVE  StagedInv'
BY DEF LinkInv, StagedInv

LEMMA StepFields ==
  ASSUME LoadInv, load.step \in Under, NEW s, LoadStep(s)
  PROVE  /\ load'.step = s /\ load'.file = load.file /\ load'.base = load.base /\ load'.way = load.way
         /\ load'.claim = load.claim /\ load'.table = load.table /\ load'.info = load.info
         /\ load'.mixed = load.mixed /\ load'.data = load.data
BY DEF LoadInv, LoadStep

\* The load goes on with the same file and table.
Onward == /\ load'.file = load.file /\ load'.base = load.base /\ load'.way = load.way
          /\ load'.claim = load.claim /\ load'.table = load.table /\ load'.info = load.info
          /\ load'.mixed = load.mixed
LEMMA UnderStays ==
  ASSUME LinkInv, load.step \in Under, Onward, UNCHANGED <<focus, dir>>,
         (OfFile \/ OfBuffer)', load'.step \notin {"map", "patch"} => space'[load.base] = "loading"
  PROVE  UnderInv'
<1>1. IsInfo(load.file, load.info) /\ load.table = TableNow
  BY DEF LinkInv, UnderInv
<1>2. IsInfo(load'.file, load'.info) /\ load'.table = TableNow'
  BY <1>1, TableStays DEF Onward
<1> QED  BY <1>2 DEF UnderInv, Onward

-----------------------------------------------------------------------------
LEMMA MapLinks ==
  ASSUME LoadInv, LinkInv, MapSpan, UNCHANGED <<focus, dir>>
  PROVE  LinkInv'
<1>1. load.step = "map" /\ load.step \in Under /\ load.base \in Bases
  BY DEF MapSpan, Under, LoadInv
<1>2. UNCHANGED <<streamSymbol, imageOf, staged, traps>> /\ More
  BY NoMore DEF MapSpan, LinkInv, ThreadInv
<1>3. CASE LoadFails /\ UNCHANGED <<space, content>>
  <2>1. load'.step = "failed" /\ Around /\ space'[load.base] = space[load.base] /\ Same(load.base)
    BY <1>2, <1>3 DEF LoadFails, Around, Elsewhere, Same, LinkInv, ThreadInv
  <2> QED  BY <1>2, <2>1, FailStays, ListStays
<1>4. ASSUME space' = [space EXCEPT ![load.base] = "loading"],
             content' = [content EXCEPT ![load.base] = [c \in MapCells |-> 0]],
             LoadStep(IF load.way = "file" THEN "read" ELSE "stage")
      PROVE  LinkInv'
  <2>1. PICK s : s = IF load.way = "file" THEN "read" ELSE "stage"
    OBVIOUS
  <2>2. load'.step = s /\ load'.data = load.data /\ Onward
    BY <1>1, <1>4, <2>1, StepFields DEF Onward
  <2>3. space'[load.base] = "loading" /\ content'[load.base] = [c \in MapCells |-> 0] /\ Around
    BY <1>1, <1>2, <1>4 DEF Around, Elsewhere, Same, LinkInv, ThreadInv, LoadInv
  <2>4. ThreadInv' /\ OwnInv'
    BY <2>3, OthersStay
  <2>5. load.way \in {"file", "buffer"}
    BY <1>1 DEF LinkInv, UnderInv, OfFile, OfBuffer
  <2>6. UnderInv'
    <3>1. (OfFile \/ OfBuffer)'
      BY <2>1, <2>2, <2>5 DEF OfFile, OfBuffer, Onward
    <3> QED  BY <1>1, <2>3, <3>1, <2>2, UnderStays DEF Around
  <2>7. IsZero(load.info, content'[load.base])
    BY <2>3 DEF IsZero, Spans, MapCells, Info
  <2>8. FileInv'
    BY <2>1, <2>2, <2>7 DEF FileInv, Onward
  <2>9. BufferInv'
    BY <1>1, <1>2, <2>1, <2>2, <2>3 DEF BufferInv, LoadDigest, LinkInv, Onward, Under, Around
  <2>10. StagedInv'
    BY <1>2, ListStays
  <2> QED  BY <2>4, <2>6, <2>8, <2>9, <2>10 DEF LinkInv
<1> QED  BY <1>3, <1>4 DEF MapSpan

LEMMA RawIs == ASSUME NEW f PROVE SliceCells(f) = RawOf(f)
BY DEF SliceCells, RawOf, SliceOf

LEMMA ReadLinks ==
  ASSUME LoadInv, LinkInv, ReadSegments, UNCHANGED <<focus, dir>>
  PROVE  LinkInv'
<1>1. load.step = "read" /\ load.step \in Under /\ load.base \in Bases
  BY DEF ReadSegments, Under, LoadInv
<1>2. UNCHANGED <<streamSymbol, imageOf, staged, traps>> /\ More
  BY NoMore DEF ReadSegments, LinkInv, ThreadInv
<1>3. CASE Leaks /\ UNCHANGED content
  <2>1. load'.step = "failed" /\ Around /\ space'[load.base] # "owned"
    BY <1>1, <1>2, <1>3 DEF Leaks, LoadFails, Around, Elsewhere, Same, LinkInv, ThreadInv, LoadInv
  <2> QED  BY <1>2, <2>1, FailStays, ListStays
<1>4. ASSUME MappedFrom(SliceCells(load.file)), LoadStep("rebase"), UNCHANGED space
      PROVE  LinkInv'
  <2>1. PICK raw : raw = RawOf(load.file)
    OBVIOUS
  <2>2. load'.step = "rebase" /\ load'.data = load.data /\ Onward
    BY <1>1, <1>4, StepFields DEF Onward
  <2>3. /\ ~Short(load.info, raw)
        /\ content' = [content EXCEPT ![load.base] = [c \in MapCells |-> ReadCell(load.info, raw, c, @[c])]]
    BY <1>4, <2>1, RawIs DEF MappedFrom, Info
  <2>4. Around
    BY <1>1, <1>2, <1>4, <2>3 DEF Around, Elsewhere, Same, LinkInv, ThreadInv, LoadInv
  <2>5. space[load.base] = "loading" /\ OfFile /\ load.way = "file"
    BY <1>1 DEF LinkInv, UnderInv, OfFile, OfBuffer
  <2>6. ThreadInv' /\ OwnInv'
    BY <1>4, <2>4, <2>5, OthersStay
  <2>7. UnderInv'
    <3>1. (OfFile \/ OfBuffer)'
      BY <2>2, <2>5 DEF OfFile, Onward
    <3> QED  BY <1>1, <1>4, <2>4, <2>5, <3>1, <2>2, UnderStays DEF Around
  <2>8. IsRead(load.file, load.info, content'[load.base])
    <3>1. \A c \in 0..SpanOf(load.info) - 1 : content[load.base][c] = 0
      BY <1>1 DEF LinkInv, FileInv, IsZero
    <3>2. content'[load.base] = [c \in 0..SpanOf(load.info) - 1 |-> ReadCell(load.info, raw, c, content[load.base][c])]
      BY <1>1, <2>3 DEF LinkInv, ThreadInv, MapCells, Info
    <3> QED  BY <2>1, <2>3, <3>1, <3>2 DEF IsRead, Spans
  <2>9. FileInv'
    BY <2>2, <2>8 DEF FileInv, Onward
  <2>10. BufferInv'
    BY <2>2, <2>5 DEF BufferInv, Onward
  <2>11. StagedInv'
    BY <1>2, ListStays
  <2> QED  BY <2>6, <2>7, <2>9, <2>10, <2>11 DEF LinkInv
<1> QED  BY <1>3, <1>4 DEF ReadSegments

-----------------------------------------------------------------------------
\* A pass in the mapping, and one in the copy.
PassDone(fixups, at, cells, binds, r) ==
  \E n \in 0..Len(fixups) : PassOk(Names, fixups, at, cells, binds, n, r) /\ (~Stopped(at) => n = Len(fixups))
LEMMA MappedPass ==
  ASSUME NEW f, NEW info, IsInfo(f, info), load.info = info, traps \in Seq(Names),
         NEW fixups \in {info.rebases, info.binds}, NEW binds \in BOOLEAN, NEW cells, NEW at, at = MappedAt(info, fixups)
  PROVE  PassDone(fixups, at, cells, binds, Passed(fixups, at, cells, binds))
<1>1. InfoTyped(info, RawOf(f)) /\ Len(fixups) \in Nat /\ DOMAIN fixups = 1..Len(fixups)
  BY InfosTyped, FixupTyped DEF RawOf
<1>2. \A k \in DOMAIN fixups : at[k] \in Int
  <2> TAKE k \in DOMAIN fixups
  <2>1. PICK x : x = fixups[k]
    OBVIOUS
  <2>2. x.at \in Nat /\ PlacedIn(info, x)
    BY <1>1, <2>1, FixupTyped, InfosPlaced
  <2>3. MapOffset(info, x) \in Int
    BY <1>1, <2>2, OffsetsTyped
  <2> QED  BY <2>1, <2>3 DEF MappedAt
<1>3. Whereabouts(fixups, at)
  BY <1>1, <1>2 DEF Whereabouts, MappedAt
<1>4. \A k \in 1..Len(fixups) : fixups[k].name \in Names
  BY <1>1, NamesOfFixups
<1> QED  BY <1>3, <1>4, PassedIs DEF PassDone

LEMMA FiledPass ==
  ASSUME NEW f, NEW info, IsInfo(f, info), load.info = info, traps \in Seq(Names),
         NEW fixups \in {info.rebases, info.binds}, NEW binds \in BOOLEAN, NEW cells, NEW at,
         at = FiledAt(info, fixups, RawOf(f))
  PROVE  PassDone(fixups, at, cells, binds, Passed(fixups, at, cells, binds))
<1>1. InfoTyped(info, RawOf(f)) /\ Len(fixups) \in Nat /\ DOMAIN fixups = 1..Len(fixups)
  BY InfosTyped, FixupTyped DEF RawOf
<1>2. \A k \in DOMAIN fixups : at[k] \in Int
  <2> TAKE k \in DOMAIN fixups
  <2>1. PICK x : x = fixups[k]
    OBVIOUS
  <2>2. x.at \in Nat /\ PlacedIn(info, x)
    BY <1>1, <2>1, FixupTyped, InfosPlaced
  <2>3. FileOffset(info, x, Len(RawOf(f))) \in Int
    BY <1>1, <2>2, OffsetsTyped
  <2> QED  BY <2>1, <2>3 DEF FiledAt
<1>3. Whereabouts(fixups, at)
  BY <1>1, <1>2 DEF Whereabouts, FiledAt
<1>4. \A k \in 1..Len(fixups) : fixups[k].name \in Names
  BY <1>1, NamesOfFixups
<1> QED  BY <1>3, <1>4, PassedIs DEF PassDone

\* A pass in the mapping that went on to its end.
PassLands(info, fixups, at, cells, binds, r) ==
  /\ Inside(info, fixups) /\ Spans(info, r.cells)
  /\ \A c \in 0..SpanOf(info) - 1 :
       /\ Hit(at, Len(fixups), c) = Hits(info, fixups, c)
       /\ CellOk(fixups, at, cells[c], binds, Len(fixups), r.labels, c, r.cells[c])
LEMMA PassEnds ==
  ASSUME NEW S, NEW f, NEW info, IsInfo(f, info), NEW fixups \in {info.rebases, info.binds}, NEW binds \in BOOLEAN,
         NEW at, at = MappedAt(info, fixups), ~Stopped(at), NEW cells, NEW r,
         PassOk(S, fixups, at, cells, binds, Len(fixups), r), Spans(info, cells)
  PROVE  PassLands(info, fixups, at, cells, binds, r)
<1>1. Inside(info, fixups) /\ \A c \in Nat : Hit(at, Len(fixups), c) = Hits(info, fixups, c)
  BY MappingHits
<1>2. CellsOk(fixups, at, cells, binds, Len(fixups), r)
  BY DEF PassOk
<1>3. \A c \in 0..SpanOf(info) - 1 : c \in Nat /\ c >= 0 /\ c \in DOMAIN cells
  BY DEF Spans
<1> QED  BY <1>1, <1>2, <1>3 DEF CellsOk, Spans, PassLands

\* What both passes do, up to what they leave in the mapping.
LEMMA PatchLinks ==
  ASSUME LoadInv, LinkInv, NEW fixups \in {load.info.rebases, load.info.binds}, NEW binds \in BOOLEAN,
         NEW from \in {"rebase", "bind"}, NEW to \in {"bind", "quiet"}, PatchMapped(fixups, binds, from, to),
         UNCHANGED <<focus, dir>>,
         \A r : /\ PassOk(Names, fixups, MappedAt(load.info, fixups), content[load.base], binds, Len(fixups), r)
                /\ ~Stopped(MappedAt(load.info, fixups))
                => CASE to = "bind" -> IsRebased(load.file, load.info, load.base, r.cells)
                     [] to = "quiet" -> IsSettled(load.file, load.info, load.base, load.table, r.labels, r.cells)
  PROVE  LinkInv'
<1>1. load.step = from /\ load.step \in Under /\ load.base \in Bases
  BY DEF PatchMapped, Under, LoadInv
<1>2. UNCHANGED <<streamSymbol, imageOf, staged>>
  BY DEF PatchMapped
<1>3. PICK f, info : f = load.file /\ info = load.info
  OBVIOUS
<1>4. PICK at : at = MappedAt(info, fixups)
  OBVIOUS
<1>5. PICK r : r = Passed(fixups, at, content[load.base], binds)
  OBVIOUS
<1>6. IsInfo(f, info) /\ OfFile /\ load.way = "file" /\ space[load.base] = "loading"
  BY <1>1, <1>3 DEF LinkInv, UnderInv, OfFile, OfBuffer
<1>7. InMapping(fixups) = at
  BY <1>3, <1>4 DEF InMapping, MappedAt, Info
<1>8. PICK n \in 0..Len(fixups) : /\ PassOk(Names, fixups, at, content[load.base], binds, n, r)
                                  /\ ~Stopped(at) => n = Len(fixups)
  <2>1. traps \in Seq(Names) /\ fixups \in {info.rebases, info.binds} /\ load.info = info
    BY <1>3 DEF LinkInv, ThreadInv
  <2>2. PassDone(fixups, at, content[load.base], binds, Passed(fixups, at, content[load.base], binds))
    BY <1>4, <1>6, <2>1, MappedPass
  <2> QED  BY <1>5, <2>2 DEF PassDone
<1>9. /\ traps' = r.labels /\ content' = [content EXCEPT ![load.base] = r.cells]
      /\ IF Stopped(at) THEN Leaks ELSE LoadStep(to) /\ UNCHANGED space
  BY <1>5, <1>7 DEF PatchMapped, PatchWith
<1>10. More
  BY <1>8, <1>9 DEF PassOk, LabelsOk, More
<1>11. CASE Stopped(at)
  <2>1. load'.step = "failed" /\ Around /\ space'[load.base] # "owned"
    BY <1>1, <1>2, <1>9, <1>10, <1>11 DEF Leaks, LoadFails, Around, Elsewhere, Same, LinkInv, ThreadInv, LoadInv
  <2> QED  BY <1>2, <2>1, FailStays, ListStays
<1>12. CASE ~Stopped(at)
  <2>1. LoadStep(to) /\ space' = space
    BY <1>9, <1>12
  <2>2. load'.step = to /\ load'.data = load.data /\ Onward
    BY <1>1, <2>1, StepFields DEF Onward
  <2>3. Around /\ content'[load.base] = r.cells
    BY <1>1, <1>2, <1>9, <1>10, <2>1 DEF Around, Elsewhere, Same, LinkInv, ThreadInv, LoadInv
  <2>4. ThreadInv' /\ OwnInv'
    BY <1>6, <2>1, <2>3, OthersStay
  <2>5. UnderInv'
    <3>1. (OfFile \/ OfBuffer)'
      BY <1>6, <2>2 DEF OfFile, Onward
    <3> QED  BY <1>1, <1>6, <2>1, <2>2, <3>1, UnderStays
  <2>6. FileInv'
    <3>1. PassOk(Names, fixups, at, content[load.base], binds, Len(fixups), r)
      BY <1>8, <1>12
    <3>2. CASE to = "bind"
      <4>1. IsRebased(load.file, load.info, load.base, r.cells)
        BY <1>3, <1>4, <1>12, <3>1, <3>2
      <4> QED  BY <2>2, <2>3, <3>2, <4>1 DEF FileInv, Onward
    <3>3. CASE to = "quiet"
      <4>1. IsSettled(load.file, load.info, load.base, load.table, r.labels, r.cells)
        BY <1>3, <1>4, <1>12, <3>1, <3>3
      <4> QED  BY <1>9, <2>2, <2>3, <3>3, <4>1 DEF FileInv, Onward
    <3> QED  BY <3>2, <3>3
  <2>7. BufferInv'
    BY <1>6, <2>2 DEF BufferInv, Onward
  <2>8. StagedInv'
    BY <1>2, ListStays
  <2> QED  BY <2>4, <2>5, <2>6, <2>7, <2>8 DEF LinkInv
<1> QED  BY <1>11, <1>12

LEMMA RebaseLinks ==
  ASSUME LoadInv, LinkInv, Rebase, UNCHANGED <<focus, dir>>
  PROVE  LinkInv'
<1>1. load.step = "rebase" /\ load.step \in Under
  BY DEF Rebase, PatchMapped, Under
<1>2. PICK f, info : f = load.file /\ info = load.info
  OBVIOUS
<1>3. IsInfo(f, info) /\ IsRead(f, info, content[load.base])
  BY <1>1, <1>2 DEF LinkInv, UnderInv, FileInv
<1>4. PICK at, cells : at = MappedAt(info, info.rebases) /\ cells = content[load.base]
  OBVIOUS
<1>5. ASSUME NEW r, PassOk(Names, info.rebases, at, cells, FALSE, Len(info.rebases), r), ~Stopped(at)
      PROVE  IsRebased(f, info, load.base, r.cells)
  <2>1. Spans(info, cells)
    BY <1>3, <1>4 DEF IsRead
  <2>2. PICK fixups : fixups = info.rebases
    OBVIOUS
  <2>3. PassOk(Names, fixups, at, cells, FALSE, Len(fixups), r) /\ at = MappedAt(info, fixups)
    BY <1>4, <1>5, <2>2
  <2>4. PassLands(info, fixups, at, cells, FALSE, r)
    <3>1. fixups \in {info.rebases, info.binds} /\ FALSE \in BOOLEAN
      BY <2>2
    <3> QED  BY <1>3, <1>5, <2>1, <2>3, <3>1, PassEnds, Zenon
  <2>5. \A c \in 0..SpanOf(info) - 1 : Rebased(info, load.base, c, cells[c], r.cells[c])
    BY <1>2, <1>3, <2>2, <2>4, RebasedFrom DEF PassLands
  <2>6. \A c \in 0..SpanOf(info) - 1 : cells[c] = ReadCell(info, RawOf(f), c, 0)
    BY <1>3, <1>4 DEF IsRead
  <2>7. \A c \in 0..SpanOf(info) - 1 : Rebased(info, load.base, c, ReadCell(info, RawOf(f), c, 0), r.cells[c])
    BY <2>5, <2>6
  <2> QED  BY <1>3, <2>2, <2>4, <2>7 DEF IsRebased, IsRead, PassLands
<1>6. PatchMapped(load.info.rebases, FALSE, "rebase", "bind")
  BY DEF Rebase, Info
<1> QED  BY <1>2, <1>4, <1>5, <1>6, PatchLinks

LEMMA BindLinks ==
  ASSUME LoadInv, LinkInv, Bind, UNCHANGED <<focus, dir>>
  PROVE  LinkInv'
<1>1. load.step = "bind" /\ load.step \in Under
  BY DEF Bind, PatchMapped, Under
<1>2. PICK f, info : f = load.file /\ info = load.info
  OBVIOUS
<1>3. IsInfo(f, info) /\ IsRebased(f, info, load.base, content[load.base])
  BY <1>1, <1>2 DEF LinkInv, UnderInv, FileInv
<1>4. PICK at, cells : at = MappedAt(info, info.binds) /\ cells = content[load.base]
  OBVIOUS
<1>5. ASSUME NEW r, PassOk(Names, info.binds, at, cells, TRUE, Len(info.binds), r), ~Stopped(at)
      PROVE  IsSettled(f, info, load.base, load.table, r.labels, r.cells)
  <2>1. Spans(info, cells)
    BY <1>3, <1>4 DEF IsRebased
  <2>2. PICK fixups : fixups = info.binds
    OBVIOUS
  <2>3. PassOk(Names, fixups, at, cells, TRUE, Len(fixups), r) /\ at = MappedAt(info, fixups)
    BY <1>4, <1>5, <2>2
  <2>4. PassLands(info, fixups, at, cells, TRUE, r)
    <3>1. fixups \in {info.rebases, info.binds} /\ TRUE \in BOOLEAN
      BY <2>2
    <3> QED  BY <1>3, <1>5, <2>1, <2>3, <3>1, PassEnds, Zenon
  <2>5. \A c \in 0..SpanOf(info) - 1 : Rebased(info, load.base, c, ReadCell(info, RawOf(f), c, 0), cells[c])
    BY <1>3, <1>4 DEF IsRebased
  <2>6. \A c \in 0..SpanOf(info) - 1 :
          Settled(info, load.base, load.table, r.labels, c, ReadCell(info, RawOf(f), c, 0), r.cells[c])
    BY <1>2, <1>3, <2>2, <2>4, <2>5, SettledFrom DEF PassLands
  <2> QED  BY <1>3, <2>2, <2>4, <2>6 DEF IsSettled, IsRebased, Sound, PassLands
<1>6. PatchMapped(load.info.binds, TRUE, "bind", "quiet")
  BY DEF Bind, Info
<1> QED  BY <1>2, <1>4, <1>5, <1>6, PatchLinks

-----------------------------------------------------------------------------
\* The image is there, and its cells are as they are to be.
LEMMA ReadyLinks ==
  ASSUME LoadInv, LinkInv, load.step \in Under, Owned(load.base), UNCHANGED <<streamSymbol, staged, traps, focus, dir>>,
         NEW cells, content' = [content EXCEPT ![load.base] = cells], load.step \in {"quiet", "copy"},
         \A c \in DOMAIN cells :
           \/ CellEnds(load.file, load.info, LoadDigest, load.base, load.table, traps, c, cells[c])
           \/ load.mixed /\ ~Filled(load.info, c)
  PROVE  LinkInv'
<1>1. load.base \in Bases /\ load.table = TableNow
  BY DEF LoadInv, LinkInv, UnderInv
<1>2. More
  BY NoMore DEF LinkInv, ThreadInv
<1>3. load'.step = "loaded" /\ space' = [space EXCEPT ![load.base] = "owned"]
  BY DEF Owned
<1>4. PICK image : /\ imageOf' = [imageOf EXCEPT ![load.base] = image]
                   /\ image.file = load.file
                   /\ image.by.claim = load.claim /\ image.by.mixed = load.mixed /\ image.by.info = load.info
  <2>1. PICK image : image = [file |-> load.file, info |-> [base |-> Info.base, symbols |-> Info.symbols],
                              by |-> [claim |-> load.claim, mixed |-> load.mixed, info |-> Info]]
    OBVIOUS
  <2>2. imageOf' = [imageOf EXCEPT ![load.base] = image]
    BY <2>1 DEF Owned
  <2>3. /\ image.file = load.file
        /\ image.by.claim = load.claim /\ image.by.mixed = load.mixed /\ image.by.info = load.info
    BY <2>1 DEF Info
  <2> QED  BY <2>2, <2>3
<1>5. Elsewhere /\ imageOf'[load.base] = image /\ content'[load.base] = cells /\ DOMAIN content' = Bases
  BY <1>1, <1>3, <1>4 DEF Elsewhere, Same, LoadInv, LinkInv, ThreadInv
<1>6. ThreadInv'
  BY <1>5 DEF LinkInv, ThreadInv
<1>7. ASSUME NEW b \in Bases, space'[b] = "owned"
      PROVE  OwnedEnds(b)'
  <2>1. CASE b # load.base
    <3>1. space[b] = "owned" /\ Same(b)
      BY <1>5, <1>7, <2>1 DEF Elsewhere
    <3> QED  BY <1>2, <1>7, <3>1, OwnersStay DEF LinkInv, ThreadInv
  <2>2. CASE b = load.base
    <3>1. PICK d : d = LoadDigest /\ d = DigestOf(image.file, image.by.claim)
      BY <1>4 DEF LoadDigest
    <3>2. \A c \in DOMAIN cells : \/ CellEnds(image.file, image.by.info, d, b, load.table, traps, c, cells[c])
                                  \/ image.by.mixed /\ ~Filled(image.by.info, c)
      BY <1>4, <2>2, <3>1
    <3>3. load.table = TableNow'
      BY <1>1, TableStays
    <3> QED  BY <1>5, <2>2, <3>1, <3>2, <3>3 DEF OwnedEnds
  <2> QED  BY <2>1, <2>2
<1>8. UnderInv' /\ FileInv' /\ BufferInv'
  BY <1>3 DEF UnderInv, FileInv, BufferInv, Under
<1>9. StagedInv'
  BY ListStays
<1> QED  BY <1>6, <1>7, <1>8, <1>9 DEF LinkInv, OwnInv

LEMMA QuietLinks ==
  ASSUME LoadInv, LinkInv, Neutralize, UNCHANGED <<focus, dir>>
  PROVE  LinkInv'
<1>1. load.step = "quiet" /\ load.step \in Under /\ load.base \in Bases
  BY DEF Neutralize, Under, LoadInv
<1>2. PICK f, info, raw : f = load.file /\ info = load.info /\ raw = RawOf(f)
  OBVIOUS
<1>3. PICK cells, quieted : cells = content[load.base] /\ quieted = Quieted(cells)
  OBVIOUS
<1>4. IsInfo(f, info) /\ IsSettled(f, info, load.base, load.table, traps, cells)
  BY <1>1, <1>2, <1>3 DEF LinkInv, UnderInv, FileInv
<1>5. WellLinked(f, info) /\ DOMAIN cells = 0..SpanOf(info) - 1
  BY <1>2, <1>4, InfosTyped DEF IsSettled, Spans, RawOf
<1>6. DOMAIN quieted = DOMAIN cells
  BY <1>3 DEF Quieted, ByTable, Scanned
<1>7. \A c \in 0..SpanOf(info) - 1 :
        Settled(info, load.base, load.table, traps, c, ReadCell(info, SliceOf(f).raw, c, 0), cells[c])
  BY <1>4 DEF IsSettled, RawOf
<1>8. ASSUME NEW c \in 0..SpanOf(info) - 1
      PROVE  CellEnds(f, info, LoadDigest, load.base, load.table, traps, c, quieted[c])
  <2>1. PICK d : d = LoadDigest /\ Hushed(f, info, d, c, cells[c], quieted[c])
    BY <1>2, <1>3, <1>4, <1>5, <1>7, QuietedIs DEF LoadDigest
  <2>2. PICK old : old = ReadCell(info, raw, c, 0)
    OBVIOUS
  <2>3. raw = SliceOf(f).raw /\ Settled(info, load.base, load.table, traps, c, old, cells[c])
    BY <1>2, <1>7, <2>2 DEF RawOf
  <2>4. load.base \in Int
    BY <1>1, LinkAssumption
  <2>5. CASE quieted[c] = Still /\ Stray(f, info, d, c)
    BY <2>1, <2>5 DEF CellEnds
  <2>6. CASE ~(quieted[c] = Still /\ Stray(f, info, d, c))
    BY <1>4, <1>5, <2>1, <2>2, <2>3, <2>4, <2>6, EndsWell
  <2> QED  BY <2>5, <2>6
<1>9. content' = [content EXCEPT ![load.base] = quieted]
  BY <1>1, <1>3 DEF Neutralize, LinkInv, ThreadInv
<1>10. Owned(load.base) /\ UNCHANGED <<streamSymbol, staged, traps>>
  BY DEF Neutralize
<1> QED  BY <1>1, <1>2, <1>5, <1>6, <1>8, <1>9, <1>10, ReadyLinks

-----------------------------------------------------------------------------
(***************************************************************************)
(* The buffered load.                                                      *)
(***************************************************************************)
\* Both passes over the copy went on to their ends: what they leave in a cell that is brought.
LEMMA CopyPassed ==
  ASSUME NEW f, NEW info, IsInfo(f, info), WellLinked(f, info), load.info = info, NEW raw, raw = RawOf(f),
         NEW toRebase, toRebase = FiledAt(info, info.rebases, raw), ~Stopped(toRebase),
         NEW toBind, toBind = FiledAt(info, info.binds, raw), ~Stopped(toBind),
         NEW r, CellsOk(info.rebases, toRebase, RawCells(raw), FALSE, Len(info.rebases), r),
         NEW b, CellsOk(info.binds, toBind, r.cells, TRUE, Len(info.binds), b),
         NEW data, data = Scanned(info, b.cells, Len(raw)),
         NEW c \in 0..SpanOf(info) - 1, NEW i \in DOMAIN info.segs, Brings(info, i, c), NEW d
  PROVE  CopyCell(f, info, d, load.base, load.table, b.labels, data, i, c)
<1>1. InfoTyped(info, raw) /\ SegmentsApart(info, raw) /\ TextInPlace(info, raw) /\ c \in Nat /\ raw = SliceOf(f).raw
  BY InfosTyped DEF WellLinked, RawOf
<1>2. PICK p : p = OffsetOf(info, i, c)
  OBVIOUS
<1>3. p \in 0..Len(raw) - 1 /\ Len(raw) \in Nat
  <2>1. OffsetOf(info, i, c) \in 0..Len(raw) - 1
    BY <1>1, BroughtFrom
  <2> QED  BY <1>1, <1>2, <2>1 DEF InfoTyped
<1>4. Hit(toRebase, Len(info.rebases), p) = Hits(info, info.rebases, c)
  <2>1. PICK fixups : fixups = info.rebases
    OBVIOUS
  <2>2. fixups \in {info.rebases, info.binds} /\ ~Stopped(FiledAt(info, fixups, raw))
    BY <2>1
  <2>3. Hit(FiledAt(info, fixups, raw), Len(fixups), OffsetOf(info, i, c)) = Hits(info, fixups, c)
    BY <1>1, <2>2, FiledHits
  <2> QED  BY <1>2, <2>1, <2>3
<1>5. Hit(toBind, Len(info.binds), p) = Hits(info, info.binds, c)
  <2>1. PICK fixups : fixups = info.binds
    OBVIOUS
  <2>2. fixups \in {info.rebases, info.binds} /\ ~Stopped(FiledAt(info, fixups, raw))
    BY <2>1
  <2>3. Hit(FiledAt(info, fixups, raw), Len(fixups), OffsetOf(info, i, c)) = Hits(info, fixups, c)
    BY <1>1, <2>2, FiledHits
  <2> QED  BY <1>2, <2>1, <2>3
<1>6. DOMAIN r.cells = 0..Len(raw) - 1 /\ DOMAIN b.cells = 0..Len(raw) - 1 /\ p >= 0 /\ p \in DOMAIN RawCells(raw)
  BY <1>3 DEF CellsOk, RawCells
<1>7. CellOk(info.rebases, toRebase, RawCells(raw)[p], FALSE, Len(info.rebases), r.labels, p, r.cells[p])
  BY <1>6 DEF CellsOk
<1>8. CellOk(info.binds, toBind, r.cells[p], TRUE, Len(info.binds), b.labels, p, b.cells[p])
  BY <1>6 DEF CellsOk
<1>9. Rebased(info, load.base, c, RawCells(raw)[p], r.cells[p])
  BY <1>4, <1>7, RebasedFrom
<1>10. Settled(info, load.base, load.table, b.labels, c, RawCells(raw)[p], b.cells[p])
  BY <1>5, <1>8, <1>9, SettledFrom
<1>11. data[p] = IF p \in ScannedCells(info, Len(raw)) /\ b.cells[p] = Idiom THEN Still ELSE b.cells[p]
  BY <1>3, <1>6 DEF Scanned
<1>12. /\ ScannedCells(info, Len(raw)) = ScannedCells(info, SpanOf(info))
       /\ ScannedCells(info, SpanOf(info)) \subseteq TextIn(info)
  BY <1>1 DEF ScannedCells, TextInPlace, TextIn
<1>13. {c, p} \cap TextIn(info) # {} => p = c
  BY <1>1, <1>2 DEF TextInPlace
<1>14. Hushed(f, info, d, c, b.cells[p], data[p]) /\ b.cells[p] \in {Idiom, data[p]}
  BY <1>11, <1>12, <1>13 DEF Hushed, Unseen
<1> QED  BY <1>2, <1>10, <1>14 DEF CopyCell, RawOf

LEMMA FilesPassed ==
  ASSUME NEW S, NEW fixups, NEW at, NEW cells, NEW binds, NEW n, NEW r, PassOk(S, fixups, at, cells, binds, n, r)
  PROVE  /\ r.labels \in Seq(S) /\ Grown(traps, r.labels)
         /\ CellsOk(fixups, at, cells, binds, n, r) /\ StagedOk(fixups, at, binds, n, r)
BY DEF PassOk, LabelsOk

LEMMA PatchCopyLinks ==
  ASSUME LoadInv, LinkInv, PatchCopy, UNCHANGED <<focus, dir>>
  PROVE  LinkInv'
<1>1. load.step = "patch" /\ load.step \in Under /\ load.base \in Bases
  BY DEF PatchCopy, Under, LoadInv
<1>2. UNCHANGED <<streamSymbol, space, content, imageOf>>
  BY DEF PatchCopy
<1>3. PICK f, info, raw : f = load.file /\ info = load.info /\ raw = RawOf(f)
  OBVIOUS
<1>4. /\ IsInfo(f, info) /\ OfBuffer /\ load.way = "buffer" /\ load.data = raw
      /\ load.mixed \/ staged = <<>>
  BY <1>1, <1>3 DEF LinkInv, UnderInv, BufferInv, OfFile, OfBuffer
<1>5. PICK toRebase, toBind : toRebase = FiledAt(info, info.rebases, raw) /\ toBind = FiledAt(info, info.binds, raw)
  OBVIOUS
<1>6. InFile(Info.rebases) = toRebase /\ InFile(Info.binds) = toBind /\ DataCells = RawCells(raw)
  BY <1>3, <1>4, <1>5 DEF InFile, FiledAt, Info, DataCells, RawCells
<1>7. PICK r : r = Passed(info.rebases, toRebase, RawCells(raw), FALSE)
  OBVIOUS
<1>8. PICK b : b = Passed(info.binds, toBind, r.cells, TRUE)
  OBVIOUS
<1>9. IF Stopped(toRebase) THEN LoadFails /\ UNCHANGED <<traps, staged>>
      ELSE /\ traps' = b.labels
           /\ staged' = staged \o r.staged \o (IF Stopped(toBind) THEN <<>> ELSE b.staged)
           /\ IF Stopped(toBind) THEN LoadFails
              ELSE load' = [load EXCEPT !.step = "map", !.data = Scanned(info, b.cells, Len(raw))]
  BY <1>3, <1>4, <1>6, <1>7, <1>8 DEF PatchCopy, Patched, Info
<1>10. traps \in Seq(Names) /\ load.info = info /\ info.rebases \in {info.rebases, info.binds}
       /\ info.binds \in {info.rebases, info.binds} /\ TRUE \in BOOLEAN /\ FALSE \in BOOLEAN
  BY <1>3 DEF LinkInv, ThreadInv
<1>11. PassDone(info.rebases, toRebase, RawCells(raw), FALSE, r)
  BY <1>3, <1>4, <1>5, <1>7, <1>10, FiledPass, Zenon
<1>12. PassDone(info.binds, toBind, r.cells, TRUE, b)
  BY <1>3, <1>4, <1>5, <1>8, <1>10, FiledPass, Zenon
<1>13. b.labels \in Seq(Names) /\ Grown(traps, b.labels)
  BY <1>12, FilesPassed DEF PassDone
<1>14. ASSUME More, load'.step = "failed", StagedInv'
       PROVE  LinkInv'
  <2>1. Around /\ space'[load.base] = space[load.base] /\ Same(load.base)
    BY <1>2, <1>14 DEF Around, Elsewhere, Same, LinkInv, ThreadInv
  <2> QED  BY <1>14, <2>1, FailStays
<1>15. CASE Stopped(toRebase)
  <2>1. More /\ load'.step = "failed" /\ StagedInv'
    BY <1>9, <1>10, <1>15, NoMore, ListStays DEF LoadFails
  <2> QED  BY <1>14, <2>1
<1>16. CASE ~Stopped(toRebase) /\ Stopped(toBind)
  <2>1. More /\ load'.step = "failed"
    BY <1>9, <1>13, <1>16 DEF More, LoadFails
  <2>2. PICK S, R : staged \in Seq(S) /\ r.staged \in Seq(R)
    BY <1>11, FilesPassed DEF PassDone, StagedOk, LinkInv, StagedInv
  <2>3. staged \in Seq(S \cup R) /\ r.staged \in Seq(S \cup R)
    BY <2>2
  <2>4. staged \o r.staged \o <<>> \in Seq(S \cup R)
    BY <2>3
  <2>5. staged' = staged \o r.staged \o <<>>
    BY <1>9, <1>16
  <2>6. StagedInv'
    BY <2>4, <2>5 DEF StagedInv
  <2> QED  BY <1>14, <2>1, <2>6
<1>17. CASE ~Stopped(toRebase) /\ ~Stopped(toBind)
  <2>1. PICK data : data = Scanned(info, b.cells, Len(raw))
    OBVIOUS
  <2>2. traps' = b.labels /\ staged' = staged \o r.staged \o b.staged
        /\ load' = [load EXCEPT !.step = "map", !.data = data]
    BY <1>9, <1>17, <2>1
  <2>3. load'.step = "map" /\ load'.data = data /\ Onward
    BY <1>1, <2>2 DEF LoadInv, Onward
  <2>4. Around /\ space'[load.base] = space[load.base] /\ Same(load.base)
    BY <1>2, <1>13, <2>2 DEF Around, Elsewhere, Same, LinkInv, ThreadInv, More
  <2>5. ThreadInv' /\ OwnInv'
    BY <2>4, OthersStay
  <2>6. UnderInv'
    <3>1. (OfFile \/ OfBuffer)'
      BY <1>4, <2>3 DEF OfBuffer, Onward
    <3> QED  BY <1>1, <2>3, <3>1, UnderStays
  <2>7. FileInv'
    BY <2>3 DEF FileInv
  <2>8. /\ CellsOk(info.rebases, toRebase, RawCells(raw), FALSE, Len(info.rebases), r)
        /\ StagedOk(info.rebases, toRebase, FALSE, Len(info.rebases), r)
    BY <1>11, <1>17, FilesPassed DEF PassDone
  <2>9. /\ CellsOk(info.binds, toBind, r.cells, TRUE, Len(info.binds), b)
        /\ StagedOk(info.binds, toBind, TRUE, Len(info.binds), b)
    BY <1>12, <1>17, FilesPassed DEF PassDone
  <2>10. IsPatched(f, info, LoadDigest, load.base, load.table, b.labels, data)
    <3>1. DOMAIN data = 0..Len(raw) - 1
      BY <2>1, <2>8, <2>9 DEF Scanned, CellsOk, RawCells
    <3>2. raw = SliceOf(f).raw
      BY <1>3 DEF RawOf
    <3>3. Inside(info, info.rebases)
      <4>1. PICK fixups : fixups = info.rebases
        OBVIOUS
      <4>2. Inside(info, fixups)
        BY <1>4, <1>5, <1>17, <3>2, <4>1, FiledInside
      <4> QED  BY <4>1, <4>2
    <3>4. Inside(info, info.binds)
      <4>1. PICK fixups : fixups = info.binds
        OBVIOUS
      <4>2. Inside(info, fixups)
        BY <1>4, <1>5, <1>17, <3>2, <4>1, FiledInside
      <4> QED  BY <4>1, <4>2
    <3>5. ASSUME WellLinked(f, info), NEW c \in 0..SpanOf(info) - 1, NEW i \in DOMAIN info.segs, Brings(info, i, c)
          PROVE  CopyCell(f, info, LoadDigest, load.base, load.table, b.labels, data, i, c)
      <4>1. \A d : CopyCell(f, info, d, load.base, load.table, b.labels, data, i, c)
        BY <1>3, <1>4, <1>5, <1>10, <1>17, <2>1, <2>8, <2>9, <3>5, CopyPassed
      <4> QED  BY <4>1
    <3> QED  BY <1>3, <3>1, <3>3, <3>4, <3>5 DEF IsPatched
  <2>11. IsKept(f, info, load.mixed, load.base, load.table, b.labels, staged') /\ StagedInv'
    <3>1. PICK left, own : left = staged /\ own = r.staged \o b.staged
      OBVIOUS
    <3>2. PICK L, R, B : left \in Seq(L) /\ r.staged \in Seq(R) /\ b.staged \in Seq(B)
      BY <2>8, <2>9, <3>1 DEF StagedOk, LinkInv, StagedInv
    <3>3. PICK T : T = L \cup R \cup B
      OBVIOUS
    <3>4. left \in Seq(T) /\ r.staged \in Seq(T) /\ b.staged \in Seq(T)
      BY <3>2, <3>3
    <3>5. own \in Seq(T) /\ staged' = left \o own /\ staged' \in Seq(T)
      <4>1. left \o r.staged \o b.staged = left \o (r.staged \o b.staged)
        <5>1. ASSUME NEW x \in Seq(T), NEW y \in Seq(T), NEW z \in Seq(T)
              PROVE  x \o y \o z = x \o (y \o z)
          BY Grouped
        <5>2. PICK y, z : y = r.staged /\ z = b.staged
          OBVIOUS
        <5>3. left \o y \o z = left \o (y \o z)
          BY <3>4, <5>1, <5>2
        <5> QED  BY <5>2, <5>3
      <4> QED  BY <2>2, <3>1, <3>4, <4>1
    <3>6. ASSUME WellLinked(f, info), NEW c \in 0..SpanOf(info) - 1, ~Brought(info, c), load.mixed => Filled(info, c)
          PROVE  Settled(info, load.base, load.table, b.labels, c, 0, LateCell(info, staged', c, 0))
      <4>1. c \in Nat /\ \A i \in DOMAIN info.segs : ~Brings(info, i, c)
        BY <3>6 DEF Brought
      <4>2. /\ Settled(info, load.base, load.table, b.labels, c, 0, LateCell(info, own, c, 0))
            /\ ~Untouched(info, c) => LateHits(info, own, c) # {}
        <5>1. raw = SliceOf(f).raw
          BY <1>3 DEF RawOf
        <5> QED  BY <1>4, <1>5, <1>10, <1>17, <2>8, <2>9, <3>1, <3>6, <4>1, <5>1, LateSettles
      <4>3. LateCell(info, left \o own, c, 0) = LateCell(info, own, c, 0)
        <5>1. CASE load.mixed
          <6>1. LateHits(info, own, c) # {}
            BY <3>6, <4>2, <5>1 DEF Filled
          <6> QED  BY <3>4, <3>5, <6>1, LeftBefore
        <5>2. CASE ~load.mixed
          <6>1. left = <<>>
            BY <1>4, <3>1, <5>2
          <6>2. left \o own = own
            BY <3>5, <6>1
          <6> QED  BY <6>2
        <5> QED  BY <5>1, <5>2
      <4> QED  BY <3>5, <4>2, <4>3
    <3> QED  BY <3>5, <3>6 DEF IsKept, StagedInv
  <2>12. BufferInv'
    <3>1. IsPatched(load'.file, load'.info, LoadDigest', load'.base, load'.table, traps', load'.data)
      BY <1>3, <2>2, <2>3, <2>10 DEF Onward, LoadDigest
    <3>2. IsKept(load'.file, load'.info, load'.mixed, load'.base, load'.table, traps', staged')
      BY <1>3, <2>2, <2>3, <2>11 DEF Onward
    <3> QED  BY <2>3, <3>1, <3>2 DEF BufferInv
  <2> QED  BY <2>5, <2>6, <2>7, <2>11, <2>12 DEF LinkInv
<1> QED  BY <1>15, <1>16, <1>17

LEMMA StageLinks ==
  ASSUME LoadInv, LinkInv, ApplyStaged, UNCHANGED <<focus, dir>>
  PROVE  LinkInv'
<1>1. load.step = "stage" /\ load.step \in Under /\ load.base \in Bases
  BY DEF ApplyStaged, Under, LoadInv
<1>2. UNCHANGED <<streamSymbol, space, imageOf, traps>> /\ More
  BY NoMore DEF ApplyStaged, LinkInv, ThreadInv
<1>3. PICK f, info : f = load.file /\ info = load.info
  OBVIOUS
<1>4. PICK cells : cells = content[load.base]
  OBVIOUS
<1>5. OfBuffer /\ load.way = "buffer" /\ space[load.base] = "loading"
  BY <1>1 DEF LinkInv, UnderInv, OfFile, OfBuffer
<1>6. IsZero(info, cells)
  BY <1>1, <1>3, <1>4 DEF LinkInv, FileInv
<1>7. load'.step = "copy" /\ load'.data = load.data /\ Onward
  BY <1>1, StepFields DEF ApplyStaged, Onward
<1>8. content' = [content EXCEPT ![load.base] = StagedInto(cells)] /\ staged' = <<>>
  BY <1>1, <1>4 DEF ApplyStaged, LinkInv, ThreadInv
<1>9. Around /\ content'[load.base] = StagedInto(cells)
  BY <1>1, <1>2, <1>8 DEF Around, Elsewhere, Same, LinkInv, ThreadInv
<1>10. ThreadInv' /\ OwnInv'
  BY <1>2, <1>5, <1>9, OthersStay
<1>11. UnderInv'
  <2>1. (OfFile \/ OfBuffer)'
    BY <1>5, <1>7 DEF OfBuffer, Onward
  <2> QED  BY <1>1, <1>2, <1>5, <1>7, <2>1, UnderStays
<1>12. FileInv'
  BY <1>7 DEF FileInv
<1>13. IsPlaced(f, info, load.mixed, load.base, load.table, traps, StagedInto(cells))
  <2>1. IsKept(f, info, load.mixed, load.base, load.table, traps, staged)
    BY <1>1, <1>3, <1>5 DEF LinkInv, BufferInv
  <2>2. Spans(info, StagedInto(cells))
    BY <1>6 DEF IsZero, Spans, StagedInto
  <2>3. \A c \in 0..SpanOf(info) - 1 : StagedInto(cells)[c] = LateCell(info, staged, c, 0)
    <3> TAKE c \in 0..SpanOf(info) - 1
    <3>1. c \in DOMAIN cells /\ cells[c] = 0
      BY <1>6 DEF IsZero, Spans
    <3> QED  BY <1>3, <3>1, StagedIntoIs
  <2> QED  BY <2>1, <2>2, <2>3 DEF IsKept, IsPlaced
<1>14. BufferInv'
  <2>1. IsPatched(load'.file, load'.info, LoadDigest', load'.base, load'.table, traps', load'.data)
    BY <1>1, <1>2, <1>5, <1>7 DEF Onward, LinkInv, BufferInv, LoadDigest
  <2>2. IsPlaced(load'.file, load'.info, load'.mixed, load'.base, load'.table, traps', content'[load'.base])
    BY <1>2, <1>3, <1>7, <1>9, <1>13 DEF Onward
  <2> QED  BY <1>7, <2>1, <2>2 DEF BufferInv
<1>15. StagedInv'
  <2>1. <<>> \in Seq({})
    OBVIOUS
  <2> QED  BY <1>8, <2>1 DEF StagedInv
<1> QED  BY <1>10, <1>11, <1>12, <1>14, <1>15 DEF LinkInv

-----------------------------------------------------------------------------
\* A copy that reaches as far as every segment says is one that the other reader would not find short.
LEMMA NotShort ==
  ASSUME NEW info, NEW raw, Len(raw) \in Nat, NEW data, DOMAIN data = 0..Len(raw) - 1,
         ~\E i \in DOMAIN info.segs : /\ info.segs[i].name # "__PAGEZERO" /\ info.segs[i].filesize # 0
                                      /\ info.segs[i].fileoff + info.segs[i].filesize > Cardinality(DOMAIN data)
  PROVE  ~Short(info, raw)
<1>1. Cardinality(DOMAIN data) = Len(raw)
  <2>1. PICK n \in Nat : n = Len(raw)
    OBVIOUS
  <2>2. Cardinality(0..n - 1) = n
    <3>1. Cardinality(0..n - 1) = IF 0 > n - 1 THEN 0 ELSE (n - 1) - 0 + 1
      BY FS_Interval
    <3> QED  BY <3>1
  <2> QED  BY <2>1, <2>2
<1> QED  BY <1>1 DEF Short

\* A cell that is not brought holds nothing that the scan would change, unless anything may be there.
LEMMA UnbroughtEnds ==
  ASSUME NEW f, NEW info, IsInfo(f, info), WellLinked(f, info), NEW base \in Int, NEW table, NEW labels,
         NEW c \in 0..SpanOf(info) - 1, ~Brought(info, c), NEW u, Settled(info, base, table, labels, c, 0, u), NEW d
  PROVE  CellEnds(f, info, d, base, table, labels, c, u)
<1>1. PICK raw : raw = SliceOf(f).raw
  OBVIOUS
<1>2. InfoTyped(info, raw) /\ SegmentsApart(info, raw) /\ c \in Nat
  BY <1>1, InfosTyped DEF WellLinked
<1>3. FileCell(info, RawCells(raw), c, 0) = 0
  BY <1>2, FileCellIs DEF Brought
<1>4. PICK old : old = FileCell(info, RawCells(raw), c, 0) /\ Settled(info, base, table, labels, c, old, u)
  BY <1>3
<1>5. LinkedCell(f, info, c)
  BY DEF WellLinked
<1>6. ASSUME Hushed(f, info, d, c, u, u)
      PROVE  CellEnds(f, info, d, base, table, labels, c, u)
  <2>1. old \in {ReadCell(info, raw, c, 0), FileCell(info, RawCells(raw), c, 0)}
    BY <1>4
  <2>2. CASE u = Still /\ Stray(f, info, d, c)
    BY <2>2 DEF CellEnds
  <2>3. CASE ~(u = Still /\ Stray(f, info, d, c))
    BY <1>1, <1>4, <1>6, <2>1, <2>3, EndsWell
  <2> QED  BY <2>2, <2>3
<1>7. CASE c \notin TextIn(info)
  BY <1>6, <1>7 DEF Hushed
<1>8. CASE c \in TextIn(info)
  <2>1. PICK e : e = SliceOf(f).linked[c]
    OBVIOUS
  <2>2. c \in DOMAIN SliceOf(f).linked /\ (\/ e.k = "file" /\ Plain(info, raw, c, e.v) /\ e.v # Idiom
                                           \/ e.k = "free")
    BY <1>1, <1>5, <1>8, <2>1 DEF LinkedCell, Brought
  <2>3. CASE e.k = "free"
    BY <2>1, <2>2, <2>3 DEF CellEnds, CellIs
  <2>4. CASE Plain(info, raw, c, e.v) /\ e.v # Idiom
    <3>1. u = old /\ old = e.v
      BY <1>4, <2>4, PlainSettles DEF Plain, LinkedFrom
    <3> QED  BY <1>6, <2>4, <3>1 DEF Hushed
  <2> QED  BY <2>2, <2>3, <2>4
<1> QED  BY <1>7, <1>8

LEMMA CopyLinks ==
  ASSUME LoadInv, LinkInv, CopySegments, UNCHANGED <<focus, dir>>
  PROVE  LinkInv'
<1>1. load.step = "copy" /\ load.step \in Under /\ load.base \in Bases
  BY DEF CopySegments, Under, LoadInv
<1>2. UNCHANGED <<streamSymbol, staged, traps>> /\ More
  BY NoMore DEF CopySegments, LinkInv, ThreadInv
<1>3. PICK f, info, raw, data : f = load.file /\ info = load.info /\ raw = RawOf(f) /\ data = load.data
  OBVIOUS
<1>4. load.way = "buffer" /\ IsInfo(f, info)
  BY <1>1, <1>3 DEF LinkInv, UnderInv, OfFile, OfBuffer
<1>5. CASE Leaks /\ UNCHANGED <<content, imageOf>>
  <2>1. load'.step = "failed" /\ Around /\ space'[load.base] # "owned"
    BY <1>1, <1>2, <1>5 DEF Leaks, LoadFails, Around, Elsewhere, Same, LinkInv, ThreadInv, LoadInv
  <2> QED  BY <1>2, <2>1, FailStays, ListStays
<1>6. ASSUME ~\E i \in DOMAIN Info.segs : /\ Info.segs[i].name # "__PAGEZERO" /\ Info.segs[i].filesize # 0
                                    /\ Info.segs[i].fileoff + Info.segs[i].filesize > Cardinality(DOMAIN load.data),
             content' = [content EXCEPT ![load.base] = [c \in MapCells |-> FileCell(Info, load.data, c, @[c])]],
             Owned(load.base)
      PROVE  LinkInv'
  <2>1. IsPatched(f, info, LoadDigest, load.base, load.table, traps, data)
    BY <1>1, <1>3, <1>4 DEF LinkInv, BufferInv
  <2>2. InfoTyped(info, raw) /\ DOMAIN data = 0..Len(raw) - 1 /\ Len(raw) \in Nat
    <3>1. InfoTyped(info, RawOf(f))
      BY <1>4, InfosTyped DEF RawOf
    <3>2. InfoTyped(info, raw)
      BY <1>3, <3>1
    <3>3. DOMAIN data = 0..Len(raw) - 1
      BY <1>3, <2>1 DEF IsPatched
    <3> QED  BY <3>2, <3>3 DEF InfoTyped
  <2>3. ~Short(info, raw)
    <3>1. ~\E i \in DOMAIN info.segs : /\ info.segs[i].name # "__PAGEZERO" /\ info.segs[i].filesize # 0
                                       /\ info.segs[i].fileoff + info.segs[i].filesize > Cardinality(DOMAIN data)
      BY <1>3, <1>6 DEF Info
    <3> QED  BY <2>2, <3>1, NotShort
  <2>4. WellLinked(f, info) /\ SegmentsApart(info, raw)
    <3>1. Sound(info, raw)
      BY <2>1, <2>3 DEF IsPatched, Sound
    <3>2. WellLinked(f, info)
      BY <1>3, <1>4, <3>1, InfosTyped DEF RawOf
    <3> QED  BY <1>3, <3>2 DEF WellLinked, RawOf
  <2>5. PICK cells : cells = [c \in MapCells |-> FileCell(info, data, c, content[load.base][c])]
    OBVIOUS
  <2>6. content' = [content EXCEPT ![load.base] = cells] /\ DOMAIN cells = 0..SpanOf(info) - 1
    BY <1>1, <1>3, <1>6, <2>5 DEF LinkInv, ThreadInv, Info, MapCells
  <2>7. ASSUME NEW c \in 0..SpanOf(info) - 1, load.mixed => Filled(info, c)
        PROVE  CellEnds(f, info, LoadDigest, load.base, load.table, traps, c, cells[c])
    <3>1. cells[c] = FileCell(info, data, c, content[load.base][c])
      BY <1>3, <2>5 DEF MapCells, Info
    <3>2. load.base \in Int /\ c \in Nat
      <4>1. load.base \in Int
        BY <1>1, LinkAssumption
      <4> QED  BY <4>1
    <3>3. CASE Brought(info, c)
      <4>1. PICK i \in DOMAIN info.segs : Brings(info, i, c)
        BY <3>3 DEF Brought
      <4>2. PICK p : p = OffsetOf(info, i, c)
        OBVIOUS
      <4>3. cells[c] = data[p]
        BY <2>2, <2>4, <3>1, <3>2, <4>1, <4>2, FileCellIs
      <4>4. PICK old : old = FileCell(info, RawCells(raw), c, 0)
        OBVIOUS
      <4>5. old = RawCells(raw)[p]
        BY <2>2, <2>4, <3>2, <4>1, <4>2, <4>4, FileCellIs
      <4>6. PICK d : d = LoadDigest /\ CopyCell(f, info, d, load.base, load.table, traps, data, i, c)
        BY <2>1, <2>4, <4>1 DEF IsPatched
      <4>7. PICK u : Settled(info, load.base, load.table, traps, c, old, u) /\ Hushed(f, info, d, c, u, data[p])
        BY <1>3, <4>2, <4>5, <4>6 DEF CopyCell
      <4>8. raw = SliceOf(f).raw /\ old \in {ReadCell(info, raw, c, 0), FileCell(info, RawCells(raw), c, 0)}
        BY <1>3, <4>4 DEF RawOf
      <4>9. CASE data[p] = Still /\ Stray(f, info, d, c)
        BY <4>3, <4>6, <4>9 DEF CellEnds
      <4>10. CASE ~(data[p] = Still /\ Stray(f, info, d, c))
        <5>1. CellEnds(f, info, d, load.base, load.table, traps, c, data[p])
          BY <1>4, <2>4, <3>2, <4>7, <4>8, <4>10, EndsWell
        <5> QED  BY <4>3, <4>6, <5>1
      <4> QED  BY <4>9, <4>10
    <3>4. CASE ~Brought(info, c)
      <4>1. cells[c] = content[load.base][c]
        BY <2>2, <2>4, <3>1, <3>2, <3>4, FileCellIs DEF Brought
      <4>2. IsPlaced(f, info, load.mixed, load.base, load.table, traps, content[load.base])
        BY <1>1, <1>3, <1>4 DEF LinkInv, BufferInv
      <4>3. Settled(info, load.base, load.table, traps, c, 0, cells[c])
        BY <2>4, <2>7, <3>4, <4>1, <4>2 DEF IsPlaced
      <4> QED  BY <1>4, <2>4, <3>2, <3>4, <4>3, UnbroughtEnds
    <3> QED  BY <3>3, <3>4
  <2>8. \A c \in DOMAIN cells :
          \/ CellEnds(load.file, load.info, LoadDigest, load.base, load.table, traps, c, cells[c])
          \/ load.mixed /\ ~Filled(load.info, c)
    BY <1>3, <2>6, <2>7
  <2> QED  BY <1>1, <1>2, <1>6, <2>6, <2>8, ReadyLinks
<1> QED  BY <1>5, <1>6 DEF CopySegments

LEMMA LoadLinks ==
  ASSUME LoadInv, LinkInv, LoadNext, UNCHANGED <<focus, dir>>
  PROVE  LinkInv'
BY PatchCopyLinks, MapLinks, StageLinks, CopyLinks, ReadLinks, RebaseLinks, BindLinks, QuietLinks DEF LoadNext

-----------------------------------------------------------------------------
(***************************************************************************)
(* What the callers of the loader do around a load.                        *)
(***************************************************************************)
LEMMA SomeStay ==
  ASSUME LinkInv, DOMAIN content' = Bases, streamSymbol' \in StreamSymbols, UNCHANGED <<traps, focus, dir>>,
         \A b \in Bases : space'[b] = "owned" => space[b] = "owned" /\ Same(b)
  PROVE  ThreadInv' /\ OwnInv'
<1>1. ThreadInv' /\ traps \in Seq(Names) /\ OwnInv
  BY DEF LinkInv, ThreadInv
<1>2. More
  BY <1>1, NoMore
<1>3. ASSUME NEW b \in Bases, space'[b] = "owned"
      PROVE  OwnedEnds(b)'
  <2>1. space[b] = "owned" /\ Same(b)
    BY <1>3
  <2> QED  BY <1>1, <1>2, <1>3, <2>1, OwnersStay
<1> QED  BY <1>1, <1>3 DEF OwnInv

LEMMA NotUnder ==
  ASSUME load'.step \notin Under
  PROVE  UnderInv' /\ FileInv' /\ BufferInv'
BY DEF UnderInv, FileInv, BufferInv, Under

LEMMA UnmapLinks ==
  ASSUME LinkInv, NEW S, Unmapped(S), load' = NoLoad \/ (load' = load /\ load.step = "none"),
         streamSymbol' \in StreamSymbols, UNCHANGED <<staged, traps, focus, dir>>
  PROVE  LinkInv'
<1>1. load'.step = "none" /\ "none" \notin Under
  BY DEF NoLoad, Under
<1>2. DOMAIN content' = Bases /\ \A b \in Bases : space'[b] = "owned" => space[b] = "owned" /\ Same(b)
  BY DEF Unmapped, Same
<1>3. ThreadInv' /\ OwnInv'
  BY <1>2, SomeStay
<1> QED  BY <1>1, <1>3, NotUnder, ListStays DEF LinkInv

LEMMA BeginLinks ==
  ASSUME LinkInv, NEW f \in MachFiles, NEW base \in Bases, NEW way \in {"file", "buffer"}, NEW claim, NEW table,
         BeginLoad(f, base, way, claim, table), table = TableNow, UNCHANGED <<focus, dir>>
  PROVE  LinkInv'
<1>1. PICK info : /\ info = ParsedReader(f) \/ info = ParsedWhole(f)
                  /\ Begun(f, base, way, claim, table, info)
  BY DEF BeginLoad
<1>2. load.step = "none" /\ UNCHANGED <<space, content, imageOf, staged, traps>>
  BY DEF BeginLoad
<1>3. streamSymbol' \in StreamSymbols /\ (info.err = "none" => IsInfo(f, info))
  <2>1. info.symbol \in StreamSymbols /\ (info.err = "none" => IsInfo(f, info))
    BY <1>1, ParsedInfo DEF LinkInv, ThreadInv
  <2> QED  BY <1>1, <2>1 DEF Begun
<1>4. ThreadInv' /\ OwnInv'
  <2>1. DOMAIN content' = Bases /\ \A b \in Bases : space'[b] = "owned" => space[b] = "owned" /\ Same(b)
    BY <1>2 DEF LinkInv, ThreadInv, Same
  <2> QED  BY <1>2, <1>3, <2>1, SomeStay
<1>6. StagedInv'
  BY <1>2, ListStays
<1>7. CASE info.err # "none"
  <2>1. load'.step = "failed" /\ "failed" \notin Under
    BY <1>1, <1>7 DEF Begun, LoadFails, Under
  <2> QED  BY <1>4, <1>6, <2>1, NotUnder DEF LinkInv
<1>8. CASE info.err = "none"
  <2>1. PICK s, data : s = (IF way = "file" THEN "map" ELSE "patch") /\ data = (IF way = "file" THEN <<>> ELSE SliceCells(f))
    OBVIOUS
  <2>2. load' = [step |-> s, file |-> f, base |-> base, way |-> way, claim |-> claim, table |-> table,
                 info |-> info, mixed |-> way = "buffer" /\ staged # <<>>, data |-> data]
    BY <1>1, <1>8, <2>1 DEF Begun
  <2>3. /\ load'.step = s /\ load'.file = f /\ load'.base = base /\ load'.way = way /\ load'.claim = claim
        /\ load'.table = table /\ load'.info = info /\ load'.mixed = (way = "buffer" /\ staged # <<>>)
        /\ load'.data = data
    BY <2>2
  <2>4. UnderInv'
    <3>1. s \in {"map", "patch"} /\ (OfFile \/ OfBuffer)'
      BY <2>1, <2>3 DEF OfFile, OfBuffer
    <3>2. table = TableNow'
      BY TableStays
    <3> QED  BY <1>3, <1>8, <2>3, <3>1, <3>2 DEF UnderInv
  <2>5. FileInv'
    BY <2>1, <2>3 DEF FileInv
  <2>6. BufferInv'
    <3>1. SliceCells(f) = RawOf(f)
      BY RawIs
    <3>2. way = "buffer" => s = "patch" /\ data = RawOf(f)
      BY <2>1, <3>1
    <3> QED  BY <1>2, <2>3, <3>2 DEF BufferInv
  <2> QED  BY <1>4, <1>6, <2>4, <2>5, <2>6 DEF LinkInv
<1> QED  BY <1>7, <1>8

-----------------------------------------------------------------------------
\* The loader's focus: its table is the shims', without exports.
LEMMA LoaderLinks ==
  ASSUME LoadInv, LinkInv, slots \in {<<>>, ShimNames}, focus = "loader", LoaderNext, UNCHANGED <<focus, dir>>
  PROVE  LinkInv'
<1>1. CASE LoadAny
  <2>1. PICK f \in MachFiles, b \in Bases, way \in {"file", "buffer"}, claim \in {"none"} \cup DOMAIN SiteTable :
          BeginLoad(f, b, way, claim, ShimTable(Slotted, <<>>))
    BY <1>1 DEF LoadAny
  <2>2. PICK table : table = ShimTable(Slotted, <<>>)
    OBVIOUS
  <2>3. table = TableNow
    BY <2>2, AllSlotted DEF TableNow, ExportsNow
  <2> QED  BY <2>1, <2>2, <2>3, BeginLinks
<1>2. CASE LoadOver
  <2>1. load'.step = "none" /\ "none" \notin Under
    BY <1>2 DEF LoadOver, NoLoad, Under
  <2>2. UNCHANGED <<streamSymbol, space, content, imageOf, staged, traps>>
    BY <1>2 DEF LoadOver
  <2>3. ThreadInv' /\ OwnInv'
    <3>1. DOMAIN content' = Bases /\ streamSymbol' \in StreamSymbols
      BY <2>2 DEF LinkInv, ThreadInv
    <3>2. \A b \in Bases : space'[b] = "owned" => space[b] = "owned" /\ Same(b)
      BY <2>2 DEF Same
    <3> QED  BY <2>2, <3>1, <3>2, SomeStay
  <2> QED  BY <2>1, <2>2, <2>3, NotUnder, ListStays DEF LinkInv
<1>3. CASE DropImage
  <2>1. PICK b \in Bases : Unmapped({b})
    BY <1>3 DEF DropImage
  <2>2. load.step = "none" /\ UNCHANGED <<streamSymbol, load, staged, traps>>
    BY <1>3 DEF DropImage
  <2>3. "none" \notin Under
    BY DEF Under
  <2>4. DOMAIN content' = Bases /\ \A c \in Bases : space'[c] = "owned" => space[c] = "owned" /\ Same(c)
    BY <2>1 DEF Unmapped, Same
  <2>5. ThreadInv' /\ OwnInv'
    BY <2>2, <2>4, SomeStay DEF LinkInv, ThreadInv
  <2> QED  BY <2>2, <2>3, <2>5, NotUnder, ListStays DEF LinkInv
<1>4. CASE LoadNext
  BY <1>4, LoadLinks
<1> QED  BY <1>1, <1>2, <1>3, <1>4 DEF LoaderNext

\* A step that leaves all of it alone.
LEMMA LinksStay ==
  ASSUME LinkInv, UNCHANGED <<machVars, focus, dir>>
  PROVE  LinkInv'
<1>1. TableNow' = TableNow
  BY TableStays
<1>2. UNCHANGED <<streamSymbol, space, content, imageOf, load, staged, traps, dir>>
  BY DEF machVars
<1>3. ThreadInv' /\ StagedInv'
  BY <1>2 DEF LinkInv, ThreadInv, StagedInv
<1>4. UnderInv'
  BY <1>1, <1>2 DEF LinkInv, UnderInv, OfFile, OfBuffer
<1>5. FileInv'
  BY <1>2 DEF LinkInv, FileInv
<1>6. BufferInv'
  BY <1>2 DEF LinkInv, BufferInv, LoadDigest
<1>7. OwnInv'
  BY <1>1, <1>2 DEF LinkInv, OwnInv, OwnedEnds
<1> QED  BY <1>3, <1>4, <1>5, <1>6, <1>7 DEF LinkInv

-----------------------------------------------------------------------------
(***************************************************************************)
(* A session's loads.                                                      *)
(***************************************************************************)
\* The steps between the find and the drop leave the loader, the shims' slots and the directory alone.
LEMMA CallLeaves ==
  ASSUME SapInitCall \/ InitReturns \/ Exchange \/ EntryReturns \/ DisposeReturns \/ Sign \/ SignFails
         \/ Finish \/ Teardown \/ TeardownReturns \/ ShimCalled
  PROVE  UNCHANGED <<machVars, slots, dir>>
<1>. USE DEF Lower, shimVars, Process
<1>1. CASE SapInitCall \/ InitReturns
  BY <1>1 DEF SapInitCall, InitReturns, RestOfReturn
<1>2. CASE Exchange
  BY <1>2 DEF Exchange
<1>3. CASE EntryReturns
  BY <1>3 DEF EntryReturns, RestOfReturn
<1>4. CASE DisposeReturns
  BY <1>4 DEF DisposeReturns
<1>5. CASE Sign \/ SignFails
  BY <1>5 DEF Sign, SignFails
<1>6. CASE Finish \/ Teardown \/ TeardownReturns
  BY <1>6 DEF Finish, Teardown, TeardownReturns
<1>7. CASE ShimCalled
  BY <1>7 DEF ShimCalled, GuestCalls, Malloc, Calloc, Realloc, Fill, Open, ReadIcxs, IteratorNext, Once, Asks,
       RestOfShims, RestOfTelling
<1> QED  BY <1>1, <1>2, <1>3, <1>4, <1>5, <1>6, <1>7

LEMMA BeforeLeaves ==
  ASSUME Begin \/ ResetAndServe \/ Again \/ (MapRegion /\ ~NewFails)
  PROVE  UNCHANGED <<machVars, slots, dir>>
BY DEF Begin, ResetAndServe, ResetShims, Again, MapRegion, Lower, shimVars, Process

LEMMA SlotsStep ==
  ASSUME CourseInv, SlotsInv, SapNext
  PROVE  SlotsInv'
<1>. USE DEF Go
<1>1. CASE SapInitCall \/ InitReturns \/ Exchange \/ EntryReturns \/ DisposeReturns \/ Sign \/ SignFails
           \/ Finish \/ Teardown \/ TeardownReturns \/ ShimCalled
  <2>1. slots' = slots /\ phase' \notin {"core", "loadCore", "kit"}
    BY <1>1, CallLeaves, CallStep DEF Talking
  <2> QED  BY <2>1 DEF SlotsInv
<1>2. CASE Begin \/ ResetAndServe \/ Again \/ (MapRegion /\ ~NewFails)
  <2>1. phase' \notin {"core", "loadCore", "kit"}
    BY <1>2 DEF Begin, ResetAndServe, Again, MapRegion, AfterRegion, Regions
  <2> QED  BY <1>2, <2>1, BeforeLeaves DEF SlotsInv
<1>3. CASE NewFails
  BY <1>3 DEF NewFails, Dropped, shimVars, SlotsInv
<1>4. CASE Exports /\ ~NewFails
  <2>1. slots' = Slotted
    BY <1>4 DEF Exports, ExportsFound
  <2>2. slots' = ShimNames
    BY <2>1, AllSlotted DEF SlotsInv
  <2> QED  BY <2>2 DEF SlotsInv
<1>5. CASE LoadCore \/ LoadKit
  BY <1>5 DEF LoadCore, LoadKit, LoadImage, shimVars, SlotsInv
<1>6. CASE Loading /\ ~NewFails
  BY <1>6 DEF Loading, shimVars, sapVars, SlotsInv
<1>7. CASE FindEntries \/ DropRuntime
  BY <1>7 DEF FindEntries, Dropped, DropRuntime, shimVars, SlotsInv
<1> QED  BY <1>1, <1>2, <1>3, <1>4, <1>5, <1>6, <1>7 DEF SapNext, MapRegion

\* The files that a session loads from are there.
LEMMA FilesThere ==
  ASSUME CourseInv, ThreadInv, phase \notin {"idle", "over"} => {Dirs[dir].core, Dirs[dir].kit} \subseteq MachFiles, SapNext
  PROVE  dir' = dir /\ (phase' \notin {"idle", "over"} => {Dirs[dir].core, Dirs[dir].kit} \subseteq MachFiles)
<1>. USE DEF Go
<1>1. CASE SapInitCall \/ InitReturns \/ Exchange \/ EntryReturns \/ DisposeReturns \/ Sign \/ SignFails
           \/ Finish \/ Teardown \/ TeardownReturns \/ ShimCalled
  BY <1>1, CallLeaves, CallStep DEF Talking
<1>2. CASE Begin
  <2>1. phase' # "over" => "none" \notin {Dirs[dir].core, Dirs[dir].kit}
    BY <1>2 DEF Begin
  <2>2. {Dirs[dir].core, Dirs[dir].kit} \subseteq MachFiles \cup {"none"}
    BY LinkAssumption DEF ThreadInv
  <2> QED  BY <1>2, <2>1, <2>2, BeforeLeaves
<1>3. CASE ResetAndServe \/ Again \/ (MapRegion /\ ~NewFails)
  <2>1. phase' \in {"idle", "over"} \/ phase \notin {"idle", "over"}
    BY <1>3 DEF ResetAndServe, Again, MapRegion, Regions
  <2> QED  BY <1>3, <2>1, BeforeLeaves
<1>4. CASE NewFails
  BY <1>4 DEF NewFails, Dropped, Rest, Process
<1>5. CASE (Exports /\ ~NewFails) \/ LoadCore \/ LoadKit \/ (Loading /\ ~NewFails)
  BY <1>5 DEF Exports, ExportsFound, LoadCore, LoadKit, LoadImage, Loading, Process, sapVars
<1>6. CASE FindEntries \/ DropRuntime
  BY <1>6 DEF FindEntries, Dropped, DropRuntime, Process, Rest
<1> QED  BY <1>1, <1>2, <1>3, <1>4, <1>5, <1>6 DEF SapNext, MapRegion

LEMMA SessionLinks ==
  ASSUME LoadInv, CourseInv, ExportInv, ImageInv, LinkInv, SlotsInv, HeldInv, focus = "session", SapNext,
         UNCHANGED focus
  PROVE  LinkInv'
<1>1. staged = <<>> /\ dir' = dir /\ dir \in DOMAIN Dirs /\ streamSymbol \in StreamSymbols
  BY FilesThere DEF HeldInv, LinkInv, ThreadInv
<1>2. phase \notin {"idle", "over"} => {Dirs[dir].core, Dirs[dir].kit} \subseteq MachFiles
  BY DEF HeldInv
<1>3. CASE UNCHANGED machVars
  BY <1>1, <1>3, LinksStay
<1>4. ASSUME Dropped, streamSymbol' \in StreamSymbols
      PROVE  LinkInv'
  <2>1. PICK S : Unmapped(S)
    BY <1>4 DEF Dropped
  <2>2. load' = NoLoad /\ UNCHANGED <<staged, traps>>
    BY <1>4 DEF Dropped
  <2> QED  BY <1>1, <1>4, <2>1, <2>2, UnmapLinks
<1>5. CASE Exports
  <2>1. streamSymbol' = CoreInfo.symbol /\ Dirs[dir].core \in MachFiles
    BY <1>2, <1>5 DEF Exports, ExportsFound
  <2>2. streamSymbol' \in StreamSymbols
    BY <1>1, <2>1, ParsedInfo DEF CoreInfo
  <2>3. CASE NewFails
    BY <1>4, <2>2, <2>3 DEF NewFails
  <2>4. CASE ~NewFails
    <3>1. UNCHANGED <<space, content, imageOf, load, staged, traps>> /\ phase = "exports"
      BY <1>5, <2>4 DEF Exports, ExportsFound
    <3>2. load.step = "none" /\ "none" \notin Under
      BY <3>1 DEF ImageInv, Under
    <3>3. DOMAIN content' = Bases /\ \A b \in Bases : space'[b] = "owned" => space[b] = "owned" /\ Same(b)
      BY <3>1 DEF LinkInv, ThreadInv, Same
    <3>4. ThreadInv' /\ OwnInv'
      BY <1>1, <2>2, <3>1, <3>3, SomeStay
    <3> QED  BY <3>1, <3>2, <3>4, NotUnder, ListStays DEF LinkInv
  <2> QED  BY <2>3, <2>4
<1>6. ASSUME NEW from \in {"core", "kit"}, NEW to, NEW f \in MachFiles, NEW base \in Bases, NEW name, LoadImage(from, to, f, base, name)
      PROVE  LinkInv'
  <2>1. PICK claim, table : claim = Genuine[name] /\ table = ShimTable(slots, found) /\ BeginLoad(f, base, "file", claim, table)
    BY <1>6 DEF LoadImage
  <2>2. phase \in {"core", "kit"}
    BY <1>6 DEF LoadImage
  <2>3. slots = ShimNames /\ found = Exported(dir)
    BY <2>2 DEF SlotsInv, ExportInv, Making
  <2>4. table = TableNow
    BY <2>1, <2>3 DEF TableNow, ExportsNow
  <2>5. "file" \in {"file", "buffer"}
    OBVIOUS
  <2> QED  BY <1>1, <2>1, <2>4, <2>5, BeginLinks
<1>7. CASE LoadCore
  <2>1. phase = "core" /\ LoadImage("core", "loadCore", Dirs[dir].core, CorefpBase, "core")
    BY <1>7 DEF LoadCore, LoadImage
  <2> QED  BY <1>2, <1>6, <2>1, SapAssumption
<1>8. CASE LoadKit
  <2>1. phase = "kit" /\ LoadImage("kit", "loadKit", Dirs[dir].kit, KitBase, "kit")
    BY <1>8 DEF LoadKit, LoadImage
  <2> QED  BY <1>2, <1>6, <2>1, SapAssumption
<1>9. CASE NewFails /\ streamSymbol' = streamSymbol
  BY <1>1, <1>4, <1>9 DEF NewFails
<1>10. CASE Loading
  <2>1. CASE LoadNext
    BY <1>1, <2>1, LoadLinks
  <2>2. CASE load.step = "loaded" /\ load' = NoLoad /\ UNCHANGED <<streamSymbol, space, content, imageOf, staged, traps>>
    <3>1. load'.step = "none" /\ "none" \notin Under
      BY <2>2 DEF NoLoad, Under
    <3>2. DOMAIN content' = Bases /\ \A b \in Bases : space'[b] = "owned" => space[b] = "owned" /\ Same(b)
      BY <2>2 DEF LinkInv, ThreadInv, Same
    <3>3. ThreadInv' /\ OwnInv'
      BY <1>1, <2>2, <3>2, SomeStay
    <3> QED  BY <2>2, <3>1, <3>3, NotUnder, ListStays DEF LinkInv
  <2> QED  BY <1>9, <1>10, <2>1, <2>2 DEF Loading
<1>11. CASE FindEntries
  <2>1. streamSymbol' = streamSymbol /\ (Dropped \/ UNCHANGED machVars)
    BY <1>11 DEF FindEntries, machVars
  <2> QED  BY <1>1, <1>3, <1>4, <2>1
<1>12. CASE DropRuntime
  <2>1. PICK S : Unmapped(S)
    BY <1>12 DEF DropRuntime
  <2>2. UNCHANGED <<streamSymbol, load, staged, traps>> /\ load.step = "none"
    BY <1>12 DEF DropRuntime, ImageInv
  <2> QED  BY <1>1, <2>1, <2>2, UnmapLinks
<1>13. CASE MapRegion
  <2>1. CASE NewFails
    <3>1. streamSymbol' = streamSymbol
      BY <1>13 DEF MapRegion, Lower, machVars
    <3> QED  BY <1>9, <2>1, <3>1
  <2>2. CASE ~NewFails
    BY <1>3, <1>13, <2>2, BeforeLeaves
  <2> QED  BY <2>1, <2>2
<1>14. CASE Begin \/ ResetAndServe \/ Again
  BY <1>3, <1>14, BeforeLeaves
<1> QED  BY <1>3, <1>5, <1>7, <1>8, <1>10, <1>11, <1>12, <1>13, <1>14, CallLeaves DEF SapNext

-----------------------------------------------------------------------------
\* A load's base is owned once it is loaded, or because it was before.
LEMMA OwnedHow ==
  ASSUME LoadInv, UnderInv', LoadNext, space'[load.base] = "owned"
  PROVE  Ready \/ UNCHANGED <<space, imageOf>>
<1>1. LoadMoves /\ load.base \in Bases /\ (GoesOn \/ Ready \/ Stops)
  BY LoadStepKeeps DEF LoadMoves, LoadInv
<1>2. CASE GoesOn
  <2>1. load'.step \in {"map", "patch"}
    <3>1. load'.step \in Under /\ load'.base = load.base
      BY <1>2 DEF GoesOn
    <3> QED  BY <3>1 DEF UnderInv
  <2>2. CASE PatchCopy
    BY <2>2 DEF PatchCopy
  <2>3. CASE ~PatchCopy
    <3>1. load'.step \notin {"map", "patch"}
      <4>. USE DEF LoadFails, Leaks, Owned
      <4>1. ASSUME NEW s \in Under \ {"map", "patch"}, LoadStep(s), load.step \in Under
            PROVE  load'.step \notin {"map", "patch"}
        <5>1. load'.step = s
          BY <4>1, StepFields
        <5> QED  BY <4>1, <5>1
      <4>2. load.step \in Under
        BY <1>1 DEF LoadMoves
      <4>3. CASE MapSpan
        <5>1. PICK s \in Under \ {"map", "patch"} : s = IF load.way = "file" THEN "read" ELSE "stage"
          BY DEF Under
        <5> QED  BY <4>1, <4>2, <4>3, <5>1 DEF MapSpan
      <4>4. CASE ApplyStaged \/ CopySegments \/ Neutralize
        BY <4>1, <4>2, <4>4 DEF ApplyStaged, CopySegments, Neutralize, Under
      <4>5. CASE ReadSegments
        BY <4>1, <4>2, <4>5 DEF ReadSegments, Under
      <4>6. CASE Rebase \/ Bind
        <5>1. Leaks \/ LoadStep("bind") \/ LoadStep("quiet")
          BY <4>6 DEF Rebase, Bind, PatchMapped, PatchWith
        <5>2. "bind" \in Under \ {"map", "patch"} /\ "quiet" \in Under \ {"map", "patch"}
          BY DEF Under
        <5> QED  BY <4>1, <4>2, <5>1, <5>2
      <4> QED  BY <2>3, <4>3, <4>4, <4>5, <4>6 DEF LoadNext
    <3> QED  BY <2>1, <3>1
  <2> QED  BY <2>2, <2>3
<1>3. CASE Stops
  <2>1. imageOf' = imageOf /\ load'.step = "failed"
    BY <1>3 DEF Stops
  <2>2. space' = space \/ space' = [space EXCEPT ![load.base] = "leaked"]
    <3>. USE DEF LoadFails, Leaks, Owned
    <3>1. \A s : LoadStep(s) => load'.step = s
      BY <1>1, StepFields DEF LoadMoves
    <3>2. CASE PatchCopy \/ ApplyStaged
      BY <3>2 DEF PatchCopy, ApplyStaged
    <3>3. CASE MapSpan
      <4>1. (IF load.way = "file" THEN "read" ELSE "stage") # "failed"
        OBVIOUS
      <4> QED  BY <2>1, <3>1, <3>3, <4>1 DEF MapSpan
    <3>4. CASE CopySegments \/ Neutralize
      BY <2>1, <3>4 DEF CopySegments, Neutralize
    <3>5. CASE ReadSegments
      BY <3>5 DEF ReadSegments
    <3>6. CASE Rebase \/ Bind
      BY <3>6 DEF Rebase, Bind, PatchMapped, PatchWith
    <3> QED  BY <3>2, <3>3, <3>4, <3>5, <3>6 DEF LoadNext
  <2> QED  BY <1>1, <2>1, <2>2 DEF LoadInv
<1> QED  BY <1>1, <1>2, <1>3

HeldBy(b) == b \in ImagesIn(phase) /\ IsImage(CorefpBase, Dirs[dir].core)
LEMMA HeldStays ==
  ASSUME HeldInv, focus = "session", UNCHANGED <<focus, dir, staged>>, load'.step \in Under => load'.way = "file",
         phase' \notin {"idle", "over"} => {Dirs[dir].core, Dirs[dir].kit} \subseteq MachFiles,
         \A b \in Bases : space'[b] = "owned" => HeldBy(b)'
  PROVE  HeldInv'
BY DEF HeldInv, HeldBy

LEMMA HeldStep ==
  ASSUME LoadInv, CourseInv, ImageInv, LinkInv, HeldInv, focus = "session", SapNext,
         UNCHANGED focus, LinkInv', ImageInv'
  PROVE  HeldInv'
<1>1. dir' = dir /\ (phase' \notin {"idle", "over"} => {Dirs[dir].core, Dirs[dir].kit} \subseteq MachFiles)
  BY FilesThere DEF HeldInv, LinkInv
<1>2. ASSUME UNCHANGED <<space, imageOf, load, staged>>, ImagesIn(phase) \subseteq ImagesIn(phase')
      PROVE  HeldInv'
  <2>1. ASSUME NEW b \in Bases, space'[b] = "owned" PROVE HeldBy(b)'
    <3>1. space[b] = "owned"
      BY <1>2, <2>1
    <3>2. b \in ImagesIn(phase') /\ IsImage(CorefpBase, Dirs[dir].core)
      BY <1>2, <3>1 DEF HeldInv
    <3>3. IsImage(CorefpBase, Dirs[dir].core)'
      BY <1>1, <1>2, <3>2 DEF IsImage
    <3> QED  BY <3>2, <3>3 DEF HeldBy, ImagesIn
  <2>2. load'.step \in Under => load'.way = "file"
    BY <1>2 DEF HeldInv
  <2> QED  BY <1>1, <1>2, <2>1, <2>2, HeldStays
<1>3. ASSUME Unmapped({b \in Bases : space[b] = "owned"}), load' = NoLoad, staged' = staged
      PROVE  HeldInv'
  <2>1. load'.step = "none" /\ "none" \notin Under
    BY <1>3 DEF NoLoad, Under
  <2>2. \A b \in Bases : space'[b] # "owned"
    BY <1>3 DEF Unmapped
  <2> QED  BY <1>1, <1>3, <2>1, <2>2, HeldStays
<1>4. CASE SapInitCall \/ InitReturns \/ Exchange \/ EntryReturns \/ DisposeReturns \/ Sign \/ SignFails
           \/ Finish \/ Teardown \/ TeardownReturns \/ ShimCalled
  <2>1. {phase, phase'} \subseteq {"made", "guest"} \cup Talking
    BY <1>4, CallStep
  <2>2. ImagesIn(phase) = ImagesIn(phase')
    BY <2>1 DEF ImagesIn, Whole, Talking, Regions
  <2> QED  BY <1>2, <1>4, <2>2, CallLeaves DEF machVars
<1>5. CASE Begin \/ ResetAndServe \/ Again
  <2>1. {phase, phase'} \subseteq {"idle", "reset", "exports", "over"}
    BY <1>5 DEF Begin, ResetAndServe, Again, Go
  <2>2. ImagesIn(phase) = ImagesIn(phase')
    BY <2>1 DEF ImagesIn, Whole, Talking, Regions
  <2> QED  BY <1>2, <1>5, <2>2, BeforeLeaves DEF machVars
<1>6. CASE Dropped
  BY <1>3, <1>6 DEF Dropped
<1>7. CASE Exports /\ ~NewFails
  <2>1. UNCHANGED <<space, imageOf, load, staged>> /\ phase = "exports" /\ phase' = "core"
    BY <1>7 DEF Exports, ExportsFound, Go
  <2>2. ImagesIn(phase) = ImagesIn(phase')
    BY <2>1 DEF ImagesIn, Whole, Talking, Regions
  <2> QED  BY <1>2, <2>1, <2>2
<1>8. CASE MapRegion /\ ~NewFails
  <2>1. phase \in Regions /\ phase' \in Regions \cup {"made"}
    BY <1>8 DEF MapRegion, AfterRegion, Regions, Go
  <2>2. ImagesIn(phase) = ImagesIn(phase')
    BY <2>1 DEF ImagesIn, Whole, Talking, Regions
  <2> QED  BY <1>2, <1>8, <2>2, BeforeLeaves DEF machVars
<1>9. CASE FindEntries /\ ~Dropped
  <2>1. UNCHANGED <<space, imageOf, load, staged>> /\ phase = "find" /\ phase' = "scratch"
    BY <1>9 DEF FindEntries, Go
  <2>2. ImagesIn(phase) = ImagesIn(phase')
    BY <2>1 DEF ImagesIn, Whole, Talking, Regions
  <2> QED  BY <1>2, <2>1, <2>2
<1>10. CASE DropRuntime
  <2>1. UNCHANGED <<load, staged>> /\ phase = "ending" /\ Unmapped({CorefpBase, KitBase})
    BY <1>10 DEF DropRuntime
  <2>2. ImagesIn(phase) = {CorefpBase, KitBase}
    BY <2>1 DEF ImagesIn, Whole, Talking
  <2>3. \A b \in Bases : space'[b] # "owned"
    BY <2>1, <2>2 DEF HeldInv, Unmapped
  <2> QED  BY <1>1, <2>1, <2>3, HeldStays DEF HeldInv
<1>11. ASSUME NEW from, NEW to, NEW f, NEW base, NEW name, LoadImage(from, to, f, base, name),
              (from = "core" /\ to = "loadCore") \/ (from = "kit" /\ to = "loadKit")
       PROVE  HeldInv'
  <2>1. PICK claim, table : BeginLoad(f, base, "file", claim, table)
    BY <1>11 DEF LoadImage
  <2>2. phase = from /\ phase' = to /\ UNCHANGED <<space, imageOf, staged>>
    BY <1>11, <2>1 DEF LoadImage, BeginLoad, Go
  <2>3. ImagesIn(phase) \subseteq ImagesIn(phase')
    BY <1>11, <2>2 DEF ImagesIn, Whole, Talking, Regions
  <2>4. load'.step \in Under => load'.way = "file"
    <3>1. PICK info : Begun(f, base, "file", claim, table, info)
      BY <2>1 DEF BeginLoad
    <3>2. CASE LoadFails
      BY <3>2 DEF LoadFails, Under
    <3>3. CASE ~LoadFails
      BY <3>1, <3>3 DEF Begun
    <3> QED  BY <3>2, <3>3
  <2>5. ASSUME NEW b \in Bases, space'[b] = "owned" PROVE HeldBy(b)'
    <3>1. b \in ImagesIn(phase') /\ IsImage(CorefpBase, Dirs[dir].core)
      BY <2>2, <2>3, <2>5 DEF HeldInv
    <3>2. IsImage(CorefpBase, Dirs[dir].core)'
      BY <1>1, <2>2, <3>1 DEF IsImage
    <3> QED  BY <3>1, <3>2 DEF HeldBy, ImagesIn
  <2> QED  BY <1>1, <2>2, <2>4, <2>5, HeldStays
<1>12. CASE LoadCore \/ LoadKit
  <2>1. CASE LoadCore
    BY <1>11, <2>1 DEF LoadCore
  <2>2. CASE LoadKit
    BY <1>11, <2>2 DEF LoadKit
  <2> QED  BY <1>12, <2>1, <2>2
<1>13. CASE /\ phase \in {"loadCore", "loadKit"} /\ load.step = "loaded" /\ load' = NoLoad
            /\ phase' = IF phase = "loadCore" THEN "kit" ELSE "find"
            /\ UNCHANGED <<space, imageOf, staged>>
  <2>1. load'.step = "none" /\ "none" \notin Under
    BY <1>13 DEF NoLoad, Under
  <2>2. ImagesIn(phase) = ImagesIn(phase')
    BY <1>13 DEF ImagesIn, Whole, Talking, Regions
  <2>3. ASSUME NEW b \in Bases, space'[b] = "owned" PROVE HeldBy(b)'
    <3>1. b \in ImagesIn(phase') /\ IsImage(CorefpBase, Dirs[dir].core)
      BY <1>13, <2>2, <2>3 DEF HeldInv
    <3>2. IsImage(CorefpBase, Dirs[dir].core)'
      BY <1>1, <1>13, <3>1 DEF IsImage
    <3> QED  BY <3>1, <3>2 DEF HeldBy, ImagesIn
  <2> QED  BY <1>1, <1>13, <2>1, <2>3, HeldStays
<1>14. CASE phase \in {"loadCore", "loadKit"} /\ LoadNext /\ UNCHANGED sapVars
  <2>1. LoadMoves /\ phase' = phase /\ load.step \in Under
    BY <1>14, LoadStepKeeps DEF LoadMoves, sapVars
  <2>2. load.base = BaseIn(phase) /\ load.file = FileIn(phase) /\ load.base \in Bases
    BY <2>1 DEF ImageInv, LoadInv
  <2>3. load.way = "file" /\ staged = <<>>
    BY <2>1 DEF HeldInv
  <2>4. staged' = staged /\ (load'.step \in Under => load'.way = "file")
    <3>1. OfFile
      BY <2>1, <2>3 DEF LinkInv, UnderInv, OfBuffer
    <3>2. load.step \notin {"patch", "stage", "copy"}
      BY <3>1 DEF OfFile
    <3>3. staged' = staged
      BY <1>14, <3>2 DEF LoadNext, PatchCopy, MapSpan, ApplyStaged, CopySegments, ReadSegments, Rebase, Bind,
           PatchMapped, Neutralize
    <3>4. \A s : LoadStep(s) => load'.way = load.way
      BY <2>1, StepFields
    <3>5. LoadFails \/ load' = [step |-> "loaded"] \/ \E s : LoadStep(s)
      BY <1>14, <3>2 DEF LoadNext, PatchCopy, MapSpan, ApplyStaged, CopySegments, ReadSegments, Rebase, Bind,
           PatchMapped, PatchWith, Neutralize, Owned, Leaks
    <3>6. LoadFails \/ load' = [step |-> "loaded"] => load'.step \notin Under
      BY DEF LoadFails, Under
    <3> QED  BY <2>3, <3>3, <3>4, <3>5, <3>6
  <2>5. ASSUME NEW b \in Bases, space'[b] = "owned" PROVE HeldBy(b)'
    <3>1. b \in ImagesIn(phase)
      <4>1. CASE b = load.base
        BY <1>14, <2>2, <4>1 DEF BaseIn, ImagesIn
      <4>2. CASE b # load.base
        BY <2>1, <2>5, <4>2 DEF LoadMoves, HeldInv
      <4> QED  BY <4>1, <4>2
    <3>2. CASE phase = "loadKit"
      <4>1. IsImage(CorefpBase, Dirs[dir].core)'
        BY <1>1, <2>1, <3>2 DEF ImageInv
      <4> QED  BY <2>1, <3>1, <4>1 DEF HeldBy, ImagesIn
    <3>3. CASE phase = "loadCore"
      <4>1. b = CorefpBase /\ load.base = CorefpBase
        BY <2>2, <3>1, <3>3 DEF BaseIn, ImagesIn
      <4>2. Ready \/ UNCHANGED <<space, imageOf>>
        BY <1>14, <2>5, <4>1, OwnedHow DEF LinkInv
      <4>3. CASE Ready
        <5>1. load'.step = "loaded"
          BY <4>3 DEF Ready
        <5>2. IsImage(BaseIn(phase), FileIn(phase))'
          BY <5>1 DEF ImageInv
        <5>3. BaseIn(phase)' = CorefpBase /\ FileIn(phase)' = Dirs[dir].core'
          BY <2>1, <3>3 DEF BaseIn, FileIn
        <5> QED  BY <2>1, <3>1, <5>2, <5>3 DEF HeldBy, ImagesIn
      <4>4. CASE UNCHANGED <<space, imageOf>>
        <5>1. IsImage(CorefpBase, Dirs[dir].core)
          BY <2>5, <4>4 DEF HeldInv
        <5>2. IsImage(CorefpBase, Dirs[dir].core)'
          BY <1>1, <4>4, <5>1 DEF IsImage
        <5> QED  BY <2>1, <3>1, <5>2 DEF HeldBy, ImagesIn
      <4> QED  BY <4>2, <4>3, <4>4
    <3> QED  BY <1>14, <3>2, <3>3
  <2> QED  BY <1>1, <2>4, <2>5, HeldStays
<1>15. CASE Loading /\ ~NewFails
  <2>1. phase \in {"loadCore", "loadKit"}
        /\ \/ LoadNext /\ UNCHANGED sapVars
           \/ /\ load.step = "loaded" /\ load' = NoLoad
              /\ phase' = IF phase = "loadCore" THEN "kit" ELSE "find"
              /\ UNCHANGED <<space, imageOf, staged>>
    BY <1>15 DEF Loading, Go
  <2> QED  BY <1>13, <1>14, <2>1
<1> QED  BY <1>4, <1>5, <1>6, <1>7, <1>8, <1>9, <1>10, <1>12, <1>15 DEF SapNext, NewFails

-----------------------------------------------------------------------------
\* The inductive invariant with the loader's part, and what it says of an image.
GuestLinkInv == GuestInv /\ LinkInv /\ SlotsInv /\ HeldInv

LEMMA InitLinks == Init => GuestLinkInv
<1> SUFFICES ASSUME Init
             PROVE  GuestLinkInv
  OBVIOUS
<1>1. /\ streamSymbol = NoSymbol /\ space = [b \in Bases |-> "free"] /\ content = [b \in Bases |-> <<>>]
      /\ load = NoLoad /\ staged = <<>> /\ traps = <<>> /\ dir \in DOMAIN Dirs /\ phase = "idle" /\ slots = <<>>
  BY DEF Init, SapInit, MachInit, ShimsInit
<1>2. load.step = "none" /\ "none" \notin Under
  BY <1>1 DEF NoLoad, Under
<1>3. ThreadInv
  BY <1>1 DEF ThreadInv, StreamSymbols
<1>4. UnderInv /\ FileInv /\ BufferInv
  BY <1>2 DEF UnderInv, FileInv, BufferInv, Under
<1>5. StagedInv /\ OwnInv
  <2>1. <<>> \in Seq({})
    OBVIOUS
  <2> QED  BY <1>1, <2>1 DEF StagedInv, OwnInv
<1>6. SlotsInv
  BY <1>1 DEF SlotsInv
<1>7. HeldInv
  BY <1>1, <1>2 DEF HeldInv
<1> QED  BY <1>3, <1>4, <1>5, <1>6, <1>7, InitGuest DEF GuestLinkInv, LinkInv

LEMMA LinkStep == GuestLinkInv /\ [Next]_sapAllVars => GuestLinkInv'
<1> SUFFICES ASSUME GuestLinkInv, [Next]_sapAllVars
             PROVE  GuestLinkInv'
  OBVIOUS
<1>1. GuestInv' /\ GuestInv /\ LinkInv /\ SlotsInv /\ HeldInv
  BY GuestStep DEF GuestLinkInv
<1>2. LoadInv /\ CourseInv /\ ExportInv
  BY <1>1 DEF GuestInv
<1>3. CASE focus = "session" /\ SapNext /\ UNCHANGED <<focus, loads>>
  <2>1. ImageInv /\ ImageInv'
    BY <1>1, <1>3 DEF GuestInv
  <2>2. LinkInv'
    BY <1>1, <1>2, <1>3, <2>1, SessionLinks
  <2>3. SlotsInv'
    BY <1>1, <1>2, <1>3, SlotsStep
  <2>4. HeldInv'
    BY <1>1, <1>2, <1>3, <2>1, <2>2, HeldStep
  <2> QED  BY <1>1, <2>2, <2>3, <2>4 DEF GuestLinkInv
<1>4. CASE focus = "loader" /\ LoaderNext /\ UNCHANGED <<focus, shimVars, talkVars, sapVars>>
  <2>1. UNCHANGED <<slots, dir, phase, focus>>
    BY <1>4 DEF shimVars, sapVars
  <2>2. LinkInv'
    BY <1>1, <1>2, <1>4, <2>1, LoaderLinks DEF SlotsInv
  <2>3. SlotsInv'
    BY <1>1, <2>1 DEF SlotsInv
  <2>4. HeldInv'
    BY <1>4, <2>1 DEF HeldInv
  <2> QED  BY <1>1, <2>2, <2>3, <2>4 DEF GuestLinkInv
<1>5. CASE UNCHANGED sapAllVars
  <2>1. UNCHANGED <<machVars, slots, dir, phase, focus>>
    BY <1>5 DEF sapAllVars, shimVars, sapVars
  <2>2. LinkInv'
    BY <1>1, <2>1, LinksStay
  <2>3. SlotsInv'
    BY <1>1, <2>1 DEF SlotsInv
  <2>4. HeldInv'
    <3>1. \A b, f : IsImage(b, f)' <=> IsImage(b, f)
      BY <2>1 DEF IsImage, machVars
    <3>2. UNCHANGED <<space, load, staged>>
      BY <2>1 DEF machVars
    <3> QED  BY <1>1, <2>1, <3>1, <3>2 DEF HeldInv, ImagesIn
  <2> QED  BY <1>1, <2>2, <2>3, <2>4 DEF GuestLinkInv
<1> QED  BY <1>3, <1>4, <1>5 DEF Next

\* What an import is bound to, told by the focus.
LEMMA ImportIs ==
  ASSUME GuestLinkInv, NEW b \in Bases, space[b] = "owned", NEW x, NEW v, BoundOk(TableNow, x, v, traps)
  PROVE  IF x.name \in CorefpExports /\ focus = "session"
              THEN v = SymbolIn(imageOf[CorefpBase].info, CorefpBase, x.name) + x.addend
         ELSE IF x.name \in DOMAIN Aliases THEN v = SlotOf(ShimNames, Aliases[x.name]) + x.addend
         ELSE IF x.name \in DataSymbols THEN v = ZeroPage ELSE Label(v, x.name)
<1>1. PICK exports, table : exports = ExportsNow /\ table = TableNow
  OBVIOUS
<1>2. /\ DOMAIN table = DOMAIN Aliases \cup DOMAIN exports
      /\ \A n \in DOMAIN table : table[n] = IF n \in DOMAIN exports THEN exports[n] ELSE SlotOf(ShimNames, Aliases[n])
  BY <1>1 DEF TableNow, ShimTable
<1>3. IF focus = "session" THEN /\ DOMAIN exports = CorefpExports
                                /\ \A n \in CorefpExports : exports[n] = SymbolIn(imageOf[CorefpBase].info, CorefpBase, n)
      ELSE DOMAIN exports = {}
  <2>1. CASE focus = "session"
    <3>1. exports = Exported(dir)
      BY <1>1, <2>1 DEF ExportsNow
    <3>2. imageOf[CorefpBase].info = TableOf(Dirs[dir].core)
      BY <2>1 DEF GuestLinkInv, HeldInv, IsImage
    <3> QED  BY <2>1, <3>1, <3>2 DEF Exported
  <2>2. CASE focus # "session"
    BY <1>1, <2>2 DEF ExportsNow
  <2> QED  BY <2>1, <2>2
<1>4. BoundOk(table, x, v, traps)
  BY <1>1
<1>5. CASE x.name \in DOMAIN table
  <2>1. v = table[x.name] + x.addend
    BY <1>4, <1>5 DEF BoundOk
  <2> QED  BY <1>2, <1>3, <1>5, <2>1
<1>6. CASE x.name \notin DOMAIN table
  <2>1. IF x.name \in DataSymbols THEN v = ZeroPage
        ELSE \E k \in 1..Len(traps) : traps[k] = x.name /\ v = StubAddress(k)
    BY <1>4, <1>6 DEF BoundOk, IsData
  <2>2. DOMAIN traps = 1..Len(traps)
    BY LenProperties DEF GuestLinkInv, LinkInv, ThreadInv
  <2>3. IF x.name \in DataSymbols THEN v = ZeroPage ELSE Label(v, x.name)
    BY <2>1, <2>2 DEF Label
  <2> QED  BY <1>2, <1>3, <1>6, <2>3
<1> QED  BY <1>5, <1>6

LEMMA ImagesEnd == GuestLinkInv => MachLoadedAsLinked
<1> SUFFICES ASSUME GuestLinkInv, NEW b \in Bases, space[b] = "owned", NEW c \in DOMAIN content[b]
             PROVE  \/ AsLinked(b, Linked(b), c)
                    \/ content[b][c] = Still /\ Stray(imageOf[b].file, imageOf[b].by.info, ByDigest(b), c)
                    \/ imageOf[b].by.mixed /\ ~Filled(imageOf[b].by.info, c)
  BY DEF MachLoadedAsLinked
<1>1. PICK linked, f, info, d, unseen :
        /\ linked = Linked(b) /\ f = imageOf[b].file /\ info = imageOf[b].by.info /\ d = ByDigest(b)
        /\ unseen = Unseen(f, info, d, c)
  OBVIOUS
<1>2. linked = SliceOf(f).linked
  BY <1>1 DEF Linked
<1>3. \/ CellEnds(f, info, d, b, TableNow, traps, c, content[b][c])
      \/ imageOf[b].by.mixed /\ ~Filled(info, c)
  BY <1>1 DEF GuestLinkInv, LinkInv, OwnInv, OwnedEnds, ByDigest
<1>4. ASSUME c \in DOMAIN linked, CellIs(b, info.base, TableNow, traps, unseen, linked[c], content[b][c])
      PROVE  CellAsLinked(b, c, linked[c], content[b][c])
  <2>1. PICK e, v : e = linked[c] /\ v = content[b][c]
    OBVIOUS
  <2>2. CellIs(b, info.base, TableNow, traps, unseen, e, v)
    BY <1>4, <2>1
  <2>3. CASE e.k = "import"
    <3>1. PICK x : x = [name |-> e.name, addend |-> e.v]
      OBVIOUS
    <3>2. BoundOk(TableNow, x, v, traps)
      BY <2>2, <2>3, <3>1 DEF CellIs
    <3>3. x.name = e.name /\ x.addend = e.v
      BY <3>1
    <3>4. IF e.name \in CorefpExports /\ focus = "session"
               THEN v = SymbolIn(imageOf[CorefpBase].info, CorefpBase, e.name) + e.v
          ELSE IF e.name \in DOMAIN Aliases THEN v = SlotOf(ShimNames, Aliases[e.name]) + e.v
          ELSE IF e.name \in DataSymbols THEN v = ZeroPage ELSE Label(v, e.name)
      BY <3>2, <3>3, ImportIs
    <3> QED  BY <2>1, <2>3, <3>4 DEF CellAsLinked
  <2>4. CASE e.k # "import"
    BY <1>1, <2>1, <2>2, <2>4 DEF CellAsLinked, CellIs
  <2> QED  BY <2>3, <2>4
<1>5. CASE CellEnds(f, info, d, b, TableNow, traps, c, content[b][c])
  <2>1. \/ c \in DOMAIN linked /\ CellIs(b, info.base, TableNow, traps, unseen, linked[c], content[b][c])
        \/ c \notin DOMAIN linked /\ content[b][c] = 0
        \/ content[b][c] = Still /\ Stray(f, info, d, c)
    BY <1>1, <1>2, <1>5 DEF CellEnds
  <2> QED  BY <1>1, <1>4, <2>1 DEF AsLinked
<1> QED  BY <1>1, <1>3, <1>5

\* Whatever was loaded before, whatever failed, whichever files there are, whichever way they are loaded
\* and whichever digest was claimed for them: an image of the loader holds in each cell what the linker
\* meant to be there, but for the cells that MachLoadedAsLinked names.
THEOREM ImagesAreAsLinked == Spec => []MachLoadedAsLinked
<1> QED  BY InitLinks, LinkStep, ImagesEnd, PTL DEF Spec
=============================================================================
