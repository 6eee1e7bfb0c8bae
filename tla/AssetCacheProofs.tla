-------------------------- MODULE AssetCacheProofs --------------------------
(***************************************************************************)
(* Proofs about AssetCache, for any number of processes and of assets and  *)
(* any sizes of them.                                                      *)
(***************************************************************************)
EXTENDS AssetCache, TLAPS

Shape ==
  /\ part \in [Assets -> {NoFile} \union SUBSET Nat]
  /\ cached \in [Assets -> {NoFile} \union SUBSET Nat]

TypeInv == TypeOK /\ Shape

LEMMA SizeFacts ==
  ASSUME NEW a \in Assets
  PROVE  /\ Size[a] \in Nat \ {0} /\ Whole(a) # NoFile /\ {} # NoFile
         /\ \A c \in SUBSET Whole(a) : c # NoFile /\ c \in SUBSET Nat
         /\ Whole(a) \in Content(a) /\ {} \in Content(a) /\ NoFile \in Content(a)
         /\ 1 \in Assets /\ N \in Nat \ {0}
         /\ (a # N => a + 1 \in Assets)
<1>1. Size[a] \in Nat \ {0} /\ N \in Nat \ {0}
  BY AssetAssumption DEF Assets
<1>2. \A c \in SUBSET Whole(a) : c # NoFile /\ c \in SUBSET Nat
  BY AssetAssumption DEF Assets, Whole
<1>3. Whole(a) \in SUBSET Whole(a) /\ {} \in SUBSET Whole(a)
  OBVIOUS
<1>4. 1 \in Assets /\ (a # N => a + 1 \in Assets)
  BY <1>1 DEF Assets
<1> QED  BY <1>1, <1>2, <1>3, <1>4 DEF Content

-----------------------------------------------------------------------------
(* Type correctness.                                                         *)

LEMMA InitTyped == Init => TypeInv
<1> SUFFICES ASSUME Init PROVE TypeInv
  OBVIOUS
<1>1. 1 \in Assets
  BY AssetAssumption DEF Assets
<1>2. Size[1] \in Nat \ {0}
  BY <1>1, SizeFacts
<1>3. \A a \in Assets : part[a] \in Content(a) /\ cached[a] \in Content(a)
  BY SizeFacts DEF Init
<1>4. Shape
  BY DEF Init, Shape
<1>5. /\ pc \in [Procs -> {"idle", "check", "open", "write", "seal", "rename", "load"}]
      /\ at \in [Procs -> Assets] /\ next \in [Procs -> Nat \ {0}]
      /\ open \in [Procs -> {"none", "part", "cached"}]
      /\ sum \in [Procs -> BOOLEAN] /\ solo \in [Procs -> BOOLEAN]
  BY <1>1 DEF Init
<1>6. ASSUME NEW p \in Procs PROVE next[p] <= Size[at[p]] + 1 /\ next[p] = 1 /\ open[p] = "none"
  <2>1. next[p] = 1 /\ at[p] = 1 /\ open[p] = "none"
    BY DEF Init
  <2>2. 1 <= Size[1] + 1
    BY <1>2
  <2> QED  BY <2>1, <2>2
<1> QED  BY <1>3, <1>4, <1>5, <1>6 DEF TypeInv, TypeOK

\* What a process has in hand, as TypeOK has it.
Hand(p) ==
  /\ next[p] <= Size[at[p]] + 1
  /\ next[p] # 1 => pc[p] \in {"write", "seal", "rename"}
  /\ open[p] # "none" => pc[p] = "write"
  /\ open[p] = "part" => part[at[p]] # NoFile
  /\ open[p] = "cached" => cached[at[p]] # NoFile

Fields ==
  /\ pc \in [Procs -> {"idle", "check", "open", "write", "seal", "rename", "load"}]
  /\ at \in [Procs -> Assets] /\ next \in [Procs -> Nat \ {0}]
  /\ open \in [Procs -> {"none", "part", "cached"}]
  /\ sum \in [Procs -> BOOLEAN] /\ solo \in [Procs -> BOOLEAN]

Dir == Shape /\ \A a \in Assets : part[a] \in Content(a) /\ cached[a] \in Content(a)

LEMMA TypeParts == TypeInv <=> Dir /\ Fields /\ \A p \in Procs : Hand(p)
BY DEF TypeInv, TypeOK, Dir, Fields, Hand

\* A step that leaves the files and their names alone, and moves p to a place of which the
\* type holds.
LEMMA QuietMove ==
  ASSUME TypeInv, NEW p \in Procs, UNCHANGED files, Fields',
         open' = open \/ open' = [open EXCEPT ![p] = "none"],
         \A q \in Procs \ {p} : pc'[q] = pc[q] /\ at'[q] = at[q] /\ next'[q] = next[q],
         next'[p] <= Size[at'[p]] + 1, open'[p] = "none",
         next'[p] # 1 => pc'[p] \in {"write", "seal", "rename"}
  PROVE  TypeInv'
<1>1. Dir'
  BY TypeParts DEF Dir, Shape, files
<1>2. \A q \in Procs : Hand(q)'
  <2> TAKE q \in Procs
  <2>1. CASE q = p
    BY <2>1 DEF Hand
  <2>2. CASE q # p
    <3>1. Hand(q) /\ open'[q] = open[q]
      BY <2>2, TypeParts DEF Fields
    <3> QED  BY <2>2, <3>1 DEF Hand, files
  <2> QED  BY <2>1, <2>2
<1> QED  BY <1>1, <1>2, TypeParts DEF Dir, Shape, Fields, Hand, TypeInv, TypeOK

LEMMA LeaveTyped ==
  ASSUME TypeInv, NEW p \in Procs, Leave(p, open)
  PROVE  Fields' /\ next'[p] = 1 /\ next'[p] <= Size[at'[p]] + 1 /\ open'[p] = "none"
<1>1. 1 \in Assets /\ Size[1] \in Nat \ {0}
  BY AssetAssumption DEF Assets
<1>2. Fields'
  BY <1>1, TypeParts DEF Fields, Leave, Move
<1>3. next'[p] = 1 /\ at'[p] = 1 /\ open'[p] = "none"
  BY TypeParts DEF Fields, Leave, Move
<1>4. 1 <= Size[1] + 1
  BY <1>1
<1> QED  BY <1>2, <1>3, <1>4

LEMMA LeaveStep ==
  ASSUME TypeInv, NEW p \in Procs, Leave(p, open), UNCHANGED files
  PROVE  TypeInv'
<1>1. \A q \in Procs \ {p} : pc'[q] = pc[q] /\ at'[q] = at[q] /\ next'[q] = next[q]
  BY TypeParts DEF Fields, Leave, Move
<1>2. open' = [open EXCEPT ![p] = "none"]
  BY DEF Leave
<1> QED  BY <1>1, <1>2, LeaveTyped, QuietMove

LEMMA RunStep ==
  ASSUME TypeInv, NEW p \in Procs, Run(p)
  PROVE  TypeInv'
<1>1. 1 \in Assets /\ Size[1] \in Nat \ {0}
  BY AssetAssumption DEF Assets
<1>2. Fields'
  BY <1>1, TypeParts DEF Fields, Run, Move
<1>3. \A q \in Procs \ {p} : pc'[q] = pc[q] /\ at'[q] = at[q] /\ next'[q] = next[q]
  BY TypeParts DEF Fields, Run, Move
<1>4. open' = open /\ open'[p] = "none" /\ UNCHANGED files
  BY TypeParts DEF Run, Hand
<1>5. next'[p] = 1 /\ at'[p] = 1
  BY TypeParts DEF Fields, Hand, Run, Move
<1>6. 1 <= Size[1] + 1
  BY <1>1
<1> QED  BY <1>2, <1>3, <1>4, <1>5, <1>6, QuietMove

LEMMA CheckStep ==
  ASSUME TypeInv, NEW p \in Procs, Check(p)
  PROVE  TypeInv'
<1>1. at[p] \in Assets /\ 1 \in Assets /\ (at[p] # N => at[p] + 1 \in Assets)
  BY TypeParts, SizeFacts DEF Fields
<1>2. Fields' /\ at'[p] \in Assets
  <2>1. solo' \in [Procs -> BOOLEAN]
    BY TypeParts DEF Fields, Check
  <2> QED  BY <1>1, <2>1, TypeParts DEF Fields, Check, Move
<1>3. \A q \in Procs \ {p} : pc'[q] = pc[q] /\ at'[q] = at[q] /\ next'[q] = next[q]
  BY TypeParts DEF Fields, Check, Move
<1>4. open' = open /\ open'[p] = "none" /\ UNCHANGED files /\ next'[p] = 1
  BY TypeParts DEF Check, Hand
<1>5. Size[at'[p]] \in Nat
  BY <1>2, SizeFacts
<1> QED  BY <1>2, <1>3, <1>4, <1>5, QuietMove

LEMMA CloseStep ==
  ASSUME TypeInv, NEW p \in Procs, Close(p)
  PROVE  TypeInv'
<1>1. Fields' /\ UNCHANGED files /\ open'[p] = "none" /\ pc'[p] = "seal"
  BY TypeParts DEF Fields, Close, Move
<1>2. \A q \in Procs \ {p} : pc'[q] = pc[q] /\ at'[q] = at[q] /\ next'[q] = next[q]
  BY TypeParts DEF Fields, Close, Move
<1>3. open' = [open EXCEPT ![p] = "none"] /\ next'[p] = next[p] /\ at'[p] = at[p]
  BY TypeParts DEF Fields, Close, Move
<1>4. next[p] <= Size[at[p]] + 1
  BY TypeParts DEF Hand
<1> QED  BY <1>1, <1>2, <1>3, <1>4, QuietMove

\* What an extraction that fails leaves.
LEMMA DiscardStep ==
  ASSUME TypeInv, NEW p \in Procs, Discard(p)
  PROVE  TypeInv'
<1> DEFINE a == at[p]
<1>1. a \in Assets /\ 1 \in Assets /\ Size[1] \in Nat \ {0} /\ NoFile \in Content(a)
  BY TypeParts, SizeFacts, AssetAssumption DEF Fields, Assets
<1>2. Fields'
  <2>1. Unlinked(a) \in [Procs -> {"none", "part", "cached"}]
    BY TypeParts DEF Unlinked, Fields
  <2>2. open' \in [Procs -> {"none", "part", "cached"}]
    BY <2>1 DEF Discard, Leave
  <2> QED  BY <1>1, <2>2, TypeParts DEF Fields, Discard, Leave, Move
<1>3. Dir'
  BY <1>1, TypeParts DEF Dir, Shape, Discard
<1>4. ASSUME NEW q \in Procs PROVE Hand(q)'
  <2>1. CASE q = p
    <3>1. next'[p] = 1 /\ at'[p] = 1 /\ open'[p] = "none"
      <4>1. open' = [Unlinked(a) EXCEPT ![p] = "none"]
        BY DEF Discard, Leave
      <4> QED  BY <4>1, TypeParts DEF Unlinked, Fields, Discard, Leave, Move
    <3>2. 1 <= Size[1] + 1
      BY <1>1
    <3> QED  BY <2>1, <3>1, <3>2 DEF Hand
  <2>2. CASE q # p
    <3>1. next'[q] = next[q] /\ at'[q] = at[q] /\ pc'[q] = pc[q]
      BY <2>2, TypeParts DEF Fields, Discard, Leave, Move
    <3>2. open'[q] = IF at[q] = a /\ open[q] = "part" THEN "none" ELSE open[q]
      BY <2>2, TypeParts DEF Fields, Discard, Leave, Unlinked
    <3>3. \A b \in Assets : b # a => part'[b] = part[b]
      BY <1>1, TypeParts DEF Dir, Shape, Discard
    <3>4. cached' = cached /\ Hand(q) /\ at[q] \in Assets
      BY TypeParts DEF Discard, Fields
    <3> QED  BY <3>1, <3>2, <3>3, <3>4 DEF Hand
  <2> QED  BY <2>1, <2>2
<1> QED  BY <1>2, <1>3, <1>4, TypeParts DEF Dir, Shape, Fields, Hand, TypeInv, TypeOK

LEMMA OpenStep ==
  ASSUME TypeInv, NEW p \in Procs, Open(p)
  PROVE  TypeInv'
<1> DEFINE a == at[p]
<1>1. /\ a \in Assets /\ Size[a] \in Nat \ {0} /\ {} \in Content(a) /\ {} # NoFile
  BY TypeParts, SizeFacts DEF Fields
<1>2. Fields' /\ at' = at /\ pc'[p] = "write" /\ next'[p] = 1 /\ open'[p] = "part"
  BY <1>1, TypeParts DEF Fields, Open, Move
<1>3. part'[a] = {} /\ (\A b \in Assets : b # a => part'[b] = part[b]) /\ cached' = cached
  BY <1>1, TypeParts DEF Dir, Shape, Open
<1>4. Dir'
  BY <1>1, <1>3, TypeParts DEF Dir, Shape, Open
<1>5. ASSUME NEW q \in Procs PROVE Hand(q)'
  <2>1. CASE q = p
    <3>1. 1 <= Size[a] + 1
      BY <1>1
    <3> QED  BY <2>1, <1>1, <1>2, <1>3, <3>1 DEF Hand
  <2>2. CASE q # p
    <3>1. next'[q] = next[q] /\ open'[q] = open[q] /\ pc'[q] = pc[q] /\ at[q] \in Assets
      BY <2>2, TypeParts DEF Fields, Open, Move
    <3>2. Hand(q)
      BY TypeParts
    <3> QED  BY <1>1, <1>2, <1>3, <3>1, <3>2 DEF Hand
  <2> QED  BY <2>1, <2>2
<1> QED  BY <1>2, <1>4, <1>5, TypeParts DEF Dir, Shape, Fields, Hand, TypeInv, TypeOK

LEMMA WithTyped ==
  ASSUME NEW a \in Assets, NEW c \in SUBSET Whole(a), NEW b \in Whole(a), NEW right \in BOOLEAN
  PROVE  With(c, b, right) \in SUBSET Whole(a)
BY DEF With

LEMMA WriteStep ==
  ASSUME TypeInv, NEW p \in Procs, NEW right \in BOOLEAN, Write(p, right)
  PROVE  TypeInv'
<1> DEFINE a == at[p]
           new(f) == With(f[a], next[p], right)
<1>1. a \in Assets /\ Size[a] \in Nat \ {0} /\ next[p] \in Whole(a)
  BY TypeParts, SizeFacts DEF Fields, Write, Whole
<1>2. /\ pc' = pc /\ at' = at /\ open' = open /\ pc[p] = "write"
      /\ next' = [next EXCEPT ![p] = @ + 1]
  BY DEF Write
<1>3. sum' \in [Procs -> BOOLEAN]
  <2>1. (sum[p] /\ right) \in BOOLEAN
    OBVIOUS
  <2> QED  BY <2>1, TypeParts DEF Fields, Write
<1>4. Fields'
  BY <1>2, <1>3, TypeParts DEF Fields, Write
<1>5. part' = part \/ (open[p] = "part" /\ part' = [part EXCEPT ![a] = new(part)])
  BY DEF Write
<1>6. \/ cached' = cached
      \/ (open[p] = "cached" /\ cached' = [cached EXCEPT ![a] = new(cached)])
  BY DEF Write
<1>7. open[p] = "part" => part[a] \in SUBSET Whole(a)
  BY <1>1, TypeParts DEF Hand, Dir, Content
<1>8. open[p] = "cached" => cached[a] \in SUBSET Whole(a)
  BY <1>1, TypeParts DEF Hand, Dir, Content
<1>9. /\ open[p] = "part" => new(part) \in SUBSET Whole(a)
      /\ open[p] = "cached" => new(cached) \in SUBSET Whole(a)
  BY <1>1, <1>7, <1>8, WithTyped
<1>10. \A c \in SUBSET Whole(a) : c # NoFile /\ c \in SUBSET Nat /\ c \in Content(a)
  BY <1>1, SizeFacts DEF Content
<1> HIDE DEF new
<1>11. /\ \A b \in Assets : part'[b] \in Content(b) /\ (part[b] # NoFile => part'[b] # NoFile)
       /\ part' \in [Assets -> {NoFile} \union SUBSET Nat]
  BY <1>1, <1>5, <1>9, <1>10, TypeParts DEF Dir, Shape
<1>12. /\ \A b \in Assets : cached'[b] \in Content(b) /\ (cached[b] # NoFile => cached'[b] # NoFile)
       /\ cached' \in [Assets -> {NoFile} \union SUBSET Nat]
  BY <1>1, <1>6, <1>9, <1>10, TypeParts DEF Dir, Shape
<1>13. Dir'
  BY <1>11, <1>12 DEF Dir, Shape
<1>14. ASSUME NEW q \in Procs PROVE Hand(q)'
  <2>1. next'[q] <= Size[at[q]] + 1
    <3>1. next[p] + 1 <= Size[a] + 1
      BY <1>1, TypeParts DEF Fields, Whole
    <3>2. next'[p] = next[p] + 1 /\ (q # p => next'[q] = next[q])
      BY <1>2, TypeParts DEF Fields
    <3>3. next[q] <= Size[at[q]] + 1
      BY TypeParts DEF Hand
    <3> QED  BY <3>1, <3>2, <3>3
  <2>2. next'[q] # 1 => pc[q] \in {"write", "seal", "rename"}
    BY <1>2, TypeParts DEF Fields, Hand
  <2>3. Hand(q) /\ at[q] \in Assets
    BY TypeParts DEF Fields
  <2> QED  BY <1>2, <2>1, <2>2, <2>3, <1>11, <1>12 DEF Hand
<1> QED  BY <1>4, <1>13, <1>14, TypeParts DEF Dir, Shape, Fields, Hand, TypeInv, TypeOK

LEMMA RenameStep ==
  ASSUME TypeInv, NEW p \in Procs, Rename(p)
  PROVE  TypeInv'
<1> DEFINE a == at[p]
<1>1. /\ a \in Assets /\ 1 \in Assets /\ NoFile \in Content(a) /\ (a # N => a + 1 \in Assets)
  BY TypeParts, SizeFacts DEF Fields
<1>2. pc[p] = "rename" /\ part[a] # NoFile /\ open[p] = "none"
  BY TypeParts DEF Rename, Hand
<1>3. Fields' /\ at'[p] \in Assets
  <2>1. Renamed(a) \in [Procs -> {"none", "part", "cached"}]
    BY TypeParts DEF Renamed, Fields
  <2>2. open' \in [Procs -> {"none", "part", "cached"}]
    BY <2>1 DEF Rename
  <2> QED  BY <1>1, <2>2, TypeParts DEF Fields, Rename, Move
<1>4. /\ cached'[a] = part[a] /\ part'[a] = NoFile
      /\ \A b \in Assets : b # a => part'[b] = part[b] /\ cached'[b] = cached[b]
  BY <1>1, TypeParts DEF Dir, Shape, Rename
<1>5. Dir'
  BY <1>1, <1>4, TypeParts DEF Dir, Shape, Rename
<1>6. ASSUME NEW q \in Procs PROVE Hand(q)'
  <2>1. CASE q = p
    <3>1. next'[p] = 1 /\ open'[p] = "none"
      BY <1>2, TypeParts DEF Renamed, Fields, Rename
    <3>2. Size[at'[p]] \in Nat
      BY <1>3, SizeFacts
    <3> QED  BY <2>1, <3>1, <3>2 DEF Hand
  <2>2. CASE q # p
    <3>1. next'[q] = next[q] /\ at'[q] = at[q] /\ pc'[q] = pc[q] /\ at[q] \in Assets
      BY <2>2, TypeParts DEF Fields, Rename, Move
    <3>2. open'[q] = IF at[q] = a /\ open[q] # "none"
                     THEN IF open[q] = "part" THEN "cached" ELSE "none"
                     ELSE open[q]
      BY DEF Rename, Renamed
    <3>3. Hand(q)
      BY TypeParts
    <3> QED  BY <1>2, <1>4, <3>1, <3>2, <3>3 DEF Hand
  <2> QED  BY <2>1, <2>2
<1> QED  BY <1>3, <1>5, <1>6, TypeParts DEF Dir, Shape, Fields, Hand, TypeInv, TypeOK

LEMMA SealStep ==
  ASSUME TypeInv, NEW p \in Procs, Seal(p)
  PROVE  TypeInv'
<1>1. CASE sum[p]
  <2>1. Fields' /\ UNCHANGED files /\ pc'[p] = "rename" /\ open' = open
    BY <1>1, TypeParts DEF Fields, Seal, Move
  <2>2. \A q \in Procs \ {p} : pc'[q] = pc[q] /\ at'[q] = at[q] /\ next'[q] = next[q]
    BY <1>1, TypeParts DEF Fields, Seal, Move
  <2>3. next'[p] = next[p] /\ at'[p] = at[p] /\ open[p] = "none"
    BY <1>1, TypeParts DEF Fields, Hand, Seal, Move
  <2>4. next[p] <= Size[at[p]] + 1
    BY TypeParts DEF Hand
  <2> QED  BY <2>1, <2>2, <2>3, <2>4, QuietMove
<1>2. CASE ~sum[p]
  BY <1>2, DiscardStep DEF Seal
<1> QED  BY <1>1, <1>2

LEMMA TypeStep == TypeInv /\ [Next]_vars => TypeInv'
<1> SUFFICES ASSUME TypeInv, [Next]_vars PROVE TypeInv'
  OBVIOUS
<1>1. CASE UNCHANGED vars
  BY <1>1 DEF TypeInv, TypeOK, Shape, Content, Whole, vars
<1>2. ASSUME NEW p \in Procs, Work(p) \/ Kill(p) PROVE TypeInv'
  <2>1. CASE Run(p)               BY <2>1, RunStep
  <2>2. CASE Check(p)             BY <2>2, CheckStep
  <2>3. CASE Open(p)              BY <2>3, OpenStep
  <2>4. CASE NotOpened(p)         BY <2>4, LeaveStep, DiscardStep DEF NotOpened
  <2>5. CASE Write(p, TRUE)       BY <2>5, WriteStep
  <2>6. CASE Write(p, FALSE)      BY <2>6, WriteStep
  <2>7. CASE Cut(p)               BY <2>7, DiscardStep DEF Cut
  <2>8. CASE Close(p)             BY <2>8, CloseStep
  <2>9. CASE Seal(p)              BY <2>9, SealStep
  <2>10. CASE Rename(p)           BY <2>10, RenameStep
  <2>11. CASE NotRenamed(p)       BY <2>11, LeaveStep DEF NotRenamed
  <2>12. CASE Load(p)             BY <2>12, LeaveStep DEF Load
  <2>13. CASE Kill(p)             BY <2>13, LeaveStep DEF Kill
  <2> QED
    BY <1>2, <2>1, <2>2, <2>3, <2>4, <2>5, <2>6, <2>7, <2>8, <2>9, <2>10, <2>11, <2>12, <2>13
       DEF Work
<1> QED  BY <1>1, <1>2 DEF Next

\* Every variable keeps its type, and a process that writes to a `.part`, or to one that has
\* been renamed meanwhile, has it (extract_to_file), for any number of processes.
THEOREM TypeCorrect == Spec => []TypeOK
<1>1. TypeInv => TypeOK
  BY DEF TypeInv
<1> QED  BY InitTyped, TypeStep, <1>1, PTL DEF Spec

-----------------------------------------------------------------------------
(* A process that fetches alone.                                             *)

\* What a process beside which no other has fetched has found and done.
Sole(p) ==
  /\ \A q \in Procs \ {p} : ~Fetching(q)
  /\ pc[p] # "load" => \A a \in Assets : a < at[p] => cached[a] = Whole(a)
  /\ pc[p] = "write" => open[p] = "part" /\ (sum[p] => part[at[p]] = 1..(next[p] - 1))
  /\ pc[p] = "seal" => (sum[p] => part[at[p]] = Whole(at[p]))
  /\ pc[p] = "rename" => part[at[p]] = Whole(at[p])
  /\ pc[p] = "load" => \A a \in Assets : cached[a] = Whole(a)

SoleInv == \A p \in Procs : solo[p] => Sole(p)

LEMMA InitSole == Init => SoleInv
BY DEF Init, SoleInv

\* A step that does not touch the files, of a process that goes on not fetching.
LEMMA OthersSole ==
  ASSUME TypeInv, SoleInv, NEW p \in Procs, UNCHANGED files, ~Fetching(p)',
         \A q \in Procs \ {p} : /\ pc'[q] = pc[q] /\ at'[q] = at[q] /\ next'[q] = next[q]
                                 /\ open'[q] = open[q] /\ sum'[q] = sum[q]
                                 /\ (solo'[q] => solo[q]),
         solo'[p] => Sole(p)'
  PROVE  SoleInv'
<1> SUFFICES ASSUME NEW q \in Procs, solo'[q], q # p PROVE Sole(q)'
  BY DEF SoleInv
<1>1. Sole(q)
  BY DEF SoleInv
<1> QED  BY <1>1 DEF Sole, Fetching, files

\* A step of a process that fetches: no other is sole.
LEMMA FetcherSole ==
  ASSUME TypeInv, SoleInv, NEW p \in Procs, Fetching(p),
         \A q \in Procs \ {p} : solo'[q] => solo[q],
         solo'[p] => Sole(p)'
  PROVE  SoleInv'
<1> SUFFICES ASSUME NEW q \in Procs, solo'[q], q # p PROVE FALSE
  BY DEF SoleInv
<1> QED  BY DEF SoleInv, Sole

LEMMA LeaveSole ==
  ASSUME TypeInv, SoleInv, NEW p \in Procs, NEW o \in [Procs -> {"none", "part", "cached"}],
         Leave(p, o)
  PROVE  /\ (Fetching(p) => SoleInv')
         /\ (UNCHANGED files /\ o = open => SoleInv')
<1>1. /\ \A q \in Procs \ {p} : /\ pc'[q] = pc[q] /\ at'[q] = at[q] /\ next'[q] = next[q]
                                /\ open'[q] = o[q] /\ sum'[q] = sum[q]
                                /\ (solo'[q] => solo[q])
      /\ ~solo'[p] /\ pc'[p] = "idle"
  BY TypeParts DEF Fields, Leave, Move
<1> QED  BY <1>1, OthersSole, FetcherSole DEF Fetching

LEMMA DiscardSole ==
  ASSUME TypeInv, SoleInv, NEW p \in Procs, Fetching(p), Discard(p)
  PROVE  SoleInv'
<1>1. Unlinked(at[p]) \in [Procs -> {"none", "part", "cached"}]
  BY TypeParts DEF Unlinked, Fields
<1> QED  BY <1>1, LeaveSole DEF Discard

LEMMA RunSole ==
  ASSUME TypeInv, SoleInv, NEW p \in Procs, Run(p)
  PROVE  SoleInv'
<1>1. \A q \in Procs \ {p} : /\ pc'[q] = pc[q] /\ at'[q] = at[q] /\ next'[q] = next[q]
                            /\ open'[q] = open[q] /\ sum'[q] = sum[q]
                            /\ solo'[q] = solo[q]
  BY TypeParts DEF Fields, Run, Move
<1>2. pc'[p] = "check" /\ at'[p] = 1 /\ UNCHANGED files
  BY TypeParts DEF Fields, Run, Move
<1>3. solo'[p] = \A q \in Procs \ {p} : ~Fetching(q)
  BY TypeParts DEF Fields, Run
<1>4. ASSUME solo'[p] PROVE Sole(p)'
  <2>1. \A q \in Procs \ {p} : ~Fetching(q)'
    BY <1>1, <1>3, <1>4 DEF Fetching
  <2>2. \A a \in Assets : ~(a < 1)
    BY AssetAssumption DEF Assets
  <2> QED  BY <1>2, <2>1, <2>2 DEF Sole
<1> QED  BY <1>1, <1>2, <1>4, OthersSole DEF Fetching

LEMMA CheckSole ==
  ASSUME TypeInv, SoleInv, NEW p \in Procs, Check(p)
  PROVE  SoleInv'
<1> DEFINE a == at[p]
<1>1. a \in Assets /\ N \in Nat \ {0} /\ UNCHANGED files /\ pc[p] = "check"
  BY TypeParts, SizeFacts DEF Fields, Check
<1>2. \A q \in Procs \ {p} : /\ pc'[q] = pc[q] /\ at'[q] = at[q] /\ next'[q] = next[q]
                            /\ open'[q] = open[q] /\ sum'[q] = sum[q]
  BY TypeParts DEF Fields, Check, Move
<1>3. CASE ~Intact(a)
  <2>1. pc'[p] = "open" /\ at'[p] = 1 /\ solo' = [q \in Procs |-> q = p /\ solo[p]]
    BY <1>3, TypeParts DEF Fields, Check, Move
  <2>2. \A q \in Procs \ {p} : ~solo'[q]
    BY <2>1
  <2>3. ASSUME solo'[p] PROVE Sole(p)'
    <3>1. solo[p] /\ Sole(p)
      BY <2>1, <2>3 DEF SoleInv
    <3>2. \A b \in Assets : ~(b < 1)
      BY AssetAssumption DEF Assets
    <3> QED  BY <1>2, <2>1, <3>1, <3>2 DEF Sole, Fetching
  <2> QED  BY <2>2, <2>3 DEF SoleInv
<1>4. CASE Intact(a)
  <2>1. /\ solo' = solo
        /\ (a = N => pc'[p] = "load" /\ at'[p] = 1)
        /\ (a # N => pc'[p] = "check" /\ at'[p] = a + 1)
    BY <1>4, TypeParts DEF Fields, Check, Move
  <2>2. ASSUME solo'[p] PROVE Sole(p)'
    <3>1. Sole(p) /\ \A b \in Assets : b < a => cached[b] = Whole(b)
      BY <1>1, <2>1, <2>2 DEF SoleInv, Sole
    <3>2. \A b \in Assets : b <= a => cached[b] = Whole(b)
      BY <1>1, <1>4, <3>1 DEF Intact, Assets
    <3>3. \A b \in Assets : (a = N => b <= a) /\ (b < a + 1 => b <= a)
      BY <1>1 DEF Assets
    <3> QED  BY <1>1, <1>2, <2>1, <3>1, <3>2, <3>3 DEF Sole, Fetching, files
  <2> QED  BY <1>1, <1>2, <2>1, <2>2, OthersSole DEF Fetching
<1> QED  BY <1>3, <1>4

\* What the next lemmas have in common: p fetches, alone, and goes on.
LEMMA GoesOn ==
  ASSUME TypeInv, SoleInv, NEW p \in Procs, Fetching(p), solo' = solo,
         \A q \in Procs \ {p} : pc'[q] = pc[q],
         solo[p] /\ Sole(p) /\ (\A q \in Procs \ {p} : ~Fetching(q)') => Sole(p)'
  PROVE  SoleInv'
<1>1. solo[p] => Sole(p)'
  <2> SUFFICES ASSUME solo[p] PROVE Sole(p)'
    OBVIOUS
  <2>1. Sole(p)
    BY DEF SoleInv
  <2>2. \A q \in Procs \ {p} : ~Fetching(q)'
    BY <2>1 DEF Sole, Fetching
  <2> QED  BY <2>1, <2>2
<1> QED  BY <1>1, FetcherSole

LEMMA OpenSole ==
  ASSUME TypeInv, SoleInv, NEW p \in Procs, Open(p)
  PROVE  SoleInv'
<1> DEFINE a == at[p]
<1>1. /\ a \in Assets /\ pc'[p] = "write" /\ at'[p] = a /\ next'[p] = 1 /\ open'[p] = "part"
      /\ part'[a] = {} /\ cached' = cached /\ solo' = solo /\ pc[p] = "open"
      /\ \A q \in Procs \ {p} : pc'[q] = pc[q]
  BY TypeParts DEF Dir, Shape, Fields, Open, Move
<1>2. {} = 1..(1 - 1)
  OBVIOUS
<1>3. Sole(p) /\ (\A q \in Procs \ {p} : ~Fetching(q)') => Sole(p)'
  BY <1>1, <1>2 DEF Sole
<1> QED  BY <1>1, <1>3, GoesOn DEF Fetching

LEMMA WriteSole ==
  ASSUME TypeInv, SoleInv, NEW p \in Procs, NEW right \in BOOLEAN, Write(p, right)
  PROVE  SoleInv'
<1> DEFINE a == at[p]
           n == next[p]
<1>1. /\ a \in Assets /\ n \in Nat \ {0} /\ pc' = pc /\ at' = at /\ open' = open /\ solo' = solo
      /\ pc[p] = "write" /\ next'[p] = n + 1
  BY TypeParts DEF Fields, Write
<1>2. sum'[p] => sum[p] /\ right
  BY TypeParts DEF Fields, Write
<1>3. open[p] = "part" => cached' = cached /\ part'[a] = With(part[a], n, right)
  BY <1>1, TypeParts DEF Dir, Shape, Write
<1>4. (1..(n - 1)) \union {n} = 1..(n + 1 - 1)
  BY <1>1
<1>5. ASSUME Sole(p), \A q \in Procs \ {p} : ~Fetching(q)' PROVE Sole(p)'
  <2>1. open[p] = "part" /\ (sum[p] => part[a] = 1..(n - 1)) /\ cached' = cached
    BY <1>1, <1>3, <1>5 DEF Sole
  <2>2. sum'[p] => part'[a] = 1..(next'[p] - 1)
    <3> SUFFICES ASSUME sum'[p] PROVE part'[a] = 1..(n + 1 - 1)
      BY <1>1
    <3>1. part'[a] = With(part[a], n, right) /\ part[a] = 1..(n - 1)
      BY <1>2, <1>3, <2>1
    <3>2. With(part[a], n, right) = part[a] \union {n}
      BY <1>2 DEF With
    <3> QED  BY <1>4, <3>1, <3>2
  <2> QED  BY <1>1, <1>5, <2>1, <2>2 DEF Sole
<1> QED  BY <1>1, <1>5, GoesOn DEF Fetching

LEMMA CloseSole ==
  ASSUME TypeInv, SoleInv, NEW p \in Procs, Close(p)
  PROVE  SoleInv'
<1> DEFINE a == at[p]
<1>1. /\ a \in Assets /\ pc[p] = "write" /\ pc'[p] = "seal" /\ at'[p] = a /\ solo' = solo
      /\ UNCHANGED files /\ sum' = sum
      /\ \A q \in Procs \ {p} : pc'[q] = pc[q]
  BY TypeParts DEF Fields, Close, Move
<1>2. Size[a] \in Nat /\ next[p] = Size[a] + 1
  BY <1>1, SizeFacts, TypeParts DEF Fields, Hand, Close
<1>3. 1..(next[p] - 1) = Whole(a)
  BY <1>2 DEF Whole
<1>4. Sole(p) /\ (\A q \in Procs \ {p} : ~Fetching(q)') => Sole(p)'
  BY <1>1, <1>3 DEF Sole, files
<1> QED  BY <1>1, <1>4, GoesOn DEF Fetching

LEMMA SealSole ==
  ASSUME TypeInv, SoleInv, NEW p \in Procs, Seal(p)
  PROVE  SoleInv'
<1>1. CASE sum[p]
  <2>1. /\ pc[p] = "seal" /\ pc'[p] = "rename" /\ at'[p] = at[p] /\ solo' = solo
        /\ UNCHANGED files
        /\ \A q \in Procs \ {p} : pc'[q] = pc[q]
    BY <1>1, TypeParts DEF Fields, Seal, Move
  <2>2. Sole(p) /\ (\A q \in Procs \ {p} : ~Fetching(q)') => Sole(p)'
    BY <1>1, <2>1 DEF Sole, files
  <2> QED  BY <2>1, <2>2, GoesOn DEF Fetching
<1>2. CASE ~sum[p]
  BY <1>2, DiscardSole DEF Seal, Fetching
<1> QED  BY <1>1, <1>2

LEMMA RenameSole ==
  ASSUME TypeInv, SoleInv, NEW p \in Procs, Rename(p)
  PROVE  SoleInv'
<1> DEFINE a == at[p]
<1>1. /\ a \in Assets /\ N \in Nat \ {0} /\ pc[p] = "rename" /\ solo' = solo
      /\ (a = N => pc'[p] = "load" /\ at'[p] = 1)
      /\ (a # N => pc'[p] = "open" /\ at'[p] = a + 1)
      /\ \A q \in Procs \ {p} : pc'[q] = pc[q]
  BY TypeParts, SizeFacts DEF Fields, Rename, Move
<1>2. cached'[a] = part[a] /\ \A b \in Assets : b # a => cached'[b] = cached[b]
  BY <1>1, TypeParts DEF Dir, Shape, Rename
<1>3. ASSUME Sole(p), \A q \in Procs \ {p} : ~Fetching(q)' PROVE Sole(p)'
  <2>1. part[a] = Whole(a) /\ \A b \in Assets : b < a => cached[b] = Whole(b)
    BY <1>1, <1>3 DEF Sole
  <2>2. \A b \in Assets : b <= a => cached'[b] = Whole(b)
    BY <1>1, <1>2, <2>1 DEF Assets
  <2>3. \A b \in Assets : (a = N => b <= a) /\ (b < a + 1 => b <= a)
    BY <1>1 DEF Assets
  <2> QED  BY <1>1, <1>3, <2>2, <2>3 DEF Sole
<1> QED  BY <1>1, <1>3, GoesOn DEF Fetching

LEMMA SoleStep == TypeInv /\ SoleInv /\ [Next]_vars => SoleInv'
<1> SUFFICES ASSUME TypeInv, SoleInv, [Next]_vars PROVE SoleInv'
  OBVIOUS
<1>1. CASE UNCHANGED vars
  BY <1>1 DEF SoleInv, Sole, Fetching, vars
<1>2. ASSUME NEW p \in Procs, Work(p) \/ Kill(p) PROVE SoleInv'
  <2>1. CASE Run(p)               BY <2>1, RunSole
  <2>2. CASE Check(p)             BY <2>2, CheckSole
  <2>3. CASE Open(p)              BY <2>3, OpenSole
  <2> DEFINE Left == Leave(p, open) /\ UNCHANGED files
  <2>4. Left => SoleInv'
    <3>1. open \in [Procs -> {"none", "part", "cached"}]
      BY TypeParts DEF Fields
    <3> QED  BY <3>1, LeaveSole
  <2>5. CASE NotOpened(p)         BY <2>4, <2>5, DiscardSole DEF NotOpened, Fetching
  <2>6. CASE Write(p, TRUE)       BY <2>6, WriteSole
  <2>7. CASE Write(p, FALSE)      BY <2>7, WriteSole
  <2>8. CASE Cut(p)               BY <2>8, DiscardSole DEF Cut, Fetching
  <2>9. CASE Close(p)             BY <2>9, CloseSole
  <2>10. CASE Seal(p)             BY <2>10, SealSole
  <2>11. CASE Rename(p)           BY <2>11, RenameSole
  <2>12. CASE NotRenamed(p)       BY <2>4, <2>12 DEF NotRenamed
  <2>13. CASE Load(p)             BY <2>4, <2>13 DEF Load
  <2>14. CASE Kill(p)             BY <2>4, <2>14 DEF Kill
  <2> QED
    BY <1>2, <2>1, <2>2, <2>3, <2>5, <2>6, <2>7, <2>8, <2>9, <2>10, <2>11, <2>12, <2>13, <2>14
       DEF Work
<1> QED  BY <1>1, <1>2 DEF Next

\* A process beside which no other fetched maps whole assets only: what ensure_cache has said
\* of the directory, load_dir and SapRuntime::new can take on trust.
THEOREM AloneWhole == Spec => []LoadedWhole
<1>1. TypeInv /\ SoleInv => LoadedWhole
  BY DEF SoleInv, Sole, LoadedWhole
<1> QED  BY InitTyped, TypeStep, InitSole, SoleStep, <1>1, PTL DEF Spec

-----------------------------------------------------------------------------
(* One process.                                                              *)

\* With one process in the directory, no asset is ever half there, whatever is killed, cut or
\* answered wrongly: the rename of a sealed `.part` is all that touches the name.
THEOREM OneNeverHalf ==
  ASSUME NEW o, Procs = {o}
  PROVE  Spec => []NeverHalf
<1> DEFINE Always == NeverHalf /\ (pc[o] # "idle" => solo[o])
<1>1. Init => Always
  BY DEF Init, NeverHalf
<1>2. TypeInv /\ SoleInv /\ Always /\ [Next]_vars => Always'
  <2> SUFFICES ASSUME TypeInv, SoleInv, Always, [Next]_vars PROVE Always'
    OBVIOUS
  <2>1. CASE UNCHANGED vars
    BY <2>1 DEF NeverHalf, vars
  <2>2. ASSUME NEW p \in Procs, Work(p) \/ Kill(p) PROVE Always'
    <3>1. p = o /\ o \in Procs
      OBVIOUS
    <3>2. pc'[o] # "idle" => solo'[o]
      <4>1. CASE Run(o)
        BY <3>1, <4>1, TypeParts DEF Fields, Run
      <4>2. CASE pc[o] # "idle" /\ solo' = solo
        BY <4>2
      <4>3. CASE Check(o) /\ solo' # solo
        BY <3>1, <4>3 DEF Check
      <4>4. CASE \E x : Leave(o, x)
        BY <3>1, <4>4, TypeParts DEF Fields, Leave, Move
      <4> QED
        BY <2>2, <3>1, <4>1, <4>2, <4>3, <4>4
           DEF Work, Kill, Check, Open, NotOpened, Write, Cut, Close, Seal, Rename, NotRenamed,
               Load, Discard
    <3>3. NeverHalf'
      <4>1. CASE UNCHANGED cached
        BY <4>1 DEF NeverHalf
      <4>2. CASE Rename(o)
        <5>1. at[o] \in Assets /\ part[at[o]] = Whole(at[o])
          BY <3>1, <4>2, TypeParts DEF Fields, Rename, SoleInv, Sole
        <5>2. cached' = [cached EXCEPT ![at[o]] = Whole(at[o])]
          BY <4>2, <5>1 DEF Rename
        <5> QED  BY <5>1, <5>2, TypeParts DEF Dir, Shape, NeverHalf
      <4>3. ASSUME NEW right \in BOOLEAN, Write(o, right) PROVE UNCHANGED cached
        BY <3>1, <4>3 DEF Write, SoleInv, Sole
      <4> QED
        BY <2>2, <3>1, <4>1, <4>2, <4>3
           DEF Work, Kill, Run, Check, Open, NotOpened, Cut, Close, Seal, NotRenamed, Load,
               Discard, files
    <3> QED  BY <3>2, <3>3
  <2> QED  BY <2>1, <2>2 DEF Next
<1>3. Always => NeverHalf
  OBVIOUS
<1> QED  BY InitTyped, TypeStep, InitSole, SoleStep, <1>1, <1>2, <1>3, PTL DEF Spec
=============================================================================
