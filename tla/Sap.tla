-------------------------------- MODULE Sap --------------------------------
(***************************************************************************)
(* The Mach-O guest: SAP sessions of one process, and, as a `focus` of its *)
(* own, the loader as its callers may use it, with either way of loading   *)
(* and any file.                                                           *)
(***************************************************************************)
EXTENDS SapSession

CONSTANT MaxLoads   \* bound: images loaded in the loader's focus

VARIABLES focus, loads

sapAllVars == <<machVars, shimVars, talkVars, sapVars, focus, loads>>

Init ==
  /\ SapInit /\ focus \in {"session", "loader"} /\ loads = 0
  /\ focus = "loader" => /\ kind = "sap" /\ dir = CHOOSE d \in DOMAIN Dirs : TRUE
                         /\ mac = CHOOSE m \in Macs : TRUE

LoadAny ==
  /\ loads < MaxLoads /\ loads' = loads + 1
  /\ \E f \in MachFiles, b \in Bases :
       \/ BeginLoad(f, b, "buffer", "none", ShimTable(Slotted, <<>>))
       \/ \E claim \in {"none"} \cup DOMAIN SiteTable : BeginLoad(f, b, "file", claim, ShimTable(Slotted, <<>>))

LoadOver ==
  /\ load.step \in {"loaded", "failed"} /\ load' = NoLoad
  /\ UNCHANGED <<streamSymbol, space, content, imageOf, staged, traps, loads>>

DropImage ==
  /\ load.step = "none"
  /\ \E b \in Bases : space[b] = "owned" /\ Unmapped({b})
  /\ UNCHANGED <<streamSymbol, load, staged, traps, loads>>

LoaderNext == LoadAny \/ LoadOver \/ DropImage \/ (LoadNext /\ UNCHANGED loads)

Next ==
  /\ UNCHANGED focus
  /\ \/ focus = "session" /\ SapNext /\ UNCHANGED loads
     \/ focus = "loader" /\ LoaderNext /\ UNCHANGED <<shimVars, talkVars, sapVars>>

Spec == Init /\ [][Next]_sapAllVars

-----------------------------------------------------------------------------
Phases == {"idle", "reset", "exports", "core", "loadCore", "kit", "loadKit", "find", "made", "guest",
           "cert", "post", "ready", "ending", "over"} \cup Regions
TypeOK ==
  /\ \A b \in Bases : space[b] \in {"free", "loading", "owned", "leaked"}
  /\ load.step \in {"none", "map", "patch", "stage", "copy", "read", "rebase", "bind", "quiet", "loaded", "failed"}
  /\ phase \in Phases /\ regions \subseteq Regions
  /\ callee \in {"none", "init", "exchange", "dispose", "sign", "teardown"}
  /\ phase = "guest" <=> callee # "none"
  /\ tail \in -1..HeapUnits /\ cursor \in 0..Len(Icxs)
  /\ Len(rounds) <= 2 /\ context \in 0..MaxSessions

-----------------------------------------------------------------------------
(***************************************************************************)
(* How the files are linked: `linked` says of each cell of a slice what it *)
(* is to hold once it is loaded. An image that the loader accepts must be  *)
(* as a linker leaves one, and its opcode streams must say what `linked`   *)
(* says, from whichever symbol an earlier stream left.                     *)
(***************************************************************************)
SliceOf(f) == MachFile[f].slices[FirstSlice(f)].of
StreamOps(m) == ToSet(m.rebase) \cup ToSet(m.bind) \cup ToSet(m.weak) \cup ToSet(m.lazy)
StreamSymbols ==
  {NoSymbol} \cup {t.name : t \in {t \in UNION {UNION {StreamOps(MachFile[f].slices[i].of) :
                                        i \in DOMAIN MachFile[f].slices} : f \in MachFiles} : t.op = "symbol"}}

Parsable == {f \in MachFiles : X86(f) # {} /\ LoadableOf(SliceOf(f)) # {}}
InfosOf(f) ==
  LET m == SliceOf(f)
  IN  {Parsed(m, a) : a \in {a \in {AllStreams(m, s) : s \in StreamSymbols} :
                              a.err = "none" /\ Placed(m, a.rebases) /\ Placed(m, a.binds)}}

\* Where a fixup goes, and the fixups of a cell.
Spot(info, x) == SegmentOf(info, x).vm - info.base + x.at
Hits(info, fixups, c) == {k \in DOMAIN fixups : Spot(info, fixups[k]) = c}
Untouched(info, c) == Hits(info, info.rebases, c) = {} /\ Hits(info, info.binds, c) = {}

Inside(info, fixups) == \A k \in DOMAIN fixups : fixups[k].at + 1 <= SegmentOf(info, fixups[k]).vmsize
Sound(info, raw) == Inside(info, info.rebases) /\ Inside(info, info.binds) /\ ~Short(info, raw)

InfoTyped(info, raw) ==
  /\ info.base \in Nat /\ SpanOf(info) \in Nat /\ Len(raw) \in Nat
  /\ DOMAIN info.segs = 1..Len(info.segs) /\ Len(info.segs) \in Nat
  /\ \A i \in DOMAIN info.segs :
       LET s == info.segs[i] IN {s.vm, s.vmsize, s.fileoff, s.filesize} \subseteq Nat
  /\ info.text = <<>> \/ {info.text[1], info.text[2]} \subseteq Nat
  /\ \A fixups \in {info.rebases, info.binds} :
       /\ Len(fixups) \in Nat /\ DOMAIN fixups = 1..Len(fixups)
       /\ \A k \in DOMAIN fixups : fixups[k].at \in Nat

\* The segments have names of their own and are apart, in memory and in the file, which has them all.
InMemory(info, i) == info.segs[i].vm - info.base..info.segs[i].vm - info.base + info.segs[i].vmsize - 1
InSlice(info, i) == info.segs[i].fileoff..info.segs[i].fileoff + info.segs[i].filesize - 1
SegmentsApart(info, raw) ==
  /\ \A i \in DOMAIN info.segs : /\ info.segs[i].filesize <= info.segs[i].vmsize
                                 /\ info.segs[i].name # "__PAGEZERO" => InSlice(info, i) \subseteq 0..Len(raw) - 1
  /\ \A i, j \in DOMAIN info.segs : i # j =>
       /\ info.segs[i].name # info.segs[j].name
       /\ InMemory(info, i) \cap InMemory(info, j) = {}
       /\ InSlice(info, i) \cap InSlice(info, j) = {}
OutOfZero(info, fixups) == \A k \in DOMAIN fixups : info.segs[fixups[k].seg].name # "__PAGEZERO"

\* The code is at the same place in the file and in memory.
TextIn(info) == TextCells(info, SpanOf(info))
OffsetOf(info, i, c) == info.segs[i].fileoff + c - (info.segs[i].vm - info.base)
TextInPlace(info, raw) ==
  /\ TextCells(info, Len(raw)) = TextIn(info)
  /\ \A i \in DOMAIN info.segs : \A c \in 0..SpanOf(info) - 1 :
       Brings(info, i, c) /\ {c, OffsetOf(info, i, c)} \cap TextIn(info) # {} => OffsetOf(info, i, c) = c

\* Where the table of a digest goes, and the reads of the counter that the file's own knows.
Sites(info, d) == {info.text[1] + SiteTable[d][k] : k \in DOMAIN SiteTable[d]}
OwnSite(f, info, c) == Digest[f] \in DOMAIN SiteTable => c \in Sites(info, Digest[f])

\* A cell of the kind that `linked` says, and one that it leaves out.
LinkedFrom(info, raw, c, v) == ReadCell(info, raw, c, 0) = v /\ FileCell(info, RawCells(raw), c, 0) = v
Plain(info, raw, c, v) == Untouched(info, c) /\ LinkedFrom(info, raw, c, v)
Moves(info, raw, c, v) ==
  /\ \E k \in DOMAIN info.rebases : Hits(info, info.rebases, c) = {k}
  /\ Hits(info, info.binds, c) = {} /\ LinkedFrom(info, raw, c, v) /\ v \in Int
Imports(info, c, name, addend) ==
  /\ Hits(info, info.binds, c) # {}
  /\ \A k \in Hits(info, info.binds, c) : info.binds[k].name = name /\ info.binds[k].addend = addend
LinkedCell(f, info, c) ==
  LET raw == SliceOf(f).raw
      e == SliceOf(f).linked[c]
      text == c \in TextIn(info)
  IN  IF c \notin DOMAIN SliceOf(f).linked THEN Plain(info, raw, c, 0) /\ ~text
      ELSE \/ e.k = "file" /\ Plain(info, raw, c, e.v) /\ (text => e.v # Idiom)
           \/ e.k = "moved" /\ Moves(info, raw, c, e.v) /\ ~text
           \/ e.k = "import" /\ Imports(info, c, e.name, e.v) /\ ~text
           \/ /\ e.k = "timing" /\ Plain(info, raw, c, Idiom) /\ text
              /\ OwnSite(f, info, c) /\ \E i \in DOMAIN info.segs : Brings(info, i, c)
           \/ e.k = "free" /\ (text => Untouched(info, c))
WellLinked(f, info) ==
  /\ SegmentsApart(info, SliceOf(f).raw)
  /\ OutOfZero(info, info.rebases) /\ OutOfZero(info, info.binds)
  /\ TextInPlace(info, SliceOf(f).raw)
  /\ TextIn(info) # {} /\ Digest[f] \in DOMAIN SiteTable => Sites(info, Digest[f]) \subseteq TextIn(info)
  /\ \A c \in 0..SpanOf(info) - 1 : LinkedCell(f, info, c)

ASSUME LinkAssumption ==
  /\ \A d \in DOMAIN Dirs : {Dirs[d].core, Dirs[d].kit} \subseteq MachFiles \cup {"none"}
  /\ Bases \subseteq Int
  /\ \A d \in DOMAIN SiteTable : SiteTable[d] \in Seq(Nat)
  /\ \A f \in MachFiles : X86(f) \subseteq Nat /\ \A i, j \in X86(f) : i = j
  /\ \A f \in MachFiles : \A i \in X86(f) : \A s \in StreamSymbols :
       AllStreams(MachFile[f].slices[i].of, s).symbol \in StreamSymbols
  /\ \A f \in Parsable : \A info \in InfosOf(f) :
       InfoTyped(info, SliceOf(f).raw) /\ (Sound(info, SliceOf(f).raw) => WellLinked(f, info))

-----------------------------------------------------------------------------
(***************************************************************************)
(* What may be other than the linker meant. Where the table is of another  *)
(* file, the one whose digest was claimed: it is `TakenIn` when none of    *)
(* its entries in the section is on other code, so that nothing is         *)
(* scanned, and an entry beyond the section may be `Stray`. And a load     *)
(* that is mixed finds values in cells that no file and no fixup fills.    *)
(***************************************************************************)
Other(f, info, d) == d \in DOMAIN SiteTable /\ d # Digest[f] /\ TextIn(info) # {}
TakenIn(f, info, d) ==
  Other(f, info, d) /\ \A o \in Sites(info, d) \cap TextIn(info) : ReadCell(info, SliceOf(f).raw, o, 0) = Idiom
Stray(f, info, d, c) == Other(f, info, d) /\ c \in Sites(info, d) \ TextIn(info)
Unseen(f, info, d, c) == c \notin ScannedCells(info, SpanOf(info)) \/ TakenIn(f, info, d)
Brought(info, c) == \E i \in DOMAIN info.segs : Brings(info, i, c)
Filled(info, c) == Brought(info, c) \/ ~Untouched(info, c)

Linked(b) == SliceOf(imageOf[b].file).linked
Label(v, name) == \E k \in DOMAIN traps : traps[k] = name /\ v = StubAddress(k)

ByDigest(b) == DigestOf(imageOf[b].file, imageOf[b].by.claim)
CellAsLinked(b, c, e, v) ==
  CASE e.k = "file"   -> v = e.v
    [] e.k = "moved"  -> v = e.v + b - imageOf[b].by.info.base
    [] e.k = "import" -> IF e.name \in CorefpExports /\ focus = "session"
                              THEN v = SymbolIn(imageOf[CorefpBase].info, CorefpBase, e.name) + e.v
                         ELSE IF e.name \in DOMAIN Aliases THEN v = SlotOf(ShimNames, Aliases[e.name]) + e.v
                         ELSE IF e.name \in DataSymbols THEN v = ZeroPage ELSE Label(v, e.name)
    [] e.k = "timing" -> v = Still \/ (v = Idiom /\ Unseen(imageOf[b].file, imageOf[b].by.info, ByDigest(b), c))
    [] e.k = "free"   -> TRUE

AsLinked(b, linked, c) ==
  IF c \in DOMAIN linked THEN CellAsLinked(b, c, linked[c], content[b][c]) ELSE content[b][c] = 0

(* Whatever was loaded before it, whatever failed, whichever way it was    *)
(* loaded and whatever digest was claimed for it, an image ends up as it   *)
(* was linked: each pointer moved by the slide once, each import at its    *)
(* shim, CoreFP's export, the zero page or a stub with its own name, the   *)
(* reads of the counter replaced, and the rest as in the file. Three       *)
(* things may be otherwise, and no other: a read stays where the scan does *)
(* not look or a claimed table kept it away; a claimed table replaces what *)
(* looks like a read beyond the code; and the first buffered load after    *)
(* one that failed finds that one's fixups in cells that neither its file  *)
(* nor its own fixups fill.                                                *)
MachLoadedAsLinked ==
  \A b \in Bases : space[b] = "owned" =>
    LET by == imageOf[b].by
        linked == Linked(b)
    IN  \A c \in DOMAIN content[b] :
          \/ AsLinked(b, linked, c)
          \/ content[b][c] = Still /\ Stray(imageOf[b].file, by.info, ByDigest(b), c)
          \/ by.mixed /\ ~Filled(by.info, c)

(* No two blocks the guest ever got share a unit, sizes included, not even *)
(* blocks of different sessions, and what the guest writes into its blocks *)
(* never changes a size that malloc_size reports.                          *)
UnitsOf(x) == x.at - Prefix..x.at + GoodSize(x.size) - 1
BlocksApart ==
  /\ \A x \in blocks : UnitsOf(x) \subseteq 0..HeapUnits - 1 /\ MallocSize(x) = x.size
  /\ \A x, y \in blocks : x # y => UnitsOf(x) \cap UnitsOf(y) = {}

(* Every session finds the shims as the first one did: its registry holds  *)
(* an entry and then none, however often the last session asked; it reads  *)
(* the ICXS file from the start it opened; the address it is told is its   *)
(* own, and dlsym answers with CoreFP where it is mapped now.              *)
SessionStartsAlike ==
  /\ answer.asked % 2 = IteratorGives
  /\ answer.sinceOpen = SubSeq(Icxs, 1, cursor)
  /\ phase = "guest" => /\ guestMac = mac
                        /\ \A n \in CorefpExports : AnswerOf(n) = SymbolIn(imageOf[CorefpBase].info, CorefpBase, n)

(* The guest runs only in a whole session: both images and all regions are *)
(* mapped and there is a way back; it exchanges and signs with the context *)
(* of this session, and signs only after a first exchange that asked for   *)
(* the server and a second one that was satisfied.                         *)
GuestEntersWhole ==
  phase = "guest" =>
    /\ space[CorefpBase] = "owned" /\ space[KitBase] = "owned"
    /\ imageOf[CorefpBase].file = Dirs[dir].core /\ imageOf[KitBase].file = Dirs[dir].kit
    /\ regions = Regions /\ landing
    /\ callee # "init" => context = session
    /\ callee = "sign" \/ pending = Signature => rounds = <<1, 0>>

(* A session leaves nothing behind: the next one finds every address free, *)
(* unless a runtime could not be made in this process.                     *)
SessionLeavesNothing ==
  focus = "session" /\ phase \in {"idle", "reset"} /\ ~spoiled =>
    regions = {} /\ \A b \in Bases : space[b] = "free"
=============================================================================
