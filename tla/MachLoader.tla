---------------------------- MODULE MachLoader ----------------------------
(***************************************************************************)
(* MachImage: a Mach-O image is mapped at the base its caller names, which *)
(* must be free, its pointers are moved, its imports bound, and the reads  *)
(* of the cycle counter in its code become zeros. load_file streams the    *)
(* contents into the mapping and patches them there; load_parsed patches a *)
(* copy first and keeps what it cannot write yet, the fixups of cells the  *)
(* file does not have, in a list of the thread.                            *)
(*                                                                         *)
(* An error after the mapping leaves it mapped: nothing owns it yet.       *)
(***************************************************************************)
EXTENDS MachO

CONSTANTS
  Bases,         \* where images are loaded
  Digest,        \* file -> the digest of its bytes
  SiteTable,     \* digest -> the offsets in __text with a read of the counter that a session reaches
  Idiom,         \* the cell of code that reads the counter
  Still,         \* the cell that takes its place
  ScanReach,     \* cells that must be left of the section for the scan to look at one
  DataSymbols,   \* imports that look like data
  ZeroPage,      \* where those point
  PerPage,       \* trap stubs in a page of the pool
  StubPages      \* the pages the host gives the pool, in order

VARIABLES
  space,    \* base -> "free", "owned" by an image, or "leaked"
  content,  \* base -> the cells mapped there
  imageOf,  \* base -> the file loaded there, what is looked up in it later, and how it was loaded
  load,     \* the load under way
  staged,   \* DEFERRED_FIXUPS
  traps     \* the labels of the SysV stub pool

machVars == <<streamSymbol, space, content, imageOf, load, staged, traps>>

ASSUME ScanAssumption == ScanReach \in Nat \ {0}

NoLoad == [step |-> "none"]
Nothing == [file |-> "none"]

MachInit ==
  /\ streamSymbol = NoSymbol
  /\ space = [b \in Bases |-> "free"]
  /\ content = [b \in Bases |-> <<>>]
  /\ imageOf = [b \in Bases |-> Nothing]
  /\ load = NoLoad /\ staged = <<>> /\ traps = <<>>

SliceCells(f) == MachFile[f].slices[FirstSlice(f)].of.raw
Info == load.info
Slide == load.base - Info.base
MapCells == 0..SpanOf(Info) - 1

LoadStep(s) == load' = [load EXCEPT !.step = s]
LoadFails == load' = [step |-> "failed"]
Leaks == /\ LoadFails /\ space' = [space EXCEPT ![load.base] = "leaked"]

-----------------------------------------------------------------------------
\* `way` is the function: load_file, whose caller may claim the digest, or load_parsed, which is `mixed`
\* when a load that failed has left fixups in the thread's list.
Begun(f, base, way, claim, table, info) ==
  /\ streamSymbol' = info.symbol
  /\ IF info.err # "none" THEN LoadFails
     ELSE load' = [step |-> IF way = "file" THEN "map" ELSE "patch", file |-> f, base |-> base,
                   way |-> way, claim |-> claim, table |-> table, info |-> info,
                   mixed |-> way = "buffer" /\ staged # <<>>,
                   data |-> IF way = "file" THEN <<>> ELSE SliceCells(f)]
BeginLoad(f, base, way, claim, table) ==
  /\ load.step = "none"
  /\ Begun(f, base, way, claim, table, IF way = "file" THEN ParsedReader(f) ELSE ParsedWhole(f))
  /\ UNCHANGED <<space, content, imageOf, staged, traps>>

-----------------------------------------------------------------------------
\* The pool grows by a page, and a page holds whole stubs only.
StubAddress(k) == StubPages[((k - 1) \div PerPage) + 1] + ((k - 1) % PerPage)

IsData(name) == name \in DataSymbols

\* The shim's address and the addend, the zero page, or a stub of its own.
BoundTo(x, labels) ==
  IF x.name \in DOMAIN load.table THEN [value |-> load.table[x.name] + x.addend, labels |-> labels]
  ELSE IF IsData(x.name) THEN [value |-> ZeroPage, labels |-> labels]
  ELSE [value |-> StubAddress(Len(labels) + 1), labels |-> Append(labels, x.name)]

SegmentName(x) == Info.segs[x.seg].name

(***************************************************************************)
(* A pass over the rebases or over the binds, as far as the first that     *)
(* goes nowhere, which is an error. `at` is where they go: -1 is nowhere;  *)
(* -2 is where the file has no cell, which keeps the fixup for later.      *)
(***************************************************************************)
Stopped(at) == \E k \in DOMAIN at : at[k] = -1
Reach(fixups, at) ==
  IF Stopped(at) THEN CHOOSE k \in DOMAIN at : at[k] = -1 /\ \A j \in 1..k - 1 : at[j] # -1 ELSE Len(fixups)

Fixed(acc, x, at, binds) ==
  LET new == IF binds THEN BoundTo(x, acc.labels)
             ELSE [value |-> Slide + (IF at >= 0 THEN acc.cells[at] ELSE 0), labels |-> acc.labels]
  IN  [labels |-> new.labels,
       cells |-> IF at >= 0 THEN [acc.cells EXCEPT ![at] = new.value] ELSE acc.cells,
       staged |-> IF at = -2 THEN Append(acc.staged, [name |-> SegmentName(x), at |-> x.at, value |-> new.value])
                  ELSE acc.staged]

Passed(fixups, at, cells, binds) ==
  LET after[n \in 0..Len(fixups)] ==
        IF n = 0 THEN [labels |-> traps, cells |-> cells, staged |-> <<>>]
        ELSE LET acc == after[n - 1] IN Fixed(acc, fixups[n], at[n], binds)
  IN  after[Reach(fixups, at)]

\* The scan of __text, when the section lies within the cells.
TextCells(info, bound) ==
  IF info.text = <<>> \/ info.text[1] + info.text[2] > bound THEN {}
  ELSE info.text[1]..info.text[1] + info.text[2] - 1
\* It asks for the bytes of the longest idiom, and so leaves out a shorter one at the end of the section.
ScannedCells(info, bound) == {c \in TextCells(info, bound) : c + ScanReach <= info.text[1] + info.text[2]}
Scanned(info, cells, bound) ==
  [c \in DOMAIN cells |-> IF c \in ScannedCells(info, bound) /\ cells[c] = Idiom THEN Still ELSE cells[c]]

-----------------------------------------------------------------------------
(***************************************************************************)
(* load_parsed: the copy is patched before there is a mapping. A pass that *)
(* fails has staged nothing of its own; the list keeps what an earlier one *)
(* staged.                                                                 *)
(***************************************************************************)
InFile(fixups) == [k \in DOMAIN fixups |-> FileOffset(Info, fixups[k], Len(load.data))]
DataCells == [c \in 0..Len(load.data) - 1 |-> load.data[c + 1]]

Patched(toRebase, toBind) ==
  LET r == Passed(Info.rebases, toRebase, DataCells, FALSE)
      b == Passed(Info.binds, toBind, r.cells, TRUE)
  IN  IF Stopped(toRebase) THEN LoadFails /\ UNCHANGED <<traps, staged>>
      ELSE /\ traps' = b.labels
           /\ staged' = staged \o r.staged \o (IF Stopped(toBind) THEN <<>> ELSE b.staged)
           /\ IF Stopped(toBind) THEN LoadFails
              ELSE load' = [load EXCEPT !.step = "map", !.data = Scanned(Info, b.cells, Len(load.data))]
PatchCopy ==
  /\ load.step = "patch"
  /\ Patched(InFile(Info.rebases), InFile(Info.binds))
  /\ UNCHANGED <<streamSymbol, space, content, imageOf>>

\* MAP_FIXED_NOREPLACE, and the host may refuse it as well.
MapSpan ==
  /\ load.step = "map"
  /\ \/ LoadFails /\ UNCHANGED <<space, content>>
     \/ /\ space[load.base] = "free"
        /\ space' = [space EXCEPT ![load.base] = "loading"]
        /\ content' = [content EXCEPT ![load.base] = [c \in MapCells |-> 0]]
        /\ LoadStep(IF load.way = "file" THEN "read" ELSE "stage")
  /\ UNCHANGED <<streamSymbol, imageOf, staged, traps>>

\* The whole list is taken, and every segment of the name gets the value.
StagedInto(cells) ==
  [c \in DOMAIN cells |->
     LET hits == {k \in DOMAIN staged : \E i \in DOMAIN Info.segs :
                    /\ Info.segs[i].name = staged[k].name
                    /\ Info.segs[i].vm - Info.base + staged[k].at = c}
     IN  IF hits = {} THEN cells[c] ELSE staged[CHOOSE k \in hits : \A j \in hits : j <= k].value]

ApplyStaged ==
  /\ load.step = "stage"
  /\ content' = [content EXCEPT ![load.base] = StagedInto(@)]
  /\ staged' = <<>>
  /\ LoadStep("copy")
  /\ UNCHANGED <<streamSymbol, space, imageOf, traps>>

-----------------------------------------------------------------------------
\* The last segment that brings this cell from the file.
Brings(info, i, c) == LET s == info.segs[i]
                      IN  /\ s.name # "__PAGEZERO" /\ s.filesize # 0
                          /\ c \in s.vm - info.base..s.vm - info.base + s.filesize - 1
FileCell(info, data, c, old) ==
  LET S == {i \in DOMAIN info.segs : Brings(info, i, c)}
      s == info.segs[CHOOSE i \in S : \A j \in S : j <= i]
  IN  IF S = {} THEN old ELSE data[s.fileoff + c - (s.vm - info.base)]

Owned(b) == /\ space' = [space EXCEPT ![b] = "owned"]
            /\ imageOf' = [imageOf EXCEPT ![b] = [file |-> load.file, info |-> [base |-> Info.base, symbols |-> Info.symbols],
                                                  by |-> [claim |-> load.claim, mixed |-> load.mixed, info |-> Info]]]
            /\ load' = [step |-> "loaded"]

CopySegments ==
  /\ load.step = "copy"
  /\ IF \E i \in DOMAIN Info.segs : /\ Info.segs[i].name # "__PAGEZERO" /\ Info.segs[i].filesize # 0
                                    /\ Info.segs[i].fileoff + Info.segs[i].filesize > Cardinality(DOMAIN load.data)
     THEN Leaks /\ UNCHANGED <<content, imageOf>>
     ELSE /\ content' = [content EXCEPT ![load.base] = [c \in MapCells |-> FileCell(Info, load.data, c, @[c])]]
          /\ Owned(load.base)
  /\ UNCHANGED <<streamSymbol, staged, traps>>

-----------------------------------------------------------------------------
(***************************************************************************)
(* map_and_fixup. __TEXT is mapped from the file when its offset and its   *)
(* place are whole pages, which brings the rest of its last page along;    *)
(* other segments are read. A file that ends early, or an error, ends it.  *)
(***************************************************************************)
Aligned(info, s) == s.fileoff % MachPage = 0 /\ (s.vm - info.base) % MachPage = 0
PageUp(n) == ((n + MachPage - 1) \div MachPage) * MachPage
FileMapped(info, raw, c, old) ==
  LET T == {i \in DOMAIN info.segs : info.segs[i].name = "__TEXT" /\ Aligned(info, info.segs[i])}
      at(i) == c - (info.segs[i].vm - info.base)
      Over == {i \in T : at(i) \in 0..PageUp(info.segs[i].filesize) - 1 /\ info.segs[i].filesize # 0}
      i == CHOOSE j \in Over : TRUE
      k == info.segs[i].fileoff + at(i)
  IN  IF Over = {} THEN old ELSE IF k < Len(raw) THEN raw[k + 1] ELSE 0

RawCells(raw) == [k \in 0..Len(raw) - 1 |-> raw[k + 1]]
ReadCell(info, raw, c, old) ==
  IF \E i \in DOMAIN info.segs : Brings(info, i, c)
  THEN FileCell(info, RawCells(raw), c, old) ELSE FileMapped(info, raw, c, old)

Short(info, raw) ==
  \E i \in DOMAIN info.segs :
    LET s == info.segs[i]
    IN  /\ s.name # "__PAGEZERO" /\ s.filesize # 0
        /\ ~(s.name = "__TEXT" /\ Aligned(info, s))
        /\ s.fileoff + s.filesize > Len(raw)

MappedFrom(raw) ==
  /\ ~Short(Info, raw)
  /\ content' = [content EXCEPT ![load.base] = [c \in MapCells |-> ReadCell(Info, raw, c, @[c])]]
ReadSegments ==
  /\ load.step = "read"
  /\ \/ Leaks /\ UNCHANGED content
     \/ MappedFrom(SliceCells(load.file)) /\ LoadStep("rebase") /\ UNCHANGED space
  /\ UNCHANGED <<streamSymbol, imageOf, staged, traps>>

InMapping(fixups) == [k \in DOMAIN fixups |-> MapOffset(Info, fixups[k])]
PatchWith(r, stopped, to) ==
  /\ traps' = r.labels
  /\ content' = [content EXCEPT ![load.base] = r.cells]
  /\ IF stopped THEN Leaks ELSE LoadStep(to) /\ UNCHANGED space
PatchMapped(fixups, binds, from, to) ==
  /\ load.step = from
  /\ PatchWith(Passed(fixups, InMapping(fixups), content[load.base], binds), Stopped(InMapping(fixups)), to)
  /\ UNCHANGED <<streamSymbol, imageOf, staged>>

Rebase == PatchMapped(Info.rebases, FALSE, "rebase", "bind")
Bind == PatchMapped(Info.binds, TRUE, "bind", "quiet")

(***************************************************************************)
(* The table of the digest, the claimed one or the file's. An entry that   *)
(* is not on an idiom ends the table and has the section scanned, after    *)
(* what the table did before; an empty table is a table.                   *)
(***************************************************************************)
DigestOf(f, claim) == IF claim = "none" THEN Digest[f] ELSE claim
OnIdiom(cells, off) == LET at == Info.text[1] + off IN at \in DOMAIN cells /\ cells[at] = Idiom
Fitting(table, cells) ==
  CHOOSE n \in 0..Len(table) : /\ \A k \in 1..n : OnIdiom(cells, table[k])
                               /\ n = Len(table) \/ ~OnIdiom(cells, table[n + 1])
ByTable(table, cells) ==
  [c \in DOMAIN cells |-> IF \E k \in 1..Fitting(table, cells) : c = Info.text[1] + table[k]
                          THEN Still ELSE cells[c]]

\* A mutant of Quieted: nothing is scanned when there is a table, whether it fits or not.
QuietedByTable(cells) ==
  LET d == DigestOf(load.file, load.claim)
  IN  IF TextCells(Info, SpanOf(Info)) = {} THEN cells
      ELSE IF d \in DOMAIN SiteTable THEN ByTable(SiteTable[d], cells) ELSE Scanned(Info, cells, SpanOf(Info))
Quieted(cells) ==
  LET d == DigestOf(load.file, load.claim)
      patched == IF d \in DOMAIN SiteTable THEN ByTable(SiteTable[d], cells) ELSE cells
  IN  IF TextCells(Info, SpanOf(Info)) = {} THEN cells
      ELSE IF d \in DOMAIN SiteTable /\ Fitting(SiteTable[d], cells) = Len(SiteTable[d]) THEN patched
      ELSE Scanned(Info, patched, SpanOf(Info))

Neutralize ==
  /\ load.step = "quiet"
  /\ content' = [content EXCEPT ![load.base] = Quieted(@)]
  /\ Owned(load.base)
  /\ UNCHANGED <<streamSymbol, staged, traps>>

\* Drop for MachImage: the mapping goes.
Unmapped(S) ==
  /\ space' = [b \in Bases |-> IF b \in S THEN "free" ELSE space[b]]
  /\ content' = [b \in Bases |-> IF b \in S THEN <<>> ELSE content[b]]
  /\ imageOf' = [b \in Bases |-> IF b \in S THEN Nothing ELSE imageOf[b]]

LoadNext == \/ PatchCopy \/ MapSpan \/ ApplyStaged \/ CopySegments
            \/ ReadSegments \/ Rebase \/ Bind \/ Neutralize
=============================================================================
