------------------------------- MODULE MachO -------------------------------
(***************************************************************************)
(* Reading a Mach-O file: the x86_64 slice, the load commands, the opcode  *)
(* streams of dyld info and the symbols. Two readers do it, one from the   *)
(* whole file in memory, one that fetches the header and the tail.         *)
(*                                                                         *)
(* A cell is a pointer's eight bytes; addresses and offsets count cells. A *)
(* stream is a sequence of opcodes with their operands read.               *)
(***************************************************************************)
EXTENDS Integers, Sequences, SequencesExt

CONSTANTS
  MachFiles,   \* the files
  MachFile,    \* what is in each: slices of [x86, inFile, of], `fat` or thin
  MachPage,    \* cells of a page
  NoSymbol     \* the empty name

VARIABLE streamSymbol   \* STREAM_SYMBOL, the thread's: every stream starts from it

-----------------------------------------------------------------------------
\* x86_slice and fat_slice_offset: the first x86_64 record of a fat file.
X86(f) == {i \in DOMAIN MachFile[f].slices : MachFile[f].slices[i].x86}
FirstSlice(f) == CHOOSE i \in X86(f) : \A j \in X86(f) : i <= j
\* parse_reader keeps the last record it sees.
LastSlice(f) == CHOOSE i \in X86(f) : \A j \in X86(f) : j <= i

-----------------------------------------------------------------------------
(***************************************************************************)
(* The decoder. `cur` is the offset in the segment, and a fixup is emitted *)
(* at it; the symbol and the addend stay until they are set again. An      *)
(* operand that the stream ends in is an opcode "cut".                     *)
(***************************************************************************)
StreamStart(s, symbol) ==
  [binds |-> s.binds, lazy |-> s.lazy, seg |-> 1, cur |-> 0, addend |-> 0,
   symbol |-> symbol, out |-> <<>>, end |-> "none"]

FixupAt(st, at) == [seg |-> st.seg, at |-> at,
                    name |-> IF st.binds THEN st.symbol ELSE NoSymbol,
                    addend |-> IF st.binds THEN st.addend ELSE 0]

\* n fixups with a gap of `skip` after each.
Emitted(st, n, skip) ==
  [st EXCEPT !.out = @ \o [k \in 1..n |-> FixupAt(st, st.cur + (k - 1) * (skip + 1))],
             !.cur = @ + n * (skip + 1)]

\* DONE ends a stream, but only a record of the lazy one.
Done(st) == IF st.lazy
            THEN [st EXCEPT !.seg = 1, !.cur = 0, !.addend = 0, !.symbol = NoSymbol]
            ELSE [st EXCEPT !.end = "done"]

\* Pointers are the only type; a bind may leave it out.
TypeSet(st, n) == IF n = 1 \/ (n = 0 /\ st.binds) THEN st ELSE [st EXCEPT !.end = "unsupported"]

BindOnly == {"ordinal", "symbol", "addend"}
Opcode(st, t) ==
  IF t.op \in BindOnly /\ ~st.binds THEN [st EXCEPT !.end = "unsupported"]
  ELSE CASE t.op = "done"    -> Done(st)
         [] t.op = "type"    -> TypeSet(st, t.n)
         [] t.op = "segment" -> [st EXCEPT !.seg = t.n, !.cur = t.skip]
         [] t.op = "add"     -> [st EXCEPT !.cur = @ + t.n]
         [] t.op = "fix"     -> Emitted(st, t.n, t.skip)
         [] t.op = "ordinal" -> st
         [] t.op = "symbol"  -> [st EXCEPT !.symbol = t.name]
         [] t.op = "addend"  -> [st EXCEPT !.addend = t.n]
         [] t.op = "cut"     -> [st EXCEPT !.end = "truncated"]
         [] OTHER            -> [st EXCEPT !.end = "unsupported"]

Decoded(s, symbol) ==
  FoldLeft(LAMBDA st, t : IF st.end = "none" THEN Opcode(st, t) ELSE st, StreamStart(s, symbol), s.ops)

\* rebase, bind, weak and lazy bind, in this order; an error ends it, and the symbol stays as it is.
\* The fixups of the first are one list, those of the others another.
Streams(m) == <<[ops |-> m.rebase, binds |-> FALSE, lazy |-> FALSE],
                [ops |-> m.bind, binds |-> TRUE, lazy |-> FALSE],
                [ops |-> m.weak, binds |-> TRUE, lazy |-> FALSE],
                [ops |-> m.lazy, binds |-> TRUE, lazy |-> TRUE]>>

AfterStream(acc, s, d) ==
  [symbol |-> d.symbol,
   rebases |-> IF s.binds THEN acc.rebases ELSE acc.rebases \o d.out,
   binds |-> IF s.binds THEN acc.binds \o d.out ELSE acc.binds,
   err |-> IF d.end \in {"unsupported", "truncated"} THEN d.end ELSE "none"]

AllStreams(m, symbol) ==
  FoldLeft(LAMBDA acc, s : IF acc.err = "none" THEN AfterStream(acc, s, Decoded(s, acc.symbol)) ELSE acc,
           [symbol |-> symbol, rebases |-> <<>>, binds |-> <<>>, err |-> "none"], Streams(m))

-----------------------------------------------------------------------------
Loadable(s) == s.name # "__PAGEZERO" /\ s.vmsize # 0
LoadableOf(m) == {i \in DOMAIN m.segs : Loadable(m.segs[i])}
BaseOf(m) == LET S == {m.segs[i].vm : i \in LoadableOf(m)} IN CHOOSE b \in S : \A c \in S : b <= c

\* Symbols with a section, a value and a name.
DefinedSymbols(m) == SelectSeq(m.symbols, LAMBDA s : s.section /\ s.at # 0 /\ s.name # NoSymbol)

\* __text of __TEXT, by its offset in the file.
TextSection(m) == m.text

(***************************************************************************)
(* What a reader makes of the slice. A fixup of a segment that is not      *)
(* there panics.                                                           *)
(***************************************************************************)
Parsed(m, a) ==
  [err |-> "none", symbol |-> a.symbol, base |-> BaseOf(m), segs |-> m.segs, rebases |-> a.rebases,
   binds |-> a.binds, symbols |-> DefinedSymbols(m), text |-> TextSection(m)]
Placed(m, fixups) == \A i \in DOMAIN fixups : fixups[i].seg \in DOMAIN m.segs
InfoOf(m, a) ==
  IF LoadableOf(m) = {} THEN [err |-> "truncated", symbol |-> streamSymbol]
  ELSE IF a.err # "none" THEN [err |-> a.err, symbol |-> a.symbol]
  ELSE IF Placed(m, a.rebases) /\ Placed(m, a.binds) THEN Parsed(m, a)
  ELSE [err |-> "panic", symbol |-> a.symbol]

Refusal(e) == [err |-> e, symbol |-> streamSymbol]
Read(m, refused) == IF ~m.magic \/ m.cmds = "bad" \/ refused THEN Refusal("refused")
                    ELSE InfoOf(m, AllStreams(m, streamSymbol))
Checked(info, cut) == IF cut /\ info.err = "none" THEN [info EXCEPT !.err = "truncated"] ELSE info

\* MachInfo::parse and parse_owned: a slice that reaches beyond the file is refused.
ReadWhole(s) == IF ~s.inFile THEN Refusal("truncated") ELSE Checked(Read(s.of, FALSE), s.of.symtab = "cut")
ParsedWhole(f) == IF X86(f) = {} THEN Refusal("noSlice") ELSE ReadWhole(MachFile[f].slices[FirstSlice(f)])

\* parse_reader also refuses a file without load commands, and one whose symbol table is there but
\* empty; what it fetches must lie in the file.
Fetchable(m) == m.symtab # "cut"
ReadFetched(m) == Checked(Read(m, m.cmds = "empty" \/ ~Fetchable(m)), m.symtab = "empty")
ParsedReader(f) == IF X86(f) = {} THEN Refusal("noSlice") ELSE ReadFetched(MachFile[f].slices[LastSlice(f)].of)

-----------------------------------------------------------------------------
\* The first segment of a fixup's name; segments may share one.
Named(info, name) == {i \in DOMAIN info.segs : info.segs[i].name = name}
SegmentOf(info, x) == LET N == Named(info, info.segs[x.seg].name)
                      IN  info.segs[CHOOSE i \in N : \A j \in N : i <= j]

SpanOf(info) ==
  LET ends == {info.segs[i].vm - info.base + info.segs[i].vmsize : i \in LoadableOf(info)}
      most == CHOOSE e \in ends : \A d \in ends : d <= e
  IN  ((most + MachPage - 1) \div MachPage) * MachPage

\* segment_map_offset: in the mapping; -1 when the fixup is outside its segment or the mapping.
MapOffset(info, x) ==
  LET s == SegmentOf(info, x)
      off == s.vm - info.base + x.at
  IN  IF x.at + 1 > s.vmsize \/ off + 1 > SpanOf(info) THEN -1 ELSE off

\* segment_file_offset: in the file; -2 in the part of the segment the file does not have.
FileOffset(info, x, len) ==
  LET s == SegmentOf(info, x)
  IN  IF x.at + 1 > s.vmsize THEN -1
      ELSE IF x.at + 1 > s.filesize THEN -2
      ELSE IF s.fileoff + x.at + 1 > len THEN -1 ELSE s.fileoff + x.at

\* MachImage::symbol: the first one of the name, where the image was loaded.
SymbolIn(info, base, name) ==
  LET S == {i \in DOMAIN info.symbols : info.symbols[i].name = name}
  IN  IF S = {} THEN 0
      ELSE base + info.symbols[CHOOSE i \in S : \A j \in S : i <= j].at - info.base
=============================================================================
