------------------------------- MODULE MCSap -------------------------------
(* Images of three pages of four cells. CoreFP is a fat file, CommerceKit a  *)
(* thin one; each has pointers, imports and cells that the file lacks.       *)
EXTENDS Sap

Ido == 77
Op(o, n, skip) == [op |-> o, n |-> n, skip |-> skip, name |-> ""]
Sym(name) == [op |-> "symbol", n |-> 0, skip |-> 0, name |-> name]
Pointer == Op("type", 1, 0)
At(seg, off) == Op("segment", seg, off)
Fix(n, skip) == Op("fix", n, skip)
EndOf == Op("done", 0, 0)

Seg(name, vm, vmsize, fileoff, filesize) ==
  [name |-> name, vm |-> vm, vmsize |-> vmsize, fileoff |-> fileoff, filesize |-> filesize]
Zero == Seg("__PAGEZERO", 0, 16, 0, 0)
Symbol(name, at) == [name |-> name, at |-> at, section |-> TRUE]
File(v) == [k |-> "file", v |-> v]
Moved(v) == [k |-> "moved", v |-> v]
Import(name, v) == [k |-> "import", name |-> name, v |-> v]
Quiet == [k |-> "timing"]
Free_ == [k |-> "free"]

CoreSlice ==
  [magic |-> TRUE, cmds |-> "ok", symtab |-> "full",
   segs |-> <<Zero, Seg("__TEXT", 16, 4, 0, 3), Seg("__DATA", 20, 4, 4, 3), Seg("__LINKEDIT", 24, 1, 8, 1)>>,
   raw |-> <<7, Ido, 8, 9, 18, 31, 32, 0, 33>>, text |-> <<1, 2>>,
   rebase |-> <<Pointer, At(3, 0), Fix(1, 0), Op("add", 2, 0), Fix(1, 0), EndOf, Op("bad", 0, 0)>>,
   bind |-> <<Op("ordinal", 1, 0), Sym("_malloc"), Pointer, At(3, 1), Fix(1, 0), EndOf>>,
   weak |-> <<>>,
   lazy |-> <<At(3, 2), Sym("_free"), Op("addend", 1, 0), Fix(1, 0), EndOf,
              At(4, 0), Sym("_NSString"), Fix(1, 0), EndOf>>,
   symbols |-> <<[Symbol("_WIn9UJ86JKdV4dM", 16) EXCEPT !.section = FALSE], Symbol("_WIn9UJ86JKdV4dM", 18)>>,
   linked |-> (0 :> File(7)) @@ (1 :> Free_) @@ (2 :> File(8)) @@ (3 :> Free_) @@ (4 :> Moved(18))
              @@ (5 :> Import("_malloc", 0)) @@ (6 :> Import("_free", 1)) @@ (7 :> Moved(0))
              @@ (8 :> Import("_NSString", 0))]

Entries == <<Symbol("_cp2g1b9ro", 16), Symbol("_Mib5yocT", 17)>>
KitSlice ==
  [CoreSlice EXCEPT
     !.segs = <<Zero, Seg("__TEXT", 16, 4, 0, 4), Seg("__DATA", 20, 7, 4, 5)>>,
     !.raw = <<7, Ido, Ido, 8, 10, 17, 11, 21, 12>>, !.text = <<1, 3>>,
     !.rebase = <<Pointer, At(3, 1), Fix(2, 1)>>,
     !.bind = <<Sym("_reallocf"), At(3, 0), Fix(2, 1), Sym("_unknown"), Fix(1, 0), Sym("_other"), Fix(1, 0)>>,
     !.weak = <<At(3, 6), Sym("_WIn9UJ86JKdV4dM"), Fix(1, 0)>>, !.lazy = <<>>,
     !.symbols = Entries,
     !.linked = (0 :> File(7)) @@ (1 :> Quiet) @@ (2 :> Quiet) @@ (3 :> File(8)) @@ (4 :> Import("_reallocf", 0))
                @@ (5 :> Moved(17)) @@ (6 :> Import("_reallocf", 0)) @@ (7 :> Moved(21))
                @@ (8 :> Import("_unknown", 0)) @@ (9 :> Import("_other", 0)) @@ (10 :> Import("_WIn9UJ86JKdV4dM", 0))]
\* Another version, which the claimed table does not fit; the scan leaves the last read of the section.
OtherKit == [KitSlice EXCEPT !.raw = <<Ido, 8, Ido, Ido, 10, 17, 11, 21, 12>>, !.text = <<0, 4>>,
                             !.linked = (0 :> Quiet) @@ (1 :> File(8)) @@ (2 :> Quiet) @@ (3 :> Quiet) @@ @]
\* Others that a claimed table fits: CoreFP's has no entry, and one of CommerceKit's is behind the section.
OtherCore == [CoreSlice EXCEPT !.linked = (1 :> Quiet) @@ @]
ShortKit == [KitSlice EXCEPT !.text = <<1, 1>>, !.linked = (2 :> File(Ido)) @@ @]

Fat(m) == [slices |-> <<[x86 |-> FALSE, inFile |-> TRUE, of |-> m], [x86 |-> TRUE, inFile |-> TRUE, of |-> m]>>]
Thin(m) == [slices |-> <<[x86 |-> TRUE, inFile |-> TRUE, of |-> m]>>]
Small == [CoreSlice EXCEPT !.bind = <<>>, !.lazy = <<>>, !.linked = (5 :> File(31)) @@ (6 :> File(32)) @@ (8 :> File(33)) @@ @]

MCMachFile ==
  [core |-> Fat(CoreSlice), kit |-> Thin(KitSlice), otherKit |-> Thin(OtherKit),
   otherCore |-> Thin(OtherCore), shortKit |-> Thin(ShortKit),
   noExport |-> Thin([CoreSlice EXCEPT !.symbols = <<>>]),
   small |-> Thin(Small),
   cutStream |-> Thin([CoreSlice EXCEPT !.bind = <<Sym("_malloc"), Op("cut", 0, 0)>>]),
   oddType |-> Thin([CoreSlice EXCEPT !.rebase = <<Op("type", 2, 0)>>]),
   bindInRebase |-> Thin([CoreSlice EXCEPT !.rebase = <<Sym("_malloc")>>]),
   noSegment |-> Thin([CoreSlice EXCEPT !.bind = <<At(9, 0), Fix(1, 0)>>]),
   outside |-> Thin([CoreSlice EXCEPT !.lazy = <<At(3, 4), Sym("_free"), Fix(1, 0)>>]),
   outsideRebase |-> Thin([CoreSlice EXCEPT !.rebase = <<At(3, 4), Fix(1, 0)>>]),
   short |-> Thin([Small EXCEPT !.rebase = <<>>, !.raw = <<7, 8>>, !.text = <<>>]),
   onlyZero |-> Thin([CoreSlice EXCEPT !.segs = <<Zero>>]),
   stripped |-> Thin([Small EXCEPT !.symtab = "empty"]),
   cutSymbols |-> Thin([Small EXCEPT !.symtab = "cut"]),
   noCommands |-> Thin([Small EXCEPT !.cmds = "empty", !.segs = <<>>]),
   badCommands |-> Thin([Small EXCEPT !.cmds = "bad"]),
   cutSlice |-> [slices |-> <<[x86 |-> TRUE, inFile |-> FALSE, of |-> Small]>>],
   noSlice |-> [slices |-> <<[x86 |-> FALSE, inFile |-> TRUE, of |-> Small]>>]]
MCMachFiles == DOMAIN MCMachFile

MCDigest == [f \in MCMachFiles |-> IF f \in {"core", "kit"} THEN f ELSE "unpinned"]
MCSiteTable == [core |-> <<>>, kit |-> <<0, 1>>]
MCGenuine == [core |-> "core", kit |-> "kit"]

MCDirs ==
  [cache |-> [core |-> "core", kit |-> "kit", icxs |-> "icxs", fetched |-> TRUE],
   other |-> [core |-> "core", kit |-> "otherKit", icxs |-> "icxs", fetched |-> FALSE],
   newer |-> [core |-> "otherCore", kit |-> "shortKit", icxs |-> "icxs", fetched |-> FALSE],
   old |-> [core |-> "noExport", kit |-> "kit", icxs |-> "icxs", fetched |-> FALSE],
   swapped |-> [core |-> "core", kit |-> "small", icxs |-> "icxs", fetched |-> FALSE],
   partial |-> [core |-> "core", kit |-> "none", icxs |-> "icxs", fetched |-> FALSE]]

MCShimNames == <<"shim_malloc", "shim_realloc", "shim_free">>
MCAliases == [_malloc |-> "shim_malloc", _realloc |-> "shim_realloc", _reallocf |-> "shim_realloc", _free |-> "shim_free"]
MCStubPages == <<5000, 6000, 7000, 8000, 9000>>
MCIcxs == <<"i1", "i2">>
=============================================================================
