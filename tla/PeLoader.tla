----------------------------- MODULE PeLoader -----------------------------
(***************************************************************************)
(* Image::load: a PE32+ image is parsed, mapped at its base or elsewhere,  *)
(* copied, relocated, bound to the shims, and its pages get the protection *)
(* of their sections. An import that no shim implements is bound to a trap *)
(* stub, whose label names it; the stubs of all images of the process come *)
(* from one page.                                                          *)
(*                                                                         *)
(* Memory is counted in cells, a page in PageCells of them. A cell holds a *)
(* number; an address is a number, too.                                    *)
(***************************************************************************)
EXTENDS Integers, Sequences, FiniteSets

CONSTANTS
  Images,      \* the files
  File,        \* what parsing finds in each: see ImageType
  PageCells,   \* cells of a page
  MaxStubs,    \* stubs that fit in the pool's page
  Shim,        \* name of an implemented import -> its address
  StubBase,    \* the address of the first stub
  Elsewhere,   \* where the host maps an image that cannot have its base
  Word,        \* what a 32-bit number wraps at
  MaxImages    \* bound: images loaded by one process

(***************************************************************************)
(* What the directories of an image say. `raw` is what the file has for a  *)
(* section, `inFile` whether it lies within the file. The relocations are  *)
(* the entries of all blocks, of cells that fit in the image whole; their  *)
(* directory may lie outside of it. An import is a library, its thunks (a name   *)
(* or an ordinal, "#") and the cell of the first of them; a name exports a *)
(* cell, or forwards to another library.                                   *)
(***************************************************************************)
Rights == SUBSET {"r", "w", "x"}
SectionType == [va : Nat, vsize : Nat, raw : Seq(Int), inFile : BOOLEAN, prot : Rights]
ImportType == [dll : STRING, thunks : Seq(STRING), iat : Nat]
RelocType == [at : Nat, type : {"dir64", "highlow", "pad"}]

ImageType(f) ==
  /\ f.ok \in BOOLEAN /\ f.base \in Nat \ {0} /\ f.size \in Nat /\ f.entry \in Nat
  /\ f.sections \in Seq(SectionType) /\ f.relocs \in Seq(RelocType) /\ f.imports \in Seq(ImportType)
  /\ f.relocsInside \in BOOLEAN

PagesFor(n) == (n + PageCells - 1) \div PageCells

(***************************************************************************)
(* What linkers write and the loader takes for granted: a cell is          *)
(* relocated once; no section is below the first, up to which the file has *)
(* the headers; a section begins at a page, and has no more pages in the   *)
(* file than in memory.                                                    *)
(***************************************************************************)
WellLinked(f) ==
  /\ \A j, k \in DOMAIN f.relocs :
       f.relocs[j].at = f.relocs[k].at /\ "pad" \notin {f.relocs[j].type, f.relocs[k].type} => j = k
  /\ f.sections # <<>>
  /\ \A i \in DOMAIN f.sections :
       LET s == f.sections[i]
       IN /\ s.va >= f.sections[1].va
          /\ s.vsize > 0 => s.va % PageCells = 0 /\ PagesFor(Len(s.raw)) <= PagesFor(s.vsize)

ASSUME PeAssumption ==
  /\ PageCells \in Nat \ {0} /\ MaxStubs \in Nat /\ MaxImages \in Nat \ {0}
  /\ StubBase \in Int /\ Elsewhere \in Nat \ {0} /\ Word \in Nat \ {0}
  /\ \A n \in DOMAIN Shim : Shim[n] \in Int
  /\ \A x \in Images : ImageType(File[x]) /\ WellLinked(File[x]) /\ File[x].base # Elsewhere

VARIABLES
  pc,       \* how far the load is; "loaded", or "failed"
  image,    \* the file it loads
  base,     \* where it is mapped, 0 when it is not
  cell,     \* the memory of the image
  prot,     \* the protection of its pages
  at,       \* the import to be bound: library and thunk
  pool,     \* the labels of the stubs
  loads     \* images loaded so far

loadVars == <<pc, image, base, cell, prot, at, pool, loads>>

F == File[image]
Rvas == 0..F.size - 1
Page(rva) == rva \div PageCells
AllPages(f) == 0..PagesFor(f.size) - 1
Slide == base - F.base

LoadInit ==
  /\ pc = "load" /\ image \in Images
  /\ base = 0 /\ cell = <<>> /\ prot = <<>> /\ at = <<1, 1>>
  /\ pool = <<>> /\ loads = 0

Goto(l) == pc' = l
\* An error after the mapping drops the Image, which unmaps it.
Fail == /\ Goto("failed") /\ base' = 0 /\ cell' = <<>> /\ prot' = <<>>
        /\ UNCHANGED <<image, at, pool, loads>>

-----------------------------------------------------------------------------
\* PeInfo::parse: the first thing that is wrong ends it.
Parse ==
  /\ pc = "load"
  /\ IF F.ok THEN Goto("map") /\ UNCHANGED <<image, base, cell, prot, at, pool, loads>> ELSE Fail

\* The base of the image if nothing is there, or any other place.
Map ==
  /\ pc = "map"
  /\ \/ Fail
     \/ \E b \in {F.base, Elsewhere} :
          /\ base' = b
          /\ cell' = [r \in Rvas |-> 0]
          /\ prot' = [p \in AllPages(F) |-> {"r", "w", "x"}]
          /\ Goto("copy")
          /\ UNCHANGED <<image, at, pool, loads>>

(***************************************************************************)
(* The headers reach up to the first section. A section without data in    *)
(* the file, or beyond its end, stays zero; one that is longer than the    *)
(* image is cut.                                                           *)
(***************************************************************************)
Present(s) == s.inFile /\ s.raw # <<>>
HeaderCell == 1
SectionOf(r) == {i \in DOMAIN F.sections :
                   LET s == F.sections[i] IN Present(s) /\ r \in s.va..s.va + Len(s.raw) - 1}
LastOf(S) == CHOOSE i \in S : \A j \in S : j <= i
Copied(r) == IF SectionOf(r) # {}
             THEN LET s == F.sections[LastOf(SectionOf(r))] IN s.raw[r - s.va + 1]
             ELSE IF r < F.sections[1].va THEN HeaderCell ELSE 0

\* One that begins beyond the image: what is left for it underflows, and all of it is written
\* behind the image. The process may end of it, or go on with an image that is as it should be.
Overruns == \E i \in DOMAIN F.sections : Present(F.sections[i]) /\ F.sections[i].va > F.size

Copy ==
  /\ pc = "copy"
  /\ \/ cell' = [r \in Rvas |-> Copied(r)] /\ Goto("relocate")
     \/ Overruns /\ Goto("aborted") /\ UNCHANGED cell
  /\ UNCHANGED <<image, base, prot, at, pool, loads>>

\* Entries outside the image and those of another kind are passed over.
\* A mutant of Moves: the relocation of a slot before it, or of a pad, is applied as well.
MovesPads(r) == {k \in DOMAIN F.relocs : F.relocs[k].at \in {r, r - 1}}
Moves(r) == {k \in DOMAIN F.relocs : F.relocs[k].at = r /\ F.relocs[k].type # "pad"}

\* The 32-bit kind adds the lower half of the slide to the lower half of the cell.
Upper(v) == v - (v % Word)
Moved(r, v) == IF Moves(r) = {} THEN v
               ELSE IF \E k \in Moves(r) : F.relocs[k].type = "highlow"
               THEN Upper(v) + ((v + Slide) % Word)
               ELSE v + Slide

\* A directory outside the image, of an image that must be moved, is a panic.
Relocate ==
  /\ pc = "relocate"
  /\ IF Slide # 0 /\ ~F.relocsInside
     THEN Goto("aborted") /\ UNCHANGED cell
     ELSE cell' = [r \in Rvas |-> Moved(r, cell[r])] /\ Goto("bind")
  /\ UNCHANGED <<image, base, prot, at, pool, loads>>

(***************************************************************************)
(* resolve_imports, one thunk at a time. An ordinal has no name to be      *)
(* resolved by. A thunk outside the image ends the load, and what was      *)
(* bound before keeps its stubs; a full pool ends the process.             *)
(***************************************************************************)
Import == F.imports[at[1]]
Slot == Import.iat + at[2] - 1
Resolvable(name) == name \in DOMAIN Shim
Label == <<Import.dll, Import.thunks[at[2]]>>

Fill(v) == cell' = [cell EXCEPT ![Slot] = v]
NextThunk == at' = <<at[1], at[2] + 1>>

Bound ==
  /\ pc = "bind" /\ at[1] <= Len(F.imports) /\ at[2] <= Len(Import.thunks)
  /\ IF Slot \notin Rvas THEN Fail
     ELSE /\ Resolvable(Label[2])
          /\ Fill(Shim[Label[2]])
          /\ NextThunk
          /\ UNCHANGED <<pc, image, base, prot, pool, loads>>

\* StubPool::allocate: the stub's index is the number of labels before it.
Trapped ==
  /\ pc = "bind" /\ at[1] <= Len(F.imports) /\ at[2] <= Len(Import.thunks)
  /\ Slot \in Rvas /\ ~Resolvable(Label[2])
  /\ IF Len(pool) = MaxStubs
     THEN Goto("aborted") /\ UNCHANGED <<image, base, cell, prot, at, pool, loads>>
     ELSE /\ Fill(StubBase + Len(pool))
          /\ pool' = Append(pool, Label)
          /\ NextThunk
          /\ UNCHANGED <<pc, image, base, prot, loads>>

NextLibrary ==
  /\ pc = "bind"
  /\ IF at[1] > Len(F.imports)
     THEN Goto("exports") /\ UNCHANGED at
     ELSE at[2] > Len(Import.thunks) /\ at' = <<at[1] + 1, 1>> /\ UNCHANGED pc
  /\ UNCHANGED <<image, base, cell, prot, pool, loads>>

\* read_export_directory: only its place is checked.
Exports ==
  /\ pc = "exports"
  /\ IF F.exportsInside THEN Goto("protect") /\ UNCHANGED <<image, base, cell, prot, at, pool, loads>>
     ELSE Fail

\* mprotect, section by section, from the page it begins in.
Longer(s) == IF s.vsize > Len(s.raw) THEN s.vsize ELSE Len(s.raw)
Reach(s) == Page(s.va)..(Page(s.va) + PagesFor(Longer(s)) - 1)
Reaching(p) == {i \in DOMAIN F.sections : F.sections[i].vsize > 0 /\ p \in Reach(F.sections[i])}
Protected(p) == IF Reaching(p) = {} THEN prot[p] ELSE F.sections[LastOf(Reaching(p))].prot

Protect ==
  /\ pc = "protect"
  /\ prot' = [p \in DOMAIN prot |-> Protected(p)]
  /\ loads' = loads + 1
  /\ Goto("loaded")
  /\ UNCHANGED <<image, base, cell, at, pool>>

LoadNext == Parse \/ Map \/ Copy \/ Relocate \/ Bound \/ Trapped \/ NextLibrary \/ Exports \/ Protect

Forwarded == -1

\* get_export_by_name: a forwarder is not followed.
Exported(name) == name \in DOMAIN F.exports /\ F.exports[name] # Forwarded

-----------------------------------------------------------------------------
LoadTypeOK ==
  /\ base # 0 => cell \in [Rvas -> Int] /\ prot \in [AllPages(F) -> Rights]
  /\ Len(pool) <= MaxStubs /\ loads \in 0..MaxImages

(***************************************************************************)
(* An image that has been loaded is what its linker meant: a slot of the   *)
(* import table calls the shim of that name, or the stub whose label names *)
(* the import; a cell that the relocations list points to the same place   *)
(* of the image, wherever it was mapped, the 32-bit kind as far as 32 bits *)
(* can tell; every other cell is the file's, or zero; and each page that   *)
(* belongs to one section alone can be used as the section says. Defined   *)
(* from the file, not from what the loader does with it.                   *)
(***************************************************************************)
Thunks == UNION {{<<i, k>> : k \in DOMAIN F.imports[i].thunks} : i \in DOMAIN F.imports}
SlotOf(r) == {s \in Thunks : F.imports[s[1]].iat + s[2] - 1 = r}
Calls(v, dll, name) ==
  IF name \in DOMAIN Shim THEN v = Shim[name]
  ELSE v - StubBase + 1 \in DOMAIN pool /\ pool[v - StubBase + 1] = <<dll, name>>

\* What the file has for a cell; of sections that overlap, what one of them has.
Covering(r) == {i \in DOMAIN F.sections :
  F.sections[i].inFile /\ r \in F.sections[i].va..F.sections[i].va + Len(F.sections[i].raw) - 1}
InFile(r) == IF Covering(r) # {} THEN {F.sections[i].raw[r - F.sections[i].va + 1] : i \in Covering(r)}
             ELSE IF \A i \in DOMAIN F.sections : r < F.sections[i].va THEN {HeaderCell} ELSE {0}

Listed(r, type) == \E k \in DOMAIN F.relocs : F.relocs[k].at = r /\ F.relocs[k].type = type
Meant(r, v, w) ==
  /\ Listed(r, "dir64") => v - base = w - F.base
  /\ Listed(r, "highlow") => ((v - base) - (w - F.base)) % Word = 0 /\ Upper(v) = Upper(w)
  /\ ~Listed(r, "dir64") /\ ~Listed(r, "highlow") => v = w

InSections(p) == {i \in DOMAIN F.sections :
  \E r \in F.sections[i].va..F.sections[i].va + F.sections[i].vsize - 1 : Page(r) = p}

LoadedAsLinked ==
  pc = "loaded" =>
    /\ \A r \in Rvas :
         IF SlotOf(r) # {}
         THEN \E s \in SlotOf(r) : Calls(cell[r], F.imports[s[1]].dll, F.imports[s[1]].thunks[s[2]])
         ELSE \E w \in InFile(r) : Meant(r, cell[r], w)
    /\ \A p \in DOMAIN prot : \A i \in InSections(p) :
         InSections(p) = {i} => prot[p] = F.sections[i].prot
=============================================================================
