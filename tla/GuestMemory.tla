---------------------------- MODULE GuestMemory ----------------------------
(***************************************************************************)
(* VirtualAlloc, VirtualFree and VirtualProtect over the pages of the      *)
(* host. Addresses count half pages (PageSize = 2), which is all the       *)
(* rounding needs. The shims keep no table: what a region is, is known to  *)
(* the guest alone (`regions`, `asked`).                                   *)
(***************************************************************************)
EXTENDS Naturals

CONSTANTS MaxPage, PageSize, Prots

ASSUME MemoryAssumption ==
  /\ MaxPage \in Nat \ {0} /\ PageSize \in Nat \ {0}
  /\ "none" \notin Prots

Pages == 0..MaxPage - 1
Addrs == 0..MaxPage * PageSize - 1

VARIABLES
  page,      \* the host: the protection of a mapped page, "none" where nothing is
  regions,   \* history, the guest's: base -> length of what it has allocated
  asked      \* history, the guest's: page -> the protection it asked for last

memoryVars == <<page, regions, asked>>

MemoryInit ==
  /\ page = [p \in Pages |-> "none"]
  /\ regions = [a \in Addrs |-> 0]
  /\ asked = [p \in Pages |-> "none"]

\* round_up_page, and the pages from a page on.
RoundUp(n) == ((n + PageSize - 1) \div PageSize) * PageSize
From(a, len) == (a \div PageSize)..((a + len) \div PageSize - 1)
Put(f, S, v) == [p \in Pages |-> IF p \in S THEN v ELSE f[p]]

\* The host puts it where nothing is; an address the guest would like is only a hint.
VirtualAlloc(size, prot) == \E a \in {p * PageSize : p \in Pages} :
  LET S == From(a, RoundUp(size))
  IN /\ S \subseteq Pages /\ \A p \in S : page[p] = "none"
     /\ page' = Put(page, S, prot)
     /\ asked' = Put(asked, S, prot)
     /\ regions' = [regions EXCEPT ![a] = size]

\* To release a region is to give no size: one page of it is unmapped.
\* A mutant of Unmapped: one page more.
UnmappedMore(size) == IF size = 0 THEN 2 * PageSize ELSE RoundUp(size)
Unmapped(size) == IF size = 0 THEN PageSize ELSE RoundUp(size)

VirtualFree(a, size) ==
  LET S == From(a, Unmapped(size))
  IN /\ page' = Put(page, S, "none")
     /\ asked' = Put(asked, S, "none")
     /\ regions' = [regions EXCEPT ![a] = 0]

\* The pages from the one the address is in to the one the range ends in.
PageBase(a) == (a \div PageSize) * PageSize
\* A mutant of Covered: the offset in the page is not added to the length.
CoveredShort(a, size) == From(PageBase(a), RoundUp(size))
Covered(a, size) == From(PageBase(a), RoundUp((a - PageBase(a)) + size))

VirtualProtect(a, size, prot) ==
  /\ \A p \in Covered(a, size) : p \in Pages /\ page[p] # "none"
  /\ page' = Put(page, Covered(a, size), prot)
  /\ asked' = Put(asked, {b \div PageSize : b \in a..a + size - 1}, prot)
  /\ UNCHANGED regions

MemoryNext ==
  \/ \E n \in 1..MaxPage * PageSize, w \in Prots : VirtualAlloc(n, w)
  \/ \E a \in Addrs : \E n \in {0, regions[a]} : regions[a] > 0 /\ VirtualFree(a, n)
  \/ \E a \in Addrs, k \in Addrs, n \in 1..MaxPage * PageSize, w \in Prots :
       a + k + n <= a + regions[a] /\ VirtualProtect(a + k, n, w)

-----------------------------------------------------------------------------
MemoryTypeOK ==
  /\ page \in [Pages -> Prots \union {"none"}]
  /\ regions \in [Addrs -> 0..MaxPage * PageSize]
  /\ asked \in [Pages -> Prots \union {"none"}]

RegionPages(a) == {b \div PageSize : b \in a..a + regions[a] - 1}

(***************************************************************************)
(* What the guest has allocated and not freed stays mapped, under the      *)
(* protection it asked for last: neither a release, which knows no size,   *)
(* nor a change of protection that begins or ends inside a page reaches    *)
(* into another region, and no two regions share a page.                   *)
(***************************************************************************)
RegionsKept ==
  /\ \A a \in Addrs : \A p \in RegionPages(a) : page[p] # "none" /\ page[p] = asked[p]
  /\ \A a, b \in Addrs : a # b => RegionPages(a) \cap RegionPages(b) = {}
=============================================================================
