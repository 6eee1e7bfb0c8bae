----------------------------- MODULE MachShims -----------------------------
(***************************************************************************)
(* What libSystem is to a Mach-O guest: a heap that only grows, at one     *)
(* address for the life of the process; the ICXS file behind one           *)
(* descriptor; an iterator of one registry entry; a machine address; the   *)
(* exports dlsym answers with; once-routines; and, for every shim, a slot  *)
(* at an address that does not depend on the run.                          *)
(*                                                                         *)
(* The heap counts units of sixteen bytes: a block is a unit that holds    *)
(* its size, then its own. The guest may fill a block it was given, up to  *)
(* its size and never beyond.                                              *)
(***************************************************************************)
EXTENDS Integers, Sequences, FiniteSets, SequencesExt

CONSTANTS
  HeapUnits,     \* units in the arena
  Sizes,         \* bound: sizes asked for, in bytes
  Icxs,          \* what the ICXS file holds, a sequence
  Counts,        \* bound: lengths read at once
  ShimNames,     \* the shims, in the order the table registers them
  Aliases,       \* imported name -> the shim that answers it
  ShimBase,      \* the address of the first slot
  Controls,      \* the once-controls of the images
  Macs, NoMac    \* machine addresses

ASSUME ShimsAssumption ==
  /\ HeapUnits \in Nat /\ Sizes \subseteq Nat /\ Counts \subseteq Nat
  /\ Icxs \in Seq({Icxs[k] : k \in DOMAIN Icxs})
  /\ ShimNames \in Seq({ShimNames[k] : k \in DOMAIN ShimNames})
  /\ \A j, k \in DOMAIN ShimNames : ShimNames[j] = ShimNames[k] => j = k

VARIABLES
  tail,       \* HEAP_TAIL, in units; -1 until the arena is mapped
  heap,       \* unit -> what it holds: a size, or "filled"
  blocks,     \* every block handed out: [at, size, session]
  icxs,       \* the file is installed
  cursor,     \* icxs_cursor
  iterator,   \* calls of IOIteratorNext, as its counter counts them
  guestMac,   \* GUEST_MAC
  exportsOf,  \* DLSYM_TABLE
  slots,      \* the shims that have a slot, in order
  ran         \* once-controls of this session's images whose routine has run

shimVars == <<tail, heap, blocks, icxs, cursor, iterator, guestMac, exportsOf, slots, ran>>

VARIABLES
  session,    \* sessions begun
  answer      \* in this session: how often it asked the iterator, and what it read since it opened

talkVars == <<session, answer>>

NoAnswer == [asked |-> 0, sinceOpen |-> <<>>]

ShimsInit ==
  /\ tail = -1 /\ heap = <<>> /\ blocks = {}
  /\ icxs = FALSE /\ cursor = 0 /\ iterator = 0
  /\ guestMac = NoMac /\ exportsOf = <<>> /\ slots = <<>>
  /\ ran = {}
  /\ session = 0 /\ answer = NoAnswer

-----------------------------------------------------------------------------
\* Sizes are rounded up to the unit; the unit before a block holds its size.
GoodSize(n) == (n + 15) \div 16
Prefix == 1
Holding(h, at, v) == [u \in DOMAIN h \cup {at} |-> IF u = at THEN v ELSE h[u]]

\* The block a size gets, or none: the arena is mapped by the first call.
TailNow == IF tail = -1 THEN 0 ELSE tail
\* A mutant of Fits: the unit that holds the size is not counted.
FitsWithoutSize(n) == TailNow + GoodSize(n) <= HeapUnits
Fits(n) == TailNow + Prefix + GoodSize(n) <= HeapUnits
UserOf(n) == TailNow + Prefix

\* A mutant of Taken: the unit that holds the size is forgotten.
TakenShort(n) == UserOf(n) + GoodSize(n) - 1
Taken(n) == UserOf(n) + GoodSize(n)

\* malloc: the block, and null at the end of the arena.
Allocate(n, h) ==
  IF Fits(n)
  THEN /\ tail' = Taken(n)
       /\ heap' = Holding(h, TailNow, n)
       /\ blocks' = blocks \cup {[at |-> UserOf(n), size |-> n, session |-> session]}
  ELSE tail' = TailNow /\ heap' = h /\ UNCHANGED blocks

RestOfShims == UNCHANGED <<icxs, cursor, iterator, guestMac, exportsOf, slots, ran, talkVars>>

Malloc == \E n \in Sizes : Allocate(n, heap) /\ RestOfShims
\* count * size wraps; the arena is zero because it is new.
Calloc == \E n \in Sizes, count \in {1, 2} : Allocate(count * n, heap) /\ RestOfShims

\* The size before a block that lies in the arena.
BlockSize(at) == IF at - Prefix \in DOMAIN heap THEN heap[at - Prefix] ELSE 0
MallocSize(b) == BlockSize(b.at)

\* The old block is copied, as far as the new one reaches; it is not given back.
Smaller(n, k) == IF n < k THEN n ELSE k
Realloc ==
  \E b \in blocks, n \in Sizes :
    LET old == MallocSize(b)
        to == UserOf(n)
        units == GoodSize(Smaller(old, n))
        copy == [u \in to..to + units - 1 |->
                   IF u - to + b.at \in DOMAIN heap THEN heap[u - to + b.at] ELSE "zero"]
        h == [u \in DOMAIN heap \cup DOMAIN copy |-> IF u \in DOMAIN copy THEN copy[u] ELSE heap[u]]
    IN  Allocate(n, IF Fits(n) THEN h ELSE heap) /\ RestOfShims

\* The guest uses what it was given.
Fill ==
  \E b \in blocks :
    /\ b.size > 0
    /\ heap' = [u \in DOMAIN heap \cup b.at..b.at + GoodSize(b.size) - 1 |->
                  IF u \in b.at..b.at + GoodSize(b.size) - 1 THEN "filled" ELSE heap[u]]
    /\ UNCHANGED <<tail, blocks>> /\ RestOfShims

-----------------------------------------------------------------------------
RestOfTelling == UNCHANGED <<tail, heap, blocks, icxs, guestMac, exportsOf, slots, ran, session>>

\* Opening starts from the beginning; any other path is refused, and changes nothing.
Open == /\ cursor' = 0 /\ answer' = [answer EXCEPT !.sinceOpen = <<>>]
        /\ UNCHANGED iterator /\ RestOfTelling

\* pread at the cursor; another descriptor, or no file, is refused.
Remaining == Len(Icxs) - cursor
ReadIcxs ==
  \E count \in Counts :
    LET n == IF icxs THEN Smaller(Remaining, count) ELSE 0
    IN  /\ cursor' = cursor + n
        /\ answer' = [answer EXCEPT !.sinceOpen = @ \o SubSeq(Icxs, cursor + 1, cursor + n)]
        /\ UNCHANGED iterator /\ RestOfTelling

\* --counter % 2, as an unsigned number: an entry, then none, and so on.
IteratorNext ==
  /\ iterator' = iterator + 1
  /\ answer' = [answer EXCEPT !.asked = @ + 1]
  /\ UNCHANGED cursor /\ RestOfTelling
IteratorGives == iterator % 2

\* A control word that is not zero is cleared, and its routine runs; the images bring their words, so
\* each session has its own.
Once ==
  \E c \in Controls :
    /\ ran' = ran \cup {c}
    /\ UNCHANGED <<tail, heap, blocks, icxs, cursor, iterator, guestMac, exportsOf, slots, talkVars>>

\* The shims that change nothing. The address and the exports are looked up, 0 when they are not
\* there; free keeps the block; the others answer alike whenever they are called: zero for the clock,
\* the entropy and the environment, and a handle that the guest only branches on.
Handles == {"_CFStringCreateWithCString", "_objc_msgSend", "_dlopen"}
Silent == {"_pthread_self", "_getenv", "_gettimeofday", "_arc4random", "_sysctlbyname", "_statfs",
          "_CFStringGetCString", "_IORegistryEntryGetParentEntry", "___bzero", "_free"}
Dlsym(name) == IF name \in DOMAIN exportsOf THEN exportsOf[name] ELSE 0
AnswerOf(name) == IF name \in Handles THEN 1 ELSE IF name \in Silent THEN 0 ELSE Dlsym(name)
Asks == UNCHANGED <<shimVars, talkVars>>

GuestCalls == \/ Malloc \/ Calloc \/ Realloc \/ Fill
              \/ Open \/ ReadIcxs \/ IteratorNext \/ Once \/ Asks

-----------------------------------------------------------------------------
\* A slot is given once, by the name of the shim.
WithSlot(sl) == {sl[k] : k \in DOMAIN sl}
SlotGiven(sl, n) == IF n \in WithSlot(sl) THEN sl ELSE Append(sl, n)
Given(sl) ==
  LET after[n \in 0..Len(ShimNames)] ==
        IF n = 0 THEN sl ELSE LET before == after[n - 1] IN SlotGiven(before, ShimNames[n])
  IN  after[Len(ShimNames)]
Slotted == Given(slots)
SlotOf(sl, n) == ShimBase + (CHOOSE k \in DOMAIN sl : sl[k] = n) - 1

\* mach_shim_table: every name the shims answer, and CoreFP's exports by their addresses.
ShimTable(sl, exports) ==
  [n \in DOMAIN Aliases \cup DOMAIN exports |->
     IF n \in DOMAIN exports THEN exports[n] ELSE SlotOf(sl, Aliases[n])]

(***************************************************************************)
(* reset_shim_state and set_icxs, which a session begins with. The heap is *)
(* kept: the guest of the last session may still point into it.            *)
(***************************************************************************)
\* A mutant of IteratorAfter: the iterator goes on where the last session left it.
IteratorGoesOn(old) == old
IteratorAfter(old) == 0
ResetShims ==
  /\ cursor' = 0 /\ iterator' = IteratorAfter(iterator) /\ guestMac' = NoMac
  /\ answer' = NoAnswer /\ session' = session + 1
  /\ ran' = {}
  /\ UNCHANGED <<tail, heap, blocks, exportsOf, slots>>
=============================================================================
