----------------------------- MODULE GuestSlots -----------------------------
(***************************************************************************)
(* Thread- and fiber-local slots. Those of threads are reserved in a       *)
(* bitmap of Width bits that is searched up to Slots (32 and 64 in the     *)
(* code); a shift by more than the width wraps, as release builds do it.   *)
(* Those of fibers have a bit each, and their values are in the TEB.       *)
(***************************************************************************)
EXTENDS Naturals, FiniteSets

CONSTANTS Width, Slots, Values, Null

ASSUME SlotsAssumption ==
  /\ Width \in Nat \ {0} /\ Slots \in Nat /\ Slots >= Width
  /\ Null \notin Values

Index == 0..Slots - 1
NoIndex == Slots     \* TLS_OUT_OF_INDEXES, FLS_OUT_OF_INDEXES and any index beyond

VARIABLES
  tlsBits, tls,   \* the bitmap and the values of the thread's slots
  flsBits, fls,   \* the bitmap, and the values in the TEB
  tlsHeld, flsHeld,   \* history: the indices the guest was given and has not freed
  fresh,          \* history: of tlsHeld, those that have not been set
  aliased         \* history: bits that went with an index that was not held

slotVars == <<tlsBits, tls, flsBits, fls, tlsHeld, flsHeld, fresh, aliased>>
flsVars  == <<flsBits, fls, flsHeld>>
tlsVars  == <<tlsBits, tls, tlsHeld, fresh, aliased>>

\* A mutant of Bit: the shift does not wrap.
BitWide(i) == i
Bit(i) == i % Width

\* init_thread_teb comes before the guest does: all values are null.
SlotsInit ==
  /\ tlsBits = {} /\ flsBits = {}
  /\ tls = [i \in Index |-> Null] /\ fls = [i \in Index |-> Null]
  /\ tlsHeld = {} /\ flsHeld = {} /\ fresh = {} /\ aliased = {}

IsLowest(i, S) == i \in S /\ \A j \in S : i <= j

\* A second TEB for the thread starts with null slots; the bitmaps stay.
InitThreadTeb ==
  /\ fls' = [i \in Index |-> Null]
  /\ UNCHANGED <<tlsVars, flsBits, flsHeld>>

-----------------------------------------------------------------------------
FreeTls == {i \in Index : Bit(i) \notin tlsBits}

Cleared(i) == [tls EXCEPT ![i] = Null]

TlsAlloc ==
  /\ \E i \in Index :
        /\ IsLowest(i, FreeTls)
        /\ tlsBits' = tlsBits \union {Bit(i)}
        /\ tls' = Cleared(i)
        /\ tlsHeld' = tlsHeld \union {i}
        /\ fresh' = fresh \union {i}
  /\ UNCHANGED <<aliased, flsVars>>

\* A value can be set under any index in range, whoever has it.
TlsSetValue(i, v) ==
  /\ i \in Index
  /\ tls' = [tls EXCEPT ![i] = v]
  /\ fresh' = fresh \ {i}
  /\ UNCHANGED <<tlsBits, tlsHeld, aliased, flsVars>>

\* A mutant of Released: the mask is not negated.
ReleasedOnly(i) == tlsBits \intersect {Bit(i)}
Released(i) == tlsBits \ {Bit(i)}

\* The guest may name any index. One it does not hold shares its bit with one that it does,
\* and frees that slot under its holder.
TlsFree(i) ==
  /\ i \in Index /\ Bit(i) \in tlsBits
  /\ tlsBits' = Released(i)
  /\ tlsHeld' = tlsHeld \ {i}
  /\ fresh' = fresh \ {i}
  /\ aliased' = IF i \in tlsHeld THEN aliased ELSE aliased \union {Bit(i)}
  /\ UNCHANGED <<tls, flsVars>>

\* Indices that are out of range, or free, are refused.
Refused(i) ==
  /\ i \notin Index \/ Bit(i) \notin tlsBits
  /\ UNCHANGED slotVars

-----------------------------------------------------------------------------
FlsAlloc ==
  /\ \E i \in Index :
        /\ IsLowest(i, Index \ flsBits)
        /\ flsBits' = flsBits \union {i} /\ flsHeld' = flsHeld \union {i}
  /\ UNCHANGED <<fls, tlsVars>>

FlsSetValue(i, v) ==
  /\ i \in Index
  /\ fls' = [fls EXCEPT ![i] = v]
  /\ UNCHANGED <<flsBits, flsHeld, tlsVars>>

\* The value stays for whoever is given the index next.
FlsFree(i) ==
  /\ i \in flsBits
  /\ flsBits' = flsBits \ {i}
  /\ flsHeld' = flsHeld \ {i}
  /\ UNCHANGED <<fls, tlsVars>>

\* The guest may set and free any index, its own or not.
SlotsNext ==
  \/ TlsAlloc \/ FlsAlloc \/ InitThreadTeb
  \/ \E i \in Index : TlsFree(i) \/ FlsFree(i)
  \/ \E i \in Index \union {NoIndex} : Refused(i)
  \/ \E i \in Index, v \in Values : TlsSetValue(i, v) \/ FlsSetValue(i, v)

-----------------------------------------------------------------------------
SlotsTypeOK ==
  /\ tlsBits \subseteq 0..Width - 1 /\ flsBits \subseteq Index
  /\ tls \in [Index -> Values \union {Null}] /\ fls \in [Index -> Values \union {Null}]
  /\ tlsHeld \subseteq Index /\ flsHeld \subseteq Index /\ fresh \subseteq tlsHeld
  /\ aliased \subseteq 0..Width - 1

(***************************************************************************)
(* An index is held by one caller: a bit is set as long as its index is    *)
(* held, so that TlsAlloc does not give it out again, and no index is held *)
(* beyond the width, although more are searched than the bitmap has bits.  *)
(* This is so but for a slot whose bit the guest has cleared by freeing    *)
(* another index, which TlsFree takes for it. And a slot reads null from   *)
(* TlsAlloc to the first TlsSetValue, whatever its last holder left in it. *)
(***************************************************************************)
HeldOnce ==
  /\ flsBits = flsHeld
  /\ tlsHeld \subseteq 0..Width - 1
  /\ tlsBits \ aliased = tlsHeld \ aliased
  /\ \A i \in fresh : tls[i] = Null
=============================================================================
