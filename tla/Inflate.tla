------------------------------ MODULE Inflate ------------------------------
(***************************************************************************)
(* The DEFLATE decoder that reads the property lists of a package, as a    *)
(* machine that reads bits: one step per block header, per symbol and per  *)
(* code length.                                                            *)
(***************************************************************************)
EXTENDS Deflate

CONSTANT Streams   \* compressed entries

ASSUME StreamsAssumption == \A e \in Streams : Packed(e)

VARIABLES
  stream, bit,     \* the entry, and how many bits of it were read
  reading,         \* "header", "lens", "symbols", "done", "failed"
  last,            \* the block is the last one
  want,            \* a dynamic block: how many literal and distance codes it has
  clens,           \* its code for code lengths
  lens,            \* the lengths read so far
  lit, dist,       \* the codes of the block
  out

inflateVars == <<stream, bit, reading, last, want, clens, lens, lit, dist, out>>

Bits == stream.bits
Has(from, n) == from + n <= Len(Bits)

-----------------------------------------------------------------------------
(* A Huffman code from the lengths of its symbols: what the code after the   *)
(* last of each length is, and the symbols of each length in their order.    *)

Tables(l, rank) ==
  [limit |-> Worth(Counts(l), 15),
   symbols |-> [n \in 1..15 |-> [r \in 0..Counts(l)[n] - 1 |->
                  (CHOOSE p \in DOMAIN l : l[p] = n /\ rank[p] = r) - 1]]]

\* A variant that orders the symbols of equal length backwards.
BackwardCode(l) == Tables(l, [p \in DOMAIN l |-> Cardinality({t \in p + 1..Len(l) : l[t] = l[p]})])

CodeOf(l) == Tables(l, [p \in DOMAIN l |-> Rank(l, p)])

FixedLit == CodeOf(FixedLens)
FixedDist == CodeOf(FixedDistLens)

\* decode: the symbol that starts at a bit, and the bit after it; -1 when the input ends or
\* no code fits.
Decode(h, from) ==
  LET code == Worth([i \in 1..15 |-> Bits[from + i]], 15)
      fits == {n \in 1..15 : Has(from, n) /\ code[n] < h.limit[n]} IN
  IF fits = {} THEN [symbol |-> -1, next |-> 0]
  ELSE LET n == CHOOSE n \in fits : \A k \in fits : n <= k IN
       [symbol |-> h.symbols[n][code[n] - 2 * h.limit[n - 1]], next |-> from + n]

-----------------------------------------------------------------------------
InflateInit ==
  /\ stream \in Streams /\ bit = 0 /\ reading = "header" /\ last = FALSE
  /\ want = <<0, 0>> /\ clens = <<>> /\ lens = <<>> /\ lit = <<>> /\ dist = <<>> /\ out = <<>>

Refuse == reading' = "failed" /\ UNCHANGED <<stream, bit, last, want, clens, lens, lit, dist, out>>
Block(final, to, next) == reading' = to /\ last' = final /\ bit' = next /\ UNCHANGED stream
AfterBlock(final) == IF final THEN "done" ELSE "header"

\* A stored block: its bytes follow the next byte boundary.
StoredBlock(final, from) ==
  LET n == Number(Bits, from, 16)
      whole == Has(from, 32) /\ Number(Bits, from + 16, 16) = Inverted(n) /\ Has(from + 32, 8 * n) IN
  \/ ~whole /\ Refuse
  \/ /\ whole /\ out' = out \o [i \in 1..n |-> Number(Bits, from + 32 + 8 * (i - 1), 8)]
     /\ Block(final, AfterBlock(final), from + 32 + 8 * n)
     /\ UNCHANGED <<want, clens, lens, lit, dist>>

\* The header of a dynamic block.
Dynamic(final, from) ==
  LET n == Number(Bits, from + 10, 4) + 4 IN
  IF ~Has(from, 14) \/ ~Has(from + 14, 3 * n) THEN Refuse
  ELSE /\ want' = <<Number(Bits, from, 5) + 257, Number(Bits, from + 5, 5) + 1>>
       /\ clens' = CodeOf([i \in 1..19 |->
                     LET k == CHOOSE k \in 1..19 : Order[k] = i - 1 IN
                     IF k <= n THEN Number(Bits, from + 14 + 3 * (k - 1), 3) ELSE 0])
       /\ lens' = <<>> /\ Block(final, "lens", from + 14 + 3 * n)
       /\ UNCHANGED <<lit, dist, out>>

Header ==
  /\ reading = "header"
  /\ IF ~Has(bit, 3) THEN Refuse
     ELSE LET final == Bits[bit + 1] = 1  type == Number(Bits, bit + 1, 2) IN
          CASE type = 0 -> StoredBlock(final, Aligned(bit + 3))
            [] type = 1 -> /\ lit' = FixedLit /\ dist' = FixedDist
                           /\ Block(final, "symbols", bit + 3) /\ UNCHANGED <<want, clens, lens, out>>
            [] type = 2 -> Dynamic(final, bit + 3)
            [] OTHER    -> Refuse

\* A code length, or a run of them.
Lengths ==
  /\ reading = "lens" /\ Len(lens) < want[1] + want[2]
  /\ LET d == Decode(clens, bit)  s == d.symbol  n == RunBits(s) IN
     IF s = -1 \/ ~Has(d.next, n) \/ (s = 16 /\ lens = <<>>) THEN Refuse
     ELSE /\ lens' = lens \o (IF s <= 15 THEN <<s>>
                              ELSE [i \in 1..RunLength(s, Number(Bits, d.next, n)) |-> IF s = 16 THEN lens[Len(lens)] ELSE 0])
          /\ bit' = d.next + n
          /\ UNCHANGED <<stream, reading, last, want, clens, lit, dist, out>>

Codes ==
  /\ reading = "lens" /\ Len(lens) >= want[1] + want[2]
  /\ IF Len(lens) # want[1] + want[2] THEN Refuse
     ELSE /\ lit' = CodeOf(SubSeq(lens, 1, want[1]))
          /\ dist' = CodeOf(SubSeq(lens, want[1] + 1, Len(lens)))
          /\ reading' = "symbols"
          /\ UNCHANGED <<stream, bit, last, want, clens, lens, out>>

-----------------------------------------------------------------------------
(* inflate_block.                                                            *)

Read(next, bytes, to) ==
  /\ bit' = next /\ out' = bytes /\ reading' = to
  /\ UNCHANGED <<stream, last, want, clens, lens, lit, dist>>

\* len bytes from a distance back, which may reach into what is being copied.
BackReference(len, distance) ==
  LET copied[i \in 0..len] ==
        IF i = 0 THEN out
        ELSE LET before == copied[i - 1] IN Append(before, before[Len(out) + i - distance]) IN
  copied[len]

Match(symbol, from) ==
  LET k == symbol - EndOfBlock
      d == Decode(dist, from + LenExtra[k])
      len == LenBase[k] + Number(Bits, from, LenExtra[k])
      distance == DistBase[d.symbol + 1] + Number(Bits, d.next, DistExtra[d.symbol + 1]) IN
  IF ~Has(from, LenExtra[k]) \/ d.symbol \notin 0..29 THEN Refuse
  ELSE IF ~Has(d.next, DistExtra[d.symbol + 1]) \/ distance > Len(out) THEN Refuse
  ELSE Read(d.next + DistExtra[d.symbol + 1], BackReference(len, distance), "symbols")

Symbol ==
  /\ reading = "symbols"
  /\ LET d == Decode(lit, bit) IN
     CASE d.symbol \in 0..255   -> Read(d.next, Append(out, d.symbol), "symbols")
       [] d.symbol = EndOfBlock        -> Read(d.next, out, AfterBlock(last))
       [] d.symbol \in 257..285 -> Match(d.symbol, d.next)
       [] OTHER                 -> Refuse

InflateNext == Header \/ Lengths \/ Codes \/ Symbol

-----------------------------------------------------------------------------
(***************************************************************************)
(* Whatever blocks an entry was packed in, and however their codes were    *)
(* written, what is read from it is what was packed; and when nothing was  *)
(* packed that way, or the entry ends too early, it is refused.            *)
(***************************************************************************)
InflatesBack ==
  /\ reading = "done" => stream.whole /\ out = stream.plain
  /\ reading = "failed" => ~stream.whole
=============================================================================
