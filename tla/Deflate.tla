------------------------------ MODULE Deflate ------------------------------
(***************************************************************************)
(* The format of compressed entries (RFC 1951): which bits stand for which *)
(* bytes. The input is a sequence of bits, eight to a byte, the lowest     *)
(* first. A packer writes items: the header of a block (with all of a      *)
(* stored one), a code length or a run of them, a literal, a match, the    *)
(* end of a block.                                                         *)
(***************************************************************************)
EXTENDS Integers, Sequences, FiniteSets

EndOfBlock == 256
Order == <<16, 17, 18, 0, 8, 7, 9, 6, 10, 5, 11, 4, 12, 3, 13, 2, 14, 1, 15>>
LenBase == <<3, 4, 5, 6, 7, 8, 9, 10, 11, 13, 15, 17, 19, 23, 27, 31, 35, 43, 51, 59, 67, 83, 99, 115, 131,
             163, 195, 227, 258>>
LenExtra == <<0, 0, 0, 0, 0, 0, 0, 0, 1, 1, 1, 1, 2, 2, 2, 2, 3, 3, 3, 3, 4, 4, 4, 4, 5, 5, 5, 5, 0>>
DistBase == <<1, 2, 3, 4, 5, 7, 9, 13, 17, 25, 33, 49, 65, 97, 129, 193, 257, 385, 513, 769, 1025, 1537, 2049,
              3073, 4097, 6145, 8193, 12289, 16385, 24577>>
DistExtra == <<0, 0, 0, 0, 1, 1, 2, 2, 3, 3, 4, 4, 5, 5, 6, 6, 7, 7, 8, 8, 9, 9, 10, 10, 11, 11, 12, 12, 13, 13>>

\* What the first n of m digits are worth, the highest first; a digit may be more than one.
Worth(d, m) == LET v[n \in 0..m] == IF n = 0 THEN 0 ELSE 2 * v[n - 1] + d[n] IN v

\* n bits from a place, the lowest first.
Number(bits, from, n) == Worth([i \in 1..n |-> bits[from + n + 1 - i]], n)[n]
\* The 16 bits of a number, each the other way round.
Inverted(n) == 65535 - n
Aligned(from) == ((from + 7) \div 8) * 8

FixedLens == [i \in 1..288 |-> IF i <= 144 THEN 8 ELSE IF i <= 256 THEN 9 ELSE IF i <= 280 THEN 7 ELSE 8]
FixedDistLens == [i \in 1..30 |-> 5]

\* How often each length occurs in a code, which is given by the lengths of its symbols, from 0;
\* and the symbols of the same length before one.
Counts(l) == [n \in 1..15 |-> Cardinality({p \in DOMAIN l : l[p] = n})]
Rank(l, p) == Cardinality({t \in 1..p - 1 : l[t] = l[p]})

\* A code length, or a run of them.
RunBits(s) == CASE s = 16 -> 2 [] s = 17 -> 3 [] s = 18 -> 7 [] OTHER -> 0
RunLength(s, more) == IF s = 18 THEN 11 + more ELSE 3 + more

-----------------------------------------------------------------------------
(* The items of an entry [bits, blocks, items, plain, whole]: an item knows  *)
(* the bits, the bytes and the code lengths before it, a block its type, its *)
(* code lengths and those of the code they are written in. An entry that is  *)
(* not whole has items up to a place where none fits.                        *)

Room(e, at) == at <= Len(e.bits)
BlockUnder(e, i) == e.blocks[i.block]
LitLens(b) == IF b.type = 1 THEN FixedLens ELSE SubSeq(b.lens, 1, b.want[1])
DistLens(b) == IF b.type = 1 THEN FixedDistLens ELSE SubSeq(b.lens, b.want[1] + 1, b.want[1] + b.want[2])

\* The word of symbol s in the code l: shorter words come first, those of a length in the order
\* of their symbols.
WordOf(l, s) == 2 * Worth(Counts(l), 15)[l[s + 1] - 1] + Rank(l, s + 1)
Spells(e, at, l, s) ==
  /\ s + 1 \in DOMAIN l /\ l[s + 1] # 0 /\ Room(e, at + l[s + 1])
  /\ Worth([i \in 1..l[s + 1] |-> e.bits[at + i]], l[s + 1])[l[s + 1]] = WordOf(l, s)

\* Headers.
Type(e, at) == Number(e.bits, at + 1, 2)
StoredAt(e, at) ==
  LET n == Number(e.bits, at, 16) IN
  /\ Room(e, at + 32) /\ Number(e.bits, at + 16, 16) = Inverted(n) /\ Room(e, at + 32 + 8 * n)
DynamicAt(e, at) == Room(e, at + 14) /\ Room(e, at + 14 + 3 * (Number(e.bits, at + 10, 4) + 4))
HeaderAt(e, at) ==
  /\ Room(e, at + 3)
  /\ \/ Type(e, at) = 0 /\ StoredAt(e, Aligned(at + 3))
     \/ Type(e, at) = 1
     \/ Type(e, at) = 2 /\ DynamicAt(e, at + 3)

Closes(b, i, j) == IF b.last THEN j.place = "end" ELSE j.place = "header"
StoredItem(e, b, i, j, at) ==
  LET n == Number(e.bits, at, 16) IN
  /\ j.at = at + 32 + 8 * n /\ j.out = i.out + n /\ Closes(b, i, j)
  /\ \A k \in 1..n : e.plain[i.out + k] = Number(e.bits, at + 32 + 8 * (k - 1), 8)
Fixed(i, j) == j.at = i.at + 3 /\ j.out = i.out /\ j.place = "symbols" /\ j.block = i.block
DynamicHead(e, b, i, j, at) ==
  LET n == Number(e.bits, at + 10, 4) + 4 IN
  /\ b.want = <<Number(e.bits, at, 5) + 257, Number(e.bits, at + 5, 5) + 1>>
  /\ \A k \in 1..19 : b.cl[Order[k] + 1] = IF k <= n THEN Number(e.bits, at + 14 + 3 * (k - 1), 3) ELSE 0
  /\ j.at = at + 14 + 3 * n /\ j.out = i.out /\ j.place = "lens" /\ j.block = i.block /\ j.read = 0
HeaderItem(e, b, i, j) ==
  /\ i.place = "header" /\ HeaderAt(e, i.at)
  /\ b.type = Type(e, i.at) /\ b.last = (e.bits[i.at + 1] = 1)
  /\ \/ b.type = 0 /\ StoredItem(e, b, i, j, Aligned(i.at + 3))
     \/ b.type = 1 /\ Fixed(i, j)
     \/ b.type = 2 /\ DynamicHead(e, b, i, j, i.at + 3)

\* The lengths of a dynamic block's codes.
Wanted(b) == b.want[1] + b.want[2]
LengthAt(e, b, i, s) ==
  /\ Spells(e, i.at, b.cl, s) /\ Room(e, i.at + b.cl[s + 1] + RunBits(s))
  /\ s = 16 => i.read > 0
LengthItem(e, b, i, j) ==
  LET s == i.symbol
      next == i.at + b.cl[s + 1]
      n == IF s <= 15 THEN 1 ELSE RunLength(s, Number(e.bits, next, RunBits(s))) IN
  /\ i.place = "lens" /\ i.read < Wanted(b) /\ LengthAt(e, b, i, s)
  /\ j.at = next + RunBits(s) /\ j.out = i.out /\ j.place = "lens" /\ j.block = i.block /\ j.read = i.read + n
  /\ \A k \in i.read + 1..j.read : b.lens[k] = IF s <= 15 THEN s ELSE IF s = 16 THEN b.lens[i.read] ELSE 0
CodesItem(b, i, j) ==
  /\ i.place = "lens" /\ i.read = Wanted(b)
  /\ j.at = i.at /\ j.out = i.out /\ j.place = "symbols" /\ j.block = i.block

\* Symbols: a match is a length and a distance, each with bits of its own.
LengthOf(e, at, s) == LenBase[s - EndOfBlock] + Number(e.bits, at, LenExtra[s - EndOfBlock])
DistanceOf(e, at, d) == DistBase[d + 1] + Number(e.bits, at, DistExtra[d + 1])
DistanceAt(e, b, i, at, d) ==
  LET next == at + DistLens(b)[d + 1] IN
  /\ d \in 0..29 /\ Spells(e, at, DistLens(b), d)
  /\ Room(e, next + DistExtra[d + 1]) /\ DistanceOf(e, next, d) <= i.out
SymbolAt(e, b, i, s, d) ==
  /\ s \in 0..285 /\ Spells(e, i.at, LitLens(b), s)
  /\ s > EndOfBlock => DistanceAt(e, b, i, i.at + LitLens(b)[s + 1] + LenExtra[s - EndOfBlock], d)

LiteralItem(e, i, j, next) ==
  /\ j.at = next /\ j.out = i.out + 1 /\ e.plain[j.out] = i.symbol /\ j.place = "symbols" /\ j.block = i.block
CopyItem(e, b, i, j, from) ==
  LET k == i.symbol - EndOfBlock
      next == from + LenExtra[k] + DistLens(b)[i.far + 1]
      distance == DistanceOf(e, next, i.far) IN
  /\ j.at = next + DistExtra[i.far + 1] /\ j.out = i.out + LengthOf(e, from, i.symbol)
  /\ \A n \in i.out + 1..j.out : e.plain[n] = e.plain[n - distance]
  /\ j.place = "symbols" /\ j.block = i.block
SymbolItem(e, b, i, j) ==
  LET next == i.at + LitLens(b)[i.symbol + 1] IN
  /\ i.place = "symbols" /\ SymbolAt(e, b, i, i.symbol, i.far)
  /\ \/ i.symbol < EndOfBlock /\ LiteralItem(e, i, j, next)
     \/ i.symbol = EndOfBlock /\ j.at = next /\ j.out = i.out /\ Closes(b, i, j)
     \/ i.symbol > EndOfBlock /\ CopyItem(e, b, i, j, next)

Item(e, i, j) ==
  /\ i.block \in DOMAIN e.blocks
  /\ LET b == BlockUnder(e, i) IN
     HeaderItem(e, b, i, j) \/ LengthItem(e, b, i, j) \/ CodesItem(b, i, j) \/ SymbolItem(e, b, i, j)
NoItem(e, i) ==
  \/ i.place = "header" /\ ~HeaderAt(e, i.at)
  \/ /\ i.place = "lens"
     /\ \/ i.read > Wanted(BlockUnder(e, i))
        \/ i.read < Wanted(BlockUnder(e, i)) /\ \A s \in 0..18 : ~LengthAt(e, BlockUnder(e, i), i, s)
  \/ i.place = "symbols" /\ \A s \in 0..285, d \in 0..29 : ~SymbolAt(e, BlockUnder(e, i), i, s, d)

-----------------------------------------------------------------------------
ItemTyped(e, i) ==
  /\ {i.at, i.out, i.read, i.symbol, i.far} \subseteq Nat
  /\ Room(e, i.at) /\ i.out <= Len(e.plain)
  /\ i.place \in {"header", "lens", "symbols", "end"}
  /\ i.place \in {"lens", "symbols"} => i.block \in DOMAIN e.blocks
  /\ i.place = "lens" => BlockUnder(e, i).type = 2 /\ i.read <= Len(BlockUnder(e, i).lens)
  /\ i.place = "symbols" => BlockUnder(e, i).type = 1 \/ Wanted(BlockUnder(e, i)) <= Len(BlockUnder(e, i).lens)
BlockTyped(b) ==
  /\ b.lens \in Seq(0..15) /\ b.cl \in Seq(0..15) /\ Len(b.cl) = 19
  /\ b.want[1] \in Nat /\ b.want[2] \in Nat /\ b.last \in BOOLEAN

\* What a packer wrote, up to its end or to the place where it breaks off.
Packed(e) ==
  /\ e.bits \in Seq({0, 1}) /\ e.plain \in Seq(0..255) /\ e.items # <<>>
  /\ \A k \in DOMAIN e.blocks : BlockTyped(e.blocks[k])
  /\ \A k \in 1..Len(e.items) : ItemTyped(e, e.items[k])
  /\ e.items[1].place = "header" /\ e.items[1].at = 0 /\ e.items[1].out = 0
  /\ \A k \in 1..Len(e.items) - 1 : Item(e, e.items[k], e.items[k + 1])
  /\ LET i == e.items[Len(e.items)] IN
     IF e.whole THEN i.place = "end" /\ i.out = Len(e.plain) ELSE NoItem(e, i)
=============================================================================
