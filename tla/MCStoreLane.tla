---------------------------- MODULE MCStoreLane ----------------------------
(* Three hosts, four URLs and cookies of every kind; entries in blocks of    *)
(* every type; packages around every bound of the format, which are small:   *)
(* pages of 64 bytes, numbers of 4 bytes that end at 4000, a window of 600.  *)
EXTENDS StoreLane

Buy == <<"buy", "apple">>
U(scheme, host, path) == [scheme |-> scheme, host |-> host, path |-> path]
MCUrls == {U("https", Buy, <<"x", "y">>), U("https", <<"apple">>, <<>>), U("https", <<"cdn">>, <<"x">>),
           U("http", Buy, <<"x", Empty>>)}

C(m, body, stop, own, range) ==
  [method |-> m, body |-> body, url |-> U("https", Buy, <<"x", "y">>), stop |-> stop, cookie |-> own, range |-> range]
MCCalls == {C("GET", FALSE, FALSE, FALSE, TRUE), C("POST", FALSE, TRUE, FALSE, FALSE),
            C("GET", FALSE, FALSE, TRUE, FALSE), C("PUT", FALSE, FALSE, FALSE, FALSE)}

Set(name, value, attrs) == [pair |-> <<name, value>>, attrs |-> attrs]
Apple == <<"domain", <<"apple">> >>
MCSetCookies ==
  {Set("a", "1", << <<"secure", "">>, <<"httponly", "">> >>),
   Set("a", "2", <<Apple, <<"path", <<"x">> >>, <<"max-age", 1>> >>),
   Set("a", "", << <<"max-age", 0>>, <<"max-age", 2>> >>),
   Set("b", "1", <<Apple, <<"max-age", 1>>, <<"expires", "late">>, <<"path", <<"x", Empty>> >>, <<"samesite", "">> >>),
   [pair |-> <<>>, attrs |-> <<>>]}

Row(name, host, expires) ==
  [Comment EXCEPT !.form = "row", !.name = name, !.value = "0", !.host = host, !.expires = expires]
MCFiles == {<<>>,
  <<Comment, Row("c", Buy, 2), Row("d", Buy, -1), Row(Empty, Buy, 0), [Row("e", Buy, 0) EXCEPT !.form = "short"],
    [Row("f", <<"apple">>, 0) EXCEPT !.httpOnly = TRUE, !.dot = TRUE, !.secure = TRUE],
    Row("g", <<"apple">>, 0)>>}

MCLocations == {[kind |-> "absolute", url |-> U("https", <<"cdn">>, <<"x">>)],
                [kind |-> "absolute", url |-> U("http", Buy, <<"x", Empty>>)],
                [kind |-> "rooted", path |-> <<"z">>], [kind |-> "relative", path |-> <<"w">>]}

-----------------------------------------------------------------------------
(* Streams: the codes of RFC 1951, each symbol's from those before it.       *)

Low(v, n) == [i \in 1..n |-> (v \div 2^(i - 1)) % 2]
High(v, n) == [i \in 1..n |-> (v \div 2^(n - i)) % 2]
\* A bound variable stands for a value that TLC computes once.
Only(S) == CHOOSE x \in S : TRUE
Code(l, s) ==
  MapThenSumSet(LAMBDA k : 2^(l[s + 1] - k) * Cardinality({t \in DOMAIN l : l[t] = k /\ (k < l[s + 1] \/ t < s + 1)}),
                1..l[s + 1])
CodeWord(l, s) == Only({High(v, l[s + 1]) : v \in {Code(l, s)}})
Joint(seqs) == Only({FlattenSeq(x) : x \in {seqs}})

\* A literal, or a match with the bits behind its two symbols.
Literal(b) == [symbol |-> b, more |-> <<>>, far |-> 0, farther |-> <<>>]
Back(len, lenBits, d, dBits) == [symbol |-> len, more |-> lenBits, far |-> d, farther |-> dBits]

\* The code that the lengths of a dynamic block are written in.
CLens == [i \in 1..19 |-> CASE i \in {19, 3} -> 2 [] i \in {2, 1, 17, 18} -> 3 [] OTHER -> 0]
\* Codes for 97, 98, the end of the block and the shortest match, and for three distances or
\* four, whose lengths are written as runs: <<symbol, bits>>.
LL == [i \in 1..258 |-> IF i \in {98, 99, 257, 258} THEN 2 ELSE 0]
One(n) == <<n, <<>> >>
LLRuns == << <<18, Low(97 - 11, 7)>>, One(2), One(2), <<18, Low(138 - 11, 7)>>, <<17, Low(0, 3)>>,
             <<18, Low(13 - 11, 7)>>, <<17, Low(0, 3)>>, One(2), One(2)>>
DL == <<1, 2, 0, 2>>
DLRuns == LLRuns \o <<One(1), One(2), One(0), One(2)>>
DL4 == <<2, 2, 2, 2>>
DL4Runs == LLRuns \o <<One(2), <<16, Low(0, 2)>> >>

\* A block: its type, its bytes or its tokens, and the codes these are written in.
BlockOf(type, bytes, tokens) ==
  [type |-> type, last |-> TRUE, bytes |-> bytes, tokens |-> tokens,
   cl |-> CLens, runs |-> <<>>, lens |-> <<>>, want |-> <<0, 0>>]
StoredBytes(bytes) == BlockOf(0, bytes, <<>>)
FixedBlock(tokens) == BlockOf(1, <<>>, tokens)
DynamicBlock(dl, runs, tokens) ==
  [BlockOf(2, <<>>, tokens) EXCEPT !.lens = LL \o dl, !.want = <<Len(LL), 4>>, !.runs = runs]
Unended(b) == [b EXCEPT !.last = FALSE]

\* The items of a block, each with its bits, the bytes and the lengths it stands for.
Written(at, bits, bytes, count, symbol, far) ==
  [place |-> at, bits |-> bits, bytes |-> bytes, read |-> count, symbol |-> symbol, far |-> far]
HeadBits(b) == <<IF b.last THEN 1 ELSE 0>> \o Low(b.type, 2)
DynamicBits(b) ==
  Low(b.want[1] - 257, 5) \o Low(b.want[2] - 1, 5) \o Low(15, 4) \o Joint([i \in 1..19 |-> Low(b.cl[Order[i] + 1], 3)])
WrittenRun(b, run) ==
  Written("lens", CodeWord(b.cl, run[1]) \o run[2], 0,
          IF run[1] <= 15 THEN 1 ELSE RunLength(run[1], Number(run[2], 0, Len(run[2]))), run[1], 0)
WrittenToken(b, t) ==
  Written("symbols",
          CodeWord(LitLens(b), t.symbol) \o t.more
            \o (IF t.symbol <= EndOfBlock THEN <<>> ELSE CodeWord(DistLens(b), t.far) \o t.farther),
          IF t.symbol < EndOfBlock THEN 1 ELSE IF t.symbol = EndOfBlock THEN 0
            ELSE LenBase[t.symbol - EndOfBlock] + Number(t.more, 0, Len(t.more)), 0, t.symbol, t.far)
Inside(b) ==
  IF b.type \notin 1..2 THEN <<>>
  ELSE (IF b.type = 1 THEN <<>>
        ELSE [k \in DOMAIN b.runs |-> WrittenRun(b, b.runs[k])] \o <<Written("lens", <<>>, 0, 0, 0, 0)>>)
       \o [k \in DOMAIN b.tokens |-> WrittenToken(b, b.tokens[k])] \o <<WrittenToken(b, Literal(EndOfBlock))>>
\* The bytes of a stored block begin with a byte of the entry that `from` bits are written of.
Header0(b, from) ==
  Written("header",
    HeadBits(b) \o (CASE b.type = 0 -> [i \in 1..(Aligned(from + 3) - from - 3) |-> 0] \o Low(Len(b.bytes), 16)
                                        \o Low(65535 - Len(b.bytes), 16) \o Joint([i \in DOMAIN b.bytes |-> Low(b.bytes[i], 8)])
                      [] b.type = 2 -> DynamicBits(b) [] OTHER -> <<>>), Len(b.bytes), 0, 0, 0)

\* An item after those before it.
Along(w, block, p) ==
  [bits |-> w.bits \o p.bits, bytes |-> w.bytes + p.bytes, read |-> IF p.place = "lens" THEN w.read + p.read ELSE 0,
   items |-> Append(w.items, [at |-> Len(w.bits), out |-> w.bytes, read |-> w.read, place |-> p.place,
                              block |-> block, symbol |-> p.symbol, far |-> p.far])]
Encoded(blocks) ==
  FoldLeftDomain(LAMBDA w, k : FoldLeft(LAMBDA v, p : Along(v, k, p), Along(w, k, Header0(blocks[k], Len(w.bits))), Inside(blocks[k])),
                 [bits |-> <<>>, bytes |-> 0, read |-> 0, items |-> <<>>], blocks)
AtEnd(w, blocks) ==
  Append(w.items, [at |-> Len(w.bits), out |-> w.bytes, read |-> 0, block |-> Len(blocks) + 1, symbol |-> 0, far |-> 0,
                   place |-> IF blocks[Len(blocks)].last THEN "end" ELSE "header"])

\* Whole bytes, all but the last few, with one bit changed.
Spoiled(bits, cut, flip) ==
  [i \in 1..(Aligned(Len(bits)) - 8 * cut) |->
     IF i > Len(bits) THEN 0 ELSE IF i = flip THEN 1 - bits[i] ELSE bits[i]]

\* What is packed, what it means, and how many of its items there are before it breaks off.
Means(blocks, bytes) == [blocks |-> blocks, cut |-> 0, flip |-> 0, plain |-> bytes, until |-> 0]
Until(n, blocks, bytes) == [Means(blocks, bytes) EXCEPT !.until = n]
Cut(c, n, blocks, bytes) == [Until(n, blocks, bytes) EXCEPT !.cut = c]
Flipped(k, n, blocks, bytes) == [Until(n, blocks, bytes) EXCEPT !.flip = k]
LongRun == [DynamicBlock(DL, LLRuns \o <<One(1), <<16, Low(3, 2)>> >>, <<>>) EXCEPT !.lens = LL \o [k \in 1..7 |-> 1]]

Packings ==
  { Means(<<FixedBlock(<<Literal(97), Literal(98), Literal(200), Back(258, <<>>, 2, <<>>),
                         Back(265, <<1>>, 4, <<0>>)>>)>>,
          <<97, 98, 200, 97, 98, 200, 97, 200, 97, 98, 200, 97, 200, 97, 98, 200, 97, 200, 97>>),
    Means(<<DynamicBlock(DL, DLRuns, <<Literal(97), Back(257, <<>>, 0, <<>>), Literal(98), Back(257, <<>>, 3, <<>>)>>)>>,
          <<97, 97, 97, 97, 98, 97, 97, 97>>),
    Means(<<DynamicBlock(DL4, DL4Runs, <<Literal(98), Literal(97), Back(257, <<>>, 1, <<>>)>>)>>, <<98, 97, 98, 97, 98>>),
    Means(<<Unended(StoredBytes(<<97, 98>>)), Unended(FixedBlock(<<Literal(99)>>)), StoredBytes(<<>>)>>, <<97, 98, 99>>),
    \* the end is missing, in a block of each type and among the lengths of a code
    Cut(1, 3, <<FixedBlock(<<Literal(97)>>)>>, <<97>>),
    Cut(1, 18, <<DynamicBlock(DL, DLRuns, <<Literal(97), Literal(97)>>)>>, <<97, 97>>),
    Cut(3, 8, <<DynamicBlock(DL, DLRuns, <<>>)>>, <<>>),
    Cut(1, 1, <<StoredBytes(<<97>>)>>, <<>>), Cut(5, 1, <<StoredBytes(<<>>)>>, <<>>),
    \* it goes back before it began; a run without a length before it, and one that is too long;
    \* a length that is not its complement's; a type there is not; no last block
    Until(3, <<FixedBlock(<<Literal(97), Back(257, <<>>, 1, <<>>)>>)>>, <<97>>),
    Until(2, <<DynamicBlock(DL, << <<16, <<0, 0>> >> >>, <<>>)>>, <<>>),
    Until(13, <<LongRun>>, <<>>),
    Flipped(9, 1, <<StoredBytes(<<97>>)>>, <<>>), Until(1, <<BlockOf(3, <<>>, <<>>)>>, <<>>),
    Until(4, <<Unended(FixedBlock(<<Literal(97)>>))>>, <<97>>) }

EntryOf(p, w) ==
  [bits |-> Spoiled(w.bits, p.cut, p.flip), blocks |-> p.blocks, plain |-> p.plain, whole |-> p.until = 0,
   items |-> IF p.until = 0 THEN AtEnd(w, p.blocks) ELSE SubSeq(AtEnd(w, p.blocks), 1, p.until)]
MCStreams == {Only({EntryOf(p, w) : w \in {Encoded(p.blocks)}}) : p \in Packings}

-----------------------------------------------------------------------------
(* Packages.                                                                 *)

App(rest) == <<Plain("Payload"), Segment("App", "app")>> \o rest
MCName(segs, n) == [segs |-> segs, len |-> n]
Field(id, n) == [id |-> id, n |-> n, vals |-> <<>>]
File(segs, nameLen, method, bytes, full) ==
  [name |-> MCName(segs, nameLen), method |-> method, crc |-> "crc", csize |-> bytes, usize |-> full,
   attrs |-> "any", modified |-> <<21000, 3000>>, extra |-> <<>>, local |-> <<Field("time", 8)>>]

InfoFile == File(App(<<Segment("Info", "plist")>>), 26, 8, 30, 50)
Binary(n) == File(App(<<Plain("App")>>), 19 + n, 8, 70, 90)
Framework == File(App(<<Plain("Frameworks"), Segment("Net", "framework"), Plain("Net")>>), 41, 0, 33, 33)
Manifest == File(App(<<Plain("SC_Info"), Segment("Manifest", "plist")>>), 38, 0, 20, 20)
Folder == File(App(<<Plain(Empty)>>), 16, 8, 0, 0)
WatchInfo == File(App(<<Plain("Watch"), Segment("W", "app"), Segment("Info", "plist")>>), 40, 8, 12, 13)
Big(n) == File(App(<<Plain("Assets")>>), 22, 0, n, n)

\* The archive of some files: headers and bytes, the directory and what ends it.
HeaderOf(f) ==
  [kind |-> "local", at |-> 0, len |-> 30 + f.name.len + ExtraSize(f.local), name |-> f.name, method |-> f.method,
   bit3 |-> FALSE, modified |-> f.modified, extra |-> f.local, crc |-> f.crc, csize |-> f.csize, usize |-> f.usize]
Entered(f, at) ==
  [kind |-> "central", at |-> 0, len |-> 46 + f.name.len + ExtraSize(f.extra), name |-> f.name, method |-> f.method,
   bit3 |-> FALSE, crc |-> f.crc, csize |-> f.csize, usize |-> f.usize, offset |-> at, attrs |-> f.attrs,
   modified |-> f.modified, extra |-> f.extra]

Laying(a, blocks) == FoldLeft(Laid, a, blocks)
Bodies(files) ==
  FoldLeft(LAMBDA a, f : Laying(a, <<HeaderOf(f), Data([len |-> f.csize, crc |-> f.crc])>>), <<>>, files)
WithDirectory(files, bodies) == Laying(bodies, [i \in DOMAIN files |-> Entered(files[i], bodies[2 * i - 1].at)])
WithEnd(count, start, a) == Laid(a, EndRecord(count, Size(a) - start, start))
Package(files) == WithEnd(Len(files), Size(Bodies(files)), WithDirectory(files, Bodies(files)))

Whole == <<InfoFile, Binary(0), Manifest, Folder>>
Short == <<Binary(0), InfoFile>>
NoChange == <<0, "kind", "none">>
Ok(files) == [files |-> files, change |-> NoChange, forged |-> FALSE]
Changed(files, i, field, to) == [Ok(files) EXCEPT !.change = <<i, field, to>>]
Forged == EndRecord(1, 10, 100000)
MCPackages ==
  { Ok(Whole),
    \* nothing to list, a watch app first, a framework, a comment with another record
    [Ok(<<WatchInfo, InfoFile, Framework, Binary(1)>>) EXCEPT !.forged = TRUE],
    \* near the end of what four bytes hold, with binaries at every distance from a page
    Ok(<<InfoFile, Big(3300), Binary(2), Binary(13), Binary(26), Manifest>>),
    Ok(<<InfoFile, Big(3200), Manifest, Binary(0), Binary(9), Binary(20)>>),
    \* fields of every kind, and a size of as much as four bytes hold
    Ok(<<[InfoFile EXCEPT !.extra = <<Field("zip64", 8), Field("time", 5), Field("tail", 3)>>],
         [Binary(0) EXCEPT !.local = <<Field("zip64", 16), Field("tail", 2)>>],
         [Big(80) EXCEPT !.method = 8, !.usize = Sub]>>),
    Ok(<<InfoFile, [Binary(0) EXCEPT !.local = <<Field("long", ExtraMax - 5)>>]>>),
    Ok(<<InfoFile, [Big(9) EXCEPT !.extra = <<Field("long", ExtraMax - 2)>>]>>),
    \* more entries than two bytes count, with what is added
    Ok(<<InfoFile, Folder, Folder, Folder, Folder>>),
    \* what cannot be read: no bundle, no header, no record in the directory, no end, several
    \* disks, no property list, and entries that end after the file does
    Ok(<<Big(9)>>), Changed(Whole, 1, "kind", "other"), Changed(Whole, 10, "kind", "other"),
    Changed(Whole, 13, "kind", "other"), Changed(Whole, 13, "multi", TRUE), Changed(Short, 0, "", 0),
    Changed(Short, 5, "csize", Sub), Changed(Short, 6, "csize", Sub), Changed(Whole, 11, "csize", Sub) }

\* A package, and what was packed in it if that can be read.
SourceOf(p) ==
  [blocks |-> LET a == Package(p.files) IN
              IF p.forged THEN Laid(a, Forged)
              ELSE IF p.change[1] = 0 THEN a ELSE [a EXCEPT ![p.change[1]][p.change[2]] = p.change[3]],
   files |-> p.files, whole |-> p.change = NoChange, info |-> p.change # <<0, "", 0>>, executable |-> "App",
   manifest |-> [replication |-> <<"p1", "p2", "p3">>, sinf |-> <<"p2", Empty, "p4">>]]
MCSources == {SourceOf(p) : p \in MCPackages}

Receipt(n, x) == [len |-> n, crc |-> x]
MCInfos == [sinfs : {<<>>, <<Receipt(60, "s")>>, <<Receipt(0, "none"), Receipt(60, "s"), Receipt(61, "t")>>},
            artwork : {FALSE}]
           \union [sinfs : {<<Receipt(60, "s")>>}, artwork : {TRUE}]

MCClocks == {951782399, 951868800, 1767225601}
=============================================================================
