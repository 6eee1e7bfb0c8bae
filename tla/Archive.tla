------------------------------ MODULE Archive ------------------------------
(***************************************************************************)
(* Packages as ZIP archives: a sequence of blocks, the records of the      *)
(* format and the bytes of the entries, each with its length, so that an   *)
(* offset is the length of what lies before. A name is a sequence of       *)
(* segments [stem, ext], the last of them empty for a directory, and its   *)
(* length; an extra field is a sequence of [id, n, vals], of four bytes    *)
(* and n more, which may end in bytes that are no field ("tail").          *)
(***************************************************************************)
EXTENDS Sieve

CONSTANTS
  Sub,       \* ZIP64_SUB: the least number that four bytes do not hold
  Sub16,     \* ZIP64_SUB16: the same for two bytes
  Align,     \* CODE_ALIGNMENT
  ExtraMax   \* the longest extra field

ASSUME ArchiveAssumption == Sub \in Nat /\ Sub16 \in Nat /\ Align \in Nat /\ Align >= 4

\* A block goes where the one before it ends.
Size(a) == IF a = <<>> THEN 0 ELSE Last(a).at + Last(a).len
Laid(a, block) == Append(a, [block EXCEPT !.at = Size(a)])
Data(bytes) == [kind |-> "data", at |-> 0, len |-> bytes.len, crc |-> bytes.crc]
\* The block at an offset, of a kind, or 0.
BlockAt(a, at, kind) ==
  LET b == {i \in DOMAIN a : a[i].kind = kind /\ a[i].at = at} IN
  IF b = {} THEN 0 ELSE CHOOSE i \in b : TRUE

FieldSize(f) == IF f.id = "tail" THEN f.n ELSE 4 + f.n
ExtraSize(extra) ==
  LET upto[n \in 0..Len(extra)] == IF n = 0 THEN 0 ELSE upto[n - 1] + FieldSize(extra[n]) IN upto[Len(extra)]

-----------------------------------------------------------------------------
(* Names.                                                                    *)

Segment(stem, ext) == [stem |-> stem, ext |-> ext]
Plain(stem) == Segment(stem, Empty)
IsDirectory(segs) == Last(segs) = Plain(Empty)

\* A bundle's own binary: it repeats the name of the directory of the bundle.
IsExecutable(segs) ==
  /\ Len(segs) >= 2 /\ segs[1] = Plain("Payload")
  /\ LET bundle == segs[Len(segs) - 1] IN
     /\ bundle.ext \in {"app", "framework", "appex"} /\ bundle.stem # Empty
     /\ Last(segs) = Plain(bundle.stem)

\* `.app/Info.plist` outside of a watch app, which names the bundle of the package.
NamesBundle(segs) ==
  /\ Len(segs) >= 2 /\ Last(segs) = Segment("Info", "plist") /\ segs[Len(segs) - 1].ext = "app"
  /\ \A i \in 2..Len(segs) - 1 : segs[i] # Plain("Watch")
IsMainInfo(segs) ==
  Len(segs) = 3 /\ segs[1] = Plain("Payload") /\ segs[2].ext = "app" /\ segs[3] = Segment("Info", "plist")

-----------------------------------------------------------------------------
(* Extra fields.                                                             *)

\* Everything but the ZIP64 fields, which are written anew; a tail is kept once.
Without(extra, ids) == Keep(extra, {f \in ToSet(extra) : f.id \notin ids})
StripZip64(extra) == Without(extra, {"zip64"})

Zip64(vals) == IF vals = <<>> THEN <<>> ELSE <<[id |-> "zip64", n |-> 8 * Len(vals), vals |-> vals]>>
Large(v) == IF v >= Sub THEN <<v>> ELSE <<>>
Zip64Central(usize, csize, offset) == Zip64(Large(usize) \o Large(csize) \o Large(offset))
Zip64Local(usize, csize) == Zip64(Large(usize) \o Large(csize))

\* The payload starts on a page: a field of padding, of four bytes at least.
AlignPayload(extra, offset, nameLen) ==
  LET residue == (offset + 30 + nameLen + ExtraSize(extra)) % Align  pad == Align - residue IN
  IF residue = 0 THEN extra
  ELSE Append(extra, [id |-> "pad", n |-> (IF pad < 4 THEN pad + Align ELSE pad) - 4, vals |-> <<>>])

-----------------------------------------------------------------------------
(* Reading, as the program does: the record that ends the archive is the     *)
(* last one in the window whose directory can lie before it; `base` is where *)
(* the window is taken to begin. There is no ZIP64 archive it reads.         *)

Plausible(b, at) == b.size = Sub \/ b.start = Sub \/ b.start + b.size <= at

Ends(a, window, base) ==
  {i \in DOMAIN a : a[i].kind = "end" /\ a[i].at >= window /\ Plausible(a[i], base + a[i].at - window)}

FindEnd(a, window, base) ==
  LET ends == Ends(a, window, base) IN
  IF ends = {} THEN 0
  ELSE LET i == CHOOSE i \in ends : \A j \in ends : j <= i IN
       IF a[i].multi \/ Sub \in {a[i].size, a[i].start} \/ a[i].count = Sub16 THEN 0 ELSE i

\* The entries of the directory that lies at an offset, or none if a record is not one.
Directory(a, end, from) ==
  LET i == BlockAt(a, from, "central") IN
  IF end.count = 0 THEN <<>>
  ELSE IF i = 0 \/ i + end.count - 1 > Len(a) THEN <<>>
  ELSE IF \E j \in i..(i + end.count - 1) : a[j].kind # "central" THEN <<>>
  ELSE SubSeq(a, i, i + end.count - 1)

\* local_span_file, and the bytes of the entry, which are not there when the file ends before them.
LocalOf(a, entry) == BlockAt(a, entry.offset, "local")
BodyOf(a, entry) ==
  LET b == {i \in DOMAIN a : /\ a[i].kind = "data" /\ a[i].len = entry.csize
                             /\ \E j \in DOMAIN a : /\ a[j].kind = "local" /\ a[j].at = entry.offset
                                                    /\ a[i].at = a[j].at + a[j].len} IN
  IF b = {} THEN 0 ELSE CHOOSE i \in b : TRUE

-----------------------------------------------------------------------------
(* ZipWriter: the blocks, the offset it keeps itself, and the entries.       *)

NewWriter == [out |-> <<>>, offset |-> 0, entries |-> <<>>]
Raw(w, block) == [out |-> Laid(w.out, block), offset |-> w.offset + block.len, entries |-> w.entries]
Recorded(w, entry) == [out |-> w.out, offset |-> w.offset, entries |-> Append(w.entries, entry)]

Streaming(e) == e.method = 8 /\ ~IsDirectory(e.name.segs)
Need64(e) == e.csize >= Sub \/ e.usize >= Sub

\* The rebuilt header: deflated entries have their sizes behind them.
LocalExtra(w, e, header) ==
  LET extra == StripZip64(header.extra) \o (IF Streaming(e) THEN <<>> ELSE Zip64Local(e.usize, e.csize)) IN
  IF IsExecutable(e.name.segs) THEN AlignPayload(extra, w.offset, header.name.len) ELSE extra

LocalHeader(e, header, extra) ==
  LET large == Need64(e) IN
  [kind |-> "local", at |-> 0, len |-> 30 + header.name.len + ExtraSize(extra), name |-> header.name, method |-> e.method,
   bit3 |-> Streaming(e), modified |-> header.modified, extra |-> extra,
   crc |-> IF Streaming(e) THEN "none" ELSE e.crc,
   csize |-> IF Streaming(e) THEN 0 ELSE IF large THEN Sub ELSE e.csize,
   usize |-> IF Streaming(e) THEN 0 ELSE IF large THEN Sub ELSE e.usize]

Descriptor(e) ==
  [kind |-> "descriptor", at |-> 0, len |-> IF Need64(e) THEN 24 ELSE 16, crc |-> e.crc, csize |-> e.csize, usize |-> e.usize]

Entry(e, offset) ==
  [name |-> e.name, method |-> e.method, bit3 |-> Streaming(e), crc |-> e.crc, csize |-> e.csize,
   usize |-> e.usize, offset |-> offset, attrs |-> e.attrs, modified |-> e.modified, extra |-> e.extra]

\* A variant that forgets the bytes that went past the writer.
CopiedUncounted(w, e, header, extra, body) ==
  LET w1 == Raw(w, LocalHeader(e, header, extra))
      w2 == [w1 EXCEPT !.out = Laid(@, Data(body))]
      w3 == IF Streaming(e) THEN Raw(w2, Descriptor(e)) ELSE w2 IN
  Recorded(w3, Entry(e, w.offset))

\* copy_raw_from_file, of an entry whose header and body were found.
Copied(w, e, header, extra, body) ==
  LET w2 == Raw(Raw(w, LocalHeader(e, header, extra)), Data(body))
      w3 == IF Streaming(e) THEN Raw(w2, Descriptor(e)) ELSE w2 IN
  Recorded(w3, Entry(e, w.offset))

StoredEntry(name, data, time) ==
  [name |-> name, method |-> 0, crc |-> data.crc, csize |-> data.len, usize |-> data.len,
   attrs |-> "regular", modified |-> time, extra |-> <<>>]

\* add_stored.
Stored(w, name, data, time) ==
  LET e == StoredEntry(name, data, time)
      header == LocalHeader(e, [name |-> name, modified |-> time, extra |-> <<>>], Zip64Local(data.len, data.len)) IN
  Recorded(Raw(Raw(w, header), Data(data)), Entry(e, w.offset))

-----------------------------------------------------------------------------
(* finish.                                                                   *)

Placeholder(v) == IF v >= Sub THEN Sub ELSE v
CentralExtra(e) == StripZip64(e.extra) \o Zip64Central(e.usize, e.csize, e.offset)

Central(e) ==
  [kind |-> "central", at |-> 0, len |-> 46 + e.name.len + ExtraSize(CentralExtra(e)), name |-> e.name, method |-> e.method,
   bit3 |-> e.bit3, crc |-> e.crc, csize |-> Placeholder(e.csize), usize |-> Placeholder(e.usize),
   offset |-> Placeholder(e.offset), attrs |-> e.attrs, modified |-> e.modified, extra |-> CentralExtra(e)]

FitsPlainEnd(w, w1) ==
  /\ Len(w.entries) < Sub16 /\ w1.offset - w.offset < Sub /\ w.offset < Sub
  /\ \A i \in DOMAIN w.entries : ~Need64(w.entries[i]) /\ w.entries[i].offset < Sub

EndRecord(count, size, start) ==
  [kind |-> "end", at |-> 0, len |-> 22, multi |-> FALSE, count |-> count, size |-> size, start |-> start]
End64Record(count, size, start) == [kind |-> "end64", at |-> 0, len |-> 56, count |-> count, size |-> size, start |-> start]
Locator(to) == [kind |-> "locator", at |-> 0, len |-> 20, to |-> to]

WithEnds(w, w1) ==
  LET size == w1.offset - w.offset  count == Len(w.entries) IN
  IF FitsPlainEnd(w, w1) THEN Laid(w1.out, EndRecord(count, size, w.offset))
  ELSE Laid(Laid(Laid(w1.out, End64Record(count, size, w.offset)), Locator(w1.offset)), EndRecord(Sub16, Sub, Sub))

Centrals(w) ==
  LET upto[n \in 0..Len(w.entries)] == IF n = 0 THEN w ELSE Raw(upto[n - 1], Central(w.entries[n])) IN
  upto[Len(w.entries)]
Finished(w) == WithEnds(w, Centrals(w))

-----------------------------------------------------------------------------
(* What the format says an archive holds (APPNOTE), read from its end.       *)

NowhereEnd == [count |-> 0, size |-> 0, start |-> 0]
EndOf(a) ==
  IF Sub \notin {Last(a).size, Last(a).start} THEN Last(a)
  ELSE LET i == BlockAt(a, a[Len(a) - 1].to, "end64") IN IF i = 0 THEN NowhereEnd ELSE a[i]

\* The ZIP64 field holds the values that four bytes do not, in the order of the format.
Values(extra) == LET f == Keep(extra, {x \in ToSet(extra) : x.id = "zip64"}) IN IF f = <<>> THEN <<>> ELSE f[1].vals
InField(v) == IF v = Sub THEN 1 ELSE 0
Usize(c) == IF c.usize = Sub THEN Values(c.extra)[1] ELSE c.usize
Csize(c) == IF c.csize = Sub THEN Values(c.extra)[InField(c.usize) + 1] ELSE c.csize
Offset(c) == IF c.offset = Sub THEN Values(c.extra)[InField(c.usize) + InField(c.csize) + 1] ELSE c.offset
Resolved(c) == [c EXCEPT !.usize = Usize(c), !.csize = Csize(c), !.offset = Offset(c)]

\* The header, the bytes and the descriptor agree with the directory.
Agrees(header, body, after, c) ==
  /\ header.name = c.name /\ header.method = c.method /\ header.bit3 = c.bit3 /\ header.modified = c.modified
  /\ body.kind = "data" /\ body.len = c.csize
  /\ IF c.bit3 THEN after.kind = "descriptor" /\ after.crc = c.crc /\ after.csize = c.csize /\ after.usize = c.usize
     ELSE header.crc = c.crc /\ Csize(header) = c.csize /\ Usize(header) = c.usize

\* What an entry is when all that the format keeps of it has been read.
Bytes(block) == [len |-> block.len, crc |-> block.crc]
Found(header, body, c) ==
  [name |-> c.name, method |-> c.method, crc |-> c.crc, usize |-> c.usize, body |-> Bytes(body), attrs |-> c.attrs,
   modified |-> c.modified, extra |-> StripZip64(c.extra), local |-> Without(header.extra, {"zip64", "pad"})]

=============================================================================
