----------------------------- MODULE Replicate -----------------------------
(***************************************************************************)
(* The two readers of a package: replicate_to, which rebuilds the archive  *)
(* that was downloaded with the account's metadata and the receipts that   *)
(* FairPlay asks for, and fetch_info_plist, which reads the version of a   *)
(* package from its server in four ranged requests. How the rebuilt file   *)
(* is published is Download's.                                             *)
(***************************************************************************)
EXTENDS Archive

CONSTANTS
  Sources,    \* archives as they come, [blocks, files, whole, executable, info, manifest]: files is what was
              \* packed, whole that nothing of it was damaged since
  Infos,      \* what the download protocol hands over: [sinfs, artwork]
  Clocks,     \* seconds since the epoch
  TailWindow        \* the window that is searched for the record that ends an archive

\* An extra field, and an entry as it was packed.
IsExtra(x) == x \in Seq({x[i] : i \in DOMAIN x}) /\ \A i \in DOMAIN x : x[i].n \in Nat
IsPacked(f) ==
  /\ f.name.len \in Nat /\ f.csize \in Nat /\ f.usize \in Nat /\ IsExtra(f.extra) /\ IsExtra(f.local)
  /\ ~Streaming(f) => f.csize = f.usize \/ ~Need64(f)

\* What a record of the directory leads to is the entry f.
LeadsTo(a, d, f) ==
  LET header == a[LocalOf(a, d)] IN
  /\ d.name = f.name /\ d.method = f.method /\ d.crc = f.crc /\ d.csize = f.csize /\ d.usize = f.usize
  /\ d.attrs = f.attrs /\ d.modified = f.modified /\ d.extra = f.extra
  /\ header.name = f.name /\ header.modified = f.modified /\ header.extra = f.local
  /\ a[BodyOf(a, d)].crc = f.crc

TailOf(a) == IF Size(a) > TailWindow THEN Size(a) - TailWindow ELSE 0

(***************************************************************************)
(* What packers write: a directory that is read has a record for every     *)
(* entry, and what is found for a record is that entry; a size that four   *)
(* bytes do not hold comes alone only where a descriptor has both; and the *)
(* list of places for receipts does not name the binary of the bundle.     *)
(***************************************************************************)
WellPacked(s) ==
  LET end == FindEnd(s.blocks, TailOf(s.blocks), TailOf(s.blocks))
      d == Directory(s.blocks, s.blocks[end], s.blocks[end].start)
      Paths == ToSet(s.manifest.replication) \union ToSet(s.manifest.sinf) IN
  /\ s.files \in Seq(ToSet(s.files)) /\ \A k \in DOMAIN s.files : IsPacked(s.files[k])
  /\ s.manifest.replication \in Seq(Paths) /\ s.manifest.sinf \in Seq(Paths)
  /\ end # 0 /\ Len(d) = s.blocks[end].count =>
       /\ d \in Seq(ToSet(d)) /\ Len(d) = Len(s.files)
       /\ \A k \in DOMAIN d : BodyOf(s.blocks, d[k]) # 0 => LeadsTo(s.blocks, d[k], s.files[k])
  /\ \A f \in ToSet(s.files) : NamesBundle(f.name.segs) => f.name.segs[Len(f.name.segs) - 1].stem \notin Paths

ASSUME PackAssumption ==
  /\ \A s \in Sources : WellPacked(s)
  /\ \A i \in Infos : i.sinfs \in Seq(ToSet(i.sinfs)) /\ \A x \in ToSet(i.sinfs) : x = Bytes(x) /\ x.len \in Nat
  /\ \A c \in Clocks : c \in Nat /\ 3652 <= c \div 86400 /\ c \div 86400 <= 50402   \* the years that a date of the format has

VARIABLES
  src, info, clock,
  job,        \* "replicate" or "version"
  step,       \* where the reader is
  end,        \* the record that ends the archive
  entries,    \* its directory
  todo,       \* what is added to the entries: [name, data]
  writer,     \* the ZipWriter
  made,       \* the archive it has finished
  copied,     \* entries copied so far
  added,      \* entries added so far
  honours     \* the server answers a range with the range

zipVars == <<src, info, clock, job, step, end, entries, todo, writer, made, copied, added, honours>>

A == src.blocks
NoEnd == [count |-> 0]
Window == TailOf(A)

ZipInit ==
  /\ src \in Sources /\ info \in Infos /\ clock \in Clocks
  /\ job \in {"replicate", "version"} /\ step = "tail"
  /\ end = NoEnd /\ entries = <<>> /\ todo = <<>>
  /\ writer = NewWriter /\ made = <<>> /\ copied = 0 /\ added = 0
  /\ honours \in IF job = "version" THEN BOOLEAN ELSE {TRUE}

Goto(s) == step' = s /\ UNCHANGED <<src, info, clock, job, honours>>
Kept == UNCHANGED <<end, entries, todo, writer, made, copied, added>>

-----------------------------------------------------------------------------
(* replicate_to: the directory, the bundle and the paths of its receipts.    *)

BundlesIn(d) == {i \in DOMAIN d : NamesBundle(d[i].name.segs)}
First(S) == CHOOSE i \in S : \A j \in S : i <= j
\* The entry before the last segment of whose name the bundle is named.
Bundle(i) == LET s == entries[i].name.segs IN s[Len(s) - 1].stem
InBundle(rest) == <<Plain("Payload"), Segment(Bundle(First(BundlesIn(entries))), "app")>> \o rest

\* The end of the archive, and the directory that lies at `from`.
FromEnd(i, to) == IF i = 0 THEN Goto("failed") /\ Kept
                  ELSE /\ end' = A[i] /\ Goto(to)
                       /\ UNCHANGED <<entries, todo, writer, made, copied, added>>
FromDirectory(d, found, to, no) ==
  IF Len(d) # end.count \/ ~found THEN Goto(no) /\ Kept
  ELSE /\ entries' = d /\ Goto(to)
       /\ UNCHANGED <<end, todo, writer, made, copied, added>>

ReadEnd == job = "replicate" /\ step = "tail" /\ FromEnd(FindEnd(A, Window, Window), "directory")

ReadDirectory ==
  /\ job = "replicate" /\ step = "directory"
  /\ LET d == Directory(A, end, end.start) IN FromDirectory(d, BundlesIn(d) # {}, "manifest", "failed")

\* Where receipts go: to each path of either list, once, or to the one place of old.
Listed(named) ==
  IF named = {} THEN <<>>
  ELSE LET all == src.manifest.replication \o src.manifest.sinf IN Keep(all, ToSet(all) \ {Empty})
Once(s) ==
  LET upto[n \in 0..Len(s)] ==
        IF n = 0 THEN <<>> ELSE IF s[n] \in ToSet(upto[n - 1]) THEN upto[n - 1] ELSE Append(upto[n - 1], s[n]) IN
  upto[Len(s)]

PathName(p) == [segs |-> InBundle(<<Plain(p)>>), len |-> 20]
Fallback == [segs |-> InBundle(<<Plain("SC_Info"), Segment(src.executable, "sinf")>>), len |-> 30]

\* One receipt goes everywhere, several in their order, the last one to all that is left.
Receipts(sinfs, paths) ==
  IF sinfs = <<>> THEN <<>>
  ELSE IF paths = <<>> THEN << <<Fallback, sinfs[1]>> >>
  ELSE [i \in DOMAIN paths |->
          <<PathName(paths[i]),
            IF Len(sinfs) = 1 \/ Len(paths) = 1 THEN sinfs[1] ELSE sinfs[IF i < Len(sinfs) THEN i ELSE Len(sinfs)]>>]

AtTop(stem, n) == [segs |-> <<Plain(stem)>>, len |-> n]
Additions(paths) ==
  << <<AtTop("iTunesMetadata.plist", 20), [len |-> 40, crc |-> "metadata"]>> >>
  \o (IF info.artwork THEN << <<AtTop("iTunesArtwork", 13), [len |-> 50, crc |-> "artwork"]>> >> ELSE <<>>)
  \o Receipts(Keep(info.sinfs, {s \in ToSet(info.sinfs) : s.len > 0}), paths)

\* The manifest may be missing or no property list; the bundle's Info.plist must be there, be
\* whole and be one.
ReadManifest ==
  /\ job = "replicate" /\ step = "manifest"
  /\ LET path(rest) == {i \in DOMAIN entries : entries[i].name.segs = InBundle(rest)}
         manifest == path(<<Plain("SC_Info"), Segment("Manifest", "plist")>>)
         plist == path(<<Segment("Info", "plist")>>) IN
     IF \/ manifest # {} /\ BodyOf(A, entries[First(manifest)]) = 0
        \/ plist = {} \/ ~src.info
     THEN Goto("failed") /\ Kept
     ELSE IF BodyOf(A, entries[First(plist)]) = 0 THEN Goto("failed") /\ Kept
     ELSE /\ todo' = Additions(Once(Listed(manifest))) /\ Goto("copy")
          /\ UNCHANGED <<end, entries, writer, made, copied, added>>

-----------------------------------------------------------------------------
(* dos_datetime and dos_to_unix: the days of the civil calendar.             *)

Civil(days) ==
  LET z == days + 719468  era == z \div 146097  doe == z % 146097
      yoe == (doe - doe \div 1460 + doe \div 36524 - doe \div 146096) \div 365
      doy == doe - (365 * yoe + yoe \div 4 - yoe \div 100)
      mp == (5 * doy + 2) \div 153
      m == IF mp < 10 THEN mp + 3 ELSE mp - 9 IN
  [y |-> yoe + era * 400 + (IF m <= 2 THEN 1 ELSE 0), m |-> m, d |-> doy - (153 * mp + 2) \div 5 + 1]

DosDatetime(unix) ==
  LET c == Civil(unix \div 86400)  s == unix % 86400 IN
  << ((IF c.y < 1980 THEN 0 ELSE c.y - 1980) % 128) * 512 + c.m * 32 + c.d,
     (s \div 3600) * 2048 + ((s % 3600) \div 60) * 32 + ((s % 60) \div 2) >>

DosToUnix(t) ==
  LET year == 1980 + t[1] \div 512  month == (t[1] \div 32) % 16
      y == IF month <= 2 THEN year - 1 ELSE year
      era == y \div 400  yoe == y - era * 400
      doy == (153 * ((month + 9) % 12) + 2) \div 5 + (t[1] % 32) - 1
      days == era * 146097 + yoe * 365 + yoe \div 4 - yoe \div 100 + doy - 719468 IN
  days * 86400 + (t[2] \div 2048) * 3600 + ((t[2] \div 32) % 64) * 60 + (t[2] % 32) * 2

-----------------------------------------------------------------------------
\* An entry: its header and its bytes must be there, and its new header must fit.
CopyEntry ==
  /\ job = "replicate" /\ step = "copy" /\ copied < Len(entries)
  /\ LET e == entries[copied + 1]  i == LocalOf(A, e)  b == BodyOf(A, e)
         extra == LocalExtra(writer, e, A[i]) IN
     IF b = 0 THEN Goto("failed") /\ Kept
     ELSE IF ExtraSize(extra) > ExtraMax THEN Goto("failed") /\ Kept
     ELSE /\ writer' = Copied(writer, e, A[i], extra, A[b])
          /\ copied' = copied + 1 /\ Goto("copy") /\ UNCHANGED <<end, entries, todo, made, added>>

AddEntry ==
  /\ job = "replicate" /\ step = "copy" /\ copied = Len(entries) /\ added < Len(todo)
  /\ LET a == todo[added + 1] IN writer' = Stored(writer, a[1], a[2], DosDatetime(clock))
  /\ added' = added + 1 /\ Goto("copy") /\ UNCHANGED <<end, entries, todo, made, copied>>

Finish ==
  /\ job = "replicate" /\ step = "copy" /\ copied = Len(entries) /\ added = Len(todo)
  /\ IF \E i \in DOMAIN writer.entries : ExtraSize(CentralExtra(writer.entries[i])) > ExtraMax
     THEN Goto("failed") /\ Kept
     ELSE made' = Finished(writer) /\ Goto("done") /\ UNCHANGED <<end, entries, todo, writer, copied, added>>

\* The disk is full, or the source cannot be read.
Fails == job = "replicate" /\ step \in {"tail", "directory", "manifest", "copy"} /\ Goto("failed") /\ Kept

-----------------------------------------------------------------------------
(* fetch_info_plist. A server that knows no such range answers with the      *)
(* whole package, and its start is then taken for what was asked for.        *)

RemoteBase == IF honours THEN Window ELSE 0
MainsIn(d) == {i \in DOMAIN d : IsMainInfo(d[i].name.segs)}
Main == entries[First(MainsIn(entries))]

FetchTail == job = "version" /\ step = "tail" /\ FromEnd(FindEnd(A, RemoteBase, 0), "directory")

FetchDirectory ==
  /\ job = "version" /\ step = "directory"
  /\ LET d == Directory(A, end, IF honours THEN end.start ELSE 0) IN
     FromDirectory(d, MainsIn(d) # {}, "header", "failed")

Fetched(from, to, ok) == job = "version" /\ step = from /\ Goto(IF ok THEN to ELSE "failed") /\ Kept
FetchHeader == Fetched("header", "body", LocalOf(A, Main) # 0)
FetchBody == Fetched("body", "read", Main.method \in {0, 8} /\ BodyOf(A, Main) # 0)
RequestLost == job = "version" /\ step \in {"tail", "directory", "header", "body"} /\ Goto("lost") /\ Kept

ZipNext ==
  \/ ReadEnd \/ ReadDirectory \/ ReadManifest \/ CopyEntry \/ AddEntry \/ Finish \/ Fails
  \/ FetchTail \/ FetchDirectory \/ FetchHeader \/ FetchBody \/ RequestLost

-----------------------------------------------------------------------------
\* The package has a list of the places of its receipts.
Lists == \E f \in ToSet(src.files) : f.name.segs = InBundle(<<Plain("SC_Info"), Segment("Manifest", "plist")>>)

\* The entries that the rebuilt archive should hold.
FromSource(f) ==
  [name |-> f.name, method |-> f.method, crc |-> f.crc, usize |-> f.usize, body |-> [len |-> f.csize, crc |-> f.crc],
   attrs |-> f.attrs, modified |-> f.modified, extra |-> StripZip64(f.extra),
   local |-> Without(f.local, {"zip64", "pad"})]

FromAddition(a) ==
  [name |-> a[1], method |-> 0, crc |-> a[2].crc, usize |-> a[2].len, body |-> a[2], attrs |-> "regular",
   modified |-> DosDatetime(clock), extra |-> <<>>, local |-> <<>>]

Expected == [i \in DOMAIN src.files |-> FromSource(src.files[i])] \o [i \in DOMAIN todo |-> FromAddition(todo[i])]

\* An entry of the directory, resolved, is the one expected, and so are the blocks at its offset.
HoldsEntry(a, c, i, expected) ==
  /\ i # 0 /\ Agrees(a[i], a[i + 1], a[i + 2], c)
  /\ Found(a[i], a[i + 1], c) = expected
  /\ IsExecutable(c.name.segs) => a[i + 1].at % Align = 0

HoldsAll(a, end64, directory, expected) ==
  /\ end64.count = Len(expected) /\ Len(directory) = end64.count
  /\ \A k \in DOMAIN directory :
       LET c == Resolved(directory[k]) IN HoldsEntry(a, c, BlockAt(a, c.offset, "local"), expected[k])

(***************************************************************************)
(* The package that is rebuilt holds, for any reader of the format, each   *)
(* entry of the one that was downloaded, with its bytes, times and fields, *)
(* then the metadata and a receipt at every place that asks for one,       *)
(* however near its sizes and offsets come to what four bytes hold; and    *)
(* the binaries of its bundles start on a page (ipa.rs: "so this needs no  *)
(* central-directory change to keep offsets consistent").                  *)
(***************************************************************************)
RebuiltHolds ==
  step = "done" =>
    /\ LET last == EndOf(made) IN HoldsAll(made, last, Directory(made, last, last.start), Expected)
    /\ \A p \in ToSet(src.manifest.replication) \union ToSet(src.manifest.sinf) :
         (\E s \in ToSet(info.sinfs) : s.len > 0) /\ Lists /\ p # Empty
           => \E i \in DOMAIN todo : todo[i][1] = PathName(p)
    /\ DosToUnix(DosDatetime(clock)) \in {clock, clock - 1}

(***************************************************************************)
(* A package that has an Info.plist is read from a server that answers     *)
(* ranges (ipa.rs: "using range requests: last 64 KB (EOCD) -> central     *)
(* directory -> the entry's bytes").                                        *)
(***************************************************************************)
VersionRead ==
  job = "version" /\ honours /\ src.whole /\ step = "failed" =>
    ~\E f \in ToSet(src.files) : IsMainInfo(f.name.segs) /\ f.method \in {0, 8}
=============================================================================
