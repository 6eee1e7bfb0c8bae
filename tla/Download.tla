------------------------------ MODULE Download ------------------------------
(***************************************************************************)
(* One `perun download`: appstore::download streams a package into         *)
(* `{destination}.tmp`, store::http decides whether an answer may continue *)
(* the partial of an earlier run, and ipa::replicate rewrites the raw      *)
(* package into `{destination}.partial` and publishes it by rename.        *)
(*                                                                         *)
(* One process runs at a time and may die between any two steps; the files *)
(* survive it. The Store answers every request with any answer an HTTP     *)
(* server may give. A file is a sequence of blocks; a block remembers the  *)
(* package it belongs to and its offset there, so that a shifted, foreign  *)
(* or missing block can be told apart from the right one.                  *)
(***************************************************************************)
EXTENDS Naturals, Sequences, FiniteSets

CONSTANTS
  Packages,      \* raw packages (.ipa) the Store can serve: one per app version
  Size,          \* Size[p]: blocks of p; the last one holds directory and EOCD
  Headers,       \* Headers[p]: the offsets of p at which an entry's local header starts
  HasBundle,     \* the packages with a Payload/<name>.app/Info.plist entry
  Dests,         \* destination paths (`resolve_destination`)
  Targets,       \* [pkg, dest] pairs a user asks for
  Window,        \* blocks of the 66 000-byte tail in which the EOCD is searched
  MaxErrorBody,  \* bound: blocks of the body of an error answer
  Body416,       \* bound: blocks of the body of a 416 answer
  NoFile, Junk, Torn, NoJob

Block == [of : Packages, at : Nat \ {0}]

\* A raw download, complete or not; an error page leaves Junk in it.
File == Seq(Block \union {Junk})

\* What replicate writes: the directory of dir and its entries, licensed as info.
Published == [dir : Packages, info : Packages, body : File]

ASSUME SizeAssumption ==
  /\ Size \in [Packages -> Nat \ {0}]
  /\ Headers \in [Packages -> SUBSET (Nat \ {0})]
  /\ \A p \in Packages : 1 \in Headers[p] /\ Headers[p] \subseteq 1..Size[p]
  /\ HasBundle \subseteq Packages
  /\ Targets \subseteq [pkg : Packages, dest : Dests]
  /\ Window \in Nat \ {0} /\ MaxErrorBody \in Nat /\ Body416 \in Nat

ASSUME SentinelAssumption ==
  /\ Junk \notin Block
  /\ NoFile \notin File \union Published
  /\ NoJob \notin Targets

VARIABLES
  tmp,      \* tmp[d]: the file `{d}.tmp`
  partial,  \* partial[d]: the file `{d}.partial`
  dst,      \* dst[d]: the file at the destination itself
  pre,      \* pre[d]: the file `{d}.pre-replication`
  pc,       \* where the process is; "idle" when none runs
  job,      \* the target of the running process
  local,    \* local_size: the length of the partial when it was opened
  resp      \* the answer being streamed

files == <<tmp, partial, dst, pre>>
vars  == <<tmp, partial, dst, pre, pc, job, local, resp>>

-----------------------------------------------------------------------------
(* The answers of the server: status, the blocks first..last its body or     *)
(* Content-Range covers, and the total it names.                             *)

Answer == [status : {200, 206, 416, 503}, first : Nat \ {0}, last : Nat, total : Nat]

NoAnswer == [status |-> 503, first |-> 1, last |-> 0, total |-> 0]

\* The whole package: the answer to a plain GET, or to a Range that was ignored.
Whole(p) == [status |-> 200, first |-> 1, last |-> Size[p], total |-> Size[p]]

\* Blocks i..j of package p.
Part(p, i, j) == [status |-> 206, first |-> i, last |-> j, total |-> Size[p]]

\* `bytes */Size`: nothing to send from the requested offset on.
Unsatisfiable(p) ==
  [status |-> 416, first |-> 1, last |-> Body416, total |-> Size[p]]

ErrorPages == {[status |-> 503, first |-> 1, last |-> m, total |-> 0] :
                 m \in 0..MaxErrorBody}

\* What a correct server answers to a request for p whose Range starts after n blocks.
GoodAnswers(p, n) ==
  {Whole(p)} \union
  IF n = 0 THEN {}
  ELSE IF n < Size[p] THEN {Part(p, n + 1, Size[p])} ELSE {Unsatisfiable(p)}

\* Outages, and for a Range request a range that stops short or starts elsewhere.
BadAnswers(p, n) ==
  ErrorPages \union
  IF n = 0 THEN {}
  ELSE {Part(p, n + 1, j) : j \in {k \in 1..Size[p] : n < k /\ k < Size[p]}}
       \union {Part(p, i, Size[p]) : i \in 1..Size[p] \ {n + 1}}

\* Variants of the gate with a plausible bug: Content-Range's start is not compared, and
\* an answer with any other status is let through.
RangeStartIgnored(a, n) ==
  a.status = 200 \/ (a.status = 416 /\ a.total = n) \/ (a.status = 206 /\ a.first <= a.last)

OtherStatusAccepted(a, n) ==
  a.status = 206 => a.first = n + 1 /\ a.first <= a.last /\ a.last <= a.total

\* check_range_response: may answer a be written after a partial of n blocks?
RangeAccepted(a, n) ==
  CASE a.status = 200 -> TRUE
    [] a.status = 416 -> a.total = n
    [] a.status = 206 -> a.first = n + 1 /\ a.first <= a.last /\ a.last <= a.total
    [] OTHER          -> FALSE

\* The block of the body that is due: package content, or text of an error page.
BodyBlock(a, p) ==
  IF a.status \in {200, 206} THEN [of |-> p, at |-> a.first] ELSE Junk

-----------------------------------------------------------------------------
(* Reading a raw package back: find_eocd_at, parse_central_at and            *)
(* local_span_file look at signatures and offsets, never at checksums.       *)

\* The end record of a package, at a place its directory fits before.
IsEocd(f, i) ==
  /\ f[i] # Junk
  /\ f[i].at = Size[f[i].of]
  /\ Size[f[i].of] <= i

\* The positions in the tail window that hold a believable end record.
EocdPositions(f) == {i \in 1..Len(f) : Len(f) < i + Window /\ IsEocd(f, i)}

\* The record find_eocd_at settles on: the last one believed.
LastEocd(f) == CHOOSE i \in EocdPositions(f) : \A j \in EocdPositions(f) : j <= i

\* The package whose central directory the replicator reads.
DirectoryOf(f) == f[LastEocd(f)].of

\* The directory is where the record says, and it names a main bundle.
Readable(f) ==
  /\ EocdPositions(f) # {}
  /\ f[Size[DirectoryOf(f)]] = f[LastEocd(f)]
  /\ DirectoryOf(f) \in HasBundle

\* Bug: the signature of a local header is not looked at.
EntriesAssumed(f) == TRUE

\* Every entry the directory lists starts with a local-header signature.
EntriesFound(f) ==
  \A h \in Headers[DirectoryOf(f)] : f[h] # Junk /\ f[h].at \in Headers[f[h].of]

\* Bug: the copy runs to the end of the file.
ReplicatedToTheEnd(f, p) == [dir |-> DirectoryOf(f), info |-> p, body |-> f]

\* The published package: entries copied raw, under the license of package p.
Replicated(f, p) ==
  [dir |-> DirectoryOf(f), info |-> p, body |-> SubSeq(f, 1, Size[DirectoryOf(f)])]

-----------------------------------------------------------------------------
Init ==
  /\ tmp = [d \in Dests |-> NoFile]
  /\ partial = [d \in Dests |-> NoFile]
  /\ dst = [d \in Dests |-> NoFile]
  /\ pre = [d \in Dests |-> NoFile]
  /\ pc = "idle"
  /\ job = NoJob
  /\ local = 0
  /\ resp = NoAnswer

\* The process ends, on success, on an error or by being killed.
Exit ==
  /\ pc' = "idle"
  /\ job' = NoJob
  /\ local' = 0
  /\ resp' = NoAnswer

\* Bug: the partial is created anew, whether it is there or not.
StartAfresh(t) ==
  /\ pc = "idle"
  /\ pc' = "send"
  /\ job' = t
  /\ tmp' = [tmp EXCEPT ![t.dest] = <<>>]
  /\ local' = 0
  /\ UNCHANGED <<partial, dst, pre, resp>>

\* download: the info is fetched, the partial is measured and opened, or created.
Start(t) ==
  LET d == t.dest IN
  /\ pc = "idle"
  /\ pc' = "send"
  /\ job' = t
  /\ tmp' = [tmp EXCEPT ![d] = IF @ = NoFile THEN <<>> ELSE @]
  /\ local' = Len(tmp'[d])
  /\ UNCHANGED <<partial, dst, pre, resp>>

\* Bug: a 200 that answers a Range request is appended like a 206.
RespondAppending(a) ==
  /\ pc = "send"
  /\ IF local = 0 \/ RangeAccepted(a, local)
       THEN pc' = "stream" /\ resp' = a /\ UNCHANGED <<job, local>>
       ELSE Exit
  /\ UNCHANGED files

\* The headers arrive. Only a Range request passes the gate; a 200 that answers one
\* empties the partial first. A refused answer ends the run with the partial kept.
Respond(a) ==
  LET d == job.dest IN
  /\ pc = "send"
  /\ IF local = 0 \/ RangeAccepted(a, local)
       THEN /\ pc' = "stream"
            /\ resp' = a
            /\ tmp' = [tmp EXCEPT ![d] = IF a.status = 200 /\ local > 0 THEN <<>> ELSE @]
            /\ UNCHANGED <<job, local>>
       ELSE Exit /\ UNCHANGED tmp
  /\ UNCHANGED <<partial, dst, pre>>

AnswerGood == pc = "send" /\ \E a \in GoodAnswers(job.pkg, local) : Respond(a)
AnswerBad  == pc = "send" /\ \E a \in BadAnswers(job.pkg, local) : Respond(a)

\* One chunk of the body is written behind the file's end and flushed.
Stream ==
  /\ pc = "stream"
  /\ resp.first <= resp.last
  /\ tmp' = [tmp EXCEPT ![job.dest] = Append(@, BodyBlock(resp, job.pkg))]
  /\ resp' = [resp EXCEPT !.first = @ + 1]
  /\ UNCHANGED <<partial, dst, pre, pc, job, local>>

\* The connection breaks before the headers or inside the body: the run fails, the
\* bytes already written stay.
Cut ==
  /\ pc = "send" \/ (pc = "stream" /\ resp.first <= resp.last)
  /\ Exit
  /\ UNCHANGED files

\* The body is complete; its status is not looked at again.
BodyEnds ==
  /\ pc = "stream"
  /\ resp.first > resp.last
  /\ pc' = "replicate"
  /\ UNCHANGED <<tmp, partial, dst, pre, job, local, resp>>

\* Bug: the raw download stays where the next run finds it.
KeepRaw ==
  /\ partial' = [partial EXCEPT ![job.dest] = NoFile]
  /\ UNCHANGED <<tmp, dst, pre>>
  /\ Exit

\* The error path of replicate and of its caller: `.partial` is deleted and the raw
\* download is set aside under `.pre-replication`.
SetAside ==
  LET d == job.dest IN
  /\ partial' = [partial EXCEPT ![d] = NoFile]
  /\ pre' = [pre EXCEPT ![d] = tmp[d]]
  /\ tmp' = [tmp EXCEPT ![d] = NoFile]
  /\ UNCHANGED dst
  /\ Exit

\* Bug: the destination itself is created and filled.
ReplicateOpenInPlace ==
  LET d == job.dest IN
  /\ pc = "replicate"
  /\ IF Readable(tmp[d])
       THEN /\ dst' = [dst EXCEPT ![d] = Torn]
            /\ pc' = "copy"
            /\ UNCHANGED <<tmp, partial, pre, job, local, resp>>
       ELSE SetAside

\* replicate_to: the directory is read; `.partial` is created, empty, only then.
ReplicateOpen ==
  LET d == job.dest IN
  /\ pc = "replicate"
  /\ IF Readable(tmp[d])
       THEN /\ partial' = [partial EXCEPT ![d] = Torn]
            /\ pc' = "copy"
            /\ UNCHANGED <<tmp, dst, pre, job, local, resp>>
       ELSE SetAside

\* The entries are copied and the result is synced, unless a local header is not
\* where the directory says.
ReplicateCopy ==
  LET d == job.dest IN
  /\ pc = "copy"
  /\ IF EntriesFound(tmp[d])
       THEN /\ partial' = [partial EXCEPT ![d] = Replicated(tmp[d], job.pkg)]
            /\ pc' = "publish"
            /\ UNCHANGED <<tmp, dst, pre, job, local, resp>>
       ELSE SetAside

\* A read, an inflate, a write, the sync or the rename fails.
ReplicateFail ==
  /\ pc \in {"replicate", "copy", "publish"}
  /\ SetAside

\* The finished package takes the destination's name in one rename.
Publish ==
  LET d == job.dest IN
  /\ pc = "publish"
  /\ dst' = [dst EXCEPT ![d] = partial[d]]
  /\ partial' = [partial EXCEPT ![d] = NoFile]
  /\ pc' = "cleanup"
  /\ UNCHANGED <<tmp, pre, job, local, resp>>

\* The raw download is deleted and the run reports success.
Cleanup ==
  /\ pc = "cleanup"
  /\ tmp' = [tmp EXCEPT ![job.dest] = NoFile]
  /\ Exit
  /\ UNCHANGED <<partial, dst, pre>>

\* The process is killed between two steps.
Crash ==
  /\ pc # "idle"
  /\ Exit
  /\ UNCHANGED files

\* What the program does when nothing goes wrong around it.
Work ==
  \/ \E t \in Targets : Start(t)
  \/ AnswerGood
  \/ Stream
  \/ BodyEnds
  \/ ReplicateOpen
  \/ ReplicateCopy
  \/ Publish
  \/ Cleanup

\* What the environment does to it.
Fault ==
  \/ AnswerBad
  \/ Cut
  \/ ReplicateFail
  \/ Crash

Next == Work \/ Fault

Spec == Init /\ [][Next]_vars

\* A running process goes on, and a user whose run failed runs the command again.
Fairness ==
  /\ WF_vars(AnswerGood) /\ WF_vars(Stream) /\ WF_vars(BodyEnds)
  /\ WF_vars(ReplicateOpen) /\ WF_vars(ReplicateCopy)
  /\ WF_vars(Publish) /\ WF_vars(Cleanup)
  /\ \A t \in Targets : SF_vars(Start(t))

FairSpec == Spec /\ Fairness

-----------------------------------------------------------------------------
(* Properties *)

\* Every variable keeps its type; the target and the answer belong to a running process.
TypeOK ==
  /\ tmp \in [Dests -> File \union {NoFile}]
  /\ partial \in [Dests -> Published \union {NoFile, Torn}]
  /\ dst \in [Dests -> Published \union {NoFile}]
  /\ pre \in [Dests -> File \union {NoFile}]
  /\ pc \in {"idle", "send", "stream", "replicate", "copy", "publish", "cleanup"}
  /\ job \in Targets \union {NoJob}
  /\ job = NoJob <=> pc = "idle"
  /\ pc # "idle" => tmp[job.dest] # NoFile
  /\ local \in Nat
  /\ resp \in Answer

\* The first n blocks of package p.
Prefix(p, n) == [i \in 1..n |-> [of |-> p, at |-> i]]

\* Package p replicated from its own bytes under its own license.
Genuine(p) == [dir |-> p, info |-> p, body |-> Prefix(p, Size[p])]

\* The targets whose destination no other package is ever asked into: the names
\* resolve_destination builds from bundle id, app id and version.
OwnTargets == {t \in Targets : \A u \in Targets : u.dest = t.dest => u.pkg = t.pkg}

\* A package that reaches as far as its own directory, and ends with it.
IsWhole(o) ==
  /\ Len(o.body) = Size[o.dir]
  /\ o.body[Size[o.dir]] = [of |-> o.dir, at |-> Size[o.dir]]
  /\ o.dir \in HasBundle

\* What the destination's name holds is a finished package: as long as the directory it
\* ends with says, whatever was interrupted, refused or retried before
\* (replicate: "cannot leave a truncated package at the path").
PublishedWhole == \A d \in Dests : dst[d] # NoFile => IsWhole(dst[d])

\* Whatever mix of full, partial, refused and broken answers filled it, a partial holds
\* every package block at the block's own offset: no resume shifts or skips content.
InPlace ==
  \A d \in Dests : tmp[d] # NoFile =>
    \A i \in 1..Len(tmp[d]) : tmp[d][i] # Junk => tmp[d][i].at = i

\* A destination only one package is asked into holds that package byte for byte or
\* nothing: error pages and leftovers of broken runs never get as far as the destination.
PublishedPure ==
  \A t \in OwnTargets : dst[t.dest] \in {NoFile, Genuine(t.pkg)}

\* A server that ignored the Range never appends onto a good prefix: while and after a
\* 200 streams, the partial is what that answer has sent so far and nothing else.
WholeNeverAppended ==
  pc \in {"stream", "replicate"} /\ resp.status = 200 =>
    tmp[job.dest] = Prefix(job.pkg, resp.first - 1)

\* f continues with the blocks of e.
Extends(f, e) == f # NoFile /\ Len(e) <= Len(f) /\ SubSeq(f, 1, Len(e)) = e

\* Downloaded blocks leave the partial only when a full body replaces them, when they
\* are set aside, or when the package made of them stands at the destination.
PartialKept ==
  [][\A d \in Dests : tmp[d] # NoFile =>
       \/ Extends(tmp'[d], tmp[d])
       \/ tmp'[d] = <<>> /\ resp'.status = 200
       \/ tmp'[d] = NoFile /\ pre'[d] = tmp[d]
       \/ tmp'[d] = NoFile /\ dst[d] = Replicated(tmp[d], job.pkg)]_vars

\* Once the faults stop, a user who runs the command again whenever it has failed sees
\* it succeed, every time: no sequence of crashes, cut connections and bad answers
\* leaves files behind that make every later run fail.
Recovers ==
  <>[][Work]_vars =>
    \A t \in OwnTargets : t.pkg \in HasBundle => []<>(pc = "cleanup" /\ job = t)

-----------------------------------------------------------------------------
(* The files implement the abstract store, as long as every destination is asked for by *)
(* one package only.                                                                    *)

\* A file at a destination seen as a package: Torn stands for anything but the real one.
PackageAt(x) ==
  IF x = NoFile THEN NoFile ELSE IF x = Genuine(x.info) THEN x.info ELSE Torn

Packed == [d \in Dests |-> PackageAt(dst[d])]

Store == INSTANCE PackageStore WITH
  NoPackage <- NoFile,
  NoCommand <- NoJob,
  store     <- Packed,
  command   <- job

\* Every behaviour of the files, crashes included, is one of the abstract store.
ImplementsStore == Store!Spec

-----------------------------------------------------------------------------
(* What the sources say of the program and the program does not do *)

\* appstore::download: "The http layer validates the 206/416/200 answer BEFORE the first
\* byte reaches the file": no text of an error page is in a partial.
OnlyValidatedBytes ==
  \A d \in Dests : tmp[d] # NoFile => \A i \in 1..Len(tmp[d]) : tmp[d][i] # Junk

=============================================================================
