----------------------------- MODULE AssetCache -----------------------------
(***************************************************************************)
(* The payload fetcher: ensure_cache checks the pinned assets in the cache *)
(* directory and, when one of them is missing or wrong, walks the update   *)
(* package over the network, extracts all of them, each into               *)
(* `.{name}.part`, and renames it into place once the digest of the stream *)
(* is right. The SAP runtime then maps the files, on the word of the       *)
(* fetcher that they have been verified.                                   *)
(*                                                                         *)
(* Any number of perun processes share the directory. A file is the set of *)
(* the blocks that hold what they should; the rest are holes or garbage.   *)
(* An open file is followed by the name it has: `.part`, the asset's own,  *)
(* or none any more.                                                       *)
(***************************************************************************)
EXTENDS Naturals

CONSTANTS
  Procs,    \* perun processes
  N,        \* assets, numbered as the package has them
  Size,     \* Size[a]: blocks of asset a
  NoFile

ASSUME AssetAssumption ==
  /\ N \in Nat \ {0}
  /\ Size \in [1..N -> Nat \ {0}]
  /\ \A a \in 1..N : \A c \in SUBSET (1..Size[a]) : c # NoFile

Assets == 1..N
Whole(a) == 1..Size[a]
Content(a) == {NoFile} \union SUBSET Whole(a)

VARIABLES
  part,    \* part[a]: the file `.{a}.part`
  cached,  \* cached[a]: the file a in the cache directory
  pc,      \* per process: where it is; "idle" when it does not run
  at,      \* per process: the asset it is at
  next,    \* per process: the block that is due
  open,    \* per process: what its open file is called now
  sum,     \* per process: is the digest of the stream right so far?
  solo     \* history: has no other process fetched since this one started?

files == <<part, cached>>
own   == <<pc, at, next, sum>>
vars  == <<part, cached, pc, at, next, open, sum, solo>>

-----------------------------------------------------------------------------
Init ==
  /\ part = [a \in Assets |-> NoFile]
  /\ cached = [a \in Assets |-> NoFile]
  /\ pc = [p \in Procs |-> "idle"]
  /\ at = [p \in Procs |-> 1]
  /\ next = [p \in Procs |-> 1]
  /\ open = [p \in Procs |-> "none"]
  /\ sum = [p \in Procs |-> TRUE]
  /\ solo = [p \in Procs |-> FALSE]

Fetching(p) == pc[p] \in {"open", "write", "seal", "rename"}

Move(p, s, a) ==
  /\ pc' = [pc EXCEPT ![p] = s]
  /\ at' = [at EXCEPT ![p] = a]

\* The process ends; o is what becomes of the open files.
Leave(p, o) ==
  /\ Move(p, "idle", 1)
  /\ next' = [next EXCEPT ![p] = 1]
  /\ open' = [o EXCEPT ![p] = "none"]
  /\ sum' = [sum EXCEPT ![p] = TRUE]
  /\ solo' = [solo EXCEPT ![p] = FALSE]

\* A command that needs the assets starts.
Run(p) ==
  /\ pc[p] = "idle"
  /\ Move(p, "check", 1)
  /\ solo' = [solo EXCEPT ![p] = \A q \in Procs \ {p} : ~Fetching(q)]
  /\ UNCHANGED <<files, next, open, sum>>

\* A variant that looks for the files and not at them.
PresentOnly(a) == cached[a] # NoFile

\* cache_complete: the size of an asset and the digest of its file.
Intact(a) == cached[a] = Whole(a)

\* One asset of cache_complete. The first that is missing or wrong sends the process to the
\* network for all of them.
Check(p) ==
  /\ pc[p] = "check"
  /\ IF ~Intact(at[p])
     THEN /\ Move(p, "open", 1)
          /\ solo' = [q \in Procs |-> q = p /\ solo[p]]
     ELSE /\ IF at[p] = N THEN Move(p, "load", 1) ELSE Move(p, "check", at[p] + 1)
          /\ UNCHANGED solo
  /\ UNCHANGED <<files, next, open, sum>>

-----------------------------------------------------------------------------
(* The extraction of one asset.                                              *)

\* The open files once the name `.part` of asset a means nothing any more.
Unlinked(a) ==
  [q \in Procs |-> IF at[q] = a /\ open[q] = "part" THEN "none" ELSE open[q]]

\* The open files once `.part` of a has replaced a.
Renamed(a) ==
  [q \in Procs |-> IF at[q] = a /\ open[q] # "none"
                   THEN IF open[q] = "part" THEN "cached" ELSE "none"
                   ELSE open[q]]

\* The error path of an extraction: whatever has the name `.part` is removed.
Discard(p) ==
  /\ part' = [part EXCEPT ![at[p]] = NoFile]
  /\ Leave(p, Unlinked(at[p]))
  /\ UNCHANGED cached

\* The walk reaches the next asset; its `.part` is created, or emptied.
Open(p) ==
  /\ pc[p] = "open"
  /\ part' = [part EXCEPT ![at[p]] = {}]
  /\ Move(p, "write", at[p])
  /\ next' = [next EXCEPT ![p] = 1]
  /\ open' = [open EXCEPT ![p] = "part"]
  /\ sum' = [sum EXCEPT ![p] = TRUE]
  /\ UNCHANGED <<cached, solo>>

\* The package cannot be read as far as the asset, or the file cannot be created.
NotOpened(p) ==
  /\ pc[p] = "open"
  /\ \/ Leave(p, open) /\ UNCHANGED files
     \/ Discard(p)

\* What a block that is written, and is right or not, makes of content c.
With(c, b, right) == IF right THEN c \union {b} ELSE c \ {b}

\* One block of the stream goes to the file; a server that ignores the Range, or sends
\* another, makes it garbage.
Write(p, right) ==
  LET a == at[p] IN
  /\ pc[p] = "write" /\ next[p] <= Size[a]
  /\ part' = IF open[p] = "part" THEN [part EXCEPT ![a] = With(@, next[p], right)] ELSE part
  /\ cached' = IF open[p] = "cached" THEN [cached EXCEPT ![a] = With(@, next[p], right)]
               ELSE cached
  /\ next' = [next EXCEPT ![p] = @ + 1]
  /\ sum' = [sum EXCEPT ![p] = @ /\ right]
  /\ UNCHANGED <<pc, at, open, solo>>

\* The stream ends early.
Cut(p) ==
  /\ pc[p] = "write"
  /\ Discard(p)

\* A variant that keeps the file open beyond the last block.
CloseLate(p) ==
  /\ pc[p] = "write" /\ next[p] > Size[at[p]]
  /\ Move(p, "seal", at[p])
  /\ UNCHANGED <<files, next, open, sum, solo>>

\* The last block is written and the file is closed.
Close(p) ==
  /\ pc[p] = "write" /\ next[p] > Size[at[p]]
  /\ Move(p, "seal", at[p])
  /\ open' = [open EXCEPT ![p] = "none"]
  /\ UNCHANGED <<files, next, sum, solo>>

\* A variant that does not look at the digest.
SealUnchecked(p) ==
  /\ pc[p] = "seal"
  /\ Move(p, "rename", at[p]) /\ UNCHANGED <<files, next, open, sum, solo>>

\* The size and the digest of what went by are compared with the pinned ones.
Seal(p) ==
  /\ pc[p] = "seal"
  /\ IF sum[p]
     THEN Move(p, "rename", at[p]) /\ UNCHANGED <<files, next, open, sum, solo>>
     ELSE Discard(p)

\* The file that is called `.part` by now takes the asset's name.
Rename(p) ==
  LET a == at[p] IN
  /\ pc[p] = "rename" /\ part[a] # NoFile
  /\ cached' = [cached EXCEPT ![a] = part[a]]
  /\ part' = [part EXCEPT ![a] = NoFile]
  /\ open' = Renamed(a)
  /\ IF a = N THEN Move(p, "load", 1) ELSE Move(p, "open", a + 1)
  /\ next' = [next EXCEPT ![p] = 1]
  /\ UNCHANGED <<sum, solo>>

\* There is no such file, or the rename fails.
NotRenamed(p) ==
  /\ pc[p] = "rename"
  /\ Leave(p, open)
  /\ UNCHANGED files

\* load_dir and SapRuntime::new: the files are mapped as they are.
Load(p) ==
  /\ pc[p] = "load"
  /\ Leave(p, open)
  /\ UNCHANGED files

\* The process is killed.
Kill(p) ==
  /\ pc[p] # "idle"
  /\ Leave(p, open)
  /\ UNCHANGED files

Work(p) ==
  \/ Run(p) \/ Check(p) \/ Open(p) \/ NotOpened(p) \/ Write(p, TRUE) \/ Write(p, FALSE)
  \/ Cut(p) \/ Close(p) \/ Seal(p) \/ Rename(p) \/ NotRenamed(p) \/ Load(p)

Next == \E p \in Procs : Work(p) \/ Kill(p)

Spec == Init /\ [][Next]_vars

-----------------------------------------------------------------------------
(* Fairness: no process stops between two steps, every request is answered   *)
(* or fails, and the users run their commands again.                         *)

FairSpec == Spec /\ \A p \in Procs : WF_vars(Work(p))

\* The steps that nothing disturbs: the server sends what is asked for, and files are
\* created, written and renamed.
Undisturbed(p) ==
  \/ Run(p) \/ Check(p) \/ Open(p) \/ Write(p, TRUE) \/ Close(p) \/ Seal(p) \/ Rename(p)
  \/ part[at[p]] = NoFile /\ NotRenamed(p)
  \/ Load(p)

-----------------------------------------------------------------------------
(* Properties.                                                               *)

\* Every variable keeps its type, and a process that writes `.part` finds it there.
TypeOK ==
  /\ \A a \in Assets : part[a] \in Content(a) /\ cached[a] \in Content(a)
  /\ pc \in [Procs -> {"idle", "check", "open", "write", "seal", "rename", "load"}]
  /\ at \in [Procs -> Assets] /\ next \in [Procs -> Nat \ {0}]
  /\ open \in [Procs -> {"none", "part", "cached"}]
  /\ sum \in [Procs -> BOOLEAN] /\ solo \in [Procs -> BOOLEAN]
  /\ \A p \in Procs :
       /\ next[p] <= Size[at[p]] + 1
       /\ next[p] # 1 => pc[p] \in {"write", "seal", "rename"}
       /\ open[p] # "none" => pc[p] = "write"
       /\ open[p] = "part" => part[at[p]] # NoFile
       /\ open[p] = "cached" => cached[at[p]] # NoFile

\* A process that no other fetched beside maps nothing but whole assets, whatever earlier
\* runs, alone or not, have left in the directory (fetcher.rs: "A half-extracted asset must
\* never reach the cache").
LoadedWhole ==
  \A p \in Procs : pc[p] = "load" /\ solo[p] => \A a \in Assets : cached[a] = Whole(a)

\* Nothing that overlapping fetches, kills, cut streams and wrong answers leave behind stays:
\* once they stop, the cache becomes complete, for good. (While they overlap, two fetches can
\* spoil each other's files over and over.)
Heals ==
  <>[][\E p \in Procs : Undisturbed(p)]_vars /\ <>[](\A p \in Procs : Fetching(p) => solo[p])
    => <>[](\A a \in Assets : cached[a] = Whole(a))

\* What has an asset's name is whole (fetcher.rs: "A half-extracted asset must never reach
\* the cache").
NeverHalf == \A a \in Assets : cached[a] = NoFile \/ cached[a] = Whole(a)
=============================================================================
