----------------------------- MODULE GuestFiles -----------------------------
(***************************************************************************)
(* Files and directory searches of the guest. A file is a node of the host *)
(* with a size; an open one has a position and a mode of its own. A search *)
(* reads the directory as it changes, through the host's readdir.          *)
(***************************************************************************)
EXTENDS Handles, Sequences

CONSTANTS
  Matching,   \* the paths a filtered search asks for
  MaxNodes,   \* bound: files ever created
  MaxSize     \* bound: bytes of a file, and the farthest position

ASSUME FilesAssumption ==
  /\ Matching \subseteq Paths
  /\ MaxNodes \in Nat \ {0} /\ MaxSize \in Nat

VARIABLES
  names,   \* the directory: name -> node
  size     \* node -> bytes, for every node ever created

fileVars == <<names, size>>

FilesInit ==
  /\ names = [p \in Paths \ Matching |-> 1]
  /\ size = <<0>>

FileObject(fd, shared) == [kind |-> "file", fd |-> fd, shared |-> shared]
Open(n, m) == [what |-> "file", node |-> n, mode |-> m, pos |-> 0]
Folder == [what |-> "folder"]

Larger(a, b) == IF a > b THEN a ELSE b

-----------------------------------------------------------------------------
(***************************************************************************)
(* open_flags. Asking for both rights does not give both: the two bits     *)
(* together match neither arm, and the file is opened for reading.         *)
(***************************************************************************)
Access == SUBSET {"read", "write"}
ModeOf(access) == IF access = {"write"} THEN "w" ELSE "r"

Dispositions == {"new", "always", "existing", "open", "truncate"}
Creates(d)   == d \in {"new", "always", "open"}
Truncates(d) == d \in {"always", "truncate"}

Opened(table, d) == \E f \in FreeFds, h \in Addresses :
  /\ IsLowestFd(f)
  /\ Allocated(FileObject(f, FALSE), h)
  /\ desc' = With(table, f, d)
  /\ UNCHANGED error

NotOpened == UNCHANGED <<handleVars, fileVars>>

(***************************************************************************)
(* readdir(3): an entry that is made or removed while a stream is open may *)
(* be given or not; all others are given once.                             *)
(***************************************************************************)
Stirred(p) ==
  [f \in DOMAIN desc |->
     IF desc[f].what = "search"
     THEN [desc[f] EXCEPT !.left = @ \ {p}, !.loose = @ \union {p}, !.kept = @ \ {p}]
     ELSE desc[f]]

(***************************************************************************)
(* CreateFileW. A file that is truncated is so whatever the mode. (A       *)
(* directory is opened by a name without its end, as if by any name.)      *)
(***************************************************************************)
CreateFileW(p, access, d) ==
  IF p \in DOMAIN names
  THEN /\ d # "new"
       /\ Opened(desc, Open(names[p], ModeOf(access)))
       /\ size' = IF Truncates(d) THEN [size EXCEPT ![names[p]] = 0] ELSE size
       /\ UNCHANGED names
  ELSE /\ Creates(d)
       /\ Len(size) < MaxNodes
       /\ Opened(Stirred(p), Open(Len(size) + 1, ModeOf(access)))
       /\ size' = Append(size, 0)
       /\ names' = With(names, p, Len(size) + 1)

\* CreateFileA widens the name without its end: what follows may belong to it.
CreateFileA(p, access, d) == \E q \in Paths : CreateFileW(q, access, d)

OpenDirectory == \/ Opened(desc, Folder) /\ UNCHANGED fileVars
                 \/ NotOpened

GetStdHandle(fd) == \E h \in Addresses :
  /\ Allocated(FileObject(fd, TRUE), h)
  /\ UNCHANGED <<desc, error, fileVars>>

Regular(h) == Is(h, "file") /\ desc[object[h].fd].what = "file"
Fd(h) == object[h].fd
At(h) == desc[Fd(h)].pos
SizeOf(h) == size[desc[Fd(h)].node]
MovedTo(h, pos) == desc' = [desc EXCEPT ![Fd(h)].pos = pos]
Failed(e) == Fails(e) /\ UNCHANGED fileVars

\* ReadFile at the position: one that was opened for writing does not read.
ReadFile(h) ==
  \/ ~Is(h, "file") /\ Failed("param")
  \/ /\ Regular(h)
     /\ IF desc[Fd(h)].mode = "w" THEN Failed("param")
        ELSE /\ MovedTo(h, Larger(At(h), IF At(h) < SizeOf(h) THEN At(h) + 1 ELSE 0))
             /\ UNCHANGED <<object, error, fileVars>>

\* ...and at an offset whose lower half is not zero, which leaves the position.
ReadFileAt(h) ==
  /\ Regular(h) /\ desc[Fd(h)].mode = "w"
  /\ Failed("param")

WriteFile(h) ==
  \/ ~Is(h, "file") /\ Failed("param")
  \/ /\ Regular(h)
     /\ IF desc[Fd(h)].mode = "r" THEN Failed("param")
        ELSE /\ At(h) < MaxSize
             /\ MovedTo(h, At(h) + 1)
             /\ size' = [size EXCEPT ![desc[Fd(h)].node] = Larger(@, At(h) + 1)]
             /\ UNCHANGED <<object, error, names>>

SetEndOfFile(h) ==
  /\ Regular(h) /\ desc[Fd(h)].mode = "w"
  /\ size' = [size EXCEPT ![desc[Fd(h)].node] = At(h)]
  /\ UNCHANGED <<handleVars, names>>

SetFilePointerEx(h, dist, method) ==
  LET from == CASE method = "set" -> 0
                [] method = "cur" -> At(h)
                [] method = "end" -> SizeOf(h)
  IN /\ Regular(h)
     /\ IF method = "bad" THEN Failed("param")
        ELSE /\ from + dist \in 0..MaxSize     \* a negative position is refused
             /\ MovedTo(h, from + dist)
             /\ UNCHANGED <<object, error, fileVars>>

DeleteFileW(p) ==
  /\ p \in DOMAIN names
  /\ names' = Cut(names, {p})
  /\ desc' = Stirred(p)
  /\ UNCHANGED <<object, error, size>>

-----------------------------------------------------------------------------
(***************************************************************************)
(* Searches. `left` are the names the stream still has to give and `loose` *)
(* those it may give, having been made or removed since opendir. History:  *)
(* the names the guest was told, those of its pattern that have been there *)
(* since the search began, and whether it was told that there are no more. *)
(***************************************************************************)
Search(left, n, want) ==
  [what |-> "search", left |-> left, loose |-> {}, told |-> {n}, kept |-> want, over |-> FALSE]

\* The stream gives one name; those skipped before it did not match.
\* A mutant of FirstOf: an entry that matches can be skipped.
FirstOfAny(want, n, skipped) == n \in want
FirstOf(want, n, skipped) == n \in want /\ skipped \cap want = {}

FindFirstFileExA(filter) ==
  LET all == DOMAIN names
      want == all \cap filter
  IN /\ FreeFds # {}
     /\ UNCHANGED fileVars
     /\ IF want = {} THEN Fails("nomore")      \* and the stream is closed again
        ELSE \E n \in all, skipped \in SUBSET all, f \in FreeFds, h \in Addresses :
               /\ n \notin skipped
               /\ FirstOf(want, n, skipped)
               /\ IsLowestFd(f)
               /\ Allocated([kind |-> "dir", fd |-> f], h)
               /\ desc' = With(desc, f, Search(all \ (skipped \union {n}), n, want))
               /\ UNCHANGED error

\* The pattern is not looked at again: whatever the stream gives is told.
FindNextFileA(h) ==
  /\ Is(h, "dir")
  /\ UNCHANGED <<object, fileVars>>
  /\ LET s == desc[Fd(h)]
     IN \/ \E n \in s.left \union s.loose :
             /\ desc' = [desc EXCEPT ![Fd(h)] = [s EXCEPT !.left = @ \ {n}, !.loose = @ \ {n},
                                                          !.told = @ \union {n}]]
             /\ UNCHANGED error
        \/ /\ s.left = {}
           /\ desc' = [desc EXCEPT ![Fd(h)] = [s EXCEPT !.over = TRUE]]
           /\ error' = "nomore"

FilesNext ==
  \/ \E p \in Paths, a \in Access, d \in Dispositions : CreateFileW(p, a, d) \/ CreateFileA(p, a, d)
  \/ OpenDirectory
  \/ \E f \in Std : GetStdHandle(f)
  \/ \E h \in Handles : \/ ReadFile(h) \/ ReadFileAt(h) \/ WriteFile(h) \/ SetEndOfFile(h)
                        \/ FindNextFileA(h)
                        \/ CloseHandle(h) /\ UNCHANGED fileVars
  \/ \E h \in Handles, k \in {-1, 0, 1}, m \in {"set", "cur", "end", "bad"} : SetFilePointerEx(h, k, m)
  \/ \E p \in Paths : DeleteFileW(p)
  \/ \E f \in {Paths, Matching} : FindFirstFileExA(f)

-----------------------------------------------------------------------------
FilesTypeOK ==
  /\ DOMAIN names \subseteq Paths /\ \A p \in DOMAIN names : names[p] \in 1..Len(size)
  /\ Len(size) <= MaxNodes /\ \A n \in 1..Len(size) : size[n] \in 0..MaxSize

(***************************************************************************)
(* A search misses nothing: when the guest is told that there are no more  *)
(* names, it was told each that its pattern asked for and that has been    *)
(* there from beginning to end, whatever was made, removed, opened and     *)
(* closed in the meantime.                                                 *)
(***************************************************************************)
SearchMissesNothing ==
  \A f \in DOMAIN desc :
    desc[f].what = "search" /\ desc[f].over => desc[f].kept \subseteq desc[f].told
=============================================================================
