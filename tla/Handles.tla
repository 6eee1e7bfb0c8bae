------------------------------ MODULE Handles ------------------------------
(***************************************************************************)
(* The handles of the Win32 shims: host objects at the addresses the       *)
(* allocator gives out, and the set of those that are alive. A file or a   *)
(* directory search owns a descriptor of the host; the three standard      *)
(* streams are lent, and their handles must not close them.                *)
(*                                                                         *)
(* An address that was freed may be given out again: the padding of        *)
(* handle_new makes every block larger than the last, which a block that   *)
(* has merged with the free memory behind it does not mind.                *)
(***************************************************************************)
EXTENDS Integers, FiniteSets, Functions, TLC

CONSTANTS
  Addresses,   \* where host objects can lie; the bound on handles
  Wild,        \* a handle that is none: null, the pseudo handles, a stray value
  Paths,       \* names of files
  Fds          \* descriptors: 0, 1, 2 are the standard streams

ASSUME HandlesAssumption ==
  /\ Wild \notin Addresses
  /\ 0..2 \subseteq Fds /\ Fds \subseteq Nat /\ IsFiniteSet(Fds)

Std == 0..2

VARIABLES
  object,   \* LIVE_SET with what the live handles name
  desc,     \* the host's table of descriptors
  error     \* LastErrorValue of the thread

handleVars == <<object, desc, error>>

Handles == Addresses \union {Wild}

\* A function with one more argument, and with fewer.
With(f, a, b) == [x \in DOMAIN f \union {a} |-> IF x = a THEN b ELSE f[x]]
Cut(f, S) == Restrict(f, DOMAIN f \ S)

Kinds ==
  [kind : {"file"}, fd : Fds, shared : BOOLEAN]
    \union [kind : {"event"}, manual : BOOLEAN, signaled : BOOLEAN]
    \union [kind : {"mutex"}, locked : BOOLEAN]
    \union [kind : {"dir"}, fd : Fds]

HandlesInit ==
  /\ object = <<>>
  /\ desc = [f \in Std |-> [what |-> "tty"]]
  /\ error = "none"

Is(h, kind) == h \in DOMAIN object /\ object[h].kind = kind

(***************************************************************************)
(* handle_new, handle_get, handle_free. An address is any that is not      *)
(* alive. The object is freed with what it owns: a file that is not        *)
(* shared, or the stream of a directory.                                   *)
(***************************************************************************)
Allocated(o, h) ==
  /\ h \in Addresses \ DOMAIN object
  /\ object' = With(object, h, o)

Uses(o) == IF o.kind \in {"file", "dir"} THEN {o.fd} ELSE {}
Owns(o) == CASE o.kind = "file" -> IF o.shared THEN {} ELSE {o.fd}
             [] o.kind = "dir" -> {o.fd}
             [] OTHER -> {}

Freed(h) ==
  /\ object' = Cut(object, {h})
  /\ desc' = Cut(desc, Owns(object[h]))

\* CloseHandle and FindClose are the same call.
CloseHandle(h) ==
  /\ IF h \in DOMAIN object THEN Freed(h) ELSE UNCHANGED <<object, desc>>
  /\ UNCHANGED error

\* open(2): the lowest descriptor that is free.
FreeFds == Fds \ DOMAIN desc
IsLowestFd(f) == f \in FreeFds /\ \A g \in FreeFds : f <= g

Fails(e) == error' = e /\ UNCHANGED <<object, desc>>

-----------------------------------------------------------------------------
(***************************************************************************)
(* Every descriptor that is open is a standard stream or belongs to one    *)
(* live object, and what a live object uses is open: closing, twice or     *)
(* through the wrong call, searches that come up empty and handles on the  *)
(* standard streams neither leak a descriptor nor close one of another.    *)
(***************************************************************************)
DescriptorsOwned ==
  /\ DOMAIN desc = Std \union UNION {Owns(object[h]) : h \in DOMAIN object}
  /\ \A h \in DOMAIN object : Uses(object[h]) \subseteq DOMAIN desc
  /\ \A g, h \in DOMAIN object : g # h => Owns(object[g]) \cap Owns(object[h]) = {}
=============================================================================
