----------------------------- MODULE PeCommand -----------------------------
(***************************************************************************)
(* perun run, call and seq: an image is loaded, the thread gets its TEB,   *)
(* DllMain runs, and then the export is called with what the command line  *)
(* or the script has prepared in the guest's memory. A write or a read     *)
(* that the memory does not allow ends the process in the crash handler.   *)
(*                                                                         *)
(* A token is a number, a name that some --load gives, or one of the two   *)
(* regions, with an offset ("+") or without.                               *)
(***************************************************************************)
EXTENDS PeLoader

CONSTANTS
  Commands,          \* the command lines: see CommandType
  Scratch, Ctx,      \* the addresses of the two regions, of one cell each
  Buffer,            \* the addresses of loaded files, in the order of loading
  Lost               \* files that cannot be read

TokenType == [form : {"num", "name", "region", "offset"}, of : STRING, n : Nat]
LineType ==
  [op : {"load", "poke", "pokeptr", "patch", "peek", "peekptr", "arg", "zero", "dump", "call", "other"},
   name : STRING, file : STRING, to : {"image", "scratch", "ctx"}, rva : Nat, val : TokenType, n : Nat,
   export : STRING, args : Seq(TokenType)]

\* A line loads no more files than there are addresses for.
CommandType(c) ==
  /\ c.verb \in {"run", "call", "seq"} /\ c.help \in BOOLEAN /\ c.noTeb \in BOOLEAN /\ c.repeat \in Nat
  /\ c.lines \in Seq(LineType)
  /\ Cardinality({i \in DOMAIN c.lines : c.lines[i].op = "load"}) <= Len(Buffer)

ASSUME CommandAssumption ==
  /\ Scratch \in Nat /\ Ctx \in Nat /\ Buffer \in Seq(Nat)
  /\ \A c \in Commands : CommandType(c)

VARIABLES
  cmd,      \* the command line
  teb,      \* the base the thread's PEB tells, 0 without a TEB
  line,     \* the option, line or write that is next
  files,    \* the loaded files: name and address, in their order
  host,     \* scratch, ctx and the buffers: address -> value
  argv,     \* the arguments of the call
  calls,    \* calls of the export that have returned
  code      \* how the process ended

commandVars == <<loadVars, cmd, teb, line, files, host, argv, calls, code>>
prepared == <<files, host, argv>>

CommandInit ==
  /\ LoadInit
  /\ cmd \in Commands
  /\ teb = 0 /\ line = 1 /\ files = <<>> /\ host = <<>> /\ argv = <<>> /\ calls = 0 /\ code = -1

Keep == UNCHANGED <<image, base, at, pool, loads, cmd>>
End(c) == Goto("ended") /\ code' = c /\ Keep /\ UNCHANGED <<cell, prot, teb, line, prepared, calls>>
Crash == Goto("crashed") /\ code' = 139 /\ Keep /\ UNCHANGED <<cell, prot, teb, line, prepared, calls>>

-----------------------------------------------------------------------------
(* Memory as the process can touch it. *)
InImage(a) == base # 0 /\ a - base \in Rvas
Readable(a) == \/ InImage(a) /\ "r" \in prot[Page(a - base)]
               \/ a \in DOMAIN host
Writable(a) == \/ InImage(a) /\ "w" \in prot[Page(a - base)]
               \/ a \in DOMAIN host
Value(a) == IF InImage(a) THEN cell[a - base] ELSE host[a]

Store(a, v) == IF InImage(a) THEN cell' = [cell EXCEPT ![a - base] = v] /\ UNCHANGED host
                             ELSE host' = [host EXCEPT ![a] = v] /\ UNCHANGED cell

-----------------------------------------------------------------------------
\* run_with_args: a help flag anywhere is answered before anything runs.
Help == pc = "load" /\ cmd.help /\ End(0)

Load == ~cmd.help /\ LoadNext /\ UNCHANGED <<cmd, teb, line, prepared, calls, code>>

NotLoaded == pc = "failed" /\ End(1)

\* The TEB is made after the mapping, so that it carries the real base.
SetTeb ==
  /\ pc = "loaded"
  /\ teb' = IF cmd.noTeb THEN 0 ELSE base
  /\ Goto("main")
  /\ Keep /\ UNCHANGED <<cell, prot, line, prepared, calls, code>>

\* What guest code may do: write a value where it can.
GuestRuns(next) ==
  /\ next
  /\ \/ UNCHANGED <<cell, host>>
     \/ \E a \in {x \in DOMAIN host \union {base + r : r \in Rvas} : Writable(x)} : Store(a, 7)

NoEntry == pc = "main" /\ F.entry = 0 /\ End(1)

\* DllMain: FALSE refuses the image; `run` ends with it.
DllMain ==
  /\ pc = "main" /\ F.entry # 0
  /\ \E ret \in BOOLEAN :
       LET ends == ~ret \/ cmd.verb = "run"
       IN GuestRuns(/\ Goto(IF ends THEN "ended" ELSE "find")
                    /\ code' = IF ~ret THEN 3 ELSE IF ends THEN 0 ELSE code)
  /\ Keep /\ UNCHANGED <<prot, teb, line, files, argv, calls>>

\* The export, then the two regions, both zeroed.
Find ==
  /\ pc = "find"
  /\ IF ~Exported(cmd.export) THEN End(1)
     ELSE /\ Goto(IF cmd.verb = "seq" THEN "script" ELSE "options")
          /\ host' = [a \in {Scratch, Ctx} |-> 0]
          /\ Keep /\ UNCHANGED <<cell, prot, teb, line, files, argv, calls, code>>

-----------------------------------------------------------------------------
(***************************************************************************)
(* Tokens. The first buffer of a name is the one it means. An argument of  *)
(* `call` knows no offset; a value of an option, and every token of a      *)
(* script, does.                                                           *)
(***************************************************************************)
Named(ns, x) == {i \in DOMAIN ns : ns[i].name = x}
First(S) == CHOOSE i \in S : \A j \in S : i <= j

Region(r) == IF r = "ctx" THEN Ctx ELSE Scratch
\* A mutant of Means: a second file takes over the name of the first.
MeansLast(ns, t) == CASE t.form = "num" -> {t.n}
                      [] t.form = "name" -> {ns[i].addr : i \in {j \in Named(ns, t.of) : \A k \in Named(ns, t.of) : k <= j}}
                      [] OTHER -> {Region(t.of)}
Means(ns, t) == CASE t.form = "num" -> {t.n}
                  [] t.form = "region" -> {Region(t.of)}
                  [] t.form = "offset" -> {Region(t.of) + t.n}
                  [] t.form = "name" -> {ns[i].addr : i \in {j \in Named(ns, t.of) : j = First(Named(ns, t.of))}}
                  [] OTHER -> {}
ArgMeans(ns, t) == IF t.form = "offset" THEN {} ELSE Means(ns, t)
The(S) == CHOOSE x \in S : TRUE

LoadFile(o) ==
  IF o.file \in Lost THEN End(IF cmd.verb = "seq" THEN 1 ELSE 2)
  ELSE /\ LET b == Buffer[Len(files) + 1]
          IN /\ files' = Append(files, [name |-> o.name, addr |-> b])
             /\ host' = [a \in DOMAIN host \union {b} |-> IF a = b THEN 5 ELSE host[a]]
       /\ line' = line + 1
       /\ Keep /\ UNCHANGED <<pc, cell, prot, teb, argv, calls, code>>

Line == cmd.lines[line]
AtLine(p, ops) == pc = p /\ line <= Len(cmd.lines) /\ Line.op \in ops
Skip == line' = line + 1 /\ Keep /\ UNCHANGED <<pc, cell, prot, teb, prepared, calls, code>>

\* The options in their order: files are read, the rest is noted for later.
Option ==
  \/ AtLine("options", {"load"}) /\ LoadFile(Line)
  \/ AtLine("options", {"poke", "pokeptr", "patch", "peek", "peekptr", "arg"}) /\ Skip

Lines(op) == {i \in DOMAIN cmd.lines : cmd.lines[i].op = op}
FirstFour(lines) == LET a == SelectSeq(lines, LAMBDA o : o.op = "arg")
                    IN [i \in 1..(IF Len(a) < 4 THEN Len(a) ELSE 4) |-> a[i].val]
Args == FirstFour(cmd.lines)

\* After all options: the arguments, then the values of the pokes.
Arguments ==
  /\ pc = "options" /\ line > Len(cmd.lines)
  /\ IF \E i \in DOMAIN Args : ArgMeans(files, Args[i]) = {} THEN End(2)
     ELSE IF \E i \in Lines("poke") : Means(files, cmd.lines[i].val) = {} THEN End(2)
     ELSE /\ argv' = [i \in DOMAIN Args |-> The(ArgMeans(files, Args[i]))]
          /\ Goto("pokeptr") /\ line' = 1
          /\ Keep /\ UNCHANGED <<cell, prot, teb, files, host, calls, code>>

\* Each kind of write and read has its list; the lines of the other kinds are not in it.
PassOver(op, next) ==
  /\ pc = op
  /\ \/ line <= Len(cmd.lines) /\ Line.op # op /\ Skip
     \/ /\ line > Len(cmd.lines)
        /\ Goto(next) /\ line' = 1
        /\ Keep /\ UNCHANGED <<cell, prot, teb, prepared, calls, code>>
Stored(a, v) ==
  IF ~Writable(a) THEN Crash
  ELSE /\ Store(a, v) /\ line' = line + 1
       /\ Keep /\ UNCHANGED <<pc, prot, teb, files, argv, calls, code>>

\* --poke-ptr writes through what is at the address, before any --poke is done.
PokePtr ==
  \/ /\ AtLine("pokeptr", {"pokeptr"})
     /\ IF Means(files, Line.val) = {} THEN End(2)
        ELSE IF ~Readable(base + Line.rva) THEN Crash
        ELSE Stored(Value(base + Line.rva), The(Means(files, Line.val)))
  \/ PassOver("pokeptr", "poke")

Target(o) == IF o.to = "image" THEN base + o.rva ELSE Region(o.to)
Poke ==
  \/ AtLine("poke", {"poke"}) /\ Stored(Target(Line), The(Means(files, Line.val)))
  \/ PassOver("poke", "patch")

\* The page is made writable for the patch and readable and executable after it.
Patch ==
  \/ /\ AtLine("patch", {"patch"})
     /\ IF Line.rva \notin Rvas THEN Crash
        ELSE /\ cell' = [cell EXCEPT ![Line.rva] = Line.n]
             /\ prot' = [prot EXCEPT ![Page(Line.rva)] = {"r", "x"}]
             /\ line' = line + 1
             /\ Keep /\ UNCHANGED <<pc, teb, prepared, calls, code>>
  \/ PassOver("patch", "call")

\* PERUN_SEQ repeats the call in the process.
Call ==
  /\ pc = "call"
  /\ GuestRuns(/\ calls' = calls + 1
               /\ Goto(IF calls + 1 < cmd.repeat THEN "call" ELSE "peek"))
  /\ Keep /\ UNCHANGED <<prot, teb, line, files, argv, code>>

Peek ==
  \/ AtLine("peek", {"peek"}) /\ IF Readable(base + Line.rva) THEN Skip ELSE Crash
  \/ PassOver("peek", "peekptr")
PeekPtr ==
  \/ /\ AtLine("peekptr", {"peekptr"})
     /\ LET slot == base + Line.rva
        IN IF Readable(slot) /\ (Value(slot) = 0 \/ Readable(Value(slot))) THEN Skip ELSE Crash
  \/ PassOver("peekptr", "dump")

(***************************************************************************)
(* probe_read writes the memory to /dev/null, which looks at none of it:   *)
(* every address is told to be readable, and the dump reads what is not.   *)
(***************************************************************************)
ProbeRead(a) == TRUE
DumpArgs ==
  /\ pc = "dump"
  /\ IF \E i \in DOMAIN argv : argv[i] # 0 /\ ProbeRead(argv[i]) /\ ~Readable(argv[i])
     THEN Crash ELSE End(0)

-----------------------------------------------------------------------------
(* The script of `seq`, one line at a time, in one process. *)
Script ==
  \/ AtLine("script", {"load"}) /\ LoadFile(Line)
  \/ /\ AtLine("script", {"poke"})
     /\ IF Means(files, Line.val) = {} THEN End(2) ELSE Stored(Target(Line), The(Means(files, Line.val)))
  \/ AtLine("script", {"zero"}) /\ Stored(Region(Line.to), 0)
  \/ AtLine("script", {"dump"}) /\ Skip
  \/ AtLine("script", {"other"}) /\ End(2)
  \/ pc = "script" /\ line > Len(cmd.lines) /\ End(0)

ScriptCall ==
  /\ AtLine("script", {"call"})
  /\ IF ~Exported(Line.export) THEN End(1)
     ELSE IF \E i \in DOMAIN Line.args : Means(files, Line.args[i]) = {} THEN End(2)
     ELSE /\ argv' = [i \in DOMAIN Line.args |-> The(Means(files, Line.args[i]))]
          /\ GuestRuns(calls' = calls + 1 /\ line' = line + 1)
          /\ Keep /\ UNCHANGED <<pc, prot, teb, files, code>>

CommandNext ==
  \/ Help \/ Load \/ NotLoaded \/ SetTeb \/ NoEntry \/ DllMain \/ Find
  \/ Option \/ Arguments \/ PokePtr \/ Poke \/ Patch \/ Call \/ Peek \/ PeekPtr \/ DumpArgs
  \/ Script \/ ScriptCall

-----------------------------------------------------------------------------
CommandTypeOK ==
  /\ LoadTypeOK
  /\ pc \in {"load", "map", "copy", "relocate", "bind", "exports", "protect", "loaded", "failed", "aborted",
             "main", "find", "options", "pokeptr", "poke", "patch", "call", "peek", "peekptr", "dump",
             "script", "ended", "crashed"}
  /\ (code = -1) = (pc \notin {"ended", "crashed"})
  /\ DOMAIN host \subseteq {Scratch, Ctx} \union {Buffer[i] : i \in DOMAIN Buffer}
  /\ Len(files) <= Len(Buffer) /\ calls \in Nat

Guest == pc \in {"main", "call"} \/ (pc = "script" /\ line <= Len(cmd.lines))

(***************************************************************************)
(* When the export is called first, each target of a --poke holds the      *)
(* value of the last --poke to it, unless it was patched, and each         *)
(* argument is what its token means among all buffers of the line, wherever  *)
(* their --load stands: "a buffer name works as a value wherever its       *)
(* --load sits" (main.rs:247).                                             *)
(***************************************************************************)
TargetAt(i) == Target(cmd.lines[i])
LastPoke(i) == \A j \in Lines("poke") : j > i => TargetAt(j) # TargetAt(i)
Patched(a) == \E i \in Lines("patch") : a = base + cmd.lines[i].rva
Nth(i) == Cardinality({j \in Lines("load") : j <= i})
FirstLoad(x) == Buffer[Nth(First({i \in Lines("load") : cmd.lines[i].name = x}))]

PreparedAtCall ==
  pc = "call" /\ calls = 0 =>
    /\ \A i \in Lines("poke") : LastPoke(i) /\ ~Patched(TargetAt(i)) =>
         Value(TargetAt(i)) \in Means(files, cmd.lines[i].val)
    /\ \A i \in DOMAIN Args : Args[i].form = "name" => argv[i] = FirstLoad(Args[i].of)

(***************************************************************************)
(* Guest code runs in an image that is loaded, under a TEB that tells the  *)
(* base it has been given, unless --no-teb was asked; the export of an     *)
(* image whose DllMain refused is never called, nor is any when help was   *)
(* asked for; and no code runs in a page that is both written and executed *)
(* unless a section asks for it; and all that was poked is there.          *)
(***************************************************************************)
GuestReady ==
  /\ Guest => /\ base # 0 /\ ~cmd.help
              /\ teb = IF cmd.noTeb THEN 0 ELSE base
              /\ \A p \in DOMAIN prot : Reaching(p) # {} /\ {"w", "x"} \subseteq prot[p] =>
                   \E i \in Reaching(p) : {"w", "x"} \subseteq F.sections[i].prot
  /\ code = 3 => calls = 0
  /\ PreparedAtCall
=============================================================================
