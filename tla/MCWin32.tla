------------------------------ MODULE MCWin32 ------------------------------
(* Two host objects, two descriptors beside the standard streams, two files  *)
(* and bitmaps of two bits that are searched to four; images of three pages  *)
(* of two cells, and command lines that use every option.                    *)
EXTENDS Win32, TLC

CONSTANTS h1, h2, doc, log

MCFds == 0..4
MCMatching == {log}

\* Which address the allocator gives does not matter.
Alike == Permutations({h1, h2})

-----------------------------------------------------------------------------
RX == {"r", "x"}
RW == {"r", "w"}
Section(va, vsize, raw, inFile, p) == [va |-> va, vsize |-> vsize, raw |-> raw, inFile |-> inFile, prot |-> p]
Code == Section(2, 2, <<31, 104>>, TRUE, RX)
Data == Section(4, 2, <<32>>, TRUE, RW)
Kernel(iat) == [dll |-> "kernel", thunks |-> <<"Known", "Unknown">>, iat |-> iat]
Other == [dll |-> "other", thunks |-> <<"#">>, iat |-> 3]

Dll == [ok |-> TRUE, base |-> 100, size |-> 6, entry |-> 2, sections |-> <<Code, Data>>,
        relocs |-> <<[at |-> 3, type |-> "dir64"], [at |-> 2, type |-> "pad"]>>,
        imports |-> <<Kernel(0)>>, exports |-> [f |-> 2, g |-> Forwarded], exportsInside |-> TRUE,
        relocsInside |-> TRUE]

\* Its imports lie in a section, one by its ordinal; its data is not in the file, a section is empty.
Library == [Dll EXCEPT !.sections = <<Code, Section(4, 2, <<33, 34>>, FALSE, RW), Section(4, 0, <<>>, TRUE, RX)>>,
                       !.relocs = <<[at |-> 2, type |-> "highlow"]>>,
                       !.imports = <<Other, Kernel(4)>>]

MCFile ==
  [dll |-> Dll, library |-> Library,
   noEntry |-> [Dll EXCEPT !.entry = 0], bad |-> [Dll EXCEPT !.ok = FALSE],
   badImports |-> [Dll EXCEPT !.imports = <<Kernel(5)>>],
   greedy |-> [Dll EXCEPT !.imports = <<Other, Other, Other>>],
   badExports |-> [Dll EXCEPT !.exportsInside = FALSE], badRelocs |-> [Dll EXCEPT !.relocsInside = FALSE],
   overrun |-> [Dll EXCEPT !.sections = <<Code, Data, Section(8, 2, <<35>>, TRUE, RW)>>]]
MCImages == DOMAIN MCFile

MCShim == [Known |-> 800]

-----------------------------------------------------------------------------
Tok(form, of, n) == [form |-> form, of |-> of, n |-> n]
Num(n) == Tok("num", "", n)
Name(x) == Tok("name", x, 0)
Op(o) == [op |-> o, name |-> "spim", file |-> "there", to |-> "image", rva |-> 4, val |-> Num(4), n |-> 9,
          export |-> "f", args |-> <<Name("spim"), Tok("region", "scratch", 0), Tok("offset", "ctx", 0)>>]
Load1(x, f) == [Op("load") EXCEPT !.name = x, !.file = f]
PokeTo(o, to, rva, v) == [Op(o) EXCEPT !.to = to, !.rva = rva, !.val = v]
Arg(t) == [Op("arg") EXCEPT !.val = t]
Cmd(verb, export, lines) ==
  [verb |-> verb, help |-> FALSE, noTeb |-> FALSE, export |-> export, lines |-> lines, repeat |-> 2]

MCCommands ==
  { [Cmd("run", "f", <<>>) EXCEPT !.help = TRUE], Cmd("run", "f", <<>>),
    [Cmd("run", "f", <<>>) EXCEPT !.noTeb = TRUE],
    Cmd("call", "g", <<>>), Cmd("call", "none", <<>>),
    Cmd("call", "f", <<Arg(Name("spim")), Load1("spim", "there"), Load1("spim", "there"),
                       PokeTo("poke", "image", 4, Name("spim")), PokeTo("poke", "scratch", 0, Num(1)),
                       PokeTo("poke", "image", 4, Tok("offset", "ctx", 0)),
                       Op("peek"), Op("peekptr")>>),
    Cmd("call", "f", <<PokeTo("pokeptr", "image", 4, Num(6)), Op("patch"), PokeTo("poke", "ctx", 0, Num(1)),
                       [Op("patch") EXCEPT !.rva = 9]>>),
    Cmd("call", "f", <<Op("patch"), Arg(Num(5)), Arg(Num(0))>>),
    Cmd("call", "f", <<PokeTo("poke", "image", 2, Num(1))>>),
    Cmd("call", "f", <<PokeTo("pokeptr", "image", 4, Tok("region", "ctx", 0)), PokeTo("pokeptr", "image", 4, Name("x"))>>),
    Cmd("call", "f", <<Load1("spim", "lost")>>),
    Cmd("call", "f", <<Arg(Tok("offset", "ctx", 0))>>), Cmd("call", "f", <<PokeTo("poke", "ctx", 0, Name("x"))>>),
    Cmd("seq", "f", <<Load1("spim", "there"), PokeTo("poke", "scratch", 0, Name("spim")), Op("call"),
                      PokeTo("zero", "scratch", 0, Num(0)), Op("dump")>>),
    Cmd("seq", "f", <<Op("call")>>), Cmd("seq", "f", <<[Op("call") EXCEPT !.export = "g"]>>),
    Cmd("seq", "f", <<PokeTo("poke", "image", 2, Num(1))>>), Cmd("seq", "f", <<PokeTo("poke", "ctx", 0, Name("x"))>>),
    Cmd("seq", "f", <<Op("other")>>) }

MCBuffer == <<400, 401>>
=============================================================================
