---------------------------- MODULE SapSession ----------------------------
(***************************************************************************)
(* A SAP session: SapRuntime maps CoreFP and CommerceKit and the regions   *)
(* the guest expects, enters the guest on a stack of its own, sets the     *)
(* session up in two exchanges with the server, and signs. Signer is the   *)
(* store's, and a process may make one after the other; `perun sap` makes  *)
(* one and signs once.                                                     *)
(*                                                                         *)
(* The guest is external: a call may call any shim, as long as it lasts,   *)
(* and returns anything.                                                   *)
(***************************************************************************)
EXTENDS MachLoader, MachShims

CONSTANTS
  Dirs,           \* directories of assets: [core, kit, icxs, claims], "none" for a missing file
  CorefpBase, KitBase,
  CorefpExports,  \* the six names
  KitEntries,     \* init, exchange, sign, teardown, dispose
  Genuine,        \* name of an asset -> its pinned digest
  MaxSessions,    \* bound: sessions of a process
  MaxCalls,       \* bound: shims called in a process
  MaxSigns        \* bound: signatures a session tries

ASSUME SapAssumption ==
  /\ {CorefpBase, KitBase} \subseteq Bases /\ CorefpBase # KitBase
  /\ CorefpExports \cap (Handles \cup Silent) = {}
  /\ MaxSessions \in Nat

VARIABLES
  kind,      \* "sap", or "store"
  dir,       \* the directory it loads from
  found,     \* corefp_exports: CoreFP's exports, as they were read before it was loaded
  phase,     \* how far the session is
  regions,   \* the fixed regions that are mapped
  landing,   \* the return thunk and the landing pad are set
  callee,    \* the entry the guest is in
  pending,   \* the state its last exchange reported, Signature, or NoOutput
  context,   \* 0, or the session whose context it is
  bridge,    \* bridge pages used
  rounds,    \* the states the exchanges of this context reported
  signed,    \* signatures this session tried
  mac,       \* the machine address of the session
  calls,     \* shims called so far
  spoiled    \* a runtime could not be made

sapVars == <<kind, dir, found, phase, regions, landing, callee, pending, context, bridge, rounds, signed,
             mac, calls, spoiled>>
Process == <<kind, dir, mac, calls, found>>
Runtime == <<regions, landing, context, bridge>>
Protocol == <<pending, rounds, signed>>
Lower == <<machVars, shimVars, talkVars>>

Regions == {"scratch", "stack", "bridge", "return"}
NoOutput == -1
Signature == 9

SapInit ==
  /\ MachInit /\ ShimsInit
  /\ kind \in {"sap", "store"} /\ dir \in DOMAIN Dirs /\ mac \in Macs
  /\ kind = "store" => Dirs[dir].fetched
  /\ phase = "idle" /\ found = <<>> /\ regions = {} /\ landing = FALSE
  /\ callee = "none" /\ pending = NoOutput /\ context = 0 /\ bridge = 0
  /\ rounds = <<>> /\ signed = 0 /\ calls = 0 /\ spoiled = FALSE

Go(p) == phase' = p

-----------------------------------------------------------------------------
\* SapAssets::load_dir: all three files, and their pinned digests, whoever put them there.
Begin ==
  /\ phase = "idle" /\ session < MaxSessions
  /\ kind = "sap" => session = 0
  /\ Go(IF "none" \in {Dirs[dir].core, Dirs[dir].kit, Dirs[dir].icxs} THEN "over" ELSE "reset")
  /\ UNCHANGED <<Lower, Process, Runtime, callee, Protocol, spoiled>>

\* SapRuntime::new fails: what it loaded is dropped, the regions it mapped are not.
Rest == <<Process, Runtime, callee, Protocol>>
Dropped ==
  /\ Go("over") /\ spoiled' = TRUE
  /\ Unmapped({b \in Bases : space[b] = "owned"}) /\ load' = NoLoad
  /\ UNCHANGED <<staged, traps>>
NewFails == Dropped /\ UNCHANGED <<shimVars, talkVars, Rest>>

ResetAndServe ==
  /\ phase = "reset"
  /\ ResetShims
  /\ \/ icxs' = TRUE /\ Go("exports") /\ UNCHANGED spoiled
     \/ UNCHANGED icxs /\ Go("over") /\ spoiled' = TRUE
  /\ rounds' = <<>> /\ signed' = 0 /\ pending' = NoOutput /\ bridge' = 0
  /\ UNCHANGED <<machVars, Process, regions, landing, context, callee>>

\* CoreFP is read for its exports before it is loaded; their addresses follow from its base.
CoreInfo == ParsedReader(Dirs[dir].core)
CoreExports(info) == [n \in CorefpExports |-> SymbolIn(info, CorefpBase, n)]
Complete(info) == info.err = "none" /\ \A n \in CorefpExports : SymbolIn(info, CorefpBase, n) # 0
ExportsFound(info) ==
  /\ streamSymbol' = info.symbol
  /\ IF Complete(info)
     THEN /\ Go("core") /\ slots' = Slotted /\ found' = CoreExports(info)
          /\ UNCHANGED <<space, content, imageOf, load, staged, traps, tail, heap, blocks, icxs, cursor,
                         iterator, guestMac, exportsOf, ran, talkVars, kind, dir, mac, calls, Runtime,
                         callee, Protocol, spoiled>>
     ELSE NewFails
Exports == phase = "exports" /\ ExportsFound(CoreInfo)

\* Each with the digest that is claimed for the name.
LoadImage(from, to, f, base, name) ==
  /\ phase = from
  /\ BeginLoad(f, base, "file", Genuine[name], ShimTable(slots, found))
  /\ Go(to)
  /\ UNCHANGED <<shimVars, talkVars, Process, Runtime, callee, Protocol, spoiled>>
LoadCore == LoadImage("core", "loadCore", Dirs[dir].core, CorefpBase, "core")
LoadKit == LoadImage("kit", "loadKit", Dirs[dir].kit, KitBase, "kit")

Loading ==
  /\ phase \in {"loadCore", "loadKit"}
  /\ \/ LoadNext /\ UNCHANGED <<shimVars, talkVars, sapVars>>
     \/ load.step = "failed" /\ NewFails /\ UNCHANGED streamSymbol
     \/ /\ load.step = "loaded" /\ load' = NoLoad
        /\ Go(IF phase = "loadCore" THEN "kit" ELSE "find")
        /\ UNCHANGED <<streamSymbol, space, content, imageOf, staged, traps, shimVars, talkVars, Process,
                       Runtime, callee, Protocol, spoiled>>

\* set_dlsym_table, and CommerceKit's entries, of which none may be missing.
FindEntries ==
  /\ phase = "find"
  /\ exportsOf' = found
  /\ IF \A n \in KitEntries : SymbolIn(imageOf[KitBase].info, KitBase, n) # 0
     THEN Go("scratch") /\ UNCHANGED <<space, content, imageOf, load, staged, traps, spoiled>>
     ELSE Dropped
  /\ UNCHANGED <<streamSymbol, tail, heap, blocks, icxs, cursor, iterator, guestMac, slots, ran, talkVars, Rest>>

\* Each where it must be; the return page is the last and holds the thunk.
AfterRegion(r) == CASE r = "scratch" -> "stack" [] r = "stack" -> "bridge" [] r = "bridge" -> "return" [] r = "return" -> "made"
MapRegion ==
  /\ phase \in Regions
  /\ \/ NewFails /\ UNCHANGED streamSymbol
     \/ /\ phase \notin regions
        /\ regions' = regions \cup {phase}
        /\ landing' = (landing \/ phase = "return")
        /\ Go(AfterRegion(phase))
        /\ UNCHANGED <<Lower, Process, context, bridge, callee, Protocol, spoiled>>

-----------------------------------------------------------------------------
\* A guest call, with the bridge pages of its arguments.
Enter(fn, pages) ==
  /\ Go("guest") /\ callee' = fn /\ bridge' = bridge + pages

\* The machine address is published before the call that uses it.
SapInitCall ==
  /\ phase = "made"
  /\ Enter("init", 2) /\ guestMac' = mac
  /\ UNCHANGED <<machVars, tail, heap, blocks, icxs, cursor, iterator, exportsOf, slots, ran, talkVars, Process,
                 regions, landing, context, Protocol, spoiled>>

Ends == Go("ending") /\ callee' = "none"
RestOfReturn == UNCHANGED <<Lower, Process, regions, landing, bridge, signed, spoiled>>

InitReturns ==
  /\ phase = "guest" /\ callee = "init"
  /\ \/ Ends /\ UNCHANGED context                    \* an error, or a null context
     \/ Go("cert") /\ callee' = "none" /\ context' = session
  /\ RestOfReturn /\ UNCHANGED <<pending, rounds>>

(***************************************************************************)
(* The certificate, prefetched by `perun sap`, and the reply to the first  *)
(* request: a status other than 200, no buffer, or a short certificate end *)
(* the session; an input longer than a page is refused by exchange.        *)
(***************************************************************************)
Served == {"good", "short", "long", "none"}
Usable(p, input) == input = "good" \/ (p = "post" /\ input = "short")
Exchange ==
  /\ phase \in {"cert", "post"}
  /\ \E input \in Served :
       IF Usable(phase, input)
       THEN Enter("exchange", 5) /\ UNCHANGED <<context, regions, landing>>
       ELSE Ends /\ UNCHANGED <<bridge, context, regions, landing>>
  /\ UNCHANGED <<Lower, Process, Protocol, spoiled>>

\* The output is read before it is disposed of; a bad block ends the call without that.
EntryReturns ==
  /\ phase = "guest" /\ callee \in {"exchange", "sign"}
  /\ \/ /\ callee = "exchange" \/ kind = "sap"
        /\ Ends /\ UNCHANGED pending
     \/ /\ \E out \in IF callee = "exchange" THEN {0, 1, 2} ELSE {Signature} : pending' = out
        /\ callee' = "dispose" /\ UNCHANGED phase
  /\ RestOfReturn /\ UNCHANGED <<context, rounds>>

\* The first exchange must leave state 1, the second 0.
\* A mutant of Accepted: the state of the second is not looked at.
AcceptedOnce(n, state) == n = 1 => state = 1
Accepted(n, state) == state = <<1, 0>>[n]
AfterExchange(state) ==
  LET n == Len(rounds) + 1
  IN  /\ rounds' = Append(rounds, state)
      /\ Go(IF ~Accepted(n, state) THEN "ending" ELSE IF n = 1 THEN "post" ELSE "ready")

DisposeReturns ==
  /\ phase = "guest" /\ callee = "dispose" /\ callee' = "none"
  /\ \/ /\ Go(IF pending = Signature /\ kind = "store" THEN "ready" ELSE "ending")
        /\ UNCHANGED rounds
     \/ IF pending = Signature
        THEN Go(IF kind = "sap" THEN "ending" ELSE "ready") /\ UNCHANGED rounds
        ELSE AfterExchange(pending)
  /\ pending' = NoOutput
  /\ UNCHANGED <<Lower, Process, Runtime, signed, spoiled>>

\* An input longer than a page is refused, which the store's session survives.
Sign ==
  /\ phase = "ready" /\ signed < MaxSigns /\ context # 0
  /\ \/ Enter("sign", 3)
     \/ kind = "sap" /\ Ends /\ UNCHANGED bridge
  /\ signed' = signed + 1
  /\ UNCHANGED <<Lower, Process, regions, landing, context, pending, rounds, spoiled>>

Finish ==
  /\ phase = "ready" /\ kind = "store"
  /\ Ends /\ UNCHANGED <<Lower, Process, Runtime, Protocol, spoiled>>

\* A sign that returns an error leaves the store's session as it was.
SignFails ==
  /\ phase = "guest" /\ callee = "sign" /\ kind = "store"
  /\ Go("ready") /\ callee' = "none"
  /\ UNCHANGED <<Lower, Process, Runtime, Protocol, spoiled>>

-----------------------------------------------------------------------------
\* Drop for SapRuntime: the context is torn down in the guest, whatever that returns; then the regions
\* go, then the images.
\* A mutant of RuntimeRegions: the return page stays.
RegionsKeptOne == Regions \ {"return"}
RuntimeRegions == Regions

Teardown ==
  /\ phase = "ending" /\ context # 0
  /\ Go("guest") /\ callee' = "teardown"
  /\ UNCHANGED <<Lower, Process, Runtime, Protocol, spoiled>>

TeardownReturns ==
  /\ phase = "guest" /\ callee = "teardown"
  /\ Ends /\ context' = 0
  /\ UNCHANGED <<Lower, Process, regions, landing, bridge, Protocol, spoiled>>

DropRuntime ==
  /\ phase = "ending" /\ context = 0
  /\ regions' = regions \ RuntimeRegions
  /\ Unmapped({CorefpBase, KitBase})
  /\ Go("over")
  /\ UNCHANGED <<streamSymbol, load, staged, traps, shimVars, talkVars, Process, landing, context, bridge, callee,
                 Protocol, spoiled>>

\* The store's next command that needs one: a session of its own, for the address the machine has then.
Again ==
  /\ phase = "over" /\ kind = "store" /\ session < MaxSessions
  /\ Go("idle") /\ mac' \in Macs
  /\ UNCHANGED <<Lower, kind, dir, calls, found, Runtime, callee, Protocol, spoiled>>

\* While it is in the guest, the guest calls shims.
ShimCalled ==
  /\ phase = "guest" /\ calls < MaxCalls
  /\ calls' = calls + 1
  /\ GuestCalls
  /\ UNCHANGED <<machVars, kind, dir, found, phase, Runtime, callee, Protocol, mac, spoiled>>

SapNext == \/ Begin \/ ResetAndServe \/ Exports \/ LoadCore \/ LoadKit \/ Loading \/ FindEntries
           \/ MapRegion \/ SapInitCall \/ InitReturns \/ Exchange \/ EntryReturns
           \/ DisposeReturns \/ Sign \/ SignFails \/ Finish
           \/ Teardown \/ TeardownReturns \/ DropRuntime \/ Again \/ ShimCalled
=============================================================================
