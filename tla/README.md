# A TLA+ model of perun

perun runs Apple's own store code (a Mach-O image) and Windows or Android guests on Linux,
and on top of that gives an `ipatool`-style command line: sign in with an Apple ID, search,
purchase, download. This directory holds TLA+ specifications of the parts of perun in which
order matters, the TLC configurations that check them on small instances, and proofs, checked
by TLAPS, for every value of the constants.

    tlc -workers 2 -config DownloadShared.cfg MCDownload      # one run
    tlapm DownloadProofs.tla                                  # one proof module

`PROJECT.json` maps every definition to the source lines it stands for and lists the runs,
the mutations that each property is known to catch, the hazards, the findings and the theorems.

## 1. The system

| component | state it keeps | operations | what makes it correct |
|---|---|---|---|
| **Download** (`store/appstore.rs` `download`, `store/http.rs` `send`) | `<dst>.tmp`, the size read from it once | range request, status and Content-Range gate, append or truncate, set aside, clean up | no resume shifts content; nothing that was downloaded is lost; re-running always gets there |
| **Packages** (`store/ipa.rs`) | `<dst>.partial`, `<dst>`; the records of a ZIP archive; the decoder's tables | find the directory, decode the property lists, copy the entries, add the licence, rename; read a version from a server in four ranges | the destination is whole or absent; what is rebuilt holds every entry, for any reader of the format |
| **Login** (`appstore::login`, `cmd_auth_login`) | the attempt and re-send counters, the code, the redirect URL, the cookies | attempt, re-send, throttle, follow a pod, classify, prompt, save | a verdict ends the login; it never costs a second code; it ends; it can be repeated |
| **Purchase and download info** (`appstore.rs`, `cmd_purchase`, `cmd_download`) | one flag per remedy: relogged in, bought | legacy, redownload and updateProduct endpoints, two pricings, silent relogin | bounded rounds; success means a licence |
| **Account files** (`store/account.rs`) | the encrypted vault, the storefront sidecar | save, load, hint with migration, revoke, reset | the vault opens; the remembered password stays; the sidecar agrees with the vault |
| **Machine address** (`store/mod.rs`) | the pin file, `PERUN_MAC`, the hardware | resolve, pin | a change of the hardware does not lock the vault |
| **Requests and cookies** (`store/http.rs`, `store/cookie_jar.rs`) | the jar in memory, `cookies.txt` and its temporary | dispatch hop by hop, join a location, match, set, expire, save, load | a cookie goes where its scope allows and nowhere else; a session survives the process |
| **Payload fetcher** (`fetcher.rs`) | the asset cache, the `.part` files, the certificate | check, walk, extract, seal, rename | nothing half extracted is mapped; the cache heals |
| **Signer** (`store/signer.rs`, `sap.rs`, `guest_stack.rs`) | the guest runtime, its regions, its context and bridge pages | load, init, exchange, sign, tear down | the guest is entered whole, in the order of the protocol; a session leaves nothing behind |
| **Mach-O guest** (`macho.rs`, `macho_loader.rs`, `mach.rs`) | mapped images, stub pages, the staged fixups of a thread; the heap, the iterator, the tables of the shims | parse, map, rebase, bind, quiet the counter reads; allocate, read, iterate | an image is what its linker meant; blocks are disjoint; every session starts alike |
| **Windows guest** (`loader.rs`, `image.rs`, `stub.rs`, `teb.rs`, `perun-shims`, `main.rs`) | the image, the stub pool, the TEB; live handles, descriptors, events, mutexes, TLS and FLS slots, regions | load, bind, protect, prepare, call; one per Win32 call | what the guest is given is its own, once, until it gives it back; the image is what its linker meant |
| **ADI lane** (`perun-adi-bionic`) | a child process and its deadline | patch, start, wait | the child is reaped, in time |

How they meet. A command of the CLI resolves the machine address, opens the vault with it,
loads the cookie jar, makes requests (each of which saves the jar), and for a download asks
for the info of the package, streams the body and replicates it. A login needs a signature:
the signer asks the fetcher for the assets, maps them and lets the guest sign. There is no
daemon and no lock file: several perun processes meet in the state directory, in the asset
cache and at the destination of a download, and Apple is one more actor, which may shed, throttle,
redirect, cut or lose a request, or expire a session between any two of them.

The Windows guest is a lane of its own, which `run`, `call` and `seq` use; it shares no state with the store.

What is hard: a kill between any two writes; a second process between a read and the write
that depends on it; an answer that is lost after it was acted upon; retries of several kinds
with a counter each; files that outlive the run that wrote them and have to be usable by the
next; sessions that follow each other at the same addresses of one process; handles, descriptors and
slots that are given out again after they were given back; formats whose fields are at their limit. The guest runs in one thread (no shim starts another), so interleavings are
those of processes, not of guest threads. The `hazards` of `PROJECT.json` list all of this line by line.

## 2. What is modelled

### Download.tla, PackageStore.tla (download, http, ipa)

A file is a sequence of blocks; a block knows the package and the offset it comes from, or is
`Junk` (text of an error page). The last block of a package holds its directory; `Headers` are
the blocks with a local header. `tmp`, `partial`, `dst` and `pre` (the copy set aside) are the
four files of each destination, `pc` and `job` the command that runs, `local` the size that
was read when it started, `resp` what Apple answers.

`Start` opens the `.tmp` and reads its size; `AnswerGood` and `AnswerBad` are the answers to the
request for the rest, and `Respond` passes them through the gate of `check_range_response` (only when a range
was asked for, as in `send`) and empties the file before a whole body; `Stream` writes one block, `Cut` breaks
the connection; `ReplicateOpen` looks for the directory in the last `Window` blocks, as the
backward search for the end record does (`EocdPositions`), and goes on or sets the file aside; `ReplicateCopy` writes
the `.partial`, `Torn` until it is complete; `ReplicateFail` is every failure on the way (`SetAside`);
`Publish` renames; `Cleanup` removes the rest. `Crash` may come between any two, and the files survive it.

`PackageStore` is what a user is promised: a destination has nothing or the package that was
asked for, and changes in one step; a command may end at any time. `Download` implements it when a destination belongs to
one package (`ImplementsStore`).

### Login.tla, SignIn.tla (appstore::login, cmd_auth_login)

The Apple side is `password` (what kind of account it is) and `current` (the code pushed last).
The command side is `attempt`, `resend`, `code`, `res` (the last answer), `jar` and `vault`. `Run`,
`Prepare`, `Attempt`, `Send` (with every outcome: shed by the edge before or after MZFinance has
seen it, throttled, redirected to a pod, lost, a plist under one of `VerdictStatuses`), `Judge`
(`login_retry_action`), `Route` and `Parse` (`classify_auth_failure`), `Type` and `Quit` (the prompt),
`Save`; `Kill` at any moment. Names follow the Rust. `SignIn` is the promise: a command tries until it holds a verdict of Apple, which is
the last word of that try. After a refusal it may only ask for a code or end, after the acceptance only save
or end. `Phase` reads the phase off the answer in hand, so that a re-send, a new attempt, a prompt or a failure classified
from the wrong place is a step that `SignIn` does not have.

### StoreSession.tla (account, pin, cookies, the loops of purchase and download)

`Procs` share `pin`, `vault`, `sidecar` and `cookies`; each process has its place `pc`, its `job` (command,
flags, rounds), the account it holds in memory and its jar. Apple has `licensed` and `epoch`:
a session is good while its epoch is the current one. A vault is the account plus the address
that keyed it (and whether `PERUN_MAC` gave it, `over`), and opens under this address only; a cookie jar is the session it
carries. One action per step between two places where another process, Apple or a
kill can come in. `primary_mac` is two of them: `Look` asks the hardware when neither `PERUN_MAC` nor the pin answers, `PinMac` writes what
was found, and what comes of that write the process does not ask; `account::save` is `Seal` (the address and the encryption), `SaveVault`
and `SaveSidecar`; `account::load` is `ReadVault` and, once the address is known, `Open`. Then there are `Reset`, `SignedIn`, `Resolve`,
`Legacy`, `Redownload`, `Update`, `Fetch`, `Bought`, `Relogged`, and so on. A `Fault`, of which there are `MaxFaults`, is a write that
fails, and may leave an empty file (`VaultFails`, `SidecarFails`, `BackfillFails`, `PinMac` with another outcome), or a `Kill`.
`Expire` and `Replug` are the world. A bare 500 (a readable reply that names no failure) may come for any account, whether it owns the app or not: the code
takes it for "already owned", and `assumed` records that. A refused relogin leaves the jar it sent or one that
is spoilt (`Refused`); `relogin_if_possible` does not call `reset_session`, which only `cmd_auth_login` does.

### AssetCache.tla (ensure_cache)

`cached[a]` and `part[a]` are the blocks of an asset that are right; holes and garbage are simply
missing. An open file is followed by the name it has now (`open`), because `rename` and
`unlink` leave it open: a process can be writing to a file that another has renamed into the cache.
`sum` says whether the digest of the stream is right so far; it is the stream that is hashed,
and not the file. `solo` is a history variable: no other process has fetched since this one started.

### Win32.tla: Handles, GuestSync, GuestFiles, GuestSlots, GuestMemory, PeLoader, PeCommand

The shims see one guest thread, which may call anything in any order with handles that are live, freed, given out again
or never were; an action is a call. `Handles` has the host objects (`object`, the live set of `util.rs`, by address), the descriptors
of the host (`desc`) and the last error; it is shared by `GuestSync` (events that reset
themselves or by hand, mutexes that recurse, critical sections, every wait: a wait without a limit for
what nobody else can signal parks the guest) and by `GuestFiles` (open modes and positions,
`SetEndOfFile`, standard handles, directory searches that read the host's directory as it changes: an entry made or removed after
`opendir` may be given or not, all others are given once). `GuestSlots` has both bitmaps with the width
of the shift, and a guest that frees any index, `GuestMemory` the host's pages under `VirtualAlloc`, `VirtualFree` (which knows no size)
and `VirtualProtect`. `PeLoader` is `Image::load` step by step: headers, sections, relocations, imports and stubs, the
protection of each page, with every refusal. `PeCommand` puts `run`, `call` and `seq` around it: the TEB, `DllMain`, the loads, pokes and patches
of a command line or a script, the call, the dumps; a write that the memory does not allow ends in the crash handler.

`Win32` composes them. `focus` picks which of sync, files, slots, memory or image a behaviour is about:
slots, memory and images have no variable in common with the others, so that a behaviour of all is an
interleaving of independent ones and violates an invariant of one only if that one does. Synchronisation and files share the live set, and each is run
with its own kinds of object; a behaviour with events and files under the same addresses is not among them, but an address that
returns as an object of another kind is (an event and a mutex; a file and a search).

### Sap.tla: MachO, MachLoader, MachShims, SapSession

`MachO` reads a file: the slice, the commands, the opcode streams (`Decode` emits a fixup per opcode,
with the offset, symbol and addend the stream left) and the symbols, as both readers do it, the one over the whole file
and the one that seeks. `MachLoader` loads at a fixed base: `load_file` streams into the mapping and patches there,
`load_parsed` patches a copy first and stages what it cannot write yet in a list of the thread; an error after the mapping leaks it. `MachShims` is
libSystem to the guest: a bump allocator over an arena at one address for the life of the process, the ICXS file behind one
descriptor, an iterator, once-routines, `dlsym`, and `reset_shim_state`. `SapSession` is `SapRuntime` from the assets to its drop, and its two users, the store's
signer and `perun sap`; while the guest has the thread (`phase = "guest"`) it may call any shim and return anything: its code is
not in the repository. `Sap` is all of this for several sessions of a process, and, as a second `focus`, the loader under any file, base, way of loading and claimed digest.
An owned image records how it was loaded (`by`): what digest was claimed, whether the thread's list held the fixups of a failed load (`mixed`), and what the reader made of the file.
What a linker guarantees of a file is `LinkAssumption` there, over the infos that either reader can get from it.

### StoreLane.tla: Sieve, CookieJar, Requests, Deflate, Inflate, Archive, Replicate

`CookieJar` has Set-Cookie with its attributes, matching, and the Netscape file in both directions; hosts and paths are
sequences of labels and segments. `Requests` is `send`: processes one after the other load the jar, ask hop by
hop, store the cookies of each answer, and write the file through its temporary name after the answer and after
the body; a save may fail, a kill may come anywhere, time passes. `Deflate` is the compressed format: its tables and numbers,
which the decoder shares, and the items that a packer writes (a block header, a run of code lengths, a literal, a match); `Inflate` is the decoder as a machine over bits. `Archive` has the records of the
format as blocks with their lengths, so that an offset is a sum, with ZIP64 and the alignment; `Replicate` reads an archive from
its end, copies the entries, adds the metadata and the receipts and writes the directory, one action per entry, and is also
`fetch_info_plist`, which reads from a server. `StoreLane` puts the three side by side in the same way as `Win32`: where one
hands to the other (a decoded manifest, a downloaded package), what it hands over is an input. `Sieve` is the loop that all of
them have: what of a sequence is kept.

Every `MC` module gives the constants of its runs.

## 3. The runs

| run | instance | shows |
|---|---|---|
| `download_shared` | two versions into one file, windows of 2 blocks, error pages of 1 | `PublishedWhole`, `InPlace`, `WholeNeverAppended`, `PartialKept` |
| `download_own` | one version, error pages up to 3 blocks, bodiless 416 | `PublishedPure`, `Recovers`, `ImplementsStore` |
| `download_wedge` | a 416 with a body | **violates** `Recovers`: finding 1 |
| `login` | two codes, users and scripts, requests shed early and late | `VerdictFinal`, `ImplementsSignIn`, `Ends`, `LoggedIn` |
| `session_shared` | two processes of two users, one under `PERUN_MAC`, two addresses, a failing write or a kill | `LicensedWhenReported`, `VaultOpens`, `PasswordKept` |
| `session_serves` | one process that searches, lists and downloads, two faults, two expiries | `ThreeRounds`, `KeepsServing` |
| `session_override` | one user who logs in with and without `PERUN_MAC` | **violates** `EnvNeverRekeys`: finding 3 |
| `assets_shared` | two processes, two assets | `LoadedWhole`, `Heals` |
| `win32` | nine images under eighteen command lines; any calls on two addresses | `DescriptorsOwned`, `OneWakePerSignal`, `SearchMissesNothing`, `HeldOnce`, `RegionsKept`, `LoadedAsLinked`, `GuestReady` |
| `sap` | two sessions over six directories and two machine addresses, three shim calls; two loads of twenty-one files under any claimed digest | `MachLoadedAsLinked`, `BlocksApart`, `SessionStartsAlike`, `GuestEntersWhole`, `SessionLeavesNothing` |
| `store_lane` | two requests, fifteen streams, seventeen packages | `ScopeKept`, `SessionSurvives`, `InflatesBack`, `RebuiltHolds` |
| `remote_info` | the same, and a server that answers ranges | **violates** `VersionRead`: finding 2 |

The last four check definitions that are written from the promise and not from the steps: `LoadedAsLinked` and `MachLoadedAsLinked` compare the
memory with what the file's linker meant, `InflatesBack` with what was packed, `RebuiltHolds` with the
entries that the package was made of, read back by the format's rules, and `ScopeKept` with the domain and path
that the server set.

Every composition has one `TypeOK`, checked by the first of its runs; `StoreLane` has none, since `InflatesBack` and `RebuiltHolds` say more of its data.

### Bounds

* Download: packages of 2 and 4 blocks. Four blocks are enough for a partial with a header in
  the middle, one that ends inside an entry and one that is complete; the longer version continues a
  partial of the shorter. `Window` (2) stands for the 64 KiB the end record is searched in. `MaxErrorBody` is kept below
  the size of the package in `download_own`: an error page as long as the package makes a partial that
  the gate refuses for ever, exactly as finding 1 does. `Body416 = 0` there is the assumption under
  which `Recovers` holds; finding 1 drops it.
* Login: two codes are enough for a stale one and a fresh one. `VerdictStatuses` is
  {200, 403}; with 204, 404 or 500 `VerdictFinal` fails (see below). A shed request may have been processed or
  not: the comment "before they reach MZFinance" is not relied upon. Apple may so accept a command twice; what the command
  knows of, it accepts once.
* StoreSession: two processes, since every race is between one that has read and one that
  writes; two addresses; `MaxEpoch` expiries of the session (one with two processes, two with one); `MaxFaults` failed writes and
  kills (one and two): after a fault the process is through with the file, or gone, and the next fault meets what it left behind.
  `rounds` is counted up to 4, one more than `ThreeRounds` allows. `Commands` says what each user runs. `session_shared` starts from a directory without files;
  one process logs alice in, remembering her password, and revokes, the other logs bob in under `PERUN_MAC` and
  purchases with whatever account it finds, so that an account is replaced, and a session taken over, between any two steps of a purchase. Both accounts
  have one storefront there; the downloads, which write what a purchase writes, and the searches and listings, which write no account, are left to
  `session_serves` and the proofs. `session_serves` has one account with a storefront other than the fallback; `Undisturbed` asks that the user does not
  only search for ever. `KeepsServing` starts from cookies that Apple has never refused: a refusal spoils the session that stands
  in for the second factor, and the user has to sign in again.
* Win32: two handle addresses make the reuse of one possible while the other is live; two signals tell one
  wake from two. The bitmap has 2 bits and is searched up to 4, as 32 and 64 in the code (`SlotsOnce` is
  proved for every width). Addresses of `GuestMemory` count half pages, which is all the rounding
  to a page can tell apart; `MaxPage` is 3. An image page has two cells, so that a section can end inside one. `MaxStubs = 2` lets the stub pool run full.
  Symmetry is over the handle addresses, of which the allocator gives out any.
* Sap: two sessions, since each hazard is one of a session and the next; an arena of seven units (`BlocksApart` is
  proved for every size) with sizes of none and two units; pages of four cells; the files of the loader's focus have each kind of
  fixup, segment and defect, and each way to go with a table that is not theirs. `ScanReach` (2 cells) stands for the 12 bytes that must be left of a section for the scan to look; two addresses tell one session's from the next's.
* StoreLane: chains of `MaxHops = 2` redirects over three hosts, one a suffix of another, and two schemes; `MaxTime = 3` lets a cookie
  expire between two of the `MaxSends = 2` requests. The field limits of ZIP are constants: four bytes hold less than `Sub` (4000), two bytes less
  than `Sub16` (9), a page is `Align` (64), the window of the tail `TailWindow` (600); the packages lie on either side of each. Streams
  have stored, fixed and dynamic blocks, one of each after another, and each defect.
* AssetCache: an asset of two blocks, so that one can be half extracted, and a second one after it.

### Fairness

Weak fairness of a process's own steps (`Work`, and in Download each of its actions): a command that has been started goes on, a
request is answered or fails (the HTTP client has time-outs), and users come back; in Download, where
several targets compete for the one process, strong fairness of `Start` says that each is asked for again. Crashes, kills, expiries and
bad answers are never fair. Liveness is therefore stated conditionally: *if* from some moment on only
undisturbed steps are taken, *then* the system gets there from whatever the faults before
have left (`Recovers`, `LoggedIn`, `KeepsServing`, `Heals`). `Ends` excludes the two loops that the
code does not count: pods that redirect for ever and a user who types codes for ever. `Heals` also asks that
fetches no longer overlap: TLC shows that two that run in lock-step can spoil each other's files for ever.

## 4. Findings

1. **A matching 416 with a body wedges the download** (`http.rs:475`, `download_wedge`). The gate
   takes the 416 for "already complete", and `send` goes on to append its body. If the process dies before
   replication, the size no longer matches any total and every later run is refused until the `.tmp` is
   deleted; the README promises that the next run continues.
2. **The version of a package larger than the window is never read** (`ipa.rs:1449`, `remote_info`). `fetch_info_plist` looks for the
   end record in the last 66 000 bytes as if they were the whole file, so that the absolute offset of the directory
   is compared with a place inside the window and the record is refused; `replicate_to` passes the window's offset.

3. **A run under `PERUN_MAC` re-keys the vault** (`account.rs:226`, `session_override`). `save` encrypts under the address of the run and writes the
   vault, although the pin names another; the next run without the variable cannot open it. `README.md:213` says that the variable "takes
   priority over the pin file and never rewrites it, so exporting it cannot re-key the account store", and `mod.rs:107` the same.

Without a run of their own, and seen while modelling:

*Store.*
* An error page on a first download is written to the `.tmp` (`http.rs:474`), whereas
  `appstore.rs:1045` says that the answer is validated before the first byte reaches the file.
* Until an address is pinned nothing ties the vault to one: if the write of the pin fails (`mod.rs:196` drops the error), each run
  asks the hardware again, and a vault saved under one answer does not open under the next. `VaultOpens` asks that the looks at the hardware without a pin agree (`Agreed`).
* A 500 with a readable reply that names no failure is taken for "already owned" whoever sends it (`appstore.rs:761`), and `purchase` reports success.
* A half-extracted asset can get the asset's name (`fetcher.rs:547` against the comment at 542) when two
  processes fetch at once: the digest is that of the stream, the rename goes by name, and both use one name.
  `NeverHalf` states this; TLC refutes it for two processes and it is proved for one.
* `VerdictFinal` fails for a plist under status 204, 404 or 500 and above: `appstore.rs:430` looks at
  the status only and starts attempt 2, against the comments at lines 260 and 295. `VerdictKept` proves the property for all
  other statuses.
* When the sidecar cannot be written, `account.rs:203` opens the vault, learns
  the storefront, and answers 143441 all the same; the comment at line 216 wants to avoid just that.
* A first attempt that is shed turns the -5000 of the second into a plain failure instead of a prompt,
  because the prompt is tied to attempt 1.
* Cookies: a host-only cookie also goes to subdomains (`cookie_jar.rs:41`, 59 against 64); a jar
  whose last cookie was deleted is not written, so that the next process has it again (329); the cookies of the last
  hop are stored under the first host (`http.rs:452`).
* Requests: a location `//host/x` is taken for a path; PUT is sent as POST and DELETE as GET, and a PUT without a body is
  refused, although the message at `http.rs:357` lists them.
* Ranges: `http_range` (`ipa.rs:1541`) sends the range without `bytes=`, unlike `curl -r`, which the comment names; a server
  that follows the RFC then sends the whole file.
* Packages: the ZIP64 sizes of a single entry are not resolved; names are decoded lossily for the directory and copied raw in the local headers.
* Documentation: `account.rs:102` uses 10 000 rounds where the README says 100 000;
  `ipa.rs:861` and `appstore.rs:1105` describe a package without a bundle as copied, `ipa.rs:926` rejects it;
  `fetcher.rs:450` says "download what is missing", and the code extracts everything again;
  `fetcher.rs:29` speaks of curl, and the code uses `http::raw_request`.

*Mach-O guest.*
* `macho_loader.rs:319` says that a wrong claim of the digest "is not a silent-corruption risk", since an entry that is not on its idiom leads to the scan. But the table of CoreFP
  has no entry, so that it fits any file, and no read of the counter is replaced; another table may fit by accident; and an entry behind the section is patched when it looks like a read there. `load_dir`
  (`sap.rs:104`) claims the pinned digests for whatever files a directory holds. The scan itself misses an idiom in the last 11 bytes of the section (641, 829). `MachLoadedAsLinked` has all
  of these as its exceptions (`Unseen`, `Stray`); the fixups of a failed buffered load, below, are the third (`mixed`).
* `MachImage::load` and `load_owned`, which load from a buffer, have no caller but tests and examples.
* A stripped image passes `parse_thin` and not `parse_reader`; of two x86_64 slices one reader takes the first and the other the last.
* A buffered load that fails leaves its staged fixups to the next one of the thread; a failed load or session leaves its mappings,
  and the next session of the process is refused for that.
* The `slide()` of an image from a buffer is always 0; the bridge pages are never compared with their region (`sap.rs:406`).

*Windows guest.*
* The 32-bit bitmap of TLS is searched up to 64, and a shift of 32 and more wraps in a release build (in a debug build it panics). `TlsAlloc` finds
  the lower index first, so that it never gives one of 32 or more; but `TlsFree(32 + k)` (`seh_tls.rs:221-224`) clears the bit of a slot `k` that is held, which
  is then given out again. `HeldOnce` says that this is the only way to it. No doc says otherwise, so there is no run of it. The value of an FLS slot survives `FlsFree`.
* `probe_read` (`main.rs:1212`) writes to `/dev/null`, which accepts any address, so that a dump reads what is not mapped.
* `DeleteCriticalSection` (`sync.rs:79`) frees the guest's own block as if the host had allocated it. What the allocator makes of it is left open: it ends the process or goes on.
* `FindNextFileA` does not look at the pattern (`files_enum.rs:145-146` says so): after the first match every name is told.
* A section that begins beyond the image underflows what is left for it (`loader.rs:150`): its data goes behind the mapping, and the process ends or goes on (`Overruns`).
  A 32-bit relocation in the last four bytes of an image is passed over, as if it had eight (`loader.rs:334`), and a file that is shorter than its first section's address is read beyond its end
  (`loader.rs:137`); neither is modelled.
* Asking for both rights opens a file for reading only (`files.rs:28`).

## 5. What is proved

All proofs are for every value of the constants, under the `ASSUME`s of the modules, which TLC evaluates on the instances.
Most of them only say that sizes are numbers, inputs have their form and model values are distinct from the data. Those that say more:

* `SlotsAssumption`: the bitmap is not searched for less than its width.
* `WellLinked` (in `PeAssumption`): no cell of an image has two relocations, no section is below the first, a section begins at a page and has no more pages in the file than in memory.
  The loader takes this for granted, and all linkers write it; without it `LoadedAsLinked` fails, and means nothing.
* `CommandAssumption`: an option has the fields of its kind, and there is a buffer for every file a command line loads.
* `SapAssumption`: the two images have different bases (`sap.rs:58-59`), and CoreFP exports none of the names that the shims answer themselves.
* `ShimsAssumption`: no two shims have the same name (their table is a map by name, `mach.rs:757`).
* `LinkAssumption`: what both readers make of a file, if all its fixups lie inside, is what its linker meant (`WellLinked`): segments and their bytes lie apart under names of
  their own, none moves a pointer of `__PAGEZERO`, the text is at the same place in the file and in memory, and each cell is plain, moved by one rebase, bound
  to one import, or a read of the counter that the file's own table knows, if it has one. Which digest a caller claims is not restricted. So what the decoder makes of the opcode streams is not proved: TLC evaluates
  the assumption, decoder included, on every file of the run. Files whose fixups lie outside, or that are cut short, need nothing of this, but must be typed. A fat file has one x86-64 slice.
* `WellPacked` (in `PackAssumption`): a directory that was read in full has a record for every entry that was packed, and what is found at a record, if
  its bytes are found at all, is that entry; the places listed for receipts do not name the bundle's binary; and where an entry has no descriptor behind it, its two sizes are the same or
  fit in four bytes. The last is no formality: for an entry that is neither stored nor deflated and of which only one size needs eight bytes, `build_local_header` puts placeholders for both
  and a field with one (`ipa.rs:536-566`), which no reader can take apart. Packages have no such entries. The clock is one of the years that a date of the format has (1980 to 2107).
* `StreamsAssumption`: a compressed entry comes with the items that a packer wrote it in (`Packed`), up to its end, or up to a place where no item fits. This restricts the
  labels of an entry and not its bits: reading any bits from their front, one item after the other, ends in one of the two ways. Code lengths need not make a complete code, nor need the
  words of a code be free of each other, as the decoder does not ask for it.
* `ArchiveAssumption`: a page holds at least the four bytes of a field without content (`Align`, 16384 in the code).
* `SentinelAssumption`, `RequestsAssumption`: what stands for no file, or for a file cut short, is none that could be found.

The invariants that the runs check are not inductive; each proof module strengthens them. TLC has checked every one of these on a run before it was proved.

* `DownloadProofs`. `TypeCorrect`;
  `DestinationWhole`, from `WholeInv`: while a copy is under way its input
  stays one that has passed the directory check, and what waits for the rename is a whole package; `ContentInPlace`, from `PlaceInv`: `local` is the length of the `.tmp` until the answer comes,
  so that an accepted range starts where the file ends; `WholeBodyAlone`; `DestinationPure`, from
  `PureInv`: with one package per destination, an error page is only ever written to a file without content, and the body of a
  416 only behind all of it, so that what ends with its directory is the package; `BlocksAreKept`, an action
  property, from `KeptInv`: from the copy of the entries to the rename the raw download stays as it is, so that what is published is
  made of what is deleted afterwards;
  `StoreImplemented`: the refinement of `PackageStore`, one step at a time, crashes included.
* `LoginProofs`. `TypeCorrect`, with `Counted` (how far the counters can be at each place); `VerdictKept`, from
  `PlistKnown` (a plist in hand is still to be judged), assuming that verdict statuses are not
  those that login takes for the edge's (`CleanStatuses`); `Implements`, from the same and `SaveKnown` (an account is saved with the token in hand).
* `StoreSessionProofs`. `TypeCorrect`; `RoundsBounded`, from `Counted`: the rounds are at most one more than the
  relogins and purchases spent, each of which has a flag; `SuccessMeansLicence`, from `Entitled` (what an account has been through where);
  `VaultKept`, from `Traced` (the address in hand, the pin, and the key of a vault written without `PERUN_MAC` come from a look at
  the hardware while there was no pin), whoever races for the pin, fails or dies, and whatever other runs do under `PERUN_MAC`;
  `PasswordSurvives`, an action property.
* `AssetCacheProofs`. `TypeCorrect`; `AloneWhole`, from `Sole`: beside a process with `solo` no other is
  fetching, what it has passed is whole, and its `.part` has exactly the blocks it has written while the digest is right;
  `OneNeverHalf`: with a single process `NeverHalf`, which TLC refutes for two, holds.
* `Win32Proofs`, one invariant per family of shims, and those of the loader and the commands. `SignalsWakeOnce`, from `SyncInv`: an event and its history live and die together, and
  what it woke, plus the signal it still holds, is at most what it was given. `DescriptorsAreOwned` and `SearchesAreComplete`, from `FilesInv`: live handles
  and open descriptors are inductive only together (a descriptor has exactly one owner unless it is a standard one, and a search handle owns a search), and what a
  search has told and its stream still owes cover what has been there all the time. `SlotsOnce`, from `SlotsInv`: a clear bit is a clear index below the width, so the lowest
  index is never beyond it; and a free clears the bit of the index itself, or one that is from then on among the aliased ones.
  `RegionsAreKept`, from `MemoryInv`: a region begins at a page of its own, so that the release of one, which rounds to pages, cannot reach another.
  `ImagesLoadAsLinked`, from `LoadInv`: a cell holds what the file has there and its relocation,
  until the one import with that slot takes its place, and the last section that reaches a page has protected it. `GuestsAreReady`,
  from `ReadyInv`, `NamesInv` and `PreparedInv`: the names of a command line mean the files of the lines before, and a poke stands, in the image or in the host's memory, from its line
  until a patch of the same place; the argument is over the lines still to come. `GuestIsTyped` joins all of these to the `TypeOK` of the whole guest.
* `SapProofs`. `HeapApart`, from `HeapInv`: every block ends at the tail or before it, its size stands in the unit before it, and of
  two blocks one ends before the other's size. The copy of `realloc` goes above the tail, where no size is. `SessionStep` shows that nothing but a
  shim that the guest calls touches the heap, a new session included.
  `SessionsStartAlike`, from `AnswerInv` (the pieces that were read are the file up to the cursor), `ImageInv` and `ExportInv` (in every phase after the load, the images and the
  export table are those of the files of this session; that both readers see one table is `ReaderTable`); `GuestsAreWhole`, from `CourseInv` (which context and which
  exchanges there have been at each phase) and `RegionInv`; `SessionsLeaveNothing`, from `CleanInv`: what is mapped is at every phase no more than what that phase has asked for, so that
  an exit from any of them that unmaps its own leaves nothing; `GuestTyped`, the type of all of it.
  `ImagesAreAsLinked`, from `LinkInv`: for each step of a load, what the mapping or the copy holds by then (as in the file, then moved, then bound, then without reads of the counter), and what the thread's
  list still owes it. The passes over the fixups are recursive functions, and `Rebased`, `Settled` and `Hushed` say of one cell what a whole pass does to it. The list
  is empty between loads unless a buffered one has failed, and then the next buffered load is `mixed`, which may only show in cells that nothing else fills; what was mapped before stays as it is (`OwnInv`), although later loads add stubs;
  and the slots of the shims are all filled or none (`SlotsInv`), so that two sessions bind to the same places.
* `StoreLaneProofs`. `CookiesKeepTheirScope`, from `HopInv` (the header that is out is that of its own hop) and `HeaderScope`: what the tests on labels and segments
  accept is exactly what the scope, as the server set it, covers. `SessionsOutliveProcesses`, from `FileInv`: but for a save that is under way or has failed, the file *holds*
  the jar, that is, at any later time reading it yields what of the jar still lives (`LinesReadBack`, `LoadedLive`: written and read back, filtered before or after). What has expired
  is filtered a second time by the header, so the two processes agree although one has dropped it and the other has not.
  `RebuiltPackagesHold`, from `PackInv`: at every step of the rebuild, whatever has been written stands (`Stands`) at the offset that is recorded for it, as any reader would find it, and what is
  still to be copied leads to the entry that was packed. It rests on `Chain`, which says that blocks lie one behind the other with the offset of the writer at their end, so that a
  block is the only one of its kind at its place; on `CopiedAdds` and `StoredAdds`, one for each way of writing an entry; on `CentralsLaid` and `DirectoryRead`, by which the directory leads back to
  all of them; on `EndRead`, by which the last records, plain or ZIP64, lead to that directory; and on `OnceElements` and `AdditionsFit` for the receipts. `DatesReadBack` is the calendar: the days from
  1980 to 2107 come back from the packed date.
* `InflateProofs`. `EntriesInflateBack`, from `InflateInv`: the decoder always stands before an item of its entry, with what was packed before that item in its output and the tables of the item's block, or has refused at a
  place where no item fits. Its core is the canonical code (`DecodeFinds`, `DecodeSpelt`): the decoder, which takes the first length whose codes are not yet used up, finds a symbol exactly where the word of
  that symbol is written, because the beginnings of a word lie beyond all the words of those lengths (`Beyond`) and the symbols of a length are numbered without gap or repetition (`RanksGiven`,
  `RankOnce`). `Referred` is the copy that reaches into what it is copying.

The prover does not see into the folds and `SelectSeq` of the library, nor instantiate a theorem that takes an operator. Where a proof needs what a loop has done, the loop
is a recursive function over a prefix (`Keep` in `Sieve`, `AddedAll` in `CookieJar`, `Centrals` and `ExtraSize` in `Archive`, `Worth` in `Deflate`), and the induction is carried out over the *set* of
lengths for which the claim holds: `Induction` in `Win32Proofs`, `SapProofs`, `StoreLaneProofs` and `InflateProofs`, from the well-foundedness of the finite sets.

Only model-checked:

* everything under fairness (`Recovers`, `Ends`, `LoggedIn`, `KeepsServing`, `Heals`), which the prover cannot treat;
* that the opcode streams of a Mach-O file decode to the fixups that its linker wrote, which is an assumption of `ImagesAreAsLinked`.

## 6. What is not modelled

* Loss of power: what is written is assumed to be on the disk. (The code does not sync.)
* Two processes on one destination of a download, a body that ends early and looks complete because
  it is delimited by the end of the connection, failures of `remove_file` that the code ignores.
* Two processes that save the cookie file at once: `Requests` has one process after the other; in `StoreSession` the file is written in one step.
* A cache check reads a file in one step; with a second process writing at that moment the real one may see a mix. The setup certificate and its day.
* The bag, the parsers of plists, JSON and DMAP, date strings, tables, completion scripts, argument parsing: pure functions of
  their input with unit tests; the version look-ups of tvOS and visionOS; artwork; paid apps; the contents of the resolve caches.
* A login answer without the storefront header (`HeaderSent = TRUE` in all runs).
* What the guests compute: their code is not in the repository. The vault's cipher and the digests are taken for what they promise; CRC-32 is
  not computed.
* The shims that translate one call each and keep nothing: registry, process, environment and string shims, exceptions.
* The ADI lane and the `mach`, `adi` and `bench` commands; examples and tools.

## 7. Plan

Done: **Download** with `PackageStore`, **Login** with `SignIn`, **StoreSession**, **AssetCache**, the **Windows guest**, the
**Mach-O guest** with the signer, and the **store lane** (requests and cookies, packages). Every safety property that a run checks is
proved.

Next, in this order:

1. The opcode streams of `MachO` as a recursive function over their prefix, so that `LinkAssumption` can speak of what the linker wrote.
2. A second writer of the cookie file in `Requests`: two processes, one temporary name.
3. Two processes on one destination in `Download`.
4. `ensure_cert` beside `AssetCache`, and the ADI lane: the child, its deadline, the signal that ends it.
