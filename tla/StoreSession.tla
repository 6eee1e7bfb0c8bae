---------------------------- MODULE StoreSession ----------------------------
(***************************************************************************)
(* The store commands of perun over the files they share: the pinned       *)
(* machine address, the encrypted account (the vault) keyed by it, the     *)
(* plaintext storefront sidecar and the cookie file. Any number of perun   *)
(* processes run commands at the same time; each holds the account it      *)
(* loaded and the cookie jar it read, and each may log in again, silently, *)
(* when Apple no longer takes its session.                                 *)
(*                                                                         *)
(* The exchange of one login is Login's; here it is one step. The transfer *)
(* of the package is Download's. There is one app, and Apple knows which   *)
(* accounts hold its licence.                                              *)
(***************************************************************************)
EXTENDS Naturals

CONSTANTS
  Procs,        \* perun processes
  Accounts,     \* Apple IDs
  Front,        \* the storefront of each
  Macs,         \* machine addresses
  None, Torn,   \* a file that is not there, and one that a crash cut short
  Refused,      \* the cookies that a failed login leaves behind
  Unread,       \* a cookie jar that no request has read yet
  Before,       \* whose account earlier runs may have saved
  Commands,     \* what the user of each process runs
  MaxFaults,    \* how often processes are killed, and writes fail
  HeaderSent,   \* does every login answer name the storefront?
  MaxEpoch      \* how often Apple ends all sessions

US == "143441"
NoFront == ""
Fronts == {Front[a] : a \in Accounts} \union {US}

Epochs == 0..MaxEpoch

Account == [id : Accounts, token : Epochs, front : Fronts \union {NoFront},
            remembered : BOOLEAN]

\* The account, the address that it is encrypted under, and whether PERUN_MAC gave it.
Vault == [who : Account, key : Macs, over : BOOLEAN]

\* The cookies of a session: whose it is, and from which epoch.
Session == [who : Accounts, epoch : Epochs]
Jar == Session \union {None, Refused}

\* What a user runs.
Command == [cmd : {"login", "revoke", "search", "list", "purchase", "download"},
            who : Accounts,             \* --email
            remember : BOOLEAN,         \* --remember-password
            buy : BOOLEAN,              \* --purchase
            env : Macs \union {None}]   \* PERUN_MAC

ASSUME SessionAssumption ==
  /\ Front \in [Accounts -> STRING]
  /\ NoFront \notin Fronts
  /\ None \notin Macs \union Fronts /\ Torn \notin Macs \union Fronts /\ None # Torn
  /\ Refused # None /\ Unread \notin {None, Refused}
  /\ {None, Torn, Refused, Unread} \intersect (Vault \union Session) = {}
  /\ Accounts # {} /\ Before \subseteq Accounts /\ Macs # {}
  /\ Commands \in [Procs -> SUBSET Command]
  /\ MaxFaults \in Nat /\ HeaderSent \in BOOLEAN /\ MaxEpoch \in Nat

VARIABLES
  faults,    \* how many processes were killed, or writes failed
  hw,        \* the address of the first network interface
  epoch,     \* how often Apple has ended all sessions
  licensed,  \* the accounts that hold a licence for the app
  seen,      \* history: the address first pinned, and those found while there was no pin
  pin,       \* the file `machine`
  vault,     \* the file `account`
  sidecar,   \* the file `storefront.txt`
  cookies,   \* the file `cookies.txt`
  pc,        \* per process: where it is
  job,       \* per process: its command and the flags of its loop
  acc,       \* per process: the account it works with
  jar        \* per process: the cookie jar in memory

world == <<hw, epoch, licensed>>
files == <<pin, vault, sidecar, cookies>>
vars  == <<faults, hw, epoch, licensed, seen, pin, vault, sidecar, cookies, pc, job, acc, jar>>

States == {"idle", "reset", "signin", "relogin", "vault", "sealed", "sidecar", "revoke",
           "forget", "search", "migrate", "backfill", "query", "load", "open", "resolve",
           "guid", "legacy", "redownload", "update", "fetch", "buy", "arcade", "owned", "got"}

Job == [cmd : {"none", "login", "revoke", "search", "list", "purchase", "download"},
        who : Accounts, remember : BOOLEAN, buy : BOOLEAN, env : Macs \union {None},
        mac : Macs \union {None},            \* what primary_mac has found so far
        unpinned : BOOLEAN,                  \* it is still to be written to the pin
        blob : Macs \union {None},           \* the key of the vault that was read
        relogged : BOOLEAN,                  \* relogined_after_expiry, last_err
        bought : BOOLEAN,                    \* retried_after_purchase
        assumed : BOOLEAN,                   \* the purchase was answered by a 500
        rounds : 0..4,                       \* rounds of cmd_download's loop
        front : Fronts \union {NoFront}]     \* the storefront a search asks

Nobody == CHOOSE a \in Accounts : TRUE

NoJob == [cmd |-> "none", who |-> Nobody, remember |-> FALSE, buy |-> FALSE, env |-> None,
          mac |-> None, unpinned |-> FALSE, blob |-> None, relogged |-> FALSE,
          bought |-> FALSE, assumed |-> FALSE, rounds |-> 0, front |-> NoFront]

NoAccount == [id |-> Nobody, token |-> 0, front |-> NoFront, remembered |-> FALSE]

-----------------------------------------------------------------------------
(* The machine address, and the vault it opens.                              *)

\* The steps in which a process asks for its address; the search does only for its vault.
Asks(p) ==
  \/ pc[p] \in {"signin", "relogin", "vault", "backfill", "open", "guid"}
  \/ pc[p] = "query" /\ job[p].cmd = "list"

\* A variant that asks the hardware before the pin.
HardwareFirst(p) ==
  IF job[p].env # None THEN job[p].env ELSE hw

\* The address of primary_mac: PERUN_MAC, else the pin, else the one that Look has found.
Mac(p) ==
  IF job[p].env # None THEN job[p].env
  ELSE IF job[p].mac = None THEN pin ELSE job[p].mac

\* PERUN_MAC or the pin answers, or the look at the hardware and the write of the pin are over.
Known(p) ==
  \/ job[p].env # None
  \/ job[p].mac = None /\ pin \in Macs
  \/ job[p].mac # None /\ ~job[p].unpinned

\* The call is over; the next one starts anew.
Done(j) == [j EXCEPT !.mac = None, !.unpinned = FALSE, !.blob = None]

-----------------------------------------------------------------------------
(* The cookie jar: read from the file by the first request of a process,     *)
(* written back, unless it is empty, by every request.                       *)

\* A variant that saves a jar it has not loaded.
JarNotLoaded(p) == jar[p]

InMemory(p) == IF jar[p] = Unread THEN cookies ELSE jar[p]

Written(j) == IF j = None THEN cookies ELSE j

\* A request that changes no cookie.
Request(p) == cookies' = Written(InMemory(p))

\* An answer with new cookies j.
SetCookies(p, j) == jar' = [jar EXCEPT ![p] = j] /\ cookies' = j

Alive(p) == InMemory(p) = [who |-> acc[p].id, epoch |-> epoch]

-----------------------------------------------------------------------------
Init ==
  /\ faults = 0 /\ hw \in Macs /\ epoch = 0 /\ licensed \in SUBSET Before
  /\ \/ /\ pin = None /\ seen = {}
        /\ vault = None /\ sidecar = None /\ cookies = None
     \/ /\ pin \in Macs /\ seen = {pin}
        /\ \E a \in Before, r \in BOOLEAN :
             /\ vault = [who |-> [id |-> a, token |-> 0, front |-> Front[a], remembered |-> r],
                         key |-> pin, over |-> FALSE]
             /\ sidecar \in {None, Front[a]}
             /\ cookies = [who |-> a, epoch |-> 0]
  /\ pc = [p \in Procs |-> "idle"] /\ job = [p \in Procs |-> NoJob]
  /\ acc = [p \in Procs |-> NoAccount] /\ jar = [p \in Procs |-> Unread]

Goto(p, s) == pc' = [pc EXCEPT ![p] = s]

\* The process exits.
Exit(p) ==
  /\ pc' = [pc EXCEPT ![p] = "idle"] /\ job' = [job EXCEPT ![p] = NoJob]
  /\ acc' = [acc EXCEPT ![p] = NoAccount] /\ jar' = [jar EXCEPT ![p] = Unread]

\* The process goes on after a request, with the jar that the request has read.
Continue(p, s, j) ==
  /\ Goto(p, s)
  /\ job' = [job EXCEPT ![p] = j] /\ jar' = [jar EXCEPT ![p] = InMemory(p)]
  /\ UNCHANGED acc

\* A user runs a command.
Run(p) ==
  /\ pc[p] = "idle"
  /\ \E c \in Commands[p] :
       /\ job' = [job EXCEPT ![p] = [NoJob EXCEPT !.cmd = c.cmd, !.who = c.who,
                                       !.remember = c.remember, !.buy = c.buy, !.env = c.env]]
       /\ Goto(p, CASE c.cmd = "login"  -> "reset"
                    [] c.cmd = "revoke" -> "revoke"
                    [] c.cmd = "search" -> "search"
                    [] OTHER            -> "load")
  /\ UNCHANGED <<world, seen, files, acc, jar>>

-----------------------------------------------------------------------------
(* primary_mac, where neither PERUN_MAC nor the pin answers.                 *)

\* hardware_mac.
Look(p) ==
  /\ Asks(p) /\ job[p].env = None /\ job[p].mac = None /\ pin \notin Macs
  /\ job' = [job EXCEPT ![p].mac = hw, ![p].unpinned = TRUE]
  /\ seen' = seen \union {hw}
  /\ UNCHANGED <<world, files, pc, acc, jar>>

\* pin_mac: the file gets content m; what comes of it, the process does not ask.
PinMac(p, m) ==
  /\ job[p].unpinned
  /\ pin' = m
  /\ job' = [job EXCEPT ![p].unpinned = FALSE]
  /\ UNCHANGED <<world, seen, vault, sidecar, cookies, pc, acc, jar>>

-----------------------------------------------------------------------------
(* auth login and auth revoke.                                               *)

\* reset_session.
Reset(p) ==
  /\ pc[p] = "reset"
  /\ cookies' = None
  /\ Goto(p, "signin")
  /\ UNCHANGED <<world, seen, pin, vault, sidecar, job, acc, jar>>

\* The account that a successful login of a returns.
Granted(a, r) ==
  {[id |-> a, token |-> epoch, front |-> f, remembered |-> r] :
     f \in {Front[a]} \union (IF HeaderSent THEN {} ELSE {NoFront})}

\* appstore::login, and the address its signer is made for.
SignedIn(p) ==
  /\ pc[p] = "signin" /\ Known(p)
  /\ \E fresh \in Granted(job[p].who, job[p].remember) : acc' = [acc EXCEPT ![p] = fresh]
  /\ SetCookies(p, [who |-> job[p].who, epoch |-> epoch])
  /\ Goto(p, "vault") /\ job' = [job EXCEPT ![p] = Done(@)]
  /\ UNCHANGED <<world, seen, pin, vault, sidecar>>

NotSignedIn(p) ==
  /\ pc[p] = "signin" /\ Known(p)
  /\ cookies' \in {cookies, Refused}
  /\ Exit(p)
  /\ UNCHANGED <<world, seen, pin, vault, sidecar>>

\* Where a process goes on after account::save: a login returns, a relogin goes back.
Resume(p) ==
  IF job[p].cmd = "login" THEN Exit(p)
  ELSE /\ Goto(p, IF job[p].cmd = "purchase" THEN "buy" ELSE "legacy")
       /\ job' = [job EXCEPT ![p] = Done(@)] /\ UNCHANGED <<acc, jar>>

\* account::save asks for the address and encrypts the account under it.
Seal(p) ==
  /\ pc[p] = "vault" /\ Known(p)
  /\ job' = [job EXCEPT ![p].mac = Mac(p)]
  /\ Goto(p, "sealed")
  /\ UNCHANGED <<world, seen, files, acc, jar>>

\* It writes the vault first, then, if that succeeded, the sidecar. A write that fails may
\* have emptied the file.
SaveVault(p) ==
  /\ pc[p] = "sealed"
  /\ vault' = [who |-> acc[p], key |-> job[p].mac, over |-> job[p].env # None]
  /\ Goto(p, "sidecar") /\ job' = [job EXCEPT ![p] = Done(@)]
  /\ UNCHANGED <<world, seen, pin, sidecar, cookies, acc, jar>>

VaultFails(p) ==
  /\ pc[p] = "sealed"
  /\ vault' \in {vault, Torn}
  /\ Resume(p)
  /\ UNCHANGED <<world, seen, pin, sidecar, cookies>>

\* save_storefront writes nothing for an account without a storefront.
SaveSidecar(p) ==
  /\ pc[p] = "sidecar"
  /\ sidecar' = IF acc[p].front = NoFront THEN sidecar ELSE acc[p].front
  /\ Resume(p)
  /\ UNCHANGED <<world, seen, pin, vault, cookies>>

SidecarFails(p) ==
  /\ pc[p] = "sidecar"
  /\ sidecar' \in {sidecar, None}
  /\ Resume(p)
  /\ UNCHANGED <<world, seen, pin, vault, cookies>>

\* revoke: the account, then the cookies; the sidecar stays.
Revoke(p) ==
  /\ pc[p] = "revoke"
  /\ vault' = None
  /\ Goto(p, "forget")
  /\ UNCHANGED <<world, seen, pin, sidecar, cookies, job, acc, jar>>

Forget(p) ==
  /\ pc[p] = "forget"
  /\ cookies' = None
  /\ Exit(p)
  /\ UNCHANGED <<world, seen, pin, vault, sidecar>>

-----------------------------------------------------------------------------
(* search.                                                                   *)

\* storefront_hint, step 1: the sidecar.
Search(p) ==
  /\ pc[p] = "search"
  /\ IF sidecar \in Fronts
     THEN job' = [job EXCEPT ![p].front = sidecar] /\ Goto(p, "query")
     ELSE UNCHANGED job /\ Goto(p, "migrate")
  /\ UNCHANGED <<world, seen, files, acc, jar>>

\* account::load reads the vault before it asks for the address that is to open it.
ReadVault(p, s) ==
  /\ vault # None
  /\ job' = [job EXCEPT ![p].blob = IF vault \in Vault THEN vault.key ELSE None]
  /\ acc' = [acc EXCEPT ![p] = IF vault \in Vault THEN vault.who ELSE @]
  /\ Goto(p, s)
  /\ UNCHANGED <<world, seen, files, jar>>

Opens(p) == job[p].blob # None /\ job[p].blob = Mac(p)

\* Steps 2 and 3: the vault, whose storefront is copied to the sidecar, or the US.
NoVault(p) ==
  /\ pc[p] = "migrate" /\ vault = None
  /\ job' = [job EXCEPT ![p].front = US] /\ Goto(p, "query")
  /\ UNCHANGED <<world, seen, files, acc, jar>>

Migrate(p) == (pc[p] = "migrate" /\ ReadVault(p, "backfill")) \/ NoVault(p)

\* The storefront that the search asks is known.
Asked(p, f) ==
  /\ job' = [job EXCEPT ![p] = [Done(@) EXCEPT !.front = f]]
  /\ Goto(p, "query")
  /\ UNCHANGED <<world, seen, pin, vault, cookies, acc, jar>>

\* An account without a storefront is not written, and the sidecar is read all the same.
Backfill(p) ==
  LET front == IF Opens(p) THEN acc[p].front ELSE NoFront IN
  /\ pc[p] = "backfill" /\ Known(p)
  /\ sidecar' = IF front = NoFront THEN sidecar ELSE front
  /\ Asked(p, IF Opens(p) /\ sidecar' \in Fronts THEN sidecar' ELSE US)

BackfillFails(p) ==
  /\ pc[p] = "backfill" /\ Known(p) /\ Opens(p) /\ acc[p].front # NoFront
  /\ sidecar' \in {sidecar, None}
  /\ Asked(p, US)

\* A request of a search or of a listing; a listing may make more of them.
Query(p) ==
  /\ pc[p] = "query" /\ (job[p].cmd = "list" => Known(p))
  /\ Request(p)
  /\ \/ Exit(p)
     \/ job[p].cmd = "list" /\ Continue(p, "query", Done(job[p]))
  /\ UNCHANGED <<world, seen, pin, vault, sidecar>>

-----------------------------------------------------------------------------
(* purchase and download: the account, the app, and the rounds of the loop.  *)

\* require_account.
Load(p) ==
  /\ pc[p] = "load"
  /\ \/ ReadVault(p, "open")
     \/ vault = None /\ Exit(p) /\ UNCHANGED <<world, seen, files>>

Open(p) ==
  /\ pc[p] = "open" /\ Known(p)
  /\ \/ /\ Opens(p)
        /\ \/ Goto(p, "resolve")
           \/ job[p].cmd = "list" /\ Goto(p, "query")
        /\ job' = [job EXCEPT ![p] = Done(@)]
        /\ UNCHANGED <<acc, jar>>
     \/ ~Opens(p) /\ Exit(p)
  /\ UNCHANGED <<world, seen, files>>

\* The app is found in the cache of earlier look-ups.
Cached(p) ==
  /\ pc[p] = "resolve"
  /\ Goto(p, "guid")
  /\ UNCHANGED <<world, seen, files, job, acc, jar>>

\* It is looked up in the account's storefront; only a purchase by app id goes on without
\* an answer.
Resolve(p) ==
  /\ pc[p] = "resolve"
  /\ \/ /\ acc[p].front # NoFront \/ job[p].cmd = "purchase"
        /\ Continue(p, "guid", job[p])
     \/ Exit(p)
  /\ Request(p)
  /\ UNCHANGED <<world, seen, pin, vault, sidecar>>

\* fresh_guid.
Guid(p) ==
  /\ pc[p] = "guid" /\ Known(p)
  /\ Goto(p, CASE job[p].cmd = "list" -> "query" [] job[p].cmd = "purchase" -> "buy"
                [] OTHER -> "legacy")
  /\ job' = [job EXCEPT ![p] = Done(@)]
  /\ UNCHANGED <<world, seen, files, acc, jar>>

\* What Apple answers to a request for the package: without a live session it asks for a
\* login, without a licence it says so; an empty song list and a reply that is no plist are
\* how its older endpoints refuse a newer app.
InfoAnswers(p) ==
  {"error", "unparsed"} \union
    (IF ~Alive(p) THEN {"expired"}
     ELSE IF acc[p].id \in licensed THEN {"found", "empty"} ELSE {"unlicensed"})

\* A variant that allows a relogin in every round.
MayReloginAgain(p) == acc[p].remembered

\* One silent relogin per command, for an account that has its password.
MayRelogin(p) == ~job[p].relogged /\ acc[p].remembered

\* Where an answer that ends fetch_download_info takes the loop of cmd_download.
Turn(p, a) ==
  CASE a = "found" -> "fetch"
    [] a = "expired" /\ MayRelogin(p) -> "relogin"
    [] a = "unlicensed" /\ job[p].buy /\ ~job[p].bought -> "buy"
    [] OTHER -> "idle"

\* The request is made and the process goes to s, with flags j.
Answer(p, s, j) ==
  /\ Request(p)
  /\ IF s = "idle" THEN Exit(p) ELSE Continue(p, s, j)
  /\ UNCHANGED <<world, seen, pin, vault, sidecar>>

\* A round of the loop: the legacy endpoint. An empty song list leads to the dispatch
\* endpoints, if the version they ask for can be looked up.
Legacy(p, a) ==
  /\ pc[p] = "legacy"
  /\ \E s \in IF a = "empty" THEN {"redownload", "idle"} ELSE {Turn(p, a)} :
       Answer(p, s, [job[p] EXCEPT !.rounds = @ + 1])

Redownload(p, a) ==
  /\ pc[p] = "redownload"
  /\ Answer(p, IF a = "unparsed" THEN "update" ELSE Turn(p, a), job[p])

Update(p, a) ==
  /\ pc[p] = "update"
  /\ Answer(p, Turn(p, a), job[p])

\* fetch_download_info, and what the loop makes of its answer.
Info(p) == \E a \in InfoAnswers(p) : Legacy(p, a) \/ Redownload(p, a) \/ Update(p, a)

\* The rest of appstore::download (module Download).
Fetch(p) ==
  /\ pc[p] = "fetch"
  /\ \E s \in {"got", "idle"} : Answer(p, s, job[p])

-----------------------------------------------------------------------------
(* appstore::purchase, with the App Store's pricing and then with Arcade's.  *)

\* A readable reply under status 500 that names no failure is how Apple answers the second
\* purchase of an app, but also what a server in trouble may send for any account.
BuyAnswers(p) ==
  {"error", "500"} \union
    (IF acc[p].token # epoch THEN {"expired"}
     ELSE IF acc[p].id \in licensed THEN {"already"}
     ELSE {"bought", "lost", "unavailable"})

\* A variant that takes the lost answer of a purchase for a success.
LostIsBought(p, a) ==
  CASE a \in {"bought", "already", "500", "unavailable"} ->
         IF job[p].cmd = "purchase" THEN "owned" ELSE "legacy"
    [] a = "expired" /\ MayRelogin(p) -> "relogin"
    [] OTHER -> "idle"

BuyTurn(p, a) ==
  CASE a \in {"bought", "already", "500"} ->
         IF job[p].cmd = "purchase" THEN "owned" ELSE "legacy"
    [] a = "unavailable" /\ pc[p] = "buy" -> "arcade"
    [] a = "expired" /\ MayRelogin(p) -> "relogin"
    [] OTHER -> "idle"

\* The licence is granted before the answer is, or is not, received.
Bought(p, a) ==
  LET s == BuyTurn(p, a) IN
  /\ pc[p] \in {"buy", "arcade"}
  /\ licensed' = IF a \in {"bought", "lost"} THEN licensed \union {acc[p].id} ELSE licensed
  /\ Request(p)
  /\ IF s = "idle" THEN Exit(p)
     ELSE Continue(p, s, [job[p] EXCEPT !.bought = @ \/ s = "legacy",
                                        !.assumed = (s = "owned" /\ a = "500")])
  /\ UNCHANGED <<hw, epoch, seen, pin, vault, sidecar>>

Buy(p) == \E a \in BuyAnswers(p) : Bought(p, a)

\* The command reports its success.
Report(p) ==
  /\ pc[p] \in {"owned", "got"}
  /\ Exit(p)
  /\ UNCHANGED <<world, seen, files>>

-----------------------------------------------------------------------------
(* relogin_if_possible.                                                      *)

\* The cookies of an earlier session, of any epoch, stand in for the second factor.
SecondFactor(p) == InMemory(p) \in [who : {acc[p].id}, epoch : Epochs]

\* A variant that saves the account as login returns it.
PasswordDropped(p) ==
  /\ pc[p] = "relogin" /\ Known(p) /\ SecondFactor(p)
  /\ \E fresh \in Granted(acc[p].id, FALSE) : acc' = [acc EXCEPT ![p] = fresh]
  /\ SetCookies(p, [who |-> acc[p].id, epoch |-> epoch])
  /\ job' = [job EXCEPT ![p] = [Done(@) EXCEPT !.relogged = TRUE]]
  /\ Goto(p, "vault")
  /\ UNCHANGED <<world, seen, pin, vault, sidecar>>

Relogged(p) ==
  /\ pc[p] = "relogin" /\ Known(p) /\ SecondFactor(p)
  /\ \E fresh \in Granted(acc[p].id, acc[p].remembered) : acc' = [acc EXCEPT ![p] = fresh]
  /\ SetCookies(p, [who |-> acc[p].id, epoch |-> epoch])
  /\ job' = [job EXCEPT ![p] = [Done(@) EXCEPT !.relogged = TRUE]]
  /\ Goto(p, "vault")
  /\ UNCHANGED <<world, seen, pin, vault, sidecar>>

\* The command fails with the error that led to the relogin: a request failed, or Apple
\* refused, with cookies that spoil the session even where it could have stood in.
NotRelogged(p) ==
  /\ pc[p] = "relogin" /\ Known(p)
  /\ cookies' \in {Written(InMemory(p)), Refused}
  /\ Exit(p)
  /\ UNCHANGED <<world, seen, pin, vault, sidecar>>

-----------------------------------------------------------------------------
(* What happens to the processes and around them.                            *)

\* A process is killed, perhaps while it writes a file: fs::write truncates first, and a
\* sidecar without text counts as none.
Kill(p) ==
  /\ pc[p] # "idle"
  /\ Exit(p)
  /\ \/ UNCHANGED files
     \/ pc[p] = "sealed" /\ vault' = Torn /\ UNCHANGED <<pin, sidecar, cookies>>
     \/ pc[p] \in {"sidecar", "backfill"} /\ sidecar' = None /\ UNCHANGED <<pin, vault, cookies>>
     \/ job[p].unpinned /\ pin' = Torn /\ UNCHANGED <<vault, sidecar, cookies>>
  /\ UNCHANGED <<world, seen>>

\* Apple ends all sessions.
Expire ==
  /\ epoch < MaxEpoch /\ epoch' = epoch + 1
  /\ UNCHANGED <<hw, licensed, seen, files, pc, job, acc, jar>>

\* The first network interface becomes another one.
Replug ==
  /\ hw' \in Macs \ {hw}
  /\ UNCHANGED <<epoch, licensed, seen, files, pc, job, acc, jar>>

Steps(p) ==
  \/ Run(p) \/ Look(p) \/ PinMac(p, job[p].mac)
  \/ Reset(p) \/ SignedIn(p) \/ NotSignedIn(p) \/ Seal(p) \/ SaveVault(p) \/ SaveSidecar(p)
  \/ Revoke(p) \/ Forget(p) \/ Search(p) \/ Migrate(p) \/ Backfill(p) \/ Query(p) \/ Load(p)
  \/ Open(p) \/ Cached(p) \/ Resolve(p) \/ Guid(p) \/ Info(p) \/ Fetch(p) \/ Buy(p)
  \/ Report(p) \/ Relogged(p) \/ NotRelogged(p)

Work(p) == Steps(p) /\ UNCHANGED faults

\* A write fails, which may leave the file empty, or the process dies.
Fault(p) ==
  /\ faults < MaxFaults /\ faults' = faults + 1
  /\ \/ \E m \in {pin, Torn} : PinMac(p, m)
     \/ VaultFails(p) \/ SidecarFails(p) \/ BackfillFails(p) \/ Kill(p)

Next ==
  \/ \E p \in Procs : Work(p) \/ Fault(p)
  \/ (Expire \/ Replug) /\ UNCHANGED faults

Spec == Init /\ [][Next]_vars

-----------------------------------------------------------------------------
(* Fairness: no process stops between two steps, each request gets its       *)
(* answer or fails, and the users go on running commands.                    *)

FairSpec == Spec /\ \A p \in Procs : WF_vars(Work(p))

\* The steps of purchases and downloads that nothing disturbs: the user downloads, requests
\* reach Apple, which answers them with what it knows, and files are written.
Undisturbed(p) ==
  \/ Run(p) /\ job'[p].cmd # "search" /\ job'[p].cmd # "list"
  \/ Look(p) \/ PinMac(p, job[p].mac) \/ Load(p) \/ Open(p) \/ Cached(p) \/ Guid(p) \/ Report(p)
  \/ Relogged(p) \/ Seal(p)
  \/ Resolve(p) /\ pc'[p] # "idle"
  \/ \E a \in InfoAnswers(p) \ {"error", "unparsed", "empty"} :
       Legacy(p, a) \/ Redownload(p, a) \/ Update(p, a)
  \/ \E a \in BuyAnswers(p) \ {"error", "500", "lost", "unavailable"} : Bought(p, a)
  \/ Fetch(p) /\ pc'[p] = "got"
  \/ SaveVault(p) \/ SaveSidecar(p)

-----------------------------------------------------------------------------
(* Properties.                                                               *)

TypeOK ==
  /\ faults \in 0..MaxFaults
  /\ hw \in Macs /\ epoch \in Epochs /\ licensed \subseteq Accounts /\ seen \subseteq Macs
  /\ pin \in Macs \union {None, Torn} /\ vault \in Vault \union {None, Torn}
  /\ sidecar \in Fronts \union {None} /\ cookies \in Jar
  /\ pc \in [Procs -> States] /\ job \in [Procs -> Job]
  /\ acc \in [Procs -> Account] /\ jar \in [Procs -> Jar \union {Unread}]

\* However sessions expire and licences are missing, cmd_download asks Apple for the package
\* in at most three rounds (cli.rs: "the majd retry loop (retry.Do, Attempts(3))").
ThreeRounds == \A p \in Procs : job[p].rounds <= 3

\* A purchase or a download that reports success belongs to an account with a licence, even
\* when an answer was lost, came after a relogin or in the second attempt under Arcade's
\* pricing, or another process has logged in as somebody else since. The one exception is a
\* purchase whose last answer was a bare 500, which the code takes for "already owned"
\* (appstore.rs: "Apple quirk: 500 on repeat purchase of an owned item"): it may be neither,
\* but a download that went on after it has not got the package without the licence.
LicensedWhenReported ==
  \A p \in Procs :
    /\ pc[p] = "got" => acc[p].id \in licensed
    /\ pc[p] = "owned" => acc[p].id \in licensed \/ job[p].assumed

\* All processes that found no pin found the same address in the hardware.
Agreed == \A m, n \in seen : m = n

\* The vault that runs without PERUN_MAC have written opens with the pinned address, whatever
\* happens to the hardware after it was first pinned, whichever process writes the pin first
\* and whether or not that write succeeds (mod.rs: "a change of NIC, NIC order, or container
\* network namespace cannot silently re-key the encrypted account store"). Only if two looks
\* at the hardware differ while there is no pin, nothing ties the two files together.
VaultOpens ==
  vault \in Vault /\ ~vault.over /\ pin \in Macs /\ Agreed => vault.key = pin

\* No run under PERUN_MAC takes the vault away from the pinned address (README.md: "takes
\* priority over the pin file and never rewrites it, so exporting it cannot re-key the account
\* store"). It does: account::save encrypts under the address of the run.
EnvNeverRekeys == vault \in Vault /\ pin \in Macs => vault.key = pin

Remembered == vault \in Vault /\ vault.who.remembered

\* A login or a revocation of the user takes a step.
UserActs == \E p \in Procs : job[p].cmd \in {"login", "revoke"} /\ pc'[p] # pc[p]

\* No silent relogin, of any process, costs the user the remembered password: it goes only
\* with a login, a revocation or a crash (cli.rs: "otherwise the first relogin silently erases
\* the remembered password").
PasswordKept == [][Remembered => Remembered' \/ vault' = Torn \/ UserActs]_vars

\* A user whose account was saved with its password, and who only downloads, with --purchase,
\* never has to sign in again: whatever expired, failed or was killed before, once nothing
\* disturbs the downloads any more, packages keep arriving. Apple must have the session that
\* the cookies speak of and never have refused it, and nothing may have cut the vault short.
KeepsServing ==
  (Remembered /\ cookies \in Session /\ [](vault # Torn /\ cookies # Refused)
     /\ <>[][\E p \in Procs : Undisturbed(p)]_vars)
    => []<>(\E p \in Procs : pc[p] = "got")
=============================================================================
