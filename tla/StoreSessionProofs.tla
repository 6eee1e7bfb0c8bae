------------------------ MODULE StoreSessionProofs -------------------------
(***************************************************************************)
(* Proofs about StoreSession, for any number of processes, accounts,       *)
(* machine addresses, commands, faults and expiries.                       *)
(***************************************************************************)
EXTENDS StoreSession, TLAPS

\* How often the loop of cmd_download has gone back for another round.
Spent(j) == (IF j.relogged THEN 1 ELSE 0) + (IF j.bought THEN 1 ELSE 0)

Saving == {"vault", "sealed", "sidecar"}

\* Which command is where.
InPlace(s, j) ==
  /\ s \in {"reset", "signin"} => j.cmd = "login"
  /\ s \in {"revoke", "forget"} => j.cmd = "revoke"
  /\ s \in {"search", "migrate", "backfill"} => j.cmd = "search"
  /\ s \in {"load", "open", "resolve", "guid"} => j.cmd \in {"list", "purchase", "download"}
  /\ s \in {"legacy", "redownload", "update", "fetch"} => j.cmd = "download"
  /\ s \in {"buy", "arcade", "relogin"} => j.cmd \in {"purchase", "download"}
  /\ s \in Saving => j.cmd \in {"login", "purchase", "download"}

\* Every round but the first goes with a relogin or a purchase.
Counted(s, j) ==
  /\ j.rounds <= 1 + Spent(j)
  /\ s \in {"load", "open", "resolve", "guid"} => j.rounds = 0
  /\ s = "legacy" \/ s \in Saving => j.rounds <= Spent(j)
  /\ s \in {"buy", "arcade"} => ~j.bought
  /\ s = "relogin" => ~j.relogged
  /\ j.cmd # "download" => j.rounds = 0 /\ ~j.bought

\* What an account has been through where.
Entitled(s, j, a, l) ==
  /\ s \in {"fetch", "got"} => a.id \in l
  /\ s = "owned" => a.id \in l \/ j.assumed
  /\ s = "relogin" => a.remembered
  /\ s \in Saving => j.cmd = "login" \/ a.remembered

\* Where the address comes from that a process has at hand.
Traced(s, j, m) ==
  /\ j.unpinned => j.env = None /\ j.mac \in Macs
  /\ s = "sealed" => j.mac \in Macs
  /\ j.env = None /\ j.mac # None => j.mac \in m

Local(s, j, a, l, m) == InPlace(s, j) /\ Counted(s, j) /\ Entitled(s, j, a, l) /\ Traced(s, j, m)

\* The files are typed; the pin, and the key of a vault written without PERUN_MAC, come from
\* a look at the hardware while there was no pin.
FilesOK ==
  /\ pin \in Macs \union {None, Torn} /\ vault \in Vault \union {None, Torn}
  /\ sidecar \in Fronts \union {None} /\ cookies \in Jar
  /\ pin \in Macs => pin \in seen
  /\ vault \in Vault /\ ~vault.over => vault.key \in seen

TypeInv ==
  TypeOK /\ FilesOK /\ \A p \in Procs : Local(pc[p], job[p], acc[p], licensed, seen)

\* Process p goes to s with job j, account a and jar c.
Moves(p, s, j, a, c) ==
  /\ pc' = [pc EXCEPT ![p] = s] /\ job' = [job EXCEPT ![p] = j]
  /\ acc' = [acc EXCEPT ![p] = a] /\ jar' = [jar EXCEPT ![p] = c]

\* What no step of a process does to the rest.
Steady ==
  /\ UNCHANGED <<hw, epoch>> /\ faults' \in 0..MaxFaults
  /\ licensed \subseteq licensed' /\ licensed' \subseteq Accounts
  /\ seen \subseteq seen' /\ seen' \subseteq Macs

\* A step of one process keeps the invariant, if what it leaves behind satisfies it.
LEMMA MoveTyped ==
  ASSUME TypeInv, NEW p \in Procs, NEW s \in States, NEW j \in Job, NEW a \in Account,
         NEW c \in Jar \union {Unread}, Moves(p, s, j, a, c), Steady, FilesOK',
         Local(s, j, a, licensed', seen')
  PROVE  TypeInv'
<1>1. TypeOK'
  BY DEF TypeInv, TypeOK, FilesOK, Moves, Steady
<1>2. \A q \in Procs : Local(pc'[q], job'[q], acc'[q], licensed', seen')
  <2> TAKE q \in Procs
  <2>1. CASE q = p
    BY <2>1 DEF TypeInv, TypeOK, Moves
  <2>2. CASE q # p
    <3>1. pc'[q] = pc[q] /\ job'[q] = job[q] /\ acc'[q] = acc[q]
      BY <2>2 DEF TypeInv, TypeOK, Moves
    <3>2. InPlace(pc[q], job[q]) /\ Counted(pc[q], job[q])
      BY DEF TypeInv, Local
    <3>3. Entitled(pc[q], job[q], acc[q], licensed')
      BY DEF TypeInv, Local, Entitled, Steady
    <3>4. Traced(pc[q], job[q], seen')
      BY DEF TypeInv, Local, Traced, Steady
    <3> QED  BY <3>1, <3>2, <3>3, <3>4 DEF Local
  <2> QED  BY <2>1, <2>2
<1> QED  BY <1>1, <1>2 DEF TypeInv

-----------------------------------------------------------------------------
(* Jobs and helpers.                                                         *)

\* What the loop and its command keep track of.
Kept(j, k) ==
  /\ k.cmd = j.cmd /\ k.rounds = j.rounds /\ k.relogged = j.relogged /\ k.bought = j.bought
  /\ k.assumed = j.assumed

\* The job that Run starts.
Begun(j, c) ==
  [j EXCEPT !.cmd = c.cmd, !.who = c.who, !.remember = c.remember, !.buy = c.buy, !.env = c.env]

LEMMA JobBegun ==
  ASSUME NEW j \in Job, NEW c \in Command
  PROVE  /\ Begun(j, c) \in Job /\ Begun(j, c).cmd = c.cmd
         /\ Begun(j, c).rounds = j.rounds /\ Begun(j, c).relogged = j.relogged
         /\ Begun(j, c).bought = j.bought /\ Begun(j, c).mac = j.mac
         /\ Begun(j, c).unpinned = j.unpinned
  BY DEF Job, Begun, Command

LEMMA DoneTyped ==
  ASSUME NEW j \in Job
  PROVE  /\ Done(j) \in Job /\ Kept(j, Done(j)) /\ Done(j).env = j.env
         /\ Done(j).mac = None /\ ~Done(j).unpinned
<1>1. Done(j) \in Job
  BY DEF Job, Done
<1> QED  BY <1>1 DEF Job, Done, Kept

LEMMA JobTyped ==
  ASSUME NEW j \in Job
  PROVE  /\ [j EXCEPT !.relogged = TRUE] \in Job
         /\ \A f \in Fronts \union {NoFront} : [j EXCEPT !.front = f] \in Job
         /\ \A n \in 0..4 : [j EXCEPT !.rounds = n] \in Job
         /\ \A b, u \in BOOLEAN : [j EXCEPT !.bought = b, !.assumed = u] \in Job
         /\ \A m \in Macs \union {None} : [j EXCEPT !.mac = m] \in Job
         /\ \A m \in Macs \union {None} : [j EXCEPT !.blob = m] \in Job
         /\ \A m \in Macs \union {None} : [j EXCEPT !.mac = m, !.unpinned = TRUE] \in Job
         /\ [j EXCEPT !.unpinned = FALSE] \in Job
<1>1. /\ [j EXCEPT !.relogged = TRUE] \in Job
      /\ \A f \in Fronts \union {NoFront} : [j EXCEPT !.front = f] \in Job
      /\ \A n \in 0..4 : [j EXCEPT !.rounds = n] \in Job
      /\ \A b, u \in BOOLEAN : [j EXCEPT !.bought = b, !.assumed = u] \in Job
  BY DEF Job
<1>2. /\ \A m \in Macs \union {None} : [j EXCEPT !.mac = m] \in Job
      /\ \A m \in Macs \union {None} : [j EXCEPT !.blob = m] \in Job
      /\ \A m \in Macs \union {None} : [j EXCEPT !.mac = m, !.unpinned = TRUE] \in Job
      /\ [j EXCEPT !.unpinned = FALSE] \in Job
  BY DEF Job
<1> QED  BY <1>1, <1>2

\* A job that goes on to a place of the same kind is in place there.
LEMMA KeptLocal ==
  ASSUME NEW s, NEW t, NEW j \in Job, NEW k \in Job, NEW a, NEW l, NEW m,
         Local(s, j, a, l, m), Kept(j, k), k.env = j.env,
         \/ k.mac = None /\ ~k.unpinned
         \/ k.mac = j.mac /\ k.unpinned = j.unpinned,
         \/ t = s
         \/ s \in {"load", "open", "resolve", "guid"} /\ t \in {"open", "resolve", "guid"}
         \/ s \in {"search", "migrate"} /\ t \in {"migrate", "backfill"}
         \/ s \in Saving /\ t \in {"vault", "sidecar"}
         \/ s = "signin" /\ t = "vault"
         \/ t = "query",
         t # "sealed"
  PROVE  Local(t, k, a, l, m)
<1>1. InPlace(t, k)
  BY DEF Local, InPlace, Kept, Saving
<1>2. Counted(t, k)
  <2>1. Spent(k) = Spent(j) /\ Spent(j) \in 0..2 /\ j.rounds \in 0..4 /\ k.rounds = j.rounds
    BY DEF Spent, Kept, Job
  <2> QED  BY <2>1 DEF Local, InPlace, Counted, Kept, Saving
<1>3. Entitled(t, k, a, l)
  BY DEF Local, InPlace, Entitled, Kept, Saving
<1>4. Traced(t, k, m)
  BY DEF Local, Traced
<1> QED  BY <1>1, <1>2, <1>3, <1>4 DEF Local

LEMMA NothingTyped == /\ NoJob \in Job /\ NoAccount \in Account /\ "idle" \in States
                      /\ \A l, m : Local("idle", NoJob, NoAccount, l, m)
<1>0. Nobody \in Accounts
  BY SessionAssumption DEF Nobody
<1>1. NoJob \in Job
  BY <1>0 DEF NoJob, Job
<1>2. NoAccount \in Account
  BY <1>0, SessionAssumption DEF NoAccount, Account, Epochs
<1>3. \A l, m : Local("idle", NoJob, NoAccount, l, m)
  BY DEF Local, InPlace, Counted, Entitled, Traced, NoJob, Spent, Saving
<1> QED  BY <1>1, <1>2, <1>3 DEF States

LEMMA Stays ==
  ASSUME TypeOK, NEW p \in Procs
  PROVE  /\ job = [job EXCEPT ![p] = job[p]] /\ acc = [acc EXCEPT ![p] = acc[p]]
         /\ jar = [jar EXCEPT ![p] = jar[p]] /\ pc = [pc EXCEPT ![p] = pc[p]]
         /\ pc[p] \in States /\ job[p] \in Job /\ acc[p] \in Account
         /\ jar[p] \in Jar \union {Unread}
  BY DEF TypeOK

\* What holds of a process before each of its steps.
LEMMA Here ==
  ASSUME TypeInv, NEW p \in Procs
  PROVE  /\ TypeOK /\ FilesOK /\ Local(pc[p], job[p], acc[p], licensed, seen)
         /\ job[p] \in Job /\ acc[p] \in Account /\ licensed \subseteq Accounts
         /\ seen \subseteq Macs
  BY Stays DEF TypeInv, TypeOK

\* What the helpers return.
LEMMA HelpersTyped ==
  ASSUME TypeOK, NEW p \in Procs
  PROVE  /\ InMemory(p) \in Jar /\ Written(InMemory(p)) \in Jar
         /\ Known(p) => Mac(p) \in Macs
<1>1. InMemory(p) \in Jar
  BY Stays DEF InMemory, TypeOK
<1>2. Written(InMemory(p)) \in Jar
  BY <1>1 DEF Written, TypeOK
<1>3. Known(p) => Mac(p) \in Macs
  BY Stays DEF Known, Mac, TypeOK, Job
<1> QED  BY <1>1, <1>2, <1>3

LEMMA ExitTyped ==
  ASSUME TypeInv, NEW p \in Procs, Exit(p), Steady, FilesOK'
  PROVE  TypeInv'
<1>1. Moves(p, "idle", NoJob, NoAccount, Unread)
  BY DEF Exit, Moves
<1> QED  BY <1>1, NothingTyped, MoveTyped

\* The process goes to s with job j.
LEMMA GotoTyped ==
  ASSUME TypeInv, NEW p \in Procs, NEW s \in States, NEW j \in Job, Goto(p, s),
         job' = [job EXCEPT ![p] = j], UNCHANGED <<acc, jar>>, Steady, FilesOK',
         Local(s, j, acc[p], licensed', seen')
  PROVE  TypeInv'
<1>1. TypeOK
  BY DEF TypeInv
<1>2. Moves(p, s, j, acc[p], jar[p])
  BY <1>1, Stays DEF Goto, Moves
<1> QED  BY <1>1, <1>2, Stays, MoveTyped

LEMMA ContinueTyped ==
  ASSUME TypeInv, NEW p \in Procs, NEW s \in States, NEW j \in Job, Continue(p, s, j),
         Steady, FilesOK', Local(s, j, acc[p], licensed', seen')
  PROVE  TypeInv'
<1>1. TypeOK
  BY DEF TypeInv
<1>2. Moves(p, s, j, acc[p], InMemory(p))
  BY <1>1, Stays DEF Goto, Continue, Moves
<1>3. InMemory(p) \in Jar \union {Unread}
  BY <1>1, HelpersTyped
<1> QED  BY <1>1, <1>2, <1>3, Stays, MoveTyped

\* A relogin, as a login, returns an account of the model.
LEMMA GrantedTyped ==
  ASSUME TypeOK, NEW a \in Accounts, NEW r \in BOOLEAN, NEW fresh \in Granted(a, r)
  PROVE  fresh \in Account /\ fresh.id = a /\ fresh.remembered = r
<1>1. Front[a] \in Fronts
  BY DEF Fronts
<1>2. PICK f \in Fronts \union {NoFront} :
        fresh = [id |-> a, token |-> epoch, front |-> f, remembered |-> r]
  BY <1>1 DEF Granted
<1> QED  BY <1>2 DEF Account, TypeOK

-----------------------------------------------------------------------------
(* The actions. In each of the following, what the process leaves in the     *)
(* files is typed, and where it goes its job and its account are in place.   *)

Counts == faults' \in 0..MaxFaults

LEMMA RunStep ==
  ASSUME TypeInv, NEW p \in Procs, Run(p), Counts
  PROVE  TypeInv'
<1>1. TypeOK /\ Local(pc[p], job[p], acc[p], licensed, seen) /\ licensed \subseteq Accounts
  BY Here
<1>2. Steady /\ FilesOK'
  BY <1>1, Here DEF Run, Steady, Counts, world, files, FilesOK
<1>3. PICK c \in Commands[p] :
        /\ job' = [job EXCEPT ![p] = Begun(NoJob, c)]
        /\ Goto(p, CASE c.cmd = "login"  -> "reset"
                     [] c.cmd = "revoke" -> "revoke"
                     [] c.cmd = "search" -> "search"
                     [] OTHER            -> "load")
  BY DEF Run, Begun
<1>4. c \in Command /\ c.cmd \in {"login", "revoke", "search", "list", "purchase", "download"}
  BY SessionAssumption DEF Command
<1> DEFINE j == Begun(NoJob, c)
           s == CASE c.cmd = "login"  -> "reset"
                  [] c.cmd = "revoke" -> "revoke"
                  [] c.cmd = "search" -> "search"
                  [] OTHER            -> "load"
<1>5. j \in Job /\ j.cmd = c.cmd /\ j.rounds = 0 /\ ~j.bought /\ ~j.relogged /\ j.mac = None
      /\ ~j.unpinned
  BY <1>4, NothingTyped, JobBegun DEF NoJob
<1>6. s \in {"reset", "revoke", "search", "load"}
  OBVIOUS
<1>7. /\ s = "reset" <=> c.cmd = "login"
      /\ s = "revoke" <=> c.cmd = "revoke"
      /\ s = "search" <=> c.cmd = "search"
  OBVIOUS
<1> HIDE DEF j, s
<1>8. Local(s, j, acc[p], licensed', seen')
  BY <1>4, <1>5, <1>6, <1>7 DEF Local, InPlace, Counted, Entitled, Traced, Spent, Saving
<1>9. s \in States
  BY <1>6 DEF States
<1>10. Goto(p, s) /\ job' = [job EXCEPT ![p] = j] /\ UNCHANGED <<acc, jar>>
  BY <1>3 DEF Run, s, j
<1> QED  BY <1>2, <1>5, <1>8, <1>9, <1>10, GotoTyped

LEMMA LookStep ==
  ASSUME TypeInv, NEW p \in Procs, Look(p), Counts
  PROVE  TypeInv'
<1>1. TypeOK /\ Local(pc[p], job[p], acc[p], licensed, seen) /\ FilesOK /\ job[p] \in Job
  BY Here
<1> DEFINE j == [job[p] EXCEPT !.mac = hw, !.unpinned = TRUE]
<1>2. Steady /\ FilesOK'
  <2>1. /\ hw \in Macs /\ seen \subseteq Macs /\ seen' = seen \union {hw}
        /\ UNCHANGED <<hw, epoch, licensed>> /\ licensed \subseteq Accounts
    BY <1>1 DEF Look, world, TypeOK
  <2>2. UNCHANGED <<pin, vault, sidecar, cookies>>
    BY DEF Look, files
  <2> QED  BY <1>1, <2>1, <2>2 DEF FilesOK, Steady, Counts
<1>3. j \in Job /\ Kept(job[p], j) /\ j.mac = hw /\ j.env = None
  <2>1. hw \in Macs \union {None}
    BY <1>1 DEF TypeOK
  <2>2. j \in Job
    BY <1>1, <2>1, JobTyped
  <2> QED  BY <1>1, <2>2 DEF Job, Kept, Look
<1>4. pc[p] # "sealed"
  BY DEF Look, Asks
<1>5. Local(pc[p], j, acc[p], licensed', seen')
  <2> HIDE DEF j
  <2>1. InPlace(pc[p], j)
    BY <1>1, <1>3 DEF Local, InPlace, Kept
  <2>2. Counted(pc[p], j)
    BY <1>1, <1>3 DEF Local, Counted, Kept, Spent
  <2>3. Entitled(pc[p], j, acc[p], licensed')
    BY <1>1, <1>2, <1>3 DEF Local, Entitled, Kept, Steady
  <2>4. hw \in seen' /\ hw \in Macs
    BY <1>1 DEF Look, TypeOK
  <2>5. Traced(pc[p], j, seen')
    BY <1>3, <1>4, <2>4 DEF Traced
  <2> QED  BY <2>1, <2>2, <2>3, <2>5 DEF Local
<1>6. Goto(p, pc[p]) /\ job' = [job EXCEPT ![p] = j] /\ UNCHANGED <<acc, jar>>
  BY <1>1, Stays DEF Look, Goto
<1> HIDE DEF j
<1> QED  BY <1>1, <1>2, <1>3, <1>5, <1>6, Stays, GotoTyped

LEMMA PinStep ==
  ASSUME TypeInv, NEW p \in Procs, NEW m \in {job[p].mac, pin, Torn}, PinMac(p, m), Counts
  PROVE  TypeInv'
<1>1. TypeOK /\ Local(pc[p], job[p], acc[p], licensed, seen) /\ FilesOK /\ job[p] \in Job
  BY Here
<1> DEFINE j == [job[p] EXCEPT !.unpinned = FALSE]
<1>2. Steady
  BY <1>1 DEF PinMac, Steady, world, Counts, TypeOK
<1>3. job[p].mac \in Macs /\ job[p].mac \in seen
  BY <1>1, SessionAssumption DEF PinMac, Local, Traced
<1>4. FilesOK'
  BY <1>1, <1>3, SessionAssumption DEF PinMac, FilesOK
<1>5. j \in Job /\ Kept(job[p], j) /\ j.mac = job[p].mac /\ j.env = job[p].env /\ ~j.unpinned
  <2>1. j \in Job
    BY <1>1, JobTyped
  <2> QED  BY <1>1, <2>1 DEF Job, Kept
<1>6. Local(pc[p], j, acc[p], licensed', seen')
  <2> HIDE DEF j
  <2>1. UNCHANGED <<licensed, seen>>
    BY DEF PinMac, world
  <2> QED  BY <1>1, <1>5, <2>1 DEF Local, InPlace, Counted, Entitled, Traced, Kept, Spent
<1>7. Goto(p, pc[p]) /\ job' = [job EXCEPT ![p] = j] /\ UNCHANGED <<acc, jar>>
  BY <1>1, Stays DEF PinMac, Goto
<1> HIDE DEF j
<1> QED  BY <1>1, <1>2, <1>4, <1>5, <1>6, <1>7, Stays, GotoTyped

LEMMA ResetStep ==
  ASSUME TypeInv, NEW p \in Procs, Reset(p), Counts
  PROVE  TypeInv'
<1>1. TypeOK /\ Local(pc[p], job[p], acc[p], licensed, seen) /\ FilesOK /\ job[p] \in Job
  BY Here
<1>2. Steady /\ FilesOK'
  BY <1>1, Here DEF Reset, Steady, Counts, world, FilesOK, Jar
<1>3. Local("signin", job[p], acc[p], licensed', seen')
  BY <1>1 DEF Reset, world, Local, InPlace, Counted, Entitled, Traced, Saving
<1>4. job' = [job EXCEPT ![p] = job[p]]
  BY <1>1, Stays DEF Reset
<1> QED  BY <1>1, <1>2, <1>3, <1>4, GotoTyped DEF Reset, States

LEMMA SignedInStep ==
  ASSUME TypeInv, NEW p \in Procs, SignedIn(p), Counts
  PROVE  TypeInv'
<1>1. TypeOK /\ Local(pc[p], job[p], acc[p], licensed, seen) /\ FilesOK /\ job[p] \in Job
  BY Here
<1> DEFINE a == job[p].who
           c == [who |-> a, epoch |-> epoch]
           k == Done(job[p])
<1>2. a \in Accounts /\ job[p].remember \in BOOLEAN
  BY <1>1 DEF Job
<1>3. PICK fresh \in Granted(a, job[p].remember) : acc' = [acc EXCEPT ![p] = fresh]
  BY DEF SignedIn
<1>4. fresh \in Account
  BY <1>1, <1>2, GrantedTyped
<1>5. c \in Jar
  BY <1>1, <1>2 DEF TypeOK, Jar, Session
<1>6. Steady /\ FilesOK'
  BY <1>1, <1>5, Here DEF SignedIn, SetCookies, Steady, Counts, world, FilesOK
<1>7. k \in Job /\ Kept(job[p], k) /\ k.env = job[p].env /\ k.mac = None /\ ~k.unpinned
  BY <1>1, DoneTyped
<1>8. pc[p] = "signin" /\ UNCHANGED <<licensed, seen>>
  BY DEF SignedIn, world
<1>9. Local("vault", k, fresh, licensed', seen')
  <2>1. Local("vault", k, acc[p], licensed, seen)
    <3> HIDE DEF k
    <3>1. job[p].cmd = "login" /\ job[p].rounds = 0 /\ ~job[p].bought
      BY <1>1, <1>8 DEF Local, InPlace, Counted
    <3> QED
      BY <1>7, <3>1 DEF Local, InPlace, Counted, Entitled, Traced, Spent, Saving, Kept
  <2>2. k.cmd = "login"
    BY <1>1, <1>7, <1>8 DEF Local, InPlace, Kept
  <2> HIDE DEF k
  <2> QED  BY <1>8, <2>1, <2>2 DEF Local, Entitled, Saving
<1>10. Moves(p, "vault", k, fresh, c)
  BY <1>3 DEF SignedIn, Moves, Goto, SetCookies
<1> HIDE DEF k, c
<1> QED  BY <1>4, <1>5, <1>6, <1>7, <1>9, <1>10, MoveTyped DEF States

LEMMA NotSignedInStep ==
  ASSUME TypeInv, NEW p \in Procs, NotSignedIn(p), Counts
  PROVE  TypeInv'
<1>1. Steady /\ FilesOK'
  BY Here DEF NotSignedIn, Steady, Counts, world, FilesOK, Jar
<1> QED  BY <1>1, ExitTyped DEF NotSignedIn

LEMMA SealStep ==
  ASSUME TypeInv, NEW p \in Procs, Seal(p), Counts
  PROVE  TypeInv'
<1>1. TypeOK /\ Local(pc[p], job[p], acc[p], licensed, seen) /\ FilesOK /\ job[p] \in Job
  BY Here
<1> DEFINE j == [job[p] EXCEPT !.mac = Mac(p)]
<1>2. Steady /\ FilesOK'
  BY <1>1, Here DEF Seal, Steady, Counts, world, files, FilesOK
<1>3. Known(p) /\ pc[p] = "vault" /\ Mac(p) \in Macs /\ UNCHANGED <<licensed, seen>>
  BY <1>1, HelpersTyped DEF Seal, world
<1>4. /\ j \in Job /\ Kept(job[p], j) /\ j.mac = Mac(p) /\ j.env = job[p].env
      /\ j.unpinned = job[p].unpinned
  <2>1. j \in Job
    BY <1>1, <1>3, JobTyped
  <2> QED  BY <1>1, <2>1 DEF Job, Kept
<1>5. job[p].env = None => Mac(p) \in seen
  BY <1>1, <1>3 DEF Mac, Known, Local, Traced, FilesOK
<1>6. Local("sealed", j, acc[p], licensed', seen')
  <2> HIDE DEF j
  <2> QED
    BY <1>1, <1>3, <1>4, <1>5
    DEF Local, InPlace, Counted, Entitled, Traced, Kept, Spent, Saving
<1> HIDE DEF j
<1>7. Goto(p, "sealed") /\ job' = [job EXCEPT ![p] = j] /\ UNCHANGED <<acc, jar>>
  BY DEF Seal, j
<1> QED  BY <1>2, <1>4, <1>6, <1>7, GotoTyped DEF States

\* After account::save the round may start again.
LEMMA ResumeTyped ==
  ASSUME TypeInv, NEW p \in Procs, pc[p] \in Saving, Resume(p), Counts,
         UNCHANGED <<world, seen>>, FilesOK'
  PROVE  TypeInv'
<1>1. TypeOK /\ Local(pc[p], job[p], acc[p], licensed, seen) /\ job[p] \in Job
  BY Here
<1>2. Steady /\ UNCHANGED <<licensed, seen>>
  BY Here DEF world, Steady, Counts
<1> DEFINE k == Done(job[p])
<1>3. k \in Job /\ Kept(job[p], k) /\ k.env = job[p].env /\ k.mac = None /\ ~k.unpinned
  BY <1>1, DoneTyped
<1> HIDE DEF k
<1>4. CASE job[p].cmd = "login"
  BY <1>2, <1>4, ExitTyped DEF Resume
<1>5. CASE job[p].cmd = "purchase"
  <2>1. Local("buy", k, acc[p], licensed', seen')
    BY <1>1, <1>2, <1>3, <1>5 DEF Local, InPlace, Counted, Entitled, Traced, Saving, Kept, Spent
  <2> QED  BY <1>2, <1>3, <1>5, <2>1, GotoTyped DEF Resume, States, k
<1>6. CASE job[p].cmd \notin {"login", "purchase"}
  <2>1. Local("legacy", k, acc[p], licensed', seen')
    <3>1. Spent(k) = Spent(job[p]) /\ Spent(k) \in 0..2 /\ k.rounds \in 0..4
      BY <1>3 DEF Spent, Kept, Job
    <3> QED
      BY <1>1, <1>2, <1>3, <1>6, <3>1 DEF Local, InPlace, Counted, Entitled, Traced, Saving, Kept
  <2> QED  BY <1>2, <1>3, <1>6, <2>1, GotoTyped DEF Resume, States, k
<1> QED  BY <1>4, <1>5, <1>6

LEMMA SaveVaultStep ==
  ASSUME TypeInv, NEW p \in Procs, SaveVault(p), Counts
  PROVE  TypeInv'
<1>1. /\ TypeOK /\ Local(pc[p], job[p], acc[p], licensed, seen) /\ FilesOK /\ job[p] \in Job
      /\ acc[p] \in Account
  BY Here
<1>2. Steady /\ UNCHANGED <<licensed, seen, pin, sidecar, cookies>> /\ pc[p] = "sealed"
  BY Here DEF SaveVault, Steady, Counts, world
<1>3. job[p].mac \in Macs /\ (job[p].env = None => job[p].mac \in seen)
  BY <1>1, <1>2, SessionAssumption DEF Local, Traced
<1>4. FilesOK'
  <2>1. vault' \in Vault /\ vault'.key = job[p].mac /\ (vault'.over <=> job[p].env # None)
    BY <1>1, <1>3 DEF SaveVault, Vault
  <2> QED  BY <1>1, <1>2, <1>3, <2>1 DEF FilesOK
<1> DEFINE k == Done(job[p])
<1>5. k \in Job /\ Kept(job[p], k) /\ k.env = job[p].env /\ k.mac = None /\ ~k.unpinned
  BY <1>1, DoneTyped
<1>6. Local("sidecar", k, acc[p], licensed', seen')
  <2> HIDE DEF k
  <2>1. pc[p] \in Saving /\ "sidecar" \in {"vault", "sidecar"} /\ "sidecar" # "sealed"
    BY <1>2 DEF Saving
  <2>2. Local("sidecar", k, acc[p], licensed, seen)
    BY <1>1, <1>5, <2>1, KeptLocal
  <2> QED  BY <1>2, <2>2
<1> HIDE DEF k
<1>7. Goto(p, "sidecar") /\ job' = [job EXCEPT ![p] = k] /\ UNCHANGED <<acc, jar>>
  BY DEF SaveVault, k
<1> QED  BY <1>2, <1>4, <1>5, <1>6, <1>7, GotoTyped DEF States

LEMMA FailedSaveStep ==
  ASSUME TypeInv, NEW p \in Procs, VaultFails(p) \/ SaveSidecar(p) \/ SidecarFails(p), Counts
  PROVE  TypeInv'
<1>1. acc[p] \in Account /\ FilesOK
  BY Here
<1>2. /\ pc[p] \in Saving /\ Resume(p) /\ UNCHANGED <<world, seen, pin, cookies>>
  BY DEF VaultFails, SaveSidecar, SidecarFails, Saving
<1>3. vault' \in {vault, Torn}
  BY DEF VaultFails, SaveSidecar, SidecarFails
<1>4. sidecar' \in Fronts \union {None}
  BY <1>1 DEF VaultFails, SaveSidecar, SidecarFails, FilesOK, Account
<1>5. FilesOK'
  BY <1>1, <1>2, <1>3, <1>4, SessionAssumption DEF FilesOK
<1> QED  BY <1>2, <1>5, ResumeTyped

LEMMA RevokeStep ==
  ASSUME TypeInv, NEW p \in Procs, Revoke(p), Counts
  PROVE  TypeInv'
<1>1. TypeOK /\ Local(pc[p], job[p], acc[p], licensed, seen) /\ FilesOK /\ job[p] \in Job
  BY Here
<1>2. Steady /\ FilesOK'
  BY <1>1, Here, SessionAssumption DEF Revoke, Steady, Counts, world, FilesOK
<1>3. Local("forget", job[p], acc[p], licensed', seen')
  BY <1>1 DEF Revoke, world, Local, InPlace, Counted, Entitled, Traced, Saving
<1>4. job' = [job EXCEPT ![p] = job[p]]
  BY <1>1, Stays DEF Revoke
<1> QED  BY <1>1, <1>2, <1>3, <1>4, GotoTyped DEF Revoke, States

LEMMA ForgetStep ==
  ASSUME TypeInv, NEW p \in Procs, Forget(p), Counts
  PROVE  TypeInv'
<1>1. Steady /\ FilesOK'
  BY Here DEF Forget, Steady, Counts, world, FilesOK, Jar
<1> QED  BY <1>1, ExitTyped DEF Forget

LEMMA SearchStep ==
  ASSUME TypeInv, NEW p \in Procs, Search(p), Counts
  PROVE  TypeInv'
<1>1. TypeOK /\ Local(pc[p], job[p], acc[p], licensed, seen) /\ FilesOK /\ job[p] \in Job
  BY Here
<1>2. Steady /\ FilesOK' /\ UNCHANGED <<licensed, seen, acc, jar>>
  BY <1>1, Here DEF Search, Steady, Counts, world, files, FilesOK
<1>3. CASE sidecar \in Fronts
  <2> DEFINE j == [job[p] EXCEPT !.front = sidecar]
  <2>1. j \in Job
    BY <1>1, <1>3, JobTyped
  <2>2. Kept(job[p], j) /\ j.mac = job[p].mac /\ j.unpinned = job[p].unpinned /\ j.env = job[p].env
    BY <1>1 DEF Job, Kept
  <2>3. Local("query", j, acc[p], licensed', seen')
    <3> HIDE DEF j
    <3> QED  BY <1>1, <1>2, <2>1, <2>2, KeptLocal
  <2>4. Goto(p, "query") /\ job' = [job EXCEPT ![p] = j]
    BY <1>3 DEF Search
  <2> HIDE DEF j
  <2> QED  BY <1>2, <2>1, <2>3, <2>4, GotoTyped DEF States
<1>4. CASE sidecar \notin Fronts
  <2>1. Local("migrate", job[p], acc[p], licensed', seen')
    BY <1>1, <1>2 DEF Search, Local, InPlace, Counted, Entitled, Traced, Saving
  <2>2. job' = [job EXCEPT ![p] = job[p]]
    BY <1>1, <1>4, Stays DEF Search
  <2> QED  BY <1>1, <1>2, <1>4, <2>1, <2>2, GotoTyped DEF Search, States
<1> QED  BY <1>3, <1>4

\* A vault that was read gives the process its account; what opens it is asked for later.
LEMMA ReadStep ==
  ASSUME TypeInv, NEW p \in Procs, NEW s, ReadVault(p, s), Counts,
         \/ pc[p] = "migrate" /\ s = "backfill"
         \/ pc[p] = "load" /\ s = "open"
  PROVE  TypeInv'
<1>1. /\ TypeOK /\ Local(pc[p], job[p], acc[p], licensed, seen) /\ FilesOK /\ job[p] \in Job
      /\ acc[p] \in Account
  BY Here
<1>2. Steady /\ FilesOK' /\ UNCHANGED <<licensed, seen, jar>>
  BY <1>1, Here DEF ReadVault, Steady, Counts, world, files, FilesOK
<1> DEFINE b == IF vault \in Vault THEN vault.key ELSE None
           a == IF vault \in Vault THEN vault.who ELSE acc[p]
           j == [job[p] EXCEPT !.blob = b]
<1>3. b \in Macs \union {None} /\ a \in Account
  BY <1>1 DEF Vault
<1>4. j \in Job
  BY <1>1, <1>3, JobTyped
<1>5. Kept(job[p], j) /\ j.mac = job[p].mac /\ j.unpinned = job[p].unpinned /\ j.env = job[p].env
  BY <1>1 DEF Job, Kept
<1>6. Moves(p, s, j, a, jar[p])
  BY <1>1, Stays DEF ReadVault, Goto, Moves
<1> HIDE DEF j, b, a
<1>7. Local(s, j, acc[p], licensed, seen)
  BY <1>1, <1>4, <1>5, KeptLocal
<1>8. Local(s, j, a, licensed', seen')
  BY <1>2, <1>7 DEF Local, Entitled, Saving
<1>9. s \in States
  BY DEF States
<1> QED  BY <1>1, <1>2, <1>3, <1>4, <1>6, <1>8, <1>9, Stays, MoveTyped

LEMMA MigrateStep ==
  ASSUME TypeInv, NEW p \in Procs, Migrate(p), Counts
  PROVE  TypeInv'
<1>1. ASSUME pc[p] = "migrate", ReadVault(p, "backfill") PROVE TypeInv'
  BY <1>1, ReadStep
<1>2. CASE NoVault(p)
  <2>1. TypeOK /\ Local(pc[p], job[p], acc[p], licensed, seen) /\ FilesOK /\ job[p] \in Job
    BY Here
  <2>2. Steady /\ FilesOK' /\ UNCHANGED <<licensed, seen, acc, jar>>
    BY <1>2, <2>1, Here DEF NoVault, Steady, Counts, world, files, FilesOK
  <2> DEFINE j == [job[p] EXCEPT !.front = US]
  <2>3. j \in Job
    <3>1. US \in Fronts \union {NoFront}
      BY DEF Fronts
    <3> QED  BY <2>1, <3>1, JobTyped
  <2>4. Kept(job[p], j) /\ j.mac = job[p].mac /\ j.unpinned = job[p].unpinned /\ j.env = job[p].env
    BY <2>1 DEF Job, Kept
  <2>5. Goto(p, "query") /\ job' = [job EXCEPT ![p] = j]
    BY <1>2 DEF NoVault
  <2> HIDE DEF j
  <2>6. Local("query", j, acc[p], licensed', seen')
    BY <2>1, <2>2, <2>3, <2>4, KeptLocal
  <2> QED  BY <2>2, <2>3, <2>5, <2>6, GotoTyped DEF States
<1> QED  BY <1>1, <1>2 DEF Migrate

LEMMA BackfillStep ==
  ASSUME TypeInv, NEW p \in Procs, Backfill(p) \/ BackfillFails(p), Counts
  PROVE  TypeInv'
<1>1. /\ TypeOK /\ Local(pc[p], job[p], acc[p], licensed, seen) /\ FilesOK /\ job[p] \in Job
      /\ acc[p] \in Account /\ US \in Fronts
  BY Here DEF Fronts
<1>2. /\ sidecar' \in Fronts \union {None}
      /\ \E f \in Fronts \union {NoFront} : Asked(p, f)
  <2>1. CASE Backfill(p)
    <3> DEFINE front == IF Opens(p) THEN acc[p].front ELSE NoFront
    <3>1. front \in Fronts \union {NoFront}
      BY <1>1 DEF Account
    <3>2. sidecar' \in Fronts \union {None}
      BY <1>1, <2>1, <3>1 DEF Backfill, FilesOK
    <3>3. Asked(p, IF Opens(p) /\ sidecar' \in Fronts THEN sidecar' ELSE US)
      BY <2>1 DEF Backfill
    <3> QED  BY <1>1, <3>2, <3>3
  <2>2. CASE BackfillFails(p)
    BY <1>1, <2>2 DEF BackfillFails, FilesOK
  <2> QED  BY <2>1, <2>2
<1>3. PICK f \in Fronts \union {NoFront} : Asked(p, f)
  BY <1>2
<1>4. Steady /\ FilesOK' /\ UNCHANGED <<licensed, seen, acc, jar>>
  BY <1>1, <1>2, <1>3, Here DEF Asked, Steady, Counts, world, FilesOK
<1> DEFINE k == Done(job[p])
           j == [k EXCEPT !.front = f]
<1>5. k \in Job /\ Kept(job[p], k) /\ k.env = job[p].env /\ k.mac = None /\ ~k.unpinned
  BY <1>1, DoneTyped
<1>6. Goto(p, "query") /\ job' = [job EXCEPT ![p] = j]
  BY <1>3 DEF Asked
<1> HIDE DEF k
<1>7. j \in Job
  BY <1>5, JobTyped
<1>8. Kept(job[p], j) /\ j.env = job[p].env /\ j.mac = None /\ ~j.unpinned
  BY <1>5 DEF Job, Kept
<1> HIDE DEF j
<1>9. Local("query", j, acc[p], licensed', seen')
  BY <1>1, <1>4, <1>7, <1>8, KeptLocal
<1> QED  BY <1>4, <1>6, <1>7, <1>9, GotoTyped DEF States

\* A request leaves a cookie file of the model.
LEMMA RequestTyped ==
  ASSUME TypeOK, NEW p \in Procs, Request(p)
  PROVE  cookies' \in Jar
  BY HelpersTyped DEF Request

LEMMA QueryStep ==
  ASSUME TypeInv, NEW p \in Procs, Query(p), Counts
  PROVE  TypeInv'
<1>1. TypeOK /\ Local(pc[p], job[p], acc[p], licensed, seen) /\ FilesOK /\ job[p] \in Job
  BY Here
<1>2. Steady /\ FilesOK' /\ UNCHANGED <<licensed, seen>>
  BY <1>1, RequestTyped, Here DEF Query, Steady, Counts, world, FilesOK
<1>3. CASE Exit(p)
  BY <1>2, <1>3, ExitTyped
<1>4. CASE Continue(p, "query", Done(job[p]))
  <2>1. Local("query", Done(job[p]), acc[p], licensed', seen')
    BY <1>1, <1>2, DoneTyped, KeptLocal
  <2> QED  BY <1>1, <1>2, <1>4, <2>1, DoneTyped, ContinueTyped DEF States
<1> QED  BY <1>3, <1>4 DEF Query

LEMMA LoadStep ==
  ASSUME TypeInv, NEW p \in Procs, Load(p), Counts
  PROVE  TypeInv'
<1>1. CASE ReadVault(p, "open")
  <2>1. pc[p] = "load"
    BY DEF Load
  <2> QED  BY <1>1, <2>1, ReadStep
<1>2. CASE vault = None /\ Exit(p) /\ UNCHANGED <<world, seen, files>>
  <2>1. Steady /\ FilesOK'
    BY <1>2, Here DEF Steady, Counts, world, files, FilesOK
  <2> QED  BY <1>2, <2>1, ExitTyped
<1> QED  BY <1>1, <1>2 DEF Load

LEMMA OpenStep ==
  ASSUME TypeInv, NEW p \in Procs, Open(p), Counts
  PROVE  TypeInv'
<1>1. TypeOK /\ Local(pc[p], job[p], acc[p], licensed, seen) /\ FilesOK /\ job[p] \in Job
  BY Here
<1>2. Steady /\ FilesOK' /\ UNCHANGED <<licensed, seen>> /\ pc[p] = "open"
  BY <1>1, Here DEF Open, Steady, Counts, world, files, FilesOK
<1>3. CASE Exit(p)
  BY <1>2, <1>3, ExitTyped
<1>4. ASSUME NEW s \in {"resolve", "query"}, Goto(p, s), job' = [job EXCEPT ![p] = Done(@)],
             UNCHANGED <<acc, jar>>
      PROVE  TypeInv'
  <2>1. Local(s, Done(job[p]), acc[p], licensed', seen')
    BY <1>1, <1>2, <1>4, DoneTyped, KeptLocal
  <2>2. s \in States
    BY <1>4 DEF States
  <2> QED  BY <1>1, <1>2, <1>4, <2>1, <2>2, DoneTyped, GotoTyped
<1> QED  BY <1>3, <1>4 DEF Open

LEMMA ResolveStep ==
  ASSUME TypeInv, NEW p \in Procs, Cached(p) \/ Resolve(p), Counts
  PROVE  TypeInv'
<1>1. TypeOK /\ Local(pc[p], job[p], acc[p], licensed, seen) /\ FilesOK /\ job[p] \in Job
  BY Here
<1>2. Steady /\ FilesOK' /\ UNCHANGED <<licensed, seen>> /\ pc[p] = "resolve"
  BY <1>1, RequestTyped, Here DEF Cached, Resolve, Steady, Counts, world, files, FilesOK
<1>3. Local("guid", job[p], acc[p], licensed', seen')
  BY <1>1, <1>2 DEF Local, InPlace, Counted, Entitled, Traced, Saving
<1>4. CASE Exit(p)
  BY <1>2, <1>4, ExitTyped
<1>5. CASE Continue(p, "guid", job[p])
  BY <1>1, <1>2, <1>3, <1>5, ContinueTyped DEF States
<1>6. CASE Cached(p)
  <2>1. job' = [job EXCEPT ![p] = job[p]] /\ UNCHANGED <<acc, jar>> /\ Goto(p, "guid")
    BY <1>1, <1>6, Stays DEF Cached
  <2> QED  BY <1>1, <1>2, <1>3, <2>1, GotoTyped DEF States
<1> QED  BY <1>4, <1>5, <1>6 DEF Resolve

LEMMA GuidStep ==
  ASSUME TypeInv, NEW p \in Procs, Guid(p), Counts
  PROVE  TypeInv'
<1>1. TypeOK /\ Local(pc[p], job[p], acc[p], licensed, seen) /\ FilesOK /\ job[p] \in Job
  BY Here
<1>2. Steady /\ FilesOK' /\ UNCHANGED <<licensed, seen, acc, jar>> /\ pc[p] = "guid"
  BY <1>1, Here DEF Guid, Steady, Counts, world, files, FilesOK
<1> DEFINE s == CASE job[p].cmd = "list" -> "query" [] job[p].cmd = "purchase" -> "buy"
                  [] OTHER -> "legacy"
           k == Done(job[p])
<1>3. k \in Job /\ Kept(job[p], k) /\ k.env = job[p].env /\ k.mac = None /\ ~k.unpinned
  BY <1>1, DoneTyped
<1>4. Goto(p, s) /\ job' = [job EXCEPT ![p] = k]
  BY DEF Guid
<1>5. /\ job[p].cmd \in {"list", "purchase", "download"} /\ job[p].rounds = 0
      /\ job[p].cmd # "download" => ~job[p].bought
  BY <1>1, <1>2 DEF Local, InPlace, Counted
<1>6. /\ s \in {"query", "buy", "legacy"}
      /\ s = "legacy" => job[p].cmd = "download"
      /\ s = "buy" => job[p].cmd = "purchase"
  BY <1>5
<1> HIDE DEF s, k
<1>7. Local(s, k, acc[p], licensed', seen')
  <2>1. Spent(k) \in 0..2
    BY DEF Spent
  <2> QED  BY <1>3, <1>5, <1>6, <2>1 DEF Local, InPlace, Counted, Entitled, Traced, Saving, Kept
<1> QED  BY <1>2, <1>3, <1>4, <1>6, <1>7, GotoTyped DEF States

\* A request after which the process exits or goes on.
LEMMA AnswerTyped ==
  ASSUME TypeInv, NEW p \in Procs, NEW s \in States, NEW j \in Job, Answer(p, s, j),
         Local(s, j, acc[p], licensed, seen), Counts
  PROVE  TypeInv'
<1>1. Steady /\ FilesOK' /\ UNCHANGED <<licensed, seen>>
  BY RequestTyped, Here DEF Answer, Steady, Counts, world, FilesOK
<1>2. CASE s = "idle"
  BY <1>1, <1>2, ExitTyped DEF Answer
<1>3. CASE s # "idle"
  BY <1>1, <1>3, ContinueTyped DEF Answer
<1> QED  BY <1>2, <1>3

\* Where the loop of cmd_download goes within a round, and how it ends one.
LEMMA TurnLocal ==
  ASSUME TypeInv, NEW p \in Procs, NEW a \in InfoAnswers(p), NEW j \in Job,
         j.cmd = "download", j.rounds <= 1 + Spent(j),
         j.bought = job[p].bought, j.relogged = job[p].relogged, Traced("legacy", j, seen)
  PROVE  /\ Turn(p, a) \in States /\ Local(Turn(p, a), j, acc[p], licensed, seen)
         /\ Local("update", j, acc[p], licensed, seen)
         /\ Local("idle", j, acc[p], licensed, seen)
         /\ Local("redownload", j, acc[p], licensed, seen)
<1>0. \A s \in States \ {"sealed"} : Traced(s, j, seen)
  BY DEF Traced
<1>1. CASE a = "found"
  <2>1. acc[p].id \in licensed
    BY <1>1 DEF InfoAnswers
  <2> QED  BY <1>0, <1>1, <2>1 DEF Turn, Local, InPlace, Counted, Entitled, States, Saving
<1>2. CASE a = "expired" /\ MayRelogin(p)
  <2>1. acc[p].remembered /\ ~j.relogged
    BY <1>2 DEF MayRelogin
  <2> QED  BY <1>0, <1>2, <2>1 DEF Turn, Local, InPlace, Counted, Entitled, States, Saving
<1>3. CASE a = "unlicensed" /\ job[p].buy /\ ~job[p].bought
  BY <1>0, <1>3 DEF Turn, Local, InPlace, Counted, Entitled, States, Saving
<1>4. CASE /\ a # "found" /\ ~(a = "expired" /\ MayRelogin(p))
           /\ ~(a = "unlicensed" /\ job[p].buy /\ ~job[p].bought)
  BY <1>0, <1>4 DEF Turn, Local, InPlace, Counted, Entitled, States, Saving
<1> QED  BY <1>1, <1>2, <1>3, <1>4

LEMMA InfoStep ==
  ASSUME TypeInv, NEW p \in Procs, Info(p), Counts
  PROVE  TypeInv'
<1>1. Local(pc[p], job[p], acc[p], licensed, seen) /\ job[p] \in Job
  BY Here
<1>2. PICK a \in InfoAnswers(p) : Legacy(p, a) \/ Redownload(p, a) \/ Update(p, a)
  BY DEF Info
<1>3. job[p].cmd = "download" /\ Traced("legacy", job[p], seen)
  BY <1>1, <1>2 DEF Legacy, Redownload, Update, Local, InPlace, Traced
<1>4. CASE Legacy(p, a)
  <2> DEFINE j == [job[p] EXCEPT !.rounds = @ + 1]
  <2>1. PICK s \in IF a = "empty" THEN {"redownload", "idle"} ELSE {Turn(p, a)} :
          Answer(p, s, j)
    BY <1>4 DEF Legacy
  <2>2. job[p].rounds \in 0..4 /\ job[p].rounds <= Spent(job[p])
    BY <1>1, <1>4 DEF Legacy, Local, Counted, Job
  <2>3. Spent(job[p]) \in 0..2
    BY DEF Spent
  <2>4. j \in Job
    <3>1. job[p].rounds + 1 \in 0..4
      BY <2>2, <2>3
    <3> QED  BY <1>1, <3>1, JobTyped
  <2>5. /\ j.cmd = "download" /\ j.rounds = job[p].rounds + 1
        /\ j.bought = job[p].bought /\ j.relogged = job[p].relogged
        /\ j.env = job[p].env /\ j.mac = job[p].mac /\ j.unpinned = job[p].unpinned
    BY <1>1, <1>3 DEF Job
  <2> HIDE DEF j
  <2>6. j.rounds <= 1 + Spent(j)
    BY <2>2, <2>3, <2>5 DEF Spent
  <2>7. Traced("legacy", j, seen)
    BY <1>3, <2>5 DEF Traced
  <2>8. s \in States /\ Local(s, j, acc[p], licensed, seen)
    BY <2>1, <2>4, <2>5, <2>6, <2>7, TurnLocal DEF States
  <2> QED  BY <2>1, <2>4, <2>8, AnswerTyped
<1>5. job[p].rounds <= 1 + Spent(job[p])
  BY <1>1 DEF Local, Counted
<1>6. CASE Redownload(p, a)
  <2> DEFINE s == IF a = "unparsed" THEN "update" ELSE Turn(p, a)
  <2>1. Answer(p, s, job[p])
    BY <1>6 DEF Redownload
  <2>2. s \in States /\ Local(s, job[p], acc[p], licensed, seen)
    BY <1>1, <1>3, <1>5, TurnLocal DEF States
  <2> QED  BY <1>1, <2>1, <2>2, AnswerTyped
<1>7. CASE Update(p, a)
  BY <1>1, <1>3, <1>5, <1>7, TurnLocal, AnswerTyped DEF Update
<1> QED  BY <1>2, <1>4, <1>6, <1>7

LEMMA FetchStep ==
  ASSUME TypeInv, NEW p \in Procs, Fetch(p), Counts
  PROVE  TypeInv'
<1>1. Local(pc[p], job[p], acc[p], licensed, seen) /\ job[p] \in Job
  BY Here
<1>2. PICK s \in {"got", "idle"} : Answer(p, s, job[p])
  BY DEF Fetch
<1>3. Local(s, job[p], acc[p], licensed, seen)
  BY <1>1 DEF Fetch, Local, InPlace, Counted, Entitled, Traced, Saving
<1> QED  BY <1>1, <1>2, <1>3, AnswerTyped DEF States

LEMMA BuyStep ==
  ASSUME TypeInv, NEW p \in Procs, Buy(p), Counts
  PROVE  TypeInv'
<1>1. /\ TypeOK /\ Local(pc[p], job[p], acc[p], licensed, seen) /\ FilesOK /\ job[p] \in Job
      /\ acc[p] \in Account
  BY Here
<1>2. PICK a \in BuyAnswers(p) : Bought(p, a)
  BY DEF Buy
<1> DEFINE s == BuyTurn(p, a)
           b == job[p].bought \/ s = "legacy"
           u == s = "owned" /\ a = "500"
           j == [job[p] EXCEPT !.bought = b, !.assumed = u]
<1>3. /\ pc[p] \in {"buy", "arcade"}
      /\ licensed' = IF a \in {"bought", "lost"} THEN licensed \union {acc[p].id} ELSE licensed
      /\ Request(p)
      /\ IF s = "idle" THEN Exit(p) ELSE Continue(p, s, j)
      /\ UNCHANGED <<hw, epoch, seen, pin, vault, sidecar>>
  BY <1>2, Zenon DEF Bought
<1>4. FilesOK'
  BY <1>1, <1>3, RequestTyped DEF FilesOK
<1>5. Steady
  BY <1>1, <1>3 DEF TypeOK, Account, Steady, Counts
<1>6. a \in {"bought", "already"} => acc[p].id \in licensed'
  BY <1>3 DEF BuyAnswers
<1>7. /\ job[p].cmd \in {"purchase", "download"} /\ ~job[p].bought
      /\ job[p].rounds \in 0..4 /\ job[p].rounds <= 1 + Spent(job[p])
      /\ job[p].cmd # "download" => job[p].rounds = 0
      /\ Traced(pc[p], job[p], seen)
  BY <1>1, <1>3 DEF Local, InPlace, Counted, Job
<1>8. /\ s \in {"owned", "legacy", "arcade", "relogin", "idle"}
      /\ s = "owned" => (acc[p].id \in licensed' \/ u) /\ job[p].cmd = "purchase"
      /\ s = "legacy" => job[p].cmd = "download"
      /\ s = "relogin" => MayRelogin(p)
  BY <1>6, <1>7 DEF BuyTurn
<1>9. /\ b \in BOOLEAN /\ u \in BOOLEAN
      /\ j \in Job
  <2>1. b \in BOOLEAN /\ u \in BOOLEAN
    BY <1>1 DEF Job
  <2> HIDE DEF b, u
  <2> QED  BY <1>1, <2>1, JobTyped
<1>10. /\ j.cmd = job[p].cmd /\ j.rounds = job[p].rounds /\ j.relogged = job[p].relogged
       /\ j.env = job[p].env /\ j.mac = job[p].mac /\ j.unpinned = job[p].unpinned
       /\ j.bought = b /\ j.assumed = u
  <2> HIDE DEF b, u, s
  <2> QED  BY <1>1 DEF Job
<1>11. b <=> s = "legacy"
  BY <1>7
<1> HIDE DEF s, b, u, j
<1>12. CASE s = "idle"
  BY <1>3, <1>4, <1>5, <1>12, ExitTyped
<1>13. CASE s # "idle"
  <2>1. Spent(j) = Spent(job[p]) + (IF s = "legacy" THEN 1 ELSE 0) /\ Spent(job[p]) \in 0..1
    BY <1>7, <1>10, <1>11 DEF Spent
  <2>2. InPlace(s, j)
    BY <1>7, <1>8, <1>10 DEF InPlace, Saving
  <2>3. Counted(s, j)
    <3>1. s = "relogin" => ~job[p].relogged
      BY <1>8 DEF MayRelogin
    <3> QED  BY <1>7, <1>8, <1>10, <1>11, <2>1, <3>1 DEF Counted, Saving
  <2>4. Entitled(s, j, acc[p], licensed')
    BY <1>8, <1>10, <1>13 DEF Entitled, Saving, MayRelogin
  <2>5. Traced(s, j, seen')
    BY <1>3, <1>7, <1>8, <1>10 DEF Traced
  <2>6. s \in States
    BY <1>8 DEF States
  <2>7. Continue(p, s, j)
    BY <1>3, <1>13
  <2>8. Local(s, j, acc[p], licensed', seen')
    BY <2>2, <2>3, <2>4, <2>5 DEF Local
  <2> QED  BY <1>4, <1>5, <1>9, <2>6, <2>7, <2>8, ContinueTyped
<1> QED  BY <1>12, <1>13

LEMMA ReportStep ==
  ASSUME TypeInv, NEW p \in Procs, Report(p), Counts
  PROVE  TypeInv'
<1>1. Steady /\ FilesOK'
  BY Here DEF Report, Steady, Counts, world, files, FilesOK
<1> QED  BY <1>1, ExitTyped DEF Report

LEMMA ReloggedStep ==
  ASSUME TypeInv, NEW p \in Procs, Relogged(p), Counts
  PROVE  TypeInv'
<1>1. /\ TypeOK /\ Local(pc[p], job[p], acc[p], licensed, seen) /\ FilesOK /\ job[p] \in Job
      /\ acc[p] \in Account
  BY Here
<1>2. PICK fresh \in Granted(acc[p].id, acc[p].remembered) : acc' = [acc EXCEPT ![p] = fresh]
  BY DEF Relogged
<1> DEFINE c == [who |-> acc[p].id, epoch |-> epoch]
           k == Done(job[p])
           j == [k EXCEPT !.relogged = TRUE]
<1>3. acc[p].id \in Accounts /\ acc[p].remembered \in BOOLEAN
  BY <1>1 DEF Account
<1>4. fresh \in Account /\ fresh.remembered = acc[p].remembered
  BY <1>1, <1>3, GrantedTyped
<1>5. c \in Jar
  BY <1>1, <1>3 DEF TypeOK, Jar, Session
<1>6. Steady /\ FilesOK' /\ UNCHANGED <<licensed, seen>> /\ pc[p] = "relogin"
  BY <1>1, <1>5, Here DEF Relogged, SetCookies, Steady, Counts, world, FilesOK
<1>7. k \in Job /\ Kept(job[p], k) /\ k.env = job[p].env /\ k.mac = None /\ ~k.unpinned
  BY <1>1, DoneTyped
<1>8. Moves(p, "vault", j, fresh, c)
  BY <1>2 DEF Relogged, SetCookies, Goto, Moves
<1> HIDE DEF k
<1>9. j \in Job
  BY <1>7, JobTyped
<1>10. /\ j.relogged /\ j.bought = job[p].bought /\ j.rounds = job[p].rounds
       /\ j.cmd = job[p].cmd /\ j.mac = None /\ ~j.unpinned
  BY <1>7 DEF Job, Kept
<1> HIDE DEF j, c
<1>11. Local("vault", j, fresh, licensed', seen')
  <2>1. /\ acc[p].remembered /\ ~job[p].relogged /\ job[p].rounds \in 0..4
        /\ job[p].cmd \in {"purchase", "download"} /\ job[p].rounds <= 1 + Spent(job[p])
        /\ job[p].cmd # "download" => job[p].rounds = 0 /\ ~job[p].bought
    BY <1>1, <1>6 DEF Local, InPlace, Counted, Entitled, Job
  <2>2. Spent(j) = 1 + Spent(job[p])
    BY <1>10, <2>1 DEF Spent
  <2>3. Spent(job[p]) \in 0..2
    BY DEF Spent
  <2>4. fresh.remembered
    BY <1>4, <2>1
  <2> QED
    BY <1>10, <2>1, <2>2, <2>3, <2>4 DEF Local, InPlace, Counted, Entitled, Traced, Saving
<1> QED  BY <1>4, <1>5, <1>6, <1>8, <1>9, <1>11, MoveTyped DEF States

LEMMA NotReloggedStep ==
  ASSUME TypeInv, NEW p \in Procs, NotRelogged(p), Counts
  PROVE  TypeInv'
<1>1. Steady /\ FilesOK'
  BY HelpersTyped, Here DEF NotRelogged, Steady, Counts, world, FilesOK, Jar
<1> QED  BY <1>1, ExitTyped DEF NotRelogged

LEMMA KillStep ==
  ASSUME TypeInv, NEW p \in Procs, Kill(p), Counts
  PROVE  TypeInv'
<1>1. Steady /\ FilesOK'
  BY Here, SessionAssumption DEF Kill, Steady, Counts, world, files, FilesOK
<1> QED  BY <1>1, ExitTyped DEF Kill

LEMMA WorldStep ==
  ASSUME TypeInv, ((Expire \/ Replug) /\ UNCHANGED faults) \/ UNCHANGED vars
  PROVE  TypeInv'
<1>1. TypeOK'
  BY SessionAssumption DEF TypeInv, TypeOK, Expire, Replug, vars, files, Epochs
<1>2. FilesOK'
  BY DEF TypeInv, FilesOK, Expire, Replug, vars, files
<1>3. \A p \in Procs : Local(pc'[p], job'[p], acc'[p], licensed', seen')
  BY DEF TypeInv, Expire, Replug, vars
<1> QED  BY <1>1, <1>2, <1>3 DEF TypeInv

LEMMA InitTyped == Init => TypeInv
<1> SUFFICES ASSUME Init PROVE TypeInv
  OBVIOUS
<1>1. /\ faults \in 0..MaxFaults /\ hw \in Macs /\ epoch \in Epochs /\ licensed \subseteq Accounts
      /\ seen \subseteq Macs
  BY SessionAssumption DEF Init, Epochs
<1>2. FilesOK
  <2>1. CASE pin = None /\ vault = None /\ sidecar = None /\ cookies = None
    BY <2>1, SessionAssumption DEF FilesOK, Jar
  <2>2. ASSUME pin \in Macs, seen = {pin}, NEW a \in Before, NEW r \in BOOLEAN,
               vault = [who |-> [id |-> a, token |-> 0, front |-> Front[a], remembered |-> r],
                        key |-> pin, over |-> FALSE],
               sidecar \in {None, Front[a]}, cookies = [who |-> a, epoch |-> 0]
        PROVE  FilesOK
    <3>1. a \in Accounts /\ 0 \in Epochs /\ Front[a] \in Fronts
      BY SessionAssumption DEF Epochs, Fronts
    <3>2. [id |-> a, token |-> 0, front |-> Front[a], remembered |-> r] \in Account
      BY <3>1 DEF Account
    <3>3. vault \in Vault /\ cookies \in Jar /\ sidecar \in Fronts \union {None}
      BY <2>2, <3>1, <3>2 DEF Vault, Jar, Session
    <3> QED  BY <2>2, <3>3 DEF FilesOK
  <2> QED  BY <2>1, <2>2 DEF Init
<1>3. /\ pc \in [Procs -> States] /\ job \in [Procs -> Job] /\ acc \in [Procs -> Account]
      /\ jar \in [Procs -> Jar \union {Unread}]
  BY NothingTyped DEF Init
<1>4. \A p \in Procs : Local(pc[p], job[p], acc[p], licensed, seen)
  BY NothingTyped DEF Init
<1> QED  BY <1>1, <1>2, <1>3, <1>4 DEF TypeInv, TypeOK, FilesOK

LEMMA TypeStep == TypeInv /\ [Next]_vars => TypeInv'
<1> SUFFICES ASSUME TypeInv, [Next]_vars PROVE TypeInv'
  OBVIOUS
<1>1. CASE ((Expire \/ Replug) /\ UNCHANGED faults) \/ UNCHANGED vars
  BY <1>1, WorldStep
<1>2. ASSUME NEW p \in Procs, Work(p) PROVE TypeInv'
  <2>1. Counts
    BY <1>2 DEF Work, Counts, TypeInv, TypeOK
  <2>2. CASE Run(p) \/ Look(p) \/ PinMac(p, job[p].mac) \/ Reset(p) \/ SignedIn(p)
             \/ NotSignedIn(p) \/ Seal(p) \/ SaveVault(p) \/ SaveSidecar(p)
    BY <2>1, <2>2, RunStep, LookStep, PinStep, ResetStep, SignedInStep, NotSignedInStep,
       SealStep, SaveVaultStep, FailedSaveStep
  <2>3. CASE Revoke(p) \/ Forget(p) \/ Search(p) \/ Migrate(p) \/ Backfill(p) \/ Query(p)
             \/ Load(p) \/ Open(p) \/ Cached(p) \/ Resolve(p) \/ Guid(p)
    BY <2>1, <2>3, RevokeStep, ForgetStep, SearchStep, MigrateStep, BackfillStep, QueryStep,
       LoadStep, OpenStep, ResolveStep, GuidStep
  <2>4. CASE Info(p) \/ Fetch(p) \/ Buy(p) \/ Report(p) \/ Relogged(p) \/ NotRelogged(p)
    BY <2>1, <2>4, InfoStep, FetchStep, BuyStep, ReportStep, ReloggedStep, NotReloggedStep
  <2> QED  BY <1>2, <2>2, <2>3, <2>4 DEF Work, Steps
<1>3. ASSUME NEW p \in Procs, Fault(p) PROVE TypeInv'
  <2>1. Counts
    BY <1>3, SessionAssumption DEF Fault, Counts, TypeInv, TypeOK
  <2>2. CASE \E m \in {pin, Torn} : PinMac(p, m)
    BY <2>1, <2>2, PinStep
  <2>3. CASE VaultFails(p) \/ SidecarFails(p) \/ BackfillFails(p) \/ Kill(p)
    BY <2>1, <2>3, FailedSaveStep, BackfillStep, KillStep
  <2> QED  BY <1>3, <2>2, <2>3 DEF Fault
<1> QED  BY <1>1, <1>2, <1>3 DEF Next

\* Every variable keeps its type, whatever the processes do at the same time; in particular
\* no file ever holds what perun could not have written (account.rs, cookie_jar.rs, mod.rs).
THEOREM TypeCorrect == Spec => []TypeOK
<1>1. TypeInv => TypeOK
  BY DEF TypeInv
<1> QED  BY <1>1, InitTyped, TypeStep, PTL DEF Spec

\* The loop of cmd_download ends after three rounds, whatever Apple answers.
THEOREM RoundsBounded == Spec => []ThreeRounds
<1>1. TypeInv => ThreeRounds
  <2> SUFFICES ASSUME TypeInv, NEW p \in Procs PROVE job[p].rounds <= 3
    BY DEF ThreeRounds
  <2>1. job[p].rounds \in 0..4 /\ job[p].rounds <= 1 + Spent(job[p])
    BY Here DEF Local, Counted, Job
  <2>2. Spent(job[p]) \in 0..2
    BY DEF Spent
  <2> QED  BY <2>1, <2>2
<1> QED  BY <1>1, InitTyped, TypeStep, PTL DEF Spec

\* A command that reports success has a licence to report, unless a purchase took a bare 500,
\* which Apple may send for any account, for "already owned" (cmd_purchase, cmd_download).
THEOREM SuccessMeansLicence == Spec => []LicensedWhenReported
<1>1. TypeInv => LicensedWhenReported
  BY DEF TypeInv, Local, Entitled, LicensedWhenReported
<1> QED  BY <1>1, InitTyped, TypeStep, PTL DEF Spec

\* However the writers of the pin and of the vault interleave, fail and are killed, with and
\* without PERUN_MAC, and whatever becomes of the hardware once an address is pinned, the vault
\* that a run without PERUN_MAC wrote opens with the pinned address, as long as the looks at
\* the hardware while there was no pin agreed (mod.rs, account.rs).
THEOREM VaultKept == Spec => []VaultOpens
<1>1. TypeInv => VaultOpens
  BY DEF TypeInv, FilesOK, VaultOpens, Agreed
<1> QED  BY <1>1, InitTyped, TypeStep, PTL DEF Spec

-----------------------------------------------------------------------------
(* The remembered password.                                                  *)

LEMMA VaultWritten ==
  ASSUME TypeInv, [Next]_vars
  PROVE  \/ vault' \in {vault, Torn}
         \/ \E p \in Procs : Revoke(p) \/ SaveVault(p)
<1>1. ASSUME NEW p \in Procs, Steps(p), ~SaveVault(p), ~Revoke(p) PROVE vault' = vault
  <2>1. CASE Info(p)
    BY <2>1 DEF Info, Legacy, Redownload, Update, Answer
  <2>2. CASE Buy(p)
    BY <2>2, Zenon DEF Buy, Bought
  <2>3. CASE Fetch(p)
    BY <2>3 DEF Fetch, Answer
  <2>4. CASE Run(p) \/ Look(p) \/ Seal(p) \/ Search(p) \/ Open(p) \/ Cached(p) \/ Guid(p)
             \/ Report(p)
    BY <2>4 DEF Run, Look, Seal, Search, Open, Cached, Guid, Report, files
  <2>5. CASE Migrate(p) \/ Load(p)
    BY <2>5 DEF Migrate, NoVault, ReadVault, Load, files
  <2>6. CASE PinMac(p, job[p].mac) \/ Backfill(p) \/ Reset(p) \/ Query(p) \/ Resolve(p)
             \/ Relogged(p) \/ NotRelogged(p)
    BY <2>6 DEF PinMac, Backfill, Asked, Reset, Query, Resolve, Relogged, NotRelogged
  <2>7. CASE SignedIn(p) \/ NotSignedIn(p) \/ SaveSidecar(p) \/ Forget(p)
    BY <2>7 DEF SignedIn, NotSignedIn, SaveSidecar, Forget
  <2> QED  BY <1>1, <2>1, <2>2, <2>3, <2>4, <2>5, <2>6, <2>7 DEF Steps
<1>2. ASSUME NEW p \in Procs, Fault(p) PROVE vault' \in {vault, Torn}
  BY <1>2 DEF Fault, PinMac, VaultFails, SidecarFails, BackfillFails, Asked, Kill, files
<1>3. CASE Expire \/ Replug \/ UNCHANGED vars
  BY <1>3 DEF Expire, Replug, files, vars
<1> QED  BY <1>1, <1>2, <1>3 DEF Next, Work

LEMMA PasswordStep ==
  TypeInv /\ [Next]_vars => [Remembered => Remembered' \/ vault' = Torn \/ UserActs]_vars
<1> SUFFICES ASSUME TypeInv, [Next]_vars, Remembered, vault' \notin {vault, Torn}
             PROVE  Remembered' \/ UserActs
  BY DEF Remembered
<1>1. ASSUME NEW p \in Procs, SaveVault(p) PROVE Remembered' \/ UserActs
  <2>1. /\ TypeOK /\ Local(pc[p], job[p], acc[p], licensed, seen) /\ job[p] \in Job
        /\ acc[p] \in Account /\ pc[p] = "sealed"
    BY <1>1, Here DEF SaveVault
  <2>2. CASE job[p].cmd = "login"
    <3>1. pc'[p] = "sidecar"
      BY <1>1, <2>1 DEF SaveVault, Goto, TypeOK
    <3> QED  BY <2>1, <2>2, <3>1 DEF UserActs
  <2>3. CASE acc[p].remembered
    <3>1. job[p].mac \in Macs
      BY <2>1 DEF Local, Traced
    <3>2. vault' \in Vault /\ vault'.who = acc[p]
      BY <1>1, <2>1, <3>1 DEF SaveVault, Vault
    <3> QED  BY <2>3, <3>2 DEF Remembered
  <2> QED  BY <2>1, <2>2, <2>3 DEF Local, Entitled, Saving
<1>2. ASSUME NEW p \in Procs, Revoke(p) PROVE UserActs
  <2>1. TypeOK /\ Local(pc[p], job[p], acc[p], licensed, seen)
    BY Here
  <2>2. job[p].cmd = "revoke" /\ pc[p] = "revoke" /\ pc'[p] = "forget"
    BY <1>2, <2>1 DEF Revoke, Goto, TypeOK, Local, InPlace
  <2> QED  BY <2>2 DEF UserActs
<1> QED  BY <1>1, <1>2, VaultWritten

\* Only the user's own login or revocation, or a crash that cuts the vault short, costs the
\* remembered password: no silent relogin of any process does (relogin_if_possible).
THEOREM PasswordSurvives == Spec => PasswordKept
<1> QED  BY InitTyped, TypeStep, PasswordStep, PTL DEF Spec, PasswordKept

=============================================================================
