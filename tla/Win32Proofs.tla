---------------------------- MODULE Win32Proofs ----------------------------
(***************************************************************************)
(* Proofs about the Windows guest: the shims (events and mutexes, files    *)
(* and directory searches, thread-local slots and virtual memory), for any *)
(* number of addresses, descriptors, paths, indices and pages, any width   *)
(* of the bitmap and any bound of the counters; the loader and the         *)
(* commands, for any files and command lines; and the type of the whole.   *)
(***************************************************************************)
EXTENDS Win32, TLAPS, FiniteSetTheorems, SequenceTheorems

\* What a function is with one value changed.
LEMMA Changed ==
  ASSUME NEW f, NEW a, NEW b, NEW g, g = [f EXCEPT ![a] = b]
  PROVE  /\ DOMAIN g = DOMAIN f
         /\ a \in DOMAIN f => g[a] = b
         /\ \A x \in DOMAIN f : x # a => g[x] = f[x]
OBVIOUS

-----------------------------------------------------------------------------
\* The objects of the two kinds of guest.
SyncKinds ==
  [kind : {"event"}, manual : BOOLEAN, signaled : BOOLEAN] \union [kind : {"mutex"}, locked : BOOLEAN]
FileKinds ==
  [kind : {"file"}, fd : Fds, shared : BOOLEAN] \union [kind : {"dir"}, fd : Fds]

LEMMA KindsMeet == SyncKinds \subseteq Kinds /\ FileKinds \subseteq Kinds
BY DEF SyncKinds, FileKinds, Kinds

\* An object of one kind has the fields of that kind.
LEMMA EventFields ==
  ASSUME NEW o \in SyncKinds, o.kind = "event"
  PROVE  o \in [kind : {"event"}, manual : BOOLEAN, signaled : BOOLEAN]
BY DEF SyncKinds
LEMMA MutexFields ==
  ASSUME NEW o \in SyncKinds, o.kind = "mutex"
  PROVE  o \in [kind : {"mutex"}, locked : BOOLEAN]
BY DEF SyncKinds

\* An event that is made signaled or not is an event still, and so is a mutex a mutex.
LEMMA EventSet ==
  ASSUME NEW o \in SyncKinds, o.kind = "event", NEW b \in BOOLEAN, NEW e, e = [o EXCEPT !.signaled = b]
  PROVE  e \in SyncKinds /\ e.kind = "event" /\ e.manual = o.manual /\ e.signaled = b
<1>1. o \in [kind : {"event"}, manual : BOOLEAN, signaled : BOOLEAN]
  BY EventFields
<1> QED  BY <1>1 DEF SyncKinds

LEMMA MutexSet ==
  ASSUME NEW o \in SyncKinds, o.kind = "mutex", NEW b \in BOOLEAN, NEW e, e = [o EXCEPT !.locked = b]
  PROVE  e \in SyncKinds /\ e.kind = "mutex"
<1>1. o \in [kind : {"mutex"}, locked : BOOLEAN]
  BY MutexFields
<1> QED  BY <1>1 DEF SyncKinds

-----------------------------------------------------------------------------
(***************************************************************************)
(* Synchronisation. An event and its history live and die together: what   *)
(* `obj` has, how often its events were signaled and what they woke. One   *)
(* call can both signal and wait, so the history is of any objects.        *)
(***************************************************************************)
History(obj, sig, wak) ==
  /\ DOMAIN obj \subseteq Addresses /\ \A h \in DOMAIN obj : obj[h] \in SyncKinds
  /\ DOMAIN sig = {h \in DOMAIN obj : obj[h].kind = "event"} /\ DOMAIN wak = DOMAIN sig
  /\ \A h \in DOMAIN sig : sig[h] \in 0..MaxSignals /\ wak[h] \in 0..MaxSignals
  /\ \A h \in DOMAIN sig : ~obj[h].manual =>
       wak[h] + (IF obj[h].signaled THEN 1 ELSE 0) <= sig[h]

\* The behaviours of the other shims have no event.
SyncInv ==
  /\ parked \in BOOLEAN
  /\ DOMAIN section \subseteq Sections
  /\ \A s \in DOMAIN section : section[s] \in 0..MaxSignals
  /\ focus = "sync" => History(object, signals, wakes)
  /\ focus # "sync" => DOMAIN signals = {} /\ DOMAIN wakes = {}

LEMMA InitSync == Init => SyncInv
<1> SUFFICES ASSUME Init PROVE SyncInv
  OBVIOUS
<1>1. DOMAIN object = {} /\ DOMAIN section = {} /\ DOMAIN signals = {} /\ DOMAIN wakes = {} /\ parked = FALSE
  BY DEF Init, HandlesInit, SyncInit
<1> QED  BY <1>1 DEF SyncInv, History

\* An object more: an event begins with the signal it was made with.
LEMMA BornHistory ==
  ASSUME NEW obj, NEW sig, NEW wak, History(obj, sig, wak),
         NEW h \in Addresses \ DOMAIN obj, NEW o \in SyncKinds, NEW n, NEW obj2, NEW sig2, NEW wak2,
         obj2 = With(obj, h, o),
         \/ /\ o.kind = "event" /\ n \in 0..1 /\ (o.signaled => n = 1)
            /\ sig2 = With(sig, h, n) /\ wak2 = With(wak, h, 0)
         \/ o.kind # "event" /\ sig2 = sig /\ wak2 = wak
  PROVE  History(obj2, sig2, wak2)
<1>1. /\ DOMAIN obj2 = DOMAIN obj \union {h} /\ obj2[h] = o
      /\ \A g \in DOMAIN obj : g # h => obj2[g] = obj[g]
  BY DEF With
<1>2. h \notin DOMAIN sig /\ \A g \in DOMAIN sig : g \in DOMAIN obj /\ g # h
  BY DEF History
<1>3. CASE o.kind = "event"
  <2>1. /\ DOMAIN sig2 = DOMAIN sig \union {h} /\ sig2[h] = n /\ n \in 0..1 /\ (o.signaled => n = 1)
        /\ \A g \in DOMAIN sig : g # h => sig2[g] = sig[g]
        /\ DOMAIN wak2 = DOMAIN wak \union {h} /\ wak2[h] = 0
        /\ \A g \in DOMAIN wak : g # h => wak2[g] = wak[g]
    BY <1>3 DEF With
  <2>2. \A g \in DOMAIN sig2 : sig2[g] \in 0..MaxSignals /\ wak2[g] \in 0..MaxSignals
    BY <1>2, <2>1, SyncAssumption DEF History
  <2>3. \A g \in DOMAIN sig2 : ~obj2[g].manual => wak2[g] + (IF obj2[g].signaled THEN 1 ELSE 0) <= sig2[g]
    BY <1>1, <1>2, <2>1 DEF History
  <2> QED  BY <1>1, <1>2, <1>3, <2>1, <2>2, <2>3 DEF History
<1>4. CASE o.kind # "event"
  BY <1>1, <1>2, <1>4 DEF History
<1> QED  BY <1>3, <1>4

\* An object changed within its kind: the counts of an event move with its signal.
LEMMA SetHistory ==
  ASSUME NEW obj, NEW sig, NEW wak, History(obj, sig, wak),
         NEW h \in DOMAIN obj, NEW o \in SyncKinds, NEW obj2, NEW sig2, NEW wak2,
         obj2 = [obj EXCEPT ![h] = o], o.kind = obj[h].kind,
         o.kind = "event" => o.manual = obj[h].manual,
         \/ /\ o.kind = "event" /\ sig2 = [sig EXCEPT ![h] = sig[h] + 1] /\ sig[h] < MaxSignals /\ wak2 = wak
         \/ /\ o.kind = "event" /\ wak2 = [wak EXCEPT ![h] = wak[h] + 1] /\ wak[h] < MaxSignals /\ sig2 = sig
            /\ ~o.manual => ~o.signaled /\ obj[h].signaled
         \/ /\ sig2 = sig /\ wak2 = wak
            /\ o.kind = "event" => ~o.signaled
  PROVE  History(obj2, sig2, wak2)
<1>1. /\ DOMAIN obj2 = DOMAIN obj /\ obj2[h] = o
      /\ \A g \in DOMAIN obj : g # h => obj2[g] = obj[g]
  BY Changed
<1>2. \A g \in DOMAIN sig : /\ g \in DOMAIN obj /\ g \in DOMAIN wak /\ obj[g].kind = "event"
                           /\ sig[g] \in Nat /\ wak[g] \in Nat
  BY SyncAssumption DEF History
<1>3. /\ DOMAIN sig2 = DOMAIN sig /\ \A g \in DOMAIN sig : g # h => sig2[g] = sig[g]
      /\ DOMAIN wak2 = DOMAIN wak /\ \A g \in DOMAIN wak : g # h => wak2[g] = wak[g]
  OBVIOUS
<1>4. o.kind = "event" => h \in DOMAIN sig /\ h \in DOMAIN wak
  BY DEF History
<1>5. \/ o.kind = "event" /\ sig2[h] = sig[h] + 1 /\ sig[h] < MaxSignals /\ wak2[h] = wak[h]
      \/ /\ o.kind = "event" /\ wak2[h] = wak[h] + 1 /\ wak[h] < MaxSignals /\ sig2[h] = sig[h]
         /\ ~o.manual => ~o.signaled /\ obj[h].signaled
      \/ /\ sig2[h] = sig[h] /\ wak2[h] = wak[h]
         /\ o.kind = "event" => ~o.signaled
  BY <1>4
<1>6. \A g \in DOMAIN sig2 : sig2[g] \in 0..MaxSignals /\ wak2[g] \in 0..MaxSignals
  <2> SUFFICES ASSUME NEW g \in DOMAIN sig PROVE sig2[g] \in 0..MaxSignals /\ wak2[g] \in 0..MaxSignals
    BY <1>3
  <2>1. sig[g] \in 0..MaxSignals /\ wak[g] \in 0..MaxSignals
    BY DEF History
  <2>2. CASE g # h
    BY <1>2, <1>3, <2>1, <2>2
  <2>3. CASE g = h
    BY <1>5, <2>1, <2>3, SyncAssumption
  <2> QED  BY <2>2, <2>3
<1>7. \A g \in DOMAIN sig2 : ~obj2[g].manual => wak2[g] + (IF obj2[g].signaled THEN 1 ELSE 0) <= sig2[g]
  <2> SUFFICES ASSUME NEW g \in DOMAIN sig, ~obj2[g].manual
               PROVE  wak2[g] + (IF obj2[g].signaled THEN 1 ELSE 0) <= sig2[g]
    BY <1>3
  <2>1. ~obj[g].manual => wak[g] + (IF obj[g].signaled THEN 1 ELSE 0) <= sig[g]
    BY DEF History
  <2>2. CASE g # h
    BY <1>1, <1>2, <1>3, <2>1, <2>2
  <2>3. CASE g = h
    BY <1>1, <1>2, <1>5, <2>1, <2>3
  <2> QED  BY <2>2, <2>3
<1>8. DOMAIN sig2 = {g \in DOMAIN obj2 : obj2[g].kind = "event"}
  BY <1>1, <1>3 DEF History
<1>9. DOMAIN obj2 \subseteq Addresses /\ (\A g \in DOMAIN obj2 : obj2[g] \in SyncKinds) /\ DOMAIN wak2 = DOMAIN sig2
  BY <1>1, <1>3 DEF History
<1> QED  BY <1>6, <1>7, <1>8, <1>9 DEF History

\* An object less: an event takes its history along.
LEMMA ClosedHistory ==
  ASSUME NEW obj, NEW sig, NEW wak, History(obj, sig, wak), NEW h, NEW obj2, NEW sig2, NEW wak2,
         DOMAIN obj2 = DOMAIN obj \ {h} /\ \A g \in DOMAIN obj2 : obj2[g] = obj[g],
         DOMAIN sig2 = DOMAIN sig \ {h} /\ \A g \in DOMAIN sig2 : sig2[g] = sig[g],
         DOMAIN wak2 = DOMAIN wak \ {h} /\ \A g \in DOMAIN wak2 : wak2[g] = wak[g]
  PROVE  History(obj2, sig2, wak2)
BY DEF History

\* What a wait makes of the object whose wait it ends.
LEMMA WokenObject ==
  ASSUME NEW o \in SyncKinds, ~Holds(o), NEW e, e = Woken(o)
  PROVE  /\ e \in SyncKinds /\ e.kind = o.kind
         /\ o.kind = "event" => e.manual = o.manual /\ e.signaled = o.manual /\ o.signaled
<1>1. CASE o.kind = "event"
  <2>1. o \in [kind : {"event"}, manual : BOOLEAN, signaled : BOOLEAN]
    BY <1>1, EventFields
  <2>2. PICK b \in BOOLEAN : b = o.manual
    BY <2>1
  <2>3. e = [o EXCEPT !.signaled = b]
    BY <1>1, <2>2 DEF Woken
  <2>4. e \in SyncKinds /\ e.kind = "event" /\ e.manual = o.manual /\ e.signaled = b
    BY <1>1, <2>3, EventSet
  <2> QED  BY <1>1, <2>2, <2>4 DEF Holds
<1>2. CASE o.kind = "mutex"
  <2>1. PICK b \in BOOLEAN : b = TRUE
    OBVIOUS
  <2>2. e = [o EXCEPT !.locked = b]
    BY <1>2, <2>1 DEF Woken
  <2> QED  BY <1>2, <2>2, MutexSet
<1>3. CASE o.kind # "event" /\ o.kind # "mutex"
  BY <1>3 DEF Woken
<1> QED  BY <1>1, <1>2, <1>3

LEMMA SignalHistory ==
  ASSUME NEW obj, NEW sig, NEW wak, History(obj, sig, wak), NEW h \in DOMAIN obj, obj[h].kind = "event",
         sig[h] < MaxSignals, NEW obj2, NEW sig2, obj2 = [obj EXCEPT ![h].signaled = TRUE],
         sig2 = [sig EXCEPT ![h] = sig[h] + 1]
  PROVE  History(obj2, sig2, wak)
<1>1. PICK b \in BOOLEAN : b = TRUE
  OBVIOUS
<1>2. PICK e : e = [obj[h] EXCEPT !.signaled = b]
  OBVIOUS
<1>3. e \in SyncKinds /\ e.kind = "event" /\ e.manual = obj[h].manual
  BY <1>2, EventSet DEF History
<1>4. obj2 = [obj EXCEPT ![h] = e]
  BY <1>1, <1>2
<1>5. ASSUME NEW o \in SyncKinds, o.kind = "event", o.manual = obj[h].manual, NEW obj3, obj3 = [obj EXCEPT ![h] = o]
      PROVE  History(obj3, sig2, wak)
  BY <1>5, SetHistory
<1> QED  BY <1>3, <1>4, <1>5

\* What one wait does to the history, whatever has been signaled just before.
LEMMA WaitHistory ==
  ASSUME NEW obj, NEW sig, History(obj, sig, wakes), NEW h, NEW f \in BOOLEAN, Waits(obj, h, f),
         h \in DOMAIN wakes => wakes[h] < MaxSignals
  PROVE  History(object', sig, wakes') /\ (parked \in BOOLEAN => parked' \in BOOLEAN)
<1>1. CASE h \notin DOMAIN obj \/ Holds(obj[h])
  <2>1. object' = obj /\ wakes' = wakes /\ (parked \in BOOLEAN => parked' \in BOOLEAN)
    BY <1>1 DEF Waits
  <2> QED  BY <2>1
<1>2. CASE h \in DOMAIN obj /\ ~Holds(obj[h])
  <2>1. PICK e : e = Woken(obj[h])
    OBVIOUS
  <2>2. /\ e \in SyncKinds /\ e.kind = obj[h].kind
        /\ obj[h].kind = "event" => e.manual = obj[h].manual /\ e.signaled = obj[h].manual /\ obj[h].signaled
    BY <1>2, <2>1, WokenObject DEF History
  <2>3. /\ object' = [obj EXCEPT ![h] = e]
        /\ wakes' = IF h \in DOMAIN wakes THEN [wakes EXCEPT ![h] = wakes[h] + 1] ELSE wakes
        /\ UNCHANGED parked
    BY <1>2, <2>1 DEF Waits
  <2>4. h \in DOMAIN wakes <=> obj[h].kind = "event"
    BY <1>2 DEF History
  <2>5. CASE obj[h].kind = "event"
    <3>1. /\ e.kind = "event" /\ wakes' = [wakes EXCEPT ![h] = wakes[h] + 1] /\ wakes[h] < MaxSignals
          /\ ~e.manual => ~e.signaled /\ obj[h].signaled
      BY <2>2, <2>3, <2>4, <2>5
    <3> QED  BY <1>2, <2>2, <2>3, <2>5, <3>1, SetHistory
  <2>6. CASE obj[h].kind # "event"
    BY <1>2, <2>2, <2>3, <2>4, <2>6, SetHistory
  <2> QED  BY <2>3, <2>5, <2>6
<1> QED  BY <1>1, <1>2

\* One lemma per call.
LEMMA CreateEventKeeps ==
  ASSUME SyncInv, focus = "sync", focus' = focus, NEW m \in BOOLEAN, NEW s \in BOOLEAN, CreateEvent(m, s)
  PROVE  SyncInv'
<1>1. PICK o, n : o = [kind |-> "event", manual |-> m, signaled |-> s] /\ n = IF s THEN 1 ELSE 0
  OBVIOUS
<1>2. o \in SyncKinds /\ o.kind = "event" /\ n \in 0..1 /\ (o.signaled => n = 1)
  BY <1>1 DEF SyncKinds
<1>3. PICK h \in Addresses \ DOMAIN object :
        /\ object' = With(object, h, o) /\ signals' = With(signals, h, n) /\ wakes' = With(wakes, h, 0)
  BY <1>1 DEF CreateEvent, Allocated
<1>4. History(object', signals', wakes')
  BY <1>2, <1>3, BornHistory DEF SyncInv
<1> QED  BY <1>4 DEF SyncInv, CreateEvent

LEMMA CreateMutexKeeps ==
  ASSUME SyncInv, focus = "sync", focus' = focus, NEW b \in BOOLEAN, CreateMutex(b)
  PROVE  SyncInv'
<1>1. PICK o : o = [kind |-> "mutex", locked |-> b]
  OBVIOUS
<1>2. o \in SyncKinds /\ o.kind # "event"
  BY <1>1 DEF SyncKinds
<1>3. PICK h \in Addresses \ DOMAIN object : object' = With(object, h, o)
  BY <1>1 DEF CreateMutex, Allocated
<1>4. UNCHANGED syncVars
  BY DEF CreateMutex
<1>5. History(object', signals', wakes')
  BY <1>2, <1>3, <1>4, BornHistory DEF SyncInv, syncVars
<1> QED  BY <1>4, <1>5 DEF SyncInv, syncVars

LEMMA SetEventKeeps ==
  ASSUME SyncInv, focus = "sync", focus' = focus, NEW h, SetEvent(h)
  PROVE  SyncInv'
<1>1. CASE ~Is(h, "event")
  BY <1>1 DEF SetEvent, Signal, SyncInv
<1>2. CASE Is(h, "event")
  <2>1. History(object', signals', wakes)
    BY <1>2, SignalHistory DEF SetEvent, Signal, Signaled, Is, SyncInv
  <2> QED  BY <1>2, <2>1 DEF SetEvent, SyncInv
<1> QED  BY <1>1, <1>2

LEMMA ResetEventKeeps ==
  ASSUME SyncInv, focus = "sync", focus' = focus, NEW h, ResetEvent(h)
  PROVE  SyncInv'
<1>1. PICK b \in BOOLEAN : b = FALSE
  OBVIOUS
<1>2. PICK e : e = [object[h] EXCEPT !.signaled = b]
  OBVIOUS
<1>3. h \in DOMAIN object /\ object[h] \in SyncKinds /\ object[h].kind = "event"
  BY DEF ResetEvent, Is, SyncInv, History
<1>4. e \in SyncKinds /\ e.kind = "event" /\ e.manual = object[h].manual /\ ~e.signaled
  BY <1>1, <1>2, <1>3, EventSet
<1>5. object' = [object EXCEPT ![h] = e] /\ UNCHANGED syncVars
  BY <1>1, <1>2 DEF ResetEvent, Signaled
<1>6. History(object', signals, wakes)
  BY <1>3, <1>4, <1>5, SetHistory DEF SyncInv
<1> QED  BY <1>5, <1>6 DEF SyncInv, syncVars

LEMMA ReleaseMutexKeeps ==
  ASSUME SyncInv, focus = "sync", focus' = focus, NEW h, ReleaseMutex(h)
  PROVE  SyncInv'
<1>1. PICK b \in BOOLEAN : b = FALSE
  OBVIOUS
<1>2. PICK e : e = [object[h] EXCEPT !.locked = b]
  OBVIOUS
<1>3. h \in DOMAIN object /\ object[h] \in SyncKinds /\ object[h].kind = "mutex"
  BY DEF ReleaseMutex, Is, SyncInv, History
<1>4. e \in SyncKinds /\ e.kind = "mutex"
  BY <1>2, <1>3, MutexSet
<1>5. object' = [object EXCEPT ![h] = e] /\ UNCHANGED syncVars
  BY <1>1, <1>2 DEF ReleaseMutex
<1>6. History(object', signals, wakes)
  BY <1>3, <1>4, <1>5, SetHistory DEF SyncInv
<1> QED  BY <1>5, <1>6 DEF SyncInv, syncVars

LEMMA CloseKeeps ==
  ASSUME SyncInv, focus = "sync", focus' = focus, NEW h, Close(h)
  PROVE  SyncInv'
<1>1. /\ DOMAIN signals' = DOMAIN signals \ {h} /\ \A g \in DOMAIN signals' : signals'[g] = signals[g]
      /\ DOMAIN wakes' = DOMAIN wakes \ {h} /\ \A g \in DOMAIN wakes' : wakes'[g] = wakes[g]
      /\ UNCHANGED <<parked, section>>
  BY DEF Close, Cut, Restrict
<1>2. DOMAIN object' = DOMAIN object \ {h} /\ \A g \in DOMAIN object' : object'[g] = object[g]
  BY DEF Close, CloseHandle, Freed, Cut, Restrict
<1>3. History(object', signals', wakes')
  BY <1>1, <1>2, ClosedHistory DEF SyncInv
<1> QED  BY <1>1, <1>3 DEF SyncInv

LEMMA WaitKeeps ==
  ASSUME SyncInv, focus = "sync", focus' = focus, NEW h, NEW f \in BOOLEAN, WaitForSingleObject(h, f)
  PROVE  SyncInv'
<1>1. History(object', signals, wakes') /\ parked' \in BOOLEAN
  BY WaitHistory DEF WaitForSingleObject, SyncInv
<1> QED  BY <1>1 DEF WaitForSingleObject, SyncInv

LEMMA SignalAndWaitKeeps ==
  ASSUME SyncInv, focus = "sync", focus' = focus, NEW s, NEW h, NEW f \in BOOLEAN, SignalObjectAndWait(s, h, f)
  PROVE  SyncInv'
<1>1. PICK set : /\ set = IF Is(s, "event") THEN [object EXCEPT ![s].signaled = TRUE] ELSE object
                 /\ Waits(set, h, f)
  BY DEF SignalObjectAndWait
<1>2. /\ signals' = IF Is(s, "event") THEN [signals EXCEPT ![s] = signals[s] + 1] ELSE signals
      /\ Is(s, "event") => signals[s] < MaxSignals
      /\ h \in DOMAIN wakes => wakes[h] < MaxSignals
      /\ section' = section
  BY DEF SignalObjectAndWait
<1>3. History(set, signals', wakes)
  <2>1. CASE Is(s, "event")
    BY <1>1, <1>2, <2>1, SignalHistory DEF Is, SyncInv
  <2>2. CASE ~Is(s, "event")
    BY <1>1, <1>2, <2>2 DEF SyncInv
  <2> QED  BY <2>1, <2>2
<1>4. History(object', signals', wakes') /\ parked' \in BOOLEAN
  BY <1>1, <1>2, <1>3, WaitHistory DEF SyncInv
<1> QED  BY <1>2, <1>4 DEF SyncInv

LEMMA SectionKeeps ==
  ASSUME SyncInv, NEW s \in Sections, focus' = focus,
         \/ InitializeCriticalSection(s) \/ EnterCriticalSection(s)
         \/ LeaveCriticalSection(s) \/ DeleteCriticalSection(s)
  PROVE  SyncInv'
<1>1. UNCHANGED <<object, signals, wakes>> /\ parked' \in BOOLEAN
  BY DEF SyncInv, InitializeCriticalSection, EnterCriticalSection, LeaveCriticalSection, DeleteCriticalSection, handleVars
<1>2. DOMAIN section' \subseteq Sections /\ \A t \in DOMAIN section' : section'[t] \in 0..MaxSignals
  BY SyncAssumption
     DEF SyncInv, InitializeCriticalSection, EnterCriticalSection, LeaveCriticalSection, DeleteCriticalSection,
         With, Cut, Restrict
<1> QED  BY <1>1, <1>2 DEF SyncInv

LEMMA SyncNextKeeps ==
  ASSUME SyncInv, focus = "sync", focus' = focus, SyncNext
  PROVE  SyncInv'
<1>1. CASE \E m, s \in BOOLEAN : CreateEvent(m, s)
  BY <1>1, CreateEventKeeps
<1>2. CASE \E b \in BOOLEAN : CreateMutex(b)
  BY <1>2, CreateMutexKeeps
<1>3. CASE \E h \in Handles : SetEvent(h) \/ ResetEvent(h) \/ ReleaseMutex(h) \/ Close(h)
  BY <1>3, SetEventKeeps, ResetEventKeeps, ReleaseMutexKeeps, CloseKeeps
<1>4. CASE \E h \in Handles, f \in BOOLEAN : WaitForSingleObject(h, f)
  BY <1>4, WaitKeeps
<1>5. CASE \E s, h \in Handles, f \in BOOLEAN : SignalObjectAndWait(s, h, f)
  BY <1>5, SignalAndWaitKeeps
<1>6. CASE \E s \in Sections : \/ InitializeCriticalSection(s) \/ EnterCriticalSection(s)
                               \/ LeaveCriticalSection(s) \/ DeleteCriticalSection(s)
  BY <1>6, SectionKeeps
<1> QED  BY <1>1, <1>2, <1>3, <1>4, <1>5, <1>6 DEF SyncNext

LEMMA SyncStep == SyncInv /\ [Next]_win32Vars => SyncInv'
<1> SUFFICES ASSUME SyncInv, [Next]_win32Vars PROVE SyncInv'
  OBVIOUS
<1>1. focus' = focus
  BY DEF Next, win32Vars
<1>2. CASE focus = "sync" /\ SyncNext
  BY <1>1, <1>2, SyncNextKeeps
<1>3. CASE UNCHANGED syncVars /\ (focus = "sync" => UNCHANGED object)
  BY <1>1, <1>3 DEF SyncInv, syncVars
<1> QED  BY <1>2, <1>3 DEF Next, win32Vars, handleVars

\* A signal of an event that resets itself ends one wait at most, whatever is called in between
\* (OneWakePerSignal), for any number of handles.
THEOREM SignalsWakeOnce == Spec => []OneWakePerSignal
<1>1. SyncInv => OneWakePerSignal
  BY DEF SyncInv, History, OneWakePerSignal
<1> QED  BY <1>1, InitSync, SyncStep, PTL DEF Spec

-----------------------------------------------------------------------------
(***************************************************************************)
(* Files and searches. A handle uses a descriptor that is open; it owns it *)
(* unless that is one of the standard streams, which are only lent; no two *)
(* own the same, and none that is open beside the streams has no owner.    *)
(***************************************************************************)
Lent(o) == o.kind = "file" /\ o.shared

Owned(obj, dsc) ==
  /\ DOMAIN obj \subseteq Addresses /\ \A h \in DOMAIN obj : obj[h] \in FileKinds
  /\ Std \subseteq DOMAIN dsc /\ DOMAIN dsc \subseteq Fds
  /\ \A h \in DOMAIN obj : obj[h].fd \in DOMAIN dsc /\ (Lent(obj[h]) <=> obj[h].fd \in Std)
  /\ \A f \in DOMAIN dsc \ Std : \E h \in DOMAIN obj : obj[h].fd = f
  /\ \A g, h \in DOMAIN obj : obj[g].fd = obj[h].fd /\ obj[g].fd \notin Std => g = h

\* A search handle reads a search.
Searching(obj, dsc) == \A h \in DOMAIN obj : obj[h].kind = "dir" => dsc[obj[h].fd].what = "search"

SearchEntries ==
  [what : {"search"}, left : SUBSET Paths, loose : SUBSET Paths, told : SUBSET Paths, kept : SUBSET Paths,
   over : BOOLEAN]

\* What a descriptor can be, with `n` files created.
Entries(n) ==
  [what : {"tty"}] \union [what : {"folder"}]
    \union [what : {"file"}, node : 1..n, mode : {"r", "w"}, pos : 0..MaxSize]
    \union SearchEntries

\* What has been there all the time was told, or the stream still has to give it.
Complete(d) == d.what = "search" => /\ d.kept \subseteq d.told \union d.left
                                    /\ d.over => d.kept \subseteq d.told

FilesShape ==
  /\ DOMAIN names \subseteq Paths /\ \A p \in DOMAIN names : names[p] \in 1..Len(size)
  /\ size \in Seq(0..MaxSize) /\ Len(size) <= MaxNodes
  /\ \A f \in DOMAIN desc : desc[f] \in Entries(Len(size)) /\ Complete(desc[f])

FilesInv ==
  /\ FilesShape
  /\ focus = "files" => Owned(object, desc) /\ Searching(object, desc)
  /\ focus # "files" => DOMAIN desc = Std

LEMMA InitFiles == Init => FilesInv
<1> SUFFICES ASSUME Init PROVE FilesInv
  OBVIOUS
<1>1. DOMAIN object = {} /\ DOMAIN desc = Std /\ \A f \in Std : desc[f] = [what |-> "tty"]
  BY DEF Init, HandlesInit
<1>2. size = <<0>> /\ names = [p \in Paths \ Matching |-> 1]
  BY DEF Init, FilesInit
<1>3. FilesShape
  BY <1>1, <1>2, FilesAssumption DEF FilesShape, Entries, SearchEntries, Complete
<1>4. Owned(object, desc) /\ Searching(object, desc)
  BY <1>1, HandlesAssumption DEF Owned, Searching, Std
<1> QED  BY <1>1, <1>3, <1>4 DEF FilesInv

\* A descriptor that was free gets an owner.
LEMMA OpenedOwned ==
  ASSUME NEW obj, NEW dsc, Owned(obj, dsc), Searching(obj, dsc),
         NEW h \in Addresses \ DOMAIN obj, NEW f \in Fds \ DOMAIN dsc, NEW o \in FileKinds, o.fd = f, ~Lent(o),
         NEW d, o.kind = "dir" => d.what = "search", NEW obj2, NEW dsc2,
         obj2 = With(obj, h, o), dsc2 = With(dsc, f, d)
  PROVE  Owned(obj2, dsc2) /\ Searching(obj2, dsc2)
<1>1. /\ DOMAIN obj2 = DOMAIN obj \union {h} /\ obj2[h] = o
      /\ \A g \in DOMAIN obj : g # h /\ obj2[g] = obj[g]
  BY DEF With
<1>2. /\ DOMAIN dsc2 = DOMAIN dsc \union {f} /\ dsc2[f] = d
      /\ \A g \in DOMAIN dsc : g # f /\ dsc2[g] = dsc[g]
  BY DEF With
<1>3. /\ DOMAIN obj2 \subseteq Addresses /\ \A g \in DOMAIN obj2 : obj2[g] \in FileKinds
      /\ Std \subseteq DOMAIN dsc2 /\ DOMAIN dsc2 \subseteq Fds
  BY <1>1, <1>2 DEF Owned
<1>4. f \notin Std /\ \A g \in DOMAIN obj : obj[g].fd \in DOMAIN dsc /\ obj[g].fd # f
  BY DEF Owned
<1>5. \A g \in DOMAIN obj2 : obj2[g].fd \in DOMAIN dsc2 /\ (Lent(obj2[g]) <=> obj2[g].fd \in Std)
  BY <1>1, <1>2, <1>4 DEF Owned
<1>6. \A e \in DOMAIN dsc2 \ Std : \E g \in DOMAIN obj2 : obj2[g].fd = e
  BY <1>1, <1>2 DEF Owned
<1>7. \A g, k \in DOMAIN obj2 : obj2[g].fd = obj2[k].fd /\ obj2[g].fd \notin Std => g = k
  BY <1>1, <1>4 DEF Owned
<1>8. Searching(obj2, dsc2)
  BY <1>1, <1>2, <1>4 DEF Searching
<1> QED  BY <1>3, <1>5, <1>6, <1>7, <1>8 DEF Owned

\* A standard stream is lent to one handle more.
LEMMA LentOwned ==
  ASSUME NEW obj, NEW dsc, Owned(obj, dsc), Searching(obj, dsc),
         NEW h \in Addresses \ DOMAIN obj, NEW o \in FileKinds, o.fd \in Std, Lent(o), NEW obj2, obj2 = With(obj, h, o)
  PROVE  Owned(obj2, dsc) /\ Searching(obj2, dsc)
<1>1. /\ DOMAIN obj2 = DOMAIN obj \union {h} /\ obj2[h] = o
      /\ \A g \in DOMAIN obj : g # h /\ obj2[g] = obj[g]
  BY DEF With
<1>2. o.kind # "dir"
  BY DEF Lent
<1> QED  BY <1>1, <1>2 DEF Owned, Searching

\* What a handle owns is closed with it, and is nobody else's.
LEMMA ClosedOwned ==
  ASSUME NEW obj, NEW dsc, Owned(obj, dsc), Searching(obj, dsc), NEW h \in DOMAIN obj, NEW obj2, NEW dsc2,
         obj2 = Cut(obj, {h}), dsc2 = Cut(dsc, Owns(obj[h]))
  PROVE  Owned(obj2, dsc2) /\ Searching(obj2, dsc2)
<1>1. DOMAIN obj2 = DOMAIN obj \ {h} /\ \A g \in DOMAIN obj2 : obj2[g] = obj[g]
  BY DEF Cut, Restrict
<1>2. obj[h] \in FileKinds /\ obj[h].fd \in DOMAIN dsc
  BY DEF Owned
<1>3. Owns(obj[h]) = {obj[h].fd} \ Std
  BY <1>2 DEF FileKinds, Owns, Owned, Lent
<1>4. DOMAIN dsc2 = DOMAIN dsc \ ({obj[h].fd} \ Std) /\ \A f \in DOMAIN dsc2 : dsc2[f] = dsc[f]
  BY <1>3 DEF Cut, Restrict
<1>5. \A g \in DOMAIN obj2 : obj2[g].fd \in DOMAIN dsc2
  BY <1>1, <1>4 DEF Owned
<1>6. /\ DOMAIN obj2 \subseteq Addresses /\ \A g \in DOMAIN obj2 : obj2[g] \in FileKinds
      /\ Std \subseteq DOMAIN dsc2 /\ DOMAIN dsc2 \subseteq Fds
  BY <1>1, <1>4 DEF Owned
<1>7. \A e \in DOMAIN dsc2 \ Std : \E g \in DOMAIN obj2 : obj2[g].fd = e
  BY <1>1, <1>4 DEF Owned
<1>8. \A g \in DOMAIN obj2 : Lent(obj2[g]) <=> obj2[g].fd \in Std
  BY <1>1 DEF Owned
<1>9. \A g, k \in DOMAIN obj2 : obj2[g].fd = obj2[k].fd /\ obj2[g].fd \notin Std => g = k
  BY <1>1 DEF Owned
<1>10. Searching(obj2, dsc2)
  BY <1>1, <1>4, <1>5 DEF Searching
<1> QED  BY <1>5, <1>6, <1>7, <1>8, <1>9, <1>10 DEF Owned

\* A descriptor that stays what it is.
LEMMA SameOwned ==
  ASSUME NEW obj, NEW dsc, Owned(obj, dsc), Searching(obj, dsc), NEW dsc2,
         DOMAIN dsc2 = DOMAIN dsc, \A f \in DOMAIN dsc : dsc2[f].what = dsc[f].what
  PROVE  Owned(obj, dsc2) /\ Searching(obj, dsc2)
BY DEF Owned, Searching

\* The ownership is the property.
LEMMA OwnedImplies == Owned(object, desc) => DescriptorsOwned
<1> SUFFICES ASSUME Owned(object, desc) PROVE DescriptorsOwned
  OBVIOUS
<1>1. \A h \in DOMAIN object : /\ object[h] \in FileKinds /\ Uses(object[h]) = {object[h].fd}
                            /\ Owns(object[h]) = {object[h].fd} \ Std
  BY DEF Owned, FileKinds, Uses, Owns, Lent
<1>2. DOMAIN desc = Std \union UNION {Owns(object[h]) : h \in DOMAIN object}
  <2>1. ASSUME NEW f \in DOMAIN desc \ Std PROVE f \in UNION {Owns(object[h]) : h \in DOMAIN object}
    <3>1. PICK h \in DOMAIN object : object[h].fd = f
      BY <2>1 DEF Owned
    <3>2. f \in Owns(object[h])
      BY <1>1, <2>1, <3>1
    <3> QED  BY <3>2
  <2>2. ASSUME NEW h \in DOMAIN object, NEW f \in Owns(object[h]) PROVE f \in DOMAIN desc
    BY <1>1, <2>2 DEF Owned
  <2> QED  BY <2>1, <2>2 DEF Owned
<1>3. \A g, h \in DOMAIN object : g # h => Owns(object[g]) \cap Owns(object[h]) = {}
  BY <1>1 DEF Owned
<1> QED  BY <1>1, <1>2, <1>3 DEF DescriptorsOwned, Owned

-----------------------------------------------------------------------------
\* What the operations make of a descriptor.
LEMMA EntriesGrow ==
  ASSUME NEW n \in Nat, NEW m \in Nat, n <= m, NEW d \in Entries(n)
  PROVE  d \in Entries(m)
<1>1. 1..n \subseteq 1..m
  OBVIOUS
<1> QED  BY <1>1 DEF Entries

LEMMA NewEntry ==
  ASSUME NEW n \in Nat, NEW k \in 1..n, NEW access
  PROVE  Open(k, ModeOf(access)) \in Entries(n) /\ Open(k, ModeOf(access)).what = "file"
BY FilesAssumption DEF Open, ModeOf, Entries, SearchEntries

LEMMA FileFields ==
  ASSUME NEW n \in Nat, NEW d \in Entries(n), d.what = "file"
  PROVE  d \in [what : {"file"}, node : 1..n, mode : {"r", "w"}, pos : 0..MaxSize]
BY DEF Entries, SearchEntries

LEMMA MovedEntry ==
  ASSUME NEW n \in Nat, NEW d \in Entries(n), d.what = "file", NEW p \in 0..MaxSize, NEW e, e = [d EXCEPT !.pos = p]
  PROVE  e \in Entries(n) /\ e.what = "file"
<1>1. d \in [what : {"file"}, node : 1..n, mode : {"r", "w"}, pos : 0..MaxSize]
  BY FileFields
<1>2. e \in [what : {"file"}, node : 1..n, mode : {"r", "w"}, pos : 0..MaxSize]
  BY <1>1
<1> QED  BY <1>2 DEF Entries

\* A search goes on: it tells a name, comes to its end, or is stirred by a change of the directory.
LEMMA ToldEntry ==
  ASSUME NEW d \in SearchEntries, Complete(d), NEW x \in d.left \union d.loose,
         NEW e, e = [d EXCEPT !.left = @ \ {x}, !.loose = @ \ {x}, !.told = @ \union {x}]
  PROVE  e \in SearchEntries /\ e.what = "search" /\ Complete(e)
<1>1. /\ e \in SearchEntries /\ e.what = "search" /\ e.left = d.left \ {x} /\ e.told = d.told \union {x}
      /\ e.kept = d.kept /\ e.over = d.over
  BY DEF SearchEntries
<1>2. d.kept \subseteq d.told \union d.left /\ (d.over => d.kept \subseteq d.told)
  BY DEF SearchEntries, Complete
<1> QED  BY <1>1, <1>2 DEF Complete

LEMMA OverEntry ==
  ASSUME NEW d \in SearchEntries, Complete(d), d.left = {}, NEW e, e = [d EXCEPT !.over = TRUE]
  PROVE  e \in SearchEntries /\ e.what = "search" /\ Complete(e)
<1>1. /\ e \in SearchEntries /\ e.what = "search" /\ e.left = d.left /\ e.told = d.told /\ e.kept = d.kept
  BY DEF SearchEntries
<1>2. d.kept \subseteq d.told \union d.left
  BY DEF SearchEntries, Complete
<1> QED  BY <1>1, <1>2 DEF Complete

LEMMA StirredEntry ==
  ASSUME NEW d \in SearchEntries, Complete(d), NEW p \in Paths,
         NEW e, e = [d EXCEPT !.left = @ \ {p}, !.loose = @ \union {p}, !.kept = @ \ {p}]
  PROVE  e \in SearchEntries /\ e.what = "search" /\ Complete(e)
<1>1. /\ e \in SearchEntries /\ e.what = "search" /\ e.left = d.left \ {p} /\ e.told = d.told
      /\ e.kept = d.kept \ {p} /\ e.over = d.over
  BY DEF SearchEntries
<1>2. d.kept \subseteq d.told \union d.left /\ (d.over => d.kept \subseteq d.told)
  BY DEF SearchEntries, Complete
<1> QED  BY <1>1, <1>2 DEF Complete

\* A table of descriptors that a call finds or leaves.
TableOK(table) ==
  /\ Owned(object, table) /\ Searching(object, table)
  /\ \A f \in DOMAIN table : table[f] \in Entries(Len(size)) /\ Complete(table[f])

LEMMA StirredKeeps ==
  ASSUME FilesInv, focus = "files", NEW p \in Paths
  PROVE  TableOK(Stirred(p)) /\ DOMAIN Stirred(p) = DOMAIN desc
<1>1. PICK t : t = Stirred(p)
  OBVIOUS
<1>2. DOMAIN t = DOMAIN desc
  BY <1>1 DEF Stirred
<1>3. ASSUME NEW f \in DOMAIN desc
      PROVE  t[f] \in Entries(Len(size)) /\ t[f].what = desc[f].what /\ Complete(t[f])
  <2>1. desc[f] \in Entries(Len(size)) /\ Complete(desc[f])
    BY DEF FilesInv, FilesShape
  <2>2. CASE desc[f].what # "search"
    <3>1. t[f] = desc[f]
      BY <1>1, <2>2 DEF Stirred
    <3> QED  BY <2>1, <3>1
  <2>3. CASE desc[f].what = "search"
    <3>1. PICK d : d = desc[f]
      OBVIOUS
    <3>2. d \in SearchEntries /\ Complete(d)
      BY <2>1, <2>3, <3>1 DEF Entries, SearchEntries
    <3>3. PICK e : e = [d EXCEPT !.left = @ \ {p}, !.loose = @ \union {p}, !.kept = @ \ {p}]
      OBVIOUS
    <3>4. e \in SearchEntries /\ e.what = "search" /\ Complete(e)
      BY <3>2, <3>3, StirredEntry
    <3>5. t[f] = e
      BY <1>1, <2>3, <3>1, <3>3 DEF Stirred
    <3> QED  BY <2>3, <3>4, <3>5 DEF Entries
  <2> QED  BY <2>2, <2>3
<1>4. Owned(object, t) /\ Searching(object, t)
  BY <1>2, <1>3, SameOwned DEF FilesInv
<1> QED  BY <1>1, <1>2, <1>3, <1>4 DEF TableOK

\* What leaves the directory and the descriptors alone, but for one that is moved or closed.
LEMMA MovedKeeps ==
  ASSUME FilesInv, focus = "files", focus' = focus, NEW h \in DOMAIN object, Regular(h),
         NEW p \in 0..MaxSize, MovedTo(h, p), UNCHANGED <<object, names>>,
         size' \in Seq(0..MaxSize), Len(size') = Len(size)
  PROVE  FilesInv'
<1>1. PICK f : f = object[h].fd
  OBVIOUS
<1>2. f \in DOMAIN desc /\ desc[f].what = "file" /\ desc[f] \in Entries(Len(size)) /\ Len(size) \in Nat
  BY <1>1 DEF FilesInv, Owned, FilesShape, Regular
<1>3. PICK e : e = [desc[f] EXCEPT !.pos = p]
  OBVIOUS
<1>4. e \in Entries(Len(size)) /\ e.what = "file"
  BY <1>2, <1>3, MovedEntry
<1>5. desc' = [desc EXCEPT ![f] = e]
  BY <1>1, <1>3 DEF MovedTo, Fd
<1>6. DOMAIN desc' = DOMAIN desc /\ desc'[f] = e /\ \A g \in DOMAIN desc : g # f => desc'[g] = desc[g]
  BY <1>2, <1>5
<1>7. \A g \in DOMAIN desc : desc'[g].what = desc[g].what
  BY <1>2, <1>4, <1>6
<1>8. Owned(object', desc') /\ Searching(object', desc')
  BY <1>6, <1>7, SameOwned DEF FilesInv
<1>9. \A g \in DOMAIN desc' : desc'[g] \in Entries(Len(size)) /\ Complete(desc'[g])
  BY <1>4, <1>6 DEF FilesInv, FilesShape, Complete
<1>10. FilesShape'
  BY <1>9 DEF FilesInv, FilesShape
<1> QED  BY <1>8, <1>10 DEF FilesInv

LEMMA TableKept == FilesInv /\ focus = "files" => TableOK(desc)
BY DEF FilesInv, FilesShape, TableOK

\* ...or that is new.
LEMMA OpenedKeeps ==
  ASSUME FilesInv, focus = "files", focus' = focus, NEW table, TableOK(table), DOMAIN table = DOMAIN desc,
         NEW d, Opened(table, d), d \in Entries(Len(size')), d.what # "search",
         size' \in Seq(0..MaxSize), Len(size) <= Len(size'), Len(size') <= MaxNodes,
         DOMAIN names' \subseteq Paths, \A p \in DOMAIN names' : names'[p] \in 1..Len(size')
  PROVE  FilesInv'
<1>1. PICK f \in FreeFds, h \in Addresses \ DOMAIN object :
        object' = With(object, h, FileObject(f, FALSE)) /\ desc' = With(table, f, d)
  BY DEF Opened, Allocated
<1>2. PICK b \in BOOLEAN : b = FALSE
  OBVIOUS
<1>3. PICK o : o = FileObject(f, b)
  OBVIOUS
<1>4. f \in Fds \ DOMAIN desc
  BY DEF FreeFds
<1>5. o \in FileKinds /\ o.fd = f /\ o.kind = "file" /\ ~Lent(o)
  BY <1>2, <1>3, <1>4 DEF FileKinds, FileObject, Lent
<1>6. object' = With(object, h, o)
  BY <1>1, <1>2, <1>3
<1>7. Owned(object', desc') /\ Searching(object', desc')
  BY <1>1, <1>4, <1>5, <1>6, OpenedOwned DEF TableOK
<1>8. DOMAIN desc' = DOMAIN table \union {f} /\ desc'[f] = d /\ \A g \in DOMAIN table : g # f => desc'[g] = table[g]
  BY <1>1 DEF With
<1>9. Len(size) \in Nat /\ Len(size') \in Nat
  BY DEF FilesInv, FilesShape
<1>10. \A g \in DOMAIN desc' : desc'[g] \in Entries(Len(size')) /\ Complete(desc'[g])
  BY <1>4, <1>8, <1>9, EntriesGrow DEF TableOK, Complete
<1>11. FilesShape'
  BY <1>10 DEF FilesShape
<1> QED  BY <1>7, <1>11 DEF FilesInv

LEMMA CreateFileKeeps ==
  ASSUME FilesInv, focus = "files", focus' = focus, NEW p \in Paths, NEW a \in Access, NEW d \in Dispositions,
         CreateFileW(p, a, d)
  PROVE  FilesInv'
<1>1. CASE p \in DOMAIN names
  <2>1. Opened(desc, Open(names[p], ModeOf(a))) /\ names' = names
        /\ size' = IF Truncates(d) THEN [size EXCEPT ![names[p]] = 0] ELSE size
    BY <1>1 DEF CreateFileW
  <2>2. names[p] \in 1..Len(size) /\ size \in Seq(0..MaxSize) /\ Len(size) \in Nat
    BY <1>1 DEF FilesInv, FilesShape
  <2>3. size' \in Seq(0..MaxSize) /\ Len(size') = Len(size)
    BY <2>1, <2>2, FilesAssumption
  <2>4. Open(names[p], ModeOf(a)) \in Entries(Len(size')) /\ Open(names[p], ModeOf(a)).what = "file"
    BY <2>2, <2>3, NewEntry
  <2>5. DOMAIN names' \subseteq Paths /\ \A q \in DOMAIN names' : names'[q] \in 1..Len(size')
    BY <2>1, <2>3 DEF FilesInv, FilesShape
  <2>6. Len(size) <= Len(size') /\ Len(size') <= MaxNodes
    BY <2>2, <2>3 DEF FilesInv, FilesShape
  <2> QED  BY <2>1, <2>3, <2>4, <2>5, <2>6, TableKept, OpenedKeeps
<1>2. CASE p \notin DOMAIN names
  <2>1. /\ Opened(Stirred(p), Open(Len(size) + 1, ModeOf(a))) /\ size' = Append(size, 0) /\ Len(size) < MaxNodes
        /\ names' = With(names, p, Len(size) + 1)
    BY <1>2 DEF CreateFileW
  <2>2. size \in Seq(0..MaxSize) /\ Len(size) \in Nat
    BY DEF FilesInv, FilesShape
  <2>3. size' \in Seq(0..MaxSize) /\ Len(size') = Len(size) + 1
    BY <2>1, <2>2, FilesAssumption
  <2>4. DOMAIN names' = DOMAIN names \union {p} /\ names'[p] = Len(size) + 1
        /\ \A q \in DOMAIN names : q # p => names'[q] = names[q]
    BY <2>1 DEF With
  <2>5. DOMAIN names' \subseteq Paths /\ \A q \in DOMAIN names' : names'[q] \in 1..Len(size')
    BY <2>2, <2>3, <2>4 DEF FilesInv, FilesShape
  <2>6. Open(Len(size) + 1, ModeOf(a)) \in Entries(Len(size')) /\ Open(Len(size) + 1, ModeOf(a)).what = "file"
    BY <2>2, <2>3, NewEntry
  <2> QED  BY <2>1, <2>2, <2>3, <2>5, <2>6, StirredKeeps, OpenedKeeps, FilesAssumption
<1> QED  BY <1>1, <1>2

\* A call that fails, and one that only renames.
LEMMA DirectoryKeeps ==
  ASSUME FilesInv, focus' = focus, UNCHANGED <<object, desc>>,
         size' \in Seq(0..MaxSize), Len(size') = Len(size),
         DOMAIN names' \subseteq DOMAIN names, \A p \in DOMAIN names' : names'[p] = names[p]
  PROVE  FilesInv'
BY DEF FilesInv, FilesShape

LEMMA FailedKeeps ==
  ASSUME FilesInv, focus' = focus, UNCHANGED <<object, desc, fileVars>>
  PROVE  FilesInv'
BY DEF FilesInv, FilesShape, fileVars

LEMMA OpenDirectoryKeeps ==
  ASSUME FilesInv, focus = "files", focus' = focus, OpenDirectory
  PROVE  FilesInv'
<1>1. CASE NotOpened
  BY <1>1, FailedKeeps DEF NotOpened, handleVars
<1>2. CASE Opened(desc, Folder) /\ UNCHANGED fileVars
  <2>1. Folder \in Entries(Len(size')) /\ Folder.what = "folder"
    BY DEF Folder, Entries, SearchEntries
  <2>2. size' = size /\ names' = names
    BY <1>2 DEF fileVars
  <2>3. /\ size \in Seq(0..MaxSize) /\ Len(size) \in Nat /\ Len(size) <= MaxNodes
        /\ DOMAIN names \subseteq Paths /\ \A p \in DOMAIN names : names[p] \in 1..Len(size)
    BY DEF FilesInv, FilesShape
  <2> QED  BY <1>2, <2>1, <2>2, <2>3, TableKept, OpenedKeeps
<1> QED  BY <1>1, <1>2 DEF OpenDirectory

LEMMA GetStdHandleKeeps ==
  ASSUME FilesInv, focus = "files", focus' = focus, NEW f \in Std, GetStdHandle(f)
  PROVE  FilesInv'
<1>1. PICK h \in Addresses \ DOMAIN object : object' = With(object, h, FileObject(f, TRUE))
  BY DEF GetStdHandle, Allocated
<1>2. PICK b \in BOOLEAN : b = TRUE
  OBVIOUS
<1>3. PICK o : o = FileObject(f, b)
  OBVIOUS
<1>4. o \in FileKinds /\ o.fd \in Std /\ Lent(o)
  BY <1>2, <1>3, HandlesAssumption DEF FileKinds, FileObject, Lent, Std
<1>5. object' = With(object, h, o) /\ UNCHANGED <<desc, fileVars>>
  BY <1>1, <1>2, <1>3 DEF GetStdHandle
<1>6. Owned(object', desc) /\ Searching(object', desc)
  BY <1>4, <1>5, LentOwned DEF FilesInv
<1> QED  BY <1>5, <1>6 DEF FilesInv, FilesShape, fileVars

LEMMA CloseFileKeeps ==
  ASSUME FilesInv, focus = "files", focus' = focus, NEW h, CloseHandle(h), UNCHANGED fileVars
  PROVE  FilesInv'
<1>1. CASE h \notin DOMAIN object
  BY <1>1, FailedKeeps DEF CloseHandle
<1>2. CASE h \in DOMAIN object
  <2>1. object' = Cut(object, {h}) /\ desc' = Cut(desc, Owns(object[h]))
    BY <1>2 DEF CloseHandle, Freed
  <2>2. Owned(object', desc') /\ Searching(object', desc')
    BY <1>2, <2>1, ClosedOwned DEF FilesInv
  <2>3. \A f \in DOMAIN desc' : f \in DOMAIN desc /\ desc'[f] = desc[f]
    BY <2>1 DEF Cut, Restrict
  <2>4. FilesShape'
    BY <2>3 DEF FilesInv, FilesShape, fileVars
  <2> QED  BY <2>2, <2>4 DEF FilesInv
<1> QED  BY <1>1, <1>2

\* What an open file is, for the calls that use one.
LEMMA OpenFile ==
  ASSUME FilesInv, focus = "files", NEW h, Regular(h)
  PROVE  /\ h \in DOMAIN object /\ Fd(h) \in DOMAIN desc /\ desc[Fd(h)].what = "file"
         /\ At(h) \in 0..MaxSize /\ desc[Fd(h)].node \in 1..Len(size) /\ SizeOf(h) \in 0..MaxSize
         /\ size \in Seq(0..MaxSize) /\ Len(size) \in Nat
<1>1. h \in DOMAIN object /\ Fd(h) \in DOMAIN desc /\ desc[Fd(h)].what = "file" /\ desc[Fd(h)] \in Entries(Len(size))
  BY DEF Regular, Is, Fd, FilesInv, Owned, FilesShape
<1>2. size \in Seq(0..MaxSize) /\ Len(size) \in Nat
  BY DEF FilesInv, FilesShape
<1>3. desc[Fd(h)] \in [what : {"file"}, node : 1..Len(size), mode : {"r", "w"}, pos : 0..MaxSize]
  BY <1>1, <1>2, FileFields
<1>4. desc[Fd(h)].node \in 1..Len(size) /\ desc[Fd(h)].pos \in 0..MaxSize
  BY <1>3
<1>5. \A k \in 1..Len(size) : size[k] \in 0..MaxSize
  BY <1>2, FilesAssumption
<1> QED  BY <1>1, <1>2, <1>4, <1>5 DEF At, SizeOf

LEMMA ReadFileKeeps ==
  ASSUME FilesInv, focus = "files", focus' = focus, NEW h, ReadFile(h) \/ ReadFileAt(h)
  PROVE  FilesInv'
<1>1. CASE Failed("param")
  BY <1>1, FailedKeeps DEF Failed, Fails
<1>2. CASE ~Failed("param")
  <2>1. Regular(h) /\ UNCHANGED <<object, fileVars>>
        /\ MovedTo(h, Larger(At(h), IF At(h) < SizeOf(h) THEN At(h) + 1 ELSE 0))
    BY <1>2 DEF ReadFile, ReadFileAt
  <2>2. PICK p : p = Larger(At(h), IF At(h) < SizeOf(h) THEN At(h) + 1 ELSE 0)
    OBVIOUS
  <2>3. p \in 0..MaxSize
    BY <2>1, <2>2, OpenFile, FilesAssumption DEF Larger
  <2>4. size' = size /\ names' = names
    BY <2>1 DEF fileVars
  <2> QED  BY <2>1, <2>2, <2>3, <2>4, OpenFile, MovedKeeps
<1> QED  BY <1>1, <1>2

LEMMA WriteFileKeeps ==
  ASSUME FilesInv, focus = "files", focus' = focus, NEW h, WriteFile(h)
  PROVE  FilesInv'
<1>1. CASE Failed("param")
  BY <1>1, FailedKeeps DEF Failed, Fails
<1>2. CASE ~Failed("param")
  <2>1. /\ Regular(h) /\ UNCHANGED <<object, names>> /\ At(h) < MaxSize /\ MovedTo(h, At(h) + 1)
        /\ size' = [size EXCEPT ![desc[Fd(h)].node] = Larger(size[desc[Fd(h)].node], At(h) + 1)]
    BY <1>2 DEF WriteFile
  <2>2. At(h) + 1 \in 0..MaxSize
    BY <2>1, OpenFile, FilesAssumption
  <2>3. Larger(size[desc[Fd(h)].node], At(h) + 1) \in 0..MaxSize
    BY <2>1, <2>2, OpenFile DEF Larger, SizeOf
  <2>4. size' \in Seq(0..MaxSize) /\ Len(size') = Len(size)
    BY <2>1, <2>3, OpenFile
  <2> QED  BY <2>1, <2>2, <2>4, OpenFile, MovedKeeps
<1> QED  BY <1>1, <1>2

LEMMA SetEndOfFileKeeps ==
  ASSUME FilesInv, focus = "files", focus' = focus, NEW h, SetEndOfFile(h)
  PROVE  FilesInv'
<1>1. Regular(h) /\ UNCHANGED <<handleVars, names>> /\ size' = [size EXCEPT ![desc[Fd(h)].node] = At(h)]
  BY DEF SetEndOfFile
<1>2. size' \in Seq(0..MaxSize) /\ Len(size') = Len(size)
  BY <1>1, OpenFile
<1> QED  BY <1>1, <1>2, DirectoryKeeps DEF handleVars

LEMMA SetFilePointerKeeps ==
  ASSUME FilesInv, focus = "files", focus' = focus, NEW h, NEW k, NEW m, SetFilePointerEx(h, k, m)
  PROVE  FilesInv'
<1>1. CASE Failed("param")
  BY <1>1, FailedKeeps DEF Failed, Fails
<1>2. CASE ~Failed("param")
  <2>1. PICK p \in 0..MaxSize : MovedTo(h, p) /\ Regular(h) /\ UNCHANGED <<object, fileVars>>
    BY <1>2 DEF SetFilePointerEx
  <2>2. size' = size /\ names' = names
    BY <2>1 DEF fileVars
  <2> QED  BY <2>1, <2>2, OpenFile, MovedKeeps
<1> QED  BY <1>1, <1>2

LEMMA DeleteFileKeeps ==
  ASSUME FilesInv, focus = "files", focus' = focus, NEW p \in Paths, DeleteFileW(p)
  PROVE  FilesInv'
<1>1. DOMAIN names' \subseteq DOMAIN names /\ \A q \in DOMAIN names' : names'[q] = names[q]
  BY DEF DeleteFileW, Cut, Restrict
<1>2. object' = object /\ size' = size /\ desc' = Stirred(p)
  BY DEF DeleteFileW
<1>3. PICK t : t = Stirred(p)
  OBVIOUS
<1>4. TableOK(t) /\ desc' = t
  BY <1>2, <1>3, StirredKeeps
<1> QED  BY <1>1, <1>2, <1>4 DEF TableOK, FilesInv, FilesShape

\* A search begins with one name told; what was skipped before it was not asked for.
LEMMA FindFirstKeeps ==
  ASSUME FilesInv, focus = "files", focus' = focus, NEW filter, FindFirstFileExA(filter)
  PROVE  FilesInv'
<1>1. CASE Fails("nomore")
  BY <1>1, FailedKeeps DEF Fails, FindFirstFileExA
<1>2. CASE ~Fails("nomore")
  <2>1. PICK n \in DOMAIN names, skipped \in SUBSET DOMAIN names, f \in FreeFds, h \in Addresses \ DOMAIN object :
          /\ n \notin skipped /\ skipped \cap (DOMAIN names \cap filter) = {}
          /\ object' = With(object, h, [kind |-> "dir", fd |-> f])
          /\ desc' = With(desc, f, Search(DOMAIN names \ (skipped \union {n}), n, DOMAIN names \cap filter))
    BY <1>2 DEF FindFirstFileExA, FirstOf, Allocated
  <2>2. PICK d : d = Search(DOMAIN names \ (skipped \union {n}), n, DOMAIN names \cap filter)
    OBVIOUS
  <2>3. PICK o : o = [kind |-> "dir", fd |-> f]
    OBVIOUS
  <2>4. f \in Fds \ DOMAIN desc /\ o \in FileKinds /\ o.fd = f /\ ~Lent(o)
    BY <2>3 DEF FreeFds, FileKinds, Lent
  <2>5. d \in Entries(Len(size)) /\ d.what = "search" /\ Complete(d)
    BY <2>1, <2>2 DEF Search, Entries, SearchEntries, Complete, FilesInv, FilesShape
  <2>6. object' = With(object, h, o) /\ desc' = With(desc, f, d) /\ UNCHANGED fileVars
    BY <2>1, <2>2, <2>3 DEF FindFirstFileExA
  <2>7. Owned(object', desc') /\ Searching(object', desc')
    BY <2>4, <2>5, <2>6, OpenedOwned DEF FilesInv
  <2>8. DOMAIN desc' = DOMAIN desc \union {f} /\ desc'[f] = d /\ \A g \in DOMAIN desc : g # f => desc'[g] = desc[g]
    BY <2>6 DEF With
  <2>9. FilesShape'
    BY <2>5, <2>6, <2>8 DEF FilesInv, FilesShape, fileVars
  <2> QED  BY <2>7, <2>9 DEF FilesInv
<1> QED  BY <1>1, <1>2

LEMMA FindNextKeeps ==
  ASSUME FilesInv, focus = "files", focus' = focus, NEW h, FindNextFileA(h)
  PROVE  FilesInv'
<1>1. PICK f, d, n : f = object[h].fd /\ d = desc[f] /\ n = Len(size)
  OBVIOUS
<1>2. f \in DOMAIN desc /\ d.what = "search" /\ d \in Entries(n) /\ Complete(d) /\ n \in Nat
  <2>1. h \in DOMAIN object /\ object[h].kind = "dir"
    BY DEF FindNextFileA, Is
  <2>2. f \in DOMAIN desc /\ desc[f].what = "search"
    BY <1>1, <2>1 DEF FilesInv, Owned, Searching
  <2>3. desc[f] \in Entries(Len(size)) /\ Complete(desc[f]) /\ Len(size) \in Nat
    BY <2>2 DEF FilesInv, FilesShape
  <2> QED  BY <1>1, <2>2, <2>3
<1>3. d \in SearchEntries
  BY <1>2 DEF Entries, SearchEntries
<1>4. PICK e : e \in SearchEntries /\ e.what = "search" /\ Complete(e) /\ desc' = [desc EXCEPT ![f] = e]
  <2>1. CASE \E x \in d.left \union d.loose :
               desc' = [desc EXCEPT ![f] = [d EXCEPT !.left = @ \ {x}, !.loose = @ \ {x}, !.told = @ \union {x}]]
    <3>1. PICK x \in d.left \union d.loose :
            desc' = [desc EXCEPT ![f] = [d EXCEPT !.left = @ \ {x}, !.loose = @ \ {x}, !.told = @ \union {x}]]
      BY <2>1
    <3>2. PICK e : e = [d EXCEPT !.left = @ \ {x}, !.loose = @ \ {x}, !.told = @ \union {x}]
      OBVIOUS
    <3> QED  BY <1>2, <1>3, <3>1, <3>2, ToldEntry
  <2>2. CASE d.left = {} /\ desc' = [desc EXCEPT ![f] = [d EXCEPT !.over = TRUE]]
    <3>1. PICK e : e = [d EXCEPT !.over = TRUE]
      OBVIOUS
    <3> QED  BY <1>2, <1>3, <2>2, <3>1, OverEntry
  <2> QED  BY <1>1, <2>1, <2>2 DEF FindNextFileA, Fd
<1>5. UNCHANGED <<object, names, size>>
  BY DEF FindNextFileA, fileVars
<1>6. DOMAIN desc' = DOMAIN desc /\ desc'[f] = e /\ \A g \in DOMAIN desc : g # f => desc'[g] = desc[g]
  BY <1>2, <1>4
<1>7. \A g \in DOMAIN desc : desc'[g].what = desc[g].what
  BY <1>1, <1>2, <1>4, <1>6
<1>8. Owned(object', desc') /\ Searching(object', desc')
  BY <1>5, <1>6, <1>7, SameOwned DEF FilesInv
<1>9. e \in Entries(Len(size))
  BY <1>4 DEF Entries
<1>10. FilesShape'
  BY <1>4, <1>5, <1>6, <1>9 DEF FilesInv, FilesShape
<1> QED  BY <1>8, <1>10 DEF FilesInv

LEMMA FilesNextKeeps ==
  ASSUME FilesInv, focus = "files", focus' = focus, FilesNext
  PROVE  FilesInv'
<1>1. CASE \E p \in Paths, a \in Access, d \in Dispositions : CreateFileW(p, a, d) \/ CreateFileA(p, a, d)
  BY <1>1, CreateFileKeeps DEF CreateFileA
<1>2. CASE OpenDirectory
  BY <1>2, OpenDirectoryKeeps
<1>3. CASE \E f \in Std : GetStdHandle(f)
  BY <1>3, GetStdHandleKeeps
<1>4. CASE \E h \in Handles :
             \/ ReadFile(h) \/ ReadFileAt(h) \/ WriteFile(h) \/ SetEndOfFile(h)
             \/ FindNextFileA(h)
             \/ CloseHandle(h) /\ UNCHANGED fileVars
  BY <1>4, ReadFileKeeps, WriteFileKeeps, SetEndOfFileKeeps, FindNextKeeps, CloseFileKeeps
<1>5. CASE \E h \in Handles, k \in {-1, 0, 1}, m \in {"set", "cur", "end", "bad"} : SetFilePointerEx(h, k, m)
  BY <1>5, SetFilePointerKeeps
<1>6. CASE \E p \in Paths : DeleteFileW(p)
  BY <1>6, DeleteFileKeeps
<1>7. CASE \E f \in {Paths, Matching} : FindFirstFileExA(f)
  BY <1>7, FindFirstKeeps
<1> QED  BY <1>1, <1>2, <1>3, <1>4, <1>5, <1>6, <1>7 DEF FilesNext

\* Synchronisation leaves the files alone, and what it closes owns no descriptor.
LEMMA SyncLeavesDesc ==
  ASSUME SyncInv, focus = "sync", SyncNext
  PROVE  DOMAIN desc' = DOMAIN desc /\ \A f \in DOMAIN desc : desc'[f] = desc[f]
<1>1. CASE \E h \in Handles : Close(h)
  <2>1. PICK h \in Handles : Close(h)
    BY <1>1
  <2>2. h \in DOMAIN object => Owns(object[h]) = {}
    BY DEF SyncInv, History, SyncKinds, Owns
  <2> QED  BY <2>1, <2>2 DEF Close, CloseHandle, Freed, Cut, Restrict
<1>2. CASE ~(\E h \in Handles : Close(h))
  BY <1>2 DEF SyncNext, CreateEvent, CreateMutex, SetEvent, ResetEvent, ReleaseMutex, WaitForSingleObject,
              SignalObjectAndWait, InitializeCriticalSection, EnterCriticalSection, LeaveCriticalSection,
              DeleteCriticalSection, handleVars
<1> QED  BY <1>1, <1>2

LEMMA FilesStep == SyncInv /\ FilesInv /\ [Next]_win32Vars => FilesInv'
<1> SUFFICES ASSUME SyncInv, FilesInv, [Next]_win32Vars PROVE FilesInv'
  OBVIOUS
<1>1. focus' = focus
  BY DEF Next, win32Vars
<1>2. CASE focus = "files" /\ FilesNext
  BY <1>1, <1>2, FilesNextKeeps
<1>3. CASE focus = "sync" /\ SyncNext /\ UNCHANGED fileVars
  BY <1>1, <1>3, SyncLeavesDesc DEF FilesInv, FilesShape, fileVars
<1>4. CASE UNCHANGED <<handleVars, fileVars>>
  BY <1>1, <1>4, FailedKeeps DEF handleVars
<1> QED  BY <1>2, <1>3, <1>4 DEF Next, win32Vars

\* Without files and events, there is no handle at all.
Idle == focus \notin {"sync", "files"} => DOMAIN object = {}

LEMMA InitIdle == Init => Idle
BY DEF Init, HandlesInit, Idle
LEMMA IdleStep == Idle /\ [Next]_win32Vars => Idle'
BY DEF Idle, Next, win32Vars, handleVars

ShimInv == SyncInv /\ FilesInv /\ Idle

LEMMA InitShims == Init => ShimInv
BY InitSync, InitFiles, InitIdle DEF ShimInv
LEMMA ShimStep == ShimInv /\ [Next]_win32Vars => ShimInv'
BY SyncStep, FilesStep, IdleStep DEF ShimInv

\* Every open descriptor is a standard stream or belongs to one live handle, and what a live
\* handle uses is open (DescriptorsOwned), for any number of handles and descriptors.
THEOREM DescriptorsAreOwned == Spec => []DescriptorsOwned
<1>1. ShimInv => DescriptorsOwned
  <2> SUFFICES ASSUME ShimInv PROVE DescriptorsOwned
    OBVIOUS
  <2>1. CASE focus = "files"
    BY <2>1, OwnedImplies DEF ShimInv, FilesInv
  <2>2. CASE focus # "files"
    <3>1. \A h \in DOMAIN object : Owns(object[h]) = {} /\ Uses(object[h]) = {}
      BY <2>2 DEF ShimInv, SyncInv, Idle, History, SyncKinds, Owns, Uses
    <3> QED  BY <2>2, <3>1 DEF ShimInv, FilesInv, DescriptorsOwned
  <2> QED  BY <2>1, <2>2
<1> QED  BY <1>1, InitShims, ShimStep, PTL DEF Spec

\* A search that has come to its end has told every name of its pattern that was there from its
\* beginning (SearchMissesNothing), whatever else is opened, closed, created and deleted.
THEOREM SearchesAreComplete == Spec => []SearchMissesNothing
<1>1. ShimInv => SearchMissesNothing
  BY DEF ShimInv, FilesInv, FilesShape, Complete, SearchMissesNothing
<1> QED  BY <1>1, InitShims, ShimStep, PTL DEF Spec

-----------------------------------------------------------------------------
(***************************************************************************)
(* Thread-local slots.                                                     *)
(***************************************************************************)
\* What the slots are as functions; the rest is HeldOnce.
SlotsShape ==
  /\ tls \in [Index -> Values \union {Null}] /\ fls \in [Index -> Values \union {Null}]
  /\ tlsHeld \subseteq Index /\ flsHeld \subseteq Index /\ fresh \subseteq tlsHeld

\* A bit beyond the aliased ones is set exactly as long as its index is held.
SlotsInv == SlotsShape /\ HeldOnce /\ tlsBits \subseteq 0..Width - 1 /\ aliased \subseteq 0..Width - 1

LEMMA InitSlots == Init => SlotsInv
BY SlotsAssumption DEF Init, SlotsInit, SlotsInv, SlotsShape, HeldOnce

\* An index below the width is its own bit; any other has one below the width.
LEMMA BitBelow ==
  ASSUME NEW i \in Index
  PROVE  Bit(i) \in 0..Width - 1 /\ (i < Width => Bit(i) = i) /\ 0..Width - 1 \subseteq Index /\ i >= 0
<1>1. Width \in Nat /\ Width > 0 /\ Slots \in Nat /\ Slots >= Width /\ i \in Nat
  BY SlotsAssumption DEF Index
<1>2. i % Width \in 0..Width - 1
  BY <1>1
<1>3. i < Width => i % Width = i
  BY <1>1
<1> QED  BY <1>1, <1>2, <1>3 DEF Bit, Index

\* The lowest index whose bit is clear is that bit: TlsAlloc gives no index beyond the width.
LEMMA LowestBelow ==
  ASSUME NEW i \in Index, IsLowest(i, FreeTls)
  PROVE  i < Width /\ Bit(i) = i /\ i \notin tlsBits
<1>1. Bit(i) \notin tlsBits /\ Bit(i) \in Index /\ Bit(i) < Width /\ Bit(i) \in Nat
  BY BitBelow, SlotsAssumption DEF IsLowest, FreeTls
<1>2. Bit(Bit(i)) = Bit(i)
  BY <1>1, BitBelow
<1>3. Bit(i) \in FreeTls
  BY <1>1, <1>2 DEF FreeTls
<1>4. i <= Bit(i)
  BY <1>3 DEF IsLowest
<1>5. i < Width
  BY <1>1, <1>4, SlotsAssumption DEF Index
<1> QED  BY <1>1, <1>5, BitBelow

\* What is given out was nobody's, unless its bit had been aliased.
LEMMA AllocKeeps ==
  ASSUME SlotsInv, TlsAlloc
  PROVE  SlotsInv'
<1>1. PICK i \in Index : IsLowest(i, FreeTls)
                           /\ tlsBits' = tlsBits \union {Bit(i)} /\ tls' = Cleared(i)
                           /\ tlsHeld' = tlsHeld \union {i} /\ fresh' = fresh \union {i}
  BY DEF TlsAlloc
<1>2. i < Width /\ Bit(i) = i /\ i \in 0..Width - 1
  BY <1>1, LowestBelow, BitBelow
<1>3. /\ tlsBits' = tlsBits \union {i} /\ tls' = [tls EXCEPT ![i] = Null]
      /\ tlsHeld' = tlsHeld \union {i} /\ fresh' = fresh \union {i}
      /\ UNCHANGED <<flsBits, fls, flsHeld, aliased>>
  BY <1>1, <1>2 DEF TlsAlloc, Cleared, flsVars
<1>4. SlotsShape'
  BY <1>3 DEF SlotsShape, SlotsInv
<1>5. tlsHeld' \subseteq 0..Width - 1 /\ tlsBits' \ aliased' = tlsHeld' \ aliased' /\ flsBits' = flsHeld'
  BY <1>2, <1>3 DEF SlotsInv, HeldOnce
<1>6. \A j \in fresh' : tls'[j] = Null
  BY <1>3 DEF SlotsInv, SlotsShape, HeldOnce
<1>7. tlsBits' \subseteq 0..Width - 1 /\ aliased' \subseteq 0..Width - 1
  BY <1>2, <1>3 DEF SlotsInv
<1> QED  BY <1>4, <1>5, <1>6, <1>7 DEF SlotsInv, HeldOnce

\* The bit that goes is that of the index, or becomes an aliased one.
LEMMA FreeKeeps ==
  ASSUME SlotsInv, NEW i \in Index, TlsFree(i)
  PROVE  SlotsInv'
<1>1. /\ tlsBits' = tlsBits \ {Bit(i)} /\ tls' = tls
      /\ tlsHeld' = tlsHeld \ {i} /\ fresh' = fresh \ {i}
      /\ aliased' = IF i \in tlsHeld THEN aliased ELSE aliased \union {Bit(i)}
      /\ UNCHANGED <<flsBits, fls, flsHeld>>
  BY DEF TlsFree, Released, flsVars
<1>2. SlotsShape'
  BY <1>1 DEF SlotsShape, SlotsInv
<1>3. Bit(i) \in 0..Width - 1
  BY BitBelow
<1>4. tlsBits' \subseteq 0..Width - 1 /\ aliased' \subseteq 0..Width - 1 /\ tlsHeld' \subseteq 0..Width - 1
  BY <1>1, <1>3 DEF SlotsInv, HeldOnce
<1>5. tlsBits' \ aliased' = tlsHeld' \ aliased'
  <2>1. CASE i \in tlsHeld
    <3>1. i < Width
      BY <2>1, SlotsAssumption DEF SlotsInv, HeldOnce
    <3>2. Bit(i) = i
      BY <3>1, BitBelow
    <3> QED  BY <1>1, <2>1, <3>2 DEF SlotsInv, HeldOnce
  <2>2. CASE i \notin tlsHeld
    BY <1>1, <2>2 DEF SlotsInv, HeldOnce
  <2> QED  BY <2>1, <2>2
<1> QED  BY <1>1, <1>2, <1>4, <1>5 DEF SlotsInv, HeldOnce

LEMMA SetKeeps ==
  ASSUME SlotsInv, NEW i \in Index, NEW v \in Values, TlsSetValue(i, v)
  PROVE  SlotsInv'
<1>1. /\ tls' = [tls EXCEPT ![i] = v] /\ fresh' = fresh \ {i}
      /\ UNCHANGED <<tlsBits, tlsHeld, aliased, flsBits, fls, flsHeld>>
  BY DEF TlsSetValue, flsVars
<1>2. SlotsShape'
  BY <1>1 DEF SlotsShape, SlotsInv
<1>3. \A j \in fresh' : tls'[j] = Null
  BY <1>1 DEF SlotsInv, SlotsShape, HeldOnce
<1> QED  BY <1>1, <1>2, <1>3 DEF SlotsInv, HeldOnce

\* The slots of fibers: an index has its own bit.
FlsMoves ==
  \/ FlsAlloc \/ (\E i \in Index : FlsFree(i)) \/ (\E i \in Index, v \in Values : FlsSetValue(i, v))
  \/ InitThreadTeb \/ (\E i \in Index \union {NoIndex} : Refused(i))

LEMMA FlsKeeps ==
  ASSUME SlotsInv, FlsMoves
  PROVE  SlotsInv'
<1>1. UNCHANGED <<tlsBits, tls, tlsHeld, fresh, aliased>>
  BY DEF FlsMoves, FlsAlloc, FlsFree, FlsSetValue, InitThreadTeb, Refused, slotVars, tlsVars
<1>2. flsBits' = flsHeld'
  BY DEF SlotsInv, HeldOnce, FlsMoves, FlsAlloc, FlsFree, FlsSetValue, InitThreadTeb, Refused, slotVars, flsVars
<1>3. fls' \in [Index -> Values \union {Null}] /\ flsHeld' \subseteq Index
  BY SlotsAssumption
     DEF SlotsInv, SlotsShape, FlsMoves, FlsAlloc, FlsFree, FlsSetValue, InitThreadTeb, Refused, slotVars, flsVars, IsLowest
<1>4. SlotsShape'
  BY <1>1, <1>3 DEF SlotsInv, SlotsShape
<1> QED  BY <1>1, <1>2, <1>4 DEF SlotsInv, HeldOnce

LEMMA SlotsStep == SlotsInv /\ [Next]_win32Vars => SlotsInv'
<1> SUFFICES ASSUME SlotsInv, [Next]_win32Vars PROVE SlotsInv'
  OBVIOUS
<1>1. CASE SlotsNext
  <2>1. CASE TlsAlloc
    BY <2>1, AllocKeeps
  <2>2. CASE \E i \in Index : TlsFree(i)
    BY <2>2, FreeKeeps
  <2>3. CASE \E i \in Index, v \in Values : TlsSetValue(i, v)
    BY <2>3, SetKeeps
  <2>4. CASE FlsMoves
    BY <2>4, FlsKeeps
  <2> QED  BY <1>1, <2>1, <2>2, <2>3, <2>4 DEF SlotsNext, FlsMoves
<1>2. CASE UNCHANGED slotVars
  BY <1>2 DEF SlotsInv, SlotsShape, HeldOnce, slotVars
<1>3. SlotsNext \/ UNCHANGED slotVars
  BY DEF Next, win32Vars
<1> QED  BY <1>1, <1>2, <1>3

LEMMA SlotsTyped == SlotsInv => SlotsTypeOK
BY DEF SlotsInv, SlotsShape, HeldOnce, SlotsTypeOK

\* A slot is held by one caller until the guest frees it through another index, no slot is given out
\* beyond the width of the bitmap, and each reads null until it is set (HeldOnce), whatever the width
\* and whichever indices the guest sets and frees.
THEOREM SlotsOnce == Spec => []HeldOnce
<1>1. SlotsInv => HeldOnce
  BY DEF SlotsInv
<1> QED  BY <1>1, InitSlots, SlotsStep, PTL DEF Spec

-----------------------------------------------------------------------------
(***************************************************************************)
(* Virtual memory, in pages: what rounding an address or a length does.    *)
(***************************************************************************)
LEMMA DivBounds ==
  ASSUME NEW b \in Nat
  PROVE  /\ b \div PageSize \in Nat
         /\ (b \div PageSize) * PageSize <= b
         /\ b < (b \div PageSize) * PageSize + PageSize
BY MemoryAssumption

LEMMA TimesGrows ==
  ASSUME NEW p \in Nat, NEW q \in Nat, p <= q
  PROVE  p * PageSize \in Nat /\ p * PageSize <= q * PageSize
BY MemoryAssumption

LEMMA DivIs ==
  ASSUME NEW b \in Nat, NEW q \in Nat, q * PageSize <= b, b < q * PageSize + PageSize
  PROVE  b \div PageSize = q
BY MemoryAssumption

LEMMA TimesLess ==
  ASSUME NEW p \in Nat, NEW q \in Nat, p * PageSize < q * PageSize + PageSize
  PROVE  p <= q
BY MemoryAssumption

LEMMA TimesPlus ==
  ASSUME NEW p \in Nat, NEW q \in Nat
  PROVE  p * PageSize + q * PageSize = (p + q) * PageSize
BY MemoryAssumption

-----------------------------------------------------------------------------
\* The pages of `n` bytes from an aligned address are those that rounding up to pages gives.
PagesOf(a, n) == {b \div PageSize : b \in a..a + n - 1}

LEMMA AlignedPages ==
  ASSUME NEW q \in Nat, NEW n \in Nat \ {0}
  PROVE  From(q * PageSize, RoundUp(n)) = PagesOf(q * PageSize, n)
<1>1. PICK P \in Nat \ {0} : P = PageSize
  BY MemoryAssumption
<1>2. PICK k \in Nat : k = (n + P - 1) \div P
  BY <1>1, DivBounds
<1>3. k * P <= n + P - 1 /\ n + P - 1 < k * P + P
  BY <1>1, <1>2, DivBounds
<1>4. RoundUp(n) = k * P
  BY <1>1, <1>2 DEF RoundUp
<1>5. q * P \in Nat /\ k * P \in Nat /\ q * P + k * P = (q + k) * P
  BY <1>1, TimesPlus, TimesGrows
<1>6. (q * P) \div P = q /\ (q * P + k * P) \div P = q + k
  BY <1>1, <1>5, DivIs
<1>7. From(q * P, RoundUp(n)) = q..(q + k - 1)
  BY <1>1, <1>4, <1>6 DEF From
<1>8. ASSUME NEW b \in (q * P)..(q * P + n - 1)
      PROVE  b \div P \in q..(q + k - 1)
  <2>1. b \in Nat
    BY <1>5
  <2>2. PICK d \in Nat : d = b \div P /\ d * P <= b /\ b < d * P + P
    BY <1>1, <2>1, DivBounds
  <2>3. q <= d
    BY <1>1, <2>2, TimesLess
  <2>4. b < (q + k) * P
    BY <1>3, <1>5
  <2>5. d < q + k
    <3>1. CASE q + k <= d
      <4>1. (q + k) * P <= d * P
        BY <1>1, <3>1, TimesGrows
      <4> QED  BY <1>5, <2>2, <2>4, <4>1
    <3> QED  BY <3>1
  <2> QED  BY <2>2, <2>3, <2>5
<1>9. ASSUME NEW d \in q..(q + k - 1)
      PROVE  \E b \in (q * P)..(q * P + n - 1) : d = b \div P
  <2>1. d \in Nat /\ d * P \in Nat /\ q * P <= d * P /\ d * P + P = (d + 1) * P
    BY <1>1, TimesGrows
  <2>2. (d + 1) * P <= (q + k) * P
    BY <1>1, <2>1, TimesGrows
  <2>3. d * P <= q * P + n - 1
    BY <1>3, <1>5, <2>1, <2>2
  <2>4. (d * P) \div P = d
    BY <1>1, <2>1, DivIs
  <2> QED  BY <1>5, <2>1, <2>3, <2>4
<1>10. PICK S : S = {b \div P : b \in (q * P)..(q * P + n - 1)}
  OBVIOUS
<1>11. S = q..(q + k - 1)
  BY <1>8, <1>9, <1>10
<1>12. PagesOf(q * PageSize, n) = S
  BY <1>1, <1>10 DEF PagesOf
<1> QED  BY <1>1, <1>7, <1>11, <1>12

\* VirtualProtect reaches the pages of its range, and no others.
LEMMA CoveredPages ==
  ASSUME NEW c \in Nat, NEW n \in Nat \ {0}
  PROVE  Covered(c, n) = PagesOf(c, n)
<1>1. PICK q \in Nat : q = c \div PageSize /\ q * PageSize <= c /\ c < q * PageSize + PageSize
  BY DivBounds
<1>2. PageBase(c) = q * PageSize /\ q * PageSize \in Nat
  BY <1>1, TimesGrows DEF PageBase
<1>3. PICK m \in Nat \ {0} : m = (c - q * PageSize) + n
  BY <1>1, <1>2
<1>4. Covered(c, n) = PagesOf(q * PageSize, m)
  BY <1>1, <1>2, <1>3, AlignedPages DEF Covered
<1>5. q * PageSize + m = c + n
  BY <1>2, <1>3
<1>6. ASSUME NEW b \in (q * PageSize)..(q * PageSize + m - 1) PROVE b \div PageSize \in PagesOf(c, n)
  <2>1. CASE b \in c..c + n - 1
    BY <2>1 DEF PagesOf
  <2>2. CASE b < c
    <3>1. b \in Nat /\ q * PageSize <= b /\ b < q * PageSize + PageSize
      <4>1. PICK z \in Nat : z = q * PageSize
        BY <1>2
      <4> QED  BY <1>1, <1>3, <2>2, <4>1, MemoryAssumption
    <3>2. b \div PageSize = q
      BY <3>1, DivIs
    <3> QED  BY <1>1, <3>2 DEF PagesOf
  <2> QED  BY <1>2, <1>5, <2>1, <2>2
<1>7. PagesOf(c, n) \subseteq PagesOf(q * PageSize, m)
  BY <1>1, <1>2, <1>5 DEF PagesOf
<1> QED  BY <1>4, <1>6, <1>7 DEF PagesOf

-----------------------------------------------------------------------------
\* A region begins at a page of its own.
MemoryInv ==
  /\ MemoryTypeOK /\ RegionsKept
  /\ \A a \in Addrs : regions[a] > 0 => \E q \in Pages : a = q * PageSize
  /\ \A a \in Addrs : RegionPages(a) \subseteq Pages

LEMMA PagesOfRegion ==
  ASSUME MemoryInv, NEW a \in Addrs
  PROVE  a \in Nat /\ regions[a] \in Nat /\ RegionPages(a) = PagesOf(a, regions[a])
BY MemoryAssumption DEF MemoryInv, MemoryTypeOK, RegionPages, PagesOf, Addrs

\* What a change of some pages makes of a table of protections.
LEMMA PutType ==
  ASSUME NEW f \in [Pages -> Prots \union {"none"}], NEW S, NEW w \in Prots \union {"none"}, NEW g, g = Put(f, S, w)
  PROVE  /\ g \in [Pages -> Prots \union {"none"}]
         /\ \A p \in Pages : (p \in S => g[p] = w) /\ (p \notin S => g[p] = f[p])
BY DEF Put

LEMMA RegionSet ==
  ASSUME NEW f \in [Addrs -> 0..MaxPage * PageSize], NEW a \in Addrs, NEW n \in 0..MaxPage * PageSize,
         NEW g, g = [f EXCEPT ![a] = n]
  PROVE  /\ g \in [Addrs -> 0..MaxPage * PageSize] /\ g[a] = n
         /\ \A b \in Addrs : b # a => g[b] = f[b]
OBVIOUS

LEMMA MemoryBegins == MemoryInit => MemoryInv
<1> SUFFICES ASSUME MemoryInit PROVE MemoryInv
  OBVIOUS
<1>1. MaxPage * PageSize \in Nat
  BY MemoryAssumption
<1>2. MemoryTypeOK
  BY <1>1 DEF MemoryInit, MemoryTypeOK
<1>3. \A a \in Addrs : regions[a] = 0 /\ RegionPages(a) = {}
  BY MemoryAssumption DEF MemoryInit, RegionPages, Addrs
<1> QED  BY <1>2, <1>3 DEF MemoryInv, RegionsKept

\* A page that another region does not have can be mapped; the region is what it covers.
LEMMA AllocKeepsRegions ==
  ASSUME MemoryInv, NEW n \in 1..MaxPage * PageSize, NEW w \in Prots, VirtualAlloc(n, w)
  PROVE  MemoryInv'
<1>1. PICK q, S : /\ q \in Pages /\ S = From(q * PageSize, RoundUp(n))
                  /\ S \subseteq Pages /\ \A p \in S : page[p] = "none"
                  /\ page' = Put(page, S, w) /\ asked' = Put(asked, S, w)
                  /\ regions' = [regions EXCEPT ![q * PageSize] = n]
  BY DEF VirtualAlloc
<1>2. PICK a : a = q * PageSize
  OBVIOUS
<1>3. q \in Nat /\ n \in Nat \ {0} /\ S = PagesOf(a, n)
  BY <1>1, <1>2, AlignedPages, MemoryAssumption DEF Pages
<1>4. a \in Addrs
  <2>1. q + 1 \in Nat /\ MaxPage \in Nat /\ q + 1 <= MaxPage
    BY <1>1, <1>3, MemoryAssumption DEF Pages
  <2>2. (q + 1) * PageSize <= MaxPage * PageSize /\ (q + 1) * PageSize = a + PageSize /\ a \in Nat
    BY <1>2, <1>3, <2>1, TimesGrows, MemoryAssumption
  <2> QED  BY <2>1, <2>2, TimesGrows, MemoryAssumption DEF Addrs
<1>5. /\ regions' \in [Addrs -> 0..MaxPage * PageSize] /\ regions'[a] = n
      /\ \A b \in Addrs : b # a => regions'[b] = regions[b]
  <2>1. n \in 0..MaxPage * PageSize
    BY MemoryAssumption
  <2> QED  BY <1>1, <1>2, <1>4, <2>1, RegionSet DEF MemoryInv, MemoryTypeOK
<1>6. /\ page' \in [Pages -> Prots \union {"none"}] /\ asked' \in [Pages -> Prots \union {"none"}]
      /\ \A p \in Pages : /\ p \in S => page'[p] = w /\ asked'[p] = w
                          /\ p \notin S => page'[p] = page[p] /\ asked'[p] = asked[p]
  BY <1>1, PutType DEF MemoryInv, MemoryTypeOK, Put
<1>7. RegionPages(a)' = S
  BY <1>3, <1>5 DEF RegionPages, PagesOf
<1>8. \A b \in Addrs : b # a => RegionPages(b)' = RegionPages(b)
  BY <1>5 DEF RegionPages
<1>9. \A b \in Addrs : RegionPages(b) \subseteq Pages /\ RegionPages(b) \cap S = {}
  BY <1>1 DEF MemoryInv, RegionsKept
<1>10. \A b \in Addrs : RegionPages(b)' \subseteq Pages
  BY <1>1, <1>7, <1>8, <1>9
<1>11. RegionsKept'
  <2>1. \A b \in Addrs : \A p \in RegionPages(b)' : page'[p] # "none" /\ page'[p] = asked'[p]
    BY <1>1, <1>6, <1>7, <1>8, <1>9, MemoryAssumption DEF MemoryInv, RegionsKept
  <2>2. \A b, c \in Addrs : b # c => RegionPages(b)' \cap RegionPages(c)' = {}
    BY <1>7, <1>8, <1>9 DEF MemoryInv, RegionsKept
  <2> QED  BY <2>1, <2>2 DEF RegionsKept
<1>12. \A b \in Addrs : regions'[b] > 0 => \E p \in Pages : b = p * PageSize
  BY <1>1, <1>2, <1>5 DEF MemoryInv
<1> QED  BY <1>5, <1>6, <1>10, <1>11, <1>12 DEF MemoryInv, MemoryTypeOK

\* Whether a size is given or not, what is unmapped is the region's own.
LEMMA FreeKeepsRegions ==
  ASSUME MemoryInv, NEW a \in Addrs, NEW n \in {0, regions[a]}, regions[a] > 0, VirtualFree(a, n)
  PROVE  MemoryInv'
<1>1. PICK S : /\ S = From(a, Unmapped(n))
               /\ page' = Put(page, S, "none") /\ asked' = Put(asked, S, "none")
               /\ regions' = [regions EXCEPT ![a] = 0]
  BY DEF VirtualFree
<1>2. PICK q \in Pages : a = q * PageSize
  BY DEF MemoryInv
<1>3. q \in Nat /\ a \in Nat /\ regions[a] \in Nat \ {0} /\ RegionPages(a) = PagesOf(a, regions[a])
  BY <1>2, PagesOfRegion, MemoryAssumption DEF Pages
<1>4. S \subseteq RegionPages(a)
  <2>1. CASE n = 0
    <3>1. Unmapped(n) = PageSize
      BY <2>1 DEF Unmapped
    <3>2. a \div PageSize = q /\ (a + PageSize) \div PageSize = q + 1
      <4>1. (q + 1) * PageSize = a + PageSize
        BY <1>2, <1>3, MemoryAssumption
      <4> QED  BY <1>2, <1>3, <4>1, DivIs, MemoryAssumption
    <3>3. S = {q}
      BY <1>1, <1>3, <3>1, <3>2 DEF From
    <3>4. a \in a..a + regions[a] - 1
      BY <1>3
    <3> QED  BY <1>3, <3>2, <3>3, <3>4 DEF PagesOf
  <2>2. CASE n # 0
    BY <1>1, <1>2, <1>3, <2>2, AlignedPages DEF Unmapped
  <2> QED  BY <2>1, <2>2
<1>5. /\ regions' \in [Addrs -> 0..MaxPage * PageSize] /\ regions'[a] = 0
      /\ \A b \in Addrs : b # a => regions'[b] = regions[b]
  <2>1. 0 \in 0..MaxPage * PageSize
    BY MemoryAssumption
  <2> QED  BY <1>1, <2>1, RegionSet DEF MemoryInv, MemoryTypeOK
<1>6. /\ page' \in [Pages -> Prots \union {"none"}] /\ asked' \in [Pages -> Prots \union {"none"}]
      /\ \A p \in Pages : p \notin S => page'[p] = page[p] /\ asked'[p] = asked[p]
  BY <1>1, PutType DEF MemoryInv, MemoryTypeOK, Put
<1>7. RegionPages(a)' = {}
  BY <1>3, <1>5 DEF RegionPages
<1>8. \A b \in Addrs : b # a => RegionPages(b)' = RegionPages(b)
  BY <1>5 DEF RegionPages
<1>9. \A b \in Addrs : RegionPages(b) \subseteq Pages /\ (b # a => RegionPages(b) \cap S = {})
  BY <1>4 DEF MemoryInv, RegionsKept
<1>10. \A b \in Addrs : RegionPages(b)' \subseteq Pages
  BY <1>7, <1>8, <1>9
<1>11. RegionsKept'
  <2>1. \A b \in Addrs : \A p \in RegionPages(b)' : page'[p] # "none" /\ page'[p] = asked'[p]
    BY <1>6, <1>7, <1>8, <1>9 DEF MemoryInv, RegionsKept
  <2>2. \A b, c \in Addrs : b # c => RegionPages(b)' \cap RegionPages(c)' = {}
    BY <1>7, <1>8 DEF MemoryInv, RegionsKept
  <2> QED  BY <2>1, <2>2 DEF RegionsKept
<1>12. \A b \in Addrs : regions'[b] > 0 => \E p \in Pages : b = p * PageSize
  BY <1>5 DEF MemoryInv
<1> QED  BY <1>5, <1>6, <1>10, <1>11, <1>12 DEF MemoryInv, MemoryTypeOK

\* A change of protection inside a region stays inside it.
LEMMA ProtectKeepsRegions ==
  ASSUME MemoryInv, NEW a \in Addrs, NEW k \in Addrs, NEW n \in 1..MaxPage * PageSize, NEW w \in Prots,
         a + k + n <= a + regions[a], VirtualProtect(a + k, n, w)
  PROVE  MemoryInv'
<1>1. a \in Nat /\ k \in Nat /\ n \in Nat \ {0} /\ regions[a] \in Nat /\ RegionPages(a) = PagesOf(a, regions[a])
  BY PagesOfRegion, MemoryAssumption DEF Addrs
<1>2. PICK S : S = PagesOf(a + k, n)
  OBVIOUS
<1>3. Covered(a + k, n) = S
  BY <1>1, <1>2, CoveredPages
<1>4. S \subseteq RegionPages(a)
  BY <1>1, <1>2 DEF PagesOf
<1>5. /\ page' = Put(page, S, w) /\ asked' = Put(asked, S, w) /\ regions' = regions
  BY <1>2, <1>3 DEF VirtualProtect, PagesOf
<1>6. S \subseteq Pages
  BY <1>4 DEF MemoryInv
<1>7. /\ page' \in [Pages -> Prots \union {"none"}] /\ asked' \in [Pages -> Prots \union {"none"}]
      /\ \A p \in Pages : /\ p \in S => page'[p] = w /\ asked'[p] = w
                          /\ p \notin S => page'[p] = page[p] /\ asked'[p] = asked[p]
  BY <1>5, <1>6 DEF MemoryInv, MemoryTypeOK, Put
<1>8. \A b \in Addrs : RegionPages(b)' = RegionPages(b)
  BY <1>5 DEF RegionPages
<1>9. RegionsKept'
  <2>1. \A b \in Addrs : \A p \in RegionPages(b) : page'[p] # "none" /\ page'[p] = asked'[p]
    BY <1>7, MemoryAssumption DEF MemoryInv, RegionsKept
  <2> QED  BY <1>8, <2>1 DEF RegionsKept, MemoryInv
<1> QED  BY <1>5, <1>7, <1>8, <1>9 DEF MemoryInv, MemoryTypeOK

LEMMA MemoryNextKeeps ==
  ASSUME MemoryInv, MemoryNext
  PROVE  MemoryInv'
BY AllocKeepsRegions, FreeKeepsRegions, ProtectKeepsRegions DEF MemoryNext

LEMMA InitMemory == Init => MemoryInv
BY MemoryBegins DEF Init

LEMMA MemoryStep == MemoryInv /\ [Next]_win32Vars => MemoryInv'
<1> SUFFICES ASSUME MemoryInv, [Next]_win32Vars PROVE MemoryInv'
  OBVIOUS
<1>1. CASE MemoryNext
  BY <1>1, MemoryNextKeeps
<1>2. CASE UNCHANGED memoryVars
  BY <1>2 DEF MemoryInv, MemoryTypeOK, RegionsKept, RegionPages, memoryVars
<1> QED  BY <1>1, <1>2 DEF Next, win32Vars

\* What the guest has allocated and not freed keeps its pages, apart from all others, under the
\* protection it asked for last (RegionsKept), for every number and size of pages.
THEOREM RegionsAreKept == Spec => []RegionsKept
<1>1. MemoryInv => RegionsKept
  BY DEF MemoryInv
<1> QED  BY <1>1, InitMemory, MemoryStep, PTL DEF Spec

-----------------------------------------------------------------------------
(***************************************************************************)
(* Induction over the naturals, for a set: the least of those that are not *)
(* in it has no predecessor.                                               *)
(***************************************************************************)
LEMMA Induction ==
  ASSUME NEW T, 0 \in T, \A n \in Nat : n \in T => n + 1 \in T
  PROVE  Nat \subseteq T
<1> SUFFICES ASSUME NEW k \in Nat, k \notin T PROVE FALSE
  OBVIOUS
<1>1. PICK B : B = {n \in Nat : n \notin T}
  OBVIOUS
<1>2. PICK C : C = {0..n - 1 : n \in B}
  OBVIOUS
<1>3. C # {}
  BY <1>1, <1>2
<1>4. C \subseteq FiniteSubsetsOf(Nat)
  <2> SUFFICES ASSUME NEW n \in B PROVE 0..n - 1 \in FiniteSubsetsOf(Nat)
    BY <1>2
  <2>1. n \in Nat
    BY <1>1
  <2> QED  BY <2>1, FS_Interval DEF FiniteSubsetsOf
<1>5. PICK x \in C : \A y \in C : <<y, x>> \notin StrictSubsetOrdering(Nat)
  BY <1>3, <1>4, FS_StrictSubsetOrderingWellFounded, WFMin
<1>6. PICK m \in B : x = 0..m - 1
  BY <1>2, <1>5
<1>7. m - 1 \in B
  BY <1>1, <1>6
<1>8. 0..(m - 1) - 1 \in C
  BY <1>2, <1>7
<1>9. <<0..(m - 1) - 1, x>> \in StrictSubsetOrdering(Nat)
  BY <1>1, <1>6, <1>7 DEF StrictSubsetOrdering
<1> QED  BY <1>5, <1>8, <1>9

\* A bounded set of naturals that is not empty has a greatest and a least element.
LEMMA Greatest ==
  ASSUME NEW n \in Nat, NEW S \in SUBSET (0..n), S # {}
  PROVE  \E i \in S : \A j \in S : j <= i
<1>1. PICK T : T = {k \in Nat : \A U \in SUBSET (0..n) : U # {} /\ U \subseteq 0..k => \E i \in U : \A j \in U : j <= i}
  OBVIOUS
<1>2. 0 \in T
  <2>1. ASSUME NEW U \in SUBSET (0..n), U # {}, U \subseteq 0..0 PROVE \E i \in U : \A j \in U : j <= i
    <3>1. \A j \in U : j = 0
      BY <2>1
    <3>2. PICK i \in U : TRUE
      BY <2>1
    <3>3. \A j \in U : j <= i
      BY <3>1
    <3> QED  BY <3>3
  <2> QED  BY <1>1, <2>1
<1>3. ASSUME NEW k \in Nat, k \in T PROVE k + 1 \in T
  <2> SUFFICES ASSUME NEW U \in SUBSET (0..n), U # {}, U \subseteq 0..k + 1
               PROVE  \E i \in U : \A j \in U : j <= i
    BY <1>1
  <2>1. CASE k + 1 \in U
    BY <2>1
  <2>2. CASE k + 1 \notin U
    BY <1>1, <1>3, <2>2
  <2> QED  BY <2>1, <2>2
<1>4. n \in T
  BY <1>2, <1>3, Induction
<1> QED  BY <1>1, <1>4

LEMMA Least ==
  ASSUME NEW S \in SUBSET Nat, S # {}
  PROVE  \E i \in S : \A j \in S : i <= j
<1>1. PICK n \in S : TRUE
  OBVIOUS
<1>2. PICK R : R = {n - i : i \in {j \in S : j <= n}}
  OBVIOUS
<1>3. R \in SUBSET (0..n) /\ R # {}
  BY <1>1, <1>2
<1>4. PICK m \in R : \A j \in R : j <= m
  BY <1>1, <1>3, Greatest
<1>5. PICK i \in S : i <= n /\ m = n - i
  BY <1>2, <1>4
<1>6. ASSUME NEW j \in S PROVE i <= j
  <2>1. CASE j <= n
    <3>1. n - j \in R
      BY <1>2, <2>1
    <3> QED  BY <1>1, <1>4, <1>5, <2>1, <3>1
  <2>2. CASE ~(j <= n)
    BY <1>1, <1>5, <2>2
  <2> QED  BY <2>1, <2>2
<1> QED  BY <1>5, <1>6

LEMMA Division ==
  ASSUME NEW P \in Nat \ {0}, NEW b \in Nat
  PROVE  /\ b \div P \in Nat
         /\ (b \div P) * P <= b
         /\ b < (b \div P) * P + P
         /\ b % P = 0 => b = (b \div P) * P
OBVIOUS

LEMMA Quotient ==
  ASSUME NEW P \in Nat \ {0}, NEW b \in Nat, NEW q \in Nat, q * P <= b, b < q * P + P
  PROVE  b \div P = q
OBVIOUS

LEMMA Multiples ==
  ASSUME NEW P \in Nat \ {0}, NEW p \in Nat, NEW q \in Nat
  PROVE  /\ p * P \in Nat /\ p * P + q * P = (p + q) * P
         /\ p <= q => p * P <= q * P
         /\ p * P < q * P + P => p <= q
OBVIOUS

-----------------------------------------------------------------------------
\* What is known of the file of a load.
LEMMA FileType ==
  ASSUME image \in Images
  PROVE  /\ ImageType(F) /\ WellLinked(F)
         /\ F.base \in Nat \ {0} /\ F.size \in Nat
         /\ F.sections \in Seq(SectionType) /\ F.relocs \in Seq(RelocType) /\ F.imports \in Seq(ImportType)
BY PeAssumption DEF F, ImageType

\* The last of some entries of a sequence.
LEMMA LastOfIs ==
  ASSUME NEW n \in Nat, NEW S \in SUBSET (1..n), S # {}
  PROVE  LastOf(S) \in S /\ \A j \in S : j <= LastOf(S)
<1>1. \E i \in S : \A j \in S : j <= i
  <2>1. S \in SUBSET (0..n)
    OBVIOUS
  <2> QED  BY <2>1, Greatest
<1> QED  BY <1>1 DEF LastOf

LEMMA CopiedType ==
  ASSUME image \in Images, NEW r \in Rvas
  PROVE  Copied(r) \in Int
<1>1. CASE SectionOf(r) # {}
  <2>1. F.sections \in Seq(SectionType)
    BY FileType
  <2>2. SectionOf(r) \in SUBSET (1..Len(F.sections)) /\ Len(F.sections) \in Nat
    BY <2>1 DEF SectionOf
  <2>3. PICK i \in SectionOf(r) : i = LastOf(SectionOf(r))
    BY <1>1, <2>2, LastOfIs
  <2>4. PICK s : s = F.sections[i]
    OBVIOUS
  <2>7. s \in SectionType
    BY <2>1, <2>2, <2>3, <2>4, ElementOfSeq
  <2>5. s \in SectionType /\ r \in s.va..s.va + Len(s.raw) - 1
    BY <2>3, <2>4, <2>7 DEF SectionOf
  <2>6. s.va \in Nat /\ s.raw \in Seq(Int) /\ r \in Int
    BY <2>5, FileType DEF SectionType, Rvas
  <2>8. s.raw[r - s.va + 1] \in Int
    BY <2>5, <2>6
  <2> QED  BY <1>1, <2>3, <2>4, <2>8 DEF Copied
<1>2. CASE SectionOf(r) = {}
  BY <1>2 DEF Copied, HeaderCell
<1> QED  BY <1>1, <1>2

LEMMA WholeWords ==
  ASSUME NEW W \in Nat \ {0}, NEW k \in Int, NEW x \in Int, x = W * k, NEW n \in 0..W - 1
  PROVE  (x + n) % W = n /\ x % W = 0
OBVIOUS

LEMMA Halved ==
  ASSUME NEW W \in Nat \ {0}, NEW v \in Int
  PROVE  \E q \in Int, x \in Int, m \in 0..W - 1 : x = W * q /\ v = x + m /\ m = v % W
OBVIOUS

LEMMA TakenAway ==
  ASSUME NEW x \in Int, NEW m \in Int, NEW n \in Int, NEW v, v = x + m, NEW u, u = (v - m) + n
  PROVE  u = x + n
OBVIOUS

\* The lower half of a number: moving it leaves the upper half, and is right as far as it can tell.
LEMMA LowerHalf ==
  ASSUME NEW W \in Nat \ {0}, NEW v \in Int, NEW d \in Int, NEW u, u = (v - (v % W)) + ((v + d) % W)
  PROVE  u \in Int /\ u - (u % W) = v - (v % W) /\ ((u - v) - d) % W = 0
<1>1. PICK q \in Int, x \in Int, m \in 0..W - 1 : x = W * q /\ v = x + m /\ m = v % W
  BY Halved
<1>2. PICK p \in Int, y \in Int, n \in 0..W - 1 : y = W * p /\ v + d = y + n /\ n = (v + d) % W
  BY Halved
<1>3. u = x + n
  <2>1. u = (v - m) + n
    BY <1>1, <1>2, Zenon
  <2>2. v = x + m /\ m \in Int /\ n \in Int
    BY <1>1
  <2> QED  BY <2>1, <2>2, TakenAway
<1>4. u % W = n
  <2>1. (x + n) % W = n
    BY <1>1, WholeWords
  <2> QED  BY <1>3, <2>1
<1>5. (u - v) - d = x - y
  BY <1>1, <1>2, <1>3
<1>6. x - y = W * (q - p)
  BY <1>1, <1>2
<1>7. (x - y) % W = 0
  BY <1>1, <1>2, <1>6, WholeWords
<1>8. u - (u % W) = v - (v % W)
  BY <1>1, <1>3, <1>4
<1> QED  BY <1>3, <1>5, <1>7, <1>8

\* A cell is listed once or not at all, and moved as it is listed.
LEMMA MovesAsListed ==
  ASSUME image \in Images, base \in Nat, NEW r, NEW w \in Int, NEW v, v = Moved(r, w)
  PROVE  v \in Int /\ Meant(r, v, w)
<1>1. F.base \in Nat /\ F.relocs \in Seq(RelocType) /\ Word \in Nat \ {0} /\ WellLinked(F)
  BY FileType, PeAssumption
<1>2. PICK d \in Int : d = Slide /\ d = base - F.base
  BY <1>1 DEF Slide
<1>3. CASE Moves(r) = {}
  <2>1. ~Listed(r, "dir64") /\ ~Listed(r, "highlow")
    BY <1>3 DEF Moves, Listed
  <2>2. v = w
    BY <1>3 DEF Moved
  <2> QED  BY <2>1, <2>2 DEF Meant
<1>4. CASE Moves(r) # {}
  <2>1. PICK k \in Moves(r) : TRUE
    BY <1>4
  <2>2. \A j \in Moves(r) : j = k
    BY <1>1, <2>1 DEF Moves, WellLinked
  <2>3. k \in DOMAIN F.relocs /\ F.relocs[k].at = r /\ F.relocs[k].type \in {"dir64", "highlow"}
    <3>1. k \in DOMAIN F.relocs /\ F.relocs[k].at = r /\ F.relocs[k].type # "pad"
      BY <2>1 DEF Moves
    <3>2. F.relocs[k] \in RelocType
      BY <1>1, <3>1
    <3> QED  BY <3>1, <3>2 DEF RelocType
  <2>4. Listed(r, "dir64") <=> F.relocs[k].type = "dir64"
    BY <2>2, <2>3 DEF Listed, Moves
  <2>5. Listed(r, "highlow") <=> F.relocs[k].type = "highlow"
    BY <2>2, <2>3 DEF Listed, Moves
  <2>6. CASE F.relocs[k].type = "dir64"
    <3>1. v = w + d
      BY <1>2, <1>4, <2>2, <2>6 DEF Moved
    <3>2. v \in Int /\ v - base = w - F.base
      BY <1>1, <1>2, <3>1
    <3> QED  BY <2>4, <2>5, <2>6, <3>2 DEF Meant
  <2>7. CASE F.relocs[k].type = "highlow"
    <3>1. v = (w - (w % Word)) + ((w + d) % Word)
      BY <1>2, <1>4, <2>1, <2>7 DEF Moved, Upper
    <3>2. v \in Int /\ v - (v % Word) = w - (w % Word) /\ ((v - w) - d) % Word = 0
      BY <1>1, <3>1, LowerHalf
    <3>4. v \in Int /\ F.base \in Int /\ base \in Int
      BY <1>1, <3>2
    <3>3. (v - base) - (w - F.base) = (v - w) - d
      BY <1>2, <3>4
    <3> QED  BY <2>4, <2>5, <2>7, <3>2, <3>3 DEF Meant, Upper
  <2> QED  BY <2>3, <2>6, <2>7
<1> QED  BY <1>3, <1>4

\* What is copied is what the file has.
LEMMA CopiedIsFile ==
  ASSUME image \in Images, NEW r \in Rvas
  PROVE  Copied(r) \in InFile(r)
<1>1. WellLinked(F) /\ F.sections \in Seq(SectionType) /\ F.sections # <<>> /\ r \in Int
  BY FileType DEF WellLinked, Rvas
<1>2. SectionOf(r) = Covering(r)
  <2> SUFFICES ASSUME NEW i \in DOMAIN F.sections
               PROVE  i \in SectionOf(r) <=> i \in Covering(r)
    BY DEF SectionOf, Covering
  <2>1. F.sections[i] \in SectionType
    BY <1>1
  <2>2. PICK s : s = F.sections[i] /\ s \in SectionType
    BY <2>1
  <2>3. s.raw = <<>> => ~(r \in s.va..s.va + Len(s.raw) - 1)
    BY <1>1, <2>2 DEF SectionType
  <2> QED  BY <2>2, <2>3 DEF SectionOf, Covering, Present
<1>3. CASE SectionOf(r) # {}
  <2>1. SectionOf(r) \in SUBSET (1..Len(F.sections)) /\ Len(F.sections) \in Nat
    BY <1>1 DEF SectionOf
  <2>2. LastOf(SectionOf(r)) \in SectionOf(r)
    BY <1>3, <2>1, LastOfIs
  <2> QED  BY <1>2, <1>3, <2>2 DEF Copied, InFile
<1>4. CASE SectionOf(r) = {}
  <2>1. 1 \in DOMAIN F.sections
    BY <1>1
  <2>2. ASSUME NEW i \in DOMAIN F.sections
        PROVE  F.sections[i].va \in Nat /\ F.sections[i].va >= F.sections[1].va
    <3>1. F.sections[i] \in SectionType
      BY <1>1
    <3> QED  BY <1>1, <3>1 DEF SectionType, WellLinked
  <2>3. (\A i \in DOMAIN F.sections : r < F.sections[i].va) <=> r < F.sections[1].va
    BY <1>1, <2>1, <2>2
  <2> QED  BY <1>2, <1>4, <2>3 DEF Copied, InFile
<1> QED  BY <1>3, <1>4

LEMMA PagesForIs ==
  ASSUME NEW v \in Nat
  PROVE  /\ PagesFor(v) \in Nat /\ PagesFor(v) * PageCells <= v + PageCells - 1
         /\ v + PageCells - 1 < PagesFor(v) * PageCells + PageCells
<1>1. PICK P \in Nat \ {0} : P = PageCells
  BY PeAssumption
<1>2. PICK n \in Nat : n = v + P - 1
  OBVIOUS
<1> QED  BY <1>1, <1>2, Division DEF PagesFor

\* The pages the protection of a section reaches are those its memory is in.
LEMMA ReachIs ==
  ASSUME image \in Images, NEW p
  PROVE  Reaching(p) = InSections(p)
<1>1. PICK P \in Nat \ {0} : P = PageCells
  BY PeAssumption
<1> SUFFICES ASSUME NEW i \in DOMAIN F.sections
             PROVE  i \in Reaching(p) <=> i \in InSections(p)
  BY DEF Reaching, InSections
<1>2. PICK s : s = F.sections[i]
  OBVIOUS
<1>3. s \in SectionType /\ (s.vsize > 0 => s.va % P = 0 /\ PagesFor(Len(s.raw)) <= PagesFor(s.vsize))
  BY <1>1, <1>2, FileType DEF WellLinked
<1>4. s.va \in Nat /\ s.vsize \in Nat /\ Len(s.raw) \in Nat
  BY <1>3 DEF SectionType
<1>5. CASE s.vsize = 0
  BY <1>2, <1>4, <1>5 DEF Reaching, InSections
<1>6. CASE s.vsize > 0
  <2>1. PICK v \in Nat : v = s.vsize
    BY <1>4
  <2>2. PICK q \in Nat : q = s.va \div P /\ s.va = q * P
    BY <1>3, <1>4, <1>6, Division
  <2>3. PICK k \in Nat : k = PagesFor(v) /\ k * P <= v + P - 1 /\ v + P - 1 < k * P + P
    BY <1>1, <2>1, PagesForIs
  <2>4. PagesFor(Longer(s)) = k
    <3>1. CASE s.vsize > Len(s.raw)
      BY <3>1, <2>1, <2>3 DEF Longer
    <3>2. CASE ~(s.vsize > Len(s.raw))
      <4>1. PICK l \in Nat : l = Len(s.raw)
        BY <1>4
      <4>2. Longer(s) = l /\ v <= l
        BY <1>4, <2>1, <3>2, <4>1 DEF Longer
      <4>3. PICK m \in Nat : m = PagesFor(l) /\ m * P <= l + P - 1 /\ l + P - 1 < m * P + P
        BY <1>1, <4>1, PagesForIs
      <4>4. m <= k
        BY <1>3, <1>6, <2>1, <2>3, <4>1, <4>3
      <4>5. k * P < m * P + P
        BY <2>3, <4>2, <4>3, Multiples
      <4>6. k <= m
        BY <4>5, Multiples
      <4>7. PagesFor(Longer(s)) = PagesFor(l)
        BY <4>2
      <4>8. m = k
        BY <2>3, <4>3, <4>4, <4>6
      <4> QED  BY <4>3, <4>7, <4>8
    <3> QED  BY <3>1, <3>2
  <2>5. Reach(s) = q..(q + k - 1)
    BY <1>1, <2>2, <2>4 DEF Reach, Page
  <2>6. p \in Reach(s) <=> \E r \in s.va..s.va + s.vsize - 1 : r \div P = p
    <3>1. PICK z \in Nat : z = q * P
      BY <2>2
    <3>2. ASSUME NEW r \in z..z + v - 1 PROVE r \div P \in q..(q + k - 1)
      <4>1. PICK d \in Nat : d = r \div P /\ d * P <= r /\ r < d * P + P
        BY <3>1, Division
      <4>2. q <= d
        BY <3>1, <3>2, <4>1, Multiples
      <4>3. d * P < (q + k) * P
        BY <2>3, <3>1, <3>2, <4>1, Multiples
      <4>4. d < q + k
        BY <4>3, Multiples
      <4> QED  BY <4>1, <4>2, <4>4
    <3>3. ASSUME NEW d \in q..(q + k - 1) PROVE \E r \in z..z + v - 1 : r \div P = d
      <4>1. d \in Nat /\ d * P \in Nat /\ z <= d * P /\ d * P + P = (d + 1) * P
        BY <3>1, Multiples
      <4>2. (d + 1) * P <= z + k * P
        BY <3>1, <3>3, Multiples
      <4>3. d * P <= z + v - 1
        BY <2>3, <4>1, <4>2, Multiples
      <4>4. (d * P) \div P = d
        BY <4>1, Quotient
      <4>5. PICK r \in Nat : r = d * P
        BY <4>1
      <4> QED  BY <3>1, <4>1, <4>3, <4>4, <4>5
    <3> QED  BY <2>1, <2>2, <2>5, <3>1, <3>2, <3>3
  <2> QED  BY <1>1, <1>2, <1>6, <2>6 DEF Reaching, InSections, Page
<1> QED  BY <1>4, <1>5, <1>6

-----------------------------------------------------------------------------
(***************************************************************************)
(* How far a cell is: what has been copied is relocated, and then each     *)
(* import in its turn is bound, which takes the place of what was there.   *)
(***************************************************************************)
Relocated(r) == Moved(r, Copied(r))
Done(r) == {s \in SlotOf(r) : s[1] < at[1] \/ (s[1] = at[1] /\ s[2] < at[2])}
CallsOf(s, v) == Calls(v, F.imports[s[1]].dll, F.imports[s[1]].thunks[s[2]])
Filled(r) == IF Done(r) = {} THEN cell[r] = Relocated(r)
             ELSE \E s \in Done(r) : CallsOf(s, cell[r])

Mapped == {"copy", "relocate", "bind", "exports", "protect", "loaded"}

LoadInv ==
  /\ LoadTypeOK
  /\ image \in Images /\ base \in Nat
  /\ pc \in {"load", "map", "copy", "relocate", "bind", "exports", "protect"} => loads = 0
  /\ at \in (Nat \ {0}) \X (Nat \ {0})
  /\ pool \in Seq(STRING \X STRING)
  /\ pc \in {"load", "map", "copy", "relocate"} => at = <<1, 1>>
  /\ pc \in Mapped => base # 0
  /\ pc = "relocate" => \A r \in Rvas : cell[r] = Copied(r)
  /\ pc \in {"bind", "exports", "protect", "loaded"} => \A r \in Rvas : Filled(r)
  /\ pc \in {"exports", "protect", "loaded"} => at[1] > Len(F.imports)
  /\ pc = "loaded" => \A p \in DOMAIN prot : Reaching(p) # {} =>
       prot[p] = F.sections[LastOf(Reaching(p))].prot

LEMMA InitLoad == LoadInit => LoadInv
BY PeAssumption DEF LoadInit, LoadInv, LoadTypeOK, Mapped

\* An import is a library and one of its thunks.
LEMMA ThunkOf ==
  ASSUME image \in Images, NEW r, NEW s \in SlotOf(r)
  PROVE  /\ s = <<s[1], s[2]>> /\ s[1] \in 1..Len(F.imports) /\ s[2] \in 1..Len(F.imports[s[1]].thunks)
         /\ s[1] \in Nat /\ s[2] \in Nat /\ F.imports[s[1]].iat + s[2] - 1 = r
<1>1. PICK i, k : i \in DOMAIN F.imports /\ k \in DOMAIN F.imports[i].thunks /\ s = <<i, k>>
  BY DEF SlotOf, Thunks
<1>2. F.imports \in Seq(ImportType)
  BY FileType
<1>3. F.imports[i] \in ImportType /\ i \in 1..Len(F.imports)
  BY <1>1, <1>2
<1>4. F.imports[i].thunks \in Seq(STRING)
  BY <1>3 DEF ImportType
<1>5. k \in 1..Len(F.imports[i].thunks)
  BY <1>1, <1>4
<1> QED  BY <1>1, <1>3, <1>5 DEF SlotOf

\* The thunk that is next, while there is one.
LEMMA NextOf ==
  ASSUME LoadInv, at[1] <= Len(F.imports), at[2] <= Len(Import.thunks)
  PROVE  /\ at \in Thunks /\ at = <<at[1], at[2]>> /\ at[1] \in Nat /\ at[2] \in Nat
         /\ Label \in STRING \X STRING
<1>1. at = <<at[1], at[2]>> /\ at[1] \in Nat \ {0} /\ at[2] \in Nat \ {0}
  BY DEF LoadInv
<1>2. F.imports \in Seq(ImportType)
  BY FileType DEF LoadInv
<1>3. at[1] \in DOMAIN F.imports /\ Import \in ImportType
  BY <1>1, <1>2 DEF Import
<1>4. Import.thunks \in Seq(STRING) /\ Import.dll \in STRING
  BY <1>3 DEF ImportType
<1>5. at[2] \in DOMAIN Import.thunks /\ Import.thunks[at[2]] \in STRING
  BY <1>1, <1>4
<1>6. at \in Thunks
  BY <1>1, <1>3, <1>5 DEF Thunks, Import
<1> QED  BY <1>1, <1>4, <1>5, <1>6 DEF Label

\* The binding of one import: its slot holds what it calls, and the others what they held.
LEMMA BoundOne ==
  ASSUME LoadInv, pc = "bind", pc' = pc, image' = image, base' = base,
         at[1] <= Len(F.imports), at[2] <= Len(Import.thunks), Slot \in Rvas,
         NEW v \in Int, cell' = [cell EXCEPT ![Slot] = v], prot' = prot, loads' = loads, NextThunk,
         Len(pool') <= MaxStubs, pool' \in Seq(STRING \X STRING), Len(pool) <= Len(pool'), \A i \in 1..Len(pool) : pool'[i] = pool[i],
         NEW dll, NEW name, Label = <<dll, name>>, Calls(v, dll, name)'
  PROVE  LoadInv'
<1>1. /\ at \in Thunks /\ at = <<at[1], at[2]>> /\ at[1] \in Nat /\ at[2] \in Nat
      /\ at' = <<at[1], at[2] + 1>>
  BY NextOf DEF NextThunk
<1>2. F' = F /\ Rvas' = Rvas
  BY DEF F, Rvas
<1>3. cell' \in [Rvas -> Int] /\ cell'[Slot] = v /\ \A r \in Rvas : r # Slot => cell'[r] = cell[r]
  BY DEF LoadInv, LoadTypeOK, Mapped
<1>4. \A r \in Rvas : SlotOf(r)' = SlotOf(r) /\ Relocated(r)' = Relocated(r)
  BY <1>2 DEF SlotOf, Thunks, Relocated, Moved, Copied, SectionOf, Slide, Moves
<1>5. \A r \in Rvas : Done(r)' = IF r = Slot THEN Done(r) \union {at} ELSE Done(r)
  <2> SUFFICES ASSUME NEW r \in Rvas
               PROVE  Done(r)' = IF r = Slot THEN Done(r) \union {at} ELSE Done(r)
    OBVIOUS
  <2>1. at \in SlotOf(r) <=> r = Slot
    BY <1>1 DEF SlotOf, Slot, Import
  <2>2. \A s \in SlotOf(r) : s = <<s[1], s[2]>> /\ s[1] \in Nat /\ s[2] \in Nat
    BY ThunkOf DEF LoadInv
  <2>3. \A s \in SlotOf(r) : s[1] < at'[1] \/ (s[1] = at'[1] /\ s[2] < at'[2])
                          <=> s[1] < at[1] \/ (s[1] = at[1] /\ s[2] < at[2]) \/ s = at
    <3>1. PICK i \in Nat, k \in Nat : at = <<i, k>> /\ at' = <<i, k + 1>>
      BY <1>1
    <3> SUFFICES ASSUME NEW s \in SlotOf(r)
                 PROVE  s[1] < i \/ (s[1] = i /\ s[2] < k + 1) <=> s[1] < i \/ (s[1] = i /\ s[2] < k) \/ s = <<i, k>>
      BY <3>1
    <3> QED  BY <2>2
  <2>4. Done(r)' = {s \in SlotOf(r) : s[1] < at'[1] \/ (s[1] = at'[1] /\ s[2] < at'[2])}
    BY <1>4 DEF Done
  <2> QED  BY <2>1, <2>3, <2>4 DEF Done
<1>6. ASSUME NEW w, NEW d, NEW n, Calls(w, d, n) PROVE Calls(w, d, n)'
  <2>1. DOMAIN pool = 1..Len(pool) /\ DOMAIN pool' = 1..Len(pool') /\ Len(pool) \in Nat /\ Len(pool') \in Nat
    BY DEF LoadInv
  <2>2. \A i \in DOMAIN pool : i \in DOMAIN pool' /\ pool'[i] = pool[i]
    BY <2>1
  <2> QED  BY <1>6, <2>2 DEF Calls, Resolvable
<1>7. ASSUME NEW r \in Rvas PROVE Filled(r)'
  <2>1. CASE r = Slot
    <3>1. PICK t : t = at
      OBVIOUS
    <3>2. dll = F.imports[t[1]].dll /\ name = F.imports[t[1]].thunks[t[2]]
      BY <3>1 DEF Label, Import
    <3>3. t \in Done(r)' /\ cell'[r] = v
      BY <1>3, <1>5, <2>1, <3>1
    <3>4. CallsOf(t, v)'
      BY <1>2, <3>2 DEF CallsOf
    <3> QED  BY <3>3, <3>4 DEF Filled
  <2>2. CASE r # Slot /\ Done(r) = {}
    BY <1>3, <1>4, <1>5, <2>2 DEF Filled, LoadInv
  <2>3. CASE r # Slot /\ Done(r) # {}
    <3>1. PICK s \in Done(r) : CallsOf(s, cell[r])
      BY <2>3 DEF Filled, LoadInv
    <3>2. CallsOf(s, cell[r])'
      BY <1>2, <1>3, <1>6, <2>3, <3>1 DEF CallsOf
    <3> QED  BY <1>3, <1>5, <2>3, <3>1, <3>2 DEF Filled
  <2> QED  BY <2>1, <2>2, <2>3
<1> QED  BY <1>1, <1>2, <1>3, <1>7 DEF LoadInv, LoadTypeOK, Mapped, AllPages

\* An image that is dropped.
LEMMA FailDrops ==
  ASSUME LoadInv, Fail
  PROVE  LoadInv'
BY DEF LoadInv, LoadTypeOK, Fail, Goto, Mapped

LEMMA BoundKeeps ==
  ASSUME LoadInv, Bound
  PROVE  LoadInv'
<1>1. CASE Slot \notin Rvas
  BY <1>1, FailDrops DEF Bound
<1>2. CASE Slot \in Rvas
  <2>1. PICK dll, name : Label = <<dll, name>>
    BY DEF Label
  <2>2. name \in DOMAIN Shim /\ Label[2] = name
    BY <1>2, <2>1 DEF Bound, Resolvable
  <2>3. PICK v \in Int : v = Shim[name]
    BY <2>2, PeAssumption
  <2>4. Calls(v, dll, name)'
    BY <2>2, <2>3 DEF Calls, Resolvable
  <2>5. cell' = [cell EXCEPT ![Slot] = v]
    BY <1>2, <2>2, <2>3 DEF Bound, Fill
  <2>6. pool' = pool /\ pool \in Seq(STRING \X STRING) /\ Len(pool) <= MaxStubs /\ Len(pool) \in Nat
    BY <1>2 DEF Bound, LoadInv, LoadTypeOK
  <2>7. pc = "bind" /\ UNCHANGED <<pc, image, base, prot, pool, loads>> /\ NextThunk
    BY <1>2 DEF Bound
  <2>8. \A i \in 1..Len(pool) : pool'[i] = pool[i]
    BY <2>6
  <2>9. at[1] <= Len(F.imports) /\ at[2] <= Len(Import.thunks)
    BY DEF Bound
  <2>10. Len(pool) <= Len(pool') /\ Len(pool') <= MaxStubs /\ pool' \in Seq(STRING \X STRING)
    BY <2>6
  <2> QED  BY <1>2, <2>1, <2>3, <2>4, <2>5, <2>7, <2>8, <2>9, <2>10, BoundOne
<1> QED  BY <1>1, <1>2

LEMMA TrappedKeeps ==
  ASSUME LoadInv, Trapped
  PROVE  LoadInv'
<1>1. CASE Len(pool) = MaxStubs
  <2>1. pc' = "aborted" /\ UNCHANGED <<image, base, cell, prot, at, pool, loads>>
    BY <1>1 DEF Trapped, Goto
  <2> QED  BY <2>1 DEF LoadInv, LoadTypeOK, Mapped, F, Rvas, AllPages
<1>2. CASE Len(pool) # MaxStubs
  <2>1. PICK dll, name : Label = <<dll, name>>
    BY DEF Label
  <2>2. name \notin DOMAIN Shim /\ Label \in STRING \X STRING
    BY <2>1, NextOf DEF Trapped, Resolvable
  <2>3. pool \in Seq(STRING \X STRING) /\ Len(pool) \in Nat /\ Len(pool) <= MaxStubs
    BY DEF LoadInv, LoadTypeOK
  <2>4. pool' = Append(pool, Label)
    BY <1>2 DEF Trapped
  <2>5. /\ pool' \in Seq(STRING \X STRING) /\ Len(pool') = Len(pool) + 1
        /\ \A i \in 1..Len(pool) : pool'[i] = pool[i]
        /\ pool'[Len(pool) + 1] = Label
    BY <2>2, <2>3, <2>4
  <2>6. PICK v \in Int : v = StubBase + Len(pool)
    BY <2>3, PeAssumption
  <2>7. v - StubBase + 1 = Len(pool) + 1
    BY <2>3, <2>6, PeAssumption
  <2>8. v - StubBase + 1 \in DOMAIN pool' /\ pool'[v - StubBase + 1] = <<dll, name>>
    BY <2>1, <2>3, <2>5, <2>7
  <2>9. Calls(v, dll, name)'
    BY <2>2, <2>8 DEF Calls, Resolvable
  <2>10. cell' = [cell EXCEPT ![Slot] = v]
    BY <1>2, <2>6 DEF Trapped, Fill
  <2>11. Len(pool') <= MaxStubs
    BY <1>2, <2>3, <2>5, PeAssumption
  <2>12. pc = "bind" /\ UNCHANGED <<pc, image, base, prot, loads>> /\ NextThunk
    BY <1>2 DEF Trapped
  <2>13. Len(pool) <= Len(pool') /\ pool' \in Seq(STRING \X STRING) /\ \A i \in 1..Len(pool) : pool'[i] = pool[i]
    BY <2>3, <2>5
  <2> QED  BY <1>2, <2>1, <2>9, <2>10, <2>11, <2>12, <2>13, BoundOne DEF Trapped
<1> QED  BY <1>1, <1>2

\* The process ends in the middle of a load.
LEMMA AbortKeeps ==
  ASSUME LoadInv, pc' = "aborted", UNCHANGED <<image, base, cell, prot, at, pool, loads>>
  PROVE  LoadInv'
<1>1. F' = F /\ Rvas' = Rvas
  BY DEF F, Rvas
<1> QED  BY <1>1 DEF LoadInv, LoadTypeOK, Mapped, AllPages

\* A cell nothing has been bound to yet: so it is when the binding begins.
LEMMA RelocateKeeps ==
  ASSUME LoadInv, Relocate
  PROVE  LoadInv'
<1>0. CASE pc' = "aborted" /\ UNCHANGED <<image, base, cell, prot, at, pool, loads>>
  BY <1>0, AbortKeeps
<1> SUFFICES ASSUME pc' = "bind", cell' = [r \in Rvas |-> Moved(r, cell[r])] PROVE LoadInv'
  BY <1>0 DEF Relocate, Goto
<1>1. F' = F /\ Rvas' = Rvas /\ base' = base /\ at' = <<1, 1>> /\ pc' = "bind" /\ base \in Nat \ {0}
  BY DEF Relocate, F, Rvas, LoadInv, Mapped
<1>2. \A r \in Rvas : cell'[r] = Relocated(r)
  BY DEF Relocate, LoadInv, Relocated
<1>3. ASSUME NEW r \in Rvas PROVE cell'[r] \in Int
  BY <1>2, CopiedType, MovesAsListed DEF LoadInv, Relocated
<1>4. ASSUME NEW r \in Rvas PROVE Filled(r)'
  <2>1. SlotOf(r)' = SlotOf(r) /\ Relocated(r)' = Relocated(r)
    BY <1>1 DEF SlotOf, Thunks, Relocated, Moved, Copied, SectionOf, Slide, Moves
  <2>2. ASSUME NEW s \in Done(r)' PROVE FALSE
    <3>1. s \in SlotOf(r) /\ (s[1] < 1 \/ (s[1] = 1 /\ s[2] < 1))
      BY <1>1, <2>1, <2>2 DEF Done
    <3>2. s[1] \in 1..Len(F.imports) /\ s[2] \in 1..Len(F.imports[s[1]].thunks)
      BY <3>1, ThunkOf DEF LoadInv
    <3> QED  BY <3>1, <3>2
  <2> QED  BY <1>2, <2>1, <2>2 DEF Filled
<1>5. cell' \in [Rvas -> Int]
  BY <1>3
<1>6. UNCHANGED <<image, base, prot, at, pool, loads>>
  BY DEF Relocate
<1>7. LoadTypeOK'
  BY <1>1, <1>5, <1>6 DEF LoadInv, LoadTypeOK, AllPages
<1>8. pc = "relocate" /\ loads = 0
  BY DEF Relocate, LoadInv
<1> QED  BY <1>1, <1>4, <1>6, <1>7, <1>8 DEF LoadInv, Mapped

LEMMA NextLibraryKeeps ==
  ASSUME LoadInv, NextLibrary
  PROVE  LoadInv'
<1>1. F' = F /\ Rvas' = Rvas /\ pc = "bind" /\ UNCHANGED <<image, base, cell, prot, pool, loads>>
  BY DEF NextLibrary, F, Rvas
<1>2. at = <<at[1], at[2]>> /\ at[1] \in Nat \ {0} /\ at[2] \in Nat \ {0}
  BY DEF LoadInv
<1>3. CASE at[1] > Len(F.imports)
  <2>1. pc' = "exports" /\ at' = at
    BY <1>3 DEF NextLibrary, Goto
  <2>2. \A r \in Rvas : Filled(r)' = Filled(r)
    BY <1>1, <2>1 DEF Filled, Done, SlotOf, Thunks, Relocated, Moved, Copied, SectionOf, Slide, Moves, CallsOf, Calls
  <2> QED  BY <1>1, <1>3, <2>1, <2>2 DEF LoadInv, LoadTypeOK, Mapped, AllPages
<1>4. CASE ~(at[1] > Len(F.imports))
  <2>1. pc' = "bind" /\ at' = <<at[1] + 1, 1>> /\ at[2] > Len(Import.thunks)
    BY <1>1, <1>4 DEF NextLibrary
  <2>2. ASSUME NEW r \in Rvas PROVE Done(r)' = Done(r)
    <3>1. ASSUME NEW s \in SlotOf(r)
          PROVE  s[1] < at'[1] \/ (s[1] = at'[1] /\ s[2] < at'[2]) <=> s[1] < at[1] \/ (s[1] = at[1] /\ s[2] < at[2])
      <4>1. s[1] \in 1..Len(F.imports) /\ s[2] \in 1..Len(F.imports[s[1]].thunks) /\ s[1] \in Nat /\ s[2] \in Nat
        BY ThunkOf DEF LoadInv
      <4>2. F.imports \in Seq(ImportType)
        BY FileType DEF LoadInv
      <4>3. F.imports[s[1]] \in ImportType
        BY <4>1, <4>2
      <4>5. F.imports[s[1]].thunks \in Seq(STRING)
        BY <4>3 DEF ImportType
      <4>4. s[1] = at[1] => s[2] < at[2]
        BY <1>2, <2>1, <4>1, <4>5 DEF Import
      <4> QED  BY <1>2, <2>1, <4>1, <4>4
    <3> QED  BY <1>1, <3>1 DEF Done, SlotOf, Thunks
  <2>4. \A r \in Rvas : Relocated(r)' = Relocated(r)
    BY <1>1 DEF Relocated, Moved, Copied, SectionOf, Slide, Moves
  <2>3. \A r \in Rvas : Filled(r)' = Filled(r)
    BY <1>1, <2>2, <2>4 DEF Filled, CallsOf, Calls
  <2> QED  BY <1>1, <1>2, <2>1, <2>3 DEF LoadInv, LoadTypeOK, Mapped, AllPages
<1> QED  BY <1>3, <1>4

LEMMA ProtectKeeps ==
  ASSUME LoadInv, Protect
  PROVE  LoadInv'
<1>1. F' = F /\ Rvas' = Rvas /\ pc = "protect" /\ pc' = "loaded"
  BY DEF Protect, F, Rvas, Goto
<1>2. \A r \in Rvas : Filled(r)' = Filled(r)
  BY <1>1 DEF Protect, Filled, Done, SlotOf, Thunks, Relocated, Moved, Copied, SectionOf, Slide, Moves, CallsOf, Calls
<1>3. prot \in [AllPages(F) -> Rights] /\ DOMAIN prot' = DOMAIN prot
  BY <1>1 DEF LoadInv, LoadTypeOK, Mapped, Protect
<1>4. ASSUME NEW p \in DOMAIN prot
      PROVE  /\ prot'[p] \in Rights
             /\ Reaching(p) # {} => prot'[p] = F.sections[LastOf(Reaching(p))].prot
  <2>1. prot'[p] = Protected(p)
    BY DEF Protect
  <2>2. CASE Reaching(p) = {}
    BY <1>3, <2>1, <2>2 DEF Protected
  <2>3. CASE Reaching(p) # {}
    <3>1. F.sections \in Seq(SectionType)
      BY FileType DEF LoadInv
    <3>2. Reaching(p) \in SUBSET (1..Len(F.sections)) /\ Len(F.sections) \in Nat
      BY <3>1 DEF Reaching
    <3>3. PICK i \in 1..Len(F.sections) : i = LastOf(Reaching(p))
      BY <2>3, <3>2, LastOfIs
    <3>4. F.sections[i] \in SectionType
      BY <3>1
    <3> QED  BY <2>1, <2>3, <3>3, <3>4 DEF Protected, SectionType
  <2> QED  BY <2>2, <2>3
<1>5. prot' \in [AllPages(F) -> Rights]
  BY <1>3, <1>4 DEF Protect
<1>6. \A p : Reaching(p)' = Reaching(p)
  BY <1>1 DEF Reaching, Reach, Page, Longer
<1>7. loads' = 1
  BY <1>1 DEF Protect, LoadInv, Mapped
<1>8. UNCHANGED <<image, base, cell, at, pool>>
  BY DEF Protect
<1> QED  BY <1>1, <1>2, <1>3, <1>4, <1>5, <1>6, <1>7, <1>8, PeAssumption DEF LoadInv, LoadTypeOK, Mapped, AllPages

LEMMA LoadKeeps ==
  ASSUME LoadInv, LoadNext
  PROVE  LoadInv'
<1>1. CASE Parse
  BY <1>1, FailDrops DEF Parse, LoadInv, LoadTypeOK, Goto, Mapped, F, Rvas, AllPages
<1>2. CASE Map
  <2>1. CASE Fail
    BY <2>1, FailDrops
  <2>2. ASSUME NEW b \in {F.base, Elsewhere}, base' = b, cell' = [r \in Rvas |-> 0],
               prot' = [p \in AllPages(F) |-> {"r", "w", "x"}], Goto("copy"), UNCHANGED <<image, at, pool, loads>>
        PROVE  LoadInv'
    <3>1. b \in Nat \ {0}
      BY FileType, PeAssumption DEF LoadInv
    <3>2. cell' \in [Rvas -> Int] /\ prot' \in [AllPages(F) -> Rights] /\ F' = F /\ Rvas' = Rvas
      BY <2>2 DEF Rights, F, Rvas
    <3> QED  BY <1>2, <2>2, <3>1, <3>2 DEF Map, LoadInv, LoadTypeOK, Mapped, Goto, AllPages
  <2> QED  BY <1>2, <2>1, <2>2 DEF Map
<1>3. CASE Copy
  <2>4. CASE pc' = "aborted" /\ UNCHANGED <<image, base, cell, prot, at, pool, loads>>
    BY <2>4, AbortKeeps
  <2> SUFFICES ASSUME pc' = "relocate", cell' = [r \in Rvas |-> Copied(r)] PROVE LoadInv'
    BY <1>3, <2>4 DEF Copy, Goto
  <2>1. F' = F /\ Rvas' = Rvas /\ pc = "copy" /\ pc' = "relocate" /\ UNCHANGED <<image, base, prot, at, pool, loads>>
    BY <1>3 DEF Copy, F, Rvas, Goto
  <2>2. \A r \in Rvas : cell'[r] = Copied(r) /\ Copied(r)' = Copied(r)
    BY <1>3, <2>1 DEF Copy, Copied, SectionOf
  <2>3. cell' \in [Rvas -> Int]
    BY <1>3, CopiedType DEF Copy, LoadInv
  <2> QED  BY <2>1, <2>2, <2>3 DEF LoadInv, LoadTypeOK, Mapped, AllPages
<1>4. CASE Relocate
  BY <1>4, RelocateKeeps
<1>5. CASE Bound
  BY <1>5, BoundKeeps
<1>6. CASE Trapped
  BY <1>6, TrappedKeeps
<1>7. CASE NextLibrary
  BY <1>7, NextLibraryKeeps
<1>8. CASE Exports
  <2>1. CASE Fail
    BY <2>1, FailDrops
  <2>2. CASE ~Fail
    <3>1. F' = F /\ Rvas' = Rvas /\ pc = "exports" /\ pc' = "protect" /\ UNCHANGED <<image, base, cell, prot, at, pool, loads>>
      BY <1>8, <2>2 DEF Exports, F, Rvas, Goto
    <3>2. \A r \in Rvas : Filled(r)' = Filled(r)
      BY <3>1 DEF Filled, Done, SlotOf, Thunks, Relocated, Moved, Copied, SectionOf, Slide, Moves, CallsOf, Calls
    <3> QED  BY <3>1, <3>2 DEF LoadInv, LoadTypeOK, Mapped, AllPages
  <2> QED  BY <2>1, <2>2
<1>9. CASE Protect
  BY <1>9, ProtectKeeps
<1> QED  BY <1>1, <1>2, <1>3, <1>4, <1>5, <1>6, <1>7, <1>8, <1>9 DEF LoadNext

(***************************************************************************)
(* What a loaded image holds is what its linker meant.                     *)
(***************************************************************************)
LEMMA LoadedIsLinked ==
  ASSUME LoadInv
  PROVE  LoadedAsLinked
<1> SUFFICES ASSUME pc = "loaded"
             PROVE  /\ \A r \in Rvas :
                         IF SlotOf(r) # {}
                         THEN \E s \in SlotOf(r) : Calls(cell[r], F.imports[s[1]].dll, F.imports[s[1]].thunks[s[2]])
                         ELSE \E w \in InFile(r) : Meant(r, cell[r], w)
                    /\ \A p \in DOMAIN prot : \A i \in InSections(p) :
                         InSections(p) = {i} => prot[p] = F.sections[i].prot
  BY DEF LoadedAsLinked
<1>1. image \in Images /\ base \in Nat /\ at[1] > Len(F.imports) /\ at[1] \in Nat
  BY DEF LoadInv
<1>2. ASSUME NEW r \in Rvas
      PROVE  IF SlotOf(r) # {}
             THEN \E s \in SlotOf(r) : Calls(cell[r], F.imports[s[1]].dll, F.imports[s[1]].thunks[s[2]])
             ELSE \E w \in InFile(r) : Meant(r, cell[r], w)
  <2>1. Filled(r)
    BY DEF LoadInv
  <2>2. Done(r) = SlotOf(r)
    <3>1. \A s \in SlotOf(r) : s[1] < at[1]
      <4> SUFFICES ASSUME NEW s \in SlotOf(r) PROVE s[1] < at[1]
        OBVIOUS
      <4>1. s[1] \in 1..Len(F.imports) /\ s[1] \in Nat
        BY <1>1, ThunkOf
      <4>2. Len(F.imports) \in Nat
        BY <1>1, FileType
      <4> QED  BY <1>1, <4>1, <4>2
    <3> QED  BY <3>1 DEF Done
  <2>3. CASE SlotOf(r) # {}
    BY <2>1, <2>2, <2>3 DEF Filled, CallsOf
  <2>4. CASE SlotOf(r) = {}
    <3>1. cell[r] = Moved(r, Copied(r))
      BY <2>1, <2>2, <2>4 DEF Filled, Relocated
    <3>2. Copied(r) \in Int /\ Copied(r) \in InFile(r)
      BY <1>1, CopiedType, CopiedIsFile
    <3>3. Meant(r, cell[r], Copied(r))
      BY <1>1, <3>1, <3>2, MovesAsListed
    <3> QED  BY <2>4, <3>2, <3>3
  <2> QED  BY <2>3, <2>4
<1>3. ASSUME NEW p \in DOMAIN prot, NEW i \in InSections(p), InSections(p) = {i}
      PROVE  prot[p] = F.sections[i].prot
  <2>1. Reaching(p) = {i}
    BY <1>1, <1>3, ReachIs
  <2>2. LastOf({i}) = i
    BY FileType, <1>1, <1>3 DEF LastOf, InSections
  <2> QED  BY <2>1, <2>2 DEF LoadInv
<1> QED  BY <1>2, <1>3

-----------------------------------------------------------------------------
(***************************************************************************)
(* Where a command is. Nothing of the line is done before the export has   *)
(* been found; a name means a file once the options have been read; and    *)
(* what the writes leave depends on how far their list is done.            *)
(***************************************************************************)
Loading == {"load", "map", "copy", "relocate", "bind", "exports", "protect", "loaded"}
Writing == {"pokeptr", "poke", "patch"}
Reading == {"peek", "peekptr", "dump"}
Ready == {"main", "find", "options", "script", "call"} \union Writing \union Reading

LoadsBefore(n) == {i \in Lines("load") : i < n}
FilesUpTo(n) ==
  /\ Len(files) = Cardinality(LoadsBefore(n))
  /\ \A i \in LoadsBefore(n) : files[Nth(i)] = [name |-> cmd.lines[i].name, addr |-> Buffer[Nth(i)]]
  /\ \A k \in DOMAIN files : \E i \in LoadsBefore(n) : Nth(i) = k

NamesInv ==
  /\ files \in Seq([name : STRING, addr : Nat]) /\ Len(files) <= Len(Buffer)
  /\ pc \in Loading \union {"main", "find"} => line = 1 /\ files = <<>>
  /\ pc \in {"options", "script"} => FilesUpTo(line)
  /\ pc \in Writing \union {"call"} \union Reading => FilesUpTo(Len(cmd.lines) + 1)

PagesKept ==
  \A p \in DOMAIN prot : Reaching(p) # {} =>
    prot[p] = {"r", "x"} \/ prot[p] = F.sections[LastOf(Reaching(p))].prot

ReadyInv ==
  /\ cmd \in Commands /\ line \in Nat \ {0} /\ calls \in Nat
  /\ pc \in Loading \union Ready \union {"failed", "aborted", "ended", "crashed"}
  /\ (code = -1) = (pc \notin {"ended", "crashed"})
  /\ DOMAIN host \subseteq {Scratch, Ctx} \union {Buffer[i] : i \in DOMAIN Buffer}
  /\ pc \in (Loading \ {"load"}) \union Ready => ~cmd.help
  /\ pc \in Ready => base # 0 /\ teb = (IF cmd.noTeb THEN 0 ELSE base) /\ PagesKept
  /\ pc \notin {"script", "call", "ended", "crashed"} \union Reading => calls = 0
  /\ code = 3 => calls = 0

\* Of the list of pokes, those before a line have been written.
There(a) == InImage(a) \/ a \in DOMAIN host
Poked(i) == There(TargetAt(i)) /\ Value(TargetAt(i)) = The(Means(files, cmd.lines[i].val))
PokedUpTo(n) ==
  \A i \in Lines("poke") : i < n /\ (\A j \in Lines("poke") : i < j /\ j < n => TargetAt(j) # TargetAt(i)) => Poked(i)
PatchedUpTo(n) ==
  \A i \in Lines("poke") : LastPoke(i) /\ (\A j \in Lines("patch") : j < n => TargetAt(i) # base + cmd.lines[j].rva) => Poked(i)

PreparedInv ==
  /\ pc \in Writing \union {"call"} =>
       /\ \A i \in Lines("poke") : Means(files, cmd.lines[i].val) # {}
       /\ \A i \in DOMAIN Args : ArgMeans(files, Args[i]) # {} /\ argv[i] = The(ArgMeans(files, Args[i]))
  /\ pc = "poke" => PokedUpTo(line)
  /\ pc = "patch" => PatchedUpTo(line)
  /\ pc = "call" /\ calls = 0 => PatchedUpTo(Len(cmd.lines) + 1)

CommandInv == LoadInv /\ ReadyInv /\ NamesInv /\ PreparedInv

-----------------------------------------------------------------------------
LEMMA InitCommand == CommandInit => CommandInv
<1> SUFFICES ASSUME CommandInit PROVE CommandInv
  OBVIOUS
<1>1. LoadInv /\ pc = "load"
  BY InitLoad DEF CommandInit, LoadInit
<1>2. ReadyInv
  BY <1>1 DEF CommandInit, ReadyInv, Loading, Ready, Writing, Reading
<1>3. NamesInv
  BY <1>1, CommandAssumption DEF CommandInit, NamesInv, Loading, Writing, Reading
<1>4. PreparedInv
  BY <1>1 DEF PreparedInv, Writing
<1> QED  BY <1>1, <1>2, <1>3, <1>4 DEF CommandInv

\* What is known of the lines.
LEMMA LinesType ==
  ASSUME cmd \in Commands
  PROVE  /\ cmd.lines \in Seq(LineType) /\ Len(cmd.lines) \in Nat /\ DOMAIN cmd.lines = 1..Len(cmd.lines)
         /\ cmd.help \in BOOLEAN /\ cmd.noTeb \in BOOLEAN /\ cmd.repeat \in Nat
         /\ Cardinality(Lines("load")) <= Len(Buffer)
         /\ \A i \in DOMAIN cmd.lines : cmd.lines[i] \in LineType
<1>1. CommandType(cmd)
  BY CommandAssumption
<1>2. PICK L \in Seq(LineType) : L = cmd.lines
  BY <1>1 DEF CommandType
<1>3. Len(L) \in Nat /\ DOMAIN L = 1..Len(L) /\ \A i \in DOMAIN L : L[i] \in LineType
  OBVIOUS
<1> QED  BY <1>1, <1>2, <1>3 DEF CommandType, Lines

LEMMA LineFields ==
  ASSUME NEW o \in LineType
  PROVE  /\ o.rva \in Nat /\ o.n \in Nat /\ o.val \in TokenType /\ o.name \in STRING
         /\ (base \in Nat => Target(o) \in Nat) /\ Region(o.to) \in Nat
BY CommandAssumption DEF LineType, Target, Region

LEMMA MeansNat ==
  ASSUME NEW ns \in Seq([name : STRING, addr : Nat]), NEW t \in TokenType
  PROVE  Means(ns, t) \subseteq Nat
<1>1. t.n \in Nat /\ Region(t.of) \in Nat
  BY CommandAssumption DEF TokenType, Region
<1>2. \A i \in DOMAIN ns : ns[i] \in [name : STRING, addr : Nat]
  <2> SUFFICES ASSUME NEW i \in DOMAIN ns PROVE ns[i] \in [name : STRING, addr : Nat]
    OBVIOUS
  <2>1. i \in 1..Len(ns)
    OBVIOUS
  <2> QED  BY <2>1, ElementOfSeq
<1>3. \A i \in Named(ns, t.of) : ns[i].addr \in Nat
  BY <1>2 DEF Named
<1> QED  BY <1>1, <1>3 DEF Means

LEMMA TheIn == ASSUME NEW S, S # {} PROVE The(S) \in S
BY DEF The

LEMMA FirstIs ==
  ASSUME NEW S \in SUBSET Nat, S # {}
  PROVE  First(S) \in S /\ \A j \in S : First(S) <= j
BY Least DEF First

-----------------------------------------------------------------------------
(* Names. *)
LEMMA LoadsFinite ==
  ASSUME cmd \in Commands, NEW S, S \subseteq Lines("load")
  PROVE  IsFiniteSet(S) /\ Cardinality(S) \in Nat /\ Cardinality(S) <= Cardinality(Lines("load"))
<1>1. PICK n \in Nat : n = Len(cmd.lines) /\ DOMAIN cmd.lines = 1..n
  BY LinesType
<1>2. IsFiniteSet(Lines("load"))
  <2>1. IsFiniteSet(1..n)
    BY FS_Interval
  <2> QED  BY <1>1, <2>1, FS_Subset DEF Lines
<1> QED  BY <1>2, FS_Subset, FS_CardinalityType

LEMMA NthIn ==
  ASSUME cmd \in Commands, NEW n \in Nat, NEW i \in LoadsBefore(n)
  PROVE  Nth(i) \in 1..Cardinality(LoadsBefore(n))
<1>1. i < n /\ i \in Nat /\ i \in Lines("load")
  BY LinesType DEF LoadsBefore, Lines
<1>2. {j \in Lines("load") : j <= i} \subseteq LoadsBefore(n)
  BY <1>1, LinesType DEF LoadsBefore, Lines
<1>3. IsFiniteSet(LoadsBefore(n))
  BY LoadsFinite DEF LoadsBefore
<1>4. Nth(i) <= Cardinality(LoadsBefore(n)) /\ Cardinality(LoadsBefore(n)) \in Nat
  BY <1>2, <1>3, FS_Subset, FS_CardinalityType DEF Nth
<1>5. IsFiniteSet({j \in Lines("load") : j <= i}) /\ i \in {j \in Lines("load") : j <= i}
  BY <1>1, LoadsFinite
<1>6. Nth(i) \in Nat /\ Nth(i) # 0
  BY <1>5, FS_CardinalityType, FS_EmptySet DEF Nth
<1> QED  BY <1>4, <1>6

\* The next line, if it is not a --load: the files are those up to there.
LEMMA PassedOver ==
  ASSUME cmd \in Commands, line \in Nat \ {0}, FilesUpTo(line), cmd' = cmd, files' = files, line' = line + 1,
         line \notin Lines("load")
  PROVE  FilesUpTo(line)'
<1>1. LoadsBefore(line)' = LoadsBefore(line)
  <2>1. \A i \in Lines("load") : i \in Nat /\ i # line
    BY LinesType DEF Lines
  <2>2. \A i \in Lines("load") : i < line + 1 <=> i < line
    BY <2>1
  <2> QED  BY <2>2 DEF LoadsBefore, Lines
<1>2. \A i : Nth(i)' = Nth(i)
  BY DEF Nth, Lines
<1> QED  BY <1>1, <1>2 DEF FilesUpTo

\* After the last line there is no other.
LEMMA AllPassed ==
  ASSUME cmd \in Commands, line \in Nat \ {0}, FilesUpTo(line), line > Len(cmd.lines)
  PROVE  FilesUpTo(Len(cmd.lines) + 1)
<1>1. LoadsBefore(Len(cmd.lines) + 1) = Lines("load") /\ LoadsBefore(line) = Lines("load")
  BY LinesType DEF LoadsBefore, Lines
<1> QED  BY <1>1 DEF FilesUpTo

\* A --load gets the next address.
LEMMA FileLoaded ==
  ASSUME cmd \in Commands, line \in Nat \ {0}, NamesInv, FilesUpTo(line), line \in Lines("load"), cmd' = cmd, line' = line + 1,
         files' = Append(files, [name |-> Line.name, addr |-> Buffer[Len(files) + 1]])
  PROVE  /\ FilesUpTo(line)' /\ Len(files') <= Len(Buffer) /\ files' \in Seq([name : STRING, addr : Nat])
         /\ Len(files) + 1 \in DOMAIN Buffer
<1>1. files \in Seq([name : STRING, addr : Nat]) /\ Len(files) \in Nat
  BY DEF NamesInv
<1>2. LoadsBefore(line)' = LoadsBefore(line) \union {line} /\ line \notin LoadsBefore(line)
  <2>1. \A i \in Lines("load") : i \in Nat
    BY LinesType DEF Lines
  <2>2. \A i \in Lines("load") : i < line + 1 <=> i < line \/ i = line
    BY <2>1
  <2> QED  BY <2>2 DEF LoadsBefore, Lines
<1>3. Nth(line) = Len(files) + 1
  <2>1. {j \in Lines("load") : j <= line} = LoadsBefore(line) \union {line}
    BY LinesType DEF LoadsBefore, Lines
  <2>2. IsFiniteSet(LoadsBefore(line))
    BY LoadsFinite DEF LoadsBefore
  <2>3. Cardinality(LoadsBefore(line) \union {line}) = Cardinality(LoadsBefore(line)) + 1
    BY <1>2, <2>2, FS_AddElement
  <2> QED  BY <2>1, <2>3 DEF Nth, FilesUpTo
<1>4. Len(files) + 1 <= Len(Buffer)
  BY <1>3, LoadsFinite, LinesType, CommandAssumption DEF Nth
<1>5. PICK b \in Nat : b = Buffer[Len(files) + 1]
  BY <1>1, <1>4, CommandAssumption
<1>6. PICK f \in [name : STRING, addr : Nat] : f = [name |-> Line.name, addr |-> b]
  <2>1. Line.name \in STRING
    BY LinesType, LineFields DEF Line, Lines
  <2> QED  BY <2>1
<1>7. /\ files' \in Seq([name : STRING, addr : Nat]) /\ Len(files') = Len(files) + 1
      /\ \A k \in 1..Len(files) : files'[k] = files[k]
      /\ files'[Len(files) + 1] = f
  BY <1>1, <1>5, <1>6
<1>8. DOMAIN files = 1..Len(files) /\ DOMAIN files' = DOMAIN files \union {Len(files) + 1}
  BY <1>1, <1>7
<1>9. \A i : Nth(i)' = Nth(i)
  BY DEF Nth, Lines
<1>10. ASSUME NEW i \in LoadsBefore(line) PROVE Nth(i) \in DOMAIN files
  BY <1>8, NthIn DEF FilesUpTo
<1>11. FilesUpTo(line)'
  <2>1. Cardinality(LoadsBefore(line))' = Len(files')
    <3>1. {j \in Lines("load") : j <= line} = LoadsBefore(line) \union {line}
      BY LinesType DEF LoadsBefore, Lines
    <3> QED  BY <1>2, <1>3, <1>7, <3>1 DEF Nth
  <2>2. ASSUME NEW i \in LoadsBefore(line)'
        PROVE  files'[Nth(i)] = [name |-> cmd.lines[i].name, addr |-> Buffer[Nth(i)]]
    <3>1. CASE i = line
      BY <1>3, <1>5, <1>6, <1>7, <3>1 DEF Line
    <3>2. CASE i # line
      BY <1>2, <1>7, <1>8, <1>10, <2>2, <3>2 DEF FilesUpTo
    <3> QED  BY <3>1, <3>2
  <2>3. ASSUME NEW k \in DOMAIN files' PROVE \E i \in LoadsBefore(line)' : Nth(i) = k
    <3>1. CASE k = Len(files) + 1
      BY <1>2, <1>3, <3>1
    <3>2. CASE k # Len(files) + 1
      BY <1>2, <1>8, <2>3, <3>2 DEF FilesUpTo
    <3> QED  BY <3>1, <3>2
  <2> QED  BY <1>9, <2>1, <2>2, <2>3 DEF FilesUpTo
<1> QED  BY <1>1, <1>4, <1>7, <1>11, CommandAssumption

\* What a name means once all files are loaded.
LEMMA NameMeans ==
  ASSUME cmd \in Commands, NamesInv, FilesUpTo(Len(cmd.lines) + 1), NEW x, Named(files, x) # {}
  PROVE  files[First(Named(files, x))].addr = FirstLoad(x)
<1>1. Named(files, x) \subseteq DOMAIN files /\ DOMAIN files = 1..Len(files) /\ Len(files) \in Nat
  BY DEF Named, NamesInv
<1>2. PICK k \in Named(files, x) : k = First(Named(files, x)) /\ \A j \in Named(files, x) : k <= j
  BY <1>1, FirstIs
<1>3. k \in DOMAIN files /\ files[k].name = x /\ k \in Nat
  BY <1>1, <1>2 DEF Named
<1>4. LoadsBefore(Len(cmd.lines) + 1) = Lines("load") /\ Lines("load") \subseteq Nat
  BY LinesType DEF LoadsBefore, Lines
<1>5. PICK i \in Lines("load") : Nth(i) = k
  BY <1>3, <1>4 DEF FilesUpTo
<1>6. \A j \in Lines("load") : files[Nth(j)].name = cmd.lines[j].name /\ files[Nth(j)].addr = Buffer[Nth(j)]
  <2>1. \A j \in Lines("load") : files[Nth(j)] = [name |-> cmd.lines[j].name, addr |-> Buffer[Nth(j)]]
    BY <1>4 DEF FilesUpTo
  <2> SUFFICES ASSUME NEW j \in Lines("load")
               PROVE  files[Nth(j)].name = cmd.lines[j].name /\ files[Nth(j)].addr = Buffer[Nth(j)]
    OBVIOUS
  <2>2. PICK f : f = [name |-> cmd.lines[j].name, addr |-> Buffer[Nth(j)]]
    OBVIOUS
  <2>3. files[Nth(j)] = f /\ f.name = cmd.lines[j].name /\ f.addr = Buffer[Nth(j)]
    BY <2>1, <2>2
  <2> QED  BY <2>3
<1>7. PICK L \in SUBSET Lines("load") : L = {j \in Lines("load") : cmd.lines[j].name = x}
  OBVIOUS
<1>8. i \in L
  BY <1>3, <1>5, <1>6, <1>7
<1>9. PICK m \in L : m = First(L) /\ \A j \in L : m <= j
  BY <1>4, <1>8, FirstIs
<1>10. Nth(m) \in DOMAIN files
  <2>1. PICK n \in Nat : n = Len(cmd.lines) + 1
    BY LinesType
  <2> QED  BY <1>1, <1>4, <1>9, <2>1, NthIn DEF FilesUpTo
<1>11. Nth(m) \in Named(files, x) /\ Nth(m) \in Nat
  <2>1. m \in Lines("load") /\ cmd.lines[m].name = x
    BY <1>7, <1>9
  <2>2. files[Nth(m)].name = x
    BY <1>6, <2>1
  <2> QED  BY <1>1, <1>10, <2>2 DEF Named
<1>12. Nth(m) <= k
  <2>1. m <= i /\ m \in Nat /\ i \in Nat
    BY <1>4, <1>7, <1>8, <1>9
  <2>2. {j \in Lines("load") : j <= m} \subseteq {j \in Lines("load") : j <= i}
    BY <1>4, <2>1
  <2>3. IsFiniteSet({j \in Lines("load") : j <= i})
    BY LoadsFinite
  <2> QED  BY <1>5, <2>2, <2>3, FS_Subset DEF Nth
<1>13. Nth(m) = k
  BY <1>2, <1>3, <1>11, <1>12
<1> QED  BY <1>2, <1>6, <1>7, <1>9, <1>13 DEF FirstLoad

-----------------------------------------------------------------------------
(* What the steps of a command have in common. *)
LEMMA ImageStays ==
  ASSUME LoadInv, pc' \notin Loading, UNCHANGED <<image, base, at, pool, loads>>,
         base # 0 => cell' \in [Rvas -> Int] /\ prot' \in [AllPages(F) -> Rights]
  PROVE  LoadInv'
<1>1. F' = F /\ Rvas' = Rvas /\ AllPages(F)' = AllPages(F)
  BY DEF F, Rvas, AllPages
<1> QED  BY <1>1 DEF LoadInv, LoadTypeOK, Loading, Mapped

LEMMA ImageTyped ==
  ASSUME LoadInv, base # 0
  PROVE  cell \in [Rvas -> Int] /\ prot \in [AllPages(F) -> Rights]
BY DEF LoadInv, LoadTypeOK

LEMMA PagesStay ==
  ASSUME PagesKept, prot' = prot, image' = image
  PROVE  PagesKept'
BY DEF PagesKept, Reaching, Reach, Page, Longer, F

LEMMA ReadyStays ==
  ASSUME ReadyInv, pc \in Ready, pc' \in Ready, UNCHANGED <<cmd, image, base, teb, code>>, PagesKept',
         line' \in Nat \ {0}, calls' \in Nat, DOMAIN host' \subseteq {Scratch, Ctx} \union {Buffer[i] : i \in DOMAIN Buffer},
         pc' \in {"script", "call"} \union Reading \/ calls' = 0
  PROVE  ReadyInv'
BY DEF ReadyInv, Ready, Loading, Writing, Reading

LEMMA NamesStay ==
  ASSUME NamesInv, UNCHANGED <<cmd, files>>,
         \/ pc' \in {"failed", "aborted", "ended", "crashed"}
         \/ pc \in Writing \union {"call"} \union Reading /\ pc' \in Writing \union {"call"} \union Reading
         \/ pc' \in {"options", "script"} /\ pc = pc' /\ line' = line
         \/ pc \in Loading \union {"main"} /\ pc' \in Loading \union {"main", "find"} /\ line' = line
  PROVE  NamesInv'
<1>1. \A n : FilesUpTo(n)' = FilesUpTo(n)
  BY DEF FilesUpTo, LoadsBefore, Nth, Lines
<1> QED  BY <1>1 DEF NamesInv, Loading, Ready, Writing, Reading

\* A write changes what is at one address.
LEMMA StoreTyped ==
  ASSUME LoadInv, NEW a, NEW v \in Int, Store(a, v)
  PROVE  /\ base # 0 => cell' \in [Rvas -> Int]
         /\ DOMAIN host' = DOMAIN host
BY DEF LoadInv, LoadTypeOK, Store

LEMMA StoreSets ==
  ASSUME LoadInv, NEW a \in Nat, NEW v \in Int, There(a), Store(a, v), UNCHANGED <<image, base>>,
         NEW b \in Nat, There(b)
  PROVE  There(b)' /\ Value(b)' = IF b = a THEN v ELSE Value(b)
<1>1. base \in Nat /\ F' = F /\ Rvas' = Rvas
  BY DEF LoadInv, F, Rvas
<1>2. InImage(b)' = InImage(b)
  BY <1>1 DEF InImage
<1>3. CASE InImage(a)
  <2>1. base # 0 /\ a - base \in Rvas /\ cell' = [cell EXCEPT ![a - base] = v] /\ host' = host
    BY <1>3 DEF InImage, Store
  <2>2. cell \in [Rvas -> Int]
    BY <2>1, ImageTyped
  <2>3. b # a => b - base # a - base
    BY <1>1
  <2> QED  BY <1>2, <1>3, <2>1, <2>2, <2>3 DEF Value, InImage, There
<1>4. CASE ~InImage(a)
  BY <1>2, <1>4 DEF Value, Store, There
<1> QED  BY <1>3, <1>4

\* The end of a process.
LEMMA EndKeeps ==
  ASSUME CommandInv, pc' \in {"ended", "crashed"}, code' \in {0, 1, 2, 139}, Keep,
         UNCHANGED <<cell, prot, teb, line, prepared, calls>>
  PROVE  CommandInv'
<1>1. LoadInv'
  BY ImageStays, ImageTyped DEF CommandInv, Keep, Loading
<1>2. ReadyInv'
  BY DEF CommandInv, ReadyInv, Keep, prepared, Loading, Ready, Writing, Reading
<1>3. NamesInv'
  BY NamesStay DEF CommandInv, Keep, prepared
<1>4. PreparedInv'
  BY DEF PreparedInv, Writing
<1> QED  BY <1>1, <1>2, <1>3, <1>4 DEF CommandInv

LEMMA Ends ==
  ASSUME CommandInv, (\E c \in {0, 1, 2} : End(c)) \/ Crash
  PROVE  CommandInv'
<1>1. CASE Crash
  BY <1>1, EndKeeps DEF Crash, Goto
<1>2. ASSUME NEW c \in {0, 1, 2}, End(c) PROVE CommandInv'
  BY <1>2, EndKeeps DEF End, Goto
<1> QED  BY <1>1, <1>2

\* Guest code writes numbers.
LEMMA GuestTyped ==
  ASSUME LoadInv, \/ UNCHANGED <<cell, host>>
                  \/ \E a \in {x \in DOMAIN host \union {base + r : r \in Rvas} : Writable(x)} : Store(a, 7)
  PROVE  /\ base # 0 => cell' \in [Rvas -> Int]
         /\ DOMAIN host' = DOMAIN host
BY StoreTyped, ImageTyped

-----------------------------------------------------------------------------
(* The steps before the export is found. *)
LEMMA LoadStep ==
  ASSUME CommandInv, Load
  PROVE  CommandInv'
<1>1. /\ LoadNext /\ ~cmd.help /\ UNCHANGED <<cmd, teb, line, files, host, argv, calls, code>>
  BY DEF Load, prepared
<1>2. LoadInv'
  BY <1>1, LoadKeeps DEF CommandInv
<1>3. /\ pc \in Loading /\ pc # "loaded"
      /\ pc' \in (Loading \ {"load"}) \union {"failed", "aborted"}
  BY <1>1 DEF LoadNext, Parse, Map, Copy, Relocate, Bound, Trapped, NextLibrary, Exports, Protect, Fail, Goto, Loading
<1>4. ReadyInv'
  BY <1>1, <1>3 DEF CommandInv, ReadyInv, Loading, Ready, Writing, Reading
<1>5. NamesInv'
  BY <1>1, <1>3, NamesStay DEF CommandInv
<1>6. PreparedInv'
  BY <1>3 DEF PreparedInv, Loading, Writing
<1> QED  BY <1>2, <1>4, <1>5, <1>6 DEF CommandInv

LEMMA SetTebStep ==
  ASSUME CommandInv, SetTeb
  PROVE  CommandInv'
<1>1. /\ pc = "loaded" /\ pc' = "main" /\ teb' = (IF cmd.noTeb THEN 0 ELSE base)
      /\ UNCHANGED <<image, base, at, pool, loads, cmd, cell, prot, line, files, host, argv, calls, code>>
  BY DEF SetTeb, Goto, Keep, prepared
<1>2. LoadInv'
  BY <1>1, ImageStays, ImageTyped DEF CommandInv, Loading
<1>3. base # 0 /\ \A p \in DOMAIN prot : Reaching(p) # {} => prot[p] = F.sections[LastOf(Reaching(p))].prot
  BY <1>1 DEF CommandInv, LoadInv, Mapped
<1>4. PagesKept'
  <2>1. PagesKept
    BY <1>3 DEF PagesKept
  <2> QED  BY <1>1, <2>1, PagesStay
<1>5. ReadyInv'
  BY <1>1, <1>3, <1>4 DEF CommandInv, ReadyInv, Loading, Ready, Writing, Reading
<1>6. NamesInv'
  BY <1>1, NamesStay DEF CommandInv, Loading
<1>7. PreparedInv'
  BY <1>1 DEF PreparedInv, Writing
<1> QED  BY <1>2, <1>5, <1>6, <1>7 DEF CommandInv

LEMMA DllMainStep ==
  ASSUME CommandInv, DllMain
  PROVE  CommandInv'
<1>1. PICK ret \in BOOLEAN, to \in {"ended", "find"} :
        /\ pc = "main" /\ pc' = to
        /\ to = "ended" => code' \in {0, 3}
        /\ to = "find" => code' = code
        /\ \/ UNCHANGED <<cell, host>>
           \/ \E a \in {x \in DOMAIN host \union {base + r : r \in Rvas} : Writable(x)} : Store(a, 7)
        /\ UNCHANGED <<image, base, at, pool, loads, cmd, prot, teb, line, files, argv, calls>>
  BY DEF DllMain, GuestRuns, Goto, Keep
<1>2. /\ base # 0 => cell' \in [Rvas -> Int] /\ prot \in [AllPages(F) -> Rights]
      /\ DOMAIN host' = DOMAIN host
  BY <1>1, GuestTyped, ImageTyped DEF CommandInv
<1>3. LoadInv'
  BY <1>1, <1>2, ImageStays DEF CommandInv, Loading
<1>4. ReadyInv'
  <2>1. PagesKept'
    BY <1>1, PagesStay DEF CommandInv, ReadyInv, Ready
  <2>2. calls = 0 /\ calls' = 0
    BY <1>1 DEF CommandInv, ReadyInv, Ready, Reading
  <2>3. CASE to = "find"
    BY <1>1, <1>2, <2>1, <2>2, <2>3, ReadyStays DEF CommandInv, ReadyInv, Ready
  <2>4. CASE to = "ended"
    BY <1>1, <1>2, <2>2, <2>4 DEF CommandInv, ReadyInv, Ready, Loading, Writing, Reading
  <2> QED  BY <2>3, <2>4
<1>5. NamesInv'
  BY <1>1, NamesStay DEF CommandInv
<1>6. PreparedInv'
  BY <1>1 DEF PreparedInv, Writing
<1> QED  BY <1>3, <1>4, <1>5, <1>6 DEF CommandInv

LEMMA FindStep ==
  ASSUME CommandInv, Find
  PROVE  CommandInv'
<1>1. CASE ~Exported(cmd.export)
  BY <1>1, Ends DEF Find
<1>2. CASE Exported(cmd.export)
  <2>1. /\ pc = "find" /\ pc' \in {"script", "options"} /\ DOMAIN host' = {Scratch, Ctx}
        /\ UNCHANGED <<image, base, at, pool, loads, cmd, cell, prot, teb, line, files, argv, calls, code>>
    BY <1>2 DEF Find, Goto, Keep
  <2>2. LoadInv'
    BY <2>1, ImageStays, ImageTyped DEF CommandInv, Loading
  <2>3. ReadyInv'
    <3>1. PagesKept'
      BY <2>1, PagesStay DEF CommandInv, ReadyInv, Ready
    <3> QED  BY <2>1, <3>1, ReadyStays DEF CommandInv, ReadyInv, Ready, Reading
  <2>4. NamesInv'
    <3>1. line = 1 /\ files = <<>> /\ files \in Seq([name : STRING, addr : Nat]) /\ Len(files) <= Len(Buffer)
      BY <2>1 DEF CommandInv, NamesInv
    <3>2. LoadsBefore(1) = {}
      BY LinesType DEF CommandInv, ReadyInv, LoadsBefore, Lines
    <3>3. FilesUpTo(1)'
      BY <2>1, <3>1, <3>2, FS_EmptySet DEF FilesUpTo, LoadsBefore, Lines
    <3> QED  BY <2>1, <3>1, <3>3 DEF NamesInv, Loading, Writing, Reading
  <2>5. PreparedInv'
    BY <2>1 DEF PreparedInv, Writing
  <2> QED  BY <2>2, <2>3, <2>4, <2>5 DEF CommandInv
<1> QED  BY <1>1, <1>2

-----------------------------------------------------------------------------
(* The steps between the export and the end. *)
LEMMA ReadyStep ==
  ASSUME CommandInv, pc \in Ready, pc' \in Ready, Keep, UNCHANGED <<teb, code>>,
         base # 0 => cell' \in [Rvas -> Int] /\ prot' \in [AllPages(F) -> Rights], PagesKept',
         line' \in Nat \ {0}, calls' \in Nat, DOMAIN host' \subseteq {Scratch, Ctx} \union {Buffer[i] : i \in DOMAIN Buffer},
         pc' \in {"script", "call"} \union Reading \/ calls' = 0
  PROVE  LoadInv' /\ ReadyInv'
<1>1. LoadInv'
  BY ImageStays DEF CommandInv, Keep, Loading, Ready, Writing, Reading
<1>2. ReadyInv'
  BY ReadyStays DEF CommandInv, Keep
<1> QED  BY <1>1, <1>2

\* What holds of the variables while a command is at work.
LEMMA AtWork ==
  ASSUME CommandInv, pc \in Ready
  PROVE  /\ cmd \in Commands /\ line \in Nat \ {0} /\ calls \in Nat /\ base \in Nat \ {0} /\ image \in Images
         /\ cell \in [Rvas -> Int] /\ prot \in [AllPages(F) -> Rights] /\ PagesKept
         /\ DOMAIN host \subseteq {Scratch, Ctx} \union {Buffer[i] : i \in DOMAIN Buffer}
         /\ files \in Seq([name : STRING, addr : Nat])
BY ImageTyped DEF CommandInv, ReadyInv, NamesInv, LoadInv

LEMMA TargetsTyped ==
  ASSUME cmd \in Commands, base \in Nat
  PROVE  \A i \in Lines("poke") : i \in Nat /\ TargetAt(i) \in Nat
<1> SUFFICES ASSUME NEW i \in Lines("poke") PROVE i \in Nat /\ TargetAt(i) \in Nat
  OBVIOUS
<1>1. i \in Nat /\ cmd.lines[i] \in LineType
  BY LinesType DEF Lines
<1> QED  BY <1>1, LineFields DEF TargetAt

LEMMA LineTyped ==
  ASSUME CommandInv, pc \in Ready, line <= Len(cmd.lines)
  PROVE  line \in DOMAIN cmd.lines /\ Line \in LineType /\ \A op : line \in Lines(op) <=> Line.op = op
BY AtWork, LinesType DEF Line, Lines

\* A step that goes to the next line, and only reads.
LEMMA SkipReady ==
  ASSUME CommandInv, pc \in Ready, Skip, pc \in {"script", "call"} \union Reading \/ calls = 0
  PROVE  /\ LoadInv' /\ ReadyInv' /\ pc' = pc /\ line' = line + 1
         /\ UNCHANGED <<cmd, image, base, cell, prot, files, host, argv, calls>>
<1>1. /\ pc' = pc /\ line' = line + 1 /\ Keep
      /\ UNCHANGED <<cmd, image, base, cell, prot, teb, files, host, argv, calls, code>>
  BY DEF Skip, Keep, prepared
<1>2. PagesKept'
  BY <1>1, AtWork, PagesStay
<1> QED  BY <1>1, <1>2, AtWork, ReadyStep

LEMMA LoadFileStep ==
  ASSUME CommandInv, pc \in {"options", "script"}, line <= Len(cmd.lines), Line.op = "load", LoadFile(Line)
  PROVE  CommandInv'
<1>0. pc \in Ready
  BY DEF Ready
<1>1. CASE Line.file \in Lost
  BY <1>1, Ends DEF LoadFile
<1>2. CASE Line.file \notin Lost
  <2>1. PICK b : b = Buffer[Len(files) + 1]
    OBVIOUS
  <2>2. /\ files' = Append(files, [name |-> Line.name, addr |-> Buffer[Len(files) + 1]])
        /\ DOMAIN host' = DOMAIN host \union {b}
        /\ line' = line + 1 /\ pc' = pc
        /\ Keep /\ UNCHANGED <<cmd, image, base, cell, prot, teb, argv, calls, code>>
    BY <1>2, <2>1 DEF LoadFile, Keep
  <2>3. FilesUpTo(line)' /\ Len(files') <= Len(Buffer) /\ files' \in Seq([name : STRING, addr : Nat])
        /\ Len(files) + 1 \in DOMAIN Buffer
    <3>1. FilesUpTo(line) /\ line \in Lines("load")
      BY <1>0, LineTyped DEF CommandInv, NamesInv
    <3> QED  BY <1>0, <2>2, <3>1, AtWork, FileLoaded DEF CommandInv
  <2>4. PagesKept'
    BY <1>0, <2>2, AtWork, PagesStay
  <2>5. pc' \in {"script", "call"} \union Reading \/ calls' = 0
    BY <2>2 DEF CommandInv, ReadyInv, Reading
  <2>6. LoadInv' /\ ReadyInv'
    BY <1>0, <2>1, <2>2, <2>3, <2>4, <2>5, AtWork, ReadyStep
  <2>7. NamesInv'
    BY <2>2, <2>3 DEF NamesInv, Loading, Writing, Reading
  <2>8. PreparedInv'
    BY <2>2 DEF PreparedInv, Writing
  <2> QED  BY <2>6, <2>7, <2>8 DEF CommandInv
<1> QED  BY <1>1, <1>2

\* A line of the options or the script that loads nothing.
LEMMA OtherLine ==
  ASSUME CommandInv, pc \in {"options", "script"}, line <= Len(cmd.lines), Line.op # "load", LoadInv', ReadyInv',
         UNCHANGED <<pc, cmd, files>>, line' = line + 1
  PROVE  CommandInv'
<1>1. pc \in Ready
  BY DEF Ready
<1>2. FilesUpTo(line)'
  BY <1>1, AtWork, LineTyped, PassedOver DEF CommandInv, NamesInv
<1>3. NamesInv'
  BY <1>2 DEF CommandInv, NamesInv, Loading, Writing, Reading
<1>4. PreparedInv'
  BY DEF PreparedInv, Writing
<1> QED  BY <1>3, <1>4 DEF CommandInv

LEMMA OptionStep ==
  ASSUME CommandInv, Option
  PROVE  CommandInv'
<1>1. CASE AtLine("options", {"load"}) /\ LoadFile(Line)
  BY <1>1, LoadFileStep DEF AtLine
<1>2. CASE AtLine("options", {"poke", "pokeptr", "patch", "peek", "peekptr", "arg"}) /\ Skip
  <2>1. pc = "options" /\ pc \in Ready /\ line <= Len(cmd.lines) /\ Line.op # "load" /\ Skip
    BY <1>2 DEF AtLine, Ready
  <2>2. calls = 0
    BY <2>1 DEF CommandInv, ReadyInv, Reading
  <2>3. LoadInv' /\ ReadyInv' /\ pc' = pc /\ line' = line + 1 /\ UNCHANGED <<cmd, files>>
    BY <2>1, <2>2, SkipReady
  <2> QED  BY <2>1, <2>3, OtherLine
<1> QED  BY <1>1, <1>2 DEF Option

LEMMA ArgumentsStep ==
  ASSUME CommandInv, Arguments
  PROVE  CommandInv'
<1>0. pc = "options" /\ pc \in Ready /\ line > Len(cmd.lines)
  BY DEF Arguments, Ready
<1>1. CASE \E i \in DOMAIN Args : ArgMeans(files, Args[i]) = {}
  BY <1>1, Ends DEF Arguments
<1>2. CASE \E i \in Lines("poke") : Means(files, cmd.lines[i].val) = {}
  BY <1>2, Ends DEF Arguments
<1>3. CASE /\ \A i \in DOMAIN Args : ArgMeans(files, Args[i]) # {}
           /\ \A i \in Lines("poke") : Means(files, cmd.lines[i].val) # {}
  <2>1. /\ argv' = [i \in DOMAIN Args |-> The(ArgMeans(files, Args[i]))]
        /\ pc' = "pokeptr" /\ line' = 1
        /\ Keep /\ UNCHANGED <<cmd, image, base, cell, prot, teb, files, host, calls, code>>
    BY <1>3 DEF Arguments, Goto, Keep
  <2>2. PagesKept'
    BY <1>0, <2>1, AtWork, PagesStay
  <2>3. calls = 0
    BY <1>0 DEF CommandInv, ReadyInv, Reading
  <2>4. LoadInv' /\ ReadyInv'
    BY <1>0, <2>1, <2>2, <2>3, AtWork, ReadyStep DEF Ready, Writing
  <2>5. FilesUpTo(Len(cmd.lines) + 1)
    BY <1>0, AtWork, AllPassed DEF CommandInv, NamesInv
  <2>6. NamesInv'
    <3>1. FilesUpTo(Len(cmd.lines) + 1)'
      <4>1. PICK n : n = Len(cmd.lines) + 1
        OBVIOUS
      <4>2. FilesUpTo(n)' = FilesUpTo(n) /\ n = Len(cmd'.lines) + 1
        BY <2>1, <4>1 DEF FilesUpTo, LoadsBefore, Nth, Lines
      <4> QED  BY <2>5, <4>1, <4>2
    <3> QED  BY <2>1, <3>1 DEF CommandInv, NamesInv, Loading, Writing, Reading
  <2>7. PreparedInv'
    <3>1. Args' = Args /\ Lines("poke")' = Lines("poke")
      BY <2>1 DEF Args, Lines
    <3>2. \A t : ArgMeans(files, t)' = ArgMeans(files, t) /\ Means(files, t)' = Means(files, t)
      BY <2>1 DEF ArgMeans, Means, Named
    <3> QED  BY <1>3, <2>1, <3>1, <3>2 DEF PreparedInv, Writing
  <2> QED  BY <2>4, <2>6, <2>7 DEF CommandInv
<1> QED  BY <1>1, <1>2, <1>3

LEMMA ScriptStep ==
  ASSUME CommandInv, Script
  PROVE  CommandInv'
<1>0. pc = "script" /\ pc \in Ready /\ pc \in {"script", "call"} \union Reading
  BY DEF Script, AtLine, Ready
<1>1. CASE AtLine("script", {"load"}) /\ LoadFile(Line)
  BY <1>1, LoadFileStep DEF AtLine
<1>2. ASSUME NEW a, NEW v \in Int, line <= Len(cmd.lines), Line.op # "load", Stored(a, v) PROVE CommandInv'
  <2>1. CASE ~Writable(a)
    BY <1>2, <2>1, Ends DEF Stored
  <2>2. CASE Writable(a)
    <3>1. /\ Store(a, v) /\ line' = line + 1 /\ pc' = pc
          /\ Keep /\ UNCHANGED <<cmd, image, base, prot, teb, files, argv, calls, code>>
      BY <1>2, <2>2 DEF Stored, Keep
    <3>2. PagesKept'
      BY <1>0, <3>1, AtWork, PagesStay
    <3>3. cell' \in [Rvas -> Int] /\ DOMAIN host' = DOMAIN host
      BY <1>0, <1>2, <3>1, AtWork, StoreTyped DEF CommandInv
    <3>4. LoadInv' /\ ReadyInv'
      BY <1>0, <3>1, <3>2, <3>3, AtWork, ReadyStep
    <3> QED  BY <1>0, <1>2, <3>1, <3>4, OtherLine
  <2> QED  BY <2>1, <2>2
<1>3. CASE AtLine("script", {"poke"}) /\ Line.op = "poke"
           /\ IF Means(files, Line.val) = {} THEN End(2) ELSE Stored(Target(Line), The(Means(files, Line.val)))
  <2>1. CASE Means(files, Line.val) = {}
    BY <1>3, <2>1, Ends
  <2>2. CASE Means(files, Line.val) # {}
    <3>1. Line \in LineType /\ line <= Len(cmd.lines)
      BY <1>0, <1>3, LineTyped DEF AtLine
    <3>2. PICK v \in Nat : v = The(Means(files, Line.val))
      BY <1>0, <2>2, <3>1, AtWork, LineFields, MeansNat, TheIn
    <3> QED  BY <1>2, <1>3, <2>2, <3>1, <3>2
  <2> QED  BY <2>1, <2>2
<1>4. CASE AtLine("script", {"zero"}) /\ Stored(Region(Line.to), 0)
  BY <1>2, <1>4 DEF AtLine
<1>5. CASE AtLine("script", {"dump"}) /\ Skip
  <2>1. line <= Len(cmd.lines) /\ Line.op # "load" /\ Skip
    BY <1>5 DEF AtLine
  <2>2. LoadInv' /\ ReadyInv' /\ pc' = pc /\ line' = line + 1 /\ UNCHANGED <<cmd, files>>
    BY <1>0, <2>1, SkipReady
  <2> QED  BY <1>0, <2>1, <2>2, OtherLine
<1>6. CASE AtLine("script", {"other"}) /\ End(2)
  BY <1>6, Ends
<1>7. CASE pc = "script" /\ line > Len(cmd.lines) /\ End(0)
  BY <1>7, Ends
<1> QED  BY <1>1, <1>3, <1>4, <1>5, <1>6, <1>7 DEF Script, AtLine

LEMMA ScriptCallStep ==
  ASSUME CommandInv, ScriptCall
  PROVE  CommandInv'
<1>0. pc = "script" /\ pc \in Ready /\ line <= Len(cmd.lines) /\ Line.op # "load"
  BY DEF ScriptCall, AtLine, Ready
<1>1. CASE ~Exported(Line.export)
  BY <1>1, Ends DEF ScriptCall
<1>2. CASE \E i \in DOMAIN Line.args : Means(files, Line.args[i]) = {}
  BY <1>2, Ends DEF ScriptCall
<1>3. CASE Exported(Line.export) /\ ~\E i \in DOMAIN Line.args : Means(files, Line.args[i]) = {}
  <2>1. /\ calls' = calls + 1 /\ line' = line + 1 /\ pc' = pc
        /\ \/ UNCHANGED <<cell, host>>
           \/ \E a \in {x \in DOMAIN host \union {base + r : r \in Rvas} : Writable(x)} : Store(a, 7)
        /\ Keep /\ UNCHANGED <<cmd, image, base, prot, teb, files, code>>
    BY <1>3 DEF ScriptCall, GuestRuns, Keep
  <2>2. PagesKept'
    BY <1>0, <2>1, AtWork, PagesStay
  <2>3. cell' \in [Rvas -> Int] /\ DOMAIN host' = DOMAIN host
    BY <1>0, <2>1, AtWork, GuestTyped DEF CommandInv
  <2>4. LoadInv' /\ ReadyInv'
    BY <1>0, <2>1, <2>2, <2>3, AtWork, ReadyStep
  <2> QED  BY <1>0, <2>1, <2>4, OtherLine
<1> QED  BY <1>1, <1>2, <1>3

-----------------------------------------------------------------------------
(* The lists of writes and reads. *)
LEMMA WorkKeeps ==
  ASSUME CommandInv, pc \in Writing \union {"call"} \union Reading, pc' \in Writing \union {"call"} \union Reading,
         pc' \in Writing \union {"call"} => pc \in Writing \union {"call"},
         Keep, UNCHANGED <<teb, files, argv, code>>,
         cell' \in [Rvas -> Int], prot' \in [AllPages(F) -> Rights], PagesKept', DOMAIN host' = DOMAIN host,
         line' \in Nat \ {0}, calls' \in Nat, pc' \in Writing => calls' = 0,
         pc' = "poke" => PokedUpTo(line)',
         pc' = "patch" => PatchedUpTo(line)',
         pc' = "call" /\ calls' = 0 => PatchedUpTo(Len(cmd.lines) + 1)'
  PROVE  CommandInv'
<1>0. pc \in Ready /\ pc' \in Ready /\ (pc' \in {"call"} \union Reading \/ calls' = 0)
  BY DEF Ready
<1>1. LoadInv' /\ ReadyInv'
  BY <1>0, AtWork, ReadyStep
<1>2. NamesInv'
  BY NamesStay DEF CommandInv, Keep
<1>3. PreparedInv'
  <2>1. Args' = Args /\ Lines("poke")' = Lines("poke")
    BY DEF Args, Lines, Keep
  <2>2. \A t : ArgMeans(files, t)' = ArgMeans(files, t) /\ Means(files, t)' = Means(files, t)
    BY DEF ArgMeans, Means, Named
  <2>3. cmd' = cmd
    BY DEF Keep
  <2> QED  BY <2>1, <2>2, <2>3 DEF CommandInv, PreparedInv
<1> QED  BY <1>1, <1>2, <1>3 DEF CommandInv

\* What has been written stays as long as nothing is written.
LEMMA PokedStays ==
  ASSUME UNCHANGED <<cmd, image, base, cell, files, host>>
  PROVE  /\ \A i : Poked(i)' = Poked(i) /\ TargetAt(i)' = TargetAt(i) /\ LastPoke(i)' = LastPoke(i)
         /\ Lines("poke")' = Lines("poke") /\ Lines("patch")' = Lines("patch")
BY DEF Poked, There, Value, InImage, TargetAt, Target, Means, Named, LastPoke, Lines, F, Rvas

\* The list is passed over, or has ended.
LEMMA PassOverStep ==
  ASSUME CommandInv, NEW op \in Writing \union (Reading \ {"dump"}), NEW next, PassOver(op, next),
         <<op, next>> \in {<<"pokeptr", "poke">>, <<"poke", "patch">>, <<"patch", "call">>,
                           <<"peek", "peekptr">>, <<"peekptr", "dump">>}
  PROVE  CommandInv'
<1>1. /\ pc = op /\ Keep /\ UNCHANGED <<cmd, image, base, cell, prot, teb, files, host, argv, calls, code>>
      /\ \/ line <= Len(cmd.lines) /\ Line.op # op /\ pc' = op /\ line' = line + 1
         \/ line > Len(cmd.lines) /\ pc' = next /\ line' = 1
  BY DEF PassOver, Skip, Goto, Keep, prepared
<1>2. pc \in Ready
  BY <1>1 DEF Ready
<1>3. PagesKept'
  BY <1>1, <1>2, AtWork, PagesStay
<1>4. pc \in Writing => calls = 0
  BY <1>1 DEF CommandInv, ReadyInv, Writing, Reading
<1>5. line <= Len(cmd.lines) /\ Line.op # op => line \notin Lines(op)
  BY <1>2, LineTyped
<1>6. \A i \in Lines("poke") \union Lines("patch") : i \in Nat /\ i <= Len(cmd.lines)
  BY <1>2, AtWork, LinesType DEF Lines
<1>7. pc' = "poke" => PokedUpTo(line)'
  <2>1. CASE op = "poke" /\ pc' = "poke" /\ line' = line + 1
    <3>1. PokedUpTo(line) /\ line \notin Lines("poke") /\ line \in Nat
      BY <1>1, <1>2, <1>5, <2>1, AtWork DEF CommandInv, PreparedInv
    <3>2. \A i \in Lines("poke") : i < line + 1 <=> i < line
      BY <1>6, <3>1
    <3> QED  BY <1>1, <2>1, <3>1, <3>2, PokedStays DEF PokedUpTo
  <2>2. CASE op = "pokeptr" /\ line' = 1
    <3>1. \A i \in Lines("poke") : ~(i < 1)
      BY <1>2, AtWork, LinesType DEF Lines
    <3> QED  BY <1>1, <2>2, <3>1, PokedStays DEF PokedUpTo
  <2> QED  BY <1>1, <2>1, <2>2
<1>8. pc' = "patch" => PatchedUpTo(line)'
  <2>1. CASE op = "patch" /\ pc' = "patch" /\ line' = line + 1
    <3>1. PatchedUpTo(line) /\ line \notin Lines("patch") /\ line \in Nat
      BY <1>1, <1>2, <1>5, <2>1, AtWork DEF CommandInv, PreparedInv
    <3>2. \A i \in Lines("patch") : i < line + 1 <=> i < line
      BY <1>6, <3>1
    <3> QED  BY <1>1, <2>1, <3>1, <3>2, PokedStays DEF PatchedUpTo
  <2>2. CASE op = "poke" /\ line' = 1 /\ line > Len(cmd.lines)
    <3>1. PokedUpTo(line)
      BY <1>1, <2>2 DEF CommandInv, PreparedInv
    <3>2. \A i \in Lines("poke") : i < line
      BY <1>2, <1>6, <2>2, AtWork, LinesType
    <3>3. \A i \in Lines("poke") : LastPoke(i) => Poked(i)
      BY <3>1, <3>2 DEF PokedUpTo, LastPoke
    <3> QED  BY <1>1, <3>3, PokedStays DEF PatchedUpTo
  <2> QED  BY <1>1, <2>1, <2>2
<1>9. pc' = "call" /\ calls' = 0 => PatchedUpTo(Len(cmd.lines) + 1)'
  <2>1. CASE op = "patch" /\ line > Len(cmd.lines)
    <3>1. PatchedUpTo(line)
      BY <1>1, <2>1 DEF CommandInv, PreparedInv
    <3>2. \A j \in Lines("patch") : j < line <=> j < Len(cmd.lines) + 1
      BY <1>2, <1>6, <2>1, AtWork, LinesType
    <3> QED  BY <1>1, <3>1, <3>2, PokedStays DEF PatchedUpTo
  <2> QED  BY <1>1, <2>1
<1> QED  BY <1>1, <1>2, <1>3, <1>4, <1>7, <1>8, <1>9, AtWork, WorkKeeps DEF Writing, Reading

\* A write of a list, where the memory allows it.
LEMMA StoredStep ==
  ASSUME CommandInv, pc \in {"pokeptr", "poke"}, line <= Len(cmd.lines), NEW a, NEW v \in Int, Stored(a, v),
         pc = "poke" => Line.op = "poke" /\ a = Target(Line) /\ v = The(Means(files, Line.val))
  PROVE  CommandInv'
<1>0. pc \in Ready /\ pc \in Writing
  BY DEF Ready, Writing
<1>1. CASE ~Writable(a)
  BY <1>1, Ends DEF Stored
<1>2. CASE Writable(a)
  <2>1. /\ Store(a, v) /\ line' = line + 1 /\ pc' = pc
        /\ Keep /\ UNCHANGED <<cmd, image, base, prot, teb, files, argv, calls, code>>
    BY <1>2 DEF Stored, Keep
  <2>2. PagesKept'
    BY <1>0, <2>1, AtWork, PagesStay
  <2>3. cell' \in [Rvas -> Int] /\ DOMAIN host' = DOMAIN host
    BY <1>0, <2>1, AtWork, StoreTyped DEF CommandInv
  <2>4. calls = 0
    BY <1>0 DEF CommandInv, ReadyInv, Writing, Reading
  <2>5. pc' = "poke" => PokedUpTo(line)'
    <3> SUFFICES ASSUME pc = "poke" PROVE PokedUpTo(line)'
      BY <2>1
    <3>1. PokedUpTo(line) /\ line \in Nat /\ line \in Lines("poke") /\ Line \in LineType /\ base \in Nat
      BY <1>0, AtWork, LineTyped DEF CommandInv, PreparedInv
    <3>2. a \in Nat /\ There(a) /\ a = TargetAt(line)
      BY <1>2, <3>1, LineFields DEF Writable, There, TargetAt, Line
    <3>3. Lines("poke")' = Lines("poke") /\ \A i : TargetAt(i)' = TargetAt(i) /\ Means(files, cmd.lines[i].val)' = Means(files, cmd.lines[i].val)
      BY <2>1 DEF Lines, TargetAt, Target, Means, Named
    <3>4. \A i \in Lines("poke") : i \in Nat /\ TargetAt(i) \in Nat
      BY <1>0, AtWork, TargetsTyped
    <3>5. ASSUME NEW i \in Lines("poke"), i < line + 1, \A j \in Lines("poke") : i < j /\ j < line + 1 => TargetAt(j) # TargetAt(i)
          PROVE  Poked(i)'
      <4>1. CASE i = line
        <5>1. There(a)' /\ Value(a)' = v
          BY <2>1, <3>2, StoreSets DEF CommandInv
        <5>2. v = The(Means(files, cmd.lines[i].val)) /\ TargetAt(i)' = a
          BY <3>2, <3>3, <4>1 DEF Line
        <5> QED  BY <3>3, <5>1, <5>2 DEF Poked
      <4>2. CASE i # line
        <5>1. i < line /\ TargetAt(line) # TargetAt(i)
          BY <3>1, <3>4, <3>5, <4>2
        <5>2. Poked(i)
          BY <3>1, <3>4, <3>5, <5>1 DEF PokedUpTo
        <5>3. There(TargetAt(i)) /\ TargetAt(i) # a /\ TargetAt(i) \in Nat
          BY <3>2, <3>4, <5>1, <5>2 DEF Poked
        <5>4. PICK b \in Nat : b = TargetAt(i)
          BY <5>3
        <5>5. There(b)' /\ Value(b)' = Value(b)
          BY <2>1, <3>2, <5>3, <5>4, StoreSets DEF CommandInv
        <5> QED  BY <3>3, <5>2, <5>4, <5>5 DEF Poked
      <4> QED  BY <4>1, <4>2
    <3> QED  BY <2>1, <3>3, <3>5 DEF PokedUpTo
  <2> QED  BY <1>0, <2>1, <2>2, <2>3, <2>4, <2>5, AtWork, WorkKeeps DEF Writing
<1> QED  BY <1>1, <1>2

LEMMA PokePtrStep ==
  ASSUME CommandInv, PokePtr
  PROVE  CommandInv'
<1>1. CASE PassOver("pokeptr", "poke")
  BY <1>1, PassOverStep DEF Writing
<1>2. CASE AtLine("pokeptr", {"pokeptr"}) /\ ~PassOver("pokeptr", "poke")
  <2>1. pc = "pokeptr" /\ pc \in Ready /\ line <= Len(cmd.lines)
    BY <1>2 DEF AtLine, Ready, Writing
  <2>2. CASE Means(files, Line.val) = {} \/ ~Readable(base + Line.rva)
    BY <1>2, <2>2, Ends DEF PokePtr
  <2>3. CASE Means(files, Line.val) # {} /\ Readable(base + Line.rva)
    <3>1. PICK v \in Nat : v = The(Means(files, Line.val))
      BY <2>1, <2>3, AtWork, LineTyped, LineFields, MeansNat, TheIn
    <3>2. Stored(Value(base + Line.rva), v)
      BY <1>2, <2>3, <3>1 DEF PokePtr
    <3> QED  BY <2>1, <3>1, <3>2, StoredStep
  <2> QED  BY <2>2, <2>3
<1> QED  BY <1>1, <1>2 DEF PokePtr

LEMMA PokeStep ==
  ASSUME CommandInv, Poke
  PROVE  CommandInv'
<1>1. CASE PassOver("poke", "patch")
  BY <1>1, PassOverStep DEF Writing
<1>2. CASE AtLine("poke", {"poke"}) /\ Stored(Target(Line), The(Means(files, Line.val)))
  <2>1. pc = "poke" /\ pc \in Ready /\ line <= Len(cmd.lines) /\ Line.op = "poke"
    BY <1>2 DEF AtLine, Ready, Writing
  <2>2. Line \in LineType /\ line \in Lines("poke")
    BY <2>1, LineTyped
  <2>3. Means(files, Line.val) # {}
    BY <2>1, <2>2 DEF CommandInv, PreparedInv, Writing, Line
  <2>4. PICK v \in Nat : v = The(Means(files, Line.val))
    BY <2>1, <2>2, <2>3, AtWork, LineFields, MeansNat, TheIn
  <2> QED  BY <1>2, <2>1, <2>4, StoredStep
<1> QED  BY <1>1, <1>2 DEF Poke

LEMMA PatchStep ==
  ASSUME CommandInv, Patch
  PROVE  CommandInv'
<1>1. CASE PassOver("patch", "call")
  BY <1>1, PassOverStep DEF Writing
<1>2. CASE AtLine("patch", {"patch"}) /\ Line.rva \notin Rvas /\ Crash
  BY <1>2, Ends
<1>3. CASE AtLine("patch", {"patch"}) /\ Line.rva \in Rvas /\ ~PassOver("patch", "call")
  <2>1. pc = "patch" /\ pc \in Ready /\ pc \in Writing /\ line <= Len(cmd.lines) /\ Line.op = "patch"
    BY <1>3 DEF AtLine, Ready, Writing
  <2>2. Line \in LineType /\ line \in Lines("patch") /\ Line.rva \in Nat /\ Line.n \in Nat /\ line \in Nat
    BY <2>1, AtWork, LineTyped, LineFields
  <2>3. PICK rva \in Rvas, n \in Nat : rva = Line.rva /\ n = Line.n
    BY <1>3, <2>2
  <2>4. /\ cell' = [cell EXCEPT ![rva] = n] /\ prot' = [prot EXCEPT ![Page(rva)] = {"r", "x"}]
        /\ line' = line + 1 /\ pc' = pc
        /\ Keep /\ UNCHANGED <<cmd, image, base, teb, files, host, argv, calls, code>>
    BY <1>3, <2>3 DEF Patch, Keep, prepared
  <2>5. cell' \in [Rvas -> Int] /\ prot' \in [AllPages(F) -> Rights]
    <3>1. {"r", "x"} \in Rights
      BY DEF Rights
    <3>2. cell \in [Rvas -> Int] /\ prot \in [AllPages(F) -> Rights]
      BY <2>1, AtWork
    <3>3. cell' \in [Rvas -> Int]
      BY <2>4, <3>2
    <3>4. prot' \in [AllPages(F) -> Rights]
      BY <2>4, <3>1, <3>2
    <3> QED  BY <3>3, <3>4
  <2>6. PagesKept'
    <3>1. \A p : Reaching(p)' = Reaching(p) /\ F' = F
      BY <2>4 DEF Reaching, Reach, Page, Longer, F
    <3>2. PagesKept
      BY <2>1, AtWork
    <3> QED  BY <2>1, <2>4, <3>1, <3>2, AtWork DEF PagesKept
  <2>7. calls = 0
    BY <2>1 DEF CommandInv, ReadyInv, Writing, Reading
  <2>8. PatchedUpTo(line)'
    <3>1. PatchedUpTo(line) /\ base \in Nat \ {0}
      BY <2>1, AtWork DEF CommandInv, PreparedInv
    <3>2. PICK a \in Nat : a = base + rva /\ a - base = rva
      BY <2>2, <2>3, <3>1
    <3>3. There(a) /\ Store(a, n)
      BY <2>3, <2>4, <3>1, <3>2 DEF There, InImage, Store
    <3>4. /\ Lines("poke")' = Lines("poke") /\ Lines("patch")' = Lines("patch")
          /\ \A i : /\ TargetAt(i)' = TargetAt(i) /\ LastPoke(i)' = LastPoke(i)
                    /\ Means(files, cmd.lines[i].val)' = Means(files, cmd.lines[i].val)
      BY <2>4 DEF Lines, TargetAt, Target, Means, Named, LastPoke
    <3>5. \A i \in Lines("poke") : TargetAt(i) \in Nat
      BY <2>1, AtWork, TargetsTyped
    <3>6. \A j \in Lines("patch") : j \in Nat
      BY <2>1, AtWork, LinesType DEF Lines
    <3>7. ASSUME NEW i \in Lines("poke"), LastPoke(i), \A j \in Lines("patch") : j < line + 1 => TargetAt(i) # base + cmd.lines[j].rva
          PROVE  Poked(i)'
      <4>1. TargetAt(i) # a
        BY <2>2, <2>3, <3>2, <3>7 DEF Line
      <4>2. \A j \in Lines("patch") : j < line => j < line + 1
        BY <2>2, <3>6
      <4>3. Poked(i)
        BY <3>1, <3>7, <4>2 DEF PatchedUpTo
      <4>4. PICK b \in Nat : b = TargetAt(i)
        BY <3>5
      <4>5. There(b)' /\ Value(b)' = Value(b)
        BY <2>4, <3>3, <4>1, <4>3, <4>4, StoreSets DEF CommandInv, Poked
      <4> QED  BY <3>4, <4>3, <4>4, <4>5 DEF Poked
    <3> QED  BY <2>4, <3>4, <3>7 DEF PatchedUpTo
  <2> QED  BY <2>1, <2>2, <2>4, <2>5, <2>6, <2>7, <2>8, AtWork, WorkKeeps DEF Writing
<1> QED  BY <1>1, <1>2, <1>3 DEF Patch

LEMMA CallStep ==
  ASSUME CommandInv, Call
  PROVE  CommandInv'
<1>1. PICK to \in {"call", "peek"} :
        /\ pc = "call" /\ pc' = to /\ calls' = calls + 1
        /\ \/ UNCHANGED <<cell, host>>
           \/ \E a \in {x \in DOMAIN host \union {base + r : r \in Rvas} : Writable(x)} : Store(a, 7)
        /\ Keep /\ UNCHANGED <<cmd, image, base, prot, teb, line, files, argv, code>>
  BY DEF Call, GuestRuns, Goto, Keep
<1>2. pc \in Ready
  BY <1>1 DEF Ready
<1>3. PagesKept'
  BY <1>1, <1>2, AtWork, PagesStay
<1>4. cell' \in [Rvas -> Int] /\ DOMAIN host' = DOMAIN host
  BY <1>1, <1>2, AtWork, GuestTyped DEF CommandInv
<1>5. calls' \in Nat /\ calls' # 0
  BY <1>1, <1>2, AtWork
<1> QED  BY <1>1, <1>2, <1>3, <1>4, <1>5, AtWork, WorkKeeps DEF Writing, Reading

\* A line of what is read after the call.
LEMMA SkipReading ==
  ASSUME CommandInv, pc \in Reading, Skip
  PROVE  CommandInv'
<1>1. /\ pc' = pc /\ line' = line + 1 /\ pc \in Ready
      /\ Keep /\ UNCHANGED <<cmd, image, base, cell, prot, teb, files, host, argv, calls, code>>
  BY DEF Skip, Keep, prepared, Ready
<1>2. PagesKept'
  BY <1>1, AtWork, PagesStay
<1> QED  BY <1>1, <1>2, AtWork, WorkKeeps DEF Writing, Reading

LEMMA PeekStep ==
  ASSUME CommandInv, Peek \/ PeekPtr
  PROVE  CommandInv'
<1>1. CASE PassOver("peek", "peekptr")
  BY <1>1, PassOverStep DEF Reading
<1>2. CASE PassOver("peekptr", "dump")
  BY <1>2, PassOverStep DEF Reading
<1>3. CASE Crash
  BY <1>3, Ends
<1>4. CASE Skip /\ (AtLine("peek", {"peek"}) \/ AtLine("peekptr", {"peekptr"}))
  BY <1>4, SkipReading DEF AtLine, Reading
<1> QED  BY <1>1, <1>2, <1>3, <1>4 DEF Peek, PeekPtr

LEMMA CommandKeeps ==
  ASSUME CommandInv, CommandNext
  PROVE  CommandInv'
<1>1. CASE Help \/ NotLoaded \/ NoEntry \/ DumpArgs
  BY <1>1, Ends DEF Help, NotLoaded, NoEntry, DumpArgs
<1> QED  BY <1>1, LoadStep, SetTebStep, DllMainStep, FindStep, OptionStep, ArgumentsStep, PokePtrStep, PokeStep, PatchStep,
            CallStep, PeekStep, ScriptStep, ScriptCallStep DEF CommandNext

\* No state of a command changes: an invariant of theirs is one of the next state.
LEMMA CommandStays ==
  ASSUME CommandInv, UNCHANGED commandVars
  PROVE  CommandInv'
<1>1. /\ UNCHANGED <<pc, image, base, cell, prot, at, pool, loads>>
      /\ UNCHANGED <<cmd, teb, line, files, host, argv, calls, code>>
  BY DEF commandVars, loadVars
<1>2. F' = F /\ Rvas' = Rvas
  BY <1>1 DEF F, Rvas
<1>3. LoadInv'
  <2>1. \A r \in Rvas : Filled(r)' = Filled(r)
    BY <1>1, <1>2 DEF Filled, Done, SlotOf, Thunks, Relocated, Moved, Copied, SectionOf, Slide, Moves, CallsOf, Calls
  <2>2. /\ \A r \in Rvas : Copied(r)' = Copied(r)
        /\ \A p : Reaching(p)' = Reaching(p)
    BY <1>1, <1>2 DEF Copied, SectionOf, Reaching, Reach, Page, Longer
  <2> QED  BY <1>1, <1>2, <2>1, <2>2 DEF CommandInv, LoadInv, LoadTypeOK, Mapped, AllPages
<1>4. ReadyInv'
  <2>1. pc \in Ready => PagesKept'
    BY <1>1, PagesStay DEF CommandInv, ReadyInv
  <2> QED  BY <1>1, <2>1 DEF CommandInv, ReadyInv
<1>5. NamesInv'
  <2>1. \A n : FilesUpTo(n)' = FilesUpTo(n)
    BY <1>1 DEF FilesUpTo, LoadsBefore, Nth, Lines
  <2> QED  BY <1>1, <2>1 DEF CommandInv, NamesInv
<1>6. PreparedInv'
  <2>1. Args' = Args /\ \A t : ArgMeans(files, t)' = ArgMeans(files, t) /\ Means(files, t)' = Means(files, t)
    BY <1>1 DEF Args, ArgMeans, Means, Named
  <2>2. \A n : PokedUpTo(n)' = PokedUpTo(n) /\ PatchedUpTo(n)' = PatchedUpTo(n)
    BY <1>1, PokedStays DEF PokedUpTo, PatchedUpTo
  <2> QED  BY <1>1, <2>1, <2>2, PokedStays DEF CommandInv, PreparedInv
<1> QED  BY <1>3, <1>4, <1>5, <1>6 DEF CommandInv

-----------------------------------------------------------------------------
(***************************************************************************)
(* What the invariant says when guest code runs.                           *)
(***************************************************************************)
LEMMA CommandTyped ==
  ASSUME CommandInv
  PROVE  CommandTypeOK
<1>1. /\ LoadTypeOK /\ Len(files) <= Len(Buffer) /\ calls \in Nat
      /\ DOMAIN host \subseteq {Scratch, Ctx} \union {Buffer[i] : i \in DOMAIN Buffer}
      /\ (code = -1) = (pc \notin {"ended", "crashed"})
  BY DEF CommandInv, LoadInv, NamesInv, ReadyInv
<1>2. pc \in Loading \union Ready \union {"failed", "aborted", "ended", "crashed"}
  BY DEF CommandInv, ReadyInv
<1> QED  BY <1>1, <1>2 DEF CommandTypeOK, Loading, Ready, Writing, Reading

LEMMA CommandReady ==
  ASSUME CommandInv
  PROVE  GuestReady
<1>1. ASSUME Guest
      PROVE  /\ base # 0 /\ ~cmd.help /\ teb = (IF cmd.noTeb THEN 0 ELSE base)
             /\ \A p \in DOMAIN prot : Reaching(p) # {} /\ {"w", "x"} \subseteq prot[p] =>
                  \E i \in Reaching(p) : {"w", "x"} \subseteq F.sections[i].prot
  <2>1. pc \in Ready
    BY <1>1 DEF Guest, Ready
  <2>2. /\ base # 0 /\ ~cmd.help /\ teb = (IF cmd.noTeb THEN 0 ELSE base) /\ PagesKept
    BY <2>1 DEF CommandInv, ReadyInv
  <2>3. ASSUME NEW p \in DOMAIN prot, Reaching(p) # {}, {"w", "x"} \subseteq prot[p]
        PROVE  \E i \in Reaching(p) : {"w", "x"} \subseteq F.sections[i].prot
    <3>1. prot[p] = F.sections[LastOf(Reaching(p))].prot
      BY <2>2, <2>3 DEF PagesKept
    <3>2. F.sections \in Seq(SectionType)
      BY <2>1, AtWork, FileType
    <3>3. Reaching(p) \in SUBSET (1..Len(F.sections)) /\ Len(F.sections) \in Nat
      BY <3>2 DEF Reaching
    <3>4. LastOf(Reaching(p)) \in Reaching(p)
      BY <2>3, <3>3, LastOfIs
    <3> QED  BY <2>3, <3>1, <3>4
  <2> QED  BY <2>2, <2>3
<1>2. code = 3 => calls = 0
  BY DEF CommandInv, ReadyInv
<1>3. ASSUME pc = "call", calls = 0
      PROVE  /\ \A i \in Lines("poke") : LastPoke(i) /\ ~Patched(TargetAt(i)) =>
                  Value(TargetAt(i)) \in Means(files, cmd.lines[i].val)
             /\ \A i \in DOMAIN Args : Args[i].form = "name" => argv[i] = FirstLoad(Args[i].of)
  <2>1. /\ PatchedUpTo(Len(cmd.lines) + 1) /\ FilesUpTo(Len(cmd.lines) + 1)
        /\ \A i \in Lines("poke") : Means(files, cmd.lines[i].val) # {}
        /\ \A i \in DOMAIN Args : ArgMeans(files, Args[i]) # {} /\ argv[i] = The(ArgMeans(files, Args[i]))
    BY <1>3 DEF CommandInv, PreparedInv, NamesInv
  <2>2. cmd \in Commands
    BY <1>3, AtWork DEF Ready
  <2>3. ASSUME NEW i \in Lines("poke"), LastPoke(i), ~Patched(TargetAt(i))
        PROVE  Value(TargetAt(i)) \in Means(files, cmd.lines[i].val)
    <3>1. Poked(i)
      BY <2>1, <2>3 DEF PatchedUpTo, Patched
    <3> QED  BY <2>1, <3>1, TheIn DEF Poked
  <2>4. ASSUME NEW i \in DOMAIN Args, Args[i].form = "name"
        PROVE  argv[i] = FirstLoad(Args[i].of)
    <3>1. PICK x : x = Args[i].of
      OBVIOUS
    <3>2. ArgMeans(files, Args[i]) = {files[k].addr : k \in {j \in Named(files, x) : j = First(Named(files, x))}}
      BY <2>4, <3>1 DEF ArgMeans, Means
    <3>3. argv[i] \in ArgMeans(files, Args[i])
      BY <2>1, TheIn
    <3>4. Named(files, x) # {} /\ argv[i] = files[First(Named(files, x))].addr
      BY <3>2, <3>3
    <3> QED  BY <2>1, <2>2, <3>1, <3>4, NameMeans DEF CommandInv
  <2> QED  BY <2>3, <2>4
<1> QED  BY <1>1, <1>2, <1>3 DEF GuestReady, PreparedAtCall

-----------------------------------------------------------------------------
(* The whole guest. *)
LEMMA InitImage == Init => CommandInv
BY InitCommand DEF Init

LEMMA ImageStep == CommandInv /\ [Next]_win32Vars => CommandInv'
<1> SUFFICES ASSUME CommandInv, [Next]_win32Vars PROVE CommandInv'
  OBVIOUS
<1>1. CommandNext \/ UNCHANGED commandVars
  BY DEF Next, win32Vars
<1> QED  BY <1>1, CommandKeeps, CommandStays

\* An image that has been loaded is what its linker meant, wherever it is mapped: its imports call
\* their shims or their own stubs, what is relocated points where it did (LoadedAsLinked).
THEOREM ImagesLoadAsLinked == Spec => []LoadedAsLinked
<1>1. CommandInv => LoadedAsLinked
  BY LoadedIsLinked DEF CommandInv
<1> QED  BY <1>1, InitImage, ImageStep, PTL DEF Spec

\* Guest code runs in a loaded image, under the TEB it was promised, with what the line prepared
\* (GuestReady), for every command line.
THEOREM GuestsAreReady == Spec => []GuestReady
<1>1. CommandInv => GuestReady
  BY CommandReady
<1> QED  BY <1>1, InitImage, ImageStep, PTL DEF Spec

\* The types of all shims, the loader and the commands (TypeOK).
THEOREM GuestIsTyped == Spec => []TypeOK
<1> DEFINE Inv == ShimInv /\ SlotsInv /\ MemoryInv /\ CommandInv
<1>1. Init => Inv
  BY InitShims, InitSlots, InitMemory, InitImage
<1>2. Inv /\ [Next]_win32Vars => Inv'
  BY ShimStep, SlotsStep, MemoryStep, ImageStep
<1>3. Inv => TypeOK
  <2> SUFFICES ASSUME ShimInv, SlotsInv, MemoryInv, CommandInv PROVE TypeOK
    OBVIOUS
  <2>1. SlotsTypeOK /\ MemoryTypeOK /\ CommandTypeOK
    BY SlotsTyped, CommandTyped DEF MemoryInv
  <2>2. FilesTypeOK
    <3>1. PICK T : T = 0..MaxSize
      OBVIOUS
    <3>2. PICK s \in Seq(T) : s = size
      BY <3>1 DEF ShimInv, FilesInv, FilesShape
    <3>3. \A n \in 1..Len(s) : s[n] \in T
      BY ElementOfSeq
    <3> QED  BY <3>1, <3>2, <3>3 DEF ShimInv, FilesInv, FilesShape, FilesTypeOK
  <2>3. /\ DOMAIN object \subseteq Addresses /\ \A h \in DOMAIN object : object[h] \in Kinds
        /\ DOMAIN signals = {h \in DOMAIN object : object[h].kind = "event"}
    <3>1. CASE focus = "sync"
      BY <3>1, KindsMeet DEF ShimInv, SyncInv, History
    <3>2. CASE focus = "files"
      <4>1. /\ DOMAIN object \subseteq Addresses /\ \A h \in DOMAIN object : object[h] \in FileKinds
        BY <3>2 DEF ShimInv, FilesInv, Owned
      <4>2. \A h \in DOMAIN object : object[h].kind # "event"
        BY <4>1 DEF FileKinds
      <4> QED  BY <3>2, <4>1, <4>2, KindsMeet DEF ShimInv, SyncInv
    <3>3. CASE focus \notin {"sync", "files"}
      BY <3>3 DEF ShimInv, SyncInv, Idle
    <3> QED  BY <3>1, <3>2, <3>3
  <2>4. /\ DOMAIN wakes = DOMAIN signals
        /\ \A h \in DOMAIN signals : signals[h] \in 0..MaxSignals /\ wakes[h] \in 0..MaxSignals
    BY DEF ShimInv, SyncInv, History
  <2>5. SyncTypeOK
    BY <2>3, <2>4 DEF ShimInv, SyncInv, SyncTypeOK
  <2>6. DOMAIN desc \subseteq Fds
    BY HandlesAssumption DEF ShimInv, FilesInv, Owned, Std
  <2> QED  BY <2>1, <2>2, <2>3, <2>5, <2>6 DEF TypeOK
<1> QED  BY <1>1, <1>2, <1>3, PTL DEF Spec
=============================================================================
