----------------------------- MODULE GuestSync -----------------------------
(***************************************************************************)
(* Events, mutexes and critical sections, as the one thread of the guest   *)
(* sees them. Nothing else can signal while it waits, so a wait without a  *)
(* limit for what is not signaled parks the guest for good.                *)
(***************************************************************************)
EXTENDS Handles

CONSTANTS
  Sections,    \* critical sections in guest memory
  MaxSignals   \* bound: signals counted per event, entries per section

ASSUME SyncAssumption == MaxSignals \in Nat \ {0}

VARIABLES
  parked,    \* does the guest wait for what cannot come, or has it been ended?
  section,   \* the initialised critical sections: how often each is entered
  signals,   \* history, per live event: how often it was made signaled
  wakes      \* history, per live event: the waits it has ended

syncVars == <<parked, section, signals, wakes>>

SyncInit ==
  /\ parked = FALSE
  /\ section = <<>>
  /\ signals = <<>>
  /\ wakes = <<>>

-----------------------------------------------------------------------------
(* CreateEventA, CreateEventW, and host_event for the harness. *)
CreateEvent(manual, signaled) == \E h \in Addresses :
  /\ Allocated([kind |-> "event", manual |-> manual, signaled |-> signaled], h)
  /\ signals' = With(signals, h, IF signaled THEN 1 ELSE 0)
  /\ wakes' = With(wakes, h, 0)
  /\ UNCHANGED <<desc, error, parked, section>>

\* What SetEvent, ResetEvent and a wait do to an event.
Signaled(h, b) == object' = [object EXCEPT ![h].signaled = b]
Signal(h) == IF Is(h, "event")
             THEN /\ signals[h] < MaxSignals
                  /\ Signaled(h, TRUE)
                  /\ signals' = [signals EXCEPT ![h] = @ + 1]
             ELSE UNCHANGED <<object, signals>>

SetEvent(h) == Signal(h) /\ UNCHANGED <<desc, error, parked, section, wakes>>

ResetEvent(h) ==
  /\ Is(h, "event")
  /\ Signaled(h, FALSE)
  /\ UNCHANGED <<desc, error, syncVars>>

(***************************************************************************)
(* WaitForSingleObject on the objects as `obj` has them: a signaled event  *)
(* ends the wait, and is consumed unless it resets by hand; a mutex is     *)
(* taken, also by the thread that has it already; anything else ends the   *)
(* wait at once.                                                           *)
(***************************************************************************)
Holds(o) == \/ o.kind = "event" /\ ~o.signaled
            \/ o.kind = "mutex" /\ o.locked
\* A mutant of Woken: the signal is not consumed.
WokenTwice(o) == CASE o.kind = "mutex" -> [o EXCEPT !.locked = TRUE]
                   [] OTHER -> o
Woken(o) == CASE o.kind = "event" -> [o EXCEPT !.signaled = o.manual]
              [] o.kind = "mutex" -> [o EXCEPT !.locked = TRUE]
              [] OTHER -> o

Waits(obj, h, forever) ==
  IF h \notin DOMAIN obj THEN object' = obj /\ UNCHANGED <<parked, wakes>>
  ELSE IF Holds(obj[h]) THEN /\ object' = obj
                             /\ parked' = forever
                             /\ UNCHANGED wakes
  ELSE /\ object' = [obj EXCEPT ![h] = Woken(@)]
       /\ wakes' = IF h \in DOMAIN wakes THEN [wakes EXCEPT ![h] = @ + 1] ELSE wakes
       /\ UNCHANGED parked

WaitForSingleObject(h, forever) ==
  /\ h \in DOMAIN wakes => wakes[h] < MaxSignals
  /\ Waits(object, h, forever)
  /\ UNCHANGED <<desc, error, section, signals>>

SignalObjectAndWait(s, h, forever) ==
  LET set == IF Is(s, "event") THEN [object EXCEPT ![s].signaled = TRUE] ELSE object
  IN /\ Is(s, "event") => signals[s] < MaxSignals
     /\ h \in DOMAIN wakes => wakes[h] < MaxSignals
     /\ Waits(set, h, forever)
     /\ signals' = IF Is(s, "event") THEN [signals EXCEPT ![s] = @ + 1] ELSE signals
     /\ UNCHANGED <<desc, error, section>>

\* CreateMutexA, CreateMutexW.
CreateMutex(owner) == \E h \in Addresses :
  /\ Allocated([kind |-> "mutex", locked |-> owner], h)
  /\ UNCHANGED <<desc, error, syncVars>>

ReleaseMutex(h) ==
  /\ Is(h, "mutex") /\ object[h].locked
  /\ object' = [object EXCEPT ![h].locked = FALSE]
  /\ UNCHANGED <<desc, error, syncVars>>

\* An event that is closed takes its history along.
Close(h) ==
  /\ CloseHandle(h)
  /\ signals' = Cut(signals, {h})
  /\ wakes' = Cut(wakes, {h})
  /\ UNCHANGED <<parked, section>>

-----------------------------------------------------------------------------
(***************************************************************************)
(* Critical sections: a recursive mutex of the host, whose address is put  *)
(* into the guest's block. InitializeCriticalSectionEx and ...AndSpinCount *)
(* do the same; a section that is initialised again starts over.           *)
(***************************************************************************)
InitializeCriticalSection(s) ==
  section' = With(section, s, 0) /\ UNCHANGED <<handleVars, parked, signals, wakes>>

EnterCriticalSection(s) ==
  /\ s \in DOMAIN section /\ section[s] < MaxSignals
  /\ section' = [section EXCEPT ![s] = @ + 1]
  /\ UNCHANGED <<handleVars, parked, signals, wakes>>

\* pthread_mutex_unlock of a mutex that is not held is refused.
LeaveCriticalSection(s) ==
  /\ s \in DOMAIN section /\ section[s] > 0
  /\ section' = [section EXCEPT ![s] = @ - 1]
  /\ UNCHANGED <<handleVars, parked, signals, wakes>>

\* The mutex is destroyed, and the guest's own block freed as if the host had allocated it: the
\* allocator ends the process, or takes the block and lets it go on.
DeleteCriticalSection(s) ==
  /\ s \in DOMAIN section
  /\ section' = Cut(section, {s})
  /\ parked' \in BOOLEAN
  /\ UNCHANGED <<handleVars, signals, wakes>>

\* The guest's one thread: parked, it does nothing more.
SyncNext ==
  /\ ~parked
  /\ \/ \E m, s \in BOOLEAN : CreateEvent(m, s)
     \/ \E b \in BOOLEAN : CreateMutex(b)
     \/ \E h \in Handles : SetEvent(h) \/ ResetEvent(h) \/ ReleaseMutex(h) \/ Close(h)
     \/ \E h \in Handles, f \in BOOLEAN : WaitForSingleObject(h, f)
     \/ \E s, h \in Handles, f \in BOOLEAN : SignalObjectAndWait(s, h, f)
     \/ \E s \in Sections : \/ InitializeCriticalSection(s) \/ EnterCriticalSection(s)
                            \/ LeaveCriticalSection(s) \/ DeleteCriticalSection(s)

-----------------------------------------------------------------------------
SyncTypeOK ==
  /\ parked \in BOOLEAN
  /\ DOMAIN section \subseteq Sections
  /\ \A s \in DOMAIN section : section[s] \in 0..MaxSignals
  /\ DOMAIN signals = {h \in DOMAIN object : object[h].kind = "event"}
  /\ DOMAIN wakes = DOMAIN signals
  /\ \A h \in DOMAIN signals : signals[h] \in 0..MaxSignals /\ wakes[h] \in 0..MaxSignals

(***************************************************************************)
(* A signal of an event that resets itself ends one wait at most, however  *)
(* SetEvent, ResetEvent, SignalObjectAndWait, time-outs and the reuse of   *)
(* the handle are mixed, and one that is still there has not been used.    *)
(***************************************************************************)
OneWakePerSignal ==
  \A h \in DOMAIN signals : ~object[h].manual =>
    wakes[h] + (IF object[h].signaled THEN 1 ELSE 0) <= signals[h]
=============================================================================
