------------------------------ MODULE Observation ------------------------------
(***************************************************************************)
(* observation.go: ObservedBackend offers the event of every finished      *)
(* backend call to its observers, before the call returns.  Each observer  *)
(* has a slot, a channel that holds one token: the event goes to a new     *)
(* goroutine if the slot is free and is dropped if it is not.  A callback  *)
(* may take for ever, panic, or call the observed backend itself.          *)
(***************************************************************************)
EXTENDS Naturals

CONSTANTS
  Client,       \* callers of the backend other than its observers
  Observers     \* how many observers are registered

\* What NewObservedBackend accepts.
ASSUME ObservationConstants == Observers \in 1..16

Slot == 1..Observers
Caller == Client \cup Slot     \* a callback calls under its slot's number

VARIABLES
  emitting,     \* the slot a caller offers its event to next; 0 outside emit
  active,       \* len(slot.active) = 1
  observing,    \* how many callbacks of a slot's observer are running
  finished      \* how many of a slot's goroutines are past their callback

observationVars == <<emitting, active, observing, finished>>

ObservationTypeOK ==
  /\ emitting \in [Caller -> 0..Observers]
  /\ active \in [Slot -> BOOLEAN]
  /\ observing \in [Slot -> Nat] /\ finished \in [Slot -> Nat]

ObservationInit ==
  /\ emitting = [c \in Caller |-> 0]
  /\ active = [s \in Slot |-> FALSE]
  /\ observing = [s \in Slot |-> 0] /\ finished = [s \in Slot |-> 0]

\* A caller that is between two calls; a callback while it runs.
MayCall(c) == emitting[c] = 0 /\ (c \in Slot => observing[c] > 0)

\* TryAcquire, Renew, Validate and Release: the backend has answered c.
Observe(c) ==
  /\ MayCall(c)
  /\ emitting' = [emitting EXCEPT ![c] = 1]
  /\ UNCHANGED <<active, observing, finished>>

nextSlot(s) == IF s = Observers THEN 0 ELSE s + 1

\* Mutant: the event waits for a free slot.
emitBlocking(c) ==
  LET s == emitting[c]
  IN  /\ s # 0 /\ ~active[s]
      /\ active' = [active EXCEPT ![s] = TRUE]
      /\ observing' = [observing EXCEPT ![s] = @ + 1]
      /\ emitting' = [emitting EXCEPT ![c] = nextSlot(s)]
      /\ UNCHANGED finished

\* One turn of emit's loop; after the last slot the call returns.
emit(c) ==
  LET s == emitting[c]
  IN  /\ s # 0
      /\ \/ /\ ~active[s]
            /\ active' = [active EXCEPT ![s] = TRUE]
            /\ observing' = [observing EXCEPT ![s] = @ + 1]
         \/ active[s] /\ UNCHANGED <<active, observing>>
      /\ emitting' = [emitting EXCEPT ![c] = nextSlot(s)]
      /\ UNCHANGED finished

\* Mutant: the slot is given back before the callback has returned.
callObserverFreed(s) ==
  /\ active[s] /\ observing[s] > 0
  /\ active' = [active EXCEPT ![s] = FALSE]
  /\ UNCHANGED <<emitting, observing, finished>>

\* callObserver: Observe returns, or panics and is recovered.
callObserver(s) ==
  /\ observing[s] > 0 /\ emitting[s] = 0
  /\ observing' = [observing EXCEPT ![s] = @ - 1]
  /\ finished' = [finished EXCEPT ![s] = @ + 1]
  /\ UNCHANGED <<emitting, active>>

\* The goroutine's deferred receive frees its slot.
freeSlot(s) ==
  /\ finished[s] > 0 /\ active[s]
  /\ finished' = [finished EXCEPT ![s] = @ - 1]
  /\ active' = [active EXCEPT ![s] = FALSE]
  /\ UNCHANGED <<emitting, observing>>

-------------------------------------------------------------------------------
\* "Each registration permits one in-flight callback": a slot is taken exactly
\* while one goroutine of its observer exists, so callbacks of one observer do
\* not run at the same time, and none is lost to a callback that panicked.
OneCallbackPerSlot ==
  \A s \in Slot : observing[s] + finished[s] = IF active[s] THEN 1 ELSE 0

\* "Observations are best effort and never delay lease transitions": a call
\* returns although observers block for ever, and so does a call that a
\* callback makes while its own slot is taken.
CallsReturn == \A c \in Caller : emitting[c] # 0 ~> emitting[c] = 0
===============================================================================
