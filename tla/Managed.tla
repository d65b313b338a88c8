------------------------------- MODULE Managed -------------------------------
(***************************************************************************)
(* managed.go and Handle.StartManaged: renewal goroutines of handles that  *)
(* share a client's renewal slots, next to the application's own use of    *)
(* the same handles.  The deadlines and the backend of a handle are those  *)
(* of module Handle; here the deadline passes at any moment (Lapse) and a  *)
(* remote call ends in success, in ErrStaleOwner or in another error.      *)
(*                                                                         *)
(* ManagedSpec is an application that acquires handles, starts and stops   *)
(* their renewal, and meanwhile renews, validates and releases them        *)
(* itself; modules Guard and ServiceManager use the same steps.            *)
(***************************************************************************)
EXTENDS Naturals, FiniteSets

CONSTANTS
  Handles,      \* Handle objects of one client
  Renewers,     \* Managed objects, each started at most once
  MaxManaged    \* capacity of the client's renewal slots

ASSUME ManagedConstants == MaxManaged \in Nat

VARIABLES
  state, busy,  \* handle.state ("none" before acquisition) and handle.busy
  inflight,     \* [Handles -> SUBSET Op]: remote calls that have not returned
  managed,      \* handle.managed
  slots,        \* len(client.managed)
  renewer,      \* where the goroutine of a Managed is
  target,       \* the handle it renews
  cancelled,    \* its context is done
  loss          \* what it put into its loss channel: the State field

managedVars == <<managed, slots, renewer, target, loss>>
handleVars == <<state, busy, inflight>>
clientVars == <<handleVars, managedVars, cancelled>>

NoHandle == "no handle"
State == {"none", "active", "expired", "lost", "uncertain", "released"}
Op == {"renew", "application", "release", "cleanup"}
Outcome == {"nil", "ErrStaleOwner", "error"}

\* From StartManaged to the deferred release of the slot.
Live == {"sleeping", "renew", "renewing", "failed", "exiting"}

TypeOK ==
  /\ state \in [Handles -> State] /\ busy \in [Handles -> BOOLEAN]
  /\ inflight \in [Handles -> SUBSET Op]
  /\ managed \in [Handles -> BOOLEAN] /\ slots \in 0..MaxManaged
  /\ renewer \in [Renewers -> Live \cup {"none", "closing", "closed", "done"}]
  /\ target \in [Renewers -> Handles \cup {NoHandle}]
  /\ cancelled \in [Renewers -> BOOLEAN]
  /\ loss \in [Renewers -> State]

ManagedInit ==
  /\ state = [h \in Handles |-> "none"] /\ busy = [h \in Handles |-> FALSE]
  /\ inflight = [h \in Handles |-> {}]
  /\ managed = [h \in Handles |-> FALSE] /\ slots = 0
  /\ renewer = [r \in Renewers |-> "none"]
  /\ target = [r \in Renewers |-> NoHandle]
  /\ cancelled = [r \in Renewers |-> FALSE]
  /\ loss = [r \in Renewers |-> "none"]

-------------------------------------------------------------------------------
(* The handle *)

failLocked(st, out) ==
  IF st # "active" THEN st ELSE IF out = "ErrStaleOwner" THEN "lost" ELSE "uncertain"

\* The safety deadline has passed and an operation or State has noticed.
Lapse(h) ==
  /\ state[h] = "active"
  /\ state' = [state EXCEPT ![h] = "expired"]
  /\ UNCHANGED <<busy, inflight, managedVars, cancelled>>

\* Mutant: operations may overlap.
beginOverlapping(h, o) ==
  /\ state[h] = "active"
  /\ busy' = [busy EXCEPT ![h] = TRUE]
  /\ inflight' = [inflight EXCEPT ![h] = @ \cup {o}]
  /\ UNCHANGED state

\* requireActiveLocked and the busy check, then the reservation.
beginActiveOperation(h, o) ==
  /\ state[h] = "active" /\ ~busy[h]
  /\ busy' = [busy EXCEPT ![h] = TRUE]
  /\ inflight' = [inflight EXCEPT ![h] = @ \cup {o}]
  /\ UNCHANGED state

finishActiveOperation(h, o, out) ==
  /\ o \in inflight[h]
  /\ busy' = [busy EXCEPT ![h] = FALSE]
  /\ inflight' = [inflight EXCEPT ![h] = @ \ {o}]
  /\ state' = [state EXCEPT ![h] = IF out = "nil" THEN @ ELSE failLocked(@, out)]

\* Release up to the backend call, by the application or by a cleanup; an
\* expired handle may still release.
CanRelease(h) == state[h] \in {"active", "expired"} /\ ~busy[h]

BeginRelease(h, o) ==
  /\ CanRelease(h)
  /\ busy' = [busy EXCEPT ![h] = TRUE]
  /\ inflight' = [inflight EXCEPT ![h] = @ \cup {o}]
  /\ UNCHANGED state

FinishRelease(h, o, out) ==
  /\ o \in inflight[h]
  /\ busy' = [busy EXCEPT ![h] = FALSE]
  /\ inflight' = [inflight EXCEPT ![h] = @ \ {o}]
  /\ state' = [state EXCEPT ![h] = IF out = "nil" THEN "released" ELSE failLocked(@, out)]

-------------------------------------------------------------------------------
(* The renewal goroutine *)

CanStart(h) == state[h] = "active" /\ ~managed[h] /\ ~busy[h] /\ slots < MaxManaged

\* StartManaged under a context that is already done or not.
StartManaged(r, h, ctxDone) ==
  /\ renewer[r] = "none" /\ CanStart(h)
  /\ slots' = slots + 1
  /\ managed' = [managed EXCEPT ![h] = TRUE]
  /\ renewer' = [renewer EXCEPT ![r] = "sleeping"]
  /\ target' = [target EXCEPT ![r] = h]
  /\ cancelled' = [cancelled EXCEPT ![r] = ctxDone]
  /\ UNCHANGED <<handleVars, loss>>

Goto(r, pc) == renewer' = [renewer EXCEPT ![r] = pc]

\* Sleep returns nil: the timer fired, perhaps together with the cancellation.
Wake(r) ==
  /\ renewer[r] = "sleeping" /\ Goto(r, "renew")
  /\ UNCHANGED <<handleVars, managed, slots, target, cancelled, loss>>

\* Sleep returns an error: its context is done, or an injected Sleeper failed.
SleepFails(r) ==
  /\ renewer[r] = "sleeping" /\ Goto(r, "exiting")
  /\ UNCHANGED <<handleVars, managed, slots, target, cancelled, loss>>

\* Mutant: a refused renewal is tried again later.
RenewRetried(r) ==
  /\ renewer[r] = "renew" /\ ~(state[target[r]] = "active" /\ ~busy[target[r]])
  /\ Goto(r, "sleeping")
  /\ UNCHANGED <<handleVars, managed, slots, target, cancelled, loss>>

RenewRefused(r) ==
  /\ renewer[r] = "renew" /\ ~(state[target[r]] = "active" /\ ~busy[target[r]])
  /\ Goto(r, "failed")
  /\ UNCHANGED <<handleVars, managed, slots, target, cancelled, loss>>

RenewSent(r) ==
  /\ renewer[r] = "renew" /\ beginActiveOperation(target[r], "renew")
  /\ Goto(r, "renewing")
  /\ UNCHANGED <<managed, slots, target, cancelled, loss>>

\* A success after the deadline is ErrLost: the goroutine ends.
RenewReturns(r, out) ==
  /\ renewer[r] = "renewing"
  /\ finishActiveOperation(target[r], "renew", out)
  /\ Goto(r, IF out = "nil" /\ state[target[r]] = "active" THEN "sleeping" ELSE "failed")
  /\ UNCHANGED <<managed, slots, target, cancelled, loss>>

ReportLoss(r) ==
  /\ renewer[r] = "failed" /\ Goto(r, "exiting")
  /\ loss' = [loss EXCEPT ![r] = state[target[r]]]
  /\ UNCHANGED <<handleVars, managed, slots, target, cancelled>>

\* Mutant: the slot is kept.
ExitKeepingSlot(r) ==
  /\ renewer[r] = "exiting" /\ Goto(r, "closing")
  /\ managed' = [managed EXCEPT ![target[r]] = FALSE]
  /\ UNCHANGED <<handleVars, slots, target, cancelled, loss>>

\* The deferred function: the slot under the handle's mutex, then the channels.
Exit(r) ==
  /\ renewer[r] = "exiting" /\ Goto(r, "closing")
  /\ managed' = [managed EXCEPT ![target[r]] = FALSE]
  /\ slots' = slots - 1
  /\ UNCHANGED <<handleVars, target, cancelled, loss>>

\* Mutant: done is never closed.
CloseLossOnly(r) ==
  /\ renewer[r] = "closing" /\ Goto(r, "closed")
  /\ UNCHANGED <<handleVars, managed, slots, target, cancelled, loss>>

Close(r) ==
  /\ \/ renewer[r] = "closing" /\ Goto(r, "closed")
     \/ renewer[r] = "closed" /\ Goto(r, "done")
  /\ UNCHANGED <<handleVars, managed, slots, target, cancelled, loss>>

run(r) ==
  \/ Wake(r) \/ SleepFails(r) \/ RenewRefused(r) \/ RenewSent(r)
  \/ \E out \in Outcome : RenewReturns(r, out)
  \/ ReportLoss(r) \/ Exit(r) \/ Close(r)

\* Loss() delivers a value or reports that the channel is closed; Stop joins.
LossClosed(r) == renewer[r] \in {"closed", "done"}
Joined(r) == renewer[r] = "done"

\* The Go scheduler runs the goroutine, timers fire and the operation timeout
\* ends every backend call.  A Sleep whose context is done returns an error
\* unless its timer fires in the same instant, which cannot go on forever:
\* select picks among ready cases at random.
RenewerFairness(r) ==
  /\ WF_clientVars(run(r))
  /\ SF_clientVars(cancelled[r] /\ SleepFails(r))

-------------------------------------------------------------------------------
(* An application *)

\* A handle begins active.
newHandleAt(h) ==
  /\ state[h] = "none"
  /\ state' = [state EXCEPT ![h] = "active"]
  /\ UNCHANGED <<busy, inflight, managedVars, cancelled>>

\* The application's own Renew or Validate.
Operate(h) ==
  /\ \/ beginActiveOperation(h, "application")
     \/ \E out \in Outcome : finishActiveOperation(h, "application", out)
  /\ UNCHANGED <<managedVars, cancelled>>

Release(h) ==
  /\ BeginRelease(h, "release") \/ \E out \in Outcome : FinishRelease(h, "release", out)
  /\ UNCHANGED <<managedVars, cancelled>>

\* Managed.Stop, or the context given to StartManaged is done.
StopManaged(r) ==
  /\ renewer[r] # "none" /\ ~cancelled[r]
  /\ cancelled' = [cancelled EXCEPT ![r] = TRUE]
  /\ UNCHANGED <<handleVars, managedVars>>

ManagedNext ==
  \/ \E h \in Handles :
       \/ newHandleAt(h) \/ Lapse(h) \/ Operate(h) \/ Release(h)
       \/ \E r \in Renewers : StartManaged(r, h, FALSE)
  \/ \E r \in Renewers : StopManaged(r) \/ run(r)

ManagedSpec == ManagedInit /\ [][ManagedNext]_clientVars

ManagedFairSpec == ManagedSpec /\ \A r \in Renewers : RenewerFairness(r)

-------------------------------------------------------------------------------
(* Properties *)

\* Each handle has at most one remote call at a time, and busy says so: the
\* renewer's call, the application's and a release never overlap.
OneOperation ==
  \A h \in Handles : Cardinality(inflight[h]) <= 1 /\ (busy[h] <=> inflight[h] # {})

\* The renewers' state is well typed, and so no more slots are taken than there
\* are.  A slot is taken exactly while a goroutine renews, a handle has at most
\* one such goroutine, and handle.managed says whether it has.
SlotsConserved ==
  /\ TypeOK
  /\ slots = Cardinality({r \in Renewers : renewer[r] \in Live})
  /\ \A h \in Handles :
       /\ Cardinality({r \in Renewers : renewer[r] \in Live /\ target[r] = h}) <= 1
       /\ managed[h] <=> \E r \in Renewers : renewer[r] \in Live /\ target[r] = h

\* Managed.Stop can be joined: a cancelled goroutine closes its channels and
\* gives its slot back, even when a renewal is in flight or keeps succeeding.
StopJoins == \A r \in Renewers : cancelled[r] ~> Joined(r)

\* A handle that is no longer active does not keep its renewer, nor its slot:
\* the next renewal fails and the goroutine ends.
EndedHandleStopsRenewer ==
  \A h \in Handles : state[h] \notin {"none", "active"} ~> ~managed[h]

\* A Loss "describes why managed renewal stopped admitting ownership-dependent
\* work": the State it reports is not the active one, which admits work.
LossIsFailClosed == \A r \in Renewers : loss[r] # "active"

\* The inductive invariant behind OneOperation and SlotsConserved: a renewer has
\* a handle from its start on, and no two that are live have the same one; who
\* has a renewal in flight is a renewer that waits for it.
liveRenewers == {r \in Renewers : renewer[r] \in Live}

RenewersFit ==
  /\ IsFiniteSet(liveRenewers) /\ slots = Cardinality(liveRenewers)
  /\ \A r \in Renewers : renewer[r] # "none" => target[r] \in Handles
  /\ \A r, s \in liveRenewers : target[r] = target[s] => r = s
  /\ \A h \in Handles : managed[h] <=> \E r \in liveRenewers : target[r] = h

CallsFit ==
  \A h \in Handles :
    /\ busy[h] <=> inflight[h] # {}
    /\ \A o, p \in inflight[h] : o = p
    /\ "renew" \in inflight[h] => \E r \in Renewers : renewer[r] = "renewing" /\ target[r] = h

RenewalInv == TypeOK /\ RenewersFit /\ CallsFit
===============================================================================
