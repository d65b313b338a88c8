---------------------------- MODULE ServiceManager ----------------------------
(***************************************************************************)
(* adapters/service.Manager: concurrent Acquire calls, one shared cleanup  *)
(* started by the first Shutdown, any number of Shutdown callers, and the  *)
(* application's own use of the handles it was given.  The call of caller  *)
(* h acquires handle h and starts renewer h (module Managed).              *)
(*                                                                         *)
(* A step is what the code does under one hold of manager.mu, or one call  *)
(* outside it.                                                             *)
(***************************************************************************)
EXTENDS Managed, Sequences

CONSTANTS
  Stoppers,     \* callers of Shutdown
  max           \* the bound on handles

ASSUME ManagerConstants == Renewers = Handles /\ max \in Nat \ {0}

VARIABLES
  active, acquiring, closed, entries,   \* fields of Manager
  gate,         \* which acquisitionsDone channel is the current one
  gatesClosed,  \* the channels that have been closed
  shutdownDone, \* "nil", "open" or "closed"
  shutdownErr,  \* some stop or release of the cleanup failed
  caller,       \* where an Acquire call is
  callerDone,   \* its context is done
  cleanup,      \* where the cleanup goroutine is
  todo, index, awaited, result,         \* its locals
  stopper       \* where a Shutdown call is

managerVars == <<active, acquiring, closed, entries, gate, gatesClosed,
                 shutdownDone, shutdownErr>>
cleanupVars == <<cleanup, todo, index, awaited, result>>
callerVars == <<caller, callerDone>>
vars == <<handleVars, managedVars, cancelled, managerVars, cleanupVars, callerVars, stopper>>

ManagerTypeOK ==
  /\ TypeOK
  /\ active \in 0..max /\ acquiring \in 0..max /\ closed \in BOOLEAN
  /\ entries \in Seq(Handles) /\ todo \in Seq(Handles)
  /\ gate \in Nat /\ gatesClosed \subseteq Nat /\ awaited \in Nat /\ index \in Nat
  /\ shutdownDone \in {"nil", "open", "closed"}
  /\ shutdownErr \in BOOLEAN /\ result \in BOOLEAN
  /\ caller \in [Handles -> {"idle", "acquire", "start", "rollback", "rolling", "undo",
                             "register", "await", "handle", "error"}]
  /\ callerDone \in [Handles -> BOOLEAN]
  /\ cleanup \in {"none", "begun", "waiting", "stop", "release", "releasing", "finish", "done"}
  /\ stopper \in [Stoppers -> {"idle", "waiting", "nil", "failed", "canceled"}]

\* New: the first acquisitionsDone channel is closed already.
Init ==
  /\ ManagedInit
  /\ active = 0 /\ acquiring = 0 /\ closed = FALSE /\ entries = <<>>
  /\ gate = 0 /\ gatesClosed = {0}
  /\ shutdownDone = "nil" /\ shutdownErr = FALSE
  /\ caller = [h \in Handles |-> "idle"] /\ callerDone = [h \in Handles |-> FALSE]
  /\ cleanup = "none" /\ todo = <<>> /\ index = 1 /\ awaited = 0 /\ result = FALSE
  /\ stopper = [s \in Stoppers |-> "idle"]

Caller(h, pc) == caller' = [caller EXCEPT ![h] = pc]

-------------------------------------------------------------------------------
(* Acquire *)

\* Admission under the mutex; a closed or full manager, or a context that is
\* done, refuses.
Acquire(h) ==
  /\ caller[h] = "idle"
  /\ \/ /\ callerDone[h] \/ closed \/ active >= max
        /\ Caller(h, "error")
        /\ UNCHANGED managerVars
     \/ /\ ~callerDone[h] /\ ~closed /\ active < max
        /\ Caller(h, "acquire")
        /\ active' = active + 1
        /\ gate' = IF acquiring = 0 THEN gate + 1 ELSE gate
        /\ acquiring' = acquiring + 1
        /\ UNCHANGED <<closed, entries, gatesClosed, shutdownDone, shutdownErr>>
  /\ UNCHANGED <<handleVars, managedVars, cancelled, callerDone, cleanupVars, stopper>>

\* client.Acquire returns; without renewal the handle is registered at once.
Acquired(h) ==
  /\ caller[h] = "acquire"
  /\ \/ /\ state' = [state EXCEPT ![h] = "active"]
        /\ \/ Caller(h, "start") \/ Caller(h, "register")
     \/ Caller(h, "undo") /\ UNCHANGED state
  /\ UNCHANGED <<busy, inflight, managedVars, cancelled, managerVars, callerDone,
                 cleanupVars, stopper>>

\* handle.StartManaged(context.Background())
Start(h) ==
  /\ caller[h] = "start"
  /\ \/ StartManaged(h, h, FALSE) /\ Caller(h, "register")
     \/ /\ ~CanStart(h) /\ Caller(h, "rollback")
        /\ UNCHANGED <<handleVars, managedVars, cancelled>>
  /\ UNCHANGED <<managerVars, callerDone, cleanupVars, stopper>>

\* The release of a handle that could not be renewed.
Rollback(h) ==
  /\ \/ caller[h] = "rollback" /\ BeginRelease(h, "cleanup") /\ Caller(h, "rolling")
     \/ caller[h] = "rollback" /\ ~CanRelease(h) /\ Caller(h, "undo") /\ UNCHANGED handleVars
     \/ /\ caller[h] = "rolling" /\ Caller(h, "undo")
        /\ \E out \in Outcome : FinishRelease(h, "cleanup", out)
  /\ UNCHANGED <<managedVars, cancelled, managerVars, callerDone, cleanupVars, stopper>>

\* Mutants: the channel is closed by the first to finish; it is never closed.
finishFirstCloses ==
  /\ acquiring' = acquiring - 1
  /\ gatesClosed' = gatesClosed \cup {gate}
  /\ UNCHANGED <<closed, gate, shutdownDone, shutdownErr>>
finishNeverCloses ==
  /\ acquiring' = acquiring - 1
  /\ UNCHANGED <<closed, gate, gatesClosed, shutdownDone, shutdownErr>>

finishAcquisitionLocked ==
  /\ acquiring' = acquiring - 1
  /\ gatesClosed' = IF acquiring = 1 THEN gatesClosed \cup {gate} ELSE gatesClosed
  /\ UNCHANGED <<closed, gate, shutdownDone, shutdownErr>>

\* Mutant: the capacity stays reserved.
releaseWaitOnly(h) ==
  /\ caller[h] = "undo" /\ Caller(h, "error")
  /\ finishAcquisitionLocked
  /\ UNCHANGED <<active, entries, handleVars, managedVars, cancelled, callerDone,
                 cleanupVars, stopper>>

releaseReservation(h) ==
  /\ caller[h] = "undo" /\ Caller(h, "error")
  /\ active' = active - 1
  /\ finishAcquisitionLocked
  /\ UNCHANGED <<entries, handleVars, managedVars, cancelled, callerDone, cleanupVars, stopper>>

\* The handle joins the list whether or not Shutdown has won; only then is it
\* decided who gets it.
Register(h) ==
  /\ caller[h] = "register"
  /\ entries' = Append(entries, h)
  /\ finishAcquisitionLocked
  /\ Caller(h, IF closed THEN "await" ELSE "handle")
  /\ UNCHANGED <<active, handleVars, managedVars, cancelled, callerDone, cleanupVars, stopper>>

AwaitShutdown(h) ==
  /\ caller[h] = "await" /\ (shutdownDone = "closed" \/ callerDone[h])
  /\ Caller(h, "error")
  /\ UNCHANGED <<handleVars, managedVars, cancelled, managerVars, callerDone,
                 cleanupVars, stopper>>

CallerGivesUp(h) ==
  /\ caller[h] \notin {"handle", "error"} /\ ~callerDone[h]
  /\ callerDone' = [callerDone EXCEPT ![h] = TRUE]
  /\ UNCHANGED <<handleVars, managedVars, cancelled, managerVars, caller, cleanupVars, stopper>>

-------------------------------------------------------------------------------
(* Shutdown and its cleanup *)

Shutdown(s) ==
  /\ stopper[s] = "idle"
  /\ IF shutdownDone = "nil"
     THEN closed' = TRUE /\ shutdownDone' = "open" /\ cleanup' = "begun"
     ELSE UNCHANGED <<closed, shutdownDone, cleanup>>
  /\ stopper' = [stopper EXCEPT ![s] = "waiting"]
  /\ UNCHANGED <<active, acquiring, entries, gate, gatesClosed, shutdownErr,
                 todo, index, awaited, result, handleVars, managedVars, cancelled, callerVars>>

\* The result, or the caller's own context.
ShutdownReturns(s) ==
  /\ stopper[s] = "waiting"
  /\ \E r \in {"nil", "failed", "canceled"} :
       /\ r # "canceled" => shutdownDone = "closed" /\ shutdownErr = (r = "failed")
       /\ stopper' = [stopper EXCEPT ![s] = r]
  /\ UNCHANGED <<handleVars, managedVars, cancelled, managerVars, cleanupVars, callerVars>>

\* The channel is read under one hold of the mutex, waited for outside, and the
\* entries are copied under the next.
CleanupBegins ==
  /\ cleanup = "begun" /\ cleanup' = "waiting"
  /\ awaited' = gate
  /\ UNCHANGED <<todo, index, result, handleVars, managedVars, cancelled, managerVars, callerVars,
                 stopper>>

CleanupCopies ==
  /\ cleanup = "waiting" /\ awaited \in gatesClosed
  /\ todo' = entries
  /\ cleanup' = IF entries = <<>> THEN "finish" ELSE "stop"
  /\ UNCHANGED <<index, awaited, result, handleVars, managedVars, cancelled, managerVars, callerVars,
                 stopper>>

\* Mutants: the renewer is cancelled and not joined; joined and not cancelled.
CleanupCancels ==
  LET h == todo[index]
  IN  /\ cleanup = "stop" /\ cleanup' = "release"
      /\ cancelled' = [cancelled EXCEPT ![h] = @ \/ renewer[h] # "none"]
      /\ UNCHANGED <<todo, index, awaited, result, handleVars, managedVars, managerVars,
                     callerVars, stopper>>
CleanupJoins ==
  /\ cleanup = "stop" /\ renewer[todo[index]] \in {"none", "done"}
  /\ cleanup' = "release"
  /\ UNCHANGED <<todo, index, awaited, result, handleVars, managedVars, cancelled,
                 managerVars, callerVars, stopper>>

\* managed.Stop(context.Background()) of the next entry: cancel, then join.
CleanupStops ==
  LET h == todo[index]
  IN  /\ cleanup = "stop"
      /\ IF renewer[h] = "none" \/ Joined(h)
         THEN cleanup' = "release" /\ UNCHANGED cancelled
         ELSE ~cancelled[h] /\ cancelled' = [cancelled EXCEPT ![h] = TRUE] /\ UNCHANGED cleanup
      /\ UNCHANGED <<todo, index, awaited, result, handleVars, managedVars, managerVars,
                     callerVars, stopper>>

\* Mutant: the last release decides the result.
CleanupNextForgets(failed) ==
  /\ result' = failed
  /\ index' = index + 1
  /\ cleanup' = IF index = Len(todo) THEN "finish" ELSE "stop"

CleanupNext(failed) ==
  /\ result' = (result \/ failed)
  /\ index' = index + 1
  /\ cleanup' = IF index = Len(todo) THEN "finish" ELSE "stop"

\* A released handle answers nil; a lost, uncertain or busy one an error.
CleanupReleases ==
  LET h == todo[index]
  IN  /\ \/ /\ cleanup = "release" /\ BeginRelease(h, "cleanup")
            /\ cleanup' = "releasing" /\ UNCHANGED <<index, result>>
         \/ /\ cleanup = "release" /\ ~CanRelease(h)
            /\ CleanupNext(state[h] # "released")
            /\ UNCHANGED handleVars
         \/ /\ cleanup = "releasing"
            /\ \E out \in Outcome :
                 FinishRelease(h, "cleanup", out) /\ CleanupNext(out # "nil")
      /\ UNCHANGED <<todo, awaited, managedVars, cancelled, managerVars, callerVars, stopper>>

CleanupEnds ==
  /\ cleanup = "finish" /\ cleanup' = "done"
  /\ shutdownErr' = result
  /\ entries' = <<>>
  /\ active' = active - Len(todo)
  /\ shutdownDone' = "closed"
  /\ UNCHANGED <<acquiring, closed, gate, gatesClosed, todo, index, awaited, result,
                 handleVars, managedVars, cancelled, callerVars, stopper>>

-------------------------------------------------------------------------------
(* The application and the renewers *)

\* Whoever was given a handle renews, validates and releases it.
Use(h) ==
  /\ caller[h] = "handle"
  /\ \/ beginActiveOperation(h, "application")
     \/ \E out \in Outcome : finishActiveOperation(h, "application", out)
     \/ BeginRelease(h, "release")
     \/ \E out \in Outcome : FinishRelease(h, "release", out)
  /\ UNCHANGED <<managedVars, cancelled, managerVars, cleanupVars, callerVars, stopper>>

DeadlinePasses(h) ==
  Lapse(h) /\ UNCHANGED <<managerVars, cleanupVars, callerVars, stopper>>

Renewal(h) ==
  run(h) /\ UNCHANGED <<managerVars, cleanupVars, callerVars, stopper>>

AcquireStep(h) ==
  \/ Acquire(h) \/ Acquired(h) \/ Start(h) \/ Rollback(h) \/ releaseReservation(h)
  \/ Register(h) \/ AwaitShutdown(h)

CleanupStep ==
  CleanupBegins \/ CleanupCopies \/ CleanupStops \/ CleanupReleases \/ CleanupEnds

Next ==
  \/ \E h \in Handles :
       AcquireStep(h) \/ CallerGivesUp(h) \/ Use(h) \/ DeadlinePasses(h) \/ Renewal(h)
  \/ \E s \in Stoppers : Shutdown(s) \/ ShutdownReturns(s)
  \/ CleanupStep

Spec == Init /\ [][Next]_vars

\* Goroutines that can run do, backend calls end, and a renewer whose context is
\* done leaves its Sleep.  No caller has to start, to give up or to shut down.
FairSpec ==
  /\ Spec
  /\ WF_vars(CleanupStep)
  /\ \A h \in Handles :
       /\ WF_vars(caller[h] # "idle" /\ AcquireStep(h))
       /\ WF_vars(Renewal(h))
       /\ SF_vars(cancelled[h] /\ SleepFails(h)
                  /\ UNCHANGED <<managerVars, cleanupVars, callerVars, stopper>>)

-------------------------------------------------------------------------------
(* Properties *)

\* The manager's state is well typed.  active counts the acquisitions in flight
\* and the entries, exactly, and never passes max; the acquisitionsDone channel
\* in use is open exactly while one is in flight: no reservation leaks, none is
\* returned twice, no channel is closed twice.
AccountingExact ==
  /\ ManagerTypeOK
  /\ active = acquiring + Len(entries) /\ active <= max
  /\ gate \notin gatesClosed <=> acquiring > 0

\* After the cleanup has passed its wait, no acquisition is in flight and none
\* can add an entry behind its back: what it copied is all there is.
CleanupSeesEveryEntry ==
  cleanup \in {"stop", "release", "releasing", "finish"} =>
    acquiring = 0 /\ todo = entries

\* When Shutdown has ended, nothing is counted any more, every renewer has been
\* joined, and every handle the manager has handed out was in the cleanup.
ShutdownLeavesNothing ==
  shutdownDone = "closed" =>
    /\ active = 0
    /\ \A h \in Handles :
         /\ renewer[h] \in {"none", "done"}
         /\ caller[h] = "handle" => \E i \in 1..Len(todo) : todo[i] = h

\* A Shutdown that reports success means that every handle is released, though
\* the application may have been using or releasing it at the same time.
SuccessMeansReleased ==
  \A s \in Stoppers :
    stopper[s] = "nil" => \A i \in 1..Len(todo) : state[todo[i]] = "released"

\* Shutdown ends: acquisitions, renewers and releases are joined in an order
\* that cannot block for ever.
ShutdownEnds == closed ~> shutdownDone = "closed"

\* Every Acquire returns, also one that Shutdown overtakes.
AcquireReturns ==
  \A h \in Handles : caller[h] = "acquire" ~> caller[h] \in {"handle", "error"}

\* The acquisitions in flight, and the handles the manager has to account for:
\* its entries until the cleanup has ended, and what the cleanup copied after.
inFlight ==
  {h \in Handles : caller[h] \in {"acquire", "start", "rollback", "rolling", "undo", "register"}}
kept == IF cleanup = "done" THEN todo ELSE entries

\* The inductive invariant behind the four safety properties: what is counted,
\* how far the shutdown has come, that no handle and no renewer is forgotten,
\* and what the cleanup has done so far.
Counted ==
  /\ IsFiniteSet(inFlight) /\ acquiring = Cardinality(inFlight)
  /\ active = acquiring + Len(entries)
  /\ gate \notin gatesClosed <=> acquiring > 0
  /\ \A g \in gatesClosed : g <= gate

Progress ==
  /\ closed <=> cleanup # "none"
  /\ shutdownDone = CASE cleanup = "none" -> "nil" [] cleanup = "done" -> "closed" [] OTHER -> "open"
  /\ cleanup = "waiting" => awaited = gate
  /\ cleanup \in {"none", "begun", "waiting"} => todo = <<>> /\ index = 1
  /\ cleanup \in {"stop", "release", "releasing"} => index \in 1..Len(todo)
  /\ cleanup \in {"stop", "release", "releasing", "finish"} => acquiring = 0 /\ todo = entries
  /\ cleanup \in {"finish", "done"} => index = Len(todo) + 1
  /\ cleanup = "done" => acquiring = 0 /\ entries = <<>> /\ shutdownErr = result
  /\ \A s \in Stoppers : stopper[s] = "nil" => cleanup = "done" /\ ~shutdownErr

NoneForgotten ==
  /\ \A i \in 1..Len(kept) : caller[kept[i]] \in {"handle", "await", "error"}
  /\ \A h \in Handles :
       caller[h] = "handle" \/ (renewer[h] # "none" /\ caller[h] # "register") =>
         \E i \in 1..Len(kept) : kept[i] = h

CleanedUp ==
  \A i \in 1..Len(todo) :
    /\ i < index \/ (i = index /\ cleanup # "stop") => renewer[todo[i]] \in {"none", "done"}
    /\ i < index /\ ~result => state[todo[i]] = "released"

ManagerInv ==
  ManagerTypeOK /\ RenewalInv /\ Counted /\ Progress /\ NoneForgotten /\ CleanedUp
===============================================================================
