-------------------------------- MODULE Guard --------------------------------
(***************************************************************************)
(* internal/guard.Run, the path of the queue worker and of the scheduler:  *)
(* acquire, renew in the background, call the callback, stop the renewal,  *)
(* release.  Three goroutines per run: Run itself, the renewer of module   *)
(* Managed, and the watcher that turns a loss into a cancelled context.    *)
(* Run h uses handle h, and renewer h when its policy enables renewal.     *)
(***************************************************************************)
EXTENDS Managed

CONSTANT Renewed        \* the runs whose policy has RenewEvery > 0

ASSUME GuardConstants == Renewers = Handles /\ Renewed \subseteq Handles

VARIABLES
  pc,           \* where Run is
  ctxDone,      \* the caller's context is done
  runDone,      \* runContext is done: the callback can see it
  watcher,      \* the goroutine that waits on Loss()
  losses,       \* the buffered channel it fills: "empty", "full" or taken
  errs,         \* what Run joins into its result
  releaseSent,  \* the backend has been asked to release
  healthy       \* the handle was active, with no loss, when the callback returned

guardVars == <<pc, ctxDone, runDone, watcher, losses, errs, releaseSent, healthy>>
vars == <<handleVars, managedVars, cancelled, guardVars>>

GuardTypeOK ==
  /\ TypeOK
  /\ pc \in [Handles -> {"acquire", "start", "callback", "stop", "losses", "release",
                         "releasing", "done", "panicked"}]
  /\ ctxDone \in [Handles -> BOOLEAN] /\ runDone \in [Handles -> BOOLEAN]
  /\ watcher \in [Handles -> {"none", "waiting", "took", "done"}]
  /\ losses \in [Handles -> {"empty", "full"}]
  /\ errs \in [Handles -> SUBSET {"input", "acquire", "start", "callback", "ErrLost", "release"}]
  /\ releaseSent \in [Handles -> BOOLEAN] /\ healthy \in [Handles -> BOOLEAN]

Init ==
  /\ ManagedInit
  /\ pc = [h \in Handles |-> "acquire"]
  /\ ctxDone = [h \in Handles |-> FALSE] /\ runDone = [h \in Handles |-> FALSE]
  /\ watcher = [h \in Handles |-> "none"] /\ losses = [h \in Handles |-> "empty"]
  /\ errs = [h \in Handles |-> {}]
  /\ releaseSent = [h \in Handles |-> FALSE] /\ healthy = [h \in Handles |-> FALSE]

Step(h, to, new) ==
  /\ pc' = [pc EXCEPT ![h] = to]
  /\ errs' = [errs EXCEPT ![h] = @ \cup new]

\* cancel(): runContext and the renewer's child of it are done.
cancel(h) ==
  /\ runDone' = [runDone EXCEPT ![h] = TRUE]
  /\ cancelled' = [cancelled EXCEPT ![h] = @ \/ renewer[h] # "none"]

-------------------------------------------------------------------------------
(* Run *)

\* Worker.Run without a key, OnOneServer without a task: Run is not reached.
Refuse(h) ==
  /\ pc[h] = "acquire" /\ Step(h, "done", {"input"})
  /\ UNCHANGED <<handleVars, managedVars, cancelled,
                 ctxDone, runDone, watcher, losses, releaseSent, healthy>>

Acquire(h) ==
  /\ pc[h] = "acquire"
  /\ \/ /\ state' = [state EXCEPT ![h] = "active"]
        /\ Step(h, IF h \in Renewed THEN "start" ELSE "callback", {})
        /\ runDone' = [runDone EXCEPT ![h] = ctxDone[h]]
     \/ Step(h, "done", {"acquire"}) /\ UNCHANGED <<state, runDone>>
  /\ UNCHANGED <<busy, inflight, managedVars, cancelled,
                 ctxDone, watcher, losses, releaseSent, healthy>>

\* StartManaged and the go statement, or its refusal and an early release.
Start(h) ==
  /\ pc[h] = "start"
  /\ \/ /\ StartManaged(h, h, runDone[h])
        /\ watcher' = [watcher EXCEPT ![h] = "waiting"]
        /\ Step(h, "callback", {})
     \/ /\ ~CanStart(h)
        /\ Step(h, "release", {"start"})
        /\ UNCHANGED <<handleVars, managedVars, cancelled, watcher>>
  /\ UNCHANGED <<ctxDone, runDone, losses, releaseSent, healthy>>

\* The callback may return at any time, cancelled or not, with or without error.
CallbackReturns(h) ==
  /\ pc[h] = "callback"
  /\ \E e \in {{}, {"callback"}} :
       Step(h, IF renewer[h] # "none" THEN "stop" ELSE "release", e)
  /\ cancel(h)
  /\ healthy' = [healthy EXCEPT ![h] = state[h] = "active" /\ loss[h] = "none"]
  /\ UNCHANGED <<handleVars, managedVars, ctxDone, watcher, losses, releaseSent>>

\* Mutant: nothing is deferred.
CallbackPanicsThrough(h) ==
  /\ pc[h] = "callback" /\ Step(h, "panicked", {})
  /\ UNCHANGED <<handleVars, managedVars, cancelled,
                 ctxDone, runDone, watcher, losses, releaseSent, healthy>>

\* A panic leaves Run through its deferred cancel; nobody joins the renewer or
\* releases the lease.
CallbackPanics(h) ==
  /\ pc[h] = "callback" /\ Step(h, "panicked", {}) /\ cancel(h)
  /\ UNCHANGED <<handleVars, managedVars, ctxDone, watcher, losses, releaseSent, healthy>>

\* Mutant: the renewer is told to stop and not waited for.
StopWithoutJoin(h) ==
  /\ pc[h] = "stop"
  /\ Step(h, "losses", {})
  /\ UNCHANGED <<handleVars, managedVars, cancelled,
                 ctxDone, runDone, watcher, losses, releaseSent, healthy>>

\* managed.Stop under a context without cancellation returns only when joined.
Stop(h) ==
  /\ pc[h] = "stop" /\ Joined(h)
  /\ Step(h, "losses", {})
  /\ UNCHANGED <<handleVars, managedVars, cancelled,
                 ctxDone, runDone, watcher, losses, releaseSent, healthy>>

\* Mutant: the channel is polled, not received from.
PollLoss(h) ==
  /\ pc[h] = "losses"
  /\ Step(h, "release", IF losses[h] = "full" THEN {"ErrLost"} ELSE {})
  /\ losses' = [losses EXCEPT ![h] = "empty"]
  /\ UNCHANGED <<handleVars, managedVars, cancelled,
                 ctxDone, runDone, watcher, releaseSent, healthy>>

\* lossErr, ok := <-losses
TakeLoss(h) ==
  /\ pc[h] = "losses"
  /\ \/ losses[h] = "full" /\ Step(h, "release", {"ErrLost"})
     \/ losses[h] = "empty" /\ watcher[h] = "done" /\ Step(h, "release", {})
  /\ losses' = [losses EXCEPT ![h] = "empty"]
  /\ UNCHANGED <<handleVars, managedVars, cancelled,
                 ctxDone, runDone, watcher, releaseSent, healthy>>

\* release: a lost, uncertain or busy handle refuses without remote work.  The
\* deferred cancel runs when Run returns.
release(h) ==
  /\ \/ /\ pc[h] = "release" /\ BeginRelease(h, "cleanup")
        /\ Step(h, "releasing", {})
        /\ releaseSent' = [releaseSent EXCEPT ![h] = TRUE]
        /\ UNCHANGED <<runDone, cancelled>>
     \/ /\ pc[h] = "release" /\ ~CanRelease(h)
        /\ Step(h, "done", {"release"}) /\ cancel(h)
        /\ UNCHANGED <<handleVars, releaseSent>>
     \/ /\ pc[h] = "releasing"
        /\ \E out \in Outcome :
             FinishRelease(h, "cleanup", out) /\ Step(h, "done", IF out = "nil" THEN {} ELSE {"release"})
        /\ cancel(h)
        /\ UNCHANGED releaseSent
  /\ UNCHANGED <<managedVars, ctxDone, watcher, losses, healthy>>

-------------------------------------------------------------------------------
(* The watcher, and the world outside *)

\* The loss is received and handed on before the context is cancelled.
WatchTakes(h) ==
  /\ watcher[h] = "waiting" /\ loss[h] # "none"
  /\ watcher' = [watcher EXCEPT ![h] = "took"]
  /\ losses' = [losses EXCEPT ![h] = "full"]
  /\ UNCHANGED <<handleVars, managedVars, cancelled,
                 pc, ctxDone, runDone, errs, releaseSent, healthy>>

\* Mutants: a loss does not cancel; losses is closed only after a loss.
WatchEndsQuietly(h) ==
  /\ \/ watcher[h] = "took"
     \/ watcher[h] = "waiting" /\ loss[h] = "none" /\ LossClosed(h)
  /\ watcher' = [watcher EXCEPT ![h] = "done"]
  /\ UNCHANGED <<handleVars, managedVars, cancelled,
                 pc, ctxDone, runDone, losses, errs, releaseSent, healthy>>
WatchEndsAfterLoss(h) ==
  /\ watcher[h] = "took" /\ cancel(h)
  /\ watcher' = [watcher EXCEPT ![h] = "done"]
  /\ UNCHANGED <<handleVars, managedVars,
                 pc, ctxDone, losses, errs, releaseSent, healthy>>

WatchEnds(h) ==
  /\ \/ watcher[h] = "took" /\ cancel(h)
     \/ /\ watcher[h] = "waiting" /\ loss[h] = "none" /\ LossClosed(h)
        /\ UNCHANGED <<runDone, cancelled>>
  /\ watcher' = [watcher EXCEPT ![h] = "done"]
  /\ UNCHANGED <<handleVars, managedVars,
                 pc, ctxDone, losses, errs, releaseSent, healthy>>

CallerCancels(h) ==
  /\ ~ctxDone[h] /\ pc[h] \notin {"done", "panicked"}
  /\ ctxDone' = [ctxDone EXCEPT ![h] = TRUE]
  /\ cancel(h)
  /\ UNCHANGED <<handleVars, managedVars, pc, watcher, losses, errs, releaseSent, healthy>>

DeadlinePasses(h) == Lapse(h) /\ UNCHANGED guardVars

Renewal(h) == run(h) /\ UNCHANGED guardVars

Run(h) ==
  \/ Refuse(h) \/ Acquire(h) \/ Start(h) \/ CallbackReturns(h) \/ CallbackPanics(h)
  \/ Stop(h) \/ TakeLoss(h) \/ release(h)

Watch(h) == WatchTakes(h) \/ WatchEnds(h)

Next ==
  \E h \in Handles :
    Run(h) \/ Watch(h) \/ Renewal(h) \/ CallerCancels(h) \/ DeadlinePasses(h)

Spec == Init /\ [][Next]_vars

\* Every goroutine is scheduled and every backend call ends; nothing is assumed
\* of the callback, which may never return.
FairSpec ==
  /\ Spec
  /\ \A h \in Handles :
       /\ WF_vars(Run(h) /\ pc[h] # "callback") /\ WF_vars(Watch(h))
       /\ WF_vars(Renewal(h)) /\ SF_vars(cancelled[h] /\ SleepFails(h) /\ UNCHANGED guardVars)

-------------------------------------------------------------------------------
(* Properties *)

\* In well-typed states, Run joins the renewer before it releases, so that a
\* release is never refused, nor a renewal sent, because the other is in flight.
RenewalJoinedBeforeRelease ==
  /\ GuardTypeOK
  /\ \A h \in Handles :
       pc[h] \in {"release", "releasing", "done"} =>
         /\ renewer[h] \in {"none", "done"} /\ inflight[h] \subseteq {"cleanup"}
         /\ pc[h] = "release" => ~busy[h]

\* A loss that the renewer reported is in the result of Run, even when it was
\* reported after the callback had returned.
LossIsReturned ==
  \A h \in Handles :
    pc[h] \in {"release", "releasing", "done"} /\ loss[h] # "none" => "ErrLost" \in errs[h]

\* A renewal that fails while the callback runs cancels the callback's context.
LossCancelsCallback == \A h \in Handles : loss[h] # "none" ~> runDone[h]

\* Once the callback has returned, Run returns: neither the join of the renewer
\* nor the wait for the watcher can hang.
RunReturns ==
  LET ended == {"callback", "done", "panicked"}
  IN  \A h \in Handles : pc[h] \notin ended ~> pc[h] \in ended

\* "Panics are not contained and can skip explicit release", but they leave no
\* goroutine behind that would go on renewing the lease: the renewer ends and
\* gives its slot back, and the watcher ends after it.
PanicEndsRenewal ==
  \A h \in Handles :
    pc[h] = "panicked" ~> renewer[h] \in {"none", "done"} /\ watcher[h] \in {"none", "done"}

\* "explicitly releases after the handler returns": if the handle was active
\* when the callback returned, and the backend has not since refused it, the
\* backend is asked to release it.
ReleasedAfterHandler ==
  \A h \in Handles :
    pc[h] = "done" /\ healthy[h] /\ state[h] # "lost" => releaseSent[h]

\* The inductive invariant behind RenewalJoinedBeforeRelease and LossIsReturned:
\* where Run is says which calls of its handle can be in flight, and a loss is
\* with the renewer, in its channel, with the watcher, in losses or in the result.
CallsOfRun(h) ==
  /\ renewer[h] # "none" => target[h] = h
  /\ pc[h] \in {"acquire", "start"} => renewer[h] = "none"
  /\ pc[h] \in {"losses", "release", "releasing", "done"} => renewer[h] \in {"none", "done"}
  /\ inflight[h] \subseteq IF pc[h] = "releasing" THEN {"cleanup"} ELSE {"renew"}

WayOfLoss(h) ==
  /\ watcher[h] = "none" <=> renewer[h] = "none"
  /\ renewer[h] \in {"none", "sleeping", "renew", "renewing", "failed"} => loss[h] = "none"
  /\ watcher[h] = "took" => loss[h] # "none"
  /\ watcher[h] = "done" => loss[h] # "none" \/ LossClosed(h)
  /\ watcher[h] \in {"took", "done"} /\ loss[h] # "none" =>
       losses[h] = "full" \/ "ErrLost" \in errs[h]
  /\ pc[h] \in {"release", "releasing", "done"} /\ loss[h] # "none" => "ErrLost" \in errs[h]

GuardInv ==
  GuardTypeOK /\ RenewalInv /\ \A h \in Handles : CallsOfRun(h) /\ WayOfLoss(h)
===============================================================================
