----------------------------- MODULE GuardProofs -----------------------------
(***************************************************************************)
(* GuardInv of module Guard is inductive, for any number of concurrent     *)
(* runs and of renewal slots.  A step of run h, of its watcher, of its     *)
(* renewer or of its caller touches nothing of any other run, so that each *)
(* action is a lemma about h alone.                                        *)
(***************************************************************************)
EXTENDS Guard, ManagedProofs

\* Where Run can be, and what it can return.
Places == {"acquire", "start", "callback", "stop", "losses", "release", "releasing",
           "done", "panicked"}
Errors == {"input", "acquire", "start", "callback", "ErrLost", "release"}

\* The variables of Run, of the watcher and of the caller have their types.
GuardTyped ==
  /\ pc \in [Handles -> Places]
  /\ ctxDone \in [Handles -> BOOLEAN] /\ runDone \in [Handles -> BOOLEAN]
  /\ watcher \in [Handles -> {"none", "waiting", "took", "done"}]
  /\ losses \in [Handles -> {"empty", "full"}]
  /\ errs \in [Handles -> SUBSET Errors]
  /\ releaseSent \in [Handles -> BOOLEAN] /\ healthy \in [Handles -> BOOLEAN]

\* Nothing of run g has changed.
Untouched(g) ==
  /\ pc'[g] = pc[g] /\ renewer'[g] = renewer[g] /\ target'[g] = target[g]
  /\ inflight'[g] = inflight[g] /\ watcher'[g] = watcher[g] /\ loss'[g] = loss[g]
  /\ losses'[g] = losses[g] /\ errs'[g] = errs[g]

\* GuardInv is these parts, before a step and after it.
LEMMA GuardParts ==
  /\ GuardInv => /\ TypeOK /\ GuardTyped /\ RenewalInv
                 /\ \A h \in Handles : CallsOfRun(h) /\ WayOfLoss(h)
  /\ GuardTyped' /\ RenewalInv' /\ (\A h \in Handles : CallsOfRun(h)' /\ WayOfLoss(h)')
       => GuardInv'
<1>1. RenewalInv' => TypeOK'
  BY Zenon DEF RenewalInv
<1> QED BY Zenon, <1>1 DEF GuardInv, GuardTypeOK, GuardTyped, Places, Errors

\* A step of one run.
LEMMA OneRunMoves ==
  ASSUME GuardInv, NEW h \in Handles, RenewalInv', GuardTyped',
         \A g \in Handles \ {h} : Untouched(g),
         CallsOfRun(h)', WayOfLoss(h)'
  PROVE  GuardInv'
<1>1. ASSUME NEW g \in Handles, g # h
      PROVE  CallsOfRun(g)' /\ WayOfLoss(g)'
  <2>1. CallsOfRun(g) /\ WayOfLoss(g)
    BY Zenon, GuardParts
  <2>2. Untouched(g)
    BY Zenon, <1>1
  <2> QED BY Zenon, <2>1, <2>2 DEF CallsOfRun, WayOfLoss, Untouched, LossClosed
<1> QED BY Zenon, <1>1, GuardParts

\* Run goes on and adds to its result.
LEMMA StepFacts ==
  ASSUME GuardTyped, NEW h \in Handles,
         NEW to \in Places,
         NEW new \in SUBSET Errors,
         Step(h, to, new)
  PROVE  /\ pc' \in [Handles -> Places]
         /\ errs' \in [Handles -> SUBSET Errors]
         /\ pc'[h] = to /\ errs'[h] = errs[h] \cup new
         /\ \A g \in Handles \ {h} : pc'[g] = pc[g] /\ errs'[g] = errs[g]
BY Zenon DEF GuardTyped, Step

\* A context that is done stays a context.
LEMMA CancelFacts ==
  ASSUME TypeOK, GuardTyped, NEW h \in Handles, cancel(h)
  PROVE  runDone' \in [Handles -> BOOLEAN] /\ cancelled' \in [Renewers -> BOOLEAN]
BY Zenon, GuardConstants DEF TypeOK, GuardTyped, cancel

\* A step of Run, of the watcher or of the caller that leaves the handle and
\* its renewer alone.
LEMMA LocalStep ==
  ASSUME GuardInv, NEW h \in Handles, UNCHANGED <<handleVars, managedVars>>,
         cancelled' \in [Renewers -> BOOLEAN], GuardTyped',
         \A g \in Handles \ {h} : /\ pc'[g] = pc[g] /\ errs'[g] = errs[g]
                                  /\ watcher'[g] = watcher[g] /\ losses'[g] = losses[g],
         CallsOfRun(h)', WayOfLoss(h)'
  PROVE  GuardInv'
<1>1. RenewalInv /\ state \in [Handles -> State]
  BY Zenon, GuardParts DEF TypeOK
<1>2. /\ state' = state /\ busy' = busy /\ inflight' = inflight /\ managed' = managed
      /\ slots' = slots /\ renewer' = renewer /\ target' = target /\ loss' = loss
  BY Zenon DEF handleVars, managedVars
<1>3. RenewalInv'
  BY Zenon, <1>1, <1>2, FrameStep DEF managedVars
<1>4. \A g \in Handles \ {h} : Untouched(g)
  BY Zenon, <1>2 DEF Untouched
<1> QED BY Zenon, <1>3, <1>4, OneRunMoves

-------------------------------------------------------------------------------
(* Run *)

\* Steps of Run that leave the handle, the renewer, the watcher and its channel
\* alone: only where Run is and what it will return can change the invariant.
LEMMA RunAlone ==
  ASSUME GuardInv, NEW h \in Handles,
         NEW to \in {"callback", "stop", "losses", "release", "done", "panicked"},
         NEW new \in SUBSET Errors,
         Step(h, to, new), UNCHANGED <<handleVars, managedVars, ctxDone, watcher, losses, releaseSent>>,
         cancel(h) \/ UNCHANGED <<runDone, cancelled>>,
         healthy' \in [Handles -> BOOLEAN],
         pc[h] # "releasing",
         to \in {"losses", "release", "done"} => renewer[h] \in {"none", "done"},
         to \in {"release", "done"} => renewer[h] = "none" \/ "ErrLost" \in errs[h] \/ loss[h] = "none"
  PROVE  GuardInv'
<1>1. /\ TypeOK /\ GuardTyped /\ CallsOfRun(h) /\ WayOfLoss(h)
      /\ cancelled \in [Renewers -> BOOLEAN]
  BY Zenon, GuardParts DEF TypeOK
<1>2. /\ renewer' = renewer /\ target' = target /\ loss' = loss /\ inflight' = inflight
      /\ watcher' = watcher /\ losses' = losses /\ ctxDone' = ctxDone /\ releaseSent' = releaseSent
  BY Zenon DEF handleVars, managedVars
<1>3. /\ pc' \in [Handles -> Places]
      /\ errs' \in [Handles -> SUBSET Errors]
      /\ pc'[h] = to /\ errs'[h] = errs[h] \cup new
      /\ \A g \in Handles \ {h} : pc'[g] = pc[g] /\ errs'[g] = errs[g]
  <2>1. to \in Places
    BY Zenon DEF Places
  <2> QED BY Zenon, <1>1, <2>1, StepFacts
<1>4. runDone' \in [Handles -> BOOLEAN] /\ cancelled' \in [Renewers -> BOOLEAN]
  BY Zenon, <1>1, CancelFacts DEF GuardTyped
<1>5. GuardTyped'
  BY Zenon, <1>1, <1>2, <1>3, <1>4 DEF GuardTyped
<1>6. CallsOfRun(h)'
  BY Zenon, <1>1, <1>2, <1>3 DEF CallsOfRun
<1>7. WayOfLoss(h)'
  BY Zenon, <1>1, <1>2, <1>3 DEF WayOfLoss, LossClosed
<1> QED BY Zenon, <1>2, <1>3, <1>4, <1>5, <1>6, <1>7, LocalStep

\* Refusal of the input: no handle, no renewer.
LEMMA RefuseStep ==
  ASSUME GuardInv, NEW h \in Handles, Refuse(h)
  PROVE  GuardInv'
<1>1. GuardTyped /\ CallsOfRun(h) /\ WayOfLoss(h)
  BY Zenon, GuardParts
<1>2. /\ pc[h] = "acquire" /\ renewer[h] = "none" /\ healthy' \in [Handles -> BOOLEAN]
  BY Zenon, <1>1 DEF Refuse, CallsOfRun, GuardTyped
<1> QED BY Zenon, <1>2, RunAlone DEF Refuse, Errors

\* client.Acquire returns a handle, or an error.
LEMMA AcquireStep ==
  ASSUME GuardInv, NEW h \in Handles, Acquire(h)
  PROVE  GuardInv'
<1>1. /\ TypeOK /\ GuardTyped /\ RenewalInv /\ CallsOfRun(h) /\ WayOfLoss(h)
  BY Zenon, GuardParts
<1>2. pc[h] = "acquire" /\ renewer[h] = "none"
  BY Zenon, <1>1 DEF Acquire, CallsOfRun
<1>3. CASE Step(h, "done", {"acquire"}) /\ UNCHANGED <<state, runDone>>
  <2>1. healthy' \in [Handles -> BOOLEAN]
    BY Zenon, <1>1 DEF Acquire, GuardTyped
  <2> QED BY Zenon, <1>2, <1>3, <2>1, RunAlone DEF Acquire, handleVars, Errors
<1>4. CASE /\ state' = [state EXCEPT ![h] = "active"]
           /\ Step(h, IF h \in Renewed THEN "start" ELSE "callback", {})
           /\ runDone' = [runDone EXCEPT ![h] = ctxDone[h]]
  <2> DEFINE to == IF h \in Renewed THEN "start" ELSE "callback"
  <2>1. /\ renewer' = renewer /\ target' = target /\ loss' = loss /\ inflight' = inflight
        /\ watcher' = watcher /\ losses' = losses /\ ctxDone' = ctxDone /\ cancelled' = cancelled
        /\ releaseSent' = releaseSent /\ healthy' = healthy
        /\ UNCHANGED <<busy, inflight, managedVars>>
    BY Zenon DEF Acquire, managedVars
  <2>2. state' \in [Handles -> State] /\ runDone' \in [Handles -> BOOLEAN]
    BY Zenon, <1>1, <1>4 DEF TypeOK, GuardTyped, State
  <2>3. RenewalInv'
    BY Zenon, <1>1, <2>1, <2>2, FrameStep DEF TypeOK
  <2>4. to \in {"start", "callback"}
    BY Zenon
  <2> HIDE DEF to
  <2>5. /\ pc' \in [Handles -> Places]
        /\ errs' \in [Handles -> SUBSET Errors]
        /\ pc'[h] = to /\ errs'[h] = errs[h] \cup {}
        /\ \A g \in Handles \ {h} : pc'[g] = pc[g] /\ errs'[g] = errs[g]
    BY Zenon, <1>1, <1>4, <2>4, StepFacts DEF to, Places, Errors
  <2>6. GuardTyped'
    BY Zenon, <1>1, <2>1, <2>2, <2>5 DEF GuardTyped
  <2>7. \A g \in Handles \ {h} : Untouched(g)
    BY Zenon, <2>1, <2>5 DEF Untouched
  <2>8. CallsOfRun(h)'
    BY Zenon, <1>1, <1>2, <2>1, <2>4, <2>5 DEF CallsOfRun
  <2>9. WayOfLoss(h)'
    BY Zenon, <1>1, <1>2, <2>1, <2>4, <2>5 DEF WayOfLoss, LossClosed
  <2> QED BY Zenon, <2>3, <2>6, <2>7, <2>8, <2>9, OneRunMoves
<1> QED BY Zenon, <1>3, <1>4 DEF Acquire

\* StartManaged and the watcher's go statement, or its refusal.
LEMMA RunStartStep ==
  ASSUME GuardInv, NEW h \in Handles, Start(h)
  PROVE  GuardInv'
<1>1. TypeOK /\ GuardTyped /\ RenewalInv /\ CallsOfRun(h) /\ WayOfLoss(h)
  BY Zenon, GuardParts
<1>2. pc[h] = "start" /\ renewer[h] = "none"
  BY Zenon, <1>1 DEF Start, CallsOfRun
<1>3. CASE ~CanStart(h) /\ Step(h, "release", {"start"})
           /\ UNCHANGED <<handleVars, managedVars, cancelled, watcher>>
  <2>1. healthy' \in [Handles -> BOOLEAN]
    BY Zenon, <1>1 DEF Start, GuardTyped
  <2> QED BY Zenon, <1>2, <1>3, <2>1, RunAlone DEF Start, Errors
<1>4. CASE /\ StartManaged(h, h, runDone[h])
           /\ watcher' = [watcher EXCEPT ![h] = "waiting"]
           /\ Step(h, "callback", {})
  <2>1. /\ inflight' = inflight /\ loss' = loss /\ losses' = losses /\ ctxDone' = ctxDone
        /\ runDone' = runDone /\ releaseSent' = releaseSent /\ healthy' = healthy
        /\ renewer' = [renewer EXCEPT ![h] = "sleeping"] /\ target' = [target EXCEPT ![h] = h]
    BY Zenon, <1>4 DEF Start, StartManaged, handleVars
  <2>2. h \in Renewers /\ runDone[h] \in BOOLEAN
    BY Zenon, <1>1, GuardConstants DEF GuardTyped
  <2>3. RenewalInv'
    BY Zenon, <1>1, <1>4, <2>2, StartStep
  <2>4. /\ renewer'[h] = "sleeping" /\ target'[h] = h
        /\ \A g \in Handles \ {h} : renewer'[g] = renewer[g] /\ target'[g] = target[g]
    BY Zenon, <1>1, <2>1, GuardConstants DEF TypeOK
  <2>5. /\ watcher'[h] = "waiting" /\ \A g \in Handles \ {h} : watcher'[g] = watcher[g]
        /\ watcher' \in [Handles -> {"none", "waiting", "took", "done"}]
    BY Zenon, <1>1, <1>4 DEF GuardTyped
  <2>6. /\ pc' \in [Handles -> Places]
        /\ errs' \in [Handles -> SUBSET Errors]
        /\ pc'[h] = "callback" /\ errs'[h] = errs[h] \cup {}
        /\ \A g \in Handles \ {h} : pc'[g] = pc[g] /\ errs'[g] = errs[g]
    BY Zenon, <1>1, <1>4, StepFacts DEF Places, Errors
  <2>7. GuardTyped'
    BY Zenon, <1>1, <2>1, <2>5, <2>6 DEF GuardTyped
  <2>8. \A g \in Handles \ {h} : Untouched(g)
    BY Zenon, <2>1, <2>4, <2>5, <2>6 DEF Untouched
  <2>9. CallsOfRun(h)'
    BY Zenon, <1>1, <1>2, <2>1, <2>4, <2>6 DEF CallsOfRun
  <2>10. WayOfLoss(h)'
    BY Zenon, <1>1, <1>2, <2>1, <2>4, <2>5, <2>6 DEF WayOfLoss, LossClosed
  <2> QED BY Zenon, <2>3, <2>7, <2>8, <2>9, <2>10, OneRunMoves
<1> QED BY Zenon, <1>3, <1>4 DEF Start

\* The callback returns, or leaves Run through a panic; Run learns that the
\* renewer is joined.
LEMMA CallbackStep ==
  ASSUME GuardInv, NEW h \in Handles, CallbackReturns(h) \/ CallbackPanics(h) \/ Stop(h)
  PROVE  GuardInv'
<1>1. GuardTyped /\ CallsOfRun(h) /\ WayOfLoss(h)
  BY Zenon, GuardParts
<1>2. CASE CallbackReturns(h)
  <2>1. PICK e \in {{}, {"callback"}} :
          Step(h, IF renewer[h] # "none" THEN "stop" ELSE "release", e)
    BY Zenon, <1>2 DEF CallbackReturns
  <2>2. healthy' \in [Handles -> BOOLEAN]
    BY Zenon, <1>1, <1>2 DEF CallbackReturns, GuardTyped
  <2>3. e \in SUBSET Errors
    BY Zenon DEF Errors
  <2>4. /\ pc[h] = "callback" /\ cancel(h)
        /\ UNCHANGED <<handleVars, managedVars, ctxDone, watcher, losses, releaseSent>>
    BY Zenon, <1>2 DEF CallbackReturns
  <2>5. CASE renewer[h] # "none"
    BY Zenon, <2>1, <2>2, <2>3, <2>4, <2>5, RunAlone
  <2>6. CASE renewer[h] = "none"
    BY Zenon, <2>1, <2>2, <2>3, <2>4, <2>6, RunAlone
  <2> QED BY Zenon, <2>5, <2>6
<1>3. CASE CallbackPanics(h)
  <2>1. healthy' \in [Handles -> BOOLEAN]
    BY Zenon, <1>1, <1>3 DEF CallbackPanics, GuardTyped
  <2> QED BY Zenon, <1>3, <2>1, RunAlone DEF CallbackPanics, Errors
<1>4. CASE Stop(h)
  <2>1. healthy' \in [Handles -> BOOLEAN]
    BY Zenon, <1>1, <1>4 DEF Stop, GuardTyped
  <2> QED BY Zenon, <1>4, <2>1, RunAlone DEF Stop, Joined, Errors
<1> QED BY Zenon, <1>2, <1>3, <1>4

\* Run receives from losses: whatever the watcher took is there.
LEMMA TakeLossStep ==
  ASSUME GuardInv, NEW h \in Handles, TakeLoss(h)
  PROVE  GuardInv'
<1>1. TypeOK /\ GuardTyped /\ CallsOfRun(h) /\ WayOfLoss(h)
  BY Zenon, GuardParts
<1>2. PICK new \in {{}, {"ErrLost"}} :
        /\ Step(h, "release", new)
        /\ IF new = {} THEN losses[h] = "empty" /\ watcher[h] = "done" ELSE losses[h] = "full"
  <2>1. {"ErrLost"} # {}
    BY Zenon
  <2> QED BY Zenon, <2>1 DEF TakeLoss
<1>3. new \in SUBSET Errors
  BY Zenon DEF Errors
<1>4. /\ pc'[h] = "release" /\ errs'[h] = errs[h] \cup new
      /\ \A g \in Handles \ {h} : pc'[g] = pc[g] /\ errs'[g] = errs[g]
      /\ pc' \in [Handles -> Places]
      /\ errs' \in [Handles -> SUBSET Errors]
  BY Zenon, <1>1, <1>2, <1>3, StepFacts DEF Places
<1>5. /\ losses'[h] = "empty" /\ \A g \in Handles \ {h} : losses'[g] = losses[g]
      /\ losses' \in [Handles -> {"empty", "full"}]
  BY Zenon, <1>1 DEF TakeLoss, GuardTyped
<1>6. /\ pc[h] = "losses" /\ UNCHANGED <<handleVars, managedVars, cancelled, watcher, ctxDone,
                                         runDone, releaseSent, healthy>>
      /\ renewer' = renewer /\ target' = target /\ loss' = loss /\ inflight' = inflight
  BY Zenon DEF TakeLoss, handleVars, managedVars
<1>7. GuardTyped' /\ cancelled' \in [Renewers -> BOOLEAN]
  BY Zenon, <1>1, <1>4, <1>5, <1>6 DEF GuardTyped, TypeOK
<1>8. CallsOfRun(h)'
  BY Zenon, <1>1, <1>4, <1>6 DEF CallsOfRun
<1>9. loss[h] # "none" => "ErrLost" \in errs'[h]
  <2>1. CASE new = {}
    <3>1. losses[h] = "empty" /\ watcher[h] = "done"
      BY Zenon, <1>2, <2>1
    <3> QED BY Zenon, <1>1, <1>4, <3>1 DEF WayOfLoss
  <2>2. CASE new = {"ErrLost"}
    BY Zenon, <1>4, <2>2
  <2> QED BY Zenon, <2>1, <2>2
<1>10. WayOfLoss(h)'
  BY Zenon, <1>1, <1>4, <1>5, <1>6, <1>9 DEF WayOfLoss, LossClosed
<1> QED BY Zenon, <1>4, <1>5, <1>6, <1>7, <1>8, <1>10, LocalStep

\* Without a goroutine of its own that renews, a run has no renewal in flight.
LEMMA NoRenewal ==
  ASSUME GuardInv, NEW h \in Handles, renewer[h] # "renewing"
  PROVE  "renew" \notin inflight[h]
<1>1. \A g \in Handles : CallsOfRun(g)
  BY Zenon, GuardParts
<1>2. CallsFit
  BY Zenon, RenewalParts DEF GuardInv
<1>3. \A r \in Renewers : renewer[r] = "renewing" => target[r] = r
  BY Zenon, <1>1, GuardConstants DEF CallsOfRun
<1>4. ~\E r \in Renewers : renewer[r] = "renewing" /\ target[r] = h
  BY Zenon, <1>3
<1> QED BY Zenon, <1>2, <1>4 DEF CallsFit

\* release sends its call, is refused, or returns.
LEMMA ReleaseStep ==
  ASSUME GuardInv, NEW h \in Handles, release(h)
  PROVE  GuardInv'
<1>1. TypeOK /\ GuardTyped /\ RenewalInv /\ CallsOfRun(h) /\ WayOfLoss(h) /\ CallsFit
  BY Zenon, GuardParts, RenewalParts
<1>2. /\ renewer' = renewer /\ target' = target /\ loss' = loss /\ ctxDone' = ctxDone
      /\ watcher' = watcher /\ losses' = losses /\ healthy' = healthy /\ UNCHANGED managedVars
  BY Zenon DEF release, managedVars
<1>3. "cleanup" \in Op \ {"renew"}
  BY Zenon DEF Op
<1>4. CASE pc[h] = "release" /\ ~CanRelease(h)
  <2>1. /\ Step(h, "done", {"release"}) /\ cancel(h) /\ UNCHANGED <<handleVars, releaseSent>>
    BY Zenon, <1>4 DEF release, BeginRelease
  <2>2. healthy' \in [Handles -> BOOLEAN] /\ pc[h] # "releasing"
    BY Zenon, <1>1, <1>2, <1>4 DEF GuardTyped
  <2>3. /\ renewer[h] \in {"none", "done"}
        /\ renewer[h] = "none" \/ "ErrLost" \in errs[h] \/ loss[h] = "none"
    BY Zenon, <1>1, <1>4 DEF CallsOfRun, WayOfLoss
  <2> QED BY Zenon, <1>2, <1>4, <2>1, <2>2, <2>3, RunAlone DEF Errors
<1>5. ASSUME NEW to, NEW new, to \in {"releasing", "done"}, new \in {{}, {"release"}},
             Step(h, to, new),
             RenewalInv', runDone' \in [Handles -> BOOLEAN],
             releaseSent' \in [Handles -> BOOLEAN],
             \A g \in Handles \ {h} : inflight'[g] = inflight[g],
             pc[h] \in {"release", "releasing"},
             to = "releasing" => inflight'[h] \subseteq {"cleanup"},
             to = "done" => inflight'[h] \subseteq {"renew"}
      PROVE  GuardInv'
  <2>1. /\ new \in SUBSET Errors
        /\ to \in Places
        /\ Step(h, to, new)
    BY Zenon, <1>5 DEF Places, Errors
  <2>2. /\ pc'[h] = to /\ errs'[h] = errs[h] \cup new
        /\ \A g \in Handles \ {h} : pc'[g] = pc[g] /\ errs'[g] = errs[g]
        /\ pc' \in [Handles -> Places]
        /\ errs' \in [Handles -> SUBSET Errors]
    BY Zenon, <1>1, <2>1, StepFacts
  <2>3. GuardTyped'
    BY Zenon, <1>1, <1>2, <1>5, <2>2 DEF GuardTyped
  <2>4. \A g \in Handles \ {h} : Untouched(g)
    BY Zenon, <1>2, <1>5, <2>2 DEF Untouched
  <2>5. CallsOfRun(h)'
    BY Zenon, <1>1, <1>2, <1>5, <2>2 DEF CallsOfRun
  <2>6. WayOfLoss(h)'
    BY Zenon, <1>1, <1>2, <1>5, <2>2 DEF WayOfLoss, LossClosed
  <2> QED BY Zenon, <1>5, <2>3, <2>4, <2>5, <2>6, OneRunMoves
<1>7. CASE /\ pc[h] = "release" /\ BeginRelease(h, "cleanup")
           /\ Step(h, "releasing", {}) /\ releaseSent' = [releaseSent EXCEPT ![h] = TRUE]
           /\ UNCHANGED <<runDone, cancelled>>
  <2>1. RenewalInv'
    BY Zenon, <1>1, <1>2, <1>3, <1>7, BeginStep DEF TypeOK
  <2>2. inflight[h] = {}
    BY Zenon, <1>1, <1>7 DEF BeginRelease, CanRelease, CallsFit
  <2>3. inflight'[h] \subseteq {"cleanup"} /\ \A g \in Handles \ {h} : inflight'[g] = inflight[g]
    BY Zenon, <1>1, <1>7, <2>2 DEF BeginRelease, TypeOK
  <2>4. releaseSent' \in [Handles -> BOOLEAN] /\ runDone' \in [Handles -> BOOLEAN]
    BY Zenon, <1>1, <1>7 DEF GuardTyped
  <2> QED BY <1>5, <1>7, <2>1, <2>3, <2>4
<1>8. CASE /\ pc[h] = "releasing" /\ cancel(h) /\ UNCHANGED releaseSent
           /\ \E out \in Outcome : FinishRelease(h, "cleanup", out)
                                   /\ Step(h, "done", IF out = "nil" THEN {} ELSE {"release"})
  <2>1. PICK out \in Outcome : FinishRelease(h, "cleanup", out)
                               /\ Step(h, "done", IF out = "nil" THEN {} ELSE {"release"})
    BY Zenon, <1>8
  <2>2. runDone' \in [Handles -> BOOLEAN] /\ cancelled' \in [Renewers -> BOOLEAN]
    BY Zenon, <1>1, <1>8, CancelFacts
  <2>3. RenewalInv'
    BY Zenon, <1>1, <1>2, <1>3, <2>1, <2>2, EndStep
  <2>4. inflight'[h] \subseteq {"renew"} /\ \A g \in Handles \ {h} : inflight'[g] = inflight[g]
    BY Zenon, <1>1, <1>8, <2>1 DEF FinishRelease, TypeOK, CallsOfRun
  <2>5. releaseSent' \in [Handles -> BOOLEAN]
    BY Zenon, <1>1, <1>8 DEF GuardTyped
  <2>6. CASE out = "nil"
    BY <1>5, <1>8, <2>1, <2>2, <2>3, <2>4, <2>5, <2>6
  <2>7. CASE out # "nil"
    BY <1>5, <1>8, <2>1, <2>2, <2>3, <2>4, <2>5, <2>7
  <2> QED BY Zenon, <2>6, <2>7
<1> QED BY Zenon, <1>4, <1>7, <1>8 DEF release

-------------------------------------------------------------------------------
(* The watcher, the caller and the renewer *)

\* The watcher takes the loss and hands it on, or ends.
LEMMA WatchStep ==
  ASSUME GuardInv, NEW h \in Handles, Watch(h)
  PROVE  GuardInv'
<1>1. TypeOK /\ GuardTyped /\ CallsOfRun(h) /\ WayOfLoss(h)
  BY Zenon, GuardParts
<1>2. /\ pc' = pc /\ errs' = errs /\ ctxDone' = ctxDone /\ releaseSent' = releaseSent
      /\ healthy' = healthy /\ UNCHANGED <<handleVars, managedVars>>
      /\ renewer' = renewer /\ target' = target /\ loss' = loss /\ inflight' = inflight
  BY Zenon DEF Watch, WatchTakes, WatchEnds, handleVars, managedVars
<1>3. CallsOfRun(h)'
  BY Zenon, <1>1, <1>2 DEF CallsOfRun
<1>4. CASE WatchTakes(h)
  <2>1. /\ watcher'[h] = "took" /\ losses'[h] = "full"
        /\ \A g \in Handles \ {h} : watcher'[g] = watcher[g] /\ losses'[g] = losses[g]
        /\ watcher' \in [Handles -> {"none", "waiting", "took", "done"}]
        /\ losses' \in [Handles -> {"empty", "full"}]
    BY Zenon, <1>1, <1>4 DEF WatchTakes, GuardTyped
  <2>2. runDone' = runDone /\ cancelled' = cancelled
    BY Zenon, <1>4 DEF WatchTakes
  <2>3. GuardTyped' /\ cancelled' \in [Renewers -> BOOLEAN]
    BY Zenon, <1>1, <1>2, <2>1, <2>2 DEF GuardTyped, TypeOK
  <2>4. WayOfLoss(h)'
    BY Zenon, <1>1, <1>2, <1>4, <2>1 DEF WayOfLoss, LossClosed, WatchTakes
  <2> QED BY Zenon, <1>2, <1>3, <2>1, <2>3, <2>4, LocalStep
<1>5. CASE WatchEnds(h)
  <2>1. /\ watcher'[h] = "done" /\ \A g \in Handles \ {h} : watcher'[g] = watcher[g]
        /\ watcher' \in [Handles -> {"none", "waiting", "took", "done"}]
    BY Zenon, <1>1, <1>5 DEF WatchEnds, GuardTyped
  <2>2. losses' = losses /\ runDone' \in [Handles -> BOOLEAN] /\ cancelled' \in [Renewers -> BOOLEAN]
    BY Zenon, <1>1, <1>5, CancelFacts DEF WatchEnds, GuardTyped, TypeOK
  <2>3. GuardTyped'
    BY Zenon, <1>1, <1>2, <2>1, <2>2 DEF GuardTyped
  <2>4. WayOfLoss(h)'
    BY <1>1, <1>2, <1>5, <2>1, <2>2 DEF WayOfLoss, LossClosed, WatchEnds
  <2> QED BY Zenon, <1>2, <1>3, <2>1, <2>2, <2>3, <2>4, LocalStep
<1> QED BY Zenon, <1>4, <1>5 DEF Watch

\* The caller's context ends.
LEMMA CallerStep ==
  ASSUME GuardInv, NEW h \in Handles, CallerCancels(h)
  PROVE  GuardInv'
<1>1. TypeOK /\ GuardTyped /\ CallsOfRun(h) /\ WayOfLoss(h)
  BY Zenon, GuardParts
<1>2. /\ pc' = pc /\ errs' = errs /\ watcher' = watcher /\ losses' = losses
      /\ releaseSent' = releaseSent /\ healthy' = healthy /\ UNCHANGED <<handleVars, managedVars>>
      /\ renewer' = renewer /\ target' = target /\ loss' = loss /\ inflight' = inflight
  BY Zenon DEF CallerCancels, handleVars, managedVars
<1>3. /\ ctxDone' \in [Handles -> BOOLEAN] /\ runDone' \in [Handles -> BOOLEAN]
      /\ cancelled' \in [Renewers -> BOOLEAN]
  <2>1. ctxDone' \in [Handles -> BOOLEAN]
    BY Zenon, <1>1 DEF CallerCancels, GuardTyped
  <2> QED BY Zenon, <1>1, <2>1, CancelFacts DEF CallerCancels
<1>4. GuardTyped'
  BY Zenon, <1>1, <1>2, <1>3 DEF GuardTyped
<1>5. CallsOfRun(h)' /\ WayOfLoss(h)'
  BY Zenon, <1>1, <1>2 DEF CallsOfRun, WayOfLoss, LossClosed
<1> QED BY Zenon, <1>2, <1>3, <1>4, <1>5, LocalStep

\* The safety deadline passes.
LEMMA DeadlineStep ==
  ASSUME GuardInv, NEW h \in Handles, DeadlinePasses(h)
  PROVE  GuardInv'
<1>1. TypeOK /\ GuardTyped /\ RenewalInv /\ CallsOfRun(h) /\ WayOfLoss(h)
  BY Zenon, GuardParts
<1>2. /\ pc' = pc /\ errs' = errs /\ watcher' = watcher /\ losses' = losses
      /\ ctxDone' = ctxDone /\ runDone' = runDone /\ releaseSent' = releaseSent
      /\ healthy' = healthy
      /\ renewer' = renewer /\ target' = target /\ loss' = loss /\ inflight' = inflight
  BY Zenon DEF DeadlinePasses, Lapse, guardVars, managedVars
<1>3. RenewalInv'
  BY Zenon, <1>1, StateStep DEF DeadlinePasses
<1>4. GuardTyped'
  BY Zenon, <1>1, <1>2 DEF GuardTyped
<1>5. CallsOfRun(h)' /\ WayOfLoss(h)'
  BY Zenon, <1>1, <1>2 DEF CallsOfRun, WayOfLoss, LossClosed
<1>6. \A g \in Handles \ {h} : Untouched(g)
  BY Zenon, <1>2 DEF Untouched
<1> QED BY Zenon, <1>3, <1>4, <1>5, <1>6, OneRunMoves

\* What a step of renewer h does: it goes somewhere, perhaps with a call of its
\* own handle, and reports a loss at most once, before it leaves.
LEMMA RenewalFacts ==
  ASSUME GuardInv, NEW h \in Handles, run(h)
  PROVE  /\ target' = target
         /\ \A g \in Handles \ {h} : /\ renewer'[g] = renewer[g] /\ loss'[g] = loss[g]
                                     /\ inflight'[g] = inflight[g]
         /\ renewer[h] \notin {"none", "done"} /\ renewer'[h] # "none"
         /\ inflight'[h] \subseteq inflight[h] \cup {"renew"}
         /\ renewer'[h] \in {"sleeping", "renew", "renewing", "failed"} =>
              /\ renewer[h] \in {"sleeping", "renew", "renewing", "failed"}
              /\ loss'[h] = loss[h]
         /\ loss'[h] = loss[h] \/ renewer[h] = "failed"
         /\ LossClosed(h) => LossClosed(h)'
<1>1. TypeOK /\ CallsOfRun(h) /\ h \in Renewers
  BY Zenon, GuardParts, GuardConstants
<1>2. DOMAIN renewer = Handles /\ DOMAIN loss = Handles /\ DOMAIN inflight = Handles
  BY Zenon, <1>1, GuardConstants DEF TypeOK
<1>3. CASE Wake(h) \/ SleepFails(h) \/ RenewRefused(h) \/ Exit(h) \/ Close(h)
  <2>1. target' = target /\ loss' = loss /\ inflight' = inflight
    BY Zenon, <1>3 DEF Wake, SleepFails, RenewRefused, Exit, Close, handleVars
  <2> QED BY Zenon, <1>2, <1>3, <2>1
          DEF Wake, SleepFails, RenewRefused, Exit, Close, Goto, LossClosed
<1>4. CASE ReportLoss(h)
  <2>1. target' = target /\ inflight' = inflight
    BY Zenon, <1>4 DEF ReportLoss, handleVars
  <2> QED BY Zenon, <1>2, <1>4, <2>1 DEF ReportLoss, Goto, LossClosed
<1>5. CASE RenewSent(h)
  <2>1. target[h] = h /\ target' = target /\ loss' = loss
    BY Zenon, <1>1, <1>5 DEF RenewSent, CallsOfRun
  <2> QED BY Zenon, <1>2, <1>5, <2>1 DEF RenewSent, beginActiveOperation, Goto, LossClosed
<1>6. CASE \E out \in Outcome : RenewReturns(h, out)
  <2>1. PICK out \in Outcome : RenewReturns(h, out)
    BY Zenon, <1>6
  <2>2. target[h] = h /\ target' = target /\ loss' = loss
    BY Zenon, <1>1, <2>1 DEF RenewReturns, CallsOfRun
  <2> QED BY Zenon, <1>2, <2>1, <2>2 DEF RenewReturns, finishActiveOperation, Goto, LossClosed
<1> QED BY Zenon, <1>3, <1>4, <1>5, <1>6 DEF run

\* A step of the renewer.  It is still running, so Run has not joined it, and
\* until it reports a loss the watcher waits.
LEMMA RenewalStep ==
  ASSUME GuardInv, NEW h \in Handles, Renewal(h)
  PROVE  GuardInv'
<1>1. TypeOK /\ GuardTyped /\ RenewalInv /\ CallsOfRun(h) /\ WayOfLoss(h)
  BY Zenon, GuardParts
<1>2. /\ pc' = pc /\ errs' = errs /\ watcher' = watcher /\ losses' = losses
      /\ ctxDone' = ctxDone /\ runDone' = runDone /\ releaseSent' = releaseSent
      /\ healthy' = healthy /\ run(h)
  BY Zenon DEF Renewal, guardVars
<1>3. RenewalInv'
  BY Zenon, <1>1, <1>2, RunStep, GuardConstants
<1>4. GuardTyped'
  BY Zenon, <1>1, <1>2 DEF GuardTyped
<1>5. /\ target' = target
      /\ \A g \in Handles \ {h} : /\ renewer'[g] = renewer[g] /\ loss'[g] = loss[g]
                                  /\ inflight'[g] = inflight[g]
      /\ renewer[h] \notin {"none", "done"} /\ renewer'[h] # "none"
      /\ inflight'[h] \subseteq inflight[h] \cup {"renew"}
      /\ renewer'[h] \in {"sleeping", "renew", "renewing", "failed"} =>
           /\ renewer[h] \in {"sleeping", "renew", "renewing", "failed"}
           /\ loss'[h] = loss[h]
      /\ loss'[h] = loss[h] \/ renewer[h] = "failed"
      /\ LossClosed(h) => LossClosed(h)'
  BY Zenon, <1>2, RenewalFacts
<1>6. \A g \in Handles \ {h} : Untouched(g)
  BY Zenon, <1>2, <1>5 DEF Untouched
<1>7. CallsOfRun(h)'
  BY Zenon, <1>1, <1>2, <1>5 DEF CallsOfRun
<1>8. pc[h] \notin {"losses", "release", "releasing", "done"}
  BY Zenon, <1>1, <1>5 DEF CallsOfRun
<1>9. ASSUME loss'[h] = loss[h]
      PROVE  WayOfLoss(h)'
  BY Zenon, <1>1, <1>2, <1>5, <1>8, <1>9 DEF WayOfLoss
<1>10. ASSUME renewer[h] = "failed"
       PROVE  WayOfLoss(h)'
  <2>1. watcher[h] \notin {"none", "took", "done"}
    BY Zenon, <1>1, <1>10 DEF WayOfLoss, LossClosed
  <2> QED BY Zenon, <1>1, <1>2, <1>5, <1>8, <2>1 DEF WayOfLoss
<1> QED BY Zenon, <1>3, <1>4, <1>5, <1>6, <1>7, <1>9, <1>10, OneRunMoves

-------------------------------------------------------------------------------
(* The theorems *)

\* No run has acquired anything.
LEMMA GuardInit ==
  ASSUME Init
  PROVE  GuardInv
<1>1. RenewalInv /\ TypeOK
  BY Zenon, RenewalInit DEF Init, RenewalInv
<1>2. GuardTypeOK
  BY Zenon, <1>1 DEF Init, GuardTypeOK
<1>3. \A h \in Handles : renewer[h] = "none" /\ loss[h] = "none" /\ inflight[h] = {}
  BY Zenon, GuardConstants DEF Init, ManagedInit
<1>4. \A h \in Handles : pc[h] = "acquire" /\ watcher[h] = "none"
  BY Zenon DEF Init
<1> QED BY Zenon, <1>1, <1>2, <1>3, <1>4 DEF GuardInv, CallsOfRun, WayOfLoss

\* Every step keeps the invariant.
LEMMA GuardStep ==
  ASSUME GuardInv, [Next]_vars
  PROVE  GuardInv'
<1>1. ASSUME NEW h \in Handles, Run(h)
      PROVE  GuardInv'
  BY Zenon, <1>1, RefuseStep, AcquireStep, RunStartStep, CallbackStep, TakeLossStep, ReleaseStep
     DEF Run
<1>2. CASE UNCHANGED vars
  <2>1. /\ UNCHANGED <<state, busy, inflight, managed, slots, renewer, target, loss, cancelled>>
        /\ UNCHANGED <<pc, ctxDone, runDone, watcher, losses, errs, releaseSent, healthy>>
    BY Zenon, <1>2 DEF vars, handleVars, managedVars, guardVars
  <2>2. TypeOK /\ GuardTyped /\ RenewalInv /\ \A h \in Handles : CallsOfRun(h) /\ WayOfLoss(h)
    BY Zenon, GuardParts
  <2>3. RenewalInv'
    BY Zenon, <2>1, <2>2, FrameStep DEF TypeOK, managedVars
  <2>4. GuardTyped'
    BY Zenon, <2>1, <2>2 DEF GuardTyped
  <2>5. ASSUME NEW h \in Handles PROVE CallsOfRun(h)' /\ WayOfLoss(h)'
    <3>1. CallsOfRun(h) /\ WayOfLoss(h)
      BY Zenon, <2>2
    <3> QED BY Zenon, <3>1, <2>1 DEF CallsOfRun, WayOfLoss, LossClosed
  <2> QED BY Zenon, <2>3, <2>4, <2>5, GuardParts
<1> QED BY Zenon, <1>1, <1>2, WatchStep, CallerStep, DeadlineStep, RenewalStep DEF Next

\* The properties follow from the invariant.
LEMMA GuardInvImplies ==
  ASSUME GuardInv
  PROVE  RenewalJoinedBeforeRelease /\ LossIsReturned
<1>1. GuardTypeOK /\ CallsFit /\ \A h \in Handles : CallsOfRun(h) /\ WayOfLoss(h)
  BY Zenon, GuardParts, RenewalParts DEF GuardInv
<1>2. ASSUME NEW h \in Handles, pc[h] \in {"release", "releasing", "done"}
      PROVE  /\ renewer[h] \in {"none", "done"} /\ inflight[h] \subseteq {"cleanup"}
             /\ pc[h] = "release" => ~busy[h]
  <2>1. CallsOfRun(h)
    BY Zenon, <1>1
  <2>2. renewer[h] \in {"none", "done"}
    BY Zenon, <1>2, <2>1 DEF CallsOfRun
  <2>3. "renew" \notin inflight[h]
    BY Zenon, <2>2, NoRenewal
  <2>4. CASE pc[h] = "releasing"
    BY Zenon, <2>1, <2>2, <2>4 DEF CallsOfRun
  <2>5. CASE pc[h] # "releasing"
    <3>1. inflight[h] = {}
      BY Zenon, <2>1, <2>3, <2>5 DEF CallsOfRun
    <3> QED BY Zenon, <1>1, <2>2, <3>1 DEF CallsFit
  <2> QED BY Zenon, <2>4, <2>5
<1>3. RenewalJoinedBeforeRelease
  BY Zenon, <1>1, <1>2 DEF RenewalJoinedBeforeRelease
<1>4. LossIsReturned
  BY Zenon, <1>1 DEF LossIsReturned, WayOfLoss
<1> QED BY Zenon, <1>3, <1>4

\* guard.Run joins the renewer before it releases (guard.go): with any number of
\* runs that share the client's slots, a release never meets a renewal in flight.
THEOREM RenewalJoinedBeforeReleaseHolds == Spec => []RenewalJoinedBeforeRelease
<1>1. Spec => []GuardInv
  BY GuardInit, GuardStep, PTL DEF Spec
<1> QED BY <1>1, GuardInvImplies, PTL

\* guard.Run never drops a loss: one that the renewer put into its channel,
\* before the callback returned or after, is in the error Run returns.
THEOREM LossIsReturnedHolds == Spec => []LossIsReturned
<1>1. Spec => []GuardInv
  BY GuardInit, GuardStep, PTL DEF Spec
<1> QED BY <1>1, GuardInvImplies, PTL
===============================================================================
