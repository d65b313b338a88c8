---------------------------- MODULE ManagedProofs ----------------------------
(***************************************************************************)
(* RenewalInv of module Managed is inductive, for any number of handles,   *)
(* renewers and slots.  The lemmas speak of one kind of step each, so that *)
(* the proofs of modules Guard and ServiceManager, whose steps are made of *)
(* the same ones, can cite them.                                           *)
(***************************************************************************)
EXTENDS Managed, FiniteSetTheorems, TLAPS

\* RenewalInv is the types and these two, before a step and after it.
LEMMA RenewalParts ==
  /\ RenewalInv => TypeOK /\ RenewersFit /\ CallsFit
  /\ TypeOK' /\ RenewersFit' /\ CallsFit' => RenewalInv'
BY Zenon DEF RenewalInv

-------------------------------------------------------------------------------
(* The calls *)

\* A reservation: the handle had no call and has one.
LEMMA CallBegins ==
  ASSUME TypeOK, CallsFit, NEW h \in Handles, NEW o \in Op, ~busy[h],
         busy' = [busy EXCEPT ![h] = TRUE],
         inflight' = [inflight EXCEPT ![h] = @ \cup {o}],
         \A r \in Renewers : renewer[r] = "renewing" =>
           renewer'[r] = "renewing" /\ target'[r] = target[r],
         o = "renew" => \E r \in Renewers : renewer'[r] = "renewing" /\ target'[r] = h
  PROVE  /\ busy' \in [Handles -> BOOLEAN] /\ inflight' \in [Handles -> SUBSET Op]
         /\ CallsFit'
<1>1. inflight[h] = {}
  BY Zenon DEF CallsFit
<1>2. /\ busy \in [Handles -> BOOLEAN] /\ inflight \in [Handles -> SUBSET Op]
      /\ DOMAIN busy = Handles /\ DOMAIN inflight = Handles
  BY Zenon DEF TypeOK
<1>3. busy'[h] = TRUE /\ inflight'[h] = {o}
  BY Zenon, <1>1, <1>2
<1>4. \A g \in Handles \ {h} : busy'[g] = busy[g] /\ inflight'[g] = inflight[g]
  BY Zenon, <1>2
<1>5. busy' \in [Handles -> BOOLEAN] /\ inflight' \in [Handles -> SUBSET Op]
  BY Zenon, <1>2
<1>6. ASSUME NEW g \in Handles
      PROVE  /\ busy'[g] <=> inflight'[g] # {}
             /\ \A p, q \in inflight'[g] : p = q
             /\ "renew" \in inflight'[g] =>
                  \E r \in Renewers : renewer'[r] = "renewing" /\ target'[r] = g
  <2>1. CASE g = h
    BY <1>3, <2>1
  <2>2. CASE g # h
    BY <1>4, <2>2 DEF CallsFit
  <2> QED BY Zenon, <2>1, <2>2
<1> QED BY Zenon, <1>5, <1>6 DEF CallsFit

\* A call returns: the handle had no other, and has none.
LEMMA CallEnds ==
  ASSUME TypeOK, CallsFit, NEW h \in Handles, NEW o \in inflight[h],
         busy' = [busy EXCEPT ![h] = FALSE],
         inflight' = [inflight EXCEPT ![h] = @ \ {o}],
         \A r \in Renewers : renewer[r] = "renewing" /\ target[r] # h =>
           renewer'[r] = "renewing" /\ target'[r] = target[r]
  PROVE  /\ busy' \in [Handles -> BOOLEAN] /\ inflight' \in [Handles -> SUBSET Op]
         /\ CallsFit'
<1>1. inflight[h] \ {o} = {}
  BY Zenon DEF CallsFit
<1>2. /\ busy \in [Handles -> BOOLEAN] /\ inflight \in [Handles -> SUBSET Op]
      /\ DOMAIN busy = Handles /\ DOMAIN inflight = Handles
  BY Zenon DEF TypeOK
<1>3. busy'[h] = FALSE /\ inflight'[h] = {}
  BY Zenon, <1>1, <1>2
<1>4. \A g \in Handles \ {h} : busy'[g] = busy[g] /\ inflight'[g] = inflight[g]
  BY Zenon, <1>2
<1>5. busy' \in [Handles -> BOOLEAN] /\ inflight' \in [Handles -> SUBSET Op]
  BY Zenon, <1>2
<1>6. ASSUME NEW g \in Handles
      PROVE  /\ busy'[g] <=> inflight'[g] # {}
             /\ \A p, q \in inflight'[g] : p = q
             /\ "renew" \in inflight'[g] =>
                  \E r \in Renewers : renewer'[r] = "renewing" /\ target'[r] = g
  <2>1. CASE g = h
    BY Zenon, <1>3, <2>1
  <2>2. CASE g # h
    BY <1>4, <2>2 DEF CallsFit
  <2> QED BY Zenon, <2>1, <2>2
<1> QED BY Zenon, <1>5, <1>6 DEF CallsFit

\* Whoever waits for a renewal goes on waiting: the calls are as before.
LEMMA CallsStay ==
  ASSUME CallsFit, busy' = busy, inflight' = inflight,
         \A r \in Renewers : renewer[r] = "renewing" =>
           renewer'[r] = "renewing" /\ target'[r] = target[r]
  PROVE  CallsFit'
BY DEF CallsFit

-------------------------------------------------------------------------------
(* The goroutines *)

\* A goroutine that goes on keeps its slot and its handle.
LEMMA RenewersStay ==
  ASSUME RenewersFit, UNCHANGED <<managed, slots, target>>,
         \A r \in Renewers : /\ renewer'[r] \in Live <=> renewer[r] \in Live
                             /\ renewer'[r] # "none" => renewer[r] # "none"
  PROVE  RenewersFit'
<1>1. liveRenewers' = liveRenewers
  BY Zenon DEF liveRenewers
<1> QED BY Zenon, <1>1 DEF RenewersFit

\* A step of one goroutine from one place to another.
LEMMA GotoStep ==
  ASSUME TypeOK, NEW r \in Renewers, NEW pc, Goto(r, pc)
  PROVE  /\ renewer'[r] = pc
         /\ \A s \in Renewers \ {r} : renewer'[s] = renewer[s]
         /\ pc \in Live \cup {"none", "closing", "closed", "done"} =>
              renewer' \in [Renewers -> Live \cup {"none", "closing", "closed", "done"}]
BY Zenon DEF TypeOK, Goto

-------------------------------------------------------------------------------
(* The steps *)

\* A step that touches neither calls nor goroutines: the state of a handle
\* changes, or contexts are cancelled.
LEMMA FrameStep ==
  ASSUME RenewalInv, UNCHANGED <<busy, inflight, managedVars>>,
         state' \in [Handles -> State], cancelled' \in [Renewers -> BOOLEAN]
  PROVE  RenewalInv'
<1>1. TypeOK /\ RenewersFit /\ CallsFit
  BY Zenon, RenewalParts
<1>2. /\ busy' = busy /\ inflight' = inflight /\ managed' = managed /\ slots' = slots
      /\ renewer' = renewer /\ target' = target /\ loss' = loss
  BY Zenon DEF managedVars
<1>3. TypeOK'
  BY Zenon, <1>1, <1>2 DEF TypeOK
<1>4. RenewersFit'
  BY Zenon, <1>1, <1>2, RenewersStay
<1>5. CallsFit'
  BY Zenon, <1>1, <1>2, CallsStay
<1> QED BY Zenon, <1>3, <1>4, <1>5, RenewalParts

\* An application, a release or a cleanup begins a call.
LEMMA BeginStep ==
  ASSUME RenewalInv, NEW h \in Handles, NEW o \in Op \ {"renew"},
         beginActiveOperation(h, o) \/ BeginRelease(h, o),
         UNCHANGED managedVars, cancelled' \in [Renewers -> BOOLEAN]
  PROVE  RenewalInv'
<1>1. TypeOK /\ RenewersFit /\ CallsFit
  BY Zenon, RenewalParts
<1>2. /\ managed' = managed /\ slots' = slots
      /\ renewer' = renewer /\ target' = target /\ loss' = loss /\ state' = state
  BY Zenon DEF managedVars, beginActiveOperation, BeginRelease
<1>3. /\ ~busy[h] /\ busy' = [busy EXCEPT ![h] = TRUE]
      /\ inflight' = [inflight EXCEPT ![h] = @ \cup {o}]
  BY Zenon DEF beginActiveOperation, BeginRelease, CanRelease
<1>4. /\ busy' \in [Handles -> BOOLEAN] /\ inflight' \in [Handles -> SUBSET Op]
      /\ CallsFit'
  BY Zenon, <1>1, <1>2, <1>3, CallBegins
<1>5. TypeOK'
  BY Zenon, <1>1, <1>2, <1>4 DEF TypeOK
<1>6. RenewersFit'
  BY Zenon, <1>1, <1>2, RenewersStay
<1> QED BY Zenon, <1>4, <1>5, <1>6, RenewalParts

\* What a call's outcome makes of the handle's state.
LEMMA OutcomeState ==
  ASSUME TypeOK, NEW h \in Handles, NEW o, NEW out \in Outcome,
         finishActiveOperation(h, o, out) \/ FinishRelease(h, o, out)
  PROVE  state' \in [Handles -> State]
BY DEF TypeOK, finishActiveOperation, FinishRelease, failLocked, State

\* Such a call returns.
LEMMA EndStep ==
  ASSUME RenewalInv, NEW h \in Handles, NEW o \in Op \ {"renew"}, NEW out \in Outcome,
         finishActiveOperation(h, o, out) \/ FinishRelease(h, o, out),
         UNCHANGED managedVars, cancelled' \in [Renewers -> BOOLEAN]
  PROVE  RenewalInv'
<1>1. TypeOK /\ RenewersFit /\ CallsFit
  BY Zenon, RenewalParts
<1>2. /\ managed' = managed /\ slots' = slots
      /\ renewer' = renewer /\ target' = target /\ loss' = loss
  BY Zenon DEF managedVars
<1>3. /\ o \in inflight[h] /\ busy' = [busy EXCEPT ![h] = FALSE]
      /\ inflight' = [inflight EXCEPT ![h] = @ \ {o}]
  BY Zenon DEF finishActiveOperation, FinishRelease
<1>4. state' \in [Handles -> State]
  BY Zenon, <1>1, OutcomeState
<1>5. /\ busy' \in [Handles -> BOOLEAN] /\ inflight' \in [Handles -> SUBSET Op]
      /\ CallsFit'
  BY Zenon, <1>1, <1>2, <1>3, CallEnds
<1>6. TypeOK'
  BY Zenon, <1>1, <1>2, <1>4, <1>5 DEF TypeOK
<1>7. RenewersFit'
  BY Zenon, <1>1, <1>2, RenewersStay
<1> QED BY Zenon, <1>5, <1>6, <1>7, RenewalParts

\* StartManaged: a goroutine and its slot, for a handle that has none.
LEMMA StartStep ==
  ASSUME RenewalInv, NEW r \in Renewers, NEW h \in Handles, NEW c \in BOOLEAN,
         StartManaged(r, h, c)
  PROVE  RenewalInv'
<1>1. TypeOK /\ RenewersFit /\ CallsFit
  BY Zenon, RenewalParts
<1>2. /\ state' = state /\ busy' = busy /\ inflight' = inflight /\ loss' = loss
      /\ renewer[r] = "none" /\ ~managed[h]
      /\ managed' = [managed EXCEPT ![h] = TRUE]
      /\ renewer' = [renewer EXCEPT ![r] = "sleeping"]
      /\ target' = [target EXCEPT ![r] = h]
      /\ cancelled' = [cancelled EXCEPT ![r] = c]
  BY Zenon DEF StartManaged, CanStart, handleVars
<1>3. /\ renewer'[r] = "sleeping" /\ target'[r] = h
      /\ \A s \in Renewers \ {r} : renewer'[s] = renewer[s] /\ target'[s] = target[s]
  BY Zenon, <1>1, <1>2 DEF TypeOK
<1>4. managed'[h] = TRUE /\ \A g \in Handles \ {h} : managed'[g] = managed[g]
  BY Zenon, <1>1, <1>2 DEF TypeOK
<1>5. "none" \notin Live /\ "sleeping" \in Live
  BY Zenon DEF Live
<1>6. liveRenewers' = liveRenewers \cup {r} /\ r \notin liveRenewers
  BY Zenon, <1>2, <1>3, <1>5 DEF liveRenewers
<1>7. /\ IsFiniteSet(liveRenewers')
      /\ Cardinality(liveRenewers') = Cardinality(liveRenewers) + 1
  BY Zenon, <1>1, <1>6, FS_AddElement DEF RenewersFit
<1>8. slots' = Cardinality(liveRenewers') /\ slots' \in 0..MaxManaged
  BY <1>1, <1>7, ManagedConstants DEF RenewersFit, StartManaged, CanStart, TypeOK
<1>9. \A s \in liveRenewers : target[s] # h
  BY Zenon, <1>1, <1>2 DEF RenewersFit
<1>10. RenewersFit'
  <2>1. \A s \in Renewers : renewer'[s] # "none" => target'[s] \in Handles
    BY Zenon, <1>1, <1>3 DEF RenewersFit
  <2>2. \A s \in liveRenewers : s \in Renewers \ {r}
    BY Zenon, <1>6 DEF liveRenewers
  <2>3. \A s, t \in liveRenewers' : target'[s] = target'[t] => s = t
    BY <1>1, <1>3, <1>6, <1>9, <2>2 DEF RenewersFit
  <2>4. ASSUME NEW g \in Handles
        PROVE  managed'[g] <=> \E s \in liveRenewers' : target'[s] = g
    <3>1. CASE g = h
      BY Zenon, <1>3, <1>4, <1>6, <3>1
    <3>2. CASE g # h
      <4>1. managed'[g] <=> \E s \in liveRenewers : target[s] = g
        BY Zenon, <1>1, <1>4, <3>2 DEF RenewersFit
      <4> QED BY Zenon, <4>1, <1>3, <1>6, <2>2, <3>2
    <3> QED BY Zenon, <3>1, <3>2
  <2> QED BY Zenon, <1>7, <1>8, <2>1, <2>3, <2>4 DEF RenewersFit
<1>11. CallsFit'
  BY Zenon, <1>1, <1>2, <1>3, CallsStay
<1>12. TypeOK'
  BY Zenon, <1>1, <1>2, <1>8 DEF TypeOK, Live
<1> QED BY Zenon, <1>10, <1>11, <1>12, RenewalParts

\* A goroutine goes from one place to another and the handles' calls stay as
\* they are: it slept, was refused, reported its loss or closed a channel.
LEMMA MoveStep ==
  ASSUME RenewalInv, NEW r \in Renewers,
         NEW pc \in {"renew", "exiting", "failed", "closed", "done"}, Goto(r, pc),
         renewer[r] \in {"sleeping", "renew", "failed", "closing", "closed"},
         pc \in Live <=> renewer[r] \in Live,
         UNCHANGED <<handleVars, managed, slots, target, cancelled>>,
         loss' \in [Renewers -> State]
  PROVE  RenewalInv'
<1>1. TypeOK /\ RenewersFit /\ CallsFit
  BY Zenon, RenewalParts
<1>2. /\ state' = state /\ busy' = busy /\ inflight' = inflight
      /\ managed' = managed /\ slots' = slots /\ target' = target /\ cancelled' = cancelled
  BY Zenon DEF handleVars
<1>3. pc \in Live \cup {"none", "closing", "closed", "done"}
  BY Zenon DEF Live
<1>4. /\ renewer'[r] = pc /\ \A s \in Renewers \ {r} : renewer'[s] = renewer[s]
      /\ renewer' \in [Renewers -> Live \cup {"none", "closing", "closed", "done"}]
  BY Zenon, <1>1, <1>3, GotoStep
<1>5. TypeOK'
  BY Zenon, <1>1, <1>2, <1>4 DEF TypeOK
<1>6. RenewersFit'
  <2>1. \A s \in Renewers : /\ renewer'[s] \in Live <=> renewer[s] \in Live
                            /\ renewer'[s] # "none" => renewer[s] # "none"
    BY Zenon, <1>4
  <2> QED BY Zenon, <1>1, <1>2, <2>1, RenewersStay
<1>7. CallsFit'
  <2>1. \A s \in Renewers : renewer[s] = "renewing" =>
          renewer'[s] = "renewing" /\ target'[s] = target[s]
    BY Zenon, <1>2, <1>4
  <2> QED BY Zenon, <1>1, <1>2, <2>1, CallsStay
<1> QED BY Zenon, <1>5, <1>6, <1>7, RenewalParts

\* The goroutine's Renew reserves the handle.
LEMMA RenewSentStep ==
  ASSUME RenewalInv, NEW r \in Renewers, RenewSent(r)
  PROVE  RenewalInv'
<1>1. TypeOK /\ RenewersFit /\ CallsFit
  BY Zenon, RenewalParts
<1> DEFINE h == target[r]
<1>2. /\ managed' = managed /\ slots' = slots /\ target' = target /\ cancelled' = cancelled
      /\ loss' = loss /\ state' = state /\ renewer[r] = "renew" /\ Goto(r, "renewing")
      /\ ~busy[h] /\ busy' = [busy EXCEPT ![h] = TRUE]
      /\ inflight' = [inflight EXCEPT ![h] = @ \cup {"renew"}]
  BY Zenon DEF RenewSent, beginActiveOperation
<1>3. h \in Handles
  BY Zenon, <1>1, <1>2 DEF RenewersFit
<1>4. "renewing" \in Live /\ "renew" \in Live /\ "renew" \in Op
  BY Zenon DEF Live, Op
<1>5. /\ renewer'[r] = "renewing" /\ \A s \in Renewers \ {r} : renewer'[s] = renewer[s]
      /\ renewer' \in [Renewers -> Live \cup {"none", "closing", "closed", "done"}]
  BY Zenon, <1>1, <1>2, <1>4, GotoStep
<1>6. \A s \in Renewers : /\ renewer'[s] \in Live <=> renewer[s] \in Live
                          /\ renewer'[s] # "none" => renewer[s] # "none"
                          /\ renewer[s] = "renewing" => renewer'[s] = "renewing"
  BY Zenon, <1>2, <1>4, <1>5
<1> HIDE DEF h
<1>7. /\ busy' \in [Handles -> BOOLEAN] /\ inflight' \in [Handles -> SUBSET Op]
      /\ CallsFit'
  <2>1. \E s \in Renewers : renewer'[s] = "renewing" /\ target'[s] = h
    BY Zenon, <1>2, <1>5 DEF h
  <2>2. \A s \in Renewers : renewer[s] = "renewing" =>
          renewer'[s] = "renewing" /\ target'[s] = target[s]
    BY Zenon, <1>2, <1>6
  <2> QED BY Zenon, <1>1, <1>2, <1>3, <1>4, <2>1, <2>2, CallBegins
<1>8. TypeOK'
  BY Zenon, <1>1, <1>2, <1>5, <1>7 DEF TypeOK
<1>9. RenewersFit'
  BY Zenon, <1>1, <1>2, <1>6, RenewersStay
<1> QED BY Zenon, <1>7, <1>8, <1>9, RenewalParts

\* Its Renew returns.  Nobody else waits for a renewal of the same handle.
LEMMA RenewReturnsStep ==
  ASSUME RenewalInv, NEW r \in Renewers, NEW out \in Outcome, RenewReturns(r, out)
  PROVE  RenewalInv'
<1>1. TypeOK /\ RenewersFit /\ CallsFit
  BY Zenon, RenewalParts
<1> DEFINE h == target[r]
           pc == IF out = "nil" /\ state[target[r]] = "active" THEN "sleeping" ELSE "failed"
<1>2. /\ managed' = managed /\ slots' = slots /\ target' = target /\ cancelled' = cancelled
      /\ loss' = loss /\ renewer[r] = "renewing" /\ Goto(r, pc)
      /\ "renew" \in inflight[h] /\ busy' = [busy EXCEPT ![h] = FALSE]
      /\ inflight' = [inflight EXCEPT ![h] = @ \ {"renew"}]
      /\ finishActiveOperation(h, "renew", out)
  BY Zenon DEF RenewReturns, finishActiveOperation
<1>3. h \in Handles
  BY Zenon, <1>1, <1>2 DEF RenewersFit
<1>4. "renewing" \in Live /\ pc \in Live /\ pc # "none"
  BY Zenon DEF Live
<1> HIDE DEF pc, h
<1>5. /\ renewer'[r] = pc /\ \A s \in Renewers \ {r} : renewer'[s] = renewer[s]
      /\ renewer' \in [Renewers -> Live \cup {"none", "closing", "closed", "done"}]
  BY Zenon, <1>1, <1>2, <1>4, GotoStep
<1>6. \A s \in Renewers : /\ renewer'[s] \in Live <=> renewer[s] \in Live
                          /\ renewer'[s] # "none" => renewer[s] # "none"
  BY Zenon, <1>2, <1>4, <1>5
<1>7. state' \in [Handles -> State]
  BY Zenon, <1>1, <1>2, <1>3, OutcomeState
<1>8. /\ busy' \in [Handles -> BOOLEAN] /\ inflight' \in [Handles -> SUBSET Op]
      /\ CallsFit'
  <2>1. \A s \in Renewers : renewer[s] = "renewing" /\ target[s] # h =>
          renewer'[s] = "renewing" /\ target'[s] = target[s]
    BY Zenon, <1>2, <1>5 DEF h
  <2> QED BY Zenon, <1>1, <1>2, <1>3, <2>1, CallEnds
<1>9. TypeOK'
  BY Zenon, <1>1, <1>2, <1>5, <1>7, <1>8 DEF TypeOK
<1>10. RenewersFit'
  BY Zenon, <1>1, <1>2, <1>6, RenewersStay
<1> QED BY Zenon, <1>8, <1>9, <1>10, RenewalParts

\* The deferred function: the goroutine that leaves was the handle's only one.
LEMMA ExitStep ==
  ASSUME RenewalInv, NEW r \in Renewers, Exit(r)
  PROVE  RenewalInv'
<1>1. TypeOK /\ RenewersFit /\ CallsFit
  BY Zenon, RenewalParts
<1> DEFINE h == target[r]
<1>2. /\ state' = state /\ busy' = busy /\ inflight' = inflight /\ target' = target
      /\ cancelled' = cancelled /\ loss' = loss
      /\ renewer[r] = "exiting" /\ Goto(r, "closing")
      /\ managed' = [managed EXCEPT ![h] = FALSE] /\ slots' = slots - 1
  BY Zenon DEF Exit, handleVars
<1>3. h \in Handles
  BY Zenon, <1>1, <1>2 DEF RenewersFit
<1>4. "exiting" \in Live /\ "closing" \notin Live
  BY Zenon DEF Live
<1>5. /\ renewer'[r] = "closing" /\ \A s \in Renewers \ {r} : renewer'[s] = renewer[s]
      /\ renewer' \in [Renewers -> Live \cup {"none", "closing", "closed", "done"}]
  BY Zenon, <1>1, <1>2, GotoStep
<1> HIDE DEF h
<1>6. liveRenewers' = liveRenewers \ {r} /\ r \in liveRenewers
  BY Zenon, <1>2, <1>4, <1>5 DEF liveRenewers
<1>7. /\ IsFiniteSet(liveRenewers') /\ Cardinality(liveRenewers') \in Nat
      /\ Cardinality(liveRenewers') = Cardinality(liveRenewers) - 1
  BY Zenon, <1>1, <1>6, FS_RemoveElement, FS_CardinalityType DEF RenewersFit
<1>8. slots' = Cardinality(liveRenewers') /\ slots' \in 0..MaxManaged
  BY <1>1, <1>2, <1>7, ManagedConstants DEF RenewersFit, TypeOK
<1>9. /\ managed'[h] = FALSE /\ \A g \in Handles \ {h} : managed'[g] = managed[g]
      /\ managed' \in [Handles -> BOOLEAN]
  BY Zenon, <1>1, <1>2, <1>3 DEF TypeOK
<1>10. RenewersFit'
  <2>1. \A s \in Renewers : renewer'[s] # "none" => target'[s] \in Handles
    BY Zenon, <1>1, <1>2, <1>5 DEF RenewersFit
  <2>2. \A s, t \in liveRenewers' : target'[s] = target'[t] => s = t
    BY Zenon, <1>1, <1>2, <1>6 DEF RenewersFit
  <2>3. ASSUME NEW g \in Handles
        PROVE  managed'[g] <=> \E s \in liveRenewers' : target'[s] = g
    <3>1. CASE g = h
      BY Zenon, <1>1, <1>2, <1>6, <1>9, <3>1 DEF RenewersFit, h
    <3>2. CASE g # h
      <4>1. managed'[g] <=> \E s \in liveRenewers : target[s] = g
        BY Zenon, <1>1, <1>9, <3>2 DEF RenewersFit
      <4> QED BY Zenon, <4>1, <1>2, <1>6, <3>2 DEF h
    <3> QED BY Zenon, <3>1, <3>2
  <2> QED BY Zenon, <1>7, <1>8, <2>1, <2>2, <2>3 DEF RenewersFit
<1>11. CallsFit'
  <2>1. \A s \in Renewers : renewer[s] = "renewing" =>
          renewer'[s] = "renewing" /\ target'[s] = target[s]
    BY Zenon, <1>2, <1>5
  <2> QED BY Zenon, <1>1, <1>2, <2>1, CallsStay
<1>12. TypeOK'
  BY Zenon, <1>1, <1>2, <1>5, <1>8, <1>9 DEF TypeOK
<1> QED BY Zenon, <1>10, <1>11, <1>12, RenewalParts

\* Any step of a renewal goroutine.
LEMMA RunStep ==
  ASSUME RenewalInv, NEW r \in Renewers, run(r)
  PROVE  RenewalInv'
<1>1. TypeOK /\ RenewersFit
  BY Zenon, RenewalParts
<1>2. loss \in [Renewers -> State]
  BY Zenon, <1>1 DEF TypeOK
<1>3. CASE Wake(r)
  BY Zenon, <1>2, <1>3, MoveStep DEF Wake, Live
<1>4. CASE SleepFails(r)
  BY Zenon, <1>2, <1>4, MoveStep DEF SleepFails, Live
<1>5. CASE RenewRefused(r)
  BY Zenon, <1>2, <1>5, MoveStep DEF RenewRefused, Live
<1>6. CASE ReportLoss(r)
  <2>1. target[r] \in Handles
    BY Zenon, <1>1, <1>6 DEF RenewersFit, ReportLoss
  <2>2. state[target[r]] \in State
    BY Zenon, <1>1, <2>1 DEF TypeOK
  <2>3. loss' \in [Renewers -> State]
    BY Zenon, <1>2, <1>6, <2>2 DEF ReportLoss
  <2> QED BY Zenon, <1>6, <2>3, MoveStep DEF ReportLoss, Live
<1>7. CASE Close(r)
  <2>1. CASE renewer[r] = "closing" /\ Goto(r, "closed")
    BY Zenon, <1>2, <1>7, <2>1, MoveStep DEF Close, Live
  <2>2. CASE renewer[r] = "closed" /\ Goto(r, "done")
    BY Zenon, <1>2, <1>7, <2>2, MoveStep DEF Close, Live
  <2> QED BY Zenon, <1>7, <2>1, <2>2 DEF Close
<1> QED
  BY Zenon, <1>3, <1>4, <1>5, <1>6, <1>7, RenewSentStep, RenewReturnsStep, ExitStep DEF run

-------------------------------------------------------------------------------
(* The theorems *)

\* No renewer has started and no call has been sent.
LEMMA RenewalInit ==
  ASSUME ManagedInit
  PROVE  RenewalInv
<1>1. TypeOK
  BY ManagedConstants DEF ManagedInit, TypeOK, State
<1>2. liveRenewers = {}
  BY Zenon DEF ManagedInit, liveRenewers, Live
<1>3. RenewersFit
  BY Zenon, <1>2, FS_EmptySet DEF ManagedInit, RenewersFit
<1>4. CallsFit
  BY Zenon DEF ManagedInit, CallsFit
<1> QED BY Zenon, <1>1, <1>3, <1>4 DEF RenewalInv

\* A set without two different elements has at most one.
LEMMA AtMostOne ==
  ASSUME NEW S, \A x, y \in S : x = y
  PROVE  IsFiniteSet(S) /\ Cardinality(S) <= 1
<1>1. CASE S = {}
  BY <1>1, FS_EmptySet
<1>2. ASSUME NEW x \in S
      PROVE  IsFiniteSet(S) /\ Cardinality(S) <= 1
  <2>1. S = {x}
    BY Zenon, <1>2
  <2>2. IsFiniteSet(S) /\ Cardinality(S) = 1
    BY Zenon, <2>1, FS_Singleton
  <2> QED BY <2>2
<1> QED BY Zenon, <1>1, <1>2

\* The properties are parts of the inductive invariant.
LEMMA RenewalInvImplies ==
  ASSUME RenewalInv
  PROVE  OneOperation /\ SlotsConserved
<1>1. TypeOK /\ RenewersFit /\ CallsFit
  BY Zenon, RenewalParts
<1>2. OneOperation
  BY Zenon, <1>1, AtMostOne DEF OneOperation, CallsFit
<1>3. ASSUME NEW h \in Handles
      PROVE  Cardinality({r \in Renewers : renewer[r] \in Live /\ target[r] = h}) <= 1
  <2> DEFINE S == {r \in Renewers : renewer[r] \in Live /\ target[r] = h}
  <2>1. \A r, s \in S : r = s
    BY Zenon, <1>1 DEF RenewersFit, liveRenewers
  <2> HIDE DEF S
  <2>2. Cardinality(S) <= 1
    BY Zenon, <2>1, AtMostOne
  <2> QED BY Zenon, <2>2 DEF S
<1>4. SlotsConserved
  BY Zenon, <1>1, <1>3 DEF SlotsConserved, RenewersFit, liveRenewers
<1> QED BY Zenon, <1>2, <1>4

\* newHandle and the safety deadline change nothing but the handle's state.
LEMMA StateStep ==
  ASSUME RenewalInv, NEW h \in Handles, newHandleAt(h) \/ Lapse(h)
  PROVE  RenewalInv'
<1>1. state' \in [Handles -> State] /\ cancelled' \in [Renewers -> BOOLEAN]
  BY Zenon DEF RenewalInv, TypeOK, newHandleAt, Lapse, State
<1> QED BY Zenon, <1>1, FrameStep DEF newHandleAt, Lapse

\* Every step of the application and of its renewers keeps the invariant.
LEMMA ManagedStep ==
  ASSUME RenewalInv, [ManagedNext]_clientVars
  PROVE  RenewalInv'
<1>1. cancelled \in [Renewers -> BOOLEAN] /\ state \in [Handles -> State]
  BY Zenon DEF RenewalInv, TypeOK
<1>2. ASSUME NEW h \in Handles, Operate(h)
      PROVE  RenewalInv'
  BY Zenon, <1>1, <1>2, BeginStep, EndStep DEF Operate, Op
<1>3. ASSUME NEW h \in Handles, Release(h)
      PROVE  RenewalInv'
  BY Zenon, <1>1, <1>3, BeginStep, EndStep DEF Release, Op
<1>4. ASSUME NEW r \in Renewers, StopManaged(r)
      PROVE  RenewalInv'
  <2>1. cancelled' \in [Renewers -> BOOLEAN]
    BY Zenon, <1>1, <1>4 DEF StopManaged
  <2> QED BY Zenon, <1>1, <1>4, <2>1, FrameStep DEF StopManaged, handleVars
<1>5. CASE UNCHANGED clientVars
  BY Zenon, <1>1, <1>5, FrameStep DEF clientVars, handleVars
<1> QED BY Zenon, <1>2, <1>3, <1>4, <1>5, StateStep, StartStep, RunStep DEF ManagedNext

\* A Renew of the goroutine, an operation of the application and a release of
\* one handle never overlap (handle.go, busy), with any number of renewers.
THEOREM OneOperationHolds == ManagedSpec => []OneOperation
<1>1. ManagedSpec => []RenewalInv
  BY RenewalInit, ManagedStep, PTL DEF ManagedSpec
<1> QED BY <1>1, RenewalInvImplies, PTL

\* The client's renewal slots (client.managed) are neither lost nor given out
\* twice, and a handle never has two renewal goroutines.
THEOREM SlotsConservedHolds == ManagedSpec => []SlotsConserved
<1>1. ManagedSpec => []RenewalInv
  BY RenewalInit, ManagedStep, PTL DEF ManagedSpec
<1> QED BY <1>1, RenewalInvImplies, PTL
===============================================================================
