--------------------------- MODULE AcquireLoopProofs ---------------------------
(***************************************************************************)
(* What an Acquire call may leave behind, for any number of calls, slots,  *)
(* attempts and options: IInv of module AcquireLoop is inductive.  Its     *)
(* part on policies rests on NewPolicy accepting only options that the     *)
(* comments on their fields describe, for durations of any width.          *)
(***************************************************************************)
EXTENDS AcquireLoop, FiniteSetTheorems, TLAPS

-------------------------------------------------------------------------------
(* NewPolicy *)

\* Between a TTL and a margin that pass their own tests the subtraction does
\* not wrap.
LEMMA MinusExact ==
  ASSUME NEW a \in 1..MaxTTL, NEW b \in Duration, b >= 0
  PROVE  minus(a, b) = a - b
BY PolicyConstants DEF minus, Duration

\* NewPolicy (policy.go:71-100) accepts the options that the comments on their
\* fields allow, but for a retry delay above MaxWait: policy.go:84 rejects it,
\* with or without a wait, and no comment says so.  In particular the test on a
\* remainder that may have wrapped admits nothing the comments exclude, and the
\* defaults let nothing fail that they allow.
THEOREM NewPolicyExact ==
  ASSUME NEW o \in PolicyOptions
  PROVE  valid(withDefaults(o)) <=> Documented(o) /\ o.Retry <= MaxWait
<1> DEFINE p == withDefaults(o)
<1>1. /\ p.TTL = o.TTL /\ p.Wait = o.Wait /\ p.Retry = o.Retry /\ p.Jitter = o.Jitter
      /\ p.RenewEvery = o.RenewEvery /\ p.SafetyMargin = o.SafetyMargin
      /\ p.MaxAttempts = o.MaxAttempts
  BY Zenon DEF withDefaults, PolicyOptions
<1>2. p.FailureBehavior = FailClosed <=> o.FailureBehavior \in {0, FailClosed}
  BY Zenon DEF withDefaults, PolicyOptions, FailClosed
<1>3. ASSUME o.TTL \in 1..MaxTTL
      PROVE  p.OperationTimeout \in 1..MaxOperationTimeout
               <=> 0 <= o.OperationTimeout /\ o.OperationTimeout <= MaxOperationTimeout
  BY <1>3, PolicyConstants DEF withDefaults, PolicyOptions, Duration
<1>4. ASSUME o.TTL \in 1..MaxTTL, o.SafetyMargin >= 0
      PROVE  minus(o.TTL, o.SafetyMargin) = o.TTL - o.SafetyMargin
  BY Zenon, <1>4, MinusExact DEF PolicyOptions
<1> HIDE DEF p
<1>5. ASSUME ~(o.TTL \in 1..MaxTTL /\ o.SafetyMargin >= 0)
      PROVE  ~valid(p) /\ ~Documented(o)
  BY <1>1, <1>5, PolicyConstants DEF valid, Documented, PolicyOptions, Duration
<1>6. ASSUME o.TTL \in 1..MaxTTL, o.SafetyMargin >= 0
      PROVE  valid(p) <=> Documented(o) /\ o.Retry <= MaxWait
  BY <1>1, <1>2, <1>3, <1>4, <1>6, PolicyConstants
     DEF valid, Documented, invalidRenewal, PolicyOptions, Duration
<1> QED BY Zenon, <1>5, <1>6 DEF p

-------------------------------------------------------------------------------
(* The parts of the invariant *)

\* The parts of IInv: the types, the slots, and what holds of each call.
Typed ==
  /\ now \in 0..MaxTime
  /\ pc \in [Calls -> {"idle", "owner", "attempt", "reply", "sleep", "done"}]
  /\ policy \in [Calls -> PolicyOptions] /\ deadline \in [Calls -> Nat]
  /\ attempt \in [Calls -> 0..MaxAttempts]
  /\ parentDone \in [Calls -> BOOLEAN]
  /\ waitErr \in [Calls -> {"nil", "deadline", "canceled"}]
  /\ request \in [Calls -> {"none", "sent", "granted", "contended", "refused"}]
  /\ result \in [Calls -> Result]
  /\ grants \in [Calls -> Nat] /\ holder \in Calls \cup {NoCall, Rival}

Begun == {c \in Calls : pc[c] \notin {"idle", "done"}}
Slots == waiters \in 0..MaxWaiters /\ waiters = Cardinality(Begun)

CallInv(c) ==
  /\ Documented(policy[c])
  /\ attempt[c] <= policy[c].MaxAttempts /\ (policy[c].Wait = 0 => attempt[c] <= 1)
  /\ pc[c] \in {"idle", "owner", "attempt", "sleep"} => request[c] \in {"none", "contended"}
  /\ pc[c] = "sleep" => attempt[c] < policy[c].MaxAttempts /\ policy[c].Wait > 0
  /\ pc[c] # "done" => result[c] = "none"
  /\ grants[c] = IF request[c] = "granted" THEN 1 ELSE 0
  /\ result[c] \in Definite => request[c] \notin {"sent", "granted"}
  /\ result[c] = "handle" => request[c] = "granted"

\* IInv is the conjunction of its parts.
LEMMA Parts == IInv <=> Typed /\ Slots /\ \A c \in Calls : CallInv(c)
BY Zenon DEF IInv, TypeOK, WaitersConserved, PolicyRespected, Typed, Slots, Begun, CallInv

-------------------------------------------------------------------------------
(* Waiter slots *)

\* The three things a step may do to the slots keep their account.
LEMMA SlotAccount ==
  ASSUME Slots,
         \/ waiters' = waiters /\ Begun' = Begun
         \/ \E c \in Calls \ Begun :
              waiters < MaxWaiters /\ waiters' = waiters + 1 /\ Begun' = Begun \cup {c}
         \/ \E c \in Begun : waiters' = waiters - 1 /\ Begun' = Begun \ {c}
  PROVE  Slots'
<1>0. IsFiniteSet(Begun) /\ MaxWaiters \in Nat
  BY Zenon, AcquireConstants, FS_Subset DEF Begun
<1>1. CASE waiters' = waiters /\ Begun' = Begun
  BY Zenon, <1>1 DEF Slots
<1>2. ASSUME NEW c \in Calls \ Begun, waiters < MaxWaiters, waiters' = waiters + 1,
             Begun' = Begun \cup {c}
      PROVE  Slots'
  <2>1. Cardinality(Begun') = Cardinality(Begun) + 1
    BY Zenon, <1>0, <1>2, FS_AddElement
  <2> QED BY <1>0, <1>2, <2>1 DEF Slots
<1>3. ASSUME NEW c \in Begun, waiters' = waiters - 1, Begun' = Begun \ {c}
      PROVE  Slots'
  <2>1. Cardinality(Begun') = Cardinality(Begun) - 1 /\ Cardinality(Begun') \in Nat
    BY Zenon, <1>0, <1>3, FS_RemoveElement, FS_CardinalityType
  <2> QED BY <1>0, <1>3, <2>1 DEF Slots
<1> QED BY Zenon, <1>1, <1>2, <1>3

\* Every return of a call under way gives its slot back.
LEMMA ReturnSlots ==
  ASSUME Typed, NEW c \in Begun, NEW r, Return(c, r)
  PROVE  waiters' = waiters - 1 /\ Begun' = Begun \ {c}
BY Zenon DEF Typed, Begun, Return, Goto

\* A call that goes on keeps its slot.
LEMMA GoesOn ==
  ASSUME Typed, NEW c \in Begun, NEW p \in {"owner", "attempt", "reply", "sleep"}, Goto(c, p)
  PROVE  Begun' = Begun
BY Zenon DEF Typed, Begun, Goto

\* Slots are conserved by every step.
LEMMA SlotStep ==
  ASSUME Typed, Slots, [Next]_vars
  PROVE  Slots'
<1>1. ASSUME UNCHANGED <<pc, waiters>> PROVE Slots'
  BY Zenon, <1>1 DEF Slots, Begun
<1>2. ASSUME NEW c \in Calls, Enter(c) PROVE Slots'
  <2>1. pc[c] = "idle" /\ c \notin Begun
    BY Zenon, <1>2 DEF Enter, Begun
  <2>2. CASE waiters < MaxWaiters /\ waiters' = waiters + 1 /\ Goto(c, "owner")
    <3>1. Begun' = Begun \cup {c}
      BY Zenon, <2>2 DEF Begun, Goto, Typed
    <3> QED BY Zenon, <2>1, <2>2, <3>1, SlotAccount
  <2>3. CASE UNCHANGED waiters /\ Goto(c, "done")
    <3>1. Begun' = Begun
      BY Zenon, <2>1, <2>3 DEF Begun, Goto, Typed
    <3> QED BY Zenon, <2>3, <3>1, SlotAccount
  <2> QED BY Zenon, <1>2, <2>2, <2>3 DEF Enter
<1>3. ASSUME NEW c \in Begun,
             \/ \E r : Return(c, r)
             \/ UNCHANGED waiters /\ \E p \in {"owner", "attempt", "reply", "sleep"} : Goto(c, p)
      PROVE  Slots'
  BY Zenon, <1>3, ReturnSlots, GoesOn, SlotAccount
<1>4. ASSUME NEW c \in Begun, NEW err, AttemptFails(c, err) PROVE Slots'
  BY Zenon, <1>3, <1>4 DEF AttemptFails
<1>5. ASSUME NEW c \in Calls,
             ChooseOwner(c) \/ Dispatch(c) \/ Reply(c) \/ GiveUp(c) \/ SleepReturns(c)
      PROVE  Slots'
  <2>1. c \in Begun
    BY Zenon, <1>5 DEF Begun, ChooseOwner, Dispatch, Reply, GiveUp, SleepReturns
  <2> QED BY Zenon, <1>3, <1>4, <1>5, <2>1 DEF ChooseOwner, Dispatch, Reply, GiveUp, SleepReturns
<1> QED BY Zenon, <1>1, <1>2, <1>5
        DEF Next, Acquire, CallerCancels, WaitExpires, Execute, Advance, Others, vars

-------------------------------------------------------------------------------
(* Calls *)

Rest == Typed /\ \A c \in Calls : CallInv(c)

\* A policy NewPolicy has made is documented.
LEMMA PoliciesDocumented ==
  ASSUME NEW p \in NewPolicy(Options)
  PROVE  p \in PolicyOptions /\ Documented(p)
<1>1. PICK o \in PolicyOptions : p = withDefaults(o) /\ valid(p)
  BY Zenon, AcquireConstants DEF NewPolicy
<1>2. Documented(o)
  BY Zenon, <1>1, NewPolicyExact
<1>3. p \in PolicyOptions
  <2>1. PICK timeout, behavior :
          /\ p = [o EXCEPT !.OperationTimeout = timeout, !.FailureBehavior = behavior]
          /\ timeout \in {o.OperationTimeout, o.TTL, DefaultTimeout}
          /\ behavior \in {o.FailureBehavior, FailClosed}
    BY Zenon, <1>1 DEF withDefaults
  <2>2. timeout \in Duration /\ behavior \in Nat
    <3>1. DefaultTimeout \in Duration /\ FailClosed \in Nat
      BY PolicyConstants DEF Duration, FailClosed
    <3> QED BY Zenon, <2>1, <3>1 DEF PolicyOptions
  <2> QED BY Zenon, <2>1, <2>2 DEF PolicyOptions
<1>4. /\ p.TTL = o.TTL /\ p.Wait = o.Wait /\ p.Retry = o.Retry /\ p.Jitter = o.Jitter
      /\ p.RenewEvery = o.RenewEvery /\ p.SafetyMargin = o.SafetyMargin
      /\ p.MaxAttempts = o.MaxAttempts
  BY Zenon, <1>1 DEF withDefaults, PolicyOptions
<1>5. p.OperationTimeout \in 1..MaxOperationTimeout /\ p.FailureBehavior = FailClosed
  BY Zenon, <1>1 DEF valid
<1>6. 0 <= p.OperationTimeout /\ p.OperationTimeout <= MaxOperationTimeout
  BY <1>5, PolicyConstants
<1> QED BY Zenon, <1>2, <1>3, <1>4, <1>5, <1>6 DEF Documented

\* A return with an answer the request allows.
LEMMA ReturnCall ==
  ASSUME Rest, NEW c \in Calls, NEW r \in Result \ {"none"}, Return(c, r),
         r \in Definite => request[c] \notin {"sent", "granted"},
         r = "handle" => request[c] = "granted",
         UNCHANGED <<now, policy, deadline, attempt, parentDone, waitErr, request, grants, holder>>
  PROVE  Rest'
<1>1. Typed'
  BY Zenon DEF Rest, Typed, Return, Goto
<1>2. ASSUME NEW x \in Calls PROVE CallInv(x)'
  BY Zenon, <1>2 DEF Rest, Typed, CallInv, Return, Goto
<1> QED BY Zenon, <1>1, <1>2 DEF Rest

\* What the loop does with an error: only contention is tried again.
LEMMA FailsCall ==
  ASSUME Rest, NEW c \in Calls, pc[c] \in {"attempt", "reply"},
         NEW err \in Definite \cup {"ErrContended", "ErrAmbiguousOutcome"}, AttemptFails(c, err),
         err \in Definite => request[c] \notin {"sent", "granted"},
         err = "ErrContended" => request[c] = "contended",
         UNCHANGED <<now, policy, deadline, attempt, parentDone, waitErr, request, grants, holder>>
  PROVE  Rest'
<1>1. CASE Return(c, "ErrTimeout")
  BY Zenon, <1>1, ReturnCall DEF Result, Definite
<1>2. CASE ~isContention(err) /\ Return(c, err)
  BY Zenon, <1>2, ReturnCall DEF Result, Definite, isContention
<1>3. ASSUME NEW delay, isContention(err), ~budgetSpent(c, delay), Goto(c, "sleep"),
             UNCHANGED <<result, waiters>>
      PROVE  Rest'
  <2>1. Typed'
    BY Zenon, <1>3 DEF Rest, Typed, Goto
  <2>2. request[c] = "contended" /\ result[c] = "none"
    BY Zenon, <1>3 DEF isContention, Rest, CallInv
  <2>3. attempt[c] < policy[c].MaxAttempts /\ policy[c].Wait > 0
    <3>1. /\ policy[c].Wait # 0 /\ attempt[c] # policy[c].MaxAttempts
      BY Zenon, <1>3 DEF budgetSpent
    <3>2. /\ attempt[c] \in Nat /\ policy[c].MaxAttempts \in Nat /\ policy[c].Wait \in Int
      BY PolicyConstants DEF Rest, Typed, PolicyOptions, Duration
    <3> QED BY <3>1, <3>2 DEF Rest, CallInv, Documented
  <2>4. ASSUME NEW x \in Calls PROVE CallInv(x)'
    BY Zenon, <1>3, <2>2, <2>3, <2>4 DEF Rest, Typed, CallInv, Goto
  <2> QED BY Zenon, <2>1, <2>4 DEF Rest
<1> QED BY Zenon, <1>1, <1>2, <1>3 DEF AttemptFails

\* Every step keeps the types and what holds of each call.
LEMMA CallStep ==
  ASSUME Rest, [Next]_vars
  PROVE  Rest'
<1>1. ASSUME NEW c \in Calls, Enter(c) PROVE Rest'
  <2>1. Typed'
    BY ZenonT(30), <1>1 DEF Rest, Typed, Enter, Goto, Result, Definite
  <2>2. ASSUME NEW x \in Calls PROVE CallInv(x)'
    BY <1>1 DEF Rest, Typed, CallInv, Enter, Goto, Definite
  <2> QED BY Zenon, <2>1, <2>2 DEF Rest
<1>2. ASSUME NEW c \in Calls, ChooseOwner(c) PROVE Rest'
  <2>1. CASE Return(c, "ErrBackendUnavailable") /\ UNCHANGED <<deadline, attempt>>
    <3>1. request[c] \notin {"sent", "granted"}
      BY Zenon, <1>2 DEF ChooseOwner, Rest, CallInv
    <3> QED BY Zenon, <1>2, <2>1, <3>1, ReturnCall DEF ChooseOwner, Result, Definite
  <2>2. CASE /\ Goto(c, "attempt") /\ deadline' = [deadline EXCEPT ![c] = now + policy[c].Wait]
             /\ attempt' = [attempt EXCEPT ![c] = 1] /\ UNCHANGED <<result, waiters>>
    <3>1. /\ policy[c].Wait \in Nat /\ policy[c].MaxAttempts >= 1 /\ now \in Nat
          /\ 1 \in 0..MaxAttempts
      BY AcquireConstants, PolicyConstants
      DEF Rest, Typed, CallInv, Documented, PolicyOptions, Duration
    <3>2. Typed'
      BY <1>2, <2>2, <3>1 DEF Rest, Typed, ChooseOwner, Goto
    <3>3. ASSUME NEW x \in Calls PROVE CallInv(x)'
      BY <1>2, <2>2, <3>1 DEF Rest, Typed, CallInv, ChooseOwner, Goto
    <3> QED BY Zenon, <3>2, <3>3 DEF Rest
  <2> QED BY Zenon, <1>2, <2>1, <2>2 DEF ChooseOwner
<1>3. ASSUME NEW c \in Calls, Dispatch(c) PROVE Rest'
  <2>0. pc[c] = "attempt" /\ request[c] \notin {"sent", "granted"} /\ result[c] = "none"
    BY Zenon, <1>3 DEF Dispatch, Rest, CallInv
  <2>1. CASE AttemptFails(c, "ErrCanceled") /\ UNCHANGED request
    BY Zenon, <1>3, <2>0, <2>1, FailsCall DEF Dispatch, Definite
  <2>2. CASE /\ Goto(c, "reply") /\ request' = [request EXCEPT ![c] = "sent"]
             /\ UNCHANGED <<result, waiters>>
    <3>1. Typed'
      BY Zenon, <1>3, <2>2 DEF Rest, Typed, Dispatch, Goto
    <3>2. ASSUME NEW x \in Calls PROVE CallInv(x)'
      BY Zenon, <1>3, <2>0, <2>2 DEF Rest, Typed, CallInv, Dispatch, Goto, Definite
    <3> QED BY Zenon, <3>1, <3>2 DEF Rest
  <2> QED BY Zenon, <1>3, <2>1, <2>2 DEF Dispatch
<1>4. ASSUME NEW c \in Calls, Reply(c) PROVE Rest'
  <2>1. CASE request[c] = "granted" /\ (Return(c, "handle") \/ Return(c, "ErrAmbiguousOutcome"))
    BY Zenon, <1>4, <2>1, ReturnCall DEF Reply, Result, Definite
  <2>2. CASE request[c] = "contended" /\ AttemptFails(c, "ErrContended")
    BY Zenon, <1>4, <2>2, FailsCall DEF Reply, Definite
  <2>3. CASE request[c] = "refused" /\ AttemptFails(c, "ErrBackendUnavailable")
    BY Zenon, <1>4, <2>3, FailsCall DEF Reply, Definite
  <2> QED BY Zenon, <1>4, <2>1, <2>2, <2>3 DEF Reply
<1>5. ASSUME NEW c \in Calls, GiveUp(c) PROVE Rest'
  BY Zenon, <1>5, FailsCall DEF GiveUp, Definite
<1>6. ASSUME NEW c \in Calls, SleepReturns(c) PROVE Rest'
  <2>0. pc[c] = "sleep" /\ request[c] \notin {"sent", "granted"} /\ result[c] = "none"
    BY Zenon, <1>6 DEF SleepReturns, Rest, CallInv
  <2>1. CASE Goto(c, "attempt") /\ attempt' = [attempt EXCEPT ![c] = @ + 1]
             /\ UNCHANGED <<result, waiters>>
    <3>1. /\ attempt[c] + 1 \in 0..MaxAttempts /\ attempt[c] + 1 <= policy[c].MaxAttempts
          /\ policy[c].Wait # 0
      <4>1. /\ attempt[c] \in Nat /\ policy[c].MaxAttempts \in Nat /\ policy[c].Wait \in Int
        BY PolicyConstants DEF Rest, Typed, PolicyOptions, Duration
      <4> QED BY <2>0, <4>1, PolicyConstants DEF Rest, CallInv, Documented
    <3>2. Typed'
      BY Zenon, <1>6, <2>1, <3>1 DEF Rest, Typed, SleepReturns, Goto
    <3>3. ASSUME NEW x \in Calls PROVE CallInv(x)'
      BY Zenon, <1>6, <2>0, <2>1, <3>1 DEF Rest, Typed, CallInv, SleepReturns, Goto
    <3> QED BY Zenon, <3>2, <3>3 DEF Rest
  <2>2. ASSUME NEW r \in {"ErrTimeout", "ErrCanceled"}, Return(c, r), UNCHANGED attempt
        PROVE  Rest'
    BY Zenon, <1>6, <2>0, <2>2, ReturnCall DEF SleepReturns, Result, Definite
  <2> QED BY Zenon, <1>6, <2>1, <2>2 DEF SleepReturns
<1>7. ASSUME NEW c \in Calls, CallerCancels(c) \/ WaitExpires(c) PROVE Rest'
  <2>1. parentDone' \in [Calls -> BOOLEAN]
    BY <1>7, Zenon DEF Rest, Typed, CallerCancels, WaitExpires
  <2>2. Typed'
    BY Zenon, <1>7, <2>1 DEF Rest, Typed, CallerCancels, WaitExpires
  <2>3. ASSUME NEW x \in Calls PROVE CallInv(x)'
    BY Zenon, <1>7 DEF Rest, CallInv, CallerCancels, WaitExpires
  <2> QED BY Zenon, <2>2, <2>3 DEF Rest
<1>8. ASSUME NEW c \in Calls, Execute(c) PROVE Rest'
  <2>1. Typed'
    BY <1>8 DEF Rest, Typed, Execute
  <2>2. ASSUME NEW x \in Calls PROVE CallInv(x)'
    BY <1>8 DEF Rest, Typed, CallInv, Execute
  <2> QED BY Zenon, <2>1, <2>2 DEF Rest
<1>9. CASE Advance \/ Others \/ UNCHANGED vars
  <2>1. Typed'
    BY <1>9, AcquireConstants DEF Rest, Typed, Advance, Others, vars
  <2>2. ASSUME NEW x \in Calls PROVE CallInv(x)'
    BY Zenon, <1>9 DEF Rest, CallInv, Advance, Others, vars
  <2> QED BY Zenon, <2>1, <2>2 DEF Rest
<1> QED BY Zenon, <1>1, <1>2, <1>3, <1>4, <1>5, <1>6, <1>7, <1>8, <1>9 DEF Next, Acquire

-------------------------------------------------------------------------------
(* Theorems *)

\* Before any call the invariant holds.
LEMMA InitInv == Init => IInv
<1> SUFFICES ASSUME Init PROVE Typed /\ Slots /\ \A c \in Calls : CallInv(c)
  BY Zenon, Parts
<1>1. \A c \in Calls : policy[c] \in PolicyOptions /\ Documented(policy[c])
  BY Zenon, PoliciesDocumented DEF Init
<1>2. parentDone \in [Calls -> BOOLEAN]
  BY Zenon DEF Init
<1>3. policy \in [Calls -> PolicyOptions]
  BY Zenon, <1>1 DEF Init
<1>4. Typed
  BY <1>2, <1>3, PolicyConstants, AcquireConstants DEF Init, Typed, Result
<1>5. Slots
  <2>1. Begun = {}
    BY Zenon DEF Init, Begun
  <2> QED BY <2>1, FS_EmptySet, AcquireConstants DEF Init, Slots
<1>6. ASSUME NEW c \in Calls PROVE CallInv(c)
  <2>1. policy[c].MaxAttempts >= 1
    BY Zenon, <1>1 DEF Documented
  <2>2. policy[c].MaxAttempts \in Nat
    BY Zenon, <1>1 DEF PolicyOptions
  <2> QED BY <1>1, <2>1, <2>2 DEF Init, CallInv, Definite
<1> QED BY Zenon, <1>4, <1>5, <1>6

\* The inductive invariant of Client.Acquire.
THEOREM Invariance == Spec => []IInv
<1>1. IInv /\ [Next]_vars => IInv'
  <2> SUFFICES ASSUME IInv, [Next]_vars PROVE IInv'
    BY Zenon
  <2>1. Typed' /\ Slots' /\ (\A c \in Calls : CallInv(c))'
    BY Zenon, Parts, SlotStep, CallStep DEF Rest
  <2> QED BY Zenon, <2>1 DEF IInv, TypeOK, WaitersConserved, PolicyRespected, Typed, Slots, Begun, CallInv
<1> QED BY <1>1, InitInv, PTL DEF Spec

\* However many calls there are and whichever way they end, the client's
\* semaphore has as many tokens out as there are calls under way.
THEOREM SlotsConserved == Spec => []WaitersConserved
<1>1. IInv => WaitersConserved
  BY Zenon DEF IInv
<1> QED BY <1>1, Invariance, PTL

\* No call exceeds the policy that NewPolicy made for it.
THEOREM PolicyKept == Spec => []PolicyRespected
<1>1. IInv => PolicyRespected
  BY Zenon DEF IInv
<1> QED BY <1>1, Invariance, PTL

\* A call never leaves two leases behind.
THEOREM OneGrant == Spec => []OneGrantPerCall
<1>1. IInv => OneGrantPerCall
  BY Parts DEF CallInv, OneGrantPerCall
<1> QED BY <1>1, Invariance, PTL

\* ErrCanceled and ErrBackendUnavailable mean that nothing was granted and
\* nothing will be; a handle means that its lease was.
THEOREM DefiniteErrors == Spec => []DefiniteErrorsAreDefinite
<1>1. IInv => DefiniteErrorsAreDefinite
  BY Zenon, Parts DEF CallInv, DefiniteErrorsAreDefinite
<1> QED BY <1>1, Invariance, PTL
===============================================================================
