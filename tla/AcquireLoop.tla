------------------------------ MODULE AcquireLoop ------------------------------
(***************************************************************************)
(* Client.Acquire: concurrent calls of one client for one key, each        *)
(* retrying contention within its waiter slot, its attempts and its wait.  *)
(* Two clocks bound a wait: the injected Clock, read before each sleep,    *)
(* and the real-time deadline of waitContext, which fires on its own.      *)
(*                                                                         *)
(* A dispatched request is executed by the backend when it gets there,     *)
(* also after the caller has given up on its answer.  Other clients hold   *)
(* the key between and during the calls.                                   *)
(***************************************************************************)
EXTENDS Policy, FiniteSets

CONSTANTS
  Calls,        \* Acquire calls, each with an owner identity of its own
  Options,      \* the PolicyOptions in use, also invalid ones
  Jitters,      \* what the injected RetrySource answers
  MaxWaiters,   \* ClientOptions.MaxWaiters
  MaxTime       \* bound: the injected clock stays within 0..MaxTime

ASSUME AcquireConstants ==
  /\ IsFiniteSet(Calls) /\ Options \subseteq PolicyOptions /\ Jitters \subseteq Duration
  /\ MaxWaiters \in Nat \ {0} /\ MaxTime \in Nat

VARIABLES
  now,          \* the injected Clock
  waiters,      \* len(client.waiters)
  pc, policy, deadline, attempt,        \* a call's position, argument and locals
  parentDone,   \* ctx.Err() # nil
  waitErr,      \* waitContext.Err(): "nil", "deadline" or "canceled"
  request,      \* the request last dispatched: what became of it
  result,       \* what the call returned
  grants,       \* how many leases the backend has granted to the call
  holder        \* whose lease is in force: a call's or another client's

vars == <<now, waiters, pc, policy, deadline, attempt, parentDone, waitErr,
          request, result, grants, holder>>

NoCall == "no call"
Rival == "another client"
Definite == {"ErrCanceled", "ErrBackendUnavailable"}
Result == Definite \cup {"none", "handle", "ErrTimeout", "ErrAmbiguousOutcome"}

TypeOK ==
  /\ now \in 0..MaxTime /\ waiters \in 0..MaxWaiters
  /\ pc \in [Calls -> {"idle", "owner", "attempt", "reply", "sleep", "done"}]
  /\ policy \in [Calls -> PolicyOptions] /\ deadline \in [Calls -> Nat]
  /\ attempt \in [Calls -> 0..MaxAttempts]
  /\ parentDone \in [Calls -> BOOLEAN]
  /\ waitErr \in [Calls -> {"nil", "deadline", "canceled"}]
  /\ request \in [Calls -> {"none", "sent", "granted", "contended", "refused"}]
  /\ result \in [Calls -> Result]
  /\ grants \in [Calls -> Nat] /\ holder \in Calls \cup {NoCall, Rival}

Init ==
  /\ now = 0 /\ waiters = 0
  /\ pc = [c \in Calls |-> "idle"] /\ policy \in [Calls -> NewPolicy(Options)]
  /\ deadline = [c \in Calls |-> 0] /\ attempt = [c \in Calls |-> 0]
  /\ parentDone = [c \in Calls |-> FALSE] /\ waitErr = [c \in Calls |-> "nil"]
  /\ request = [c \in Calls |-> "none"] /\ result = [c \in Calls |-> "none"]
  /\ grants = [c \in Calls |-> 0] /\ holder = NoCall

Goto(c, p) == pc' = [pc EXCEPT ![c] = p]

\* Mutant: a cancelled call keeps its slot.
ReturnKeepingSlot(c, r) ==
  /\ Goto(c, "done")
  /\ result' = [result EXCEPT ![c] = r]
  /\ waiters' = IF r = "ErrCanceled" THEN waiters ELSE waiters - 1

\* The call returns; deferred, its waiter slot is free again.
Return(c, r) ==
  /\ Goto(c, "done")
  /\ result' = [result EXCEPT ![c] = r]
  /\ waiters' = waiters - 1

\* The wait is over, and not because the caller's own context is.
waitDeadlineReached(c) == ~parentDone[c] /\ waitErr[c] = "deadline"

-------------------------------------------------------------------------------
(* The call *)

\* acquisitionContextError, then a waiter slot or none.
Enter(c) ==
  /\ pc[c] = "idle"
  /\ \/ /\ ~parentDone[c] /\ waiters < MaxWaiters
        /\ waiters' = waiters + 1
        /\ Goto(c, "owner") /\ UNCHANGED result
     \/ \E r \in Definite :
          /\ IF parentDone[c] THEN r = "ErrCanceled"
                              ELSE r = "ErrBackendUnavailable" /\ waiters = MaxWaiters
          /\ Goto(c, "done") /\ result' = [result EXCEPT ![c] = r]
          /\ UNCHANGED waiters
  /\ UNCHANGED <<now, policy, deadline, attempt, parentDone, waitErr, request, grants, holder>>

\* NewOwner, and the two deadlines of the wait.
ChooseOwner(c) ==
  /\ pc[c] = "owner"
  /\ \/ /\ Goto(c, "attempt")
        /\ deadline' = [deadline EXCEPT ![c] = now + policy[c].Wait]
        /\ attempt' = [attempt EXCEPT ![c] = 1]
        /\ UNCHANGED <<result, waiters>>
     \/ Return(c, "ErrBackendUnavailable") /\ UNCHANGED <<deadline, attempt>>
  /\ UNCHANGED <<now, policy, parentDone, waitErr, request, grants, holder>>

\* Mutant: a lost answer is tried again.
isContentionOrLost(err) == err \in {"ErrContended", "ErrAmbiguousOutcome"}

isContention(err) == err = "ErrContended"

\* Another attempt after delay is outside the attempts or the wait.
budgetSpent(c, delay) ==
  policy[c].Wait = 0 \/ attempt[c] = policy[c].MaxAttempts \/ now + delay >= deadline[c]

boundedJitter(j, maximum) == IF j < 0 THEN 0 ELSE IF j > maximum THEN maximum ELSE j

\* What the loop does with an error of the backend.
AttemptFails(c, err) ==
  \/ waitDeadlineReached(c) /\ Return(c, "ErrTimeout")
  \/ ~waitDeadlineReached(c) /\ ~isContention(err) /\ Return(c, err)
  \/ /\ ~waitDeadlineReached(c) /\ isContention(err)
     /\ \E j \in Jitters :
          IF budgetSpent(c, policy[c].Retry + boundedJitter(j, policy[c].Jitter))
          THEN Return(c, "ErrTimeout")
          ELSE Goto(c, "sleep") /\ UNCHANGED <<result, waiters>>

\* backend.TryAcquire: a done context is reported before anything is sent.
Dispatch(c) ==
  /\ pc[c] = "attempt"
  /\ \/ /\ waitErr[c] # "nil" /\ AttemptFails(c, "ErrCanceled")
        /\ UNCHANGED request
     \/ /\ waitErr[c] = "nil" /\ Goto(c, "reply")
        /\ request' = [request EXCEPT ![c] = "sent"]
        /\ UNCHANGED <<result, waiters>>
  /\ UNCHANGED <<now, policy, deadline, attempt, parentDone, waitErr, grants, holder>>

\* The answer arrives.  A granted record that fails validAcquisition ends the
\* call at once.
Reply(c) ==
  /\ pc[c] = "reply"
  /\ \/ /\ request[c] = "granted"
        /\ Return(c, "handle") \/ Return(c, "ErrAmbiguousOutcome")
     \/ request[c] = "contended" /\ AttemptFails(c, "ErrContended")
     \/ request[c] = "refused" /\ AttemptFails(c, "ErrBackendUnavailable")
  /\ UNCHANGED <<now, policy, deadline, attempt, parentDone, waitErr, request, grants, holder>>

\* Mutants: an unanswered call counts as cancelled; it has no timeout.
GiveUpAsCanceled(c) ==
  /\ pc[c] = "reply" /\ AttemptFails(c, "ErrCanceled")
  /\ UNCHANGED <<now, policy, deadline, attempt, parentDone, waitErr, request, grants, holder>>
GiveUpNever(c) == FALSE

\* The operation's context is done, or the connection is lost, first.
GiveUp(c) ==
  /\ pc[c] = "reply" /\ AttemptFails(c, "ErrAmbiguousOutcome")
  /\ UNCHANGED <<now, policy, deadline, attempt, parentDone, waitErr, request, grants, holder>>

\* Sleep returns an error when waitContext is done first; an injected Sleeper
\* may fail at any time, and then counts as a cancellation.
SleepReturns(c) ==
  /\ pc[c] = "sleep"
  /\ \/ Goto(c, "attempt") /\ attempt' = [attempt EXCEPT ![c] = @ + 1]
        /\ UNCHANGED <<result, waiters>>
     \/ /\ Return(c, IF waitDeadlineReached(c) THEN "ErrTimeout" ELSE "ErrCanceled")
        /\ UNCHANGED attempt
  /\ UNCHANGED <<now, policy, deadline, parentDone, waitErr, request, grants, holder>>

Acquire(c) ==
  \/ Enter(c) \/ ChooseOwner(c) \/ Dispatch(c) \/ Reply(c) \/ GiveUp(c)
  \/ SleepReturns(c)

-------------------------------------------------------------------------------
(* Contexts, clocks and the backend *)

CallerCancels(c) ==
  /\ pc[c] # "done" /\ ~parentDone[c]
  /\ parentDone' = [parentDone EXCEPT ![c] = TRUE]
  /\ waitErr' = [waitErr EXCEPT ![c] = IF @ = "nil" THEN "canceled" ELSE @]
  /\ UNCHANGED <<now, waiters, pc, policy, deadline, attempt, request, result, grants, holder>>

WaitExpires(c) ==
  /\ pc[c] \in {"attempt", "reply", "sleep"} /\ policy[c].Wait > 0 /\ waitErr[c] = "nil"
  /\ waitErr' = [waitErr EXCEPT ![c] = "deadline"]
  /\ UNCHANGED <<now, waiters, pc, policy, deadline, attempt, parentDone, request,
                 result, grants, holder>>

\* The injected clock moves, forwards or backwards, or stands still.
Advance ==
  /\ now' \in 0..MaxTime
  /\ UNCHANGED <<waiters, pc, policy, deadline, attempt, parentDone, waitErr, request,
                 result, grants, holder>>

\* The backend executes a request, in time or late; it may refuse it unchanged
\* (token exhaustion, key capacity).
Execute(c) ==
  /\ request[c] = "sent"
  /\ \/ /\ holder = NoCall /\ holder' = c
        /\ grants' = [grants EXCEPT ![c] = @ + 1]
        /\ request' = [request EXCEPT ![c] = "granted"]
     \/ /\ \/ holder # NoCall /\ request' = [request EXCEPT ![c] = "contended"]
           \/ request' = [request EXCEPT ![c] = "refused"]
        /\ UNCHANGED <<grants, holder>>
  /\ UNCHANGED <<now, waiters, pc, policy, deadline, attempt, parentDone, waitErr, result>>

\* The lease in force is released or expires, or another client gets the key.
Others ==
  /\ holder' = IF holder = NoCall THEN Rival ELSE NoCall
  /\ UNCHANGED <<now, waiters, pc, policy, deadline, attempt, parentDone, waitErr,
                 request, result, grants>>

Next ==
  \/ \E c \in Calls : Acquire(c) \/ CallerCancels(c) \/ WaitExpires(c) \/ Execute(c)
  \/ Advance \/ Others

Spec == Init /\ [][Next]_vars

\* Calls that have begun go on; a backend call ends at the latest with its
\* operation timeout and a Sleep with its delay.  Nothing has to start, and the
\* clocks, the backend and the leases owe nothing.
FairSpec == Spec /\ \A c \in Calls : WF_vars(pc[c] # "idle" /\ Acquire(c))

-------------------------------------------------------------------------------
(* Properties *)

\* Waiter slots are conserved: taken by exactly the calls under way, whichever
\* of Acquire's returns they leave by.
WaitersConserved ==
  waiters = Cardinality({c \in Calls : pc[c] \notin {"idle", "done"}})

\* A call keeps to the policy NewPolicy gave it, whose fields are in the
\* relations they document: no attempt beyond MaxAttempts, and a single one
\* where there is no wait.
PolicyRespected ==
  \A c \in Calls :
    /\ Documented(policy[c])
    /\ attempt[c] <= policy[c].MaxAttempts /\ (policy[c].Wait = 0 => attempt[c] <= 1)

\* An Acquire call never leaves two leases behind: a lost answer is not
\* retried, and contention proves that the earlier attempts granted nothing.
OneGrantPerCall == \A c \in Calls : grants[c] <= 1

\* The errors Acquire reports as definite are: nothing was granted to the call
\* and no request of it can still be granted.  A handle stands for a grant.
DefiniteErrorsAreDefinite ==
  \A c \in Calls :
    /\ result[c] \in Definite => grants[c] = 0 /\ request[c] # "sent"
    /\ result[c] = "handle" => grants[c] = 1

\* The strengthening of these that every step preserves: a call that is about
\* to make an attempt has no request on the way, and the only answer it has
\* had is contention.
IInv ==
  /\ TypeOK /\ WaitersConserved /\ PolicyRespected
  /\ \A c \in Calls :
       /\ pc[c] \in {"idle", "owner", "attempt", "sleep"} => request[c] \in {"none", "contended"}
       /\ pc[c] = "sleep" => attempt[c] < policy[c].MaxAttempts /\ policy[c].Wait > 0
       /\ pc[c] # "done" => result[c] = "none"
       /\ grants[c] = IF request[c] = "granted" THEN 1 ELSE 0
       /\ result[c] \in Definite => request[c] \notin {"sent", "granted"}
       /\ result[c] = "handle" => request[c] = "granted"

\* Every Acquire returns, also on an injected clock that stands still or is set
\* back, on a key that stays contended and on a backend that never answers.
AcquireReturns == \A c \in Calls : pc[c] = "owner" ~> pc[c] = "done"

\* docs/failure-matrix.md: a mutation that is canceled or timed out after its
\* dispatch is reported as ErrAmbiguousOutcome, so ErrTimeout stands for
\* contention: nothing was granted and nothing can still be.
TimeoutMeansNotGranted ==
  \A c \in Calls : result[c] = "ErrTimeout" => grants[c] = 0 /\ request[c] # "sent"
===============================================================================
