--------------------------------- MODULE Policy ---------------------------------
(***************************************************************************)
(* policy.go: the validation of acquisition and renewal options.  A        *)
(* duration is a signed machine integer, so the one subtraction that       *)
(* NewPolicy makes before it has checked anything may wrap around.         *)
(***************************************************************************)
EXTENDS Integers

CONSTANTS
  MaxDuration,          \* the largest time.Duration
  MaxTTL, MaxWait, MaxAttempts, MaxOperationTimeout,
  DefaultTimeout        \* 30 * time.Second

ASSUME PolicyConstants ==
  /\ MaxDuration \in Nat /\ MaxAttempts \in Nat
  /\ MaxTTL \in 0..MaxDuration /\ MaxWait \in 0..MaxDuration
  /\ MaxOperationTimeout \in 0..MaxDuration /\ DefaultTimeout \in 1..MaxOperationTimeout

Duration == (-MaxDuration - 1)..MaxDuration
FailClosed == 1
PolicyOptions ==
  [TTL : Duration, Wait : Duration, Retry : Duration, Jitter : Duration,
   RenewEvery : Duration, SafetyMargin : Duration, MaxAttempts : Nat,
   OperationTimeout : Duration, FailureBehavior : Nat]

\* Subtraction of durations wraps around.
minus(a, b) ==
  IF a - b > MaxDuration THEN a - b - 2 * (MaxDuration + 1)
  ELSE IF a - b < -MaxDuration - 1 THEN a - b + 2 * (MaxDuration + 1)
  ELSE a - b

withDefaults(o) ==
  [o EXCEPT
     !.OperationTimeout =
        IF @ # 0 THEN @ ELSE IF o.TTL < DefaultTimeout THEN o.TTL ELSE DefaultTimeout,
     !.FailureBehavior = IF @ = 0 THEN FailClosed ELSE @]

invalidRenewal(o, remainingTTL) ==
  o.RenewEvery < 0 \/ (o.RenewEvery # 0 /\ o.RenewEvery >= remainingTTL)

\* Mutant: what is left of the TTL is tested, the margin itself is not.
validRemainder(o) ==
  LET remainingTTL == minus(o.TTL, o.SafetyMargin)
  IN  /\ o.TTL \in 1..MaxTTL /\ o.Wait \in 0..MaxWait /\ o.Retry \in 0..MaxWait
      /\ o.Jitter >= 0 /\ remainingTTL >= 1 /\ o.Jitter <= o.Retry
      /\ ~invalidRenewal(o, remainingTTL)
      /\ o.MaxAttempts \in 1..MaxAttempts
      /\ o.OperationTimeout \in 1..MaxOperationTimeout
      /\ o.FailureBehavior = FailClosed
      /\ ~(o.Wait > 0 /\ o.Retry = 0)

valid(o) ==
  LET remainingTTL == minus(o.TTL, o.SafetyMargin)
  IN  /\ o.TTL \in 1..MaxTTL /\ o.Wait \in 0..MaxWait /\ o.Retry \in 0..MaxWait
      /\ o.Jitter >= 0 /\ o.SafetyMargin >= 0
      /\ remainingTTL >= 1 /\ o.Jitter <= o.Retry
      /\ ~invalidRenewal(o, remainingTTL)
      /\ o.MaxAttempts \in 1..MaxAttempts
      /\ o.OperationTimeout \in 1..MaxOperationTimeout
      /\ o.FailureBehavior = FailClosed
      /\ ~(o.Wait > 0 /\ o.Retry = 0)

\* The policies that NewPolicy makes of a set of options; the options it
\* answers with ErrInvalidState make none.
NewPolicy(Options) == {p \in {withDefaults(o) : o \in Options} : valid(p)}

-------------------------------------------------------------------------------
\* The comments on the fields of PolicyOptions (policy.go:29-51), in integers
\* that do not wrap.
Documented(o) ==
  /\ 0 < o.TTL /\ o.TTL <= MaxTTL
  /\ 0 <= o.Wait /\ o.Wait <= MaxWait
  /\ 0 <= o.Retry /\ (o.Wait > 0 => o.Retry > 0)
  /\ 0 <= o.Jitter /\ o.Jitter <= o.Retry
  /\ 0 <= o.SafetyMargin /\ o.SafetyMargin < o.TTL
  /\ o.RenewEvery = 0 \/ (0 < o.RenewEvery /\ o.RenewEvery < o.TTL - o.SafetyMargin)
  /\ 1 <= o.MaxAttempts /\ o.MaxAttempts <= MaxAttempts
  /\ 0 <= o.OperationTimeout /\ o.OperationTimeout <= MaxOperationTimeout
  /\ o.FailureBehavior \in {0, FailClosed}
===============================================================================
