----------------------------- MODULE MCAcquireLoop -----------------------------
(***************************************************************************)
(* Two calls on one waiter slot, with and without a wait.  Durations have  *)
(* four bits; among the options are ones that miss each of NewPolicy's     *)
(* conditions by one and ones whose remaining TTL wraps around.            *)
(***************************************************************************)
EXTENDS AcquireLoop

MCJitters == {-1, 0, 1, 2}

Base == [TTL |-> 3, Wait |-> 3, Retry |-> 1, Jitter |-> 1, RenewEvery |-> 1,
         SafetyMargin |-> 1, MaxAttempts |-> 2, OperationTimeout |-> 0, FailureBehavior |-> 0]

MCOptions ==
  {Base, [Base EXCEPT !.Wait = 0]} \cup
  {[Base EXCEPT !.TTL = x] : x \in {-8, -1, 0, 7}} \cup
  {[Base EXCEPT !.SafetyMargin = x] : x \in {-8, -5, -1, 3}} \cup
  {[Base EXCEPT !.RenewEvery = x] : x \in {-1, 2}} \cup
  {[Base EXCEPT !.Retry = x] : x \in {0, 7}} \cup
  {[Base EXCEPT !.Jitter = x] : x \in {-1, 2}} \cup
  {[Base EXCEPT !.Wait = x] : x \in {-1, 7}} \cup
  {[Base EXCEPT !.MaxAttempts = x] : x \in {0, 3}} \cup
  {[Base EXCEPT !.OperationTimeout = x] : x \in {-1, 6}} \cup
  {[Base EXCEPT !.FailureBehavior = 2]}
===============================================================================
