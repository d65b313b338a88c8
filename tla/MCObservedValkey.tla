---------------------------- MODULE MCObservedValkey ----------------------------
(***************************************************************************)
(* Two owners compete for one key with two tokens; the client they share   *)
(* and two observers, which call the backend themselves, make the calls.   *)
(* A lease lasts one tick of a clock that jumps both ways.                 *)
(***************************************************************************)
EXTENDS ObservedValkey

MCDuration == {1}

\* Observers do not look at the answers they are told of, so everything they
\* can do is followed before the first token is issued; from then on what the
\* store and the writers do, while a callback of each observer is running.  An
\* Offer step never leaves the bound, so CallsReturn is not affected.
MCBound ==
  \/ \A k \in Key : counter[k] = 0
  \/ \A s \in Slot : observing[s] > 0 /\ emitting[s] = 0
===============================================================================
