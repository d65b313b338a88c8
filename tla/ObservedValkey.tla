----------------------------- MODULE ObservedValkey -----------------------------
(***************************************************************************)
(* The Valkey store behind ObservedBackend, with the writers it protects.  *)
(* A call takes effect on the server, is offered to the observers slot by  *)
(* slot, and returns; calls of several clients and of the observers        *)
(* themselves overlap.                                                     *)
(***************************************************************************)
EXTENDS ProtectedWrites, Observation

vars == <<storeVars, writeVars, observationVars>>

Init == StoreInit /\ WritesInit /\ ObservationInit

ObservedCall(c) == Observe(c) /\ BackendCall /\ UNCHANGED writeVars

\* What the store and the writers do not notice.
Aside == reply' = NoReply /\ UNCHANGED <<clock, counter, hash, deployment, open, writeVars>>
Offer(c) == emit(c) /\ Aside
Callback(s) == (callObserver(s) \/ freeSlot(s)) /\ Aside

Next ==
  \/ \E c \in Caller : ObservedCall(c) \/ Offer(c)
  \/ \E s \in Slot : Callback(s)
  \/ Server /\ UNCHANGED <<writeVars, observationVars>>
  \/ Write /\ UNCHANGED observationVars

\* emit never waits, so a call that is in it goes on; callbacks owe nothing.
Spec == Init /\ [][Next]_vars /\ \A c \in Caller : WF_vars(Offer(c))

-------------------------------------------------------------------------------
\* The strengthening of the safety properties that every step preserves.
\* A deployment whose keys may be evicted has none of ours (Open); a hash has
\* the last token of its counter, which no effect exceeds.
IInv ==
  /\ StoreTypeOK /\ WritesTypeOK /\ ObservationTypeOK
  /\ IF open THEN deployment.eviction = "noeviction"
     ELSE \A k \in Key : counter[k] = 0 /\ hash[k] = NoRecord
  /\ \A k \in Key :
       /\ hash[k] # NoRecord => hash[k].token = counter[k]
       /\ published[k] <= counter[k] /\ fence[k] <= counter[k]
  /\ OneCallbackPerSlot
===============================================================================
