---------------------------- MODULE ProtectedWrites ----------------------------
(***************************************************************************)
(* Effects made under a lease of the Valkey store, by any owner there ever *)
(* was and however late: cache entries that a script publishes under the   *)
(* guard of a record (Store.Guard and docs/protected-writes.md), and a     *)
(* resource that keeps the highest fence it has accepted                   *)
(* (examples/protectedwrite).                                              *)
(***************************************************************************)
EXTENDS ValkeyStore

VARIABLES
  published,    \* under which token the cache entry of a key was written
  fence         \* resource.fence

writeVars == <<published, fence>>

WritesTypeOK == published \in [Key -> Nat] /\ fence \in [Key -> Nat]

WritesInit ==
  published = [k \in Key |-> 0] /\ fence = [k \in Key |-> 0]

\* Store.Guard of a record: where the writer looks, and for what.
Guard(k, o, t) == [storageKey |-> k, owner |-> o, token |-> t]

\* The writer's own script compares the guard with the lease hash.
admits(guard) ==
  hash[guard.storageKey].owner = guard.owner /\ hash[guard.storageKey].token = guard.token

SetIfOwned(k, o, t) ==
  /\ Names(k) /\ admits(Guard(k, o, t))
  /\ published' = [published EXCEPT ![k] = t]
  /\ reply' = NoReply
  /\ UNCHANGED <<clock, counter, hash, deployment, open, fence>>

\* resource.write: the comparison and the effect are one critical section.
write(k, t) ==
  /\ t > fence[k]
  /\ fence' = [fence EXCEPT ![k] = t]
  /\ reply' = NoReply
  /\ UNCHANGED <<clock, counter, hash, deployment, open, published>>

Write ==
  \E k \in Key : \E t \in 1..counter[k] :
    write(k, t) \/ \E o \in Owner : SetIfOwned(k, o, t)

-------------------------------------------------------------------------------
\* docs/protected-writes.md: "Missing, expired, released, and successor leases
\* reject old publishers": what a holder has published is not overwritten
\* under an older lease, also when the server's clock is set back.
PublicationOrdered == [][\A k \in Key : published'[k] >= published[k]]_<<storeVars, writeVars>>

\* The holder of the lease can write: a resource has never accepted a token
\* above the one in force, so a fence shuts out predecessors only.
HolderIsNotOutranked ==
  \A k \in Key : hash[k] # NoRecord => fence[k] <= hash[k].token
===============================================================================
