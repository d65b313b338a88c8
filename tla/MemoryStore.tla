------------------------------ MODULE MemoryStore ------------------------------
(***************************************************************************)
(* memory/store.go: the process-local store.  Every method holds the       *)
(* store's mutex for its whole body, so each call is one step.  A caller   *)
(* may present any record it ever saw, of this store or of one it          *)
(* replaced, so the owner and token of a call range over all of them.      *)
(***************************************************************************)
EXTENDS Integers, FiniteSets

CONSTANTS
  Key, Owner,
  Duration,     \* lease durations callers ask for, also rejected ones
  MaxKeys,      \* Options.MaxKeys
  MaxToken,     \* math.MaxUint64
  MaxClock      \* bound: the injected clock stays within 0..MaxClock

ASSUME MemoryConstants ==
  /\ Duration \subseteq Int
  /\ MaxKeys \in Nat \ {0}
  /\ MaxToken \in Nat \ {0}
  /\ MaxClock \in Nat

VARIABLES
  clock,        \* the injected Clock; it may be set back (leasetest.Clock)
  entries,      \* map[string]entry: the keys ever acquired
  reply         \* the last call and what it returned

vars == <<clock, entries, reply>>

Record == [owner : Owner, token : 1..MaxToken, acquiredAt : Int, expiresAt : Int]
Entry == [record : Record, active : BOOLEAN]

\* Go's zero lease.Record.
NoRecord == [owner |-> "none", token |-> 0, acquiredAt |-> 0, expiresAt |-> 0]

TypeOK ==
  /\ clock \in 0..MaxClock
  /\ DOMAIN entries \subseteq Key
  /\ \A k \in DOMAIN entries : entries[k] \in Entry

\* The last token of a key; indexing the map with an absent key yields the
\* zero entry.
TokenOf(k) == IF k \in DOMAIN entries THEN entries[k].record.token ELSE 0

live(k) == /\ k \in DOMAIN entries /\ entries[k].active
           /\ clock < entries[k].record.expiresAt

sameOwner(k, o, t) == /\ k \in DOMAIN entries
                      /\ entries[k].record.owner = o
                      /\ entries[k].record.token = t

store(k, e) ==
  entries' = [x \in DOMAIN entries \cup {k} |-> IF x = k THEN e ELSE entries[x]]

Return(op, k, o, t, err, rec) ==
  reply' = [op |-> op, key |-> k, owner |-> o, token |-> t, at |-> clock,
            err |-> err, record |-> rec]

\* Mutant: known keys are refused at capacity, too.
fullForEveryKey(k) == Cardinality(DOMAIN entries) >= MaxKeys

full(k) == k \notin DOMAIN entries /\ Cardinality(DOMAIN entries) >= MaxKeys

\* Mutant: the last token is not the end.
neverExhausted(k) == FALSE

exhausted(k) == TokenOf(k) = MaxToken

\* What is checked before the lock is taken: the context, the identity and
\* the duration, in that order.
validate(done, t, d) ==
  IF done THEN "ErrCanceled"
  ELSE IF t = 0 \/ d <= 0 THEN "ErrInvalidState" ELSE "nil"

reject(op, k, o, t, err) ==
  /\ err # "nil"
  /\ Return(op, k, o, t, err, NoRecord)
  /\ UNCHANGED entries

Init ==
  /\ clock \in 0..MaxClock
  /\ entries = [k \in {} |-> 0]
  /\ reply = [op |-> "none", token |-> 0]

TryAcquire(k, o, d, done) ==
  LET err       == validate(done, 1, d)
      granted   == [owner |-> o, token |-> TokenOf(k) + 1,
                    acquiredAt |-> clock, expiresAt |-> clock + d]
  IN  /\ \/ reject("acquire", k, o, 0, err)
         \/ /\ err = "nil" /\ live(k)
            /\ Return("acquire", k, o, 0, "ErrContended", NoRecord)
            /\ UNCHANGED entries
         \/ /\ err = "nil" /\ ~live(k) /\ (full(k) \/ exhausted(k))
            /\ Return("acquire", k, o, 0, "ErrBackendUnavailable", NoRecord)
            /\ UNCHANGED entries
         \/ /\ err = "nil" /\ ~live(k) /\ ~full(k) /\ ~exhausted(k)
            /\ Return("acquire", k, o, 0, "nil", granted)
            /\ store(k, [record |-> granted, active |-> TRUE])
      /\ UNCHANGED clock

Renew(k, o, t, d, done) ==
  LET err     == validate(done, t, d)
      renewed == [entries[k].record EXCEPT !.expiresAt = clock + d]
  IN  /\ \/ reject("renew", k, o, t, err)
         \/ /\ err = "nil" /\ live(k) /\ sameOwner(k, o, t)
            /\ Return("renew", k, o, t, "nil", renewed)
            /\ store(k, [record |-> renewed, active |-> TRUE])
         \/ /\ err = "nil" /\ ~(live(k) /\ sameOwner(k, o, t))
            /\ Return("renew", k, o, t, "ErrStaleOwner", NoRecord)
            /\ UNCHANGED entries
      /\ UNCHANGED clock

Validate(k, o, t, done) ==
  LET err == validate(done, t, 1)
  IN  /\ \/ reject("validate", k, o, t, err)
         \/ /\ err = "nil" /\ live(k) /\ sameOwner(k, o, t)
            /\ Return("validate", k, o, t, "nil", entries[k].record)
            /\ UNCHANGED entries
         \/ /\ err = "nil" /\ ~(live(k) /\ sameOwner(k, o, t))
            /\ Return("validate", k, o, t, "ErrStaleOwner", NoRecord)
            /\ UNCHANGED entries
      /\ UNCHANGED clock

\* Mutant: a released lease is not recognised when it is released again.
ReleaseOnce(k, o, t, done) ==
  LET err == validate(done, t, 1)   mine == sameOwner(k, o, t) /\ entries[k].active
  IN  /\ \/ reject("release", k, o, t, err)
         \/ /\ err = "nil" /\ mine
            /\ Return("release", k, o, t, "nil", NoRecord)
            /\ store(k, [entries[k] EXCEPT !.active = FALSE])
         \/ /\ err = "nil" /\ ~mine
            /\ Return("release", k, o, t, "ErrStaleOwner", NoRecord)
            /\ UNCHANGED entries
      /\ UNCHANGED clock

\* Release does not look at the clock: an expired lease that nobody replaced
\* is still the caller's to release, and a released one may be released again.
Release(k, o, t, done) ==
  LET err == validate(done, t, 1)
  IN  /\ \/ reject("release", k, o, t, err)
         \/ /\ err = "nil" /\ sameOwner(k, o, t)
            /\ Return("release", k, o, t, "nil", NoRecord)
            /\ store(k, [entries[k] EXCEPT !.active = FALSE])
         \/ /\ err = "nil" /\ ~sameOwner(k, o, t)
            /\ Return("release", k, o, t, "ErrStaleOwner", NoRecord)
            /\ UNCHANGED entries
      /\ UNCHANGED clock

\* leasetest.Clock.Advance, forwards or backwards.
Advance ==
  /\ clock' \in 0..MaxClock
  /\ UNCHANGED <<entries, reply>>

Next ==
  \/ \E k \in Key, o \in Owner, done \in BOOLEAN :
       \/ \E d \in Duration : TryAcquire(k, o, d, done)
       \/ \E t \in 0..MaxToken :
            \/ \E d \in Duration : Renew(k, o, t, d, done)
            \/ Validate(k, o, t, done)
            \/ Release(k, o, t, done)
  \/ Advance

Spec == Init /\ [][Next]_vars

-------------------------------------------------------------------------------
\* The store's entries as a lease table: an active entry is the lease in
\* force, an inactive one the record of a released lease, and the token of any
\* entry is the fence it retains.  A key never acquired has no owner.
Contract == INSTANCE LeaseContract WITH
  serverClock <- clock,
  fence <- [k \in Key |-> TokenOf(k)],
  lease <- [k \in Key |-> IF k \in DOMAIN entries /\ entries[k].active
                          THEN entries[k].record ELSE NoRecord],
  former <- [k \in Key |-> IF k \in DOMAIN entries /\ ~entries[k].active
                           THEN entries[k].record ELSE NoRecord],
  overtaken <- FALSE,
  Missing <- "ErrStaleOwner"

\* The store keeps the promise of the Backend interface: every method call of
\* memory/store.go is one transition of the lease table, with an answer the
\* contract allows.
ImplementsContract == Contract!ContractSpec

\* MaxKeys bounds the keys retained for the store's lifetime, and running into
\* it (or into the last token) costs new keys only: TryAcquire on a known key
\* with tokens left is never refused as unavailable.
CapacityOnlyRefusesNewKeys ==
  /\ Cardinality(DOMAIN entries) <= MaxKeys
  /\ reply.op = "acquire" /\ reply.err = "ErrBackendUnavailable" =>
       \/ TokenOf(reply.key) = MaxToken
       \/ reply.key \notin DOMAIN entries /\ Cardinality(DOMAIN entries) = MaxKeys
===============================================================================
