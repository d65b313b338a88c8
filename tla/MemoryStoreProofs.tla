--------------------------- MODULE MemoryStoreProofs ---------------------------
(***************************************************************************)
(* The process-local store, for every set of keys, owners and durations:   *)
(* its type invariant, the bound on retained keys, and that it implements  *)
(* the backend contract.                                                   *)
(***************************************************************************)
EXTENDS MemoryStore, FiniteSetTheorems, TLAPS

\* The keys retained are finitely many, which is what their number needs.
Retained == IsFiniteSet(DOMAIN entries)

\* The inductive invariant.
MemoryInv == TypeOK /\ Retained /\ CapacityOnlyRefusesNewKeys

\* A call that leaves the entries and the clock alone.
Answers(op, k, o, t, err, rec) ==
  Return(op, k, o, t, err, rec) /\ UNCHANGED <<entries, clock>>

-------------------------------------------------------------------------------
(* The operators *)

\* A record in the store is not the zero record.
LEMMA RecordIsNot == \A rec \in Record : rec # NoRecord
<1> SUFFICES ASSUME NEW rec \in Record PROVE rec.token # NoRecord.token
  BY Zenon
<1>0. NoRecord.token = 0
  BY Zenon DEF NoRecord
<1>1. rec.token \in 1..MaxToken
  BY Zenon DEF Record
<1> QED BY <1>0, <1>1, MemoryConstants

\* The last token of a key, and the entry it belongs to.
LEMMA TokenBound ==
  ASSUME TypeOK, NEW k \in Key
  PROVE  TokenOf(k) \in 0..MaxToken
<1>1. CASE k \in DOMAIN entries
  <2>1. entries[k].record.token \in 1..MaxToken
    BY Zenon, <1>1 DEF TypeOK, Entry, Record
  <2>2. TokenOf(k) = entries[k].record.token
    BY Zenon, <1>1 DEF TokenOf
  <2> QED BY <2>1, <2>2, MemoryConstants
<1>2. CASE k \notin DOMAIN entries
  BY <1>2, MemoryConstants DEF TokenOf
<1> QED BY Zenon, <1>1, <1>2

\* A record made by an acquisition has the type of one.
LEMMA GrantedRecord ==
  ASSUME TypeOK, NEW k \in Key, NEW o \in Owner, NEW d \in Duration, ~exhausted(k)
  PROVE  [owner |-> o, token |-> TokenOf(k) + 1,
          acquiredAt |-> clock, expiresAt |-> clock + d] \in Record
<1>1. TokenOf(k) \in 0..MaxToken /\ TokenOf(k) # MaxToken
  BY Zenon, TokenBound DEF exhausted
<1>2. clock \in 0..MaxClock /\ d \in Int
  BY Zenon, MemoryConstants DEF TypeOK
<1>3. TokenOf(k) + 1 \in 1..MaxToken /\ clock \in Int /\ clock + d \in Int
  BY <1>1, <1>2, MemoryConstants
<1> QED BY Zenon, <1>3 DEF Record

\* A record that a renewal makes differs in its expiry only.
LEMMA RenewedRecord ==
  ASSUME TypeOK, NEW k \in Key, NEW d \in Duration, k \in DOMAIN entries
  PROVE  LET renewed == [entries[k].record EXCEPT !.expiresAt = clock + d]
         IN  /\ renewed \in Record /\ renewed.token = entries[k].record.token
             /\ renewed = [owner |-> entries[k].record.owner, token |-> entries[k].record.token,
                           acquiredAt |-> entries[k].record.acquiredAt, expiresAt |-> clock + d]
<1>1. entries[k].record \in Record
  BY Zenon DEF TypeOK, Entry
<1>2. clock \in 0..MaxClock /\ d \in Int
  BY Zenon, MemoryConstants DEF TypeOK
<1>3. clock + d \in Int
  BY <1>2, MemoryConstants
<1> QED BY <1>1, <1>3 DEF Record

\* Storing an entry for a key changes that key only.
LEMMA Stored ==
  ASSUME NEW k, NEW e, store(k, e)
  PROVE  /\ DOMAIN entries' = DOMAIN entries \cup {k}
         /\ entries'[k] = e
         /\ \A x \in DOMAIN entries : x # k => entries'[x] = entries[x]
BY Zenon DEF store

-------------------------------------------------------------------------------
(* The invariant *)

\* A step that keeps the entries; it answers ErrBackendUnavailable only to an
\* acquisition that met a limit.
LEMMA AnswerInv ==
  ASSUME MemoryInv, NEW op, NEW k, NEW o, NEW t, NEW err, NEW rec,
         Answers(op, k, o, t, err, rec),
         err = "ErrBackendUnavailable" => /\ op = "acquire" /\ k \in Key
                                          /\ full(k) \/ exhausted(k)
  PROVE  MemoryInv'
<1>0. UNCHANGED <<entries, clock>> /\ reply'.op = op /\ reply'.err = err /\ reply'.key = k
  BY Zenon DEF Answers, Return
<1>1. TypeOK' /\ Retained'
  BY Zenon, <1>0 DEF MemoryInv, TypeOK, Retained
<1>2. Cardinality(DOMAIN entries') <= MaxKeys
  BY Zenon, <1>0 DEF MemoryInv, CapacityOnlyRefusesNewKeys
<1>3. TokenOf(k)' = TokenOf(k)
  BY Zenon, <1>0 DEF TokenOf
<1>4. full(k) => Cardinality(DOMAIN entries) = MaxKeys
  <2>1. Cardinality(DOMAIN entries) \in Nat
    BY Zenon, FS_CardinalityType DEF MemoryInv, Retained
  <2> QED BY <2>1, MemoryConstants DEF full, MemoryInv, CapacityOnlyRefusesNewKeys
<1>5. CapacityOnlyRefusesNewKeys'
  BY Zenon, <1>0, <1>2, <1>3, <1>4 DEF CapacityOnlyRefusesNewKeys, TokenOf, exhausted, full
<1> QED BY Zenon, <1>1, <1>5 DEF MemoryInv

\* A step that stores an entry and succeeds: a new key finds a place.
LEMMA StoreInv ==
  ASSUME MemoryInv, NEW op, NEW k \in Key, NEW o, NEW t, NEW rec, NEW e \in Entry,
         store(k, e), Return(op, k, o, t, "nil", rec), UNCHANGED clock, ~full(k)
  PROVE  MemoryInv'
<1>0. /\ DOMAIN entries' = DOMAIN entries \cup {k}
      /\ entries'[k] = e
      /\ \A x \in DOMAIN entries : x # k => entries'[x] = entries[x]
  BY Zenon, Stored
<1>1. TypeOK'
  <2>1. DOMAIN entries' \subseteq Key /\ clock' \in 0..MaxClock
    BY Zenon, <1>0 DEF MemoryInv, TypeOK
  <2>2. ASSUME NEW x \in DOMAIN entries' PROVE entries'[x] \in Entry
    BY Zenon, <1>0, <2>2 DEF MemoryInv, TypeOK
  <2> QED BY Zenon, <2>1, <2>2 DEF TypeOK
<1>2. Retained' /\ Cardinality(DOMAIN entries') <= MaxKeys
  <2>1. IsFiniteSet(DOMAIN entries) /\ Cardinality(DOMAIN entries) \in Nat
    BY Zenon, FS_CardinalityType DEF MemoryInv, Retained
  <2>2. /\ IsFiniteSet(DOMAIN entries \cup {k})
        /\ \/ Cardinality(DOMAIN entries \cup {k}) = Cardinality(DOMAIN entries)
           \/ /\ Cardinality(DOMAIN entries \cup {k}) = Cardinality(DOMAIN entries) + 1
              /\ k \notin DOMAIN entries
    BY Zenon, <2>1, FS_AddElement
  <2>3. /\ Cardinality(DOMAIN entries) <= MaxKeys
        /\ k \notin DOMAIN entries => ~ (Cardinality(DOMAIN entries) >= MaxKeys)
    BY Zenon DEF MemoryInv, CapacityOnlyRefusesNewKeys, full
  <2>4. Cardinality(DOMAIN entries \cup {k}) <= MaxKeys
    BY <2>1, <2>2, <2>3, MemoryConstants
  <2> QED BY Zenon, <2>2, <2>4, <1>0 DEF Retained
<1>3. reply'.err = "nil"
  BY Zenon DEF Return
<1> QED BY Zenon, <1>1, <1>2, <1>3 DEF MemoryInv, CapacityOnlyRefusesNewKeys

\* A call that is turned away before the lock.
LEMMA RejectInv ==
  ASSUME MemoryInv, NEW op, NEW k, NEW o, NEW t, NEW done \in BOOLEAN, NEW v, NEW d,
         reject(op, k, o, t, validate(done, v, d)), UNCHANGED clock
  PROVE  MemoryInv'
<1>1. Answers(op, k, o, t, validate(done, v, d), NoRecord)
  BY Zenon DEF reject, Answers
<1>2. validate(done, v, d) # "ErrBackendUnavailable"
  BY Zenon DEF validate
<1> QED BY Zenon, <1>1, <1>2, AnswerInv

\* TryAcquire: only a full store and a spent fence are unavailable.
LEMMA AcquireInv ==
  ASSUME MemoryInv, NEW k \in Key, NEW o \in Owner, NEW d \in Duration, NEW done \in BOOLEAN,
         TryAcquire(k, o, d, done)
  PROVE  MemoryInv'
<1> DEFINE granted == [owner |-> o, token |-> TokenOf(k) + 1,
                       acquiredAt |-> clock, expiresAt |-> clock + d]
<1>1. UNCHANGED clock
  BY Zenon DEF TryAcquire
<1>2. CASE reject("acquire", k, o, 0, validate(done, 1, d))
  BY Zenon, <1>1, <1>2, RejectInv
<1>3. CASE Return("acquire", k, o, 0, "ErrContended", NoRecord) /\ UNCHANGED entries
  BY Zenon, <1>1, <1>3, AnswerInv DEF Answers
<1>4. CASE /\ full(k) \/ exhausted(k)
           /\ Return("acquire", k, o, 0, "ErrBackendUnavailable", NoRecord) /\ UNCHANGED entries
  BY Zenon, <1>1, <1>4, AnswerInv DEF Answers
<1>5. CASE /\ ~full(k) /\ ~exhausted(k)
           /\ Return("acquire", k, o, 0, "nil", granted)
           /\ store(k, [record |-> granted, active |-> TRUE])
  <2>1. granted \in Record
    BY Zenon, <1>5, GrantedRecord DEF MemoryInv
  <2> HIDE DEF granted
  <2>2. [record |-> granted, active |-> TRUE] \in Entry
    BY Zenon, <2>1 DEF Entry
  <2> QED BY Zenon, <1>1, <1>5, <2>2, StoreInv
<1> QED BY Zenon, <1>2, <1>3, <1>4, <1>5 DEF TryAcquire

\* Renew stores the entry it found with a later expiry.
LEMMA RenewInv ==
  ASSUME MemoryInv, NEW k \in Key, NEW o \in Owner, NEW t, NEW d \in Duration,
         NEW done \in BOOLEAN, Renew(k, o, t, d, done)
  PROVE  MemoryInv'
<1> DEFINE renewed == [entries[k].record EXCEPT !.expiresAt = clock + d]
<1>1. UNCHANGED clock
  BY Zenon DEF Renew
<1>2. CASE reject("renew", k, o, t, validate(done, t, d))
  BY Zenon, <1>1, <1>2, RejectInv
<1>3. CASE Return("renew", k, o, t, "ErrStaleOwner", NoRecord) /\ UNCHANGED entries
  BY Zenon, <1>1, <1>3, AnswerInv DEF Answers
<1>4. CASE /\ live(k) /\ Return("renew", k, o, t, "nil", renewed)
           /\ store(k, [record |-> renewed, active |-> TRUE])
  <2>1. k \in DOMAIN entries /\ ~full(k)
    BY Zenon, <1>4 DEF live, full
  <2>2. renewed \in Record
    BY Zenon, <2>1, RenewedRecord DEF MemoryInv
  <2> HIDE DEF renewed
  <2>3. [record |-> renewed, active |-> TRUE] \in Entry
    BY Zenon, <2>2 DEF Entry
  <2> QED BY Zenon, <1>1, <1>4, <2>1, <2>3, StoreInv
<1> QED BY Zenon, <1>2, <1>3, <1>4 DEF Renew

\* Validate changes nothing.
LEMMA ValidateInv ==
  ASSUME MemoryInv, NEW k \in Key, NEW o \in Owner, NEW t, NEW done \in BOOLEAN,
         Validate(k, o, t, done)
  PROVE  MemoryInv'
<1>1. UNCHANGED clock
  BY Zenon DEF Validate
<1>2. CASE reject("validate", k, o, t, validate(done, t, 1))
  BY Zenon, <1>1, <1>2, RejectInv
<1>3. CASE Return("validate", k, o, t, "ErrStaleOwner", NoRecord) /\ UNCHANGED entries
  BY Zenon, <1>1, <1>3, AnswerInv DEF Answers
<1>4. CASE Return("validate", k, o, t, "nil", entries[k].record) /\ UNCHANGED entries
  BY Zenon, <1>1, <1>4, AnswerInv DEF Answers
<1> QED BY Zenon, <1>2, <1>3, <1>4 DEF Validate

\* Release keeps the entry, inactive.
LEMMA ReleaseInv ==
  ASSUME MemoryInv, NEW k \in Key, NEW o \in Owner, NEW t, NEW done \in BOOLEAN,
         Release(k, o, t, done)
  PROVE  MemoryInv'
<1>1. UNCHANGED clock
  BY Zenon DEF Release
<1>2. CASE reject("release", k, o, t, validate(done, t, 1))
  BY Zenon, <1>1, <1>2, RejectInv
<1>3. CASE Return("release", k, o, t, "ErrStaleOwner", NoRecord) /\ UNCHANGED entries
  BY Zenon, <1>1, <1>3, AnswerInv DEF Answers
<1>4. CASE /\ sameOwner(k, o, t) /\ Return("release", k, o, t, "nil", NoRecord)
           /\ store(k, [entries[k] EXCEPT !.active = FALSE])
  <2>1. k \in DOMAIN entries /\ ~full(k)
    BY Zenon, <1>4 DEF sameOwner, full
  <2>2. [entries[k] EXCEPT !.active = FALSE] \in Entry
    BY <2>1 DEF MemoryInv, TypeOK, Entry
  <2> QED BY Zenon, <1>1, <1>4, <2>1, <2>2, StoreInv
<1> QED BY Zenon, <1>2, <1>3, <1>4 DEF Release

\* The clock may be set forward and back.
LEMMA AdvanceInv ==
  ASSUME MemoryInv, clock' \in 0..MaxClock, UNCHANGED <<entries, reply>>
  PROVE  MemoryInv'
<1>1. TypeOK' /\ Retained'
  BY Zenon DEF MemoryInv, TypeOK, Retained
<1>2. CapacityOnlyRefusesNewKeys'
  BY Zenon DEF MemoryInv, CapacityOnlyRefusesNewKeys, TokenOf
<1> QED BY Zenon, <1>1, <1>2 DEF MemoryInv

\* The invariant is inductive.
LEMMA Invariance == Spec => []MemoryInv
<1>1. Init => MemoryInv
  <2> SUFFICES ASSUME Init PROVE MemoryInv
    BY Zenon
  <2>1. DOMAIN entries = {} /\ clock \in 0..MaxClock /\ reply.op = "none"
    BY Zenon DEF Init
  <2>2. IsFiniteSet(DOMAIN entries) /\ Cardinality(DOMAIN entries) = 0
    BY Zenon, <2>1, FS_EmptySet
  <2>3. Cardinality(DOMAIN entries) <= MaxKeys
    BY <2>2, MemoryConstants
  <2>4. CapacityOnlyRefusesNewKeys
    BY Zenon, <2>1, <2>3 DEF CapacityOnlyRefusesNewKeys
  <2> QED BY Zenon, <2>1, <2>2, <2>4 DEF MemoryInv, TypeOK, Retained
<1>2. MemoryInv /\ [Next]_vars => MemoryInv'
  <2> SUFFICES ASSUME MemoryInv, [Next]_vars PROVE MemoryInv'
    BY Zenon
  <2>1. ASSUME NEW k \in Key, NEW o \in Owner, NEW done \in BOOLEAN, NEW d \in Duration,
               TryAcquire(k, o, d, done)
        PROVE  MemoryInv'
    BY Zenon, <2>1, AcquireInv
  <2>2. ASSUME NEW k \in Key, NEW o \in Owner, NEW done \in BOOLEAN, NEW t \in 0..MaxToken,
               \/ \E d \in Duration : Renew(k, o, t, d, done)
               \/ Validate(k, o, t, done)
               \/ Release(k, o, t, done)
        PROVE  MemoryInv'
    BY Zenon, <2>2, RenewInv, ValidateInv, ReleaseInv
  <2>3. CASE Advance
    BY Zenon, <2>3, AdvanceInv DEF Advance
  <2>4. CASE UNCHANGED vars
    <3>1. clock \in 0..MaxClock
      BY Zenon DEF MemoryInv, TypeOK
    <3> QED BY Zenon, <2>4, <3>1, AdvanceInv DEF vars
  <2> QED BY Zenon, <2>1, <2>2, <2>3, <2>4 DEF Next
<1> QED BY <1>1, <1>2, PTL DEF Spec

\* The store's entries are always well-formed: keys, owners, times and tokens
\* up to math.MaxUint64, whatever the callers present.
THEOREM TypeCorrect == Spec => []TypeOK
<1>1. MemoryInv => TypeOK
  BY Zenon DEF MemoryInv
<1> QED BY <1>1, Invariance, PTL

\* MaxKeys bounds the keys retained, and reaching it costs new keys only.
THEOREM CapacityOnlyRefusesNewKeysHolds == Spec => []CapacityOnlyRefusesNewKeys
<1>1. MemoryInv => CapacityOnlyRefusesNewKeys
  BY Zenon DEF MemoryInv
<1> QED BY <1>1, Invariance, PTL

-------------------------------------------------------------------------------
(* The refinement, call by call *)

Ops == {"acquire", "renew", "validate", "release"}

\* The entries as the contract sees them.
Fence == [k \in Key |-> TokenOf(k)]
Lease == [k \in Key |-> IF k \in DOMAIN entries /\ entries[k].active
                        THEN entries[k].record ELSE NoRecord]
Former == [k \in Key |-> IF k \in DOMAIN entries /\ ~entries[k].active
                         THEN entries[k].record ELSE NoRecord]

\* The zero record is the contract's absent lease.
LEMMA NoLeaseIs == NoRecord = Contract!NoLease
BY Zenon DEF NoRecord, Contract!NoLease

\* Storing an entry changes the contract's fence, lease and released lease of
\* that key.
LEMMA TableChange ==
  ASSUME NEW k \in Key, NEW e \in Entry, store(k, e)
  PROVE  /\ Fence' = [Fence EXCEPT ![k] = e.record.token]
         /\ Lease' = [Lease EXCEPT ![k] = IF e.active THEN e.record ELSE NoRecord]
         /\ Former' = [Former EXCEPT ![k] = IF e.active THEN NoRecord ELSE e.record]
<1>0. /\ DOMAIN entries' = DOMAIN entries \cup {k}
      /\ entries'[k] = e
      /\ \A x \in DOMAIN entries : x # k => entries'[x] = entries[x]
  BY Zenon, Stored
<1>1. ASSUME NEW x \in Key, x # k
      PROVE  TokenOf(x)' = TokenOf(x) /\ Lease'[x] = Lease[x] /\ Former'[x] = Former[x]
  <2>1. x \in DOMAIN entries' <=> x \in DOMAIN entries
    BY Zenon, <1>0, <1>1
  <2>2. TokenOf(x)' = TokenOf(x) /\ Lease'[x] = Lease[x]
    BY Zenon, <1>0, <1>1, <2>1 DEF TokenOf, Lease
  <2>3. Former'[x] = Former[x]
    BY Zenon, <1>0, <1>1, <2>1 DEF Former
  <2> QED BY Zenon, <2>2, <2>3
<1>2. TokenOf(k)' = e.record.token
  BY Zenon, <1>0 DEF TokenOf
<1>3. Lease'[k] = IF e.active THEN e.record ELSE NoRecord
  BY Zenon, <1>0 DEF Lease
<1>7. Former'[k] = IF e.active THEN NoRecord ELSE e.record
  BY Zenon, <1>0 DEF Former
<1>4. Fence' = [Fence EXCEPT ![k] = e.record.token]
  BY <1>1, <1>2 DEF Fence
<1>5. Lease' = [Lease EXCEPT ![k] = IF e.active THEN e.record ELSE NoRecord]
  <2>1. \A x \in Key : Lease'[x] = IF x = k THEN (IF e.active THEN e.record ELSE NoRecord)
                                   ELSE Lease[x]
    BY Zenon, <1>1, <1>3
  <2>2. Lease' = [x \in Key |-> Lease'[x]] /\ DOMAIN Lease = Key
    BY Zenon DEF Lease
  <2> HIDE DEF Lease
  <2> QED BY Zenon, <2>1, <2>2
<1>6. Former' = [Former EXCEPT ![k] = IF e.active THEN NoRecord ELSE e.record]
  <2>1. \A x \in Key : Former'[x] = IF x = k THEN (IF e.active THEN NoRecord ELSE e.record)
                                    ELSE Former[x]
    BY Zenon, <1>1, <1>7
  <2>2. Former' = [x \in Key |-> Former'[x]] /\ DOMAIN Former = Key
    BY Zenon DEF Former
  <2> HIDE DEF Former
  <2> QED BY Zenon, <2>1, <2>2
<1> QED BY Zenon, <1>4, <1>5, <1>6

\* A step that keeps the entries keeps the contract's table.
LEMMA TableKept ==
  ASSUME UNCHANGED entries
  PROVE  UNCHANGED <<Fence, Lease, Former>>
BY Zenon DEF Fence, Lease, Former, TokenOf

\* live and sameOwner are the contract's Usable and Owns; an inactive entry
\* is the owner's, too, but no lease.
LEMMA LiveIsUsable ==
  ASSUME TypeOK, NEW k \in Key
  PROVE  /\ clock \in Int
         /\ Contract!Usable(clock, k) <=> live(k)
         /\ k \in DOMAIN entries /\ entries[k].active =>
              /\ entries[k].record \in Record
              /\ Lease[k] = entries[k].record /\ Lease[k] # Contract!NoLease
              /\ \A o, t : Contract!Owns(k, o, t) <=> sameOwner(k, o, t)
         /\ ~ (k \in DOMAIN entries /\ entries[k].active) => Lease[k] = Contract!NoLease
<1>0. clock \in Int
  <2>1. clock \in 0..MaxClock
    BY Zenon DEF TypeOK
  <2> QED BY <2>1
<1>1. CASE k \in DOMAIN entries /\ entries[k].active
  <2>1. entries[k].record \in Record
    BY Zenon, <1>1 DEF TypeOK, Entry
  <2>2. Lease[k] = entries[k].record
    BY Zenon, <1>1 DEF Lease
  <2>3. Lease[k] # Contract!NoLease
    BY Zenon, <2>1, <2>2, RecordIsNot, NoLeaseIs
  <2>4. \A o, t : Contract!Owns(k, o, t) <=> sameOwner(k, o, t)
    BY Zenon, <1>1, <2>2 DEF Contract!Owns, Lease, sameOwner
  <2>5. Contract!Usable(clock, k) <=> live(k)
    BY Zenon, <1>1, <2>2, <2>3 DEF Contract!Usable, Lease, live
  <2> QED BY Zenon, <1>0, <1>1, <2>1, <2>2, <2>3, <2>4, <2>5
<1>2. CASE ~ (k \in DOMAIN entries /\ entries[k].active)
  <2>1. Lease[k] = Contract!NoLease
    BY Zenon, <1>2, NoLeaseIs DEF Lease
  <2>2. ~ Contract!Usable(clock, k) /\ ~ live(k)
    BY Zenon, <1>2, <2>1 DEF Contract!Usable, Lease, live
  <2> QED BY Zenon, <1>0, <1>2, <2>1, <2>2
<1> QED BY Zenon, <1>1, <1>2

\* An answer tells the contract's caller what it says.
LEMMA AnswerTold ==
  ASSUME NEW op, NEW k, NEW o, NEW t, NEW err, NEW rec, Return(op, k, o, t, err, rec)
  PROVE  /\ reply'.op = op /\ reply'.key = k /\ reply'.owner = o /\ reply'.token = t
         /\ reply'.at = clock /\ reply'.err = err /\ reply'.record = rec
         /\ Contract!Told(err, rec)
BY Zenon DEF Return, Contract!Told

\* A transition for the call that the answer names is a step of the contract.
LEMMA CallMaps ==
  ASSUME NEW op \in Ops, NEW k \in Key, NEW o \in Owner, NEW t, NEW at \in Int,
         reply'.op = op, reply'.key = k, reply'.owner = o, reply'.token = t, reply'.at = at,
         UNCHANGED clock,
         \/ op = "acquire" /\ Contract!TryAcquire(k, o, at)
         \/ op = "renew" /\ Contract!Renew(k, o, t, at)
         \/ op = "validate" /\ Contract!Validate(k, o, t, at)
         \/ op = "release" /\ Contract!Release(k, o, t)
  PROVE  Contract!ContractNext
BY Zenon DEF Contract!ContractNext, Contract!Op, Ops

\* A refused call changes nothing.
LEMMA RefusedMaps ==
  ASSUME NEW op \in Ops, NEW k, NEW o, NEW t, NEW err,
         Return(op, k, o, t, err, NoRecord), UNCHANGED <<entries, clock>>,
         err \in {"ErrCanceled", "ErrInvalidState", "ErrBackendUnavailable"}
  PROVE  Contract!ContractNext
<1>1. reply'.op = op /\ reply'.err = err /\ reply'.record = Contract!NoLease
  BY Zenon, AnswerTold, NoLeaseIs
<1>2. Contract!Refuse
  BY Zenon, <1>1, TableKept DEF Contract!Refuse, Contract!Failure, Fence, Lease, Former
<1> QED BY Zenon, <1>1, <1>2 DEF Contract!ContractNext, Contract!Op, Ops

\* A call that is turned away before the lock changes nothing.
LEMMA RejectMaps ==
  ASSUME NEW op \in Ops, NEW k, NEW o, NEW t, NEW done \in BOOLEAN, NEW v, NEW d,
         reject(op, k, o, t, validate(done, v, d)), UNCHANGED clock
  PROVE  Contract!ContractNext
<1>1. validate(done, v, d) \in {"ErrCanceled", "ErrInvalidState", "ErrBackendUnavailable"}
  BY Zenon DEF reject, validate
<1> QED BY Zenon, <1>1, RefusedMaps DEF reject

\* TryAcquire: Grant, Contend, or a refusal at a limit.
LEMMA AcquireMaps ==
  ASSUME TypeOK, NEW k \in Key, NEW o \in Owner, NEW d \in Duration, NEW done \in BOOLEAN,
         TryAcquire(k, o, d, done)
  PROVE  Contract!ContractNext
<1> DEFINE granted == [owner |-> o, token |-> TokenOf(k) + 1,
                       acquiredAt |-> clock, expiresAt |-> clock + d]
<1> PICK at \in Int : at = clock
  BY Zenon, LiveIsUsable
<1>0. UNCHANGED clock /\ "acquire" \in Ops
  BY Zenon DEF TryAcquire, Ops
<1>1. CASE reject("acquire", k, o, 0, validate(done, 1, d))
  BY Zenon, <1>0, <1>1, RejectMaps
<1>2. CASE /\ live(k) /\ Return("acquire", k, o, 0, "ErrContended", NoRecord)
           /\ UNCHANGED entries
  <2>1. Contract!Usable(at, k) /\ Contract!Told("ErrContended", Contract!NoLease)
    BY Zenon, <1>2, LiveIsUsable, AnswerTold, NoLeaseIs
  <2>2. /\ Fence'[k] >= Fence[k] /\ Fence' = [Fence EXCEPT ![k] = Fence'[k]]
        /\ UNCHANGED <<Lease, Former>>
    <3>1. UNCHANGED <<Fence, Lease, Former>>
      BY Zenon, <1>2, TableKept
    <3>2. Fence[k] \in 0..MaxToken
      BY Zenon, TokenBound DEF Fence
    <3>3. Fence = [Fence EXCEPT ![k] = Fence[k]]
      BY Zenon DEF Fence
    <3>4. Fence[k] >= Fence[k]
      BY <3>2, MemoryConstants
    <3> QED BY Zenon, <3>1, <3>3, <3>4
  <2>3. Contract!Contend(at, k, Fence'[k])
    BY Zenon, <1>0, <2>1, <2>2 DEF Contract!Contend, Fence, Lease
  <2>4. Contract!TryAcquire(k, o, at)
    BY Zenon, <2>1, <2>2, <2>3 DEF Contract!TryAcquire, Fence, Former
  <2> QED BY Zenon, <1>0, <1>2, <2>4, AnswerTold, CallMaps
<1>3. CASE Return("acquire", k, o, 0, "ErrBackendUnavailable", NoRecord) /\ UNCHANGED entries
  BY Zenon, <1>0, <1>3, RefusedMaps
<1>4. CASE /\ ~live(k) /\ ~exhausted(k)
           /\ Return("acquire", k, o, 0, "nil", granted)
           /\ store(k, [record |-> granted, active |-> TRUE])
  <2>1. granted \in Record
    BY Zenon, <1>4, GrantedRecord
  <2>2. granted.token = TokenOf(k) + 1
    BY Zenon
  <2>3. granted = [owner |-> o, token |-> granted.token, acquiredAt |-> at, expiresAt |-> at + d]
    BY Zenon
  <2> HIDE DEF granted
  <2>4. [record |-> granted, active |-> TRUE] \in Entry
    BY Zenon, <2>1 DEF Entry
  <2>5. /\ Fence' = [Fence EXCEPT ![k] = granted.token] /\ Lease' = [Lease EXCEPT ![k] = granted]
        /\ Former' = [Former EXCEPT ![k] = Contract!NoLease]
    BY Zenon, <1>4, <2>4, TableChange, NoLeaseIs
  <2>6. Fence'[k] = granted.token /\ Lease'[k] = granted /\ Fence[k] = TokenOf(k)
    BY Zenon, <2>5 DEF Fence, Lease
  <2>7. Fence'[k] > Fence[k]
    <3>1. TokenOf(k) \in 0..MaxToken
      BY Zenon, TokenBound
    <3> QED BY <2>2, <2>6, <3>1, MemoryConstants
  <2>8. ~ Contract!Usable(at, k) /\ Contract!Told("nil", Lease'[k])
    BY Zenon, <1>4, <2>6, LiveIsUsable, AnswerTold
  <2>9. Contract!Grant(at, k, o, Fence'[k], d)
    <3>1. Fence' = [Fence EXCEPT ![k] = Fence'[k]]
      BY Zenon, <2>5, <2>6
    <3>2. Lease' = [Lease EXCEPT ![k] = [owner |-> o, token |-> Fence'[k],
                                         acquiredAt |-> at, expiresAt |-> at + d]]
      BY Zenon, <2>3, <2>5, <2>6
    <3> QED BY Zenon, <1>0, <2>7, <2>8, <3>1, <3>2 DEF Contract!Grant, Fence, Lease
  <2>10. Contract!TryAcquire(k, o, at)
    BY Zenon, <2>5, <2>8, <2>9 DEF Contract!TryAcquire, Fence, Lease, Former
  <2> QED BY Zenon, <1>0, <1>4, <2>10, AnswerTold, CallMaps
<1> QED BY Zenon, <1>1, <1>2, <1>3, <1>4 DEF TryAcquire

\* Renew: Extend, or nothing for a stale owner.
LEMMA RenewMaps ==
  ASSUME TypeOK, NEW k \in Key, NEW o \in Owner, NEW t, NEW d \in Duration,
         NEW done \in BOOLEAN, Renew(k, o, t, d, done)
  PROVE  Contract!ContractNext
<1> DEFINE renewed == [entries[k].record EXCEPT !.expiresAt = clock + d]
<1> PICK at \in Int : at = clock
  BY Zenon, LiveIsUsable
<1>0. UNCHANGED clock /\ "renew" \in Ops
  BY Zenon DEF Renew, Ops
<1>1. CASE reject("renew", k, o, t, validate(done, t, d))
  BY Zenon, <1>0, <1>1, RejectMaps
<1>2. CASE /\ ~(live(k) /\ sameOwner(k, o, t))
           /\ Return("renew", k, o, t, "ErrStaleOwner", NoRecord) /\ UNCHANGED entries
  <2>1. Contract!Told("ErrStaleOwner", Contract!NoLease) /\ UNCHANGED <<Fence, Lease, Former>>
    BY Zenon, <1>2, TableKept, AnswerTold, NoLeaseIs
  <2>2. ~ (Contract!Usable(at, k) /\ Contract!Owns(k, o, t))
    BY Zenon, <1>2, LiveIsUsable DEF live
  <2>3. Contract!Renew(k, o, t, at)
    BY Zenon, <2>1, <2>2 DEF Contract!Renew, Fence, Lease, Former
  <2> QED BY Zenon, <1>0, <1>2, <2>3, AnswerTold, CallMaps
<1>3. CASE /\ live(k) /\ sameOwner(k, o, t)
           /\ Return("renew", k, o, t, "nil", renewed)
           /\ store(k, [record |-> renewed, active |-> TRUE])
  <2>1. k \in DOMAIN entries /\ entries[k].active
    BY Zenon, <1>3 DEF live
  <2>2. /\ Contract!Usable(at, k) /\ Contract!Owns(k, o, t)
        /\ Lease[k] = entries[k].record
    BY Zenon, <1>3, <2>1, LiveIsUsable
  <2>3. /\ renewed \in Record /\ renewed.token = entries[k].record.token
        /\ renewed = [owner |-> entries[k].record.owner, token |-> entries[k].record.token,
                      acquiredAt |-> entries[k].record.acquiredAt, expiresAt |-> clock + d]
    BY Zenon, <2>1, RenewedRecord
  <2>4. entries[k].record.owner = o /\ entries[k].record.token = t
    BY Zenon, <1>3 DEF sameOwner
  <2> HIDE DEF renewed
  <2>5. renewed = [owner |-> o, token |-> t, acquiredAt |-> Lease[k].acquiredAt,
                   expiresAt |-> at + d]
    BY Zenon, <2>2, <2>3, <2>4
  <2>6. [record |-> renewed, active |-> TRUE] \in Entry
    BY Zenon, <2>3 DEF Entry
  <2>7. /\ Fence' = [Fence EXCEPT ![k] = renewed.token] /\ Lease' = [Lease EXCEPT ![k] = renewed]
        /\ Former' = [Former EXCEPT ![k] = NoRecord]
    BY Zenon, <1>3, <2>6, TableChange
  <2>8. Lease'[k] = renewed
    BY Zenon, <2>7 DEF Lease
  <2>9. UNCHANGED Fence
    <3>1. Fence[k] = renewed.token
      BY Zenon, <2>1, <2>3 DEF Fence, TokenOf
    <3>2. Fence = [Fence EXCEPT ![k] = Fence[k]]
      BY Zenon DEF Fence
    <3> QED BY Zenon, <2>7, <3>1, <3>2
  <2>10. Contract!Extend(at, k, o, t, d)
    <3>1. Lease' = [Lease EXCEPT ![k] = [owner |-> o, token |-> t,
                       acquiredAt |-> Lease[k].acquiredAt, expiresAt |-> at + d]]
      BY Zenon, <2>5, <2>7
    <3> QED BY Zenon, <1>0, <2>2, <2>9, <3>1 DEF Contract!Extend, Fence, Lease
  <2>11. Contract!Told("nil", Lease'[k])
    BY Zenon, <1>3, <2>8, AnswerTold
  <2>12. UNCHANGED Former
    <3>1. Former[k] = NoRecord /\ Former = [Former EXCEPT ![k] = Former[k]]
      BY Zenon, <2>1 DEF Former
    <3> QED BY Zenon, <2>7, <3>1
  <2>13. Contract!Renew(k, o, t, at)
    BY Zenon, <2>10, <2>11, <2>12 DEF Contract!Renew, Lease, Former
  <2> QED BY Zenon, <1>0, <1>3, <2>13, AnswerTold, CallMaps
<1> QED BY Zenon, <1>1, <1>2, <1>3 DEF Renew

\* Validate changes nothing and answers as the contract does.
LEMMA ValidateMaps ==
  ASSUME TypeOK, NEW k \in Key, NEW o \in Owner, NEW t, NEW done \in BOOLEAN,
         Validate(k, o, t, done)
  PROVE  Contract!ContractNext
<1> PICK at \in Int : at = clock
  BY Zenon, LiveIsUsable
<1>0. UNCHANGED clock /\ "validate" \in Ops
  BY Zenon DEF Validate, Ops
<1>1. CASE reject("validate", k, o, t, validate(done, t, 1))
  BY Zenon, <1>0, <1>1, RejectMaps
<1>2. CASE /\ ~(live(k) /\ sameOwner(k, o, t))
           /\ Return("validate", k, o, t, "ErrStaleOwner", NoRecord) /\ UNCHANGED entries
  <2>1. Contract!Told("ErrStaleOwner", Contract!NoLease) /\ UNCHANGED <<Fence, Lease, Former>>
    BY Zenon, <1>2, TableKept, AnswerTold, NoLeaseIs
  <2>2. ~ (Contract!Usable(at, k) /\ Contract!Owns(k, o, t))
    BY Zenon, <1>2, LiveIsUsable DEF live
  <2>3. Contract!Validate(k, o, t, at)
    BY Zenon, <2>1, <2>2 DEF Contract!Validate, Fence, Lease, Former
  <2> QED BY Zenon, <1>0, <1>2, <2>3, AnswerTold, CallMaps
<1>3. CASE /\ live(k) /\ sameOwner(k, o, t)
           /\ Return("validate", k, o, t, "nil", entries[k].record) /\ UNCHANGED entries
  <2>1. k \in DOMAIN entries /\ entries[k].active
    BY Zenon, <1>3 DEF live
  <2>2. Contract!Usable(at, k) /\ Contract!Owns(k, o, t) /\ Lease[k] = entries[k].record
    BY Zenon, <1>3, <2>1, LiveIsUsable
  <2>3. /\ Contract!Told("nil", Lease[k]) /\ UNCHANGED <<Fence, Lease, Former>>
        /\ reply'.op = "validate" /\ reply'.key = k /\ reply'.owner = o
        /\ reply'.token = t /\ reply'.at = at
    <3>1. Return("validate", k, o, t, "nil", Lease[k])
      BY Zenon, <1>3, <2>2
    <3>2. UNCHANGED <<Fence, Lease, Former>>
      BY Zenon, <1>3, TableKept
    <3> HIDE DEF Lease
    <3> QED BY Zenon, <3>1, <3>2, AnswerTold
  <2>4. Contract!Validate(k, o, t, at)
    BY Zenon, <2>2, <2>3 DEF Contract!Validate, Fence, Lease, Former
  <2> QED BY Zenon, <1>0, <2>3, <2>4, CallMaps
<1> QED BY Zenon, <1>1, <1>2, <1>3 DEF Validate

\* Release: Vacate, also of an expired lease; a second release of the same
\* lease succeeds without a change.
LEMMA ReleaseMaps ==
  ASSUME TypeOK, NEW k \in Key, NEW o \in Owner, NEW t, NEW done \in BOOLEAN,
         Release(k, o, t, done)
  PROVE  Contract!ContractNext
<1> PICK at \in Int : at = clock
  BY Zenon, LiveIsUsable
<1>0. UNCHANGED clock /\ "release" \in Ops
  BY Zenon DEF Release, Ops
<1>1. CASE reject("release", k, o, t, validate(done, t, 1))
  BY Zenon, <1>0, <1>1, RejectMaps
<1>2. CASE /\ ~sameOwner(k, o, t)
           /\ Return("release", k, o, t, "ErrStaleOwner", NoRecord) /\ UNCHANGED entries
  <2>1. Contract!Told("ErrStaleOwner", Contract!NoLease) /\ UNCHANGED <<Fence, Lease, Former>>
    BY Zenon, <1>2, TableKept, AnswerTold, NoLeaseIs
  <2>2. CASE k \in DOMAIN entries /\ entries[k].active
    <3>1. Lease[k] # Contract!NoLease /\ ~ Contract!Owns(k, o, t)
      BY Zenon, <1>2, <2>2, LiveIsUsable
    <3>2. Contract!Release(k, o, t)
      BY Zenon, <2>1, <3>1 DEF Contract!Release, Fence, Lease, Former
    <3> QED BY Zenon, <1>0, <1>2, <3>2, AnswerTold, CallMaps
  <2>3. CASE ~ (k \in DOMAIN entries /\ entries[k].active)
    <3>1. Lease[k] = Contract!NoLease
      BY Zenon, <2>3, LiveIsUsable
    <3>2. Contract!Released(k, o, t) = "ErrStaleOwner"
      <4>1. CASE k \in DOMAIN entries
        <5>1. Former[k] = entries[k].record
          BY Zenon, <2>3, <4>1 DEF Former
        <5>2. ~ (Former[k].owner = o /\ Former[k].token = t)
          BY Zenon, <1>2, <4>1, <5>1 DEF sameOwner
        <5> QED BY Zenon, <5>2 DEF Contract!Released, Former
      <4>2. CASE k \notin DOMAIN entries
        <5>1. Former[k] = Contract!NoLease
          BY Zenon, <4>2, NoLeaseIs DEF Former
        <5> QED BY Zenon, <5>1 DEF Contract!Released, Former
      <4> QED BY Zenon, <4>1, <4>2
    <3>3. Contract!Release(k, o, t)
      BY Zenon, <2>1, <3>1, <3>2 DEF Contract!Release, Fence, Lease, Former
    <3> QED BY Zenon, <1>0, <1>2, <3>3, AnswerTold, CallMaps
  <2> QED BY Zenon, <2>2, <2>3
<1>3. CASE /\ sameOwner(k, o, t) /\ Return("release", k, o, t, "nil", NoRecord)
           /\ store(k, [entries[k] EXCEPT !.active = FALSE])
  <2> DEFINE ended == [entries[k] EXCEPT !.active = FALSE]
  <2>1. k \in DOMAIN entries /\ entries[k] \in Entry
    BY Zenon, <1>3 DEF sameOwner, TypeOK
  <2>2. ended \in Entry /\ ended.active = FALSE /\ ended.record = entries[k].record
    BY <2>1 DEF Entry
  <2> HIDE DEF ended
  <2>3. store(k, ended)
    BY Zenon, <1>3 DEF ended
  <2>4. /\ Fence' = [Fence EXCEPT ![k] = ended.record.token]
        /\ Lease' = [Lease EXCEPT ![k] = Contract!NoLease]
        /\ Former' = [Former EXCEPT ![k] = entries[k].record]
    <3>1. /\ Fence' = [Fence EXCEPT ![k] = ended.record.token]
          /\ Lease' = [Lease EXCEPT ![k] = IF ended.active THEN ended.record ELSE NoRecord]
          /\ Former' = [Former EXCEPT ![k] = IF ended.active THEN NoRecord ELSE ended.record]
      BY Zenon, <2>2, <2>3, TableChange
    <3> HIDE DEF Fence, Lease, Former
    <3> QED BY Zenon, <2>2, <3>1, NoLeaseIs
  <2>5. UNCHANGED Fence
    <3>1. Fence[k] = ended.record.token
      BY Zenon, <2>1, <2>2 DEF Fence, TokenOf
    <3>2. Fence = [Fence EXCEPT ![k] = Fence[k]]
      BY Zenon DEF Fence
    <3> QED BY Zenon, <2>4, <3>1, <3>2
  <2>6. Contract!Told("nil", Contract!NoLease)
    BY Zenon, <1>3, AnswerTold, NoLeaseIs
  <2>7. ASSUME entries[k].active PROVE Contract!Release(k, o, t)
    <3>1. Lease[k] # Contract!NoLease /\ Contract!Owns(k, o, t)
      BY Zenon, <1>3, <2>1, <2>7, LiveIsUsable
    <3>2. Contract!Vacate(k, o, t)
      BY Zenon, <1>0, <2>4, <2>5, <3>1 DEF Contract!Vacate, Fence, Lease
    <3>3. Former' = [Former EXCEPT ![k] = Lease[k]]
      BY Zenon, <2>1, <2>4, <2>7, LiveIsUsable
    <3> QED BY Zenon, <2>6, <3>2, <3>3 DEF Contract!Release, Lease, Former
  <2>8. ASSUME ~ entries[k].active PROVE Contract!Release(k, o, t)
    <3>1. Lease[k] = Contract!NoLease
      BY Zenon, <2>8, LiveIsUsable
    <3>2. Lease = [Lease EXCEPT ![k] = Lease[k]]
      BY Zenon DEF Lease
    <3>3. UNCHANGED Lease
      BY Zenon, <2>4, <3>1, <3>2
    <3>4. Former[k] = entries[k].record /\ Former = [Former EXCEPT ![k] = Former[k]]
      BY Zenon, <2>1, <2>8 DEF Former
    <3>5. UNCHANGED Former
      BY Zenon, <2>4, <3>4
    <3>6. Contract!Released(k, o, t) = "nil"
      <4>1. Former[k].owner = o /\ Former[k].token = t /\ Former[k] # Contract!NoLease
        BY Zenon, <1>3, <2>1, <3>4, RecordIsNot, NoLeaseIs DEF sameOwner, Entry
      <4> QED BY Zenon, <4>1 DEF Contract!Released, Former
    <3> QED BY Zenon, <2>5, <2>6, <3>1, <3>3, <3>5, <3>6 DEF Contract!Release, Fence, Lease, Former
  <2> QED BY Zenon, <1>0, <1>3, <2>7, <2>8, AnswerTold, CallMaps
<1> QED BY Zenon, <1>1, <1>2, <1>3 DEF Release

\* A step of the store is a step of the contract, or none.
LEMMA NextMaps ==
  ASSUME TypeOK, [Next]_vars
  PROVE  [Contract!ContractNext]_(Contract!contractVars)
<1>1. ASSUME NEW k \in Key, NEW o \in Owner, NEW done \in BOOLEAN, NEW d \in Duration,
             TryAcquire(k, o, d, done)
      PROVE  Contract!ContractNext
  BY Zenon, <1>1, AcquireMaps
<1>2. ASSUME NEW k \in Key, NEW o \in Owner, NEW done \in BOOLEAN, NEW t \in 0..MaxToken,
             \/ \E d \in Duration : Renew(k, o, t, d, done)
             \/ Validate(k, o, t, done)
             \/ Release(k, o, t, done)
      PROVE  Contract!ContractNext
  BY Zenon, <1>2, RenewMaps, ValidateMaps, ReleaseMaps
<1>3. CASE Advance
  <2>1. clock' \in 0..MaxClock /\ UNCHANGED entries /\ reply' = reply
    BY Zenon, <1>3 DEF Advance
  <2>2. clock' \in Int
    BY <2>1
  <2>3. UNCHANGED <<Fence, Lease, Former>>
    BY Zenon, <2>1, TableKept
  <2> QED BY Zenon, <2>1, <2>2, <2>3 DEF Contract!ContractNext, Contract!ServerTime, Fence, Lease, Former
<1>4. CASE UNCHANGED vars
  <2>1. UNCHANGED <<Fence, Lease, Former>>
    BY Zenon, <1>4, TableKept DEF vars
  <2> QED BY Zenon, <1>4, <2>1 DEF vars, Contract!contractVars, Fence, Lease, Former
<1> QED BY Zenon, <1>1, <1>2, <1>3, <1>4 DEF Next

\* The process-local store implements the backend contract: every method call
\* is one transition of the lease table with an answer the contract allows.
THEOREM MemoryRefinement == Spec => ImplementsContract
<1>1. Init => Contract!ContractInit
  <2> SUFFICES ASSUME Init PROVE Contract!ContractInit
    BY Zenon
  <2>1. DOMAIN entries = {} /\ clock \in 0..MaxClock /\ reply = Contract!NoReply
    BY Zenon DEF Init, Contract!NoReply
  <2>2. /\ Fence = [k \in Key |-> 0] /\ Lease = [k \in Key |-> Contract!NoLease]
        /\ Former = [k \in Key |-> Contract!NoLease]
    BY Zenon, <2>1, NoLeaseIs DEF Fence, Lease, Former, TokenOf
  <2>3. clock \in Int
    BY <2>1
  <2> QED BY Zenon, <2>1, <2>2, <2>3 DEF Contract!ContractInit, Fence, Lease, Former
<1>2. TypeOK /\ [Next]_vars => [Contract!ContractNext]_(Contract!contractVars)
  BY Zenon, NextMaps
<1> QED BY <1>1, <1>2, TypeCorrect, PTL DEF Spec, ImplementsContract, Contract!ContractSpec
===============================================================================
