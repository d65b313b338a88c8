-------------------------- MODULE ObservedValkeyProofs --------------------------
(***************************************************************************)
(* The Valkey store implements the backend contract, and the effects it    *)
(* protects are ordered, for any keys, owners, durations, tokens, clients  *)
(* and observers: IInv is inductive, and each step from a state in which   *)
(* it holds is a step of LeaseContract.                                    *)
(***************************************************************************)
EXTENDS ObservedValkey, TLAPS

\* The parts of IInv, one per component.
StoreInv ==
  /\ StoreTypeOK
  /\ IF open THEN deployment.eviction = "noeviction"
     ELSE \A k \in Key : counter[k] = 0 /\ hash[k] = NoRecord
  /\ \A k \in Key : hash[k] # NoRecord => hash[k].token = counter[k]
WritesInv ==
  /\ WritesTypeOK
  /\ \A k \in Key : published[k] <= counter[k] /\ fence[k] <= counter[k]
ObservationInv == ObservationTypeOK /\ OneCallbackPerSlot

\* IInv is the conjunction of its parts.
LEMMA Parts == IInv <=> StoreInv /\ WritesInv /\ ObservationInv
BY Zenon DEF IInv, StoreInv, WritesInv, ObservationInv

-------------------------------------------------------------------------------
(* Observers *)

\* Calls and callbacks keep the slots' accounts: a slot is taken once.
LEMMA ObservationStep ==
  ASSUME ObservationInv,
         \/ \E c \in Caller : Observe(c) \/ emit(c)
         \/ \E s \in Slot : callObserver(s) \/ freeSlot(s)
         \/ UNCHANGED observationVars
  PROVE  ObservationInv'
<1> USE ObservationConstants
    DEF ObservationInv, ObservationTypeOK, OneCallbackPerSlot, Slot
<1>1. ASSUME NEW c \in Caller, Observe(c) PROVE ObservationInv'
  <2>1. emitting' = [emitting EXCEPT ![c] = 1] /\ UNCHANGED <<active, observing, finished>>
    BY Zenon, <1>1 DEF Observe
  <2>2. emitting' \in [Caller -> 0..Observers]
    BY <2>1
  <2> QED BY Zenon, <2>1, <2>2
<1>2. ASSUME NEW c \in Caller, emit(c) PROVE ObservationInv'
  <2>1. emitting[c] \in Slot
    BY <1>2 DEF emit
  <2>2. emitting' \in [Caller -> 0..Observers]
    BY SMTT(30), <1>2, <2>1 DEF emit, nextSlot
  <2>3. CASE active[emitting[c]]
    BY Zenon, <1>2, <2>2, <2>3 DEF emit
  <2>4. CASE ~active[emitting[c]]
    <3> DEFINE s == emitting[c]
    <3>1. /\ active' = [active EXCEPT ![s] = TRUE]
          /\ observing' = [observing EXCEPT ![s] = @ + 1] /\ finished' = finished
      BY Zenon, <1>2, <2>4 DEF emit
    <3>0. s \in Slot
      BY Zenon, <2>1
    <3>2. observing[s] + finished[s] = 0
      BY Zenon, <2>1, <2>4
    <3> HIDE DEF s
    <3>3. /\ active' \in [Slot -> BOOLEAN]
          /\ observing' \in [Slot -> Nat] /\ finished' \in [Slot -> Nat]
      <4>1. active' \in [Slot -> BOOLEAN]
        BY <3>1, Zenon
      <4>2. observing[s] + 1 \in Nat
        BY SMTT(30), <3>0
      <4> QED BY Zenon, <3>0, <3>1, <4>1, <4>2
    <3>4. ASSUME NEW x \in Slot
          PROVE  observing'[x] + finished'[x] = IF active'[x] THEN 1 ELSE 0
      <4>1. CASE x = s
        <5>1. active'[x]  BY Zenon, <3>1, <4>1
        <5>2. observing'[x] = observing[s] + 1 /\ finished'[x] = finished[s]
          BY Zenon, <3>1, <4>1
        <5> QED BY SMTT(30), <3>2, <4>1, <5>1, <5>2
      <4>2. CASE x # s
        BY Zenon, <3>1, <4>2
      <4> QED BY Zenon, <4>1, <4>2
    <3> QED BY Zenon, <2>2, <3>3, <3>4
  <2> QED BY Zenon, <2>3, <2>4
<1>3. ASSUME NEW s \in Slot, callObserver(s) PROVE ObservationInv'
  <2>1. /\ observing' = [observing EXCEPT ![s] = @ - 1] /\ finished' = [finished EXCEPT ![s] = @ + 1]
        /\ active' = active /\ emitting' = emitting /\ observing[s] > 0
    BY Zenon, <1>3 DEF callObserver
  <2>2. observing' \in [Slot -> Nat] /\ finished' \in [Slot -> Nat]
    <3>1. observing[s] - 1 \in Nat /\ finished[s] + 1 \in Nat
      BY SMTT(30), <2>1
    <3> QED BY Zenon, <2>1, <3>1
  <2>3. \A x \in Slot : observing'[x] + finished'[x] = observing[x] + finished[x]
    BY <2>1
  <2> QED BY Zenon, <2>1, <2>2, <2>3
<1>4. ASSUME NEW s \in Slot, freeSlot(s) PROVE ObservationInv'
  <2>1. /\ finished' = [finished EXCEPT ![s] = @ - 1] /\ active' = [active EXCEPT ![s] = FALSE]
        /\ observing' = observing /\ emitting' = emitting /\ finished[s] > 0 /\ active[s]
    BY Zenon, <1>4 DEF freeSlot
  <2>2. finished[s] - 1 \in Nat /\ observing[s] + finished[s] = 1
    BY <2>1
  <2>3. finished' \in [Slot -> Nat] /\ active' \in [Slot -> BOOLEAN]
    BY Zenon, <2>1, <2>2
  <2>4. ASSUME NEW x \in Slot
        PROVE  observing'[x] + finished'[x] = IF active'[x] THEN 1 ELSE 0
    <3>1. CASE x = s
      BY SMTT(30), <2>1, <2>2, <3>1
    <3>2. CASE x # s
      BY Zenon, <2>1, <3>2
    <3> QED BY Zenon, <3>1, <3>2
  <2> QED BY Zenon, <2>1, <2>3, <2>4
<1>5. CASE UNCHANGED observationVars
  BY Zenon, <1>5 DEF observationVars
<1> QED BY Zenon, <1>1, <1>2, <1>3, <1>4, <1>5

-------------------------------------------------------------------------------
(* The store *)

\* A record is not the missing one.
LEMMA RecordIsNot == NoRecord \notin Record
BY DEF NoRecord, Record

\* A call, the server, and everything else keep the store's part; no counter
\* ever goes back.
LEMMA StoreStep ==
  ASSUME StoreInv, BackendCall \/ Server \/ UNCHANGED <<clock, counter, hash, deployment, open>>
  PROVE  StoreInv' /\ \A k \in Key : counter'[k] >= counter[k]
<1> DEFINE Goal == StoreInv' /\ \A k \in Key : counter'[k] >= counter[k]
<1> USE ValkeyConstants DEF StoreInv, StoreTypeOK
<1>1. ASSUME NEW k \in Key, NEW o \in Owner, NEW d \in Duration, TryAcquire(k, o, d)
      PROVE  Goal
  <2> DEFINE granted == [owner |-> o, token |-> counter[k] + 1,
                         acquiredAt |-> clock, expiresAt |-> clock + d]
  <2>1. CASE UNCHANGED <<counter, hash>>
    BY <1>1, <2>1 DEF TryAcquire
  <2>2. CASE /\ ~incrFails(k) /\ hash' = [hash EXCEPT ![k] = granted]
             /\ counter' = [counter EXCEPT ![k] = @ + 1]
    <3>1. open /\ UNCHANGED <<clock, deployment, open>>
      BY Zenon, <1>1 DEF TryAcquire, Names
    <3>2. counter[k] + 1 \in 1..MaxToken /\ counter' \in [Key -> 0..MaxToken]
      BY <2>2 DEF incrFails
    <3>3. granted \in Record /\ granted.token = counter[k] + 1
      BY <3>2 DEF Record
    <3> HIDE DEF granted
    <3>4. hash' \in [Key -> Record \cup {NoRecord}]
      BY Zenon, <2>2, <3>3
    <3> QED BY <2>2, <3>1, <3>2, <3>3, <3>4
  <2> QED BY Zenon, <1>1, <2>1, <2>2 DEF TryAcquire
<1>2. ASSUME NEW k \in Key, NEW o \in Owner, NEW t \in 1..counter[k], NEW d \in Duration,
             Renew(k, o, t, d)
      PROVE  Goal
  <2> DEFINE renewed == [hash[k] EXCEPT !.expiresAt = clock + d]
  <2>1. CASE UNCHANGED hash
    BY <1>2, <2>1 DEF Renew
  <2>2. CASE owned(k, o, t) /\ hash' = [hash EXCEPT ![k] = renewed]
    <3>1. hash[k] \in Record
      BY <2>2 DEF owned, NoRecord
    <3>2. renewed \in Record /\ renewed.token = hash[k].token
      BY <3>1 DEF Record
    <3>3. hash[k] # NoRecord
      BY Zenon, <3>1, RecordIsNot
    <3> HIDE DEF renewed
    <3>4. hash' \in [Key -> Record \cup {NoRecord}]
      BY Zenon, <2>2, <3>2
    <3> QED BY <1>2, <2>2, <3>2, <3>3, <3>4 DEF Renew, Names
  <2> QED BY Zenon, <1>2, <2>1, <2>2 DEF Renew
<1>3. ASSUME NEW k \in Key, NEW o \in Owner, NEW t \in 1..counter[k], Validate(k, o, t)
      PROVE  Goal
  BY <1>3 DEF Validate
<1>4. ASSUME NEW k \in Key, UNCHANGED <<clock, counter, deployment, open>>,
             hash' = [hash EXCEPT ![k] = NoRecord]
      PROVE  Goal
  BY <1>4
<1>5. ASSUME NEW k \in Key, NEW o \in Owner, NEW t \in 1..counter[k], Release(k, o, t)
      PROVE  Goal
  <2>1. CASE UNCHANGED hash
    BY <1>5, <2>1 DEF Release
  <2> QED BY Zenon, <1>4, <1>5, <2>1 DEF Release
<1>6. ASSUME NEW op, Refused(op) PROVE Goal
  BY <1>6 DEF Refused
<1>7. CASE Open
  BY <1>7 DEF Open, Check, Deployment
<1>8. CASE Time
  BY <1>8 DEF Time
<1>9. ASSUME NEW k \in Key, Expire(k) PROVE Goal
  BY Zenon, <1>4, <1>9 DEF Expire
<1>10. ASSUME NEW k \in Key, Evict(k) PROVE Goal
  BY <1>10 DEF Evict
<1>11. CASE UNCHANGED <<clock, counter, hash, deployment, open>>
  BY <1>11
<1> HIDE DEF StoreInv, StoreTypeOK
<1> QED BY Zenon, <1>1, <1>2, <1>3, <1>5, <1>6, <1>7, <1>8, <1>9, <1>10, <1>11 DEF BackendCall, Server

-------------------------------------------------------------------------------
(* The writers *)

\* A publication is made under the last token of the key.
LEMMA WriteStep ==
  ASSUME StoreInv, WritesInv, Write
  PROVE  /\ WritesInv' /\ UNCHANGED <<clock, counter, hash, deployment, open>>
         /\ reply' = NoReply
         /\ \A k \in Key : published'[k] >= published[k]
<1> USE DEF StoreInv, StoreTypeOK, WritesInv, WritesTypeOK
<1> DEFINE Goal == /\ WritesInv' /\ UNCHANGED <<clock, counter, hash, deployment, open>>
                   /\ reply' = NoReply
                   /\ \A k \in Key : published'[k] >= published[k]
<1>1. ASSUME NEW k \in Key, NEW t \in 1..counter[k], write(k, t) PROVE Goal
  BY <1>1 DEF write
<1>2. ASSUME NEW k \in Key, NEW t \in 1..counter[k], NEW o \in Owner, SetIfOwned(k, o, t)
      PROVE  Goal
  <2>1. hash[k].token = t
    BY Zenon, <1>2 DEF SetIfOwned, admits, Guard
  <2>2. t = counter[k]
    BY <2>1 DEF NoRecord
  <2> QED BY <1>2, <2>2 DEF SetIfOwned
<1> QED BY Zenon, <1>1, <1>2 DEF Write

-------------------------------------------------------------------------------
(* The contract *)

Ops == {"acquire", "renew", "validate", "release"}

\* The leases as the contract sees them.
Lease == [k \in Key |-> InForce(hash[k])]
Former == [k \in Key |-> NoRecord]

\* What the contract sees of a record, and of none.
LEMMA InForceRecord ==
  /\ InForce(NoRecord) = Contract!NoLease
  /\ \A rec \in Record : /\ InForce(rec) # Contract!NoLease
                         /\ InForce(rec) = [owner |-> rec.owner, token |-> rec.token,
                              acquiredAt |-> rec.acquiredAt, expiresAt |-> rec.expiresAt + 1]
<1>1. \A rec \in Record : rec # NoRecord
  BY Zenon, RecordIsNot
<1> QED BY Zenon, <1>1, ValkeyConstants DEF InForce, NoRecord, Record, Contract!NoLease

\* The server keeps no record of a released lease.
LEMMA NoFormer ==
  /\ Former = [k \in Key |-> Contract!NoLease]
  /\ \A k \in Key : Former[k] = Contract!NoLease /\ Former = [Former EXCEPT ![k] = Contract!NoLease]
BY Zenon DEF Former, NoRecord, Contract!NoLease

\* A forgotten answer is forgotten in the contract.
LEMMA NoAnswer == Answered(NoReply) = Contract!NoReply
BY Zenon DEF Answered, NoReply, Contract!NoReply

\* An answer of Exec is the script's, or one that does not tell; only a
\* validation can also be answered ErrCanceled.
LEMMA ExecAnswers ==
  ASSUME NEW op \in Ops, NEW k, NEW o, NEW t, NEW err, NEW rec, Exec(op, k, o, t, err, rec)
  PROVE  /\ Answered(reply').op = op /\ Answered(reply').key = k
         /\ Answered(reply').owner = o /\ Answered(reply').token = t
         /\ Answered(reply').at = clock
         /\ \/ Contract!Told(err, InForce(rec))
            \/ /\ op = "validate" /\ Answered(reply').err = "ErrCanceled"
               /\ Answered(reply').record = Contract!NoLease
<1>1. ASSUME NEW e, NEW r, Return(op, k, o, t, e, r)
      PROVE  Answered(reply') = [op |-> op, key |-> k, owner |-> o, token |-> t,
                                 at |-> clock, err |-> e, record |-> InForce(r)]
  BY Zenon, <1>1 DEF Return, Answered, Ops
<1>2. CASE Return(op, k, o, t, err, rec)
  BY <1>1, <1>2 DEF Contract!Told
<1>3. ASSUME NEW lost \in classify(op), Return(op, k, o, t, lost, NoRecord)
      PROVE  /\ Answered(reply').op = op /\ Answered(reply').key = k
             /\ Answered(reply').owner = o /\ Answered(reply').token = t
             /\ Answered(reply').at = clock
             /\ \/ Contract!Told(err, InForce(rec))
                \/ /\ op = "validate" /\ Answered(reply').err = "ErrCanceled"
                   /\ Answered(reply').record = Contract!NoLease
  BY <1>1, <1>3, InForceRecord DEF Contract!Told, Contract!Unclear, classify, Ops
<1> QED BY Zenon, <1>2, <1>3 DEF Exec

\* An answer that says something else when the record's times are out of order
\* is still one that the contract allows.
LEMMA ParseAnswers ==
  ASSUME NEW op \in Ops, NEW k, NEW o, NEW t, NEW rec, parseRecord(op, k, o, t, rec)
  PROVE  /\ Answered(reply').op = op /\ Answered(reply').key = k
         /\ Answered(reply').owner = o /\ Answered(reply').token = t
         /\ Answered(reply').at = clock
         /\ \/ Contract!Told("nil", InForce(rec))
            \/ /\ op = "validate" /\ Answered(reply').err = "ErrCanceled"
               /\ Answered(reply').record = Contract!NoLease
<1>1. CASE Exec(op, k, o, t, "nil", rec)
  BY Zenon, <1>1, ExecAnswers
<1>2. CASE Exec(op, k, o, t, "ErrBackendUnavailable", NoRecord)
  <2>1. Contract!Told("ErrBackendUnavailable", InForce(NoRecord)) => Contract!Told("nil", InForce(rec))
    BY Zenon, InForceRecord DEF Contract!Told, Contract!Unclear
  <2> QED BY Zenon, <1>2, <2>1, ExecAnswers
<1> QED BY Zenon, <1>1, <1>2 DEF parseRecord

\* A lease whose hash a script finds is in force; the others are not.
LEMMA FoundIsUsable ==
  ASSUME StoreInv, NEW at \in Int, at = clock, NEW k \in Key, Names(k)
  PROVE  /\ Contract!Usable(at, k) <=> hash[k] # NoRecord
         /\ hash[k] # NoRecord => hash[k] \in Record
         /\ (Lease[k] = Contract!NoLease) <=> hash[k] = NoRecord
         /\ \A o \in Owner, t \in Nat \ {0} : Contract!Owns(k, o, t) <=> owned(k, o, t)
<1>1. hash[k] # NoRecord => hash[k] \in Record
  BY Zenon DEF StoreInv, StoreTypeOK
<1>2. CASE hash[k] = NoRecord
  <2>1. ~ Contract!Usable(at, k) /\ Lease[k] = Contract!NoLease
    BY Zenon, <1>2, InForceRecord DEF Contract!Usable, Contract!NoLease, Lease
  <2>2. \A o, t : Contract!Owns(k, o, t) <=> owned(k, o, t)
    BY Zenon, <1>2 DEF Contract!Owns, owned, InForce, NoRecord
  <2> QED BY Zenon, <1>2, <2>1, <2>2
<1>3. CASE hash[k] \in Record
  <2>0. hash[k] # NoRecord
    BY Zenon, <1>3, RecordIsNot
  <2>1. /\ InForce(hash[k]) # Contract!NoLease
        /\ InForce(hash[k]).owner = hash[k].owner /\ InForce(hash[k]).token = hash[k].token
        /\ InForce(hash[k]).expiresAt = hash[k].expiresAt + 1
    BY <1>3, InForceRecord
  <2>2. ~ (clock > hash[k].expiresAt) /\ hash[k].expiresAt \in Int
    BY Zenon, <1>3, <2>0 DEF Names, expired, Record
  <2>3. clock \in Int
    BY Zenon, ValkeyConstants DEF StoreInv, StoreTypeOK
  <2>4. Contract!Usable(at, k)
    BY <2>1, <2>2, <2>3 DEF Contract!Usable, Contract!NoLease
  <2>5. \A o, t : Contract!Owns(k, o, t) <=> owned(k, o, t)
    BY Zenon, <2>1 DEF Contract!Owns, owned
  <2> QED BY Zenon, <1>3, <2>0, <2>1, <2>4, <2>5 DEF Lease
<1> QED BY Zenon, <1>1, <1>2, <1>3

\* A transition for the call that the answer names is a step of the contract.
LEMMA CallMaps ==
  ASSUME NEW op \in Ops, NEW k \in Key, NEW o \in Owner, NEW t, NEW at \in Int,
         Answered(reply').op = op, Answered(reply').key = k, Answered(reply').owner = o,
         Answered(reply').token = t, Answered(reply').at = at, UNCHANGED clock,
         \/ op = "acquire" /\ Contract!TryAcquire(k, o, at)
         \/ op = "renew" /\ Contract!Renew(k, o, t, at)
         \/ op = "validate" /\ Contract!Validate(k, o, t, at)
         \/ op = "release" /\ Contract!Release(k, o, t)
         \/ Contract!Refuse
  PROVE  Contract!ContractNext
BY Zenon DEF Contract!ContractNext, Contract!Op, Ops

\* How the contract's leases change with the hashes.
LEMMA LeaseChange ==
  ASSUME StoreInv, NEW k \in Key, NEW rec, hash' = [hash EXCEPT ![k] = rec]
  PROVE  Lease' = [Lease EXCEPT ![k] = InForce(rec)]
BY Zenon DEF StoreInv, StoreTypeOK, Lease

\* The acquire script: Grant, Contend, or a refusal without a token left.
LEMMA AcquireMaps ==
  ASSUME StoreInv, NEW k \in Key, NEW o \in Owner, NEW d \in Duration, TryAcquire(k, o, d)
  PROVE  Contract!ContractNext
<1> PICK at \in Int : at = clock
  BY ValkeyConstants DEF StoreInv, StoreTypeOK
<1>0. Names(k) /\ UNCHANGED clock
  BY Zenon DEF TryAcquire
<1>1. CASE /\ hash[k] # NoRecord /\ Exec("acquire", k, o, 0, "ErrContended", NoRecord)
           /\ UNCHANGED <<counter, hash>>
  <2>1. Contract!Usable(at, k)
    BY Zenon, <1>0, <1>1, FoundIsUsable
  <2>2. Contract!Told("ErrContended", Contract!NoLease)
    BY Zenon, <1>1, ExecAnswers, InForceRecord DEF Ops
  <2>3. Contract!Contend(at, k, counter'[k])
    BY <1>0, <1>1, <2>1 DEF Contract!Contend, StoreInv, StoreTypeOK
  <2>4. Contract!TryAcquire(k, o, at)
    BY Zenon, <2>2, <2>3 DEF Contract!TryAcquire
  <2> QED BY Zenon, <1>0, <1>1, <2>4, CallMaps, ExecAnswers DEF Ops
<1>2. CASE /\ incrFails(k) /\ Return("acquire", k, o, 0, "ErrAmbiguousOutcome", NoRecord)
           /\ UNCHANGED <<counter, hash>>
  <2>1. Answered(reply') = [op |-> "acquire", key |-> k, owner |-> o, token |-> 0,
                            at |-> clock, err |-> "ErrAmbiguousOutcome",
                            record |-> Contract!NoLease]
    BY Zenon, <1>2, InForceRecord DEF Return, Answered
  <2>2. Contract!Refuse
    BY <1>2, <2>1 DEF Contract!Refuse, Contract!Failure
  <2> QED BY <1>0, <2>1, <2>2, CallMaps DEF Ops
<1>3. CASE /\ hash[k] = NoRecord /\ ~incrFails(k)
           /\ counter' = [counter EXCEPT ![k] = @ + 1]
           /\ hash' = [hash EXCEPT ![k] = [owner |-> o, token |-> counter[k] + 1,
                                          acquiredAt |-> clock, expiresAt |-> clock + d]]
           /\ parseRecord("acquire", k, o, 0,
                           [owner |-> o, token |-> counter[k] + 1,
                            acquiredAt |-> clock, expiresAt |-> clock + d])
  <2> DEFINE granted == [owner |-> o, token |-> counter[k] + 1,
                         acquiredAt |-> clock, expiresAt |-> clock + d]
  <2>1. /\ granted \in Record /\ counter'[k] = counter[k] + 1 /\ counter[k] \in Nat
        /\ d + 1 \in {e + 1 : e \in Duration} /\ clock + d + 1 = at + (d + 1)
    <3>1. counter[k] \in 0..MaxToken /\ counter[k] # MaxToken
      BY Zenon, <1>3 DEF incrFails, StoreInv, StoreTypeOK
    <3>2. d \in Nat /\ clock \in Int /\ MaxToken \in Nat
      BY Zenon, ValkeyConstants
    <3>3. /\ counter[k] \in Nat /\ counter[k] + 1 \in 1..MaxToken
          /\ clock + d \in Int /\ clock + d + 1 = at + (d + 1)
      BY <3>1, <3>2
    <3>4. granted \in Record
      BY Zenon, <3>2, <3>3 DEF Record
    <3>5. counter'[k] = counter[k] + 1
      BY Zenon, <1>3 DEF StoreInv, StoreTypeOK
    <3> QED BY Zenon, <3>3, <3>4, <3>5
  <2>2. InForce(granted) = [owner |-> o, token |-> counter'[k],
                            acquiredAt |-> at, expiresAt |-> at + (d + 1)]
    BY Zenon, <2>1, InForceRecord
  <2>3. ~ Contract!Usable(at, k)
    BY Zenon, <1>0, <1>3, FoundIsUsable
  <2>4. Lease' = [Lease EXCEPT ![k] = InForce(granted)]
    BY Zenon, <1>3, LeaseChange
  <2>5. Lease'[k] = InForce(granted)
    BY Zenon, <2>4 DEF Lease
  <2>6. Contract!Grant(at, k, o, counter'[k], d + 1)
    <3>0. counter'[k] > counter[k] /\ counter' = [counter EXCEPT ![k] = counter[k] + 1]
      <4>1. counter'[k] > counter[k]
        BY <2>1
      <4>2. counter' = [counter EXCEPT ![k] = counter[k] + 1]
        BY Zenon, <1>3
      <4> QED BY Zenon, <4>1, <4>2
    <3>1. counter' = [counter EXCEPT ![k] = counter'[k]]
      BY <2>1, <3>0, Zenon
    <3>2. Lease' = [Lease EXCEPT ![k] = [owner |-> o, token |-> counter'[k],
                                         acquiredAt |-> at, expiresAt |-> at + (d + 1)]]
      BY Zenon, <2>2, <2>4
    <3> QED BY <1>0, <2>3, <3>0, <3>1, <3>2, Zenon DEF Contract!Grant, Lease
  <2>7. Contract!Told("nil", Lease'[k])
    BY Zenon, <1>3, <2>5, ParseAnswers DEF Ops
  <2>8. Contract!TryAcquire(k, o, at)
    BY Zenon, <2>1, <2>6, <2>7, NoFormer DEF Contract!TryAcquire, Lease, Former
  <2> QED BY <1>0, <1>3, <2>8, CallMaps, ParseAnswers DEF Ops
<1> QED BY Zenon, <1>1, <1>2, <1>3 DEF TryAcquire

\* The renew script: Extend, or nothing for a stale owner.
LEMMA RenewMaps ==
  ASSUME StoreInv, NEW k \in Key, NEW o \in Owner, NEW t \in 1..counter[k], NEW d \in Duration,
         Renew(k, o, t, d)
  PROVE  Contract!ContractNext
<1> PICK at \in Int : at = clock
  BY ValkeyConstants DEF StoreInv, StoreTypeOK
<1>0. Names(k) /\ UNCHANGED <<clock, counter>> /\ t \in Nat \ {0}
  BY DEF Renew, StoreInv, StoreTypeOK
<1> DEFINE renewed == [hash[k] EXCEPT !.expiresAt = clock + d]
<1>1. CASE ~owned(k, o, t) /\ Exec("renew", k, o, t, "ErrStaleOwner", NoRecord) /\ UNCHANGED hash
  <2>1. Contract!Told("ErrStaleOwner", Contract!NoLease)
    BY Zenon, <1>1, ExecAnswers, InForceRecord DEF Ops
  <2>2. ~ Contract!Owns(k, o, t)
    BY Zenon, <1>0, <1>1, FoundIsUsable
  <2>3. Contract!Renew(k, o, t, at)
    BY Zenon, <1>0, <1>1, <2>1, <2>2 DEF Contract!Renew
  <2> QED BY Zenon, <1>0, <1>1, <2>3, CallMaps, ExecAnswers DEF Ops
<1>2. CASE /\ owned(k, o, t) /\ parseRecord("renew", k, o, t, renewed)
           /\ hash' = [hash EXCEPT ![k] = renewed]
  <2>1. hash[k] \in Record /\ hash[k].owner = o /\ hash[k].token = t
    BY <1>2, <1>0 DEF StoreInv, StoreTypeOK, owned, NoRecord
  <2>2. /\ renewed \in Record /\ renewed.owner = o /\ renewed.token = t
        /\ renewed.acquiredAt = hash[k].acquiredAt /\ renewed.expiresAt = clock + d
    BY <2>1, ValkeyConstants DEF Record, StoreInv, StoreTypeOK
  <2>3. /\ d + 1 \in {e + 1 : e \in Duration} /\ clock + d + 1 = at + (d + 1)
    BY ValkeyConstants
  <2>4. /\ InForce(renewed) = [owner |-> o, token |-> t, acquiredAt |-> InForce(hash[k]).acquiredAt,
                               expiresAt |-> at + (d + 1)]
    <3>1. InForce(hash[k]).acquiredAt = hash[k].acquiredAt
      BY <2>1, InForceRecord
    <3> HIDE DEF renewed
    <3> QED BY <2>2, <2>3, <3>1, InForceRecord
  <2>5. Contract!Usable(at, k) /\ Contract!Owns(k, o, t)
    <3>1. hash[k] # NoRecord
      BY Zenon, <2>1, RecordIsNot
    <3> QED BY Zenon, <1>0, <1>2, <3>1, FoundIsUsable
  <2> HIDE DEF renewed
  <2>6. Lease' = [Lease EXCEPT ![k] = InForce(renewed)]
    BY Zenon, <1>2, LeaseChange
  <2>7. Lease'[k] = InForce(renewed) /\ InForce(hash[k]) = Lease[k]
    BY Zenon, <2>6 DEF Lease
  <2>8. Contract!Extend(at, k, o, t, d + 1)
    <3>1. Lease' = [Lease EXCEPT ![k] = [owner |-> o, token |-> t,
                       acquiredAt |-> Lease[k].acquiredAt, expiresAt |-> at + (d + 1)]]
      BY Zenon, <2>4, <2>6, <2>7
    <3>2. Contract!Owns(k, o, t)
      BY Zenon, <2>5
    <3> QED BY <1>0, <2>5, <3>1, <3>2, Zenon DEF Contract!Extend, Lease
  <2>9. Contract!Told("nil", Lease'[k])
    BY Zenon, <1>2, <2>7, ParseAnswers DEF Ops
  <2>10. Contract!Renew(k, o, t, at)
    BY Zenon, <2>3, <2>8, <2>9 DEF Contract!Renew, Lease
  <2> QED BY Zenon, <1>0, <1>2, <2>10, CallMaps, ParseAnswers DEF Ops
<1> QED BY Zenon, <1>1, <1>2 DEF Renew

\* The validate script changes nothing and answers as the contract does.
LEMMA ValidateMaps ==
  ASSUME StoreInv, NEW k \in Key, NEW o \in Owner, NEW t \in 1..counter[k], Validate(k, o, t)
  PROVE  Contract!ContractNext
<1> PICK at \in Int : at = clock
  BY ValkeyConstants DEF StoreInv, StoreTypeOK
<1>0. Names(k) /\ UNCHANGED <<clock, counter, hash>> /\ t \in Nat \ {0}
  BY DEF Validate, StoreInv, StoreTypeOK
<1> DEFINE Answers(err, rec) ==
      /\ Answered(reply').op = "validate" /\ Answered(reply').key = k
      /\ Answered(reply').owner = o /\ Answered(reply').token = t
      /\ Answered(reply').at = at
      /\ \/ Contract!Told(err, rec)
         \/ Answered(reply').err = "ErrCanceled" /\ Answered(reply').record = Contract!NoLease
<1>1. CASE ~owned(k, o, t) /\ Exec("validate", k, o, t, "ErrStaleOwner", NoRecord)
  <2>1. Answers("ErrStaleOwner", Contract!NoLease)
    BY Zenon, <1>1, ExecAnswers, InForceRecord DEF Ops
  <2>2. ~ Contract!Owns(k, o, t)
    BY Zenon, <1>0, <1>1, FoundIsUsable
  <2>3. Contract!Validate(k, o, t, at) \/ Contract!Refuse
    BY Zenon, <1>0, <2>1, <2>2 DEF Contract!Validate, Contract!Refuse, Contract!Failure
  <2> QED BY Zenon, <1>0, <2>1, <2>3, CallMaps DEF Ops
<1>2. CASE owned(k, o, t) /\ parseRecord("validate", k, o, t, hash[k])
  <2>1. Answers("nil", InForce(hash[k]))
    BY Zenon, <1>2, ParseAnswers DEF Ops
  <2>2. hash[k] # NoRecord
    <3>1. NoRecord.token = 0
      BY Zenon DEF NoRecord
    <3>2. hash[k].token = t /\ t # 0
      BY Zenon, <1>0, <1>2 DEF owned
    <3> QED BY Zenon, <3>1, <3>2
  <2>3. Contract!Usable(at, k) /\ Contract!Owns(k, o, t)
    BY Zenon, <1>0, <1>2, <2>2, FoundIsUsable
  <2>4. Contract!Validate(k, o, t, at) \/ Contract!Refuse
    BY Zenon, <1>0, <2>1, <2>3 DEF Contract!Validate, Contract!Refuse, Contract!Failure
  <2> QED BY Zenon, <1>0, <2>1, <2>4, CallMaps DEF Ops
<1> QED BY Zenon, <1>1, <1>2 DEF Validate

\* The release script: Vacate, or nothing where no lease is in force.
LEMMA ReleaseMaps ==
  ASSUME StoreInv, NEW k \in Key, NEW o \in Owner, NEW t \in 1..counter[k], Release(k, o, t)
  PROVE  Contract!ContractNext
<1> PICK at \in Int : at = clock
  BY ValkeyConstants DEF StoreInv, StoreTypeOK
<1>0. Names(k) /\ UNCHANGED <<clock, counter>> /\ t \in Nat \ {0}
  BY DEF Release, StoreInv, StoreTypeOK
<1>1. CASE /\ hash[k] = NoRecord \/ owned(k, o, t)
           /\ Exec("release", k, o, t, "nil", NoRecord)
           /\ hash' = [hash EXCEPT ![k] = NoRecord]
  <2>1. Contract!Told("nil", Contract!NoLease)
    BY Zenon, <1>1, ExecAnswers, InForceRecord DEF Ops
  <2>2. Lease' = [Lease EXCEPT ![k] = Contract!NoLease]
    BY Zenon, <1>1, LeaseChange, InForceRecord
  <2>3. CASE hash[k] = NoRecord
    <3>1. UNCHANGED Lease /\ Lease[k] = Contract!NoLease
      BY Zenon, <1>0, <2>2, <2>3, FoundIsUsable DEF Lease
    <3>2. Contract!Release(k, o, t)
      <4>1. Contract!Released(k, o, t) = "nil"
        BY Zenon, NoFormer DEF Contract!Released, Former
      <4> QED BY Zenon, <1>0, <2>1, <3>1, <4>1 DEF Contract!Release, Lease
    <3> QED BY Zenon, <1>0, <1>1, <3>2, CallMaps, ExecAnswers DEF Ops
  <2>4. CASE hash[k] # NoRecord
    <3>1. Lease[k] # Contract!NoLease /\ Contract!Owns(k, o, t)
      BY Zenon, <1>0, <1>1, <2>4, FoundIsUsable
    <3>2. Contract!Vacate(k, o, t)
      BY <1>0, <2>2, <3>1, Zenon DEF Contract!Vacate, Lease
    <3>3. Contract!Release(k, o, t)
      BY Zenon, <2>1, <3>2, NoFormer DEF Contract!Release, Former
    <3> QED BY Zenon, <1>0, <1>1, <3>3, CallMaps, ExecAnswers DEF Ops
  <2> QED BY Zenon, <2>3, <2>4
<1>2. CASE /\ hash[k] # NoRecord /\ ~owned(k, o, t)
           /\ Exec("release", k, o, t, "ErrStaleOwner", NoRecord) /\ UNCHANGED hash
  <2>1. Contract!Told("ErrStaleOwner", Contract!NoLease)
    BY Zenon, <1>2, ExecAnswers, InForceRecord DEF Ops
  <2>2. ~ Contract!Owns(k, o, t) /\ Lease[k] # Contract!NoLease
    BY Zenon, <1>0, <1>2, FoundIsUsable
  <2>3. Contract!Release(k, o, t)
    BY Zenon, <1>0, <1>2, <2>1, <2>2 DEF Contract!Release, Lease
  <2> QED BY Zenon, <1>0, <1>2, <2>3, CallMaps, ExecAnswers DEF Ops
<1> QED BY Zenon, <1>1, <1>2 DEF Release

\* A call without a script changes nothing.
LEMMA RefusedMaps ==
  ASSUME NEW op \in Ops, Refused(op)
  PROVE  Contract!ContractNext
<1>1. PICK err \in {"ErrCanceled", "ErrInvalidState"} \cup classify(op) :
        Return(op, "any", "any", 0, err, NoRecord)
  BY Zenon DEF Refused
<1>2. /\ Answered(reply').op = op /\ Answered(reply').err = err
      /\ Answered(reply').record = Contract!NoLease
  BY Zenon, <1>1, InForceRecord DEF Return, Answered, Ops
<1>3. Contract!Refuse
  BY Zenon, <1>2 DEF Contract!Refuse, Contract!Failure, Refused, classify
<1> QED BY Zenon, <1>2, <1>3 DEF Contract!ContractNext, Contract!Op, Ops, Refused

\* The server's own steps: only an expired lease vanishes (Lapse).
LEMMA ServerMaps ==
  ASSUME StoreInv, Server
  PROVE  [Contract!ContractNext]_(Contract!contractVars)
<1>1. CASE Open
  BY Zenon, <1>1 DEF Open, Contract!contractVars, Answered
<1>2. CASE Time
  <2>1. Answered(reply') = Contract!NoReply /\ clock' \in Int
    <3>1. Answered(reply') = Contract!NoReply
      BY Zenon, <1>2, NoAnswer DEF Time
    <3>2. clock' \in 0..MaxClock
      BY Zenon, <1>2 DEF Time
    <3> QED BY <3>1, <3>2, ValkeyConstants
  <2>2. UNCHANGED <<counter, hash>>
    BY Zenon, <1>2 DEF Time
  <2> QED BY Zenon, <2>1, <2>2 DEF Contract!ContractNext, Contract!ServerTime
<1>3. ASSUME NEW k \in Key, Expire(k) PROVE Contract!ContractNext
  <2>1. Answered(reply') = Contract!NoReply
    BY Zenon, <1>3, NoAnswer DEF Expire
  <2>2. Lease' = [Lease EXCEPT ![k] = Contract!NoLease]
    BY Zenon, <1>3, LeaseChange, InForceRecord DEF Expire
  <2>3. hash[k] \in Record /\ clock > hash[k].expiresAt /\ clock \in Int
    BY <1>3, ValkeyConstants DEF Expire, expired, StoreInv, StoreTypeOK
  <2>4. /\ Lease[k] # Contract!NoLease /\ Lease[k].expiresAt = hash[k].expiresAt + 1
        /\ hash[k].expiresAt \in Int
    <3>1. Lease[k] = InForce(hash[k])
      BY Zenon DEF Lease
    <3>2. hash[k].expiresAt \in Int
      BY Zenon, <2>3 DEF Record
    <3>3. /\ InForce(hash[k]) # Contract!NoLease
          /\ InForce(hash[k]).expiresAt = hash[k].expiresAt + 1
      BY <2>3, InForceRecord
    <3> QED BY Zenon, <3>1, <3>2, <3>3
  <2>5. ~ Contract!Usable(clock, k)
    BY <2>3, <2>4 DEF Contract!Usable, Lease
  <2>6. Contract!Lapse(k)
    BY <1>3, <2>2, <2>4, <2>5, Zenon DEF Contract!Lapse, Lease, Expire
  <2> QED BY Zenon, <2>1, <2>6 DEF Contract!ContractNext
<1>4. ASSUME NEW k \in Key, Evict(k) PROVE Contract!ContractNext
  <2>1. Answered(reply') = Contract!NoReply
    BY Zenon, <1>4 DEF Evict, Answered, NoReply, Contract!NoReply
  <2>2. UNCHANGED <<clock, counter, hash>> /\ clock \in Int
    BY <1>4, ValkeyConstants DEF Evict, StoreInv, StoreTypeOK
  <2> QED BY Zenon, <2>1, <2>2 DEF Contract!ContractNext, Contract!ServerTime
<1> QED BY Zenon, <1>1, <1>2, <1>3, <1>4 DEF Server

\* A step that the store does not notice is no step of the contract, but for
\* the answer that is forgotten.
LEMMA AsideMaps ==
  ASSUME StoreInv, UNCHANGED <<clock, counter, hash>>, reply' \in {reply, NoReply}
  PROVE  [Contract!ContractNext]_(Contract!contractVars)
<1>1. CASE reply' = reply
  BY Zenon, <1>1 DEF Contract!contractVars
<1>2. CASE reply' = NoReply
  <2>1. Answered(reply') = Contract!NoReply /\ clock' \in Int
    <3>1. Answered(reply') = Contract!NoReply
      BY Zenon, <1>2, NoAnswer
    <3>2. clock \in 0..MaxClock /\ clock' = clock
      BY Zenon DEF StoreInv, StoreTypeOK
    <3> QED BY <3>1, <3>2, ValkeyConstants
  <2> QED BY Zenon, <2>1 DEF Contract!ContractNext, Contract!ServerTime
<1> QED BY Zenon, <1>1, <1>2

-------------------------------------------------------------------------------
(* The composition *)

\* The invariant holds before Open.
LEMMA InitInv == Init => IInv
<1> SUFFICES ASSUME Init PROVE StoreInv /\ WritesInv /\ ObservationInv
  BY Zenon, Parts
<1>1. StoreInv
  <2>1. open = FALSE /\ open \in BOOLEAN
    BY Zenon DEF Init, StoreInit
  <2>2. counter \in [Key -> 0..MaxToken] /\ hash \in [Key -> Record \cup {NoRecord}]
    BY ValkeyConstants DEF Init, StoreInit
  <2> QED BY Zenon, <2>1, <2>2 DEF Init, StoreInit, StoreInv, StoreTypeOK
<1>2. WritesInv
  BY DEF Init, StoreInit, WritesInit, WritesInv, WritesTypeOK
<1>3. ObservationInv
  <2>1. active \in [Slot -> BOOLEAN]
    BY Zenon DEF Init, ObservationInit
  <2> QED BY <2>1, ObservationConstants DEF Init, ObservationInit, ObservationInv,
        ObservationTypeOK, OneCallbackPerSlot
<1> QED BY Zenon, <1>1, <1>2, <1>3

\* One step of the composition, for each component.
LEMMA NextStep ==
  ASSUME IInv, [Next]_vars
  PROVE  /\ StoreInv' /\ WritesInv' /\ ObservationInv'
         /\ \A k \in Key : published'[k] >= published[k]
         /\ [Contract!ContractNext]_(Contract!contractVars)
<1>0. StoreInv /\ WritesInv /\ ObservationInv
  BY Zenon, Parts
<1> USE <1>0
<1> DEFINE Quiet == UNCHANGED <<clock, counter, hash, deployment, open>>
           Kept == \A k \in Key : published'[k] >= published[k]
           Maps == [Contract!ContractNext]_(Contract!contractVars)
<1>1. ObservationInv'
  BY Zenon, ObservationStep DEF Next, vars, ObservedCall, Offer, Callback
<1>2. ASSUME BackendCall \/ Server \/ Quiet, UNCHANGED writeVars
      PROVE  StoreInv' /\ WritesInv' /\ Kept
  <2>1. StoreInv' /\ \A k \in Key : counter'[k] >= counter[k]
    BY Zenon, <1>2, StoreStep
  <2>2. /\ \A k \in Key : /\ counter[k] \in Nat /\ counter'[k] \in Nat
                           /\ published[k] \in Nat /\ fence[k] \in Nat
        /\ published' = published /\ fence' = fence
    BY <1>2, <2>1 DEF StoreInv, StoreTypeOK, WritesInv, WritesTypeOK, writeVars
  <2> QED BY <2>1, <2>2 DEF WritesInv, WritesTypeOK
<1>3. CASE \E c \in Caller : ObservedCall(c)
  <2>1. BackendCall /\ UNCHANGED writeVars
    BY Zenon, <1>3 DEF ObservedCall
  <2>2. Contract!ContractNext
    BY Zenon, <2>1, AcquireMaps, RenewMaps, ValidateMaps, ReleaseMaps, RefusedMaps DEF BackendCall, Ops
  <2> QED BY Zenon, <1>1, <1>2, <2>1, <2>2
<1>4. CASE \/ \E c \in Caller : Offer(c)
           \/ \E s \in Slot : Callback(s)
  <2>1. Aside
    BY Zenon, <1>4 DEF Offer, Callback
  <2> QED BY Zenon, <1>1, <1>2, <2>1, AsideMaps DEF Aside
<1>5. CASE Server /\ UNCHANGED writeVars
  BY Zenon, <1>1, <1>2, <1>5, ServerMaps
<1>6. CASE Write
  <2>1. /\ WritesInv' /\ Quiet /\ reply' = NoReply /\ Kept
    BY Zenon, <1>6, WriteStep
  <2>2. StoreInv'
    BY Zenon, <2>1, StoreStep
  <2> QED BY Zenon, <1>1, <2>1, <2>2, AsideMaps
<1>7. CASE UNCHANGED vars
  <2>1. Quiet /\ UNCHANGED writeVars /\ reply' = reply
    BY Zenon, <1>7 DEF vars, storeVars
  <2> QED BY Zenon, <1>1, <1>2, <2>1, AsideMaps
<1> QED BY Zenon, <1>3, <1>4, <1>5, <1>6, <1>7 DEF Next

\* The inductive invariant holds: in particular a client never sees a key that
\* was evicted, and a hash carries the last token of its counter.
THEOREM Invariance == Spec => []IInv
<1>1. IInv /\ [Next]_vars => IInv'
  <2>1. StoreInv' /\ WritesInv' /\ ObservationInv' => IInv'
    BY Zenon DEF IInv, StoreInv, WritesInv, ObservationInv
  <2> QED BY Zenon, <2>1, NextStep
<1> QED BY <1>1, InitInv, PTL DEF Spec

\* emit and callObserver: a slot has one callback, started or about to start,
\* exactly while it is marked active.
THEOREM SlotsExclusive == Spec => []OneCallbackPerSlot
<1>1. IInv => OneCallbackPerSlot
  BY Zenon DEF IInv
<1> QED BY <1>1, Invariance, PTL

\* The resource never shuts out the holder of the lease.
THEOREM HolderWrites == Spec => []HolderIsNotOutranked
<1>1. IInv => HolderIsNotOutranked
  BY Zenon DEF IInv, HolderIsNotOutranked
<1> QED BY <1>1, Invariance, PTL

\* Cache entries are published in the order of the tokens.
THEOREM Publication == Spec => PublicationOrdered
<1>1. IInv /\ [Next]_vars => [\A k \in Key : published'[k] >= published[k]]_<<storeVars, writeVars>>
  BY Zenon, NextStep
<1> QED BY <1>1, Invariance, PTL DEF Spec, PublicationOrdered

\* The Valkey store, its observers and writers at work, implements the backend
\* contract.
THEOREM Refinement == Spec => ImplementsContract
<1>1. Init => Contract!ContractInit
  <2>1. ASSUME Init PROVE /\ clock \in Int /\ counter = [k \in Key |-> 0]
                          /\ Lease = [k \in Key |-> Contract!NoLease]
                          /\ Answered(reply) = Contract!NoReply
    <3>1. /\ clock \in 0..MaxClock /\ counter = [k \in Key |-> 0]
          /\ hash = [k \in Key |-> NoRecord] /\ reply = NoReply
      BY Zenon, <2>1 DEF Init, StoreInit
    <3>2. Lease = [k \in Key |-> Contract!NoLease]
      BY Zenon, <3>1, InForceRecord DEF Lease
    <3> QED BY <3>1, <3>2, NoAnswer, ValkeyConstants
  <2> QED BY Zenon, <2>1, NoFormer DEF Contract!ContractInit, Lease, Former
<1>2. IInv /\ [Next]_vars => [Contract!ContractNext]_(Contract!contractVars)
  BY Zenon, NextStep
<1> QED BY <1>1, <1>2, Invariance, PTL DEF Spec, ImplementsContract, Contract!ContractSpec
===============================================================================
