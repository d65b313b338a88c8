------------------------------ MODULE ValkeyStore ------------------------------
(***************************************************************************)
(* valkey/: each call of the store is one Lua script, which the server     *)
(* executes as a whole.  A lease is a hash with an expiry; its fencing     *)
(* tokens come from a counter key that has none.  The answer of a script   *)
(* may be lost, and a call its caller has given up may be executed later:  *)
(* both answer the caller with an error that does not tell.                *)
(*                                                                         *)
(* The server keeps a key up to and including the millisecond of its       *)
(* expiry, and a key past it until somebody names it or the expiry cycle   *)
(* finds it; set back in between, the clock makes such a key live again.   *)
(***************************************************************************)
EXTENDS Integers

CONSTANTS
  Key, Owner,
  Duration,     \* TTLs in whole milliseconds
  MaxToken,     \* the largest integer INCR reaches
  MaxClock      \* bound: TIME stays within 0..MaxClock

ASSUME ValkeyConstants ==
  Duration \subseteq Nat \ {0} /\ MaxToken \in Nat \ {0} /\ MaxClock \in Nat

VARIABLES
  clock,        \* TIME in milliseconds
  counter,      \* KEYS[2]: the counter of each key; 0 for a missing one
  hash,         \* KEYS[1]: the lease of each key
  deployment,   \* what Check inspects
  open,         \* Open has returned a Store
  reply         \* the last answer, as in module LeaseContract

storeVars == <<clock, counter, hash, deployment, open, reply>>

NoRecord == [owner |-> "none", token |-> 0, acquiredAt |-> 0, expiresAt |-> 0]
Record == [owner : Owner, token : 1..MaxToken, acquiredAt : Int, expiresAt : Int]
NoReply == [op |-> "none", token |-> 0]
Deployment == [major : {8, 9}, eviction : {"noeviction", "allkeys-lru"}]

StoreTypeOK ==
  /\ clock \in 0..MaxClock
  /\ counter \in [Key -> 0..MaxToken]
  /\ hash \in [Key -> Record \cup {NoRecord}]
  /\ deployment \in Deployment /\ open \in BOOLEAN

StoreInit ==
  /\ clock \in 0..MaxClock
  /\ counter = [k \in Key |-> 0] /\ hash = [k \in Key |-> NoRecord]
  /\ deployment \in Deployment /\ open = FALSE
  /\ reply = NoReply

-------------------------------------------------------------------------------
(* native.go *)

\* Mutant: only the version is inspected.
CheckVersion(d) == d.major >= 9

Check(d) == d.major >= 9 /\ d.eviction = "noeviction"

\* Open inspects the deployment once.
Open ==
  /\ ~open /\ open' = Check(deployment)
  /\ UNCHANGED <<clock, counter, hash, deployment, reply>>

\* The server under memory pressure drops keys, whether or not they expire.
Evict(k) ==
  /\ deployment.eviction # "noeviction"
  /\ hash' = [hash EXCEPT ![k] = NoRecord]
  /\ counter' = [counter EXCEPT ![k] = 0]
  /\ reply' = NoReply
  /\ UNCHANGED <<clock, deployment, open>>

Return(op, k, o, t, err, rec) ==
  reply' = [op |-> op, key |-> k, owner |-> o, token |-> t, at |-> clock,
            err |-> err, record |-> rec]

\* classify: the answer is lost, or the script fails.
classify(op) ==
  IF op = "validate" THEN {"ErrCanceled", "ErrBackendUnavailable"} ELSE {"ErrAmbiguousOutcome"}

\* Exec, when the script has run: its answer arrives, or an error.
Exec(op, k, o, t, err, rec) ==
  \/ Return(op, k, o, t, err, rec)
  \/ \E lost \in classify(op) : Return(op, k, o, t, lost, NoRecord)

\* The call does not get as far as a script (validate), or its script is not
\* executed.  Whose call it was makes no difference.
Refused(op) ==
  /\ open
  /\ \E err \in {"ErrCanceled", "ErrInvalidState"} \cup classify(op) :
       Return(op, "any", "any", 0, err, NoRecord)
  /\ UNCHANGED <<clock, counter, hash, deployment, open>>

-------------------------------------------------------------------------------
(* scripts.go, with the part of store.go that reads the answer *)

expired(k) == hash[k] # NoRecord /\ clock > hash[k].expiresAt

\* A script that names an expired key finds it deleted: Expire comes first.
Names(k) == open /\ ~expired(k)

\* Mutant: the token is not compared.
ownedByName(k, o, t) == hash[k].owner = o

owned(k, o, t) == hash[k].owner = o /\ hash[k].token = t

\* parseRecord: an answer whose times are out of order, which a clock set back
\* can produce, is refused.
parseRecord(op, k, o, t, rec) ==
  IF rec.expiresAt > rec.acquiredAt THEN Exec(op, k, o, t, "nil", rec)
  ELSE Exec(op, k, o, t, "ErrBackendUnavailable", NoRecord)

\* Mutant: INCR goes on beyond the largest integer.
incrNeverFails(k) == FALSE

\* Without a token left INCR fails, and with it the script.
incrFails(k) == counter[k] = MaxToken

TryAcquire(k, o, d) ==
  LET granted == [owner |-> o, token |-> counter[k] + 1,
                  acquiredAt |-> clock, expiresAt |-> clock + d]
  IN  /\ Names(k)
      /\ \/ /\ hash[k] # NoRecord
            /\ Exec("acquire", k, o, 0, "ErrContended", NoRecord)
            /\ UNCHANGED <<counter, hash>>
         \/ /\ hash[k] = NoRecord /\ incrFails(k)
            /\ Return("acquire", k, o, 0, "ErrAmbiguousOutcome", NoRecord)
            /\ UNCHANGED <<counter, hash>>
         \/ /\ hash[k] = NoRecord /\ ~incrFails(k)
            /\ counter' = [counter EXCEPT ![k] = @ + 1]
            /\ hash' = [hash EXCEPT ![k] = granted]
            /\ parseRecord("acquire", k, o, 0, granted)
      /\ UNCHANGED <<clock, deployment, open>>

Renew(k, o, t, d) ==
  LET renewed == [hash[k] EXCEPT !.expiresAt = clock + d]
  IN  /\ Names(k)
      /\ \/ /\ ~owned(k, o, t) /\ Exec("renew", k, o, t, "ErrStaleOwner", NoRecord)
            /\ UNCHANGED hash
         \/ /\ owned(k, o, t) /\ parseRecord("renew", k, o, t, renewed)
            /\ hash' = [hash EXCEPT ![k] = renewed]
      /\ UNCHANGED <<clock, counter, deployment, open>>

Validate(k, o, t) ==
  /\ Names(k)
  /\ \/ ~owned(k, o, t) /\ Exec("validate", k, o, t, "ErrStaleOwner", NoRecord)
     \/ owned(k, o, t) /\ parseRecord("validate", k, o, t, hash[k])
  /\ UNCHANGED <<clock, counter, hash, deployment, open>>

\* Mutant: the counter is deleted with the lease.
ReleaseBoth(k, o, t) ==
  /\ Names(k) /\ owned(k, o, t)
  /\ Exec("release", k, o, t, "nil", NoRecord)
  /\ hash' = [hash EXCEPT ![k] = NoRecord]
  /\ counter' = [counter EXCEPT ![k] = 0]
  /\ UNCHANGED <<clock, deployment, open>>

\* A missing hash is a success to everybody: nobody remembers who released.
Release(k, o, t) ==
  /\ Names(k)
  /\ \/ /\ hash[k] = NoRecord \/ owned(k, o, t)
        /\ Exec("release", k, o, t, "nil", NoRecord)
        /\ hash' = [hash EXCEPT ![k] = NoRecord]
     \/ /\ hash[k] # NoRecord /\ ~owned(k, o, t)
        /\ Exec("release", k, o, t, "ErrStaleOwner", NoRecord)
        /\ UNCHANGED hash
  /\ UNCHANGED <<clock, counter, deployment, open>>

\* A caller presents the owner and token of any acquisition there was.
BackendCall ==
  \/ \E k \in Key, o \in Owner :
       \/ \E d \in Duration : TryAcquire(k, o, d)
       \/ \E t \in 1..counter[k] :
            \/ \E d \in Duration : Renew(k, o, t, d)
            \/ Validate(k, o, t) \/ Release(k, o, t)
  \/ \E op \in {"acquire", "renew", "validate", "release"} : Refused(op)

-------------------------------------------------------------------------------
(* The server *)

\* PEXPIRE has run out; the counter stays.
Expire(k) ==
  /\ expired(k)
  /\ hash' = [hash EXCEPT ![k] = NoRecord]
  /\ reply' = NoReply
  /\ UNCHANGED <<clock, counter, deployment, open>>

\* Time passes, or the server's clock is corrected.
Time ==
  /\ open /\ clock' \in 0..MaxClock
  /\ reply' = NoReply
  /\ UNCHANGED <<counter, hash, deployment, open>>

Server == Open \/ Time \/ \E k \in Key : Expire(k) \/ Evict(k)

-------------------------------------------------------------------------------
\* A hash as the contract's record: it is in force until the millisecond after
\* the one it reports as its expiry.
InForce(rec) ==
  IF rec = NoRecord THEN NoRecord
  ELSE [owner |-> rec.owner, token |-> rec.token,
        acquiredAt |-> rec.acquiredAt, expiresAt |-> rec.expiresAt + 1]

Answered(r) ==
  IF r.op = "none" THEN NoReply
  ELSE [op |-> r.op, key |-> r.key, owner |-> r.owner, token |-> r.token, at |-> r.at,
        err |-> r.err, record |-> InForce(r.record)]

Contract == INSTANCE LeaseContract WITH
  serverClock <- clock,
  fence <- counter,
  lease <- [k \in Key |-> InForce(hash[k])],
  former <- [k \in Key |-> NoRecord],
  reply <- Answered(reply),
  overtaken <- FALSE,
  Missing <- "nil",
  Duration <- {d + 1 : d \in Duration}

\* Every call of the Valkey store, answered or not, is one transition of the
\* lease table with an answer the contract allows; keys vanish only when they
\* have expired, and counters never do.
ImplementsContract == Contract!ContractSpec
===============================================================================
