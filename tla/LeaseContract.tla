----------------------------- MODULE LeaseContract -----------------------------
(***************************************************************************)
(* What a lease backend promises (the Backend interface of backend.go):    *)
(* each call is one atomic transition of the lease table together with     *)
(* the answer it gives.  The three stores are shown to implement this      *)
(* specification; the client-side modules are built on the same            *)
(* transitions.                                                            *)
(*                                                                         *)
(* A call is judged at an instant at which the store read its clock during *)
(* the call.  That is the present for a mutex or a script; a PostgreSQL    *)
(* statement may read the clock and then wait for a row.                   *)
(*                                                                         *)
(* A store that keeps the record of a released lease recognises who        *)
(* released it; one that has no record of a key gives everybody the same   *)
(* answer ("missing-record handling differs by backend").  A record may be *)
(* forgotten only where that answer is a success, so either way a release  *)
(* that has succeeded succeeds again, until somebody else acquires.        *)
(***************************************************************************)
EXTENDS LeaseTable

CONSTANTS
  Duration,   \* lease durations callers may ask for
  MaxToken,   \* the last fencing token
  Missing     \* what Release answers without a record: "nil" or "ErrStaleOwner"

VARIABLES
  former,     \* [Key -> Record \cup {NoLease}]: the released lease still on record
  reply,      \* the last answer: which call, judged when, result
  overtaken   \* while that call ran, another one changed what it had read; never
              \* so in a store that runs one call at a time

contractVars == <<serverClock, fence, lease, former, reply, overtaken>>

Op == {"acquire", "renew", "validate", "release"}

\* Errors a store reports when it has changed nothing.
Failure ==
  {"ErrBackendUnavailable", "ErrCanceled", "ErrInvalidState", "ErrAmbiguousOutcome"}

\* Errors that do not say whether the call took effect.
Unclear == {"ErrBackendUnavailable", "ErrAmbiguousOutcome"}

\* The answer to a call made for owner o with token t (0 for an acquisition).
Answer(op, k, o, t, at, err, rec) ==
  [op |-> op, key |-> k, owner |-> o, token |-> t, at |-> at, err |-> err, record |-> rec]

NoReply == [op |-> "none", token |-> 0]

ContractInit ==
  /\ serverClock \in Int
  /\ fence = [k \in Key |-> 0]
  /\ lease = [k \in Key |-> NoLease] /\ former = [k \in Key |-> NoLease]
  /\ reply = NoReply /\ overtaken = FALSE

\* The caller is told, or its answer is lost.
Told(err, rec) ==
  \/ reply'.err = err /\ reply'.record = rec
  \/ reply'.err \in Unclear /\ reply'.record = NoLease

\* Backend.TryAcquire: granted with a fresh token, or contended.  Without a
\* token left a call that was overtaken may be told of contention although the
\* lease of the last token is over.
TryAcquire(k, o, at) ==
  \/ /\ \E d \in Duration : Grant(at, k, o, fence'[k], d)
     /\ former' = [former EXCEPT ![k] = NoLease]
     /\ Told("nil", lease'[k])
  \/ Contend(at, k, fence'[k]) /\ UNCHANGED former /\ Told("ErrContended", NoLease)
  \/ /\ fence[k] = MaxToken /\ overtaken'
     /\ Told("ErrContended", NoLease) /\ UNCHANGED <<fence, lease, former>>

\* Backend.Renew: the caller's owner and token are current and unexpired, or
\* nothing changes.
Renew(k, o, t, at) ==
  /\ \/ /\ \E d \in Duration : Extend(at, k, o, t, d)
        /\ Told("nil", lease'[k])
     \/ /\ ~(Usable(at, k) /\ Owns(k, o, t))
        /\ Told("ErrStaleOwner", NoLease) /\ UNCHANGED <<fence, lease>>
  /\ UNCHANGED former

\* Backend.Validate: Renew's comparison without its extension.
Validate(k, o, t, at) ==
  /\ IF Usable(at, k) /\ Owns(k, o, t)
     THEN Told("nil", lease[k]) ELSE Told("ErrStaleOwner", NoLease)
  /\ UNCHANGED <<fence, lease, former>>

\* The answer to a release where no lease is in force: a repeated release of
\* the lease on record succeeds, anybody else's is stale.
Released(k, o, t) ==
  IF former[k] = NoLease THEN Missing
  ELSE IF former[k].owner = o /\ former[k].token = t THEN "nil" ELSE "ErrStaleOwner"

\* Backend.Release: ends the caller's own lease and no other.  A call that was
\* overtaken by the release of that lease may be called stale.
Release(k, o, t) ==
  \/ /\ Vacate(k, o, t) /\ Told("nil", NoLease)
     /\ \/ former' = [former EXCEPT ![k] = lease[k]]
        \/ former' = [former EXCEPT ![k] = NoLease] /\ Missing = "nil"
  \/ /\ \/ lease[k] = NoLease /\ Told(Released(k, o, t), NoLease)
        \/ lease[k] # NoLease /\ ~Owns(k, o, t) /\ Told("ErrStaleOwner", NoLease)
        \/ lease[k] = NoLease /\ overtaken' /\ Told("ErrStaleOwner", NoLease)
     /\ UNCHANGED <<fence, lease, former>>

Refuse ==
  /\ reply'.err \in Failure /\ reply'.record = NoLease
  /\ UNCHANGED <<fence, lease, former>>

\* Records of released leases are removed.
Forget ==
  /\ Missing = "nil"
  /\ \E gone \in SUBSET Key :
       former' = [k \in Key |-> IF k \in gone THEN NoLease ELSE former[k]]
  /\ UNCHANGED tableVars

\* Time passes, or is corrected: the backend's clock may be set back.
ServerTime ==
  /\ serverClock' \in Int
  /\ UNCHANGED <<fence, lease, former>>

\* A step answers the call that its reply names, drops an expired lease, removes
\* old records or lets time pass; the last answer may be forgotten.
ContractNext ==
  \/ /\ reply'.op \in Op
     /\ \/ Refuse
        \/ \E k \in {reply'.key}, o \in {reply'.owner}, t \in {reply'.token}, at \in {reply'.at} :
             /\ k \in Key /\ o \in Owner /\ at \in Int
             /\ \/ reply'.op = "acquire" /\ TryAcquire(k, o, at)
                \/ reply'.op = "renew" /\ Renew(k, o, t, at)
                \/ reply'.op = "validate" /\ Validate(k, o, t, at)
                \/ reply'.op = "release" /\ Release(k, o, t)
     /\ UNCHANGED serverClock
  \/ /\ reply' \in {reply, NoReply}
     /\ \/ (\E k \in Key : Lapse(k)) /\ UNCHANGED former
        \/ Forget \/ ServerTime

ContractSpec == ContractInit /\ [][ContractNext]_contractVars
===============================================================================
