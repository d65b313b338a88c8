------------------------------ MODULE LeaseTable ------------------------------
(***************************************************************************)
(* The state every lease backend keeps and the atomic transitions it makes *)
(* on it: the part of the Backend interface (backend.go) that the clients  *)
(* of all three stores rely on.  For one key a backend keeps the highest   *)
(* fencing token it has consumed and the lease that is in force, if any.   *)
(* Time is the backend's own clock: it is never compared with a client's.  *)
(***************************************************************************)
EXTENDS Integers

CONSTANTS
  Key,          \* canonical lease keys
  Owner         \* opaque owner identities

VARIABLES
  serverClock,  \* the backend's clock
  fence,        \* [Key -> Nat]: highest fencing token consumed for the key
  lease         \* [Key -> Record \cup {NoLease}]: the lease in force

tableVars == <<serverClock, fence, lease>>

Token == Nat \ {0}

\* lease.Record; the key is the index under which the record is stored.
Record == [owner : Owner, token : Token, acquiredAt : Int, expiresAt : Int]

NoLease == [owner |-> "none", token |-> 0, acquiredAt |-> 0, expiresAt |-> 0]

TableTypeOK ==
  /\ serverClock \in Int
  /\ fence \in [Key -> Nat]
  /\ lease \in [Key -> Record \cup {NoLease}]

\* Record.UsableAt with no margin: the lease has not expired when the backend's
\* clock reads at.
Usable(at, k) == lease[k] # NoLease /\ at < lease[k].expiresAt

\* Mutant: the token is not compared.
OwnsByName(k, o, t) == lease[k].owner = o

\* Owner and token are compared together, in the same atomic operation.
Owns(k, o, t) == lease[k].owner = o /\ lease[k].token = t

\* Mutant: a token may be used again.
GrantAgain(at, k, o, t, d) ==
  /\ ~Usable(at, k)
  /\ \E reused \in {t - 1, t} \ {0} :
       /\ fence' = [fence EXCEPT ![k] = reused]
       /\ lease' = [lease EXCEPT ![k] = [owner |-> o, token |-> reused,
                                         acquiredAt |-> at, expiresAt |-> at + d]]
  /\ UNCHANGED serverClock

\* A successful acquisition: a token above every earlier one, and a lease
\* that runs for d from the instant at which the backend read its clock.
Grant(at, k, o, t, d) ==
  /\ ~Usable(at, k)
  /\ t > fence[k]
  /\ fence' = [fence EXCEPT ![k] = t]
  /\ lease' = [lease EXCEPT ![k] = [owner |-> o, token |-> t,
                                    acquiredAt |-> at, expiresAt |-> at + d]]
  /\ UNCHANGED serverClock

\* A refused acquisition.  Tokens up to f may be consumed without being
\* granted: PostgreSQL increments the fence before it finds the contention.
Contend(at, k, f) ==
  /\ Usable(at, k)
  /\ f >= fence[k]
  /\ fence' = [fence EXCEPT ![k] = f]
  /\ UNCHANGED <<serverClock, lease>>

\* A successful renewal restarts the expiry and changes nothing else.
Extend(at, k, o, t, d) ==
  /\ Usable(at, k) /\ Owns(k, o, t)
  /\ lease' = [lease EXCEPT ![k] = [owner |-> o, token |-> t,
                                    acquiredAt |-> lease[k].acquiredAt,
                                    expiresAt |-> at + d]]
  /\ UNCHANGED <<serverClock, fence>>

\* A successful release, also of a lease that has expired unnoticed.
Vacate(k, o, t) ==
  /\ lease[k] # NoLease /\ Owns(k, o, t)
  /\ lease' = [lease EXCEPT ![k] = NoLease]
  /\ UNCHANGED <<serverClock, fence>>

\* An expired lease may be dropped; the fence is retained.
Lapse(k) ==
  /\ lease[k] # NoLease /\ ~Usable(serverClock, k)
  /\ lease' = [lease EXCEPT ![k] = NoLease]
  /\ UNCHANGED <<serverClock, fence>>
===============================================================================
