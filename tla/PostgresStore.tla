----------------------------- MODULE PostgresStore -----------------------------
(***************************************************************************)
(* postgres/store.go: every call is one SQL statement in a transaction of  *)
(* its own, at the default isolation level READ COMMITTED.  A statement    *)
(* reads the snapshot of its start, except that a row it locks is read     *)
(* again once it has the lock; locks are held and writes invisible until   *)
(* the transaction ends.  A transaction may abort at any time, and the     *)
(* answer of one that commits may be lost.  Those rules are the server's;  *)
(* what is read, locked and written when is the store's SQL.  Calls of     *)
(* clock_timestamp() that no wait for a lock separates are one reading.    *)
(***************************************************************************)
EXTENDS Integers, FiniteSets, FiniteSetsExt

CONSTANTS
  Key, Owner,
  Duration,     \* TTLs in whole milliseconds
  Call,         \* calls that may be in progress at the same time
  Batch,        \* argument of Cleanup
  CleanupAge,   \* "1 hour"
  MaxToken,     \* the largest bigint
  MaxClock      \* bound: clock_timestamp() stays within 0..MaxClock

NoCall == "no call"

ASSUME PostgresConstants ==
  /\ NoCall \notin Call /\ Duration \subseteq Nat \ {0}
  /\ Batch \in Nat \ {0} /\ CleanupAge \in Nat
  /\ MaxToken \in Nat \ {0} /\ MaxClock \in Nat

VARIABLES
  clock,               \* clock_timestamp()
  fences,              \* lease_fences; 0 for a missing row
  records,             \* lease_records
  fenceLock, rowLock,  \* [Key -> Call \cup {NoCall}]: who locks the rows of a key
  call,                \* the statement each call is executing
  reply                \* the last answer, as in module LeaseContract

vars == <<clock, fences, records, fenceLock, rowLock, call, reply>>

Row == [owner : Owner, token : 1..MaxToken, acquiredAt : Int, expiresAt : Int,
        active : BOOLEAN, updatedAt : Int]
NoRow == [owner |-> "none", token |-> 0, acquiredAt |-> 0, expiresAt |-> 0,
          active |-> FALSE, updatedAt |-> 0]
NoRecord == [owner |-> "none", token |-> 0, acquiredAt |-> 0, expiresAt |-> 0]
NoReply == [op |-> "none", token |-> 0]

\* A statement: its arguments, what its snapshot said, the clock it last read
\* and what it will answer when its transaction commits.
Idle == [pc |-> "idle"]
Statement ==
  [pc : {"fence", "row", "commit"}, op : {"acquire", "renew", "release"},
   key : Key, owner : Owner, token : 0..MaxToken, ttl : Duration \cup {0}, at : 0..MaxClock,
   exhausted : BOOLEAN,   \* the snapshot has the last token in lease_fences
   current : BOOLEAN,     \* what the answer owes to the snapshot is still so
   err : {"none", "nil", "ErrContended", "ErrBackendUnavailable"}]
CleanupStatement == [pc : {"commit"}, op : {"cleanup"}, doomed : SUBSET Key]

TypeOK ==
  /\ clock \in 0..MaxClock
  /\ fences \in [Key -> 0..MaxToken]
  /\ records \in [Key -> Row \cup {NoRow}]
  /\ fenceLock \in [Key -> Call \cup {NoCall}] /\ rowLock \in [Key -> Call \cup {NoCall}]
  /\ call \in [Call -> {Idle} \cup Statement \cup CleanupStatement]

Init ==
  /\ clock \in 0..MaxClock
  /\ fences = [k \in Key |-> 0] /\ records = [k \in Key |-> NoRow]
  /\ fenceLock = [k \in Key |-> NoCall] /\ rowLock = [k \in Key |-> NoCall]
  /\ call = [c \in Call |-> Idle]
  /\ reply = NoReply

-------------------------------------------------------------------------------
(* Statements and transactions *)

\* lease.Record from the columns a statement returns.
recordFromValues(r) ==
  [owner |-> r.owner, token |-> r.token, acquiredAt |-> r.acquiredAt, expiresAt |-> r.expiresAt]

Return(op, k, o, t, at, err, rec, overtaken) ==
  reply' = [op |-> op, key |-> k, owner |-> o, token |-> t, at |-> at,
            err |-> err, record |-> rec, overtaken |-> overtaken]

\* A statement that needs no lock is over in one step.
ReturnAtOnce(op, k, o, t, err, rec) ==
  /\ Return(op, k, o, t, clock, err, rec, FALSE)
  /\ UNCHANGED <<clock, fences, records, fenceLock, rowLock, call>>

\* The statement takes its snapshot.
Begin(c, op, k, o, t, d, pc) ==
  /\ call' = [call EXCEPT ![c] =
                [pc |-> pc, op |-> op, key |-> k, owner |-> o, token |-> t, ttl |-> d,
                 at |-> IF pc = "row" THEN clock ELSE 0, exhausted |-> fences[k] >= MaxToken, current |-> TRUE,
                 err |-> "none"]]
  /\ reply' = NoReply
  /\ UNCHANGED <<clock, fences, records, fenceLock, rowLock>>

\* The statement has read the clock and will commit with this answer.
Decide(c, at, err, current) ==
  call' = [call EXCEPT ![c] = [@ EXCEPT !.pc = "commit", !.at = at, !.err = err,
                                         !.exhausted = FALSE, !.current = current]]

\* The transaction ends and its locks go; whoever waits for a row that it
\* changed has an old version of it.
End(c, changed) ==
  /\ call' = [x \in Call |->
                IF x = c THEN Idle
                ELSE IF call[x].pc = "row" /\ call[x].key \in changed
                THEN [call[x] EXCEPT !.current = FALSE] ELSE call[x]]
  /\ fenceLock' = [k \in Key |-> IF fenceLock[k] = c THEN NoCall ELSE fenceLock[k]]
  /\ rowLock' = [k \in Key |-> IF rowLock[k] = c THEN NoCall ELSE rowLock[k]]

\* The call does not get as far as a statement (validate), or its statement
\* fails at once (classify).  Whose call it was makes no difference.
Refused(op) ==
  /\ \E err \in {"ErrCanceled", "ErrInvalidState",
                 IF op = "validate" THEN "ErrBackendUnavailable" ELSE "ErrAmbiguousOutcome"} :
       Return(op, "any", "any", 0, 0, err, NoRecord, FALSE)
  /\ UNCHANGED <<clock, fences, records, fenceLock, rowLock, call>>

\* The transaction is rolled back: the connection is lost, the statement
\* cancelled or killed.
Abort(c) ==
  /\ call[c] # Idle
  /\ IF call[c].op = "cleanup" THEN reply' = NoReply
     ELSE Return(call[c].op, call[c].key, call[c].owner, call[c].token, clock,
                 "ErrAmbiguousOutcome", NoRecord, FALSE)
  /\ End(c, {})
  /\ UNCHANGED <<clock, fences, records>>

\* The transaction commits with row r and fence f; the answer arrives or is
\* lost.
Commit(c, r, f) ==
  LET s == call[c]   k == s.key
  IN  /\ fences' = [fences EXCEPT ![k] = f]
      /\ records' = [records EXCEPT ![k] = r]
      /\ \/ Return(s.op, k, s.owner, s.token, s.at, s.err,
                   IF s.err = "nil" /\ s.op # "release" THEN recordFromValues(r) ELSE NoRecord,
                   ~s.current)
         \/ Return(s.op, k, s.owner, s.token, s.at, "ErrAmbiguousOutcome", NoRecord, ~s.current)
      /\ End(c, IF r = records[k] THEN {} ELSE {k})
      /\ UNCHANGED clock

-------------------------------------------------------------------------------
(* acquireSQL *)

BeginAcquire(c, k, o, d) ==
  call[c] = Idle /\ Begin(c, "acquire", k, o, 0, d, "fence")

\* next_fence: waits for the fence row and increments its latest version.  At
\* the last token there is nothing to install, and the snapshot decides how
\* that is reported.
NextFence(c) ==
  LET s == call[c]   k == s.key
  IN  /\ s.pc = "fence" /\ fenceLock[k] = NoCall
      /\ fenceLock' = [fenceLock EXCEPT ![k] = c]
      /\ IF fences[k] < MaxToken
         THEN call' = [call EXCEPT ![c] = [@ EXCEPT !.pc = "row", !.at = clock, !.exhausted = FALSE]]
         ELSE Decide(c, clock, IF s.exhausted THEN "ErrBackendUnavailable" ELSE "ErrContended",
                     s.exhausted)
      /\ reply' = NoReply
      /\ UNCHANGED <<clock, fences, records, rowLock>>

\* installed: inserts with the clock read before any wait, or waits for the
\* row and replaces it if its latest version is inactive or expired.
Installed(c) ==
  LET s  == call[c]   k == s.key
      r  == records[k]
      at == IF r = NoRow THEN s.at ELSE clock
  IN  /\ s.pc = "row" /\ s.op = "acquire" /\ rowLock[k] = NoCall
      /\ rowLock' = [rowLock EXCEPT ![k] = c]
      /\ Decide(c, at, IF ~r.active \/ r.expiresAt <= at THEN "nil" ELSE "ErrContended", TRUE)
      /\ reply' = NoReply
      /\ UNCHANGED <<clock, fences, records, fenceLock>>

\* Mutant: the fence is incremented at the last token, too.
IncrementAlways(f) == f + 1

Increment(f) == IF f < MaxToken THEN f + 1 ELSE f

CommitAcquire(c) ==
  LET s == call[c]   next == Increment(fences[s.key])
  IN  /\ s.pc = "commit" /\ s.op = "acquire"
      /\ Commit(c, IF s.err = "nil"
                   THEN [owner |-> s.owner, token |-> next, acquiredAt |-> s.at,
                         expiresAt |-> s.at + s.ttl, active |-> TRUE, updatedAt |-> s.at]
                   ELSE records[s.key], next)

-------------------------------------------------------------------------------
(* renewSQL, validateSQL and releaseSQL *)

\* Mutant: the token is not compared.
SelectsOwner(op, r, o, t, at) ==
  /\ r.owner = o /\ r.active
  /\ op = "release" \/ r.expiresAt > at

\* The WHERE clauses: releaseSQL does not look at the clock.
Selects(op, r, o, t, at) ==
  /\ r.owner = o /\ r.token = t /\ r.active
  /\ op = "release" \/ r.expiresAt > at

BeginRenew(c, k, o, t, d) ==
  /\ call[c] = Idle
  /\ IF Selects("renew", records[k], o, t, clock)
     THEN Begin(c, "renew", k, o, t, d, "row")
     ELSE ReturnAtOnce("renew", k, o, t, "ErrStaleOwner", NoRecord)

Validate(k, o, t) ==
  IF Selects("validate", records[k], o, t, clock)
  THEN ReturnAtOnce("validate", k, o, t, "nil", recordFromValues(records[k]))
  ELSE ReturnAtOnce("validate", k, o, t, "ErrStaleOwner", NoRecord)

\* changed, same_release and existing all read the snapshot, so a release that
\* finds no row to lock is over.
BeginRelease(c, k, o, t) ==
  LET r == records[k]
  IN  /\ call[c] = Idle
      /\ IF Selects("release", r, o, t, clock)
         THEN Begin(c, "release", k, o, t, 0, "row")
         ELSE ReturnAtOnce("release", k, o, t,
                           IF r = NoRow \/ (r.owner = o /\ r.token = t) THEN "nil"
                           ELSE "ErrStaleOwner", NoRecord)

\* The row a renewal or a release writes over r.
Changed(s, r, at) ==
  IF s.op = "renew" THEN [r EXCEPT !.expiresAt = at + s.ttl, !.updatedAt = at]
  ELSE [r EXCEPT !.active = FALSE, !.updatedAt = at]

\* Mutant: a renewal has its row and then asks for the key's fence row.
LockedThenFence(c) ==
  LET s == call[c]
  IN  /\ s.pc = "row" /\ s.op \in {"renew", "release"} /\ rowLock[s.key] = NoCall
      /\ rowLock' = [rowLock EXCEPT ![s.key] = c]
      /\ call' = [call EXCEPT ![c].pc = "fence"]
      /\ reply' = NoReply
      /\ UNCHANGED <<clock, fences, records, fenceLock>>

\* The statement has its row.  If that is the version of its snapshot, it goes
\* on with the clock it has read; otherwise the WHERE clause is evaluated again
\* on the new version.  Where that fails the answer is stale, also to a release
\* whose row somebody else has released: same_release reads the snapshot.  A
\* renewal that would end before the acquisition, after the clock was set back,
\* violates a CHECK and is rolled back.
Locked(c) ==
  LET s  == call[c]   k == s.key
      r  == records[k]
      at == IF s.current THEN s.at ELSE clock
      ok == Selects(s.op, r, s.owner, s.token, at)
  IN  /\ s.pc = "row" /\ s.op \in {"renew", "release"} /\ rowLock[k] = NoCall
      /\ \/ /\ ok /\ Changed(s, r, at).expiresAt > r.acquiredAt
            /\ rowLock' = [rowLock EXCEPT ![k] = c]
            /\ Decide(c, at, "nil", TRUE)
            /\ reply' = NoReply
            /\ UNCHANGED fenceLock
         \/ /\ ~ok \/ Changed(s, r, at).expiresAt <= r.acquiredAt
            /\ Return(s.op, k, s.owner, s.token, at,
                      IF ok THEN "ErrAmbiguousOutcome" ELSE "ErrStaleOwner", NoRecord,
                      ~s.current)
            /\ End(c, {})
      /\ UNCHANGED <<clock, fences, records>>

CommitChange(c) ==
  LET s == call[c]
  IN  /\ s.pc = "commit" /\ s.op \in {"renew", "release"}
      /\ Commit(c, Changed(s, records[s.key], s.at), fences[s.key])

-------------------------------------------------------------------------------
(* cleanupSQL *)

Old(k) == records[k] # NoRow /\ ~records[k].active /\ records[k].updatedAt < clock - CleanupAge

\* Mutant: the rows are selected without FOR UPDATE.
BeginCleanupUnlocked(c) ==
  LET old == {k \in Key : Old(k)}
  IN  /\ call[c] = Idle /\ old # {}
      /\ call' = [call EXCEPT ![c] = [pc |-> "commit", op |-> "cleanup", doomed |-> old]]
      /\ reply' = NoReply
      /\ UNCHANGED <<clock, fences, records, fenceLock, rowLock>>

\* doomed: a batch of the oldest inactive rows that nobody locks, now locked.
BeginCleanup(c) ==
  LET old == {k \in Key : Old(k) /\ rowLock[k] = NoCall}
  IN  /\ call[c] = Idle /\ old # {}
      /\ \E doomed \in SUBSET old :
           /\ Cardinality(doomed) = Min({Batch, Cardinality(old)})
           /\ \A d \in doomed, k \in old \ doomed : records[d].updatedAt <= records[k].updatedAt
           /\ rowLock' = [k \in Key |-> IF k \in doomed THEN c ELSE rowLock[k]]
           /\ call' = [call EXCEPT ![c] = [pc |-> "commit", op |-> "cleanup", doomed |-> doomed]]
      /\ reply' = NoReply
      /\ UNCHANGED <<clock, fences, records, fenceLock>>

CommitCleanup(c) ==
  /\ call[c].pc = "commit" /\ call[c].op = "cleanup"
  /\ records' = [k \in Key |-> IF k \in call[c].doomed THEN NoRow ELSE records[k]]
  /\ End(c, call[c].doomed)
  /\ reply' = NoReply
  /\ UNCHANGED <<clock, fences>>

-------------------------------------------------------------------------------

\* Time passes, or the server's clock is corrected.
Time ==
  /\ clock' \in 0..MaxClock
  /\ reply' = NoReply
  /\ UNCHANGED <<fences, records, fenceLock, rowLock, call>>

\* A caller presents the owner and token of any acquisition there was.
Next ==
  \/ \E k \in Key, o \in Owner :
       \/ \E c \in Call, d \in Duration : BeginAcquire(c, k, o, d)
       \/ \E t \in 1..fences[k] :
            \/ \E c \in Call :
                 \/ \E d \in Duration : BeginRenew(c, k, o, t, d)
                 \/ BeginRelease(c, k, o, t)
            \/ Validate(k, o, t)
  \/ \E c \in Call :
       \/ NextFence(c) \/ Installed(c) \/ CommitAcquire(c) \/ Locked(c) \/ CommitChange(c)
       \/ BeginCleanup(c) \/ CommitCleanup(c) \/ Abort(c)
  \/ \E op \in {"acquire", "renew", "validate", "release"} : Refused(op)
  \/ Time

Spec == Init /\ [][Next]_vars

-------------------------------------------------------------------------------
(* Properties *)

\* The committed rows as a lease table.
Contract == INSTANCE LeaseContract WITH
  serverClock <- clock,
  fence <- fences,
  lease <- [k \in Key |-> IF records[k].active THEN recordFromValues(records[k]) ELSE NoRecord],
  former <- [k \in Key |-> IF records[k].active THEN NoRecord ELSE recordFromValues(records[k])],
  overtaken <- reply # NoReply /\ reply.overtaken,
  Missing <- "nil"

\* Each statement of postgres/store.go takes effect as one transition of the
\* lease table with an answer the contract allows, whatever ran between its
\* snapshot, its locks and its commit.
ImplementsContract == Contract!ContractSpec

\* Cleanup removes rows of released leases only, although it selects them in
\* one step and deletes them in another: an acquisition that wants the row
\* waits for it.
CleanupSparesLeases ==
  [][\A k \in Key : records[k] # NoRow /\ records'[k] = NoRow => ~records[k].active]_vars

\* The calls whose locks a call waits for.
Blockers(c) ==
  LET s == call[c]
  IN  (IF s.pc = "fence" THEN {fenceLock[s.key]}
       ELSE IF s.pc = "row" THEN {rowLock[s.key]} ELSE {}) \ {NoCall}

\* No circle of statements that wait for each other's locks, although an
\* acquisition takes two: among any calls one can go on.
NoDeadlock ==
  \A calls \in (SUBSET Call) \ {{}} : \E c \in calls : Blockers(c) \cap calls = {}

-------------------------------------------------------------------------------
(* The strengthening of these that every step preserves *)

\* Who locks a fence row has come to the records table, and who locks a record
\* waits for nothing any more.
LockOrder ==
  \A k \in Key :
    /\ fenceLock[k] # NoCall =>
         LET s == call[fenceLock[k]]
         IN  s.pc \in {"row", "commit"} /\ s.op = "acquire" /\ s.key = k
    /\ rowLock[k] # NoCall =>
         LET s == call[rowLock[k]]
         IN  s.pc = "commit" /\ IF s.op = "cleanup" THEN k \in s.doomed ELSE s.key = k

\* What an acquisition has found is still so when it commits: the locks it
\* needs for that are its own.
AcquireStands(c, s) ==
  /\ s.ttl > 0 /\ (s.pc # "fence" => fenceLock[s.key] = c)
  /\ s.pc = "row" => fences[s.key] < MaxToken
  /\ s.pc = "commit" =>
       LET r == records[s.key]
       IN  \/ /\ fences[s.key] = MaxToken
              /\ s.err = IF s.current THEN "ErrBackendUnavailable" ELSE "ErrContended"
           \/ /\ rowLock[s.key] = c /\ fences[s.key] < MaxToken
              /\ s.err = IF ~r.active \/ r.expiresAt <= s.at THEN "nil" ELSE "ErrContended"

\* Likewise a renewal or a release: the row is still the one it has selected,
\* before it has the lock if nobody has overtaken it.
ChangeStands(c, s) ==
  /\ s.pc # "fence" /\ s.token > 0 /\ (s.op = "renew" => s.ttl > 0)
  /\ s.pc = "row" /\ s.current => Selects(s.op, records[s.key], s.owner, s.token, s.at)
  /\ s.pc = "commit" =>
       LET r == records[s.key]
       IN  /\ rowLock[s.key] = c /\ s.err = "nil"
           /\ Selects(s.op, r, s.owner, s.token, s.at)
           /\ Changed(s, r, s.at).expiresAt > r.acquiredAt

\* Likewise a cleanup: its rows are locked and inactive.
CleanupStands(c, s) ==
  \A k \in s.doomed : rowLock[k] = c /\ records[k] # NoRow /\ ~records[k].active

\* Rows also satisfy the CHECK on their times (migration.go).
IInv ==
  /\ TypeOK /\ LockOrder
  /\ \A k \in Key : records[k] # NoRow => records[k].expiresAt > records[k].acquiredAt
  /\ \A c \in Call : LET s == call[c] IN
       /\ s \in Statement /\ s.op = "acquire" => AcquireStands(c, s)
       /\ s \in Statement /\ s.op # "acquire" => ChangeStands(c, s)
       /\ s \in CleanupStatement => CleanupStands(c, s)
===============================================================================
