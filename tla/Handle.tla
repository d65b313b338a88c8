-------------------------------- MODULE Handle --------------------------------
(***************************************************************************)
(* handle.go and Client.TryAcquire: lease handles of any number of client  *)
(* processes against one backend.  A remote call is several steps: the     *)
(* handle reserves its one operation under its mutex, the call is sent     *)
(* without the mutex, the backend executes it at some later moment, and    *)
(* the handle takes the answer under its mutex again.  Between any two of  *)
(* these steps time passes, other handles act, and State is consulted.     *)
(* The caller may also return early (context done, operation timeout,      *)
(* connection lost); a request it abandons may still reach the backend.    *)
(*                                                                         *)
(* Three clocks: now is real time (time.Now in every client), localClock   *)
(* the injected Clock, which tests freeze and set back, and serverClock    *)
(* the backend's, which starts anywhere and may be slow or set back.       *)
(***************************************************************************)
EXTENDS LeaseTable

CONSTANTS
  Handles,       \* acquisitions; each becomes at most one Handle object
  KeyOf,         \* [Handles -> Key]
  OwnerOf,       \* [Handles -> Owner]; nothing below needs them distinct
  TTL, SafetyMargin,   \* Policy
  Granularity,   \* unit to which a backend truncates TTL (valkey: 1 ms)
  ServerEpoch,   \* the backend's clock at real time 0
  MaxTime,       \* bound on real time
  MaxSkew,       \* bound on |localClock - now|
  MaxLag,        \* bound on how far the backend's clock falls behind
  MaxToken       \* the last fencing token (bound)

\* Mutant: the margin is forgotten.
WholeTTL == TTL

Budget == TTL - SafetyMargin
ServerTTL == TTL - (TTL % Granularity)

ASSUME HandleConstants ==
  /\ KeyOf \in [Handles -> Key]
  /\ OwnerOf \in [Handles -> Owner]
  /\ TTL \in Nat \ {0} /\ SafetyMargin \in Nat /\ SafetyMargin < TTL
  /\ Granularity \in Nat \ {0}
  /\ ServerEpoch \in Int
  /\ MaxTime \in Nat /\ MaxSkew \in Nat /\ MaxLag \in Nat /\ MaxToken \in Nat

\* newHandleAt: "Native TTL truncation requires suitable policy granularity".
\* The margin must cover what the backend cuts off the TTL.
ASSUME MarginCoversTruncation == TTL % Granularity <= SafetyMargin

VARIABLES
  now, localClock,
  state,         \* handle.state; "new" before, "failed" without a Handle
  record, deadline, wallDeadline,     \* the other fields of Handle
  op,            \* handle.busy, and by which operation; also an acquisition
  stage,         \* how far that operation's remote call has come
  started, wallStarted,               \* locals of TryAcquire and Renew
  answer,        \* what the backend answered
  late           \* abandoned requests that may still reach the backend

objectVars == <<state, record, deadline, wallDeadline>>
callVars == <<op, stage, started, wallStarted, answer>>
clockVars == <<now, localClock>>
vars == <<tableVars, clockVars, objectVars, callVars, late>>

Created == {"active", "expired", "lost", "uncertain", "released"}
Mutation == {"acquire", "renew", "release"}
Nil == [err |-> "none", record |-> NoLease]
Err == {"none", "nil", "ErrContended", "ErrStaleOwner", "ErrBackendUnavailable"}

TypeOK ==
  /\ TableTypeOK
  /\ now \in 0..MaxTime /\ localClock \in Int
  /\ state \in [Handles -> Created \cup {"new", "failed"}]
  /\ record \in [Handles -> Record \cup {NoLease}]
  /\ deadline \in [Handles -> Int] /\ wallDeadline \in [Handles -> Int]
  /\ op \in [Handles -> Mutation \cup {"none", "validate"}]
  /\ stage \in [Handles -> {"idle", "begun", "sent", "answered"}]
  /\ started \in [Handles -> Int] /\ wallStarted \in [Handles -> Int]
  /\ answer \in [Handles -> [err : Err, record : Record \cup {NoLease}]]
  /\ late \in SUBSET (Mutation \X Handles)

Init ==
  /\ now = 0 /\ localClock = 0 /\ serverClock = ServerEpoch
  /\ fence = [k \in Key |-> 0] /\ lease = [k \in Key |-> NoLease]
  /\ state = [h \in Handles |-> "new"]
  /\ record = [h \in Handles |-> NoLease]
  /\ deadline = [h \in Handles |-> 0] /\ wallDeadline = [h \in Handles |-> 0]
  /\ op = [h \in Handles |-> "none"] /\ stage = [h \in Handles |-> "idle"]
  /\ started = [h \in Handles |-> 0] /\ wallStarted = [h \in Handles |-> 0]
  /\ answer = [h \in Handles |-> Nil]
  /\ late = {}

-------------------------------------------------------------------------------
(* The handle's state under its mutex *)

\* Mutants: the deadline itself still counts; only the injected clock counts.
afterDeadline(h) == localClock > deadline[h] \/ now > wallDeadline[h]
pastLocalDeadline(h) == localClock >= deadline[h]

pastDeadline(h) == localClock >= deadline[h] \/ now >= wallDeadline[h]

\* Mutant: an answer is taken without looking at the clocks.
stillActive(h) == state[h]

expireLocked(h) ==
  IF state[h] = "active" /\ pastDeadline(h) THEN "expired" ELSE state[h]

\* Mutant: a handle that has ended fails once more.
failAnyway(st, err) == IF err = "ErrStaleOwner" THEN "lost" ELSE "uncertain"

failLocked(st, err) ==
  IF st # "active" THEN st
  ELSE IF err = "ErrStaleOwner" THEN "lost" ELSE "uncertain"

sameAcquisition(current, next) ==
  /\ current.owner = next.owner /\ current.token = next.token
  /\ current.acquiredAt = next.acquiredAt
  /\ next.expiresAt > next.acquiredAt

validAcquisition(h, rec) ==
  rec.owner = OwnerOf[h] /\ rec.token # 0 /\ rec.expiresAt > rec.acquiredAt

\* Handle.State; also all that a refused Renew, Validate or StartManaged does.
State(h) ==
  /\ state[h] \in Created
  /\ state' = [state EXCEPT ![h] = expireLocked(h)]
  /\ UNCHANGED <<tableVars, clockVars, record, deadline, wallDeadline, callVars, late>>

-------------------------------------------------------------------------------
(* Starting a remote call *)

\* Client.TryAcquire, and each attempt of Client.Acquire: the clocks are read
\* before the backend is called.
TryAcquire(h) ==
  /\ state[h] = "new" /\ op[h] = "none"
  /\ op' = [op EXCEPT ![h] = "acquire"]
  /\ stage' = [stage EXCEPT ![h] = "sent"]
  /\ started' = [started EXCEPT ![h] = localClock]
  /\ wallStarted' = [wallStarted EXCEPT ![h] = now]
  /\ UNCHANGED <<tableVars, clockVars, objectVars, answer, late>>

\* Renew up to the release of the mutex in beginActiveOperation.
BeginRenew(h) ==
  /\ state[h] = "active" /\ ~pastDeadline(h) /\ op[h] = "none"
  /\ op' = [op EXCEPT ![h] = "renew"]
  /\ stage' = [stage EXCEPT ![h] = "begun"]
  /\ UNCHANGED <<tableVars, clockVars, objectVars, started, wallStarted, answer, late>>

\* Renew from there to the backend call: the clocks are read without the mutex.
SendRenew(h) ==
  /\ stage[h] = "begun"
  /\ stage' = [stage EXCEPT ![h] = "sent"]
  /\ started' = [started EXCEPT ![h] = localClock]
  /\ wallStarted' = [wallStarted EXCEPT ![h] = now]
  /\ UNCHANGED <<tableVars, clockVars, objectVars, op, answer, late>>

BeginValidate(h) ==
  /\ state[h] = "active" /\ ~pastDeadline(h) /\ op[h] = "none"
  /\ op' = [op EXCEPT ![h] = "validate"]
  /\ stage' = [stage EXCEPT ![h] = "sent"]
  /\ UNCHANGED <<tableVars, clockVars, objectVars, started, wallStarted, answer, late>>

\* Release does not expire the handle first, and an expired one may release.
BeginRelease(h) ==
  /\ state[h] \in {"active", "expired"} /\ op[h] = "none"
  /\ op' = [op EXCEPT ![h] = "release"]
  /\ stage' = [stage EXCEPT ![h] = "sent"]
  /\ UNCHANGED <<tableVars, clockVars, objectVars, started, wallStarted, answer, late>>

-------------------------------------------------------------------------------
(* The backend *)

\* The backend's readings of its clock since real time t.  It judges a request
\* by one of those it has made since the request was sent: a PostgreSQL
\* statement reads the clock and may then wait for a row.
ReadingsSince(t) == (serverClock - (now - t))..serverClock

\* The transition of the lease table that request o of handle h causes, judged
\* when the backend's clock read at.
Execute(h, o, at) ==
  LET k == KeyOf[h]   w == OwnerOf[h]   t == record[h].token
  IN  \/ /\ o = "acquire"
         /\ \/ \E n \in (fence[k] + 1)..MaxToken : Grant(at, k, w, n, ServerTTL)
            \/ \E f \in fence[k]..MaxToken : Contend(at, k, f)
            \/ ~Usable(at, k) /\ fence[k] = MaxToken /\ UNCHANGED tableVars
      \/ /\ o = "renew"
         /\ \/ Extend(at, k, w, t, ServerTTL)
            \/ ~(Usable(at, k) /\ Owns(k, w, t)) /\ UNCHANGED tableVars
      \/ o = "validate" /\ UNCHANGED tableVars
      \/ /\ o = "release"
         /\ \/ Vacate(k, w, t)
            \/ ~Owns(k, w, t) /\ UNCHANGED tableVars

\* The answers it may give to it.  Without a token left PostgreSQL may speak of
\* contention.
Answers(h, o, at) ==
  LET k == KeyOf[h]   w == OwnerOf[h]   t == record[h].token
      Result(err)  == [err |-> err, record |-> NoLease]
      Success      == [err |-> "nil", record |-> lease'[k]]
  IN  CASE o = "acquire" ->
             IF Usable(at, k) THEN {Result("ErrContended")}
             ELSE IF fence[k] = MaxToken
             THEN {Result("ErrBackendUnavailable"), Result("ErrContended")}
             ELSE {Success}
        [] o \in {"renew", "validate"} ->
             {IF Usable(at, k) /\ Owns(k, w, t) THEN Success ELSE Result("ErrStaleOwner")}
        [] o = "release" ->
             {Result(err) : err \in
                IF Owns(k, w, t) THEN {"nil"}
                ELSE IF lease[k] = NoLease THEN {"nil", "ErrStaleOwner"}
                ELSE {"ErrStaleOwner"}}

Serve(h) ==
  /\ stage[h] = "sent"
  /\ \E at \in IF op[h] \in {"acquire", "renew"} THEN ReadingsSince(wallStarted[h])
               ELSE {serverClock} :
       /\ Execute(h, op[h], at)
       /\ \E a \in Answers(h, op[h], at) : answer' = [answer EXCEPT ![h] = a]
  /\ stage' = [stage EXCEPT ![h] = "answered"]
  /\ UNCHANGED <<clockVars, objectVars, op, started, wallStarted, late>>

\* A request its caller no longer waits for arrives.
ServeLate(o, h) ==
  /\ <<o, h>> \in late
  /\ \E at \in ReadingsSince(0) : Execute(h, o, at)
  /\ late' = late \ {<<o, h>>}
  /\ UNCHANGED <<clockVars, objectVars, callVars>>

DropExpired(k) ==
  /\ Lapse(k)
  /\ UNCHANGED <<clockVars, objectVars, callVars, late>>

-------------------------------------------------------------------------------
(* Taking the answer *)

\* The call returns: the operation's reservation and its locals are gone.
Return(h) ==
  /\ op' = [op EXCEPT ![h] = "none"]
  /\ stage' = [stage EXCEPT ![h] = "idle"]
  /\ started' = [started EXCEPT ![h] = 0]
  /\ wallStarted' = [wallStarted EXCEPT ![h] = 0]
  /\ answer' = [answer EXCEPT ![h] = Nil]

\* The rest of TryAcquire.  After contention the attempt may be repeated for
\* the same owner; any other error ends the acquisition without a Handle.
FinishAcquire(h) ==
  /\ stage[h] = "answered" /\ op[h] = "acquire"
  /\ LET a == answer[h]
     IN  IF a.err = "nil" /\ validAcquisition(h, a.record)
         THEN /\ state' = [state EXCEPT ![h] = "active"]
              /\ record' = [record EXCEPT ![h] = a.record]
              /\ deadline' = [deadline EXCEPT ![h] = started[h] + Budget]
              /\ wallDeadline' = [wallDeadline EXCEPT ![h] = wallStarted[h] + Budget]
         ELSE /\ state' = IF a.err = "ErrContended" THEN state
                          ELSE [state EXCEPT ![h] = "failed"]
              /\ UNCHANGED <<record, deadline, wallDeadline>>
  /\ Return(h)
  /\ UNCHANGED <<tableVars, clockVars, late>>

\* Renew and Validate after the backend call.
finishActiveOperation(h) ==
  /\ stage[h] = "answered" /\ op[h] \in {"renew", "validate"}
  /\ LET a       == answer[h]
         matches == a.err = "nil" /\ sameAcquisition(record[h], a.record)
         err     == IF a.err = "nil" /\ ~matches THEN "ErrAmbiguousOutcome" ELSE a.err
         st      == expireLocked(h)
     IN  IF matches /\ st = "active"
         THEN /\ state' = state
              /\ record' = [record EXCEPT ![h] = a.record]
              /\ IF op[h] = "renew"
                 THEN /\ deadline' = [deadline EXCEPT ![h] = started[h] + Budget]
                      /\ wallDeadline' = [wallDeadline EXCEPT ![h] = wallStarted[h] + Budget]
                 ELSE UNCHANGED <<deadline, wallDeadline>>
         ELSE /\ state' = [state EXCEPT ![h] = IF matches THEN st ELSE failLocked(st, err)]
              /\ UNCHANGED <<record, deadline, wallDeadline>>
  /\ Return(h)
  /\ UNCHANGED <<tableVars, clockVars, late>>

FinishRelease(h) ==
  /\ stage[h] = "answered" /\ op[h] = "release"
  /\ state' = [state EXCEPT ![h] =
                 IF answer[h].err = "nil" THEN "released"
                 ELSE failLocked(state[h], answer[h].err)]
  /\ Return(h)
  /\ UNCHANGED <<tableVars, clockVars, record, deadline, wallDeadline, late>>

\* The backend call returns an error that is not the backend's answer: the
\* context was done, the operation timed out, the connection or the response
\* was lost.  A mutation that was sent and not yet executed is still on its way.
Abandon(h) ==
  /\ stage[h] # "idle"
  /\ state' = [state EXCEPT ![h] =
                 CASE op[h] = "acquire" -> "failed"
                   [] op[h] = "release" -> failLocked(state[h], "ErrAmbiguousOutcome")
                   [] OTHER -> failLocked(expireLocked(h), "ErrAmbiguousOutcome")]
  /\ late' = IF stage[h] = "sent" /\ op[h] \in Mutation
             THEN late \cup {<<op[h], h>>} ELSE late
  /\ Return(h)
  /\ UNCHANGED <<tableVars, clockVars, record, deadline, wallDeadline>>

-------------------------------------------------------------------------------
(* Time *)

Tick ==
  /\ now < MaxTime
  /\ now' = now + 1
  /\ localClock' = localClock + 1
  /\ serverClock' = serverClock + 1
  /\ UNCHANGED <<fence, lease, objectVars, callVars, late>>

\* The injected clock jumps, either way.
AdjustLocalClock ==
  /\ localClock' \in (now - MaxSkew)..(now + MaxSkew)
  /\ UNCHANGED <<now, tableVars, objectVars, callVars, late>>

\* The backend's clock is set back or falls behind.  It never gains: no client
\* could hold a lease to its deadline against a clock that jumps ahead.
SetBackServerClock ==
  /\ serverClock' \in (ServerEpoch + now - MaxLag)..serverClock
  /\ UNCHANGED <<fence, lease, clockVars, objectVars, callVars, late>>

Next ==
  \/ \E h \in Handles :
       \/ TryAcquire(h) \/ BeginRenew(h) \/ SendRenew(h) \/ BeginValidate(h)
       \/ BeginRelease(h) \/ State(h) \/ Serve(h)
       \/ FinishAcquire(h) \/ finishActiveOperation(h) \/ FinishRelease(h)
       \/ Abandon(h)
       \/ \E o \in Mutation : ServeLate(o, h)
  \/ \E k \in Key : DropExpired(k)
  \/ Tick \/ AdjustLocalClock \/ SetBackServerClock

Spec == Init /\ [][Next]_vars

-------------------------------------------------------------------------------
(* Properties *)

\* Handle.State would return StateActive: the application may act.
Admits(h) == state[h] = "active" /\ ~pastDeadline(h)

\* The window in which the backend has released the lease and the handle has
\* not yet heard: Release leaves the state active until the answer is in.
ReleaseExecuted(h) == op[h] = "release" /\ stage[h] = "answered"

Holds(h) ==
  /\ Usable(serverClock, KeyOf[h])
  /\ Owns(KeyOf[h], OwnerOf[h], record[h].token)

\* Local admission is never wrong: as long as Handle.State says active, the
\* backend holds an unexpired lease for this handle's owner and token.  The
\* budget is counted from before the call, on the client's own clocks, and
\* the margin covers what the backend truncates.
AdmissionImpliesOwnership ==
  \A h \in Handles : Admits(h) /\ ~ReleaseExecuted(h) => Holds(h)

\* Mutual exclusion of the work done under a lease: two handles of one key
\* are admitted together only while one of them is returning from Release.
AtMostOneAdmitted ==
  \A g, h \in Handles :
    /\ g # h /\ KeyOf[g] = KeyOf[h]
    /\ Admits(g) /\ Admits(h)
    => ReleaseExecuted(g) \/ ReleaseExecuted(h)

\* Fencing works: no other handle of the key has a token as high as that of an
\* admitted one, so a resource that keeps the highest token it has seen never
\* turns away the holder, however late the answers of earlier acquisitions.
AdmittedTokenIsHighest ==
  \A g, h \in Handles :
    /\ g # h /\ KeyOf[g] = KeyOf[h] /\ state[g] \in Created
    /\ Admits(h) /\ ~ReleaseExecuted(h)
    => record[g].token < record[h].token

\* A handle whose real-time deadline has passed, or that has left the active
\* state, is never admitted again: a renewal that succeeds too late does not
\* revive it (finishActiveOperation), nor does a clock that is set back.
NoRevival ==
  [][\A h \in Handles :
       /\ state[h] \in Created
       /\ state[h] # "active" \/ now >= wallDeadline[h]
       => ~Admits(h)']_vars

\* Of the terminal states only expired is ever left, and only for released,
\* whatever operations were in flight when the state was entered.
TerminalStates ==
  [][\A h \in Handles :
       /\ state[h] \in {"lost", "uncertain", "released"} => state'[h] = state[h]
       /\ state[h] = "expired" => state'[h] \in {"expired", "released"}]_vars

\* While a lease is usable only its own holder changes it: by a renewal or a
\* release, in flight or late, of the handle with that owner and token.  A
\* predecessor's late request does nothing to it, and the lease left by an
\* ambiguous acquisition stays until it expires.
OnlyHolderChangesUsableLease ==
  [][\A k \in Key :
       Usable(serverClock, k) /\ lease'[k] # lease[k] =>
         \E h \in Handles :
           /\ KeyOf[h] = k
           /\ lease[k].owner = OwnerOf[h] /\ lease[k].token = record[h].token
           /\ \E o \in {"renew", "release"} : op[h] = o \/ <<o, h>> \in late]_vars
===============================================================================
