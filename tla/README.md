# Formal model of go-lease

TLA+ modules for the lease client, its handles and renewers, the adapters built
on them, observation, policies and the three stores, with the TLC runs that
check them on small instances and TLAPS proofs of the safety properties for all
instances. `PROJECT.json` lists runs, mutants, hazards, findings, theorems and,
for every definition, the source lines it models.

## The system

A *lease* gives one owner the use of a key until it expires on the backend's
clock. Every acquisition carries a *fencing token* above all earlier tokens of
the key, so that a protected resource can reject late writers.

| Part | Source | State | Operations |
|---|---|---|---|
| Backend contract | `backend.go`, `record.go` | per key: highest token, lease in force | TryAcquire, Renew, Validate, Release |
| Memory store | `memory/store.go` | map of entries, injected clock | the same four, under one mutex |
| PostgreSQL store | `postgres/` | rows of `lease_fences` and `lease_records` | the same four and Cleanup, one SQL statement each |
| Valkey store | `valkey/` | a hash with an expiry and a counter per key | Open, Guard, the same four, one script each |
| Observation | `observation.go` | one slot per observer | wraps a backend and offers each event to its observers |
| Policy | `policy.go` | | NewPolicy validates options |
| Client | `client.go` | waiter and renewal slots | TryAcquire, Acquire (retry loop) |
| Handle | `handle.go` | state, record, two deadlines, busy, managed | State, Renew, Validate, Release, StartManaged |
| Managed renewal | `managed.go` | goroutine, loss and done channels, slot | run, Loss, Stop |
| Guard | `internal/guard` | run context, watcher, losses channel | Run; used by the queue worker and the scheduler |
| Service manager | `adapters/service` | active, acquiring, entries, three channels | Acquire, Shutdown, cleanup |
| Keys, errors | `key.go`, `internal/failure` | | syntax and formatting |

What makes it hard: the handle's mutex is not held during remote calls; a call
the client has given up on may still be executed; three unrelated clocks
(injected, real, backend) decide admission and expiry; the renewer, the
application and a release compete for one handle; Shutdown races acquisitions
that have a reservation and no entry yet; waits are bounded by two clocks; a SQL
statement reads a snapshot, waits for row locks and goes on with newer rows;
Valkey keys expire, may be evicted, and come back when a clock is set back.

## The modules

| Module | Models | Correspondence |
|---|---|---|
| `LeaseTable` | what every backend stores | `Grant`, `Contend`, `Extend`, `Vacate`, `Lapse`: the atomic transitions behind the Backend interface |
| `LeaseContract` | the Backend interface as an abstract specification | one step per call, with the answers it may give at the instant it is judged; `former` is the released lease a store still has on record, `Missing` what it answers to a release without a record, `overtaken` whether another call changed what this one had read |
| `MemoryStore` | `memory/store.go` | one action per method (each holds the mutex throughout) |
| `PostgresStore` | `postgres/store.go`, the schema of `postgres/migration.go` | a statement is begun (snapshot), gets its locks one by one, and commits or aborts; `Selects` and `Changed` are its WHERE and SET clauses |
| `ValkeyStore` | `valkey/` | one action per script, with the part of `store.go` that reads its answer; `Open`, key expiry and eviction |
| `ProtectedWrites` | `Store.Guard` with its writer; `examples/protectedwrite` | writes by any owner there ever was, at any time |
| `Observation` | `observation.go` | one step per turn of `emit`'s loop; a callback's end and the release of its slot are two steps |
| `ObservedValkey` | the three together | a backend call, then its offers; callbacks are callers, too |
| `Policy` | `policy.go` | `NewPolicy` on durations of machine width |
| `AcquireLoop` | `Client.Acquire` | the loop's steps, under policies from `NewPolicy`; a request is executed by the backend in time, late or never |
| `Handle` | `handle.go`, `Client.TryAcquire` | an operation is begin / send / serve / finish, split where the mutex is dropped or the network is crossed; `Abandon` is any error that is not the backend's answer |
| `Managed` | `managed.go`, `StartManaged` | the goroutine's steps; `busy`, `managed` and the slots as in the code; the deadline passes at any moment; `ManagedNext` adds an application that calls Renew, Validate, Release and Stop |
| `Guard` | `internal/guard.Run`, as the queue worker and the scheduler call it | Run, its renewer (`Managed`) and its watcher as three processes; callbacks return, block or panic |
| `ServiceManager` | `adapters/service` | a step is one hold of `manager.mu` or one call outside it; renewers are those of `Managed` |

`HandleInvariant` holds the inductive invariant of `Handle`, the invariant of
`MemoryStore` is with its proofs, and the others are at the end of their modules.
`XProofs` proves theorems about module `X`; `GuardProofs` and
`ServiceManagerProofs` use the lemmas of `ManagedProofs` about renewers, and
`AcquireLoopProofs` covers `Policy`, too.

`MC*.tla` and `*.cfg` instantiate the modules. Definitions headed *Mutant* are
the plausible mistakes that the listed properties detect; nothing else uses
them.

Data is abstracted: keys, owners, handles and calls are model values, errors are
their classes, durations small integers, and random owners, jitter and network
delay are nondeterministic. Owner names may coincide: in `MCHandle` all handles
have the same one, so that only the token tells them apart.

What the two database servers do is taken from how the code uses them and
marked external in the map. PostgreSQL: READ COMMITTED; a statement reads the
snapshot of its start, a row it has to lock is read again once it is locked and
the WHERE clause is then evaluated again, locks and writes last until the end of
the transaction, SKIP LOCKED passes over locked rows. Calls of
`clock_timestamp()` in one statement are one reading unless a wait for a row
lies between them. Valkey: a script runs as a
whole; a key exists up to and including the millisecond of its expiry and is
dropped some time later; a server without `noeviction` may drop any key.

Four points of the refinement mappings. The contract judges a call at an instant
at which the store read its clock during the call, because a PostgreSQL
statement may read `clock_timestamp()` and then wait for a row; `Handle` allows
for the same (`ReadingsSince`). A Valkey lease is in force one millisecond longer
than the expiry it reports, since the key still exists in that millisecond.

A repeated release succeeds (`backend.go:38`) in two ways. Memory and PostgreSQL
keep the released record (`former`) and know who released it; Valkey, and
PostgreSQL after a cleanup, have no record and answer everybody with success
(`Missing`). The memory store, which calls a missing record stale, never drops
one. And `overtaken` is true only in PostgreSQL, for a statement whose snapshot
was changed by another commit while it ran: such a release may be called stale,
and such an acquisition contended after the last token. Calls that do not
overlap are held to the interface without exception.

## The runs

| Run | Shows | Instance |
|---|---|---|
| `memory_store` | the store implements the contract; capacity and the last token refuse only what they must | 2 keys, 2 owners, capacity 1, tokens to 2, clock 0..2 in both directions |
| `postgres` | the store implements the contract; cleanup spares leases; no deadlock; the inductive invariant | 1 key, 2 owners, 2 statements at a time, tokens to 2, clock 0..2 in both directions |
| `observed_valkey` | the store implements the contract; publications keep their order; a resource does not outrank the holder; one callback per slot; calls return; the inductive invariant | 1 key, 2 owners, 1 client, 2 observers, tokens to 2, clock 0..2 in both directions |
| `handle` | admission implies ownership; at most one admitted handle; its token is the highest; no revival; terminal states; only the holder changes a usable lease; the inductive invariant | 2 handles, 1 key, TTL 3, margin 1, granularity 2, time to 3, injected clock off by 1, backend clock lag 1 |
| `acquire_loop` | waiter slots conserved (in `IInv`); policies kept; one grant per call; definite errors are definite; every Acquire returns; the inductive invariant | 2 calls, 1 waiter slot, 2 attempts, other clients on the key; injected clock 0..1 in both directions, so that a wait's deadline is before, at or out of its reach; a Sleeper that may fail; 4-bit durations, options that miss each condition of NewPolicy by one or wrap around |
| `renewers` | one remote call per handle; slots conserved; Stop joins; an ended handle loses its renewer | 2 handles, 2 renewers, 1 slot |
| `guard` | the renewer is joined before the release; a reported loss cancels the callback's context and is returned; Run returns; a panic ends the renewal | 2 runs, one renewed |
| `service_manager` | exact accounting; the cleanup sees every entry; nothing is left; success means released | 2 callers, 2 places, 1 renewal slot |
| `service_manager_live` | Shutdown ends; every Acquire returns | 2 callers, 1 place |

Three runs find what the code does and a document denies (see *Findings*):
`renewers_loss`, `guard_release`, `acquire_timeout`.

Why the bounds suffice: exclusion and fencing need a holder, a successor and a
late request of the former, which two handles (owners, statements) and two
tokens give; after the second token comes exhaustion. `TTL 3` with granularity 2
makes the backend's lease exactly as long as the local budget, the tightest case
the assumptions allow, and time runs past it. Keys share nothing in the stores
but the memory store's capacity, hence two keys there and one elsewhere; a third
PostgreSQL statement can only wait where the second does. Where refusal and
rollback matter (`renewers`, `service_manager`, `acquire_loop`) slots are one
fewer than those who want them.

Two runs restrict the states they explore (`MCBound`). `handle` follows one
handle with every clock going its own way, and two only where the injected clock
has kept the real time, and the backend's too after the first instants; at time
2 the first lease has ended and the second handle may follow. `observed_valkey` follows everything observers can do
until the first token is issued, and from then on the store and the writers
while the callbacks run; observers do not look at what the store answered. The
theorems have neither restriction. Symmetry is used only in runs without
liveness. `CHECK_DEADLOCK FALSE` is set where the application may simply have
finished.

### Fairness

Only what Go and the documented cooperation of sleepers and backends give: a
goroutine that can run does, a backend call ends at the latest with its
operation timeout, a Sleep ends. For a renewer whose context is done the Sleep's
error branch gets strong fairness: `select` chooses at random among ready cases,
so the timer cannot win for ever. `emit` never waits, so its loop goes on.
Callers need not start, cancel or shut down, callbacks and observers need not
return, clocks need not advance, leases need not end.

## The proofs

All hold for every value of the constants under the named assumptions.

**Handles** (`HandleProofs`): `AdmissionIsOwnership`, while `State` says active
the backend holds an unexpired lease for the handle's owner and token;
`Fencing` and `MutualExclusion`; `LateSuccessDoesNotRevive`;
`EndedHandlesStayEnded`; `HolderOnly`; `TypeCorrect` and `Invariance`, on which
they rest.

Assumptions: `HandleConstants` (what `NewPolicy` enforces: a positive TTL and a
smaller margin) and `MarginCoversTruncation`. The second is not enforced by the
code; `newHandleAt` states it as a requirement on the policy ("Native TTL
truncation requires suitable policy granularity"). The backend's clock may be
set back but does not gain on the client's: no local deadline could hold
against a backend clock that jumps ahead. A request is judged by any reading of
that clock between its being sent and its execution; a clock that is set back
between the reading and the execution of one statement is left out, which would
only lengthen the lease.

None of the properties is inductive. `IInv` adds

* `CallDiscipline`: which states a call in flight is compatible with, and that
  an abandoned request belongs to a handle that admits nothing any more;
* `TokenOrder`: tokens of the handles of a key, including one whose answer is on
  its way, are distinct, none is above the fence, and the lease in force has the
  highest;
* `BudgetsStarted`: budgets count from a moment that is past, and a renewal's
  from a later moment than the budget it replaces. The latter is why a renewal
  that the backend judges by an old reading of its clock cannot leave the lease
  shorter than the budget the handle still has;
* `LeaseOutlivesBudget`: the remaining life of the lease on the backend's clock
  is at least the remaining local budget, for the budget a handle has and for
  the one a served acquisition or renewal is about to give.

Clocks enter only through differences, which is why the epoch of the backend's
clock does not matter.

**PostgreSQL** (`PostgresStoreProofs`): `Refinement`, the store implements
`LeaseContract`; `DeadlockFree`; `CleanupSafe`; `Invariance`. Assumption:
`PostgresConstants`. `IInv` says who may lock what at which point (`LockOrder`:
who locks a fence row waits at most for the key's record, who locks a record
waits for nothing) and that what a statement found when it got its locks is
still true when it commits (`AcquireStands`, `ChangeStands`, `CleanupStands`), or,
where the answer still rests on the snapshot, that `current` tells whether it is.
Only the commit of a statement changes the contract's state; there the facts
found earlier give the guard of the contract's transition. The lock order gives
the absence of a circle: among any statements one at its commit, else one that
waits for a record, else any of them waits for no other.

**Valkey, writers and observers** (`ObservedValkeyProofs`): `Refinement`,
`Publication`, `HolderWrites`, `SlotsExclusive`, `Invariance`. Assumptions:
`ValkeyConstants`, `ObservationConstants` (one to sixteen observers). `IInv`: a
store is open only where nothing is evicted, before that no key is ours, a hash
has its counter's token, and no effect has a token above the counter.

**Acquisition and policies** (`AcquireLoopProofs`): `OneGrant`,
`DefiniteErrors`, `SlotsConserved`, `PolicyKept`, `Invariance`, and
`NewPolicyExact`: of the options whose `Retry` is at most `MaxWait`, `NewPolicy`
accepts exactly those that the comments on its fields allow, although its
subtraction can wrap around; others it refuses. Assumptions: `AcquireConstants`,
`PolicyConstants`. `IInv`: a call that is about to make an attempt has no
request on the way, and the only answer it has had is contention.

**Memory store** (`MemoryStoreProofs`): `MemoryRefinement`, the store implements
`LeaseContract`; `CapacityOnlyRefusesNewKeysHolds`; `TypeCorrect`. Assumption:
`MemoryConstants`; the durations callers ask for may be any integers. `MemoryInv`
is almost the properties themselves, since every method is one step; the
refinement needs that a record in the store is not the zero record, so that an
inactive entry and an active one are told apart after the mapping.

**Renewers** (`ManagedProofs`): `OneOperationHolds`, `SlotsConservedHolds`, for any
handles and renewers. Assumption: `ManagedConstants` (the number of slots is a
natural number). `RenewalInv` = `TypeOK` and

* `RenewersFit`: a renewer has a handle from its start on, no two live ones have
  the same, and `managed` and the slots count exactly the live ones. Without the
  second, the end of one renewer could clear `managed` for another's handle;
* `CallsFit`: `busy` says whether a call is in flight, there is at most one, and
  a renewal in flight has a renewer that waits for it. Without the last, the
  return of an application's call could clear `busy` under a renewal.

The lemmas (`BeginStep`, `EndStep`, `StartStep`, `MoveStep`, `ExitStep`, ...) speak
of one step of a handle or a renewer, whoever makes it, so that the two modules
built on `Managed` reuse them.

**Guarded callbacks** (`GuardProofs`): `RenewalJoinedBeforeReleaseHolds`,
`LossIsReturnedHolds`. Assumption: `GuardConstants` (each run has a handle and at
most one renewer, its own). `GuardInv` adds to `RenewalInv`, for each run,
`CallsOfRun`: where Run is says which call of its handle can be in flight; and
`WayOfLoss`: a loss that was reported is in the renewer's channel, with the
watcher, in `losses` or in the result, and the watcher does not end before the
renewer has closed its channel. The second is why `LossIsReturned` survives two
goroutines and two channels.

**Service manager** (`ServiceManagerProofs`): `AccountingExactHolds`,
`CleanupSeesEveryEntryHolds`, `ShutdownLeavesNothingHolds`,
`SuccessMeansReleasedHolds`, for any callers, Shutdown calls and places.
Assumption: `ManagerConstants` (one renewer per handle, a positive `max`).
`ManagerInv` adds to `RenewalInv`

* `Counted`: `acquiring` is the number of callers between their reservation and
  its end, and the current gate is open exactly while there are any;
* `Progress`: what the cleanup's position says of its snapshot, of the gate it
  waits for, and of the result that the Shutdown calls take;
* `NoneForgotten`: every handle handed out, and every renewer started, belongs to
  an entry, or to a caller that is about to register it;
* `CleanedUp`: the entries the cleanup has passed have no renewer and, while no
  error was met, are released. A released handle stays so, whatever calls of
  the application are still to return (`ReleasedStays`).

Each invariant was checked by TLC before it was proved. The `IInv` of the first
four groups are invariants of their runs. `MemoryInv`,
`RenewalInv`, `GuardInv` and `ManagerInv` held on the instances of
`memory_store`, `renewers`, `guard` and `service_manager`, whose runs list the
properties that follow from them.

Model-checked only: liveness (`StopJoins`, `EndedHandleStopsRenewer`,
`LossCancelsCallback`, `RunReturns`, `PanicEndsRenewal`, `ShutdownEnds`,
`AcquireReturns`, `CallsReturn`), which rests on fairness and is out of the
prover's reach. The properties of the three runs that expect a violation are
false. Every other property of a run is a theorem.

## Findings

* "Loss describes why managed renewal stopped admitting ownership-dependent
  work" (`managed.go:9`). A renewer that wakes while the application's own call is in flight is refused
  with `ErrInvalidState`, reports a loss and ends; the handle is still active, and
  so is the loss's `State`.
* `docs/unique-jobs.md:8-10` says Run "explicitly releases after the handler
  returns". The cancellation that follows the handler can interrupt a renewal in
  flight; the handle becomes uncertain and Release refuses without asking the
  backend, so the key stays taken until the lease expires.
* `docs/failure-matrix.md:12` says that a mutation timed out after its dispatch
  is `ErrAmbiguousOutcome`. When it is the wait that ends, `Client.Acquire`
  reports `ErrTimeout` (`client.go:201`, and so `client_test.go:241`), although
  the lease was or may still be granted.

Also noticed, without a run of its own; the properties and the contract allow for
each, and for no more than is said here:

* While an executed Release waits for its answer, `State` still says active and
  another client may have the key (`ReleaseExecuted`).
* Two overlapping PostgreSQL releases of the same record: the second waits for
  the row, finds it inactive, and answers `ErrStaleOwner`, since `same_release`
  reads the snapshot; `postgres/store.go:223` says that a repeated release
  succeeds. In the contract this answer needs `overtaken`.
* A PostgreSQL acquisition whose snapshot precedes the grant of the last token
  is told `ErrContended` whether or not the lease is in force (again only if
  `overtaken`); one on a held key at the last token is told
  `ErrBackendUnavailable`.
* `policy.go:84` refuses a retry delay above `MaxWait`, which the comment on
  `Retry` does not mention.
* In Valkey the last token makes INCR fail inside the script, which is reported
  as `ErrAmbiguousOutcome`; `docs/failure-matrix.md:20` lists token exhaustion
  as unavailable.
* After a server's clock was set back, a renewal would end before its
  acquisition: PostgreSQL rolls it back (CHECK, `ErrAmbiguousOutcome`), Valkey
  extends the lease and answers `ErrBackendUnavailable`.

## Not modelled

* Error wording (`internal/failure`), key syntax (`key.go`), key digests, number
  formats, the labels and hashes of observation events: data that no property
  tells apart.
* `NewClient`'s defaults, getters, delegation in the adapters, the set-up code
  of the examples: no state changes.
* The execution of migrations, and Down, which drops the fences; backend
  restarts or failovers that lose fences; a change of a Valkey server's eviction
  policy after Open; a store made by `valkey.New`, which inspects nothing. They
  start a new continuity epoch and are outside every guarantee of the code.
* `leasetest/conformance.go`: a test suite; `LeaseContract` states what it
  samples, the repeated release at line 113 included.

## Plan

`Handle` against `LeaseContract` in place of `LeaseTable`, so that the three
refinements and the admission theorems meet in one statement.
