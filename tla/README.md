# Verification of the Helianthus eBUS gateway

TLA+ models of the gateway's core logic, TLC configurations that check them on
small instances, and TLAPS proofs that hold for every instance. Paths are
relative to the repository root (`src/` in `PROJECT.json`).

## 1. The system

The gateway owns several field-bus drivers (eBUS through an adapter
multiplexer, Modbus, EEBUS and Growatt sidecars), turns what they deliver into
semantic facts, and serves those facts and a small set of operations over
GraphQL, MCP, a portal, Prometheus and Matter.

| Component | State | Operations | What is hard |
|---|---|---|---|
| Driver manager, `internal/drivermanager/manager.go` | per driver: desired, observed, generation, operation numbers, retry budget and token, in-flight attempt, quarantine; two locks (`opMu`, `mu`) | `Start`, `StartAsync`, `Replace`, `Stop`, `StopWithReport`, `Shutdown`, `ReportDegraded`, `ReportFailure`, `Invoke`, `BindHooks`, the retry goroutine | callers, retries, holds and late completions interleave; a construction can outlive its Stop; closes may be unproven |
| eBUS driver runtime, `cmd/gateway/ebus_driver_runtime.go` | open provider, last generation, lifecycle correlation | `Start`, `Replace`, `Stop`, `Admit`, `ActivateCorrelation`, `FenceWithdrawal` | observers must never hold a withdrawn generation |
| Modbus, EEBUS, Growatt runtimes, `cmd/gateway/*_managed_driver.go` | attempt in progress, session, journal | the same interface | concurrent constructions, stop during start |
| B503 session, `internal/vaillant/b503session`, with its dispatcher and wiring in `cmd/gateway/vaillant_b503_*.go` | FSM state, ownership gate, operation in flight, cleanup obligation, idle timer and its generation, three transport epochs | `EnableOperation`, `ReadOperation`, `DisableOperation`, idle expiry, refresh, defensive cleanup, `OnEpochAdvance`, `OnTransportDisconnect`, `ResetForRestart` | the lock is released over every refresh and every frame, while timers, epochs and disconnects go on |
| Runtime control, `internal/runtimecontrol` | desired states with revisions, reconcile queue, recovery ladder, event log | mutations, reconcile worker, recovery | revision checks, restart, native stop proof |
| Runtime state, `internal/runtimestate` | the persisted document and its revision | load, commit, revalidate | crash between write and rename |
| eBUS control bridge, `cmd/gateway/ebus_control_runtime.go` | control epoch, close proof | hooks of the manager, `ensureNativeStop` | joins manager closes with semantic cleanup |
| Semantic hub, `internal/semhub` | epochs, facts, subscribers | publish, restore, control, subscribe | epoch fences, slow subscribers |
| Adapter multiplexer, `internal/adaptermux` | sessions, arbitration, echo tracker, wire phase | north and south side frames, arbitration, recovery | reordered or missing echoes, arbitration results after withdrawal |
| Local worker host, `internal/localworkerhost` | child process, restarts | start, supervise, stop | exit against stop |
| Read scheduler, deduplicator, shadow cache, reconstructor (root package) | flights, recent frames, cached values | read, observe, expire | coalesced reads, active and passive copies of one frame |
| Semantic operations router, execution policy, output commands (`internal/semanticoperations`, `internal/execution_policy`, `internal/eebusoutput`) | operation table, budget | route, admit, execute | double execution after a lost answer |
| Serving layers (`graphql`, `mcp`, `portal`, `matter`, `m2mgraphql`) | request state | translate requests | thin over the parts above |

Drivers call nothing upward but the manager's reporters. The manager calls a
`Runtime` (construction, close, admission) and two hooks (`HoldAdmission`
before publication, `Closed` after a close). Runtime control calls the manager
through the bridge and takes `CloseClass.Proven()` as its proof that nothing
native is left.

## 2. Modules

### `DriverRuntime`

The native side as the manager sees it. `open`, `minted` and `rtQuarantined`
abstract the provider: which generation is open, the last one ever
constructed, and the runtime's own quarantine. Start, Replace and Stop each
have their return value as a parameter, and the conjuncts say what may be true
of the provider for that value. Construction is one step at the moment its
effect happens, so it may happen after a Stop returned, which the late
admission runtimes of the manager's tests do. `lifecycle` and `lastWithdrawn`
are the fields of the eBUS wrapper that process-local observers are driven
from; `FenceWithdrawal` and `ActivateCorrelation` are its methods.

### `DriverManager`

One driver under its manager; drivers share only the `closed` flag. A
goroutine is a slot of `Procs` with a program counter; an action is one
section under `managedDriver.mu`, one runtime call or one hook return. `opMu`
is modelled because a stop holds it over the whole runtime call. The action
names follow the code: `StartReserve` is the section of `start` that takes an
operation number, `AttemptInstall` to `AttemptExit` are `startAttempt`,
`StaleRetired` is the end of `retireSupersededAdmission`, `HeldRetired` that of
`retireHeldAdmission`, `StopWithdraw`, `StopRuntime`, `StopFinish` are
`stopLocked`. Reasons, timestamps, events and log lines are left out. An error
is the verdict of the classifier: `retryable`, `terminal` or `quarantined`.
Delays are left out: a retry fires at any time after it is scheduled.

Callbacks carry a generation and operation zero, the correlation that
reporters are bound to; a stale one changes nothing and so is not a step.

### `AdmissionContract`

What a consumer may rely on: at most one generation is published, a generation
is withdrawn before the next one appears, generations grow, and quarantine is
final. `DriverManager` implements it with `published` as the generation of a
RUNNING or DEGRADED driver.

### `B503Session`

The live-monitor session with its dispatcher. `m` is the `Manager`, and the
`...Locked` helpers and lifecycle handlers are operators from `m` to `m`, so an
action composes them in the order of the code. A goroutine (a caller, or the
callback of an idle timer) is a slot of `Callers` or `Callbacks`; an action is
one section under `stateMu`, the return of a refresh, or one step of
`invokeB503Outcome`: the capture of the epoch, the admission under
`emissionMu`, the return of `bus.Send`, the classification of its outcome, the
correlated disconnect. `EnableSettles`, `ReadSettles`, `DisableSettles` and
`IdleDisableSettles` are what follows `dispatchOnce`. `wire` logs the enable
and disable frames that entered `bus.Send`.

An outcome is one of five: not emitted because the transport is down or the
context expired, acknowledged, emitted and failed (NAK, ambiguous or stale),
emitted and lost with the transport. Identifiers are numbers. A caller's token
is left out: a wrong key, a wrong target or a busy session is refused without
effect. The flags `refreshFailed` and `lastRefreshTransportDown`, the per-target
restart fences and the origin evidence decide only what an error looks like and
are left out, as are `Enable`, `Disable` and `Read`, which the code keeps for
tests of the gate. A refresh may fail or return any epoch, as the type
`RefreshFunc` allows; the gateway installs one that always fails. It also calls
`ResetForRestart` at start, which is the model's `Restart` taken first; the
module checks the manager as the package offers it, with and without that step.

### `LiveMonitorContract`

The promise about the device's one monitor slot: one owner, an obligation that
is never forgotten once an enable may have reached the device, no owner while
it stands, no owner after a restart. `B503Session` implements it; the
obligation is the retained cleanup or an emitted enable in flight.

### `ShadowCache`

The cache of watched registers. The whole cache is one record, and every method
that runs under `cache.mu` is an operator from a cache to a cache, which the
actions here and those of `SemanticReadScheduler` apply. A loop over a map or a
list (`syncPinsInOrder`, `RemoveFirst`) is a recursive function of a counter. `snap` is the record
that readers load without the lock. Times are ticks and 0 is the zero
`time.Time`. Writes and invalidations carry any observation time up to now, so
delivery is late and out of order. A `Deactivate` of a watch source, which the
gateway never calls, and the diagnostics are left out.

### `SemanticReadScheduler`

`GetWatch` of one register over that cache. A reader is a slot with a program
counter; an action is a section under the entry's lock, a call of the cache, the
fetch, or the landing of the flight. Around the readers run the passive producer
(a queue that may lose events), a configuration write with its fence, the
compactor and the clock. A passive event that is not lost is handled within
`PassiveDelay` of its observation (the clock waits for it), and twice that delay
is less than the hard lifespan of a tombstone; section 4 says what depends on it. A value is the version of the register it shows.
`Get` with a plain key is the same path without the shadow.

### `RuntimeState`

The state file, its one writer and the control namespace inside it. `m` is the
process's `Manager`, `fs` the file that is shown and the directory states a
power loss may fall back to, `storage` whether the disk was tampered with. A
write holds the writer slot from its snapshot to its last effect, one action per
filesystem call (create, write, sync, rename, directory sync), each of which can
fail; a kill or a power loss can come between any two. `StartControl` to
`ControlCommitted` and `ControlAmbiguous` are `commitControl`, and the readback is
its own sequence. JSON is abstracted to what can
be decoded of it: a file, a namespace or a record is good, or kept as its bytes.

The offline reset (`scripts/reset_runtime_control.py`) is a process of its own
that competes for the lock file. `ToolLocks` takes it; `ToolUnlocks` is a
preview, a refusal or a kill; `ToolResets` is `run` with `--apply`: a copy of the
file, the replacement, the directory sync and the readback. Nobody else may touch
the file meanwhile, so one step has as its outcomes the places where the tool can
stop: the directory of the copy or of the replacement not synced, or all of it
done and reported or not. As in
`plan_reset`, a file without an instance GUID or without a namespace and an
exhausted mark are refused; each driver that is named gets a STOPPED record without work at
the next revision past the mark, in the order of the ids, keeps its sequence, and
every other record goes. The gateway that starts next goes on from there. What
the tool reports is an answer like that of the store, so `acked` grows. It reads
less of a namespace than the loader does: one that the loader rejects for its
`drivers` alone is repaired. The model does not know the counters in such bytes and
takes them from `BrokenCounters`. The catalog revision is left out.

### `AdapterMux`

Arbitration in the multiplexer. `arb` is the arbitrator, `pending` the START at
the adapter, `barrier` the absorb counter, the regrant fence and the retired
selection. The actors are the read loop (`rl` is its place between two critical
sections), the sessions and their removal, the timers, the gateway's
transactions and `Close`; an action is one section of `stateMu` or of the
arbitrator's lock. The adapter is external: it answers each START once, with
STARTED, FAILED or an error, at any time. What the wire-phase classifier says at
a SYN is nondeterministic.

### `RuntimeControl`

The control service for one driver: a request that decides, another that finds
the admission closed, the reconciler, the readback resolver, and the store they
share, which fails cleanly, fails with an unknown outcome, or is cut off by a
crash. `rc.pc` names the place of the reconciler; its attempts (`typed` for the
slots, `untyped` for reports of the driver) charge the slot, call the executor
and commit the result in steps of their own. A deadline has passed or not when
the code looks at it, and stays so. The executor remembers its open generations
and how often it was asked. `RuntimeState` checks the store below it; here a
commit is one step with three outcomes.

### `ActivePassiveDedup`

The deduplicator of the gateway's own reports and the passive copies of the same
traffic. `tx` is the wire: every transaction has an age, a copy and, if it is the
gateway's own, a report, each due, arrived or lost. `d` is the deduplicator, and
the sections under its mutex are operators from `d` to `d`. Times are relative,
so a passive copy is handled with the lag its stamp has. Reports arrive in the
order of their transactions, and so do copies; the two streams interleave freely.
`Tick` waits for what is due within its budget: the budgets are the premise of
the design. A copy that waits for its report counts the grace from the time it is
stamped with, not from its arrival. `DedupBudgets` is the order of the budgets as
`deriveDedupTimingBudgets` derives them, the only ones production uses: the
constructor refuses a budget below the derived one, and compares no two with each
other.
`credit` is history: the reports less the matches of a fingerprint since the last
loss.

### Proofs

`DriverManagerProofs`, `AdapterMuxProofs`, `ShadowCacheProofs`,
`SemanticReadSchedulerProofs`, `RuntimeStateProofs`, `ActivePassiveDedupProofs`,
`B503SessionProofs` and `RuntimeControlProofs` each extend the module they are named after with an
inductive invariant, the lemmas about its operators, one lemma per action and
the theorems (section 5).

## 3. Runs

| Run | Instance | Shows |
|---|---|---|
| `manager_safety` | 3 goroutines, 3 operations, 2 generations, budget 1 | type correctness, one construction at a time, publication only of what is open, no abandoned provider, no orphaned backoff, final shutdown, latched quarantine, the publication contract |
| `manager_liveness` | 2 goroutines, 1 capability, 2 operations, 1 generation, persistent retries, driver disabled at first | `TransientStatesEnd`, `ShutdownSettles` |
| `manager_proven_close` | 2 goroutines | `ProvenCloseIsQuiet` is violated: a finding |
| `b503_session` | 2 callers, 1 timer callback, 1 target, epochs 0 to 2, 4 identifiers | the gate follows the state, one enable and one disable at most on the wire, no owner frame crosses an epoch, deferred expiries belong to a read, an active session is always watched, the slot contract; `GateIsReleased` |
| `b503_cleanup_epoch` | 1 target, 3 identifiers | `CleanupInGeneration` is violated: a finding |
| `shadow_cache` | 3 keys, capacity 2, 2 pins of which 1 for write confirmation, 2 ticks, 2 generations | the lock-free record agrees with the entry, the eviction list is exact, the budgets hold, values only move forward within a generation |
| `read_scheduler` | 2 readers, 2 keys over 1 slot, 2 register writes, 3 ticks, a decoded value fresh for 1, events at most 1 late, a hard lifespan of 3; a call without a cache age, which skips the shadow, is left out | no read is older than an invalidation before its call, one flight, a probe for every half-open breaker |
| `runtime_state` | 1 driver, 2 processes, 2 changes (a commit or a reset), counters to 4, 2 unsynced directory states | answered decisions survive, one decision per revision, a clean manager is on disk, unknown bytes are never overwritten, work leaves only by its rules; `StopReleases` |
| `adapter_mux` | the gateway and 1 session, 2 addresses, 2 bids, 1 reset, 1 late answer | one result per bid, answers attributed, no owner that has left, a quiet close; `BidsAreAnswered` |
| `control_service` | 2 revisions, 2 attempts, 1 failing write of the first process, 1 crash | until a second write fails no work for unannounced decisions; the start budget, no lost wakeup; as long as no write failed no start over an open generation and nothing forgotten |
| `control_dropped_work` | as `control_service`, without the crash | `WorkLeavesFinished` is violated: a finding |
| `dedup` | 2 transactions of 4 kinds, 2 epochs, buffer of 1, grace 2, hysteresis 4 | own traffic is never third-party, a report answers for one copy, no verdict crosses a reset |

Where an invariant says more than its name, it conjoins the named parts above it
(`GateMatchesState`, `NoAbandonedProvider`, `BudgetsHold`, `NothingForgotten`), and the type
invariant of the module is among them.

Three goroutines are the least that let a caller, the construction it
interferes with, and a third party (a retry, a reporter or a second caller)
meet. Three operation numbers let a reservation be superseded and superseded
again. Two generations let an old one be confused with a new one. Budget 1 has
both a retry that continues and one that is exhausted. The bounds are
`MaxOperations` (a call begins only while every begun call can still take its
number), `MaxGenerations` and the number of slots. Goroutine slots and
capabilities are interchangeable, so both are symmetry sets, except in the
liveness run, where symmetry is not sound. Deadlock is not checked: at its
bounds the model stops, and a manager that nobody calls rests.

For the session, two callers let one be refused, or resume late, while the
other owns; four identifiers are an enable, its obligation and two more
operations. Two epochs after the first let one advance during a refresh that
another one started. One callback slot suffices for a stale callback: it may
wait while the timer is armed again. The bounds are `MaxIds` and `MaxEpoch`.

Three keys over two slots make every admission evict, be refused or promote a
pin. In the read scheduler the second key only presses on capacity, so one slot
is enough; two readers are a flight and its waiter, and `MaxVersion` 2 is one
write that either of them may miss; three ticks let a tombstone reach its hard
lifespan. In the store, two processes and two changes
cover a decision, one on top of it, and a restart between any two of their
filesystem calls, and a reset before or behind a decision; `MaxCounter` 4
leaves a revision for each of these, `BrokenCounters` {1} makes a repaired mark
one that is in use; `MaxUnsynced` 2 lets a power loss return to the directory
before a rename. In the multiplexer two bids are the gateway against a session,
or a session against its own newer bid; one reset, one close and one answer that
outlives its wait each meet both. In the control service two revisions are a
decision and its successor in the reserved slot, and two attempts are a failure
and its last retry. `MaxFaults` 1 and `FaultyBoots` {0}, one failing write and that in
the first of two processes, are bounds of the run only: the theorems of section 5
are about any number of failing writes in every process. With `FaultyBoots` {0, 1}
the instance has 8.2 million states and passes as well, but takes too long for a
regular run. One fault does not stand for two:
`NoSilentDecision` and `ActsOnAccepted` are stated as long as no second write failed
(`OneFault`), and with `MaxFaults` 2 the same formulas without that condition are
violated (section 4). `NoStartOverOpen` and `NothingForgotten` are about
the behaviours before a write fails: after one they are false (section 4), which
needs three revisions and is not seen with two. In the deduplicator two transactions are enough for the
worst case, a first one that starts the recovery and a second one whose report is
lost, and for two copies that compete for one report or one place in the buffer.

Fairness. A goroutine that can run eventually does (weak fairness of its
steps); this includes the return of runtime calls and hooks, which the
`Runtime` interface and the hook comments require to be bounded by their
contexts. `opMu` is a `sync.Mutex`, whose starvation mode hands it to every
waiter in turn, and a retry timer expires while others come and go: strong
fairness. Callers, reporters and expiring contexts owe nothing.
In the session, goroutines run, refreshes and sends return within the
deadlines of their contexts (`b503DispatcherRequestTimeout`, the five seconds of a
cleanup), and an armed timer elapses; callers and the transport owe nothing.
In the store filesystem calls return; `CloseWrites`, the last taking of the
writer slot, is strongly fair because a Go channel serves its waiters in order.
In the multiplexer goroutines run, timers expire, the adapter answers, and a bus that is
alive repeats its SYN; an ownership ends (strong fairness of `OwnershipEnds`)
because its cap is tested on every byte received. `RuntimeControl` assumes none:
`NoLostWakeup` is an invariant of the states in which everybody waits, and that
is where a lost wakeup would show. The cache, the read scheduler and the
deduplicator assume none either; that a flight in progress always has its runner
is the invariant `OneFlight`.

## 4. Findings

`manager_proven_close`: the first Stop of a STARTING driver reports `PROVEN`
although the construction it canceled has not returned, because `stopLocked`
classifies the error of `Runtime.Stop` alone. The comment above the other
branch, the test of that branch and the driver contract say that nothing is
proven while a construction is in flight. The late admission itself is
retired, which `NoAbandonedProvider` checks; what is stale is the proof that
the bridge's `ensureNativeStop` consumes.

`b503_cleanup_epoch`: a failed enable, or the idle timer, ends the session and
releases the lock before `attemptCleanup` installs the cancelable cleanup
operation. A transport epoch that advances in between finds nothing to
invalidate, and the cleanup of the old epoch is written on the new transport
and recorded under the old epoch. The advance is fenced one section later, and a
test requires that it is. The wiring, which declares every process a restart,
admits no enable today.

`control_dropped_work`: a prune clears a finished slot by `CommitWork` of the
slots it expects. When its first try ends with an unknown outcome and a readback
adopts it, a new decision may be accepted before the reconciler tries again; the
second try finds the new decision's slot in the place of the pruned one and
clears it. The decision was announced, the desired state stays, but nobody
carries it out until the next request. When the dropped decision is a STOP, the
generation it was to close stays live under a desired STOPPED, and the next START
runs over it (`NoStartOverOpen`) and leaves it to nobody (`NothingForgotten`):
TLC shows both with one failing write and three revisions. Without a failing
write none of the three can happen, which `RuntimeControlProofs` proves; the first
two are stated under that condition (`Unfailed`).

### Observations

These are places where the models show a weakness that no run of the project
states as a property.

- `b503session/session.go:1106`: a disconnect during an epoch refresh leaves the
  operation installed after its caller returned, so `PendingOperation` reports
  one that nobody executes (the comment at line 266 says otherwise). The retained
  cleanup keeps the session closed; only the diagnostic is wrong.
- `semantic_read_scheduler.go:277`: the revalidation judges the age of the newest
  snapshot instead of the candidate's (comment at line 176). `NoStaleRead`, which
  is about invalidations, holds all the same.
- `shadow_cache.go:965`: the high-water mark protects a key that was evicted (the
  test at `shadow_cache_test.go:431` requires it), but a late invalidation puts an
  entry with its own, older time in place, and observations are then compared
  with that entry: one older than the evicted value is accepted. The poller pins
  its registers and pinned keys are not evicted, which is why the theorem about
  `NoStaleRead` asks for that pin.
- `shadow_cache.go:965`, again: of two invalidations the older one may be handled
  after a compaction has removed the tombstone of the newer one, and a passive
  read between the two is then accepted. It takes events later than half the hard
  lifespan (24 h against seconds), which the assumption `2 * PassiveDelay <
  TombstoneHardLifespan` excludes. The proof showed the need and TLC the trace.
- `runtimestate`: `Load` does not sync the directory, so a file a power loss may
  still undo is loaded; nothing is answered on its strength.
- `adaptermux`: a START 0xAA withdraws the queued bid, the grant and the START in
  flight in three sections, and a grant between them leaves the withdrawn session
  the owner until its cap (`session.go:634`); the abandon watchdog and `doSend`
  check ownership and act afterwards; an answer that outlives the absorb timer
  is taken for that of the next START of the same address
  (`ResponsesAreAttributed` is stated for `late = 0`).
- `runtimecontrol`: a charge of a failed cleanup is recognised by its value, which
  the charge of a later Start also reaches, so one Stop can be uncharged and the
  same generation starts again (`settleObligations`, `runTypedAttempt`); a Start
  that ends `CLOSE_UNCONFIRMED` under a fence is not quarantined; `armReadback`'s
  swap fails between the last settlement of the resolver and its disarming, so
  that a decision whose outcome becomes unknown there stays held until another
  request. The last takes two failing writes.
- `active_passive_deduplicator.go:222`: the constructor does not check that the
  budgets are in order, nor that the recovery hysteresis outlasts a copy's grace
  and delivery, without which the copies of a loss can be released as third-party
  (the assumption `DedupBudgets`; true of the derived defaults). An own attempt that was reported failed
  but completed on the wire is adjudicated third-party. When its retry has the
  same fingerprint, the copy of the failed attempt takes the retry's report, and
  the copy of the retry is the one left over; `OwnIsNotThirdParty`
  excepts the failed attempts and, once its report has come, a transaction after
  another with the same fingerprint.
- `runtimecontrol/service.go:842`: `resolveAmbiguous` trusts the committed record,
  but the admission it was called for may have closed again. When a readback ends,
  a decision whose own write then ends with an unknown outcome can be taken by
  that readback's settlement: the committed record still shows the old revision,
  the decision counts as rejected and its hold ends. If the next readback adopts
  it, it is in force without an announcement, the reconciler acts on its slot, and
  an untyped attempt and the slot can both start the driver. It takes two writes of
  unknown outcome in one process; the comment at line 829 has the admission open
  throughout. With `MaxFaults` 2 TLC finds both within seconds, which is why
  `NoSilentDecision` and `ActsOnAccepted` carry the condition `OneFault`.

## 5. Proofs

The theorems hold for every value of the constants: any number of goroutines,
sessions, callers, readers, keys, targets, transactions, drivers and every bound.
None of the invariants is inductive as it stands. Each module of proofs states
the strengthening, which TLC checked on the instance of the module's run first,
and proves that `Init` has it and every action keeps it.

**`DriverManagerProofs`** (`TypeCorrect`, `SingleConstruction`, `PublishedOpen`,
`LifecycleFollows`, `QuarantineStays`, `Refinement`, `NothingAbandoned`,
`NeverPublishedCanceled`). `IndInv` has two halves.
*Ownership* says who may act. A construction in flight owns `activeAttempt`
(`AttemptsOwn`). Operation numbers are never reused, and one reservation holds
the active one (`OperationsIdentify`), which therefore finds the attempt slot
free when it installs (`ReservationsFree`). A settled, quarantined or backed
off driver has no reservation that is still current (`OperationsSettle`). The
holder of `opMu` is the only goroutine in a protected section, and a stop's
intent outlives its runtime call (`StopsExclude`). *Native* relates this to the
provider. An attempt that may still publish has a generation that is open,
newest, and never withdrawn (`CandidateIsFresh`); a failed hold never publishes
(`HeldResults`); withdrawn and published generations are bounded by the minted
ones (`GenerationsOrdered`). Every call that closes a provider runs while nothing
is published, because the caller is an attempt or a stop. `QuarantineStays` rests
on one observation: publication, the only assignment that clears the flag, needs
the active operation, which quarantine sets to zero and no reservation can equal.
The last two theorems need a third part, *Withdrawal*. A canceled goroutine is a
retry whose token is stale or an attempt that is superseded (`Cancellation`), so
the attempt that publishes was not canceled. A stopped driver that has left a
provider open, or is about to be declared stopped over one, still has the attempt
that will retire it or quarantine the driver (`StopClears`): this is the late
admission, for which the stop's own close came too early. From the section of its
stop on, a Shutdown has withdrawn the driver and canceled what is in flight
(`ShutdownWithdraws`), and a retry in BACKOFF gives up only when its token is
stale. Assumed: `NoProc` is no slot; the bounds and the budget are naturals.

**`B503SessionProofs`** (`SessionGate`, `SessionWire`, `SessionFrames`,
`SessionContract`). `SessionInv` ties the manager to the wire log and to its
goroutines. `Slot` says what the wire has carried in each state and for whom:
nothing while Idle or while the enable is unsent, an enable while owned, and
after a retained obligation the enable with or without its disable. `Worker` says
what each goroutine knows of the operation in flight (its kind, its target,
whether its frame was sent, the epoch it was issued for), `Apart` that no two
goroutines have the same operation or clean up, `Bound` that an owner behind the
transport knows it, `Watched` that an active session has a timer, a callback on
its way or an operation that will arm one. Without `Slot` a second disable could
not be excluded; without `Apart` the settlement of one goroutine could be that of
another. Every step but a restart keeps a closed slot closed (`Steady`); until a
restart the contract's obligation is exactly a wire log that is not empty
(`OwedIsLogged`), which gives the refinement. Assumed: `SessionAssumption`.

**`AdapterMuxProofs`** (`MuxOneResult`, `MuxNoBidForgotten`,
`MuxResponsesAreAttributed`, `MuxOwnerIsPresent`). A bid is in one place: queued,
granted, at the adapter, retired or answered (`InOnePlace`); a START at the
adapter, an absorbed answer and the barrier account for every answer that is
still to come (`Outstanding`, `Fences`); what a session holds ends with it
(`HeldIsOpen`). The winner of a SYN is characterised by the least element of its
order, not by recursion. Assumed: `MuxBounds`; `None` is no session, waiter or
START.

**`ShadowCacheProofs`** (`SnapshotsAreCoherent`, `GenerationsFence`,
`BudgetsAlwaysHold`). Every method under `cache.mu` keeps the lock-free record
equal to what the entry says, the generation non-decreasing and the list of keys
free of repetitions. Loops are handled by the least counter at which a claim
fails. The budgets need to know where pins come from. A static pin is held only
by a key of the poller that has a descriptor in the catalog and is not a debug
key, so the static pins are among the footprint of the present catalog, and the
cache is degraded exactly when that footprint exceeds the budget of static pins.
A key that is pinned already may be pinned for a write confirmation without
counting, which is sound because a static pin never turns into one; any other key
is counted. The head of the eviction list, an unpinned key, makes room for an
admission. `Bootstrap` breaks the first of these for a while, when a
descriptor turns from fallback into debug before `syncAllPins` has come to its
key; the claim about that loop is made for the keys it has visited, and the order
it visits them in is a permutation of all keys. Assumed: `CacheBounds`,
`BootKinds`; the set of keys is finite.

**`SemanticReadSchedulerProofs`** (`ReadsAreOneFlight`, `ProbesAreReturned`,
`ReadsAreNeverStale`). `FlightInv` says who runs the flight and who holds a probe.
`StaleInv` carries a floor, the newest version an applied invalidation is about,
through the entry, the cache, the queue of passive events and every place of a
call: whatever could still be returned was read after the floor of its call, or
has a generation or a time that the next check refuses. Assumed:
`SchedulerBounds`, with the delay of passive events, and for `ReadsAreNeverStale`
that the poller is among the register's sources, so that the key is pinned.

**`RuntimeStateProofs`** (`StateAckedSurvives`, `StateOneDecision`,
`StateCleanIsPersisted`, `StateOverwritesOnlyKnown`, `StateWorkIsKept`). The
invariant follows one write through its filesystem calls: what each directory
state a power loss may leave contains (`Survives`, `Newest`), what the process
took for its snapshot and what it knows of the file (`SnapshotTaken`, `Known`,
`CleanOnDisk`), that a staged namespace keeps unfinished work (`StagesKeepWork`)
and which answers were given (`Answered`). An offline reset keeps the last two
because it goes on from the mark: its revisions are past every answered one, and a
request for a revision before it no longer compares equal. Assumed: `StateBounds`
and `Apart` (the markers of an absent or corrupt file are no files).

**`ActivePassiveDedupProofs`** (`DedupOwnIsNotThirdParty`,
`DedupMatchesAreBacked`). `Wire` is what the two ordered streams guarantee, `Fit`
relates the deduplicator's fingerprints, pending copies and recovery to the
transactions they are of. Assumed: `DedupBudgets`, which the derived defaults
satisfy.

**`RuntimeControlProofs`** (`ControlNoLostWakeup`, `ControlStartBudget`,
`ControlTypes`, `ControlNoSilentDecision`, `ControlActsOnAccepted`,
`ControlNoStartOverOpen`, `ControlNothingForgotten`,
`ControlWorkLeavesFinished`). The first three hold over any number of failing
writes in any of the processes, the next two as long as no second one has failed,
the last three as long as none has; all for any number of revisions and crashes.
None of them assumes anything of `MaxFaults` or `FaultyBoots` but that they are
numbers.
`WakeInv` says what the reconciler has in hand at each place of its code
(`Shape`), who ends a decision that is under way and who settles one whose
outcome is unknown (`Deciders`), and that the reconciler sleeps, or is about to
because it read no work, only over no work or with somebody left who wakes it
(`Awake`): the case between reading and sleeping is where a wakeup could be
missed. Most of its steps are covered by one description, `Moves`, of what the
reconciler leaves alone; `Leads` describes where a step with a slot may lead.
`Budget` relates the calls made to the charges: the committed and the staged
record have both paid for them (`StoreBudget`), what the reconciler works on is
not ahead of either and a Start in hand is paid and not yet made (`RcBudget`), a
charge whose write failed is within the limit and unused (`ChargeBudget`). Both
records are needed since a readback or a restart may keep either. `Announced`
says that a revision which is stored or staged and not announced belongs to a
decision still held, `Faults` that nobody settles by an ambiguous record; the
latter is false once a second write fails (section 4), so the invariants
`AnnouncedInv` and `LineageInv` have these parts under `OneFault`: a failing write
that keeps to it is the first, and found no readback under way. `Ranges` adds to these shapes what
`TypeOK` says of the staged record, of a reserved slot and of the mark of a prune.

`ActsOnAccepted` is harder than `NoSilentDecision` because the reconciler reads
its slots before it looks at the hold: what it has in hand may be older than the
store, and the hold it looks at may be that of a later decision. `Lineage` says
that every slot of a record was decided by a revision up to its own and that all
but the newest of these were announced (`StoreLine`); that what the reconciler
read is not ahead of the store, whose records, the staged one included, are its
heirs: an unfinished slot is still there, and what is reserved behind it
(`ReadLine`, `Heir`); and that from its dispatch on the reconciler works on
announced slots only (`WorkLine`). At the dispatch itself no decision is held, so
by `Announced` the newest revision was announced too. Afterwards a decision only
adds a reserved slot, and an update keeps the identity of the slot it writes.

The last three theorems rest on `Books`, a complete account of the service as
long as no write has failed. `Plain` says that the admission is then open and no
decision in doubt, `Sequence` that the slots are those of a sequence of requests,
`Epochs` that epochs are issued in order, `InHand` that the reconciler has in hand
what is stored, or the update of it that its place in the code is about to write
(`CommitLine`), `Calm` that a quarantined driver is not started and `Fencing` that
the attempt of a superseded slot is fenced. Unless the driver is quarantined
there is the `Ledger`: every open generation is live, untyped or owed
(`Accounted`); a live one is desired, or the slot that takes it over is the
current one (`LiveLine`); an untyped attempt is under way or its cancellation is
the current slot (`UntypedLine`); where a Start is ahead nothing is open, and what
a slot no longer owes is closed (`OpenLine`); an attempt that is not under way is
superseded (`InflightLine`). None of these parts is inductive without the others.
A failed write ends `InHand`: the store may then keep an older record or find a
newer one, and section 4 shows what follows. Assumed besides: `ControlBounds`;
`Nothing` is no slot, record, correlation or attempt (`NothingIsNoSlot`,
`NothingIsNone`).

Only model-checked, each on the instance of its run:

- liveness and fairness, which the prover cannot express: `TransientStatesEnd`,
  `ShutdownSettles`, `GateIsReleased`, `StopReleases`, `BidsAreAnswered`.

Every invariant and every action property of a passing run is stated by a theorem.
The properties of the three runs that show a finding are false of the code there;
of `WorkLeavesFinished` the theorem says under which condition it is true.

## 6. Plan

1. Composition: the eBUS control bridge as the executor of `RuntimeControl` over
   `DriverManager`; `B503Session` driven by `AdmissionContract`.
2. Further modules: `ModbusManagedDriver` as an implementation of what
   `DriverRuntime` assumes, the semantic hub's epochs and subscribers, the local
   worker supervisor, the execution policy of semantic operations.
3. What of `NothingForgotten` is left after one failing write: that the dropped
   decision of section 4 is the only way to lose a generation.

## 7. Not modelled

The definitions of the project stand for about 9,500 of the repository's 178,000
implementation lines, some 5 %: the concurrent core, not the breadth of the gateway. Most of the repository's lines are data: the Vaillant semantic poller decodes
registers, the GraphQL, MCP, portal and Matter layers translate requests and
format answers, the observability store counts and keeps ring buffers, and the
offline tooling (`internal/candidatefacts`, `internal/coexistence`,
`internal/promotion*`, `internal/adversarial`, matrix and release checks) works on
recorded evidence. They hold no protocol state or only format it, and a model of
them would repeat their tables. The passive reconstructor and the echo tracker
are byte-level parsers, whose value is in the wire format. The Modbus, EEBUS and
Growatt transports are external libraries.

Within the modelled parts: the blocking `StartArbitration` path, a managed
connection loss and pacing of the multiplexer; startup blocks, the event log, the
recovery recorder and request parsing of the control service; the directed
revalidation of bus members, which only calls mutators of the store; family
policies and the watch observer of the deduplicator. `PROJECT.json` lists every
component with what is left out and why.
