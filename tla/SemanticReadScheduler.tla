--------------------------- MODULE SemanticReadScheduler ---------------------------
(***************************************************************************)
(* Reads of one watched register through SemanticReadScheduler             *)
(* (semantic_read_scheduler.go), over the shadow cache, while the passive  *)
(* shadow producer (semantic_vaillant_passive.go) and a configuration      *)
(* write with its fence (semantic_vaillant.go) change the cache.           *)
(*                                                                         *)
(* A value is the version of the register it shows and the time it was     *)
(* stamped with; only the version stands for its bytes.                    *)
(***************************************************************************)
EXTENDS ShadowCache

CONSTANTS
    Readers,                \* goroutines calling GetWatch
    K,                      \* the watched register; the other keys press on capacity
    NoCandidate,
    MaxAges,                \* the ages callers ask for
    KeySources,             \* activation sources of the registers
    FailureBudget, OpenCooldown, HalfOpenProbeLimit,
    PassiveDelay,           \* a passive event is handled within it
    MaxVersion, MaxBus      \* bounds on the register's writes and the passive queue

Versions == [ver : Nat, at : Nat]
Candidates == [val : Versions \cup {NoValue}, gen : Nat]

ASSUME SchedulerBounds ==
    /\ K \in Keys
    /\ MaxAges \subseteq Nat
    /\ KeySources \subseteq Activations
    /\ {FailureBudget, OpenCooldown, PassiveDelay, MaxVersion, MaxBus} \subseteq Nat
    /\ 2 * PassiveDelay < TombstoneHardLifespan
    /\ HalfOpenProbeLimit \in Nat \ {0}
    /\ NoValue \notin Versions
    /\ NoEntry \notin Entries(Versions)
    /\ NoCandidate \notin Candidates

VARIABLES
    entry,      \* semanticReadEntry of K
    reader,     \* local variables of each call
    dev,        \* version of the register in the device
    bus,        \* adjudicated passive events, not yet handled
    writer,     \* version of a configuration write whose fence is still due, or 0
    floor       \* newest version an applied invalidation is about

schedulerVars == <<entry, reader, dev, bus, writer, floor>>
vars == <<cacheVars, schedulerVars>>

semanticReadShadowMaxPreActivePasses == 2
semanticReadShadowMaxRecomputeCycles == 1

NewReadEntry ==
    [running |-> FALSE, lastOK |-> NoValue, okAt |-> 0, okGen |-> 0, fromShadow |-> FALSE,
     breaker |-> "closed", failures |-> 0, openedAt |-> 0, probes |-> 0]

NoCall ==
    [pc |-> "idle", maxAge |-> 0, passes |-> 0, recompute |-> 0, cand |-> NoCandidate,
     start |-> 0, written |-> 0, val |-> NoValue, err |-> "none", floor |-> 0]

Init ==
    /\ cache = EmptyCache([k \in Keys |-> "decoded"], [k \in Keys |-> KeySources])
    /\ now = 1
    /\ entry = NewReadEntry
    /\ reader = [r \in Readers |-> NoCall]
    /\ dev = 1
    /\ bus = <<>>
    /\ writer = 0
    /\ floor = 0

-----------------------------------------------------------------------------
(* Circuit breaker                                                           *)

breakerEnabled == FailureBudget > 0

transitionBreaker(e, to) ==
    IF ~breakerEnabled \/ e.breaker = to THEN e
    ELSE [e EXCEPT !.breaker = to,
                   !.failures = IF to = "closed" THEN 0 ELSE @,
                   !.openedAt = IF to = "closed" THEN 0 ELSE @,
                   !.probes = IF to = "open" THEN 0 ELSE HalfOpenProbeLimit]

openBreaker(e) == [transitionBreaker(e, "open") EXCEPT !.openedAt = now]

CooledDown(e) == OpenCooldown = 0 \/ now - e.openedAt >= OpenCooldown

\* guardBreakerLocked: whether the call is suppressed, and the entry after it.
Suppressed(e) ==
    /\ breakerEnabled
    /\ \/ e.breaker = "open" /\ ~CooledDown(e)
       \/ e.breaker = "half-open" /\ e.probes = 0

guardBreaker(e) ==
    CASE ~breakerEnabled \/ e.breaker = "closed" -> e
      [] breakerEnabled /\ e.breaker = "open" ->
            IF CooledDown(e) THEN transitionBreaker(e, "half-open") ELSE e
      [] OTHER -> IF e.probes > 0 THEN e ELSE openBreaker(e)

recordFailure(e) ==
    LET f == [e EXCEPT !.failures = @ + 1]
        trips == \/ e.breaker = "half-open" /\ e.probes = 0
                 \/ e.breaker = "closed" /\ f.failures >= FailureBudget
    IN  IF ~breakerEnabled THEN e ELSE IF trips THEN openBreaker(f) ELSE f

\* Mutant: a superseded probe is spent.
spendProbe(e) == e

\* A superseded probe is handed back.
returnProbe(e) ==
    IF breakerEnabled /\ e.breaker = "half-open" /\ e.probes < HalfOpenProbeLimit
    THEN [e EXCEPT !.probes = @ + 1] ELSE e

-----------------------------------------------------------------------------
(* The cached read                                                           *)

clearSemanticReadCache(e) ==
    [e EXCEPT !.lastOK = NoValue, !.okAt = 0, !.okGen = 0, !.fromShadow = FALSE]

Snapshot == SnapshotEligibility(cache, K, now)

shadowSnapshotEligibleForMaxAge(maxAge) ==
    /\ Snapshot.present
    /\ maxAge > 0
    /\ Snapshot.obs <= now /\ now - Snapshot.obs <= maxAge

CandidateHolds(r) ==
    /\ reader[r].cand # NoCandidate
    /\ Snapshot.gen = reader[r].cand.gen
    /\ shadowSnapshotEligibleForMaxAge(reader[r].maxAge)

CandidateRetries(r) ==
    reader[r].cand # NoCandidate /\ ~CandidateHolds(r) /\ reader[r].passes > 0

CachedFresh(r) ==
    /\ entry.lastOK # NoValue
    /\ reader[r].maxAge > 0
    /\ now - entry.okAt <= reader[r].maxAge

\* Mutant: the cached value is trusted whatever generation it has.
CachedTrusted(r) == entry.fromShadow => shadowSnapshotEligibleForMaxAge(reader[r].maxAge)

CachedCurrent(r) ==
    /\ Snapshot.gen = entry.okGen
    /\ entry.fromShadow => shadowSnapshotEligibleForMaxAge(reader[r].maxAge)

CachedServes(r) == CachedFresh(r) /\ CachedCurrent(r)

\* The entry when neither the shadow nor the cached value could be served.
Unserved(r) ==
    IF CachedFresh(r) /\ ~CachedCurrent(r) THEN clearSemanticReadCache(entry) ELSE entry

-----------------------------------------------------------------------------
(* getWithWatchKey                                                           *)

At(r, pc) == reader[r].pc = pc

\* Locals that no later step of the call reads are forgotten.
Returned(call, val, err) ==
    [NoCall EXCEPT !.pc = "done", !.val = val, !.err = err,
                   !.floor = IF err = "none" THEN call.floor ELSE 0]

GetWatch(r) ==
    /\ At(r, "idle")
    /\ \E age \in MaxAges :
          reader' = [reader EXCEPT ![r] = [NoCall EXCEPT
                        !.pc = "consult", !.maxAge = age, !.floor = floor,
                        !.passes = semanticReadShadowMaxPreActivePasses,
                        !.recompute = semanticReadShadowMaxRecomputeCycles]]
    /\ UNCHANGED <<cacheVars, entry, dev, bus, writer, floor>>

\* The top of the loop: the shadow is consulted before the lock is taken.
consultSemanticReadShadow(r) ==
    LET call == reader[r]
        asks == call.maxAge > 0 /\ call.passes > 0
        hits == asks /\ LookupHits(cache, K, call.maxAge, now)
    IN  /\ At(r, "consult")
        /\ cache' = IF asks THEN LookupCache(cache, K, call.maxAge, now) ELSE cache
        /\ reader' = [reader EXCEPT ![r] = [call EXCEPT
                         !.pc = "lock",
                         !.passes = IF asks THEN @ - 1 ELSE @,
                         !.cand = IF hits THEN [val |-> cache.ent[K].val, gen |-> cache.ent[K].gen]
                                  ELSE NoCandidate]]
        /\ UNCHANGED <<now, entry, dev, bus, writer, floor>>

WaitForFlight(r) ==
    /\ At(r, "lock")
    /\ entry.running
    /\ reader' = [reader EXCEPT ![r].pc = "wait", ![r].cand = NoCandidate]
    /\ UNCHANGED <<cacheVars, entry, dev, bus, writer, floor>>

ContextDone(r) ==
    /\ At(r, "wait")
    /\ reader' = [reader EXCEPT ![r] = Returned(@, NoValue, "canceled")]
    /\ UNCHANGED <<cacheVars, entry, dev, bus, writer, floor>>

ServeShadow(r) ==
    /\ At(r, "lock")
    /\ ~entry.running
    /\ CandidateHolds(r)
    /\ entry' = [entry EXCEPT !.okAt = now, !.lastOK = reader[r].cand.val,
                              !.okGen = Snapshot.gen, !.fromShadow = TRUE]
    /\ reader' = [reader EXCEPT ![r] = Returned(@, @.cand.val, "none")]
    /\ UNCHANGED <<cacheVars, dev, bus, writer, floor>>

RetryShadow(r) ==
    /\ At(r, "lock")
    /\ ~entry.running
    /\ CandidateRetries(r)
    /\ reader' = [reader EXCEPT ![r].pc = "consult"]
    /\ UNCHANGED <<cacheVars, entry, dev, bus, writer, floor>>

Falls(r) == At(r, "lock") /\ ~entry.running /\ ~CandidateHolds(r) /\ ~CandidateRetries(r)

ServeCached(r) ==
    /\ Falls(r)
    /\ CachedServes(r)
    /\ reader' = [reader EXCEPT ![r] = Returned(@, entry.lastOK, "none")]
    /\ UNCHANGED <<cacheVars, entry, dev, bus, writer, floor>>

Suppress(r) ==
    /\ Falls(r)
    /\ ~CachedServes(r)
    /\ Suppressed(Unserved(r))
    /\ entry' = guardBreaker(Unserved(r))
    /\ reader' = [reader EXCEPT ![r] = Returned(@, NoValue, "circuitOpen")]
    /\ UNCHANGED <<cacheVars, dev, bus, writer, floor>>

Launch(r) ==
    LET e == guardBreaker(Unserved(r))
    IN  /\ Falls(r)
        /\ ~CachedServes(r)
        /\ ~Suppressed(Unserved(r))
        /\ entry' = [e EXCEPT !.running = TRUE,
                              !.probes = IF e.breaker = "half-open" THEN @ - 1 ELSE @]
        /\ reader' = [reader EXCEPT ![r].pc = "capture", ![r].cand = NoCandidate, ![r].passes = 0]
        /\ UNCHANGED <<cacheVars, dev, bus, writer, floor>>

CaptureStart(r) ==
    /\ At(r, "capture")
    /\ reader' = [reader EXCEPT ![r].pc = "fetch", ![r].start = Snapshot.gen]
    /\ UNCHANGED <<cacheVars, entry, dev, bus, writer, floor>>

\* The device answers the frame of the fetch.
FetchReads(r) ==
    /\ At(r, "fetch")
    /\ reader' = [reader EXCEPT ![r].pc = "store", ![r].val = [ver |-> dev, at |-> 0],
                                ![r].err = "none"]
    /\ UNCHANGED <<cacheVars, entry, dev, bus, writer, floor>>

FetchFails(r) ==
    /\ At(r, "fetch")
    /\ reader' = [reader EXCEPT ![r].pc = "finish", ![r].val = NoValue, ![r].err = "failed"]
    /\ UNCHANGED <<cacheVars, entry, dev, bus, writer, floor>>

superseding == {"generationAdvanced", "staleTimestamp", "sameTimestampConflict"}

\* The fetch returns and its value is offered to the shadow.
StoreFetched(r) ==
    LET v == [reader[r].val EXCEPT !.at = now]
        w == [src |-> "active", val |-> v, obs |-> now, start |-> reader[r].start]
        same == Has(cache, K) /\ cache.ent[K].val # NoValue /\ cache.ent[K].val.ver = v.ver
        res == Write(cache, K, w, same)
    IN  /\ At(r, "store")
        /\ Growing(K)
        /\ cache' = res.c
        /\ reader' = [reader EXCEPT ![r].pc = "finish", ![r].val = v,
                         ![r].written = IF res.accepted THEN res.gen ELSE reader[r].start,
                         ![r].err = IF res.reason \in superseding THEN "superseded" ELSE "none"]
        /\ UNCHANGED <<now, entry, dev, bus, writer, floor>>

\* close(done): the calls that wait for this flight go back to the top.
Woken == [q \in Readers |-> IF At(q, "wait") THEN [reader[q] EXCEPT !.pc = "consult"] ELSE reader[q]]

\* The generation moved after the fetched value was stored.
Overtaken(r) ==
    \/ reader[r].err = "superseded"
    \/ reader[r].err = "none" /\ Snapshot.gen # reader[r].written

FetchSucceeded(r) ==
    /\ At(r, "finish")
    /\ reader[r].err = "none" /\ ~Overtaken(r)
    /\ entry' = transitionBreaker(
                    [entry EXCEPT !.running = FALSE, !.okAt = now, !.lastOK = reader[r].val,
                                  !.okGen = reader[r].written, !.fromShadow = FALSE,
                                  !.failures = 0], "closed")
    /\ reader' = [Woken EXCEPT ![r] = Returned(@, @.val, "none")]
    /\ UNCHANGED <<cacheVars, dev, bus, writer, floor>>

FetchSuperseded(r) ==
    LET call == reader[r]
    IN  /\ At(r, "finish")
        /\ Overtaken(r)
        /\ entry' = returnProbe(clearSemanticReadCache([entry EXCEPT !.running = FALSE]))
        /\ reader' = [Woken EXCEPT ![r] =
                        IF call.recompute > 0
                        THEN [call EXCEPT !.pc = "consult", !.recompute = @ - 1, !.val = NoValue, !.err = "none",
                                          !.start = 0, !.written = 0, !.passes = semanticReadShadowMaxPreActivePasses]
                        ELSE Returned(call, NoValue, "revalidationExhausted")]
        /\ UNCHANGED <<cacheVars, dev, bus, writer, floor>>

\* Mutant: a failed flight leaves the running mark.
FetchFailedStillRunning(r) ==
    /\ At(r, "finish")
    /\ reader[r].err = "failed"
    /\ entry' = recordFailure(entry)
    /\ reader' = [Woken EXCEPT ![r] = Returned(@, NoValue, "failed")]
    /\ UNCHANGED <<cacheVars, dev, bus, writer, floor>>

FetchFailed(r) ==
    /\ At(r, "finish")
    /\ reader[r].err = "failed"
    /\ entry' = recordFailure([entry EXCEPT !.running = FALSE])
    /\ reader' = [Woken EXCEPT ![r] = Returned(@, NoValue, "failed")]
    /\ UNCHANGED <<cacheVars, dev, bus, writer, floor>>

Return(r) ==
    /\ At(r, "done")
    /\ reader' = [reader EXCEPT ![r] = NoCall]
    /\ UNCHANGED <<cacheVars, entry, dev, bus, writer, floor>>

-----------------------------------------------------------------------------
(* The bus, the passive producer and a configuration write                   *)

Observed(kind) == bus' = Append(bus, [kind |-> kind, ver |-> dev', t |-> now])

\* Another participant reads or writes the register.
ThirdPartyRead ==
    /\ Len(bus) < MaxBus
    /\ dev' = dev
    /\ Observed("read")
    /\ UNCHANGED <<cacheVars, entry, reader, writer, floor>>

ThirdPartyWrite ==
    /\ Len(bus) < MaxBus /\ dev < MaxVersion
    /\ dev' = dev + 1
    /\ Observed("write")
    /\ UNCHANGED <<cacheVars, entry, reader, writer, floor>>

\* A subscriber that falls behind is closed and subscribes again.
PassiveOverflow ==
    /\ bus # <<>>
    /\ bus' = <<>>
    /\ UNCHANGED <<cacheVars, entry, reader, dev, writer, floor>>

handlePassiveRead ==
    LET ev == Head(bus)
        v == [ver |-> ev.ver, at |-> ev.t]
        w == [src |-> "passive", val |-> v, obs |-> ev.t, start |-> 0]
        same == Has(cache, K) /\ cache.ent[K].val # NoValue /\ cache.ent[K].val.ver = ev.ver
    IN  /\ bus # <<>> /\ ev.kind = "read"
        /\ Growing(K)
        /\ cache' = Write(cache, K, w, same).c
        /\ bus' = Tail(bus)
        /\ UNCHANGED <<now, entry, reader, dev, writer, floor>>

handlePassiveWrite ==
    /\ bus # <<>> /\ Head(bus).kind = "write"
    /\ Growing(K)
    /\ cache' = Invalidate(cache, K, Head(bus).t)
    /\ floor' = Later(floor, Head(bus).ver)
    /\ bus' = Tail(bus)
    /\ UNCHANGED <<now, entry, reader, dev, writer>>

\* The write frame of a configuration change, then its fence.
ConfigurationWrite ==
    /\ writer = 0 /\ dev < MaxVersion
    /\ dev' = dev + 1
    /\ writer' = dev'
    /\ UNCHANGED <<cacheVars, entry, reader, bus, floor>>

fenceB509WriteConfirmShadow ==
    /\ writer # 0
    /\ Growing(K)
    /\ cache' = Invalidate(cache, K, now)
    /\ floor' = Later(floor, writer)
    /\ writer' = 0
    /\ UNCHANGED <<now, entry, reader, dev, bus>>

\* Observations of other registers press on the capacity.
OtherKeyWritten ==
    /\ \E k \in Keys \ {K} :
          CacheWrite(k, [src |-> "passive", val |-> [ver |-> 1, at |-> now], obs |-> now, start |-> 0])
    /\ UNCHANGED schedulerVars

Compact == CacheCompact(K) /\ UNCHANGED schedulerVars

Clock ==
    /\ \A i \in DOMAIN bus : now < bus[i].t + PassiveDelay
    /\ Tick /\ UNCHANGED schedulerVars

-----------------------------------------------------------------------------

ReaderStep(r) ==
    \/ consultSemanticReadShadow(r) \/ WaitForFlight(r) \/ ServeShadow(r) \/ RetryShadow(r)
    \/ ServeCached(r) \/ Suppress(r) \/ Launch(r) \/ CaptureStart(r)
    \/ FetchReads(r) \/ FetchFails(r) \/ StoreFetched(r)
    \/ FetchSucceeded(r) \/ FetchSuperseded(r) \/ FetchFailed(r) \/ Return(r)

Next ==
    \/ \E r \in Readers : GetWatch(r) \/ ReaderStep(r) \/ ContextDone(r)
    \/ ThirdPartyRead \/ ThirdPartyWrite \/ PassiveOverflow
    \/ handlePassiveRead \/ handlePassiveWrite
    \/ ConfigurationWrite \/ fenceB509WriteConfirmShadow
    \/ OtherKeyWritten \/ Compact \/ Clock

Spec == Init /\ [][Next]_vars

-----------------------------------------------------------------------------
(* Properties                                                                *)

TypeOK ==
    /\ entry.breaker \in {"closed", "open", "half-open"}
    /\ entry.running \in BOOLEAN
    /\ entry.probes \in 0 .. HalfOpenProbeLimit
    /\ \A r \in Readers : reader[r].passes \in 0 .. 2 /\ reader[r].recompute \in 0 .. 1

Flying(r) == reader[r].pc \in {"capture", "fetch", "store", "finish"}

\* A call never returns a value older than an invalidation that was applied
\* before the call began: not from the shadow, not from the scheduler's own
\* cache, and not from a flight of another caller that was under way.
NoStaleRead ==
    \A r \in Readers :
        At(r, "done") /\ reader[r].err = "none" => reader[r].val.ver >= reader[r].floor

\* The running mark has exactly one owner, so identical reads are one flight
\* and the mark is never left behind by an error or a superseded result.
OneFlight ==
    /\ \A q, r \in Readers : Flying(q) /\ Flying(r) => q = r
    /\ entry.running <=> \E r \in Readers : Flying(r)

\* A half-open breaker always has a probe to give or one under way: a
\* superseded probe neither closes the breaker nor burns the allowance, which
\* would open it again without a failure.
ProbeAvailable ==
    /\ TypeOK
    /\ entry.breaker = "half-open" => entry.probes > 0 \/ entry.running

=============================================================================
