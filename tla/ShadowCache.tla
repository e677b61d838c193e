------------------------------- MODULE ShadowCache -------------------------------
(***************************************************************************)
(* The shadow cache of watched registers (shadow_cache.go).  The whole     *)
(* cache is one record, and every method that runs under cache.mu is an    *)
(* operator from a cache to a cache, so that SemanticReadScheduler can use *)
(* the same definitions.  Times are clock ticks; 0 is the zero time.Time.  *)
(***************************************************************************)
EXTENDS Naturals, FiniteSets, Sequences, SequencesExt

CONSTANTS
    Keys,                   \* canonical watch keys
    NoEntry, NoValue,       \* no map entry, a value of length zero
    Capacity, PinnedCapacity, WriteConfirmPinnedCap,
    TombstoneRetainWindow, TombstoneHardLifespan,
    FallbackTTL, DecodedTTL \* EffectiveFreshnessTTL of the two descriptors

ASSUME CacheBounds ==
    /\ {Capacity, PinnedCapacity, WriteConfirmPinnedCap, TombstoneRetainWindow,
        TombstoneHardLifespan, FallbackTTL, DecodedTTL} \subseteq Nat
    /\ IsFiniteSet(Keys)

-----------------------------------------------------------------------------
(* State                                                                     *)

Sources == {"passive", "active"}                 \* ShadowWriteSource
EntryStates == {"present", "invalidated", "tombstone"}
PinClasses == {"none", "writeConfirm", "static"}
Activations == {"poller", "writeConfirm", "other"}
Descriptors == {"missing", "fallback", "decoded", "debug"}

\* A shadowEntry whose value is one of V.
Entries(V) ==
    [desc : Descriptors, src : Sources, st : EntryStates, val : V \cup {NoValue},
     obs : Nat, exp : Nat, gen : Nat, invAt : Nat, pin : PinClasses]

Snapshots == [present : BOOLEAN, st : EntryStates, gen : Nat, obs : Nat, exp : Nat]

KeyStates == [gen : Nat, invAt : Nat, high : Nat, snap : Snapshots]

Caches(V) ==
    [ent : [Keys -> Entries(V) \cup {NoEntry}],
     key : [Keys -> KeyStates],
     lru : Seq(Keys),
     desc : [Keys -> Descriptors],
     act : [Keys -> SUBSET Activations],
     degraded : BOOLEAN]

AbsentSnapshot(gen) ==
    [present |-> FALSE, st |-> "tombstone", gen |-> gen, obs |-> 0, exp |-> 0]

EmptyCache(desc, act) ==
    [ent  |-> [k \in Keys |-> NoEntry],
     key  |-> [k \in Keys |-> [gen |-> 0, invAt |-> 0, high |-> 0,
                               snap |-> AbsentSnapshot(0)]],
     lru  |-> <<>>,                              \* evictableLRU, front first
     desc |-> desc,                              \* the catalog
     act  |-> act,                               \* the activation set
     degraded |-> FALSE]                         \* pinnedBudgetDegraded

Has(c, k) == c.ent[k] # NoEntry
Cached(c) == {k \in Keys : Has(c, k)}
Later(a, b) == IF a > b THEN a ELSE b
TTL(d) == IF d = "fallback" THEN FallbackTTL ELSE DecodedTTL

-----------------------------------------------------------------------------
(* Pins and eviction                                                         *)

desiredPinClass(c, k, d) ==
    CASE d = "debug"                    -> "none"
      [] d # "debug" /\ "poller" \in c.act[k] -> "static"
      [] d # "debug" /\ c.act[k] \cap {"poller", "writeConfirm"} = {"writeConfirm"}
                                        -> "writeConfirm"
      [] OTHER                          -> "none"

staticPinnedBudget ==
    IF PinnedCapacity < WriteConfirmPinnedCap THEN 0
    ELSE PinnedCapacity - WriteConfirmPinnedCap

staticPinnedFootprint(c) ==
    Cardinality({k \in Keys : c.desc[k] \notin {"missing", "debug"} /\ "poller" \in c.act[k]})

writeConfirmPinned(c) == {k \in Cached(c) : c.ent[k].pin = "writeConfirm"}

canAdmitWriteConfirmPin(c, k) ==
    \/ Has(c, k) /\ c.ent[k].pin # "none"
    \/ Cardinality(writeConfirmPinned(c)) < WriteConfirmPinnedCap

\* Mutant: a pinned entry stays on the eviction list.
applyPinKeepsElement(c, k, pin) ==
    [c EXCEPT !.ent[k].pin = pin,
              !.lru = IF pin # "none" \/ k \in Range(c.lru) THEN c.lru ELSE Append(c.lru, k)]

\* An entry is on the eviction list exactly while it has no pin.
applyPinClass(c, k, pin) ==
    [c EXCEPT !.ent[k].pin = pin,
              !.lru = IF pin # "none" THEN RemoveFirst(c.lru, k)
                      ELSE IF k \in Range(c.lru) THEN c.lru ELSE Append(c.lru, k)]

syncEntryPin(c, k) ==
    IF ~Has(c, k) \/ c.ent[k].desc = "missing" THEN c
    ELSE LET desired == desiredPinClass(c, k, c.ent[k].desc)
             refused == \/ desired = "static" /\ c.degraded
                        \/ desired = "writeConfirm" /\ ~canAdmitWriteConfirmPin(c, k)
         IN  applyPinClass(c, k, IF refused THEN "none" ELSE desired)

\* The cache after every entry was visited in the given order.
syncPinsInOrder(c, order) ==
    LET after[n \in 0 .. Len(order)] ==
            IF n = 0 THEN c ELSE syncEntryPin(after[n - 1], order[n])
    IN  after[Len(order)]

\* The entries are visited in the order of a Go map: any order.
syncAllPins(c) == {syncPinsInOrder(c, order) : order \in SetToSeqs(Cached(c))}

storeSnapshot(c, k) ==
    [c EXCEPT !.key[k].snap =
        [present |-> TRUE, st |-> c.ent[k].st, gen |-> c.ent[k].gen,
         obs |-> c.ent[k].obs, exp |-> c.ent[k].exp]]

storeAbsentSnapshot(c, k) ==
    [c EXCEPT !.key[k].snap = AbsentSnapshot(c.key[k].gen)]

\* Mutant: the snapshot of a removed entry survives it.
removeKeepsSnapshot(c, k) == [c EXCEPT !.ent[k] = NoEntry, !.lru = RemoveFirst(c.lru, k)]

removeEntry(c, k) ==
    storeAbsentSnapshot([c EXCEPT !.ent[k] = NoEntry, !.lru = RemoveFirst(c.lru, k)], k)

Full(c) == Cardinality(Cached(c)) >= Capacity

\* The cache after making room for one more entry, and whether there is room.
ensureCapacity(c, pin) ==
    IF ~Full(c) THEN [c |-> c, ok |-> TRUE]
    ELSE IF c.lru = <<>> THEN [c |-> c, ok |-> FALSE]
    ELSE LET e == removeEntry(c, Head(c.lru))
         IN  [c |-> e,
              ok |-> ~(pin = "writeConfirm"
                       /\ Cardinality(writeConfirmPinned(e)) >= WriteConfirmPinnedCap)]

advanceGeneration(c, k) ==
    [c EXCEPT !.key[k].gen = @ + 1, !.ent[k].gen = c.key[k].gen + 1]

NewEntry(d) ==
    [desc |-> d, src |-> "passive", st |-> "tombstone", val |-> NoValue,
     obs |-> 0, exp |-> 0, gen |-> 0, invAt |-> 0, pin |-> "none"]

-----------------------------------------------------------------------------
(* Write: the precedence rules and the method                                *)

Precedence(src) == IF src = "active" THEN 1 ELSE 0

generationQualifiedActive(c, k, w) == w.src = "active" /\ w.start = c.key[k].gen

\* The reason of the rejection, "none" when the write may proceed.
rejectWriteByPrecedence(c, k, w, same) ==
    LET s == c.key[k]
        e == c.ent[k]
        qualified == generationQualifiedActive(c, k, w)
    IN  CASE s.invAt # 0 /\ w.obs < s.invAt -> "staleTimestamp"
          [] s.invAt # 0 /\ w.obs = s.invAt -> IF qualified THEN "none" ELSE "staleTimestamp"
          [] OTHER ->
               IF ~Has(c, k)
               THEN IF s.high # 0 /\ (w.obs < s.high \/ (w.obs = s.high /\ ~qualified))
                    THEN "staleTimestamp" ELSE "none"
               ELSE IF w.obs < e.obs THEN "staleTimestamp"
               ELSE IF w.obs > e.obs THEN "none"
               ELSE IF e.val = NoValue \/ same
               THEN IF w.src = e.src \/ Precedence(w.src) >= Precedence(e.src)
                    THEN "none" ELSE "sameTimestampConflict"
               ELSE IF w.src # e.src /\ Precedence(w.src) > Precedence(e.src)
                    THEN "none" ELSE "sameTimestampConflict"

Rejected(c, gen, why) == [c |-> c, accepted |-> FALSE, gen |-> gen, reason |-> why]

storeWrite(c, k, w, pin) ==
    LET e == [c.ent[k] EXCEPT !.desc = c.desc[k], !.src = w.src, !.st = "present",
                              !.val = w.val, !.obs = w.obs,
                              !.exp = w.obs + TTL(c.desc[k]), !.invAt = 0]
        d == [c EXCEPT !.ent[k] = e, !.key[k].invAt = 0,
                       !.key[k].high = Later(@, w.obs)]
    IN  storeSnapshot(applyPinClass(d, k, pin), k)

\* A write w of key k; "same" says whether its bytes equal the cached ones.
Write(c, k, w, same) ==
    LET pin == desiredPinClass(c, k, c.desc[k])
        s == syncEntryPin(c, k)
        why == rejectWriteByPrecedence(s, k, w, same)
        room == ensureCapacity(s, pin)
        fresh == advanceGeneration([room.c EXCEPT !.ent[k] = NewEntry(c.desc[k])], k)
        done == storeWrite(IF Has(s, k) THEN s ELSE fresh, k, w, pin)
    IN  IF c.desc[k] \in {"missing", "debug"} \/ c.degraded \/ c.act[k] = {}
        THEN Rejected(c, 0, "policyReject")
        ELSE IF pin = "writeConfirm" /\ ~canAdmitWriteConfirmPin(c, k)
        THEN Rejected(c, 0, "capacity")
        ELSE IF w.src = "active" /\ s.key[k].gen # w.start
        THEN Rejected(s, s.key[k].gen, "generationAdvanced")
        ELSE IF why # "none"
        THEN Rejected(s, s.key[k].gen, why)
        ELSE IF TTL(c.desc[k]) = 0
        THEN Rejected(s, 0, "policyReject")
        ELSE IF ~Has(s, k) /\ ~room.ok
        THEN Rejected(room.c, 0, "capacity")
        ELSE [c |-> done, accepted |-> TRUE, gen |-> done.ent[k].gen, reason |-> "none"]

-----------------------------------------------------------------------------
(* Invalidate, Lookup and SnapshotEligibility                                *)

\* The barrier outlives the entry: it is kept in the key state.
raiseBarrier(c, k, t) ==
    [c EXCEPT !.key[k].invAt = Later(@, t), !.key[k].high = Later(@, t)]

advanceAbsentGeneration(c, k) ==
    storeAbsentSnapshot([c EXCEPT !.key[k].gen = @ + 1], k)

\* Mutant: an invalidation keeps the generation.
invalidateKeepsGeneration(c, k, pin) ==
    LET e == [c.ent[k] EXCEPT !.desc = c.desc[k], !.invAt = c.key[k].invAt,
                 !.st = IF c.ent[k].val = NoValue THEN "tombstone" ELSE "invalidated"]
    IN  storeSnapshot(applyPinClass([c EXCEPT !.ent[k] = e], k, pin), k)

invalidateEntry(c, k, pin) ==
    LET g == advanceGeneration(c, k)
        e == [g.ent[k] EXCEPT !.desc = c.desc[k], !.invAt = c.key[k].invAt,
                 !.st = IF c.ent[k].val = NoValue THEN "tombstone" ELSE "invalidated"]
    IN  storeSnapshot(applyPinClass([g EXCEPT !.ent[k] = e], k, pin), k)

Invalidate(c, k, t) ==
    LET b == raiseBarrier(c, k, t)
        pin == desiredPinClass(b, k, b.desc[k])
        barred == pin = "writeConfirm" /\ ~canAdmitWriteConfirmPin(b, k)
        room == ensureCapacity(b, pin)
        fresh == [room.c EXCEPT !.ent[k] = NewEntry(b.desc[k])]
        base == IF Has(b, k) THEN b ELSE fresh
        admitted == IF pin = "writeConfirm" /\ ~canAdmitWriteConfirmPin(base, k)
                    THEN "none" ELSE pin
    IN  IF ~Has(b, k) /\ barred THEN advanceAbsentGeneration(b, k)
        ELSE IF ~Has(b, k) /\ ~room.ok THEN advanceAbsentGeneration(room.c, k)
        ELSE invalidateEntry(base, k, admitted)

\* lookupEligibleLocked; the limit is the smaller of maxAge and the TTL.
lookupEligible(c, k, maxAge, now) ==
    LET e == c.ent[k]
        ttl == IF e.desc = "missing" THEN 0 ELSE TTL(e.desc)
        limit == IF maxAge = 0 \/ (ttl > 0 /\ ttl < maxAge) THEN ttl ELSE maxAge
    IN  /\ ~c.degraded
        /\ e.st = "present"
        /\ limit > 0
        /\ e.obs <= now /\ now - e.obs <= limit

\* Lookup refreshes the pin, and an eligible hit moves the entry to the back.
LookupCache(c, k, maxAge, now) ==
    LET s == syncEntryPin(c, k)
    IN  IF Has(c, k) /\ lookupEligible(s, k, maxAge, now) /\ s.ent[k].pin = "none"
        THEN [s EXCEPT !.lru = Append(RemoveFirst(s.lru, k), k)]
        ELSE s

LookupHits(c, k, maxAge, now) == Has(c, k) /\ lookupEligible(c, k, maxAge, now)

\* SnapshotEligibility reads one atomic record, without cache.mu.
SnapshotEligibility(c, k, now) ==
    LET r == c.key[k].snap
    IN  [r EXCEPT !.present = r.present /\ ~c.degraded /\ r.st = "present"
                              /\ r.exp # 0 /\ now <= r.exp]

-----------------------------------------------------------------------------
(* Descriptors and compaction                                                *)

recomputeBudget(c) ==
    [c EXCEPT !.degraded = staticPinnedFootprint(c) > staticPinnedBudget]

RefreshActivations(c) == syncAllPins(c)

\* A known key gains sources, a fallback descriptor is upgraded, a new key is
\* added.  Without a new source or an upgrade nothing is recomputed.
BootstrapRuntimeDescriptor(c, k, d, sources) ==
    LET upgrade == c.desc[k] = "missing" \/ (c.desc[k] = "fallback" /\ d # "fallback")
        known == [c EXCEPT !.act[k] = @ \cup sources]
        stored == [known EXCEPT !.desc[k] = d]
        shown == IF Has(c, k) /\ c.desc[k] # "missing"
                 THEN [stored EXCEPT !.ent[k].desc = d] ELSE stored
    IN  CASE upgrade                        -> syncAllPins(recomputeBudget(shown))
          [] ~upgrade /\ sources \subseteq c.act[k] -> {c}
          [] OTHER                          -> syncAllPins(recomputeBudget(known))

compactKey(c, k, now) ==
    LET s == syncEntryPin(c, k)
        e == s.ent[k]
        due(window) == e.invAt # 0 /\ now >= e.invAt + window
        g == advanceGeneration(s, k)
    IN  CASE e.st = "invalidated" /\ due(TombstoneRetainWindow) ->
               storeSnapshot([g EXCEPT !.ent[k].st = "tombstone", !.ent[k].val = NoValue], k)
          [] e.st = "tombstone" /\ due(TombstoneHardLifespan) -> removeEntry(g, k)
          [] OTHER -> s

-----------------------------------------------------------------------------
(* The cache under arbitrary users.  An active write carries the generation  *)
(* its reader captured some time ago and is stamped with the present; a      *)
(* passive one carries the time of its frame, however late it is delivered.  *)

CONSTANTS
    Values,
    BootDescriptors, BootActivations,   \* what runtime bootstraps bring
    MaxTime, MaxGeneration              \* bounds

ASSUME BootKinds ==
    /\ BootDescriptors \subseteq Descriptors \ {"missing"}
    /\ BootActivations \subseteq Activations
    /\ NoEntry \notin Entries(Values)
    /\ {MaxTime, MaxGeneration} \subseteq Nat

VARIABLES cache, now

cacheVars == <<cache, now>>

CacheInit ==
    /\ cache = EmptyCache([k \in Keys |-> "missing"], [k \in Keys |-> {}])
    /\ now = 1

Growing(k) == cache.key[k].gen < MaxGeneration

CacheLookup(k) ==
    /\ \E maxAge \in 0 .. DecodedTTL : cache' = LookupCache(cache, k, maxAge, now)
    /\ UNCHANGED now

CacheWrite(k, w) ==
    /\ Growing(k)
    /\ cache' = Write(cache, k, w, Has(cache, k) /\ cache.ent[k].val = w.val).c
    /\ UNCHANGED now

PassiveWrite(k) ==
    \E v \in Values, t \in 1 .. now :
        CacheWrite(k, [src |-> "passive", val |-> v, obs |-> t, start |-> 0])

ActiveWrite(k) ==
    \E v \in Values, g \in 0 .. cache.key[k].gen :
        CacheWrite(k, [src |-> "active", val |-> v, obs |-> now, start |-> g])

CacheInvalidate(k) ==
    /\ Growing(k)
    /\ \E t \in 1 .. now : cache' = Invalidate(cache, k, t)
    /\ UNCHANGED now

CacheBootstrap(k) ==
    /\ \E d \in BootDescriptors, s \in BootActivations :
          cache' \in BootstrapRuntimeDescriptor(cache, k, d, {s})
    /\ UNCHANGED now

CacheRefresh ==
    /\ cache' \in RefreshActivations(cache)
    /\ UNCHANGED now

\* compactBatch, one key of a batch; a batch has at least one key.
CacheCompact(k) ==
    /\ Has(cache, k)
    /\ Growing(k)
    /\ cache' = compactKey(cache, k, now)
    /\ UNCHANGED now

Tick ==
    /\ now < MaxTime
    /\ now' = now + 1
    /\ UNCHANGED cache

CacheNext ==
    \/ \E k \in Keys :
          \/ CacheLookup(k) \/ PassiveWrite(k) \/ ActiveWrite(k) \/ CacheInvalidate(k)
          \/ CacheBootstrap(k) \/ CacheCompact(k)
    \/ CacheRefresh
    \/ Tick

CacheSpec == CacheInit /\ [][CacheNext]_cacheVars

-----------------------------------------------------------------------------
(* Properties                                                                *)

\* Types, and no barrier in the future: nothing would be accepted until then.
CacheTypeOK ==
    /\ now \in Nat \ {0}
    /\ cache \in Caches(Values)
    /\ \A k \in Keys : cache.key[k].invAt <= now /\ cache.key[k].high <= now

\* SnapshotEligibility and CaptureGeneration read a record of their own without
\* the lock.  Whatever sequence of writes, evictions, refused invalidations and
\* compactions led here, that record agrees with the entry, and its generation
\* is the one an active write is checked against (storeSnapshotLocked,
\* storeAbsentSnapshotLocked).
SnapshotCoherent ==
    \A k \in Keys :
        LET r == cache.key[k].snap
        IN  /\ r.gen = cache.key[k].gen
            /\ r.present = Has(cache, k)
            /\ Has(cache, k) => /\ r.gen = cache.ent[k].gen
                                /\ r.st = cache.ent[k].st
                                /\ r.obs = cache.ent[k].obs
                                /\ r.exp = cache.ent[k].exp

\* The eviction list holds exactly the unpinned entries, each once: a pinned
\* entry is never evicted and an unpinned one can always be (evictableElem).
EvictionListExact ==
    /\ Range(cache.lru) = {k \in Cached(cache) : cache.ent[k].pin = "none"}
    /\ IsInjective(cache.lru)

\* The eviction list is exact and the three budgets hold together, through
\* promotions of a key by a new source, descriptor upgrades and invalidations:
\* the entries, the write-confirm pins
\* and, unless the budget is degraded, the static pins (ensureCapacityLocked,
\* canAdmitWriteConfirmPinLocked, pinnedBudgetDegraded).
BudgetsHold ==
    /\ CacheTypeOK /\ EvictionListExact
    /\ Cardinality(Cached(cache)) <= Capacity
    /\ Cardinality(writeConfirmPinned(cache)) <= WriteConfirmPinnedCap
    /\ ~cache.degraded =>
          Cardinality({k \in Cached(cache) : cache.ent[k].pin = "static"}) <= staticPinnedBudget

\* Within one generation an entry only moves to newer observations, and it
\* leaves the present state only with a new generation or by eviction, which
\* keeps the generation: a reader that compares generations notices every
\* invalidation (advanceGenerationLocked).
GenerationFencesValue ==
    [][\A k \in Keys :
          /\ cache'.key[k].gen >= cache.key[k].gen
          /\ (Has(cache, k) /\ Has(cache', k) /\ cache'.key[k].gen = cache.key[k].gen)
                => /\ cache'.ent[k].obs >= cache.ent[k].obs
                   /\ cache.ent[k].st = "present" => cache'.ent[k].st = "present"]_cacheVars
=============================================================================
