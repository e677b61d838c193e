----------------------- MODULE SemanticReadSchedulerProofs -----------------------
(***************************************************************************)
(* Proofs about SemanticReadScheduler over the shadow cache: one flight at *)
(* a time, the allowance of the half-open breaker, and, for a register of  *)
(* the poller, that no call returns a value older than an invalidation     *)
(* applied before it.                                                      *)
(***************************************************************************)
EXTENDS SemanticReadScheduler, ShadowCacheProofs

\* The assumptions on the constants.
Given == CacheBounds /\ BootKinds /\ SchedulerBounds

-----------------------------------------------------------------------------
(* Registers of the poller are never evicted                                 *)

\* Every register is one of the poller's, and its entry has the static pin.
AllPinned(c) ==
    /\ ~c.degraded
    /\ \A k \in Keys : /\ c.desc[k] = "decoded" /\ "poller" \in c.act[k]
                       /\ Has(c, k) => c.ent[k].pin = "static" /\ c.ent[k].desc = "decoded"

\* The desired pin of such a register.
LEMMA DesiredStatic ==
    ASSUME NEW c, NEW k \in Keys, c.desc[k] = "decoded", "poller" \in c.act[k]
    PROVE  desiredPinClass(c, k, "decoded") = "static" /\ desiredPinClass(c, k, c.desc[k]) = "static"
BY DEF desiredPinClass

\* syncEntryPinLocked finds the pin as it should be.
LEMMA SyncPinned ==
    ASSUME NEW V, NoEntry \notin Entries(V), NEW c \in Caches(V), NEW k \in Keys, AllPinned(c)
    PROVE  AllPinned(syncEntryPin(c, k))
<1> DEFINE s == syncEntryPin(c, k)
<1>1. /\ s \in Caches(V) /\ SameState(c, s) /\ SameEntries(c, s)
      /\ \A j \in Keys \ {k} : s.ent[j] = c.ent[j]
  BY SyncFacts
<1>2. ASSUME Has(c, k) PROVE s.ent[k].pin = "static"
  <2>1. c.ent[k].desc = "decoded" /\ desiredPinClass(c, k, "decoded") = "static" /\ ~c.degraded
    BY <1>2, DesiredStatic DEF AllPinned
  <2>2. s = applyPinClass(c, k, "static")
    BY <1>2, <2>1 DEF syncEntryPin
  <2>3. c.ent[k] \in Entries(V) /\ "static" \in PinClasses
    BY <1>2, CacheFields DEF PinClasses
  <2>4. s.ent[k] = [c.ent[k] EXCEPT !.pin = "static"]
    BY <1>2, <2>2, <2>3, ApplyPinFacts
  <2> QED
    BY <2>3, <2>4 DEF Entries
<1> HIDE DEF s
<1>3. AllPinned(s)
  BY <1>1, <1>2 DEF AllPinned, SameState, SameEntries, SameEntry, Has
<1> QED
  BY <1>3 DEF s

\* With every entry pinned nothing can be evicted.
LEMMA NothingEvicted ==
    ASSUME NEW V, NoEntry \notin Entries(V), NEW c \in Caches(V), AllPinned(c), Exact(c), NEW pin
    PROVE  ensureCapacity(c, pin).c = c
<1>1. c.lru \in Seq(Keys)
  BY DEF Caches
<1>2. ASSUME c.lru # <<>> PROVE FALSE
  <2>1. 1 \in DOMAIN c.lru /\ c.lru[1] \in Keys
    BY <1>1, <1>2
  <2>2. c.lru[1] \in Range(c.lru)
    BY <2>1 DEF Range
  <2> QED
    BY <2>1, <2>2 DEF Exact, AllPinned
<1> QED
  BY <1>2 DEF ensureCapacity

\* A new entry leaves the other keys alone.
LEMMA FreshElsewhere ==
    ASSUME NEW V, NoEntry \notin Entries(V), NEW c \in Caches(V), NEW k \in Keys, NEW d \in Descriptors
    PROVE  LET f == advanceGeneration(Fresh(c, k, d), k)
           IN  f \in Caches(V) /\ Has(f, k) /\ SameElsewhere(c, f, k)
<1> DEFINE m == Fresh(c, k, d)
           e == [m.ent[k] EXCEPT !.gen = m.key[k].gen + 1]
           u == [m.key[k] EXCEPT !.gen = m.key[k].gen + 1]
           f == advanceGeneration(m, k)
<1>1. m \in Caches(V) /\ SameElsewhere(c, m, k) /\ Has(m, k)
  BY FreshFacts
<1> HIDE DEF m
<1>2. f = Put(m, k, e, u, m.lru) /\ e \in Entries(V) /\ u \in KeyStates
  BY <1>1, AdvanceFacts
<1>3. m.lru \in Seq(Keys) /\ e \in Entries(V) \cup {NoEntry}
  BY <1>1, <1>2, CacheFields
<1> HIDE DEF e, u, f
<1>4. LET p == Put(m, k, e, u, m.lru)
      IN  p \in Caches(V) /\ p.ent[k] = e /\ SameElsewhere(m, p, k)
  BY <1>1, <1>2, <1>3, PutFacts
<1>5. f \in Caches(V) /\ Has(f, k) /\ SameElsewhere(m, f, k)
  BY <1>2, <1>4 DEF Has
<1>6. SameElsewhere(c, f, k)
  BY <1>1, <1>5 DEF SameElsewhere
<1> QED
  BY <1>5, <1>6 DEF f, m

\* Keys other than k are kept by a method that is right about their entries.
LEMMA ElsewhereKept ==
    ASSUME NEW c, NEW s, NEW z, NEW k, \A j \in Keys : Kept(c, s, j), SameElsewhere(s, z, k),
           AllPinned(s), Has(z, k) => z.ent[k].pin = "static" /\ z.ent[k].desc = "decoded"
    PROVE  AllPinned(z) /\ \A j \in Keys \ {k} : Kept(c, z, j)
BY DEF SameElsewhere, AllPinned, Kept, Has

\* Write, when every register is the poller's.
LEMMA WritePinned ==
    ASSUME NEW V, NoEntry \notin Entries(V), CacheBounds, NEW c \in Caches(V), NEW k \in Keys,
           NEW w \in Writes(V), NEW same, AllPinned(c), Exact(c)
    PROVE  LET res == Write(c, k, w, same)
               z == res.c
           IN  /\ AllPinned(z) /\ \A j \in Keys \ {k} : Kept(c, z, j)
               /\ \/ res.accepted = FALSE /\ res.reason # "none" /\ Kept(c, z, k)
                  \/ res.accepted = TRUE /\ res.reason = "none" /\ Wrote(c, z, k, w)
<1> DEFINE pin == desiredPinClass(c, k, c.desc[k])
           s == syncEntryPin(c, k)
           why == rejectWriteByPrecedence(s, k, w, same)
           room == ensureCapacity(s, pin)
           fresh == advanceGeneration(Fresh(s, k, c.desc[k]), k)
           base == IF Has(s, k) THEN s ELSE fresh
           done == storeWrite(base, k, w, pin)
           res == Write(c, k, w, same)
           acc == [c |-> done, accepted |-> TRUE, gen |-> done.ent[k].gen, reason |-> "none"]
<1>1. /\ s \in Caches(V) /\ \A j \in Keys : Kept(c, s, j)
      /\ Exact(s) /\ AllPinned(s) /\ SameConfig(c, s)
  BY SyncFacts, SyncExact, SyncPinned DEF SameState, SameEntries, SameConfig, Kept
<1>2. room.c = s /\ pin = "static" /\ c.desc[k] = "decoded"
  BY <1>1, NothingEvicted, DesiredStatic DEF AllPinned
<1>3. \/ \E x \in {c, s} : \E g, r : res = Rejected(x, g, r) /\ r # "none"
      \/ res = acc
  <2>1. \/ res = Rejected(c, 0, "policyReject")
        \/ res = Rejected(c, 0, "capacity")
        \/ res = Rejected(s, s.key[k].gen, "generationAdvanced")
        \/ res = Rejected(s, s.key[k].gen, why) /\ why # "none"
        \/ res = Rejected(s, 0, "policyReject")
        \/ res = Rejected(room.c, 0, "capacity")
        \/ res = [c |-> storeWrite(IF Has(s, k) THEN s ELSE advanceGeneration(Fresh(room.c, k, c.desc[k]), k), k, w, pin),
                  accepted |-> TRUE,
                  gen |-> storeWrite(IF Has(s, k) THEN s ELSE advanceGeneration(Fresh(room.c, k, c.desc[k]), k), k, w, pin).ent[k].gen,
                  reason |-> "none"]
    BY DEF Write, Fresh
  <2> HIDE DEF res, s, why, room
  <2>2. "policyReject" # "none" /\ "capacity" # "none" /\ "generationAdvanced" # "none"
    OBVIOUS
  <2>3. CASE res = Rejected(s, s.key[k].gen, why) /\ why # "none"
    BY <2>3, Zenon
  <2> QED
    BY <1>2, <2>1, <2>2, <2>3, Zenon
<1> HIDE DEF pin, s, why, room, fresh, res
<1>4. CASE \E x \in {c, s} : \E g, r : res = Rejected(x, g, r) /\ r # "none"
  <2>1. PICK x \in {c, s} : \E g, r : res = Rejected(x, g, r) /\ r # "none"
    BY <1>4
  <2>2. res.c = x /\ res.accepted = FALSE /\ res.reason # "none"
    BY <2>1 DEF Rejected
  <2>3. AllPinned(x) /\ \A j \in Keys : Kept(c, x, j)
    BY <1>1, <2>1 DEF Kept, SameEntry
  <2> QED
    BY <2>2, <2>3 DEF res
<1>5. CASE res = acc
  <2>1. res.c = done /\ res.accepted = TRUE /\ res.reason = "none"
    BY <1>5
  <2>2. base \in Caches(V) /\ Has(base, k) /\ SameElsewhere(s, base, k)
    <3>1. CASE Has(s, k)
      BY <1>1, <3>1 DEF SameElsewhere
    <3>2. CASE ~Has(s, k)
      <4>1. c.desc[k] \in Descriptors
        BY CacheFields
      <4> QED
        BY <1>1, <3>2, <4>1, FreshElsewhere DEF fresh
    <3> QED
      BY <3>1, <3>2
  <2> HIDE DEF base
  <2>3. /\ SameElsewhere(base, done, k)
        /\ done.ent[k].pin = "static" /\ HoldsWrite(done.ent[k], w, base.desc[k], base.ent[k].gen)
    <3>1. pin \in PinClasses
      BY <1>2 DEF PinClasses
    <3> QED
      BY <1>2, <2>2, <3>1, StoreWriteFacts
  <2>4. SameElsewhere(s, done, k) /\ done.ent[k].desc = "decoded"
    BY <1>1, <1>2, <2>2, <2>3 DEF SameElsewhere, HoldsWrite, SameConfig
  <2> HIDE DEF done
  <2>5. AllPinned(done) /\ \A j \in Keys \ {k} : Kept(c, done, j)
    BY <1>1, <2>3, <2>4, ElsewhereKept
  <2>6. Wrote(c, res.c, k, w)
    <3>1. \/ res.accepted = FALSE
          \/ Wrote(c, res.c, k, w)
      BY WriteFacts DEF res
    <3> QED
      BY <2>1, <3>1
  <2> QED
    BY <2>1, <2>5, <2>6 DEF res
<1> QED
  BY <1>3, <1>4, <1>5

\* Invalidate, when every register is the poller's.
LEMMA InvalidatePinned ==
    ASSUME NEW V, NoEntry \notin Entries(V), NEW c \in Caches(V), NEW k \in Keys, NEW t \in Nat,
           AllPinned(c), Exact(c)
    PROVE  LET z == Invalidate(c, k, t)
           IN  AllPinned(z) /\ \A j \in Keys \ {k} : Kept(c, z, j)
<1> DEFINE b == raiseBarrier(c, k, t)
           pin == desiredPinClass(b, k, b.desc[k])
           room == ensureCapacity(b, pin)
           base == IF Has(b, k) THEN b ELSE Fresh(b, k, b.desc[k])
           z == Invalidate(c, k, t)
<1>1. /\ b \in Caches(V) /\ SameElsewhere(c, b, k) /\ b.ent[k] = c.ent[k] /\ Exact(b)
  BY BarrierFacts
<1> HIDE DEF b
<1>2. AllPinned(b) /\ b.desc[k] = "decoded" /\ b.desc[k] \in Descriptors
  <2>1. AllPinned(b)
    BY <1>1 DEF AllPinned, SameElsewhere, Has
  <2> QED
    BY <1>1, <2>1, CacheFields DEF AllPinned
<1>3. room.c = b /\ pin = "static"
  BY <1>1, <1>2, NothingEvicted, DesiredStatic DEF AllPinned
<1> HIDE DEF pin, room
<1>4. \/ z = advanceAbsentGeneration(b, k) /\ ~Has(b, k)
      \/ z = invalidateEntry(base, k, "static")
  BY <1>3 DEF Invalidate, Fresh, b, pin, room
<1>5. \A j \in Keys \ {k} : Kept(c, b, j)
  BY <1>1 DEF SameElsewhere, Kept, Has, SameEntry
<1>6. CASE z = advanceAbsentGeneration(b, k) /\ ~Has(b, k)
  <2>1. SameElsewhere(b, z, k) /\ z.ent[k] = b.ent[k]
    BY <1>1, <1>6, AbsentGenerationFacts
  <2> HIDE DEF z
  <2>2. AllPinned(z)
    BY <1>2, <2>1 DEF AllPinned, SameElsewhere, Has
  <2>3. \A j \in Keys \ {k} : Kept(c, z, j)
    BY <1>5, <2>1 DEF SameElsewhere, Kept, Has
  <2> QED
    BY <2>2, <2>3 DEF z
<1>7. CASE z = invalidateEntry(base, k, "static")
  <2>1. base \in Caches(V) /\ Has(base, k) /\ SameElsewhere(b, base, k)
    BY <1>1, <1>2, FreshFacts DEF SameElsewhere
  <2> HIDE DEF base
  <2>2. SameElsewhere(base, z, k) /\ z.ent[k].pin = "static" /\ z.ent[k].desc = base.desc[k]
    <3>1. "static" \in PinClasses
      BY DEF PinClasses
    <3> QED
      BY <1>7, <2>1, <3>1, InvalidateEntryFacts
  <2> HIDE DEF z
  <2>3. SameElsewhere(b, z, k) /\ z.ent[k].desc = "decoded"
    BY <1>2, <2>1, <2>2 DEF SameElsewhere
  <2>4. AllPinned(z)
    BY <1>2, <2>2, <2>3 DEF AllPinned, SameElsewhere, Has
  <2>5. \A j \in Keys \ {k} : Kept(c, z, j)
    BY <1>5, <2>3 DEF SameElsewhere, Kept, Has
  <2> QED
    BY <2>4, <2>5 DEF z
<1> QED
  BY <1>4, <1>6, <1>7

\* Lookup and compaction, when every register is the poller's.
LEMMA LookupPinned ==
    ASSUME NEW V, NoEntry \notin Entries(V), NEW c \in Caches(V), NEW k \in Keys, NEW age, NEW t,
           AllPinned(c)
    PROVE  AllPinned(LookupCache(c, k, age, t))
<1> DEFINE z == LookupCache(c, k, age, t)
           s == syncEntryPin(c, k)
<1>1. SameConfig(c, z) /\ \A j \in Keys : Kept(c, z, j) /\ z.ent[j] = s.ent[j]
  BY LookupFacts
<1>2. AllPinned(s)
  BY SyncPinned
<1> HIDE DEF z, s
<1>3. AllPinned(z)
  BY <1>1, <1>2 DEF AllPinned, SameConfig, Has
<1> QED
  BY <1>3 DEF z

LEMMA CompactPinned ==
    ASSUME NEW V, NoEntry \notin Entries(V), NEW c \in Caches(V), NEW k \in Keys, Has(c, k), NEW t,
           AllPinned(c)
    PROVE  AllPinned(compactKey(c, k, t))
<1> DEFINE z == compactKey(c, k, t)
           s == syncEntryPin(c, k)
<1>1. /\ SameConfig(c, z) /\ \A j \in Keys \ {k} : Kept(c, z, j)
      /\ Kept(c, z, k) \/ Compacted(c, z, k)
      /\ \A j \in Keys : Has(z, j) => z.ent[j].pin = s.ent[j].pin
  BY CompactFacts
<1>2. AllPinned(s) /\ SameEntries(c, s)
  BY SyncPinned, SyncFacts
<1> HIDE DEF z, s
<1>3. \A j \in Keys : Has(z, j) => Has(c, j) /\ z.ent[j].desc = c.ent[j].desc
  BY <1>1 DEF Kept, SameEntry, Compacted
<1>4. AllPinned(z)
  BY <1>1, <1>2, <1>3 DEF AllPinned, SameConfig, SameEntries
<1> QED
  BY <1>4 DEF z

-----------------------------------------------------------------------------
(* The circuit breaker                                                       *)

Breakers == {"closed", "open", "half-open"}

\* A semanticReadEntry.
ReadEntries ==
    [running : BOOLEAN, lastOK : Versions \cup {NoValue}, okAt : Nat, okGen : Nat,
     fromShadow : BOOLEAN, breaker : Breakers, failures : Nat, openedAt : Nat,
     probes : 0 .. HalfOpenProbeLimit]

\* A disabled breaker stays closed.
Enabled(e) == e.breaker # "closed" => breakerEnabled

\* A half-open breaker has a probe to give, or one is under way.
Probing(e) == e.breaker = "half-open" => e.probes > 0 \/ e.running

\* The cached value and its generation.
SameRead(e, f) ==
    f.lastOK = e.lastOK /\ f.okAt = e.okAt /\ f.okGen = e.okGen /\ f.fromShadow = e.fromShadow

\* transitionBreakerLocked.
LEMMA TransitionFacts ==
    ASSUME NEW e \in ReadEntries, NEW to \in Breakers, HalfOpenProbeLimit \in Nat \ {0}
    PROVE  LET z == transitionBreaker(e, to)
           IN  /\ z \in ReadEntries /\ z.running = e.running /\ SameRead(e, z)
               /\ z.breaker = IF breakerEnabled THEN to ELSE e.breaker
               /\ breakerEnabled /\ to = "half-open" /\ e.breaker # to => z.probes = HalfOpenProbeLimit
<1> DEFINE z == transitionBreaker(e, to)
<1>1. CASE ~breakerEnabled \/ e.breaker = to
  BY <1>1 DEF transitionBreaker, SameRead
<1>2. CASE ~(~breakerEnabled \/ e.breaker = to)
  <2>1. z = [e EXCEPT !.breaker = to,
                      !.failures = IF to = "closed" THEN 0 ELSE e.failures,
                      !.openedAt = IF to = "closed" THEN 0 ELSE e.openedAt,
                      !.probes = IF to = "open" THEN 0 ELSE HalfOpenProbeLimit]
    BY <1>2 DEF transitionBreaker, ReadEntries
  <2> HIDE DEF z
  <2>2. 0 \in 0 .. HalfOpenProbeLimit /\ HalfOpenProbeLimit \in 0 .. HalfOpenProbeLimit
    OBVIOUS
  <2>3. z \in ReadEntries
    BY <2>1, <2>2 DEF ReadEntries
  <2>4. /\ z.running = e.running /\ z.breaker = to
        /\ z.probes = IF to = "open" THEN 0 ELSE HalfOpenProbeLimit
        /\ z.lastOK = e.lastOK /\ z.okAt = e.okAt /\ z.okGen = e.okGen /\ z.fromShadow = e.fromShadow
    BY <2>1 DEF ReadEntries
  <2>5. SameRead(e, z)
    BY <2>4 DEF SameRead
  <2> QED
    BY <1>2, <2>3, <2>4, <2>5 DEF z
<1> QED
  BY <1>1, <1>2

\* openBreakerLocked.
LEMMA OpenFacts ==
    ASSUME NEW e \in ReadEntries, HalfOpenProbeLimit \in Nat \ {0}, now \in Nat
    PROVE  LET z == openBreaker(e)
           IN  /\ z \in ReadEntries /\ z.running = e.running /\ SameRead(e, z)
               /\ z.breaker = IF breakerEnabled THEN "open" ELSE e.breaker
<1> DEFINE y == transitionBreaker(e, "open")
           z == openBreaker(e)
<1>1. /\ y \in ReadEntries /\ y.running = e.running /\ SameRead(e, y)
      /\ y.breaker = IF breakerEnabled THEN "open" ELSE e.breaker
  BY TransitionFacts DEF Breakers
<1>2. z = [y EXCEPT !.openedAt = now]
  BY DEF openBreaker
<1> HIDE DEF y, z
<1>3. z \in ReadEntries /\ z.running = y.running /\ z.breaker = y.breaker /\ SameRead(y, z)
  BY <1>1, <1>2 DEF ReadEntries, SameRead
<1> QED
  BY <1>1, <1>3 DEF z, SameRead

\* guardBreakerLocked: what a call that is not suppressed, or is, leaves behind.
LEMMA GuardFacts ==
    ASSUME NEW e \in ReadEntries, HalfOpenProbeLimit \in Nat \ {0}, now \in Nat,
           Enabled(e), Probing(e), ~e.running
    PROVE  LET z == guardBreaker(e)
           IN  /\ z \in ReadEntries /\ z.running = e.running /\ SameRead(e, z)
               /\ Enabled(z) /\ Probing(z)
<1> DEFINE z == guardBreaker(e)
<1>1. e.breaker \in Breakers /\ e.probes \in 0 .. HalfOpenProbeLimit
  BY DEF ReadEntries
<1>2. CASE e.breaker = "closed"
  <2>1. z = e
    BY <1>2 DEF guardBreaker
  <2> QED
    BY <2>1 DEF SameRead
<1>3. CASE e.breaker = "open"
  <2>1. breakerEnabled
    BY <1>3 DEF Enabled
  <2>2. CASE CooledDown(e)
    <3>1. z = transitionBreaker(e, "half-open")
      BY <1>3, <2>1, <2>2 DEF guardBreaker
    <3>2. /\ z \in ReadEntries /\ z.running = e.running /\ SameRead(e, z)
          /\ z.probes = HalfOpenProbeLimit
      BY <1>3, <2>1, <3>1, TransitionFacts DEF Breakers
    <3> QED
      BY <2>1, <3>2 DEF Enabled, Probing
  <2>3. CASE ~CooledDown(e)
    <3>1. z = e
      BY <1>3, <2>1, <2>3 DEF guardBreaker
    <3> QED
      BY <3>1 DEF SameRead
  <2> QED
    BY <2>2, <2>3
<1>4. CASE e.breaker = "half-open"
  <2>1. e.probes > 0
    BY <1>4 DEF Probing
  <2>2. z = e
    BY <1>4, <2>1 DEF guardBreaker, Enabled
  <2> QED
    BY <2>2 DEF SameRead
<1> QED
  BY <1>1, <1>2, <1>3, <1>4 DEF Breakers

\* recordFailureLocked.
LEMMA FailureFacts ==
    ASSUME NEW e \in ReadEntries, HalfOpenProbeLimit \in Nat \ {0}, now \in Nat, Enabled(e)
    PROVE  LET z == recordFailure(e)
           IN  /\ z \in ReadEntries /\ z.running = e.running /\ SameRead(e, z)
               /\ Enabled(z) /\ Probing(z)
<1> DEFINE f == [e EXCEPT !.failures = @ + 1]
           trips == \/ e.breaker = "half-open" /\ e.probes = 0
                    \/ e.breaker = "closed" /\ f.failures >= FailureBudget
           z == recordFailure(e)
<1>1. /\ f \in ReadEntries /\ f.running = e.running /\ f.breaker = e.breaker
      /\ f.probes = e.probes /\ SameRead(e, f)
  BY DEF ReadEntries, SameRead
<1>2. CASE ~breakerEnabled
  <2>1. z = e /\ e.breaker = "closed"
    BY <1>2 DEF recordFailure, Enabled
  <2> QED
    BY <2>1 DEF SameRead, Enabled, Probing
<1>3. CASE breakerEnabled /\ trips
  <2>1. z = openBreaker(f)
    BY <1>3 DEF recordFailure
  <2> HIDE DEF f
  <2>2. /\ z \in ReadEntries /\ z.running = f.running /\ SameRead(f, z) /\ z.breaker = "open"
    BY <1>1, <1>3, <2>1, OpenFacts
  <2> HIDE DEF z
  <2> QED
    BY <1>1, <1>3, <2>2 DEF SameRead, Enabled, Probing, z
<1>4. CASE breakerEnabled /\ ~trips
  <2>1. z = f
    BY <1>4 DEF recordFailure
  <2>2. f.breaker = "half-open" => f.probes > 0
    BY <1>1, <1>4 DEF ReadEntries
  <2> QED
    BY <1>1, <1>4, <2>1, <2>2 DEF Enabled, Probing
<1> QED
  BY <1>2, <1>3, <1>4

\* A superseded probe is handed back.
LEMMA ReturnFacts ==
    ASSUME NEW e \in ReadEntries, HalfOpenProbeLimit \in Nat \ {0}, Enabled(e)
    PROVE  LET z == returnProbe(e)
           IN  /\ z \in ReadEntries /\ z.running = e.running /\ SameRead(e, z)
               /\ Enabled(z) /\ Probing(z)
<1> DEFINE z == returnProbe(e)
<1>1. e.probes \in 0 .. HalfOpenProbeLimit
  BY DEF ReadEntries
<1>2. CASE breakerEnabled /\ e.breaker = "half-open" /\ e.probes < HalfOpenProbeLimit
  <2>1. z = [e EXCEPT !.probes = e.probes + 1] /\ e.probes + 1 \in 0 .. HalfOpenProbeLimit
    BY <1>1, <1>2 DEF returnProbe, ReadEntries
  <2> HIDE DEF z
  <2>2. z \in ReadEntries /\ z.running = e.running /\ SameRead(e, z) /\ z.breaker = e.breaker /\ z.probes > 0
    BY <1>1, <2>1 DEF ReadEntries, SameRead
  <2> QED
    BY <1>2, <2>2 DEF Enabled, Probing, z
<1>3. CASE ~(breakerEnabled /\ e.breaker = "half-open" /\ e.probes < HalfOpenProbeLimit)
  <2>1. z = e
    BY <1>3 DEF returnProbe
  <2> QED
    BY <1>1, <1>3, <2>1 DEF Enabled, Probing, SameRead
<1> QED
  BY <1>2, <1>3

-----------------------------------------------------------------------------
(* One flight                                                                *)

Places == {"idle", "consult", "lock", "wait", "capture", "fetch", "store", "finish", "done"}
Errors == {"none", "canceled", "circuitOpen", "failed", "superseded", "revalidationExhausted"}

\* The locals of a call.
Calls ==
    [pc : Places, maxAge : Nat, passes : 0 .. 2, recompute : 0 .. 1,
     cand : Candidates \cup {NoCandidate}, start : Nat, written : Nat,
     val : Versions \cup {NoValue}, err : Errors, floor : Nat]

Events == [kind : {"read", "write"}, ver : Nat, t : Nat]

\* Types of the variables, and of the value that a fetch returned.
Types ==
    /\ cache \in Caches(Versions) /\ now \in Nat \ {0}
    /\ entry \in ReadEntries
    /\ reader \in [Readers -> Calls]
    /\ \A r \in Readers : At(r, "store") => reader[r].val \in Versions
    /\ dev \in Nat /\ writer \in Nat /\ floor \in Nat
    /\ bus \in Seq(Events)

\* What OneFlight and ProbeAvailable rest on.
FlightInv == Types /\ OneFlight /\ Enabled(entry) /\ Probing(entry)

\* The fields of a call that is not made, or has returned.
LEMMA NoCallType == Given => NoCall \in Calls
BY DEF Given, NoCall, Calls, Places, Errors

LEMMA ReturnedFacts ==
    ASSUME Given, NEW call \in Calls, NEW v \in Versions \cup {NoValue}, NEW e \in Errors
    PROVE  LET z == Returned(call, v, e)
           IN  /\ z \in Calls /\ z.pc = "done" /\ z.val = v /\ z.err = e
               /\ z.cand = NoCandidate
               /\ z.floor = IF e = "none" THEN call.floor ELSE 0
<1>1. call.floor \in Nat
  BY DEF Calls
<1>2. "done" \in Places
  BY DEF Places
<1> QED
  BY <1>1, <1>2, NoCallType DEF Returned, Calls, NoCall

\* A call that returns an error.
LEMMA FailedFacts ==
    ASSUME Given, NEW call \in Calls, NEW e \in Errors \ {"none"}
    PROVE  LET z == Returned(call, NoValue, e)
           IN  z \in Calls /\ z.pc = "done" /\ z.err = e /\ z.cand = NoCandidate /\ z.floor = 0
<1>1. NoValue \in Versions \cup {NoValue} /\ e \in Errors
  OBVIOUS
<1> QED
  BY <1>1, ReturnedFacts

\* Calls that neither begin nor end a flight.
LEMMA FlightKept ==
    ASSUME OneFlight, \A q \in Readers : Flying(q)' <=> Flying(q), entry'.running <=> entry.running
    PROVE  OneFlight'
BY DEF OneFlight

\* A call that begins the flight.
LEMMA FlightBegins ==
    ASSUME OneFlight, ~entry.running, NEW r \in Readers,
           \A q \in Readers : Flying(q)' <=> Flying(q) \/ q = r, entry'.running
    PROVE  OneFlight'
BY DEF OneFlight

\* The call whose flight ends.
LEMMA FlightEnds ==
    ASSUME OneFlight, NEW r \in Readers, Flying(r),
           \A q \in Readers : Flying(q)' <=> Flying(q) /\ q # r, ~entry'.running
    PROVE  OneFlight'
BY DEF OneFlight

\* One call moves.
LEMMA CallMoves ==
    ASSUME Types, NEW r \in Readers, NEW call \in Calls, reader' = [reader EXCEPT ![r] = call],
           call.pc = "store" => call.val \in Versions
    PROVE  /\ reader' \in [Readers -> Calls]
           /\ \A q \in Readers : At(q, "store")' => reader'[q].val \in Versions
           /\ reader'[r] = call /\ \A q \in Readers \ {r} : reader'[q] = reader[q]
           /\ \A q \in Readers \ {r} : Flying(q)' <=> Flying(q)
           /\ Flying(r)' <=> call.pc \in {"capture", "fetch", "store", "finish"}
<1>1. /\ reader' \in [Readers -> Calls] /\ reader'[r] = call
      /\ \A q \in Readers \ {r} : reader'[q] = reader[q]
  BY DEF Types
<1>2. \A q \in Readers : At(q, "store")' => reader'[q].val \in Versions
  BY <1>1 DEF Types, At
<1> QED
  BY <1>1, <1>2 DEF Flying

\* Waiting calls return to the top of the loop while one call moves.
LEMMA CallsWake ==
    ASSUME Types, NEW r \in Readers, NEW call \in Calls, reader' = [Woken EXCEPT ![r] = call],
           call.pc # "store", At(r, "finish")
    PROVE  /\ reader' \in [Readers -> Calls]
           /\ \A q \in Readers : At(q, "store")' => reader'[q].val \in Versions
           /\ Woken[r] = reader[r]
           /\ reader'[r] = call
           /\ \A q \in Readers \ {r} :
                 \/ reader'[q] = reader[q]
                 \/ At(q, "wait") /\ reader'[q] = [reader[q] EXCEPT !.pc = "consult"]
           /\ \A q \in Readers \ {r} : Flying(q)' <=> Flying(q)
           /\ Flying(r)' <=> call.pc \in {"capture", "fetch", "store", "finish"}
<1>1. Woken \in [Readers -> Calls]
  <2>1. \A q \in Readers : reader[q] \in Calls
    BY DEF Types
  <2>2. "consult" \in Places
    BY DEF Places
  <2>3. \A q \in Readers : [reader[q] EXCEPT !.pc = "consult"] \in Calls
    BY <2>1, <2>2 DEF Calls
  <2> QED
    BY <2>1, <2>3 DEF Woken
<1>2. /\ reader' \in [Readers -> Calls] /\ reader'[r] = call
      /\ \A q \in Readers \ {r} : reader'[q] = Woken[q]
  BY <1>1
<1>3. Woken[r] = reader[r]
  BY DEF Woken, At
<1>4. \A q \in Readers \ {r} :
         \/ reader'[q] = reader[q]
         \/ At(q, "wait") /\ reader'[q] = [reader[q] EXCEPT !.pc = "consult"]
  BY <1>2 DEF Woken
<1>5. \A q \in Readers : [reader[q] EXCEPT !.pc = "consult"].pc = "consult"
  <2>1. \A q \in Readers : reader[q] \in Calls
    BY DEF Types
  <2> QED
    BY <2>1 DEF Calls
<1>6. \A q \in Readers \ {r} : \/ reader'[q] = reader[q]
                               \/ reader[q].pc = "wait" /\ reader'[q].pc = "consult"
  BY <1>4, <1>5 DEF At
<1>7. \A q \in Readers : At(q, "store")' => reader'[q].val \in Versions
  BY <1>2, <1>6 DEF Types, At
<1>8. \A q \in Readers \ {r} : Flying(q)' <=> Flying(q)
  BY <1>6 DEF Flying
<1> QED
  BY <1>2, <1>3, <1>4, <1>7, <1>8 DEF Flying

\* The snapshot that a call reads without the lock.
LEMMA SnapshotFacts ==
    ASSUME Types, Given
    PROVE  /\ Snapshot.gen = cache.key[K].snap.gen /\ Snapshot.obs = cache.key[K].snap.obs
           /\ Snapshot.gen \in Nat
<1>1. K \in Keys /\ cache.key[K] \in KeyStates
  BY CacheFields DEF Types, Given
<1>2. cache.key[K].snap \in Snapshots
  BY <1>1 DEF KeyStates
<1> QED
  BY <1>2 DEF Snapshot, SnapshotEligibility, Snapshots

\* Steps of a call that leave the cache, the entry and the bus alone.
QuietStep(r) ==
    \/ GetWatch(r) \/ WaitForFlight(r) \/ ContextDone(r) \/ RetryShadow(r) \/ ServeCached(r)
    \/ CaptureStart(r) \/ FetchReads(r) \/ FetchFails(r) \/ Return(r)

\* The call after such a step.
LEMMA QuietCall ==
    ASSUME Types, Given, NEW r \in Readers, QuietStep(r)
    PROVE  /\ UNCHANGED <<cacheVars, entry, dev, bus, writer, floor>>
           /\ \E call \in Calls :
                 /\ reader' = [reader EXCEPT ![r] = call]
                 /\ call.pc = "store" => call.val \in Versions
                 /\ call.pc \in {"capture", "fetch", "store", "finish"} <=> Flying(r)
<1>1. reader[r] \in Calls /\ NoCall \in Calls /\ NoCall.pc = "idle" /\ floor \in Nat /\ dev \in Nat
  BY NoCallType DEF Types, NoCall
<1>2. /\ "consult" \in Places /\ "wait" \in Places /\ "fetch" \in Places /\ "store" \in Places
      /\ "finish" \in Places /\ "none" \in Errors /\ "failed" \in Errors /\ "canceled" \in Errors
  BY DEF Places, Errors
<1> DEFINE Good(call) == /\ call \in Calls /\ reader' = [reader EXCEPT ![r] = call]
                         /\ call.pc = "store" => call.val \in Versions
                         /\ call.pc \in {"capture", "fetch", "store", "finish"} <=> Flying(r)
<1>3. UNCHANGED <<cacheVars, entry, dev, bus, writer, floor>>
  BY DEF QuietStep, GetWatch, WaitForFlight, ContextDone, RetryShadow, ServeCached,
         CaptureStart, FetchReads, FetchFails, Return
<1>4. ASSUME GetWatch(r) PROVE \E call : Good(call)
  <2>1. PICK age \in MaxAges :
          reader' = [reader EXCEPT ![r] = [NoCall EXCEPT
                        !.pc = "consult", !.maxAge = age, !.floor = floor,
                        !.passes = semanticReadShadowMaxPreActivePasses,
                        !.recompute = semanticReadShadowMaxRecomputeCycles]]
    BY <1>4 DEF GetWatch
  <2>2. age \in Nat
    BY DEF Given
  <2> DEFINE call == [NoCall EXCEPT !.pc = "consult", !.maxAge = age, !.floor = floor,
                        !.passes = semanticReadShadowMaxPreActivePasses,
                        !.recompute = semanticReadShadowMaxRecomputeCycles]
  <2>3. call \in Calls /\ call.pc = "consult"
    <3>1. /\ semanticReadShadowMaxPreActivePasses \in 0 .. 2
          /\ semanticReadShadowMaxRecomputeCycles \in 0 .. 1
      BY DEF semanticReadShadowMaxPreActivePasses, semanticReadShadowMaxRecomputeCycles
    <3> QED
      BY <1>1, <1>2, <2>2, <3>1 DEF Calls
  <2>4. ~Flying(r)
    BY <1>4 DEF GetWatch, Flying, At
  <2> HIDE DEF call
  <2>5. Good(call)
    BY <2>1, <2>3, <2>4 DEF call
  <2> QED
    BY <2>5
<1>5. ASSUME WaitForFlight(r) PROVE \E call : Good(call)
  <2> DEFINE call == [reader[r] EXCEPT !.pc = "wait", !.cand = NoCandidate]
  <2>1. call \in Calls /\ call.pc = "wait" /\ reader' = [reader EXCEPT ![r] = call] /\ ~Flying(r)
    BY <1>1, <1>2, <1>5 DEF WaitForFlight, Calls, Flying, At, Types
  <2> HIDE DEF call
  <2>2. Good(call)
    BY <2>1
  <2> QED
    BY <2>2
<1>6. ASSUME ContextDone(r) PROVE \E call : Good(call)
  <2> DEFINE call == Returned(reader[r], NoValue, "canceled")
  <2>1. reader' = [reader EXCEPT ![r] = call] /\ ~Flying(r)
    BY <1>6 DEF ContextDone, Flying, At
  <2>2. call \in Calls /\ call.pc = "done"
    <3>1. "canceled" \in Errors \ {"none"}
      BY DEF Errors
    <3> QED
      BY <1>1, <3>1, FailedFacts
  <2> HIDE DEF call
  <2>3. Good(call)
    BY <2>1, <2>2
  <2> QED
    BY <2>3
<1>7. ASSUME RetryShadow(r) PROVE \E call : Good(call)
  <2> DEFINE call == [reader[r] EXCEPT !.pc = "consult"]
  <2>1. call \in Calls /\ call.pc = "consult" /\ reader' = [reader EXCEPT ![r] = call] /\ ~Flying(r)
    BY <1>1, <1>2, <1>7 DEF RetryShadow, Calls, Flying, At
  <2> HIDE DEF call
  <2>2. Good(call)
    BY <2>1
  <2> QED
    BY <2>2
<1>8. ASSUME ServeCached(r) PROVE \E call : Good(call)
  <2> DEFINE v == entry.lastOK
             call == Returned(reader[r], v, "none")
  <2>1. reader' = [reader EXCEPT ![r] = call] /\ ~Flying(r)
    BY <1>8 DEF ServeCached, Falls, Flying, At
  <2>2. v \in Versions \cup {NoValue}
    BY DEF Types, ReadEntries
  <2> HIDE DEF v
  <2>3. call \in Calls /\ call.pc = "done"
    BY <1>1, <1>2, <2>2, ReturnedFacts
  <2> HIDE DEF call
  <2>4. Good(call)
    BY <2>1, <2>3
  <2> QED
    BY <2>4
<1>9. ASSUME CaptureStart(r) PROVE \E call : Good(call)
  <2> DEFINE call == [reader[r] EXCEPT !.pc = "fetch", !.start = Snapshot.gen]
  <2>1. Snapshot.gen \in Nat
    BY SnapshotFacts
  <2>2. reader' = [reader EXCEPT ![r] = call] /\ Flying(r)
    BY <1>1, <1>9 DEF CaptureStart, Flying, At, Types
  <2>3. call \in Calls /\ call.pc = "fetch"
    BY <1>1, <1>2, <2>1 DEF Calls
  <2> HIDE DEF call
  <2>4. Good(call)
    BY <2>2, <2>3
  <2> QED
    BY <2>4
<1>10. ASSUME FetchReads(r) PROVE \E call : Good(call)
  <2> DEFINE v == [ver |-> dev, at |-> 0]
             call == [reader[r] EXCEPT !.pc = "store", !.val = v, !.err = "none"]
  <2>1. v \in Versions
    BY <1>1 DEF Versions
  <2>2. reader' = [reader EXCEPT ![r] = call] /\ Flying(r)
    BY <1>1, <1>10 DEF FetchReads, Flying, At, Types
  <2> HIDE DEF v
  <2>3. call \in Calls /\ call.pc = "store" /\ call.val = v
    BY <1>1, <1>2, <2>1 DEF Calls
  <2> HIDE DEF call
  <2>4. Good(call)
    BY <2>1, <2>2, <2>3
  <2> QED
    BY <2>4
<1>11. ASSUME FetchFails(r) PROVE \E call : Good(call)
  <2> DEFINE call == [reader[r] EXCEPT !.pc = "finish", !.val = NoValue, !.err = "failed"]
  <2>1. reader' = [reader EXCEPT ![r] = call] /\ Flying(r)
    BY <1>1, <1>11 DEF FetchFails, Flying, At, Types
  <2>2. call \in Calls /\ call.pc = "finish"
    BY <1>1, <1>2 DEF Calls
  <2> HIDE DEF call
  <2>3. Good(call)
    BY <2>1, <2>2
  <2> QED
    BY <2>3
<1>12. ASSUME Return(r) PROVE \E call : Good(call)
  <2>1. Good(NoCall)
    BY <1>1, <1>12 DEF Return, Flying, At
  <2> QED
    BY <2>1
<1> HIDE DEF Good
<1>13. \E call : Good(call)
  BY <1>4, <1>5, <1>6, <1>7, <1>8, <1>9, <1>10, <1>11, <1>12 DEF QuietStep
<1> QED
  BY <1>3, <1>13 DEF Good

\* What the calls see of the world after a step that leaves them and the entry alone.
LEMMA WorldStep ==
    ASSUME FlightInv, UNCHANGED <<entry, reader>>, cache' \in Caches(Versions), now' \in Nat \ {0},
           dev' \in Nat, writer' \in Nat, floor' \in Nat, bus' \in Seq(Events)
    PROVE  FlightInv'
BY DEF FlightInv, Types, OneFlight, Flying, At, Enabled, Probing

\* The events that are still queued.
LEMMA QueueFacts ==
    ASSUME NEW b \in Seq(Events)
    PROVE  /\ b # <<>> => /\ Head(b) \in Events /\ Tail(b) \in Seq(Events) /\ Head(b) = b[1]
                          /\ 1 \in DOMAIN b
                          /\ \A i \in DOMAIN Tail(b) : i + 1 \in DOMAIN b /\ Tail(b)[i] = b[i + 1]
           /\ \A i \in DOMAIN b : b[i] \in Events
           /\ \A e \in Events :
                 /\ Append(b, e) \in Seq(Events)
                 /\ \A i \in DOMAIN Append(b, e) :
                       \/ i \in DOMAIN b /\ Append(b, e)[i] = b[i]
                       \/ i = Len(b) + 1 /\ Append(b, e)[i] = e
OBVIOUS

\* Steps of the world keep FlightInv.
LEMMA WorldKeepsFlight ==
    ASSUME FlightInv, Given,
           \/ ThirdPartyRead \/ ThirdPartyWrite \/ PassiveOverflow
           \/ handlePassiveRead \/ handlePassiveWrite
           \/ ConfigurationWrite \/ fenceB509WriteConfirmShadow
           \/ OtherKeyWritten \/ Compact \/ Clock
    PROVE  FlightInv'
<1>1. /\ cache \in Caches(Versions) /\ now \in Nat \ {0} /\ dev \in Nat /\ writer \in Nat
      /\ floor \in Nat /\ bus \in Seq(Events) /\ K \in Keys /\ NoEntry \notin Entries(Versions)
      /\ CacheBounds
  BY DEF FlightInv, Types, Given
<1>2. ASSUME NEW k \in Keys, NEW w \in Writes(Versions), NEW same
      PROVE  Write(cache, k, w, same).c \in Caches(Versions)
  BY <1>1, WriteFacts
<1>3. ASSUME NEW k \in Keys, NEW t \in Nat PROVE Invalidate(cache, k, t) \in Caches(Versions)
  BY <1>1, InvalidateFacts
<1>4. CASE ThirdPartyRead
  <2>1. [kind |-> "read", ver |-> dev, t |-> now] \in Events
    BY <1>1 DEF Events
  <2>2. bus' = Append(bus, [kind |-> "read", ver |-> dev, t |-> now])
    BY <1>4 DEF ThirdPartyRead, Observed
  <2>3. bus' \in Seq(Events)
    BY <1>1, <2>1, <2>2, QueueFacts
  <2> QED
    BY <1>1, <1>4, <2>3, WorldStep DEF ThirdPartyRead, cacheVars
<1>5. CASE ThirdPartyWrite
  <2>1. [kind |-> "write", ver |-> dev + 1, t |-> now] \in Events
    BY <1>1 DEF Events
  <2>2. bus' = Append(bus, [kind |-> "write", ver |-> dev + 1, t |-> now])
    BY <1>5 DEF ThirdPartyWrite, Observed
  <2>3. bus' \in Seq(Events)
    BY <1>1, <2>1, <2>2, QueueFacts
  <2> QED
    BY <1>1, <1>5, <2>3, WorldStep DEF ThirdPartyWrite, cacheVars
<1>6. CASE PassiveOverflow
  BY <1>1, <1>6, WorldStep DEF PassiveOverflow, cacheVars
<1>7. CASE handlePassiveRead
  <2> DEFINE ev == Head(bus)
             w == [src |-> "passive", val |-> [ver |-> ev.ver, at |-> ev.t], obs |-> ev.t, start |-> 0]
             same == Has(cache, K) /\ cache.ent[K].val # NoValue /\ cache.ent[K].val.ver = ev.ver
  <2>1. ev \in Events /\ Tail(bus) \in Seq(Events)
    BY <1>1, <1>7, QueueFacts DEF handlePassiveRead
  <2>2. w \in Writes(Versions)
    BY <2>1 DEF Events, Writes, Versions, Sources
  <2>3. cache' = Write(cache, K, w, same).c /\ bus' = Tail(bus)
    BY <1>7 DEF handlePassiveRead
  <2> HIDE DEF w, same
  <2> QED
    BY <1>1, <1>2, <1>7, <2>1, <2>2, <2>3, WorldStep DEF handlePassiveRead
<1>8. CASE handlePassiveWrite
  <2>1. Head(bus) \in Events /\ Tail(bus) \in Seq(Events)
    BY <1>1, <1>8, QueueFacts DEF handlePassiveWrite
  <2>2. Head(bus).t \in Nat /\ Head(bus).ver \in Nat /\ Later(floor, Head(bus).ver) \in Nat
    BY <1>1, <2>1 DEF Events, Later
  <2> QED
    BY <1>1, <1>3, <1>8, <2>1, <2>2, WorldStep DEF handlePassiveWrite
<1>9. CASE ConfigurationWrite
  BY <1>1, <1>9, WorldStep DEF ConfigurationWrite, cacheVars
<1>10. CASE fenceB509WriteConfirmShadow
  <2>1. Later(floor, writer) \in Nat
    BY <1>1 DEF Later
  <2> QED
    BY <1>1, <1>3, <1>10, <2>1, WorldStep DEF fenceB509WriteConfirmShadow
<1>11. CASE OtherKeyWritten
  <2> DEFINE w == [src |-> "passive", val |-> [ver |-> 1, at |-> now], obs |-> now, start |-> 0]
  <2>1. w \in Writes(Versions)
    BY <1>1 DEF Writes, Versions, Sources
  <2>2. PICK k \in Keys \ {K} : CacheWrite(k, w)
    BY <1>11 DEF OtherKeyWritten
  <2> HIDE DEF w
  <2>3. cache' \in Caches(Versions) /\ now' = now
    BY <1>2, <2>1, <2>2 DEF CacheWrite
  <2> QED
    BY <1>1, <1>11, <2>3, WorldStep DEF OtherKeyWritten, schedulerVars
<1>12. CASE Compact
  <2>1. Has(cache, K) /\ cache' = compactKey(cache, K, now) /\ now' = now
    BY <1>12 DEF Compact, CacheCompact
  <2>2. cache' \in Caches(Versions)
    BY <1>1, <2>1, CompactFacts
  <2> QED
    BY <1>1, <1>12, <2>1, <2>2, WorldStep DEF Compact, schedulerVars
<1>13. CASE Clock
  BY <1>1, <1>13, WorldStep DEF Clock, Tick, schedulerVars
<1> QED
  BY <1>4, <1>5, <1>6, <1>7, <1>8, <1>9, <1>10, <1>11, <1>12, <1>13

\* The cached value is forgotten or kept, and the breaker is left alone.
Forgets(e, f) ==
    /\ f.running = e.running /\ f.breaker = e.breaker /\ f.probes = e.probes
    /\ f.lastOK = NoValue \/ SameRead(e, f)

\* clearSemanticReadCacheLocked.
LEMMA ClearFacts ==
    ASSUME NEW e \in ReadEntries
    PROVE  LET z == clearSemanticReadCache(e)
           IN  z \in ReadEntries /\ Forgets(e, z) /\ z.lastOK = NoValue
<1> DEFINE z == clearSemanticReadCache(e)
<1>1. NoValue \in Versions \cup {NoValue}
  OBVIOUS
<1>2. z \in ReadEntries /\ z.lastOK = NoValue /\ z.running = e.running
      /\ z.breaker = e.breaker /\ z.probes = e.probes
  BY <1>1 DEF clearSemanticReadCache, ReadEntries
<1> HIDE DEF z
<1> QED
  BY <1>2 DEF z, Forgets

LEMMA UnservedFacts ==
    ASSUME Types, NEW r \in Readers
    PROVE  Unserved(r) \in ReadEntries /\ Forgets(entry, Unserved(r))
<1>1. entry \in ReadEntries
  BY DEF Types
<1>2. clearSemanticReadCache(entry) \in ReadEntries /\ Forgets(entry, clearSemanticReadCache(entry))
  BY <1>1, ClearFacts
<1>3. Forgets(entry, entry)
  BY DEF Forgets, SameRead
<1> QED
  BY <1>1, <1>2, <1>3 DEF Unserved

\* The entry that a suppressed call or a launch starts from.
LEMMA GuardedFacts ==
    ASSUME FlightInv, Given, NEW r \in Readers, ~entry.running
    PROVE  LET z == guardBreaker(Unserved(r))
           IN  /\ z \in ReadEntries /\ ~z.running /\ Enabled(z) /\ Probing(z)
               /\ z.lastOK = NoValue \/ SameRead(entry, z)
<1> DEFINE u == Unserved(r)
           z == guardBreaker(u)
<1>1. u \in ReadEntries /\ Forgets(entry, u)
  BY UnservedFacts DEF FlightInv
<1> HIDE DEF u
<1>2. ~u.running /\ Enabled(u) /\ Probing(u)
  BY <1>1 DEF Forgets, Enabled, Probing, FlightInv
<1>3. HalfOpenProbeLimit \in Nat \ {0} /\ now \in Nat
  BY DEF Given, FlightInv, Types
<1>4. z \in ReadEntries /\ z.running = u.running /\ SameRead(u, z) /\ Enabled(z) /\ Probing(z)
  BY <1>1, <1>2, <1>3, GuardFacts
<1> HIDE DEF z
<1>5. z.lastOK = NoValue \/ SameRead(entry, z)
  BY <1>1, <1>4 DEF Forgets, SameRead
<1> QED
  BY <1>2, <1>4, <1>5 DEF z, u

\* A step of one call that may change the entry, and whose flight goes on.
LEMMA CallKeepsFlight ==
    ASSUME FlightInv, Given, NEW r \in Readers, NEW call \in Calls, reader' = [reader EXCEPT ![r] = call],
           call.pc = "store" => call.val \in Versions,
           call.pc \in {"capture", "fetch", "store", "finish"} <=> Flying(r),
           entry' \in ReadEntries, entry'.running <=> entry.running, Enabled(entry'), Probing(entry'),
           cache' \in Caches(Versions), UNCHANGED <<now, dev, bus, writer, floor>>
    PROVE  FlightInv'
<1>1. /\ reader' \in [Readers -> Calls]
      /\ \A q \in Readers : At(q, "store")' => reader'[q].val \in Versions
      /\ \A q \in Readers : Flying(q)' <=> Flying(q)
  BY CallMoves DEF FlightInv
<1>2. OneFlight'
  BY <1>1, FlightKept DEF FlightInv
<1>3. Enabled(entry)' /\ Probing(entry)'
  BY DEF Enabled, Probing, breakerEnabled
<1> QED
  BY <1>1, <1>2, <1>3 DEF FlightInv, Types

\* The call after the shadow was consulted.
Consulted(r) ==
    LET call == reader[r]
        asks == call.maxAge > 0 /\ call.passes > 0
        hits == asks /\ LookupHits(cache, K, call.maxAge, now)
    IN  [call EXCEPT !.pc = "lock", !.passes = IF asks THEN call.passes - 1 ELSE call.passes,
                     !.cand = IF hits THEN [val |-> cache.ent[K].val, gen |-> cache.ent[K].gen]
                              ELSE NoCandidate]

LEMMA ConsultFacts ==
    ASSUME Types, Given, NEW r \in Readers, consultSemanticReadShadow(r)
    PROVE  /\ reader' = [reader EXCEPT ![r] = Consulted(r)] /\ Consulted(r) \in Calls
           /\ Consulted(r).pc = "lock" /\ Consulted(r).floor = reader[r].floor
           /\ \/ Consulted(r).cand = NoCandidate
              \/ /\ LookupHits(cache, K, reader[r].maxAge, now)
                 /\ Consulted(r).cand = [val |-> cache.ent[K].val, gen |-> cache.ent[K].gen]
           /\ cache' = LookupCache(cache, K, reader[r].maxAge, now) \/ cache' = cache
           /\ cache' \in Caches(Versions)
           /\ UNCHANGED <<now, entry, dev, bus, writer, floor>>
<1> DEFINE call == reader[r]
           asks == call.maxAge > 0 /\ call.passes > 0
           hits == asks /\ LookupHits(cache, K, call.maxAge, now)
           cand == IF hits THEN [val |-> cache.ent[K].val, gen |-> cache.ent[K].gen] ELSE NoCandidate
           passes == IF asks THEN call.passes - 1 ELSE call.passes
<1>1. call \in Calls /\ cache \in Caches(Versions) /\ K \in Keys /\ NoEntry \notin Entries(Versions)
  BY DEF Types, Given
<1>2. call.passes \in 0 .. 2
  BY <1>1 DEF Calls
<1>3. passes \in 0 .. 2
  BY <1>2
<1>4. hits => cache.ent[K] \in Entries(Versions)
  BY <1>1, CacheFields DEF LookupHits
<1>5. cand \in Candidates \cup {NoCandidate}
  BY <1>4 DEF Entries, Candidates
<1>6. /\ reader' = [reader EXCEPT ![r] = Consulted(r)]
      /\ Consulted(r) = [call EXCEPT !.pc = "lock", !.passes = passes, !.cand = cand]
      /\ cache' = IF asks THEN LookupCache(cache, K, call.maxAge, now) ELSE cache
      /\ UNCHANGED <<now, entry, dev, bus, writer, floor>>
  BY <1>1 DEF consultSemanticReadShadow, Consulted, Calls
<1> HIDE DEF passes, cand
<1>7. "lock" \in Places
  BY DEF Places
<1>8. /\ Consulted(r) \in Calls /\ Consulted(r).pc = "lock" /\ Consulted(r).floor = call.floor
      /\ Consulted(r).cand = cand
  BY <1>1, <1>3, <1>5, <1>6, <1>7 DEF Calls
<1>9. cache' \in Caches(Versions)
  BY <1>1, <1>6, LookupFacts
<1> QED
  BY <1>6, <1>8, <1>9 DEF cand

\* A call that is served from the shadow.
LEMMA ServeShadowFacts ==
    ASSUME Types, Given, NEW r \in Readers, ServeShadow(r)
    PROVE  /\ reader[r].cand \in Candidates
           /\ reader' = [reader EXCEPT ![r] = Returned(reader[r], reader[r].cand.val, "none")]
           /\ Snapshot.gen = reader[r].cand.gen
           /\ entry' \in ReadEntries /\ entry'.running = entry.running
           /\ entry'.breaker = entry.breaker /\ entry'.probes = entry.probes
           /\ entry'.lastOK = reader[r].cand.val /\ entry'.okGen = Snapshot.gen
           /\ Returned(reader[r], reader[r].cand.val, "none") \in Calls
           /\ Returned(reader[r], reader[r].cand.val, "none").pc = "done"
<1>1. /\ reader[r].cand # NoCandidate /\ Snapshot.gen = reader[r].cand.gen
      /\ reader' = [reader EXCEPT ![r] = Returned(reader[r], reader[r].cand.val, "none")]
      /\ entry' = [entry EXCEPT !.okAt = now, !.lastOK = reader[r].cand.val,
                                !.okGen = Snapshot.gen, !.fromShadow = TRUE]
  BY DEF ServeShadow, CandidateHolds, Types
<1>2. reader[r] \in Calls /\ entry \in ReadEntries /\ now \in Nat
  BY DEF Types
<1>3. reader[r].cand \in Candidates
  BY <1>1, <1>2 DEF Calls
<1> DEFINE v == reader[r].cand.val
<1>4. v \in Versions \cup {NoValue} /\ Snapshot.gen \in Nat
  BY <1>3, SnapshotFacts DEF Candidates
<1> HIDE DEF v
<1>5. entry' = [entry EXCEPT !.okAt = now, !.lastOK = v, !.okGen = Snapshot.gen, !.fromShadow = TRUE]
  BY <1>1 DEF v
<1> DEFINE g == Snapshot.gen
<1>6. g \in Nat /\ entry' = [entry EXCEPT !.okAt = now, !.lastOK = v, !.okGen = g, !.fromShadow = TRUE]
  BY <1>4, <1>5
<1> HIDE DEF g
<1>7. /\ entry' \in ReadEntries /\ entry'.running = entry.running
      /\ entry'.breaker = entry.breaker /\ entry'.probes = entry.probes
      /\ entry'.lastOK = v /\ entry'.okGen = g
  BY <1>2, <1>4, <1>6 DEF ReadEntries
<1>8. "none" \in Errors
  BY DEF Errors
<1>9. Returned(reader[r], v, "none") \in Calls /\ Returned(reader[r], v, "none").pc = "done"
  BY <1>2, <1>4, <1>8, ReturnedFacts
<1> QED
  BY <1>1, <1>3, <1>7, <1>9 DEF v, g

\* A call that begins the flight.
LEMMA LaunchFacts ==
    ASSUME FlightInv, Given, NEW r \in Readers, Launch(r)
    PROVE  /\ \E call \in Calls :
                 /\ reader' = [reader EXCEPT ![r] = call] /\ call.pc = "capture"
                 /\ call.cand = NoCandidate /\ call.floor = reader[r].floor
           /\ ~entry.running /\ entry' \in ReadEntries /\ entry'.running
           /\ Enabled(entry') /\ Probing(entry')
           /\ entry'.lastOK = NoValue \/ SameRead(entry, entry')
           /\ UNCHANGED <<cacheVars, dev, bus, writer, floor>>
<1> DEFINE e == guardBreaker(Unserved(r))
           p == IF e.breaker = "half-open" THEN e.probes - 1 ELSE e.probes
           call == [reader[r] EXCEPT !.pc = "capture", !.cand = NoCandidate, !.passes = 0]
<1>1. ~entry.running /\ ~Suppressed(Unserved(r))
  BY DEF Launch, Falls
<1>2. /\ e \in ReadEntries /\ ~e.running /\ Enabled(e) /\ Probing(e)
      /\ e.lastOK = NoValue \/ SameRead(entry, e)
  BY <1>1, GuardedFacts
<1>3. entry' = [e EXCEPT !.running = TRUE, !.probes = IF e.breaker = "half-open" THEN @ - 1 ELSE @]
  BY DEF Launch
<1> HIDE DEF e
<1>4. p \in 0 .. HalfOpenProbeLimit
  <2>1. e.probes \in 0 .. HalfOpenProbeLimit /\ HalfOpenProbeLimit \in Nat
    BY <1>2 DEF ReadEntries, Given
  <2>2. e.breaker = "half-open" => e.probes > 0
    BY <1>2 DEF Probing
  <2> QED
    BY <2>1, <2>2
<1>5. entry' = [e EXCEPT !.running = TRUE, !.probes = p]
  BY <1>2, <1>3 DEF ReadEntries
<1> HIDE DEF p
<1>6. entry' \in ReadEntries /\ entry'.running = TRUE /\ entry'.breaker = e.breaker /\ SameRead(e, entry')
  BY <1>2, <1>4, <1>5 DEF ReadEntries, SameRead
<1>7. /\ entry'.running /\ Enabled(entry') /\ Probing(entry')
      /\ entry'.lastOK = NoValue \/ SameRead(entry, entry')
  BY <1>2, <1>6 DEF Enabled, Probing, SameRead
<1>8. reader[r] \in Calls /\ reader \in [Readers -> Calls]
  BY DEF FlightInv, Types
<1>9. "capture" \in Places /\ NoCandidate \in Candidates \cup {NoCandidate} /\ 0 \in 0 .. 2
  BY DEF Places
<1>10. call \in Calls /\ call.pc = "capture" /\ call.cand = NoCandidate /\ call.floor = reader[r].floor
  BY <1>8, <1>9 DEF Calls
<1>11. reader' = [reader EXCEPT ![r] = call]
  BY <1>8 DEF Launch
<1>12. UNCHANGED <<cacheVars, dev, bus, writer, floor>>
  BY DEF Launch
<1> HIDE DEF call
<1> QED
  BY <1>1, <1>6, <1>7, <1>10, <1>11, <1>12

\* What the fetch offers to the shadow.
Fetched(r) == [reader[r].val EXCEPT !.at = now]
Offer(r) == [src |-> "active", val |-> Fetched(r), obs |-> now, start |-> reader[r].start]
SameBytes(v) == Has(cache, K) /\ cache.ent[K].val # NoValue /\ cache.ent[K].val.ver = v.ver
Stored(r) == Write(cache, K, Offer(r), SameBytes(Fetched(r)))

\* A call whose fetched value is offered to the shadow.
LEMMA StoreFacts ==
    ASSUME Types, Given, NEW r \in Readers, StoreFetched(r)
    PROVE  /\ Offer(r) \in Writes(Versions) /\ Fetched(r) \in Versions
           /\ Fetched(r).ver = reader[r].val.ver
           /\ cache' = Stored(r).c /\ cache' \in Caches(Versions)
           /\ \E call \in Calls :
                 /\ reader' = [reader EXCEPT ![r] = call]
                 /\ call.pc = "finish" /\ call.val = Fetched(r) /\ call.floor = reader[r].floor
                 /\ call.cand = reader[r].cand
                 /\ call.written = IF Stored(r).accepted THEN Stored(r).gen ELSE reader[r].start
           /\ UNCHANGED <<now, entry, dev, bus, writer, floor>>
<1> DEFINE v == Fetched(r)
           res == Stored(r)
           wr == IF res.accepted THEN res.gen ELSE reader[r].start
           er == IF res.reason \in superseding THEN "superseded" ELSE "none"
           call == [reader[r] EXCEPT !.pc = "finish", !.val = v, !.written = wr, !.err = er]
<1>1. /\ reader[r] \in Calls /\ reader \in [Readers -> Calls] /\ reader[r].val \in Versions
      /\ now \in Nat /\ cache \in Caches(Versions) /\ K \in Keys /\ NoEntry \notin Entries(Versions)
      /\ CacheBounds /\ reader[r].start \in Nat
  BY DEF Types, Given, StoreFetched, Calls
<1>2. v \in Versions /\ v.ver = reader[r].val.ver
  BY <1>1 DEF Versions, Fetched
<1> HIDE DEF v
<1>3. Offer(r) \in Writes(Versions)
  BY <1>1, <1>2 DEF Offer, Writes, Sources, v
<1>4. res.c \in Caches(Versions) /\ (res.accepted => res.gen = res.c.ent[K].gen /\ res.c.ent[K] \in Entries(Versions))
  <2> DEFINE w == Offer(r)
             same == SameBytes(Fetched(r))
  <2> HIDE DEF w, same
  <2>1. LET y == Write(cache, K, w, same)
        IN  y.c \in Caches(Versions) /\ (y.accepted => y.gen = y.c.ent[K].gen /\ y.c.ent[K] \in Entries(Versions))
    BY <1>1, <1>3, WriteFacts DEF w
  <2> QED
    BY <2>1 DEF w, same, Stored
<1>5. /\ cache' = res.c /\ UNCHANGED <<now, entry, dev, bus, writer, floor>>
      /\ reader' = [reader EXCEPT ![r].pc = "finish", ![r].val = v,
                         ![r].written = wr, ![r].err = er]
  BY DEF StoreFetched, Stored, Offer, SameBytes, Fetched, v
<1> HIDE DEF res
<1>6. wr \in Nat /\ er \in Errors /\ "finish" \in Places
  BY <1>1, <1>4 DEF Entries, Errors, Places
<1> HIDE DEF wr, er
<1>7. reader' = [reader EXCEPT ![r] = call]
  BY <1>1, <1>5
<1>8. /\ call \in Calls /\ call.pc = "finish" /\ call.val = v /\ call.floor = reader[r].floor
      /\ call.cand = reader[r].cand /\ call.written = wr
  BY <1>1, <1>2, <1>6 DEF Calls
<1> HIDE DEF call
<1> QED
  BY <1>2, <1>3, <1>4, <1>5, <1>7, <1>8 DEF v, res, wr

\* The end of a flight whose value is served.
LEMMA SucceededFacts ==
    ASSUME FlightInv, Given, NEW r \in Readers, FetchSucceeded(r)
    PROVE  /\ reader' = [Woken EXCEPT ![r] = Returned(reader[r], reader[r].val, "none")]
           /\ Returned(reader[r], reader[r].val, "none") \in Calls
           /\ Returned(reader[r], reader[r].val, "none").pc = "done"
           /\ entry' \in ReadEntries /\ ~entry'.running /\ Enabled(entry') /\ Probing(entry')
           /\ entry'.lastOK = reader[r].val /\ entry'.okGen = reader[r].written
           /\ UNCHANGED <<cacheVars, dev, bus, writer, floor>>
<1> DEFINE v == reader[r].val
           g == reader[r].written
           e == [entry EXCEPT !.running = FALSE, !.okAt = now, !.lastOK = v,
                              !.okGen = g, !.fromShadow = FALSE, !.failures = 0]
<1>1. reader[r] \in Calls /\ entry \in ReadEntries /\ now \in Nat /\ HalfOpenProbeLimit \in Nat \ {0}
  BY DEF FlightInv, Types, Given
<1>2. v \in Versions \cup {NoValue} /\ g \in Nat
  BY <1>1 DEF Calls
<1>3. Woken[r] = reader[r] /\ Woken = [q \in Readers |-> Woken[q]]
  BY DEF Woken, FetchSucceeded, At
<1>4. /\ reader' = [Woken EXCEPT ![r] = Returned(reader[r], v, "none")]
      /\ entry' = transitionBreaker(e, "closed")
      /\ UNCHANGED <<cacheVars, dev, bus, writer, floor>>
  BY <1>3 DEF FetchSucceeded
<1> HIDE DEF v, g
<1>5. e \in ReadEntries /\ ~e.running /\ e.lastOK = v /\ e.okGen = g /\ e.breaker = entry.breaker
  BY <1>1, <1>2 DEF ReadEntries
<1> HIDE DEF e
<1>6. /\ entry' \in ReadEntries /\ entry'.running = e.running /\ SameRead(e, entry')
      /\ entry'.breaker = IF breakerEnabled THEN "closed" ELSE e.breaker
  <2>1. "closed" \in Breakers
    BY DEF Breakers
  <2> QED
    BY <1>1, <1>4, <1>5, <2>1, TransitionFacts
<1>7. entry'.breaker = "closed"
  BY <1>5, <1>6 DEF FlightInv, Enabled
<1>8. "none" \in Errors
  BY DEF Errors
<1>9. Returned(reader[r], v, "none") \in Calls /\ Returned(reader[r], v, "none").pc = "done"
  BY <1>1, <1>2, <1>8, ReturnedFacts
<1> QED
  BY <1>4, <1>5, <1>6, <1>7, <1>9 DEF v, g, Enabled, Probing, SameRead

\* The end of a flight that was overtaken, or failed.
LEMMA EndedFacts ==
    ASSUME FlightInv, Given, NEW r \in Readers, FetchSuperseded(r) \/ FetchFailed(r)
    PROVE  /\ At(r, "finish")
           /\ \E call \in Calls :
                 /\ reader' = [Woken EXCEPT ![r] = call]
                 /\ call.pc = "consult" \/ (call.pc = "done" /\ call.err # "none")
                 /\ call.cand = NoCandidate \/ call.cand = reader[r].cand
                 /\ call.floor = 0 \/ call.floor = reader[r].floor
           /\ entry' \in ReadEntries /\ ~entry'.running /\ Enabled(entry') /\ Probing(entry')
           /\ entry'.lastOK = NoValue \/ SameRead(entry, entry')
           /\ UNCHANGED <<cacheVars, dev, bus, writer, floor>>
<1> DEFINE e == [entry EXCEPT !.running = FALSE]
           Good(call) == /\ call \in Calls /\ reader' = [Woken EXCEPT ![r] = call]
                         /\ call.pc = "consult" \/ (call.pc = "done" /\ call.err # "none")
                         /\ call.cand = NoCandidate \/ call.cand = reader[r].cand
                         /\ call.floor = 0 \/ call.floor = reader[r].floor
<1>1. /\ reader[r] \in Calls /\ entry \in ReadEntries /\ now \in Nat
      /\ HalfOpenProbeLimit \in Nat \ {0} /\ Enabled(entry)
  BY DEF FlightInv, Types, Given
<1>2. /\ At(r, "finish") /\ UNCHANGED <<cacheVars, dev, bus, writer, floor>>
  BY DEF FetchSuperseded, FetchFailed
<1>3. Woken[r] = reader[r] /\ Woken = [q \in Readers |-> Woken[q]]
  BY <1>2 DEF Woken, At
<1>4. /\ e \in ReadEntries /\ ~e.running /\ e.breaker = entry.breaker /\ e.probes = entry.probes
      /\ SameRead(entry, e)
  BY <1>1 DEF ReadEntries, SameRead
<1>5. Enabled(e)
  BY <1>1, <1>4 DEF Enabled
<1>6. ASSUME FetchFailed(r)
      PROVE  /\ \E call : Good(call)
             /\ entry' \in ReadEntries /\ ~entry'.running /\ Enabled(entry') /\ Probing(entry')
             /\ entry'.lastOK = NoValue \/ SameRead(entry, entry')
  <2>1. entry' = recordFailure(e) /\ reader' = [Woken EXCEPT ![r] = Returned(reader[r], NoValue, "failed")]
    BY <1>3, <1>6 DEF FetchFailed
  <2> HIDE DEF e
  <2>2. /\ entry' \in ReadEntries /\ entry'.running = e.running /\ SameRead(e, entry')
        /\ Enabled(entry') /\ Probing(entry')
    BY <1>1, <1>4, <1>5, <2>1, FailureFacts
  <2>3. "failed" \in Errors \ {"none"}
    BY DEF Errors
  <2> DEFINE call == Returned(reader[r], NoValue, "failed")
  <2>4. call \in Calls /\ call.pc = "done" /\ call.err = "failed" /\ call.cand = NoCandidate /\ call.floor = 0
    BY <1>1, <2>3, FailedFacts
  <2>5. reader' = [Woken EXCEPT ![r] = call]
    BY <2>1
  <2> HIDE DEF call
  <2>6. Good(call)
    BY <2>4, <2>5
  <2>7. \E x : Good(x)
    BY <2>6
  <2> HIDE DEF Good
  <2> QED
    BY <1>4, <2>2, <2>7 DEF SameRead
<1>7. ASSUME FetchSuperseded(r)
      PROVE  /\ \E call : Good(call)
             /\ entry' \in ReadEntries /\ ~entry'.running /\ Enabled(entry') /\ Probing(entry')
             /\ entry'.lastOK = NoValue \/ SameRead(entry, entry')
  <2> DEFINE again == [reader[r] EXCEPT !.pc = "consult", !.recompute = reader[r].recompute - 1,
                          !.val = NoValue, !.err = "none",
                          !.start = 0, !.written = 0, !.passes = semanticReadShadowMaxPreActivePasses]
             gone == Returned(reader[r], NoValue, "revalidationExhausted")
             call == IF reader[r].recompute > 0 THEN again ELSE gone
             c == clearSemanticReadCache(e)
  <2>1. entry' = returnProbe(c) /\ reader' = [Woken EXCEPT ![r] = call]
    BY <1>1, <1>3, <1>7 DEF FetchSuperseded, Calls
  <2> HIDE DEF e
  <2>2. c \in ReadEntries /\ Forgets(e, c) /\ c.lastOK = NoValue
    BY <1>4, ClearFacts
  <2> HIDE DEF c
  <2>3. Enabled(c)
    BY <1>5, <2>2 DEF Forgets, Enabled
  <2>4. /\ entry' \in ReadEntries /\ entry'.running = c.running /\ SameRead(c, entry')
        /\ Enabled(entry') /\ Probing(entry')
    BY <1>1, <2>1, <2>2, <2>3, ReturnFacts
  <2>5. "revalidationExhausted" \in Errors \ {"none"} /\ "consult" \in Places /\ "none" \in Errors
    BY DEF Errors, Places
  <2>6. /\ gone \in Calls /\ gone.pc = "done" /\ gone.err = "revalidationExhausted"
        /\ gone.cand = NoCandidate /\ gone.floor = 0
    BY <1>1, <2>5, FailedFacts
  <2>7. reader[r].recompute > 0 =>
           again \in Calls /\ again.pc = "consult" /\ again.cand = reader[r].cand /\ again.floor = reader[r].floor
    <3>1. semanticReadShadowMaxPreActivePasses \in 0 .. 2 /\ NoValue \in Versions \cup {NoValue}
      BY DEF semanticReadShadowMaxPreActivePasses
    <3>2. reader[r].recompute \in 0 .. 1
      BY <1>1 DEF Calls
    <3>3. reader[r].recompute > 0 => reader[r].recompute - 1 \in 0 .. 1
      BY <3>2
    <3> QED
      BY <1>1, <2>5, <3>1, <3>3 DEF Calls
  <2> HIDE DEF gone, again
  <2>8. Good(call)
    <3>1. CASE reader[r].recompute > 0
      <4>1. call = again /\ reader' = [Woken EXCEPT ![r] = call]
        BY <2>1, <3>1
      <4>2. /\ again \in Calls /\ again.pc = "consult" /\ again.cand = reader[r].cand
            /\ again.floor = reader[r].floor
        BY <2>7, <3>1
      <4> HIDE DEF call
      <4>3. /\ call \in Calls /\ call.pc = "consult" /\ call.cand = reader[r].cand
            /\ call.floor = reader[r].floor
        BY <4>1, <4>2
      <4> QED
        BY <4>1, <4>3
    <3>2. CASE ~(reader[r].recompute > 0)
      <4>1. call = gone
        BY <3>2
      <4>2. gone.err # "none"
        BY <2>6
      <4> QED
        BY <2>1, <2>6, <4>1, <4>2
    <3> QED
      BY <3>1, <3>2
  <2> HIDE DEF call
  <2>9. \E x : Good(x)
    BY <2>8
  <2> HIDE DEF Good
  <2> QED
    BY <1>4, <2>2, <2>4, <2>9 DEF SameRead, Forgets
<1> HIDE DEF Good
<1> QED
  BY <1>2, <1>6, <1>7 DEF Good

\* Every step keeps FlightInv.
LEMMA FlightNext ==
    ASSUME FlightInv, Given, [Next]_vars
    PROVE  FlightInv'
<1>1. Types /\ OneFlight /\ Enabled(entry) /\ Probing(entry) /\ entry \in ReadEntries
      /\ cache \in Caches(Versions)
  BY DEF FlightInv, Types
<1>2. ASSUME NEW r \in Readers, QuietStep(r) PROVE FlightInv'
  <2>1. PICK call \in Calls :
          /\ reader' = [reader EXCEPT ![r] = call]
          /\ call.pc = "store" => call.val \in Versions
          /\ call.pc \in {"capture", "fetch", "store", "finish"} <=> Flying(r)
    BY <1>1, <1>2, QuietCall
  <2>2. UNCHANGED <<cacheVars, entry, dev, bus, writer, floor>>
    BY <1>1, <1>2, QuietCall
  <2>3. /\ entry' \in ReadEntries /\ (entry'.running <=> entry.running)
        /\ Enabled(entry') /\ Probing(entry') /\ cache' \in Caches(Versions)
        /\ UNCHANGED <<now, dev, bus, writer, floor>>
    BY <1>1, <2>2 DEF cacheVars
  <2> QED
    BY <2>1, <2>3, CallKeepsFlight
<1>3. ASSUME NEW r \in Readers, consultSemanticReadShadow(r) PROVE FlightInv'
  <2> DEFINE call == Consulted(r)
  <2>1. /\ reader' = [reader EXCEPT ![r] = call] /\ call \in Calls /\ call.pc = "lock"
        /\ cache' \in Caches(Versions) /\ UNCHANGED <<now, entry, dev, bus, writer, floor>>
    BY <1>1, <1>3, ConsultFacts
  <2>2. ~Flying(r)
    BY <1>3 DEF consultSemanticReadShadow, At, Flying
  <2> HIDE DEF call
  <2>3. /\ call.pc = "store" => call.val \in Versions
        /\ call.pc \in {"capture", "fetch", "store", "finish"} <=> Flying(r)
        /\ entry' \in ReadEntries /\ (entry'.running <=> entry.running)
        /\ Enabled(entry') /\ Probing(entry') /\ UNCHANGED <<now, dev, bus, writer, floor>>
    BY <1>1, <2>1, <2>2
  <2> QED
    BY <2>1, <2>3, CallKeepsFlight
<1>4. ASSUME NEW r \in Readers, ServeShadow(r) PROVE FlightInv'
  <2> DEFINE call == Returned(reader[r], reader[r].cand.val, "none")
  <2>1. /\ reader' = [reader EXCEPT ![r] = call] /\ call \in Calls /\ call.pc = "done"
        /\ entry' \in ReadEntries /\ entry'.running = entry.running
        /\ entry'.breaker = entry.breaker /\ entry'.probes = entry.probes
    BY <1>1, <1>4, ServeShadowFacts
  <2>2. ~Flying(r) /\ UNCHANGED <<cacheVars, dev, bus, writer, floor>>
    BY <1>4 DEF ServeShadow, At, Flying
  <2> HIDE DEF call
  <2>3. /\ call.pc = "store" => call.val \in Versions
        /\ call.pc \in {"capture", "fetch", "store", "finish"} <=> Flying(r)
        /\ entry'.running <=> entry.running
    BY <2>1, <2>2
  <2>4. Enabled(entry') /\ Probing(entry')
    BY <1>1, <2>1 DEF Enabled, Probing
  <2>5. cache' \in Caches(Versions) /\ UNCHANGED <<now, dev, bus, writer, floor>>
    BY <1>1, <2>2 DEF cacheVars
  <2> QED
    BY <2>1, <2>3, <2>4, <2>5, CallKeepsFlight
<1>5. ASSUME NEW r \in Readers, Suppress(r) PROVE FlightInv'
  <2> DEFINE call == Returned(reader[r], NoValue, "circuitOpen")
  <2>1. /\ reader' = [reader EXCEPT ![r] = call] /\ entry' = guardBreaker(Unserved(r))
        /\ ~entry.running /\ ~Flying(r) /\ UNCHANGED <<cacheVars, dev, bus, writer, floor>>
    BY <1>5 DEF Suppress, Falls, At, Flying
  <2>2. reader[r] \in Calls /\ "circuitOpen" \in Errors \ {"none"}
    BY <1>1 DEF Types, Errors
  <2>3. call \in Calls /\ call.pc = "done"
    BY <2>2, FailedFacts
  <2> HIDE DEF call
  <2>4. entry' \in ReadEntries /\ ~entry'.running /\ Enabled(entry') /\ Probing(entry')
    BY <2>1, GuardedFacts
  <2>5. /\ call.pc = "store" => call.val \in Versions
        /\ call.pc \in {"capture", "fetch", "store", "finish"} <=> Flying(r)
        /\ entry'.running <=> entry.running
    BY <2>1, <2>3, <2>4
  <2>6. cache' \in Caches(Versions) /\ UNCHANGED <<now, dev, bus, writer, floor>>
    BY <1>1, <2>1 DEF cacheVars
  <2> QED
    BY <2>1, <2>3, <2>4, <2>5, <2>6, CallKeepsFlight
<1>6. ASSUME NEW r \in Readers, Launch(r) PROVE FlightInv'
  <2>1. PICK call \in Calls : reader' = [reader EXCEPT ![r] = call] /\ call.pc = "capture"
    BY <1>6, LaunchFacts
  <2>2. /\ ~entry.running /\ entry' \in ReadEntries /\ entry'.running
        /\ Enabled(entry') /\ Probing(entry') /\ UNCHANGED <<cacheVars, dev, bus, writer, floor>>
    BY <1>6, LaunchFacts
  <2>3. /\ reader' \in [Readers -> Calls]
        /\ \A q \in Readers : At(q, "store")' => reader'[q].val \in Versions
        /\ \A q \in Readers \ {r} : Flying(q)' <=> Flying(q)
        /\ Flying(r)'
    BY <1>1, <2>1, CallMoves
  <2>4. OneFlight'
    BY <1>1, <2>2, <2>3, FlightBegins
  <2>5. Enabled(entry)' /\ Probing(entry)'
    BY <2>2 DEF Enabled, Probing, breakerEnabled
  <2> QED
    BY <1>1, <2>2, <2>3, <2>4, <2>5 DEF FlightInv, Types, cacheVars
<1>7. ASSUME NEW r \in Readers, StoreFetched(r) PROVE FlightInv'
  <2>1. PICK call \in Calls : reader' = [reader EXCEPT ![r] = call] /\ call.pc = "finish"
    BY <1>1, <1>7, StoreFacts
  <2>2. cache' \in Caches(Versions) /\ UNCHANGED <<now, entry, dev, bus, writer, floor>>
    BY <1>1, <1>7, StoreFacts
  <2>3. Flying(r)
    BY <1>7 DEF StoreFetched, At, Flying
  <2>4. /\ call.pc = "store" => call.val \in Versions
        /\ call.pc \in {"capture", "fetch", "store", "finish"} <=> Flying(r)
        /\ entry' \in ReadEntries /\ (entry'.running <=> entry.running)
        /\ Enabled(entry') /\ Probing(entry') /\ UNCHANGED <<now, dev, bus, writer, floor>>
    BY <1>1, <2>1, <2>2, <2>3
  <2> QED
    BY <2>1, <2>2, <2>4, CallKeepsFlight
<1>8. ASSUME NEW r \in Readers, NEW call \in Calls, At(r, "finish"), reader' = [Woken EXCEPT ![r] = call],
             call.pc \in {"consult", "done"}, entry' \in ReadEntries, ~entry'.running,
             Enabled(entry'), Probing(entry'), UNCHANGED <<cacheVars, dev, bus, writer, floor>>
      PROVE  FlightInv'
  <2>1. Flying(r) /\ call.pc # "store"
    BY <1>8 DEF At, Flying
  <2>2. /\ reader' \in [Readers -> Calls]
        /\ \A q \in Readers : At(q, "store")' => reader'[q].val \in Versions
        /\ \A q \in Readers \ {r} : Flying(q)' <=> Flying(q)
        /\ ~Flying(r)'
    BY <1>1, <1>8, <2>1, CallsWake
  <2>3. OneFlight'
    BY <1>1, <1>8, <2>1, <2>2, FlightEnds
  <2>4. Enabled(entry)' /\ Probing(entry)'
    BY <1>8 DEF Enabled, Probing, breakerEnabled
  <2> QED
    BY <1>1, <1>8, <2>2, <2>3, <2>4 DEF FlightInv, Types, cacheVars
<1>9. ASSUME NEW r \in Readers, FetchSucceeded(r) PROVE FlightInv'
  <2> DEFINE call == Returned(reader[r], reader[r].val, "none")
  <2>1. /\ reader' = [Woken EXCEPT ![r] = call] /\ call \in Calls /\ call.pc = "done"
        /\ entry' \in ReadEntries /\ ~entry'.running /\ Enabled(entry') /\ Probing(entry')
        /\ UNCHANGED <<cacheVars, dev, bus, writer, floor>>
    BY <1>9, SucceededFacts
  <2>2. At(r, "finish")
    BY <1>9 DEF FetchSucceeded
  <2> HIDE DEF call
  <2>3. call.pc \in {"consult", "done"}
    BY <2>1
  <2> QED
    BY <1>8, <2>1, <2>2, <2>3
<1>10. ASSUME NEW r \in Readers, FetchSuperseded(r) \/ FetchFailed(r) PROVE FlightInv'
  <2>1. PICK call \in Calls : /\ reader' = [Woken EXCEPT ![r] = call]
                              /\ call.pc = "consult" \/ call.pc = "done"
    BY <1>10, EndedFacts
  <2>2. /\ At(r, "finish") /\ entry' \in ReadEntries /\ ~entry'.running
        /\ Enabled(entry') /\ Probing(entry') /\ UNCHANGED <<cacheVars, dev, bus, writer, floor>>
    BY <1>10, EndedFacts
  <2>3. call.pc \in {"consult", "done"}
    BY <2>1
  <2> QED
    BY <1>8, <2>1, <2>2, <2>3
<1>11. CASE UNCHANGED vars
  BY <1>1, <1>11, WorldStep DEF vars, cacheVars, schedulerVars, Types
<1>12. CASE \E r \in Readers : GetWatch(r) \/ ReaderStep(r) \/ ContextDone(r)
  <2>1. PICK r \in Readers : GetWatch(r) \/ ReaderStep(r) \/ ContextDone(r)
    BY <1>12
  <2>2. \/ QuietStep(r) \/ consultSemanticReadShadow(r) \/ ServeShadow(r) \/ Suppress(r) \/ Launch(r)
        \/ StoreFetched(r) \/ FetchSucceeded(r) \/ FetchSuperseded(r) \/ FetchFailed(r)
    BY <2>1 DEF ReaderStep, QuietStep
  <2> QED
    BY <1>2, <1>3, <1>4, <1>5, <1>6, <1>7, <1>9, <1>10, <2>2
<1> QED
  BY <1>11, <1>12, WorldKeepsFlight DEF Next

\* The initial state.
LEMMA FlightInit ==
    ASSUME Init, Given
    PROVE  FlightInv
<1> DEFINE k0 == [gen |-> 0, invAt |-> 0, high |-> 0, snap |-> AbsentSnapshot(0)]
<1>1. k0 \in KeyStates
  BY AbsentType DEF KeyStates
<1>2. cache \in Caches(Versions)
  BY <1>1 DEF Init, EmptyCache, Caches, Descriptors, Given
<1>3. entry \in ReadEntries /\ ~entry.running /\ entry.breaker = "closed"
  BY DEF Init, NewReadEntry, ReadEntries, Breakers, Given
<1>4. reader \in [Readers -> Calls] /\ \A r \in Readers : reader[r] = NoCall
  BY NoCallType DEF Init
<1>5. \A r \in Readers : reader[r].pc = "idle"
  BY <1>4 DEF NoCall
<1>6. OneFlight /\ \A r \in Readers : ~At(r, "store")
  BY <1>3, <1>5 DEF OneFlight, Flying, At
<1>7. Enabled(entry) /\ Probing(entry)
  BY <1>3 DEF Enabled, Probing
<1>8. now \in Nat \ {0} /\ dev \in Nat /\ writer \in Nat /\ floor \in Nat /\ bus \in Seq(Events)
  BY DEF Init
<1> QED
  BY <1>2, <1>3, <1>4, <1>6, <1>7, <1>8 DEF FlightInv, Types

\* Types, one flight, and the allowance of the breaker are kept by every step,
\* whatever the sources, capacities, windows and budgets.
THEOREM FlightInvariant == Spec => []FlightInv
<1>1. Given
  BY CacheBounds, BootKinds, SchedulerBounds DEF Given
<1>2. Init => FlightInv
  BY <1>1, FlightInit
<1>3. FlightInv /\ [Next]_vars => FlightInv'
  BY <1>1, FlightNext
<1> QED
  BY <1>2, <1>3, PTL DEF Spec

\* Identical reads are one flight, and the running mark is never left behind:
\* not by an error, a superseded value, or a call that gives up waiting.
THEOREM ReadsAreOneFlight == Spec => []OneFlight
<1>1. FlightInv => OneFlight
  BY DEF FlightInv
<1> QED
  BY <1>1, FlightInvariant, PTL

\* A half-open breaker always has a probe to give or one under way.
THEOREM ProbesAreReturned == Spec => []ProbeAvailable
<1>1. FlightInv => ProbeAvailable
  <2> SUFFICES ASSUME FlightInv PROVE ProbeAvailable
    OBVIOUS
  <2>1. entry \in ReadEntries /\ reader \in [Readers -> Calls] /\ Probing(entry)
    BY DEF FlightInv, Types
  <2>2. /\ entry.breaker \in {"closed", "open", "half-open"} /\ entry.running \in BOOLEAN
        /\ entry.probes \in 0 .. HalfOpenProbeLimit
    BY <2>1 DEF ReadEntries, Breakers
  <2>3. \A r \in Readers : reader[r].passes \in 0 .. 2 /\ reader[r].recompute \in 0 .. 1
    BY <2>1 DEF Calls
  <2> QED
    BY <2>1, <2>2, <2>3 DEF ProbeAvailable, TypeOK, Probing
<1> QED
  BY <1>1, FlightInvariant, PTL

-----------------------------------------------------------------------------
(* No stale read                                                             *)

Gen(c) == c.key[K].gen

\* A passive event of time t is rejected: it is not newer than the barrier, or
\* it is older than what the entry shows or showed.
Barred(c, t) ==
    \/ c.key[K].invAt # 0 /\ t <= c.key[K].invAt
    \/ /\ Has(c, K)
       /\ t < c.ent[K].obs \/ (t = c.ent[K].obs /\ c.ent[K].src = "active")

\* An entry that is not present carries the barrier, and what it last showed is
\* not much younger than the barrier.
Lag(c) ==
    Has(c, K) /\ c.ent[K].st # "present" =>
        /\ c.key[K].invAt # 0 /\ c.ent[K].invAt = c.key[K].invAt
        /\ c.ent[K].obs <= c.key[K].invAt + PassiveDelay

\* A present entry is not older than the newest applied invalidation.
Shows(c, f) ==
    Has(c, K) /\ c.ent[K].st = "present" => c.ent[K].val \in Versions /\ c.ent[K].val.ver >= f

\* The register is pinned, and the cache is coherent, exact and timely.
CacheOK(c, t) ==
    /\ c \in Caches(Versions) /\ AllPinned(c) /\ Exact(c)
    /\ \A k \in Keys : CoherentAt(c, k) /\ TimelyAt(c, k, t)

\* Queued events are in order and not too late, and the ones that an applied
\* invalidation overtook will be rejected.
Queue(b, c, f, t, d) ==
    /\ \A i \in DOMAIN b :
          /\ b[i].t > 0 /\ b[i].t <= t /\ t <= b[i].t + PassiveDelay
          /\ b[i].ver <= d
          /\ b[i].ver < f => Barred(c, b[i].t)
    /\ \A i, j \in DOMAIN b : i <= j => b[i].ver <= b[j].ver

\* The scheduler's own cached value is of an older generation or not too old.
ReadOK(e, g, f) ==
    e.lastOK # NoValue => e.okGen <= g /\ (e.okGen = g => e.lastOK.ver >= f)

\* So are the candidate and the fetched value of a call, and what it returned
\* is not older than the invalidations applied before it began.
CallOK(call, g, f) ==
    /\ call.cand # NoCandidate =>
          /\ call.cand.gen <= g
          /\ call.cand.gen = g => call.cand.val \in Versions /\ call.cand.val.ver >= f
    /\ call.pc \in {"fetch", "store"} => call.start <= g
    /\ call.pc = "store" /\ call.start = g => call.val.ver >= f
    /\ call.pc = "finish" /\ call.err = "none" =>
          /\ call.val \in Versions /\ call.written <= g
          /\ call.written = g => call.val.ver >= f
    /\ call.floor <= f
    /\ call.pc = "done" /\ call.err = "none" => call.val \in Versions /\ call.val.ver >= call.floor

\* The inductive invariant behind NoStaleRead.
StaleInv ==
    /\ FlightInv
    /\ CacheOK(cache, now)
    /\ Queue(bus, cache, floor, now, dev)
    /\ Lag(cache) /\ Shows(cache, floor)
    /\ floor <= dev /\ writer <= dev
    /\ ReadOK(entry, Gen(cache), floor)
    /\ \A r \in Readers : CallOK(reader[r], Gen(cache), floor)

\* Two caches in which the register differs at most in its pin and its snapshot.
LEMMA KeptShows ==
    ASSUME NEW c, NEW d, Kept(c, d, K)
    PROVE  /\ Gen(d) = Gen(c)
           /\ \A t : Barred(c, t) => Barred(d, t)
           /\ Lag(c) => Lag(d)
           /\ \A f : Shows(c, f) => Shows(d, f)
BY DEF Kept, SameEntry, Gen, Barred, Lag, Shows

\* An invalidation at i.
LEMMA InvalidatedShows ==
    ASSUME Given, NEW c \in Caches(Versions), NEW d \in Caches(Versions), NEW i \in Nat \ {0},
           Invalidated(c, d, K, i), Has(c, K) => c.ent[K].obs <= i + PassiveDelay
    PROVE  /\ Gen(d) = Gen(c) + 1
           /\ \A t \in Nat : Barred(c, t) \/ t <= i => Barred(d, t)
           /\ Lag(d)
           /\ \A f : Shows(d, f)
<1>1. /\ c.key[K].invAt \in Nat /\ (Has(c, K) => c.ent[K].obs \in Nat) /\ PassiveDelay \in Nat
      /\ K \in Keys
  BY CacheFields DEF Given, KeyStates, Entries
<1>2. d.key[K].invAt \in Nat \ {0} /\ d.key[K].invAt >= i /\ d.key[K].invAt >= c.key[K].invAt
  BY <1>1 DEF Invalidated, Later
<1>3. ASSUME NEW t \in Nat, Barred(c, t) \/ t <= i PROVE Barred(d, t)
  <2>1. CASE t <= i \/ (c.key[K].invAt # 0 /\ t <= c.key[K].invAt)
    BY <1>1, <1>2, <2>1 DEF Barred
  <2>2. CASE Has(c, K) /\ (t < c.ent[K].obs \/ (t = c.ent[K].obs /\ c.ent[K].src = "active"))
    BY <2>2 DEF Barred, Invalidated
  <2> QED
    BY <1>3, <2>1, <2>2 DEF Barred
<1>4. Lag(d)
  BY <1>1, <1>2 DEF Lag, Invalidated
<1>5. \A f : Shows(d, f)
  BY DEF Shows, Invalidated
<1>6. Gen(d) = Gen(c) + 1
  BY DEF Gen, Invalidated
<1> QED
  BY <1>3, <1>4, <1>5, <1>6

\* An accepted write.
LEMMA WroteShows ==
    ASSUME Given, NEW c \in Caches(Versions), NEW d \in Caches(Versions), NEW w \in Writes(Versions),
           Wrote(c, d, K, w), CoherentAt(d, K), Has(d, K)
    PROVE  /\ Gen(d) = IF Has(c, K) THEN Gen(c) ELSE Gen(c) + 1
           /\ \A t : Barred(d, t) <=> t < w.obs \/ (t = w.obs /\ w.src = "active")
           /\ Lag(d)
           /\ \A f : w.val.ver >= f => Shows(d, f)
           /\ d.ent[K].gen = Gen(d)
<1>1. w.val \in Versions
  BY DEF Writes
<1>2. /\ d.ent[K].st = "present" /\ d.ent[K].val = w.val /\ d.ent[K].obs = w.obs
      /\ d.ent[K].src = w.src /\ d.key[K].invAt = 0
      /\ d.key[K].gen = IF Has(c, K) THEN c.key[K].gen ELSE c.key[K].gen + 1
  BY DEF Wrote, HoldsWrite
<1>3. d.ent[K].gen = Gen(d)
  BY DEF CoherentAt, Gen
<1> QED
  BY <1>1, <1>2, <1>3 DEF Gen, Barred, Lag, Shows

\* A compaction: when the entry goes, every event it held back is gone too.
LEMMA CompactedShows ==
    ASSUME Given, NEW c \in Caches(Versions), NEW d \in Caches(Versions), NEW n \in Nat,
           Has(c, K), Compacted(c, d, K), Lag(c),
           ~Has(d, K) => n >= c.ent[K].invAt + TombstoneHardLifespan
    PROVE  /\ Gen(d) = Gen(c) + 1
           /\ \A t \in Nat : Barred(c, t) /\ n <= t + PassiveDelay => Barred(d, t)
           /\ Lag(d)
           /\ \A f : Shows(d, f)
<1>1. /\ c.key[K].invAt \in Nat /\ c.ent[K].obs \in Nat /\ PassiveDelay \in Nat
      /\ TombstoneHardLifespan \in Nat /\ 2 * PassiveDelay < TombstoneHardLifespan
  <2>1. K \in Keys
    BY DEF Given
  <2> QED
    BY <2>1, CacheFields DEF Given, KeyStates, Entries
<1>2. /\ c.key[K].invAt # 0 /\ c.ent[K].invAt = c.key[K].invAt
      /\ c.ent[K].obs <= c.key[K].invAt + PassiveDelay
  BY DEF Lag, Compacted
<1>3. d.key[K].invAt = c.key[K].invAt
  BY DEF Compacted
<1>4. ASSUME NEW t \in Nat, Barred(c, t), n <= t + PassiveDelay PROVE Barred(d, t)
  <2>1. CASE t <= c.key[K].invAt
    BY <1>2, <1>3, <2>1 DEF Barred
  <2>2. CASE ~(t <= c.key[K].invAt) /\ Has(d, K)
    BY <1>4, <2>2 DEF Barred, Compacted
  <2>3. CASE ~(t <= c.key[K].invAt) /\ ~Has(d, K)
    <3>1. n >= c.key[K].invAt + TombstoneHardLifespan
      BY <1>2, <2>3
    <3>2. t > c.ent[K].obs
      BY <1>1, <1>2, <1>4, <3>1
    <3> QED
      BY <1>1, <1>4, <2>3, <3>2 DEF Barred
  <2> QED
    BY <2>1, <2>2, <2>3
<1>5. Lag(d)
  BY <1>2 DEF Lag, Compacted
<1>6. (\A f : Shows(d, f)) /\ Gen(d) = Gen(c) + 1
  BY DEF Shows, Compacted, Gen
<1> QED
  BY <1>4, <1>5, <1>6

\* A barred event is rejected by the precedence rules.
LEMMA BarredIsRejected ==
    ASSUME Given, NEW c \in Caches(Versions), NEW w \in Writes(Versions), w.src = "passive", NEW same,
           Barred(c, w.obs)
    PROVE  rejectWriteByPrecedence(c, K, w, same) # "none"
<1>1. /\ c.key[K].invAt \in Nat /\ (Has(c, K) => c.ent[K].obs \in Nat) /\ w.obs \in Nat
  <2>1. K \in Keys
    BY DEF Given
  <2> QED
    BY <2>1, CacheFields DEF Given, KeyStates, Entries, Writes
<1>2. ~generationQualifiedActive(c, K, w)
  BY DEF generationQualifiedActive
<1>3. CASE c.key[K].invAt # 0 /\ w.obs <= c.key[K].invAt
  BY <1>1, <1>2, <1>3 DEF rejectWriteByPrecedence
<1>4. CASE /\ ~(c.key[K].invAt # 0 /\ w.obs <= c.key[K].invAt)
           /\ Has(c, K) /\ w.obs < c.ent[K].obs
  BY <1>1, <1>2, <1>4 DEF rejectWriteByPrecedence
<1>5. CASE /\ ~(c.key[K].invAt # 0 /\ w.obs <= c.key[K].invAt)
           /\ Has(c, K) /\ w.obs = c.ent[K].obs /\ c.ent[K].src = "active"
  BY <1>1, <1>2, <1>5 DEF rejectWriteByPrecedence, Precedence
<1> QED
  BY <1>3, <1>4, <1>5 DEF Barred

\* What a call holds stays good when the generation moves with the floor.
LEMMA CallAges ==
    ASSUME NEW call \in Calls, NEW g \in Nat, NEW f \in Nat, NEW g1 \in Nat, NEW f1 \in Nat,
           CallOK(call, g, f), g1 >= g, f1 >= f, g1 = g => f1 = f
    PROVE  CallOK(call, g1, f1)
<1>1. /\ call.start \in Nat /\ call.written \in Nat /\ call.floor \in Nat
      /\ call.cand # NoCandidate => call.cand.gen \in Nat
  BY DEF Calls, Candidates
<1> QED
  BY <1>1 DEF CallOK

\* So does the cached value.
LEMMA ReadAges ==
    ASSUME NEW e \in ReadEntries, NEW g \in Nat, NEW f \in Nat, NEW g1 \in Nat, NEW f1 \in Nat,
           ReadOK(e, g, f), g1 >= g, f1 >= f, g1 = g => f1 = f
    PROVE  ReadOK(e, g1, f1)
<1>1. e.okGen \in Nat
  BY DEF ReadEntries
<1> QED
  BY <1>1 DEF ReadOK

\* The generation of the register is a number.
LEMMA GenType ==
    ASSUME Given, NEW c \in Caches(Versions)
    PROVE  Gen(c) \in Nat
<1>1. K \in Keys
  BY DEF Given
<1> QED
  BY <1>1, CacheFields DEF Given, KeyStates, Gen

\* A step of the world that leaves the calls and the entry alone.
LEMMA WorldIsFresh ==
    ASSUME StaleInv, Given, FlightInv', UNCHANGED <<entry, reader>>,
           CacheOK(cache', now'), Queue(bus', cache', floor', now', dev'),
           Lag(cache'), Shows(cache', floor'), floor' <= dev', writer' <= dev',
           Gen(cache') >= Gen(cache), floor' >= floor, Gen(cache') = Gen(cache) => floor' = floor
    PROVE  StaleInv'
<1>1. /\ entry \in ReadEntries /\ reader \in [Readers -> Calls] /\ floor \in Nat /\ floor' \in Nat
      /\ cache \in Caches(Versions) /\ cache' \in Caches(Versions)
  BY DEF StaleInv, FlightInv, Types
<1>2. Gen(cache) \in Nat /\ Gen(cache') \in Nat
  BY <1>1, GenType
<1>3. ReadOK(entry', Gen(cache'), floor')
  BY <1>1, <1>2, ReadAges DEF StaleInv
<1>4. ASSUME NEW r \in Readers PROVE CallOK(reader'[r], Gen(cache'), floor')
  <2>1. reader[r] \in Calls /\ CallOK(reader[r], Gen(cache), floor)
    BY <1>1 DEF StaleInv
  <2> QED
    BY <1>1, <1>2, <2>1, CallAges
<1>5. /\ CacheOK(cache, now)' /\ Queue(bus, cache, floor, now, dev)' /\ Lag(cache)' /\ Shows(cache, floor)'
      /\ ReadOK(entry, Gen(cache), floor)'
      /\ \A r \in Readers : CallOK(reader[r], Gen(cache), floor)'
  BY <1>3, <1>4 DEF CacheOK, Queue, Barred, Lag, Shows, ReadOK, CallOK, Gen, Has, AllPinned, Exact,
       CoherentAt, TimelyAt, Once
<1> QED
  BY <1>5 DEF StaleInv

\* The cache after steps of its keys.
LEMMA CacheStaysOK ==
    ASSUME Given, NEW c, NEW t, CacheOK(c, t), NEW d \in Caches(Versions), NEW n,
           AllPinned(d), Exact(d), \A k \in Keys : KeyStep(c, d, k) /\ TimelyAt(d, k, n)
    PROVE  CacheOK(d, n)
<1>1. c \in Caches(Versions) /\ NoEntry \notin Entries(Versions) /\ \A k \in Keys : CoherentAt(c, k)
  BY DEF CacheOK, Given
<1>2. \A k \in Keys : CoherentAt(d, k)
  BY <1>1, CoherentStep
<1> QED
  BY <1>2 DEF CacheOK

\* The events that stay in the queue.
LEMMA QueueTail ==
    ASSUME NEW b \in Seq(Events), b # <<>>, NEW c, NEW d, NEW f, NEW g, NEW t, NEW v,
           Queue(b, c, f, t, v),
           \A i \in DOMAIN b : /\ b[1].ver <= b[i].ver
                               /\ b[i].ver < f => Barred(c, b[i].t)
                               => (b[i].ver < g => Barred(d, b[i].t))
    PROVE  Queue(Tail(b), d, g, t, v)
<1>1. \A i \in DOMAIN Tail(b) : i + 1 \in DOMAIN b /\ Tail(b)[i] = b[i + 1] /\ i \in Nat
  BY QueueFacts
<1>2. 1 \in DOMAIN b /\ DOMAIN b \subseteq Nat \ {0}
  BY QueueFacts
<1>3. \A i \in DOMAIN b : b[1].ver <= b[i].ver
  BY <1>2 DEF Queue
<1>4. \A i \in DOMAIN b : b[i].ver < g => Barred(d, b[i].t)
  BY <1>3 DEF Queue
<1>5. \A i, j \in DOMAIN Tail(b) : i <= j => Tail(b)[i].ver <= Tail(b)[j].ver
  BY <1>1 DEF Queue
<1> QED
  BY <1>1, <1>4, <1>5 DEF Queue

\* The queue when only the cache and the floor change.
LEMMA QueueStays ==
    ASSUME NEW b, NEW c, NEW d, NEW f, NEW t, NEW v, Queue(b, c, f, t, v),
           \A i \in DOMAIN b : Barred(c, b[i].t) => Barred(d, b[i].t)
    PROVE  Queue(b, d, f, t, v)
BY DEF Queue

\* A new event at the end of the queue.
LEMMA QueueGrows ==
    ASSUME NEW b \in Seq(Events), NEW c, NEW f \in Nat, NEW t \in Nat \ {0}, NEW v \in Nat, NEW e \in Events,
           Queue(b, c, f, t, v), e.t = t, e.ver >= v, e.ver >= f, PassiveDelay \in Nat
    PROVE  Queue(Append(b, e), c, f, t, e.ver)
<1> DEFINE a == Append(b, e)
<1>1. \A i \in DOMAIN a : \/ i \in DOMAIN b /\ a[i] = b[i]
                          \/ i = Len(b) + 1 /\ a[i] = e
  BY QueueFacts
<1>2. DOMAIN b = 1 .. Len(b) /\ Len(b) \in Nat
  OBVIOUS
<1>3. e.ver \in Nat /\ e.t \in Nat /\ \A i \in DOMAIN b : b[i].ver \in Nat /\ b[i].t \in Nat
  BY QueueFacts DEF Events
<1> HIDE DEF a
<1>4. \A i \in DOMAIN b : b[i].ver <= e.ver
  BY <1>3 DEF Queue
<1>5. ASSUME NEW i \in DOMAIN a
      PROVE  /\ a[i].t > 0 /\ a[i].t <= t /\ t <= a[i].t + PassiveDelay /\ a[i].ver <= e.ver
             /\ a[i].ver < f => Barred(c, a[i].t)
  <2>1. CASE i \in DOMAIN b /\ a[i] = b[i]
    BY <1>3, <1>4, <2>1 DEF Queue
  <2>2. CASE a[i] = e
    BY <1>3, <2>2
  <2> QED
    BY <1>1, <2>1, <2>2
<1>6. ASSUME NEW i \in DOMAIN a, NEW j \in DOMAIN a, i <= j PROVE a[i].ver <= a[j].ver
  <2>1. CASE a[j] = e /\ j = Len(b) + 1
    <3>1. a[i].ver <= e.ver
      BY <1>5
    <3> QED
      BY <2>1, <3>1
  <2>2. CASE j \in DOMAIN b /\ a[j] = b[j]
    <3>1. i \in DOMAIN b /\ a[i] = b[i]
      BY <1>1, <1>2, <1>6, <2>2
    <3> QED
      BY <1>6, <2>2, <3>1 DEF Queue
  <2> QED
    BY <1>1, <2>1, <2>2
<1>7. Queue(a, c, f, t, e.ver)
  BY <1>5, <1>6 DEF Queue
<1> QED
  BY <1>7 DEF a

\* A write of the register.
LEMMA RegisterWritten ==
    ASSUME Given, NEW c, NEW t \in Nat, CacheOK(c, t), Lag(c), NEW w \in Writes(Versions),
           w.obs <= t, w.src = "active" => w.obs = t, NEW same
    PROVE  LET res == Write(c, K, w, same)
           IN  /\ CacheOK(res.c, t) /\ Lag(res.c)
               /\ \/ res.accepted = FALSE /\ res.reason # "none" /\ Kept(c, res.c, K)
                  \/ /\ res.accepted = TRUE /\ res.reason = "none" /\ res.gen = Gen(res.c)
                     /\ Wrote(c, res.c, K, w) /\ CoherentAt(res.c, K) /\ Has(res.c, K)
                     /\ w.src = "active" => w.start = Gen(c)
                     /\ w.src = "passive" => ~Barred(c, w.obs)
<1> DEFINE res == Write(c, K, w, same)
           z == res.c
<1>1. /\ c \in Caches(Versions) /\ AllPinned(c) /\ Exact(c) /\ K \in Keys /\ CacheBounds
      /\ NoEntry \notin Entries(Versions) /\ \A k \in Keys : TimelyAt(c, k, t)
  BY DEF CacheOK, Given
<1>2. /\ AllPinned(z)
      /\ \/ res.accepted = FALSE /\ res.reason # "none" /\ Kept(c, z, K)
         \/ res.accepted = TRUE /\ res.reason = "none" /\ Wrote(c, z, K, w)
  BY <1>1, WritePinned
<1>3. z \in Caches(Versions) /\ (\A j \in Keys : KeyStep(c, z, j) /\ TimelyAt(z, j, t)) /\ Exact(z)
  BY <1>1, WriteStep
<1>4. \/ res.accepted = FALSE
      \/ /\ res.gen = z.ent[K].gen /\ z.ent[K] \in Entries(Versions)
         /\ rejectWriteByPrecedence(c, K, w, same) = "none"
         /\ w.src = "active" => c.key[K].gen = w.start
  <2>1. \/ res.accepted = FALSE /\ res.reason # "none" /\ (Kept(c, z, K) \/ Dropped(c, z, K))
        \/ /\ res.accepted = TRUE /\ res.reason = "none" /\ res.gen = z.ent[K].gen
           /\ z.ent[K] \in Entries(Versions) /\ z.ent[K].pin = desiredPinClass(c, K, c.desc[K])
           /\ Wrote(c, z, K, w)
           /\ rejectWriteByPrecedence(c, K, w, same) = "none"
           /\ w.src = "active" => c.key[K].gen = w.start
    BY <1>1, WriteFacts, Zenon
  <2> QED
    BY <2>1, Zenon
<1> HIDE DEF res
<1>5. CacheOK(z, t)
  BY <1>2, <1>3, CacheStaysOK
<1>6. CASE res.accepted = FALSE
  <2>1. Kept(c, z, K) /\ res.reason # "none"
    BY <1>2, <1>6
  <2>2. Lag(z)
    BY <2>1, KeptShows
  <2> QED
    BY <1>5, <1>6, <2>1, <2>2 DEF res
<1>7. CASE ~(res.accepted = FALSE)
  <2>1. res.accepted = TRUE /\ res.reason = "none" /\ Wrote(c, z, K, w)
    BY <1>2, <1>7
  <2>2. CoherentAt(z, K) /\ Has(z, K)
    BY <1>1, <1>4, <1>5, <1>7 DEF CacheOK, Has
  <2>3. Lag(z) /\ res.gen = Gen(z)
    BY <1>1, <1>3, <1>4, <1>7, <2>1, <2>2, WroteShows
  <2>4. w.src = "passive" => ~Barred(c, w.obs)
    BY <1>1, <1>4, <1>7, BarredIsRejected
  <2>5. w.src = "active" => w.start = Gen(c)
    BY <1>4, <1>7 DEF Gen
  <2> QED
    BY <1>5, <2>1, <2>2, <2>3, <2>4, <2>5 DEF res
<1> QED
  BY <1>6, <1>7

\* An invalidation of the register, not too late.
LEMMA RegisterInvalidated ==
    ASSUME Given, NEW c, NEW t \in Nat, CacheOK(c, t), NEW i \in Nat \ {0}, i <= t, t <= i + PassiveDelay
    PROVE  LET z == Invalidate(c, K, i)
           IN  /\ CacheOK(z, t) /\ Lag(z) /\ Gen(z) = Gen(c) + 1
               /\ \A f : Shows(z, f)
               /\ \A e \in Nat : Barred(c, e) \/ e <= i => Barred(z, e)
<1> DEFINE z == Invalidate(c, K, i)
<1>1. /\ c \in Caches(Versions) /\ AllPinned(c) /\ Exact(c) /\ K \in Keys
      /\ NoEntry \notin Entries(Versions) /\ \A k \in Keys : TimelyAt(c, k, t)
  BY DEF CacheOK, Given
<1>2. AllPinned(z)
  BY <1>1, InvalidatePinned
<1>3. z \in Caches(Versions) /\ (\A j \in Keys : KeyStep(c, z, j) /\ TimelyAt(z, j, t)) /\ Exact(z)
  BY <1>1, InvalidateStep
<1>4. Invalidated(c, z, K, i)
  BY <1>1, InvalidateFacts
<1> HIDE DEF z
<1>5. CacheOK(z, t)
  BY <1>2, <1>3, CacheStaysOK
<1>6. Has(c, K) => c.ent[K].obs <= i + PassiveDelay
  <2>1. PassiveDelay \in Nat /\ (Has(c, K) => c.ent[K].obs \in Nat)
    BY <1>1, CacheFields DEF Given, Entries
  <2> QED
    BY <1>1, <2>1 DEF TimelyAt
<1>7. /\ Gen(z) = Gen(c) + 1 /\ Lag(z) /\ \A f : Shows(z, f)
      /\ \A e \in Nat : Barred(c, e) \/ e <= i => Barred(z, e)
  BY <1>1, <1>3, <1>4, <1>6, InvalidatedShows
<1> QED
  BY <1>5, <1>7 DEF z

\* A compaction of the register.
LEMMA RegisterCompacted ==
    ASSUME Given, NEW c, NEW t \in Nat, CacheOK(c, t), Lag(c), Has(c, K)
    PROVE  LET z == compactKey(c, K, t)
           IN  /\ CacheOK(z, t) /\ Lag(z) /\ Gen(z) >= Gen(c)
               /\ \A f : Shows(c, f) => Shows(z, f)
               /\ \A e \in Nat : Barred(c, e) /\ t <= e + PassiveDelay => Barred(z, e)
<1> DEFINE z == compactKey(c, K, t)
<1>1. /\ c \in Caches(Versions) /\ AllPinned(c) /\ Exact(c) /\ K \in Keys
      /\ NoEntry \notin Entries(Versions) /\ \A k \in Keys : TimelyAt(c, k, t)
  BY DEF CacheOK, Given
<1>2. AllPinned(z)
  BY <1>1, CompactPinned
<1>3. z \in Caches(Versions) /\ (\A j \in Keys : KeyStep(c, z, j) /\ TimelyAt(z, j, t)) /\ Exact(z)
  BY <1>1, CompactStep
<1>4. /\ Kept(c, z, K) \/ Compacted(c, z, K)
      /\ ~Has(z, K) => t >= c.ent[K].invAt + TombstoneHardLifespan
  BY <1>1, CompactFacts
<1> HIDE DEF z
<1>5. CacheOK(z, t) /\ Gen(c) \in Nat
  BY <1>1, <1>2, <1>3, CacheStaysOK, GenType
<1>6. CASE Kept(c, z, K)
  <2>1. Gen(z) = Gen(c) /\ Lag(z) /\ (\A f : Shows(c, f) => Shows(z, f)) /\ \A e : Barred(c, e) => Barred(z, e)
    BY <1>6, KeptShows
  <2> QED
    BY <1>5, <2>1 DEF z
<1>7. CASE Compacted(c, z, K)
  <2>1. /\ Gen(z) = Gen(c) + 1 /\ Lag(z) /\ \A f : Shows(z, f)
        /\ \A e \in Nat : Barred(c, e) /\ t <= e + PassiveDelay => Barred(z, e)
    BY <1>1, <1>3, <1>4, <1>7, CompactedShows
  <2> QED
    BY <1>5, <2>1 DEF z
<1> QED
  BY <1>4, <1>6, <1>7

\* A write of another register.
LEMMA OtherWritten ==
    ASSUME Given, NEW c, NEW t \in Nat, CacheOK(c, t), NEW k \in Keys \ {K}, NEW w \in Writes(Versions),
           w.obs <= t, w.src = "active" => w.obs = t, NEW same
    PROVE  LET z == Write(c, k, w, same).c
           IN  CacheOK(z, t) /\ Kept(c, z, K)
<1> DEFINE z == Write(c, k, w, same).c
<1>1. /\ c \in Caches(Versions) /\ AllPinned(c) /\ Exact(c) /\ K \in Keys /\ CacheBounds
      /\ NoEntry \notin Entries(Versions) /\ \A j \in Keys : TimelyAt(c, j, t)
  BY DEF CacheOK, Given
<1>2. AllPinned(z) /\ \A j \in Keys \ {k} : Kept(c, z, j)
  BY <1>1, WritePinned
<1>3. z \in Caches(Versions) /\ (\A j \in Keys : KeyStep(c, z, j) /\ TimelyAt(z, j, t)) /\ Exact(z)
  BY <1>1, WriteStep
<1> HIDE DEF z
<1>4. CacheOK(z, t)
  BY <1>2, <1>3, CacheStaysOK
<1> QED
  BY <1>1, <1>2, <1>4 DEF z

\* A lookup of the register.
LEMMA RegisterLookedUp ==
    ASSUME Given, NEW c, NEW t \in Nat, CacheOK(c, t), NEW age
    PROVE  LET z == LookupCache(c, K, age, t)
           IN  CacheOK(z, t) /\ Kept(c, z, K)
<1> DEFINE z == LookupCache(c, K, age, t)
<1>1. /\ c \in Caches(Versions) /\ AllPinned(c) /\ Exact(c) /\ K \in Keys
      /\ NoEntry \notin Entries(Versions) /\ \A j \in Keys : TimelyAt(c, j, t)
  BY DEF CacheOK, Given
<1>2. AllPinned(z)
  BY <1>1, LookupPinned
<1>3. z \in Caches(Versions) /\ (\A j \in Keys : KeyStep(c, z, j) /\ TimelyAt(z, j, t)) /\ Exact(z)
  BY <1>1, LookupStep
<1>4. Kept(c, z, K)
  BY <1>1, LookupFacts
<1> HIDE DEF z
<1>5. CacheOK(z, t)
  BY <1>2, <1>3, CacheStaysOK
<1> QED
  BY <1>4, <1>5 DEF z

\* The cache and the floor stand still, and the events are kept, dropped or grow.
LEMMA BusIsFresh ==
    ASSUME StaleInv, Given, FlightInv', UNCHANGED <<entry, reader, cache, floor>>, dev' >= dev, writer' <= dev',
           CacheOK(cache, now'), Queue(bus', cache, floor, now', dev')
    PROVE  StaleInv'
<1>1. dev \in Nat /\ dev' \in Nat /\ floor \in Nat /\ cache \in Caches(Versions)
  BY DEF StaleInv, FlightInv, Types
<1>2. Gen(cache) \in Nat
  BY <1>1, GenType
<1>3. floor <= dev'
  BY <1>1 DEF StaleInv
<1>4. /\ CacheOK(cache', now') /\ Queue(bus', cache', floor', now', dev')
      /\ Lag(cache') /\ Shows(cache', floor') /\ floor' <= dev'
      /\ Gen(cache') >= Gen(cache) /\ floor' >= floor /\ floor' = floor
  BY <1>1, <1>2, <1>3 DEF StaleInv
<1> QED
  BY <1>4, WorldIsFresh

\* Steps of the world keep StaleInv.
LEMMA WorldKeepsFresh ==
    ASSUME StaleInv, Given, FlightInv',
           \/ ThirdPartyRead \/ ThirdPartyWrite \/ PassiveOverflow
           \/ handlePassiveRead \/ handlePassiveWrite
           \/ ConfigurationWrite \/ fenceB509WriteConfirmShadow
           \/ OtherKeyWritten \/ Compact \/ Clock
    PROVE  StaleInv'
<1>1. /\ cache \in Caches(Versions) /\ now \in Nat \ {0} /\ dev \in Nat /\ writer \in Nat
      /\ floor \in Nat /\ bus \in Seq(Events) /\ PassiveDelay \in Nat /\ Gen(cache) \in Nat
  BY GenType DEF StaleInv, FlightInv, Types, Given
<1>2. /\ CacheOK(cache, now) /\ Queue(bus, cache, floor, now, dev) /\ Lag(cache) /\ Shows(cache, floor)
      /\ floor <= dev /\ writer <= dev
  BY DEF StaleInv
<1>3. \A i \in DOMAIN bus : bus[i] \in Events /\ bus[i].t \in Nat /\ bus[i].ver \in Nat
  BY <1>1, QueueFacts DEF Events
<1>4. ASSUME NEW e \in Events, bus' = Append(bus, e), e.t = now, e.ver = dev', e.ver >= dev,
             UNCHANGED <<cacheVars, entry, reader, writer, floor>>
      PROVE  StaleInv'
  <2>1. e.ver \in Nat /\ e.ver >= floor
    BY <1>1, <1>2, <1>4 DEF Events
  <2>2. Queue(Append(bus, e), cache, floor, now, e.ver)
    BY <1>1, <1>2, <1>4, <2>1, QueueGrows
  <2>3. writer <= dev'
    BY <1>1, <1>2, <1>4, <2>1
  <2>4. /\ Queue(bus', cache, floor, now', dev') /\ CacheOK(cache, now')
        /\ dev' >= dev /\ writer' <= dev' /\ UNCHANGED <<entry, reader, cache, floor>>
    BY <1>2, <1>4, <2>2, <2>3 DEF cacheVars
  <2> QED
    BY <2>4, BusIsFresh
<1>5. CASE ThirdPartyRead
  <2> DEFINE e == [kind |-> "read", ver |-> dev, t |-> now]
  <2>1. e \in Events /\ e.t = now /\ e.ver = dev
    BY <1>1 DEF Events
  <2>2. bus' = Append(bus, e) /\ dev' = dev /\ UNCHANGED <<cacheVars, entry, reader, writer, floor>>
    BY <1>5 DEF ThirdPartyRead, Observed
  <2> HIDE DEF e
  <2>3. e.ver = dev' /\ e.ver >= dev
    BY <1>1, <2>1, <2>2
  <2> QED
    BY <1>4, <2>1, <2>2, <2>3
<1>6. CASE ThirdPartyWrite
  <2> DEFINE e == [kind |-> "write", ver |-> dev + 1, t |-> now]
  <2>1. e \in Events /\ e.t = now /\ e.ver = dev + 1
    BY <1>1 DEF Events
  <2>2. bus' = Append(bus, e) /\ dev' = dev + 1 /\ UNCHANGED <<cacheVars, entry, reader, writer, floor>>
    BY <1>6 DEF ThirdPartyWrite, Observed
  <2> HIDE DEF e
  <2>3. e.ver = dev' /\ e.ver >= dev
    BY <1>1, <2>1, <2>2
  <2> QED
    BY <1>4, <2>1, <2>2, <2>3
<1>7. CASE PassiveOverflow
  <2>1. /\ bus' = <<>> /\ UNCHANGED <<cache, now, entry, reader, dev, writer, floor>>
    BY <1>7 DEF PassiveOverflow, cacheVars
  <2>2. Queue(bus', cache, floor, now', dev')
    BY <2>1 DEF Queue
  <2>3. CacheOK(cache, now') /\ dev' >= dev /\ writer' <= dev' /\ UNCHANGED <<entry, reader, cache, floor>>
    BY <1>1, <1>2, <2>1
  <2> QED
    BY <2>2, <2>3, BusIsFresh
<1>8. CASE handlePassiveRead
  <2> DEFINE ev == Head(bus)
             w == [src |-> "passive", val |-> [ver |-> ev.ver, at |-> ev.t], obs |-> ev.t, start |-> 0]
             same == Has(cache, K) /\ cache.ent[K].val # NoValue /\ cache.ent[K].val.ver = ev.ver
             res == Write(cache, K, w, same)
             z == res.c
  <2>1. /\ bus # <<>> /\ cache' = z /\ bus' = Tail(bus)
        /\ UNCHANGED <<now, entry, reader, dev, writer, floor>>
    BY <1>8 DEF handlePassiveRead
  <2>2. ev = bus[1] /\ 1 \in DOMAIN bus /\ ev \in Events
    BY <1>1, <2>1, QueueFacts
  <2> HIDE DEF ev
  <2>3. ev.t \in Nat /\ ev.ver \in Nat /\ ev.t <= now /\ (ev.ver < floor => Barred(cache, ev.t))
    BY <1>2, <2>2 DEF Events, Queue
  <2>4. w \in Writes(Versions) /\ w.src = "passive" /\ w.obs = ev.t /\ w.val.ver = ev.ver
    BY <2>3 DEF Writes, Versions, Sources
  <2> HIDE DEF w, same
  <2>5. w.obs <= now /\ (w.src = "active" => w.obs = now) /\ now \in Nat
    BY <1>1, <2>3, <2>4
  <2>6. /\ CacheOK(z, now) /\ Lag(z)
        /\ \/ res.accepted = FALSE /\ Kept(cache, z, K)
           \/ /\ Wrote(cache, z, K, w) /\ CoherentAt(z, K) /\ Has(z, K)
              /\ w.src = "passive" => ~Barred(cache, w.obs)
    BY <1>2, <2>4, <2>5, RegisterWritten
  <2> HIDE DEF res
  <2>7. CASE Kept(cache, z, K)
    <3>1. Gen(z) = Gen(cache) /\ Shows(z, floor) /\ \A t : Barred(cache, t) => Barred(z, t)
      BY <1>2, <2>7, KeptShows
    <3>2. Queue(Tail(bus), z, floor, now, dev)
      BY <1>1, <1>2, <2>1, <3>1, QueueTail
    <3>3. /\ CacheOK(cache', now') /\ Queue(bus', cache', floor', now', dev')
          /\ Lag(cache') /\ Shows(cache', floor') /\ floor' <= dev' /\ writer' <= dev'
          /\ Gen(cache') >= Gen(cache) /\ floor' >= floor /\ floor' = floor
          /\ UNCHANGED <<entry, reader>>
      BY <1>1, <1>2, <2>1, <2>6, <3>1, <3>2
    <3> QED
      BY <3>3, WorldIsFresh
  <2>8. CASE Wrote(cache, z, K, w) /\ CoherentAt(z, K) /\ Has(z, K) /\ ~Barred(cache, w.obs)
    <3>1. ev.ver >= floor /\ bus[1].ver >= floor
      BY <1>1, <2>2, <2>3, <2>4, <2>8
    <3>2. z \in Caches(Versions)
      BY <2>6 DEF CacheOK
    <3>3. /\ Gen(z) = IF Has(cache, K) THEN Gen(cache) ELSE Gen(cache) + 1
          /\ \A f : w.val.ver >= f => Shows(z, f)
      BY <1>1, <2>4, <2>8, <3>2, WroteShows
    <3>4. Shows(z, floor) /\ Gen(z) >= Gen(cache)
      BY <1>1, <2>4, <3>1, <3>3
    <3>5. \A i \in DOMAIN bus : bus[1].ver <= bus[i].ver => ~(bus[i].ver < floor)
      BY <1>1, <1>3, <2>2, <3>1
    <3>6. Queue(Tail(bus), z, floor, now, dev)
      BY <1>1, <1>2, <2>1, <3>5, QueueTail
    <3>7. /\ CacheOK(cache', now') /\ Queue(bus', cache', floor', now', dev')
          /\ Lag(cache') /\ Shows(cache', floor') /\ floor' <= dev' /\ writer' <= dev'
          /\ Gen(cache') >= Gen(cache) /\ floor' >= floor /\ floor' = floor
          /\ UNCHANGED <<entry, reader>>
      BY <1>1, <1>2, <2>1, <2>6, <3>4, <3>6
    <3> QED
      BY <3>7, WorldIsFresh
  <2> QED
    BY <2>4, <2>6, <2>7, <2>8
<1>9. CASE handlePassiveWrite
  <2> DEFINE ev == Head(bus)
             z == Invalidate(cache, K, ev.t)
             f == Later(floor, ev.ver)
  <2>1. /\ bus # <<>> /\ cache' = z /\ bus' = Tail(bus) /\ floor' = f
        /\ UNCHANGED <<now, entry, reader, dev, writer>>
    BY <1>9 DEF handlePassiveWrite
  <2>2. ev = bus[1] /\ 1 \in DOMAIN bus /\ ev \in Events
    BY <1>1, <2>1, QueueFacts
  <2> HIDE DEF ev
  <2>3. /\ ev.t \in Nat \ {0} /\ ev.ver \in Nat /\ ev.t <= now /\ now <= ev.t + PassiveDelay
        /\ ev.ver <= dev
    BY <1>2, <2>2 DEF Events, Queue
  <2>4. /\ CacheOK(z, now) /\ Lag(z) /\ Gen(z) = Gen(cache) + 1 /\ Shows(z, f)
        /\ \A e \in Nat : Barred(cache, e) \/ e <= ev.t => Barred(z, e)
    BY <1>1, <1>2, <2>3, RegisterInvalidated
  <2> HIDE DEF z
  <2>5. f \in Nat /\ f >= floor /\ f <= dev /\ (f = floor \/ f = ev.ver)
    BY <1>1, <1>2, <2>3 DEF Later
  <2> HIDE DEF f
  <2>6. ASSUME NEW i \in DOMAIN bus, bus[1].ver <= bus[i].ver, bus[i].ver < floor => Barred(cache, bus[i].t),
               bus[i].ver < f
        PROVE  Barred(z, bus[i].t)
    BY <1>1, <1>3, <2>2, <2>3, <2>4, <2>5, <2>6
  <2>7. Queue(Tail(bus), z, f, now, dev)
    BY <1>1, <1>2, <2>1, <2>6, QueueTail
  <2>8. /\ CacheOK(cache', now') /\ Queue(bus', cache', floor', now', dev')
        /\ Lag(cache') /\ Shows(cache', floor') /\ floor' <= dev' /\ writer' <= dev'
        /\ Gen(cache') >= Gen(cache) /\ floor' >= floor /\ Gen(cache') # Gen(cache)
        /\ UNCHANGED <<entry, reader>>
    BY <1>1, <1>2, <2>1, <2>4, <2>5, <2>7
  <2> QED
    BY <2>8, WorldIsFresh
<1>10. CASE ConfigurationWrite
  <2>1. /\ dev' = dev + 1 /\ writer' = dev' /\ UNCHANGED <<cache, now, entry, reader, bus, floor>>
    BY <1>10 DEF ConfigurationWrite, cacheVars
  <2>2. Queue(bus, cache, floor, now, dev + 1)
    BY <1>1, <1>2, <1>3 DEF Queue
  <2>3. /\ Queue(bus', cache, floor, now', dev') /\ CacheOK(cache, now') /\ dev' >= dev
        /\ writer' <= dev' /\ UNCHANGED <<entry, reader, cache, floor>>
    BY <1>1, <1>2, <2>1, <2>2
  <2> QED
    BY <2>3, BusIsFresh
<1>11. CASE fenceB509WriteConfirmShadow
  <2> DEFINE z == Invalidate(cache, K, now)
             f == Later(floor, writer)
  <2>1. /\ cache' = z /\ floor' = f /\ writer' = 0 /\ UNCHANGED <<now, entry, reader, dev, bus>>
    BY <1>11 DEF fenceB509WriteConfirmShadow
  <2>2. now <= now /\ now <= now + PassiveDelay /\ now \in Nat
    BY <1>1
  <2>3. /\ CacheOK(z, now) /\ Lag(z) /\ Gen(z) = Gen(cache) + 1 /\ Shows(z, f)
        /\ \A e \in Nat : Barred(cache, e) \/ e <= now => Barred(z, e)
    BY <1>1, <1>2, <2>2, RegisterInvalidated
  <2> HIDE DEF z
  <2>4. f \in Nat /\ f >= floor /\ f <= dev
    BY <1>1, <1>2 DEF Later
  <2> HIDE DEF f
  <2>5. Queue(bus, z, f, now, dev)
    BY <1>2, <1>3, <2>3 DEF Queue
  <2>6. /\ CacheOK(cache', now') /\ Queue(bus', cache', floor', now', dev')
        /\ Lag(cache') /\ Shows(cache', floor') /\ floor' <= dev' /\ writer' <= dev'
        /\ Gen(cache') >= Gen(cache) /\ floor' >= floor /\ Gen(cache') # Gen(cache)
        /\ UNCHANGED <<entry, reader>>
    BY <1>1, <1>2, <2>1, <2>3, <2>4, <2>5
  <2> QED
    BY <2>6, WorldIsFresh
<1>12. CASE OtherKeyWritten
  <2> DEFINE w == [src |-> "passive", val |-> [ver |-> 1, at |-> now], obs |-> now, start |-> 0]
  <2>1. w \in Writes(Versions) /\ w.obs <= now /\ w.obs = now
    BY <1>1 DEF Writes, Versions, Sources
  <2>2. PICK k \in Keys \ {K} : CacheWrite(k, w)
    BY <1>12 DEF OtherKeyWritten
  <2> HIDE DEF w
  <2>3. /\ cache' = Write(cache, k, w, Has(cache, k) /\ cache.ent[k].val = w.val).c
        /\ UNCHANGED <<now, entry, reader, dev, bus, writer, floor>>
    BY <1>12, <2>2 DEF CacheWrite, OtherKeyWritten, schedulerVars
  <2>4. CacheOK(cache', now) /\ Kept(cache, cache', K)
    BY <1>1, <1>2, <2>1, <2>3, OtherWritten
  <2>5. /\ Gen(cache') = Gen(cache) /\ Lag(cache') /\ Shows(cache', floor)
        /\ \A t : Barred(cache, t) => Barred(cache', t)
    BY <1>2, <2>4, KeptShows
  <2>6. Queue(bus, cache', floor, now, dev)
    BY <1>2, <2>5, QueueStays
  <2>7. /\ CacheOK(cache', now') /\ Queue(bus', cache', floor', now', dev')
        /\ Lag(cache') /\ Shows(cache', floor') /\ floor' <= dev' /\ writer' <= dev'
        /\ Gen(cache') >= Gen(cache) /\ floor' >= floor /\ floor' = floor
        /\ UNCHANGED <<entry, reader>>
    BY <1>1, <1>2, <2>3, <2>4, <2>5, <2>6
  <2> QED
    BY <2>7, WorldIsFresh
<1>13. CASE Compact
  <2> DEFINE z == compactKey(cache, K, now)
  <2>1. /\ Has(cache, K) /\ cache' = z /\ UNCHANGED <<now, entry, reader, dev, bus, writer, floor>>
    BY <1>13 DEF Compact, CacheCompact, schedulerVars
  <2>2. /\ CacheOK(z, now) /\ Lag(z) /\ Gen(z) >= Gen(cache) /\ Shows(z, floor)
        /\ \A e \in Nat : Barred(cache, e) /\ now <= e + PassiveDelay => Barred(z, e)
    BY <1>1, <1>2, <2>1, RegisterCompacted
  <2> HIDE DEF z
  <2>3. Queue(bus, z, floor, now, dev)
    BY <1>2, <1>3, <2>2 DEF Queue
  <2>4. /\ CacheOK(cache', now') /\ Queue(bus', cache', floor', now', dev')
        /\ Lag(cache') /\ Shows(cache', floor') /\ floor' <= dev' /\ writer' <= dev'
        /\ Gen(cache') >= Gen(cache) /\ floor' >= floor /\ floor' = floor
        /\ UNCHANGED <<entry, reader>>
    BY <1>1, <1>2, <2>1, <2>2, <2>3
  <2> QED
    BY <2>4, WorldIsFresh
<1>14. CASE Clock
  <2>1. /\ now' = now + 1 /\ UNCHANGED <<cache, entry, reader, dev, bus, writer, floor>>
        /\ \A i \in DOMAIN bus : now < bus[i].t + PassiveDelay
    BY <1>14 DEF Clock, Tick, schedulerVars
  <2>2. Queue(bus, cache, floor, now + 1, dev)
    BY <1>1, <1>2, <1>3, <2>1 DEF Queue
  <2>3. CacheOK(cache, now + 1)
    <3>1. ASSUME NEW k \in Keys PROVE TimelyAt(cache, k, now + 1)
      <4>1. /\ TimelyAt(cache, k, now) /\ cache.key[k].invAt \in Nat /\ cache.key[k].high \in Nat
            /\ Has(cache, k) => cache.ent[k].obs \in Nat
        BY <1>1, <1>2, CacheFields DEF CacheOK, KeyStates, Entries, Given
      <4> QED
        BY <1>1, <4>1 DEF TimelyAt
    <3> QED
      BY <1>2, <3>1 DEF CacheOK
  <2>4. /\ Queue(bus', cache, floor, now', dev') /\ CacheOK(cache, now') /\ dev' >= dev
        /\ writer' <= dev' /\ UNCHANGED <<entry, reader, cache, floor>>
    BY <1>1, <1>2, <2>1, <2>2, <2>3
  <2> QED
    BY <2>4, BusIsFresh
<1> QED
  BY <1>5, <1>6, <1>7, <1>8, <1>9, <1>10, <1>11, <1>12, <1>13, <1>14

\* A step of the call r; calls that waited may be woken.
LEMMA CallIsFresh ==
    ASSUME StaleInv, Given, FlightInv', NEW r \in Readers, UNCHANGED <<now, dev, bus, writer, floor>>,
           CacheOK(cache', now), Queue(bus, cache', floor, now, dev), Lag(cache'), Shows(cache', floor),
           Gen(cache') >= Gen(cache), ReadOK(entry', Gen(cache'), floor), CallOK(reader'[r], Gen(cache'), floor),
           \A q \in Readers \ {r} :
              \/ reader'[q] = reader[q]
              \/ At(q, "wait") /\ reader'[q] = [reader[q] EXCEPT !.pc = "consult"]
    PROVE  StaleInv'
<1>1. /\ reader \in [Readers -> Calls] /\ floor \in Nat /\ Gen(cache) \in Nat /\ Gen(cache') \in Nat
  BY GenType DEF StaleInv, FlightInv, Types
<1>2. ASSUME NEW q \in Readers PROVE CallOK(reader'[q], Gen(cache'), floor)
  <2>1. reader[q] \in Calls /\ CallOK(reader[q], Gen(cache), floor)
    BY <1>1 DEF StaleInv
  <2>2. CallOK(reader[q], Gen(cache'), floor)
    BY <1>1, <2>1, CallAges
  <2>3. CASE q # r /\ At(q, "wait") /\ reader'[q] = [reader[q] EXCEPT !.pc = "consult"]
    <3> DEFINE c == reader[q]
               d == reader'[q]
    <3>1. /\ d.pc = "consult" /\ d.cand = c.cand /\ d.floor = c.floor
      BY <2>1, <2>3 DEF Calls
    <3> QED
      BY <2>2, <3>1 DEF CallOK
  <2> QED
    BY <2>2, <2>3
<1>3. /\ CacheOK(cache, now)' /\ Queue(bus, cache, floor, now, dev)' /\ Lag(cache)' /\ Shows(cache, floor)'
      /\ ReadOK(entry, Gen(cache), floor)'
      /\ \A q \in Readers : CallOK(reader[q], Gen(cache), floor)'
  BY <1>2 DEF CacheOK, Queue, Barred, Lag, Shows, ReadOK, CallOK, Gen, Has, AllPinned, Exact,
       CoherentAt, TimelyAt, Once
<1>4. (floor <= dev)' /\ (writer <= dev)'
  BY DEF StaleInv
<1> QED
  BY <1>3, <1>4 DEF StaleInv

\* The same, when the cache stands still.
LEMMA CallOnlyIsFresh ==
    ASSUME StaleInv, Given, FlightInv', NEW r \in Readers, UNCHANGED <<cache, now, dev, bus, writer, floor>>,
           ReadOK(entry', Gen(cache), floor), CallOK(reader'[r], Gen(cache), floor),
           \A q \in Readers \ {r} :
              \/ reader'[q] = reader[q]
              \/ At(q, "wait") /\ reader'[q] = [reader[q] EXCEPT !.pc = "consult"]
    PROVE  StaleInv'
<1>1. Gen(cache) \in Nat
  BY GenType DEF StaleInv, FlightInv, Types
<1>2. /\ CacheOK(cache', now) /\ Queue(bus, cache', floor, now, dev) /\ Lag(cache') /\ Shows(cache', floor)
      /\ Gen(cache') >= Gen(cache) /\ ReadOK(entry', Gen(cache'), floor)
      /\ CallOK(reader'[r], Gen(cache'), floor) /\ UNCHANGED <<now, dev, bus, writer, floor>>
  BY <1>1 DEF StaleInv
<1> QED
  BY <1>2, CallIsFresh

\* What a snapshot says of the register.
LEMMA SnapshotIsCurrent ==
    ASSUME StaleInv, Given
    PROVE  Snapshot.gen = Gen(cache) /\ Gen(cache) \in Nat
<1>1. Snapshot.gen = cache.key[K].snap.gen
  BY SnapshotFacts DEF StaleInv, FlightInv
<1>2. CoherentAt(cache, K)
  BY DEF StaleInv, CacheOK, Given
<1> QED
  BY <1>1, <1>2, GenType DEF CoherentAt, Gen, StaleInv, CacheOK

\* A call that holds nothing, and has nothing to return.
LEMMA EmptyCallOK ==
    ASSUME NEW call, NEW g, NEW f, call.cand = NoCandidate, call.floor <= f,
           call.pc \notin {"fetch", "store", "finish"}, call.pc = "done" => call.err # "none"
    PROVE  CallOK(call, g, f)
BY DEF CallOK

\* A call that returns a value that is not too old.
LEMMA ReturnedIsOK ==
    ASSUME Given, NEW call \in Calls, NEW v \in Versions, NEW f \in Nat, NEW g, v.ver >= f, call.floor <= f
    PROVE  CallOK(Returned(call, v, "none"), g, f)
<1> DEFINE z == Returned(call, v, "none")
<1>1. v \in Versions \cup {NoValue} /\ "none" \in Errors
  BY DEF Errors
<1>2. z.pc = "done" /\ z.val = v /\ z.err = "none" /\ z.cand = NoCandidate /\ z.floor = call.floor
  BY <1>1, ReturnedFacts
<1>3. call.floor \in Nat /\ v.ver \in Nat
  BY DEF Calls, Versions
<1> HIDE DEF z
<1>4. CallOK(z, g, f)
  BY <1>2, <1>3 DEF CallOK
<1> QED
  BY <1>4 DEF z

\* A call that returns an error.
LEMMA FailedIsOK ==
    ASSUME Given, NEW call \in Calls, NEW e \in Errors \ {"none"}, NEW f \in Nat, NEW g
    PROVE  CallOK(Returned(call, NoValue, e), g, f)
<1> DEFINE z == Returned(call, NoValue, e)
<1>1. z.pc = "done" /\ z.err = e /\ z.cand = NoCandidate /\ z.floor = 0
  BY FailedFacts
<1> HIDE DEF z
<1>2. CallOK(z, g, f)
  BY <1>1, EmptyCallOK
<1> QED
  BY <1>2 DEF z

\* Steps of a call that touch nothing but its locals.
LEMMA QuietIsFresh ==
    ASSUME StaleInv, Given, FlightInv', NEW r \in Readers, QuietStep(r)
    PROVE  StaleInv'
<1> DEFINE c == reader[r]
           g == Gen(cache)
<1>1. /\ reader \in [Readers -> Calls] /\ c \in Calls /\ floor \in Nat /\ dev \in Nat /\ entry \in ReadEntries
      /\ CallOK(c, g, floor) /\ ReadOK(entry, g, floor) /\ floor <= dev
      /\ NoCandidate \notin Candidates /\ NoValue \notin Versions
  BY DEF StaleInv, FlightInv, Types, Given
<1>2. Snapshot.gen = g /\ g \in Nat
  BY SnapshotIsCurrent
<1>3. c.floor \in Nat /\ c.floor <= floor
  BY <1>1 DEF Calls, CallOK
<1>4. UNCHANGED <<cache, now, entry, dev, bus, writer, floor>>
  BY QuietCall DEF StaleInv, FlightInv, cacheVars
<1>5. ASSUME NEW call, reader' = [reader EXCEPT ![r] = call], CallOK(call, g, floor)
      PROVE  StaleInv'
  <2>1. reader'[r] = call /\ \A q \in Readers \ {r} : reader'[q] = reader[q]
    BY <1>1, <1>5
  <2>2. ReadOK(entry', g, floor) /\ CallOK(reader'[r], g, floor)
    BY <1>1, <1>4, <1>5, <2>1
  <2> QED
    BY <1>4, <2>1, <2>2, CallOnlyIsFresh
<1>6. CASE GetWatch(r)
  <2>1. PICK age \in MaxAges :
          reader' = [reader EXCEPT ![r] = [NoCall EXCEPT
                        !.pc = "consult", !.maxAge = age, !.floor = floor,
                        !.passes = semanticReadShadowMaxPreActivePasses,
                        !.recompute = semanticReadShadowMaxRecomputeCycles]]
    BY <1>6 DEF GetWatch
  <2> DEFINE call == [NoCall EXCEPT !.pc = "consult", !.maxAge = age, !.floor = floor,
                        !.passes = semanticReadShadowMaxPreActivePasses,
                        !.recompute = semanticReadShadowMaxRecomputeCycles]
  <2>2. call.pc = "consult" /\ call.cand = NoCandidate /\ call.floor = floor
    BY DEF NoCall
  <2>3. reader' = [reader EXCEPT ![r] = call]
    BY <2>1
  <2> HIDE DEF call
  <2>4. CallOK(call, g, floor)
    BY <1>1, <2>2, EmptyCallOK
  <2> QED
    BY <1>5, <2>3, <2>4
<1>7. CASE WaitForFlight(r)
  <2> DEFINE call == [c EXCEPT !.pc = "wait", !.cand = NoCandidate]
  <2>1. /\ call.pc = "wait" /\ call.cand = NoCandidate /\ call.floor = c.floor
        /\ reader' = [reader EXCEPT ![r] = call]
    BY <1>1, <1>7 DEF WaitForFlight, Calls
  <2> HIDE DEF call
  <2>2. CallOK(call, g, floor)
    BY <1>3, <2>1, EmptyCallOK
  <2> QED
    BY <1>5, <2>1, <2>2
<1>8. CASE ContextDone(r)
  <2>1. reader' = [reader EXCEPT ![r] = Returned(c, NoValue, "canceled")]
    BY <1>8 DEF ContextDone
  <2>2. "canceled" \in Errors \ {"none"}
    BY DEF Errors
  <2>3. CallOK(Returned(c, NoValue, "canceled"), g, floor)
    BY <1>1, <2>2, FailedIsOK
  <2> QED
    BY <1>5, <2>1, <2>3
<1>9. CASE RetryShadow(r)
  <2> DEFINE call == [c EXCEPT !.pc = "consult"]
  <2>1. /\ call.pc = "consult" /\ call.cand = c.cand /\ call.floor = c.floor
        /\ reader' = [reader EXCEPT ![r] = call]
    BY <1>1, <1>9 DEF RetryShadow, Calls
  <2> HIDE DEF call
  <2>2. CallOK(call, g, floor)
    BY <1>1, <2>1 DEF CallOK
  <2> QED
    BY <1>5, <2>1, <2>2
<1>10. CASE ServeCached(r)
  <2> DEFINE v == entry.lastOK
  <2>1. /\ reader' = [reader EXCEPT ![r] = Returned(c, v, "none")]
        /\ v # NoValue /\ Snapshot.gen = entry.okGen
    BY <1>10 DEF ServeCached, CachedServes, CachedFresh, CachedCurrent
  <2>2. v \in Versions /\ v.ver >= floor
    BY <1>1, <1>2, <2>1 DEF ReadOK, ReadEntries
  <2> HIDE DEF v
  <2>3. CallOK(Returned(c, v, "none"), g, floor)
    BY <1>1, <1>3, <2>2, ReturnedIsOK
  <2> QED
    BY <1>5, <2>1, <2>3
<1>11. CASE CaptureStart(r)
  <2> DEFINE call == [c EXCEPT !.pc = "fetch", !.start = g]
  <2>1. reader' = [reader EXCEPT ![r] = call]
    BY <1>1, <1>2, <1>11 DEF CaptureStart
  <2>2. call.pc = "fetch" /\ call.cand = c.cand /\ call.floor = c.floor /\ call.start = g
    BY <1>1 DEF Calls
  <2> HIDE DEF call, g
  <2>3. CallOK(call, g, floor)
    BY <1>1, <1>2, <2>2 DEF CallOK
  <2> QED
    BY <1>5, <2>1, <2>3
<1>12. CASE FetchReads(r)
  <2> DEFINE v == [ver |-> dev, at |-> 0]
             call == [c EXCEPT !.pc = "store", !.val = v, !.err = "none"]
  <2>1. reader' = [reader EXCEPT ![r] = call] /\ c.pc = "fetch"
    BY <1>1, <1>12 DEF FetchReads, At
  <2>2. v.ver = dev
    OBVIOUS
  <2> HIDE DEF v
  <2>3. /\ call.pc = "store" /\ call.cand = c.cand /\ call.floor = c.floor /\ call.start = c.start
        /\ call.val = v
    BY <1>1 DEF Calls
  <2> HIDE DEF call
  <2>4. CallOK(call, g, floor)
    BY <1>1, <2>1, <2>2, <2>3 DEF CallOK
  <2> QED
    BY <1>5, <2>1, <2>4
<1>13. CASE FetchFails(r)
  <2> DEFINE call == [c EXCEPT !.pc = "finish", !.val = NoValue, !.err = "failed"]
  <2>1. reader' = [reader EXCEPT ![r] = call]
    BY <1>1, <1>13 DEF FetchFails
  <2>2. call.pc = "finish" /\ call.cand = c.cand /\ call.floor = c.floor /\ call.err = "failed"
    BY <1>1 DEF Calls
  <2> HIDE DEF call
  <2>3. CallOK(call, g, floor)
    BY <1>1, <2>2 DEF CallOK
  <2> QED
    BY <1>5, <2>1, <2>3
<1>14. CASE Return(r)
  <2>1. reader' = [reader EXCEPT ![r] = NoCall]
    BY <1>14 DEF Return
  <2>2. NoCall.pc = "idle" /\ NoCall.cand = NoCandidate /\ NoCall.floor = 0 /\ 0 <= floor
    BY <1>1 DEF NoCall
  <2>3. CallOK(NoCall, g, floor)
    BY <2>2, EmptyCallOK
  <2> QED
    BY <1>5, <2>1, <2>3
<1> QED
  BY <1>6, <1>7, <1>8, <1>9, <1>10, <1>11, <1>12, <1>13, <1>14 DEF QuietStep

\* The shadow is consulted: a candidate is the present entry of the register.
LEMMA ConsultIsFresh ==
    ASSUME StaleInv, Given, FlightInv', NEW r \in Readers, consultSemanticReadShadow(r)
    PROVE  StaleInv'
<1> DEFINE c == reader[r]
           g == Gen(cache)
           call == Consulted(r)
<1>1. /\ Types /\ reader \in [Readers -> Calls] /\ c \in Calls /\ floor \in Nat /\ now \in Nat
      /\ cache \in Caches(Versions)
      /\ CallOK(c, g, floor) /\ ReadOK(entry, g, floor) /\ CacheOK(cache, now)
      /\ Queue(bus, cache, floor, now, dev) /\ Lag(cache) /\ Shows(cache, floor)
  BY DEF StaleInv, FlightInv, Types
<1>2. c.floor \in Nat /\ c.floor <= floor /\ g \in Nat
  BY <1>1, GenType DEF Calls, CallOK
<1>3. /\ reader' = [reader EXCEPT ![r] = call]
      /\ call.pc = "lock" /\ call.floor = c.floor
      /\ \/ call.cand = NoCandidate
         \/ /\ LookupHits(cache, K, c.maxAge, now)
            /\ call.cand = [val |-> cache.ent[K].val, gen |-> cache.ent[K].gen]
      /\ cache' = LookupCache(cache, K, c.maxAge, now) \/ cache' = cache
      /\ UNCHANGED <<now, entry, dev, bus, writer, floor>>
  BY <1>1, ConsultFacts
<1> HIDE DEF call
<1>4. CacheOK(cache', now) /\ Kept(cache, cache', K)
  <2>1. Kept(cache, cache, K)
    BY DEF Kept, SameEntry
  <2>2. LET z == LookupCache(cache, K, c.maxAge, now) IN CacheOK(z, now) /\ Kept(cache, z, K)
    BY <1>1, RegisterLookedUp
  <2> QED
    BY <1>1, <1>3, <2>1, <2>2
<1>5. /\ Gen(cache') = g /\ Lag(cache') /\ Shows(cache', floor) /\ \A t : Barred(cache, t) => Barred(cache', t)
  BY <1>1, <1>4, KeptShows
<1>6. Queue(bus, cache', floor, now, dev)
  BY <1>1, <1>5, QueueStays
<1>7. CallOK(call, g, floor)
  <2>1. CASE call.cand = NoCandidate
    BY <1>2, <1>3, <2>1, EmptyCallOK
  <2>2. CASE /\ LookupHits(cache, K, c.maxAge, now)
             /\ call.cand = [val |-> cache.ent[K].val, gen |-> cache.ent[K].gen]
    <3>1. Has(cache, K) /\ cache.ent[K].st = "present"
      BY <2>2 DEF LookupHits, lookupEligible
    <3>2. cache.ent[K].gen = g
      BY <1>1, <3>1 DEF CacheOK, CoherentAt, Gen, Given
    <3>3. cache.ent[K].val \in Versions /\ cache.ent[K].val.ver >= floor
      BY <1>1, <3>1 DEF Shows
    <3>4. call.cand.gen = g /\ call.cand.val \in Versions /\ call.cand.val.ver >= floor
      BY <2>2, <3>2, <3>3
    <3> HIDE DEF g
    <3> QED
      BY <1>2, <1>3, <3>4 DEF CallOK
  <2> QED
    BY <1>3, <2>1, <2>2
<1>8. reader'[r] = call /\ \A q \in Readers \ {r} : reader'[q] = reader[q]
  BY <1>1, <1>3
<1>9. /\ ReadOK(entry', Gen(cache'), floor) /\ CallOK(reader'[r], Gen(cache'), floor) /\ Gen(cache') >= Gen(cache)
      /\ UNCHANGED <<now, dev, bus, writer, floor>>
  BY <1>1, <1>2, <1>3, <1>5, <1>7, <1>8
<1> QED
  BY <1>4, <1>5, <1>6, <1>8, <1>9, CallIsFresh

\* A call that is served from the shadow, suppressed, or begins the flight.
LEMMA DecideIsFresh ==
    ASSUME StaleInv, Given, FlightInv', NEW r \in Readers, ServeShadow(r) \/ Suppress(r) \/ Launch(r)
    PROVE  StaleInv'
<1> DEFINE c == reader[r]
           g == Gen(cache)
<1>1. /\ FlightInv /\ Types /\ reader \in [Readers -> Calls] /\ c \in Calls /\ floor \in Nat
      /\ CallOK(c, g, floor) /\ ReadOK(entry, g, floor)
      /\ NoCandidate \notin Candidates /\ NoValue \notin Versions
  BY DEF StaleInv, FlightInv, Types, Given
<1>2. c.floor \in Nat /\ c.floor <= floor /\ Snapshot.gen = g /\ g \in Nat
  BY <1>1, SnapshotIsCurrent DEF Calls, CallOK
<1>3. UNCHANGED <<cache, now, dev, bus, writer, floor>>
  BY DEF ServeShadow, Suppress, Launch, cacheVars
<1>4. ASSUME NEW call, reader' = [reader EXCEPT ![r] = call], CallOK(call, g, floor), ReadOK(entry', g, floor)
      PROVE  StaleInv'
  <2>1. reader'[r] = call /\ \A q \in Readers \ {r} : reader'[q] = reader[q]
    BY <1>1, <1>4
  <2> QED
    BY <1>3, <1>4, <2>1, CallOnlyIsFresh
<1>5. ASSUME entry'.lastOK = NoValue \/ SameRead(entry, entry') PROVE ReadOK(entry', g, floor)
  BY <1>1, <1>5 DEF ReadOK, SameRead
<1>6. CASE ServeShadow(r)
  <2> DEFINE v == c.cand.val
  <2>1. /\ c.cand \in Candidates
        /\ reader' = [reader EXCEPT ![r] = Returned(c, v, "none")]
        /\ c.cand.gen = g /\ entry'.lastOK = v /\ entry'.okGen = g
    BY <1>1, <1>2, <1>6, ServeShadowFacts
  <2>2. v \in Versions /\ v.ver >= floor
    BY <1>1, <2>1 DEF CallOK
  <2> HIDE DEF v
  <2>3. CallOK(Returned(c, v, "none"), g, floor)
    BY <1>1, <1>2, <2>2, ReturnedIsOK
  <2>4. ReadOK(entry', g, floor)
    BY <1>2, <2>1, <2>2 DEF ReadOK
  <2> QED
    BY <1>4, <2>1, <2>3, <2>4
<1>7. CASE Suppress(r)
  <2>1. /\ reader' = [reader EXCEPT ![r] = Returned(c, NoValue, "circuitOpen")] /\ ~entry.running
        /\ entry' = guardBreaker(Unserved(r))
    BY <1>7 DEF Suppress, Falls
  <2>2. "circuitOpen" \in Errors \ {"none"}
    BY DEF Errors
  <2>3. CallOK(Returned(c, NoValue, "circuitOpen"), g, floor)
    BY <1>1, <2>2, FailedIsOK
  <2>4. entry'.lastOK = NoValue \/ SameRead(entry, entry')
    BY <1>1, <2>1, GuardedFacts
  <2>5. ReadOK(entry', g, floor)
    BY <1>5, <2>4
  <2> QED
    BY <1>4, <2>1, <2>3, <2>5
<1>8. CASE Launch(r)
  <2>1. PICK call \in Calls : /\ reader' = [reader EXCEPT ![r] = call] /\ call.pc = "capture"
                              /\ call.cand = NoCandidate /\ call.floor = c.floor
    BY <1>1, <1>8, LaunchFacts
  <2>2. entry'.lastOK = NoValue \/ SameRead(entry, entry')
    BY <1>1, <1>8, LaunchFacts
  <2>3. CallOK(call, g, floor)
    BY <1>2, <2>1, EmptyCallOK
  <2>4. ReadOK(entry', g, floor)
    BY <1>5, <2>2
  <2> QED
    BY <1>4, <2>1, <2>3, <2>4
<1> QED
  BY <1>6, <1>7, <1>8

\* The fetched value is offered to the shadow: it is accepted only under the
\* generation captured before the fetch, and is then newer than every queued event.
LEMMA StoreIsFresh ==
    ASSUME StaleInv, Given, FlightInv', NEW r \in Readers, StoreFetched(r)
    PROVE  StaleInv'
<1> DEFINE c == reader[r]
           g == Gen(cache)
           v == Fetched(r)
           w == Offer(r)
           res == Stored(r)
           z == res.c
<1>1. /\ FlightInv /\ Types /\ reader \in [Readers -> Calls] /\ c \in Calls /\ floor \in Nat
      /\ now \in Nat /\ cache \in Caches(Versions) /\ bus \in Seq(Events) /\ entry \in ReadEntries
      /\ CallOK(c, g, floor) /\ ReadOK(entry, g, floor) /\ CacheOK(cache, now)
      /\ Queue(bus, cache, floor, now, dev) /\ Lag(cache) /\ Shows(cache, floor)
  BY DEF StaleInv, FlightInv, Types
<1>2. g \in Nat /\ c.pc = "store" /\ c.floor \in Nat /\ c.start \in Nat
  BY <1>1, GenType DEF Calls, StoreFetched, At
<1>3. c.start <= g /\ (c.start = g => c.val.ver >= floor) /\ c.floor <= floor
  BY <1>1, <1>2 DEF CallOK
<1>4. /\ w \in Writes(Versions) /\ v \in Versions /\ v.ver = c.val.ver /\ cache' = z
      /\ UNCHANGED <<now, entry, dev, bus, writer, floor>>
  BY <1>1, StoreFacts
<1>5. PICK call \in Calls :
        /\ reader' = [reader EXCEPT ![r] = call]
        /\ call.pc = "finish" /\ call.val = v /\ call.floor = c.floor /\ call.cand = c.cand
        /\ call.written = IF res.accepted THEN res.gen ELSE c.start
  BY <1>1, StoreFacts
<1>6. w.src = "active" /\ w.obs = now /\ w.start = c.start /\ w.val = v
  BY DEF Offer
<1>7. /\ CacheOK(z, now) /\ Lag(z)
      /\ \/ res.accepted = FALSE /\ res.reason # "none" /\ Kept(cache, z, K)
         \/ /\ res.accepted = TRUE /\ res.reason = "none" /\ res.gen = Gen(z)
            /\ Wrote(cache, z, K, w) /\ CoherentAt(z, K) /\ Has(z, K)
            /\ w.src = "active" => w.start = Gen(cache)
            /\ w.src = "passive" => ~Barred(cache, w.obs)
  <2> DEFINE same == SameBytes(Fetched(r))
  <2> HIDE DEF w, same
  <2>1. w.obs <= now /\ (w.src = "active" => w.obs = now)
    BY <1>1, <1>6
  <2>2. LET y == Write(cache, K, w, same)
        IN  /\ CacheOK(y.c, now) /\ Lag(y.c)
            /\ \/ y.accepted = FALSE /\ y.reason # "none" /\ Kept(cache, y.c, K)
               \/ /\ y.accepted = TRUE /\ y.reason = "none" /\ y.gen = Gen(y.c)
                  /\ Wrote(cache, y.c, K, w) /\ CoherentAt(y.c, K) /\ Has(y.c, K)
                  /\ w.src = "active" => w.start = Gen(cache)
                  /\ w.src = "passive" => ~Barred(cache, w.obs)
    BY <1>1, <1>4, <2>1, RegisterWritten
  <2> QED
    BY <2>2 DEF w, same, Stored
<1> HIDE DEF v, w, res
<1>8. reader'[r] = call /\ \A q \in Readers \ {r} : reader'[q] = reader[q]
  BY <1>1, <1>5
<1>9. ASSUME Gen(z) >= g, Gen(z) \in Nat, Shows(z, floor), Queue(bus, z, floor, now, dev),
             call.written \in Nat, call.written <= Gen(z), call.written = Gen(z) => v.ver >= floor
      PROVE  StaleInv'
  <2>1. CallOK(c, Gen(z), floor)
    BY <1>1, <1>2, <1>9, CallAges
  <2>2. CallOK(call, Gen(z), floor)
    BY <1>4, <1>5, <1>9, <2>1 DEF CallOK
  <2>3. ReadOK(entry, Gen(z), floor)
    BY <1>1, <1>2, <1>9, ReadAges
  <2>4. /\ CacheOK(cache', now) /\ Queue(bus, cache', floor, now, dev) /\ Lag(cache') /\ Shows(cache', floor)
        /\ Gen(cache') >= Gen(cache) /\ ReadOK(entry', Gen(cache'), floor)
        /\ CallOK(reader'[r], Gen(cache'), floor) /\ UNCHANGED <<now, dev, bus, writer, floor>>
    BY <1>4, <1>7, <1>8, <1>9, <2>2, <2>3
  <2> QED
    BY <1>8, <2>4, CallIsFresh
<1>10. CASE res.accepted = FALSE
  <2>1. Kept(cache, z, K)
    BY <1>7, <1>10
  <2>2. Gen(z) = g /\ Shows(z, floor) /\ \A t : Barred(cache, t) => Barred(z, t)
    BY <1>1, <2>1, KeptShows
  <2>3. Queue(bus, z, floor, now, dev)
    BY <1>1, <2>2, QueueStays
  <2>4. call.written = c.start
    BY <1>5, <1>10
  <2>5. /\ Gen(z) >= g /\ Gen(z) \in Nat /\ call.written \in Nat /\ call.written <= Gen(z)
        /\ call.written = Gen(z) => v.ver >= floor
    BY <1>2, <1>3, <1>4, <2>2, <2>4
  <2> QED
    BY <1>9, <2>2, <2>3, <2>5
<1>11. CASE ~(res.accepted = FALSE)
  <2>1. /\ res.accepted = TRUE /\ res.gen = Gen(z) /\ Wrote(cache, z, K, w) /\ CoherentAt(z, K) /\ Has(z, K)
        /\ w.start = Gen(cache)
    BY <1>6, <1>7, <1>11
  <2>2. v.ver >= floor
    BY <1>3, <1>4, <1>6, <2>1
  <2>3. z \in Caches(Versions)
    BY <1>7 DEF CacheOK
  <2>4. /\ Gen(z) = IF Has(cache, K) THEN g ELSE g + 1
        /\ \A t : Barred(z, t) <=> t < w.obs \/ (t = w.obs /\ w.src = "active")
        /\ \A f : w.val.ver >= f => Shows(z, f)
    BY <1>1, <1>4, <2>1, <2>3, WroteShows
  <2>5. Shows(z, floor) /\ Gen(z) >= g /\ Gen(z) \in Nat
    BY <1>2, <1>6, <2>2, <2>4
  <2>6. Queue(bus, z, floor, now, dev)
    <3>1. \A i \in DOMAIN bus : bus[i].t \in Nat
      BY <1>1, QueueFacts DEF Events
    <3>2. \A i \in DOMAIN bus : Barred(z, bus[i].t)
      BY <1>1, <1>6, <2>4, <3>1 DEF Queue
    <3> QED
      BY <1>1, <3>2, QueueStays
  <2>7. call.written = Gen(z)
    BY <1>5, <2>1
  <2>8. call.written \in Nat /\ call.written <= Gen(z)
    BY <2>5, <2>7
  <2> QED
    BY <1>9, <2>2, <2>5, <2>6, <2>8
<1> QED
  BY <1>10, <1>11

\* The end of a flight.
LEMMA EndIsFresh ==
    ASSUME StaleInv, Given, FlightInv', NEW r \in Readers,
           FetchSucceeded(r) \/ FetchSuperseded(r) \/ FetchFailed(r)
    PROVE  StaleInv'
<1> DEFINE c == reader[r]
           g == Gen(cache)
<1>1. /\ FlightInv /\ Types /\ reader \in [Readers -> Calls] /\ c \in Calls /\ floor \in Nat
      /\ CallOK(c, g, floor) /\ ReadOK(entry, g, floor)
  BY DEF StaleInv, FlightInv, Types
<1>2. c.floor \in Nat /\ c.floor <= floor /\ Snapshot.gen = g /\ g \in Nat
  BY <1>1, SnapshotIsCurrent DEF Calls, CallOK
<1>3. At(r, "finish") /\ UNCHANGED <<cache, now, dev, bus, writer, floor>>
  BY DEF FetchSucceeded, FetchSuperseded, FetchFailed, cacheVars
<1>4. ASSUME NEW call \in Calls, call.pc # "store", reader' = [Woken EXCEPT ![r] = call],
             CallOK(call, g, floor), ReadOK(entry', g, floor)
      PROVE  StaleInv'
  <2>1. /\ reader'[r] = call
        /\ \A q \in Readers \ {r} :
                 \/ reader'[q] = reader[q]
                 \/ At(q, "wait") /\ reader'[q] = [reader[q] EXCEPT !.pc = "consult"]
    BY <1>1, <1>3, <1>4, CallsWake
  <2> QED
    BY <1>3, <1>4, <2>1, CallOnlyIsFresh
<1>5. CASE FetchSucceeded(r)
  <2> DEFINE v == c.val
             call == Returned(c, v, "none")
  <2>1. /\ reader' = [Woken EXCEPT ![r] = call] /\ call \in Calls /\ call.pc = "done"
        /\ entry'.lastOK = v /\ entry'.okGen = c.written
    BY <1>1, <1>5, SucceededFacts
  <2>2. c.pc = "finish" /\ c.err = "none" /\ c.written = Snapshot.gen
    BY <1>5 DEF FetchSucceeded, Overtaken, At
  <2>3. v \in Versions /\ v.ver >= floor
    BY <1>1, <1>2, <2>2 DEF CallOK
  <2> HIDE DEF v
  <2>4. CallOK(call, g, floor)
    BY <1>1, <1>2, <2>3, ReturnedIsOK
  <2>5. ReadOK(entry', g, floor)
    BY <1>2, <2>1, <2>2, <2>3 DEF ReadOK
  <2> HIDE DEF call
  <2>6. call.pc # "store"
    BY <2>1
  <2> QED
    BY <1>4, <2>1, <2>4, <2>5, <2>6
<1>6. CASE FetchSuperseded(r) \/ FetchFailed(r)
  <2>1. PICK call \in Calls :
          /\ reader' = [Woken EXCEPT ![r] = call]
          /\ call.pc = "consult" \/ (call.pc = "done" /\ call.err # "none")
          /\ call.cand = NoCandidate \/ call.cand = c.cand
          /\ call.floor = 0 \/ call.floor = c.floor
    BY <1>1, <1>6, EndedFacts
  <2>2. entry'.lastOK = NoValue \/ SameRead(entry, entry')
    BY <1>1, <1>6, EndedFacts
  <2>3. ReadOK(entry', g, floor)
    BY <1>1, <2>2 DEF ReadOK, SameRead
  <2>4. call.floor <= floor
    BY <1>1, <1>2, <2>1
  <2>5. call.cand # NoCandidate =>
          /\ call.cand.gen <= g
          /\ call.cand.gen = g => call.cand.val \in Versions /\ call.cand.val.ver >= floor
    BY <1>1, <2>1 DEF CallOK
  <2>6. CallOK(call, g, floor) /\ call.pc # "store"
    BY <2>1, <2>4, <2>5 DEF CallOK
  <2> QED
    BY <1>4, <2>1, <2>3, <2>6
<1> QED
  BY <1>5, <1>6

\* Every step keeps StaleInv.
LEMMA StaleNext ==
    ASSUME StaleInv, Given, [Next]_vars
    PROVE  StaleInv'
<1>1. FlightInv'
  BY FlightNext DEF StaleInv
<1>2. CASE UNCHANGED vars
  <2>1. UNCHANGED <<cache, now, entry, reader, dev, bus, writer, floor>>
    BY <1>2 DEF vars, cacheVars, schedulerVars
  <2>2. /\ CacheOK(cache, now') /\ Queue(bus', cache, floor, now', dev') /\ writer' <= dev'
        /\ dev' >= dev /\ UNCHANGED <<entry, reader, cache, floor>>
    BY <2>1 DEF StaleInv, FlightInv, Types
  <2> QED
    BY <1>1, <2>2, BusIsFresh
<1>3. CASE \E r \in Readers : GetWatch(r) \/ ReaderStep(r) \/ ContextDone(r)
  <2>1. PICK r \in Readers : GetWatch(r) \/ ReaderStep(r) \/ ContextDone(r)
    BY <1>3
  <2>2. \/ QuietStep(r) \/ consultSemanticReadShadow(r)
        \/ (ServeShadow(r) \/ Suppress(r) \/ Launch(r))
        \/ StoreFetched(r)
        \/ (FetchSucceeded(r) \/ FetchSuperseded(r) \/ FetchFailed(r))
    BY <2>1 DEF ReaderStep, QuietStep
  <2> QED
    BY <1>1, <2>2, QuietIsFresh, ConsultIsFresh, DecideIsFresh, StoreIsFresh, EndIsFresh
<1> QED
  BY <1>1, <1>2, <1>3, WorldKeepsFresh DEF Next

\* The initial state, when the registers are the poller's.
LEMMA StaleInit ==
    ASSUME Init, Given, "poller" \in KeySources
    PROVE  StaleInv
<1> DEFINE k0 == [gen |-> 0, invAt |-> 0, high |-> 0, snap |-> AbsentSnapshot(0)]
<1>1. FlightInv
  BY FlightInit
<1>2. /\ cache \in Caches(Versions) /\ now \in Nat \ {0} /\ K \in Keys
  BY <1>1 DEF FlightInv, Types, Given
<1>3. /\ now = 1 /\ entry = NewReadEntry /\ dev = 1 /\ bus = <<>> /\ writer = 0 /\ floor = 0
      /\ \A r \in Readers : reader[r] = NoCall
  BY DEF Init
<1>4. /\ \A k \in Keys : /\ cache.ent[k] = NoEntry /\ cache.key[k] = k0
                         /\ cache.desc[k] = "decoded" /\ cache.act[k] = KeySources
      /\ cache.lru = <<>> /\ ~cache.degraded
  BY DEF Init, EmptyCache
<1>5. k0.gen = 0 /\ k0.invAt = 0 /\ k0.high = 0 /\ k0.snap.gen = 0 /\ ~k0.snap.present
  BY DEF AbsentSnapshot
<1> HIDE DEF k0
<1>6. AllPinned(cache) /\ \A k \in Keys : ~Has(cache, k)
  BY <1>4 DEF AllPinned, Has
<1>7. Exact(cache)
  <2>1. Range(cache.lru) = {} /\ Once(cache.lru)
    BY <1>4 DEF Range, Once
  <2> QED
    BY <1>6, <2>1 DEF Exact
<1>8. \A k \in Keys : CoherentAt(cache, k) /\ TimelyAt(cache, k, now)
  BY <1>3, <1>4, <1>5, <1>6 DEF CoherentAt, TimelyAt
<1>9. CacheOK(cache, now)
  BY <1>2, <1>6, <1>7, <1>8 DEF CacheOK
<1>10. Queue(bus, cache, floor, now, dev) /\ Lag(cache) /\ Shows(cache, floor)
  BY <1>2, <1>3, <1>6 DEF Queue, Lag, Shows
<1>11. ReadOK(entry, Gen(cache), floor)
  BY <1>3 DEF ReadOK, NewReadEntry
<1>12. NoCall.pc = "idle" /\ NoCall.cand = NoCandidate /\ NoCall.floor = 0
  BY DEF NoCall
<1>13. NoCall.floor <= floor
  BY <1>3, <1>12
<1>14. CallOK(NoCall, Gen(cache), floor)
  BY <1>12, <1>13, EmptyCallOK
<1>15. floor <= dev /\ writer <= dev
  BY <1>3
<1> QED
  BY <1>1, <1>3, <1>9, <1>10, <1>11, <1>14, <1>15 DEF StaleInv

\* What the cache, the queue, the entry and the calls know of the register is of
\* an older generation or not older than the newest applied invalidation.
THEOREM StaleInvariant ==
    ASSUME "poller" \in KeySources
    PROVE  Spec => []StaleInv
<1>1. Given
  BY CacheBounds, BootKinds, SchedulerBounds DEF Given
<1>2. Init => StaleInv
  BY <1>1, StaleInit
<1>3. StaleInv /\ [Next]_vars => StaleInv'
  BY <1>1, StaleNext
<1> QED
  BY <1>2, <1>3, PTL DEF Spec

\* For a register of the poller no call returns a value older than an
\* invalidation that was applied before the call began: not from the shadow, not
\* from the scheduler's own cache, and not from a flight of another caller.
THEOREM ReadsAreNeverStale ==
    ASSUME "poller" \in KeySources
    PROVE  Spec => []NoStaleRead
<1>1. StaleInv => NoStaleRead
  BY DEF StaleInv, CallOK, NoStaleRead, At
<1> QED
  BY <1>1, StaleInvariant, PTL
=============================================================================
