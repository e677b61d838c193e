---------------------------- MODULE ShadowCacheProofs ----------------------------
(***************************************************************************)
(* Proofs about the shadow cache: what its methods do to one key, and the  *)
(* properties of CacheSpec that follow.                                    *)
(***************************************************************************)
EXTENDS ShadowCache, FiniteSetTheorems, SequenceTheorems, WellFoundedInduction, TLAPS

-----------------------------------------------------------------------------
(* The eviction list                                                         *)

\* A list without its element at i.
LEMMA RemoveAtElements ==
    ASSUME NEW s \in Seq(Keys), NEW i \in 1 .. Len(s)
    PROVE  /\ RemoveAt(s, i) \in Seq(Keys)
           /\ Len(RemoveAt(s, i)) = Len(s) - 1
           /\ \A n \in 1 .. Len(s) - 1 :
                 RemoveAt(s, i)[n] = IF n < i THEN s[n] ELSE s[n + 1]
<1> DEFINE a == SubSeq(s, 1, i - 1)
           b == SubSeq(s, i + 1, Len(s))
<1>1. /\ a \in Seq(Keys) /\ Len(a) = i - 1
      /\ \A n \in 1 .. i - 1 : a[n] = s[n]
  OBVIOUS
<1>2. /\ b \in Seq(Keys) /\ Len(b) = Len(s) - i
      /\ \A n \in 1 .. Len(s) - i : b[n] = s[i + n]
  OBVIOUS
<1> HIDE DEF a, b
<1>3. /\ a \o b \in Seq(Keys) /\ Len(a \o b) = Len(s) - 1
      /\ \A n \in 1 .. Len(s) - 1 : (a \o b)[n] = IF n <= Len(a) THEN a[n] ELSE b[n - Len(a)]
  <2>1. /\ a \o b \in Seq(Keys) /\ Len(a \o b) = Len(a) + Len(b)
        /\ \A n \in 1 .. Len(a) + Len(b) :
              (a \o b)[n] = IF n <= Len(a) THEN a[n] ELSE b[n - Len(a)]
    BY <1>1, <1>2, ConcatProperties
  <2>2. Len(a) + Len(b) = Len(s) - 1
    BY <1>1, <1>2
  <2> QED
    BY <2>1, <2>2
<1>4. \A n \in 1 .. Len(s) - 1 : (a \o b)[n] = IF n < i THEN s[n] ELSE s[n + 1]
  <2> TAKE n \in 1 .. Len(s) - 1
  <2>1. CASE n < i
    BY <2>1, <1>1, <1>3
  <2>2. CASE ~(n < i)
    <3>1. /\ n - (i - 1) \in 1 .. Len(s) - i
          /\ i + (n - (i - 1)) = n + 1
      BY <2>2
    <3> QED
      BY <2>2, <3>1, <1>1, <1>2, <1>3
  <2> QED
    BY <2>1, <2>2
<1>5. RemoveAt(s, i) = a \o b
  BY DEF RemoveAt, a, b
<1> QED
  BY <1>3, <1>4, <1>5

\* No key is on the list twice.
Once(s) == \A i, j \in 1 .. Len(s) : s[i] = s[j] => i = j

\* Removing a key from the eviction list leaves the other keys, each once.
LEMMA RemoveFirstKeys ==
    ASSUME NEW s \in Seq(Keys), NEW k \in Keys
    PROVE  /\ RemoveFirst(s, k) \in Seq(Keys)
           /\ Once(s) => /\ Once(RemoveFirst(s, k))
                         /\ Range(RemoveFirst(s, k)) = Range(s) \ {k}
<1> DEFINE I == {i \in 1 .. Len(s) : s[i] = k}
<1>1. CASE I = {}
  <2>1. RemoveFirst(s, k) = s
    BY <1>1 DEF RemoveFirst
  <2>2. k \notin Range(s)
    BY <1>1 DEF Range
  <2> QED
    BY <2>1, <2>2
<1>2. CASE I # {}
  <2>1. I \subseteq Nat
    OBVIOUS
  <2>2. PICK m \in I : \A i \in I : m <= i
    <3>1. IsWellFoundedOn(OpToRel(<, Nat), Nat)
      BY NatLessThanWellFounded
    <3>2. PICK m \in I : \A y \in I : ~(<<y, m>> \in OpToRel(<, Nat))
      BY <3>1, <2>1, <1>2, WFMin
    <3>3. \A y \in I : ~(y < m)
      BY <3>2, <2>1 DEF OpToRel
    <3> QED
      BY <3>3, <2>1
  <2>3. SelectInSeq(s, LAMBDA v : v = k) \in I
    BY <2>2, <1>2 DEF SelectInSeq, Min
  <2>4. PICK i \in I : RemoveFirst(s, k) = RemoveAt(s, i)
    BY <2>3, <1>2 DEF RemoveFirst
  <2> DEFINE t == RemoveAt(s, i)
  <2>5. /\ i \in 1 .. Len(s) /\ s[i] = k
        /\ t \in Seq(Keys) /\ Len(t) = Len(s) - 1
        /\ \A n \in 1 .. Len(s) - 1 : t[n] = IF n < i THEN s[n] ELSE s[n + 1]
    BY <2>4, RemoveAtElements
  <2> HIDE DEF t, I
  <2>6. ASSUME Once(s) PROVE Once(t)
    BY <2>5, <2>6 DEF Once
  <2>7. ASSUME Once(s), NEW x \in Range(t) PROVE x \in Range(s) \ {k}
    <3>1. PICK n \in 1 .. Len(s) - 1 : x = t[n]
      BY <2>5, <2>7 DEF Range
    <3>2. CASE n < i
      BY <2>5, <2>7, <3>1, <3>2 DEF Range, Once
    <3>3. CASE ~(n < i)
      BY <2>5, <2>7, <3>1, <3>3 DEF Range, Once
    <3> QED
      BY <3>2, <3>3
  <2>8. ASSUME NEW x \in Range(s) \ {k} PROVE x \in Range(t)
    <3>1. PICK n \in 1 .. Len(s) : x = s[n]
      BY <2>8 DEF Range
    <3>2. CASE n < i
      <4>1. n \in DOMAIN t /\ t[n] = x
        BY <2>5, <3>1, <3>2
      <4> QED
        BY <4>1 DEF Range
    <3>3. CASE ~(n < i)
      <4>1. n # i
        BY <2>5, <2>8, <3>1
      <4>2. n - 1 \in DOMAIN t /\ t[n - 1] = x
        BY <2>5, <3>1, <3>3, <4>1
      <4> QED
        BY <4>2 DEF Range
    <3> QED
      BY <3>2, <3>3
  <2>9. RemoveFirst(s, k) = t
    BY <2>4 DEF t
  <2>10. Once(s) => Range(t) = Range(s) \ {k}
    BY <2>7, <2>8
  <2> QED
    BY <2>5, <2>6, <2>9, <2>10
<1> QED
  BY <1>1, <1>2

\* Appending a key that is not on the list.
LEMMA AppendKeys ==
    ASSUME NEW s \in Seq(Keys), NEW k \in Keys
    PROVE  /\ Append(s, k) \in Seq(Keys)
           /\ Range(Append(s, k)) = Range(s) \cup {k}
           /\ Once(s) /\ k \notin Range(s) => Once(Append(s, k))
<1> DEFINE t == Append(s, k)
<1>1. /\ t \in Seq(Keys) /\ Len(t) = Len(s) + 1 /\ t[Len(s) + 1] = k
      /\ \A n \in 1 .. Len(s) : t[n] = s[n]
  OBVIOUS
<1> HIDE DEF t
<1>2. Range(t) \subseteq Range(s) \cup {k}
  BY <1>1 DEF Range
<1>3. Range(s) \subseteq Range(t)
  BY <1>1 DEF Range
<1>4. k \in Range(t)
  BY <1>1 DEF Range
<1>5. Once(s) /\ k \notin Range(s) => Once(t)
  BY <1>1 DEF Once, Range
<1>6. /\ t \in Seq(Keys) /\ Range(t) = Range(s) \cup {k}
      /\ Once(s) /\ k \notin Range(s) => Once(t)
  BY <1>1, <1>2, <1>3, <1>4, <1>5
<1> QED
  BY <1>6 DEF t

-----------------------------------------------------------------------------
(* What the helpers do to one key                                            *)

\* Everything but the entries and the eviction list.
SameState(c, d) ==
    d.key = c.key /\ d.desc = c.desc /\ d.act = c.act /\ d.degraded = c.degraded

\* Two entries that differ at most in their pin.
SameEntry(e, f) ==
    /\ f.desc = e.desc /\ f.src = e.src /\ f.st = e.st /\ f.val = e.val
    /\ f.obs = e.obs /\ f.exp = e.exp /\ f.gen = e.gen /\ f.invAt = e.invAt

\* Two caches with the same keys cached, whose entries differ at most in their pins.
SameEntries(c, d) ==
    \A j \in Keys : (Has(d, j) <=> Has(c, j)) /\ (Has(c, j) => SameEntry(c.ent[j], d.ent[j]))

\* The fields of a cache, and the type of an entry.
LEMMA CacheFields ==
    ASSUME NEW V, NoEntry \notin Entries(V), NEW c \in Caches(V), NEW k \in Keys
    PROVE  /\ c.ent \in [Keys -> Entries(V) \cup {NoEntry}]
           /\ c.key \in [Keys -> KeyStates]
           /\ c.lru \in Seq(Keys)
           /\ c.desc \in [Keys -> Descriptors]
           /\ c.act \in [Keys -> SUBSET Activations]
           /\ c.degraded \in BOOLEAN
           /\ c.key[k] \in KeyStates
           /\ Has(c, k) <=> c.ent[k] \in Entries(V)
BY DEF Caches, Has

\* applyPinClassLocked changes the pin of one entry and the eviction list.
LEMMA ApplyPinFacts ==
    ASSUME NEW V, NoEntry \notin Entries(V), NEW c \in Caches(V),
           NEW k \in Keys, Has(c, k), NEW pin \in PinClasses
    PROVE  /\ applyPinClass(c, k, pin) \in Caches(V)
           /\ SameState(c, applyPinClass(c, k, pin))
           /\ applyPinClass(c, k, pin).ent[k] = [c.ent[k] EXCEPT !.pin = pin]
           /\ \A j \in Keys \ {k} : applyPinClass(c, k, pin).ent[j] = c.ent[j]
           /\ applyPinClass(c, k, pin).lru =
                 IF pin # "none" THEN RemoveFirst(c.lru, k)
                 ELSE IF k \in Range(c.lru) THEN c.lru ELSE Append(c.lru, k)
<1> DEFINE l == IF pin # "none" THEN RemoveFirst(c.lru, k)
                ELSE IF k \in Range(c.lru) THEN c.lru ELSE Append(c.lru, k)
           e == [c.ent[k] EXCEPT !.pin = pin]
           d == applyPinClass(c, k, pin)
<1>1. l \in Seq(Keys)
  BY CacheFields, RemoveFirstKeys, AppendKeys
<1>2. e \in Entries(V)
  BY CacheFields DEF Entries
<1>3. d = [c EXCEPT !.ent = [c.ent EXCEPT ![k] = e], !.lru = l]
  BY DEF applyPinClass, Caches
<1> HIDE DEF l, e, d
<1>4. /\ d.ent = [c.ent EXCEPT ![k] = e] /\ d.lru = l
      /\ d.key = c.key /\ d.desc = c.desc /\ d.act = c.act /\ d.degraded = c.degraded
  BY <1>3 DEF Caches
<1>5. [c.ent EXCEPT ![k] = e] \in [Keys -> Entries(V) \cup {NoEntry}]
  BY <1>2, CacheFields
<1>6. d \in Caches(V)
  BY <1>1, <1>3, <1>5 DEF Caches
<1>7. d.ent[k] = e /\ \A j \in Keys \ {k} : d.ent[j] = c.ent[j]
  BY <1>4, CacheFields
<1>8. /\ d \in Caches(V) /\ SameState(c, d) /\ d.ent[k] = e
      /\ (\A j \in Keys \ {k} : d.ent[j] = c.ent[j]) /\ d.lru = l
  BY <1>4, <1>6, <1>7 DEF SameState
<1> QED
  BY <1>8 DEF d, e, l

\* Everything outside key k, the catalog, the activations and the budget flag.
SameElsewhere(c, d, k) ==
    /\ \A j \in Keys \ {k} : d.ent[j] = c.ent[j] /\ d.key[j] = c.key[j]
    /\ d.desc = c.desc /\ d.act = c.act /\ d.degraded = c.degraded

\* The cache with the entry, the key state and the eviction list given.
Put(c, k, e, s, l) ==
    [c EXCEPT !.ent = [c.ent EXCEPT ![k] = e], !.key = [c.key EXCEPT ![k] = s], !.lru = l]

\* What Put leaves alone.
LEMMA PutFacts ==
    ASSUME NEW V, NoEntry \notin Entries(V), NEW c \in Caches(V), NEW k \in Keys,
           NEW e \in Entries(V) \cup {NoEntry}, NEW s \in KeyStates, NEW l \in Seq(Keys)
    PROVE  /\ Put(c, k, e, s, l) \in Caches(V)
           /\ Put(c, k, e, s, l).ent[k] = e
           /\ Put(c, k, e, s, l).key[k] = s
           /\ Put(c, k, e, s, l).lru = l
           /\ SameElsewhere(c, Put(c, k, e, s, l), k)
<1>1. /\ [c.ent EXCEPT ![k] = e] \in [Keys -> Entries(V) \cup {NoEntry}]
      /\ [c.key EXCEPT ![k] = s] \in [Keys -> KeyStates]
  BY CacheFields
<1>2. /\ Put(c, k, e, s, l).ent = [c.ent EXCEPT ![k] = e]
      /\ Put(c, k, e, s, l).key = [c.key EXCEPT ![k] = s]
      /\ Put(c, k, e, s, l).lru = l
      /\ Put(c, k, e, s, l).desc = c.desc
      /\ Put(c, k, e, s, l).act = c.act
      /\ Put(c, k, e, s, l).degraded = c.degraded
  BY DEF Put, Caches
<1>3. Put(c, k, e, s, l) \in Caches(V)
  BY <1>1 DEF Put, Caches
<1> QED
  BY <1>2, <1>3, CacheFields DEF SameElsewhere

\* A pin class is always one of the three.
LEMMA DesiredPinType ==
    ASSUME NEW c, NEW k, NEW d
    PROVE  desiredPinClass(c, k, d) \in PinClasses
BY DEF desiredPinClass, PinClasses

\* syncEntryPinLocked changes at most the pin of the entry.
LEMMA SyncFacts ==
    ASSUME NEW V, NoEntry \notin Entries(V), NEW c \in Caches(V), NEW k \in Keys
    PROVE  /\ syncEntryPin(c, k) \in Caches(V)
           /\ SameState(c, syncEntryPin(c, k))
           /\ SameEntries(c, syncEntryPin(c, k))
           /\ \A j \in Keys \ {k} : syncEntryPin(c, k).ent[j] = c.ent[j]
<1>1. CASE ~Has(c, k) \/ c.ent[k].desc = "missing"
  BY <1>1 DEF syncEntryPin, SameState, SameEntries, SameEntry
<1>2. CASE ~(~Has(c, k) \/ c.ent[k].desc = "missing")
  <2>1. PICK pin \in PinClasses : syncEntryPin(c, k) = applyPinClass(c, k, pin)
    BY <1>2, DesiredPinType DEF syncEntryPin, PinClasses
  <2> DEFINE d == applyPinClass(c, k, pin)
  <2>2. /\ d \in Caches(V) /\ SameState(c, d)
        /\ d.ent[k] = [c.ent[k] EXCEPT !.pin = pin]
        /\ \A j \in Keys \ {k} : d.ent[j] = c.ent[j]
    BY <1>2, ApplyPinFacts
  <2>3. c.ent[k] \in Entries(V)
    BY <1>2, CacheFields
  <2>4. d.ent[k] \in Entries(V) /\ SameEntry(c.ent[k], d.ent[k])
    BY <2>2, <2>3 DEF Entries, SameEntry
  <2> HIDE DEF d
  <2>5. SameEntries(c, d)
    BY <1>2, <2>2, <2>4 DEF SameEntries, SameEntry, Has
  <2> QED
    BY <2>1, <2>2, <2>5 DEF d
<1> QED
  BY <1>1, <1>2

\* The snapshot of an absent entry.
LEMMA AbsentType ==
    ASSUME NEW g \in Nat PROVE AbsentSnapshot(g) \in Snapshots
BY DEF AbsentSnapshot, Snapshots, EntryStates

\* A key state with another snapshot.
LEMMA SnapType ==
    ASSUME NEW s \in KeyStates, NEW r \in Snapshots
    PROVE  /\ [s EXCEPT !.snap = r] \in KeyStates
           /\ [s EXCEPT !.snap = r].snap = r
           /\ [s EXCEPT !.snap = r].gen = s.gen
           /\ [s EXCEPT !.snap = r].invAt = s.invAt
           /\ [s EXCEPT !.snap = r].high = s.high
BY DEF KeyStates

\* removeEntryLocked takes the entry away and stores an absent snapshot.
LEMMA RemoveEntryFacts ==
    ASSUME NEW V, NoEntry \notin Entries(V), NEW c \in Caches(V), NEW k \in Keys
    PROVE  removeEntry(c, k) =
             Put(c, k, NoEntry, [c.key[k] EXCEPT !.snap = AbsentSnapshot(c.key[k].gen)],
                 RemoveFirst(c.lru, k))
<1>1. c.key \in [Keys -> KeyStates] /\ c.key[k] \in KeyStates
  BY CacheFields
<1> QED
  BY <1>1 DEF removeEntry, storeAbsentSnapshot, Put, Caches

\* The record of the entry that storeSnapshotLocked publishes.
Shown(e) == [present |-> TRUE, st |-> e.st, gen |-> e.gen, obs |-> e.obs, exp |-> e.exp]

\* The published record of an entry is a snapshot.
LEMMA ShownType ==
    ASSUME NEW V, NEW e \in Entries(V)
    PROVE  Shown(e) \in Snapshots
BY DEF Shown, Snapshots, Entries

\* storeSnapshotLocked changes only the snapshot.
LEMMA StoreSnapshotFacts ==
    ASSUME NEW V, NoEntry \notin Entries(V), NEW c \in Caches(V), NEW k \in Keys
    PROVE  storeSnapshot(c, k) =
             Put(c, k, c.ent[k], [c.key[k] EXCEPT !.snap = Shown(c.ent[k])], c.lru)
<1>1. /\ c.ent = [c.ent EXCEPT ![k] = c.ent[k]]
      /\ c.key \in [Keys -> KeyStates] /\ c.key[k] \in KeyStates
  BY CacheFields
<1> QED
  BY <1>1 DEF storeSnapshot, Put, Caches, Shown

\* storeAbsentSnapshotLocked changes only the snapshot.
LEMMA StoreAbsentFacts ==
    ASSUME NEW V, NoEntry \notin Entries(V), NEW c \in Caches(V), NEW k \in Keys
    PROVE  storeAbsentSnapshot(c, k) =
             Put(c, k, c.ent[k], [c.key[k] EXCEPT !.snap = AbsentSnapshot(c.key[k].gen)], c.lru)
<1>1. /\ c.ent = [c.ent EXCEPT ![k] = c.ent[k]]
      /\ c.key \in [Keys -> KeyStates] /\ c.key[k] \in KeyStates
  BY CacheFields
<1> QED
  BY <1>1 DEF storeAbsentSnapshot, Put, Caches

\* advanceGenerationLocked gives the entry and its key state the next generation.
LEMMA AdvanceFacts ==
    ASSUME NEW V, NoEntry \notin Entries(V), NEW c \in Caches(V), NEW k \in Keys, Has(c, k)
    PROVE  /\ advanceGeneration(c, k) =
                Put(c, k, [c.ent[k] EXCEPT !.gen = c.key[k].gen + 1],
                          [c.key[k] EXCEPT !.gen = c.key[k].gen + 1], c.lru)
           /\ [c.ent[k] EXCEPT !.gen = c.key[k].gen + 1] \in Entries(V)
           /\ [c.key[k] EXCEPT !.gen = c.key[k].gen + 1] \in KeyStates
<1>1. /\ c.ent \in [Keys -> Entries(V) \cup {NoEntry}]
      /\ c.key \in [Keys -> KeyStates] /\ c.key[k] \in KeyStates /\ c.ent[k] \in Entries(V)
  BY CacheFields
<1>2. c.key[k].gen + 1 \in Nat
  BY <1>1 DEF KeyStates
<1>3. advanceGeneration(c, k) =
                Put(c, k, [c.ent[k] EXCEPT !.gen = c.key[k].gen + 1],
                          [c.key[k] EXCEPT !.gen = c.key[k].gen + 1], c.lru)
  BY <1>1 DEF advanceGeneration, Put, Caches
<1>4. [c.ent[k] EXCEPT !.gen = c.key[k].gen + 1] \in Entries(V)
  BY <1>1, <1>2 DEF Entries
<1>5. [c.key[k] EXCEPT !.gen = c.key[k].gen + 1] \in KeyStates
  BY <1>1, <1>2 DEF KeyStates
<1> QED
  BY <1>3, <1>4, <1>5

\* The writes whose values are in V.
Writes(V) == [src : Sources, val : V, obs : Nat, start : Nat]

\* The fields of an entry that holds the write w, under the descriptor d.
HoldsWrite(e, w, d, gen) ==
    /\ e.desc = d /\ e.src = w.src /\ e.st = "present" /\ e.val = w.val
    /\ e.obs = w.obs /\ e.exp = w.obs + TTL(d) /\ e.gen = gen /\ e.invAt = 0

\* storeWrite fills the entry, lifts the barrier and publishes the entry.
LEMMA StoreWriteFacts ==
    ASSUME NEW V, NoEntry \notin Entries(V), NEW c \in Caches(V), NEW k \in Keys, Has(c, k),
           NEW w \in Writes(V), NEW pin \in PinClasses, CacheBounds
    PROVE  LET z == storeWrite(c, k, w, pin)
           IN  /\ z \in Caches(V)
               /\ SameElsewhere(c, z, k)
               /\ z.ent[k] \in Entries(V)
               /\ HoldsWrite(z.ent[k], w, c.desc[k], c.ent[k].gen) /\ z.ent[k].pin = pin
               /\ z.key[k].gen = c.key[k].gen /\ z.key[k].invAt = 0
               /\ z.key[k].high = Later(c.key[k].high, w.obs)
               /\ z.key[k].snap = Shown(z.ent[k])
               /\ z.lru = IF pin # "none" THEN RemoveFirst(c.lru, k)
                          ELSE IF k \in Range(c.lru) THEN c.lru ELSE Append(c.lru, k)
<1> DEFINE e == [c.ent[k] EXCEPT !.desc = c.desc[k], !.src = w.src, !.st = "present",
                              !.val = w.val, !.obs = w.obs,
                              !.exp = w.obs + TTL(c.desc[k]), !.invAt = 0]
           s == [c.key[k] EXCEPT !.invAt = 0, !.high = Later(@, w.obs)]
           d == [c EXCEPT !.ent[k] = e, !.key[k].invAt = 0, !.key[k].high = Later(@, w.obs)]
           a == applyPinClass(d, k, pin)
           z == storeWrite(c, k, w, pin)
<1>1. /\ c.ent \in [Keys -> Entries(V) \cup {NoEntry}] /\ c.desc[k] \in Descriptors
      /\ c.key \in [Keys -> KeyStates] /\ c.key[k] \in KeyStates /\ c.ent[k] \in Entries(V)
      /\ c.lru \in Seq(Keys)
  BY CacheFields
<1>2. w.obs + TTL(c.desc[k]) \in Nat /\ Later(c.key[k].high, w.obs) \in Nat
  BY <1>1 DEF TTL, CacheBounds, Writes, Later, KeyStates
<1>3. e \in Entries(V) /\ HoldsWrite(e, w, c.desc[k], c.ent[k].gen)
  <2>1. w.src \in Sources /\ w.val \in V /\ w.obs \in Nat /\ "present" \in EntryStates
    BY DEF Writes, EntryStates
  <2>2. e \in Entries(V)
    BY <1>1, <1>2, <2>1 DEF Entries
  <2>3. HoldsWrite(e, w, c.desc[k], c.ent[k].gen)
    BY <1>1 DEF Entries, HoldsWrite
  <2> QED
    BY <2>2, <2>3
<1>4. /\ s \in KeyStates
      /\ s.gen = c.key[k].gen /\ s.invAt = 0 /\ s.high = Later(c.key[k].high, w.obs)
  BY <1>1, <1>2 DEF KeyStates
<1>5. d = Put(c, k, e, s, c.lru)
  BY <1>1 DEF Put, Caches
<1>6. z = storeSnapshot(a, k)
  BY DEF storeWrite
<1> HIDE DEF z, a, d, s, e
<1>7. /\ d \in Caches(V) /\ d.ent[k] = e /\ d.key[k] = s /\ d.lru = c.lru
      /\ SameElsewhere(c, d, k)
  <2>1. e \in Entries(V) \cup {NoEntry}
    BY <1>3
  <2>2. LET p == Put(c, k, e, s, c.lru)
        IN  p \in Caches(V) /\ p.ent[k] = e /\ p.key[k] = s /\ p.lru = c.lru /\ SameElsewhere(c, p, k)
    BY <1>1, <2>1, <1>4, PutFacts
  <2> QED
    BY <2>2, <1>5
<1>8. Has(d, k)
  BY <1>3, <1>7 DEF Has
<1>9. /\ a \in Caches(V) /\ SameState(d, a) /\ a.ent[k] = [e EXCEPT !.pin = pin]
      /\ \A j \in Keys \ {k} : a.ent[j] = d.ent[j]
      /\ a.lru = IF pin # "none" THEN RemoveFirst(d.lru, k)
                 ELSE IF k \in Range(d.lru) THEN d.lru ELSE Append(d.lru, k)
  BY <1>7, <1>8, ApplyPinFacts DEF a
<1>10. /\ a.ent[k] \in Entries(V) /\ a.ent[k].pin = pin
       /\ HoldsWrite(a.ent[k], w, c.desc[k], c.ent[k].gen)
  BY <1>3, <1>9 DEF Entries, HoldsWrite
<1>11. a.key[k] = s /\ SameElsewhere(c, a, k)
  BY <1>7, <1>9 DEF SameState, SameElsewhere
<1> DEFINE u == [s EXCEPT !.snap = Shown(a.ent[k])]
<1>12. /\ u \in KeyStates
       /\ u.gen = c.key[k].gen /\ u.invAt = 0 /\ u.high = Later(c.key[k].high, w.obs)
       /\ u.snap = Shown(a.ent[k])
  BY <1>4, <1>10, ShownType, SnapType
<1>13. z = Put(a, k, a.ent[k], u, a.lru)
  BY <1>6, <1>9, <1>11, StoreSnapshotFacts
<1>14. a.lru \in Seq(Keys) /\ a.ent[k] \in Entries(V) \cup {NoEntry}
  BY <1>9, <1>10, CacheFields
<1> HIDE DEF u
<1>15. /\ z \in Caches(V) /\ z.ent[k] = a.ent[k] /\ z.lru = a.lru
       /\ z.key[k] = u /\ SameElsewhere(a, z, k)
  <2>0. a \in Caches(V) /\ u \in KeyStates
    BY <1>9, <1>12
  <2>1. LET p == Put(a, k, a.ent[k], u, a.lru)
        IN  /\ p \in Caches(V) /\ p.ent[k] = a.ent[k] /\ p.key[k] = u /\ p.lru = a.lru
            /\ SameElsewhere(a, p, k)
    BY <2>0, <1>14, PutFacts
  <2> QED
    BY <2>1, <1>13
<1>16. SameElsewhere(c, z, k)
  BY <1>11, <1>15 DEF SameElsewhere
<1> QED
  BY <1>7, <1>9, <1>10, <1>12, <1>15, <1>16 DEF z

\* invalidateEntry gives the entry a new generation and publishes it as not present.
LEMMA InvalidateEntryFacts ==
    ASSUME NEW V, NoEntry \notin Entries(V), NEW c \in Caches(V), NEW k \in Keys, Has(c, k),
           NEW pin \in PinClasses
    PROVE  LET z == invalidateEntry(c, k, pin)
           IN  /\ z \in Caches(V)
               /\ SameElsewhere(c, z, k)
               /\ z.ent[k] \in Entries(V)
               /\ z.ent[k].st = IF c.ent[k].val = NoValue THEN "tombstone" ELSE "invalidated"
               /\ z.ent[k].src = c.ent[k].src /\ z.ent[k].val = c.ent[k].val
               /\ z.ent[k].obs = c.ent[k].obs /\ z.ent[k].gen = c.key[k].gen + 1
               /\ z.ent[k].desc = c.desc[k] /\ z.ent[k].pin = pin
               /\ z.ent[k].invAt = c.key[k].invAt
               /\ z.key[k].gen = c.key[k].gen + 1 /\ z.key[k].invAt = c.key[k].invAt
               /\ z.key[k].high = c.key[k].high
               /\ z.key[k].snap = Shown(z.ent[k])
               /\ z.lru = IF pin # "none" THEN RemoveFirst(c.lru, k)
                          ELSE IF k \in Range(c.lru) THEN c.lru ELSE Append(c.lru, k)
<1> DEFINE g == advanceGeneration(c, k)
           ge == [c.ent[k] EXCEPT !.gen = c.key[k].gen + 1]
           gs == [c.key[k] EXCEPT !.gen = c.key[k].gen + 1]
           st == IF c.ent[k].val = NoValue THEN "tombstone" ELSE "invalidated"
           e == [g.ent[k] EXCEPT !.desc = c.desc[k], !.invAt = c.key[k].invAt, !.st = st]
           d == [g EXCEPT !.ent[k] = e]
           a == applyPinClass(d, k, pin)
           z == invalidateEntry(c, k, pin)
<1>1. /\ c.key[k] \in KeyStates /\ c.ent[k] \in Entries(V) /\ c.desc[k] \in Descriptors
      /\ c.lru \in Seq(Keys)
  BY CacheFields
<1>2. g = Put(c, k, ge, gs, c.lru) /\ ge \in Entries(V) /\ gs \in KeyStates
  BY AdvanceFacts
<1>3. /\ ge.src = c.ent[k].src /\ ge.val = c.ent[k].val /\ ge.obs = c.ent[k].obs
      /\ ge.gen = c.key[k].gen + 1
  BY <1>1 DEF Entries
<1>4. gs.gen = c.key[k].gen + 1 /\ gs.invAt = c.key[k].invAt /\ gs.high = c.key[k].high
  BY <1>1 DEF KeyStates
<1>5. z = storeSnapshot(a, k)
  BY DEF invalidateEntry
<1> HIDE DEF z, a, g, ge, gs
<1>6. g \in Caches(V) /\ g.ent[k] = ge /\ g.key[k] = gs /\ g.lru = c.lru /\ SameElsewhere(c, g, k)
  <2>1. ge \in Entries(V) \cup {NoEntry}
    BY <1>2
  <2>2. LET p == Put(c, k, ge, gs, c.lru)
        IN  p \in Caches(V) /\ p.ent[k] = ge /\ p.key[k] = gs /\ p.lru = c.lru /\ SameElsewhere(c, p, k)
    BY <1>1, <1>2, <2>1, PutFacts
  <2> QED
    BY <2>2, <1>2
<1>7. /\ e \in Entries(V) /\ e.st = st /\ e.src = c.ent[k].src /\ e.val = c.ent[k].val
      /\ e.obs = c.ent[k].obs /\ e.gen = c.key[k].gen + 1 /\ e.desc = c.desc[k]
      /\ e.invAt = c.key[k].invAt
  <2>1. st \in EntryStates /\ c.key[k].invAt \in Nat
    BY <1>1 DEF EntryStates, KeyStates
  <2>2. g.ent[k] = ge /\ ge \in Entries(V)
    BY <1>2, <1>6
  <2> HIDE DEF st
  <2> QED
    BY <1>1, <1>3, <2>1, <2>2 DEF Entries
<1>8. d = Put(g, k, e, g.key[k], g.lru)
  <2>1. g.key = [g.key EXCEPT ![k] = g.key[k]]
    BY <1>6, CacheFields
  <2> QED
    BY <2>1, <1>6 DEF Put, Caches
<1> HIDE DEF d, e, st
<1>9. d \in Caches(V) /\ d.ent[k] = e /\ d.key[k] = gs /\ d.lru = c.lru /\ SameElsewhere(c, d, k)
  <2>1. e \in Entries(V) \cup {NoEntry} /\ g.key[k] \in KeyStates /\ g.lru \in Seq(Keys)
    BY <1>6, <1>7, CacheFields
  <2>2. LET p == Put(g, k, e, g.key[k], g.lru)
        IN  p \in Caches(V) /\ p.ent[k] = e /\ p.key[k] = g.key[k] /\ p.lru = g.lru /\ SameElsewhere(g, p, k)
    BY <2>1, <1>6, PutFacts
  <2> QED
    BY <2>2, <1>6, <1>8 DEF SameElsewhere
<1>10. Has(d, k)
  BY <1>7, <1>9 DEF Has
<1>11. /\ a \in Caches(V) /\ SameState(d, a) /\ a.ent[k] = [e EXCEPT !.pin = pin]
       /\ \A j \in Keys \ {k} : a.ent[j] = d.ent[j]
       /\ a.lru = IF pin # "none" THEN RemoveFirst(d.lru, k)
                  ELSE IF k \in Range(d.lru) THEN d.lru ELSE Append(d.lru, k)
  BY <1>9, <1>10, ApplyPinFacts DEF a
<1>12. /\ a.ent[k] \in Entries(V) /\ a.ent[k].st = st /\ a.ent[k].src = c.ent[k].src
       /\ a.ent[k].val = c.ent[k].val /\ a.ent[k].obs = c.ent[k].obs
       /\ a.ent[k].gen = c.key[k].gen + 1 /\ a.ent[k].desc = c.desc[k] /\ a.ent[k].pin = pin
       /\ a.ent[k].invAt = c.key[k].invAt
  BY <1>7, <1>11 DEF Entries
<1>13. a.key[k] = gs /\ SameElsewhere(c, a, k)
  BY <1>9, <1>11 DEF SameState, SameElsewhere
<1> DEFINE u == [gs EXCEPT !.snap = Shown(a.ent[k])]
<1>14. /\ u \in KeyStates /\ u.gen = gs.gen /\ u.invAt = gs.invAt /\ u.high = gs.high
       /\ u.snap = Shown(a.ent[k])
  BY <1>2, <1>12, ShownType, SnapType
<1>15. z = Put(a, k, a.ent[k], u, a.lru)
  BY <1>5, <1>11, <1>13, StoreSnapshotFacts
<1>16. a.lru \in Seq(Keys) /\ a.ent[k] \in Entries(V) \cup {NoEntry} /\ a \in Caches(V)
  BY <1>11, <1>12, CacheFields
<1> HIDE DEF u
<1>17. /\ z \in Caches(V) /\ z.ent[k] = a.ent[k] /\ z.lru = a.lru
       /\ z.key[k] = u /\ SameElsewhere(a, z, k)
  <2>1. LET p == Put(a, k, a.ent[k], u, a.lru)
        IN  /\ p \in Caches(V) /\ p.ent[k] = a.ent[k] /\ p.key[k] = u /\ p.lru = a.lru
            /\ SameElsewhere(a, p, k)
    BY <1>14, <1>16, PutFacts
  <2> QED
    BY <2>1, <1>15
<1>18. SameElsewhere(c, z, k)
  BY <1>13, <1>17 DEF SameElsewhere
<1>19. /\ z.key[k].gen = c.key[k].gen + 1 /\ z.key[k].invAt = c.key[k].invAt
       /\ z.key[k].high = c.key[k].high /\ z.key[k].snap = Shown(z.ent[k])
  BY <1>4, <1>14, <1>17
<1>20. z.lru = IF pin # "none" THEN RemoveFirst(c.lru, k)
               ELSE IF k \in Range(c.lru) THEN c.lru ELSE Append(c.lru, k)
  BY <1>9, <1>11, <1>17
<1> QED
  BY <1>12, <1>17, <1>18, <1>19, <1>20 DEF z, st

-----------------------------------------------------------------------------
(* Eviction                                                                  *)

\* The eviction list holds the unpinned entries, each once.
Exact(c) ==
    /\ Once(c.lru)
    /\ \A j \in Keys : j \in Range(c.lru) <=> Has(c, j) /\ c.ent[j].pin = "none"

\* The same, of every key but k.
ExactBut(c, k) ==
    /\ Once(c.lru)
    /\ \A j \in Keys \ {k} : j \in Range(c.lru) <=> Has(c, j) /\ c.ent[j].pin = "none"

\* Pinning or unpinning k makes the list exact again.
LEMMA RelistExact ==
    ASSUME NEW V, NEW c \in Caches(V), NEW z \in Caches(V), NEW k \in Keys, ExactBut(c, k),
           \A j \in Keys \ {k} : z.ent[j] = c.ent[j], Has(z, k),
           z.lru = IF z.ent[k].pin # "none" THEN RemoveFirst(c.lru, k)
                   ELSE IF k \in Range(c.lru) THEN c.lru ELSE Append(c.lru, k)
    PROVE  Exact(z)
<1>1. c.lru \in Seq(Keys) /\ Once(c.lru)
  BY DEF Caches, ExactBut
<1>2. /\ Once(RemoveFirst(c.lru, k)) /\ Range(RemoveFirst(c.lru, k)) = Range(c.lru) \ {k}
      /\ Range(Append(c.lru, k)) = Range(c.lru) \cup {k}
      /\ k \notin Range(c.lru) => Once(Append(c.lru, k))
  BY <1>1, RemoveFirstKeys, AppendKeys
<1>3. Once(z.lru) /\ \A j \in Keys \ {k} : j \in Range(z.lru) <=> j \in Range(c.lru)
  BY <1>1, <1>2
<1>4. k \in Range(z.lru) <=> z.ent[k].pin = "none"
  BY <1>2
<1>5. \A j \in Keys \ {k} : j \in Range(z.lru) <=> Has(z, j) /\ z.ent[j].pin = "none"
  BY <1>3 DEF ExactBut, Has
<1> QED
  BY <1>3, <1>4, <1>5 DEF Exact

\* syncEntryPinLocked keeps the list exact.
LEMMA SyncExact ==
    ASSUME NEW V, NoEntry \notin Entries(V), NEW c \in Caches(V), NEW k \in Keys, Exact(c)
    PROVE  Exact(syncEntryPin(c, k))
<1>1. CASE ~Has(c, k) \/ c.ent[k].desc = "missing"
  BY <1>1 DEF syncEntryPin
<1>2. CASE ~(~Has(c, k) \/ c.ent[k].desc = "missing")
  <2>1. PICK pin \in PinClasses : syncEntryPin(c, k) = applyPinClass(c, k, pin)
    BY <1>2, DesiredPinType DEF syncEntryPin, PinClasses
  <2> DEFINE d == applyPinClass(c, k, pin)
  <2>2. /\ d \in Caches(V)
        /\ d.ent[k] = [c.ent[k] EXCEPT !.pin = pin]
        /\ \A j \in Keys \ {k} : d.ent[j] = c.ent[j]
        /\ d.lru = IF pin # "none" THEN RemoveFirst(c.lru, k)
                   ELSE IF k \in Range(c.lru) THEN c.lru ELSE Append(c.lru, k)
    BY <1>2, ApplyPinFacts
  <2>3. d.ent[k] \in Entries(V) /\ d.ent[k].pin = pin
    <3>1. c.ent[k] \in Entries(V)
      BY <1>2, CacheFields
    <3> QED
      BY <2>2, <3>1 DEF Entries
  <2>4. Has(d, k) /\ ExactBut(c, k)
    BY <2>3 DEF Has, Exact, ExactBut
  <2> HIDE DEF d
  <2>5. Exact(d)
    BY <2>2, <2>3, <2>4, RelistExact
  <2> QED
    BY <2>1, <2>5 DEF d
<1> QED
  BY <1>1, <1>2

\* The key is untouched but for its pin.
Kept(c, d, j) ==
    /\ d.key[j] = c.key[j]
    /\ Has(d, j) <=> Has(c, j)
    /\ Has(c, j) => SameEntry(c.ent[j], d.ent[j])

\* The entry of the key was evicted or removed.
Dropped(c, d, j) ==
    /\ d.ent[j] = NoEntry
    /\ d.key[j].gen = c.key[j].gen /\ d.key[j].invAt = c.key[j].invAt
    /\ d.key[j].high = c.key[j].high
    /\ d.key[j].snap = AbsentSnapshot(c.key[j].gen)

\* The catalog, the activations and the budget flag.
SameConfig(c, d) == d.desc = c.desc /\ d.act = c.act /\ d.degraded = c.degraded

\* removeEntryLocked, key by key.
LEMMA RemoveKeyFacts ==
    ASSUME NEW V, NoEntry \notin Entries(V), NEW c \in Caches(V), NEW k \in Keys
    PROVE  LET z == removeEntry(c, k)
           IN  /\ z \in Caches(V) /\ SameElsewhere(c, z, k) /\ Dropped(c, z, k)
               /\ z.lru = RemoveFirst(c.lru, k)
               /\ ExactBut(c, k) => Exact(z)
<1> DEFINE u == [c.key[k] EXCEPT !.snap = AbsentSnapshot(c.key[k].gen)]
           l == RemoveFirst(c.lru, k)
           z == removeEntry(c, k)
<1>1. c.key[k] \in KeyStates /\ c.lru \in Seq(Keys)
  BY CacheFields
<1>2. c.key[k].gen \in Nat
  BY <1>1 DEF KeyStates
<1>3. /\ u \in KeyStates /\ u.gen = c.key[k].gen /\ u.invAt = c.key[k].invAt
      /\ u.high = c.key[k].high /\ u.snap = AbsentSnapshot(c.key[k].gen)
  BY <1>1, <1>2, AbsentType, SnapType
<1>4. l \in Seq(Keys) /\ NoEntry \in Entries(V) \cup {NoEntry}
  BY <1>1, RemoveFirstKeys
<1>5. z = Put(c, k, NoEntry, u, l)
  BY RemoveEntryFacts
<1> HIDE DEF u, l, z
<1>6. LET p == Put(c, k, NoEntry, u, l)
      IN  p \in Caches(V) /\ p.ent[k] = NoEntry /\ p.key[k] = u /\ p.lru = l /\ SameElsewhere(c, p, k)
  BY <1>3, <1>4, PutFacts
<1>7. z \in Caches(V) /\ z.ent[k] = NoEntry /\ z.key[k] = u /\ z.lru = l /\ SameElsewhere(c, z, k)
  BY <1>5, <1>6
<1>8. ASSUME ExactBut(c, k) PROVE Exact(z)
  <2>1. Once(l) /\ Range(l) = Range(c.lru) \ {k}
    BY <1>1, <1>8, RemoveFirstKeys DEF ExactBut, l
  <2> QED
    BY <1>7, <1>8, <2>1 DEF Exact, ExactBut, Has, SameElsewhere
<1> QED
  BY <1>3, <1>7, <1>8 DEF z, l, Dropped

\* ensureCapacityLocked drops at most one entry, never a pinned one.
LEMMA CapacityFacts ==
    ASSUME NEW V, NoEntry \notin Entries(V), NEW c \in Caches(V), NEW pin
    PROVE  LET z == ensureCapacity(c, pin).c
           IN  /\ z \in Caches(V) /\ SameConfig(c, z)
               /\ \A j \in Keys : \/ z.ent[j] = c.ent[j] /\ z.key[j] = c.key[j]
                                  \/ Dropped(c, z, j)
               /\ Exact(c) =>
                     /\ Exact(z)
                     /\ \A j \in Keys : Has(c, j) /\ c.ent[j].pin # "none" =>
                                           z.ent[j] = c.ent[j] /\ z.key[j] = c.key[j]
<1> DEFINE z == ensureCapacity(c, pin).c
           h == Head(c.lru)
<1>1. CASE z = c
  BY <1>1 DEF SameConfig
<1>2. CASE c.lru # <<>> /\ z = removeEntry(c, h)
  <2>1. h \in Keys /\ h \in Range(c.lru)
    <3>1. c.lru \in Seq(Keys)
      BY DEF Caches
    <3>2. 1 \in DOMAIN c.lru /\ h = c.lru[1] /\ h \in Keys
      BY <1>2, <3>1
    <3> QED
      BY <3>2 DEF Range
  <2>2. /\ z \in Caches(V) /\ SameElsewhere(c, z, h) /\ Dropped(c, z, h)
        /\ ExactBut(c, h) => Exact(z)
    BY <1>2, <2>1, RemoveKeyFacts
  <2> HIDE DEF z, h
  <2>3. Exact(c) => ExactBut(c, h) /\ c.ent[h].pin = "none"
    BY <2>1 DEF Exact, ExactBut
  <2>4. /\ SameConfig(c, z)
        /\ \A j \in Keys : \/ z.ent[j] = c.ent[j] /\ z.key[j] = c.key[j]
                           \/ Dropped(c, z, j)
        /\ \A j \in Keys \ {h} : z.ent[j] = c.ent[j] /\ z.key[j] = c.key[j]
    BY <2>2 DEF SameElsewhere, SameConfig
  <2> QED
    BY <2>2, <2>3, <2>4 DEF z
<1>3. z = c \/ (c.lru # <<>> /\ z = removeEntry(c, h))
  BY DEF ensureCapacity
<1> QED
  BY <1>1, <1>2, <1>3

-----------------------------------------------------------------------------
(* Write                                                                     *)

\* The cache with a new entry of k.
Fresh(c, k, d) == [c EXCEPT !.ent[k] = NewEntry(d)]

\* A new entry, before it is filled.
LEMMA FreshFacts ==
    ASSUME NEW V, NoEntry \notin Entries(V), NEW c \in Caches(V), NEW k \in Keys,
           NEW d \in Descriptors
    PROVE  /\ Fresh(c, k, d) \in Caches(V) /\ SameElsewhere(c, Fresh(c, k, d), k)
           /\ Fresh(c, k, d).lru = c.lru
           /\ Fresh(c, k, d).key[k] = c.key[k] /\ Fresh(c, k, d).ent[k] = NewEntry(d)
           /\ NewEntry(d) \in Entries(V) /\ Has(Fresh(c, k, d), k)
           /\ Exact(c) => ExactBut(Fresh(c, k, d), k)
<1> DEFINE f == Fresh(c, k, d)
<1>1. NewEntry(d) \in Entries(V)
  BY DEF NewEntry, Entries, Sources, EntryStates, PinClasses
<1>2. c.key[k] \in KeyStates /\ c.lru \in Seq(Keys) /\ c.key = [c.key EXCEPT ![k] = c.key[k]]
  BY CacheFields
<1>3. f = Put(c, k, NewEntry(d), c.key[k], c.lru)
  BY <1>2 DEF Put, Caches, Fresh
<1> HIDE DEF f
<1>4. LET p == Put(c, k, NewEntry(d), c.key[k], c.lru)
      IN  /\ p \in Caches(V) /\ p.ent[k] = NewEntry(d) /\ p.key[k] = c.key[k] /\ p.lru = c.lru
          /\ SameElsewhere(c, p, k)
  BY <1>1, <1>2, PutFacts
<1>5. /\ f \in Caches(V) /\ f.ent[k] = NewEntry(d) /\ f.key[k] = c.key[k] /\ f.lru = c.lru
      /\ SameElsewhere(c, f, k)
  BY <1>3, <1>4
<1>6. Exact(c) => ExactBut(f, k)
  BY <1>5 DEF Exact, ExactBut, Has, SameElsewhere
<1> QED
  BY <1>1, <1>5, <1>6 DEF f, Has

\* The precedence rules look at the key state and at the entry, not at its pin.
LEMMA PrecedenceIgnoresPin ==
    ASSUME NEW V, NEW c \in Caches(V), NEW s \in Caches(V), NEW k \in Keys, Kept(c, s, k),
           NEW w, NEW same
    PROVE  rejectWriteByPrecedence(s, k, w, same) = rejectWriteByPrecedence(c, k, w, same)
BY DEF rejectWriteByPrecedence, generationQualifiedActive, Kept, SameEntry

\* An accepted write: the entry of k holds it, under the generation it had or a new one.
Wrote(c, d, k, w) ==
    /\ HoldsWrite(d.ent[k], w, c.desc[k], IF Has(c, k) THEN c.ent[k].gen ELSE c.key[k].gen + 1)
    /\ d.key[k].gen = IF Has(c, k) THEN c.key[k].gen ELSE c.key[k].gen + 1
    /\ d.key[k].invAt = 0
    /\ d.key[k].high = Later(c.key[k].high, w.obs)
    /\ d.key[k].snap = Shown(d.ent[k])

\* Write, key by key.
LEMMA WriteFacts ==
    ASSUME NEW V, NoEntry \notin Entries(V), CacheBounds, NEW c \in Caches(V), NEW k \in Keys,
           NEW w \in Writes(V), NEW same
    PROVE  LET res == Write(c, k, w, same)
               z == res.c
           IN  /\ z \in Caches(V) /\ SameConfig(c, z)
               /\ \A j \in Keys \ {k} : Kept(c, z, j) \/ Dropped(c, z, j)
               /\ \/ /\ res.accepted = FALSE /\ res.reason # "none"
                     /\ Kept(c, z, k) \/ Dropped(c, z, k)
                  \/ /\ res.accepted = TRUE /\ res.reason = "none" /\ res.gen = z.ent[k].gen
                     /\ z.ent[k] \in Entries(V) /\ z.ent[k].pin = desiredPinClass(c, k, c.desc[k])
                     /\ Wrote(c, z, k, w)
                     /\ rejectWriteByPrecedence(c, k, w, same) = "none"
                     /\ w.src = "active" => c.key[k].gen = w.start
               /\ Exact(c) => Exact(z)
<1> DEFINE pin == desiredPinClass(c, k, c.desc[k])
           s == syncEntryPin(c, k)
           why == rejectWriteByPrecedence(s, k, w, same)
           room == ensureCapacity(s, pin)
           made == Fresh(room.c, k, c.desc[k])
           fresh == advanceGeneration(made, k)
           base == IF Has(s, k) THEN s ELSE fresh
           done == storeWrite(base, k, w, pin)
           res == Write(c, k, w, same)
           acc == [c |-> done, accepted |-> TRUE, gen |-> done.ent[k].gen, reason |-> "none"]
<1>1. \/ \E g, r : res = Rejected(c, g, r) /\ r # "none"
      \/ \E g, r : res = Rejected(s, g, r) /\ r # "none"
      \/ \E g, r : res = Rejected(room.c, g, r) /\ r # "none"
      \/ res = acc /\ why = "none" /\ (w.src = "active" => s.key[k].gen = w.start)
  <2>1. \/ res = Rejected(c, 0, "policyReject")
        \/ res = Rejected(c, 0, "capacity")
        \/ res = Rejected(s, s.key[k].gen, "generationAdvanced")
        \/ res = Rejected(s, s.key[k].gen, why) /\ why # "none"
        \/ res = Rejected(s, 0, "policyReject")
        \/ res = Rejected(room.c, 0, "capacity")
        \/ res = acc /\ why = "none" /\ (w.src = "active" => s.key[k].gen = w.start)
    BY DEF Write, Fresh
  <2> HIDE DEF res, acc, s, why, room
  <2>2. "policyReject" # "none" /\ "capacity" # "none" /\ "generationAdvanced" # "none"
    OBVIOUS
  <2> QED
    BY <2>1, <2>2, Zenon
<1>2. pin \in PinClasses
  BY DesiredPinType
<1>3. /\ s \in Caches(V) /\ SameConfig(c, s) /\ \A j \in Keys : Kept(c, s, j)
      /\ Exact(c) => Exact(s)
  BY SyncFacts, SyncExact DEF SameState, SameEntries, SameConfig, Kept
<1>4. why = rejectWriteByPrecedence(c, k, w, same)
  BY <1>3, PrecedenceIgnoresPin
<1> HIDE DEF pin, s, why, room, made, fresh, base, done, res
<1>5. /\ room.c \in Caches(V) /\ SameConfig(s, room.c)
      /\ \A j \in Keys : \/ room.c.ent[j] = s.ent[j] /\ room.c.key[j] = s.key[j]
                         \/ Dropped(s, room.c, j)
      /\ Exact(s) => Exact(room.c)
  BY <1>3, CapacityFacts DEF room
<1>6. /\ SameConfig(c, room.c) /\ \A j \in Keys : Kept(c, room.c, j) \/ Dropped(c, room.c, j)
      /\ Exact(c) => Exact(room.c)
  <2>1. ASSUME NEW j \in Keys, room.c.ent[j] = s.ent[j], room.c.key[j] = s.key[j]
        PROVE  Kept(c, room.c, j)
    BY <2>1, <1>3 DEF Kept, Has
  <2>2. ASSUME NEW j \in Keys, Dropped(s, room.c, j) PROVE Dropped(c, room.c, j)
    BY <2>2, <1>3 DEF Kept, Dropped
  <2> QED
    BY <2>1, <2>2, <1>3, <1>5 DEF SameConfig
<1>7. ASSUME NEW x \in {c, s, room.c}, NEW g, NEW r, res = Rejected(x, g, r), r # "none"
      PROVE  /\ res.c = x /\ res.accepted = FALSE /\ res.reason # "none"
             /\ x \in Caches(V) /\ SameConfig(c, x)
             /\ \A j \in Keys : Kept(c, x, j) \/ Dropped(c, x, j)
             /\ Exact(c) => Exact(x)
  <2>1. res.c = x /\ res.accepted = FALSE /\ res.reason # "none"
    BY <1>7 DEF Rejected
  <2>2. CASE x = c
    BY <2>1, <2>2 DEF SameConfig, Kept, SameEntry
  <2>3. CASE x = s
    BY <2>1, <2>3, <1>3
  <2>4. CASE x = room.c
    BY <2>1, <2>4, <1>5, <1>6
  <2> QED
    BY <2>2, <2>3, <2>4
<1>8. /\ base \in Caches(V) /\ Has(base, k) /\ SameConfig(c, base)
      /\ \A j \in Keys \ {k} : Kept(c, base, j) \/ Dropped(c, base, j)
      /\ base.ent[k].gen = IF Has(c, k) THEN c.ent[k].gen ELSE c.key[k].gen + 1
      /\ base.key[k].gen = IF Has(c, k) THEN c.key[k].gen ELSE c.key[k].gen + 1
      /\ base.key[k].high = c.key[k].high
      /\ Exact(c) => ExactBut(base, k)
  <2>1. CASE Has(s, k)
    BY <2>1, <1>3 DEF base, Kept, SameEntry, Exact, ExactBut
  <2>2. CASE ~Has(s, k)
    <3>1. /\ made \in Caches(V) /\ SameElsewhere(room.c, made, k) /\ made.lru = room.c.lru
          /\ made.key[k] = room.c.key[k] /\ Has(made, k)
          /\ Exact(room.c) => ExactBut(made, k)
      <4>1. c.desc[k] \in Descriptors
        BY CacheFields
      <4>2. room.c \in Caches(V)
        BY <1>5
      <4> QED
        BY <4>1, <4>2, FreshFacts DEF made
    <3> DEFINE e == [made.ent[k] EXCEPT !.gen = made.key[k].gen + 1]
               u == [made.key[k] EXCEPT !.gen = made.key[k].gen + 1]
    <3>2. fresh = Put(made, k, e, u, made.lru) /\ e \in Entries(V) /\ u \in KeyStates
      BY <3>1, AdvanceFacts DEF fresh
    <3>3. made.lru \in Seq(Keys) /\ e \in Entries(V) \cup {NoEntry}
      BY <3>1, <3>2, CacheFields
    <3>4. e.gen = made.key[k].gen + 1 /\ u.gen = made.key[k].gen + 1 /\ u.high = made.key[k].high
      <4>1. made.ent[k] \in Entries(V) /\ made.key[k] \in KeyStates
        BY <3>1, CacheFields
      <4> QED
        BY <4>1 DEF Entries, KeyStates
    <3> HIDE DEF e, u
    <3>5. LET p == Put(made, k, e, u, made.lru)
          IN  p \in Caches(V) /\ p.ent[k] = e /\ p.key[k] = u /\ p.lru = made.lru /\ SameElsewhere(made, p, k)
      BY <3>1, <3>2, <3>3, PutFacts
    <3>6. /\ fresh \in Caches(V) /\ fresh.ent[k] = e /\ fresh.key[k] = u /\ fresh.lru = made.lru
          /\ SameElsewhere(made, fresh, k)
      BY <3>2, <3>5
    <3>7. base = fresh /\ Has(base, k)
      BY <2>2, <3>2, <3>6 DEF base, Has
    <3>8. SameElsewhere(room.c, fresh, k)
      BY <3>1, <3>6 DEF SameElsewhere
    <3>9. SameConfig(c, base) /\ \A j \in Keys \ {k} : Kept(c, base, j) \/ Dropped(c, base, j)
      BY <1>6, <3>7, <3>8 DEF SameElsewhere, SameConfig, Kept, Dropped, Has
    <3>10. ~Has(c, k) /\ room.c.key[k].gen = c.key[k].gen /\ room.c.key[k].high = c.key[k].high
      BY <2>2, <1>3, <1>6 DEF Kept, Dropped
    <3>11. Exact(c) => ExactBut(base, k)
      BY <1>6, <3>1, <3>6, <3>7 DEF ExactBut, SameElsewhere, Has
    <3> QED
      BY <3>1, <3>4, <3>6, <3>7, <3>9, <3>10, <3>11
  <2> QED
    BY <2>1, <2>2
<1>9. /\ done \in Caches(V) /\ SameElsewhere(base, done, k) /\ done.ent[k] \in Entries(V)
      /\ HoldsWrite(done.ent[k], w, base.desc[k], base.ent[k].gen) /\ done.ent[k].pin = pin
      /\ done.key[k].gen = base.key[k].gen /\ done.key[k].invAt = 0
      /\ done.key[k].high = Later(base.key[k].high, w.obs)
      /\ done.key[k].snap = Shown(done.ent[k])
      /\ done.lru = IF pin # "none" THEN RemoveFirst(base.lru, k)
                    ELSE IF k \in Range(base.lru) THEN base.lru ELSE Append(base.lru, k)
  BY <1>2, <1>8, StoreWriteFacts DEF done
<1>10. /\ Wrote(c, done, k, w) /\ SameConfig(c, done)
       /\ \A j \in Keys \ {k} : Kept(c, done, j) \/ Dropped(c, done, j)
  <2>1. Wrote(c, done, k, w)
    BY <1>8, <1>9 DEF Wrote, SameConfig
  <2>2. SameConfig(c, done)
    BY <1>8, <1>9 DEF SameElsewhere, SameConfig
  <2>3. \A j \in Keys \ {k} : Kept(c, done, j) \/ Dropped(c, done, j)
    BY <1>8, <1>9 DEF SameElsewhere, Kept, Dropped, Has
  <2> QED
    BY <2>1, <2>2, <2>3
<1>11. ASSUME Exact(c) PROVE Exact(done)
  <2>1. Has(done, k) /\ ExactBut(base, k) /\ \A j \in Keys \ {k} : done.ent[j] = base.ent[j]
    BY <1>8, <1>9, <1>11 DEF Has, SameElsewhere
  <2>2. done.lru = IF done.ent[k].pin # "none" THEN RemoveFirst(base.lru, k)
                   ELSE IF k \in Range(base.lru) THEN base.lru ELSE Append(base.lru, k)
    BY <1>9
  <2> QED
    BY <2>1, <2>2, <1>8, <1>9, RelistExact
<1>12. CASE res = acc /\ why = "none" /\ (w.src = "active" => s.key[k].gen = w.start)
  <2>1. res.c = done /\ res.accepted = TRUE /\ res.gen = done.ent[k].gen /\ res.reason = "none"
    BY <1>12
  <2>2. w.src = "active" => c.key[k].gen = w.start
    BY <1>12, <1>3 DEF Kept
  <2> QED
    BY <1>4, <1>9, <1>10, <1>11, <1>12, <2>1, <2>2 DEF res, pin
<1>13. CASE \E g, r : \E x \in {c, s, room.c} : res = Rejected(x, g, r) /\ r # "none"
  BY <1>7, <1>13 DEF res
<1> QED
  BY <1>1, <1>12, <1>13 DEF res

-----------------------------------------------------------------------------
(* Invalidate, compaction, Lookup and the pins                               *)

\* An invalidation at t: a new generation, a barrier, and no present entry.
Invalidated(c, d, k, t) ==
    /\ d.key[k].gen = c.key[k].gen + 1
    /\ d.key[k].invAt = Later(c.key[k].invAt, t)
    /\ d.key[k].high = Later(c.key[k].high, t)
    /\ \/ /\ ~Has(c, k) /\ ~Has(d, k)
          /\ d.key[k].snap = AbsentSnapshot(d.key[k].gen)
       \/ /\ Has(d, k)
          /\ d.ent[k].gen = d.key[k].gen /\ d.ent[k].st # "present"
          /\ d.ent[k].invAt = d.key[k].invAt /\ d.ent[k].desc = c.desc[k]
          /\ d.key[k].snap = Shown(d.ent[k])
          /\ Has(c, k) => /\ d.ent[k].obs = c.ent[k].obs
                          /\ d.ent[k].val = c.ent[k].val
                          /\ d.ent[k].src = c.ent[k].src
          /\ ~Has(c, k) => d.ent[k].obs = 0 /\ d.ent[k].val = NoValue

\* The barrier is kept in the key state.
LEMMA BarrierFacts ==
    ASSUME NEW V, NoEntry \notin Entries(V), NEW c \in Caches(V), NEW k \in Keys, NEW t \in Nat
    PROVE  LET z == raiseBarrier(c, k, t)
           IN  /\ z \in Caches(V) /\ SameElsewhere(c, z, k) /\ z.ent[k] = c.ent[k]
               /\ z.lru = c.lru
               /\ z.key[k].gen = c.key[k].gen /\ z.key[k].invAt = Later(c.key[k].invAt, t)
               /\ z.key[k].high = Later(c.key[k].high, t)
               /\ Exact(c) => Exact(z)
<1> DEFINE u == [c.key[k] EXCEPT !.invAt = Later(@, t), !.high = Later(@, t)]
           z == raiseBarrier(c, k, t)
<1>1. /\ c.key \in [Keys -> KeyStates] /\ c.key[k] \in KeyStates /\ c.lru \in Seq(Keys)
      /\ c.ent = [c.ent EXCEPT ![k] = c.ent[k]] /\ c.ent[k] \in Entries(V) \cup {NoEntry}
  BY CacheFields
<1>2. Later(c.key[k].invAt, t) \in Nat /\ Later(c.key[k].high, t) \in Nat
  BY <1>1 DEF KeyStates, Later
<1>3. /\ u \in KeyStates /\ u.gen = c.key[k].gen /\ u.invAt = Later(c.key[k].invAt, t)
      /\ u.high = Later(c.key[k].high, t)
  BY <1>1, <1>2 DEF KeyStates
<1>4. z = Put(c, k, c.ent[k], u, c.lru)
  BY <1>1 DEF raiseBarrier, Put, Caches
<1> HIDE DEF z, u
<1>5. LET p == Put(c, k, c.ent[k], u, c.lru)
      IN  p \in Caches(V) /\ p.ent[k] = c.ent[k] /\ p.key[k] = u /\ p.lru = c.lru /\ SameElsewhere(c, p, k)
  BY <1>1, <1>3, PutFacts
<1>6. /\ z \in Caches(V) /\ z.ent[k] = c.ent[k] /\ z.key[k] = u /\ z.lru = c.lru
      /\ SameElsewhere(c, z, k)
  BY <1>4, <1>5
<1>7. \A j \in Keys : z.ent[j] = c.ent[j]
  BY <1>6 DEF SameElsewhere
<1>8. Exact(c) => Exact(z)
  BY <1>6, <1>7 DEF Exact, Has
<1> QED
  BY <1>3, <1>6, <1>8 DEF z

\* The generation of a key without an entry moves on.
LEMMA AbsentGenerationFacts ==
    ASSUME NEW V, NoEntry \notin Entries(V), NEW c \in Caches(V), NEW k \in Keys
    PROVE  LET z == advanceAbsentGeneration(c, k)
           IN  /\ z \in Caches(V) /\ SameElsewhere(c, z, k) /\ z.ent[k] = c.ent[k]
               /\ z.lru = c.lru
               /\ z.key[k].gen = c.key[k].gen + 1 /\ z.key[k].invAt = c.key[k].invAt
               /\ z.key[k].high = c.key[k].high
               /\ z.key[k].snap = AbsentSnapshot(z.key[k].gen)
               /\ Exact(c) => Exact(z)
<1> DEFINE g == [c.key[k] EXCEPT !.gen = c.key[k].gen + 1]
           u == [g EXCEPT !.snap = AbsentSnapshot(g.gen)]
           z == advanceAbsentGeneration(c, k)
<1>1. /\ c.key \in [Keys -> KeyStates] /\ c.key[k] \in KeyStates /\ c.lru \in Seq(Keys)
      /\ c.ent = [c.ent EXCEPT ![k] = c.ent[k]] /\ c.ent[k] \in Entries(V) \cup {NoEntry}
  BY CacheFields
<1>2. /\ g \in KeyStates /\ g.gen = c.key[k].gen + 1 /\ g.invAt = c.key[k].invAt
      /\ g.high = c.key[k].high /\ g.gen \in Nat
  <2>1. c.key[k].gen + 1 \in Nat
    BY <1>1 DEF KeyStates
  <2> QED
    BY <1>1, <2>1 DEF KeyStates
<1> DEFINE x == [c EXCEPT !.key[k].gen = @ + 1]
<1>3. x = Put(c, k, c.ent[k], g, c.lru) /\ z = storeAbsentSnapshot(x, k)
  BY <1>1 DEF advanceAbsentGeneration, Put, Caches
<1> HIDE DEF g, z, x
<1>4. LET p == Put(c, k, c.ent[k], g, c.lru)
      IN  p \in Caches(V) /\ p.ent[k] = c.ent[k] /\ p.key[k] = g /\ p.lru = c.lru /\ SameElsewhere(c, p, k)
  BY <1>1, <1>2, PutFacts
<1>5. x \in Caches(V) /\ x.ent[k] = c.ent[k] /\ x.key[k] = g /\ x.lru = c.lru /\ SameElsewhere(c, x, k)
  BY <1>3, <1>4
<1>6. /\ u \in KeyStates /\ u.gen = g.gen /\ u.invAt = g.invAt /\ u.high = g.high
      /\ u.snap = AbsentSnapshot(g.gen)
  BY <1>2, AbsentType, SnapType
<1>7. z = Put(x, k, c.ent[k], u, c.lru)
  BY <1>3, <1>5, StoreAbsentFacts
<1> HIDE DEF u
<1>8. LET p == Put(x, k, c.ent[k], u, c.lru)
      IN  p \in Caches(V) /\ p.ent[k] = c.ent[k] /\ p.key[k] = u /\ p.lru = c.lru /\ SameElsewhere(x, p, k)
  BY <1>1, <1>5, <1>6, PutFacts
<1>9. /\ z \in Caches(V) /\ z.ent[k] = c.ent[k] /\ z.key[k] = u /\ z.lru = c.lru
      /\ SameElsewhere(c, z, k)
  BY <1>5, <1>7, <1>8 DEF SameElsewhere
<1>10. \A j \in Keys : z.ent[j] = c.ent[j]
  BY <1>9 DEF SameElsewhere
<1>11. Exact(c) => Exact(z)
  BY <1>9, <1>10 DEF Exact, Has
<1> QED
  BY <1>2, <1>6, <1>9, <1>11 DEF z

\* Invalidate, key by key.
LEMMA InvalidateFacts ==
    ASSUME NEW V, NoEntry \notin Entries(V), NEW c \in Caches(V), NEW k \in Keys, NEW t \in Nat
    PROVE  LET z == Invalidate(c, k, t)
           IN  /\ z \in Caches(V) /\ SameConfig(c, z)
               /\ \A j \in Keys \ {k} : Kept(c, z, j) \/ Dropped(c, z, j)
               /\ Invalidated(c, z, k, t)
               /\ Exact(c) => Exact(z)
<1> DEFINE b == raiseBarrier(c, k, t)
           pin == desiredPinClass(b, k, b.desc[k])
           room == ensureCapacity(b, pin)
           fresh == Fresh(room.c, k, b.desc[k])
           base == IF Has(b, k) THEN b ELSE fresh
           admitted == IF pin = "writeConfirm" /\ ~canAdmitWriteConfirmPin(base, k)
                       THEN "none" ELSE pin
           z == Invalidate(c, k, t)
<1>1. \/ ~Has(b, k) /\ z = advanceAbsentGeneration(b, k)
      \/ ~Has(b, k) /\ z = advanceAbsentGeneration(room.c, k)
      \/ z = invalidateEntry(base, k, admitted)
  BY DEF Invalidate, Fresh
<1>2. admitted \in PinClasses
  BY DesiredPinType DEF PinClasses
<1>3. /\ b \in Caches(V) /\ SameElsewhere(c, b, k) /\ b.ent[k] = c.ent[k] /\ b.lru = c.lru
      /\ b.key[k].gen = c.key[k].gen /\ b.key[k].invAt = Later(c.key[k].invAt, t)
      /\ b.key[k].high = Later(c.key[k].high, t)
      /\ Exact(c) => Exact(b)
  BY BarrierFacts
<1> HIDE DEF b, pin, room, fresh, base, admitted, z
<1>4. /\ room.c \in Caches(V) /\ SameConfig(b, room.c)
      /\ \A j \in Keys : \/ room.c.ent[j] = b.ent[j] /\ room.c.key[j] = b.key[j]
                         \/ Dropped(b, room.c, j)
      /\ Exact(b) => Exact(room.c)
  BY <1>3, CapacityFacts DEF room
<1>5. /\ SameConfig(c, b) /\ SameConfig(c, room.c)
      /\ \A j \in Keys \ {k} : Kept(c, b, j)
      /\ \A j \in Keys \ {k} : Kept(c, room.c, j) \/ Dropped(c, room.c, j)
      /\ room.c.key[k].gen = c.key[k].gen /\ room.c.key[k].invAt = Later(c.key[k].invAt, t)
      /\ room.c.key[k].high = Later(c.key[k].high, t)
      /\ ~Has(b, k) => ~Has(room.c, k)
      /\ Exact(c) => Exact(room.c)
  <2>1. SameConfig(c, b) /\ SameConfig(c, room.c)
    BY <1>3, <1>4 DEF SameConfig, SameElsewhere
  <2>2. \A j \in Keys \ {k} : Kept(c, b, j)
    BY <1>3 DEF SameElsewhere, Kept, Has, SameEntry
  <2>3. \A j \in Keys \ {k} : Kept(c, room.c, j) \/ Dropped(c, room.c, j)
    BY <1>3, <1>4 DEF SameElsewhere, Kept, Has, SameEntry, Dropped
  <2>4. /\ room.c.key[k].gen = c.key[k].gen /\ room.c.key[k].invAt = Later(c.key[k].invAt, t)
        /\ room.c.key[k].high = Later(c.key[k].high, t)
        /\ ~Has(b, k) => ~Has(room.c, k)
    BY <1>3, <1>4 DEF Dropped, Has
  <2> QED
    BY <2>1, <2>2, <2>3, <2>4, <1>3, <1>4
<1>6. ASSUME NEW x \in {b, room.c}, ~Has(b, k), z = advanceAbsentGeneration(x, k)
      PROVE  /\ z \in Caches(V) /\ SameConfig(c, z)
             /\ \A j \in Keys \ {k} : Kept(c, z, j) \/ Dropped(c, z, j)
             /\ Invalidated(c, z, k, t)
             /\ Exact(c) => Exact(z)
  <2>1. /\ x \in Caches(V) /\ SameConfig(c, x) /\ ~Has(x, k) /\ ~Has(c, k)
        /\ \A j \in Keys \ {k} : Kept(c, x, j) \/ Dropped(c, x, j)
        /\ x.key[k].gen = c.key[k].gen /\ x.key[k].invAt = Later(c.key[k].invAt, t)
        /\ x.key[k].high = Later(c.key[k].high, t)
        /\ Exact(c) => Exact(x)
    BY <1>3, <1>4, <1>5, <1>6 DEF Has
  <2>2. /\ z \in Caches(V) /\ SameElsewhere(x, z, k) /\ z.ent[k] = x.ent[k]
        /\ z.key[k].gen = x.key[k].gen + 1 /\ z.key[k].invAt = x.key[k].invAt
        /\ z.key[k].high = x.key[k].high
        /\ z.key[k].snap = AbsentSnapshot(z.key[k].gen)
        /\ Exact(x) => Exact(z)
    BY <1>6, <2>1, AbsentGenerationFacts
  <2>3. SameConfig(c, z) /\ \A j \in Keys \ {k} : Kept(c, z, j) \/ Dropped(c, z, j)
    BY <2>1, <2>2 DEF SameElsewhere, SameConfig, Kept, Dropped, Has
  <2>4. Invalidated(c, z, k, t)
    BY <2>1, <2>2 DEF Invalidated, Has
  <2> QED
    BY <2>1, <2>2, <2>3, <2>4
<1>7. /\ base \in Caches(V) /\ Has(base, k) /\ SameConfig(c, base)
      /\ \A j \in Keys \ {k} : Kept(c, base, j) \/ Dropped(c, base, j)
      /\ base.key[k].gen = c.key[k].gen /\ base.key[k].invAt = Later(c.key[k].invAt, t)
      /\ base.key[k].high = Later(c.key[k].high, t)
      /\ Has(c, k) => base.ent[k] = c.ent[k]
      /\ ~Has(c, k) => base.ent[k].obs = 0 /\ base.ent[k].val = NoValue
      /\ Exact(c) => ExactBut(base, k)
  <2>1. CASE Has(b, k)
    <3>1. base = b /\ Has(c, k)
      BY <2>1, <1>3 DEF base, Has
    <3>2. Exact(b) => ExactBut(b, k)
      BY DEF Exact, ExactBut
    <3> QED
      BY <2>1, <3>1, <3>2, <1>3, <1>5
  <2>2. CASE ~Has(b, k)
    <3>1. b.desc[k] \in Descriptors /\ room.c \in Caches(V)
      BY <1>3, <1>4, CacheFields
    <3>2. /\ fresh \in Caches(V) /\ SameElsewhere(room.c, fresh, k)
          /\ fresh.key[k] = room.c.key[k] /\ fresh.ent[k] = NewEntry(b.desc[k])
          /\ Has(fresh, k)
          /\ Exact(room.c) => ExactBut(fresh, k)
      BY <3>1, FreshFacts DEF fresh
    <3>3. base = fresh /\ ~Has(c, k)
      BY <2>2, <1>3 DEF base, Has
    <3>4. fresh.ent[k].obs = 0 /\ fresh.ent[k].val = NoValue
      BY <3>2 DEF NewEntry
    <3>5. SameConfig(c, fresh) /\ \A j \in Keys \ {k} : Kept(c, fresh, j) \/ Dropped(c, fresh, j)
      BY <1>5, <3>2 DEF SameElsewhere, SameConfig, Kept, Dropped, Has
    <3> QED
      BY <1>5, <3>2, <3>3, <3>4, <3>5
  <2> QED
    BY <2>1, <2>2
<1>8. CASE z = invalidateEntry(base, k, admitted)
  <2>1. /\ z \in Caches(V) /\ SameElsewhere(base, z, k) /\ z.ent[k] \in Entries(V)
        /\ z.ent[k].st = IF base.ent[k].val = NoValue THEN "tombstone" ELSE "invalidated"
        /\ z.ent[k].src = base.ent[k].src /\ z.ent[k].val = base.ent[k].val
        /\ z.ent[k].obs = base.ent[k].obs /\ z.ent[k].gen = base.key[k].gen + 1
        /\ z.ent[k].pin = admitted /\ z.ent[k].desc = base.desc[k]
        /\ z.ent[k].invAt = base.key[k].invAt
        /\ z.key[k].gen = base.key[k].gen + 1 /\ z.key[k].invAt = base.key[k].invAt
        /\ z.key[k].high = base.key[k].high /\ z.key[k].snap = Shown(z.ent[k])
        /\ z.lru = IF admitted # "none" THEN RemoveFirst(base.lru, k)
                   ELSE IF k \in Range(base.lru) THEN base.lru ELSE Append(base.lru, k)
    BY <1>2, <1>7, <1>8, InvalidateEntryFacts
  <2>2. Has(z, k)
    BY <2>1 DEF Has
  <2>3. Invalidated(c, z, k, t)
    BY <1>7, <2>1, <2>2 DEF Invalidated, SameConfig
  <2>4. SameConfig(c, z) /\ \A j \in Keys \ {k} : Kept(c, z, j) \/ Dropped(c, z, j)
    BY <1>7, <2>1 DEF SameElsewhere, SameConfig, Kept, Dropped, Has
  <2>5. ASSUME Exact(c) PROVE Exact(z)
    <3>1. ExactBut(base, k) /\ \A j \in Keys \ {k} : z.ent[j] = base.ent[j]
      BY <1>7, <2>1, <2>5 DEF SameElsewhere
    <3>2. z.lru = IF z.ent[k].pin # "none" THEN RemoveFirst(base.lru, k)
                  ELSE IF k \in Range(base.lru) THEN base.lru ELSE Append(base.lru, k)
      BY <2>1
    <3> QED
      BY <3>1, <3>2, <1>7, <2>1, <2>2, RelistExact
  <2> QED
    BY <2>1, <2>3, <2>4, <2>5 DEF z
<1> QED
  BY <1>1, <1>6, <1>8 DEF z

\* A compaction: a new generation, and what is left of the entry is not present.
Compacted(c, d, k) ==
    /\ c.ent[k].st # "present" /\ c.ent[k].invAt # 0
    /\ d.key[k].gen = c.key[k].gen + 1
    /\ d.key[k].invAt = c.key[k].invAt /\ d.key[k].high = c.key[k].high
    /\ \/ ~Has(d, k) /\ d.key[k].snap = AbsentSnapshot(d.key[k].gen)
       \/ /\ Has(d, k) /\ d.ent[k].gen = d.key[k].gen /\ d.ent[k].st = "tombstone"
          /\ d.ent[k].obs = c.ent[k].obs /\ d.ent[k].val = NoValue
          /\ d.ent[k].src = c.ent[k].src /\ d.ent[k].invAt = c.ent[k].invAt
          /\ d.ent[k].desc = c.ent[k].desc
          /\ d.key[k].snap = Shown(d.ent[k])

\* compactBatch, key by key.
LEMMA CompactFacts ==
    ASSUME NEW V, NoEntry \notin Entries(V), NEW c \in Caches(V), NEW k \in Keys, Has(c, k), NEW t
    PROVE  LET z == compactKey(c, k, t)
           IN  /\ z \in Caches(V) /\ SameConfig(c, z)
               /\ \A j \in Keys \ {k} : Kept(c, z, j)
               /\ Kept(c, z, k) \/ Compacted(c, z, k)
               /\ ~Has(z, k) => t >= c.ent[k].invAt + TombstoneHardLifespan
               /\ \A j \in Keys : Has(z, j) => z.ent[j].pin = syncEntryPin(c, k).ent[j].pin
               /\ Exact(c) => Exact(z)
<1> DEFINE s == syncEntryPin(c, k)
           g == advanceGeneration(s, k)
           x == [g EXCEPT !.ent[k].st = "tombstone", !.ent[k].val = NoValue]
           ge == [s.ent[k] EXCEPT !.gen = s.key[k].gen + 1]
           gs == [s.key[k] EXCEPT !.gen = s.key[k].gen + 1]
           xe == [ge EXCEPT !.st = "tombstone", !.val = NoValue]
           z == compactKey(c, k, t)
<1>1. /\ s \in Caches(V) /\ SameConfig(c, s) /\ \A j \in Keys : Kept(c, s, j)
      /\ Exact(c) => Exact(s)
  BY SyncFacts, SyncExact DEF SameState, SameEntries, SameConfig, Kept
<1>2. Has(s, k) /\ SameEntry(c.ent[k], s.ent[k])
  BY <1>1 DEF Kept
<1>3. \/ z = storeSnapshot(x, k) /\ s.ent[k].st = "invalidated" /\ s.ent[k].invAt # 0
      \/ /\ z = removeEntry(g, k) /\ s.ent[k].st = "tombstone" /\ s.ent[k].invAt # 0
         /\ t >= s.ent[k].invAt + TombstoneHardLifespan
      \/ z = s
  BY DEF compactKey
<1> HIDE DEF s, g, x, z
<1>4. g = Put(s, k, ge, gs, s.lru) /\ ge \in Entries(V) /\ gs \in KeyStates
  BY <1>1, <1>2, AdvanceFacts DEF g
<1>5. /\ s.key[k] = c.key[k] /\ s.ent[k] \in Entries(V) /\ s.key[k] \in KeyStates
      /\ s.lru \in Seq(Keys)
  BY <1>1, <1>2, CacheFields DEF Kept
<1>6. /\ ge.obs = c.ent[k].obs /\ ge.gen = c.key[k].gen + 1 /\ ge.pin = s.ent[k].pin
      /\ ge.src = c.ent[k].src /\ ge.invAt = c.ent[k].invAt /\ ge.desc = c.ent[k].desc
      /\ gs.gen = c.key[k].gen + 1 /\ gs.invAt = c.key[k].invAt /\ gs.high = c.key[k].high
  BY <1>2, <1>5 DEF Entries, KeyStates, SameEntry
<1> HIDE DEF ge, gs
<1>7. g \in Caches(V) /\ g.ent[k] = ge /\ g.key[k] = gs /\ g.lru = s.lru /\ SameElsewhere(s, g, k)
  <2>1. ge \in Entries(V) \cup {NoEntry} /\ gs \in KeyStates
    BY <1>4
  <2>2. LET p == Put(s, k, ge, gs, s.lru)
        IN  p \in Caches(V) /\ p.ent[k] = ge /\ p.key[k] = gs /\ p.lru = s.lru /\ SameElsewhere(s, p, k)
    BY <1>1, <1>5, <2>1, PutFacts
  <2> QED
    BY <2>2, <1>4
<1>8. CASE z = s
  BY <1>1, <1>2, <1>8 DEF z, s
<1>9. CASE /\ z = removeEntry(g, k) /\ s.ent[k].st = "tombstone" /\ s.ent[k].invAt # 0
           /\ t >= s.ent[k].invAt + TombstoneHardLifespan
  <2>1. /\ z \in Caches(V) /\ SameElsewhere(g, z, k) /\ Dropped(g, z, k)
        /\ ExactBut(g, k) => Exact(z)
    BY <1>7, <1>9, RemoveKeyFacts
  <2>2. SameConfig(c, z) /\ \A j \in Keys \ {k} : Kept(c, z, j)
    BY <1>1, <1>7, <2>1 DEF SameElsewhere, SameConfig, Kept, Has
  <2>3. /\ c.ent[k].st = "tombstone" /\ c.ent[k].invAt # 0
        /\ t >= c.ent[k].invAt + TombstoneHardLifespan
    BY <1>2, <1>9 DEF SameEntry
  <2>4. ~Has(z, k) /\ z.key[k].gen = gs.gen /\ z.key[k].invAt = gs.invAt /\ z.key[k].high = gs.high
        /\ z.key[k].snap = AbsentSnapshot(gs.gen)
    BY <1>7, <2>1 DEF Dropped, Has
  <2>5. Compacted(c, z, k)
    BY <1>6, <2>3, <2>4 DEF Compacted
  <2>7. \A j \in Keys : Has(z, j) => z.ent[j].pin = s.ent[j].pin
    BY <1>7, <2>1, <2>4 DEF SameElsewhere
  <2>6. Exact(s) => ExactBut(g, k)
    BY <1>7 DEF Exact, ExactBut, SameElsewhere, Has
  <2> QED
    BY <1>1, <2>1, <2>2, <2>3, <2>4, <2>5, <2>6, <2>7 DEF z, s
<1>10. CASE z = storeSnapshot(x, k) /\ s.ent[k].st = "invalidated" /\ s.ent[k].invAt # 0
  <2>1. x = Put(g, k, xe, gs, s.lru)
    <3>1. g.ent[k] = ge /\ g.key = [g.key EXCEPT ![k] = gs] /\ g.ent \in [Keys -> Entries(V) \cup {NoEntry}]
      BY <1>7, CacheFields
    <3>2. ge \in Entries(V) /\ g.lru = s.lru /\ g \in Caches(V)
      BY <1>4, <1>7
    <3> QED
      BY <3>1, <3>2 DEF Put, Caches, x
  <2>2. /\ xe \in Entries(V) /\ xe.st = "tombstone" /\ xe.val = NoValue /\ xe.obs = c.ent[k].obs
        /\ xe.gen = c.key[k].gen + 1 /\ xe.pin = s.ent[k].pin
        /\ xe.src = c.ent[k].src /\ xe.invAt = c.ent[k].invAt /\ xe.desc = c.ent[k].desc
    <3>1. "tombstone" \in EntryStates /\ ge \in Entries(V)
      BY <1>4 DEF EntryStates
    <3> QED
      BY <3>1, <1>6 DEF Entries
  <2> HIDE DEF xe
  <2>3. x \in Caches(V) /\ x.ent[k] = xe /\ x.key[k] = gs /\ x.lru = s.lru /\ SameElsewhere(g, x, k)
    <3>1. xe \in Entries(V) \cup {NoEntry} /\ gs \in KeyStates
      BY <1>4, <2>2
    <3>2. LET p == Put(g, k, xe, gs, s.lru)
          IN  p \in Caches(V) /\ p.ent[k] = xe /\ p.key[k] = gs /\ p.lru = s.lru /\ SameElsewhere(g, p, k)
      BY <1>5, <1>7, <3>1, PutFacts
    <3> QED
      BY <3>2, <2>1
  <2> DEFINE u == [gs EXCEPT !.snap = Shown(xe)]
  <2>4. /\ u \in KeyStates /\ u.gen = gs.gen /\ u.invAt = gs.invAt /\ u.high = gs.high
        /\ u.snap = Shown(xe)
    BY <1>4, <2>2, ShownType, SnapType
  <2>5. z = Put(x, k, xe, u, s.lru)
    BY <1>10, <2>3, StoreSnapshotFacts
  <2> HIDE DEF u
  <2>6. z \in Caches(V) /\ z.ent[k] = xe /\ z.key[k] = u /\ z.lru = s.lru /\ SameElsewhere(x, z, k)
    <3>1. xe \in Entries(V) \cup {NoEntry} /\ u \in KeyStates
      BY <2>2, <2>4
    <3>2. LET p == Put(x, k, xe, u, s.lru)
          IN  p \in Caches(V) /\ p.ent[k] = xe /\ p.key[k] = u /\ p.lru = s.lru /\ SameElsewhere(x, p, k)
      BY <1>5, <2>3, <3>1, PutFacts
    <3> QED
      BY <3>2, <2>5
  <2>7. SameElsewhere(s, z, k)
    BY <1>7, <2>3, <2>6 DEF SameElsewhere
  <2>8. SameConfig(c, z) /\ \A j \in Keys \ {k} : Kept(c, z, j)
    BY <1>1, <2>7 DEF SameElsewhere, SameConfig, Kept, Has
  <2>9. c.ent[k].st = "invalidated" /\ c.ent[k].invAt # 0 /\ Has(z, k)
    BY <1>2, <1>10, <2>2, <2>6 DEF SameEntry, Has
  <2>10. Compacted(c, z, k)
    BY <1>6, <2>2, <2>4, <2>6, <2>9 DEF Compacted
  <2>11. \A j \in Keys : (Has(z, j) <=> Has(s, j)) /\ (Has(s, j) => z.ent[j].pin = s.ent[j].pin)
    BY <1>2, <2>2, <2>6, <2>7, <2>9 DEF SameElsewhere, Has
  <2>12. Exact(s) => Exact(z)
    BY <2>6, <2>11 DEF Exact
  <2> QED
    BY <1>1, <2>6, <2>8, <2>9, <2>10, <2>11, <2>12 DEF z, s
<1> QED
  BY <1>3, <1>8, <1>9, <1>10

\* Lookup changes at most the pin of the entry and its place on the eviction list.
LEMMA LookupFacts ==
    ASSUME NEW V, NoEntry \notin Entries(V), NEW c \in Caches(V), NEW k \in Keys, NEW age, NEW t
    PROVE  LET z == LookupCache(c, k, age, t)
           IN  /\ z \in Caches(V) /\ SameConfig(c, z)
               /\ \A j \in Keys : Kept(c, z, j)
               /\ \A j \in Keys : z.ent[j] = syncEntryPin(c, k).ent[j]
               /\ Exact(c) => Exact(z)
<1> DEFINE s == syncEntryPin(c, k)
           l == Append(RemoveFirst(s.lru, k), k)
           z == LookupCache(c, k, age, t)
<1>1. z = s \/ (z = [s EXCEPT !.lru = l] /\ Has(c, k) /\ s.ent[k].pin = "none")
  BY DEF LookupCache
<1>2. /\ s \in Caches(V) /\ SameConfig(c, s) /\ \A j \in Keys : Kept(c, s, j)
      /\ Exact(c) => Exact(s)
  BY SyncFacts, SyncExact DEF SameState, SameEntries, SameConfig, Kept
<1> HIDE DEF z
<1>3. CASE z = s
  BY <1>2, <1>3 DEF z
<1>4. CASE z = [s EXCEPT !.lru = l] /\ Has(c, k) /\ s.ent[k].pin = "none"
  <2> HIDE DEF s
  <2>1. s.lru \in Seq(Keys) /\ RemoveFirst(s.lru, k) \in Seq(Keys)
    BY <1>2, CacheFields, RemoveFirstKeys
  <2>2. l \in Seq(Keys) /\ Range(l) = Range(RemoveFirst(s.lru, k)) \cup {k}
    BY <2>1, AppendKeys
  <2>3. Once(s.lru) => Once(l) /\ Range(l) = Range(s.lru) \cup {k}
    BY <2>1, <2>2, RemoveFirstKeys, AppendKeys
  <2> HIDE DEF l
  <2>4. /\ z \in Caches(V) /\ z.ent = s.ent /\ z.key = s.key /\ z.lru = l
        /\ SameConfig(s, z)
    BY <1>2, <1>4, <2>2 DEF Caches, SameConfig
  <2>5. SameConfig(c, z) /\ \A j \in Keys : Kept(c, z, j)
    BY <1>2, <2>4 DEF SameConfig, Kept, Has
  <2>6. Has(s, k)
    BY <1>2, <1>4 DEF Kept
  <2>7. Exact(s) => Exact(z)
    BY <1>4, <2>3, <2>4, <2>6 DEF Exact, Has
  <2> QED
    BY <1>2, <2>4, <2>5, <2>7 DEF z, s
<1> QED
  BY <1>1, <1>3, <1>4

\* The loop of syncAllPinsLocked: what one visit carries from S[n - 1] to S[n]
\* is true after all of them.
LEMMA SyncLoop ==
    ASSUME NEW c, NEW order \in Seq(Keys), NEW S, c \in S[0],
           \A n \in 1 .. Len(order) : \A x \in S[n - 1] : syncEntryPin(x, order[n]) \in S[n]
    PROVE  syncPinsInOrder(c, order) \in S[Len(order)]
<1> DEFINE Visits(g, m) ==
             g = [n \in 0 .. m |-> IF n = 0 THEN c ELSE syncEntryPin(g[n - 1], order[n])]
           N == Len(order)
<1>1. N \in Nat
  OBVIOUS
<1> HIDE DEF N
<1>2. IsWellFoundedOn(OpToRel(<, Nat), Nat)
  BY NatLessThanWellFounded
<1>3. \E g : Visits(g, N)
  <2> DEFINE Bad == {m \in 0 .. N : ~ \E g : Visits(g, m)}
  <2>1. SUFFICES ASSUME Bad # {} PROVE FALSE
    BY <1>1
  <2>2. PICK m \in Bad : \A y \in Bad : ~(<<y, m>> \in OpToRel(<, Nat))
    <3>1. Bad \subseteq Nat
      BY <1>1
    <3> HIDE DEF Bad
    <3> QED
      BY <1>2, <2>1, <3>1, WFMin
  <2>3. m \in 0 .. N /\ ~ \E g : Visits(g, m)
    OBVIOUS
  <2>4. Visits([n \in 0 .. 0 |-> c], 0)
    OBVIOUS
  <2>5. m # 0 /\ m - 1 \in 0 .. N /\ m - 1 \in Nat /\ m \in Nat
    <3>1. m # 0
      <4> HIDE DEF Visits
      <4> QED
        BY <2>3, <2>4
    <3>2. m \in 0 .. N
      BY <2>3
    <3> QED
      BY <3>1, <3>2, <1>1
  <2>6. m - 1 \notin Bad
    <3>1. <<m - 1, m>> \in OpToRel(<, Nat)
      BY <2>5 DEF OpToRel
    <3> HIDE DEF Bad
    <3> QED
      BY <2>2, <3>1
  <2>7. PICK g : Visits(g, m - 1)
    BY <2>5, <2>6
  <2> DEFINE h == [n \in 0 .. m |-> IF n = m THEN syncEntryPin(g[m - 1], order[m]) ELSE g[n]]
  <2>8. \A n \in 0 .. m - 1 : g[n] = IF n = 0 THEN c ELSE syncEntryPin(g[n - 1], order[n])
    BY <2>7
  <2>9. \A n \in 0 .. m : h[n] = IF n = 0 THEN c ELSE syncEntryPin(h[n - 1], order[n])
    <3> TAKE n \in 0 .. m
    <3>1. CASE n = m
      <4>1. h[m - 1] = g[m - 1]
        BY <2>5
      <4>2. h[m] = syncEntryPin(g[m - 1], order[m])
        BY <2>5
      <4> QED
        BY <2>5, <3>1, <4>1, <4>2
    <3>2. CASE n # m
      <4>1. n \in 0 .. m - 1 /\ h[n] = g[n]
        BY <2>5, <3>2
      <4>2. CASE n = 0
        BY <2>8, <4>1, <4>2
      <4>3. CASE n # 0
        <5>1. n - 1 \in 0 .. m /\ n - 1 # m
          BY <2>5, <3>2, <4>3
        <5>2. h[n - 1] = g[n - 1]
          BY <5>1
        <5> QED
          BY <2>8, <4>1, <4>3, <5>2
      <4> QED
        BY <4>2, <4>3
    <3> QED
      BY <3>1, <3>2
  <2>10. h = [n \in 0 .. m |-> h[n]]
    OBVIOUS
  <2> HIDE DEF h
  <2>11. Visits(h, m)
    BY <2>9, <2>10
  <2> QED
    BY <2>3, <2>11
<1> DEFINE after == CHOOSE g : Visits(g, N)
<1>4. Visits(after, N)
  BY <1>3
<1>5. syncPinsInOrder(c, order) = after[N]
  BY DEF syncPinsInOrder, N
<1> HIDE DEF after
<1>6. \A n \in 0 .. N : after[n] = IF n = 0 THEN c ELSE syncEntryPin(after[n - 1], order[n])
  BY <1>4
<1>7. \A n \in 0 .. N : after[n] \in S[n]
  <2> DEFINE Bad == {n \in 0 .. N : after[n] \notin S[n]}
  <2>1. SUFFICES ASSUME Bad # {} PROVE FALSE
    OBVIOUS
  <2>2. PICK m \in Bad : \A y \in Bad : ~(<<y, m>> \in OpToRel(<, Nat))
    <3>1. Bad \subseteq Nat
      BY <1>1
    <3> HIDE DEF Bad
    <3> QED
      BY <1>2, <2>1, <3>1, WFMin
  <2>3. m \in 0 .. N /\ after[m] \notin S[m]
    OBVIOUS
  <2>4. m # 0
    BY <1>6, <2>3
  <2>5. m - 1 \in 0 .. N /\ m - 1 \in Nat /\ m \in Nat /\ m \in 1 .. N
    BY <1>1, <2>3, <2>4
  <2>6. m - 1 \notin Bad
    <3>1. <<m - 1, m>> \in OpToRel(<, Nat)
      BY <2>5 DEF OpToRel
    <3> HIDE DEF Bad
    <3> QED
      BY <2>2, <3>1
  <2>7. after[m - 1] \in S[m - 1]
    BY <2>5, <2>6
  <2>8. after[m] = syncEntryPin(after[m - 1], order[m])
    BY <1>6, <2>3, <2>4
  <2>9. syncEntryPin(after[m - 1], order[m]) \in S[m]
    BY <2>5, <2>7 DEF N
  <2> QED
    BY <2>3, <2>8, <2>9
<1> QED
  BY <1>1, <1>5, <1>7 DEF N

-----------------------------------------------------------------------------
(* The invariant of one key                                                  *)

\* The key is untouched but for the pin and the descriptor of its entry.
Same(c, d, j) ==
    /\ d.key[j] = c.key[j]
    /\ Has(d, j) <=> Has(c, j)
    /\ Has(c, j) => /\ d.ent[j].st = c.ent[j].st /\ d.ent[j].obs = c.ent[j].obs
                    /\ d.ent[j].exp = c.ent[j].exp /\ d.ent[j].gen = c.ent[j].gen

\* What any method may do to a key.
KeyStep(c, d, j) ==
    \/ Same(c, d, j)
    \/ Dropped(c, d, j)
    \/ \E w : Has(d, j) /\ Wrote(c, d, j, w) /\ w.obs \in Nat /\ (Has(c, j) => w.obs >= c.ent[j].obs)
    \/ \E t \in Nat : Invalidated(c, d, j, t)
    \/ Has(c, j) /\ Compacted(c, d, j)

\* A key kept but for its pin is the same.
LEMMA KeptIsSame ==
    ASSUME NEW c, NEW d, NEW j, Kept(c, d, j)
    PROVE  Same(c, d, j)
BY DEF Kept, Same, SameEntry

\* SnapshotCoherent, of one key.
CoherentAt(c, k) ==
    /\ c.key[k].snap.gen = c.key[k].gen
    /\ c.key[k].snap.present <=> Has(c, k)
    /\ Has(c, k) => /\ c.key[k].snap.gen = c.ent[k].gen
                    /\ c.key[k].snap.st = c.ent[k].st
                    /\ c.key[k].snap.obs = c.ent[k].obs
                    /\ c.key[k].snap.exp = c.ent[k].exp

\* Every method keeps the snapshot of a key coherent.
LEMMA CoherentStep ==
    ASSUME NEW V, NoEntry \notin Entries(V), NEW c \in Caches(V), NEW d \in Caches(V),
           NEW j \in Keys, CoherentAt(c, j), KeyStep(c, d, j)
    PROVE  CoherentAt(d, j)
<1>1. CASE Same(c, d, j)
  BY <1>1 DEF CoherentAt, Same
<1>2. CASE Dropped(c, d, j)
  BY <1>2 DEF CoherentAt, Dropped, AbsentSnapshot, Has
<1>3. ASSUME NEW w, Has(d, j), Wrote(c, d, j, w) PROVE CoherentAt(d, j)
  <2>1. /\ d.key[j].snap = Shown(d.ent[j])
        /\ d.ent[j].gen = d.key[j].gen
    BY <1>3 DEF CoherentAt, Wrote, HoldsWrite
  <2> QED
    BY <1>3, <2>1 DEF CoherentAt, Shown
<1>4. ASSUME NEW t \in Nat, Invalidated(c, d, j, t) PROVE CoherentAt(d, j)
  BY <1>4 DEF CoherentAt, Invalidated, Shown, AbsentSnapshot
<1>5. CASE Compacted(c, d, j)
  BY <1>5 DEF CoherentAt, Compacted, Shown, AbsentSnapshot
<1> QED
  BY <1>1, <1>2, <1>3, <1>4, <1>5 DEF KeyStep

\* GenerationFencesValue, of one key.
FencedAt(c, d, k) ==
    /\ d.key[k].gen >= c.key[k].gen
    /\ (Has(c, k) /\ Has(d, k) /\ d.key[k].gen = c.key[k].gen)
          => /\ d.ent[k].obs >= c.ent[k].obs
             /\ c.ent[k].st = "present" => d.ent[k].st = "present"

\* Every method respects the generation of a key.
LEMMA FencedStep ==
    ASSUME NEW V, NoEntry \notin Entries(V), NEW c \in Caches(V), NEW d \in Caches(V),
           NEW j \in Keys, KeyStep(c, d, j)
    PROVE  FencedAt(c, d, j)
<1>1. c.key[j].gen \in Nat
  BY CacheFields DEF KeyStates
<1>2. CASE Same(c, d, j)
  <2>1. Has(c, j) => c.ent[j].obs \in Nat
    BY CacheFields DEF Entries
  <2> QED
    BY <1>1, <1>2, <2>1 DEF FencedAt, Same
<1>3. CASE Dropped(c, d, j)
  BY <1>1, <1>3 DEF FencedAt, Dropped, Has
<1>4. ASSUME NEW w, Wrote(c, d, j, w), Has(c, j) => w.obs >= c.ent[j].obs PROVE FencedAt(c, d, j)
  BY <1>1, <1>4 DEF FencedAt, Wrote, HoldsWrite
<1>5. ASSUME NEW t \in Nat, Invalidated(c, d, j, t) PROVE FencedAt(c, d, j)
  BY <1>1, <1>5 DEF FencedAt, Invalidated
<1>6. CASE Compacted(c, d, j)
  BY <1>1, <1>6 DEF FencedAt, Compacted
<1> QED
  BY <1>2, <1>3, <1>4, <1>5, <1>6 DEF KeyStep

\* No time in the cache is in the future.
TimelyAt(c, k, t) ==
    /\ c.key[k].invAt <= t /\ c.key[k].high <= t
    /\ Has(c, k) => c.ent[k].obs <= t

\* An accepted write is not older than the entry it replaces.
LEMMA AcceptedIsNewer ==
    ASSUME NEW V, NoEntry \notin Entries(V), NEW c \in Caches(V), NEW k \in Keys, Has(c, k),
           NEW w \in Writes(V), NEW same, NEW t \in Nat, TimelyAt(c, k, t),
           rejectWriteByPrecedence(c, k, w, same) = "none", w.src = "active" => w.obs = t
    PROVE  w.obs >= c.ent[k].obs
<1>1. /\ c.ent[k].obs \in Nat /\ w.obs \in Nat /\ c.key[k].invAt \in Nat
      /\ c.key[k].high \in Nat
  BY CacheFields DEF Entries, KeyStates, Writes
<1>2. ASSUME w.obs < c.ent[k].obs PROVE FALSE
  <2>1. w.src # "active"
    <3>1. c.ent[k].obs <= t
      BY DEF TimelyAt
    <3> QED
      BY <1>1, <1>2, <3>1
  <2> QED
    BY <1>1, <1>2, <2>1 DEF rejectWriteByPrecedence, generationQualifiedActive
<1> QED
  BY <1>1, <1>2

\* Write as steps of the keys.
LEMMA WriteStep ==
    ASSUME NEW V, NoEntry \notin Entries(V), CacheBounds, NEW c \in Caches(V), NEW k \in Keys,
           NEW w \in Writes(V), NEW same, NEW t \in Nat, w.obs <= t,
           w.src = "active" => w.obs = t, \A j \in Keys : TimelyAt(c, j, t)
    PROVE  LET z == Write(c, k, w, same).c
           IN  /\ z \in Caches(V)
               /\ \A j \in Keys : KeyStep(c, z, j) /\ TimelyAt(z, j, t)
               /\ Exact(c) => Exact(z)
<1> DEFINE res == Write(c, k, w, same)
           z == res.c
<1>1. /\ z \in Caches(V)
      /\ \A j \in Keys \ {k} : Kept(c, z, j) \/ Dropped(c, z, j)
      /\ \/ Kept(c, z, k) \/ Dropped(c, z, k)
         \/ z.ent[k] \in Entries(V) /\ Wrote(c, z, k, w) /\ rejectWriteByPrecedence(c, k, w, same) = "none"
      /\ Exact(c) => Exact(z)
  BY WriteFacts
<1> HIDE DEF res
<1>2. ASSUME NEW j \in Keys, Kept(c, z, j) \/ Dropped(c, z, j)
      PROVE  KeyStep(c, z, j) /\ TimelyAt(z, j, t)
  <2>1. KeyStep(c, z, j)
    BY <1>2, KeptIsSame DEF KeyStep
  <2>2. TimelyAt(c, j, t)
    OBVIOUS
  <2> QED
    BY <1>2, <2>1, <2>2 DEF TimelyAt, Kept, Dropped, SameEntry, Has
<1>3. ASSUME z.ent[k] \in Entries(V), Wrote(c, z, k, w), rejectWriteByPrecedence(c, k, w, same) = "none"
      PROVE  KeyStep(c, z, k) /\ TimelyAt(z, k, t)
  <2>1. Has(z, k) /\ w.obs \in Nat /\ c.key[k].high \in Nat /\ TimelyAt(c, k, t)
    BY <1>3, CacheFields DEF Has, Writes, KeyStates
  <2>2. Has(c, k) => w.obs >= c.ent[k].obs
    BY <1>3, <2>1, AcceptedIsNewer
  <2>3. KeyStep(c, z, k)
    BY <1>3, <2>1, <2>2 DEF KeyStep
  <2>4. TimelyAt(z, k, t)
    BY <1>3, <2>1 DEF TimelyAt, Wrote, HoldsWrite, Later
  <2> QED
    BY <2>3, <2>4
<1>4. \A j \in Keys : KeyStep(c, z, j) /\ TimelyAt(z, j, t)
  BY <1>1, <1>2, <1>3
<1> QED
  BY <1>1, <1>4 DEF res

\* Invalidate as steps of the keys.
LEMMA InvalidateStep ==
    ASSUME NEW V, NoEntry \notin Entries(V), NEW c \in Caches(V), NEW k \in Keys,
           NEW i \in Nat, NEW t \in Nat, i <= t, \A j \in Keys : TimelyAt(c, j, t)
    PROVE  LET z == Invalidate(c, k, i)
           IN  /\ z \in Caches(V)
               /\ \A j \in Keys : KeyStep(c, z, j) /\ TimelyAt(z, j, t)
               /\ Exact(c) => Exact(z)
<1> DEFINE z == Invalidate(c, k, i)
<1>1. /\ z \in Caches(V)
      /\ \A j \in Keys \ {k} : Kept(c, z, j) \/ Dropped(c, z, j)
      /\ Invalidated(c, z, k, i)
      /\ Exact(c) => Exact(z)
  BY InvalidateFacts
<1> HIDE DEF z
<1>2. ASSUME NEW j \in Keys, Kept(c, z, j) \/ Dropped(c, z, j)
      PROVE  KeyStep(c, z, j) /\ TimelyAt(z, j, t)
  <2>1. KeyStep(c, z, j)
    BY <1>2, KeptIsSame DEF KeyStep
  <2>2. TimelyAt(c, j, t)
    OBVIOUS
  <2> QED
    BY <1>2, <2>1, <2>2 DEF TimelyAt, Kept, Dropped, SameEntry, Has
<1>3. KeyStep(c, z, k)
  BY <1>1 DEF KeyStep
<1>4. TimelyAt(z, k, t)
  <2>1. TimelyAt(c, k, t)
    OBVIOUS
  <2> QED
    BY <1>1, <2>1 DEF TimelyAt, Invalidated, Later
<1>5. \A j \in Keys : KeyStep(c, z, j) /\ TimelyAt(z, j, t)
  BY <1>1, <1>2, <1>3, <1>4
<1> QED
  BY <1>1, <1>5 DEF z

\* Compaction as steps of the keys.
LEMMA CompactStep ==
    ASSUME NEW V, NoEntry \notin Entries(V), NEW c \in Caches(V), NEW k \in Keys, Has(c, k),
           NEW i, NEW t \in Nat, \A j \in Keys : TimelyAt(c, j, t)
    PROVE  LET z == compactKey(c, k, i)
           IN  /\ z \in Caches(V)
               /\ \A j \in Keys : KeyStep(c, z, j) /\ TimelyAt(z, j, t)
               /\ Exact(c) => Exact(z)
<1> DEFINE z == compactKey(c, k, i)
<1>1. /\ z \in Caches(V)
      /\ \A j \in Keys \ {k} : Kept(c, z, j)
      /\ Kept(c, z, k) \/ Compacted(c, z, k)
      /\ Exact(c) => Exact(z)
  BY CompactFacts
<1> HIDE DEF z
<1>2. ASSUME NEW j \in Keys, Kept(c, z, j)
      PROVE  KeyStep(c, z, j) /\ TimelyAt(z, j, t)
  <2>1. KeyStep(c, z, j)
    BY <1>2, KeptIsSame DEF KeyStep
  <2>2. TimelyAt(c, j, t)
    OBVIOUS
  <2> QED
    BY <1>2, <2>1, <2>2 DEF TimelyAt, Kept, SameEntry
<1>3. ASSUME Compacted(c, z, k) PROVE KeyStep(c, z, k) /\ TimelyAt(z, k, t)
  <2>1. TimelyAt(c, k, t)
    OBVIOUS
  <2> QED
    BY <1>3, <2>1 DEF KeyStep, TimelyAt, Compacted
<1>4. \A j \in Keys : KeyStep(c, z, j) /\ TimelyAt(z, j, t)
  BY <1>1, <1>2, <1>3
<1> QED
  BY <1>1, <1>4 DEF z

\* Lookup as steps of the keys.
LEMMA LookupStep ==
    ASSUME NEW V, NoEntry \notin Entries(V), NEW c \in Caches(V), NEW k \in Keys,
           NEW age, NEW i, NEW t \in Nat, \A j \in Keys : TimelyAt(c, j, t)
    PROVE  LET z == LookupCache(c, k, age, i)
           IN  /\ z \in Caches(V)
               /\ \A j \in Keys : KeyStep(c, z, j) /\ TimelyAt(z, j, t)
               /\ Exact(c) => Exact(z)
<1> DEFINE z == LookupCache(c, k, age, i)
<1>1. /\ z \in Caches(V)
      /\ \A j \in Keys : Kept(c, z, j)
      /\ Exact(c) => Exact(z)
  BY LookupFacts
<1> HIDE DEF z
<1>2. \A j \in Keys : KeyStep(c, z, j)
  BY <1>1, KeptIsSame DEF KeyStep
<1>3. \A j \in Keys : TimelyAt(z, j, t)
  BY <1>1 DEF TimelyAt, Kept, SameEntry
<1> QED
  BY <1>1, <1>2, <1>3 DEF z

\* A visiting order of the cached keys is a list of keys.
LEMMA OrderType ==
    ASSUME CacheBounds, NEW c, NEW order \in SetToSeqs(Cached(c))
    PROVE  order \in Seq(Keys)
<1>1. IsFiniteSet(Cached(c)) /\ Cached(c) \subseteq Keys
  BY FS_Subset DEF CacheBounds, Cached
<1>2. Cardinality(Cached(c)) \in Nat
  BY <1>1, FS_CardinalityType
<1>3. order \in [1 .. Cardinality(Cached(c)) -> Cached(c)]
  BY DEF SetToSeqs
<1> QED
  BY <1>1, <1>2, <1>3

\* syncAllPinsLocked changes at most the pins.
LEMMA SyncAllFacts ==
    ASSUME NEW V, NoEntry \notin Entries(V), CacheBounds, NEW c \in Caches(V),
           NEW z \in syncAllPins(c)
    PROVE  /\ z \in Caches(V) /\ SameConfig(c, z)
           /\ \A j \in Keys : Kept(c, z, j)
           /\ Exact(c) => Exact(z)
<1>1. PICK order \in SetToSeqs(Cached(c)) : z = syncPinsInOrder(c, order)
  BY DEF syncAllPins
<1> DEFINE D == {d \in Caches(V) : /\ SameConfig(c, d)
                                   /\ \A j \in Keys : Kept(c, d, j)
                                   /\ Exact(c) => Exact(d)}
           S == [n \in 0 .. Len(order) |-> D]
<1>2. order \in Seq(Keys)
  BY OrderType
<1>3. c \in D
  BY DEF SameConfig, Kept, SameEntry
<1>4. ASSUME NEW x \in D, NEW k \in Keys PROVE syncEntryPin(x, k) \in D
  <2> DEFINE y == syncEntryPin(x, k)
  <2>1. /\ y \in Caches(V) /\ SameState(x, y) /\ SameEntries(x, y)
        /\ Exact(x) => Exact(y)
    BY <1>4, SyncFacts, SyncExact
  <2> HIDE DEF y
  <2>2. SameConfig(c, y)
    BY <1>4, <2>1 DEF SameConfig, SameState
  <2>3. \A j \in Keys : Kept(c, y, j)
    BY <1>4, <2>1 DEF SameState, SameEntries, Kept, SameEntry
  <2>4. y \in D
    BY <1>4, <2>1, <2>2, <2>3
  <2> QED
    BY <2>4 DEF y
<1> HIDE DEF D
<1>5. Len(order) \in Nat /\ \A n \in 1 .. Len(order) : order[n] \in Keys
  BY <1>2
<1>6. /\ S[0] = D /\ S[Len(order)] = D
      /\ \A n \in 1 .. Len(order) : S[n] = D /\ S[n - 1] = D
  BY <1>5
<1> HIDE DEF S
<1>7. \A n \in 1 .. Len(order) : \A x \in S[n - 1] : syncEntryPin(x, order[n]) \in S[n]
  BY <1>4, <1>5, <1>6
<1>8. syncPinsInOrder(c, order) \in S[Len(order)]
  BY <1>2, <1>3, <1>6, <1>7, SyncLoop
<1> QED
  BY <1>1, <1>6, <1>8 DEF D

\* Descriptors, activations and the budget flag may change, the rest may not.
Reconfigured(c, d) ==
    /\ \A j \in Keys : Same(c, d, j) /\ (Has(c, j) => d.ent[j].pin = c.ent[j].pin)
    /\ d.lru = c.lru

\* A change of the configuration keeps the list exact.
LEMMA ReconfiguredExact ==
    ASSUME NEW V, NEW c \in Caches(V), NEW d \in Caches(V), Reconfigured(c, d), Exact(c)
    PROVE  Exact(d)
BY DEF Reconfigured, Exact, Same

\* BootstrapRuntimeDescriptor changes the configuration and then the pins.
LEMMA BootstrapFacts ==
    ASSUME NEW V, NoEntry \notin Entries(V), CacheBounds, NEW c \in Caches(V), NEW k \in Keys,
           NEW desc \in Descriptors, NEW src \in SUBSET Activations,
           NEW z \in BootstrapRuntimeDescriptor(c, k, desc, src)
    PROVE  /\ z \in Caches(V)
           /\ \A j \in Keys : Same(c, z, j)
           /\ Exact(c) => Exact(z)
<1> DEFINE known == [c EXCEPT !.act[k] = @ \cup src]
           stored == [known EXCEPT !.desc[k] = desc]
           shown == IF Has(c, k) /\ c.desc[k] # "missing"
                    THEN [stored EXCEPT !.ent[k].desc = desc] ELSE stored
<1>1. z = c \/ (\E x \in {known, shown} : z \in syncAllPins(recomputeBudget(x)))
  BY DEF BootstrapRuntimeDescriptor
<1>2. /\ c.ent \in [Keys -> Entries(V) \cup {NoEntry}] /\ c.desc \in [Keys -> Descriptors]
      /\ c.act \in [Keys -> SUBSET Activations]
      /\ Has(c, k) <=> c.ent[k] \in Entries(V)
  BY CacheFields
<1>3. /\ known \in Caches(V) /\ known.ent = c.ent /\ known.key = c.key /\ known.lru = c.lru
  <2>1. [c.act EXCEPT ![k] = @ \cup src] \in [Keys -> SUBSET Activations]
    BY <1>2
  <2>2. known = [c EXCEPT !.act = [c.act EXCEPT ![k] = @ \cup src]]
    BY DEF Caches
  <2> QED
    BY <2>1, <2>2 DEF Caches
<1> HIDE DEF known
<1>4. /\ stored \in Caches(V) /\ stored.ent = c.ent /\ stored.key = c.key /\ stored.lru = c.lru
  <2>1. [known.desc EXCEPT ![k] = desc] \in [Keys -> Descriptors]
    BY <1>3, CacheFields
  <2>2. stored = [known EXCEPT !.desc = [known.desc EXCEPT ![k] = desc]]
    BY <1>3 DEF Caches
  <2> QED
    BY <1>3, <2>1, <2>2 DEF Caches
<1> HIDE DEF stored
<1>5. shown \in Caches(V) /\ Reconfigured(c, shown)
  <2>1. CASE shown = stored
    BY <1>4, <2>1 DEF Reconfigured, Same, Has
  <2>2. CASE Has(c, k) /\ shown = [stored EXCEPT !.ent[k].desc = desc]
    <3> DEFINE e == [c.ent[k] EXCEPT !.desc = desc]
    <3>1. c.ent[k] \in Entries(V)
      BY <1>2, <2>2
    <3>2. /\ e \in Entries(V) /\ e.st = c.ent[k].st /\ e.obs = c.ent[k].obs /\ e.exp = c.ent[k].exp
          /\ e.gen = c.ent[k].gen /\ e.pin = c.ent[k].pin
      BY <3>1 DEF Entries
    <3>3. shown = [stored EXCEPT !.ent = [stored.ent EXCEPT ![k] = e]]
      BY <2>2, <1>4 DEF Caches
    <3> HIDE DEF e, shown
    <3>4. [stored.ent EXCEPT ![k] = e] \in [Keys -> Entries(V) \cup {NoEntry}]
      BY <1>2, <1>4, <3>2
    <3>5. /\ shown \in Caches(V) /\ shown.ent = [c.ent EXCEPT ![k] = e] /\ shown.key = c.key
          /\ shown.lru = c.lru
      BY <1>4, <3>3, <3>4 DEF Caches
    <3>6. shown.ent[k] = e /\ \A j \in Keys \ {k} : shown.ent[j] = c.ent[j]
      BY <1>2, <3>5
    <3>7. Has(shown, k)
      BY <3>2, <3>6 DEF Has
    <3> QED
      BY <2>2, <3>2, <3>5, <3>6, <3>7 DEF Reconfigured, Same, Has
  <2> QED
    BY <2>1, <2>2
<1>6. Reconfigured(c, known)
  BY <1>3 DEF Reconfigured, Same, Has
<1> HIDE DEF shown
<1>7. ASSUME NEW x \in {known, shown}, z \in syncAllPins(recomputeBudget(x))
      PROVE  z \in Caches(V) /\ (\A j \in Keys : Same(c, z, j)) /\ (Exact(c) => Exact(z))
  <2> DEFINE y == recomputeBudget(x)
  <2>1. x \in Caches(V) /\ Reconfigured(c, x)
    BY <1>3, <1>5, <1>6
  <2>2. y \in Caches(V) /\ y.ent = x.ent /\ y.key = x.key /\ y.lru = x.lru
    <3> DEFINE over == staticPinnedFootprint(x) > staticPinnedBudget
    <3>1. over \in BOOLEAN
      OBVIOUS
    <3>2. y = [x EXCEPT !.degraded = over]
      BY DEF recomputeBudget
    <3> HIDE DEF over, y
    <3> QED
      BY <2>1, <3>1, <3>2 DEF Caches
  <2> HIDE DEF y
  <2>3. Reconfigured(c, y)
    BY <2>1, <2>2 DEF Reconfigured, Same, Has
  <2>4. /\ z \in Caches(V) /\ \A j \in Keys : Kept(y, z, j)
        /\ Exact(y) => Exact(z)
    BY <1>7, <2>2, SyncAllFacts DEF y
  <2>5. \A j \in Keys : Same(c, z, j)
    BY <2>3, <2>4 DEF Reconfigured, Kept, Same, SameEntry
  <2>6. Exact(c) => Exact(z)
    BY <2>2, <2>3, <2>4, ReconfiguredExact
  <2> QED
    BY <2>4, <2>5, <2>6
<1>8. CASE z = c
  BY <1>8 DEF Same
<1> QED
  BY <1>1, <1>7, <1>8

-----------------------------------------------------------------------------
(* The specification                                                         *)

\* What every step keeps: types, no time in the future, coherent snapshots and
\* an exact eviction list.
CacheInd ==
    /\ now \in Nat \ {0}
    /\ cache \in Caches(Values)
    /\ \A k \in Keys : TimelyAt(cache, k, now) /\ CoherentAt(cache, k)
    /\ Exact(cache)

\* A step of the specification, seen from the keys.
StepOfKeys ==
    /\ now' \in Nat /\ now' >= now
    /\ cache' \in Caches(Values)
    /\ \A k \in Keys : KeyStep(cache, cache', k) /\ TimelyAt(cache', k, now')
    /\ Exact(cache')

\* Every action is a step of the keys.
LEMMA StepIsOfKeys ==
    ASSUME CacheInd, [CacheNext]_cacheVars, CacheBounds, BootKinds
    PROVE  StepOfKeys
<1>1. /\ NoEntry \notin Entries(Values) /\ cache \in Caches(Values) /\ now \in Nat \ {0}
      /\ \A j \in Keys : TimelyAt(cache, j, now)
      /\ Exact(cache)
  BY DEF CacheInd, BootKinds
<1>2. ASSUME NEW k \in Keys, CacheLookup(k) PROVE StepOfKeys
  <2>1. PICK age : cache' = LookupCache(cache, k, age, now) /\ now' = now
    BY <1>2 DEF CacheLookup
  <2> QED
    BY <1>1, <2>1, LookupStep DEF StepOfKeys
<1>3. ASSUME NEW k \in Keys, NEW w \in Writes(Values), CacheWrite(k, w),
             w.obs <= now, w.src = "active" => w.obs = now
      PROVE  StepOfKeys
  <2>1. PICK same : cache' = Write(cache, k, w, same).c /\ now' = now
    BY <1>3 DEF CacheWrite
  <2> QED
    BY <1>1, <1>3, <2>1, WriteStep DEF StepOfKeys
<1>4. ASSUME NEW k \in Keys, PassiveWrite(k) PROVE StepOfKeys
  <2>1. PICK v \in Values, t \in 1 .. now :
           CacheWrite(k, [src |-> "passive", val |-> v, obs |-> t, start |-> 0])
    BY <1>4 DEF PassiveWrite
  <2> DEFINE w == [src |-> "passive", val |-> v, obs |-> t, start |-> 0]
  <2>2. w \in Writes(Values) /\ w.obs <= now /\ w.src # "active"
    BY <1>1 DEF Writes, Sources
  <2> HIDE DEF w
  <2> QED
    BY <1>3, <2>1, <2>2 DEF w
<1>5. ASSUME NEW k \in Keys, ActiveWrite(k) PROVE StepOfKeys
  <2>1. PICK v \in Values, g \in 0 .. cache.key[k].gen :
           CacheWrite(k, [src |-> "active", val |-> v, obs |-> now, start |-> g])
    BY <1>5 DEF ActiveWrite
  <2> DEFINE w == [src |-> "active", val |-> v, obs |-> now, start |-> g]
  <2>2. w \in Writes(Values) /\ w.obs <= now /\ w.obs = now
    BY <1>1 DEF Writes, Sources
  <2> HIDE DEF w
  <2> QED
    BY <1>3, <2>1, <2>2 DEF w
<1>6. ASSUME NEW k \in Keys, CacheInvalidate(k) PROVE StepOfKeys
  <2>1. PICK i \in 1 .. now : cache' = Invalidate(cache, k, i) /\ now' = now
    BY <1>6 DEF CacheInvalidate
  <2>2. i \in Nat /\ i <= now
    BY <1>1, <2>1
  <2> QED
    BY <1>1, <2>1, <2>2, InvalidateStep DEF StepOfKeys
<1>7. ASSUME cache' \in Caches(Values), \A k \in Keys : Same(cache, cache', k), Exact(cache'),
             now' = now
      PROVE  StepOfKeys
  <2>1. \A k \in Keys : TimelyAt(cache', k, now)
    BY <1>1, <1>7 DEF TimelyAt, Same
  <2>2. \A k \in Keys : KeyStep(cache, cache', k)
    BY <1>7 DEF KeyStep
  <2> QED
    BY <1>1, <1>7, <2>1, <2>2 DEF StepOfKeys
<1>8. ASSUME NEW k \in Keys, CacheBootstrap(k) PROVE StepOfKeys
  <2>1. PICK d \in BootDescriptors, s \in BootActivations :
           cache' \in BootstrapRuntimeDescriptor(cache, k, d, {s}) /\ now' = now
    BY <1>8 DEF CacheBootstrap
  <2>2. d \in Descriptors /\ {s} \in SUBSET Activations
    BY <2>1 DEF BootKinds
  <2>3. cache' \in Caches(Values) /\ (\A j \in Keys : Same(cache, cache', j)) /\ Exact(cache')
    BY <1>1, <2>1, <2>2, BootstrapFacts
  <2> QED
    BY <1>7, <2>1, <2>3
<1>9. ASSUME CacheRefresh PROVE StepOfKeys
  <2>1. cache' \in syncAllPins(cache) /\ now' = now
    BY <1>9 DEF CacheRefresh, RefreshActivations
  <2>2. cache' \in Caches(Values) /\ (\A j \in Keys : Kept(cache, cache', j)) /\ Exact(cache')
    BY <1>1, <2>1, SyncAllFacts
  <2> QED
    BY <1>7, <2>1, <2>2, KeptIsSame
<1>10. ASSUME NEW k \in Keys, CacheCompact(k) PROVE StepOfKeys
  <2>1. Has(cache, k) /\ cache' = compactKey(cache, k, now) /\ now' = now
    BY <1>10 DEF CacheCompact
  <2> QED
    BY <1>1, <2>1, CompactStep DEF StepOfKeys
<1>11. ASSUME Tick PROVE StepOfKeys
  <2>1. now' = now + 1 /\ cache' = cache
    BY <1>11 DEF Tick
  <2>2. \A k \in Keys : TimelyAt(cache, k, now + 1)
    <3> TAKE k \in Keys
    <3>2. /\ cache.key[k].invAt \in Nat /\ cache.key[k].high \in Nat
          /\ Has(cache, k) => cache.ent[k].obs \in Nat
      BY <1>1, CacheFields DEF KeyStates, Entries
    <3> QED
      BY <1>1, <3>2 DEF TimelyAt
  <2>3. \A k \in Keys : KeyStep(cache, cache, k)
    BY DEF KeyStep, Same
  <2> QED
    BY <1>1, <2>1, <2>2, <2>3 DEF StepOfKeys
<1>12. ASSUME UNCHANGED cacheVars PROVE StepOfKeys
  BY <1>1, <1>7, <1>12 DEF cacheVars, Same
<1> QED
  BY <1>2, <1>4, <1>5, <1>6, <1>8, <1>9, <1>10, <1>11, <1>12 DEF CacheNext

\* The empty cache.
LEMMA CacheIndInit ==
    ASSUME CacheInit, CacheBounds, BootKinds
    PROVE  CacheInd
<1> DEFINE k0 == [gen |-> 0, invAt |-> 0, high |-> 0, snap |-> AbsentSnapshot(0)]
<1>1. k0 \in KeyStates
  BY AbsentType DEF KeyStates
<1>2. /\ cache = EmptyCache([k \in Keys |-> "missing"], [k \in Keys |-> {}]) /\ now = 1
  BY DEF CacheInit
<1>3. /\ cache.ent = [k \in Keys |-> NoEntry] /\ cache.key = [k \in Keys |-> k0]
      /\ cache.lru = <<>>
  BY <1>2 DEF EmptyCache
<1>4. cache \in Caches(Values)
  BY <1>1, <1>2 DEF EmptyCache, Caches, Descriptors
<1>5. \A k \in Keys : ~Has(cache, k) /\ cache.key[k] = k0
  BY <1>3 DEF Has
<1>6. k0.gen = 0 /\ k0.invAt = 0 /\ k0.high = 0 /\ k0.snap.gen = 0 /\ k0.snap.present = FALSE
  BY DEF AbsentSnapshot
<1> HIDE DEF k0
<1>7. \A k \in Keys : TimelyAt(cache, k, now) /\ CoherentAt(cache, k)
  <2> TAKE k \in Keys
  <2>1. ~Has(cache, k) /\ cache.key[k] = k0 /\ now = 1
    BY <1>2, <1>5
  <2>2. TimelyAt(cache, k, now)
    BY <1>6, <2>1 DEF TimelyAt
  <2>3. CoherentAt(cache, k)
    BY <1>6, <2>1 DEF CoherentAt
  <2> QED
    BY <2>2, <2>3
<1>8. Exact(cache)
  BY <1>3, <1>5 DEF Exact, Once, Range
<1>9. now \in Nat \ {0}
  BY <1>2
<1> QED
  BY <1>4, <1>7, <1>8, <1>9 DEF CacheInd

\* Every step keeps CacheInd.
LEMMA CacheIndNext ==
    ASSUME CacheInd, [CacheNext]_cacheVars, CacheBounds, BootKinds
    PROVE  CacheInd'
<1>1. StepOfKeys
  BY StepIsOfKeys
<1>2. \A k \in Keys : CoherentAt(cache', k)
  BY <1>1, CoherentStep DEF CacheInd, StepOfKeys, BootKinds
<1>3. now' \in Nat \ {0}
  BY <1>1 DEF StepOfKeys, CacheInd
<1> QED
  BY <1>1, <1>2, <1>3 DEF StepOfKeys, CacheInd

\* CacheInd is an invariant of the cache, whatever its capacities, its keys and
\* the calls its users make.
THEOREM CacheInvariant == CacheSpec => []CacheInd
<1>1. CacheInit => CacheInd
  BY CacheIndInit, CacheBounds, BootKinds
<1>2. CacheInd /\ [CacheNext]_cacheVars => CacheInd'
  BY CacheIndNext, CacheBounds, BootKinds
<1> QED
  BY <1>1, <1>2, PTL DEF CacheSpec

\* CaptureGeneration and SnapshotEligibility, which read without the lock, never
\* see a record that disagrees with the entry or with the generation that an
\* active write is checked against.
THEOREM SnapshotsAreCoherent == CacheSpec => []SnapshotCoherent
<1>1. CacheInd => SnapshotCoherent
  <2> SUFFICES ASSUME CacheInd, NEW k \in Keys
               PROVE  /\ cache.key[k].snap.gen = cache.key[k].gen
                      /\ cache.key[k].snap.present = Has(cache, k)
                      /\ Has(cache, k) => /\ cache.key[k].snap.gen = cache.ent[k].gen
                                          /\ cache.key[k].snap.st = cache.ent[k].st
                                          /\ cache.key[k].snap.obs = cache.ent[k].obs
                                          /\ cache.key[k].snap.exp = cache.ent[k].exp
    BY DEF SnapshotCoherent
  <2>1. CoherentAt(cache, k)
    BY DEF CacheInd
  <2>2. cache.key[k].snap.present \in BOOLEAN
    BY BootKinds, CacheFields DEF CacheInd, BootKinds, KeyStates, Snapshots
  <2>3. Has(cache, k) \in BOOLEAN
    BY DEF Has
  <2>4. cache.key[k].snap.present = Has(cache, k)
    BY <2>1, <2>2, <2>3 DEF CoherentAt
  <2> QED
    BY <2>1, <2>4 DEF CoherentAt
<1> QED
  BY <1>1, CacheInvariant, PTL

\* A generation never goes back, and within one generation the entry of a key
\* only moves to newer observations and stays present, through every
\* interleaving of reads, writes, invalidations, evictions, bootstraps and
\* compactions.
THEOREM GenerationsFence == CacheSpec => GenerationFencesValue
<1>1. CacheInd /\ [CacheNext]_cacheVars =>
         [\A k \in Keys : FencedAt(cache, cache', k)]_cacheVars
  BY StepIsOfKeys, FencedStep, CacheBounds, BootKinds DEF StepOfKeys, CacheInd, BootKinds
<1>2. CacheInd /\ [CacheNext]_cacheVars =>
      [\A k \in Keys :
          /\ cache'.key[k].gen >= cache.key[k].gen
          /\ (Has(cache, k) /\ Has(cache', k) /\ cache'.key[k].gen = cache.key[k].gen)
                => /\ cache'.ent[k].obs >= cache.ent[k].obs
                   /\ cache.ent[k].st = "present" => cache'.ent[k].st = "present"]_cacheVars
  BY <1>1 DEF FencedAt
<1> QED
  BY <1>2, CacheInvariant, PTL DEF CacheSpec, GenerationFencesValue

-----------------------------------------------------------------------------
(* The budgets                                                               *)

\* A static pin is held by a key the poller reads, under a descriptor that the
\* entry has taken from the catalog.
Fits(c, k) ==
    Has(c, k) => /\ c.ent[k].desc \in {"missing", c.desc[k]}
                 /\ c.ent[k].pin = "static" => "poller" \in c.act[k] /\ c.ent[k].desc # "missing"

\* An entry that turned out to be a debug register keeps no static pin.
Undebugged(c, k) == Has(c, k) /\ c.ent[k].pin = "static" => c.ent[k].desc # "debug"

\* The two caps that count entries.
WithinCaps(c) ==
    /\ Cardinality(Cached(c)) <= Capacity
    /\ Cardinality(writeConfirmPinned(c)) <= WriteConfirmPinnedCap

\* A key has sources only once it is in the catalog, and the budget flag is
\* the comparison recomputePinnedBudgetLocked made of the present catalog.
Catalogued(c) ==
    /\ \A k \in Keys : c.desc[k] = "missing" => c.act[k] = {}
    /\ c.degraded = (staticPinnedFootprint(c) > staticPinnedBudget)

\* What every method keeps, so that the budgets hold.
Budgeted(c) ==
    /\ \A k \in Keys : Fits(c, k) /\ Undebugged(c, k)
    /\ Catalogued(c)
    /\ WithinCaps(c)

\* One more element, where there is room for one.
LEMMA OneMore ==
    ASSUME NEW S, IsFiniteSet(S), NEW T, NEW k, T \subseteq S \cup {k}, NEW N \in Nat,
           Cardinality(S) <= N, k \in T => k \in S \/ Cardinality(S) < N
    PROVE  Cardinality(T) <= N
<1>1. Cardinality(S) \in Nat
  BY FS_CardinalityType
<1>2. CASE T \subseteq S
  <2>1. Cardinality(T) \in Nat /\ Cardinality(T) <= Cardinality(S)
    BY <1>2, FS_Subset, FS_CardinalityType
  <2> QED
    BY <1>1, <2>1
<1>3. CASE ~(T \subseteq S)
  <2>1. k \in T /\ k \notin S
    BY <1>3
  <2>2. IsFiniteSet(S \cup {k}) /\ Cardinality(S \cup {k}) = Cardinality(S) + 1
    BY <2>1, FS_AddElement
  <2>3. Cardinality(T) \in Nat /\ Cardinality(T) <= Cardinality(S \cup {k})
    BY <2>2, FS_Subset, FS_CardinalityType
  <2> QED
    BY <1>1, <2>1, <2>2, <2>3
<1> QED
  BY <1>2, <1>3

\* The two counted sets are finite.
LEMMA CountedFinite ==
    ASSUME CacheBounds, NEW c
    PROVE  /\ IsFiniteSet(Cached(c)) /\ IsFiniteSet(writeConfirmPinned(c))
           /\ Cardinality(Cached(c)) \in Nat /\ Cardinality(writeConfirmPinned(c)) \in Nat
<1>1. IsFiniteSet(Keys)
  BY DEF CacheBounds
<1>2. Cached(c) \subseteq Keys /\ writeConfirmPinned(c) \subseteq Cached(c)
  BY DEF Cached, writeConfirmPinned
<1>3. IsFiniteSet(Cached(c))
  BY <1>1, <1>2, FS_Subset
<1>4. IsFiniteSet(writeConfirmPinned(c))
  BY <1>2, <1>3, FS_Subset
<1> QED
  BY <1>3, <1>4, FS_CardinalityType

\* The key has at most the entry it had, under the same pin and descriptor.
KeepsPin(c, z, j) ==
    Has(z, j) => Has(c, j) /\ z.ent[j].pin = c.ent[j].pin /\ z.ent[j].desc = c.ent[j].desc

\* A write-confirm pin of k that the cap allows.
PinAllowed(c, z, k) ==
    Has(z, k) /\ z.ent[k].pin = "writeConfirm" =>
        k \in writeConfirmPinned(c) \/ Cardinality(writeConfirmPinned(c)) < WriteConfirmPinnedCap

\* The write-confirm cap after a step that pins at most k.
LEMMA PinCapKept ==
    ASSUME CacheBounds, NEW c, NEW z, NEW k \in Keys,
           Cardinality(writeConfirmPinned(c)) <= WriteConfirmPinnedCap,
           \A j \in Keys \ {k} : KeepsPin(c, z, j), PinAllowed(c, z, k)
    PROVE  Cardinality(writeConfirmPinned(z)) <= WriteConfirmPinnedCap
<1>1. IsFiniteSet(writeConfirmPinned(c)) /\ WriteConfirmPinnedCap \in Nat
  BY CountedFinite DEF CacheBounds
<1>2. writeConfirmPinned(z) \subseteq writeConfirmPinned(c) \cup {k}
  BY DEF writeConfirmPinned, Cached, KeepsPin
<1>3. k \in writeConfirmPinned(z) =>
         k \in writeConfirmPinned(c) \/ Cardinality(writeConfirmPinned(c)) < WriteConfirmPinnedCap
  BY DEF writeConfirmPinned, Cached, PinAllowed
<1> QED
  BY <1>1, <1>2, <1>3, OneMore

\* The catalog part of the invariant is about the configuration only.
LEMMA CataloguedKept ==
    ASSUME NEW c, NEW z, SameConfig(c, z), Catalogued(c)
    PROVE  Catalogued(z)
<1>1. z.desc = c.desc /\ z.act = c.act /\ z.degraded = c.degraded
  BY DEF SameConfig
<1>2. staticPinnedFootprint(z) = staticPinnedFootprint(c)
  BY <1>1 DEF staticPinnedFootprint
<1> QED
  BY <1>1, <1>2 DEF Catalogued

\* A method that changes the entry of k and may drop others.
LEMMA BudgetedStep ==
    ASSUME CacheBounds, NEW c, NEW z, NEW k \in Keys, SameConfig(c, z), Budgeted(c),
           \A j \in Keys \ {k} : KeepsPin(c, z, j), PinAllowed(c, z, k),
           Fits(z, k), Undebugged(z, k), Cardinality(Cached(z)) <= Capacity
    PROVE  Budgeted(z)
<1>1. \A j \in Keys \ {k} : Fits(z, j) /\ Undebugged(z, j)
  BY DEF KeepsPin, Budgeted, Fits, Undebugged, SameConfig
<1>2. Catalogued(z)
  BY CataloguedKept DEF Budgeted
<1>3. Cardinality(writeConfirmPinned(z)) <= WriteConfirmPinnedCap
  BY PinCapKept DEF Budgeted, WithinCaps
<1> QED
  BY <1>1, <1>2, <1>3 DEF Budgeted, WithinCaps

\* A method that at most drops entries.
LEMMA BudgetedDrop ==
    ASSUME CacheBounds, NEW c, NEW z, SameConfig(c, z), Budgeted(c),
           \A j \in Keys : KeepsPin(c, z, j)
    PROVE  Budgeted(z)
<1>1. \A j \in Keys : Fits(z, j) /\ Undebugged(z, j)
  BY DEF KeepsPin, Budgeted, Fits, Undebugged, SameConfig
<1>2. Catalogued(z)
  BY CataloguedKept DEF Budgeted
<1>3. Cached(z) \subseteq Cached(c) /\ writeConfirmPinned(z) \subseteq writeConfirmPinned(c)
  BY DEF Cached, writeConfirmPinned, KeepsPin
<1>4. /\ Cardinality(Cached(z)) <= Cardinality(Cached(c))
      /\ Cardinality(writeConfirmPinned(z)) <= Cardinality(writeConfirmPinned(c))
  BY <1>3, CountedFinite, FS_Subset
<1>5. {Capacity, WriteConfirmPinnedCap} \subseteq Nat
  BY DEF CacheBounds
<1>6. WithinCaps(z)
  <2>1. /\ Cardinality(Cached(c)) <= Capacity
        /\ Cardinality(writeConfirmPinned(c)) <= WriteConfirmPinnedCap
    BY DEF Budgeted, WithinCaps
  <2>2. /\ Cardinality(Cached(c)) \in Nat /\ Cardinality(writeConfirmPinned(c)) \in Nat
        /\ Cardinality(Cached(z)) \in Nat /\ Cardinality(writeConfirmPinned(z)) \in Nat
    BY CountedFinite
  <2> QED
    BY <1>4, <1>5, <2>1, <2>2 DEF WithinCaps
<1> QED
  BY <1>1, <1>2, <1>6 DEF Budgeted

\* syncEntryPinLocked keeps the entry within the budgets, also when another
\* entry still has the static pin of a descriptor that became debug.
LEMMA SyncBudget ==
    ASSUME NEW V, NoEntry \notin Entries(V), CacheBounds, NEW c \in Caches(V), NEW k \in Keys,
           \A j \in Keys : Fits(c, j), WithinCaps(c)
    PROVE  LET z == syncEntryPin(c, k)
           IN  /\ \A j \in Keys : Fits(z, j)
               /\ WithinCaps(z)
               /\ Undebugged(z, k)
               /\ \A j \in Keys : Undebugged(c, j) => Undebugged(z, j)
<1> DEFINE z == syncEntryPin(c, k)
           desired == desiredPinClass(c, k, c.ent[k].desc)
           refused == \/ desired = "static" /\ c.degraded
                      \/ desired = "writeConfirm" /\ ~canAdmitWriteConfirmPin(c, k)
           pin == IF refused THEN "none" ELSE desired
<1>1. CASE ~Has(c, k) \/ c.ent[k].desc = "missing"
  <2>1. z = c
    BY <1>1 DEF syncEntryPin
  <2>2. Undebugged(c, k)
    BY <1>1 DEF Undebugged, Fits
  <2> QED
    BY <2>1, <2>2
<1>2. CASE Has(c, k) /\ c.ent[k].desc # "missing"
  <2>1. z = applyPinClass(c, k, pin)
    BY <1>2 DEF syncEntryPin
  <2>2. pin \in PinClasses /\ (pin = "none" \/ (pin = desired /\ ~refused))
    <3>1. desired \in PinClasses /\ "none" \in PinClasses
      BY DesiredPinType DEF PinClasses
    <3> HIDE DEF desired, refused
    <3> QED
      BY <3>1
  <2>3. /\ z \in Caches(V) /\ SameState(c, z)
        /\ z.ent[k] = [c.ent[k] EXCEPT !.pin = pin]
        /\ \A j \in Keys \ {k} : z.ent[j] = c.ent[j]
    BY <1>2, <2>1, <2>2, ApplyPinFacts
  <2>4. c.ent[k] \in Entries(V)
    BY <1>2, CacheFields
  <2>5. z.ent[k] \in Entries(V) /\ z.ent[k].pin = pin /\ z.ent[k].desc = c.ent[k].desc
    BY <2>2, <2>3, <2>4 DEF Entries
  <2> HIDE DEF z
  <2>6. Has(z, k)
    BY <2>5 DEF Has
  <2>7. z.desc = c.desc /\ z.act = c.act
    BY <2>3 DEF SameState
  <2>8. pin = "static" => "poller" \in c.act[k] /\ c.ent[k].desc # "debug"
    BY <2>2 DEF desiredPinClass
  <2>9. pin = "writeConfirm" => "poller" \notin c.act[k] /\ canAdmitWriteConfirmPin(c, k)
    BY <2>2 DEF desiredPinClass
  <2> HIDE DEF pin
  <2>10. Fits(z, k) /\ Undebugged(z, k)
    BY <1>2, <2>5, <2>7, <2>8 DEF Fits, Undebugged
  <2>11. ASSUME NEW j \in Keys \ {k}
         PROVE  /\ KeepsPin(c, z, j) /\ Fits(z, j)
                /\ Undebugged(c, j) => Undebugged(z, j)
    <3>1. z.ent[j] = c.ent[j] /\ Fits(c, j)
      BY <2>3
    <3> QED
      BY <2>7, <3>1 DEF KeepsPin, Fits, Undebugged, Has
  <2>12. PinAllowed(c, z, k)
    <3>1. SUFFICES ASSUME pin = "writeConfirm" PROVE
             k \in writeConfirmPinned(c) \/ Cardinality(writeConfirmPinned(c)) < WriteConfirmPinnedCap
      BY <2>5 DEF PinAllowed
    <3>2. c.ent[k].pin # "static"
      BY <1>2, <2>9, <3>1 DEF Fits
    <3>3. c.ent[k].pin \in PinClasses
      BY <2>4 DEF Entries
    <3> QED
      BY <1>2, <2>9, <3>1, <3>2, <3>3 DEF canAdmitWriteConfirmPin, PinClasses, writeConfirmPinned, Cached
  <2>13. Cardinality(writeConfirmPinned(z)) <= WriteConfirmPinnedCap
    BY <2>11, <2>12, PinCapKept DEF WithinCaps
  <2>14. Cached(z) = Cached(c)
    BY <1>2, <2>3, <2>6 DEF Cached, Has
  <2>15. WithinCaps(z)
    BY <2>13, <2>14 DEF WithinCaps
  <2> QED
    BY <2>10, <2>11, <2>15 DEF z
<1> QED
  BY <1>1, <1>2

\* The whole invariant through one visit.
LEMMA SyncBudgeted ==
    ASSUME NEW V, NoEntry \notin Entries(V), CacheBounds, NEW c \in Caches(V), NEW k \in Keys,
           Budgeted(c)
    PROVE  Budgeted(syncEntryPin(c, k))
<1>1. SameConfig(c, syncEntryPin(c, k))
  BY SyncFacts DEF SameState, SameConfig
<1>2. Catalogued(syncEntryPin(c, k))
  BY <1>1, CataloguedKept DEF Budgeted
<1>3. /\ \A j \in Keys : Fits(syncEntryPin(c, k), j) /\ Undebugged(syncEntryPin(c, k), j)
      /\ WithinCaps(syncEntryPin(c, k))
  BY SyncBudget DEF Budgeted
<1> QED
  BY <1>2, <1>3 DEF Budgeted

\* After ensureCapacityLocked there is room for one more entry, or it said no.
LEMMA RoomMade ==
    ASSUME NEW V, NoEntry \notin Entries(V), CacheBounds, NEW c \in Caches(V), Exact(c),
           Budgeted(c), NEW pin
    PROVE  LET room == ensureCapacity(c, pin)
           IN  /\ room.c \in Caches(V) /\ SameConfig(c, room.c) /\ Budgeted(room.c)
               /\ \A j \in Keys : room.c.ent[j] = c.ent[j] \/ room.c.ent[j] = NoEntry
               /\ writeConfirmPinned(room.c) = writeConfirmPinned(c)
               /\ room.ok => Cardinality(Cached(room.c)) < Capacity
<1> DEFINE room == ensureCapacity(c, pin)
           h == Head(c.lru)
<1>1. /\ room.c \in Caches(V) /\ SameConfig(c, room.c)
      /\ \A j \in Keys : room.c.ent[j] = c.ent[j] \/ room.c.ent[j] = NoEntry
      /\ \A j \in Keys : Has(c, j) /\ c.ent[j].pin # "none" => room.c.ent[j] = c.ent[j]
  BY CapacityFacts DEF Dropped
<1>2. Budgeted(room.c)
  <2>1. \A j \in Keys : KeepsPin(c, room.c, j)
    BY <1>1 DEF KeepsPin, Has
  <2> HIDE DEF room
  <2> QED
    BY <1>1, <2>1, BudgetedDrop
<1>3. writeConfirmPinned(room.c) = writeConfirmPinned(c)
  <2> HIDE DEF room
  <2> QED
    BY <1>1 DEF writeConfirmPinned, Cached, Has
<1>4. Capacity \in Nat /\ Cardinality(Cached(c)) \in Nat /\ Cardinality(Cached(c)) <= Capacity
  BY CountedFinite DEF CacheBounds, Budgeted, WithinCaps
<1>5. ASSUME room.ok PROVE Cardinality(Cached(room.c)) < Capacity
  <2>1. CASE ~Full(c)
    <3>1. room.c = c
      BY <2>1 DEF ensureCapacity
    <3> QED
      BY <1>4, <2>1, <3>1 DEF Full
  <2>2. CASE Full(c)
    <3>1. c.lru # <<>> /\ room.c = removeEntry(c, h)
      BY <1>5, <2>2 DEF ensureCapacity
    <3>2. h \in Keys /\ h \in Range(c.lru)
      <4>1. c.lru \in Seq(Keys)
        BY DEF Caches
      <4>2. 1 \in DOMAIN c.lru /\ h = c.lru[1] /\ h \in Keys
        BY <3>1, <4>1
      <4> QED
        BY <4>2 DEF Range
    <3>3. Has(c, h)
      BY <3>2 DEF Exact
    <3>4. SameElsewhere(c, room.c, h) /\ room.c.ent[h] = NoEntry
      BY <3>1, <3>2, RemoveKeyFacts DEF Dropped
    <3> HIDE DEF room, h
    <3>5. Cached(room.c) = Cached(c) \ {h} /\ h \in Cached(c)
      BY <3>2, <3>3, <3>4 DEF Cached, Has, SameElsewhere
    <3>6. Cardinality(Cached(c) \ {h}) = Cardinality(Cached(c)) - 1
      BY <3>5, CountedFinite, FS_RemoveElement
    <3> QED
      BY <1>4, <3>5, <3>6
  <2> QED
    BY <2>1, <2>2
<1> QED
  BY <1>1, <1>2, <1>3, <1>5

\* A new entry where there is room.
LEMMA RoomForOne ==
    ASSUME CacheBounds, NEW c, NEW z, NEW k \in Keys, Cardinality(Cached(c)) < Capacity,
           \A j \in Keys \ {k} : Has(z, j) => Has(c, j)
    PROVE  Cardinality(Cached(z)) <= Capacity
<1>1. IsFiniteSet(Cached(c)) /\ Cardinality(Cached(c)) \in Nat /\ Capacity \in Nat
  BY CountedFinite DEF CacheBounds
<1>2. Cached(z) \subseteq Cached(c) \cup {k}
  BY DEF Cached
<1> QED
  BY <1>1, <1>2, OneMore

\* Write keeps the budgets.
LEMMA WriteBudget ==
    ASSUME NEW V, NoEntry \notin Entries(V), CacheBounds, NEW c \in Caches(V), NEW k \in Keys,
           NEW w \in Writes(V), NEW same, Exact(c), Budgeted(c)
    PROVE  Budgeted(Write(c, k, w, same).c)
<1> DEFINE pin == desiredPinClass(c, k, c.desc[k])
           s == syncEntryPin(c, k)
           room == ensureCapacity(s, pin)
           made == Fresh(room.c, k, c.desc[k])
           fresh == advanceGeneration(made, k)
           base == IF Has(s, k) THEN s ELSE fresh
           z == storeWrite(base, k, w, pin)
           res == Write(c, k, w, same)
<1>1. \/ \E g, r : res = Rejected(c, g, r)
      \/ \E g, r : res = Rejected(s, g, r)
      \/ \E g, r : res = Rejected(room.c, g, r)
      \/ /\ res.c = z /\ c.desc[k] \notin {"missing", "debug"} /\ ~c.degraded
         /\ pin = "writeConfirm" => canAdmitWriteConfirmPin(c, k)
         /\ Has(s, k) \/ room.ok
  <2> DEFINE why == rejectWriteByPrecedence(s, k, w, same)
             acc == [c |-> z, accepted |-> TRUE, gen |-> z.ent[k].gen, reason |-> "none"]
  <2>1. \/ res = Rejected(c, 0, "policyReject")
        \/ res = Rejected(c, 0, "capacity")
        \/ res = Rejected(s, s.key[k].gen, "generationAdvanced")
        \/ res = Rejected(s, s.key[k].gen, why)
        \/ res = Rejected(s, 0, "policyReject")
        \/ res = Rejected(room.c, 0, "capacity")
        \/ /\ res = acc /\ c.desc[k] \notin {"missing", "debug"} /\ ~c.degraded
           /\ pin = "writeConfirm" => canAdmitWriteConfirmPin(c, k)
           /\ Has(s, k) \/ room.ok
    BY DEF Write, Fresh
  <2>2. acc.c = z
    OBVIOUS
  <2> HIDE DEF res, acc, s, why, room, z
  <2> QED
    BY <2>1, <2>2
<1>2. ASSUME NEW x, NEW g, NEW r PROVE Rejected(x, g, r).c = x
  BY DEF Rejected
<1>3. /\ s \in Caches(V) /\ SameConfig(c, s) /\ \A j \in Keys : Kept(c, s, j)
      /\ Exact(s) /\ Budgeted(s)
  BY SyncFacts, SyncExact, SyncBudgeted DEF SameState, SameEntries, SameConfig, Kept
<1>4. pin \in PinClasses /\ c.desc[k] \in Descriptors
  BY DesiredPinType, CacheFields
<1>5. pin = "static" => "poller" \in c.act[k]
  BY DEF desiredPinClass
<1>6. pin = "writeConfirm" => "poller" \notin c.act[k]
  BY DEF desiredPinClass
<1>7. ASSUME c.desc[k] \notin {"missing", "debug"}, ~c.degraded,
             pin = "writeConfirm" => canAdmitWriteConfirmPin(c, k),
             Has(c, k), c.ent[k].desc # "missing"
      PROVE  s.ent[k].pin = pin
  <2>1. c.ent[k].desc = c.desc[k]
    BY <1>7 DEF Budgeted, Fits
  <2>2. s = applyPinClass(c, k, pin)
    BY <1>7, <2>1 DEF syncEntryPin
  <2>3. s.ent[k] = [c.ent[k] EXCEPT !.pin = pin] /\ c.ent[k] \in Entries(V)
    BY <1>4, <1>7, <2>2, ApplyPinFacts, CacheFields
  <2> QED
    BY <2>3 DEF Entries
<1>8. /\ room.c \in Caches(V) /\ SameConfig(s, room.c) /\ Budgeted(room.c)
      /\ \A j \in Keys : room.c.ent[j] = s.ent[j] \/ room.c.ent[j] = NoEntry
      /\ writeConfirmPinned(room.c) = writeConfirmPinned(s)
      /\ room.ok => Cardinality(Cached(room.c)) < Capacity
  <2> HIDE DEF s, pin
  <2> QED
    BY <1>3, RoomMade
<1> HIDE DEF res, s, pin, room, z, base
<1>9. CASE (\E g, r : res = Rejected(c, g, r)) \/ (\E g, r : res = Rejected(s, g, r))
           \/ (\E g, r : res = Rejected(room.c, g, r))
  <2>1. res.c = c \/ res.c = s \/ res.c = room.c
    BY <1>2, <1>9
  <2> QED
    BY <1>3, <1>8, <2>1 DEF res
<1>10. CASE /\ res.c = z /\ c.desc[k] \notin {"missing", "debug"} /\ ~c.degraded
            /\ pin = "writeConfirm" => canAdmitWriteConfirmPin(c, k)
            /\ Has(s, k) \/ room.ok
  <2> DEFINE from == IF Has(s, k) THEN s ELSE room.c
  <2>1. /\ base \in Caches(V) /\ Has(base, k) /\ SameConfig(c, base)
        /\ \A j \in Keys \ {k} : base.ent[j] = from.ent[j]
    <3>1. CASE Has(s, k)
      BY <1>3, <3>1 DEF base
    <3>2. CASE ~Has(s, k)
      <4>1. /\ made \in Caches(V) /\ SameElsewhere(room.c, made, k) /\ Has(made, k)
            /\ made.ent[k] = NewEntry(c.desc[k]) /\ NewEntry(c.desc[k]) \in Entries(V)
        BY <1>4, <1>8, FreshFacts
      <4> HIDE DEF made
      <4> DEFINE ge == [made.ent[k] EXCEPT !.gen = made.key[k].gen + 1]
                 gs == [made.key[k] EXCEPT !.gen = made.key[k].gen + 1]
      <4>2. fresh = Put(made, k, ge, gs, made.lru) /\ ge \in Entries(V) /\ gs \in KeyStates
        BY <4>1, AdvanceFacts
      <4>3. made.lru \in Seq(Keys)
        BY <4>1 DEF Caches
      <4> HIDE DEF ge, gs, fresh
      <4>4. LET p == Put(made, k, ge, gs, made.lru)
            IN  p \in Caches(V) /\ p.ent[k] = ge /\ SameElsewhere(made, p, k)
        BY <4>1, <4>2, <4>3, PutFacts
      <4>5. fresh \in Caches(V) /\ Has(fresh, k) /\ SameElsewhere(room.c, fresh, k)
        BY <4>1, <4>2, <4>4 DEF Has, SameElsewhere
      <4>6. base = fresh /\ from = room.c
        BY <3>2 DEF base
      <4> QED
        BY <1>3, <1>8, <4>5, <4>6 DEF SameElsewhere, SameConfig
    <3> QED
      BY <3>1, <3>2
  <2>2. /\ z \in Caches(V) /\ SameElsewhere(base, z, k) /\ z.ent[k] \in Entries(V)
        /\ z.ent[k].desc = base.desc[k] /\ z.ent[k].pin = pin
    BY <1>4, <2>1, StoreWriteFacts DEF z, HoldsWrite
  <2>3. from \in Caches(V) /\ SameConfig(c, from) /\ Budgeted(from)
    BY <1>3, <1>8 DEF SameConfig
  <2>4. SameConfig(from, z) /\ SameConfig(c, z)
    BY <2>1, <2>2, <2>3 DEF SameConfig, SameElsewhere
  <2>5. writeConfirmPinned(from) = writeConfirmPinned(s)
    BY <1>8
  <2>6. Has(z, k)
    BY <2>2 DEF Has
  <2>7. \A j \in Keys \ {k} : z.ent[j] = from.ent[j]
    BY <2>1, <2>2 DEF SameElsewhere
  <2>8. Cardinality(Cached(z)) <= Capacity
    <3>1. CASE Has(s, k)
      <4>1. Cached(z) = Cached(s)
        BY <2>6, <2>7, <3>1 DEF Cached, Has
      <4> QED
        BY <1>3, <4>1 DEF Budgeted, WithinCaps
    <3>2. CASE ~Has(s, k)
      <4>1. from = room.c /\ Cardinality(Cached(room.c)) < Capacity
        BY <1>8, <1>10, <3>2
      <4>2. \A j \in Keys \ {k} : Has(z, j) => Has(room.c, j)
        BY <2>7, <4>1 DEF Has
      <4> QED
        BY <4>1, <4>2, RoomForOne
    <3> QED
      BY <3>1, <3>2
  <2>9. Fits(z, k) /\ Undebugged(z, k)
    <3>1. z.ent[k].desc = c.desc[k] /\ z.desc = c.desc /\ z.act = c.act
      BY <2>1, <2>2, <2>4 DEF SameConfig
    <3> QED
      BY <1>5, <1>10, <2>2, <3>1 DEF Fits, Undebugged
  <2>10. PinAllowed(from, z, k)
    <3>1. SUFFICES ASSUME pin = "writeConfirm"
                   PROVE  \/ k \in writeConfirmPinned(s)
                          \/ Cardinality(writeConfirmPinned(s)) < WriteConfirmPinnedCap
      BY <2>2, <2>5 DEF PinAllowed
    <3>2. CASE Has(c, k) /\ c.ent[k].desc # "missing"
      <4>1. Has(s, k) /\ s.ent[k].pin = "writeConfirm"
        BY <1>3, <1>7, <1>10, <3>1, <3>2 DEF Kept
      <4> QED
        BY <4>1 DEF writeConfirmPinned, Cached
    <3>3. CASE ~(Has(c, k) /\ c.ent[k].desc # "missing")
      <4>1. s = c
        BY <3>3 DEF s, syncEntryPin
      <4>2. canAdmitWriteConfirmPin(c, k)
        BY <1>10, <3>1
      <4>3. CASE Has(c, k) /\ c.ent[k].pin # "none"
        <5>1. c.ent[k].pin \in PinClasses
          BY <4>3, CacheFields DEF Entries
        <5>2. c.ent[k].pin # "static"
          BY <1>6, <3>1, <4>3 DEF Budgeted, Fits
        <5> QED
          BY <4>1, <4>3, <5>1, <5>2 DEF PinClasses, writeConfirmPinned, Cached
      <4> QED
        BY <4>1, <4>2, <4>3 DEF canAdmitWriteConfirmPin
    <3> QED
      BY <3>2, <3>3
  <2>11. \A j \in Keys \ {k} : KeepsPin(from, z, j)
    BY <2>7 DEF KeepsPin, Has
  <2> HIDE DEF from
  <2>12. Budgeted(z)
    BY <2>3, <2>4, <2>8, <2>9, <2>10, <2>11, BudgetedStep
  <2> QED
    BY <1>10, <2>12 DEF res
<1> QED
  BY <1>1, <1>9, <1>10

\* Invalidate keeps the budgets: it pins an entry even while the static budget is
\* exceeded, but never past the write-confirm cap.
LEMMA InvalidateBudget ==
    ASSUME NEW V, NoEntry \notin Entries(V), CacheBounds, NEW c \in Caches(V), NEW k \in Keys,
           NEW t \in Nat, Exact(c), Budgeted(c)
    PROVE  Budgeted(Invalidate(c, k, t))
<1> DEFINE b == raiseBarrier(c, k, t)
           pin == desiredPinClass(b, k, b.desc[k])
           room == ensureCapacity(b, pin)
           fresh == Fresh(room.c, k, b.desc[k])
           base == IF Has(b, k) THEN b ELSE fresh
           from == IF Has(b, k) THEN b ELSE room.c
           admitted == IF pin = "writeConfirm" /\ ~canAdmitWriteConfirmPin(base, k)
                       THEN "none" ELSE pin
           z == Invalidate(c, k, t)
<1>1. \/ z = advanceAbsentGeneration(b, k)
      \/ z = advanceAbsentGeneration(room.c, k)
      \/ z = invalidateEntry(base, k, admitted) /\ (Has(b, k) \/ room.ok)
  BY DEF Invalidate, Fresh
<1>2. /\ admitted \in PinClasses
      /\ admitted = "none" \/ admitted = pin
      /\ admitted = "writeConfirm" => canAdmitWriteConfirmPin(base, k)
  <2>1. pin \in PinClasses /\ "none" \in PinClasses
    BY DesiredPinType DEF PinClasses
  <2> HIDE DEF pin, base
  <2> QED
    BY <2>1
<1>3. /\ pin = "static" => "poller" \in b.act[k] /\ b.desc[k] # "debug"
      /\ pin = "writeConfirm" => "poller" \notin b.act[k]
  BY DEF desiredPinClass
<1>4. /\ b \in Caches(V) /\ SameConfig(c, b) /\ Exact(b)
      /\ \A j \in Keys : b.ent[j] = c.ent[j]
  <2>1. b \in Caches(V) /\ SameElsewhere(c, b, k) /\ b.ent[k] = c.ent[k] /\ Exact(b)
    BY BarrierFacts
  <2> HIDE DEF b
  <2> QED
    BY <2>1 DEF SameConfig, SameElsewhere
<1> HIDE DEF b, pin, admitted, z
<1>5. Budgeted(b)
  <2>1. \A j \in Keys : KeepsPin(c, b, j)
    BY <1>4 DEF KeepsPin, Has
  <2> QED
    BY <1>4, <2>1, BudgetedDrop
<1>6. /\ room.c \in Caches(V) /\ SameConfig(b, room.c) /\ Budgeted(room.c)
      /\ \A j \in Keys : room.c.ent[j] = b.ent[j] \/ room.c.ent[j] = NoEntry
      /\ writeConfirmPinned(room.c) = writeConfirmPinned(b)
      /\ room.ok => Cardinality(Cached(room.c)) < Capacity
  BY <1>4, <1>5, RoomMade
<1> HIDE DEF room
<1>7. ASSUME NEW x \in Caches(V), Budgeted(x)
      PROVE  Budgeted(advanceAbsentGeneration(x, k))
  <2> DEFINE y == advanceAbsentGeneration(x, k)
  <2>1. SameConfig(x, y) /\ \A j \in Keys : y.ent[j] = x.ent[j]
    BY AbsentGenerationFacts DEF SameElsewhere, SameConfig
  <2> HIDE DEF y
  <2>2. \A j \in Keys : KeepsPin(x, y, j)
    BY <2>1 DEF KeepsPin, Has
  <2>3. Budgeted(y)
    BY <1>7, <2>1, <2>2, BudgetedDrop
  <2> QED
    BY <2>3 DEF y
<1>8. CASE z = advanceAbsentGeneration(b, k) \/ z = advanceAbsentGeneration(room.c, k)
  BY <1>4, <1>5, <1>6, <1>7, <1>8 DEF z
<1>9. CASE z = invalidateEntry(base, k, admitted) /\ (Has(b, k) \/ room.ok)
  <2>1. b.desc[k] \in Descriptors
    BY <1>4, CacheFields
  <2>2. /\ base \in Caches(V) /\ Has(base, k) /\ SameConfig(b, base)
        /\ \A j \in Keys \ {k} : base.ent[j] = from.ent[j]
        /\ ~Has(b, k) => base.ent[k].pin = "none"
    <3>1. CASE Has(b, k)
      BY <1>4, <3>1 DEF SameConfig
    <3>2. CASE ~Has(b, k)
      <4>1. /\ fresh \in Caches(V) /\ SameElsewhere(room.c, fresh, k) /\ Has(fresh, k)
            /\ fresh.ent[k] = NewEntry(b.desc[k])
        BY <1>6, <2>1, FreshFacts
      <4>2. NewEntry(b.desc[k]).pin = "none"
        BY DEF NewEntry
      <4> HIDE DEF fresh
      <4>3. base = fresh /\ from = room.c
        BY <3>2
      <4> QED
        BY <1>6, <4>1, <4>2, <4>3 DEF SameElsewhere, SameConfig
    <3> QED
      BY <3>1, <3>2
  <2>3. from \in Caches(V) /\ SameConfig(b, from) /\ Budgeted(from)
    BY <1>4, <1>5, <1>6 DEF SameConfig
  <2>4. writeConfirmPinned(base) = writeConfirmPinned(from)
    <3>1. CASE Has(b, k)
      BY <3>1
    <3>2. CASE ~Has(b, k)
      <4>1. from = room.c /\ ~Has(from, k)
        BY <1>6, <3>2 DEF Has
      <4>2. k \notin writeConfirmPinned(from) /\ k \notin writeConfirmPinned(base)
        BY <2>2, <3>2, <4>1 DEF writeConfirmPinned, Cached
      <4> HIDE DEF base, from
      <4> QED
        BY <2>2, <4>2 DEF writeConfirmPinned, Cached, Has
    <3> QED
      BY <3>1, <3>2
  <2>5. PinAllowed(from, z, k)
    <3>1. z.ent[k].pin = admitted
      BY <1>2, <1>9, <2>2, InvalidateEntryFacts
    <3>2. SUFFICES ASSUME admitted = "writeConfirm"
                   PROVE  \/ k \in writeConfirmPinned(base)
                          \/ Cardinality(writeConfirmPinned(base)) < WriteConfirmPinnedCap
      BY <2>4, <3>1 DEF PinAllowed
    <3>3. pin = "writeConfirm" /\ canAdmitWriteConfirmPin(base, k)
      BY <1>2, <3>2
    <3>4. CASE base.ent[k].pin # "none"
      <4>1. Has(b, k) /\ base = b
        BY <2>2, <3>4
      <4>2. b.ent[k].pin \in PinClasses
        BY <1>4, <4>1, CacheFields DEF Entries
      <4>3. b.ent[k].pin # "static"
        BY <1>3, <1>5, <3>3, <4>1 DEF Budgeted, Fits
      <4> HIDE DEF base
      <4> QED
        BY <3>4, <4>1, <4>2, <4>3 DEF PinClasses, writeConfirmPinned, Cached
    <3> HIDE DEF base
    <3> QED
      BY <3>3, <3>4 DEF canAdmitWriteConfirmPin
  <2> HIDE DEF base
  <2>6. /\ z \in Caches(V) /\ SameElsewhere(base, z, k) /\ z.ent[k] \in Entries(V)
        /\ z.ent[k].desc = base.desc[k] /\ z.ent[k].pin = admitted
    BY <1>2, <1>9, <2>2, InvalidateEntryFacts
  <2>7. SameConfig(from, z) /\ SameConfig(b, z)
    BY <2>2, <2>3, <2>6 DEF SameConfig, SameElsewhere
  <2>8. Has(z, k)
    BY <2>6 DEF Has
  <2>9. \A j \in Keys \ {k} : z.ent[j] = from.ent[j]
    BY <2>2, <2>6 DEF SameElsewhere
  <2>10. Cardinality(Cached(z)) <= Capacity
    <3>1. CASE Has(b, k)
      <4>1. Cached(z) = Cached(b)
        BY <2>8, <2>9, <3>1 DEF Cached, Has
      <4> QED
        BY <1>5, <4>1 DEF Budgeted, WithinCaps
    <3>2. CASE ~Has(b, k)
      <4>1. from = room.c /\ Cardinality(Cached(room.c)) < Capacity
        BY <1>6, <1>9, <3>2
      <4>2. \A j \in Keys \ {k} : Has(z, j) => Has(room.c, j)
        BY <2>9, <4>1 DEF Has
      <4> QED
        BY <4>1, <4>2, RoomForOne
    <3> QED
      BY <3>1, <3>2
  <2>11. Fits(z, k) /\ Undebugged(z, k)
    <3>1. z.ent[k].desc = b.desc[k] /\ z.desc = b.desc /\ z.act = b.act
      BY <2>2, <2>6, <2>7 DEF SameConfig
    <3>2. b.desc[k] = "missing" => b.act[k] = {}
      BY <1>5 DEF Budgeted, Catalogued
    <3> QED
      BY <1>2, <1>3, <2>6, <3>1, <3>2 DEF Fits, Undebugged
  <2>12. \A j \in Keys \ {k} : KeepsPin(from, z, j)
    BY <2>9 DEF KeepsPin, Has
  <2> HIDE DEF from
  <2>13. Budgeted(z)
    BY <2>3, <2>5, <2>7, <2>10, <2>11, <2>12, BudgetedStep
  <2> QED
    BY <2>13 DEF z
<1> QED
  BY <1>1, <1>8, <1>9

\* Lookup and compaction keep the budgets: they drop entries or keep the pins
\* of syncEntryPinLocked.
LEMMA LookupBudget ==
    ASSUME NEW V, NoEntry \notin Entries(V), CacheBounds, NEW c \in Caches(V), NEW k \in Keys,
           NEW age, NEW t, Budgeted(c)
    PROVE  Budgeted(LookupCache(c, k, age, t))
<1> DEFINE s == syncEntryPin(c, k)
           z == LookupCache(c, k, age, t)
<1>1. SameConfig(c, s) /\ Budgeted(s)
  BY SyncFacts, SyncBudgeted DEF SameState, SameConfig
<1>2. SameConfig(c, z) /\ \A j \in Keys : z.ent[j] = s.ent[j]
  BY LookupFacts
<1> HIDE DEF s, z
<1>3. SameConfig(s, z) /\ \A j \in Keys : KeepsPin(s, z, j)
  BY <1>1, <1>2 DEF SameConfig, KeepsPin, Has
<1>4. Budgeted(z)
  BY <1>1, <1>3, BudgetedDrop
<1> QED
  BY <1>4 DEF z

\* compactBatch keeps the budgets.
LEMMA CompactBudget ==
    ASSUME NEW V, NoEntry \notin Entries(V), CacheBounds, NEW c \in Caches(V), NEW k \in Keys,
           Has(c, k), NEW t, Budgeted(c)
    PROVE  Budgeted(compactKey(c, k, t))
<1> DEFINE s == syncEntryPin(c, k)
           z == compactKey(c, k, t)
<1>1. /\ SameConfig(c, s) /\ Budgeted(s)
      /\ \A j \in Keys : (Has(s, j) <=> Has(c, j)) /\ (Has(c, j) => s.ent[j].desc = c.ent[j].desc)
  BY SyncFacts, SyncBudgeted DEF SameState, SameConfig, SameEntries, SameEntry
<1>2. /\ SameConfig(c, z)
      /\ \A j \in Keys \ {k} : Kept(c, z, j)
      /\ Kept(c, z, k) \/ Compacted(c, z, k)
      /\ \A j \in Keys : Has(z, j) => z.ent[j].pin = s.ent[j].pin
  BY CompactFacts
<1> HIDE DEF s, z
<1>3. ASSUME NEW j \in Keys PROVE KeepsPin(s, z, j)
  <2>1. Has(z, j) => Has(c, j) /\ z.ent[j].desc = c.ent[j].desc
    BY <1>2 DEF Kept, Compacted, SameEntry
  <2> QED
    BY <1>1, <1>2, <2>1 DEF KeepsPin
<1>4. SameConfig(s, z)
  BY <1>1, <1>2 DEF SameConfig
<1>5. Budgeted(z)
  BY <1>1, <1>3, <1>4, BudgetedDrop
<1> QED
  BY <1>5 DEF z

\* A visiting order visits every cached key.
LEMMA OrderVisitsAll ==
    ASSUME CacheBounds, NEW c, NEW order \in SetToSeqs(Cached(c)), NEW k \in Cached(c)
    PROVE  \E n \in 1 .. Len(order) : order[n] = k
<1> DEFINE S == Cached(c)
           N == Cardinality(S)
<1>1. IsFiniteSet(S) /\ N \in Nat
  BY CountedFinite
<1>2. order \in [1 .. N -> S] /\ \A i, j \in 1 .. N : i # j => order[i] # order[j]
  BY DEF SetToSeqs
<1>3. order \in Injection(1 .. N, S)
  BY <1>2 DEF Injection, IsInjective
<1>4. IsFiniteSet(1 .. N) /\ Cardinality(1 .. N) = N
  BY <1>1, FS_Interval
<1>5. order \in Surjection(1 .. N, S)
  BY <1>1, <1>3, <1>4, FS_Injection
<1>6. PICK n \in 1 .. N : order[n] = k
  BY <1>5 DEF Surjection
<1>7. Len(order) = N
  BY <1>1, <1>2
<1> QED
  BY <1>6, <1>7

\* syncAllPinsLocked takes the static pin of a debug register away, in whatever
\* order the entries are visited, and stays within the caps all along.
LEMMA SyncAllBudget ==
    ASSUME NEW V, NoEntry \notin Entries(V), CacheBounds, NEW c \in Caches(V),
           \A j \in Keys : Fits(c, j), Catalogued(c), WithinCaps(c), NEW z \in syncAllPins(c)
    PROVE  Budgeted(z)
<1>1. PICK order \in SetToSeqs(Cached(c)) : z = syncPinsInOrder(c, order)
  BY DEF syncAllPins
<1>2. order \in Seq(Keys)
  BY OrderType
<1> DEFINE D == {d \in Caches(V) : /\ SameConfig(c, d) /\ WithinCaps(d)
                                   /\ \A j \in Keys : Fits(d, j)
                                   /\ \A j \in Keys : Has(d, j) <=> Has(c, j)}
           S == [n \in 0 .. Len(order) |->
                    {d \in D : \A i \in 1 .. n : Undebugged(d, order[i])}]
<1>3. Len(order) \in Nat /\ \A n \in 1 .. Len(order) : order[n] \in Keys
  BY <1>2
<1>4. ASSUME NEW x \in D, NEW k \in Keys
      PROVE  /\ syncEntryPin(x, k) \in D /\ Undebugged(syncEntryPin(x, k), k)
             /\ \A j \in Keys : Undebugged(x, j) => Undebugged(syncEntryPin(x, k), j)
  <2> DEFINE y == syncEntryPin(x, k)
  <2>1. /\ y \in Caches(V) /\ SameConfig(x, y)
        /\ \A j \in Keys : Has(y, j) <=> Has(x, j)
    BY <1>4, SyncFacts DEF SameState, SameConfig, SameEntries
  <2>2. /\ \A j \in Keys : Fits(y, j)
        /\ WithinCaps(y) /\ Undebugged(y, k)
        /\ \A j \in Keys : Undebugged(x, j) => Undebugged(y, j)
    BY <1>4, SyncBudget
  <2> HIDE DEF y
  <2>3. y \in D
    BY <1>4, <2>1, <2>2 DEF SameConfig
  <2> HIDE DEF D
  <2> QED
    BY <2>2, <2>3 DEF y
<1>5. c \in D
  BY DEF SameConfig
<1> HIDE DEF D
<1>6. c \in S[0]
  BY <1>3, <1>5
<1>7. ASSUME NEW n \in 1 .. Len(order), NEW x \in S[n - 1]
      PROVE  syncEntryPin(x, order[n]) \in S[n]
  <2>1. n \in 0 .. Len(order) /\ n - 1 \in 0 .. Len(order)
    BY <1>3
  <2>2. x \in D /\ \A i \in 1 .. n - 1 : Undebugged(x, order[i])
    BY <1>7, <2>1
  <2> DEFINE y == syncEntryPin(x, order[n])
  <2>3. /\ y \in D /\ Undebugged(y, order[n])
        /\ \A j \in Keys : Undebugged(x, j) => Undebugged(y, j)
    BY <1>3, <1>4, <2>2
  <2> HIDE DEF y
  <2>4. \A i \in 1 .. n : Undebugged(y, order[i])
    <3> TAKE i \in 1 .. n
    <3>1. CASE i = n
      BY <2>3, <3>1
    <3>2. CASE i # n
      <4>1. i \in 1 .. n - 1 /\ i \in 1 .. Len(order)
        BY <1>3, <3>2
      <4> QED
        BY <1>3, <2>2, <2>3, <4>1
    <3> QED
      BY <3>1, <3>2
  <2>5. y \in S[n]
    BY <2>1, <2>3, <2>4
  <2> QED
    BY <2>5 DEF y
<1>8. S[Len(order)] = {d \in D : \A i \in 1 .. Len(order) : Undebugged(d, order[i])}
  BY <1>3
<1> HIDE DEF S
<1>9. z \in S[Len(order)]
  BY <1>1, <1>2, <1>6, <1>7, SyncLoop
<1>10. z \in D /\ \A i \in 1 .. Len(order) : Undebugged(z, order[i])
  BY <1>8, <1>9
<1>11. /\ SameConfig(c, z) /\ WithinCaps(z)
       /\ \A j \in Keys : Fits(z, j) /\ (Has(z, j) <=> Has(c, j))
  BY <1>10 DEF D
<1>12. \A j \in Keys : Undebugged(z, j)
  <2> TAKE j \in Keys
  <2>1. CASE Has(c, j)
    <3>1. PICK i \in 1 .. Len(order) : order[i] = j
      BY <2>1, OrderVisitsAll DEF Cached
    <3> QED
      BY <1>10, <3>1
  <2>2. CASE ~Has(c, j)
    BY <1>11, <2>2 DEF Undebugged
  <2> QED
    BY <2>1, <2>2
<1>13. Catalogued(z)
  BY <1>11, CataloguedKept
<1> QED
  BY <1>11, <1>12, <1>13 DEF Budgeted

\* The catalog and the sources of one key change; the pins are not yet looked at.
LEMMA RecomputedBudget ==
    ASSUME NEW V, NoEntry \notin Entries(V), CacheBounds, NEW c \in Caches(V),
           NEW x \in Caches(V), Reconfigured(c, x), WithinCaps(c),
           \A j \in Keys : Fits(x, j) /\ (x.desc[j] = "missing" => x.act[j] = {}),
           NEW z \in syncAllPins(recomputeBudget(x))
    PROVE  Budgeted(z)
<1> DEFINE over == staticPinnedFootprint(x) > staticPinnedBudget
           y == recomputeBudget(x)
<1>1. over \in BOOLEAN /\ y = [x EXCEPT !.degraded = over]
  BY DEF recomputeBudget
<1> HIDE DEF over, y
<1>2. /\ y \in Caches(V) /\ y.ent = x.ent /\ y.desc = x.desc /\ y.act = x.act
      /\ y.degraded = over
  BY <1>1 DEF Caches
<1>3. staticPinnedFootprint(y) = staticPinnedFootprint(x)
  BY <1>2 DEF staticPinnedFootprint
<1>4. Catalogued(y)
  BY <1>2, <1>3 DEF Catalogued, over
<1>5. \A j \in Keys : Fits(y, j)
  BY <1>2 DEF Fits, Has
<1>6. Cached(y) = Cached(c) /\ writeConfirmPinned(y) = writeConfirmPinned(c)
  BY <1>2 DEF Cached, writeConfirmPinned, Has, Reconfigured, Same
<1>7. WithinCaps(y)
  BY <1>6 DEF WithinCaps
<1> QED
  BY <1>2, <1>4, <1>5, <1>7, SyncAllBudget DEF y

\* BootstrapRuntimeDescriptor keeps the budgets, also when it turns the fallback
\* descriptor of a pinned entry into a debug one.
LEMMA BootstrapBudget ==
    ASSUME NEW V, NoEntry \notin Entries(V), CacheBounds, NEW c \in Caches(V), NEW k \in Keys,
           NEW desc \in Descriptors \ {"missing"}, NEW src \in SUBSET Activations, Budgeted(c),
           NEW z \in BootstrapRuntimeDescriptor(c, k, desc, src)
    PROVE  Budgeted(z)
<1> DEFINE known == [c EXCEPT !.act[k] = @ \cup src]
           stored == [known EXCEPT !.desc[k] = desc]
           shown == IF Has(c, k) /\ c.desc[k] # "missing"
                    THEN [stored EXCEPT !.ent[k].desc = desc] ELSE stored
           upgrade == c.desc[k] = "missing" \/ (c.desc[k] = "fallback" /\ desc # "fallback")
<1>1. \/ z = c
      \/ c.desc[k] # "missing" /\ z \in syncAllPins(recomputeBudget(known))
      \/ z \in syncAllPins(recomputeBudget(shown))
  BY DEF BootstrapRuntimeDescriptor
<1>2. /\ c.ent \in [Keys -> Entries(V) \cup {NoEntry}] /\ c.desc \in [Keys -> Descriptors]
      /\ c.act \in [Keys -> SUBSET Activations]
      /\ Has(c, k) <=> c.ent[k] \in Entries(V)
  BY CacheFields
<1>3. /\ known \in Caches(V) /\ known.ent = c.ent /\ known.key = c.key /\ known.lru = c.lru
      /\ known.desc = c.desc /\ known.act[k] = c.act[k] \cup src
      /\ \A j \in Keys \ {k} : known.act[j] = c.act[j]
  <2> DEFINE a == [c.act EXCEPT ![k] = @ \cup src]
  <2>1. /\ a \in [Keys -> SUBSET Activations] /\ a[k] = c.act[k] \cup src
        /\ \A j \in Keys \ {k} : a[j] = c.act[j]
    BY <1>2
  <2>2. known = [c EXCEPT !.act = a]
    BY DEF Caches
  <2> HIDE DEF a, known
  <2>3. /\ known \in Caches(V) /\ known.ent = c.ent /\ known.key = c.key /\ known.lru = c.lru
        /\ known.desc = c.desc /\ known.act = a
    BY <2>1, <2>2 DEF Caches
  <2> QED
    BY <2>1, <2>3
<1> HIDE DEF known
<1>4. /\ stored \in Caches(V) /\ stored.ent = c.ent /\ stored.key = c.key /\ stored.lru = c.lru
      /\ stored.act = known.act /\ stored.desc[k] = desc
      /\ \A j \in Keys \ {k} : stored.desc[j] = c.desc[j]
  <2> DEFINE a == [known.desc EXCEPT ![k] = desc]
  <2>1. /\ a \in [Keys -> Descriptors] /\ a[k] = desc
        /\ \A j \in Keys \ {k} : a[j] = c.desc[j]
    BY <1>2, <1>3
  <2>2. stored = [known EXCEPT !.desc = a]
    BY <1>3 DEF Caches
  <2> HIDE DEF a, stored
  <2>3. /\ stored \in Caches(V) /\ stored.ent = known.ent /\ stored.key = known.key
        /\ stored.lru = known.lru /\ stored.act = known.act /\ stored.desc = a
    BY <1>3, <2>1, <2>2 DEF Caches
  <2> QED
    BY <1>3, <2>1, <2>3
<1> HIDE DEF stored
<1>5. \A j \in Keys : Fits(c, j) /\ (c.desc[j] = "missing" => c.act[j] = {})
  BY DEF Budgeted, Catalogued
<1>6. WithinCaps(c)
  BY DEF Budgeted
<1>7. ASSUME c.desc[k] # "missing", z \in syncAllPins(recomputeBudget(known))
      PROVE  Budgeted(z)
  <2>1. Reconfigured(c, known)
    BY <1>3 DEF Reconfigured, Same, Has
  <2>2. ASSUME NEW j \in Keys
        PROVE  Fits(known, j) /\ (known.desc[j] = "missing" => known.act[j] = {})
    BY <1>3, <1>5, <1>7 DEF Fits, Has
  <2> QED
    BY <1>3, <1>6, <1>7, <2>1, <2>2, RecomputedBudget
<1>8. ASSUME z \in syncAllPins(recomputeBudget(shown)) PROVE Budgeted(z)
  <2>1. /\ shown \in Caches(V) /\ shown.lru = c.lru /\ shown.key = c.key
        /\ shown.desc = stored.desc /\ shown.act = stored.act
        /\ \A j \in Keys \ {k} : shown.ent[j] = c.ent[j]
        /\ Has(shown, k) <=> Has(c, k)
        /\ Has(c, k) => /\ shown.ent[k].st = c.ent[k].st /\ shown.ent[k].obs = c.ent[k].obs
                        /\ shown.ent[k].exp = c.ent[k].exp /\ shown.ent[k].gen = c.ent[k].gen
                        /\ shown.ent[k].pin = c.ent[k].pin
                        /\ shown.ent[k].desc =
                              IF c.desc[k] = "missing" THEN c.ent[k].desc ELSE desc
    <3>1. CASE ~(Has(c, k) /\ c.desc[k] # "missing")
      BY <1>4, <3>1 DEF Has
    <3>2. CASE Has(c, k) /\ c.desc[k] # "missing"
      <4> DEFINE e == [c.ent[k] EXCEPT !.desc = desc]
      <4>1. c.ent[k] \in Entries(V)
        BY <1>2, <3>2
      <4>2. /\ e \in Entries(V) /\ e.st = c.ent[k].st /\ e.obs = c.ent[k].obs
            /\ e.exp = c.ent[k].exp /\ e.gen = c.ent[k].gen /\ e.pin = c.ent[k].pin
            /\ e.desc = desc
        BY <4>1 DEF Entries
      <4>3. shown = [stored EXCEPT !.ent = [stored.ent EXCEPT ![k] = e]]
        BY <3>2, <1>4 DEF Caches
      <4> HIDE DEF e, shown
      <4>4. [stored.ent EXCEPT ![k] = e] \in [Keys -> Entries(V) \cup {NoEntry}]
        BY <1>2, <1>4, <4>2
      <4>5. /\ shown \in Caches(V) /\ shown.ent = [c.ent EXCEPT ![k] = e]
            /\ shown.key = c.key /\ shown.lru = c.lru
            /\ shown.desc = stored.desc /\ shown.act = stored.act
        BY <1>4, <4>3, <4>4 DEF Caches
      <4>6. shown.ent[k] = e /\ \A j \in Keys \ {k} : shown.ent[j] = c.ent[j]
        BY <1>2, <4>5
      <4>7. Has(shown, k)
        BY <4>2, <4>6 DEF Has
      <4> QED
        BY <3>2, <4>2, <4>5, <4>6, <4>7
    <3> QED
      BY <3>1, <3>2
  <2> HIDE DEF shown
  <2>2. Reconfigured(c, shown)
    BY <2>1 DEF Reconfigured, Same, Has
  <2>3. ASSUME NEW j \in Keys \ {k}
        PROVE  Fits(shown, j) /\ (shown.desc[j] = "missing" => shown.act[j] = {})
    BY <1>3, <1>4, <1>5, <2>1 DEF Fits, Has
  <2>4. shown.desc[k] = desc /\ shown.act[k] = c.act[k] \cup src /\ desc # "missing"
    BY <1>3, <1>4, <2>1
  <2>5. Fits(shown, k)
    <3>1. Fits(c, k) /\ (c.desc[k] = "missing" => c.act[k] = {})
      BY <1>5
    <3>2. CASE c.desc[k] = "missing"
      BY <2>1, <2>4, <3>1, <3>2 DEF Fits
    <3>3. CASE c.desc[k] # "missing"
      BY <2>1, <2>4, <3>1, <3>3 DEF Fits
    <3> QED
      BY <3>2, <3>3
  <2>6. \A j \in Keys : Fits(shown, j) /\ (shown.desc[j] = "missing" => shown.act[j] = {})
    BY <2>3, <2>4, <2>5
  <2> QED
    BY <1>6, <1>8, <2>1, <2>2, <2>6, RecomputedBudget
<1> QED
  BY <1>1, <1>7, <1>8

\* Every step keeps the budgets.
LEMMA BudgetedNext ==
    ASSUME CacheInd, Budgeted(cache), [CacheNext]_cacheVars, CacheBounds, BootKinds
    PROVE  Budgeted(cache')
<1>1. /\ NoEntry \notin Entries(Values) /\ cache \in Caches(Values) /\ now \in Nat \ {0}
      /\ Exact(cache)
  BY DEF CacheInd, BootKinds
<1>2. ASSUME NEW k \in Keys, CacheLookup(k) PROVE Budgeted(cache')
  <2>1. PICK age : cache' = LookupCache(cache, k, age, now)
    BY <1>2 DEF CacheLookup
  <2> QED
    BY <1>1, <2>1, LookupBudget
<1>3. ASSUME NEW k \in Keys, NEW w \in Writes(Values), CacheWrite(k, w)
      PROVE  Budgeted(cache')
  <2>1. PICK same : cache' = Write(cache, k, w, same).c
    BY <1>3 DEF CacheWrite
  <2> QED
    BY <1>1, <1>3, <2>1, WriteBudget
<1>4. ASSUME NEW k \in Keys, PassiveWrite(k) PROVE Budgeted(cache')
  <2>1. PICK v \in Values, t \in 1 .. now :
           CacheWrite(k, [src |-> "passive", val |-> v, obs |-> t, start |-> 0])
    BY <1>4 DEF PassiveWrite
  <2> DEFINE w == [src |-> "passive", val |-> v, obs |-> t, start |-> 0]
  <2>2. w \in Writes(Values)
    BY <1>1 DEF Writes, Sources
  <2> HIDE DEF w
  <2> QED
    BY <1>3, <2>1, <2>2 DEF w
<1>5. ASSUME NEW k \in Keys, ActiveWrite(k) PROVE Budgeted(cache')
  <2>1. PICK v \in Values, g \in 0 .. cache.key[k].gen :
           CacheWrite(k, [src |-> "active", val |-> v, obs |-> now, start |-> g])
    BY <1>5 DEF ActiveWrite
  <2> DEFINE w == [src |-> "active", val |-> v, obs |-> now, start |-> g]
  <2>2. w \in Writes(Values)
    BY <1>1 DEF Writes, Sources
  <2> HIDE DEF w
  <2> QED
    BY <1>3, <2>1, <2>2 DEF w
<1>6. ASSUME NEW k \in Keys, CacheInvalidate(k) PROVE Budgeted(cache')
  <2>1. PICK i \in 1 .. now : cache' = Invalidate(cache, k, i)
    BY <1>6 DEF CacheInvalidate
  <2>2. i \in Nat
    BY <1>1, <2>1
  <2> QED
    BY <1>1, <2>1, <2>2, InvalidateBudget
<1>7. ASSUME NEW k \in Keys, CacheBootstrap(k) PROVE Budgeted(cache')
  <2>1. PICK d \in BootDescriptors, s \in BootActivations :
           cache' \in BootstrapRuntimeDescriptor(cache, k, d, {s})
    BY <1>7 DEF CacheBootstrap
  <2>2. d \in Descriptors \ {"missing"} /\ {s} \in SUBSET Activations
    BY <2>1 DEF BootKinds
  <2> QED
    BY <1>1, <2>1, <2>2, BootstrapBudget
<1>8. ASSUME CacheRefresh PROVE Budgeted(cache')
  <2>1. cache' \in syncAllPins(cache)
    BY <1>8 DEF CacheRefresh, RefreshActivations
  <2> QED
    BY <1>1, <2>1, SyncAllBudget DEF Budgeted
<1>9. ASSUME NEW k \in Keys, CacheCompact(k) PROVE Budgeted(cache')
  <2>1. Has(cache, k) /\ cache' = compactKey(cache, k, now)
    BY <1>9 DEF CacheCompact
  <2> QED
    BY <1>1, <2>1, CompactBudget
<1>10. ASSUME Tick \/ UNCHANGED cacheVars PROVE Budgeted(cache')
  <2>1. cache' = cache
    BY <1>10 DEF Tick, cacheVars
  <2> QED
    BY <2>1
<1> QED
  BY <1>2, <1>4, <1>5, <1>6, <1>7, <1>8, <1>9, <1>10 DEF CacheNext

\* The empty cache is within its budgets.
LEMMA BudgetedInit ==
    ASSUME CacheInit, CacheBounds
    PROVE  Budgeted(cache)
<1>1. /\ cache.ent = [k \in Keys |-> NoEntry] /\ cache.act = [k \in Keys |-> {}]
      /\ cache.desc = [k \in Keys |-> "missing"] /\ cache.degraded = FALSE
  BY DEF CacheInit, EmptyCache
<1>2. \A k \in Keys : ~Has(cache, k)
  BY <1>1 DEF Has
<1>3. Cached(cache) = {} /\ writeConfirmPinned(cache) = {}
  BY <1>2 DEF Cached, writeConfirmPinned
<1>4. /\ Capacity \in Nat /\ WriteConfirmPinnedCap \in Nat /\ PinnedCapacity \in Nat
      /\ Cardinality({}) = 0
  BY FS_EmptySet DEF CacheBounds
<1>5. staticPinnedFootprint(cache) = 0
  <2>1. {k \in Keys : /\ cache.desc[k] \notin {"missing", "debug"}
                      /\ "poller" \in cache.act[k]} = {}
    BY <1>1
  <2> QED
    BY <1>4, <2>1 DEF staticPinnedFootprint
<1>6. ~(0 > staticPinnedBudget)
  BY <1>4 DEF staticPinnedBudget
<1>7. Catalogued(cache)
  <2>1. (staticPinnedFootprint(cache) > staticPinnedBudget) = FALSE
    BY <1>5, <1>6
  <2>2. cache.degraded = (staticPinnedFootprint(cache) > staticPinnedBudget)
    BY <1>1, <2>1
  <2> QED
    BY <1>1, <2>2 DEF Catalogued
<1>8. WithinCaps(cache)
  BY <1>3, <1>4 DEF WithinCaps
<1> QED
  BY <1>2, <1>7, <1>8 DEF Budgeted, Fits, Undebugged

\* What Budgeted says of the static pins: they are among the keys the budget flag counts.
LEMMA StaticPinsCounted ==
    ASSUME CacheBounds, NEW c, Budgeted(c), ~c.degraded
    PROVE  Cardinality({k \in Cached(c) : c.ent[k].pin = "static"}) <= staticPinnedBudget
<1> DEFINE P == {k \in Cached(c) : c.ent[k].pin = "static"}
           F == {k \in Keys : c.desc[k] \notin {"missing", "debug"} /\ "poller" \in c.act[k]}
<1>1. P \subseteq F
  <2> SUFFICES ASSUME NEW k \in P PROVE k \in F
    OBVIOUS
  <2>1. k \in Keys /\ Has(c, k) /\ c.ent[k].pin = "static"
    BY DEF Cached
  <2>2. Fits(c, k) /\ Undebugged(c, k)
    BY <2>1 DEF Budgeted
  <2> QED
    BY <2>1, <2>2 DEF Fits, Undebugged
<1>2. IsFiniteSet(F) /\ Cardinality(F) \in Nat
  BY FS_Subset, FS_CardinalityType DEF CacheBounds
<1>3. Cardinality(P) \in Nat /\ Cardinality(P) <= Cardinality(F)
  BY <1>1, <1>2, FS_Subset, FS_CardinalityType
<1>4. ~(Cardinality(F) > staticPinnedBudget)
  BY DEF Budgeted, Catalogued, staticPinnedFootprint
<1>5. staticPinnedBudget \in Nat
  BY DEF staticPinnedBudget, CacheBounds
<1> HIDE DEF P, F
<1>6. Cardinality(P) <= staticPinnedBudget
  BY <1>2, <1>3, <1>4, <1>5
<1> QED
  BY <1>6 DEF P

\* The eviction list stays exact and the three budgets hold, for every capacity
\* and every set of keys, through promotions, descriptor upgrades, evictions and
\* the visits of syncAllPinsLocked in any order.
THEOREM BudgetsAlwaysHold == CacheSpec => []BudgetsHold
<1>1. CacheInit => Budgeted(cache)
  BY BudgetedInit, CacheBounds
<1>2. CacheInd /\ Budgeted(cache) /\ [CacheNext]_cacheVars => Budgeted(cache)'
  BY BudgetedNext, CacheBounds, BootKinds
<1>3. CacheInd /\ Budgeted(cache) => BudgetsHold
  <2> SUFFICES ASSUME CacheInd, Budgeted(cache) PROVE BudgetsHold
    OBVIOUS
  <2>1. CacheTypeOK
    BY DEF CacheInd, CacheTypeOK, TimelyAt
  <2>2. cache.lru \in Seq(Keys) /\ Exact(cache)
    BY DEF CacheInd, Caches
  <2>3. Range(cache.lru) \subseteq Keys
    BY <2>2 DEF Range
  <2>4. Range(cache.lru) = {k \in Cached(cache) : cache.ent[k].pin = "none"}
    BY <2>2, <2>3 DEF Exact, Cached
  <2>5. IsInjective(cache.lru)
    BY <2>2 DEF Exact, Once, IsInjective
  <2>6. ~cache.degraded =>
          Cardinality({k \in Cached(cache) : cache.ent[k].pin = "static"}) <= staticPinnedBudget
    BY StaticPinsCounted, CacheBounds
  <2> QED
    BY <2>1, <2>4, <2>5, <2>6 DEF BudgetsHold, EvictionListExact, Budgeted, WithinCaps
<1> QED
  BY <1>1, <1>2, <1>3, CacheInvariant, PTL DEF CacheSpec
=============================================================================
