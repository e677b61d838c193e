----------------------- MODULE ActivePassiveDedupProofs -----------------------
(***************************************************************************)
(* Proofs about the deduplicator: what its budgets guarantee for every     *)
(* traffic, every loss of reports or copies and every reset.               *)
(***************************************************************************)
EXTENDS ActivePassiveDedup, FiniteSetTheorems, WellFoundedInduction, TLAPS

-----------------------------------------------------------------------------
(* The inductive invariant                                                   *)

Copies == {"due", "seen", "lost"}
Reports == {"none", "due", "success", "failed", "unfit", "lost"}
Tx == [kind : Kinds, address : Addresses, age : 0 .. MaxAge, copy : Copies, report : Reports]

Dedups ==
    [active : [Hashes -> [count : Nat, left : Int]], credit : [Hashes -> Int],
     pending : [Ids -> Nat], epoch : Nat \ {0}, degraded : BOOLEAN, since : -1 .. MaxAge,
     evidence : Nat, address : Addresses \cup {0}, outputs : BOOLEAN,
     verdict : [Ids -> Verdicts]]

\* The transactions x: each comes in order and within its budgets.
HashOf(x, i) == <<x[i].kind, x[i].address>>

WireTypes(x) == x \in Seq(Tx) /\ Len(x) <= MaxTransactions

InOrder(x) ==
    \A i, j \in DOMAIN x : j < i /\ x[i].copy = "seen" => x[j].copy # "due"

InTime(x, c) ==
    \A i \in DOMAIN x :
       /\ x[i].report = "due" => x[i].age <= ActivePublishBudget
       /\ x[i].copy = "due" /\ ~c => x[i].age <= PassiveDeliveryBudget
       /\ x[i].kind = "own" => x[i].report # "none"

Wire(x, c) == WireTypes(x) /\ InOrder(x) /\ InTime(x, c)

\* A copy waits in the current epoch, beside no report that answers for it.
Waiting(s, x) ==
    \A i \in Ids : s.pending[i] # 0 =>
       /\ i \in DOMAIN x /\ x[i].copy = "seen" /\ s.pending[i] = s.epoch
       /\ s.active[HashOf(x, i)].count = 0

Backed(s) == \A h \in Hashes : s.active[h].count <= s.credit[h]

Room(s) == Cardinality(InPending(s)) <= PendingCapacity

\* The recovery began so late that it outlasts the copy of i.
SafeAt(s, x, i) ==
    /\ s.degraded = TRUE
    /\ s.since = -1 \/ s.since <= x[i].age + PassiveDeliveryBudget

\* The report of i is retained until its copy is here.
CoveredAt(s, x, i) ==
    /\ s.active[HashOf(x, i)].count >= 1
    /\ s.active[HashOf(x, i)].left >= ActiveFingerprintRetention - x[i].age

FirstOwn(x, i) == x[i].kind = "own" /\ \A j \in 1 .. i - 1 : HashOf(x, j) # HashOf(x, i)

\* The first transaction with its fingerprint, once its report is here or gone.
ProtectedAt(s, x, c, i) ==
    /\ x[i].copy = "due" /\ x[i].report \in {"lost", "unfit"} /\ ~c => SafeAt(s, x, i)
    /\ x[i].copy = "due" /\ x[i].report = "success" /\ ~c => SafeAt(s, x, i) \/ CoveredAt(s, x, i)
    /\ s.pending[i] # 0 /\ x[i].report \in {"success", "lost", "unfit"} => SafeAt(s, x, i)

Protected(s, x, c) == \A i \in DOMAIN x : FirstOwn(x, i) => ProtectedAt(s, x, c, i)

Attributed(s, x) ==
    \A i \in Ids :
       s.verdict[i] = "thirdParty" =>
         /\ i \in DOMAIN x
         /\ x[i].kind = "own" =>
              \/ x[i].report = "failed"
              \/ x[i].report # "due" /\ ~FirstOwn(x, i)

Fit(s, x, c) ==
    /\ s \in Dedups /\ Waiting(s, x) /\ Backed(s) /\ Room(s)
    /\ Protected(s, x, c) /\ Attributed(s, x)

Scalars ==
    /\ address \in Addresses /\ d.epoch <= MaxEpoch
    /\ unsent \in BOOLEAN /\ subscribed \in BOOLEAN /\ closed \in BOOLEAN

DedupInv == Wire(tx, closed) /\ Fit(d, tx, closed) /\ Scalars

-----------------------------------------------------------------------------
(* The budgets and the least element                                         *)

LEMMA Budgets ==
    /\ ActivePublishBudget \in Nat /\ PassiveDeliveryBudget \in Nat /\ MaxTransactions \in Nat
    /\ PendingGraceTimeout \in Nat /\ ActiveFingerprintRetention \in Nat
    /\ RecoveryHysteresis \in Nat /\ RecoveryEventThreshold \in Nat
    /\ MaxEpoch \in Nat /\ MaxEpoch > 0 /\ PendingCapacity \in Nat /\ PendingCapacity > 0
    /\ PendingGraceTimeout > ActivePublishBudget /\ PendingGraceTimeout > PassiveDeliveryBudget
    /\ ActiveFingerprintRetention >= PendingGraceTimeout + PassiveDeliveryBudget
    /\ RecoveryHysteresis > PendingGraceTimeout + PassiveDeliveryBudget
    /\ MaxAge \in Nat /\ MaxAge >= RecoveryHysteresis /\ MaxAge >= PassiveDeliveryBudget
    /\ Ids \subseteq Nat \ {0} /\ IsFiniteSet(Ids)
<1>1. /\ ActivePublishBudget \in Nat /\ PassiveDeliveryBudget \in Nat /\ MaxTransactions \in Nat
      /\ PendingGraceTimeout \in Nat /\ ActiveFingerprintRetention \in Nat
      /\ RecoveryHysteresis \in Nat /\ RecoveryEventThreshold \in Nat
      /\ MaxEpoch \in Nat /\ MaxEpoch > 0 /\ PendingCapacity \in Nat /\ PendingCapacity > 0
      /\ PendingGraceTimeout > ActivePublishBudget /\ PendingGraceTimeout > PassiveDeliveryBudget
      /\ ActiveFingerprintRetention >= PendingGraceTimeout + PassiveDeliveryBudget
      /\ RecoveryHysteresis > PendingGraceTimeout + PassiveDeliveryBudget
  BY DedupBudgets DEF DedupBudgets
<1>2. MaxAge \in Nat /\ MaxAge >= RecoveryHysteresis /\ MaxAge >= PassiveDeliveryBudget
  BY <1>1 DEF MaxAge
<1>3. IsFiniteSet(1 .. MaxTransactions)
  BY <1>1, FS_Interval
<1>4. Ids \subseteq Nat \ {0}
  BY <1>1 DEF Ids
<1> QED
  BY <1>1, <1>2, <1>3, <1>4 DEF Ids

\* The copy that waits longest exists.
LEMMA LeastWaiting ==
    ASSUME NEW S \in SUBSET Nat, S # {}
    PROVE  Min(S) \in S /\ \A j \in S : Min(S) <= j
<1> DEFINE R == {ss \in Nat \X Nat : ss[1] < ss[2]}
<1>1. IsWellFoundedOn(R, Nat)
  BY NatLessThanWellFounded DEF OpToRel
<1>2. \A k, n \in S : ~(<<k, n>> \in R) => n <= k
  OBVIOUS
<1> HIDE DEF R
<1>3. \E n \in S : \A k \in S : n <= k
  BY <1>1, <1>2, WFMin, Zenon
<1> QED
  BY <1>3 DEF Min

-----------------------------------------------------------------------------
(* What each section changes                                                 *)

LEMMA DedupFields ==
    ASSUME NEW s \in Dedups
    PROVE  /\ s.active \in [Hashes -> [count : Nat, left : Int]] /\ s.credit \in [Hashes -> Int]
           /\ s.pending \in [Ids -> Nat] /\ s.epoch \in Nat \ {0} /\ s.degraded \in BOOLEAN
           /\ s.since \in -1 .. MaxAge /\ s.evidence \in Nat /\ s.outputs \in BOOLEAN
           /\ s.address \in Addresses \cup {0} /\ s.verdict \in [Ids -> Verdicts]
BY DEF Dedups

\* The copies that wait, the retained reports, the recovery, the verdicts.
SameWaiting(z, s) == z.pending = s.pending /\ z.epoch = s.epoch
SameActive(z, s) == z.active = s.active /\ z.credit = s.credit
SameRecovery(z, s) == z.degraded = s.degraded /\ z.since = s.since

LEMMA DecidedFacts ==
    ASSUME NEW s \in Dedups, NEW ids, NEW v \in Verdicts
    PROVE  LET z == Decided(s, ids, v)
           IN  /\ z \in Dedups
               /\ SameWaiting(z, s) /\ SameActive(z, s) /\ SameRecovery(z, s)
               /\ z.verdict = [i \in Ids |-> IF i \in ids THEN v ELSE s.verdict[i]]
<1> DEFINE f == [i \in Ids |-> IF i \in ids THEN v ELSE s.verdict[i]]
           o == s.outputs \/ ids # {}
<1>1. f \in [Ids -> Verdicts] /\ o \in BOOLEAN
  BY DedupFields
<1>2. Decided(s, ids, v) = [s EXCEPT !.verdict = f, !.outputs = o]
  BY DEF Decided
<1> HIDE DEF f, o
<1> QED
  BY <1>1, <1>2 DEF Dedups, SameWaiting, SameActive, SameRecovery, f

LEMMA WithoutFacts ==
    ASSUME NEW s \in Dedups, NEW ids
    PROVE  LET z == Without(s, ids)
           IN  /\ z \in Dedups
               /\ SameActive(z, s) /\ SameRecovery(z, s) /\ z.epoch = s.epoch
               /\ z.verdict = s.verdict
               /\ z.pending = [i \in Ids |-> IF i \in ids THEN 0 ELSE s.pending[i]]
<1> DEFINE f == [i \in Ids |-> IF i \in ids THEN 0 ELSE s.pending[i]]
<1>1. f \in [Ids -> Nat]
  BY DedupFields
<1>2. Without(s, ids) = [s EXCEPT !.pending = f]
  BY DEF Without
<1> HIDE DEF f
<1> QED
  BY <1>1, <1>2 DEF Dedups, SameActive, SameRecovery, f

LEMMA PruneFacts ==
    ASSUME NEW s \in Dedups, NEW lag
    PROVE  LET z == PruneActive(s, lag)
           IN  /\ z \in Dedups
               /\ SameWaiting(z, s) /\ SameRecovery(z, s) /\ z.credit = s.credit
               /\ z.verdict = s.verdict
               /\ \A h \in Hashes :
                     z.active[h] = IF Over(s.active[h].left, lag) THEN [count |-> 0, left |-> 0]
                                   ELSE s.active[h]
<1> DEFINE f == [h \in Hashes |-> IF Over(s.active[h].left, lag) THEN [count |-> 0, left |-> 0]
                                  ELSE s.active[h]]
<1>1. f \in [Hashes -> [count : Nat, left : Int]]
  BY DedupFields
<1>2. PruneActive(s, lag) = [s EXCEPT !.active = f]
  BY DEF PruneActive
<1>3. \A h \in Hashes : f[h] = IF Over(s.active[h].left, lag) THEN [count |-> 0, left |-> 0]
                               ELSE s.active[h]
  OBVIOUS
<1> HIDE DEF f
<1> QED
  BY <1>1, <1>2, <1>3 DEF Dedups, SameWaiting, SameRecovery

LEMMA EnterDegradedFacts ==
    ASSUME NEW s \in Dedups
    PROVE  LET z == EnterDegraded(s)
           IN  /\ z \in Dedups /\ z.degraded = TRUE /\ z.since = -1
               /\ SameWaiting(z, s) /\ SameActive(z, s) /\ z.verdict = s.verdict
<1>1. -1 \in -1 .. MaxAge /\ 0 \in Nat
  BY Budgets
<1> QED
  BY <1>1 DEF EnterDegraded, Dedups, SameWaiting, SameActive

LEMMA NoneFacts ==
    /\ NoneActive \in [Hashes -> [count : Nat, left : Int]]
    /\ \A h \in Hashes : NoneActive[h].count = 0
    /\ NoCredit \in [Hashes -> Int] /\ \A h \in Hashes : NoCredit[h] = 0
    /\ NonePending \in [Ids -> Nat] /\ \A i \in Ids : NonePending[i] = 0
BY DEF NoneActive, NoCredit, NonePending

LEMMA DiscontinuityFacts ==
    ASSUME NEW s \in Dedups
    PROVE  LET z == MakeDiscontinuity(s)
           IN  /\ z \in Dedups /\ z.degraded = TRUE /\ z.since = -1
               /\ z.active = NoneActive /\ z.credit = NoCredit /\ z.pending = NonePending
               /\ z.epoch = s.epoch + 1 /\ z.verdict = s.verdict
<1> DEFINE e == s.epoch + 1
           y == [s EXCEPT !.pending = NonePending, !.active = NoneActive,
                          !.credit = NoCredit, !.epoch = e]
<1>1. e \in Nat \ {0}
  BY DedupFields
<1>2. MakeDiscontinuity(s) = Outputs(EnterDegraded(y))
  BY DEF MakeDiscontinuity
<1> HIDE DEF e
<1>3. y \in Dedups /\ y.pending = NonePending /\ y.active = NoneActive /\ y.credit = NoCredit
      /\ y.epoch = e /\ y.verdict = s.verdict
  BY <1>1, NoneFacts DEF Dedups
<1> HIDE DEF y
<1>4. EnterDegraded(y) \in Dedups /\ SameWaiting(EnterDegraded(y), y) /\ SameActive(EnterDegraded(y), y)
      /\ EnterDegraded(y).verdict = y.verdict /\ EnterDegraded(y).degraded = TRUE
      /\ EnterDegraded(y).since = -1
  BY <1>3, EnterDegradedFacts
<1> QED
  BY <1>2, <1>3, <1>4 DEF Outputs, Dedups, SameWaiting, SameActive, e

\* Evidence moves the recovery only.
Recovers(z, s, lag) ==
    \/ SameRecovery(z, s)
    \/ /\ s.degraded = TRUE /\ s.since = -1 /\ z.since = lag /\ z.degraded = TRUE
    \/ /\ s.degraded = TRUE /\ s.since # -1 /\ z.since = s.since
       /\ z.degraded = FALSE => s.since - lag >= RecoveryHysteresis

LEMMA EvidenceFacts ==
    ASSUME NEW s \in Dedups, NEW lag \in 0 .. MaxAge
    PROVE  LET z == RecordEvidence(s, lag)
           IN  /\ z \in Dedups
               /\ SameWaiting(z, s) /\ SameActive(z, s) /\ z.verdict = s.verdict
               /\ Recovers(z, s, lag)
<1> DEFINE since == IF s.since = -1 THEN lag ELSE s.since
           evidence == IF s.evidence < RecoveryEventThreshold THEN s.evidence + 1 ELSE s.evidence
           g == ~(since - lag >= RecoveryHysteresis /\ evidence >= RecoveryEventThreshold)
<1>1. since \in -1 .. MaxAge /\ evidence \in Nat /\ g \in BOOLEAN
  BY DedupFields, Budgets
<1>2. g = FALSE => since - lag >= RecoveryHysteresis
  OBVIOUS
<1>3. s.since = -1 => g = TRUE
  <2>1. s.since = -1 => since - lag = 0
    BY Budgets
  <2> QED
    BY <2>1, Budgets
<1>4. RecordEvidence(s, lag) =
        IF ~s.degraded THEN s ELSE [s EXCEPT !.since = since, !.evidence = evidence, !.degraded = g]
  BY DEF RecordEvidence
<1>5. (s.since = -1 => since = lag) /\ (s.since # -1 => since = s.since)
  OBVIOUS
<1> HIDE DEF since, evidence, g
<1>6. CASE s.degraded = FALSE
  BY <1>4, <1>6 DEF SameWaiting, SameActive, SameRecovery, Recovers
<1>7. CASE s.degraded = TRUE
  <2>1. RecordEvidence(s, lag) = [s EXCEPT !.since = since, !.evidence = evidence, !.degraded = g]
    BY <1>4, <1>7
  <2> QED
    BY <1>1, <1>2, <1>3, <1>5, <1>7, <2>1 DEF Dedups, SameWaiting, SameActive, Recovers
<1> QED
  BY <1>6, <1>7, DedupFields

LEMMA ConsumeFacts ==
    ASSUME NEW s \in Dedups, NEW h \in Hashes, s.active[h].count >= 1
    PROVE  LET z == ConsumeActive(s, h)
           IN  /\ z \in Dedups
               /\ SameWaiting(z, s) /\ SameRecovery(z, s) /\ z.verdict = s.verdict
               /\ z.active[h].count = s.active[h].count - 1 /\ z.credit[h] = s.credit[h] - 1
               /\ \A g \in Hashes \ {h} : z.active[g] = s.active[g] /\ z.credit[g] = s.credit[g]
<1> DEFINE a == s.active[h]
           b == [count |-> a.count - 1, left |-> IF a.count = 1 THEN 0 ELSE a.left]
           f == [s.active EXCEPT ![h] = b]
           c == [s.credit EXCEPT ![h] = s.credit[h] - 1]
<1>1. a \in [count : Nat, left : Int] /\ s.credit[h] \in Int
  BY DedupFields
<1>2. b \in [count : Nat, left : Int] /\ b.count = a.count - 1
  <2> HIDE DEF a
  <2> QED
    BY <1>1 DEF a
<1>3. ConsumeActive(s, h) = [s EXCEPT !.credit = c, !.active = f]
  <2>1. ConsumeActive(s, h) = [s EXCEPT !.credit[h] = @ - 1, !.active[h] = b]
    BY Zenon DEF ConsumeActive
  <2> HIDE DEF b
  <2> QED
    BY <2>1, DedupFields
<1> HIDE DEF b
<1>4. f \in [Hashes -> [count : Nat, left : Int]] /\ f[h] = b /\ \A g \in Hashes \ {h} : f[g] = s.active[g]
  BY <1>2, DedupFields
<1>5. c \in [Hashes -> Int] /\ c[h] = s.credit[h] - 1 /\ \A g \in Hashes \ {h} : c[g] = s.credit[g]
  BY <1>1, DedupFields
<1> HIDE DEF c, f
<1> QED
  BY <1>2, <1>3, <1>4, <1>5 DEF Dedups, SameWaiting, SameRecovery

LEMMA RetainFacts ==
    ASSUME NEW s \in Dedups, NEW h \in Hashes
    PROVE  LET z == Retain(s, h)
           IN  /\ z \in Dedups
               /\ SameWaiting(z, s) /\ SameRecovery(z, s) /\ z.verdict = s.verdict
               /\ z.active[h].count = s.active[h].count + 1 /\ z.credit[h] = s.credit[h] + 1
               /\ z.active[h].left = ActiveFingerprintRetention
               /\ \A g \in Hashes \ {h} : z.active[g] = s.active[g] /\ z.credit[g] = s.credit[g]
<1> DEFINE n == s.active[h].count + 1
           b == [count |-> n, left |-> ActiveFingerprintRetention]
           f == [s.active EXCEPT ![h] = b]
           c == [s.credit EXCEPT ![h] = s.credit[h] + 1]
<1>1. n \in Nat /\ s.credit[h] \in Int /\ ActiveFingerprintRetention \in Int
  BY DedupFields, Budgets
<1>2. Retain(s, h) = [s EXCEPT !.credit = c, !.active = f]
  BY DedupFields DEF Retain
<1> HIDE DEF n
<1>3. b \in [count : Nat, left : Int] /\ b.count = n /\ b.left = ActiveFingerprintRetention
  BY <1>1
<1> HIDE DEF b
<1>4. f \in [Hashes -> [count : Nat, left : Int]] /\ f[h] = b /\ \A g \in Hashes \ {h} : f[g] = s.active[g]
  BY <1>3, DedupFields
<1>5. c \in [Hashes -> Int] /\ c[h] = s.credit[h] + 1 /\ \A g \in Hashes \ {h} : c[g] = s.credit[g]
  BY <1>1, DedupFields
<1> HIDE DEF c, f
<1> QED
  BY <1>2, <1>3, <1>4, <1>5 DEF Dedups, SameWaiting, SameRecovery, n

-----------------------------------------------------------------------------
(* What keeps a deduplicator fit                                             *)

Core(s, x) == s \in Dedups /\ Waiting(s, x) /\ Backed(s) /\ Room(s) /\ Attributed(s, x)

LEMMA FitIsCore ==
    ASSUME NEW s, NEW x, NEW c
    PROVE  Fit(s, x, c) <=> Core(s, x) /\ Protected(s, x, c)
BY DEF Fit, Core

\* After the expired copies are released, none that waits is overdue.
Fresh(s, x, lag) == \A i \in Ids : s.pending[i] # 0 => x[i].age - lag < PendingGraceTimeout

LEMMA WireFields ==
    ASSUME NEW x, WireTypes(x), NEW i \in DOMAIN x
    PROVE  /\ i \in Ids /\ x[i].kind \in Kinds /\ x[i].address \in Addresses
           /\ x[i].age \in 0 .. MaxAge /\ x[i].age \in Nat /\ x[i].copy \in Copies /\ x[i].report \in Reports
           /\ HashOf(x, i) \in Hashes /\ DOMAIN x = 1 .. Len(x) /\ Len(x) \in Nat
           /\ x[i] \in Tx
<1>1. x \in Seq(Tx) /\ DOMAIN x = 1 .. Len(x) /\ Len(x) \in Nat
  BY DEF WireTypes
<1>2. x[i] \in Tx
  BY <1>1
<1>3. i \in Ids
  BY <1>1, Budgets DEF Ids, WireTypes
<1>4. x[i].age \in 0 .. MaxAge
  BY <1>2 DEF Tx
<1>5. x[i].age \in Nat
  BY <1>4, Budgets
<1>6. x[i].kind \in Kinds /\ x[i].address \in Addresses /\ x[i].copy \in Copies /\ x[i].report \in Reports
  BY <1>2 DEF Tx
<1>7. HashOf(x, i) \in Hashes
  BY <1>6 DEF HashOf, Hashes
<1> QED
  BY <1>1, <1>2, <1>3, <1>4, <1>5, <1>6, <1>7

\* The copies that wait fit their buffer when there are no more of them.
LEMMA FewerWait ==
    ASSUME NEW s, NEW z, Room(s), \A i \in Ids : z.pending[i] # 0 => s.pending[i] # 0
    PROVE  Room(z)
<1>1. InPending(z) \subseteq InPending(s) /\ InPending(s) \subseteq Ids
  BY DEF InPending
<1>2. IsFiniteSet(InPending(s))
  BY <1>1, Budgets, FS_Subset
<1>3. IsFiniteSet(InPending(z)) /\ Cardinality(InPending(z)) <= Cardinality(InPending(s))
  BY <1>1, <1>2, FS_Subset
<1>4. Cardinality(InPending(z)) \in Nat /\ Cardinality(InPending(s)) \in Nat
  BY <1>2, <1>3, FS_CardinalityType
<1> QED
  BY <1>3, <1>4, Budgets DEF Room

LEMMA SameCore ==
    ASSUME NEW s, NEW z \in Dedups, NEW x, Core(s, x), SameWaiting(z, s), SameActive(z, s),
           z.verdict = s.verdict
    PROVE  Core(z, x)
<1>1. Room(z)
  BY FewerWait DEF Core, SameWaiting
<1> QED
  BY <1>1 DEF Core, SameWaiting, SameActive, Waiting, Backed, Attributed

\* A degraded deduplicator that has no evidence yet is safe from everything.
LEMMA DegradedProtects ==
    ASSUME NEW s, NEW x, NEW c, s.degraded = TRUE, s.since = -1
    PROVE  Protected(s, x, c)
BY DEF Protected, ProtectedAt, SafeAt

LEMMA DegradedFit ==
    ASSUME NEW s, NEW x, NEW c, Core(s, x)
    PROVE  Fit(EnterDegraded(s), x, c)
<1> DEFINE z == EnterDegraded(s)
<1>1. s \in Dedups
  BY DEF Core
<1>2. /\ z \in Dedups /\ z.degraded = TRUE /\ z.since = -1
      /\ SameWaiting(z, s) /\ SameActive(z, s) /\ z.verdict = s.verdict
  BY <1>1, EnterDegradedFacts
<1> HIDE DEF z
<1>3. Core(z, x)
  BY <1>2, SameCore
<1>4. Protected(z, x, c)
  BY <1>2, DegradedProtects
<1> QED
  BY <1>3, <1>4, FitIsCore DEF z

LEMMA DiscontinuityFit ==
    ASSUME NEW s \in Dedups, NEW x, NEW c, WireTypes(x), Attributed(s, x)
    PROVE  /\ Fit(MakeDiscontinuity(s), x, c) /\ MakeDiscontinuity(s).epoch = s.epoch + 1
           /\ \A i \in Ids : MakeDiscontinuity(s).pending[i] = 0
<1> DEFINE z == MakeDiscontinuity(s)
<1>1. /\ z \in Dedups /\ z.degraded = TRUE /\ z.since = -1
      /\ z.active = NoneActive /\ z.credit = NoCredit /\ z.pending = NonePending
      /\ z.epoch = s.epoch + 1 /\ z.verdict = s.verdict
  BY DiscontinuityFacts
<1> HIDE DEF z
<1>2. \A i \in Ids : z.pending[i] = 0
  BY <1>1, NoneFacts
<1>3. InPending(z) = {}
  BY <1>2 DEF InPending
<1>4. Room(z)
  BY <1>3, FS_EmptySet, Budgets DEF Room
<1>5. Backed(z) /\ Waiting(z, x) /\ Attributed(z, x)
  BY <1>1, <1>2, NoneFacts DEF Backed, Waiting, Attributed
<1> QED
  BY <1>1, <1>2, <1>4, <1>5, DegradedProtects, FitIsCore DEF Core, z

\* The recovery ends only when no copy is left from before it.
LEMMA EvidenceFit ==
    ASSUME NEW s, NEW x, NEW c, Wire(x, c), Fit(s, x, c), NEW lag \in 0 .. MaxAge,
           lag <= PassiveDeliveryBudget, Fresh(s, x, lag)
    PROVE  LET z == RecordEvidence(s, lag)
           IN  /\ Fit(z, x, c) /\ Fresh(z, x, lag) /\ z.epoch = s.epoch
<1> DEFINE z == RecordEvidence(s, lag)
<1>1. s \in Dedups /\ Core(s, x) /\ Protected(s, x, c) /\ WireTypes(x) /\ InTime(x, c)
  BY FitIsCore DEF Core, Wire
<1>2. /\ z \in Dedups
      /\ SameWaiting(z, s) /\ SameActive(z, s) /\ z.verdict = s.verdict
      /\ Recovers(z, s, lag)
  BY <1>1, EvidenceFacts
<1> HIDE DEF z
<1>3. Core(z, x)
  BY <1>1, <1>2, SameCore
<1>4. ASSUME NEW i \in DOMAIN x, SafeAt(s, x, i), ~SafeAt(z, x, i)
      PROVE  x[i].age - lag > PendingGraceTimeout
  <2>1. x[i].age \in Nat /\ s.since \in -1 .. MaxAge /\ lag \in Nat
    BY <1>1, WireFields, DedupFields, Budgets
  <2>2. z.degraded \in BOOLEAN
    BY <1>2, DedupFields
  <2>3. s.since # -1 /\ z.degraded = FALSE /\ s.since - lag >= RecoveryHysteresis
    BY <1>2, <1>4, <2>1, <2>2, Budgets DEF SafeAt, Recovers, SameRecovery
  <2> QED
    BY <1>4, <2>1, <2>3, Budgets DEF SafeAt
<1>5. ASSUME NEW i \in DOMAIN x, FirstOwn(x, i) PROVE ProtectedAt(z, x, c, i)
  <2>1. ProtectedAt(s, x, c, i)
    BY <1>1, <1>5 DEF Protected
  <2>2. i \in Ids /\ x[i].age \in Nat /\ lag \in Nat
    BY <1>1, WireFields, Budgets
  <2>3. s.pending[i] # 0 => x[i].age - lag < PendingGraceTimeout
    BY <2>2 DEF Fresh
  <2>4. x[i].copy = "due" /\ ~c => x[i].age <= PassiveDeliveryBudget
    BY <1>1 DEF InTime
  <2>5. (s.pending[i] # 0 \/ (x[i].copy = "due" /\ ~c)) /\ SafeAt(s, x, i) => SafeAt(z, x, i)
    BY <1>4, <2>2, <2>3, <2>4, Budgets
  <2>6. CoveredAt(s, x, i) => CoveredAt(z, x, i)
    BY <1>2 DEF CoveredAt, SameActive
  <2>7. z.pending = s.pending
    BY <1>2 DEF SameWaiting
  <2> QED
    BY <2>1, <2>5, <2>6, <2>7 DEF ProtectedAt
<1>6. Fresh(z, x, lag) /\ z.epoch = s.epoch
  BY <1>2 DEF Fresh, SameWaiting
<1> QED
  BY <1>3, <1>5, <1>6, FitIsCore DEF Protected, z

\* The expired copies go; one of the gateway's own goes to a third party only
\* when its report failed or went to an earlier copy.
LEMMA ReleaseFit ==
    ASSUME Wire(tx, closed), Fit(d, tx, closed), NEW lag \in 0 .. PassiveDeliveryBudget
    PROVE  LET z == ReleaseExpired(d, lag)
           IN  Fit(z, tx, closed) /\ Fresh(z, tx, lag) /\ z.epoch = d.epoch
<1> DEFINE E == Expired(d, lag)
           v == IF d.degraded THEN "observability" ELSE "thirdParty"
           y == Without(d, E)
           z == Decided(y, E, v)
<1>1. d \in Dedups /\ Core(d, tx) /\ Protected(d, tx, closed) /\ WireTypes(tx) /\ InTime(tx, closed)
  BY FitIsCore DEF Core, Wire
<1>2. v \in Verdicts /\ (v = "thirdParty" => d.degraded # TRUE)
  BY DEF Verdicts
<1>3. \A i \in E : i \in Ids /\ d.pending[i] # 0 /\ tx[i].age - lag >= PendingGraceTimeout
  BY DEF Expired, InPending
<1>4. \A i \in Ids \ E : d.pending[i] # 0 => ~(tx[i].age - lag >= PendingGraceTimeout)
  BY DEF Expired, InPending
<1> HIDE DEF v, E
<1>5. /\ y \in Dedups /\ SameActive(y, d) /\ SameRecovery(y, d) /\ y.epoch = d.epoch
      /\ y.verdict = d.verdict
      /\ y.pending = [i \in Ids |-> IF i \in E THEN 0 ELSE d.pending[i]]
  BY <1>1, WithoutFacts
<1> HIDE DEF y
<1>6. /\ z \in Dedups /\ SameWaiting(z, y) /\ SameActive(z, y) /\ SameRecovery(z, y)
      /\ z.verdict = [i \in Ids |-> IF i \in E THEN v ELSE y.verdict[i]]
  BY <1>2, <1>5, DecidedFacts
<1>7. ReleaseExpired(d, lag) = z
  BY DEF ReleaseExpired, E, v, y
<1> HIDE DEF z
<1>8. /\ SameActive(z, d) /\ SameRecovery(z, d) /\ z.epoch = d.epoch
      /\ \A i \in Ids : z.pending[i] = IF i \in E THEN 0 ELSE d.pending[i]
      /\ \A i \in Ids : z.verdict[i] = IF i \in E THEN v ELSE d.verdict[i]
  BY <1>5, <1>6 DEF SameActive, SameRecovery, SameWaiting
<1>9. Room(z)
  BY <1>1, <1>8, FewerWait DEF Core
<1>10. Waiting(z, tx) /\ Backed(z)
  BY <1>1, <1>8 DEF Core, Waiting, Backed, SameActive
<1>11. Fresh(z, tx, lag)
  <2> SUFFICES ASSUME NEW i \in Ids, z.pending[i] # 0 PROVE tx[i].age - lag < PendingGraceTimeout
    BY DEF Fresh
  <2>1. i \notin E /\ d.pending[i] # 0
    BY <1>8
  <2>2. i \in DOMAIN tx
    BY <1>1, <2>1 DEF Core, Waiting
  <2>3. tx[i].age \in Nat /\ lag \in Nat
    BY <1>1, <2>2, WireFields, Budgets
  <2> QED
    BY <1>4, <2>1, <2>3, Budgets
<1>12. Protected(z, tx, closed)
  <2> SUFFICES ASSUME NEW i \in DOMAIN tx, FirstOwn(tx, i) PROVE ProtectedAt(z, tx, closed, i)
    BY DEF Protected
  <2>1. ProtectedAt(d, tx, closed, i) /\ i \in Ids
    BY <1>1, WireFields DEF Protected
  <2>2. SafeAt(d, tx, i) => SafeAt(z, tx, i)
    BY <1>8 DEF SafeAt, SameRecovery
  <2>3. CoveredAt(d, tx, i) => CoveredAt(z, tx, i)
    BY <1>8 DEF CoveredAt, SameActive
  <2>4. z.pending[i] # 0 => d.pending[i] # 0
    BY <1>8, <2>1
  <2> QED
    BY <2>1, <2>2, <2>3, <2>4 DEF ProtectedAt
<1>13. Attributed(z, tx)
  <2> SUFFICES ASSUME NEW i \in Ids, z.verdict[i] = "thirdParty"
               PROVE  /\ i \in DOMAIN tx
                      /\ tx[i].kind = "own" =>
                           \/ tx[i].report = "failed"
                           \/ tx[i].report # "due" /\ ~FirstOwn(tx, i)
    BY DEF Attributed
  <2>1. i \in DOMAIN tx
    BY <1>1, <1>3, <1>8 DEF Core, Attributed, Waiting
  <2>2. CASE i \notin E
    BY <1>1, <1>8, <2>2 DEF Core, Attributed
  <2>3. CASE i \in E /\ tx[i].kind = "own"
    <3>0. tx[i].age \in Nat /\ tx[i].report \in Reports /\ lag \in Nat
      BY <1>1, <2>1, WireFields, Budgets
    <3>1. d.degraded # TRUE /\ d.pending[i] # 0 /\ tx[i].age - lag >= PendingGraceTimeout
      BY <1>2, <1>3, <1>8, <2>3
    <3>2. tx[i].report # "due"
      BY <1>1, <2>1, <3>0, <3>1, Budgets DEF InTime
    <3>3. tx[i].report # "none"
      BY <1>1, <2>1, <2>3 DEF InTime
    <3>4. FirstOwn(tx, i) => tx[i].report \notin {"success", "lost", "unfit"}
      BY <1>1, <2>1, <3>1 DEF Protected, ProtectedAt, SafeAt
    <3>5. FirstOwn(tx, i) => tx[i].report = "failed"
      BY <3>0, <3>2, <3>3, <3>4 DEF Reports
    <3>6. \/ tx[i].report = "failed"
          \/ tx[i].report # "due" /\ ~FirstOwn(tx, i)
      BY <3>2, <3>5
    <3> QED
      BY <2>1, <3>6
  <2> QED
    BY <2>1, <2>2, <2>3
<1> QED
  BY <1>6, <1>7, <1>8, <1>9, <1>10, <1>11, <1>12, <1>13 DEF Fit

\* A retained report outlasts the delivery of its copy.
LEMMA PruneFit ==
    ASSUME NEW s, Wire(tx, closed), Fit(s, tx, closed), NEW lag \in 0 .. PassiveDeliveryBudget,
           Fresh(s, tx, lag)
    PROVE  LET z == PruneActive(s, lag)
           IN  Fit(z, tx, closed) /\ Fresh(z, tx, lag) /\ z.epoch = s.epoch
<1> DEFINE z == PruneActive(s, lag)
<1>1. s \in Dedups /\ Core(s, tx) /\ Protected(s, tx, closed) /\ WireTypes(tx) /\ InTime(tx, closed)
  BY FitIsCore DEF Core, Wire
<1>2. /\ z \in Dedups
      /\ SameWaiting(z, s) /\ SameRecovery(z, s) /\ z.credit = s.credit
      /\ z.verdict = s.verdict
      /\ \A h \in Hashes :
            z.active[h] = IF Over(s.active[h].left, lag) THEN [count |-> 0, left |-> 0]
                          ELSE s.active[h]
  BY <1>1, PruneFacts
<1> HIDE DEF z
<1>3. ASSUME NEW h \in Hashes
      PROVE  /\ s.active[h].count \in Nat /\ s.active[h].left \in Int /\ s.credit[h] \in Int
             /\ z.active[h].count = 0 \/ z.active[h] = s.active[h]
             /\ ~Over(s.active[h].left, lag) => z.active[h] = s.active[h]
  BY <1>1, <1>2, <1>3, DedupFields
<1>4. Backed(z)
  BY <1>1, <1>2, <1>3 DEF Core, Backed
<1>5. Waiting(z, tx) /\ Fresh(z, tx, lag)
  <2> SUFFICES ASSUME NEW i \in Ids, z.pending[i] # 0
               PROVE  /\ i \in DOMAIN tx /\ tx[i].copy = "seen" /\ z.pending[i] = z.epoch
                      /\ z.active[HashOf(tx, i)].count = 0
                      /\ tx[i].age - lag < PendingGraceTimeout
    BY DEF Waiting, Fresh
  <2>1. /\ i \in DOMAIN tx /\ tx[i].copy = "seen" /\ s.pending[i] = s.epoch
        /\ s.active[HashOf(tx, i)].count = 0 /\ tx[i].age - lag < PendingGraceTimeout
    BY <1>1, <1>2 DEF Core, Waiting, Fresh, SameWaiting
  <2>2. HashOf(tx, i) \in Hashes
    BY <1>1, <2>1, WireFields
  <2> QED
    BY <1>2, <1>3, <2>1, <2>2 DEF SameWaiting
<1>6. Room(z)
  BY <1>1, <1>2, FewerWait DEF Core, SameWaiting
<1>7. Protected(z, tx, closed)
  <2> SUFFICES ASSUME NEW i \in DOMAIN tx, FirstOwn(tx, i) PROVE ProtectedAt(z, tx, closed, i)
    BY DEF Protected
  <2>1. ProtectedAt(s, tx, closed, i) /\ HashOf(tx, i) \in Hashes /\ tx[i].age \in Nat
    BY <1>1, WireFields DEF Protected
  <2>2. SafeAt(s, tx, i) => SafeAt(z, tx, i)
    BY <1>2 DEF SafeAt, SameRecovery
  <2>3. CoveredAt(s, tx, i) /\ tx[i].copy = "due" /\ ~closed => CoveredAt(z, tx, i)
    <3> SUFFICES ASSUME CoveredAt(s, tx, i), tx[i].copy = "due", ~closed PROVE CoveredAt(z, tx, i)
      OBVIOUS
    <3>1. tx[i].age <= PassiveDeliveryBudget
      BY <1>1 DEF InTime
    <3>2. s.active[HashOf(tx, i)].left >= ActiveFingerprintRetention - tx[i].age
      BY DEF CoveredAt
    <3>3. s.active[HashOf(tx, i)].left \in Int
      BY <1>3, <2>1
    <3>4. s.active[HashOf(tx, i)].left > 0
      BY <2>1, <3>1, <3>2, <3>3, Budgets
    <3>5. ~Over(s.active[HashOf(tx, i)].left, lag)
      BY <3>3, <3>4, Budgets DEF Over
    <3> QED
      BY <1>3, <2>1, <3>5 DEF CoveredAt
  <2>4. z.pending = s.pending
    BY <1>2 DEF SameWaiting
  <2> QED
    BY <2>1, <2>2, <2>3, <2>4 DEF ProtectedAt
<1>8. Attributed(z, tx)
  BY <1>1, <1>2 DEF Core, Attributed
<1> QED
  BY <1>2, <1>4, <1>5, <1>6, <1>7, <1>8 DEF Fit, SameWaiting, z

LEMMA BeginFit ==
    ASSUME Wire(tx, closed), Fit(d, tx, closed), NEW lag \in 0 .. PassiveDeliveryBudget
    PROVE  Fit(Begin(lag), tx, closed) /\ Fresh(Begin(lag), tx, lag) /\ Begin(lag).epoch = d.epoch
BY ReleaseFit, PruneFit DEF Begin

-----------------------------------------------------------------------------
(* Reports and copies that come or are lost                                  *)

\* The transactions y are the transactions x with something less to come.
Progress(x, y) ==
    /\ DOMAIN y = DOMAIN x
    /\ \A i \in DOMAIN x :
          /\ y[i].kind = x[i].kind /\ y[i].address = x[i].address /\ y[i].age = x[i].age
          /\ y[i].copy = x[i].copy \/ (x[i].copy = "due" /\ y[i].copy # "due")
          /\ y[i].report = x[i].report \/ (x[i].report = "due" /\ y[i].report \notin {"due", "none"})

LEMMA ProgressFacts ==
    ASSUME NEW x, NEW y, NEW s, NEW c, WireTypes(x), Progress(x, y)
    PROVE  /\ \A i \in DOMAIN x : HashOf(y, i) = HashOf(x, i) /\ (FirstOwn(y, i) <=> FirstOwn(x, i))
           /\ Core(s, x) => Core(s, y)
           /\ InTime(x, c) => InTime(y, c)
           /\ \A lag : Core(s, x) /\ Fresh(s, x, lag) => Fresh(s, y, lag)
           /\ Protected(s, x, c) =>
                 \A i \in DOMAIN x : FirstOwn(x, i) /\ y[i].report = x[i].report => ProtectedAt(s, y, c, i)
<1>1. \A i \in DOMAIN x : HashOf(y, i) = HashOf(x, i)
  BY DEF Progress, HashOf
<1>2. \A i \in DOMAIN x : 1 .. i - 1 \subseteq DOMAIN x
  BY WireFields
<1>3. \A i \in DOMAIN x : FirstOwn(y, i) <=> FirstOwn(x, i)
  BY <1>1, <1>2 DEF FirstOwn, Progress
<1>4. Waiting(s, x) => Waiting(s, y)
  BY <1>1 DEF Waiting, Progress
<1>5. Attributed(s, x) => Attributed(s, y)
  BY <1>3 DEF Attributed, Progress
<1>6. InTime(x, c) => InTime(y, c)
  BY DEF InTime, Progress
<1>7. \A lag : Core(s, x) /\ Fresh(s, x, lag) => Fresh(s, y, lag)
  BY DEF Core, Waiting, Fresh, Progress
<1>8. ASSUME Protected(s, x, c), NEW i \in DOMAIN x, FirstOwn(x, i), y[i].report = x[i].report
      PROVE  ProtectedAt(s, y, c, i)
  <2>1. ProtectedAt(s, x, c, i)
    BY <1>8 DEF Protected
  <2>2. SafeAt(s, x, i) => SafeAt(s, y, i)
    BY DEF SafeAt, Progress
  <2>3. CoveredAt(s, x, i) => CoveredAt(s, y, i)
    BY <1>1 DEF CoveredAt, Progress
  <2>4. y[i].copy = "due" => x[i].copy = "due"
    BY DEF Progress
  <2> QED
    BY <1>8, <2>1, <2>2, <2>3, <2>4 DEF ProtectedAt
<1> QED
  BY <1>1, <1>3, <1>4, <1>5, <1>6, <1>7, <1>8 DEF Core

LEMMA MappedSeq ==
    ASSUME NEW x, WireTypes(x), NEW y, DOMAIN y = DOMAIN x, y = [i \in DOMAIN x |-> y[i]],
           \A i \in DOMAIN x : y[i] \in Tx
    PROVE  WireTypes(y)
<1>1. x \in Seq(Tx) /\ Len(x) <= MaxTransactions /\ DOMAIN x = 1 .. Len(x) /\ Len(x) \in Nat
  BY DEF WireTypes
<1>2. y \in [1 .. Len(x) -> Tx]
  BY <1>1
<1>3. y \in Seq(Tx) /\ Len(y) = Len(x)
  BY <1>1, <1>2
<1> QED
  BY <1>1, <1>3 DEF WireTypes

\* Copies or reports get lost, and the deduplicator is reset or degraded by it.
LEMMA LostFacts ==
    ASSUME Wire(tx, closed), NEW y, WireTypes(y), Progress(tx, y),
           \A i \in DOMAIN tx : y[i].copy = "seen" => tx[i].copy = "seen"
    PROVE  Wire(y, closed)
<1>1. InTime(y, closed)
  BY ProgressFacts DEF Wire
<1>2. InOrder(y)
  BY DEF Wire, InOrder, Progress
<1> QED
  BY <1>1, <1>2 DEF Wire

LEMMA EndsFit ==
    ASSUME NEW s, NEW x, NEW c, Fit(s, x, c), NEW z, z = [s EXCEPT !.outputs = FALSE]
    PROVE  Fit(z, x, c) /\ z.epoch = s.epoch
<1>1. s \in Dedups /\ Core(s, x) /\ Protected(s, x, c)
  BY FitIsCore DEF Core
<1>2. /\ z \in Dedups /\ SameWaiting(z, s) /\ SameActive(z, s) /\ SameRecovery(z, s)
      /\ z.verdict = s.verdict
  BY <1>1 DEF Dedups, SameWaiting, SameActive, SameRecovery
<1>3. Core(z, x)
  BY <1>1, <1>2, SameCore
<1>4. Protected(z, x, c)
  BY <1>1, <1>2 DEF Protected, ProtectedAt, SafeAt, CoveredAt, SameWaiting, SameActive, SameRecovery
<1> QED
  BY <1>2, <1>3, <1>4, FitIsCore DEF SameWaiting

LEMMA LearnFit ==
    ASSUME NEW s, NEW x, NEW c, WireTypes(x), Fit(s, x, c), Fresh(s, x, 0), NEW a \in Addresses
    PROVE  LET z == LearnAddress(s, a)
           IN  Fit(z, x, c) /\ Fresh(z, x, 0)
<1> DEFINE y == [s EXCEPT !.address = a]
<1>1. s \in Dedups /\ Core(s, x) /\ Protected(s, x, c)
  BY FitIsCore DEF Core
<1>2. /\ y \in Dedups /\ SameWaiting(y, s) /\ SameActive(y, s) /\ SameRecovery(y, s)
      /\ y.verdict = s.verdict
  BY <1>1 DEF Dedups, SameWaiting, SameActive, SameRecovery
<1>3. LearnAddress(s, a) = IF s.address \in {0, a} THEN y ELSE MakeDiscontinuity(y)
  BY DEF LearnAddress
<1> HIDE DEF y
<1>4. Core(y, x)
  BY <1>1, <1>2, SameCore
<1>5. Protected(y, x, c) /\ Fresh(y, x, 0)
  BY <1>1, <1>2
     DEF Protected, ProtectedAt, SafeAt, CoveredAt, SameWaiting, SameActive, SameRecovery, Fresh
<1>6. Fit(y, x, c)
  BY <1>4, <1>5, FitIsCore
<1>7. Fit(MakeDiscontinuity(y), x, c) /\ \A i \in Ids : MakeDiscontinuity(y).pending[i] = 0
  BY <1>2, <1>4, DiscontinuityFit DEF Core
<1>8. Fresh(MakeDiscontinuity(y), x, 0)
  BY <1>7 DEF Fresh
<1> QED
  BY <1>3, <1>5, <1>6, <1>7, <1>8

\* A report is retained for its copy or goes to the one that waits longest.
LEMMA MatchFit ==
    ASSUME NEW s, NEW y, NEW i \in DOMAIN tx, Wire(tx, closed), WireTypes(y), InOrder(y),
           InTime(y, closed), Progress(tx, y), y[i].report = "success",
           Core(s, y), Fresh(s, y, 0),
           \A j \in DOMAIN tx \ {i} : FirstOwn(y, j) => ProtectedAt(s, y, closed, j)
    PROVE  LET z == MatchPending(Retain(s, Hash(i)), Hash(i))
           IN  Fit(z, y, closed) /\ Fresh(z, y, 0) /\ z.epoch = s.epoch
<1> DEFINE h == Hash(i)
           r == Retain(s, h)
           waiting == {j \in InPending(r) : r.pending[j] = r.epoch /\ Hash(j) = h}
           first == Min(waiting)
           a == Without(r, {first})
           b == Decided(a, {first}, "matched")
           q == ConsumeActive(b, h)
<1>1. s \in Dedups /\ Waiting(s, y) /\ Backed(s) /\ Room(s) /\ Attributed(s, y)
  BY DEF Core
<1>2. DOMAIN y = DOMAIN tx /\ \A j \in DOMAIN tx : HashOf(y, j) = Hash(j)
  BY DEF Progress, HashOf, Hash
<1>3. h \in Hashes /\ HashOf(y, i) = h /\ i \in Ids
  BY <1>2, WireFields
<1>4. /\ r \in Dedups /\ SameWaiting(r, s) /\ SameRecovery(r, s) /\ r.verdict = s.verdict
      /\ r.active[h].count = s.active[h].count + 1 /\ r.credit[h] = s.credit[h] + 1
      /\ r.active[h].left = ActiveFingerprintRetention
      /\ \A g \in Hashes \ {h} : r.active[g] = s.active[g] /\ r.credit[g] = s.credit[g]
  BY <1>1, <1>3, RetainFacts
<1>5. MatchPending(r, h) =
        IF InPending(r) = {} THEN r ELSE IF waiting = {} THEN RecordEvidence(r, 0)
        ELSE RecordEvidence(q, 0)
  BY DEF MatchPending
<1>6. \A j \in waiting : /\ j \in Ids /\ s.pending[j] # 0 /\ j \in DOMAIN tx /\ HashOf(y, j) = h
                         /\ y[j].copy = "seen" /\ s.active[h].count = 0
  BY <1>1, <1>2, <1>4 DEF InPending, SameWaiting, Waiting
<1>7. \A j \in Ids : s.pending[j] # 0 /\ HashOf(y, j) = h => j \in waiting
  BY <1>1, <1>2, <1>4 DEF InPending, SameWaiting, Waiting
<1>8. InPending(r) = {} => waiting = {}
  OBVIOUS
<1>9. s.active[h].count \in Nat /\ s.credit[h] \in Int /\ s.active[h].count <= s.credit[h]
  BY <1>1, <1>3, DedupFields DEF Backed
<1> HIDE DEF r, waiting
<1>10. CASE waiting = {}
  <2>1. Waiting(r, y)
    <3> SUFFICES ASSUME NEW j \in Ids, r.pending[j] # 0
                 PROVE  /\ j \in DOMAIN y /\ y[j].copy = "seen" /\ r.pending[j] = r.epoch
                        /\ r.active[HashOf(y, j)].count = 0
      BY DEF Waiting
    <3>1. /\ j \in DOMAIN y /\ y[j].copy = "seen" /\ s.pending[j] = s.epoch /\ s.pending[j] # 0
          /\ s.active[HashOf(y, j)].count = 0
      BY <1>1, <1>4 DEF Waiting, SameWaiting
    <3>2. HashOf(y, j) # h /\ HashOf(y, j) \in Hashes
      BY <1>7, <1>10, <3>1, WireFields
    <3> QED
      BY <1>4, <3>1, <3>2 DEF SameWaiting
  <2>2. Backed(r)
    BY <1>1, <1>4, <1>9 DEF Backed
  <2>3. Room(r)
    BY <1>1, <1>4, FewerWait DEF SameWaiting
  <2>4. Attributed(r, y) /\ Fresh(r, y, 0)
    BY <1>1, <1>4 DEF Attributed, Fresh, SameWaiting
  <2>5. ASSUME NEW j \in DOMAIN y, FirstOwn(y, j) PROVE ProtectedAt(r, y, closed, j)
    <3>1. HashOf(y, j) \in Hashes /\ y[j].age \in Nat /\ j \in Ids
      BY WireFields
    <3>2. CASE j = i
      <4>1. CoveredAt(r, y, i)
        BY <1>3, <1>4, <1>9, <3>1, <3>2, Budgets DEF CoveredAt
      <4>2. s.pending[i] = 0
        BY <1>3, <1>7, <1>10
      <4> QED
        BY <1>4, <3>2, <4>1, <4>2 DEF ProtectedAt, SameWaiting
    <3>3. CASE j # i
      <4>1. ProtectedAt(s, y, closed, j)
        BY <1>2, <2>5, <3>3
      <4>2. SafeAt(s, y, j) => SafeAt(r, y, j)
        BY <1>4 DEF SafeAt, SameRecovery
      <4>3. CoveredAt(s, y, j) => CoveredAt(r, y, j)
        <5>1. CASE HashOf(y, j) = h
          BY <1>4, <1>9, <3>1, <5>1, Budgets DEF CoveredAt
        <5>2. CASE HashOf(y, j) # h
          BY <1>4, <3>1, <5>2 DEF CoveredAt
        <5> QED
          BY <5>1, <5>2
      <4> QED
        BY <1>4, <4>1, <4>2, <4>3 DEF ProtectedAt, SameWaiting
    <3> QED
      BY <3>2, <3>3
  <2>6. Fit(r, y, closed) /\ r.epoch = s.epoch
    BY <1>4, <2>1, <2>2, <2>3, <2>4, <2>5 DEF Fit, Protected, SameWaiting
  <2>7. /\ Fit(RecordEvidence(r, 0), y, closed) /\ Fresh(RecordEvidence(r, 0), y, 0)
        /\ RecordEvidence(r, 0).epoch = r.epoch
    BY <2>4, <2>6, EvidenceFit, Budgets DEF Wire
  <2> QED
    BY <1>5, <1>10, <2>4, <2>6, <2>7 DEF r
<1>11. CASE waiting # {}
  <2>1. first \in waiting /\ \A j \in waiting : first <= j
    <3>1. waiting \in SUBSET Nat
      BY <1>6, Budgets
    <3> QED
      BY <1>11, <3>1, LeastWaiting
  <2>2. s.active[h].count = 0
    BY <1>6, <2>1
  <2> HIDE DEF first
  <2>3. /\ a \in Dedups /\ SameActive(a, r) /\ SameRecovery(a, r) /\ a.epoch = r.epoch
        /\ a.verdict = r.verdict
        /\ a.pending = [j \in Ids |-> IF j \in {first} THEN 0 ELSE r.pending[j]]
    BY <1>4, WithoutFacts
  <2> HIDE DEF a
  <2>4. /\ b \in Dedups /\ SameWaiting(b, a) /\ SameActive(b, a) /\ SameRecovery(b, a)
        /\ b.verdict = [j \in Ids |-> IF j \in {first} THEN "matched" ELSE a.verdict[j]]
    <3>1. "matched" \in Verdicts
      BY DEF Verdicts
    <3> QED
      BY <2>3, <3>1, DecidedFacts
  <2> HIDE DEF b
  <2>5. b.active[h].count = 1 /\ b.credit[h] = s.credit[h] + 1
    BY <1>4, <2>2, <2>3, <2>4 DEF SameActive
  <2>6. /\ q \in Dedups /\ SameWaiting(q, b) /\ SameRecovery(q, b) /\ q.verdict = b.verdict
        /\ q.active[h].count = b.active[h].count - 1 /\ q.credit[h] = b.credit[h] - 1
        /\ \A g \in Hashes \ {h} : q.active[g] = b.active[g] /\ q.credit[g] = b.credit[g]
    BY <1>3, <2>4, <2>5, ConsumeFacts
  <2> HIDE DEF q
  <2>7. /\ q.epoch = s.epoch /\ SameRecovery(q, s)
        /\ \A j \in Ids : q.pending[j] = IF j = first THEN 0 ELSE s.pending[j]
        /\ \A j \in Ids : q.verdict[j] = IF j = first THEN "matched" ELSE s.verdict[j]
    BY <1>4, <2>3, <2>4, <2>6 DEF SameWaiting, SameRecovery
  <2>8. /\ q.active[h].count = 0 /\ q.credit[h] = s.credit[h]
        /\ \A g \in Hashes \ {h} : q.active[g] = s.active[g] /\ q.credit[g] = s.credit[g]
    BY <1>4, <1>9, <2>3, <2>4, <2>5, <2>6 DEF SameActive
  <2>9. Waiting(q, y)
    <3> SUFFICES ASSUME NEW j \in Ids, q.pending[j] # 0
                 PROVE  /\ j \in DOMAIN y /\ y[j].copy = "seen" /\ q.pending[j] = q.epoch
                        /\ q.active[HashOf(y, j)].count = 0
      BY DEF Waiting
    <3>1. /\ j \in DOMAIN y /\ y[j].copy = "seen" /\ s.pending[j] = s.epoch /\ s.pending[j] # 0
          /\ s.active[HashOf(y, j)].count = 0 /\ j # first
      BY <1>1, <2>7 DEF Waiting
    <3>2. HashOf(y, j) \in Hashes
      BY <3>1, WireFields
    <3> QED
      BY <2>7, <2>8, <3>1, <3>2
  <2>10. Backed(q)
    BY <1>1, <1>9, <2>2, <2>8 DEF Backed
  <2>11. Room(q)
    BY <1>1, <2>7, FewerWait
  <2>12. Attributed(q, y) /\ Fresh(q, y, 0)
    BY <1>1, <2>7 DEF Attributed, Fresh
  <2>13. ASSUME NEW j \in DOMAIN y, FirstOwn(y, j) PROVE ProtectedAt(q, y, closed, j)
    <3>1. HashOf(y, j) \in Hashes /\ j \in Ids /\ j \in Nat /\ first \in Nat /\ first \in DOMAIN y
      BY <1>2, <1>6, <2>1, WireFields, Budgets
    <3>2. HashOf(y, first) = h /\ y[first].copy = "seen"
      BY <1>6, <2>1
    <3>3. HashOf(y, j) = h /\ first < j => FALSE
      <4>1. first < j => first \in 1 .. j - 1
        BY <3>1, WireFields
      <4> QED
        BY <2>13, <3>2, <4>1 DEF FirstOwn
    <3>4. CASE j = i
      <4>1. y[i].copy # "due"
        <5>1. i < first => y[i].copy # "due"
          BY <1>2, <3>1, <3>2 DEF InOrder
        <5> QED
          BY <1>3, <3>1, <3>2, <3>3, <3>4, <5>1
      <4>2. q.pending[i] = 0
        BY <1>3, <1>7, <2>1, <2>7, <3>1, <3>3, <3>4
      <4> QED
        BY <3>4, <4>1, <4>2 DEF ProtectedAt
    <3>5. CASE j # i
      <4>1. ProtectedAt(s, y, closed, j)
        BY <1>2, <2>13, <3>5
      <4>2. SafeAt(s, y, j) => SafeAt(q, y, j)
        BY <2>7 DEF SafeAt, SameRecovery
      <4>3. CoveredAt(s, y, j) => CoveredAt(q, y, j)
        BY <2>2, <2>8, <3>1 DEF CoveredAt
      <4>4. q.pending[j] # 0 => s.pending[j] # 0
        BY <2>7, <3>1
      <4> QED
        BY <4>1, <4>2, <4>3, <4>4 DEF ProtectedAt
    <3> QED
      BY <3>4, <3>5
  <2>14. Fit(q, y, closed)
    BY <2>6, <2>9, <2>10, <2>11, <2>12, <2>13 DEF Fit, Protected
  <2>15. /\ Fit(RecordEvidence(q, 0), y, closed) /\ Fresh(RecordEvidence(q, 0), y, 0)
         /\ RecordEvidence(q, 0).epoch = q.epoch
    BY <2>12, <2>14, EvidenceFit, Budgets DEF Wire
  <2> QED
    BY <1>5, <1>8, <1>11, <2>7, <2>15 DEF r
<1> QED
  BY <1>10, <1>11

-----------------------------------------------------------------------------
(* Every step keeps the invariant                                            *)

LEMMA EndsInv ==
    ASSUME NEW s, Wire(tx', closed'), Fit(s, tx', closed'), s.epoch <= MaxEpoch, Ends(s),
           unsent \in BOOLEAN, address' \in Addresses, subscribed' \in BOOLEAN, closed' \in BOOLEAN
    PROVE  DedupInv'
<1>1. Fit(d', tx', closed') /\ d'.epoch = s.epoch
  BY EndsFit DEF Ends
<1>2. s.outputs \in BOOLEAN
  BY DedupFields DEF Fit
<1>3. unsent' \in BOOLEAN
  BY <1>2 DEF Ends
<1> QED
  BY <1>1, <1>3 DEF DedupInv, Scalars

LEMMA DecideFit ==
    ASSUME NEW s, NEW x, NEW c, Fit(s, x, c), NEW ids, NEW v \in Verdicts \ {"thirdParty"}
    PROVE  LET z == Decided(s, ids, v)
           IN  /\ Fit(z, x, c) /\ SameWaiting(z, s) /\ SameActive(z, s)
               /\ \A lag : Fresh(s, x, lag) => Fresh(z, x, lag)
<1> DEFINE z == Decided(s, ids, v)
<1>1. s \in Dedups /\ Waiting(s, x) /\ Backed(s) /\ Room(s) /\ Protected(s, x, c) /\ Attributed(s, x)
  BY DEF Fit
<1>2. /\ z \in Dedups /\ SameWaiting(z, s) /\ SameActive(z, s) /\ SameRecovery(z, s)
      /\ z.verdict = [i \in Ids |-> IF i \in ids THEN v ELSE s.verdict[i]]
  BY <1>1, DecidedFacts
<1> HIDE DEF z
<1>3. Waiting(z, x) /\ Backed(z)
  BY <1>1, <1>2 DEF Waiting, Backed, SameWaiting, SameActive
<1>4. Room(z)
  BY <1>1, <1>2, FewerWait DEF SameWaiting
<1>5. Protected(z, x, c)
  BY <1>1, <1>2 DEF Protected, ProtectedAt, SafeAt, CoveredAt, SameWaiting, SameActive, SameRecovery
<1>6. Attributed(z, x)
  BY <1>1, <1>2 DEF Attributed
<1>7. \A lag : Fresh(s, x, lag) => Fresh(z, x, lag)
  BY <1>2 DEF Fresh, SameWaiting
<1> QED
  BY <1>2, <1>3, <1>4, <1>5, <1>6, <1>7 DEF Fit, z

LEMMA ReportedStep ==
    ASSUME DedupInv, NEW i \in DOMAIN tx, Reported(i)
    PROVE  DedupInv'
<1>1. /\ Wire(tx, closed) /\ Fit(d, tx, closed) /\ WireTypes(tx) /\ d.epoch <= MaxEpoch
      /\ address \in Addresses /\ unsent \in BOOLEAN /\ subscribed \in BOOLEAN /\ closed \in BOOLEAN
  BY DEF DedupInv, Scalars, Wire
<1>2. address' = address /\ subscribed' = subscribed /\ closed' = closed /\ tx[i].report = "due"
  BY DEF Reported
<1> DEFINE b == Begin(0)
           learnt == LearnAddress(b, tx[i].address)
           retained == Retain(learnt, Hash(i))
           m == MatchPending(retained, Hash(i))
<1>3. PICK outcome \in {"success", "failed", "unfit"} :
        /\ tx' = [tx EXCEPT ![i].report = outcome]
        /\ outcome # "failed" => learnt.epoch <= MaxEpoch
        /\ Ends(CASE outcome = "failed"  -> b
                  [] outcome = "unfit"   -> EnterDegraded(learnt)
                  [] outcome = "success" -> RecordEvidence(m, 0))
  BY DEF Reported
<1>4. Fit(b, tx, closed) /\ Fresh(b, tx, 0) /\ b.epoch = d.epoch
  BY <1>1, BeginFit, Budgets
<1> HIDE DEF b
<1>5. Fit(learnt, tx, closed) /\ Fresh(learnt, tx, 0)
  BY <1>1, <1>4, LearnFit, WireFields
<1> HIDE DEF learnt
<1>6. /\ tx[i] \in Tx /\ DOMAIN tx' = DOMAIN tx
      /\ tx'[i] = [tx[i] EXCEPT !.report = outcome]
      /\ \A j \in DOMAIN tx \ {i} : tx'[j] = tx[j]
  BY <1>1, <1>3, WireFields
<1>7. /\ tx'[i] \in Tx /\ tx'[i].report = outcome /\ tx'[i].kind = tx[i].kind /\ tx'[i].address = tx[i].address
      /\ tx'[i].age = tx[i].age /\ tx'[i].copy = tx[i].copy
  BY <1>6 DEF Tx, Reports
<1>8. Progress(tx, tx')
  BY <1>2, <1>6, <1>7 DEF Progress
<1>9. WireTypes(tx')
  <2>1. tx \in Seq(Tx) /\ Len(tx) <= MaxTransactions
    BY <1>1 DEF WireTypes
  <2>2. tx' \in Seq(Tx) /\ Len(tx') = Len(tx)
    <3> DEFINE r == [tx[i] EXCEPT !.report = outcome]
    <3>1. r \in Tx /\ tx' = [tx EXCEPT ![i] = r]
      BY <1>3, <1>6, <1>7
    <3> HIDE DEF r
    <3> QED
      BY <2>1, <3>1
  <2> QED
    BY <2>1, <2>2 DEF WireTypes
<1>10. Wire(tx', closed')
  <2>1. \A j \in DOMAIN tx : tx'[j].copy = "seen" => tx[j].copy = "seen"
    BY <1>6, <1>7
  <2>2. Wire(tx', closed)
    BY <1>1, <1>8, <1>9, <2>1, LostFacts
  <2> QED
    BY <1>2, <2>2
<1>11. ASSUME NEW s, Fit(s, tx, closed), Fresh(s, tx, 0)
       PROVE  /\ Core(s, tx') /\ Fresh(s, tx', 0)
              /\ \A j \in DOMAIN tx \ {i} : FirstOwn(tx', j) => ProtectedAt(s, tx', closed, j)
  <2>1. Core(s, tx) /\ Protected(s, tx, closed)
    BY <1>11, FitIsCore
  <2>2. /\ \A j \in DOMAIN tx : FirstOwn(tx', j) <=> FirstOwn(tx, j)
        /\ Core(s, tx') /\ Fresh(s, tx', 0)
        /\ \A j \in DOMAIN tx : FirstOwn(tx, j) /\ tx'[j].report = tx[j].report => ProtectedAt(s, tx', closed, j)
    BY <1>1, <1>8, <1>11, <2>1, ProgressFacts
  <2> QED
    BY <1>6, <2>2
<1>12. CASE outcome = "failed"
  <2>1. /\ Core(b, tx') /\ \A j \in DOMAIN tx \ {i} : FirstOwn(tx', j) => ProtectedAt(b, tx', closed, j)
    BY <1>4, <1>11
  <2>2. ProtectedAt(b, tx', closed, i)
    BY <1>7, <1>12 DEF ProtectedAt
  <2>3. Protected(b, tx', closed)
    BY <1>6, <2>1, <2>2 DEF Protected
  <2>4. Fit(b, tx', closed')
    BY <1>2, <2>1, <2>3, FitIsCore
  <2>5. Ends(b)
    BY <1>3, <1>12
  <2> QED
    BY <1>1, <1>2, <1>4, <1>10, <2>4, <2>5, EndsInv
<1>13. CASE outcome = "unfit"
  <2>1. Core(learnt, tx') /\ learnt \in Dedups
    BY <1>5, <1>11 DEF Core
  <2>2. Fit(EnterDegraded(learnt), tx', closed')
    BY <2>1, DegradedFit
  <2>3. EnterDegraded(learnt).epoch = learnt.epoch /\ learnt.epoch <= MaxEpoch
    BY <1>3, <1>13, <2>1, EnterDegradedFacts DEF SameWaiting
  <2>4. Ends(EnterDegraded(learnt))
    BY <1>3, <1>13
  <2> QED
    BY <1>1, <1>2, <1>10, <2>2, <2>3, <2>4, EndsInv
<1>14. CASE outcome = "success"
  <2>1. /\ Core(learnt, tx') /\ Fresh(learnt, tx', 0)
        /\ \A j \in DOMAIN tx \ {i} : FirstOwn(tx', j) => ProtectedAt(learnt, tx', closed, j)
    BY <1>5, <1>11
  <2>2. WireTypes(tx') /\ InOrder(tx') /\ InTime(tx', closed) /\ tx'[i].report = "success"
    BY <1>2, <1>7, <1>10, <1>14 DEF Wire
  <2>3. Fit(m, tx', closed) /\ Fresh(m, tx', 0) /\ m.epoch = learnt.epoch
    BY <1>1, <1>8, <2>1, <2>2, MatchFit
  <2> HIDE DEF m
  <2>4. Fit(RecordEvidence(m, 0), tx', closed') /\ RecordEvidence(m, 0).epoch = m.epoch
    BY <1>2, <1>10, <2>3, EvidenceFit, Budgets
  <2>5. Ends(RecordEvidence(m, 0)) /\ learnt.epoch <= MaxEpoch
    BY <1>3, <1>14
  <2> QED
    BY <1>1, <1>2, <1>10, <2>3, <2>4, <2>5, EndsInv
<1> QED
  BY <1>12, <1>13, <1>14

LEMMA ObserverFaultStep ==
    ASSUME DedupInv, ObserverFault
    PROVE  DedupInv'
<1>1. /\ Wire(tx, closed) /\ Fit(d, tx, closed) /\ WireTypes(tx) /\ d.epoch <= MaxEpoch
      /\ address \in Addresses /\ unsent \in BOOLEAN /\ subscribed \in BOOLEAN /\ closed \in BOOLEAN
  BY DEF DedupInv, Scalars, Wire
<1> DEFINE b == Begin(0)
           o == [b EXCEPT !.active = NoneActive, !.credit = NoCredit]
<1>2. /\ address' = address /\ subscribed' = subscribed /\ closed' = closed
      /\ Ends(EnterDegraded(o))
  BY DEF ObserverFault
<1>3. PICK lost \in SUBSET {i \in DOMAIN tx : tx[i].report = "due"} :
        tx' = [i \in DOMAIN tx |-> IF i \in lost THEN [tx[i] EXCEPT !.report = "lost"] ELSE tx[i]]
  BY DEF ObserverFault
<1>4. Fit(b, tx, closed) /\ b.epoch = d.epoch
  BY <1>1, BeginFit, Budgets
<1> HIDE DEF b
<1>5. b \in Dedups /\ Core(b, tx)
  BY <1>4, FitIsCore DEF Core
<1>6. \A i \in DOMAIN tx : /\ tx'[i] \in Tx /\ tx'[i].kind = tx[i].kind
                           /\ tx'[i].address = tx[i].address /\ tx'[i].age = tx[i].age
                           /\ tx'[i].copy = tx[i].copy
                           /\ tx'[i].report = IF i \in lost THEN "lost" ELSE tx[i].report
  <2> SUFFICES ASSUME NEW i \in DOMAIN tx
               PROVE  /\ tx'[i] \in Tx /\ tx'[i].kind = tx[i].kind
                      /\ tx'[i].address = tx[i].address /\ tx'[i].age = tx[i].age
                      /\ tx'[i].copy = tx[i].copy
                      /\ tx'[i].report = IF i \in lost THEN "lost" ELSE tx[i].report
    OBVIOUS
  <2>1. tx'[i] = IF i \in lost THEN [tx[i] EXCEPT !.report = "lost"] ELSE tx[i]
    BY <1>3
  <2>2. tx[i] \in Tx
    BY <1>1, WireFields
  <2> QED
    BY <2>1, <2>2 DEF Tx, Reports
<1>7. DOMAIN tx' = DOMAIN tx
  BY <1>3
<1>8. Progress(tx, tx')
  BY <1>3, <1>6, <1>7 DEF Progress
<1>9. WireTypes(tx')
  BY <1>1, <1>3, <1>6, MappedSeq
<1>10. Wire(tx', closed')
  BY <1>1, <1>2, <1>6, <1>8, <1>9, LostFacts
<1>11. Core(b, tx')
  BY <1>1, <1>5, <1>8, ProgressFacts
<1>12. /\ o \in Dedups /\ o.active = NoneActive /\ o.credit = NoCredit /\ SameWaiting(o, b)
       /\ o.verdict = b.verdict
  BY <1>5, NoneFacts DEF Dedups, SameWaiting
<1> HIDE DEF o
<1>13. Core(o, tx')
  <2>1. Waiting(o, tx')
    <3> SUFFICES ASSUME NEW i \in Ids, o.pending[i] # 0
                 PROVE  /\ i \in DOMAIN tx' /\ tx'[i].copy = "seen" /\ o.pending[i] = o.epoch
                        /\ o.active[HashOf(tx', i)].count = 0
      BY DEF Waiting
    <3>1. i \in DOMAIN tx' /\ tx'[i].copy = "seen" /\ o.pending[i] = o.epoch
      BY <1>11, <1>12 DEF Core, Waiting, SameWaiting
    <3>2. HashOf(tx', i) \in Hashes
      BY <1>9, <3>1, WireFields
    <3> QED
      BY <1>12, <3>1, <3>2, NoneFacts
  <2>2. Backed(o)
    BY <1>12, NoneFacts DEF Backed
  <2>3. Room(o)
    BY <1>11, <1>12, FewerWait DEF Core, SameWaiting
  <2>4. Attributed(o, tx')
    BY <1>11, <1>12 DEF Core, Attributed
  <2> QED
    BY <1>12, <2>1, <2>2, <2>3, <2>4 DEF Core
<1>14. Fit(EnterDegraded(o), tx', closed')
  BY <1>13, DegradedFit
<1>15. EnterDegraded(o).epoch = o.epoch /\ o.epoch = d.epoch
  BY <1>4, <1>12, EnterDegradedFacts DEF SameWaiting
<1> QED
  BY <1>1, <1>2, <1>10, <1>14, <1>15, EndsInv

LEMMA ResetStep ==
    ASSUME DedupInv, NEW s, Fit(s, tx, closed), s.epoch = d.epoch, d.epoch < MaxEpoch,
           NEW lost \in SUBSET {i \in DOMAIN tx : tx[i].copy = "due"}, tx' = CopiesLost(lost),
           Ends(MakeDiscontinuity(s)), UNCHANGED <<address, subscribed, closed>>
    PROVE  DedupInv'
<1>1. /\ Wire(tx, closed) /\ WireTypes(tx) /\ d \in Dedups
      /\ address \in Addresses /\ unsent \in BOOLEAN /\ subscribed \in BOOLEAN /\ closed \in BOOLEAN
  BY DEF DedupInv, Scalars, Wire, Fit
<1>2. tx' = [i \in DOMAIN tx |-> IF i \in lost THEN [tx[i] EXCEPT !.copy = "lost"] ELSE tx[i]]
  BY DEF CopiesLost
<1>3. \A i \in DOMAIN tx : /\ tx'[i] \in Tx /\ tx'[i].kind = tx[i].kind
                           /\ tx'[i].address = tx[i].address /\ tx'[i].age = tx[i].age
                           /\ tx'[i].report = tx[i].report
                           /\ tx'[i].copy = IF i \in lost THEN "lost" ELSE tx[i].copy
  <2> SUFFICES ASSUME NEW i \in DOMAIN tx
               PROVE  /\ tx'[i] \in Tx /\ tx'[i].kind = tx[i].kind
                      /\ tx'[i].address = tx[i].address /\ tx'[i].age = tx[i].age
                      /\ tx'[i].report = tx[i].report
                      /\ tx'[i].copy = IF i \in lost THEN "lost" ELSE tx[i].copy
    OBVIOUS
  <2>1. tx'[i] = IF i \in lost THEN [tx[i] EXCEPT !.copy = "lost"] ELSE tx[i]
    BY <1>2
  <2>2. tx[i] \in Tx
    BY <1>1, WireFields
  <2> QED
    BY <2>1, <2>2 DEF Tx, Copies
<1>4. DOMAIN tx' = DOMAIN tx
  BY <1>2
<1>5. Progress(tx, tx')
  BY <1>3, <1>4 DEF Progress
<1>6. WireTypes(tx')
  BY <1>1, <1>2, <1>3, MappedSeq
<1>7. Wire(tx', closed')
  <2>1. \A i \in DOMAIN tx : tx'[i].copy = "seen" => tx[i].copy = "seen"
    BY <1>3
  <2> QED
    BY <1>1, <1>5, <1>6, <2>1, LostFacts
<1>8. s \in Dedups /\ Core(s, tx)
  BY FitIsCore DEF Core
<1>9. Core(s, tx')
  BY <1>1, <1>5, <1>8, ProgressFacts
<1>10. Fit(MakeDiscontinuity(s), tx', closed') /\ MakeDiscontinuity(s).epoch = s.epoch + 1
  BY <1>6, <1>8, <1>9, DiscontinuityFit DEF Core
<1>11. MakeDiscontinuity(s).epoch <= MaxEpoch
  BY <1>1, <1>10, DedupFields, Budgets
<1> QED
  BY <1>1, <1>7, <1>10, <1>11, EndsInv

LEMMA DiscontinuityStep ==
    ASSUME DedupInv, Discontinuity
    PROVE  DedupInv'
<1>1. PICK lost \in SUBSET {i \in DOMAIN tx : tx[i].copy = "due"} : tx' = CopiesLost(lost)
  BY DEF Discontinuity
<1>2. PICK lag \in 0 .. PassiveDeliveryBudget : Ends(MakeDiscontinuity(Begin(lag)))
  BY DEF Discontinuity
<1>3. Fit(Begin(lag), tx, closed) /\ Begin(lag).epoch = d.epoch
  BY BeginFit DEF DedupInv
<1>4. d.epoch < MaxEpoch /\ UNCHANGED <<address, subscribed, closed>>
  BY DEF Discontinuity
<1> QED
  BY <1>1, <1>2, <1>3, <1>4, ResetStep

LEMMA SubscriptionStep ==
    ASSUME DedupInv, PassiveSubscriptionReset
    PROVE  DedupInv'
<1>1. PICK lost \in SUBSET {i \in DOMAIN tx : tx[i].copy = "due"} : tx' = CopiesLost(lost)
  BY DEF PassiveSubscriptionReset
<1>2. /\ Ends(MakeDiscontinuity(d)) /\ d.epoch < MaxEpoch /\ UNCHANGED <<address, subscribed, closed>>
      /\ Fit(d, tx, closed)
  BY DEF PassiveSubscriptionReset, DedupInv
<1> QED
  BY <1>1, <1>2, ResetStep

\* A retained report goes to its copy.
LEMMA ConsumeFit ==
    ASSUME NEW s, NEW y, NEW c, NEW i \in DOMAIN y, WireTypes(y), Fit(s, y, c),
           s.active[HashOf(y, i)].count >= 1,
           \A j \in DOMAIN y : j <= i => y[j].copy # "due"
    PROVE  LET z == ConsumeActive(s, HashOf(y, i))
           IN  Fit(z, y, c) /\ SameWaiting(z, s)
<1> DEFINE h == HashOf(y, i)
           z == ConsumeActive(s, h)
<1>1. s \in Dedups /\ Waiting(s, y) /\ Backed(s) /\ Room(s) /\ Protected(s, y, c) /\ Attributed(s, y)
  BY DEF Fit
<1>2. h \in Hashes
  BY WireFields
<1>3. s.active[h].count >= 1
  OBVIOUS
<1> HIDE DEF h
<1>4. /\ z \in Dedups /\ SameWaiting(z, s) /\ SameRecovery(z, s) /\ z.verdict = s.verdict
      /\ z.active[h].count = s.active[h].count - 1 /\ z.credit[h] = s.credit[h] - 1
      /\ \A g \in Hashes \ {h} : z.active[g] = s.active[g] /\ z.credit[g] = s.credit[g]
  BY <1>1, <1>2, <1>3, ConsumeFacts
<1> HIDE DEF z
<1>5. s.active[h].count \in Nat /\ s.credit[h] \in Int /\ s.active[h].count <= s.credit[h]
  BY <1>1, <1>2, DedupFields DEF Backed
<1>6. Waiting(z, y)
  <2> SUFFICES ASSUME NEW j \in Ids, z.pending[j] # 0
               PROVE  /\ j \in DOMAIN y /\ y[j].copy = "seen" /\ z.pending[j] = z.epoch
                      /\ z.active[HashOf(y, j)].count = 0
    BY DEF Waiting
  <2>1. /\ j \in DOMAIN y /\ y[j].copy = "seen" /\ s.pending[j] = s.epoch
        /\ s.active[HashOf(y, j)].count = 0
    BY <1>1, <1>4 DEF Waiting, SameWaiting
  <2>2. HashOf(y, j) \in Hashes /\ HashOf(y, j) # h
    BY <1>3, <2>1, WireFields
  <2> QED
    BY <1>4, <2>1, <2>2 DEF SameWaiting
<1>7. Backed(z)
  BY <1>1, <1>4, <1>5 DEF Backed
<1>8. Room(z)
  BY <1>1, <1>4, FewerWait DEF SameWaiting
<1>9. Attributed(z, y)
  BY <1>1, <1>4 DEF Attributed
<1>10. Protected(z, y, c)
  <2> SUFFICES ASSUME NEW j \in DOMAIN y, FirstOwn(y, j) PROVE ProtectedAt(z, y, c, j)
    BY DEF Protected
  <2>1. ProtectedAt(s, y, c, j) /\ HashOf(y, j) \in Hashes
    BY <1>1, WireFields DEF Protected
  <2>2. SafeAt(s, y, j) => SafeAt(z, y, j)
    BY <1>4 DEF SafeAt, SameRecovery
  <2>3. z.pending = s.pending
    BY <1>4 DEF SameWaiting
  <2>4. CASE HashOf(y, j) = h
    <3>1. i < j => i \in 1 .. j - 1
      BY WireFields
    <3>2. ~(i < j)
      BY <2>4, <3>1 DEF FirstOwn, h
    <3>3. j <= i
      BY <3>2, WireFields
    <3>4. y[j].copy # "due"
      BY <3>3
    <3> QED
      BY <2>1, <2>2, <2>3, <3>4 DEF ProtectedAt
  <2>5. CASE HashOf(y, j) # h
    <3>1. CoveredAt(s, y, j) => CoveredAt(z, y, j)
      BY <1>4, <2>1, <2>5 DEF CoveredAt
    <3> QED
      BY <2>1, <2>2, <2>3, <3>1 DEF ProtectedAt
  <2> QED
    BY <2>4, <2>5
<1> QED
  BY <1>4, <1>6, <1>7, <1>8, <1>9, <1>10 DEF Fit, z, h

\* A copy waits for its report, which is to come unless the recovery is safe.
LEMMA PendFit ==
    ASSUME NEW s, NEW x, NEW y, NEW c, NEW i \in DOMAIN x, ~c, WireTypes(x), WireTypes(y), Progress(x, y),
           Fit(s, x, c), Fit(s, y, c), Fresh(s, y, x[i].age), x[i].copy = "due", y[i].copy = "seen",
           y[i].report = x[i].report,
           s.active[HashOf(y, i)].count = 0, Cardinality(InPending(s)) < PendingCapacity
    PROVE  LET z == Pend(s, i)
           IN  Fit(z, y, c) /\ Fresh(z, y, x[i].age) /\ z.epoch = s.epoch
<1> DEFINE e == s.epoch
           f == [s.pending EXCEPT ![i] = e]
           z == Pend(s, i)
<1>1. s \in Dedups /\ Waiting(s, y) /\ Backed(s) /\ Room(s) /\ Protected(s, y, c) /\ Attributed(s, y)
  BY DEF Fit
<1>2. i \in Ids /\ i \in DOMAIN y /\ x[i].age \in Nat /\ y[i].age = x[i].age
  BY WireFields DEF Progress
<1>3. e \in Nat \ {0}
  BY <1>1, DedupFields
<1>4. z = [s EXCEPT !.pending = f]
  BY DEF Pend
<1> HIDE DEF e
<1>5. f \in [Ids -> Nat] /\ f[i] = e /\ \A j \in Ids \ {i} : f[j] = s.pending[j]
  BY <1>1, <1>2, <1>3, DedupFields
<1> HIDE DEF f
<1>6. /\ z \in Dedups /\ SameActive(z, s) /\ SameRecovery(z, s) /\ z.verdict = s.verdict
      /\ z.epoch = s.epoch /\ z.pending = f
  BY <1>1, <1>4, <1>5 DEF Dedups, SameActive, SameRecovery
<1> HIDE DEF z
<1>7. Waiting(z, y)
  BY <1>1, <1>2, <1>5, <1>6 DEF Waiting, SameActive, e
<1>8. Backed(z) /\ Attributed(z, y)
  BY <1>1, <1>6 DEF Backed, Attributed, SameActive
<1>9. Room(z)
  <2>1. InPending(z) = InPending(s) \cup {i}
    BY <1>2, <1>3, <1>5, <1>6 DEF InPending
  <2>2. InPending(s) \subseteq Ids
    BY DEF InPending
  <2>3. IsFiniteSet(InPending(s))
    BY <2>2, Budgets, FS_Subset
  <2>4. Cardinality(InPending(s)) \in Nat
    BY <2>3, FS_CardinalityType
  <2>5. \/ Cardinality(InPending(s) \cup {i}) = Cardinality(InPending(s))
        \/ Cardinality(InPending(s) \cup {i}) = Cardinality(InPending(s)) + 1
    BY <2>3, FS_AddElement
  <2> QED
    BY <2>1, <2>4, <2>5, Budgets DEF Room
<1>10. Fresh(z, y, x[i].age)
  <2> SUFFICES ASSUME NEW j \in Ids, z.pending[j] # 0 PROVE y[j].age - x[i].age < PendingGraceTimeout
    BY DEF Fresh
  <2>1. CASE j = i
    BY <1>2, <2>1, Budgets
  <2>2. CASE j # i
    BY <1>5, <1>6, <2>2 DEF Fresh
  <2> QED
    BY <2>1, <2>2
<1>11. Protected(z, y, c)
  <2> SUFFICES ASSUME NEW j \in DOMAIN y, FirstOwn(y, j) PROVE ProtectedAt(z, y, c, j)
    BY DEF Protected
  <2>1. ProtectedAt(s, y, c, j) /\ j \in Ids
    BY <1>1, WireFields DEF Protected
  <2>2. SafeAt(s, y, j) => SafeAt(z, y, j)
    BY <1>6 DEF SafeAt, SameRecovery
  <2>3. CoveredAt(s, y, j) => CoveredAt(z, y, j)
    BY <1>6 DEF CoveredAt, SameActive
  <2>4. CASE j = i
    <3>1. FirstOwn(x, i) /\ HashOf(y, i) = HashOf(x, i)
      BY <2>4, ProgressFacts
    <3>2. ProtectedAt(s, x, c, i)
      BY <3>1 DEF Fit, Protected
    <3>3. ~CoveredAt(s, x, i)
      BY <3>1 DEF CoveredAt
    <3>4. y[i].report \in {"success", "lost", "unfit"} => SafeAt(s, x, i)
      BY <3>2, <3>3 DEF ProtectedAt
    <3>5. SafeAt(s, x, i) => SafeAt(s, y, i)
      BY <1>2 DEF SafeAt
    <3> QED
      BY <2>2, <2>4, <3>4, <3>5 DEF ProtectedAt
  <2>5. CASE j # i
    BY <1>5, <1>6, <2>1, <2>2, <2>3, <2>5 DEF ProtectedAt
  <2> QED
    BY <2>4, <2>5
<1> QED
  BY <1>6, <1>7, <1>8, <1>9, <1>10, <1>11 DEF Fit, z

LEMMA ObservedStep ==
    ASSUME DedupInv, NEW i \in DOMAIN tx, Observed(i)
    PROVE  DedupInv'
<1>1. /\ Wire(tx, closed) /\ Fit(d, tx, closed) /\ WireTypes(tx) /\ d.epoch <= MaxEpoch
      /\ address \in Addresses /\ unsent \in BOOLEAN /\ subscribed \in BOOLEAN /\ closed \in BOOLEAN
  BY DEF DedupInv, Scalars, Wire
<1> DEFINE lag == tx[i].age
           s == Begin(lag)
           h == Hash(i)
<1>2. /\ address' = address /\ subscribed' = subscribed /\ closed' = closed /\ ~closed
      /\ tx[i].copy = "due" /\ \A j \in 1 .. i - 1 : tx[j].copy # "due"
      /\ tx' = [tx EXCEPT ![i].copy = "seen"]
  BY DEF Observed
<1>3. \/ Ends(RecordEvidence(s, lag))
      \/ Ends(Decided(s, {i}, "observability"))
      \/ /\ Count(s, h) > 0
         /\ Ends(RecordEvidence(ConsumeActive(Decided(s, {i}, "matched"), h), lag))
      \/ Count(s, h) = 0 /\ Ends(Wait(s, i))
  BY DEF Observed
<1>4. lag \in 0 .. MaxAge /\ lag \in 0 .. PassiveDeliveryBudget /\ lag <= PassiveDeliveryBudget
  BY <1>1, <1>2, WireFields, Budgets DEF Wire, InTime
<1>5. Fit(s, tx, closed) /\ Fresh(s, tx, lag) /\ s.epoch = d.epoch
  BY <1>1, <1>4, BeginFit
<1> HIDE DEF s
<1>6. /\ tx[i] \in Tx /\ DOMAIN tx' = DOMAIN tx
      /\ tx'[i] = [tx[i] EXCEPT !.copy = "seen"]
      /\ \A j \in DOMAIN tx \ {i} : tx'[j] = tx[j]
  BY <1>1, <1>2, WireFields
<1>7. /\ tx'[i] \in Tx /\ tx'[i].copy = "seen" /\ tx'[i].kind = tx[i].kind /\ tx'[i].address = tx[i].address
      /\ tx'[i].age = tx[i].age /\ tx'[i].report = tx[i].report
  BY <1>6 DEF Tx, Copies
<1>8. Progress(tx, tx')
  BY <1>2, <1>6, <1>7 DEF Progress
<1>9. WireTypes(tx')
  <2>1. tx' = [j \in DOMAIN tx |-> tx'[j]]
    BY <1>2
  <2>2. \A j \in DOMAIN tx : tx'[j] \in Tx
    BY <1>1, <1>6, <1>7, WireFields
  <2> QED
    BY <1>1, <1>6, <2>1, <2>2, MappedSeq
<1>10. \A j \in DOMAIN tx' : j <= i => tx'[j].copy # "due"
  <2> SUFFICES ASSUME NEW j \in DOMAIN tx, j <= i PROVE tx'[j].copy # "due"
    BY <1>6
  <2>1. j # i => j \in 1 .. i - 1
    BY <1>1, WireFields
  <2> QED
    BY <1>2, <1>6, <1>7, <2>1
<1>11. InOrder(tx')
  <2> SUFFICES ASSUME NEW k \in DOMAIN tx, NEW j \in DOMAIN tx, j < k, tx'[k].copy = "seen"
               PROVE  tx'[j].copy # "due"
    BY <1>6 DEF InOrder
  <2>1. j \in Nat /\ k \in Nat /\ i \in Nat
    BY <1>1, WireFields
  <2>2. CASE k = i
    BY <1>6, <1>10, <2>1, <2>2
  <2>3. CASE k # i
    <3>1. tx[j].copy # "due"
      BY <1>1, <1>6, <2>3 DEF Wire, InOrder
    <3> QED
      BY <1>8, <3>1 DEF Progress
  <2> QED
    BY <2>2, <2>3
<1>12. Wire(tx', closed) /\ Wire(tx', closed')
  <2>1. InTime(tx', closed)
    BY <1>1, <1>8, ProgressFacts DEF Wire
  <2> QED
    BY <1>2, <1>9, <1>11, <2>1 DEF Wire
<1>13. Fit(s, tx', closed) /\ Fresh(s, tx', lag)
  <2>1. Core(s, tx) /\ Protected(s, tx, closed)
    BY <1>5, FitIsCore
  <2>2. /\ \A j \in DOMAIN tx : FirstOwn(tx', j) <=> FirstOwn(tx, j)
        /\ Core(s, tx') /\ Fresh(s, tx', lag)
        /\ \A j \in DOMAIN tx : FirstOwn(tx, j) /\ tx'[j].report = tx[j].report => ProtectedAt(s, tx', closed, j)
    BY <1>1, <1>5, <1>8, <2>1, ProgressFacts
  <2>3. Protected(s, tx', closed)
    BY <1>6, <1>7, <2>2 DEF Protected
  <2> QED
    BY <2>2, <2>3, FitIsCore
<1>14. h = HashOf(tx', i) /\ h \in Hashes /\ i \in DOMAIN tx'
  BY <1>1, <1>6, <1>7, WireFields DEF Hash, HashOf
<1>15. ASSUME NEW z, Fit(z, tx', closed), z.epoch = d.epoch, Ends(z) PROVE DedupInv'
  BY <1>1, <1>2, <1>12, <1>15, EndsInv
<1>16. ASSUME NEW z, Fit(z, tx', closed), Fresh(z, tx', lag), z.epoch = d.epoch, Ends(RecordEvidence(z, lag))
       PROVE  DedupInv'
  <2>1. Fit(RecordEvidence(z, lag), tx', closed) /\ RecordEvidence(z, lag).epoch = z.epoch
    BY <1>4, <1>12, <1>16, EvidenceFit
  <2> QED
    BY <1>15, <1>16, <2>1
<1>17. "matched" \in Verdicts \ {"thirdParty"} /\ "observability" \in Verdicts \ {"thirdParty"}
  BY DEF Verdicts
<1> HIDE DEF lag, h
<1>18. CASE Ends(RecordEvidence(s, lag))
  BY <1>5, <1>13, <1>16, <1>18
<1>19. CASE Ends(Decided(s, {i}, "observability"))
  <2> DEFINE z == Decided(s, {i}, "observability")
  <2>1. Fit(z, tx', closed) /\ SameWaiting(z, s)
    BY <1>13, <1>17, DecideFit
  <2> HIDE DEF z
  <2> QED
    BY <1>5, <1>15, <1>19, <2>1 DEF SameWaiting, z
<1>20. CASE /\ Count(s, h) > 0
            /\ Ends(RecordEvidence(ConsumeActive(Decided(s, {i}, "matched"), h), lag))
  <2> DEFINE z == Decided(s, {i}, "matched")
             q == ConsumeActive(z, h)
  <2>1. /\ Fit(z, tx', closed) /\ SameWaiting(z, s) /\ SameActive(z, s)
        /\ Fresh(z, tx', lag)
    BY <1>13, <1>17, DecideFit
  <2>2. Ends(RecordEvidence(q, lag))
    BY <1>20
  <2> HIDE DEF z
  <2>3. z.active[h].count >= 1
    <3>1. s.active[h].count \in Nat
      BY <1>13, <1>14, DedupFields DEF Fit
    <3> QED
      BY <1>20, <2>1, <3>1 DEF Count, SameActive
  <2>4. Fit(q, tx', closed) /\ SameWaiting(q, z)
    BY <1>9, <1>10, <1>14, <2>1, <2>3, ConsumeFit
  <2> HIDE DEF q
  <2>5. q.epoch = d.epoch /\ Fresh(q, tx', lag)
    BY <1>5, <2>1, <2>4 DEF SameWaiting, Fresh
  <2> QED
    BY <1>16, <2>2, <2>4, <2>5
<1>21. CASE Count(s, h) = 0 /\ Ends(Wait(s, i))
  <2>1. CASE Cardinality(InPending(s)) >= PendingCapacity
    <3> DEFINE e == EnterDegraded(s)
               z == Decided(e, {i}, "observability")
    <3>1. Ends(z)
      BY <1>21, <2>1 DEF Wait
    <3>2. s \in Dedups /\ Core(s, tx')
      BY <1>13, FitIsCore DEF Core
    <3>3. Fit(e, tx', closed) /\ SameWaiting(e, s)
      BY <3>2, DegradedFit, EnterDegradedFacts
    <3> HIDE DEF e
    <3>4. Fit(z, tx', closed) /\ SameWaiting(z, e)
      BY <1>17, <3>3, DecideFit
    <3> HIDE DEF z
    <3> QED
      BY <1>5, <1>15, <3>1, <3>3, <3>4 DEF SameWaiting
  <2>2. CASE ~(Cardinality(InPending(s)) >= PendingCapacity)
    <3>1. Ends(RecordEvidence(Pend(s, i), lag))
      BY <1>21, <2>2 DEF Wait, lag
    <3>2. InPending(s) \subseteq Ids
      BY DEF InPending
    <3>3. IsFiniteSet(InPending(s))
      BY <3>2, Budgets, FS_Subset
    <3>4. Cardinality(InPending(s)) \in Nat
      BY <3>3, FS_CardinalityType
    <3>5. Cardinality(InPending(s)) < PendingCapacity
      BY <2>2, <3>4, Budgets
    <3>6. s.active[HashOf(tx', i)].count = 0
      BY <1>14, <1>21 DEF Count
    <3>7. Fresh(s, tx', tx[i].age) /\ Fit(s, tx, closed) /\ Fit(s, tx', closed)
      BY <1>5, <1>13 DEF lag
    <3>8. /\ ~closed /\ WireTypes(tx) /\ WireTypes(tx') /\ Progress(tx, tx') /\ tx[i].copy = "due"
          /\ tx'[i].copy = "seen" /\ tx'[i].report = tx[i].report
      BY <1>1, <1>2, <1>7, <1>8, <1>9
    <3>9. /\ Fit(Pend(s, i), tx', closed) /\ Fresh(Pend(s, i), tx', tx[i].age)
          /\ Pend(s, i).epoch = s.epoch
      BY <3>5, <3>6, <3>7, <3>8, PendFit
    <3> QED
      BY <1>5, <1>16, <3>1, <3>9 DEF lag
  <2> QED
    BY <2>1, <2>2
<1> QED
  BY <1>3, <1>18, <1>19, <1>20, <1>21 DEF lag, h

LEMMA ExpireStep ==
    ASSUME DedupInv, Expire
    PROVE  DedupInv'
<1>1. Fit(ReleaseExpired(d, 0), tx, closed) /\ ReleaseExpired(d, 0).epoch = d.epoch
  BY ReleaseFit, Budgets DEF DedupInv
<1>2. Ends(ReleaseExpired(d, 0)) /\ UNCHANGED <<tx, address, subscribed, closed>>
  BY DEF Expire
<1> QED
  BY <1>1, <1>2, EndsInv DEF DedupInv, Scalars

LEMMA OverflowStep ==
    ASSUME DedupInv, PublishOverflows
    PROVE  DedupInv'
<1>1. /\ d' = [MakeDiscontinuity(d) EXCEPT !.outputs = FALSE] /\ subscribed' = FALSE
      /\ d.epoch < MaxEpoch /\ UNCHANGED <<tx, address, unsent, closed>>
  BY DEF PublishOverflows
<1>2. d \in Dedups /\ WireTypes(tx) /\ Attributed(d, tx)
  BY DEF DedupInv, Fit, Wire
<1>3. Fit(MakeDiscontinuity(d), tx, closed) /\ MakeDiscontinuity(d).epoch = d.epoch + 1
  BY <1>2, DiscontinuityFit
<1>4. Fit(d', tx, closed) /\ d'.epoch = d.epoch + 1
  BY <1>1, <1>3, EndsFit
<1>5. d'.epoch <= MaxEpoch
  BY <1>1, <1>2, <1>4, DedupFields, Budgets
<1> QED
  BY <1>1, <1>4, <1>5 DEF DedupInv, Scalars

LEMMA TransactStep ==
    ASSUME DedupInv, NEW kind \in Kinds, Transact(kind)
    PROVE  DedupInv'
<1> DEFINE r == [kind |-> kind, address |-> address, age |-> 0, copy |-> "due",
                 report |-> IF kind \in {"own", "broadcast"} THEN "due" ELSE "none"]
<1>1. /\ WireTypes(tx) /\ InOrder(tx) /\ InTime(tx, closed) /\ Core(d, tx) /\ Protected(d, tx, closed)
      /\ address \in Addresses
  BY FitIsCore DEF DedupInv, Wire, Scalars
<1>2. tx' = Append(tx, r) /\ Len(tx) < MaxTransactions /\ UNCHANGED <<address, d, unsent, subscribed, closed>>
  BY DEF Transact
<1>3. r \in Tx /\ r.age = 0 /\ r.copy = "due" /\ r.report \in {"due", "none"} /\ (r.kind = "own" => r.report = "due")
  BY <1>1, Budgets DEF Tx, Copies, Reports
<1> HIDE DEF r
<1>4. tx \in Seq(Tx) /\ Len(tx) \in Nat /\ DOMAIN tx = 1 .. Len(tx)
  BY <1>1 DEF WireTypes
<1>5. /\ tx' \in Seq(Tx) /\ Len(tx') = Len(tx) + 1 /\ tx'[Len(tx) + 1] = r
      /\ \A i \in DOMAIN tx : tx'[i] = tx[i]
      /\ DOMAIN tx' = 1 .. Len(tx) + 1
  BY <1>2, <1>3, <1>4
<1>6. WireTypes(tx')
  BY <1>2, <1>4, <1>5, Budgets DEF WireTypes
<1>7. \A i \in DOMAIN tx' : i \in DOMAIN tx \/ i = Len(tx) + 1
  BY <1>4, <1>5
<1>8. InOrder(tx')
  <2> SUFFICES ASSUME NEW i \in DOMAIN tx', NEW j \in DOMAIN tx', j < i, tx'[i].copy = "seen"
               PROVE  tx'[j].copy # "due"
    BY DEF InOrder
  <2>1. i \in DOMAIN tx
    BY <1>3, <1>5, <1>7
  <2>2. j \in DOMAIN tx
    BY <1>4, <1>5, <2>1
  <2> QED
    BY <1>1, <1>5, <2>1, <2>2 DEF InOrder
<1>9. InTime(tx', closed)
  <2> SUFFICES ASSUME NEW i \in DOMAIN tx'
               PROVE  /\ tx'[i].report = "due" => tx'[i].age <= ActivePublishBudget
                      /\ tx'[i].copy = "due" /\ ~closed => tx'[i].age <= PassiveDeliveryBudget
                      /\ tx'[i].kind = "own" => tx'[i].report # "none"
    BY DEF InTime
  <2>1. CASE i \in DOMAIN tx
    BY <1>1, <1>5, <2>1 DEF InTime
  <2>2. CASE i = Len(tx) + 1
    BY <1>3, <1>5, <2>2, Budgets
  <2> QED
    BY <1>7, <2>1, <2>2
<1>10. \A i \in DOMAIN tx : HashOf(tx', i) = HashOf(tx, i)
  BY <1>5 DEF HashOf
<1>11. \A i \in DOMAIN tx : FirstOwn(tx', i) <=> FirstOwn(tx, i)
  <2>1. \A i \in DOMAIN tx : 1 .. i - 1 \subseteq DOMAIN tx
    BY <1>4
  <2> QED
    BY <1>5, <1>10, <2>1 DEF FirstOwn
<1>12. DOMAIN tx \subseteq DOMAIN tx'
  BY <1>4, <1>5
<1>13. Core(d, tx')
  <2>1. Waiting(d, tx')
    BY <1>1, <1>5, <1>10, <1>12 DEF Core, Waiting
  <2>2. Attributed(d, tx')
    BY <1>1, <1>5, <1>11, <1>12 DEF Core, Attributed
  <2> QED
    BY <1>1, <2>1, <2>2 DEF Core
<1>14. Protected(d, tx', closed)
  <2> SUFFICES ASSUME NEW i \in DOMAIN tx', FirstOwn(tx', i) PROVE ProtectedAt(d, tx', closed, i)
    BY DEF Protected
  <2>1. CASE i \in DOMAIN tx
    <3>1. ProtectedAt(d, tx, closed, i)
      BY <1>1, <1>11, <2>1 DEF Protected
    <3> QED
      BY <1>5, <1>10, <2>1, <3>1 DEF ProtectedAt, SafeAt, CoveredAt
  <2>2. CASE i = Len(tx) + 1
    BY <1>3, <1>5, <2>2 DEF ProtectedAt
  <2> QED
    BY <1>7, <2>1, <2>2
<1>15. Fit(d, tx', closed) /\ Wire(tx', closed)
  BY <1>6, <1>8, <1>9, <1>13, <1>14, FitIsCore DEF Wire
<1> QED
  BY <1>2, <1>15 DEF DedupInv, Scalars

\* A tick ages a copy that waits or is due as fast as the recovery and the
\* retained reports.
LEMMA TickStep ==
    ASSUME DedupInv, Tick
    PROVE  DedupInv'
<1>1. /\ WireTypes(tx) /\ InOrder(tx) /\ InTime(tx, closed) /\ d \in Dedups /\ Waiting(d, tx) /\ Backed(d)
      /\ Room(d) /\ Protected(d, tx, closed) /\ Attributed(d, tx)
  BY DEF DedupInv, Wire, Fit
<1>2. /\ \A i \in DOMAIN tx :
            /\ tx[i].report = "due" => tx[i].age < ActivePublishBudget
            /\ tx[i].copy = "due" /\ ~closed => tx[i].age < PassiveDeliveryBudget
      /\ UNCHANGED <<address, unsent, subscribed, closed>>
  BY DEF Tick
<1> DEFINE aged(i) == IF Counts(i) THEN Older(tx[i].age) ELSE 0
           left(h) == IF d.active[h].count = 0 THEN 0 ELSE Less(d.active[h].left)
           active == [h \in Hashes |-> [count |-> d.active[h].count, left |-> left(h)]]
           since == IF d.since = -1 THEN d.since ELSE Older(d.since)
<1>3. tx' = [i \in DOMAIN tx |-> [tx[i] EXCEPT !.age = aged(i)]]
  BY DEF Tick
<1>4. d' = [d EXCEPT !.active = active, !.since = since]
  BY DEF Tick
<1>5. \A i \in DOMAIN tx :
        /\ tx[i] \in Tx /\ tx[i].age \in Nat /\ aged(i) \in 0 .. MaxAge /\ aged(i) \in Nat
        /\ aged(i) <= tx[i].age + 1
        /\ Counts(i) /\ tx[i].age < MaxAge => aged(i) = tx[i].age + 1
        /\ Counts(i) /\ ~(tx[i].age < MaxAge) => aged(i) = tx[i].age /\ tx[i].age = MaxAge
  <2> SUFFICES ASSUME NEW i \in DOMAIN tx
               PROVE  /\ tx[i] \in Tx /\ tx[i].age \in Nat /\ aged(i) \in 0 .. MaxAge /\ aged(i) \in Nat
                      /\ aged(i) <= tx[i].age + 1
                      /\ Counts(i) /\ tx[i].age < MaxAge => aged(i) = tx[i].age + 1
                      /\ Counts(i) /\ ~(tx[i].age < MaxAge) => aged(i) = tx[i].age /\ tx[i].age = MaxAge
    OBVIOUS
  <2>1. tx[i] \in Tx /\ tx[i].age \in 0 .. MaxAge /\ tx[i].age \in Nat /\ tx[i].age <= MaxAge
    BY <1>1, WireFields
  <2> QED
    BY <2>1, Budgets DEF Older
<1>6. \A h \in Hashes :
        /\ d.active[h].count \in Nat /\ d.active[h].left \in Int /\ left(h) \in Int
        /\ d.active[h].count >= 1 => left(h) >= d.active[h].left - 1
  BY <1>1, DedupFields, Budgets DEF Less
<1>7. /\ since \in -1 .. MaxAge /\ d.since \in -1 .. MaxAge
      /\ d.since = -1 => since = -1
      /\ d.since # -1 => since <= d.since + 1
  BY <1>1, DedupFields, Budgets DEF Older
<1> HIDE DEF aged, left, since
<1>8. /\ active \in [Hashes -> [count : Nat, left : Int]]
      /\ \A h \in Hashes : active[h].count = d.active[h].count /\ active[h].left = left(h)
  BY <1>6
<1> HIDE DEF active
<1>9. /\ d' \in Dedups /\ d'.active = active /\ d'.since = since /\ d'.degraded = d.degraded
      /\ d'.pending = d.pending /\ d'.epoch = d.epoch /\ d'.credit = d.credit /\ d'.verdict = d.verdict
  BY <1>1, <1>4, <1>7, <1>8 DEF Dedups
<1>10. DOMAIN tx' = DOMAIN tx /\ tx' = [i \in DOMAIN tx |-> tx'[i]]
  BY <1>3
<1>11. \A i \in DOMAIN tx :
         /\ tx'[i] \in Tx /\ tx'[i].age = aged(i) /\ tx'[i].kind = tx[i].kind
         /\ tx'[i].address = tx[i].address /\ tx'[i].copy = tx[i].copy /\ tx'[i].report = tx[i].report
  BY <1>3, <1>5 DEF Tx
<1>12. WireTypes(tx')
  BY <1>1, <1>10, <1>11, MappedSeq
<1>13. InOrder(tx')
  BY <1>1, <1>10, <1>11 DEF InOrder
<1>14. InTime(tx', closed)
  <2> SUFFICES ASSUME NEW i \in DOMAIN tx
               PROVE  /\ tx'[i].report = "due" => tx'[i].age <= ActivePublishBudget
                      /\ tx'[i].copy = "due" /\ ~closed => tx'[i].age <= PassiveDeliveryBudget
                      /\ tx'[i].kind = "own" => tx'[i].report # "none"
    BY <1>10 DEF InTime
  <2>1. tx[i].age \in Nat /\ aged(i) \in Nat /\ aged(i) <= tx[i].age + 1
    BY <1>5
  <2>2. tx[i].kind = "own" => tx[i].report # "none"
    BY <1>1 DEF InTime
  <2> QED
    BY <1>2, <1>11, <2>1, <2>2, Budgets
<1>15. \A i \in DOMAIN tx : HashOf(tx', i) = HashOf(tx, i) /\ HashOf(tx, i) \in Hashes
  BY <1>1, <1>11, WireFields DEF HashOf
<1>16. \A i \in DOMAIN tx : FirstOwn(tx', i) <=> FirstOwn(tx, i)
  <2>1. \A i \in DOMAIN tx : 1 .. i - 1 \subseteq DOMAIN tx
    BY <1>1, WireFields
  <2> QED
    BY <1>11, <1>15, <2>1 DEF FirstOwn
<1>17. Waiting(d', tx') /\ Backed(d')
  <2>1. Waiting(d', tx')
    BY <1>1, <1>8, <1>9, <1>10, <1>11, <1>15 DEF Waiting
  <2>2. Backed(d')
    BY <1>1, <1>8, <1>9 DEF Backed
  <2> QED
    BY <2>1, <2>2
<1>18. Room(d')
  BY <1>1, <1>9, FewerWait
<1>19. Attributed(d', tx')
  BY <1>1, <1>9, <1>10, <1>11, <1>16 DEF Attributed
<1>20. Protected(d', tx', closed)
  <2> SUFFICES ASSUME NEW i \in DOMAIN tx, FirstOwn(tx', i) PROVE ProtectedAt(d', tx', closed, i)
    BY <1>10 DEF Protected
  <2>1. ProtectedAt(d, tx, closed, i) /\ i \in Ids
    BY <1>1, <1>16, WireFields DEF Protected
  <2>2. Counts(i) /\ SafeAt(d, tx, i) => SafeAt(d', tx', i)
    <3> SUFFICES ASSUME Counts(i), d.degraded = TRUE, d.since = -1 \/ d.since <= tx[i].age + PassiveDeliveryBudget
                 PROVE  d'.degraded = TRUE /\ (d'.since = -1 \/ d'.since <= tx'[i].age + PassiveDeliveryBudget)
      BY DEF SafeAt
    <3>1. CASE d.since = -1
      BY <1>7, <1>9, <3>1
    <3>2. CASE d.since # -1 /\ tx[i].age < MaxAge
      <4>1. since <= aged(i) + PassiveDeliveryBudget
        BY <1>5, <1>7, <3>2, Budgets
      <4> QED
        BY <1>9, <1>11, <4>1
    <3>3. CASE d.since # -1 /\ ~(tx[i].age < MaxAge)
      <4>1. since <= aged(i) + PassiveDeliveryBudget
        BY <1>5, <1>7, <3>3, Budgets
      <4> QED
        BY <1>9, <1>11, <4>1
    <3> QED
      BY <3>1, <3>2, <3>3
  <2>3. tx[i].copy = "due" \/ d.pending[i] # 0 => Counts(i)
    BY <2>1 DEF Counts, InPending
  <2>4. tx[i].copy = "due" /\ ~closed /\ CoveredAt(d, tx, i) => CoveredAt(d', tx', i)
    <3> SUFFICES ASSUME tx[i].copy = "due", ~closed, CoveredAt(d, tx, i) PROVE CoveredAt(d', tx', i)
      OBVIOUS
    <3>1. aged(i) = tx[i].age + 1 /\ tx[i].age \in Nat
      BY <1>2, <1>5, <2>3, Budgets
    <3> DEFINE h == HashOf(tx, i)
    <3>2. h \in Hashes /\ HashOf(tx', i) = h
      BY <1>15
    <3>3. d.active[h].count >= 1 /\ d.active[h].left >= ActiveFingerprintRetention - tx[i].age
      BY DEF CoveredAt
    <3> HIDE DEF h
    <3>4. left(h) >= ActiveFingerprintRetention - aged(i)
      BY <1>6, <3>1, <3>2, <3>3, Budgets
    <3> QED
      BY <1>8, <1>9, <1>11, <3>2, <3>3, <3>4 DEF CoveredAt
  <2> QED
    BY <1>9, <1>11, <2>1, <2>2, <2>3, <2>4 DEF ProtectedAt
<1> QED
  BY <1>2, <1>9, <1>12, <1>13, <1>14, <1>17, <1>18, <1>19, <1>20 DEF DedupInv, Wire, Fit, Scalars

LEMMA CloseStep ==
    ASSUME DedupInv, Close
    PROVE  DedupInv'
<1>1. closed' = TRUE /\ subscribed' = FALSE /\ UNCHANGED <<tx, address, d, unsent>>
  BY DEF Close
<1>2. InTime(tx, TRUE)
  BY DEF DedupInv, Wire, InTime
<1>3. Protected(d, tx, TRUE)
  BY DEF DedupInv, Fit, Protected, ProtectedAt
<1> QED
  BY <1>1, <1>2, <1>3 DEF DedupInv, Wire, Fit, Scalars

LEMMA QuietSteps ==
    ASSUME DedupInv, Rejoin \/ Publish \/ Subscribe \/ UNCHANGED vars
    PROVE  DedupInv'
<1>1. UNCHANGED <<tx, d, closed>> /\ address' \in Addresses /\ unsent' \in BOOLEAN /\ subscribed' \in BOOLEAN
  BY DEF DedupInv, Scalars, Rejoin, Publish, Subscribe, vars, Addresses
<1> QED
  BY <1>1 DEF DedupInv, Scalars

LEMMA InitInv ==
    ASSUME Init
    PROVE  DedupInv
<1>1. PICK known \in {0, address} :
        d = [active |-> NoneActive, credit |-> NoCredit, pending |-> NonePending, epoch |-> 1,
             degraded |-> TRUE, since |-> -1, evidence |-> 0, address |-> known, outputs |-> FALSE,
             verdict |-> [i \in Ids |-> "none"]]
  BY DEF Init
<1>2. tx = <<>> /\ address = 1 /\ unsent = FALSE /\ subscribed = TRUE /\ closed = FALSE
  BY DEF Init
<1> DEFINE none == [i \in Ids |-> "none"]
<1>3. none \in [Ids -> Verdicts] /\ (\A i \in Ids : none[i] = "none")
  BY DEF Verdicts
<1>4. -1 \in -1 .. MaxAge /\ known \in Addresses \cup {0} /\ 1 \in Nat \ {0} /\ address \in Addresses
  BY <1>2, Budgets DEF Addresses
<1>5. d.verdict = none
  BY <1>1
<1> HIDE DEF none
<1>6. d \in Dedups
  BY <1>1, <1>3, <1>4, <1>5, NoneFacts DEF Dedups, none
<1>7. /\ d.active = NoneActive /\ d.credit = NoCredit /\ d.pending = NonePending /\ d.epoch = 1
  BY <1>1
<1>8. InPending(d) = {}
  BY <1>7, NoneFacts DEF InPending
<1>9. Room(d)
  BY <1>8, FS_EmptySet, Budgets DEF Room
<1>10. Waiting(d, tx) /\ Backed(d) /\ Attributed(d, tx)
  BY <1>3, <1>5, <1>7, NoneFacts DEF Waiting, Backed, Attributed
<1>11. Protected(d, tx, closed)
  BY <1>2 DEF Protected
<1>12. Wire(tx, closed)
  BY <1>2, Budgets DEF Wire, WireTypes, InOrder, InTime
<1>13. Fit(d, tx, closed)
  BY <1>6, <1>9, <1>10, <1>11 DEF Fit
<1>14. Scalars
  <2>1. d.epoch <= MaxEpoch
    BY <1>7, Budgets
  <2>2. unsent \in BOOLEAN /\ subscribed \in BOOLEAN /\ closed \in BOOLEAN
    BY <1>2
  <2> QED
    BY <1>4, <2>1, <2>2 DEF Scalars
<1> QED
  BY <1>12, <1>13, <1>14 DEF DedupInv

LEMMA NextInv ==
    ASSUME DedupInv, [Next]_vars
    PROVE  DedupInv'
<1>1. CASE Environment
  BY <1>1, TransactStep, QuietSteps DEF Environment
<1>2. CASE BusHandler
  BY <1>2, ReportedStep, ObserverFaultStep DEF BusHandler
<1>3. CASE PassiveLoop
  BY <1>3, ObservedStep, DiscontinuityStep, SubscriptionStep DEF PassiveLoop
<1>4. CASE Publication
  BY <1>4, OverflowStep, QuietSteps DEF Publication
<1> QED
  BY <1>1, <1>2, <1>3, <1>4, TickStep, ExpireStep, CloseStep, QuietSteps DEF Next

-----------------------------------------------------------------------------
(* The theorems                                                              *)

\* The transactions come in order and in time, the copies that wait belong to
\* the epoch, and whatever is first of its fingerprint and the gateway's own is
\* retained until its copy is here or outlasted by the recovery.
THEOREM DedupInvariant == Spec => []DedupInv
<1>1. Init => DedupInv
  BY InitInv
<1>2. DedupInv /\ [Next]_vars => DedupInv'
  BY NextInv
<1> QED
  BY <1>1, <1>2, PTL DEF Spec

\* With the order that NewActivePassiveDeduplicator demands of the budgets and
\* a recovery that outlasts them, the gateway takes no transaction of its own
\* for another's, for every number of transactions and every loss and reset.
THEOREM DedupOwnIsNotThirdParty == Spec => []OwnIsNotThirdParty
<1>1. DedupInv => OwnIsNotThirdParty
  <2> SUFFICES ASSUME DedupInv, NEW i \in DOMAIN tx, tx[i].kind = "own", d.verdict[i] = "thirdParty"
               PROVE  \/ tx[i].report = "failed"
                      \/ tx[i].report # "due" /\ \E j \in 1 .. i - 1 : Hash(j) = Hash(i)
    BY DEF OwnIsNotThirdParty
  <2>1. i \in Ids
    BY WireFields DEF DedupInv, Wire
  <2>2. \/ tx[i].report = "failed"
        \/ tx[i].report # "due" /\ ~FirstOwn(tx, i)
    BY <2>1 DEF DedupInv, Fit, Attributed
  <2> QED
    BY <2>2 DEF FirstOwn, HashOf, Hash
<1> QED
  BY <1>1, DedupInvariant, PTL

\* A report answers for one copy, a copy waits only in the epoch of its arrival
\* and beside no report that answers for it, and the copies fit their buffer.
THEOREM DedupMatchesAreBacked == Spec => []MatchesAreBacked
<1>1. DedupInv => MatchesAreBacked
  <2> SUFFICES ASSUME DedupInv PROVE MatchesAreBacked
    OBVIOUS
  <2>1. d \in Dedups /\ Waiting(d, tx) /\ Backed(d) /\ Room(d) /\ WireTypes(tx) /\ Scalars
    BY DEF DedupInv, Fit, Wire
  <2>2. \A i \in DOMAIN tx : tx[i].kind \in Kinds /\ tx[i].age \in 0 .. MaxAge
    BY <2>1, WireFields
  <2>3. InPending(d) \subseteq DOMAIN tx /\ Cardinality(InPending(d)) <= PendingCapacity
    BY <2>1 DEF InPending, Waiting, Room
  <2>4. d.epoch \in 1 .. MaxEpoch
    BY <2>1, DedupFields, Budgets DEF Scalars
  <2>5. TypeOK
    BY <2>1, <2>2, <2>3, <2>4, DedupFields DEF TypeOK, Scalars
  <2>6. \A h \in Hashes : d.credit[h] >= 0
    <3> SUFFICES ASSUME NEW h \in Hashes PROVE d.credit[h] >= 0
      OBVIOUS
    <3>1. d.active[h].count \in Nat /\ d.credit[h] \in Int /\ d.active[h].count <= d.credit[h]
      BY <2>1, DedupFields DEF Backed
    <3> QED
      BY <3>1
  <2>7. \A i \in InPending(d) : d.pending[i] = d.epoch /\ Count(d, Hash(i)) = 0
    BY <2>1 DEF InPending, Waiting, Count, Hash, HashOf
  <2> QED
    BY <2>5, <2>6, <2>7 DEF MatchesAreBacked
<1> QED
  BY <1>1, DedupInvariant, PTL
===============================================================================
