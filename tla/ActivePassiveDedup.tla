-------------------------- MODULE ActivePassiveDedup --------------------------
(***************************************************************************)
(* The active and passive deduplicator.  The gateway sees its own traffic  *)
(* twice: as reports of its bus and as copies that the passive tap takes   *)
(* from the wire.  A copy that no report claims within the grace time is   *)
(* third-party traffic.  Times are relative, in ticks: ages count up and   *)
(* time left counts down.  A copy is handled at the time stamped on it,    *)
(* which lags behind the clock; everything else at the clock's time.  Both *)
(* come in the order of the wire: reports from the bus, copies through one *)
(* channel.  What happens under the mutex is one step, publication follows *)
(* in others.  Every family policy is one that admits third-party values.  *)
(***************************************************************************)
EXTENDS Integers, Sequences, FiniteSets, FiniteSetsExt

CONSTANTS
    ActivePublishBudget,     \* a report comes within it
    PassiveDeliveryBudget,   \* so does a copy
    PendingGraceTimeout,     \* how long a copy waits for its report
    ActiveFingerprintRetention,
    PendingCapacity,
    RecoveryHysteresis,
    RecoveryEventThreshold,
    MaxTransactions,         \* bound: transactions on the wire
    MaxEpoch                 \* bound: resets

\* The order of the budgets that deriveDedupTimingBudgets derives, which are the
\* ones in use: the constructor compares each budget with the derived one, and
\* nothing with the recovery, which outlasts the copies of a loss by default.
ASSUME DedupBudgets ==
    /\ {ActivePublishBudget, PassiveDeliveryBudget, MaxTransactions} \subseteq Nat
    /\ {PendingGraceTimeout, ActiveFingerprintRetention, RecoveryHysteresis} \subseteq Nat
    /\ {PendingCapacity, RecoveryEventThreshold, MaxEpoch} \subseteq Nat \ {0}
    /\ PendingGraceTimeout > ActivePublishBudget /\ PendingGraceTimeout > PassiveDeliveryBudget
    /\ ActiveFingerprintRetention >= PendingGraceTimeout + PassiveDeliveryBudget
    /\ RecoveryHysteresis > PendingGraceTimeout + PassiveDeliveryBudget

VARIABLES
    tx,         \* the transactions on the wire and what is known of them
    address,    \* the gateway's own bus address
    d,          \* the deduplicator
    unsent,     \* some verdict is not yet published
    subscribed, \* the critical subscriber is subscribed
    closed

vars == <<tx, address, d, unsent, subscribed, closed>>

-----------------------------------------------------------------------------
(* Transactions                                                              *)

Addresses == {1, 2}
Ids == 1 .. MaxTransactions
\* A transaction that is abandoned on the wire is handled as an inbound one is.
Kinds == {"own", "broadcast", "other", "inbound"}
Hashes == Kinds \X Addresses

\* What the hash of a fingerprint tells apart: the sender, the target and the
\* frames, all of which the address of the gateway is part of.
Hash(i) == <<tx[i].kind, tx[i].address>>

MaxAge == RecoveryHysteresis + PassiveDeliveryBudget
Older(age) == IF age < MaxAge THEN age + 1 ELSE age
Less(left) == IF left > -PassiveDeliveryBudget THEN left - 1 ELSE left

\* ...After(now) is false, for a handler that lags behind the clock.
Over(left, lag) == left <= -lag

-----------------------------------------------------------------------------
(* The sections under the mutex, from deduplicator to deduplicator           *)

Count(s, h) == s.active[h].count
Outputs(s) == [s EXCEPT !.outputs = TRUE]
Decided(s, ids, verdict) ==
    [s EXCEPT !.verdict = [i \in Ids |-> IF i \in ids THEN verdict ELSE @[i]],
              !.outputs = @ \/ ids # {}]

\* The copies that wait, each with the epoch of its arrival; they wait in the
\* order of the wire.
InPending(s) == {i \in Ids : s.pending[i] # 0}
Without(s, ids) == [s EXCEPT !.pending = [i \in Ids |-> IF i \in ids THEN 0 ELSE @[i]]]
NonePending == [i \in Ids |-> 0]

\* releaseExpiredPendingLocked and releasePendingAsOutputLocked: a copy waits
\* from the time stamped on it.
Expired(s, lag) == {i \in InPending(s) : tx[i].age - lag >= PendingGraceTimeout}
ReleaseExpired(s, lag) ==
    Decided(Without(s, Expired(s, lag)), Expired(s, lag),
            IF s.degraded THEN "observability" ELSE "thirdParty")

PruneActive(s, lag) ==
    [s EXCEPT !.active = [h \in Hashes |->
        IF Over(@[h].left, lag) THEN [count |-> 0, left |-> 0] ELSE @[h]]]

Begin(lag) == PruneActive(ReleaseExpired(d, lag), lag)

\* Mutant: the degraded state does not restart the recovery.
DegradedKeepsEvidence(s) == [s EXCEPT !.degraded = TRUE]

EnterDegraded(s) == [s EXCEPT !.degraded = TRUE, !.since = -1, !.evidence = 0]

NoneActive == [h \in Hashes |-> [count |-> 0, left |-> 0]]
NoCredit == [h \in Hashes |-> 0]

\* makeDiscontinuityLocked: the copies that wait are dropped without a verdict.
MakeDiscontinuity(s) ==
    Outputs(EnterDegraded([s EXCEPT !.pending = NonePending, !.active = NoneActive,
                                    !.credit = NoCredit, !.epoch = @ + 1]))

\* recordRecoveryEvidenceLocked.
RecordEvidence(s, lag) ==
    LET since == IF s.since = -1 THEN lag ELSE s.since
        evidence == IF s.evidence < RecoveryEventThreshold THEN s.evidence + 1 ELSE s.evidence
    IN  IF ~s.degraded THEN s
        ELSE [s EXCEPT !.since = since, !.evidence = evidence,
                !.degraded = ~(since - lag >= RecoveryHysteresis /\ evidence >= RecoveryEventThreshold)]

\* Mutant: a fingerprint answers for every copy.
ConsumeKeepsActive(s, h) == [s EXCEPT !.credit[h] = @ - 1]

\* consumeActiveLocked.  History: the credit of reports since the last loss.
ConsumeActive(s, h) ==
    [s EXCEPT !.credit[h] = @ - 1,
              !.active[h] = [count |-> @.count - 1, left |-> IF @.count = 1 THEN 0 ELSE @.left]]

Retain(s, h) ==
    [s EXCEPT !.credit[h] = @ + 1,
              !.active[h] = [count |-> @.count + 1, left |-> ActiveFingerprintRetention]]

\* matchPendingLocked: the copy that waits longest takes the report.
MatchPending(s, h) ==
    LET waiting == {i \in InPending(s) : s.pending[i] = s.epoch /\ Hash(i) = h}
        first == Min(waiting)
    IN  IF InPending(s) = {} THEN s
        ELSE IF waiting = {} THEN RecordEvidence(s, 0)
        ELSE RecordEvidence(ConsumeActive(Decided(Without(s, {first}), {first}, "matched"), h), 0)

\* updateLocalAddressLocked.
LearnAddress(s, a) ==
    IF s.address \in {0, a} THEN [s EXCEPT !.address = a]
    ELSE MakeDiscontinuity([s EXCEPT !.address = a])

Eligible(s, i) ==
    \/ tx[i].kind \in {"own", "other"}
    \/ tx[i].kind = "inbound" /\ s.address \notin {0, tx[i].address}

Pend(s, i) == [s EXCEPT !.pending[i] = s.epoch]

\* A full buffer has nothing to release that Begin has not released already.
Wait(s, i) ==
    IF Cardinality(InPending(s)) >= PendingCapacity
    THEN Decided(EnterDegraded(s), {i}, "observability")
    ELSE RecordEvidence(Pend(s, i), tx[i].age)

-----------------------------------------------------------------------------
(* The bus and the wire                                                      *)

Init ==
    /\ tx = <<>>
    /\ address = 1
    /\ \E known \in {0, address} : d = [active |-> NoneActive, credit |-> NoCredit, pending |-> NonePending, epoch |-> 1,
            degraded |-> TRUE, since |-> -1, evidence |-> 0, address |-> known, outputs |-> FALSE,
            verdict |-> [i \in Ids |-> "none"]]
    /\ unsent = FALSE /\ subscribed = TRUE /\ closed = FALSE

Transact(kind) ==
    /\ Len(tx) < MaxTransactions
    /\ tx' = Append(tx, [kind |-> kind, address |-> address, age |-> 0, copy |-> "due",
                         report |-> IF kind \in {"own", "broadcast"} THEN "due" ELSE "none"])
    /\ UNCHANGED <<address, d, unsent, subscribed, closed>>

\* The gateway joins the bus again, under another address.
Rejoin ==
    /\ address = 1 /\ address' = 2
    /\ \A i \in DOMAIN tx : tx[i].report # "due"
    /\ UNCHANGED <<tx, d, unsent, subscribed, closed>>

\* A transaction ages until nothing is to come of it.
Counts(i) == tx[i].report = "due" \/ tx[i].copy = "due" \/ i \in InPending(d)

\* Reports and copies keep their budgets.
Tick ==
    /\ \A i \in DOMAIN tx :
          /\ tx[i].report = "due" => tx[i].age < ActivePublishBudget
          /\ tx[i].copy = "due" /\ ~closed => tx[i].age < PassiveDeliveryBudget
    /\ tx' = [i \in DOMAIN tx |-> [tx[i] EXCEPT !.age = IF Counts(i) THEN Older(@) ELSE 0]]
    /\ d' = [d EXCEPT !.active = [h \in Hashes |->
                          [count |-> @[h].count, left |-> IF @[h].count = 0 THEN 0 ELSE Less(@[h].left)]],
                      !.since = IF @ = -1 THEN @ ELSE Older(@)]
    /\ UNCHANGED <<address, unsent, subscribed, closed>>

\* The section ends, and its outputs are to be published.
Ends(s) == d' = [s EXCEPT !.outputs = FALSE] /\ unsent' = (unsent \/ s.outputs)

-----------------------------------------------------------------------------
(* Handlers                                                                  *)

\* handleBusEvent: an attempt is complete.  An unfit report has no fingerprint.
Reported(i) ==
    /\ tx[i].report = "due" /\ \A j \in 1 .. i - 1 : tx[j].report # "due"
    /\ \E outcome \in {"success", "failed", "unfit"} :
          LET learnt == LearnAddress(Begin(0), tx[i].address)
              retained == Retain(learnt, Hash(i))
          IN  /\ tx' = [tx EXCEPT ![i].report = outcome]
              /\ outcome # "failed" => learnt.epoch <= MaxEpoch
              /\ Ends(CASE outcome = "failed"  -> Begin(0)
                        [] outcome = "unfit"   -> EnterDegraded(learnt)
                        [] outcome = "success" -> RecordEvidence(MatchPending(retained, Hash(i)), 0))
    /\ UNCHANGED <<address, subscribed, closed>>

\* handleBusEvent: reports were lost on the way to the observer.
ObserverFault ==
    /\ \E lost \in SUBSET {i \in DOMAIN tx : tx[i].report = "due"} :
          tx' = [i \in DOMAIN tx |-> IF i \in lost THEN [tx[i] EXCEPT !.report = "lost"] ELSE tx[i]]
    /\ Ends(EnterDegraded([Begin(0) EXCEPT !.active = NoneActive, !.credit = NoCredit]))
    /\ UNCHANGED <<address, subscribed, closed>>

\* handlePassiveEvent: a copy, at the time it was taken.
Observed(i) ==
    /\ ~closed /\ tx[i].copy = "due" /\ \A j \in 1 .. i - 1 : tx[j].copy # "due"
    /\ tx' = [tx EXCEPT ![i].copy = "seen"]
    /\ LET s == Begin(tx[i].age)
       IN  \/ /\ tx[i].kind = "broadcast"
              /\ Ends(RecordEvidence(s, tx[i].age))
           \/ /\ tx[i].kind # "broadcast" /\ ~Eligible(s, i)
              /\ Ends(Decided(s, {i}, "observability"))
           \/ /\ Eligible(s, i) /\ Count(s, Hash(i)) > 0
              /\ Ends(RecordEvidence(ConsumeActive(Decided(s, {i}, "matched"), Hash(i)), tx[i].age))
           \/ /\ Eligible(s, i) /\ Count(s, Hash(i)) = 0
              /\ Ends(Wait(s, i))
    /\ UNCHANGED <<address, subscribed, closed>>

\* The tap loses its place: a discontinuity, or its subscription is reset.
CopiesLost(ids) == [i \in DOMAIN tx |-> IF i \in ids THEN [tx[i] EXCEPT !.copy = "lost"] ELSE tx[i]]

Discontinuity ==
    /\ ~closed /\ d.epoch < MaxEpoch
    /\ \E lost \in SUBSET {i \in DOMAIN tx : tx[i].copy = "due"} : tx' = CopiesLost(lost)
    /\ \E lag \in 0 .. PassiveDeliveryBudget : Ends(MakeDiscontinuity(Begin(lag)))
    /\ UNCHANGED <<address, subscribed, closed>>

PassiveSubscriptionReset ==
    /\ ~closed /\ d.epoch < MaxEpoch
    /\ \E lost \in SUBSET {i \in DOMAIN tx : tx[i].copy = "due"} : tx' = CopiesLost(lost)
    /\ Ends(MakeDiscontinuity(d))
    /\ UNCHANGED <<address, subscribed, closed>>

\* runExpiryLoop; with nothing pending it is no step.
Expire ==
    /\ ~closed /\ InPending(d) # {}
    /\ Ends(ReleaseExpired(d, 0))
    /\ UNCHANGED <<tx, address, subscribed, closed>>

-----------------------------------------------------------------------------
(* Publication                                                               *)

Publish ==
    /\ unsent /\ unsent' = FALSE
    /\ UNCHANGED <<tx, address, d, subscribed, closed>>

\* A critical subscriber that does not keep up is dropped, and a reset follows
\* whose own verdict is published next.
PublishOverflows ==
    /\ unsent /\ subscribed /\ d.epoch < MaxEpoch
    /\ subscribed' = FALSE
    /\ d' = [MakeDiscontinuity(d) EXCEPT !.outputs = FALSE]
    /\ UNCHANGED <<tx, address, unsent, closed>>

Subscribe ==
    /\ ~subscribed /\ ~closed /\ subscribed' = TRUE
    /\ UNCHANGED <<tx, address, d, unsent, closed>>

\* Close waits for the loops and drops the subscribers; reports still come.
Close ==
    /\ ~closed /\ closed' = TRUE /\ subscribed' = FALSE
    /\ UNCHANGED <<tx, address, d, unsent>>

-----------------------------------------------------------------------------
(* Specification                                                             *)

Environment == (\E kind \in Kinds : Transact(kind)) \/ Rejoin
BusHandler == (\E i \in DOMAIN tx : Reported(i)) \/ ObserverFault
PassiveLoop ==
    \/ \E i \in DOMAIN tx : Observed(i)
    \/ Discontinuity \/ PassiveSubscriptionReset
Publication == Publish \/ PublishOverflows \/ Subscribe

Next == Environment \/ Tick \/ BusHandler \/ PassiveLoop \/ Expire \/ Publication \/ Close

Spec == Init /\ [][Next]_vars

-----------------------------------------------------------------------------
(* Properties                                                                *)

Verdicts == {"none", "matched", "thirdParty", "observability"}

\* Every variable has its type, and the copies that wait fit their buffer.
TypeOK ==
    /\ \A i \in DOMAIN tx : tx[i].kind \in Kinds /\ tx[i].age \in 0 .. MaxAge
    /\ address \in Addresses /\ d.address \in Addresses \cup {0}
    /\ d.verdict \in [Ids -> Verdicts] /\ d.epoch \in 1 .. MaxEpoch
    /\ InPending(d) \subseteq DOMAIN tx /\ Cardinality(InPending(d)) <= PendingCapacity
    /\ d.since \in -1 .. MaxAge /\ d.degraded \in BOOLEAN
    /\ unsent \in BOOLEAN /\ subscribed \in BOOLEAN /\ closed \in BOOLEAN

\* The gateway takes no transaction of its own for another's while its report
\* is to come, nor afterwards, unless the attempt failed or an earlier copy with
\* the same fingerprint had the report: over any loss of reports, reset,
\* overflow or change of address, and whatever is unfit for a fingerprint.
OwnIsNotThirdParty ==
    \A i \in DOMAIN tx :
        tx[i].kind = "own" /\ d.verdict[i] = "thirdParty"
        => \/ tx[i].report = "failed"
           \/ tx[i].report # "due" /\ \E j \in 1 .. i - 1 : Hash(j) = Hash(i)

\* A report answers for one copy: since the last loss no more copies were
\* matched than reports came, whatever expired and was renewed in between; no
\* copy from before a reset waits for what comes after it, and none beside a
\* report that answers for it.
MatchesAreBacked ==
    /\ TypeOK
    /\ \A h \in Hashes : d.credit[h] >= 0
    /\ \A i \in InPending(d) : d.pending[i] = d.epoch /\ Count(d, Hash(i)) = 0
=============================================================================
