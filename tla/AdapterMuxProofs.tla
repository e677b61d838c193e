--------------------------- MODULE AdapterMuxProofs ---------------------------
(***************************************************************************)
(* Proofs about AdapterMux for every set of sessions and addresses and     *)
(* every bound: no waiter is answered twice or forgotten, a response is    *)
(* attributed to its own START, and who has left does not own the bus.     *)
(***************************************************************************)
EXTENDS AdapterMux, FiniteSetTheorems, SequenceTheorems, WellFoundedInduction, TLAPS

Made == 1 .. Len(bid)

(* Only one START is out: a response is awaited or absorbed, never both.   *)
OneStart == pending # None => barrier.absorb = 0

(* Every waiter in use is one that was made, by whom its place says.       *)
BidsMade ==
    /\ arb.gateway # None => arb.gateway \in Made /\ Bidder(arb.gateway) = Gateway
    /\ arb.deferred # None => arb.deferred \in Made /\ Bidder(arb.deferred) = Gateway
    /\ \A w \in arb.external : w \in Made /\ Bidder(w) \in Externals
    /\ \A v, w \in arb.external : Bidder(v) = Bidder(w) => v = w
    /\ arb.owner # None => arb.owner \in Made
    /\ pending # None => pending.waiter \in Made

(* A waiter is in one place only.                                          *)
InOnePlace ==
    /\ arb.deferred # None => rl.pc = "send" /\ arb.deferred # arb.gateway
    /\ pending # None => pending.waiter \notin Pending \cup {arb.deferred}

(* The waiters without a result are exactly those that someone holds.      *)
Held(w) ==
    \/ w \in Pending \cup {arb.deferred}
    \/ pending # None /\ pending.waiter = w
HeldIsOpen ==
    \A w \in Waiters : result[w] # "twice" /\ (result[w] = "open" <=> Held(w))

(* The START that is out and what the adapter has still to answer.         *)
Outstanding ==
    /\ closing # "open" => adapter = <<>>
    /\ rl.pc \in {"clear", "fail"} => adapter = <<>>
    /\ late = 0 => /\ rl.pc \in {"grant", "send"} => adapter = <<>>
                   /\ rl.pc = "send" /\ closing = "open" =>
                        IF pending = None THEN barrier.absorb = 1
                        ELSE pending.waiter = rl.waiter /\ ~pending.responded
                   /\ pending # None /\ pending.responded /\ closing = "open"
                        => rl.pc = "grant"
    /\ ResponsesAreAttributed

(* The epoch fence of Close, and the two halves of OwnerIsPresent.         *)
Fences ==
    /\ rl.pc \in {"send", "grant"} /\ pending # None => pending.waiter = rl.waiter
    /\ closing \in {"open", "closing"} /\ rl.pc = "grant" => rl.epoch = epoch
    /\ closing \in {"open", "closing"} /\ rl.pc # "clear" /\ pending # None
         => pending.epoch = epoch
    /\ pending # None => pending.epoch <= epoch
    /\ rl.pc = "grant" => rl.epoch <= epoch
    /\ closing \in {"fenced", "cleared", "failed", "closed"} /\ rl.pc = "grant"
         => rl.epoch # epoch
    /\ closing \in {"cleared", "failed", "closed"} /\ pending # None
         => rl.pc = "send" /\ rl.waiter = pending.waiter
    /\ closing \in {"failed", "closed"} => arb.owner = None
    /\ closing = "closed" => rl.pc = "idle"
    /\ OwnerIsPresent

IndInv ==
    Types /\ OneStart /\ BidsMade /\ InOnePlace /\ HeldIsOpen /\ Outstanding /\ Fences

-----------------------------------------------------------------------------
(* Bidding: the order of the bids is total on bids of different sessions,  *)
(* so a window with a bid in it has a winner.                              *)

LEMMA LeastNatural ==
  ASSUME NEW T \in SUBSET Nat, T # {}
  PROVE  \E n \in T : \A k \in T : n <= k
<1> DEFINE R == {ss \in Nat \X Nat : ss[1] < ss[2]}
<1>1. IsWellFoundedOn(R, Nat)
  BY NatLessThanWellFounded DEF OpToRel
<1>2. \A k, n \in T : ~(<<k, n>> \in R) => n <= k
  OBVIOUS
<1> HIDE DEF R
<1> QED  BY <1>1, <1>2, WFMin, Zenon

LEMMA ConstantTypes ==
  /\ Sessions \subseteq Nat /\ Gateway \notin Externals
  /\ Addresses \subseteq 0 .. 255
  /\ None \notin Waiters /\ None \notin Starts /\ None \notin Sessions
  /\ MaxBids \in Nat /\ MaxLate \in Nat /\ MaxEpoch \in Nat
  BY MuxBounds DEF MuxBounds, Sessions, Gateway

LEMMA BidRecord ==
  ASSUME Types, NEW w \in Made
  PROVE  Bidder(w) \in Sessions /\ Address(w) \in Addresses
<1>1. bid \in Seq([session : Sessions, address : Addresses])
  BY DEF Types
<1>2. bid[w] \in [session : Sessions, address : Addresses]
  BY <1>1, ElementOfSeq DEF Made
<1> QED  BY <1>2 DEF Bidder, Address

LEMMA AddressOrder ==
  ASSUME NEW a \in 0 .. 255, NEW b \in 0 .. 255
  PROVE  /\ a % 16 \in Nat /\ a \div 16 \in Nat
         /\ a % 16 = b % 16 /\ a \div 16 = b \div 16 => a = b
  OBVIOUS

(* A nonempty set of bids of distinct sessions has a highest bid. *)
LEMMA HighestBid ==
  ASSUME Types, NEW E \in SUBSET Made, E # {},
         \A v, w \in E : Bidder(v) = Bidder(w) => v = w
  PROVE  \E w \in E : \A v \in E \ {w} : HigherPriority(w, v)
<1> DEFINE low(w) == Address(w) % 16
           high(w) == Address(w) \div 16
<1>1. \A w \in E : Address(w) \in 0 .. 255 /\ Bidder(w) \in Nat
  <2> TAKE w \in E
  <2> QED  BY BidRecord, ConstantTypes
<1>2. \A w \in E : low(w) \in Nat /\ high(w) \in Nat
  BY <1>1, AddressOrder
<1> HIDE DEF low, high
<1>3. {low(w) : w \in E} \in SUBSET Nat /\ {low(w) : w \in E} # {}
  BY <1>2
<1>31. PICK n \in {low(w) : w \in E} : \A k \in {low(w) : w \in E} : n <= k
  BY <1>3, LeastNatural
<1> DEFINE F == {w \in E : low(w) = n}
<1>4. F # {} /\ F \subseteq E
  BY <1>31
<1>5. {high(w) : w \in F} \in SUBSET Nat /\ {high(w) : w \in F} # {}
  BY <1>2, <1>4
<1>6. PICK h \in {high(w) : w \in F} : \A k \in {high(w) : w \in F} : h <= k
  BY <1>5, LeastNatural
<1> DEFINE G == {w \in F : high(w) = h}
<1>7. G # {} /\ G \subseteq E
  BY <1>4, <1>6
<1>8. {Bidder(w) : w \in G} \in SUBSET Nat /\ {Bidder(w) : w \in G} # {}
  BY <1>1, <1>7
<1>9. PICK s \in {Bidder(w) : w \in G} : \A k \in {Bidder(w) : w \in G} : s <= k
  BY <1>8, LeastNatural
<1>10. PICK w \in G : Bidder(w) = s
  BY <1>9
<1>11. ASSUME NEW v \in E, v # w PROVE HigherPriority(w, v)
  <2>1. n <= low(v) /\ low(w) = n /\ n \in Nat
    BY <1>2, <1>31, <1>10
  <2>2. low(v) = n => h <= high(v) /\ high(w) = h
    BY <1>6, <1>10
  <2>3. low(v) = n /\ high(v) = h => Bidder(w) <= Bidder(v)
    BY <1>9, <1>10
  <2>4. Bidder(w) # Bidder(v)
    BY <1>10, <1>11
  <2>5. low(v) = low(w) /\ high(v) = high(w) => Address(v) = Address(w)
    BY <1>1, <1>10, AddressOrder DEF low, high
  <2>6. Address(v) = Address(w) => low(v) = low(w) /\ high(v) = high(w)
    BY DEF low, high
  <2> QED
    BY <1>1, <1>2, <1>10, <2>1, <2>2, <2>3, <2>4, <2>5, <2>6
    DEF HigherPriority, low, high
<1> QED  BY <1>10, <1>11

LEMMA WinnerWins ==
  ASSUME Types, BidsMade, Eligible # {}
  PROVE  Winner \in Eligible
<1>1. Eligible \in SUBSET Made
  BY DEF Eligible, Pending, BidsMade
<1>2. \A v, w \in Eligible : Bidder(v) = Bidder(w) => v = w
  BY ConstantTypes DEF Eligible, Pending, BidsMade
<1>3. \E w \in Eligible : \A v \in Eligible \ {w} : HigherPriority(w, v)
  BY <1>1, <1>2, HighestBid
<1> QED  BY <1>3 DEF Winner

-----------------------------------------------------------------------------
(* Types.  First what the updates of results, arbitrator and barrier give. *)

LEMMA AnswerType ==
  ASSUME NEW f \in [Waiters -> Results], NEW w \in Waiters,
         NEW r \in {"granted", "refused"}
  PROVE  /\ Answer(f, w, r) \in [Waiters -> Results]
         /\ TryRefuse(f, w) \in [Waiters -> Results]
  BY DEF Answer, TryRefuse, Results

LEMMA RefuseAllType ==
  ASSUME Types, NEW ws
  PROVE  RefuseAll(ws) \in [Waiters -> Results]
  BY DEF Types, RefuseAll, Results

LEMMA SettledType ==
  ASSUME Types
  PROVE  Settled(result) \in [Waiters -> Results]
  BY AnswerType DEF Types, Settled, Arbitrators

LEMMA BarrierType ==
  ASSUME NEW b \in Barriers
  PROVE  /\ NoBarrier \in Barriers
         /\ Fenced(b) \in Barriers
         /\ [b EXCEPT !.fenced = FALSE] \in Barriers
         /\ [b EXCEPT !.absorb = 0] \in Barriers
         /\ b.absorb = 0 => /\ Absorbing(b) \in Barriers
                            /\ Absorbing(Fenced(b)) \in Barriers
         /\ b.absorb > 0 => [Fenced(b) EXCEPT !.absorb = @ - 1] \in Barriers
<1>1. NoBarrier \in Barriers
  BY DEF Barriers, NoBarrier
<1>2. [b EXCEPT !.fenced = FALSE] \in Barriers
  BY DEF Barriers
<1>3. [b EXCEPT !.absorb = 0] \in Barriers
  BY DEF Barriers
<1>4. Fenced(b) \in Barriers /\ Fenced(b).absorb = b.absorb
  BY DEF Barriers, Fenced
<1>5. b.absorb = 0 => Absorbing(b) \in Barriers
  BY DEF Barriers, Absorbing
<1>6. b.absorb = 0 => Absorbing(Fenced(b)) \in Barriers
  BY <1>4 DEF Barriers, Absorbing
<1>7. b.absorb > 0 => [Fenced(b) EXCEPT !.absorb = @ - 1] \in Barriers
  BY <1>4 DEF Barriers
<1> QED  BY <1>1, <1>2, <1>3, <1>4, <1>5, <1>6, <1>7

LEMMA ReleasedType ==
  ASSUME Types, NEW s
  PROVE  Released(s) \in Arbitrators
  BY DEF Types, Released, Arbitrators

LEMMA SupersededType ==
  ASSUME Types, NEW s
  PROVE  Superseded(s) \in Starts \cup {None}
  BY DEF Types, Superseded, InFlight, Starts

LEMMA SynType ==
  ASSUME Types, NEW o \in SynOutcomes
  PROVE  o[1] \in Arbitrators /\ o[2] \in {"unused", "active", "ended"}
  BY ReleasedType DEF Types, SynOutcomes

LEMMA NewBidType ==
  ASSUME Types, NEW s \in Sessions, NEW a \in Addresses, NewBid(s, a)
  PROVE  /\ bid' \in Seq([session : Sessions, address : Addresses])
         /\ Len(bid') = Len(bid) + 1 /\ Len(bid') <= MaxBids
         /\ Len(bid) + 1 \in Waiters
         /\ \A w \in Made : bid'[w] = bid[w]
         /\ bid'[Len(bid) + 1] = [session |-> s, address |-> a]
<1> DEFINE B == [session : Sessions, address : Addresses]
<1>1. bid \in Seq(B) /\ [session |-> s, address |-> a] \in B
  BY DEF Types
<1> HIDE DEF B
<1>2. Len(bid) \in Nat /\ Len(bid) < MaxBids /\ MaxBids \in Nat
  BY <1>1, ConstantTypes, LenProperties DEF NewBid
<1>3. bid' \in Seq(B) /\ Len(bid') = Len(bid) + 1
  BY <1>1, AppendProperties DEF NewBid
<1>4. \A w \in Made : bid'[w] = bid[w]
  BY <1>1, <1>2, AppendProperties DEF NewBid, Made
<1>5. bid'[Len(bid) + 1] = [session |-> s, address |-> a]
  BY <1>1, AppendProperties DEF NewBid
<1> QED  BY <1>2, <1>3, <1>4, <1>5 DEF B, Waiters

LEMMA ExternalStartMakes ==
  ASSUME Types, NEW s \in Externals, NEW a \in Addresses, ExternalStart(s, a)
  PROVE  /\ NewBid(s, a) /\ s \in Sessions
         /\ Len(bid) + 1 \in Waiters
         /\ arb \in Arbitrators /\ result \in [Waiters -> Results]
<1>1. NewBid(s, a) /\ s \in Sessions
  BY DEF ExternalStart, Sessions
<1> QED  BY <1>1, NewBidType DEF Types

LEMMA OpenedType ==
  ASSUME NEW f \in [Waiters -> Results], Len(bid) + 1 \in Waiters
  PROVE  /\ Opened(f) \in [Waiters -> Results]
         /\ [f EXCEPT ![Len(bid) + 1] = "refused"] \in [Waiters -> Results]
  BY DEF Opened, Results

LEMMA CancelPendingType ==
  ASSUME Types, OneStart, NEW s, CancelPendingStart(s)
  PROVE  barrier' \in Barriers /\ result' \in [Waiters -> Results]
<1>1. CASE InFlight(s)
  <2>1. pending # None /\ pending.waiter \in Waiters /\ barrier.absorb = 0
    BY <1>1 DEF InFlight, Types, OneStart, Starts
  <2>2. result' \in [Waiters -> Results]
    BY <1>1, <2>1, AnswerType DEF CancelPendingStart, Types
  <2>3. barrier' \in Barriers
    BY <1>1, <2>1, BarrierType DEF CancelPendingStart, Types
  <2> QED  BY <2>2, <2>3
<1>2. CASE ~InFlight(s)
  BY <1>2 DEF CancelPendingStart, Types
<1> QED  BY <1>1, <1>2

LEMMA StartFailsType ==
  ASSUME Types, StartFails
  PROVE  barrier' \in Barriers /\ result' \in [Waiters -> Results]
<1>1. Settled(result) \in [Waiters -> Results]
  BY SettledType
<1>2. Mine => rl.waiter \in Waiters
  BY DEF Mine, Types, Starts
<1>3. result' \in [Waiters -> Results]
  BY <1>1, <1>2, AnswerType DEF StartFails
<1>4. barrier \in Barriers /\ NoBarrier \in Barriers
  BY BarrierType DEF Types
<1>5. barrier.absorb <= 1
  BY <1>4 DEF Barriers
<1>6. barrier' \in Barriers
  BY <1>4, <1>5 DEF StartFails
<1> QED  BY <1>3, <1>6


LEMMA ResultType ==
  ASSUME Types, OneStart, BidsMade, Next
  PROVE  result' \in [Waiters -> Results]
<1>1. ASSUME NEW a \in Addresses, GatewayStart(a) PROVE result' \in [Waiters -> Results]
  BY <1>1, RefuseAllType, NewBidType
  DEF GatewayStart, NewBid, Opened, GatewayRetires, Types, Results, Sessions
<1>2. ASSUME NEW s \in Externals, NEW a \in Addresses, ExternalStart(s, a) PROVE result' \in [Waiters -> Results]
  BY <1>2, ExternalStartMakes, RefuseAllType, OpenedType DEF ExternalStart
<1>3. ASSUME ExpireGatewayAdmission PROVE result' \in [Waiters -> Results]
  BY <1>3, AnswerType, RefuseAllType, SettledType
  DEF ExpireGatewayAdmission, Types, Starts, Arbitrators
<1>4. ASSUME Select PROVE result' \in [Waiters -> Results]
  BY <1>4, RefuseAllType
  DEF Select, Open
<1>5. ASSUME StartSent PROVE result' \in [Waiters -> Results]
  BY <1>5, AnswerType, RefuseAllType, SettledType
  DEF StartSent, Types, Starts, Arbitrators
<1>6. ASSUME StartFails PROVE result' \in [Waiters -> Results]
  BY <1>6, StartFailsType
<1>7. ASSUME StartedMismatch PROVE result' \in [Waiters -> Results]
  BY <1>7, AnswerType, RefuseAllType, SettledType
  DEF StartedMismatch, Attributed, Response, Idle, Types, Starts,
    Arbitrators
<1>8. ASSUME StartedCancelled PROVE result' \in [Waiters -> Results]
  BY <1>8, AnswerType, RefuseAllType, SettledType
  DEF StartedCancelled, Attributed, Response, Idle, Types, Starts,
    Arbitrators
<1>9. ASSUME Failed PROVE result' \in [Waiters -> Results]
  BY <1>9, AnswerType, RefuseAllType, SettledType
  DEF Failed, Attributed, Response, Idle, Types, Starts, Arbitrators
<1>10. ASSUME GrantRejected PROVE result' \in [Waiters -> Results]
  BY <1>10, AnswerType, RefuseAllType, SettledType
  DEF GrantRejected, Granting, Mine, Types, Starts, Arbitrators
<1>11. ASSUME Grant PROVE result' \in [Waiters -> Results]
  BY <1>11, AnswerType, RefuseAllType, SettledType
  DEF Grant, Granting, Mine, Types, Starts, Arbitrators
<1>12. ASSUME DeadlineExpires PROVE result' \in [Waiters -> Results]
  BY <1>12, AnswerType, RefuseAllType, SettledType
  DEF DeadlineExpires, Types, Starts, Arbitrators
<1>13. ASSUME NEW s \in Externals, SynCancelQueued(s) PROVE result' \in [Waiters -> Results]
  BY <1>13, RefuseAllType
  DEF SynCancelQueued, CancelStart
<1>14. ASSUME NEW s \in Externals, SynCancelInFlight(s) PROVE result' \in [Waiters -> Results]
  BY <1>14, CancelPendingType
  DEF SynCancelInFlight
<1>15. ASSUME NEW s \in Externals, RemoveQueued(s) PROVE result' \in [Waiters -> Results]
  BY <1>15, RefuseAllType
  DEF RemoveQueued, CancelStart
<1>16. ASSUME NEW s \in Externals, RemoveInFlight(s) PROVE result' \in [Waiters -> Results]
  BY <1>16, CancelPendingType
  DEF RemoveInFlight
<1>17. ASSUME BoundaryClears PROVE result' \in [Waiters -> Results]
  BY <1>17, AnswerType, RefuseAllType, SettledType
  DEF BoundaryClears, ClearSelection, Types, Starts, Arbitrators
<1>18. ASSUME BoundaryFails PROVE result' \in [Waiters -> Results]
  BY <1>18, RefuseAllType
  DEF BoundaryFails, FailAllPending
<1>19. ASSUME CloseClears PROVE result' \in [Waiters -> Results]
  BY <1>19, AnswerType, RefuseAllType, SettledType
  DEF CloseClears, Closing, ClearSelection, Types, Starts, Arbitrators
<1>20. ASSUME CloseFails PROVE result' \in [Waiters -> Results]
  BY <1>20, RefuseAllType
  DEF CloseFails, Closing, FailAllPending
<1>21. CASE UNCHANGED result
  BY <1>21 DEF Types, Starts, Arbitrators
<1> QED
  BY <1>1, <1>2, <1>3, <1>4, <1>5, <1>6, <1>7, <1>8, <1>9, <1>10, <1>11,
    <1>12, <1>13, <1>14, <1>15, <1>16, <1>17, <1>18, <1>19, <1>20, <1>21
  DEF Next, Bids, SessionStep, ReadLoopStep, AdapterStep, Timers, CloseStep,
    Syn, SelectNothing, AbsorbResponse, StaleResponse, Started,
    GrantOutlived, GrantRetired, AbsorbReset, AbandonWatchdog,
    OwnershipEnds, GatewaySends, GatewayFails, AddSession, SynCancelGrant,
    RemoveSession, RemoveGrant, Boundary, Close, CloseFences, CloseReturns,
    ResponseLost

LEMMA BarrierStep ==
  ASSUME Types, OneStart, BidsMade, Next
  PROVE  barrier' \in Barriers
<1>1. ASSUME Syn PROVE barrier' \in Barriers
  BY <1>1, BarrierType
  DEF Syn, Idle, Types
<1>2. ASSUME Select PROVE barrier' \in Barriers
  BY <1>2
  DEF Select, Open, Types, Barriers
<1>3. ASSUME StartFails PROVE barrier' \in Barriers
  BY <1>3, StartFailsType
<1>4. ASSUME AbsorbResponse PROVE barrier' \in Barriers
  BY <1>4, BarrierType
  DEF AbsorbResponse, Response, Idle, Types, OneStart
<1>5. ASSUME StaleResponse PROVE barrier' \in Barriers
  BY <1>5, BarrierType
  DEF StaleResponse, Response, Idle, Types, OneStart
<1>6. ASSUME StartedMismatch PROVE barrier' \in Barriers
  BY <1>6, BarrierType
  DEF StartedMismatch, Attributed, Response, Idle, Types, OneStart
<1>7. ASSUME StartedCancelled PROVE barrier' \in Barriers
  BY <1>7, BarrierType
  DEF StartedCancelled, Attributed, Response, Idle, Types, OneStart
<1>8. ASSUME Failed PROVE barrier' \in Barriers
  BY <1>8, BarrierType
  DEF Failed, Attributed, Response, Idle, Types, OneStart
<1>9. ASSUME GrantRetired PROVE barrier' \in Barriers
  BY <1>9, BarrierType
  DEF GrantRetired, Granting, Mine, Types, OneStart
<1>10. ASSUME GrantRejected PROVE barrier' \in Barriers
  BY <1>10, BarrierType
  DEF GrantRejected, Granting, Mine, Types, OneStart
<1>11. ASSUME DeadlineExpires PROVE barrier' \in Barriers
  BY <1>11, BarrierType
  DEF DeadlineExpires, Types, OneStart
<1>12. ASSUME AbsorbReset PROVE barrier' \in Barriers
  BY <1>12, BarrierType
  DEF AbsorbReset, Unanswered, Types, OneStart
<1>13. ASSUME GatewayFails PROVE barrier' \in Barriers
  BY <1>13
  DEF GatewayFails, Types, Barriers
<1>14. ASSUME NEW s \in Externals, SynCancelGrant(s) PROVE barrier' \in Barriers
  BY <1>14, BarrierType
  DEF SynCancelGrant, ReleaseSessionGrant, Types, OneStart
<1>15. ASSUME NEW s \in Externals, SynCancelInFlight(s) PROVE barrier' \in Barriers
  BY <1>15, CancelPendingType
  DEF SynCancelInFlight
<1>16. ASSUME NEW s \in Externals, RemoveGrant(s) PROVE barrier' \in Barriers
  BY <1>16, BarrierType
  DEF RemoveGrant, ReleaseSessionGrant, Types, OneStart
<1>17. ASSUME NEW s \in Externals, RemoveInFlight(s) PROVE barrier' \in Barriers
  BY <1>17, CancelPendingType
  DEF RemoveInFlight
<1>18. ASSUME BoundaryClears PROVE barrier' \in Barriers
  BY <1>18, BarrierType
  DEF BoundaryClears, ClearSelection, Types, OneStart
<1>19. ASSUME CloseClears PROVE barrier' \in Barriers
  BY <1>19, BarrierType
  DEF CloseClears, Closing, ClearSelection, Types, OneStart
<1>20. CASE UNCHANGED barrier
  BY <1>20 DEF Types, OneStart
<1> QED
  BY <1>1, <1>2, <1>3, <1>4, <1>5, <1>6, <1>7, <1>8, <1>9, <1>10, <1>11,
    <1>12, <1>13, <1>14, <1>15, <1>16, <1>17, <1>18, <1>19, <1>20
  DEF Next, Bids, SessionStep, ReadLoopStep, AdapterStep, Timers, CloseStep,
    GatewayStart, ExternalStart, ExpireGatewayAdmission, SelectNothing,
    StartSent, Started, GrantOutlived, Grant, AbandonWatchdog,
    OwnershipEnds, GatewaySends, AddSession, SynCancelQueued, RemoveSession,
    RemoveQueued, Boundary, BoundaryFails, Close, CloseFences, CloseFails,
    CloseReturns, ResponseLost

LEMMA PendingStep ==
  ASSUME Types, OneStart, BidsMade, Next
  PROVE  pending' \in Starts \cup {None}
<1>1. ASSUME NEW a \in Addresses, GatewayStart(a) PROVE pending' \in Starts \cup {None}
  BY <1>1, SupersededType
  DEF GatewayStart, NewBid, Opened, GatewayRetires
<1>2. ASSUME NEW s \in Externals, NEW a \in Addresses, ExternalStart(s, a) PROVE pending' \in Starts \cup {None}
  BY <1>2, SupersededType
  DEF ExternalStart, NewBid, Opened, Types
<1>3. ASSUME Select PROVE pending' \in Starts \cup {None}
  BY <1>3, WinnerWins
  DEF Select, Open, Types, Starts, Eligible, Pending, Arbitrators
<1>4. ASSUME StartFails PROVE pending' \in Starts \cup {None}
  BY <1>4
  DEF StartFails, Mine, Types
<1>5. ASSUME StartedMismatch PROVE pending' \in Starts \cup {None}
  BY <1>5
  DEF StartedMismatch, Attributed, Response, Idle, Types
<1>6. ASSUME StartedCancelled PROVE pending' \in Starts \cup {None}
  BY <1>6
  DEF StartedCancelled, Attributed, Response, Idle, Types
<1>7. ASSUME Started PROVE pending' \in Starts \cup {None}
  BY <1>7
  DEF Started, Attributed, Response, Idle, Types, Starts
<1>8. ASSUME Failed PROVE pending' \in Starts \cup {None}
  BY <1>8
  DEF Failed, Attributed, Response, Idle, Types
<1>9. ASSUME GrantRejected PROVE pending' \in Starts \cup {None}
  BY <1>9
  DEF GrantRejected, Granting, Mine, Types
<1>10. ASSUME Grant PROVE pending' \in Starts \cup {None}
  BY <1>10
  DEF Grant, Granting, Mine, Types
<1>11. ASSUME DeadlineExpires PROVE pending' \in Starts \cup {None}
  BY <1>11
  DEF DeadlineExpires, Types
<1>12. ASSUME NEW s \in Externals, SynCancelInFlight(s) PROVE pending' \in Starts \cup {None}
  BY <1>12
  DEF SynCancelInFlight, CancelPendingStart, Types
<1>13. ASSUME NEW s \in Externals, RemoveInFlight(s) PROVE pending' \in Starts \cup {None}
  BY <1>13
  DEF RemoveInFlight, CancelPendingStart, Types
<1>14. ASSUME BoundaryClears PROVE pending' \in Starts \cup {None}
  BY <1>14
  DEF BoundaryClears, ClearSelection, Types
<1>15. ASSUME CloseClears PROVE pending' \in Starts \cup {None}
  BY <1>15
  DEF CloseClears, Closing, ClearSelection, Types
<1>16. CASE UNCHANGED pending
  BY <1>16 DEF Types
<1> QED
  BY <1>1, <1>2, <1>3, <1>4, <1>5, <1>6, <1>7, <1>8, <1>9, <1>10, <1>11,
    <1>12, <1>13, <1>14, <1>15, <1>16
  DEF Next, Bids, SessionStep, ReadLoopStep, AdapterStep, Timers, CloseStep,
    ExpireGatewayAdmission, Syn, SelectNothing, StartSent, AbsorbResponse,
    StaleResponse, GrantOutlived, GrantRetired, AbsorbReset,
    AbandonWatchdog, OwnershipEnds, GatewaySends, GatewayFails, AddSession,
    SynCancelQueued, SynCancelGrant, RemoveSession, RemoveGrant,
    RemoveQueued, Boundary, BoundaryFails, Close, CloseFences, CloseFails,
    CloseReturns, ResponseLost

LEMMA RlStep ==
  ASSUME Types, OneStart, BidsMade, Next
  PROVE  rl' \in ReadLoop
<1>1. ASSUME Syn PROVE rl' \in ReadLoop
  BY <1>1
  DEF Syn, Idle, Types, ReadLoop, Reading, Pending, Arbitrators
<1>2. ASSUME Select PROVE rl' \in ReadLoop
  BY <1>2, WinnerWins
  DEF Select, Open, Types, ReadLoop, Eligible, Pending, Arbitrators
<1>3. ASSUME SelectNothing PROVE rl' \in ReadLoop
  BY <1>3
  DEF SelectNothing, Types, ReadLoop, Reading
<1>4. ASSUME StartSent PROVE rl' \in ReadLoop
  BY <1>4
  DEF StartSent, Types, ReadLoop, Reading
<1>5. ASSUME StartFails PROVE rl' \in ReadLoop
  BY <1>5
  DEF StartFails, Mine, Types, ReadLoop, Reading
<1>6. ASSUME Started PROVE rl' \in ReadLoop
  BY <1>6, HeadTailProperties
  DEF Started, Attributed, Response, Idle, Types, ReadLoop, Tag, Starts
<1>7. ASSUME GrantOutlived PROVE rl' \in ReadLoop
  BY <1>7
  DEF GrantOutlived, Granting, Types, ReadLoop, Reading
<1>8. ASSUME GrantRetired PROVE rl' \in ReadLoop
  BY <1>8
  DEF GrantRetired, Granting, Mine, Types, ReadLoop, Reading
<1>9. ASSUME GrantRejected PROVE rl' \in ReadLoop
  BY <1>9
  DEF GrantRejected, Granting, Mine, Types, ReadLoop, Reading
<1>10. ASSUME Grant PROVE rl' \in ReadLoop
  BY <1>10
  DEF Grant, Granting, Mine, Types, ReadLoop, Reading
<1>11. ASSUME Boundary PROVE rl' \in ReadLoop
  BY <1>11
  DEF Boundary, Idle, Types, ReadLoop, Reading
<1>12. ASSUME BoundaryClears PROVE rl' \in ReadLoop
  BY <1>12
  DEF BoundaryClears, ClearSelection, Types, ReadLoop, Reading
<1>13. ASSUME BoundaryFails PROVE rl' \in ReadLoop
  BY <1>13
  DEF BoundaryFails, FailAllPending, Types, ReadLoop, Reading
<1>14. CASE UNCHANGED rl
  BY <1>14 DEF Types, ReadLoop, Reading
<1> QED
  BY <1>1, <1>2, <1>3, <1>4, <1>5, <1>6, <1>7, <1>8, <1>9, <1>10, <1>11,
    <1>12, <1>13, <1>14
  DEF Next, Bids, SessionStep, ReadLoopStep, AdapterStep, Timers, CloseStep,
    GatewayStart, ExternalStart, ExpireGatewayAdmission, AbsorbResponse,
    StaleResponse, StartedMismatch, StartedCancelled, Failed,
    DeadlineExpires, AbsorbReset, AbandonWatchdog, OwnershipEnds,
    GatewaySends, GatewayFails, AddSession, SynCancelQueued, SynCancelGrant,
    SynCancelInFlight, RemoveSession, RemoveGrant, RemoveQueued,
    RemoveInFlight, Close, CloseFences, CloseClears, CloseFails,
    CloseReturns, ResponseLost

LEMMA AdapterType ==
  ASSUME Types, OneStart, BidsMade, Next
  PROVE  adapter' \in Seq(Waiters)
<1>1. ASSUME StartSent PROVE adapter' \in Seq(Waiters)
  BY <1>1, AppendProperties
  DEF StartSent, Types, ReadLoop
<1>2. ASSUME AbsorbResponse PROVE adapter' \in Seq(Waiters)
  BY <1>2, HeadTailProperties
  DEF AbsorbResponse, Response, Idle, Types
<1>3. ASSUME StaleResponse PROVE adapter' \in Seq(Waiters)
  BY <1>3, HeadTailProperties
  DEF StaleResponse, Response, Idle, Types
<1>4. ASSUME StartedMismatch PROVE adapter' \in Seq(Waiters)
  BY <1>4, HeadTailProperties
  DEF StartedMismatch, Attributed, Response, Idle, Types
<1>5. ASSUME StartedCancelled PROVE adapter' \in Seq(Waiters)
  BY <1>5, HeadTailProperties
  DEF StartedCancelled, Attributed, Response, Idle, Types
<1>6. ASSUME Started PROVE adapter' \in Seq(Waiters)
  BY <1>6, HeadTailProperties
  DEF Started, Attributed, Response, Idle, Types
<1>7. ASSUME Failed PROVE adapter' \in Seq(Waiters)
  BY <1>7, HeadTailProperties
  DEF Failed, Attributed, Response, Idle, Types
<1>8. ASSUME Boundary PROVE adapter' \in Seq(Waiters)
  BY <1>8
  DEF Boundary, Idle
<1>9. ASSUME Close PROVE adapter' \in Seq(Waiters)
  BY <1>9
  DEF Close, Closing
<1>10. ASSUME ResponseLost PROVE adapter' \in Seq(Waiters)
  BY <1>10, HeadTailProperties
  DEF ResponseLost, Types
<1>11. CASE UNCHANGED adapter
  BY <1>11 DEF Types
<1> QED
  BY <1>1, <1>2, <1>3, <1>4, <1>5, <1>6, <1>7, <1>8, <1>9, <1>10, <1>11
  DEF Next, Bids, SessionStep, ReadLoopStep, AdapterStep, Timers, CloseStep,
    GatewayStart, ExternalStart, ExpireGatewayAdmission, Syn, Select,
    SelectNothing, StartFails, GrantOutlived, GrantRetired, GrantRejected,
    Grant, DeadlineExpires, AbsorbReset, AbandonWatchdog, OwnershipEnds,
    GatewaySends, GatewayFails, AddSession, SynCancelQueued, SynCancelGrant,
    SynCancelInFlight, RemoveSession, RemoveGrant, RemoveQueued,
    RemoveInFlight, BoundaryClears, BoundaryFails, CloseFences, CloseClears,
    CloseFails, CloseReturns

LEMMA ArbType ==
  ASSUME Types, OneStart, BidsMade, Next
  PROVE  arb' \in Arbitrators
<1>1. ASSUME NEW a \in Addresses, GatewayStart(a) PROVE arb' \in Arbitrators
  BY <1>1, NewBidType, ReleasedType
  DEF GatewayStart, NewBid, Opened, GatewayRetires, Types, Arbitrators,
    Sessions
<1>2. ASSUME NEW s \in Externals, NEW a \in Addresses, ExternalStart(s, a) PROVE arb' \in Arbitrators
  BY <1>2, ExternalStartMakes DEF ExternalStart, Arbitrators
<1>3. ASSUME ExpireGatewayAdmission PROVE arb' \in Arbitrators
  BY <1>3
  DEF ExpireGatewayAdmission, Types, Arbitrators
<1>4. ASSUME Syn PROVE arb' \in Arbitrators
  BY <1>4, SynType
  DEF Syn, Idle
<1>5. ASSUME Select PROVE arb' \in Arbitrators
  BY <1>5
  DEF Select, Open, Types, Arbitrators
<1>6. ASSUME StartSent PROVE arb' \in Arbitrators
  BY <1>6
  DEF StartSent, Types, Arbitrators
<1>7. ASSUME StartFails PROVE arb' \in Arbitrators
  BY <1>7
  DEF StartFails, Mine, Types, Arbitrators
<1>8. ASSUME Grant PROVE arb' \in Arbitrators
  BY <1>8
  DEF Grant, Granting, Mine, Types, Arbitrators, Starts
<1>9. ASSUME DeadlineExpires PROVE arb' \in Arbitrators
  BY <1>9
  DEF DeadlineExpires, Types, Arbitrators
<1>10. ASSUME AbandonWatchdog PROVE arb' \in Arbitrators
  BY <1>10, ReleasedType
  DEF AbandonWatchdog
<1>11. ASSUME OwnershipEnds PROVE arb' \in Arbitrators
  BY <1>11, ReleasedType
  DEF OwnershipEnds, Idle
<1>12. ASSUME GatewayFails PROVE arb' \in Arbitrators
  BY <1>12, ReleasedType
  DEF GatewayFails
<1>13. ASSUME NEW s \in Externals, SynCancelQueued(s) PROVE arb' \in Arbitrators
  BY <1>13
  DEF SynCancelQueued, CancelStart, Types, Arbitrators
<1>14. ASSUME NEW s \in Externals, SynCancelGrant(s) PROVE arb' \in Arbitrators
  BY <1>14, ReleasedType
  DEF SynCancelGrant, ReleaseSessionGrant
<1>15. ASSUME NEW s \in Externals, RemoveGrant(s) PROVE arb' \in Arbitrators
  BY <1>15, ReleasedType
  DEF RemoveGrant, ReleaseSessionGrant
<1>16. ASSUME NEW s \in Externals, RemoveQueued(s) PROVE arb' \in Arbitrators
  BY <1>16
  DEF RemoveQueued, CancelStart, Types, Arbitrators
<1>17. ASSUME BoundaryFails PROVE arb' \in Arbitrators
  BY <1>17
  DEF BoundaryFails, FailAllPending, Types, Arbitrators
<1>18. ASSUME CloseFails PROVE arb' \in Arbitrators
  BY <1>18
  DEF CloseFails, Closing, FailAllPending, Types, Arbitrators
<1>19. CASE UNCHANGED arb
  BY <1>19 DEF Types, Arbitrators
<1> QED
  BY <1>1, <1>2, <1>3, <1>4, <1>5, <1>6, <1>7, <1>8, <1>9, <1>10, <1>11,
    <1>12, <1>13, <1>14, <1>15, <1>16, <1>17, <1>18, <1>19
  DEF Next, Bids, SessionStep, ReadLoopStep, AdapterStep, Timers, CloseStep,
    SelectNothing, AbsorbResponse, StaleResponse, StartedMismatch,
    StartedCancelled, Started, Failed, GrantOutlived, GrantRetired,
    GrantRejected, AbsorbReset, GatewaySends, AddSession, SynCancelInFlight,
    RemoveSession, RemoveInFlight, Boundary, BoundaryClears, Close,
    CloseFences, CloseClears, CloseReturns, ResponseLost

LEMMA OthersType ==
  ASSUME Types, OneStart, BidsMade, Next
  PROVE  /\ txn' \in {"unused", "active", "ended"}
         /\ session' \in [Externals -> {"absent", "live", "removed", "released", "unqueued", "gone"}]
         /\ syncancel' \in [Externals -> {"idle", "grant", "inflight"}]
         /\ closing' \in {"open", "closing", "fenced", "cleared", "failed", "closed"}
         /\ epoch' \in Nat /\ late' \in 0 .. MaxLate
<1>1. txn' \in {"unused", "active", "ended"}
  BY SynType
  DEF Next, Bids, SessionStep, ReadLoopStep, AdapterStep, Timers, CloseStep,
    Types, Ended, GatewayStart, ExternalStart, ExpireGatewayAdmission, Syn,
    Select, SelectNothing, StartSent, StartFails, AbsorbResponse,
    StaleResponse, StartedMismatch, StartedCancelled, Started, Failed,
    GrantOutlived, GrantRetired, GrantRejected, Grant, DeadlineExpires,
    AbsorbReset, AbandonWatchdog, OwnershipEnds, GatewaySends, GatewayFails,
    AddSession, SynCancelQueued, SynCancelGrant, SynCancelInFlight,
    RemoveSession, RemoveGrant, RemoveQueued, RemoveInFlight, Boundary,
    BoundaryClears, BoundaryFails, Close, CloseFences, CloseClears,
    CloseFails, CloseReturns, ResponseLost, NewBid, Opened, GatewayRetires,
    Idle, Granting, Mine, ClearSelection, Closing
<1>2. session' \in [Externals -> {"absent", "live", "removed", "released", "unqueued", "gone"}]
  BY
  DEF Next, Bids, SessionStep, ReadLoopStep, AdapterStep, Timers, CloseStep,
    Types, GatewayStart, ExternalStart, ExpireGatewayAdmission, Syn, Select,
    SelectNothing, StartSent, StartFails, AbsorbResponse, StaleResponse,
    StartedMismatch, StartedCancelled, Started, Failed, GrantOutlived,
    GrantRetired, GrantRejected, Grant, DeadlineExpires, AbsorbReset,
    AbandonWatchdog, OwnershipEnds, GatewaySends, GatewayFails, AddSession,
    SynCancelQueued, SynCancelGrant, SynCancelInFlight, RemoveSession,
    RemoveGrant, RemoveQueued, RemoveInFlight, Boundary, BoundaryClears,
    BoundaryFails, Close, CloseFences, CloseClears, CloseFails,
    CloseReturns, ResponseLost, Granting, Mine, ReleaseSessionGrant,
    CancelStart, CancelPendingStart, Closing, FailAllPending
<1>3. syncancel' \in [Externals -> {"idle", "grant", "inflight"}]
  BY
  DEF Next, Bids, SessionStep, ReadLoopStep, AdapterStep, Timers, CloseStep,
    Types, GatewayStart, ExternalStart, ExpireGatewayAdmission, Syn, Select,
    SelectNothing, StartSent, StartFails, AbsorbResponse, StaleResponse,
    StartedMismatch, StartedCancelled, Started, Failed, GrantOutlived,
    GrantRetired, GrantRejected, Grant, DeadlineExpires, AbsorbReset,
    AbandonWatchdog, OwnershipEnds, GatewaySends, GatewayFails, AddSession,
    SynCancelQueued, SynCancelGrant, SynCancelInFlight, RemoveSession,
    RemoveGrant, RemoveQueued, RemoveInFlight, Boundary, BoundaryClears,
    BoundaryFails, Close, CloseFences, CloseClears, CloseFails,
    CloseReturns, ResponseLost, CancelStart, ReleaseSessionGrant,
    CancelPendingStart
<1>4. closing' \in {"open", "closing", "fenced", "cleared", "failed", "closed"}
  BY
  DEF Next, Bids, SessionStep, ReadLoopStep, AdapterStep, Timers, CloseStep,
    Types, GatewayStart, ExternalStart, ExpireGatewayAdmission, Syn, Select,
    SelectNothing, StartSent, StartFails, AbsorbResponse, StaleResponse,
    StartedMismatch, StartedCancelled, Started, Failed, GrantOutlived,
    GrantRetired, GrantRejected, Grant, DeadlineExpires, AbsorbReset,
    AbandonWatchdog, OwnershipEnds, GatewaySends, GatewayFails, AddSession,
    SynCancelQueued, SynCancelGrant, SynCancelInFlight, RemoveSession,
    RemoveGrant, RemoveQueued, RemoveInFlight, Boundary, BoundaryClears,
    BoundaryFails, Close, CloseFences, CloseClears, CloseFails,
    CloseReturns, ResponseLost, Closing, ClearSelection, FailAllPending
<1>5. epoch' \in Nat /\ late' \in 0 .. MaxLate
  BY ConstantTypes
  DEF Next, Bids, SessionStep, ReadLoopStep, AdapterStep, Timers, CloseStep,
    Types, GatewayStart, ExternalStart, ExpireGatewayAdmission, Syn, Select,
    SelectNothing, StartSent, StartFails, AbsorbResponse, StaleResponse,
    StartedMismatch, StartedCancelled, Started, Failed, GrantOutlived,
    GrantRetired, GrantRejected, Grant, DeadlineExpires, AbsorbReset,
    AbandonWatchdog, OwnershipEnds, GatewaySends, GatewayFails, AddSession,
    SynCancelQueued, SynCancelGrant, SynCancelInFlight, RemoveSession,
    RemoveGrant, RemoveQueued, RemoveInFlight, Boundary, BoundaryClears,
    BoundaryFails, Close, CloseFences, CloseClears, CloseFails,
    CloseReturns, ResponseLost, Idle, Closing
<1> QED  BY <1>1, <1>2, <1>3, <1>4, <1>5

LEMMA TypesNext == Types /\ OneStart /\ BidsMade /\ [Next]_vars => Types'
<1> SUFFICES ASSUME Types, OneStart, BidsMade, [Next]_vars PROVE Types'
  OBVIOUS
<1>1. CASE UNCHANGED vars
  BY <1>1 DEF vars, Types
<1>2. ASSUME Next PROVE Types'
  <2>1. /\ bid' \in Seq([session : Sessions, address : Addresses])
        /\ Len(bid') <= MaxBids
    <3>1. ASSUME NEW s \in Sessions, NEW a \in Addresses, NewBid(s, a)
          PROVE  /\ bid' \in Seq([session : Sessions, address : Addresses])
                 /\ Len(bid') <= MaxBids
      BY <3>1, NewBidType
    <3>2. CASE UNCHANGED bid
      BY <3>2 DEF Types
    <3>3. UNCHANGED bid \/ \E s \in Sessions, a \in Addresses : NewBid(s, a)
      BY <1>2
      DEF Sessions, GatewayStart, ExternalStart, ExpireGatewayAdmission,
        Syn, Select, SelectNothing, StartSent, StartFails, AbsorbResponse,
        StaleResponse, StartedMismatch, StartedCancelled, Started, Failed,
        GrantOutlived, GrantRetired, GrantRejected, Grant, DeadlineExpires,
        AbsorbReset, AbandonWatchdog, OwnershipEnds, GatewaySends,
        GatewayFails, AddSession, SynCancelQueued, SynCancelGrant,
        SynCancelInFlight, RemoveSession, RemoveGrant, RemoveQueued,
        RemoveInFlight, Boundary, BoundaryClears, BoundaryFails, Close,
        CloseFences, CloseClears, CloseFails, CloseReturns, ResponseLost,
        Next, Bids, SessionStep, ReadLoopStep, AdapterStep, Timers,
        CloseStep
    <3> QED  BY <3>1, <3>2, <3>3
  <2> QED
    BY <1>2, <2>1, ResultType, BarrierStep, PendingStep, RlStep, AdapterType,
       ArbType, OthersType DEF Types
<1> QED  BY <1>1, <1>2

-----------------------------------------------------------------------------
(* One START at a time. *)

LEMMA AbsorbKept ==
  ASSUME Types
  PROVE  /\ Fenced(barrier).absorb = barrier.absorb
         /\ \A v \in BOOLEAN : [barrier EXCEPT !.fenced = v].absorb = barrier.absorb
         /\ [barrier EXCEPT !.retired = FALSE].absorb = barrier.absorb
         /\ [barrier EXCEPT !.absorb = 0].absorb = 0
         /\ NoBarrier.absorb = 0
  BY DEF Types, Barriers, Fenced, NoBarrier

LEMMA OneStartStep ==
  ASSUME Types, OneStart, Next
  PROVE  OneStart'
<1>1. ASSUME NEW a \in Addresses, GatewayStart(a) PROVE OneStart'
  BY <1>1
  DEF GatewayStart, NewBid, Opened, GatewayRetires, OneStart, Superseded,
    InFlight
<1>2. ASSUME NEW s \in Externals, NEW a \in Addresses, ExternalStart(s, a) PROVE OneStart'
  BY <1>2
  DEF ExternalStart, NewBid, Opened, OneStart, Superseded, InFlight
<1>3. ASSUME Syn PROVE OneStart'
  BY <1>3, AbsorbKept
  DEF Syn, Idle, OneStart
<1>4. ASSUME Select PROVE OneStart'
  BY <1>4, AbsorbKept
  DEF Select, Open, OneStart
<1>5. ASSUME StartFails PROVE OneStart'
  BY <1>5, AbsorbKept
  DEF StartFails, Mine, OneStart
<1>6. ASSUME AbsorbResponse PROVE OneStart'
  BY <1>6, AbsorbKept
  DEF AbsorbResponse, Response, Idle, OneStart
<1>7. ASSUME StaleResponse PROVE OneStart'
  BY <1>7, AbsorbKept
  DEF StaleResponse, Response, Idle, OneStart
<1>8. ASSUME StartedMismatch PROVE OneStart'
  BY <1>8, AbsorbKept
  DEF StartedMismatch, Attributed, Response, Idle, OneStart
<1>9. ASSUME StartedCancelled PROVE OneStart'
  BY <1>9, AbsorbKept
  DEF StartedCancelled, Attributed, Response, Idle, OneStart
<1>10. ASSUME Started PROVE OneStart'
  BY <1>10, AbsorbKept
  DEF Started, Attributed, Response, Idle, OneStart
<1>11. ASSUME Failed PROVE OneStart'
  BY <1>11, AbsorbKept
  DEF Failed, Attributed, Response, Idle, OneStart
<1>12. ASSUME GrantRetired PROVE OneStart'
  BY <1>12, AbsorbKept
  DEF GrantRetired, Granting, Mine, OneStart
<1>13. ASSUME GrantRejected PROVE OneStart'
  BY <1>13, AbsorbKept
  DEF GrantRejected, Granting, Mine, OneStart
<1>14. ASSUME Grant PROVE OneStart'
  BY <1>14, AbsorbKept
  DEF Grant, Granting, Mine, OneStart
<1>15. ASSUME DeadlineExpires PROVE OneStart'
  BY <1>15, AbsorbKept
  DEF DeadlineExpires, OneStart
<1>16. ASSUME AbsorbReset PROVE OneStart'
  BY <1>16, AbsorbKept
  DEF AbsorbReset, Unanswered, OneStart
<1>17. ASSUME GatewayFails PROVE OneStart'
  BY <1>17, AbsorbKept
  DEF GatewayFails, OneStart, Types, Barriers
<1>18. ASSUME NEW s \in Externals, SynCancelGrant(s) PROVE OneStart'
  BY <1>18, AbsorbKept
  DEF SynCancelGrant, ReleaseSessionGrant, OneStart
<1>19. ASSUME NEW s \in Externals, SynCancelInFlight(s) PROVE OneStart'
  BY <1>19, AbsorbKept
  DEF SynCancelInFlight, CancelPendingStart, OneStart, InFlight
<1>20. ASSUME NEW s \in Externals, RemoveGrant(s) PROVE OneStart'
  BY <1>20, AbsorbKept
  DEF RemoveGrant, ReleaseSessionGrant, OneStart
<1>21. ASSUME NEW s \in Externals, RemoveInFlight(s) PROVE OneStart'
  BY <1>21, AbsorbKept
  DEF RemoveInFlight, CancelPendingStart, OneStart, InFlight
<1>22. ASSUME BoundaryClears PROVE OneStart'
  BY <1>22, AbsorbKept
  DEF BoundaryClears, ClearSelection, OneStart
<1>23. ASSUME CloseClears PROVE OneStart'
  BY <1>23, AbsorbKept
  DEF CloseClears, Closing, ClearSelection, OneStart
<1>24. CASE UNCHANGED <<pending, barrier>>
  BY <1>24 DEF OneStart
<1> QED
  BY <1>1, <1>2, <1>3, <1>4, <1>5, <1>6, <1>7, <1>8, <1>9, <1>10, <1>11,
    <1>12, <1>13, <1>14, <1>15, <1>16, <1>17, <1>18, <1>19, <1>20, <1>21,
    <1>22, <1>23, <1>24
  DEF Next, Bids, SessionStep, ReadLoopStep, AdapterStep, Timers, CloseStep,
    ExpireGatewayAdmission, SelectNothing, StartSent, GrantOutlived,
    AbandonWatchdog, OwnershipEnds, GatewaySends, AddSession,
    SynCancelQueued, RemoveSession, RemoveQueued, Boundary, BoundaryFails,
    Close, CloseFences, CloseFails, CloseReturns, ResponseLost

-----------------------------------------------------------------------------
(* Who made the bids.  A bid keeps its session and its address. *)

LEMMA BidsKept ==
  ASSUME Types, Next, NEW w \in Made
  PROVE  w \in Made' /\ Bidder(w)' = Bidder(w) /\ Address(w)' = Address(w)
<1>1. ASSUME NEW s \in Sessions, NEW a \in Addresses, NewBid(s, a)
      PROVE  w \in Made' /\ Bidder(w)' = Bidder(w) /\ Address(w)' = Address(w)
  <2>1. Len(bid) \in Nat
    BY LenProperties DEF Types
  <2>2. bid'[w] = bid[w] /\ Len(bid') = Len(bid) + 1
    BY <1>1, NewBidType
  <2> QED  BY <2>1, <2>2 DEF Made, Bidder, Address
<1>2. CASE UNCHANGED bid
  BY <1>2 DEF Made, Bidder, Address
<1>3. UNCHANGED bid \/ \E s \in Sessions, a \in Addresses : NewBid(s, a)
  BY
  DEF Sessions, GatewayStart, ExternalStart, ExpireGatewayAdmission, Syn,
    Select, SelectNothing, StartSent, StartFails, AbsorbResponse,
    StaleResponse, StartedMismatch, StartedCancelled, Started, Failed,
    GrantOutlived, GrantRetired, GrantRejected, Grant, DeadlineExpires,
    AbsorbReset, AbandonWatchdog, OwnershipEnds, GatewaySends, GatewayFails,
    AddSession, SynCancelQueued, SynCancelGrant, SynCancelInFlight,
    RemoveSession, RemoveGrant, RemoveQueued, RemoveInFlight, Boundary,
    BoundaryClears, BoundaryFails, Close, CloseFences, CloseClears,
    CloseFails, CloseReturns, ResponseLost, Next, Bids, SessionStep,
    ReadLoopStep, AdapterStep, Timers, CloseStep
<1> QED  BY <1>1, <1>2, <1>3

(* The new waiter is in no one's hands. *)
LEMMA NewWaiter ==
  ASSUME Types, NEW s \in Sessions, NEW a \in Addresses, NewBid(s, a),
         NEW w, w = Len(bid) + 1
  PROVE  w \notin Made /\ w \in Made' /\ Bidder(w)' = s
<1>1. Len(bid) \in Nat
  BY LenProperties DEF Types
<1>2. /\ bid'[Len(bid) + 1] = [session |-> s, address |-> a]
      /\ Len(bid') = Len(bid) + 1
  BY NewBidType
<1> QED  BY <1>1, <1>2 DEF Made, Bidder

LEMMA ReleasedFields ==
  ASSUME arb \in Arbitrators, NEW s, NEW r, r = Released(s)
  PROVE  /\ r.gateway = arb.gateway /\ r.deferred = arb.deferred
         /\ r.external = arb.external
         /\ r.owner = IF Owns(s) THEN None ELSE arb.owner
  BY DEF Arbitrators, Released

LEMMA SynFields ==
  ASSUME arb \in Arbitrators, NEW o \in SynOutcomes
  PROVE  /\ o[1].gateway = arb.gateway /\ o[1].deferred = arb.deferred
         /\ o[1].external = arb.external
         /\ o[1].owner \in {arb.owner, None}
  BY ReleasedFields DEF SynOutcomes

(* What all steps but a new bid do to the bids that are held: some are let *)
(* go, the gateway's may be deferred, and one may become the owner or the  *)
(* START that is out.                                                      *)
LetGo ==
    /\ arb'.gateway \in {arb.gateway, None}
    /\ arb'.deferred \in {arb.deferred, arb.gateway, None}
    /\ arb'.external \subseteq arb.external
    /\ arb'.owner \in {arb.owner, None} \cup Made
    /\ pending' # None => pending'.waiter \in Made

LEMMA BidsLetGo ==
  ASSUME BidsMade, LetGo,
         \A w \in Made : w \in Made' /\ Bidder(w)' = Bidder(w)
  PROVE  BidsMade'
  BY DEF BidsMade, LetGo

LEMMA LetGoStep ==
  ASSUME Types, BidsMade, Next, UNCHANGED bid
  PROVE  LetGo
<1>a. arb \in Arbitrators
  BY DEF Types
<1>b. pending \in Starts \cup {None}
  BY DEF Types
<1>c. Len(bid) \in Nat
  BY LenProperties DEF Types
<1>1. ASSUME NEW a \in Addresses, GatewayStart(a) PROVE LetGo
  <2>1. NewBid(Gateway, a) /\ Gateway \in Sessions
    BY <1>1 DEF GatewayStart, Sessions
  <2>2. Len(bid') = Len(bid) + 1
    BY <2>1, NewBidType
  <2> QED  BY <1>c, <2>2
<1>2. ASSUME NEW s \in Externals, NEW a \in Addresses, ExternalStart(s, a) PROVE LetGo
  <2>1. NewBid(s, a) /\ s \in Sessions
    BY <1>2 DEF ExternalStart, Sessions
  <2>2. Len(bid') = Len(bid) + 1
    BY <2>1, NewBidType
  <2> QED  BY <1>c, <2>2
<1>3. ASSUME ExpireGatewayAdmission PROVE LetGo
  BY <1>3, <1>a
  DEF ExpireGatewayAdmission, LetGo, BidsMade, Arbitrators
<1>4. ASSUME Syn PROVE LetGo
  BY <1>4, <1>a, SynFields
  DEF Syn, Idle, LetGo, BidsMade, Syn
<1>5. ASSUME Select PROVE LetGo
  BY <1>5, <1>a, WinnerWins
  DEF Select, Open, LetGo, BidsMade, Arbitrators, Eligible, Pending
<1>6. ASSUME StartSent PROVE LetGo
  BY <1>6, <1>a
  DEF StartSent, LetGo, BidsMade, Arbitrators
<1>7. ASSUME StartFails PROVE LetGo
  BY <1>7, <1>a
  DEF StartFails, Mine, LetGo, BidsMade, Arbitrators
<1>8. ASSUME StartedMismatch PROVE LetGo
  BY <1>8, <1>a
  DEF StartedMismatch, Attributed, Response, Idle, LetGo, BidsMade,
    Arbitrators
<1>9. ASSUME StartedCancelled PROVE LetGo
  BY <1>9, <1>a
  DEF StartedCancelled, Attributed, Response, Idle, LetGo, BidsMade,
    Arbitrators
<1>10. ASSUME Started PROVE LetGo
  BY <1>10, <1>a, <1>b
  DEF Started, Attributed, Response, Idle, LetGo, BidsMade, Starts
<1>11. ASSUME Failed PROVE LetGo
  BY <1>11, <1>a
  DEF Failed, Attributed, Response, Idle, LetGo, BidsMade, Arbitrators
<1>12. ASSUME GrantRejected PROVE LetGo
  BY <1>12, <1>a
  DEF GrantRejected, Granting, Mine, LetGo, BidsMade, Arbitrators
<1>13. ASSUME Grant PROVE LetGo
  BY <1>13, <1>a
  DEF Grant, Granting, Mine, LetGo, BidsMade, Arbitrators
<1>14. ASSUME DeadlineExpires PROVE LetGo
  BY <1>14, <1>a
  DEF DeadlineExpires, LetGo, BidsMade, Arbitrators
<1>15. ASSUME AbandonWatchdog PROVE LetGo
  BY <1>15, <1>a, ReleasedFields
  DEF AbandonWatchdog, LetGo, BidsMade
<1>16. ASSUME OwnershipEnds PROVE LetGo
  BY <1>16, <1>a, ReleasedFields
  DEF OwnershipEnds, Idle, LetGo, BidsMade
<1>17. ASSUME GatewayFails PROVE LetGo
  BY <1>17, <1>a, ReleasedFields
  DEF GatewayFails, LetGo, BidsMade
<1>18. ASSUME NEW s \in Externals, SynCancelQueued(s) PROVE LetGo
  BY <1>18, <1>a
  DEF SynCancelQueued, CancelStart, LetGo, BidsMade, Arbitrators
<1>19. ASSUME NEW s \in Externals, SynCancelGrant(s) PROVE LetGo
  BY <1>19, <1>a, ReleasedFields
  DEF SynCancelGrant, ReleaseSessionGrant, LetGo, BidsMade
<1>20. ASSUME NEW s \in Externals, SynCancelInFlight(s) PROVE LetGo
  BY <1>20, <1>a
  DEF SynCancelInFlight, CancelPendingStart, LetGo, BidsMade, Arbitrators
<1>21. ASSUME NEW s \in Externals, RemoveGrant(s) PROVE LetGo
  BY <1>21, <1>a, ReleasedFields
  DEF RemoveGrant, ReleaseSessionGrant, LetGo, BidsMade
<1>22. ASSUME NEW s \in Externals, RemoveQueued(s) PROVE LetGo
  BY <1>22, <1>a
  DEF RemoveQueued, CancelStart, LetGo, BidsMade, Arbitrators
<1>23. ASSUME NEW s \in Externals, RemoveInFlight(s) PROVE LetGo
  BY <1>23, <1>a
  DEF RemoveInFlight, CancelPendingStart, LetGo, BidsMade, Arbitrators
<1>24. ASSUME BoundaryClears PROVE LetGo
  BY <1>24, <1>a
  DEF BoundaryClears, ClearSelection, LetGo, BidsMade, Arbitrators
<1>25. ASSUME BoundaryFails PROVE LetGo
  BY <1>25, <1>a
  DEF BoundaryFails, FailAllPending, LetGo, BidsMade, Arbitrators
<1>26. ASSUME CloseClears PROVE LetGo
  BY <1>26, <1>a
  DEF CloseClears, Closing, ClearSelection, LetGo, BidsMade, Arbitrators
<1>27. ASSUME CloseFails PROVE LetGo
  BY <1>27, <1>a
  DEF CloseFails, Closing, FailAllPending, LetGo, BidsMade, Arbitrators
<1>28. CASE UNCHANGED <<arb, pending>>
  BY <1>28 DEF LetGo, BidsMade, Arbitrators
<1> QED
  BY <1>1, <1>2, <1>3, <1>4, <1>5, <1>6, <1>7, <1>8, <1>9, <1>10, <1>11,
    <1>12, <1>13, <1>14, <1>15, <1>16, <1>17, <1>18, <1>19, <1>20, <1>21,
    <1>22, <1>23, <1>24, <1>25, <1>26, <1>27, <1>28
  DEF Next, Bids, SessionStep, ReadLoopStep, AdapterStep, Timers, CloseStep,
    SelectNothing, AbsorbResponse, StaleResponse, GrantOutlived,
    GrantRetired, AbsorbReset, GatewaySends, AddSession, RemoveSession,
    Boundary, Close, CloseFences, CloseReturns, ResponseLost

LEMMA BidsMadeNext ==
  ASSUME Types, BidsMade, Next
  PROVE  BidsMade'
<1>1. \A w \in Made : w \in Made' /\ Bidder(w)' = Bidder(w)
  BY BidsKept
<1>2. arb \in Arbitrators /\ pending \in Starts \cup {None}
  BY DEF Types
<1>3. ASSUME NEW a \in Addresses, GatewayStart(a) PROVE BidsMade'
  <2> DEFINE n == Len(bid) + 1
  <2>1. NewBid(Gateway, a) /\ Gateway \in Sessions
    BY <1>3 DEF GatewayStart, Sessions
  <2>2. n \in Made' /\ bid'[n].session = Gateway
    BY <2>1, NewWaiter DEF Bidder
  <2>3. /\ arb'.gateway = n /\ arb'.deferred = None
        /\ arb'.external = arb.external
        /\ arb'.owner \in {arb.owner, None}
    <3>1. Released(Gateway) \in Arbitrators
      BY ReleasedType
    <3> QED
      BY <1>2, <1>3, <3>1, ReleasedFields DEF GatewayStart, Arbitrators
  <2>4. pending' # None => pending # None /\ pending'.waiter = pending.waiter
    BY <1>2, <1>3 DEF GatewayStart, Superseded, InFlight, Starts
  <2> HIDE DEF n
  <2> QED  BY <1>1, <2>2, <2>3, <2>4 DEF BidsMade, Bidder
<1>4. ASSUME NEW s \in Externals, NEW a \in Addresses, ExternalStart(s, a)
      PROVE  BidsMade'
  <2> DEFINE n == Len(bid) + 1
  <2>1. NewBid(s, a) /\ s \in Sessions
    BY <1>4 DEF ExternalStart, Sessions
  <2>2. n \in Made' /\ bid'[n].session = s
    BY <2>1, NewWaiter DEF Bidder
  <2>3. /\ arb'.gateway = arb.gateway /\ arb'.deferred = arb.deferred
        /\ arb'.external \in {arb.external, (arb.external \ Queued(s)) \cup {n}}
        /\ arb'.owner = arb.owner
    BY <1>2, <1>4 DEF ExternalStart, Arbitrators
  <2>4. pending' # None => pending # None /\ pending'.waiter = pending.waiter
    BY <1>2, <1>4 DEF ExternalStart, Superseded, InFlight, Starts
  <2> HIDE DEF n
  <2>5. CASE arb'.external = arb.external
    BY <1>1, <2>3, <2>4, <2>5 DEF BidsMade
  <2>6. CASE arb'.external = (arb.external \ Queued(s)) \cup {n}
    <3>1. \A w \in arb'.external : w \in Made' /\ Bidder(w)' \in Externals
      BY <1>1, <2>2, <2>6 DEF BidsMade, Bidder
    <3>2. \A v, w \in arb'.external : Bidder(v)' = Bidder(w)' => v = w
      BY <1>1, <2>2, <2>6 DEF BidsMade, Bidder, Queued
    <3> QED  BY <1>1, <2>3, <2>4, <3>1, <3>2 DEF BidsMade
  <2> QED  BY <2>3, <2>5, <2>6
<1>5. CASE UNCHANGED bid
  BY <1>1, <1>5, LetGoStep, BidsLetGo
<1> QED
  BY <1>3, <1>4, <1>5
  DEF Next, Bids, SessionStep, ReadLoopStep, AdapterStep, Timers, CloseStep,
    ExpireGatewayAdmission, Syn, Select, SelectNothing, StartSent,
    StartFails, AbsorbResponse, StaleResponse, StartedMismatch,
    StartedCancelled, Started, Failed, GrantOutlived, GrantRetired,
    GrantRejected, Grant, DeadlineExpires, AbsorbReset, AbandonWatchdog,
    OwnershipEnds, GatewaySends, GatewayFails, AddSession, SynCancelQueued,
    SynCancelGrant, SynCancelInFlight, RemoveSession, RemoveGrant,
    RemoveQueued, RemoveInFlight, Boundary, BoundaryClears, BoundaryFails,
    Close, CloseFences, CloseClears, CloseFails, CloseReturns, ResponseLost

-----------------------------------------------------------------------------
(* Where the waiters are.  A bid in no place is in none after a bid either. *)

LEMMA InOnePlaceNext ==
  ASSUME Types, BidsMade, InOnePlace, Next
  PROVE  InOnePlace'
<1>a. arb \in Arbitrators
  BY DEF Types
<1>b. pending \in Starts \cup {None}
  BY DEF Types
<1>c. None \notin Waiters
  BY ConstantTypes
<1>d. pending # None => pending.waiter \in Waiters
  BY <1>b DEF Starts
<1>1. ASSUME NEW a \in Addresses, GatewayStart(a) PROVE InOnePlace'
  <2> DEFINE n == Len(bid) + 1
  <2>1. NewBid(Gateway, a) /\ Gateway \in Sessions
    BY <1>1 DEF GatewayStart, Sessions
  <2>2. n \notin Made
    BY <2>1, NewWaiter
  <2>3. arb'.gateway = n /\ arb'.deferred = None /\ arb'.external = arb.external
    <3>1. Released(Gateway) \in Arbitrators
      BY ReleasedType
    <3> QED
      BY <1>a, <1>1, <3>1, ReleasedFields DEF GatewayStart, Arbitrators
  <2>4. pending' # None => pending # None /\ pending'.waiter = pending.waiter
    BY <1>b, <1>1 DEF GatewayStart, Superseded, InFlight, Starts
  <2>5. pending # None => pending.waiter \in Waiters
    BY <1>b DEF Starts
  <2> HIDE DEF n
  <2> QED  BY <1>c, <2>2, <2>3, <2>4, <2>5 DEF InOnePlace, Pending, BidsMade
<1>2. ASSUME NEW s \in Externals, NEW a \in Addresses, ExternalStart(s, a)
      PROVE  InOnePlace'
  <2> DEFINE n == Len(bid) + 1
  <2>1. NewBid(s, a) /\ s \in Sessions
    BY <1>2 DEF ExternalStart, Sessions
  <2>2. n \notin Made
    BY <2>1, NewWaiter
  <2>3. /\ arb'.gateway = arb.gateway /\ arb'.deferred = arb.deferred
        /\ arb'.external \subseteq arb.external \cup {n}
        /\ rl' = rl
    BY <1>a, <1>2 DEF ExternalStart, Arbitrators
  <2>4. pending' # None => pending # None /\ pending'.waiter = pending.waiter
    BY <1>b, <1>2 DEF ExternalStart, Superseded, InFlight, Starts
  <2> HIDE DEF n
  <2> QED  BY <2>2, <2>3, <2>4 DEF InOnePlace, Pending, BidsMade
<1>3. ASSUME ExpireGatewayAdmission PROVE InOnePlace'
  BY <1>3, <1>a, <1>c, <1>d
  DEF ExpireGatewayAdmission, InOnePlace, Pending, Arbitrators
<1>4. ASSUME Syn PROVE InOnePlace'
  BY <1>4, <1>a, SynFields
  DEF Syn, Idle, InOnePlace, Pending
<1>5. ASSUME Select PROVE InOnePlace'
  BY <1>5, <1>a, <1>c, WinnerWins
  DEF Select, Open, InOnePlace, Pending, Arbitrators, Eligible, BidsMade
<1>6. ASSUME SelectNothing PROVE InOnePlace'
  BY <1>6, <1>a
  DEF SelectNothing, InOnePlace, Pending, Arbitrators
<1>7. ASSUME StartSent PROVE InOnePlace'
  BY <1>7, <1>a, <1>c, <1>d
  DEF StartSent, InOnePlace, Pending, Arbitrators
<1>8. ASSUME StartFails PROVE InOnePlace'
  BY <1>8, <1>a, <1>c, <1>d
  DEF StartFails, Mine, InOnePlace, Pending, Arbitrators
<1>9. ASSUME StartedMismatch PROVE InOnePlace'
  BY <1>9, <1>a
  DEF StartedMismatch, Attributed, Response, Idle, InOnePlace, Pending,
    Arbitrators
<1>10. ASSUME StartedCancelled PROVE InOnePlace'
  BY <1>10, <1>a
  DEF StartedCancelled, Attributed, Response, Idle, InOnePlace, Pending,
    Arbitrators
<1>11. ASSUME Started PROVE InOnePlace'
  BY <1>11, <1>a, <1>b
  DEF Started, Attributed, Response, Idle, InOnePlace, Pending, Starts
<1>12. ASSUME Failed PROVE InOnePlace'
  BY <1>12, <1>a
  DEF Failed, Attributed, Response, Idle, InOnePlace, Pending, Arbitrators
<1>13. ASSUME GrantOutlived PROVE InOnePlace'
  BY <1>13, <1>a
  DEF GrantOutlived, Granting, InOnePlace, Pending, Arbitrators
<1>14. ASSUME GrantRetired PROVE InOnePlace'
  BY <1>14, <1>a
  DEF GrantRetired, Granting, Mine, InOnePlace, Pending, Arbitrators
<1>15. ASSUME GrantRejected PROVE InOnePlace'
  BY <1>15, <1>a
  DEF GrantRejected, Granting, Mine, InOnePlace, Pending, Arbitrators
<1>16. ASSUME Grant PROVE InOnePlace'
  BY <1>16, <1>a
  DEF Grant, Granting, Mine, InOnePlace, Pending, Arbitrators
<1>17. ASSUME DeadlineExpires PROVE InOnePlace'
  BY <1>17, <1>a
  DEF DeadlineExpires, InOnePlace, Pending, Arbitrators
<1>18. ASSUME AbandonWatchdog PROVE InOnePlace'
  BY <1>18, <1>a, ReleasedFields
  DEF AbandonWatchdog, InOnePlace, Pending
<1>19. ASSUME OwnershipEnds PROVE InOnePlace'
  BY <1>19, <1>a, ReleasedFields
  DEF OwnershipEnds, Idle, InOnePlace, Pending
<1>20. ASSUME GatewayFails PROVE InOnePlace'
  BY <1>20, <1>a, ReleasedFields
  DEF GatewayFails, InOnePlace, Pending
<1>21. ASSUME NEW s \in Externals, SynCancelQueued(s) PROVE InOnePlace'
  BY <1>21, <1>a
  DEF SynCancelQueued, CancelStart, InOnePlace, Pending, Arbitrators
<1>22. ASSUME NEW s \in Externals, SynCancelGrant(s) PROVE InOnePlace'
  BY <1>22, <1>a, ReleasedFields
  DEF SynCancelGrant, ReleaseSessionGrant, InOnePlace, Pending
<1>23. ASSUME NEW s \in Externals, SynCancelInFlight(s) PROVE InOnePlace'
  BY <1>23, <1>a
  DEF SynCancelInFlight, CancelPendingStart, InOnePlace, Pending,
    Arbitrators
<1>24. ASSUME NEW s \in Externals, RemoveGrant(s) PROVE InOnePlace'
  BY <1>24, <1>a, ReleasedFields
  DEF RemoveGrant, ReleaseSessionGrant, InOnePlace, Pending
<1>25. ASSUME NEW s \in Externals, RemoveQueued(s) PROVE InOnePlace'
  BY <1>25, <1>a
  DEF RemoveQueued, CancelStart, InOnePlace, Pending, Arbitrators
<1>26. ASSUME NEW s \in Externals, RemoveInFlight(s) PROVE InOnePlace'
  BY <1>26, <1>a
  DEF RemoveInFlight, CancelPendingStart, InOnePlace, Pending, Arbitrators
<1>27. ASSUME Boundary PROVE InOnePlace'
  BY <1>27, <1>a
  DEF Boundary, Idle, InOnePlace, Pending, Arbitrators
<1>28. ASSUME BoundaryClears PROVE InOnePlace'
  BY <1>28, <1>a
  DEF BoundaryClears, ClearSelection, InOnePlace, Pending, Arbitrators
<1>29. ASSUME BoundaryFails PROVE InOnePlace'
  BY <1>29, <1>a, <1>c, <1>d
  DEF BoundaryFails, FailAllPending, InOnePlace, Pending, Arbitrators
<1>30. ASSUME CloseClears PROVE InOnePlace'
  BY <1>30, <1>a
  DEF CloseClears, Closing, ClearSelection, InOnePlace, Pending, Arbitrators
<1>31. ASSUME CloseFails PROVE InOnePlace'
  BY <1>31, <1>a, <1>c, <1>d
  DEF CloseFails, Closing, FailAllPending, InOnePlace, Pending, Arbitrators
<1>32. CASE UNCHANGED <<arb, pending, rl>>
  BY <1>32 DEF InOnePlace, Pending, Arbitrators
<1> QED
  BY <1>1, <1>2, <1>3, <1>4, <1>5, <1>6, <1>7, <1>8, <1>9, <1>10, <1>11,
    <1>12, <1>13, <1>14, <1>15, <1>16, <1>17, <1>18, <1>19, <1>20, <1>21,
    <1>22, <1>23, <1>24, <1>25, <1>26, <1>27, <1>28, <1>29, <1>30, <1>31,
    <1>32
  DEF Next, Bids, SessionStep, ReadLoopStep, AdapterStep, Timers, CloseStep,
    AbsorbResponse, StaleResponse, AbsorbReset, GatewaySends, AddSession,
    RemoveSession, Close, CloseFences, CloseReturns, ResponseLost

-----------------------------------------------------------------------------
(* Results.  What each way of answering does to the result of one waiter.  *)

LEMMA AnswerAt ==
  ASSUME NEW f \in [Waiters -> Results], NEW w, NEW v \in Waiters, NEW r
  PROVE  /\ Answer(f, w, r)[v] = IF v # w THEN f[v]
                                ELSE IF f[v] = "open" THEN r ELSE "twice"
         /\ TryRefuse(f, w)[v] = IF v = w /\ f[v] = "open" THEN "refused" ELSE f[v]
         /\ [f EXCEPT ![w] = r][v] = IF v = w THEN r ELSE f[v]
  BY DEF Answer, TryRefuse

LEMMA RefuseAllAt ==
  ASSUME NEW ws, NEW v \in Waiters
  PROVE  RefuseAll(ws)[v] = IF v \notin ws THEN result[v]
                            ELSE IF result[v] = "open" THEN "refused" ELSE "twice"
  BY DEF RefuseAll

LEMMA SettledAt ==
  ASSUME Types, NEW v \in Waiters
  PROVE  Settled(result)[v] = IF v # arb.deferred THEN result[v]
                              ELSE IF result[v] = "open" THEN "refused" ELSE "twice"
<1>1. result \in [Waiters -> Results] /\ v # None
  BY ConstantTypes DEF Types
<1> QED  BY <1>1 DEF Settled, Answer

LEMMA SupersededKeeps ==
  ASSUME pending \in Starts \cup {None}, NEW s
  PROVE  /\ (Superseded(s) # None) = (pending # None)
         /\ pending # None => /\ Superseded(s).waiter = pending.waiter
                              /\ Superseded(s).responded = pending.responded
                              /\ Superseded(s).epoch = pending.epoch
<1>1. CASE InFlight(s)
  <2>1. pending # None /\ [pending EXCEPT !.cancelled = TRUE] \in Starts
    BY <1>1 DEF InFlight, Starts
  <2>2. /\ [pending EXCEPT !.cancelled = TRUE].waiter = pending.waiter
        /\ [pending EXCEPT !.cancelled = TRUE].responded = pending.responded
        /\ [pending EXCEPT !.cancelled = TRUE].epoch = pending.epoch
    BY <1>1 DEF InFlight, Starts
  <2> QED  BY <1>1, <2>1, <2>2, ConstantTypes DEF Superseded
<1>2. CASE ~InFlight(s)
  BY <1>2 DEF Superseded
<1> QED  BY <1>1, <1>2

LEMMA Apart ==
  ASSUME Types, BidsMade
  PROVE  arb.gateway \notin arb.external /\ arb.deferred \notin arb.external
<1>1. arb \in Arbitrators
  BY DEF Types
<1> QED  BY <1>1, ConstantTypes DEF BidsMade, Arbitrators

LEMMA HeldIsOpenNext ==
  ASSUME Types, BidsMade, InOnePlace, HeldIsOpen, Next
  PROVE  HeldIsOpen'
<1> SUFFICES ASSUME NEW w \in Waiters
             PROVE  result'[w] # "twice" /\ (result'[w] = "open" <=> Held(w)')
  BY DEF HeldIsOpen
<1>a. arb \in Arbitrators /\ pending \in Starts \cup {None}
  BY DEF Types
<1>b. result \in [Waiters -> Results]
  BY DEF Types
<1>c. w # None
  BY ConstantTypes
<1>d. result[w] # "twice" /\ (result[w] = "open" <=> Held(w))
  BY DEF HeldIsOpen
<1>1. ASSUME NEW a \in Addresses, GatewayStart(a)
      PROVE  result'[w] # "twice" /\ (result'[w] = "open" <=> Held(w)')
  <2> DEFINE n == Len(bid) + 1
  <2>1. NewBid(Gateway, a) /\ Gateway \in Sessions
    BY <1>1 DEF GatewayStart, Sessions
  <2>2. n \notin Made /\ n \in Waiters
    BY <2>1, NewWaiter, NewBidType
  <2>3. arb'.gateway = n /\ arb'.deferred = None /\ arb'.external = arb.external
    <3>1. Released(Gateway) \in Arbitrators
      BY ReleasedType
    <3> QED
      BY <1>a, <1>1, <3>1, ReleasedFields DEF GatewayStart, Arbitrators
  <2>4. (pending' # None) = (pending # None) /\ (pending # None => pending'.waiter = pending.waiter)
    BY <1>a, <1>1, SupersededKeeps DEF GatewayStart
  <2>5. result'[w] = IF w = n THEN "open" ELSE RefuseAll({arb.gateway, arb.deferred} \ {None})[w]
    BY <1>1, RefuseAllType DEF GatewayStart, Opened
  <2>6. RefuseAll({arb.gateway, arb.deferred} \ {None})[w] =
          IF w \notin {arb.gateway, arb.deferred} THEN result[w]
          ELSE IF result[w] = "open" THEN "refused" ELSE "twice"
    BY <1>c, RefuseAllAt
  <2>7. n # None
    BY <2>2, ConstantTypes
  <2> HIDE DEF n
  <2> QED
    BY <1>c, <1>d, <2>2, <2>3, <2>4, <2>5, <2>6, <2>7, Apart
    DEF Held, InOnePlace, Pending, BidsMade
<1>2. ASSUME NEW s \in Externals, NEW a \in Addresses, ExternalStart(s, a)
      PROVE  result'[w] # "twice" /\ (result'[w] = "open" <=> Held(w)')
  <2> DEFINE n == Len(bid) + 1
  <2>1. NewBid(s, a) /\ s \in Sessions
    BY <1>2 DEF ExternalStart, Sessions
  <2>2. n \notin Made /\ n \in Waiters
    BY <2>1, NewWaiter, NewBidType
  <2>3. CASE InFlight(s) /\ Address(pending.waiter) = a
    <3>1. /\ arb' = arb /\ pending' = pending
          /\ result'[w] = IF w = n THEN "refused" ELSE result[w]
      BY <1>2, <1>b, <2>3 DEF ExternalStart
    <3> HIDE DEF n
    <3> QED
      BY <1>c, <1>d, <2>2, <3>1 DEF Held, Pending, BidsMade
  <2>4. CASE ~(InFlight(s) /\ Address(pending.waiter) = a)
    <3>1. /\ arb'.gateway = arb.gateway /\ arb'.deferred = arb.deferred
          /\ arb'.external = (arb.external \ Queued(s)) \cup {n}
      BY <1>a, <1>2, <2>4 DEF ExternalStart, Arbitrators
    <3>2. (pending' # None) = (pending # None) /\ (pending # None => pending'.waiter = pending.waiter)
      BY <1>a, <1>2, <2>4, SupersededKeeps DEF ExternalStart
    <3>3. result'[w] = IF w = n THEN "open" ELSE RefuseAll(Queued(s))[w]
      BY <1>2, <2>4, RefuseAllType DEF ExternalStart, Opened
    <3>4. RefuseAll(Queued(s))[w] =
            IF w \notin Queued(s) THEN result[w]
            ELSE IF result[w] = "open" THEN "refused" ELSE "twice"
      BY RefuseAllAt
    <3>5. Queued(s) \subseteq arb.external
      BY DEF Queued
    <3> HIDE DEF n
    <3> QED
      BY <1>c, <1>d, <2>2, <3>1, <3>2, <3>3, <3>4, <3>5, Apart
      DEF Held, InOnePlace, Pending, BidsMade
  <2> QED  BY <2>3, <2>4
<1>3. ASSUME ExpireGatewayAdmission
      PROVE  result'[w] # "twice" /\ (result'[w] = "open" <=> Held(w)')
  <2>1. /\ arb'.external = arb.external /\ pending' = pending
        /\ \/ /\ arb'.gateway = None /\ arb'.deferred = arb.deferred
              /\ arb.gateway # None /\ result' = Answer(result, arb.gateway, "refused")
           \/ /\ arb'.deferred = None /\ arb'.gateway = arb.gateway
              /\ arb.deferred # None /\ result' = Answer(result, arb.deferred, "refused")
    BY <1>3, <1>a DEF ExpireGatewayAdmission, Arbitrators
  <2> QED
    BY <2>1, <1>b, <1>c, <1>d, Apart DEF Held, Pending, InOnePlace, Answer
<1>4. ASSUME Syn
      PROVE  result'[w] # "twice" /\ (result'[w] = "open" <=> Held(w)')
  BY <1>4, <1>a, <1>d, SynFields
  DEF Syn, Idle, Held, Pending
<1>5. ASSUME Select
      PROVE  result'[w] # "twice" /\ (result'[w] = "open" <=> Held(w)')
  <2>1. /\ arb'.external = arb.external \ Eligible
        /\ arb'.gateway = IF arb.gateway \in Eligible THEN None ELSE arb.gateway
        /\ arb'.deferred = IF arb.gateway \in Eligible \ {Winner} THEN arb.gateway
                           ELSE arb.deferred
    BY <1>5, <1>a DEF Select, Arbitrators
  <2>2. pending = None /\ pending' # None /\ pending'.waiter = Winner /\ arb.deferred = None
    <3>1. Winner \in Waiters /\ epoch \in Nat
      BY <1>5, <1>a, WinnerWins DEF Select, Eligible, Pending, Arbitrators, Types
    <3>2. pending' \in Starts
      BY <1>5, <3>1 DEF Select, Starts
    <3> QED
      BY <1>5, <3>2, ConstantTypes DEF Select, Open, InOnePlace
  <2>3. Winner \in Eligible
    BY <1>5, WinnerWins DEF Select
  <2>4. result'[w] = IF w \notin (Eligible \ {Winner}) \cap arb.external THEN result[w]
                     ELSE IF result[w] = "open" THEN "refused" ELSE "twice"
    BY <1>5, RefuseAllAt DEF Select
  <2>5. Eligible \subseteq Pending
    BY DEF Eligible
  <2> HIDE DEF Winner
  <2> QED
    BY <2>1, <2>2, <2>3, <2>4, <2>5, <1>c, <1>d, Apart DEF Held, Pending
<1>6. ASSUME StartSent
      PROVE  result'[w] # "twice" /\ (result'[w] = "open" <=> Held(w)')
  <2>1. /\ arb'.external = arb.external /\ arb'.gateway = arb.gateway
        /\ arb'.deferred = None /\ pending' = pending
    BY <1>6, <1>a DEF StartSent, Arbitrators
  <2>2. result'[w] = Settled(result)[w]
    BY <1>6 DEF StartSent
  <2> QED
    BY <2>1, <2>2, <1>c, <1>d, Apart, SettledAt DEF Held, Pending, InOnePlace
<1>7. ASSUME StartFails
      PROVE  result'[w] # "twice" /\ (result'[w] = "open" <=> Held(w)')
  <2>1. /\ arb'.external = arb.external /\ arb'.gateway = arb.gateway
        /\ arb'.deferred = None
    BY <1>7, <1>a DEF StartFails, Arbitrators
  <2>2. CASE Mine
    <3>1. pending # None /\ pending.waiter = rl.waiter /\ pending' = None
      BY <1>7, <2>2 DEF StartFails, Mine
    <3>2. result'[w] = Answer(Settled(result), rl.waiter, "refused")[w]
      BY <1>7, <2>2 DEF StartFails
    <3>3. result'[w] = IF w # rl.waiter THEN Settled(result)[w]
                       ELSE IF Settled(result)[w] = "open" THEN "refused" ELSE "twice"
      BY <3>2, SettledType DEF Answer
    <3> QED
      BY <2>1, <3>1, <3>3, <1>c, <1>d, Apart, SettledAt
      DEF Held, Pending, InOnePlace
  <2>3. CASE ~Mine
    <3>1. pending' = pending /\ result'[w] = Settled(result)[w]
      BY <1>7, <2>3 DEF StartFails
    <3> QED
      BY <2>1, <3>1, <1>c, <1>d, Apart, SettledAt DEF Held, Pending, InOnePlace
  <2> QED  BY <2>2, <2>3
<1>8. ASSUME StartedMismatch
      PROVE  result'[w] # "twice" /\ (result'[w] = "open" <=> Held(w)')
  BY <1>8, <1>a, <1>b, <1>c, <1>d
  DEF StartedMismatch, Attributed, Response, Idle, Held, Pending,
    InOnePlace, Arbitrators, Answer, TryRefuse
<1>9. ASSUME StartedCancelled
      PROVE  result'[w] # "twice" /\ (result'[w] = "open" <=> Held(w)')
  BY <1>9, <1>a, <1>b, <1>c, <1>d
  DEF StartedCancelled, Attributed, Response, Idle, Held, Pending,
    InOnePlace, Arbitrators, Answer, TryRefuse
<1>10. ASSUME Started
      PROVE  result'[w] # "twice" /\ (result'[w] = "open" <=> Held(w)')
  <2>1. /\ arb' = arb /\ result' = result
        /\ pending # None /\ pending' # None /\ pending'.waiter = pending.waiter
    <3>1. pending \in Starts /\ pending' = [pending EXCEPT !.responded = TRUE]
      BY <1>10, <1>a DEF Started, Attributed
    <3>2. pending' \in Starts /\ pending'.waiter = pending.waiter
      BY <3>1 DEF Starts
    <3> QED  BY <1>10, <3>2, ConstantTypes DEF Started, Attributed
  <2> QED  BY <2>1, <1>d DEF Held, Pending
<1>11. ASSUME Failed
      PROVE  result'[w] # "twice" /\ (result'[w] = "open" <=> Held(w)')
  BY <1>11, <1>a, <1>b, <1>c, <1>d
  DEF Failed, Attributed, Response, Idle, Held, Pending, InOnePlace,
    Arbitrators, Answer, TryRefuse
<1>12. ASSUME GrantRejected
      PROVE  result'[w] # "twice" /\ (result'[w] = "open" <=> Held(w)')
  BY <1>12, <1>a, <1>b, <1>c, <1>d
  DEF GrantRejected, Granting, Mine, Held, Pending, InOnePlace, Arbitrators,
    Answer, TryRefuse
<1>13. ASSUME Grant
      PROVE  result'[w] # "twice" /\ (result'[w] = "open" <=> Held(w)')
  BY <1>13, <1>a, <1>b, <1>c, <1>d
  DEF Grant, Granting, Mine, Held, Pending, InOnePlace, Arbitrators, Answer,
    TryRefuse
<1>14. ASSUME DeadlineExpires
      PROVE  result'[w] # "twice" /\ (result'[w] = "open" <=> Held(w)')
  <2>1. /\ arb'.external = arb.external /\ arb'.gateway = arb.gateway
        /\ arb'.deferred = None /\ pending # None /\ pending' = None
    BY <1>14, <1>a DEF DeadlineExpires, Arbitrators
  <2>2. result'[w] = IF w = pending.waiter /\ Settled(result)[w] = "open" THEN "refused"
                     ELSE Settled(result)[w]
    BY <1>14, SettledType DEF DeadlineExpires, TryRefuse
  <2> QED
    BY <2>1, <2>2, <1>c, <1>d, Apart, SettledAt DEF Held, Pending, InOnePlace
<1>15. ASSUME AbandonWatchdog
      PROVE  result'[w] # "twice" /\ (result'[w] = "open" <=> Held(w)')
  BY <1>15, <1>a, <1>d, ReleasedFields
  DEF AbandonWatchdog, Held, Pending
<1>16. ASSUME OwnershipEnds
      PROVE  result'[w] # "twice" /\ (result'[w] = "open" <=> Held(w)')
  BY <1>16, <1>a, <1>d, ReleasedFields
  DEF OwnershipEnds, Idle, Held, Pending
<1>17. ASSUME GatewayFails
      PROVE  result'[w] # "twice" /\ (result'[w] = "open" <=> Held(w)')
  BY <1>17, <1>a, <1>d, ReleasedFields
  DEF GatewayFails, Held, Pending
<1>18. ASSUME NEW s \in Externals, SynCancelQueued(s)
      PROVE  result'[w] # "twice" /\ (result'[w] = "open" <=> Held(w)')
  <2>1. /\ arb'.external = arb.external \ Queued(s) /\ arb'.gateway = arb.gateway
        /\ arb'.deferred = arb.deferred /\ pending' = pending
    BY <1>18, <1>a DEF SynCancelQueued, CancelStart, Arbitrators
  <2>2. result'[w] = IF w \notin Queued(s) THEN result[w]
                     ELSE IF result[w] = "open" THEN "refused" ELSE "twice"
    BY <1>18, RefuseAllAt DEF SynCancelQueued, CancelStart
  <2>3. Queued(s) \subseteq arb.external
    BY DEF Queued
  <2> QED
    BY <2>1, <2>2, <2>3, <1>c, <1>d, Apart DEF Held, Pending, InOnePlace
<1>19. ASSUME NEW s \in Externals, SynCancelGrant(s)
      PROVE  result'[w] # "twice" /\ (result'[w] = "open" <=> Held(w)')
  BY <1>19, <1>a, <1>d, ReleasedFields
  DEF SynCancelGrant, ReleaseSessionGrant, Held, Pending
<1>20. ASSUME NEW s \in Externals, SynCancelInFlight(s)
      PROVE  result'[w] # "twice" /\ (result'[w] = "open" <=> Held(w)')
  BY <1>20, <1>a, <1>b, <1>c, <1>d
  DEF SynCancelInFlight, CancelPendingStart, Held, Pending, InOnePlace,
    Arbitrators, InFlight, Answer, TryRefuse
<1>21. ASSUME NEW s \in Externals, RemoveGrant(s)
      PROVE  result'[w] # "twice" /\ (result'[w] = "open" <=> Held(w)')
  BY <1>21, <1>a, <1>d, ReleasedFields
  DEF RemoveGrant, ReleaseSessionGrant, Held, Pending
<1>22. ASSUME NEW s \in Externals, RemoveQueued(s)
      PROVE  result'[w] # "twice" /\ (result'[w] = "open" <=> Held(w)')
  <2>1. /\ arb'.external = arb.external \ Queued(s) /\ arb'.gateway = arb.gateway
        /\ arb'.deferred = arb.deferred /\ pending' = pending
    BY <1>22, <1>a DEF RemoveQueued, CancelStart, Arbitrators
  <2>2. result'[w] = IF w \notin Queued(s) THEN result[w]
                     ELSE IF result[w] = "open" THEN "refused" ELSE "twice"
    BY <1>22, RefuseAllAt DEF RemoveQueued, CancelStart
  <2>3. Queued(s) \subseteq arb.external
    BY DEF Queued
  <2> QED
    BY <2>1, <2>2, <2>3, <1>c, <1>d, Apart DEF Held, Pending, InOnePlace
<1>23. ASSUME NEW s \in Externals, RemoveInFlight(s)
      PROVE  result'[w] # "twice" /\ (result'[w] = "open" <=> Held(w)')
  BY <1>23, <1>a, <1>b, <1>c, <1>d
  DEF RemoveInFlight, CancelPendingStart, Held, Pending, InOnePlace,
    Arbitrators, InFlight, Answer, TryRefuse
<1>24. ASSUME BoundaryClears
      PROVE  result'[w] # "twice" /\ (result'[w] = "open" <=> Held(w)')
  BY <1>24, <1>a, <1>b, <1>c, <1>d
  DEF BoundaryClears, ClearSelection, Held, Pending, InOnePlace,
    Arbitrators, Answer, TryRefuse
<1>25. ASSUME BoundaryFails
      PROVE  result'[w] # "twice" /\ (result'[w] = "open" <=> Held(w)')
  BY <1>25, <1>a, <1>b, <1>c, <1>d, RefuseAllAt
  DEF BoundaryFails, FailAllPending, Held, Pending, InOnePlace, Arbitrators
<1>26. ASSUME CloseClears
      PROVE  result'[w] # "twice" /\ (result'[w] = "open" <=> Held(w)')
  BY <1>26, <1>a, <1>b, <1>c, <1>d
  DEF CloseClears, Closing, ClearSelection, Held, Pending, InOnePlace,
    Arbitrators, Answer, TryRefuse
<1>27. ASSUME CloseFails
      PROVE  result'[w] # "twice" /\ (result'[w] = "open" <=> Held(w)')
  BY <1>27, <1>a, <1>b, <1>c, <1>d, RefuseAllAt
  DEF CloseFails, Closing, FailAllPending, Held, Pending, InOnePlace,
    Arbitrators
<1>28. CASE UNCHANGED <<arb, pending, result>>
  BY <1>28, <1>d DEF Held, Pending
<1> QED
  BY <1>1, <1>2, <1>3, <1>4, <1>5, <1>6, <1>7, <1>8, <1>9, <1>10, <1>11,
    <1>12, <1>13, <1>14, <1>15, <1>16, <1>17, <1>18, <1>19, <1>20, <1>21,
    <1>22, <1>23, <1>24, <1>25, <1>26, <1>27, <1>28
  DEF Next, Bids, SessionStep, ReadLoopStep, AdapterStep, Timers, CloseStep,
    SelectNothing, AbsorbResponse, StaleResponse, GrantOutlived,
    GrantRetired, AbsorbReset, GatewaySends, AddSession, RemoveSession,
    Boundary, Close, CloseFences, CloseReturns, ResponseLost

-----------------------------------------------------------------------------
(* Responses.  Until one is given up too early, at most one is on its way. *)

LEMMA AbsorbChanges ==
  ASSUME Types
  PROVE  /\ barrier.absorb \in {0, 1}
         /\ Absorbing(Fenced(barrier)).absorb = barrier.absorb + 1
         /\ [Fenced(barrier) EXCEPT !.absorb = @ - 1].absorb = barrier.absorb - 1
<1>1. barrier \in Barriers
  BY DEF Types
<1>2. Fenced(barrier) \in Barriers /\ Fenced(barrier).absorb = barrier.absorb
  BY <1>1, BarrierType, AbsorbKept
<1>3. Absorbing(Fenced(barrier)).absorb = barrier.absorb + 1
  BY <1>2 DEF Absorbing, Barriers
<1>4. [Fenced(barrier) EXCEPT !.absorb = @ - 1].absorb = barrier.absorb - 1
  BY <1>2 DEF Barriers
<1> QED  BY <1>1, <1>3, <1>4 DEF Barriers

LEMMA AdapterQueue ==
  ASSUME Types
  PROVE  /\ Len(adapter) \in Nat /\ Len(<<>>) = 0
         /\ adapter # <<>> /\ Len(adapter) <= 1 => Tail(adapter) = <<>>
         /\ \A w \in Waiters : adapter = <<>> =>
              /\ Append(adapter, w) # <<>>
              /\ Len(Append(adapter, w)) = 1 /\ Head(Append(adapter, w)) = w
<1>1. adapter \in Seq(Waiters)
  BY DEF Types
<1>2. Len(adapter) \in Nat /\ Len(<<>>) = 0
  BY <1>1, LenProperties, EmptySeq
<1>3. adapter # <<>> /\ Len(adapter) <= 1 => Tail(adapter) = <<>>
  <2> HAVE adapter # <<>> /\ Len(adapter) <= 1
  <2>0. Len(adapter) \in Nat \ {0}
    BY <1>1, EmptySeq, Zenon
  <2>a. \A k \in Nat \ {0} : k <= 1 => k = 1
    OBVIOUS
  <2>1. Len(adapter) = 1
    BY <2>0, <2>a, Zenon
  <2>2. Tail(adapter) \in Seq(Waiters) /\ Len(Tail(adapter)) = Len(adapter) - 1
    BY <1>1, HeadTailProperties
  <2>3. Len(Tail(adapter)) = 0
    BY <2>1, <2>2
  <2> QED  BY <2>2, <2>3, EmptySeq
<1>4. ASSUME NEW w \in Waiters, adapter = <<>>
      PROVE  /\ Append(adapter, w) # <<>>
             /\ Len(Append(adapter, w)) = 1 /\ Head(Append(adapter, w)) = w
  BY <1>1, <1>2, <1>4, AppendProperties
<1> QED  BY <1>2, <1>3, <1>4

LEMMA SelectStart ==
  ASSUME Types, BidsMade, Select
  PROVE  /\ pending = None /\ pending' # None
         /\ pending'.waiter = Winner /\ ~pending'.responded /\ pending'.epoch = epoch
         /\ rl'.pc = "send" /\ rl'.waiter = Winner /\ Winner \in Made
<1>1. Winner \in Pending /\ epoch \in Nat
  BY WinnerWins DEF Select, Eligible, Types
<1>2. Winner \in Waiters /\ Winner \in Made
  BY <1>1 DEF Pending, Types, Arbitrators, BidsMade
<1>3. pending' \in Starts
  BY <1>1, <1>2 DEF Select, Starts
<1> QED  BY <1>2, <1>3, ConstantTypes DEF Select, Open

LEMMA OutstandingNext ==
  ASSUME Types, OneStart, BidsMade, Outstanding, Fences, Next
  PROVE  Outstanding'
<1>a. late \in Nat /\ rl \in ReadLoop
  BY ConstantTypes DEF Types
<1>b. pending \in Starts \cup {None}
  BY DEF Types
<1>1. ASSUME NEW a \in Addresses, GatewayStart(a) PROVE Outstanding'
  BY <1>1, <1>b, SupersededKeeps
  DEF GatewayStart, NewBid, Opened, GatewayRetires, Outstanding,
    ResponsesAreAttributed, Tag
<1>2. ASSUME NEW s \in Externals, NEW a \in Addresses, ExternalStart(s, a) PROVE Outstanding'
  BY <1>2, <1>b, SupersededKeeps
  DEF ExternalStart, NewBid, Opened, Outstanding, ResponsesAreAttributed,
    Tag
<1>3. ASSUME Syn PROVE Outstanding'
  BY <1>3, <1>a, AbsorbKept, AbsorbChanges, AdapterQueue
  DEF Syn, Idle, Outstanding, ResponsesAreAttributed, OneStart, Tag, Reading
<1>4. ASSUME Select PROVE Outstanding'
  BY <1>4, <1>a, AbsorbKept, AbsorbChanges, AdapterQueue, SelectStart
  DEF Select, Open, Outstanding, ResponsesAreAttributed, OneStart, Tag,
    Reading
<1>5. ASSUME SelectNothing PROVE Outstanding'
  BY <1>5, <1>a, AbsorbKept, AbsorbChanges, AdapterQueue
  DEF SelectNothing, Outstanding, ResponsesAreAttributed, OneStart, Tag,
    Reading
<1>6. ASSUME StartSent PROVE Outstanding'
  BY <1>6, <1>a, AbsorbKept, AbsorbChanges, AdapterQueue
  DEF StartSent, Outstanding, ResponsesAreAttributed, OneStart, Tag, Reading
<1>7. ASSUME StartFails PROVE Outstanding'
  BY <1>7, <1>a, AbsorbKept, AbsorbChanges, AdapterQueue
  DEF StartFails, Mine, Outstanding, ResponsesAreAttributed, OneStart, Tag,
    Reading, ReadLoop
<1>8. ASSUME AbsorbResponse PROVE Outstanding'
  BY <1>8, <1>a, AbsorbKept, AbsorbChanges, AdapterQueue
  DEF AbsorbResponse, Response, Idle, Outstanding, ResponsesAreAttributed,
    OneStart, Tag, Reading
<1>9. ASSUME StaleResponse PROVE Outstanding'
  BY <1>9, <1>a, AbsorbKept, AbsorbChanges, AdapterQueue
  DEF StaleResponse, Response, Idle, Outstanding, ResponsesAreAttributed,
    OneStart, Tag, Reading
<1>10. ASSUME StartedMismatch PROVE Outstanding'
  BY <1>10, <1>a, AbsorbKept, AbsorbChanges, AdapterQueue
  DEF StartedMismatch, Attributed, Response, Idle, Outstanding,
    ResponsesAreAttributed, OneStart, Tag, Reading
<1>11. ASSUME StartedCancelled PROVE Outstanding'
  BY <1>11, <1>a, AbsorbKept, AbsorbChanges, AdapterQueue
  DEF StartedCancelled, Attributed, Response, Idle, Outstanding,
    ResponsesAreAttributed, OneStart, Tag, Reading
<1>12. ASSUME Started PROVE Outstanding'
  BY <1>12, <1>a, AbsorbKept, AbsorbChanges, AdapterQueue
  DEF Started, Attributed, Response, Idle, Outstanding,
    ResponsesAreAttributed, OneStart, Tag, Reading
<1>13. ASSUME Failed PROVE Outstanding'
  BY <1>13, <1>a, AbsorbKept, AbsorbChanges, AdapterQueue
  DEF Failed, Attributed, Response, Idle, Outstanding,
    ResponsesAreAttributed, OneStart, Tag, Reading
<1>14. ASSUME GrantOutlived PROVE Outstanding'
  BY <1>14, <1>a, AbsorbKept, AbsorbChanges, AdapterQueue
  DEF GrantOutlived, Granting, Outstanding, ResponsesAreAttributed,
    OneStart, Tag, Reading, Fences
<1>15. ASSUME GrantRetired PROVE Outstanding'
  BY <1>15, <1>a, AbsorbKept, AbsorbChanges, AdapterQueue
  DEF GrantRetired, Granting, Mine, Outstanding, ResponsesAreAttributed,
    OneStart, Tag, Reading, Fences
<1>16. ASSUME GrantRejected PROVE Outstanding'
  BY <1>16, <1>a, AbsorbKept, AbsorbChanges, AdapterQueue
  DEF GrantRejected, Granting, Mine, Outstanding, ResponsesAreAttributed,
    OneStart, Tag, Reading
<1>17. ASSUME Grant PROVE Outstanding'
  BY <1>17, <1>a, AbsorbKept, AbsorbChanges, AdapterQueue
  DEF Grant, Granting, Mine, Outstanding, ResponsesAreAttributed, OneStart,
    Tag, Reading
<1>18. ASSUME DeadlineExpires PROVE Outstanding'
  BY <1>18, <1>a, AbsorbKept, AbsorbChanges, AdapterQueue
  DEF DeadlineExpires, Outstanding, ResponsesAreAttributed, OneStart, Tag,
    Reading
<1>19. ASSUME AbsorbReset PROVE Outstanding'
  BY <1>19, <1>a, AbsorbKept, AbsorbChanges, AdapterQueue
  DEF AbsorbReset, Unanswered, Outstanding, ResponsesAreAttributed,
    OneStart, Tag, Reading
<1>20. ASSUME GatewayFails PROVE Outstanding'
  BY <1>20, <1>a, AbsorbKept, AbsorbChanges, AdapterQueue
  DEF GatewayFails, Outstanding, ResponsesAreAttributed, OneStart, Tag,
    Reading, Barriers, Types
<1>21. ASSUME NEW s \in Externals, SynCancelGrant(s) PROVE Outstanding'
  BY <1>21, <1>a, AbsorbKept, AbsorbChanges, AdapterQueue
  DEF SynCancelGrant, ReleaseSessionGrant, Outstanding,
    ResponsesAreAttributed, OneStart, Tag, Reading
<1>22. ASSUME NEW s \in Externals, SynCancelInFlight(s) PROVE Outstanding'
  BY <1>22, <1>a, AbsorbKept, AbsorbChanges, AdapterQueue
  DEF SynCancelInFlight, CancelPendingStart, Outstanding,
    ResponsesAreAttributed, OneStart, Tag, Reading, InFlight
<1>23. ASSUME NEW s \in Externals, RemoveGrant(s) PROVE Outstanding'
  BY <1>23, <1>a, AbsorbKept, AbsorbChanges, AdapterQueue
  DEF RemoveGrant, ReleaseSessionGrant, Outstanding, ResponsesAreAttributed,
    OneStart, Tag, Reading
<1>24. ASSUME NEW s \in Externals, RemoveInFlight(s) PROVE Outstanding'
  BY <1>24, <1>a, AbsorbKept, AbsorbChanges, AdapterQueue
  DEF RemoveInFlight, CancelPendingStart, Outstanding,
    ResponsesAreAttributed, OneStart, Tag, Reading, InFlight
<1>25. ASSUME Boundary PROVE Outstanding'
  BY <1>25, <1>a, AbsorbKept, AbsorbChanges, AdapterQueue
  DEF Boundary, Idle, Outstanding, ResponsesAreAttributed, OneStart, Tag,
    Reading
<1>26. ASSUME BoundaryClears PROVE Outstanding'
  BY <1>26, <1>a, AbsorbKept, AbsorbChanges, AdapterQueue
  DEF BoundaryClears, ClearSelection, Outstanding, ResponsesAreAttributed,
    OneStart, Tag, Reading
<1>27. ASSUME BoundaryFails PROVE Outstanding'
  BY <1>27, <1>a, AbsorbKept, AbsorbChanges, AdapterQueue
  DEF BoundaryFails, FailAllPending, Outstanding, ResponsesAreAttributed,
    OneStart, Tag, Reading
<1>28. ASSUME Close PROVE Outstanding'
  BY <1>28, <1>a, AbsorbKept, AbsorbChanges, AdapterQueue
  DEF Close, Closing, Outstanding, ResponsesAreAttributed, OneStart, Tag,
    Reading
<1>29. ASSUME CloseFences PROVE Outstanding'
  BY <1>29, <1>a, AbsorbKept, AbsorbChanges, AdapterQueue
  DEF CloseFences, Closing, Outstanding, ResponsesAreAttributed, OneStart,
    Tag, Reading
<1>30. ASSUME CloseClears PROVE Outstanding'
  BY <1>30, <1>a, AbsorbKept, AbsorbChanges, AdapterQueue
  DEF CloseClears, Closing, ClearSelection, Outstanding,
    ResponsesAreAttributed, OneStart, Tag, Reading
<1>31. ASSUME CloseFails PROVE Outstanding'
  BY <1>31, <1>a, AbsorbKept, AbsorbChanges, AdapterQueue
  DEF CloseFails, Closing, FailAllPending, Outstanding,
    ResponsesAreAttributed, OneStart, Tag, Reading
<1>32. ASSUME CloseReturns PROVE Outstanding'
  BY <1>32, <1>a, AbsorbKept, AbsorbChanges, AdapterQueue
  DEF CloseReturns, Closing, Outstanding, ResponsesAreAttributed, OneStart,
    Tag, Reading
<1>33. ASSUME ResponseLost PROVE Outstanding'
  BY <1>33, <1>a, AbsorbKept, AbsorbChanges, AdapterQueue
  DEF ResponseLost, Outstanding, ResponsesAreAttributed, OneStart, Tag,
    Reading
<1>34. CASE UNCHANGED <<adapter, rl, pending, barrier, closing, late>>
  BY <1>34 DEF Outstanding, ResponsesAreAttributed, OneStart, Tag, Reading
<1> QED
  BY <1>1, <1>2, <1>3, <1>4, <1>5, <1>6, <1>7, <1>8, <1>9, <1>10, <1>11,
    <1>12, <1>13, <1>14, <1>15, <1>16, <1>17, <1>18, <1>19, <1>20, <1>21,
    <1>22, <1>23, <1>24, <1>25, <1>26, <1>27, <1>28, <1>29, <1>30, <1>31,
    <1>32, <1>33, <1>34
  DEF Next, Bids, SessionStep, ReadLoopStep, AdapterStep, Timers, CloseStep,
    ExpireGatewayAdmission, AbandonWatchdog, OwnershipEnds, GatewaySends,
    AddSession, SynCancelQueued, RemoveSession, RemoveQueued

-----------------------------------------------------------------------------
(* Fences.  The epoch moves only where no START can slip past it. *)

LEMMA StartedKeeps ==
  ASSUME Types, Started
  PROVE  /\ pending # None /\ pending' # None
         /\ pending'.waiter = pending.waiter /\ pending'.epoch = pending.epoch
         /\ pending'.responded /\ rl.pc = "idle" /\ rl'.pc = "grant"
         /\ rl'.waiter = pending.waiter /\ rl'.epoch = pending.epoch
<1>1. pending \in Starts /\ pending' = [pending EXCEPT !.responded = TRUE]
  BY DEF Started, Attributed, Types
<1>2. /\ pending' \in Starts /\ pending'.responded
      /\ pending'.waiter = pending.waiter /\ pending'.epoch = pending.epoch
  BY <1>1 DEF Starts
<1> QED
  BY <1>2, ConstantTypes DEF Started, Attributed, Response, Idle

LEMMA FencesNext ==
  ASSUME Types, BidsMade, Outstanding, Fences, Next
  PROVE  Fences'
<1>a. /\ epoch \in Nat /\ rl \in ReadLoop
      /\ session \in [Externals -> {"absent", "live", "removed", "released", "unqueued", "gone"}]
  BY DEF Types
<1>b. pending \in Starts \cup {None}
  BY DEF Types
<1>c. arb \in Arbitrators
  BY DEF Types
<1>d. arb.owner # None => bid'[arb.owner].session = bid[arb.owner].session
  <2>1. \A w \in Made : Bidder(w)' = Bidder(w)
    BY BidsKept
  <2> QED  BY <2>1 DEF BidsMade, Bidder
<1>e. /\ rl.pc = "grant" => rl.epoch \in Nat
      /\ pending # None => pending.epoch \in Nat
  BY <1>a, <1>b DEF ReadLoop, Starts
<1>1. ASSUME NEW a \in Addresses, GatewayStart(a) PROVE Fences'
  <2>1. arb'.owner \in {arb.owner, None} /\ UNCHANGED <<rl, closing, epoch, session>>
    <3>1. Released(Gateway) \in Arbitrators
      BY ReleasedType
    <3> QED
      BY <1>c, <1>1, <3>1, ReleasedFields DEF GatewayStart, Arbitrators
  <2>2. /\ (pending' # None) = (pending # None)
        /\ pending # None => /\ pending'.waiter = pending.waiter
                             /\ pending'.epoch = pending.epoch
    BY <1>b, <1>1, SupersededKeeps DEF GatewayStart
  <2> QED  BY <1>d, <2>1, <2>2 DEF Fences, OwnerIsPresent, Bidder
<1>2. ASSUME NEW s \in Externals, NEW a \in Addresses, ExternalStart(s, a) PROVE Fences'
  <2>1. arb'.owner = arb.owner /\ UNCHANGED <<rl, closing, epoch, session>>
    BY <1>c, <1>2 DEF ExternalStart, Arbitrators
  <2>2. /\ (pending' # None) = (pending # None)
        /\ pending # None => /\ pending'.waiter = pending.waiter
                             /\ pending'.epoch = pending.epoch
    BY <1>b, <1>2, SupersededKeeps DEF ExternalStart
  <2> QED  BY <1>d, <2>1, <2>2 DEF Fences, OwnerIsPresent, Bidder
<1>3. ASSUME ExpireGatewayAdmission PROVE Fences'
  BY <1>3, <1>a, <1>d, <1>c
  DEF ExpireGatewayAdmission, Fences, OwnerIsPresent, Reading, Bidder,
    Arbitrators
<1>4. ASSUME Syn PROVE Fences'
  BY <1>4, <1>a, <1>d, <1>c, SynFields
  DEF Syn, Idle, Fences, OwnerIsPresent, Reading, Bidder
<1>5. ASSUME Select PROVE Fences'
  BY <1>5, <1>a, <1>d, <1>c, SelectStart
  DEF Select, Open, Fences, OwnerIsPresent, Reading, Bidder, Open,
    Arbitrators
<1>6. ASSUME SelectNothing PROVE Fences'
  BY <1>6, <1>a, <1>d
  DEF SelectNothing, Fences, OwnerIsPresent, Reading, Bidder
<1>7. ASSUME StartSent PROVE Fences'
  BY <1>7, <1>a, <1>d, <1>c
  DEF StartSent, Fences, OwnerIsPresent, Reading, Bidder, Arbitrators
<1>8. ASSUME StartFails PROVE Fences'
  BY <1>8, <1>a, <1>d, <1>c
  DEF StartFails, Mine, Fences, OwnerIsPresent, Reading, Bidder, Arbitrators
<1>9. ASSUME StartedMismatch PROVE Fences'
  BY <1>9, <1>a, <1>d
  DEF StartedMismatch, Attributed, Response, Idle, Fences, OwnerIsPresent,
    Reading, Bidder
<1>10. ASSUME StartedCancelled PROVE Fences'
  BY <1>10, <1>a, <1>d
  DEF StartedCancelled, Attributed, Response, Idle, Fences, OwnerIsPresent,
    Reading, Bidder
<1>11. ASSUME Started PROVE Fences'
  <2>1. UNCHANGED <<arb, bid, closing, epoch, session>> /\ closing = "open"
    BY <1>11 DEF Started, Attributed, Response, Idle, Outstanding
  <2>2. /\ pending # None /\ pending' # None
        /\ pending'.waiter = pending.waiter /\ pending'.epoch = pending.epoch
        /\ rl.pc = "idle" /\ rl'.pc = "grant"
        /\ rl'.waiter = pending.waiter /\ rl'.epoch = pending.epoch
    BY <1>11, StartedKeeps
  <2> QED  BY <2>1, <2>2 DEF Fences, OwnerIsPresent, Bidder
<1>12. ASSUME Failed PROVE Fences'
  BY <1>12, <1>a, <1>d
  DEF Failed, Attributed, Response, Idle, Fences, OwnerIsPresent, Reading,
    Bidder
<1>13. ASSUME GrantOutlived PROVE Fences'
  BY <1>13, <1>a, <1>d
  DEF GrantOutlived, Granting, Fences, OwnerIsPresent, Reading, Bidder
<1>14. ASSUME GrantRetired PROVE Fences'
  BY <1>14, <1>a, <1>d
  DEF GrantRetired, Granting, Mine, Fences, OwnerIsPresent, Reading, Bidder
<1>15. ASSUME GrantRejected PROVE Fences'
  BY <1>15, <1>a, <1>d
  DEF GrantRejected, Granting, Mine, Fences, OwnerIsPresent, Reading, Bidder
<1>16. ASSUME Grant PROVE Fences'
  BY <1>16, <1>a, <1>d, <1>c, ConstantTypes
  DEF Grant, Granting, Mine, Fences, OwnerIsPresent, Reading, Bidder,
    Arbitrators
<1>17. ASSUME DeadlineExpires PROVE Fences'
  BY <1>17, <1>a, <1>d, <1>c
  DEF DeadlineExpires, Fences, OwnerIsPresent, Reading, Bidder, Arbitrators
<1>18. ASSUME AbandonWatchdog PROVE Fences'
  BY <1>18, <1>a, <1>d, <1>c, ReleasedFields
  DEF AbandonWatchdog, Fences, OwnerIsPresent, Reading, Bidder
<1>19. ASSUME OwnershipEnds PROVE Fences'
  BY <1>19, <1>a, <1>d, <1>c, ReleasedFields
  DEF OwnershipEnds, Idle, Fences, OwnerIsPresent, Reading, Bidder
<1>20. ASSUME GatewayFails PROVE Fences'
  BY <1>20, <1>a, <1>d, <1>c, ReleasedFields
  DEF GatewayFails, Fences, OwnerIsPresent, Reading, Bidder
<1>21. ASSUME NEW s \in Externals, AddSession(s) PROVE Fences'
  BY <1>21, <1>a, <1>d
  DEF AddSession, Fences, OwnerIsPresent, Reading, Bidder
<1>22. ASSUME NEW s \in Externals, SynCancelQueued(s) PROVE Fences'
  BY <1>22, <1>a, <1>d, <1>c
  DEF SynCancelQueued, CancelStart, Fences, OwnerIsPresent, Reading, Bidder,
    Arbitrators
<1>23. ASSUME NEW s \in Externals, SynCancelGrant(s) PROVE Fences'
  BY <1>23, <1>a, <1>d, <1>c, ReleasedFields
  DEF SynCancelGrant, ReleaseSessionGrant, Fences, OwnerIsPresent, Reading,
    Bidder
<1>24. ASSUME NEW s \in Externals, SynCancelInFlight(s) PROVE Fences'
  BY <1>24, <1>a, <1>d
  DEF SynCancelInFlight, CancelPendingStart, Fences, OwnerIsPresent,
    Reading, Bidder, InFlight
<1>25. ASSUME NEW s \in Externals, RemoveSession(s) PROVE Fences'
  BY <1>25, <1>a, <1>d
  DEF RemoveSession, Fences, OwnerIsPresent, Reading, Bidder
<1>26. ASSUME NEW s \in Externals, RemoveGrant(s) PROVE Fences'
  BY <1>26, <1>a, <1>d, <1>c, ReleasedFields
  DEF RemoveGrant, ReleaseSessionGrant, Fences, OwnerIsPresent, Reading,
    Bidder, Owns
<1>27. ASSUME NEW s \in Externals, RemoveQueued(s) PROVE Fences'
  BY <1>27, <1>a, <1>d, <1>c
  DEF RemoveQueued, CancelStart, Fences, OwnerIsPresent, Reading, Bidder,
    Arbitrators
<1>28. ASSUME NEW s \in Externals, RemoveInFlight(s) PROVE Fences'
  BY <1>28, <1>a, <1>d
  DEF RemoveInFlight, CancelPendingStart, Fences, OwnerIsPresent, Reading,
    Bidder, InFlight
<1>29. ASSUME Boundary PROVE Fences'
  BY <1>29, <1>a, <1>d, <1>e
  DEF Boundary, Idle, Fences, OwnerIsPresent, Reading, Bidder
<1>30. ASSUME BoundaryClears PROVE Fences'
  BY <1>30, <1>a, <1>d
  DEF BoundaryClears, ClearSelection, Fences, OwnerIsPresent, Reading,
    Bidder
<1>31. ASSUME BoundaryFails PROVE Fences'
  BY <1>31, <1>a, <1>d
  DEF BoundaryFails, FailAllPending, Fences, OwnerIsPresent, Reading, Bidder
<1>32. ASSUME Close PROVE Fences'
  BY <1>32, <1>a, <1>d
  DEF Close, Closing, Fences, OwnerIsPresent, Reading, Bidder
<1>33. ASSUME CloseFences PROVE Fences'
  BY <1>33, <1>a, <1>d, <1>e
  DEF CloseFences, Closing, Fences, OwnerIsPresent, Reading, Bidder
<1>34. ASSUME CloseClears PROVE Fences'
  BY <1>34, <1>a, <1>d
  DEF CloseClears, Closing, ClearSelection, Fences, OwnerIsPresent, Reading,
    Bidder
<1>35. ASSUME CloseFails PROVE Fences'
  BY <1>35, <1>a, <1>d
  DEF CloseFails, Closing, FailAllPending, Fences, OwnerIsPresent, Reading,
    Bidder
<1>36. ASSUME CloseReturns PROVE Fences'
  BY <1>36, <1>a, <1>d
  DEF CloseReturns, Closing, Fences, OwnerIsPresent, Reading, Bidder
<1>37. CASE UNCHANGED <<epoch, closing, rl, pending, arb, session, bid>>
  BY <1>37, <1>d DEF Fences, OwnerIsPresent, Bidder
<1> QED
  BY <1>1, <1>2, <1>3, <1>4, <1>5, <1>6, <1>7, <1>8, <1>9, <1>10, <1>11,
    <1>12, <1>13, <1>14, <1>15, <1>16, <1>17, <1>18, <1>19, <1>20, <1>21,
    <1>22, <1>23, <1>24, <1>25, <1>26, <1>27, <1>28, <1>29, <1>30, <1>31,
    <1>32, <1>33, <1>34, <1>35, <1>36, <1>37
  DEF Next, Bids, SessionStep, ReadLoopStep, AdapterStep, Timers, CloseStep,
    AbsorbResponse, StaleResponse, AbsorbReset, GatewaySends, ResponseLost

-----------------------------------------------------------------------------
(* The inductive invariant and what it gives. *)

LEMMA IndInvInit ==
  ASSUME Init
  PROVE  IndInv
<1>a. Len(<<>>) = 0 /\ 1 .. 0 = {} /\ \A S : <<>> \in Seq(S)
  BY EmptySeq
<1>1. Types
  <2>1. arb \in Arbitrators
    BY DEF Init, Arbitrators
  <2>2. rl \in ReadLoop
    BY DEF Init, Reading, ReadLoop
  <2>3. barrier \in Barriers
    BY DEF Init, NoBarrier, Barriers
  <2>4. bid \in Seq([session : Sessions, address : Addresses]) /\ Len(bid) <= MaxBids
    BY <1>a, ConstantTypes DEF Init
  <2>5. adapter \in Seq(Waiters)
    BY <1>a DEF Init
  <2>6. epoch \in Nat /\ late \in 0 .. MaxLate
    BY ConstantTypes DEF Init
  <2>7. result \in [Waiters -> Results]
    BY DEF Init, Results
  <2> QED  BY <2>1, <2>2, <2>3, <2>4, <2>5, <2>6, <2>7 DEF Init, Types
<1>2. OneStart /\ BidsMade /\ InOnePlace
  BY DEF Init, OneStart, BidsMade, InOnePlace
<1>3. HeldIsOpen
  BY ConstantTypes DEF Init, HeldIsOpen, Held, Pending
<1>4. Outstanding
  BY <1>a DEF Init, Outstanding, ResponsesAreAttributed, Reading
<1>5. Fences
  BY DEF Init, Fences, OwnerIsPresent, Reading
<1> QED  BY <1>1, <1>2, <1>3, <1>4, <1>5 DEF IndInv

LEMMA IndInvNext ==
  ASSUME IndInv, [Next]_vars
  PROVE  IndInv'
<1>1. CASE Next
  BY <1>1, TypesNext, OneStartStep, BidsMadeNext, InOnePlaceNext, HeldIsOpenNext,
     OutstandingNext, FencesNext
  DEF IndInv
<1>2. CASE UNCHANGED vars
  <2>1. Types' /\ OneStart' /\ BidsMade' /\ InOnePlace'
    BY <1>2 DEF IndInv, vars, Types, OneStart, BidsMade, InOnePlace, Made, Pending, Bidder
  <2>2. HeldIsOpen'
    BY <1>2 DEF IndInv, vars, HeldIsOpen, Held, Pending
  <2>3. Outstanding' /\ Fences'
    BY <1>2
    DEF IndInv, vars, Outstanding, ResponsesAreAttributed, Tag, Fences, OwnerIsPresent, Bidder
  <2> QED  BY <2>1, <2>2, <2>3 DEF IndInv
<1> QED  BY <1>1, <1>2

(* Everything the arbitration keeps between two critical sections. *)
THEOREM MuxInvariant == Spec => []IndInv
<1>1. Init => IndInv
  BY IndInvInit
<1>2. IndInv /\ [Next]_vars => IndInv'
  BY IndInvNext
<1> QED  BY <1>1, <1>2, PTL DEF Spec

(* No path of requestStartForSession, of the read loop, of a removal, a    *)
(* timer or Close sends a second result on a waiter's channel, whose one   *)
(* slot would block the sender under a lock.                               *)
THEOREM MuxOneResult == Spec => []OneResult
<1>1. IndInv => OneResult
  BY DEF IndInv, HeldIsOpen, OneResult
<1> QED  BY <1>1, MuxInvariant, PTL

LEMMA OneQueued ==
  ASSUME Types, BidsMade, NEW s \in Externals
  PROVE  Cardinality(Queued(s)) <= 1
<1>1. CASE Queued(s) = {}
  BY <1>1, FS_EmptySet
<1>2. CASE Queued(s) # {}
  <2>1. PICK w \in Queued(s) : TRUE
    BY <1>2
  <2>2. Queued(s) = {w}
    BY <2>1 DEF Queued, BidsMade
  <2>3. Cardinality({w}) = 1
    BY FS_Singleton
  <2> QED  BY <2>2, <2>3
<1> QED  BY <1>1, <1>2

(* The state keeps its types, a session has one queued bid at most, and a  *)
(* waiter without a result is queued, deferred or the one whose START is   *)
(* out: no removal, reset, cancellation or lost race drops it.             *)
THEOREM MuxNoBidForgotten == Spec => []NoBidForgotten
<1>1. IndInv => NoBidForgotten
  <2> SUFFICES ASSUME IndInv PROVE NoBidForgotten
    OBVIOUS
  <2>1. TypeOK
    BY OneQueued DEF IndInv, TypeOK
  <2> QED  BY <2>1 DEF IndInv, HeldIsOpen, Held, NoBidForgotten
<1> QED  BY <1>1, MuxInvariant, PTL

(* As long as the absorb timer gave up on no response that still came, a   *)
(* STARTED or FAILED is attributed to the START it answers, and the grant  *)
(* that is being committed is the one the adapter named.                   *)
THEOREM MuxResponsesAreAttributed == Spec => []ResponsesAreAttributed
<1>1. IndInv => ResponsesAreAttributed
  BY DEF IndInv, Outstanding
<1> QED  BY <1>1, MuxInvariant, PTL

(* A removed session does not own the bus once its grant is released, and  *)
(* nobody owns it after Close, whatever the read loop had begun.           *)
THEOREM MuxOwnerIsPresent == Spec => []OwnerIsPresent
<1>1. IndInv => OwnerIsPresent
  BY DEF IndInv, Fences
<1> QED  BY <1>1, MuxInvariant, PTL

=============================================================================
