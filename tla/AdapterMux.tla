------------------------------- MODULE AdapterMux -------------------------------
(***************************************************************************)
(* Bus arbitration in the adapter multiplexer (internal/adaptermux): the   *)
(* gateway (session 0) and external sessions bid for the bus, one bid is   *)
(* forwarded to the adapter at a SYN, and the adapter's STARTED or FAILED  *)
(* is attributed to it.  The actors are the read loop, which alone selects *)
(* and attributes; the sessions; the removal of a session; the timers; the *)
(* gateway's transactions; and Close.  One action is one critical section  *)
(* of stateMu or of the arbitrator's lock.                                 *)
(***************************************************************************)
EXTENDS Naturals, Sequences, FiniteSets

CONSTANTS
    Externals,          \* external session ids, numbers above 0
    Addresses,          \* initiator addresses, bytes
    None,               \* no bid, no pending START, no owner
    MaxBids, MaxEpoch,  \* bids ever made; resets, reconnects and the close
    MaxLate             \* responses that outlive the wait for them

Gateway == 0
Sessions == {Gateway} \cup Externals
Waiters == 1 .. MaxBids

\* startRequest as pendingStart holds it.
Starts == [waiter : Waiters, cancelled : BOOLEAN, responded : BOOLEAN, epoch : Nat]

ASSUME MuxBounds ==
    /\ Externals \subseteq Nat \ {0} /\ IsFiniteSet(Externals)
    /\ Addresses \subseteq 0 .. 255
    /\ {MaxBids, MaxEpoch, MaxLate} \subseteq Nat
    /\ None \notin Sessions \cup Waiters \cup Starts

VARIABLES
    arb,        \* bids, owner and the grant it owns the bus by
    pending,    \* pendingStart: the START at the adapter, or None
    barrier,    \* absorb counter, regrant fence, retired selection
    txn,        \* the gateway's transaction: "unused", "active", "ended"
    session,    \* per external session: membership and the removal's progress
    syncancel,  \* per external session: the progress of a START 0xAA
    rl,         \* the read loop between two critical sections
    closing,    \* the progress of Close, from "open" to "closed"
    epoch,      \* lifecycleEpoch
    adapter,    \* external: the STARTs the adapter has still to answer
    bid,        \* history: the session and the address of every waiter
    result,     \* history: the result of every waiter, or "open"
    late        \* history: responses given up too early

vars == <<arb, pending, barrier, txn, session, syncancel, rl, closing,
          epoch, adapter, bid, result, late>>

-----------------------------------------------------------------------------
(* Arbitrator                                                                *)

\* A waiter stands for its startRequest: the request keeps its identity when a
\* same-address bid takes it over, and its notify channel is then the new one.
Bidder(w) == bid[w].session
Address(w) == bid[w].address

\* higherPriority: low nibble, then high nibble, then session id.
HigherPriority(v, w) ==
    LET a == Address(v)
        b == Address(w)
    IN  IF a % 16 # b % 16 THEN a % 16 < b % 16
        ELSE IF a # b THEN a \div 16 < b \div 16
        ELSE Bidder(v) < Bidder(w)

Pending == arb.external \cup ({arb.gateway} \ {None})

\* Which refusal a waiter reads (cancelled, lost, timeout, an error) is left out.
\* The result channel holds one result.  A plain send must find it empty; a
\* guarded one gives up.
Answer(results, w, r) ==
    [results EXCEPT ![w] = IF @ = "open" THEN r ELSE "twice"]
TryRefuse(results, w) == [results EXCEPT ![w] = IF @ = "open" THEN "refused" ELSE @]
RefuseAll(ws) ==
    [w \in Waiters |-> IF w \notin ws THEN result[w]
                       ELSE IF result[w] = "open" THEN "refused" ELSE "twice"]

Owns(s) == arb.owner # None /\ Bidder(arb.owner) = s

\* releaseOwnership: the next token differs because the grant does.
Released(s) == IF Owns(s) THEN [arb EXCEPT !.owner = None] ELSE arb

\* cancelStart, for an external session.
Queued(s) == {w \in arb.external : Bidder(w) = s}
CancelStart(s) ==
    /\ arb' = [arb EXCEPT !.external = @ \ Queued(s)]
    /\ result' = RefuseAll(Queued(s))

-----------------------------------------------------------------------------
NoBarrier == [absorb |-> 0, fenced |-> FALSE, retired |-> FALSE]
Reading == [pc |-> "idle"]

\* fenceArbitrationUntilSYNLocked
Fenced(b) == [b EXCEPT !.fenced = TRUE, !.retired = TRUE]
\* armPendingStartAbsorbLocked
Absorbing(b) == [b EXCEPT !.absorb = @ + 1]

Init ==
    /\ arb = [gateway |-> None, deferred |-> None, external |-> {}, owner |-> None]
    /\ pending = None
    /\ barrier = NoBarrier
    /\ txn = "ended"
    /\ session = [s \in Externals |-> "absent"]
    /\ syncancel = [s \in Externals |-> "idle"]
    /\ rl = Reading
    /\ closing = "open"
    /\ epoch = 0
    /\ adapter = <<>>
    /\ bid = <<>>
    /\ result = [w \in Waiters |-> "none"]
    /\ late = 0

-----------------------------------------------------------------------------
(* Bids (requestStartForSession, under stateMu and then the arbitrator).     *)
(* Neither a session's removal nor Close stops a START already being read.   *)

NewBid(s, a) ==
    /\ Len(bid) < MaxBids
    /\ bid' = Append(bid, [session |-> s, address |-> a])

Opened(results) == [results EXCEPT ![Len(bid) + 1] = "open"]

InFlight(s) == pending # None /\ Bidder(pending.waiter) = s

\* markInFlightCancelled
Superseded(s) == IF InFlight(s) THEN [pending EXCEPT !.cancelled = TRUE] ELSE pending

\* retirePreviousGatewayTxnLocked: a live or unused grant ends with the new bid,
\* a finished one keeps its idle grace.
GatewayRetires == txn = "active" \/ (Owns(Gateway) /\ txn = "unused")

GatewayStart(a) ==
    /\ closing # "closed" /\ NewBid(Gateway, a)
    /\ LET old == {arb.gateway, arb.deferred} \ {None}
       IN  result' = Opened(RefuseAll(old))
    /\ arb' = [IF GatewayRetires THEN Released(Gateway) ELSE arb
                 EXCEPT !.gateway = Len(bid) + 1, !.deferred = None]
    /\ txn' = IF GatewayRetires THEN "ended" ELSE txn
    /\ pending' = Superseded(Gateway)
    /\ UNCHANGED <<barrier, session, syncancel, rl, closing, epoch,
                   adapter, late>>

\* Mutant: the waiter that is replaced is not told.
ExternalStartSilent(s, a) ==
    /\ session[s] \notin {"absent", "gone"} /\ syncancel[s] = "idle"
    /\ closing # "closed" /\ NewBid(s, a)
    /\ result' = Opened(result)
    /\ arb' = [arb EXCEPT !.external = (@ \ Queued(s)) \cup {Len(bid) + 1}]
    /\ pending' = Superseded(s)
    /\ UNCHANGED <<barrier, txn, session, syncancel, rl, closing, epoch,
                   adapter, late>>

\* A bid for the address already in flight is answered at once; any other takes
\* the place of the session's queued bid and of the one in flight.
ExternalStart(s, a) ==
    /\ session[s] \notin {"absent", "gone"} /\ syncancel[s] = "idle"
    /\ closing # "closed" /\ NewBid(s, a)
    /\ IF InFlight(s) /\ Address(pending.waiter) = a
       THEN /\ result' = [result EXCEPT ![Len(bid) + 1] = "refused"]
            /\ UNCHANGED <<arb, pending>>
       ELSE /\ result' = Opened(RefuseAll(Queued(s)))
            /\ arb' = [arb EXCEPT !.external = (@ \ Queued(s)) \cup {Len(bid) + 1}]
            /\ pending' = Superseded(s)
    /\ UNCHANGED <<barrier, txn, session, syncancel, rl, closing, epoch,
                   adapter, late>>

\* The admission timer of a gateway bid that is still queued or deferred, or the
\* gateway giving up on a closing multiplexer (StartArbitration).
ExpireGatewayAdmission ==
    /\ \/ /\ arb.gateway # None
          /\ result' = Answer(result, arb.gateway, "refused")
          /\ arb' = [arb EXCEPT !.gateway = None]
       \/ /\ arb.deferred # None
          /\ result' = Answer(result, arb.deferred, "refused")
          /\ arb' = [arb EXCEPT !.deferred = None]
    /\ UNCHANGED <<pending, barrier, txn, session, syncancel, rl, closing,
                   epoch, adapter, bid, late>>

-----------------------------------------------------------------------------
(* Selection at a SYN (read loop)                                            *)

Idle == rl.pc = "idle" /\ closing # "closed"

\* onSYNLocked on the owner.  A gateway transaction may go on over the SYN;
\* once it is over, a waiting external bid ends its idle grace.  The grace
\* times themselves are not modelled: either outcome may be due.
SynOutcomes ==
    CASE arb.owner = None  -> {<<arb, txn>>}
      [] Owns(Gateway) ->
           (IF txn = "active" THEN {<<arb, txn>>} ELSE {})
             \cup {<<Released(Gateway), IF txn = "active" THEN "ended" ELSE txn>>}
             \cup (IF arb.external = {}
                   THEN {<<arb, IF txn = "active" THEN "ended" ELSE txn>>} ELSE {})
      [] OTHER -> {<<arb, txn>>, <<Released(Bidder(arb.owner)), txn>>}

\* Mutant: the fence outlives the SYN.
SynStillFenced ==
    /\ Idle
    /\ \E o \in SynOutcomes : arb' = o[1] /\ txn' = o[2]
    /\ rl' = IF Pending = {} THEN Reading ELSE [pc |-> "select", bids |-> Pending]
    /\ UNCHANGED <<pending, barrier, session, syncancel, closing, epoch, adapter,
                   bid, result, late>>

\* A structural SYN clears the fence and freezes the bids of this window.
Syn ==
    /\ Idle
    /\ barrier' = [barrier EXCEPT !.fenced = FALSE]
    /\ \E o \in SynOutcomes : arb' = o[1] /\ txn' = o[2]
    /\ rl' = IF Pending = {} THEN Reading ELSE [pc |-> "select", bids |-> Pending]
    /\ UNCHANGED <<pending, session, syncancel, closing, epoch, adapter,
                   bid, result, late>>

\* Mutant: a START goes out although a response is still to be absorbed.
OpenDespiteAbsorb == pending = None /\ ~barrier.fenced /\ arb.owner = None

Open == pending = None /\ barrier.absorb = 0 /\ ~barrier.fenced /\ arb.owner = None

\* selectBidsAtSYN: only waiters frozen at the SYN take part.
Eligible == Pending \cap rl.bids
Winner == CHOOSE w \in Eligible : \A v \in Eligible \ {w} : HigherPriority(w, v)

\* The losers are answered at once, the gateway's loss once the START is out.
Select ==
    /\ rl.pc = "select" /\ Open /\ Eligible # {}
    /\ LET losers == Eligible \ {Winner}
       IN  /\ result' = RefuseAll(losers \cap arb.external)
           /\ arb' = [arb EXCEPT
                !.external = @ \ Eligible,
                !.gateway = IF @ \in Eligible THEN None ELSE @,
                !.deferred = IF arb.gateway \in losers THEN arb.gateway ELSE @]
    /\ pending' = [waiter |-> Winner, cancelled |-> FALSE, responded |-> FALSE, epoch |-> epoch]
    /\ barrier' = [barrier EXCEPT !.retired = FALSE]
    /\ rl' = [pc |-> "send", waiter |-> Winner]
    /\ UNCHANGED <<txn, session, syncancel, closing, epoch, adapter, bid,
                   late>>

SelectNothing ==
    /\ rl.pc = "select" /\ ~(Open /\ Eligible # {})
    /\ rl' = Reading
    /\ UNCHANGED <<arb, pending, barrier, txn, session, syncancel, closing,
                   epoch, adapter, bid, result, late>>

Mine == pending # None /\ pending.waiter = rl.waiter

\* settleLocalLosses, for a START that did or did not reach the adapter.
Settled(results) ==
    IF arb.deferred = None THEN results ELSE Answer(results, arb.deferred, "refused")

\* Mutant: the deferred loss is sent and kept.
StartSentKeepsDeferred ==
    /\ rl.pc = "send" /\ closing = "open"
    /\ adapter' = Append(adapter, rl.waiter)
    /\ result' = Settled(result)
    /\ rl' = Reading
    /\ UNCHANGED <<arb, pending, barrier, txn, session, syncancel, closing, epoch,
                   bid, late>>

StartSent ==
    /\ rl.pc = "send" /\ closing = "open"
    /\ adapter' = Append(adapter, rl.waiter)
    /\ result' = Settled(result)
    /\ arb' = [arb EXCEPT !.deferred = None]
    /\ rl' = Reading
    /\ UNCHANGED <<pending, barrier, txn, session, syncancel, closing, epoch,
                   bid, late>>

\* RequestStart returns an error: no response will come, and none is absorbed.
StartFails ==
    /\ rl.pc = "send"
    /\ arb' = [arb EXCEPT !.deferred = None]
    /\ IF Mine
       THEN /\ pending' = None
            /\ result' = Answer(Settled(result), rl.waiter, "refused")
            /\ UNCHANGED barrier
       ELSE /\ result' = Settled(result)
            /\ barrier' = IF barrier.absorb <= 1 THEN NoBarrier
                          ELSE [barrier EXCEPT !.absorb = @ - 1]
            /\ UNCHANGED pending
    /\ rl' = Reading
    /\ UNCHANGED <<txn, session, syncancel, closing, epoch, adapter, bid,
                   late>>

-----------------------------------------------------------------------------
(* Responses (handleArbitrationResponse, completeArbitrationGrant)           *)

Tag == Head(adapter)
Response == Idle /\ adapter # <<>> /\ adapter' = Tail(adapter)

\* A response to a START that was given up is consumed behind the barrier.
AbsorbResponse ==
    /\ Response /\ barrier.absorb > 0
    /\ barrier' = [Fenced(barrier) EXCEPT !.absorb = @ - 1]
    /\ UNCHANGED <<arb, pending, txn, session, syncancel, rl, closing, epoch,
                   bid, result, late>>

StaleResponse ==
    /\ Response /\ barrier.absorb = 0 /\ pending = None
    /\ barrier' = IF barrier.retired THEN Fenced(barrier) ELSE barrier
    /\ UNCHANGED <<arb, pending, txn, session, syncancel, rl, closing, epoch,
                   bid, result, late>>

Attributed == Response /\ barrier.absorb = 0 /\ pending # None

\* STARTED names another address: the pending START's own answer is to come.
StartedMismatch ==
    /\ Attributed /\ Address(Tag) # Address(pending.waiter)
    /\ pending' = None
    /\ barrier' = Absorbing(Fenced(barrier))
    /\ result' = IF pending.cancelled THEN TryRefuse(result, pending.waiter)
                 ELSE Answer(result, pending.waiter, "refused")
    /\ UNCHANGED <<arb, txn, session, syncancel, rl, closing, epoch, bid,
                   late>>

StartedCancelled ==
    /\ Attributed /\ Address(Tag) = Address(pending.waiter) /\ pending.cancelled
    /\ pending' = None
    /\ barrier' = Fenced(barrier)
    /\ result' = TryRefuse(result, pending.waiter)
    /\ UNCHANGED <<arb, txn, session, syncancel, rl, closing, epoch, bid,
                   late>>

\* The lock is released between the response and its commit.
Started ==
    /\ Attributed /\ Address(Tag) = Address(pending.waiter) /\ ~pending.cancelled
    /\ pending' = [pending EXCEPT !.responded = TRUE]
    /\ rl' = [pc |-> "grant", waiter |-> pending.waiter, epoch |-> pending.epoch, tag |-> Tag]
    /\ UNCHANGED <<arb, barrier, txn, session, syncancel, closing, epoch,
                   bid, result, late>>

Failed ==
    /\ Attributed
    /\ pending' = None
    /\ barrier' = Fenced(barrier)
    /\ result' = IF pending.cancelled THEN TryRefuse(result, pending.waiter)
                 ELSE Answer(result, pending.waiter, "refused")
    /\ UNCHANGED <<arb, txn, session, syncancel, rl, closing, epoch, bid,
                   late>>

Granting == rl.pc = "grant" /\ rl' = Reading

\* A lifecycle boundary retired the selection: nothing is left to do.
GrantOutlived ==
    /\ Granting /\ rl.epoch # epoch
    /\ UNCHANGED <<arb, pending, barrier, txn, session, syncancel, closing,
                   epoch, adapter, bid, result, late>>

\* Cancelled between the response and the commit.
GrantRetired ==
    /\ Granting /\ rl.epoch = epoch /\ ~Mine
    /\ barrier' = Fenced(barrier)
    /\ UNCHANGED <<arb, pending, txn, session, syncancel, closing, epoch,
                   adapter, bid, result, late>>

\* Replaced, or its session is gone or cannot take the STARTED.
GrantRejected ==
    /\ Granting /\ rl.epoch = epoch /\ Mine
    /\ LET s == Bidder(rl.waiter)
       IN  \/ pending.cancelled /\ UNCHANGED session
           \/ /\ s # Gateway /\ session[s] # "live" /\ UNCHANGED session
           \/ /\ s # Gateway /\ session[s] = "live"         \* its queue is full
              /\ session' = [session EXCEPT ![s] = "removed"]
    /\ pending' = None
    /\ barrier' = Fenced(barrier)
    /\ result' = TryRefuse(result, rl.waiter)
    /\ UNCHANGED <<arb, txn, syncancel, closing, epoch, adapter, bid, late>>

\* Mutant: the membership of the session is not looked up again.
GrantUnchecked ==
    /\ Granting /\ rl.epoch = epoch /\ Mine /\ ~pending.cancelled
    /\ pending' = None
    /\ arb' = [arb EXCEPT !.owner = rl.waiter]
    /\ txn' = IF Bidder(rl.waiter) = Gateway THEN "unused" ELSE txn
    /\ result' = Answer(result, rl.waiter, "granted")
    /\ UNCHANGED <<barrier, session, syncancel, closing, epoch, adapter, bid,
                   late>>

Grant ==
    /\ Granting /\ rl.epoch = epoch /\ Mine /\ ~pending.cancelled
    /\ Bidder(rl.waiter) # Gateway => session[Bidder(rl.waiter)] = "live"
    /\ pending' = None
    /\ arb' = [arb EXCEPT !.owner = rl.waiter]
    /\ txn' = IF Bidder(rl.waiter) = Gateway THEN "unused" ELSE txn
    /\ result' = Answer(result, rl.waiter, "granted")
    /\ UNCHANGED <<barrier, session, syncancel, closing, epoch, adapter, bid,
                   late>>

-----------------------------------------------------------------------------
(* Timers                                                                    *)

\* AM8: the adapter did not answer in time; its answer may still come.
DeadlineExpires ==
    /\ pending # None /\ ~pending.responded
    /\ pending' = None
    /\ barrier' = Absorbing(Fenced(barrier))
    /\ arb' = [arb EXCEPT !.deferred = None]
    /\ result' = TryRefuse(Settled(result), pending.waiter)
    /\ UNCHANGED <<txn, session, syncancel, rl, closing, epoch, adapter, bid,
                   late>>

\* fireAbsorbReset.  The adapter answers within the wait or never, but for
\* MaxLate responses.
Unanswered == adapter # <<>> \/ rl.pc = "send"
AbsorbReset ==
    /\ barrier.absorb > 0
    /\ Unanswered => late < MaxLate
    /\ late' = IF Unanswered THEN late + 1 ELSE late
    /\ barrier' = [barrier EXCEPT !.absorb = 0]
    /\ UNCHANGED <<arb, pending, txn, session, syncancel, rl, closing, epoch,
                   adapter, bid, result>>

\* The abandon watchdog of an external session checks the grant and releases
\* the ownership under a lock it takes afterwards: by then the session may own
\* the bus by a later grant, whatever the read loop is doing.
AbandonWatchdog ==
    /\ arb.owner # None /\ ~Owns(Gateway)
    /\ arb' = Released(Bidder(arb.owner))
    /\ UNCHANGED <<pending, barrier, txn, session, syncancel, rl, closing, epoch,
                   adapter, bid, result, late>>

-----------------------------------------------------------------------------
(* Owners                                                                    *)

\* The owner's transaction is done, or its time is up.
OwnershipEnds ==
    /\ Idle /\ arb.owner # None
    /\ txn' = IF Owns(Gateway) /\ txn = "active" THEN "ended" ELSE txn
    /\ arb' = Released(Bidder(arb.owner))
    /\ UNCHANGED <<pending, barrier, session, syncancel, rl, closing, epoch,
                   adapter, bid, result, late>>

\* sendLoop takes a byte of the gateway; that the gateway owns the bus is tested
\* afterwards, and a byte that comes late then ends as GatewayFails.
GatewaySends ==
    /\ closing # "closed" /\ txn # "active"
    /\ txn' = "active"
    /\ UNCHANGED <<arb, pending, barrier, session, syncancel, rl, closing,
                   epoch, adapter, bid, result, late>>

\* releaseGatewayAfterFailureLocked: a write error, a read timeout or a lost
\* first byte; only the last one waits for the next SYN.
GatewayFails ==
    /\ txn = "active"
    /\ txn' = "ended"
    /\ arb' = Released(Gateway)
    /\ \E lost \in {FALSE, Owns(Gateway)} : barrier' = [barrier EXCEPT !.fenced = @ \/ lost]
    /\ UNCHANGED <<pending, session, syncancel, rl, closing, epoch, adapter,
                   bid, result, late>>

-----------------------------------------------------------------------------
(* Sessions                                                                  *)

AddSession(s) ==
    /\ session[s] = "absent" /\ closing = "open"
    /\ session' = [session EXCEPT ![s] = "live"]
    /\ UNCHANGED <<arb, pending, barrier, txn, syncancel, rl, closing, epoch,
                   adapter, bid, result, late>>

\* releaseSessionGrant: the win is retired behind the next SYN.
ReleaseSessionGrant(s) ==
    /\ barrier' = IF Owns(s) THEN Fenced(barrier) ELSE barrier
    /\ arb' = Released(s)

\* cancelPendingStart: a response that has already been read is not awaited.
CancelPendingStart(s) ==
    IF InFlight(s)
    THEN /\ pending' = None
         /\ barrier' = IF pending.responded THEN Fenced(barrier) ELSE Absorbing(Fenced(barrier))
         /\ result' = TryRefuse(result, pending.waiter)
    ELSE UNCHANGED <<pending, barrier, result>>

\* START 0xAA withdraws: three critical sections of the session's read loop.
\* With nothing to withdraw all three change nothing.
SynCancelQueued(s) ==
    /\ session[s] = "live" /\ syncancel[s] = "idle"
    /\ Queued(s) # {} \/ Owns(s) \/ InFlight(s)
    /\ CancelStart(s)
    /\ syncancel' = [syncancel EXCEPT ![s] = "grant"]
    /\ UNCHANGED <<pending, barrier, txn, session, rl, closing, epoch, adapter,
                   bid, late>>

SynCancelGrant(s) ==
    /\ syncancel[s] = "grant"
    /\ ReleaseSessionGrant(s)
    /\ syncancel' = [syncancel EXCEPT ![s] = "inflight"]
    /\ UNCHANGED <<pending, txn, session, rl, closing, epoch, adapter, bid,
                   result, late>>

SynCancelInFlight(s) ==
    /\ syncancel[s] = "inflight"
    /\ CancelPendingStart(s)
    /\ syncancel' = [syncancel EXCEPT ![s] = "idle"]
    /\ UNCHANGED <<arb, txn, session, rl, closing, epoch, adapter, bid, late>>

\* RemoveSession: out of the map first, then the grant, the bids, the START.
RemoveSession(s) ==
    /\ session[s] = "live"
    /\ session' = [session EXCEPT ![s] = "removed"]
    /\ UNCHANGED <<arb, pending, barrier, txn, syncancel, rl, closing, epoch,
                   adapter, bid, result, late>>

RemoveGrant(s) ==
    /\ session[s] = "removed"
    /\ ReleaseSessionGrant(s)
    /\ session' = [session EXCEPT ![s] = "released"]
    /\ UNCHANGED <<pending, txn, syncancel, rl, closing, epoch, adapter, bid,
                   result, late>>

RemoveQueued(s) ==
    /\ session[s] = "released"
    /\ CancelStart(s)
    /\ session' = [session EXCEPT ![s] = "unqueued"]
    /\ UNCHANGED <<pending, barrier, txn, syncancel, rl, closing, epoch,
                   adapter, bid, late>>

RemoveInFlight(s) ==
    /\ session[s] = "unqueued"
    /\ CancelPendingStart(s)
    /\ session' = [session EXCEPT ![s] = "gone"]
    /\ UNCHANGED <<arb, txn, syncancel, rl, closing, epoch, adapter, bid,
                   late>>

-----------------------------------------------------------------------------
(* Lifecycle boundaries.  The epoch moves first, without a lock.             *)

Ended == IF txn = "active" THEN "ended" ELSE txn

\* What every boundary clears under stateMu, with the answer it then sends.
ClearSelection ==
    /\ pending' = None
    /\ barrier' = NoBarrier
    /\ txn' = Ended
    /\ result' = IF pending = None THEN result ELSE TryRefuse(result, pending.waiter)

\* forceRelease and failAllPending.  Nobody owns the bus again between the two:
\* a grant selected before the boundary is outlived.
FailAllPending ==
    /\ arb' = [gateway |-> None, deferred |-> None, external |-> {}, owner |-> None]
    /\ result' = RefuseAll(Pending \cup ({arb.deferred} \ {None}))

\* handleReset and reconnect; what the adapter had still to answer is gone.
Boundary ==
    /\ Idle /\ epoch < MaxEpoch
    /\ epoch' = epoch + 1
    /\ adapter' = <<>>
    /\ rl' = [pc |-> "clear"]
    /\ UNCHANGED <<arb, pending, barrier, txn, session, syncancel, closing,
                   bid, result, late>>

BoundaryClears ==
    /\ rl.pc = "clear" /\ rl' = [pc |-> "fail"]
    /\ ClearSelection
    /\ UNCHANGED <<arb, session, syncancel, closing, epoch, adapter, bid,
                   late>>

BoundaryFails ==
    /\ rl.pc = "fail" /\ rl' = Reading
    /\ FailAllPending
    /\ UNCHANGED <<pending, barrier, txn, session, syncancel, closing, epoch,
                   adapter, bid, late>>

Closing(from, to) == closing = from /\ closing' = to

\* The connection is closed: the adapter gets and says nothing more.
Close ==
    /\ Closing("open", "closing")
    /\ adapter' = <<>>
    /\ UNCHANGED <<arb, pending, barrier, txn, session, syncancel, rl, epoch,
                   bid, result, late>>

CloseFences ==
    /\ Closing("closing", "fenced")
    /\ epoch' = epoch + 1
    /\ UNCHANGED <<arb, pending, barrier, txn, session, syncancel, rl, adapter,
                   bid, result, late>>

CloseClears ==
    /\ Closing("fenced", "cleared")
    /\ ClearSelection
    /\ UNCHANGED <<arb, session, syncancel, rl, epoch, adapter, bid, late>>

CloseFails ==
    /\ Closing("cleared", "failed")
    /\ FailAllPending
    /\ session' = [s \in Externals |-> IF session[s] = "live" THEN "gone" ELSE session[s]]
    /\ UNCHANGED <<pending, barrier, txn, syncancel, rl, epoch, adapter, bid,
                   late>>

\* Close returns once the read loop has.
CloseReturns ==
    /\ Closing("failed", "closed") /\ rl.pc = "idle"
    /\ UNCHANGED <<arb, pending, barrier, txn, session, syncancel, rl, epoch,
                   adapter, bid, result, late>>

\* External: the adapter never answers, or its answer is lost.
ResponseLost ==
    /\ adapter # <<>> /\ adapter' = Tail(adapter)
    /\ UNCHANGED <<arb, pending, barrier, txn, session, syncancel, rl, closing,
                   epoch, bid, result, late>>

-----------------------------------------------------------------------------
Bids ==
    \/ \E a \in Addresses :
          GatewayStart(a) \/ \E s \in Externals : ExternalStart(s, a)
    \/ \E s \in Externals : AddSession(s) \/ SynCancelQueued(s) \/ RemoveSession(s)

SessionStep ==
    \E s \in Externals :
        \/ SynCancelGrant(s) \/ SynCancelInFlight(s)
        \/ RemoveGrant(s) \/ RemoveQueued(s) \/ RemoveInFlight(s)

ReadLoopStep ==
    \/ Select \/ SelectNothing \/ StartSent \/ StartFails
    \/ GrantOutlived \/ GrantRetired \/ GrantRejected \/ Grant
    \/ BoundaryClears \/ BoundaryFails

AdapterStep ==
    \/ AbsorbResponse \/ StaleResponse \/ StartedMismatch \/ StartedCancelled
    \/ Started \/ Failed \/ ResponseLost

Timers ==
    ExpireGatewayAdmission \/ DeadlineExpires \/ AbsorbReset \/ AbandonWatchdog

CloseStep == CloseFences \/ CloseClears \/ CloseFails \/ CloseReturns

Next ==
    \/ Bids \/ SessionStep \/ Syn \/ ReadLoopStep \/ AdapterStep \/ Timers
    \/ OwnershipEnds \/ GatewaySends \/ GatewayFails
    \/ Boundary \/ Close \/ CloseStep

Spec == Init /\ [][Next]_vars

\* Goroutines run and timers fire; a bus with a connected adapter keeps
\* repeating SYN; the ownership limit is tested at every byte that is read, so
\* an owner whose time is up is released although the read loop is busy between
\* two bytes.
Fairness ==
    /\ WF_vars(ReadLoopStep) /\ WF_vars(SessionStep) /\ WF_vars(CloseStep)
    /\ WF_vars(AdapterStep) /\ WF_vars(DeadlineExpires) /\ WF_vars(AbsorbReset)
    /\ WF_vars(Syn) /\ SF_vars(OwnershipEnds)
FairSpec == Spec /\ Fairness

-----------------------------------------------------------------------------
(* Properties                                                                *)

\* The read loop between two critical sections, by where it is.
ReadLoop ==
    [pc : {"idle", "clear", "fail"}]
      \cup [pc : {"select"}, bids : SUBSET Waiters]
      \cup [pc : {"send"}, waiter : Waiters]
      \cup [pc : {"grant"}, waiter : Waiters, epoch : Nat, tag : Waiters]

Arbitrators ==
    [gateway : Waiters \cup {None}, deferred : Waiters \cup {None},
     external : SUBSET Waiters, owner : Waiters \cup {None}]
Barriers == [absorb : 0 .. 1, fenced : BOOLEAN, retired : BOOLEAN]
Results == {"none", "open", "granted", "refused", "twice"}

Types ==
    /\ bid \in Seq([session : Sessions, address : Addresses]) /\ Len(bid) <= MaxBids
    /\ arb \in Arbitrators
    /\ pending \in Starts \cup {None}
    /\ barrier \in Barriers
    /\ txn \in {"unused", "active", "ended"}
    /\ session \in [Externals -> {"absent", "live", "removed", "released", "unqueued", "gone"}]
    /\ syncancel \in [Externals -> {"idle", "grant", "inflight"}]
    /\ rl \in ReadLoop
    /\ closing \in {"open", "closing", "fenced", "cleared", "failed", "closed"}
    /\ epoch \in Nat /\ late \in 0 .. MaxLate
    /\ adapter \in Seq(Waiters)
    /\ result \in [Waiters -> Results]

\* Types; a session has at most one queued bid.
TypeOK == Types /\ \A s \in Externals : Cardinality(Queued(s)) <= 1

\* A waiter gets one result: no path sends a second one on its channel, whose
\* one slot would block the sender under stateMu or the arbitrator's lock.
OneResult == \A w \in Waiters : result[w] # "twice"

\* A bid without a result is in the hands of someone who will send it: it is
\* queued, deferred behind the selected START, or the one in flight.
NoBidForgotten ==
    /\ TypeOK
    /\ \A w \in Waiters : result[w] = "open" =>
          \/ w \in Pending \cup {arb.deferred}
          \/ pending # None /\ pending.waiter = w

\* As long as no response was given up too early, the response that comes next
\* is the one of the START it will be attributed to: a cancelled or expired
\* START's own response is absorbed before another START is sent.
ResponsesAreAttributed ==
    late = 0 =>
      /\ Len(adapter) <= 1
      /\ pending # None /\ ~pending.responded /\ adapter # <<>> =>
            barrier.absorb = 0 /\ Tag = pending.waiter
      /\ pending = None /\ adapter # <<>> /\ closing = "open" => barrier.absorb = 1
      /\ rl.pc = "grant" => rl.tag = rl.waiter

\* Who has left does not own the bus.  Whoever removes a session finds its grant,
\* or the grant finds the session missing; and after Close nobody owns the bus
\* and no START is in flight, whatever the read loop had begun.
OwnerIsPresent ==
    /\ arb.owner # None /\ Bidder(arb.owner) \in Externals
         => session[Bidder(arb.owner)] \in {"live", "removed"}
    /\ closing = "closed" => arb.owner = None /\ pending = None

\* Every bid is answered, as long as the multiplexer is open.
BidsAreAnswered ==
    \A w \in Waiters : result[w] = "open" ~> result[w] # "open" \/ closing # "open"

=============================================================================
