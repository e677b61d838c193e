----------------------------- MODULE B503Session -----------------------------
(***************************************************************************)
(* The live-monitor session manager of internal/vaillant/b503session, with *)
(* the raw-frame dispatcher and the lifecycle wiring of cmd/gateway.       *)
(*                                                                         *)
(* m is the Manager; the operators on it are its ...Locked helpers and     *)
(* lifecycle handlers.  A goroutine (a caller of an operation or an idle   *)
(* timer callback) is a slot with a program counter, and one action is one *)
(* section under stateMu, one refresh or one step of the dispatcher.       *)
(* A call that is refused changes nothing and is not a step.               *)
(***************************************************************************)
EXTENDS Integers, Sequences

CONSTANTS
    Callers,     \* goroutines of Enable-, Read- and DisableOperation
    Callbacks,   \* goroutines of the idle timer
    Targets,     \* device addresses
    NoTarget,
    NoProc,
    MaxIds,      \* no call begins after this many identifiers
    MaxEpoch     \* the last transport epoch

Procs == Callers \cup Callbacks

ASSUME SessionAssumption ==
    /\ NoTarget \notin Targets
    /\ NoProc \notin Procs
    /\ Callers \cap Callbacks = {}
    /\ MaxIds \in Nat
    /\ MaxEpoch \in Nat

Epochs == 0 .. MaxEpoch

VARIABLES
    m,            \* the Manager
    emissionMu,   \* the goroutine inside bus.Send, or NoProc
    proc,         \* what each goroutine is doing
    wire          \* the enable and disable frames that entered bus.Send

vars == <<m, emissionMu, proc, wire>>

-----------------------------------------------------------------------------
(* Types.  Identifier 0 is no operation and timer generation 0 no timer.   *)

States == {"Idle", "Enabling", "Active", "Refreshing", "Disabled"}
Kinds == {"enable", "read", "disable"}
(* What a dispatcher returns: the first two were not emitted, the first    *)
(* and the last match ErrTransportDown, and only an ACK has no error.      *)
Outcomes == {"down", "timeout", "ack", "failed", "lost"}
Emitted(out) == out \in {"ack", "failed", "lost"}
TransportDown(out) == out \in {"down", "lost"}

NoOperation ==
    [id |-> 0, kind |-> "enable", target |-> NoTarget, epoch |-> 0,
     emitted |-> FALSE, invalidated |-> FALSE, cleanup |-> FALSE]

Operation(id, kind, target, epoch, isCleanup) ==
    [id |-> id, kind |-> kind, target |-> target, epoch |-> epoch,
     emitted |-> FALSE, invalidated |-> FALSE, cleanup |-> isCleanup]

(* attempt is GatewayCleanupAttemptID, 0 while there is no obligation.     *)
NoCleanup ==
    [attempt |-> 0, target |-> NoTarget, epoch |-> 0, source |-> 0,
     tried |-> FALSE, triedEpoch |-> 0, last |-> "none"]

IdleProc ==
    [pc |-> "idle", kind |-> "enable", op |-> 0, target |-> NoTarget,
     gen |-> 0, epoch |-> 0, issue |-> 0, attempt |-> 0, out |-> "down"]

HasCleanup == m.cleanup.attempt # 0
HasPending == m.pending.id # 0
Fresh == m.ids + 1

-----------------------------------------------------------------------------
(* Helpers that run under stateMu.                                         *)

stopIdleTimer(s) == [s EXCEPT !.timer = 0, !.gen = @ + 1]

releaseOwnerLocked(s) ==
    [stopIdleTimer(s) EXCEPT !.held = FALSE, !.target = NoTarget]

toDisabledLocked(s) ==
    [releaseOwnerLocked(s) EXCEPT !.expiry = FALSE, !.state = "Disabled"]

armIdleTimerLocked(s) == [s EXCEPT !.gen = @ + 1, !.timer = s.gen + 1]

(* The owner stays, and its idle window begins again.                      *)
extendOwner(s) == armIdleTimerLocked([s EXCEPT !.expiry = FALSE])

createCleanupLocked(s, target, epoch, source) ==
    IF s.cleanup.attempt # 0
    THEN s
    ELSE [s EXCEPT
            !.ids = @ + 1,
            !.cleanup = [NoCleanup EXCEPT !.attempt = s.ids + 1,
                            !.target = target, !.epoch = epoch, !.source = source],
            !.state = "Disabled"]

clearCleanupForOperationLocked(s, id) ==
    IF s.cleanup.source = id THEN [s EXCEPT !.cleanup = NoCleanup] ELSE s

endSession(s, target, epoch, source) ==
    createCleanupLocked(toDisabledLocked(s), target, epoch, source)

markAttempt(s, epoch) ==
    [s EXCEPT !.cleanup.tried = TRUE, !.cleanup.triedEpoch = epoch]

(* The timer elapsed under an operation: only a read resolves it later.    *)
deferDropsExpiry(s) == s
deferExpiry(s) == [s EXCEPT !.expiry = @ \/ s.pending.kind = "read"]

(* A lifecycle event reaches the operation in flight before anything else. *)
invalidatePending(s) ==
    IF s.pending.id = 0 THEN s ELSE [s EXCEPT !.pending.invalidated = TRUE]

unsentForgetsEmission(s) == s.pending.id # 0 /\ s.pending.kind = "enable"
unsentEnable(s) ==
    s.pending.id # 0 /\ s.pending.kind = "enable" /\ ~s.pending.emitted

cancelKeepsGate(s) == [s EXCEPT !.pending = NoOperation, !.state = "Idle"]
cancelUnsentEnable(s) ==
    [clearCleanupForOperationLocked(releaseOwnerLocked(s), s.pending.id) EXCEPT
        !.pending = NoOperation, !.pendingEpoch = 0, !.state = "Idle"]

OnTransportDisconnect(s) ==
    LET t == invalidatePending(s)
        enabling == t.pending.id # 0 /\ t.pending.kind = "enable"
    IN  IF ~s.held THEN s
        ELSE IF unsentEnable(t) THEN cancelUnsentEnable(t)
        ELSE endSession(t,
                        IF enabling THEN t.pending.target ELSE t.target,
                        t.transport,
                        IF enabling THEN t.pending.id ELSE 0)

OnEpochAdvance(s, epoch) ==
    LET t == [invalidatePending(s) EXCEPT !.observed = epoch]
    IN  IF t.state = "Enabling" /\ unsentEnable(t)
        THEN [cancelUnsentEnable(t) EXCEPT !.transport = epoch]
        ELSE IF t.held THEN [t EXCEPT !.pendingEpoch = epoch]
        ELSE [t EXCEPT !.transport = epoch, !.pendingEpoch = 0]

ResetForRestart(s) ==
    [toDisabledLocked(s) EXCEPT
        !.pending = NoOperation, !.cleanup = NoCleanup,
        !.pendingEpoch = 0, !.restarted = TRUE]

-----------------------------------------------------------------------------
Init ==
    /\ m = [state |-> "Idle", held |-> FALSE, transport |-> 0, observed |-> 0,
            pendingEpoch |-> 0, target |-> NoTarget, pending |-> NoOperation,
            cleanup |-> NoCleanup, timer |-> 0, gen |-> 0, expiry |-> FALSE,
            restarted |-> FALSE, ids |-> 0]
    /\ emissionMu = NoProc
    /\ proc = [p \in Procs |-> IdleProc]
    /\ wire = <<>>

At(p, pc) == proc[p].pc = pc
Goto(p, pc) == proc' = [proc EXCEPT ![p].pc = pc]
Finish(p) == proc' = [proc EXCEPT ![p] = IdleProc]
(* m.pendingOperation is still the operation of this goroutine.            *)
Current(p) == m.pending.id = proc[p].op

-----------------------------------------------------------------------------
(* Admission of the three operations.                                      *)

BeginEnable(c, t) ==
    /\ At(c, "idle") /\ m.ids < MaxIds
    /\ ~HasCleanup /\ m.state = "Idle"
    /\ m' = [m EXCEPT !.state = "Enabling", !.held = TRUE, !.target = t,
                      !.ids = Fresh,
                      !.pending = Operation(Fresh, "enable", t, m.transport, FALSE)]
    /\ proc' = [proc EXCEPT ![c] = [IdleProc EXCEPT
                    !.pc = "issue", !.kind = "enable", !.op = Fresh, !.target = t]]
    /\ UNCHANGED <<emissionMu, wire>>

(* Where an admitted owner operation goes next: a disable first stops the  *)
(* idle timer.                                                             *)
Dispatching(kind) == IF kind = "disable" THEN "stopTimer" ELSE "issue"

beginOwnerOperation(c, kind, t) ==
    LET refreshing == m.pendingEpoch > m.transport
    IN  /\ At(c, "idle") /\ m.ids < MaxIds
        /\ m.held /\ m.state = "Active" /\ ~HasPending /\ m.target = t
        /\ m' = [m EXCEPT !.state = IF refreshing THEN "Refreshing" ELSE "Active",
                          !.ids = Fresh,
                          !.pending = Operation(Fresh, kind, t, m.transport, FALSE)]
        /\ proc' = [proc EXCEPT ![c] = [IdleProc EXCEPT
                        !.pc = IF refreshing THEN "refresh" ELSE Dispatching(kind),
                        !.kind = kind, !.op = Fresh, !.target = t,
                        !.epoch = IF refreshing THEN m.pendingEpoch ELSE 0]]
        /\ UNCHANGED <<emissionMu, wire>>

Refreshable(p) == Current(p) /\ m.held /\ m.state = "Refreshing"

(* The refresh returned after a disconnect or a restart took the session.  *)
RefreshAbandoned(p) ==
    /\ At(p, "refresh") /\ ~Refreshable(p)
    /\ Finish(p)
    /\ UNCHANGED <<m, emissionMu, wire>>

rebind(s, epoch) ==
    [s EXCEPT !.transport = epoch, !.observed = epoch, !.pendingEpoch = 0,
              !.state = "Active", !.pending.epoch = epoch]

(* The outcome of a refresh: an epoch, or an error.                        *)
RefreshError == -1
RefreshResults == {RefreshError} \cup Epochs
refreshFenced(c, r) ==
    \/ m.pending.invalidated
    \/ m.observed > proc[c].epoch
    \/ r # RefreshError /\ r < m.observed

OwnerRefreshFenced(c, r) ==
    /\ At(c, "refresh") /\ Refreshable(c) /\ refreshFenced(c, r)
    /\ m' = endSession([m EXCEPT !.pending = NoOperation, !.pendingEpoch = 0,
                                 !.transport = m.observed],
                       proc[c].target, m.observed, proc[c].op)
    /\ Finish(c)
    /\ UNCHANGED <<emissionMu, wire>>

OwnerRefreshed(c, r) ==
    /\ At(c, "refresh") /\ Refreshable(c) /\ ~refreshFenced(c, r)
    /\ r >= proc[c].epoch
    /\ m' = armIdleTimerLocked([rebind(m, r) EXCEPT
                !.cleanup.epoch = IF HasCleanup THEN r ELSE @])
    /\ proc' = [proc EXCEPT ![c].pc = Dispatching(proc[c].kind), ![c].epoch = 0]
    /\ UNCHANGED <<emissionMu, wire>>

OwnerRefreshFailed(c, r) ==
    /\ At(c, "refresh") /\ Refreshable(c) /\ ~refreshFenced(c, r)
    /\ r < proc[c].epoch
    /\ m' = [endSession([m EXCEPT !.transport = proc[c].epoch, !.pendingEpoch = 0],
                        proc[c].target, proc[c].epoch, 0)
             EXCEPT !.pending = NoOperation]
    /\ Finish(c)
    /\ UNCHANGED <<emissionMu, wire>>

StopTimer(c) ==
    /\ At(c, "stopTimer")
    /\ m' = IF Current(c) /\ m.held THEN stopIdleTimer(m) ELSE m
    /\ Goto(c, "issue")
    /\ UNCHANGED <<emissionMu, wire>>

-----------------------------------------------------------------------------
(* The dispatcher.  readMu is not modelled: emissionMu is held for the     *)
(* part of the readMu section that sends.                                  *)

IssueRequest(p) ==
    /\ At(p, "issue")
    /\ proc' = [proc EXCEPT ![p].pc = "queued", ![p].issue = m.transport]
    /\ UNCHANGED <<m, emissionMu, wire>>

(* The admitted source disappeared: the fallback disconnect comes next.    *)
SourceNotAdmitted(p) ==
    /\ At(p, "queued")
    /\ proc' = [proc EXCEPT ![p].pc = "disconnect", ![p].out = "down"]
    /\ UNCHANGED <<m, emissionMu, wire>>

disconnectIfCurrent(p) ==
    /\ At(p, "disconnect")
    /\ m' = IF m.observed = proc[p].issue THEN OnTransportDisconnect(m) ELSE m
    /\ Goto(p, "done")
    /\ UNCHANGED <<emissionMu, wire>>

ContextExpires(p) ==
    /\ At(p, "queued")
    /\ proc' = [proc EXCEPT ![p].pc = "done", ![p].out = "timeout"]
    /\ UNCHANGED <<m, emissionMu, wire>>

admitPendingEmissionLocked(p) ==
    /\ Current(p) /\ ~m.pending.invalidated /\ m.pending.target = proc[p].target
    /\ CASE m.pending.kind = "enable" -> m.state = "Enabling"
         [] m.pending.kind = "read" -> m.state = "Active"
         [] m.pending.cleanup -> m.state = "Disabled" /\ ~m.held
         [] OTHER -> m.state = "Active" /\ m.held

BeginPendingEmission(p) ==
    /\ At(p, "queued") /\ emissionMu = NoProc
    /\ admitPendingEmissionLocked(p)
    /\ m' = [m EXCEPT !.pending.emitted = TRUE]
    /\ emissionMu' = p
    /\ wire' = IF m.pending.kind = "read" THEN wire
               ELSE Append(wire, [kind |-> m.pending.kind, target |-> proc[p].target])
    /\ Goto(p, "send")

EmissionRefused(p) ==
    /\ At(p, "queued") /\ emissionMu = NoProc
    /\ ~admitPendingEmissionLocked(p)
    /\ proc' = [proc EXCEPT ![p].pc = "done", ![p].out = "down"]
    /\ UNCHANGED <<m, emissionMu, wire>>

SendReturns(p, out) ==
    /\ At(p, "send") /\ Emitted(out)
    /\ emissionMu' = NoProc
    /\ proc' = [proc EXCEPT ![p].pc = "sent", ![p].out = out]
    /\ UNCHANGED <<m, wire>>

(* A reply that crossed an epoch is discarded; an error of a canceled      *)
(* context may be reported as transport loss; transport loss disconnects.  *)
classifySendErr(p, out) ==
    LET canceled == ~Current(p) \/ m.pending.invalidated
        stale == m.observed # proc[p].issue
    IN  /\ At(p, "sent")
        /\ \/ stale /\ out = "failed"
           \/ ~stale /\ out = proc[p].out
           \/ ~stale /\ proc[p].out = "failed" /\ canceled /\ out = "lost"
        /\ proc' = [proc EXCEPT
                ![p].pc = IF ~stale /\ proc[p].out = "lost" THEN "disconnect" ELSE "done",
                ![p].out = out]
        /\ UNCHANGED <<m, emissionMu, wire>>
-----------------------------------------------------------------------------
(* Settlement: what each operation does with the outcome it is given.      *)

(* The operation was replaced or destroyed while it was dispatched.        *)
OutcomeAbandoned(p) ==
    /\ At(p, "done") /\ proc[p].kind # "cleanup" /\ ~Current(p)
    /\ Finish(p)
    /\ UNCHANGED <<m, emissionMu, wire>>

Settling(p, kind) == At(p, "done") /\ proc[p].kind = kind /\ Current(p)

ToCleanup(p, epoch) ==
    proc' = [proc EXCEPT ![p] = [IdleProc EXCEPT !.pc = "cleanup", !.epoch = epoch]]

EnableSettles(c) ==
    LET p == proc[c]
        advanced == m.pendingEpoch > m.pending.epoch
        s == [m EXCEPT !.pending = NoOperation,
                       !.transport = IF advanced THEN m.pendingEpoch ELSE @]
        obliged == createCleanupLocked(s, p.target, s.transport, p.op)
        cleared == clearCleanupForOperationLocked(s, p.op)
    IN  /\ Settling(c, "enable")
        /\ \/ /\ m.state # "Enabling"
              /\ m' = IF Emitted(p.out) THEN s
                      ELSE [cleared EXCEPT
                              !.state = IF cleared.cleanup.attempt = 0 THEN "Idle" ELSE @]
              /\ Finish(c)
           \/ /\ m.state = "Enabling" /\ ~Emitted(p.out)
              /\ m' = [releaseOwnerLocked(s) EXCEPT !.state = "Idle"]
              /\ Finish(c)
           \/ /\ m.state = "Enabling" /\ p.out = "ack" /\ ~advanced
              /\ m' = armIdleTimerLocked([obliged EXCEPT !.state = "Active"])
              /\ Finish(c)
           \/ /\ m.state = "Enabling" /\ Emitted(p.out)
              /\ p.out # "ack" \/ advanced
              /\ m' = [releaseOwnerLocked(obliged) EXCEPT !.state = "Disabled"]
              /\ ToCleanup(c, s.transport)
        /\ UNCHANGED <<emissionMu, wire>>

ReadSettles(c) ==
    LET p == proc[c]
        s == [m EXCEPT !.pending = NoOperation]
        extended == /\ p.out = "ack" /\ m.state = "Active"
                    /\ m.transport = m.pending.epoch /\ m.target = p.target
        expired == m.expiry /\ m.state = "Active" /\ m.held /\ m.target = p.target
    IN  /\ Settling(c, "read")
        /\ \/ /\ TransportDown(p.out)
              /\ m' = endSession(s, p.target, m.transport, p.op)
              /\ Finish(c)
           \/ /\ extended
              /\ m' = extendOwner(s)
              /\ Finish(c)
           \/ /\ ~TransportDown(p.out) /\ ~extended /\ expired
              /\ m' = endSession(s, p.target, m.transport, p.op)
              /\ ToCleanup(c, m.transport)
           \/ /\ ~TransportDown(p.out) /\ ~extended /\ ~expired
              /\ m' = [s EXCEPT !.expiry = FALSE]
              /\ Finish(c)
        /\ UNCHANGED <<emissionMu, wire>>

DisableSettles(c) ==
    LET p == proc[c]
        emitted == m.pending.emitted \/ Emitted(p.out)
        s == [m EXCEPT !.pending = NoOperation]
        kept == ~emitted /\ m.state = "Active" /\ m.held /\ m.target = p.target
        released == IF m.held THEN releaseOwnerLocked(s) ELSE s
        obliged == createCleanupLocked([released EXCEPT !.state = "Disabled"],
                                       p.target, m.transport, p.op)
    IN  /\ Settling(c, "disable")
        /\ \/ /\ kept
              /\ m' = extendOwner(s)
              /\ Finish(c)
           \/ /\ ~kept
              /\ m' = markAttempt(obliged, m.transport)
              /\ proc' = [proc EXCEPT ![c].pc = "record", ![c].epoch = m.transport,
                                      ![c].attempt = obliged.cleanup.attempt]
        /\ UNCHANGED <<emissionMu, wire>>

-----------------------------------------------------------------------------
(* The defensive disable.                                                  *)

CleanupSkipped(p) ==
    \/ ~HasCleanup
    \/ m.restarted
    \/ m.cleanup.tried /\ m.cleanup.triedEpoch = proc[p].epoch

attemptCleanup(p) ==
    /\ At(p, "cleanup")
    /\ \/ /\ CleanupSkipped(p)
          /\ Finish(p)
          /\ UNCHANGED m
       \/ /\ ~CleanupSkipped(p)
          /\ m' = [markAttempt(m, proc[p].epoch) EXCEPT
                    !.cleanup.epoch = proc[p].epoch,
                    !.ids = Fresh,
                    !.pending = Operation(Fresh, "disable", m.cleanup.target,
                                          m.transport, TRUE)]
          /\ proc' = [proc EXCEPT ![p] = [IdleProc EXCEPT
                        !.pc = "issue", !.kind = "cleanup", !.op = Fresh,
                        !.target = m.cleanup.target, !.epoch = proc[p].epoch,
                        !.attempt = m.cleanup.attempt]]
    /\ UNCHANGED <<emissionMu, wire>>

CleanupSettles(p) ==
    /\ At(p, "done") /\ proc[p].kind = "cleanup"
    /\ m' = IF Current(p) THEN [m EXCEPT !.pending = NoOperation] ELSE m
    /\ Goto(p, "record")
    /\ UNCHANGED <<emissionMu, wire>>

ackSettles(s, out) ==
    IF out = "ack" THEN [s EXCEPT !.cleanup = NoCleanup, !.state = "Idle"]
    ELSE [s EXCEPT !.cleanup.last = out]
(* Evidence only: no answer of the device clears the obligation.           *)
retainOutcome(s, out) == [s EXCEPT !.cleanup.last = out]

recordCleanupOutcome(p) ==
    /\ At(p, "record")
    /\ m' = IF /\ m.cleanup.attempt = proc[p].attempt
               /\ m.cleanup.tried /\ m.cleanup.triedEpoch = proc[p].epoch
            THEN retainOutcome(m, proc[p].out) ELSE m
    /\ Finish(p)
    /\ UNCHANGED <<emissionMu, wire>>

-----------------------------------------------------------------------------
(* The idle timer.                                                         *)

TimerElapses(b) ==
    /\ m.timer # 0 /\ At(b, "idle")
    /\ m' = [m EXCEPT !.timer = 0]
    /\ proc' = [proc EXCEPT ![b] = [IdleProc EXCEPT !.pc = "fired", !.gen = m.timer]]
    /\ UNCHANGED <<emissionMu, wire>>

timerCurrent(b) == proc[b].gen = m.gen /\ m.state = "Active"

idleTimerFired(b) ==
    /\ At(b, "fired")
    /\ \/ /\ ~timerCurrent(b)
          /\ Finish(b) /\ UNCHANGED m
       \/ /\ timerCurrent(b) /\ HasPending
          /\ m' = deferExpiry(m)
          /\ Finish(b)
       \/ /\ timerCurrent(b) /\ ~HasPending /\ m.pendingEpoch > m.transport
          /\ m' = [m EXCEPT !.ids = Fresh, !.state = "Refreshing",
                !.pending = Operation(Fresh, "disable", m.target, m.transport, FALSE)]
          /\ proc' = [proc EXCEPT ![b] = [IdleProc EXCEPT
                    !.pc = "refresh", !.kind = "idle", !.op = Fresh,
                    !.target = m.target, !.epoch = m.pendingEpoch]]
       \/ /\ timerCurrent(b) /\ ~HasPending /\ m.pendingEpoch <= m.transport
          /\ m' = endSession([m EXCEPT !.ids = Fresh], m.target, m.transport, Fresh)
          /\ ToCleanup(b, m.transport)
    /\ UNCHANGED <<emissionMu, wire>>

idleRefreshRefused(b, r) ==
    m.pending.invalidated \/ r < proc[b].epoch \/ r < m.observed

IdleRefreshRefused(b, r) ==
    /\ At(b, "refresh") /\ Refreshable(b) /\ idleRefreshRefused(b, r)
    /\ m' = endSession([m EXCEPT !.pending = NoOperation, !.pendingEpoch = 0,
                                 !.transport = m.observed],
                       proc[b].target, m.observed, proc[b].op)
    /\ Finish(b)
    /\ UNCHANGED <<emissionMu, wire>>

IdleRefreshed(b, r) ==
    /\ At(b, "refresh") /\ Refreshable(b) /\ ~idleRefreshRefused(b, r)
    /\ m' = rebind(m, r)
    /\ proc' = [proc EXCEPT ![b].pc = "issue", ![b].epoch = r]
    /\ UNCHANGED <<emissionMu, wire>>

IdleDisableSettles(b) ==
    LET p == proc[b]
        crossed == m.pending.invalidated \/ m.observed > p.epoch
        s == [m EXCEPT !.pending = NoOperation]
    IN  /\ Settling(b, "idle")
        /\ m' = IF crossed
                THEN [endSession([s EXCEPT !.pendingEpoch = 0, !.transport = m.observed],
                                 p.target, m.observed, p.op)
                      EXCEPT !.cleanup.epoch = m.observed]
                ELSE [markAttempt(createCleanupLocked(
                            [releaseOwnerLocked(s) EXCEPT !.state = "Disabled"],
                            p.target, p.epoch, p.op), p.epoch)
                      EXCEPT !.cleanup.last = p.out]
        /\ Finish(b)
        /\ UNCHANGED <<emissionMu, wire>>

-----------------------------------------------------------------------------
(* Transport lifecycle, and the restart of the gateway.                    *)

ActivatedDuringSend(epoch) ==
    /\ epoch > m.observed
    /\ m' = OnEpochAdvance(m, epoch)
    /\ UNCHANGED <<emissionMu, proc, wire>>
EBusDriverActivated(epoch) ==
    /\ emissionMu = NoProc /\ epoch > m.observed
    /\ m' = OnEpochAdvance(m, epoch)
    /\ UNCHANGED <<emissionMu, proc, wire>>

EBusDriverWithdrawn ==
    /\ m.held
    /\ m' = OnTransportDisconnect(m)
    /\ UNCHANGED <<emissionMu, proc, wire>>

Restart ==
    /\ ~m.restarted
    /\ m' = ResetForRestart(m)
    /\ UNCHANGED <<emissionMu, proc, wire>>

CallerStep(c) ==
    \/ \E r \in RefreshResults :
        OwnerRefreshFenced(c, r) \/ OwnerRefreshed(c, r) \/ OwnerRefreshFailed(c, r)
    \/ StopTimer(c)
    \/ EnableSettles(c) \/ ReadSettles(c) \/ DisableSettles(c)

CallbackStep(b) ==
    \/ TimerElapses(b) \/ idleTimerFired(b) \/ IdleDisableSettles(b)
    \/ \E r \in RefreshResults : IdleRefreshRefused(b, r) \/ IdleRefreshed(b, r)

DispatchStep(p) ==
    \/ RefreshAbandoned(p) \/ OutcomeAbandoned(p)
    \/ IssueRequest(p) \/ SourceNotAdmitted(p) \/ disconnectIfCurrent(p)
    \/ ContextExpires(p) \/ BeginPendingEmission(p) \/ EmissionRefused(p)
    \/ \E out \in Outcomes : SendReturns(p, out) \/ classifySendErr(p, out)
    \/ attemptCleanup(p) \/ CleanupSettles(p) \/ recordCleanupOutcome(p)

Call(c) ==
    \E t \in Targets : \/ BeginEnable(c, t)
                       \/ beginOwnerOperation(c, "read", t)
                       \/ beginOwnerOperation(c, "disable", t)

Next ==
    \/ \E c \in Callers : Call(c) \/ CallerStep(c)
    \/ \E b \in Callbacks : CallbackStep(b)
    \/ \E p \in Procs : DispatchStep(p)
    \/ \E epoch \in Epochs : EBusDriverActivated(epoch)
    \/ EBusDriverWithdrawn
    \/ Restart

(* Goroutines run, the bus and a refresh answer within their deadlines,    *)
(* and an armed timer elapses.  Callers and the transport owe nothing.     *)
Fairness ==
    /\ \A c \in Callers : WF_vars(CallerStep(c) \/ DispatchStep(c))
    /\ \A b \in Callbacks : WF_vars(CallbackStep(b) \/ DispatchStep(b))

Spec == Init /\ [][Next]_vars
FairSpec == Spec /\ Fairness
-----------------------------------------------------------------------------
(* Properties.                                                             *)

OperationType ==
    [id : Nat, kind : Kinds, target : Targets \cup {NoTarget}, epoch : Epochs,
     emitted : BOOLEAN, invalidated : BOOLEAN, cleanup : BOOLEAN]
CleanupType ==
    [attempt : Nat, target : Targets \cup {NoTarget}, epoch : Epochs, source : Nat,
     tried : BOOLEAN, triedEpoch : Epochs, last : Outcomes \cup {"none"}]
ManagerType ==
    [state : States, held : BOOLEAN, transport : Epochs, observed : Epochs,
     pendingEpoch : Epochs, target : Targets \cup {NoTarget},
     pending : OperationType, cleanup : CleanupType, timer : Nat, gen : Nat,
     expiry : BOOLEAN, restarted : BOOLEAN, ids : Nat]
ProcType ==
    [pc : {"idle", "refresh", "stopTimer", "issue", "queued", "send", "sent",
           "disconnect", "done", "cleanup", "record", "fired"},
     kind : Kinds \cup {"idle", "cleanup"}, op : Nat,
     target : Targets \cup {NoTarget}, gen : Nat, epoch : Epochs,
     issue : Epochs, attempt : Nat, out : Outcomes]

(* Type correctness of the manager, its goroutines and the wire log.       *)
TypeOK ==
    /\ m \in ManagerType
    /\ emissionMu \in Procs \cup {NoProc}
    /\ proc \in [Procs -> ProcType]
    /\ wire \in Seq([kind : {"enable", "disable"}, target : Targets])

(* A deferred idle expiry belongs to the read that is in flight, so it     *)
(* cannot end a session that a later read has renewed.                     *)
ExpiryHasReader ==
    m.expiry => m.state = "Active" /\ HasPending /\ m.pending.kind = "read"

(* A session that nobody ends still ends: it has a running timer, or a     *)
(* goroutine that will end it or arm the timer again.                      *)
ActiveIsWatched ==
    m.state = "Active" =>
        \/ m.timer = m.gen
        \/ HasPending
        \/ \E b \in Callbacks : At(b, "fired") /\ proc[b].gen = m.gen

(* The ownership gate is held exactly in the owner states, and a manager   *)
(* that is Idle has no operation in flight, is bound to the newest         *)
(* transport and retains no cleanup.  EnableOperation locks the gate while *)
(* it holds stateMu, so a gate left held in Idle blocks every other call.  *)
(* A deferred expiry has its reader, and an active session is watched.     *)
GateMatchesState ==
    /\ TypeOK /\ ExpiryHasReader /\ ActiveIsWatched
    /\ m.held <=> m.state \in {"Enabling", "Active", "Refreshing"}
    /\ m.state = "Idle" =>
        ~HasPending /\ ~HasCleanup /\ m.transport = m.observed

(* All the frames a process writes for the live monitor, reads aside: at   *)
(* most one enable, then at most one disable, of the same target, however  *)
(* calls, the idle timer, retained cleanup and the transport interleave.   *)
WireDiscipline ==
    \/ wire = <<>>
    \/ /\ Len(wire) <= 2
       /\ wire[1].kind = "enable"
       /\ Len(wire) = 2 => wire[2] = [wire[1] EXCEPT !.kind = "disable"]

(* An owner's frame is inside bus.Send only while the transport generation *)
(* it was issued for is the newest one: what admission, invalidation and   *)
(* the emission fence are for together.                                    *)
FrameInGeneration ==
    \A p \in Procs :
        At(p, "send") /\ proc[p].kind # "cleanup" => proc[p].issue = m.observed

(* The gate is never held for ever: the idle timer releases it when the    *)
(* owner goes away, whatever the transport does in between.                *)
GateIsReleased == m.held ~> ~m.held

(* The manager keeps the promises of LiveMonitorContract.                  *)
Contract == INSTANCE LiveMonitorContract WITH
    owned <- m.held,
    obligated <- HasCleanup \/ (HasPending /\ m.pending.kind = "enable"
                                           /\ m.pending.emitted),
    retired <- m.restarted
ImplementsContract == Contract!Spec

(* "An epoch advance invalidates it before the dispatcher's pre-emission   *)
(* admission, preventing an old cleanup from emitting through a new        *)
(* transport epoch": a cleanup inside bus.Send is of the newest epoch.     *)
CleanupInGeneration ==
    \A p \in Procs :
        At(p, "send") /\ proc[p].kind = "cleanup" => proc[p].epoch = m.observed
=============================================================================
