---------------------------- MODULE DriverManager ----------------------------
(***************************************************************************)
(* The lifecycle manager of one driver (internal/drivermanager/manager.go) *)
(* over its native runtime (module DriverRuntime).  Drivers share nothing  *)
(* but the closed flag, so one driver is modelled.                         *)
(*                                                                         *)
(* Atomicity follows the locks.  One action is one section under           *)
(* managedDriver.mu, one call into the runtime, or one return of a hook.   *)
(* opMu is a variable: Start and Replace hold it over their reservation,   *)
(* a stop holds it over the whole Runtime.Stop call.                       *)
(*                                                                         *)
(* Goroutines are the anonymous slots of Procs.  A slot whose call spawns  *)
(* its successor as its last act (StartAsync, a scheduled retry) is handed *)
(* to the spawned goroutine.                                               *)
(***************************************************************************)
EXTENDS DriverRuntime, FiniteSets

CONSTANTS
    NoProc,          \* not a goroutine: nil pointers and free locks
    Capabilities,    \* DriverConfig.Capabilities
    Enabled,         \* DriverConfig.Enabled
    Budget,          \* RetryPolicy.Budget
    Persistent,      \* RetryPolicy.Persistent.Enabled
    MaxOperations    \* bound on operationSeq

ASSUME NoProcAssumption == NoProc \notin Procs
ASSUME ConfigAssumption == /\ Enabled \in BOOLEAN
                           /\ Persistent \in BOOLEAN
                           /\ Budget \in Nat
                           /\ MaxOperations \in Nat

VARIABLES
    desired, observed, generation, effective, quarantined,
    operationSeq, activeOperation,
    retryRemaining, retryNeedsReplace, needsReplace,
    retryToken,      \* the waiting goroutine whose token is current
    retryCancel,     \* the waiting goroutine that retryCancel would cancel
    activeAttempt,   \* the goroutine that owns attemptControl
    hooksBound,
    opMu,            \* the goroutine that holds opMu
    closed,
    gor              \* [Procs -> state of the goroutine in that slot]

driverVars == <<desired, observed, generation, effective, quarantined,
                operationSeq, activeOperation, retryRemaining,
                retryNeedsReplace, needsReplace, retryToken, retryCancel,
                activeAttempt, hooksBound>>
vars == <<driverVars, runtimeVars, opMu, closed, gor>>

DesiredStates == {"RUNNING", "STOPPED"}
ObservedStates == {"DISABLED", "STOPPED", "STARTING", "RUNNING", "DEGRADED",
                   "BACKOFF", "STOPPING", "FAILED"}
CloseClasses == {"NOT_REQUIRED", "PROVEN", "PROVEN_AFTER_DRAIN_TIMEOUT",
                 "UNCONFIRMED", "INTERNAL_ERROR"}
Proven == {"NOT_REQUIRED", "PROVEN", "PROVEN_AFTER_DRAIN_TIMEOUT"}

-----------------------------------------------------------------------------
(* Goroutines: program counter, the operation and replace argument they    *)
(* carry, whether the wait group counts them, whether they run Shutdown,   *)
(* whether the manager canceled their context, the generation and error of *)
(* their construction, and the result or class of their close.             *)

IdleGoroutine == [pc |-> "idle", op |-> 0, replace |-> FALSE, task |-> FALSE,
                  shutdown |-> FALSE, canceled |-> FALSE, gen |-> 0,
                  res |-> "nil", close |-> "nil"]

PreReservation == {"startWait", "startAsyncWait", "startSection", "startAsyncSection",
                   "replaceWait", "replaceSection",
                   "shutdownCancel", "stopWait", "stopSection"}
Reserved == {"spawn", "reserved"}
(* From the installation of activeAttempt to its release. *)
InAttempt == {"construct", "returned", "hold", "finish", "retireStale",
              "staleRetired", "retireHeld", "heldRetired", "exit"}
InStop == {"stopRuntime", "stopFinish"}
PCs == {"idle", "wait", "report", "awaitTasks", "invoking"}
           \cup PreReservation \cup Reserved \cup InAttempt \cup InStop
Goroutines == [pc : PCs, op : Nat, replace : BOOLEAN, task : BOOLEAN,
               shutdown : BOOLEAN, canceled : BOOLEAN,
               gen : 0..MaxGenerations,
               res : ConstructErrors \cup StopErrors,
               close : StopErrors \cup CloseClasses]

At(p, label) == gor[p].pc = label
Goto(p, label) == gor' = [gor EXCEPT ![p].pc = label]
Return(p) == gor' = [gor EXCEPT ![p] = IdleGoroutine]

(* Bound: every call below the bound can still take its operation number. *)
OperationRoom ==
    operationSeq + Cardinality({p \in Procs : gor[p].pc \in PreReservation})
        < MaxOperations

-----------------------------------------------------------------------------
(* The sections of managedDriver that several operations share.            *)

transitionLocked(to, caps) == observed' = to /\ effective' = caps

(* Mutant: the active operation runs ahead of the sequence. *)
nextOperationLockedAhead ==
    /\ operationSeq' = operationSeq + 1
    /\ activeOperation' = operationSeq + 2

nextOperationLocked ==
    /\ operationSeq' = operationSeq + 1
    /\ activeOperation' = operationSeq + 1

resetRetryLocked == retryRemaining' = Budget

retryContinuesLocked(remaining) == remaining > 0 \/ Persistent

(* cancelRetry: every outstanding token becomes stale, and the goroutine   *)
(* it would cancel is canceled if it is still waiting.                     *)
CancelRetry(goroutines) ==
    /\ retryToken' = NoProc
    /\ retryCancel' = NoProc
    /\ gor' = IF retryCancel # NoProc /\ goroutines[retryCancel].pc = "wait"
              THEN [goroutines EXCEPT ![retryCancel].canceled = TRUE]
              ELSE goroutines

(* scheduleRetryLocked: slot p becomes the retry goroutine.  The fast      *)
(* budget is consumed first; the persistent phase consumes nothing.  The   *)
(* beginTask inside is folded: a retry of a closed manager gives up.       *)
scheduleRetryLocked(p, operation, replace, remaining) ==
    /\ retryRemaining' = IF remaining > 0 THEN remaining - 1 ELSE remaining
    /\ transitionLocked("BACKOFF", {})
    /\ retryToken' = p
    /\ retryCancel' = p
    /\ retryNeedsReplace' = replace
    /\ gor' = [gor EXCEPT ![p] = [IdleGoroutine EXCEPT !.pc = "wait",
                                     !.op = operation, !.task = TRUE]]

acceptsCallbackLocked(g, operation) ==
    /\ ~quarantined
    /\ desired = "RUNNING"
    /\ generation = g
    /\ activeOperation = operation

(* The operation of attempt p is no longer the driver's. *)
Superseded(p) ==
    closed \/ activeOperation # gor[p].op \/ desired # "RUNNING"

ClassifyClose(err, isQuarantined) ==
    CASE isQuarantined \/ err = "quarantined" -> "UNCONFIRMED"
      [] ~isQuarantined /\ err = "nil"        -> "PROVEN"
      [] ~isQuarantined /\ err = "timeout"    -> "PROVEN_AFTER_DRAIN_TIMEOUT"
      [] OTHER                                -> "INTERNAL_ERROR"

(* Mutant: a completed attempt still looks active. *)
releaseAttemptNever(p) == UNCHANGED activeAttempt

(* An attempt releases activeAttempt only while it is its own. *)
releaseAttempt(p) ==
    activeAttempt' = IF activeAttempt = p THEN NoProc ELSE activeAttempt

quarantineLocked ==
    /\ quarantined' = TRUE
    /\ activeOperation' = 0
    /\ transitionLocked("FAILED", {})

-----------------------------------------------------------------------------
Init ==
    /\ desired = IF Enabled THEN "RUNNING" ELSE "STOPPED"
    /\ observed = IF Enabled THEN "STOPPED" ELSE "DISABLED"
    /\ generation = 0
    /\ effective = {}
    /\ quarantined = FALSE
    /\ operationSeq = 0
    /\ activeOperation = 0
    /\ retryRemaining = Budget
    /\ retryNeedsReplace = FALSE
    /\ needsReplace = FALSE
    /\ retryToken = NoProc
    /\ retryCancel = NoProc
    /\ activeAttempt = NoProc
    /\ hooksBound \in BOOLEAN
    /\ opMu = NoProc
    /\ closed = FALSE
    /\ gor = [p \in Procs |-> IdleGoroutine]
    /\ RuntimeInit

(* Start and Replace: the first cancelRetry, before opMu. *)
Call(p, label) ==
    /\ At(p, "idle")
    /\ OperationRoom
    /\ CancelRetry([gor EXCEPT ![p].pc = label])
    /\ UNCHANGED <<desired, observed, generation, effective, quarantined,
                   operationSeq, activeOperation, retryRemaining,
                   retryNeedsReplace, needsReplace, activeAttempt, hooksBound,
                   runtimeVars, opMu, closed>>

(* Mutant: the in-flight attempt is canceled before stop intent exists. *)
StopCallCancelsEarly(p) ==
    /\ At(p, "idle")
    /\ OperationRoom
    /\ CancelRetry([(IF activeAttempt = NoProc THEN gor
                     ELSE [gor EXCEPT ![activeAttempt].canceled = TRUE])
                        EXCEPT ![p].pc = "stopWait"])
    /\ UNCHANGED <<desired, observed, generation, effective, quarantined,
                   operationSeq, activeOperation, retryRemaining,
                   retryNeedsReplace, needsReplace, activeAttempt, hooksBound,
                   runtimeVars, opMu, closed>>

StartCall(p)      == Call(p, "startWait")
StartAsyncCall(p) == Call(p, "startAsyncWait")
ReplaceCall(p)    == Call(p, "replaceWait")
StopCall(p)       == Call(p, "stopWait")

(* The acquisition of opMu with the cancelRetry that follows it. *)
Lock(p, waiting, section) ==
    /\ At(p, waiting)
    /\ opMu = NoProc
    /\ opMu' = p
    /\ CancelRetry([gor EXCEPT ![p].pc = section])
    /\ UNCHANGED <<desired, observed, generation, effective, quarantined,
                   operationSeq, activeOperation, retryRemaining,
                   retryNeedsReplace, needsReplace, activeAttempt, hooksBound,
                   runtimeVars, closed>>

StartLock(p)      == Lock(p, "startWait", "startSection")
StartAsyncLock(p) == Lock(p, "startAsyncWait", "startAsyncSection")
ReplaceLock(p)    == Lock(p, "replaceWait", "replaceSection")
StopLock(p)       == Lock(p, "stopWait", "stopSection")

(* Mutants: start without its refusal of an unretired attempt, or of a     *)
(* closed manager.                                                         *)
StartRefusedIgnoresAttempt ==
    \/ closed \/ quarantined \/ observed \in {"RUNNING", "STOPPING"}
    \/ desired = "RUNNING" /\ observed \in {"DEGRADED", "STARTING"}

(* The early returns of start: closed, quarantined, idempotent repeats,    *)
(* and an unfinished construction or withdrawal.                           *)
StartRefused ==
    \/ closed
    \/ quarantined
    \/ observed = "RUNNING"
    \/ desired = "RUNNING" /\ observed \in {"DEGRADED", "STARTING"}
    \/ activeAttempt # NoProc
    \/ observed = "STOPPING"

StartRefuse(p) ==
    /\ gor[p].pc \in {"startSection", "startAsyncSection"}
    /\ StartRefused
    /\ opMu' = NoProc
    /\ Return(p)
    /\ UNCHANGED <<driverVars, runtimeVars, closed>>

StartReserve(p) ==
    /\ gor[p].pc \in {"startSection", "startAsyncSection"}
    /\ ~StartRefused
    /\ desired' = "RUNNING"
    /\ resetRetryLocked
    /\ nextOperationLocked
    /\ transitionLocked("STARTING", {})
    /\ opMu' = NoProc
    /\ gor' = [gor EXCEPT ![p].pc = IF At(p, "startSection") THEN "reserved"
                                                             ELSE "spawn",
                          ![p].op = operationSeq + 1,
                          ![p].replace = needsReplace]
    /\ UNCHANGED <<generation, quarantined, retryNeedsReplace, needsReplace,
                   retryToken, retryCancel, activeAttempt, hooksBound,
                   runtimeVars, closed>>

(* StartAsync hands the reserved attempt to a task of the wait group, or   *)
(* returns ErrManagerClosed and leaves the driver to Shutdown.             *)
StartAsyncSpawn(p) ==
    /\ At(p, "spawn")
    /\ IF closed THEN Return(p)
       ELSE gor' = [gor EXCEPT ![p].pc = "reserved", ![p].task = TRUE]
    /\ UNCHANGED <<driverVars, runtimeVars, opMu, closed>>

ReplaceRefused ==
    \/ closed
    \/ quarantined
    \/ observed \in {"STARTING", "STOPPING"}
    \/ activeAttempt # NoProc

ReplaceRefuse(p) ==
    /\ At(p, "replaceSection")
    /\ ReplaceRefused
    /\ opMu' = NoProc
    /\ Return(p)
    /\ UNCHANGED <<driverVars, runtimeVars, closed>>

ReplaceReserve(p) ==
    /\ At(p, "replaceSection")
    /\ ~ReplaceRefused
    /\ desired' = "RUNNING"
    /\ resetRetryLocked
    /\ nextOperationLocked
    /\ FenceWithdrawal
    /\ transitionLocked("STOPPING", {})
    /\ opMu' = NoProc
    /\ gor' = [gor EXCEPT ![p].pc = "reserved", ![p].op = operationSeq + 1,
                          ![p].replace = TRUE]
    /\ UNCHANGED <<generation, quarantined, retryNeedsReplace, needsReplace,
                   retryToken, retryCancel, activeAttempt, hooksBound,
                   open, minted, rtQuarantined, leases, closed>>

-----------------------------------------------------------------------------
(* startAttempt, from the installation of its control to its release.      *)

AttemptInstall(p) ==
    /\ At(p, "reserved")
    /\ IF activeOperation # gor[p].op \/ desired # "RUNNING" \/ quarantined
       THEN Return(p) /\ UNCHANGED activeAttempt
       ELSE Goto(p, "construct") /\ activeAttempt' = p
    /\ UNCHANGED <<desired, observed, generation, effective, quarantined,
                   operationSeq, activeOperation, retryRemaining,
                   retryNeedsReplace, needsReplace, retryToken, retryCancel,
                   hooksBound, runtimeVars, opMu, closed>>

(* Runtime.Start or Runtime.Replace takes effect and returns. *)
ConstructReturn(p) ==
    /\ At(p, "construct")
    /\ \E g \in 0..MaxGenerations, e \in ConstructErrors :
          /\ IF gor[p].replace THEN RuntimeReplace(g, e) ELSE RuntimeStart(g, e)
          /\ gor' = [gor EXCEPT ![p].pc = "returned", ![p].gen = g,
                                ![p].res = e]
    /\ UNCHANGED <<driverVars, opMu, closed>>

(* Mutant: a late admission is not looked for. *)
AttemptCheckForgetsLate(p) ==
    /\ At(p, "returned")
    /\ Goto(p, IF ~Superseded(p) /\ gor[p].res = "nil" /\ hooksBound
               THEN "hold" ELSE "finish")
    /\ UNCHANGED <<driverVars, runtimeVars, opMu, closed>>

(* The first supersession check: a late admission is retired, a current    *)
(* one is held when a hook is bound.                                       *)
AttemptCheck(p) ==
    /\ At(p, "returned")
    /\ Goto(p, CASE Superseded(p) /\ (gor[p].res = "nil" \/ gor[p].gen > generation)
                      -> "retireStale"
                 [] ~Superseded(p) /\ gor[p].res = "nil" /\ hooksBound -> "hold"
                 [] OTHER -> "finish")
    /\ UNCHANGED <<driverVars, runtimeVars, opMu, closed>>

(* HoldAdmission returns, with the second supersession check. *)
HoldReturn(p) ==
    /\ At(p, "hold")
    /\ \E e \in {"nil", "retryable", "terminal"} :
          gor' = [gor EXCEPT ![p].res = e,
                     ![p].pc = CASE Superseded(p)               -> "retireStale"
                                 [] ~Superseded(p) /\ e # "nil" -> "retireHeld"
                                 [] OTHER                       -> "finish"]
    /\ UNCHANGED <<driverVars, runtimeVars, opMu, closed>>

(* Mutant: only the first admission settles the generation. *)
PublishSettlesOnce(p, g) ==
    /\ generation' = IF generation = 0 THEN g ELSE generation
    /\ quarantined' = FALSE
    /\ needsReplace' = FALSE
    /\ resetRetryLocked
    /\ activeOperation' = 0
    /\ ActivateCorrelation(g)
    /\ transitionLocked("RUNNING", Capabilities)
    /\ Return(p)
    /\ UNCHANGED <<retryNeedsReplace, retryToken, retryCancel>>

(* finishAttempt for slot p: publication, quarantine, retry or failure.    *)
(* The attempt is released first, so p has nothing left to do but, when a  *)
(* retry is scheduled, to be it.                                           *)
Publish(p, g) ==
    /\ generation' = g
    /\ quarantined' = FALSE
    /\ needsReplace' = FALSE
    /\ resetRetryLocked
    /\ activeOperation' = 0
    /\ ActivateCorrelation(g)
    /\ transitionLocked("RUNNING", Capabilities)
    /\ Return(p)
    /\ UNCHANGED <<retryNeedsReplace, retryToken, retryCancel>>

FailAttempt(p, err, replace) ==
    /\ needsReplace' = (needsReplace \/ replace)
    /\ IF err = "retryable" /\ retryContinuesLocked(retryRemaining)
       THEN /\ scheduleRetryLocked(p, gor[p].op, replace, retryRemaining)
            /\ UNCHANGED activeOperation
       ELSE /\ activeOperation' = 0
            /\ transitionLocked("FAILED", {})
            /\ Return(p)
            /\ UNCHANGED <<retryRemaining, retryToken, retryCancel,
                           retryNeedsReplace>>
    /\ UNCHANGED <<generation, quarantined, lifecycle, lastWithdrawn>>

finishAttempt(p, g, err, replace) ==
    /\ releaseAttempt(p)
    /\ \/ /\ Superseded(p)
          /\ Return(p)
          /\ UNCHANGED <<observed, effective, generation, quarantined,
                         activeOperation, retryRemaining, retryNeedsReplace,
                         needsReplace, retryToken, retryCancel,
                         lifecycle, lastWithdrawn>>
       \/ /\ ~Superseded(p)
          /\ err = "nil"
          /\ Publish(p, g)
       \/ /\ ~Superseded(p)
          /\ err # "nil"
          /\ err = "quarantined" \/ rtQuarantined
          /\ quarantineLocked
          /\ Return(p)
          /\ UNCHANGED <<generation, retryRemaining, retryNeedsReplace,
                         needsReplace, retryToken, retryCancel,
                         lifecycle, lastWithdrawn>>
       \/ /\ ~Superseded(p)
          /\ err \in {"retryable", "terminal"}
          /\ ~rtQuarantined
          /\ FailAttempt(p, err, replace)
    /\ UNCHANGED <<desired, operationSeq, hooksBound, opMu, closed,
                   open, minted, rtQuarantined, leases>>

FinishAttempt(p) ==
    /\ At(p, "finish")
    /\ finishAttempt(p, gor[p].gen, gor[p].res, gor[p].replace)

(* retireSupersededAdmission: Runtime.Stop, then quarantine of the driver  *)
(* unless the close came back clean.                                       *)
RetireStale(p) ==
    /\ At(p, "retireStale")
    /\ \E e \in StopErrors :
          /\ RuntimeStop(e)
          /\ gor' = [gor EXCEPT ![p].pc = "staleRetired", ![p].res = e]
    /\ UNCHANGED <<driverVars, opMu, closed>>

StaleRetired(p) ==
    /\ At(p, "staleRetired")
    /\ Goto(p, "exit")
    /\ IF gor[p].res # "nil" \/ rtQuarantined
       THEN quarantineLocked
       ELSE UNCHANGED <<quarantined, activeOperation, observed, effective>>
    /\ UNCHANGED <<desired, generation, operationSeq, retryRemaining,
                   retryNeedsReplace, needsReplace, retryToken, retryCancel,
                   activeAttempt, hooksBound, runtimeVars, opMu, closed>>

(* retireHeldAdmission: the hold failed.  A proven close fails the attempt *)
(* with the hold's error, and nothing is left to replace.                  *)
RetireHeld(p) ==
    /\ At(p, "retireHeld")
    /\ \E e \in StopErrors :
          /\ RuntimeStop(e)
          /\ gor' = [gor EXCEPT ![p].pc = "heldRetired", ![p].close = e]
    /\ UNCHANGED <<driverVars, opMu, closed>>

HeldRetired(p) ==
    /\ At(p, "heldRetired")
    /\ IF ClassifyClose(gor[p].close, rtQuarantined) \in Proven
       THEN finishAttempt(p, 0, gor[p].res, FALSE)
       ELSE /\ releaseAttempt(p)
            /\ quarantineLocked
            /\ Return(p)
            /\ UNCHANGED <<desired, generation, operationSeq, retryRemaining,
                           retryNeedsReplace, needsReplace, retryToken,
                           retryCancel, hooksBound, runtimeVars, opMu, closed>>

(* The deferred release of an attempt that did not reach finishAttempt. *)
AttemptExit(p) ==
    /\ At(p, "exit")
    /\ releaseAttempt(p)
    /\ Return(p)
    /\ UNCHANGED <<desired, observed, generation, effective, quarantined,
                   operationSeq, activeOperation, retryRemaining,
                   retryNeedsReplace, needsReplace, retryToken, retryCancel,
                   hooksBound, runtimeVars, opMu, closed>>

-----------------------------------------------------------------------------
(* runRetry: the delay elapses and the retry takes opMu for its check, or  *)
(* the wait ends because its context was canceled.                         *)
RetryCurrent(p) ==
    /\ ~closed
    /\ retryToken = p
    /\ activeOperation = gor[p].op
    /\ desired = "RUNNING"
    /\ observed = "BACKOFF"
    /\ ~quarantined

RetryFire(p) ==
    /\ At(p, "wait")
    /\ opMu = NoProc
    /\ RetryCurrent(p)
    /\ retryCancel' = NoProc
    /\ transitionLocked("STARTING", {})
    /\ gor' = [gor EXCEPT ![p].pc = "reserved",
                          ![p].replace = retryNeedsReplace]
    /\ UNCHANGED <<desired, generation, quarantined, operationSeq,
                   activeOperation, retryRemaining, retryNeedsReplace,
                   needsReplace, retryToken, activeAttempt, hooksBound,
                   runtimeVars, opMu, closed>>

RetryGiveUp(p) ==
    /\ At(p, "wait")
    /\ \/ gor[p].canceled \/ closed
       \/ opMu = NoProc /\ ~RetryCurrent(p)
    /\ Return(p)
    /\ UNCHANGED <<driverVars, runtimeVars, opMu, closed>>

-----------------------------------------------------------------------------
(* Stop, StopWithReport and the stop pass of Shutdown.                     *)

(* The in-flight attempt captured by stopLocked is canceled. *)
CancelAttempt(goroutines) ==
    IF activeAttempt = NoProc THEN goroutines
    ELSE [goroutines EXCEPT ![activeAttempt].canceled = TRUE]

ReportClose(p, goroutines, class) ==
    gor' = [goroutines EXCEPT ![p].pc = "report", ![p].close = class]

StopQuarantined(p) ==
    /\ At(p, "stopSection")
    /\ quarantined
    /\ IF desired # "STOPPED" THEN transitionLocked("FAILED", {})
                              ELSE UNCHANGED <<observed, effective>>
    /\ desired' = "STOPPED"
    /\ opMu' = NoProc
    /\ ReportClose(p, CancelAttempt(gor), "UNCONFIRMED")
    /\ UNCHANGED <<generation, quarantined, operationSeq, activeOperation,
                   retryRemaining, retryNeedsReplace, needsReplace,
                   retryToken, retryCancel, activeAttempt, hooksBound,
                   runtimeVars, closed>>

StopNothing(p) ==
    /\ At(p, "stopSection")
    /\ ~quarantined
    /\ observed \in {"STOPPED", "DISABLED"}
    /\ desired' = "STOPPED"
    /\ opMu' = NoProc
    /\ ReportClose(p, CancelAttempt(gor),
                   CASE rtQuarantined -> "UNCONFIRMED"
                     [] ~rtQuarantined /\ activeAttempt # NoProc -> "INTERNAL_ERROR"
                     [] OTHER -> "NOT_REQUIRED")
    /\ UNCHANGED <<observed, generation, effective, quarantined, operationSeq,
                   activeOperation, retryRemaining, retryNeedsReplace,
                   needsReplace, retryToken, retryCancel, activeAttempt,
                   hooksBound, runtimeVars, closed>>

StopWithdraw(p) ==
    /\ At(p, "stopSection")
    /\ ~quarantined
    /\ observed \notin {"STOPPED", "DISABLED"}
    /\ desired' = "STOPPED"
    /\ nextOperationLocked
    /\ FenceWithdrawal
    /\ transitionLocked("STOPPING", {})
    /\ gor' = [CancelAttempt(gor) EXCEPT ![p].pc = "stopRuntime"]
    /\ UNCHANGED <<generation, quarantined, retryRemaining, retryNeedsReplace,
                   needsReplace, retryToken, retryCancel, activeAttempt,
                   hooksBound, open, minted, rtQuarantined, leases, opMu,
                   closed>>

StopRuntime(p) ==
    /\ At(p, "stopRuntime")
    /\ \E e \in StopErrors :
          /\ RuntimeStop(e)
          /\ gor' = [gor EXCEPT ![p].pc = "stopFinish", ![p].close = e]
    /\ UNCHANGED <<driverVars, opMu, closed>>

(* Mutant: a failed close decides the quarantine flag anew. *)
StopFinishForgets(p) ==
    /\ At(p, "stopFinish")
    /\ activeOperation' = 0
    /\ \/ /\ gor[p].close \in {"nil", "timeout"}
          /\ needsReplace' = FALSE
          /\ transitionLocked("STOPPED", {})
          /\ UNCHANGED quarantined
       \/ /\ gor[p].close \notin {"nil", "timeout"}
          /\ quarantined' = (gor[p].close = "quarantined" \/ rtQuarantined)
          /\ transitionLocked("FAILED", {})
          /\ UNCHANGED needsReplace
    /\ opMu' = NoProc
    /\ ReportClose(p, gor, ClassifyClose(gor[p].close, rtQuarantined))
    /\ UNCHANGED <<desired, generation, operationSeq, retryRemaining,
                   retryNeedsReplace, retryToken, retryCancel, activeAttempt,
                   hooksBound, runtimeVars, closed>>

StopFinish(p) ==
    /\ At(p, "stopFinish")
    /\ activeOperation' = 0
    /\ \/ /\ gor[p].close \in {"nil", "timeout"}
          /\ needsReplace' = FALSE
          /\ transitionLocked("STOPPED", {})
          /\ UNCHANGED quarantined
       \/ /\ gor[p].close \notin {"nil", "timeout"}
          /\ quarantined' = (quarantined \/ gor[p].close = "quarantined"
                                         \/ rtQuarantined)
          /\ transitionLocked("FAILED", {})
          /\ UNCHANGED needsReplace
    /\ opMu' = NoProc
    /\ ReportClose(p, gor, ClassifyClose(gor[p].close, rtQuarantined))
    /\ UNCHANGED <<desired, generation, operationSeq, retryRemaining,
                   retryNeedsReplace, retryToken, retryCancel, activeAttempt,
                   hooksBound, runtimeVars, closed>>

(* The Closed hook ran; Stop returns, Shutdown goes on to its tasks. *)
StopReturn(p) ==
    /\ At(p, "report")
    /\ IF gor[p].shutdown
       THEN gor' = [gor EXCEPT ![p] = [IdleGoroutine EXCEPT !.pc = "awaitTasks",
                                                           !.shutdown = TRUE]]
       ELSE Return(p)
    /\ UNCHANGED <<driverVars, runtimeVars, opMu, closed>>

-----------------------------------------------------------------------------
(* Shutdown: closed and the manager context first, then cancelRetry and    *)
(* cancelAttempt, the stop pass under opMu, and the wait for the tasks.    *)

ShutdownCall(p) ==
    /\ At(p, "idle")
    /\ OperationRoom
    /\ closed' = TRUE
    /\ gor' = [gor EXCEPT ![p].pc = "shutdownCancel", ![p].shutdown = TRUE]
    /\ UNCHANGED <<driverVars, runtimeVars, opMu>>

(* Mutant: Shutdown skips the stop pass of a driver it has canceled. *)
ShutdownCancelSkipsStop(p) ==
    /\ At(p, "shutdownCancel")
    /\ CancelRetry(CancelAttempt([gor EXCEPT ![p].pc = "awaitTasks"]))
    /\ UNCHANGED <<desired, observed, generation, effective, quarantined,
                   operationSeq, activeOperation, retryRemaining,
                   retryNeedsReplace, needsReplace, activeAttempt, hooksBound,
                   runtimeVars, opMu, closed>>

ShutdownCancel(p) ==
    /\ At(p, "shutdownCancel")
    /\ CancelRetry(CancelAttempt([gor EXCEPT ![p].pc = "stopWait"]))
    /\ UNCHANGED <<desired, observed, generation, effective, quarantined,
                   operationSeq, activeOperation, retryRemaining,
                   retryNeedsReplace, needsReplace, activeAttempt, hooksBound,
                   runtimeVars, opMu, closed>>

ShutdownReturn(p) ==
    /\ At(p, "awaitTasks")
    /\ \A q \in Procs : ~gor[q].task
    /\ Return(p)
    /\ UNCHANGED <<driverVars, runtimeVars, opMu, closed>>

(* The caller's context ends first. *)
ShutdownAbandon(p) ==
    /\ At(p, "awaitTasks")
    /\ \E q \in Procs : gor[q].task
    /\ Return(p)
    /\ UNCHANGED <<driverVars, runtimeVars, opMu, closed>>

-----------------------------------------------------------------------------
(* Callbacks of the admitted generation, and its work.  Reporters carry    *)
(* the stable correlation they were bound to: a generation and operation   *)
(* zero; a stale report changes nothing.                                   *)

ReportDegraded(g, caps) ==
    /\ ~closed
    /\ acceptsCallbackLocked(g, 0)
    /\ observed \in {"RUNNING", "DEGRADED"}
    /\ caps # {} /\ caps # Capabilities
    /\ transitionLocked("DEGRADED", caps)
    /\ UNCHANGED <<desired, generation, quarantined, operationSeq,
                   activeOperation, retryRemaining, retryNeedsReplace,
                   needsReplace, retryToken, retryCancel, activeAttempt,
                   hooksBound, runtimeVars, opMu, closed, gor>>

ReportFailure(p, g, retryable) ==
    /\ At(p, "idle")
    /\ OperationRoom
    /\ ~closed
    /\ acceptsCallbackLocked(g, 0)
    /\ observed \in {"RUNNING", "DEGRADED"}
    /\ FenceWithdrawal
    /\ needsReplace' = TRUE
    /\ operationSeq' = operationSeq + 1
    /\ IF retryable /\ retryContinuesLocked(Budget)
       THEN /\ scheduleRetryLocked(p, operationSeq + 1, TRUE, Budget)
            /\ activeOperation' = operationSeq + 1
       ELSE /\ resetRetryLocked
            /\ activeOperation' = 0
            /\ transitionLocked("FAILED", {})
            /\ UNCHANGED <<retryToken, retryCancel, retryNeedsReplace, gor>>
    /\ UNCHANGED <<desired, generation, quarantined, activeAttempt, hooksBound,
                   open, minted, rtQuarantined, leases, opMu, closed>>

(* Invoke: the capability check and the runtime's admission are one        *)
(* section; the callback runs, and releases its lease, outside it.         *)
Invoke(p, capability) ==
    /\ At(p, "idle")
    /\ ~closed
    /\ capability \in effective
    /\ ~quarantined
    /\ Admit(p)
    /\ Goto(p, "invoking")
    /\ UNCHANGED <<driverVars, opMu, closed>>

InvokeReturn(p) ==
    /\ At(p, "invoking")
    /\ Release(p)
    /\ Return(p)
    /\ UNCHANGED <<driverVars, opMu, closed>>

BindHooks ==
    /\ ~hooksBound
    /\ hooksBound' = TRUE
    /\ UNCHANGED <<desired, observed, generation, effective, quarantined,
                   operationSeq, activeOperation, retryRemaining,
                   retryNeedsReplace, needsReplace, retryToken, retryCancel,
                   activeAttempt, runtimeVars, opMu, closed, gor>>

-----------------------------------------------------------------------------
Locking(p) == StartLock(p) \/ StartAsyncLock(p) \/ ReplaceLock(p) \/ StopLock(p)

Attempt(p) ==
    \/ StartAsyncSpawn(p) \/ AttemptInstall(p) \/ ConstructReturn(p)
    \/ AttemptCheck(p) \/ HoldReturn(p) \/ FinishAttempt(p)
    \/ RetireStale(p) \/ StaleRetired(p) \/ RetireHeld(p) \/ HeldRetired(p)
    \/ AttemptExit(p)

Stopping(p) ==
    \/ StopQuarantined(p) \/ StopNothing(p) \/ StopWithdraw(p)
    \/ StopRuntime(p) \/ StopFinish(p) \/ StopReturn(p)
    \/ ShutdownCancel(p) \/ ShutdownReturn(p)

(* What the goroutine in slot p does by itself. *)
Step(p) ==
    \/ StartRefuse(p) \/ StartReserve(p) \/ ReplaceRefuse(p) \/ ReplaceReserve(p)
    \/ Attempt(p) \/ Stopping(p) \/ InvokeReturn(p)

Retry(p) == RetryFire(p) \/ RetryGiveUp(p)

(* What callers, reporters and expiring contexts may do. *)
Environment ==
    \/ \E p \in Procs :
          \/ StartCall(p) \/ StartAsyncCall(p) \/ ReplaceCall(p) \/ StopCall(p)
          \/ ShutdownCall(p) \/ ShutdownAbandon(p)
          \/ \E c \in Capabilities : Invoke(p, c)
          \/ \E g \in 1..MaxGenerations, r \in BOOLEAN : ReportFailure(p, g, r)
    \/ \E g \in 1..MaxGenerations, caps \in SUBSET Capabilities :
          ReportDegraded(g, caps)
    \/ BindHooks

Next == Environment \/ \E p \in Procs : Locking(p) \/ Step(p) \/ Retry(p)

Spec == Init /\ [][Next]_vars

(* A goroutine that can run does; runtime calls and hooks are bounded by   *)
(* their contexts.  opMu is a sync.Mutex, whose starvation mode gives it   *)
(* to every waiter in turn, and a retry timer expires.                     *)
Fairness == \A p \in Procs :
    WF_vars(Step(p)) /\ SF_vars(Locking(p)) /\ SF_vars(Retry(p))

FairSpec == Spec /\ Fairness

-----------------------------------------------------------------------------
(* Properties                                                              *)

(* Every variable stays in its domain. *)
TypeOK ==
    /\ desired \in DesiredStates
    /\ observed \in ObservedStates
    /\ generation \in 0..MaxGenerations
    /\ effective \subseteq Capabilities
    /\ quarantined \in BOOLEAN
    /\ operationSeq \in Nat
    /\ activeOperation \in 0..operationSeq
    /\ retryRemaining \in 0..Budget
    /\ retryNeedsReplace \in BOOLEAN
    /\ needsReplace \in BOOLEAN
    /\ retryToken \in Procs \cup {NoProc}
    /\ retryCancel \in Procs \cup {NoProc}
    /\ activeAttempt \in Procs \cup {NoProc}
    /\ hooksBound \in BOOLEAN
    /\ opMu \in Procs \cup {NoProc}
    /\ closed \in BOOLEAN
    /\ gor \in [Procs -> Goroutines]
    /\ RuntimeTypeOK

Running == observed \in {"RUNNING", "DEGRADED"}

(* At most one construction owns the runtime: whatever the order of        *)
(* explicit starts, replacements, retries and late completions, no second  *)
(* attempt enters Runtime.Start or Runtime.Replace while one is            *)
(* unretired, so a stale cleanup never races a new construction            *)
(* (startAttempt, and the activeAttempt refusals of start and Replace).    *)
AtMostOneConstruction ==
    \A p, q \in Procs :
        gor[p].pc \in InAttempt /\ gor[q].pc \in InAttempt => p = q

(* A published generation is the one the runtime holds open: no late       *)
(* retirement, no stop and no replacement closes the provider of a driver  *)
(* that is still RUNNING or DEGRADED.                                      *)
PublishedIsOpen == Running => open = generation /\ generation # 0

(* The process-local observers of the eBUS runtime (the B503 session) hold *)
(* exactly the published generation: activated before RUNNING is visible,  *)
(* withdrawn before any other state is (ActivateCorrelation and            *)
(* FenceWithdrawal against transitionLocked).                              *)
LifecycleFollowsPublication ==
    lifecycle = IF Running THEN generation ELSE 0

(* A driver in BACKOFF is never stranded: its retry is still waiting with  *)
(* the current token, or a call that canceled it has yet to decide.        *)
BackoffIsOwned ==
    observed = "BACKOFF" =>
        \/ /\ retryToken # NoProc
           /\ At(retryToken, "wait")
           /\ gor[retryToken].op = activeOperation
           /\ ~gor[retryToken].canceled
        \/ \E p \in Procs : gor[p].pc \in PreReservation
        \/ closed

(* Once a Shutdown has stopped the driver and waits for its tasks, no      *)
(* start, retry or late completion makes the driver run again.             *)
ShutdownIsFinal ==
    (\E p \in Procs : At(p, "awaitTasks")) =>
        /\ desired = "STOPPED"
        /\ observed \in {"STOPPED", "DISABLED", "FAILED", "STOPPING"}
        /\ \A p \in Procs : gor[p].pc \in InAttempt => gor[p].canceled

(* LIFE-07: once a stopped driver has no construction in flight, the       *)
(* native side is empty or under quarantine.  An admission that outlives   *)
(* its Stop is retired, never abandoned (retireSupersededAdmission), nor   *)
(* is a driver that backs off or is shut down.                             *)
NoAbandonedProvider ==
    /\ observed \in {"STOPPED", "DISABLED"} /\ activeAttempt = NoProc
        => open = 0 \/ quarantined \/ rtQuarantined
    /\ BackoffIsOwned /\ ShutdownIsFinal

(* A construction that the manager canceled is never published: Stop       *)
(* publishes its intent in the section that captures the attempt, so a     *)
(* hold that returns on cancellation finds its operation superseded.  And  *)
(* work enters the runtime only through the generation that is published.  *)
CanceledNeverPublished ==
    [][\A p \in Procs :
          /\ Publish(p, gor[p].gen) /\ At(p, "finish") => ~gor[p].canceled
          /\ leases'[p] \notin {0, leases[p]} => Running /\ leases'[p] = generation]_vars

(* Quarantine is latched for the life of the process, although publishing  *)
(* an attempt clears the flag, and no construction begins under it.        *)
QuarantineLatched ==
    [][quarantined => /\ quarantined'
                      /\ \A p \in Procs : gor'[p].pc = "construct"
                                              => gor[p].pc = "construct"]_vars

(* The manager as its users see it keeps the publication contract. *)
Contract == INSTANCE AdmissionContract
    WITH published <- IF Running THEN generation ELSE 0,
         last <- generation,
         blocked <- quarantined

(* Through every interleaving of starts, replacements, retries, failures   *)
(* and stops, generations are published one at a time, in growing order,   *)
(* each withdrawn before the next, and none after a quarantine.            *)
ImplementsContract == Contract!Spec

(* No transient state lasts: a driver that is starting, stopping or        *)
(* backing off reaches another state, whoever cancels whom.                *)
TransientStatesEnd ==
    \A s \in {"STARTING", "STOPPING", "BACKOFF"} :
        observed = s ~> observed # s

(* A Shutdown withdraws the driver for good and ends every task that the   *)
(* wait group counts, a construction in its hold included.                 *)
ShutdownSettles ==
    closed ~> [](desired = "STOPPED" /\ ~Running
                 /\ \A p \in Procs : ~gor[p].task)

(* manager.go:745 and manager_test.go:1531 ("want no proof while a         *)
(* construction is in flight"): while Runtime.Start or Runtime.Replace has *)
(* not returned, a late admission may still follow, so no stop reports a   *)
(* proven close.                                                           *)
ProvenCloseIsQuiet ==
    [][\A p \in Procs :
          ~At(p, "report") /\ gor'[p].pc = "report" /\ gor'[p].close \in Proven
              => \A q \in Procs : gor'[q].pc # "construct"]_vars
=============================================================================
