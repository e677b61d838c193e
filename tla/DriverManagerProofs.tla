------------------------- MODULE DriverManagerProofs -------------------------
(***************************************************************************)
(* Proofs about DriverManager for every set of goroutines and every bound. *)
(***************************************************************************)
EXTENDS DriverManager, TLAPS

Sections == {"startSection", "startAsyncSection", "replaceSection", "stopSection"}
Numbered == Reserved \cup InAttempt \cup {"wait"}
Settled == {"STOPPED", "DISABLED", "FAILED", "RUNNING", "DEGRADED"}

(* Every construction in flight owns activeAttempt. *)
AttemptsOwn ==
    \A p \in Procs : gor[p].pc \in InAttempt => activeAttempt = p

(* Operation numbers identify reservations. *)
OperationsIdentify ==
    /\ \A p \in Procs : gor[p].op <= operationSeq
    /\ \A p \in Procs : gor[p].pc \in Numbered => gor[p].op # 0
    /\ \A p, q \in Procs :
          /\ gor[p].pc \in Reserved /\ gor[q].pc \in Reserved
          /\ gor[p].op = activeOperation /\ gor[q].op = activeOperation
          => p = q

(* A current reservation finds no unretired attempt when it installs. *)
ReservationsFree ==
    \A p \in Procs : gor[p].pc \in Reserved /\ gor[p].op = activeOperation
                         => activeAttempt = NoProc

(* No operation is active in a settled state, and a scheduled retry is     *)
(* the only holder of the operation in BACKOFF.                            *)
OperationsSettle ==
    /\ observed \in Settled => activeOperation = 0
    /\ quarantined => activeOperation = 0
    /\ observed = "BACKOFF" =>
          /\ activeAttempt = NoProc
          /\ \A p \in Procs : gor[p].pc \in Reserved => gor[p].op # activeOperation
    /\ Running => activeAttempt = NoProc /\ desired = "RUNNING" /\ ~quarantined

(* opMu protects its sections, and a stop keeps its intent until it ends. *)
StopsExclude ==
    \A p \in Procs :
        /\ gor[p].pc \in Sections \cup InStop => opMu = p
        /\ gor[p].pc \in InStop => desired = "STOPPED"

(* An attempt that may still publish the generation it was given. *)
Admitting == {"returned", "hold", "finish"}
Candidate(p) ==
    /\ gor[p].pc \in Admitting
    /\ gor[p].res = "nil"
    /\ gor[p].op = activeOperation
    /\ desired = "RUNNING"

(* Such a generation is open, newer than every published one, and was      *)
(* never withdrawn.                                                        *)
CandidateIsFresh ==
    \A p \in Procs :
        Candidate(p) => /\ open = gor[p].gen
                        /\ minted = gor[p].gen
                        /\ gor[p].gen > generation
                        /\ gor[p].gen > lastWithdrawn

(* Only an admission is held, and only a failed hold is retired as one. *)
Retiring == {"retireHeld", "heldRetired"}
HeldResults ==
    \A p \in Procs :
        /\ gor[p].pc = "hold" => gor[p].res = "nil"
        /\ gor[p].pc \in Retiring => gor[p].res \in {"retryable", "terminal"}

GenerationsOrdered ==
    /\ generation <= minted /\ lastWithdrawn <= minted
    /\ lifecycle # 0 => lifecycle > lastWithdrawn

(* The second half of the inductive invariant: the native side. *)
Native ==
    /\ CandidateIsFresh
    /\ HeldResults
    /\ GenerationsOrdered
    /\ PublishedIsOpen
    /\ LifecycleFollowsPublication

(* The first half: who may act. *)
Ownership ==
    /\ AttemptsOwn
    /\ OperationsIdentify
    /\ ReservationsFree
    /\ OperationsSettle
    /\ StopsExclude

IndInv == TypeOK /\ Ownership /\ Native

-----------------------------------------------------------------------------
(* Type correctness.  First the goroutine table: what the updates of the   *)
(* actions leave in it.                                                    *)

LEMMA IdleType == IdleGoroutine \in Goroutines
  BY GenerationsAssumption
  DEF IdleGoroutine, Goroutines, PCs, ConstructErrors, StopErrors

LEMMA ReturnType ==
  ASSUME gor \in [Procs -> Goroutines], NEW p \in Procs, Return(p)
  PROVE  gor' \in [Procs -> Goroutines]
  BY IdleType DEF Return

LEMMA GotoType ==
  ASSUME NEW table \in [Procs -> Goroutines], NEW p \in Procs, NEW label \in PCs
  PROVE  [table EXCEPT ![p].pc = label] \in [Procs -> Goroutines]
  BY DEF Goroutines

LEMMA CanceledType ==
  ASSUME NEW table \in [Procs -> Goroutines], NEW p \in Procs
  PROVE  [table EXCEPT ![p].canceled = TRUE] \in [Procs -> Goroutines]
  BY DEF Goroutines

LEMMA CancelRetryType ==
  ASSUME retryCancel \in Procs \cup {NoProc},
         NEW table \in [Procs -> Goroutines], CancelRetry(table)
  PROVE  /\ gor' \in [Procs -> Goroutines]
         /\ retryToken' = NoProc
         /\ retryCancel' = NoProc
  BY NoProcAssumption, CanceledType DEF CancelRetry

LEMMA CancelAttemptType ==
  ASSUME activeAttempt \in Procs \cup {NoProc},
         NEW table \in [Procs -> Goroutines]
  PROVE  CancelAttempt(table) \in [Procs -> Goroutines]
  BY NoProcAssumption, CanceledType DEF CancelAttempt

LEMMA TypeInit == Init => TypeOK
<1> SUFFICES ASSUME Init PROVE TypeOK
  OBVIOUS
<1>1. desired \in DesiredStates /\ observed \in ObservedStates
  BY DEF Init, DesiredStates, ObservedStates
<1>2. /\ generation \in 0..MaxGenerations /\ operationSeq \in Nat
      /\ activeOperation \in 0..operationSeq /\ retryRemaining \in 0..Budget
  BY GenerationsAssumption, ConfigAssumption DEF Init
<1>3. /\ open \in 0..MaxGenerations /\ minted \in 0..MaxGenerations
      /\ leases \in [Procs -> 0..MaxGenerations]
      /\ lifecycle \in 0..MaxGenerations /\ lastWithdrawn \in 0..MaxGenerations
  BY GenerationsAssumption DEF Init, RuntimeInit
<1>4. gor \in [Procs -> Goroutines]
  BY IdleType DEF Init
<1> QED  BY <1>1, <1>2, <1>3, <1>4 DEF Init, RuntimeInit, TypeOK, RuntimeTypeOK

LEMMA TypeCall ==
  ASSUME TypeOK, NEW p \in Procs, NEW label \in PCs, Call(p, label)
  PROVE  TypeOK'
<1>1. [gor EXCEPT ![p].pc = label] \in [Procs -> Goroutines]
  BY GotoType DEF TypeOK
<1>2. /\ gor' \in [Procs -> Goroutines]
      /\ retryToken' = NoProc
      /\ retryCancel' = NoProc
  BY <1>1, CancelRetryType DEF TypeOK, Call
<1> QED  BY <1>2 DEF TypeOK, RuntimeTypeOK, Call, runtimeVars

LEMMA TypeFence ==
  ASSUME RuntimeTypeOK, FenceWithdrawal
  PROVE  lifecycle' \in 0..MaxGenerations /\ lastWithdrawn' \in 0..MaxGenerations
  BY GenerationsAssumption DEF RuntimeTypeOK, FenceWithdrawal

LEMMA TypeRuntimeStart ==
  ASSUME RuntimeTypeOK, NEW g \in 0..MaxGenerations, NEW e \in ConstructErrors,
         RuntimeStart(g, e)
  PROVE  RuntimeTypeOK'
<1>1. open' \in 0..MaxGenerations /\ minted' \in 0..MaxGenerations
  BY GenerationsAssumption
  DEF RuntimeTypeOK, RuntimeStart, Admitted, FailedConstruction
<1>2. rtQuarantined' \in BOOLEAN
  BY DEF RuntimeTypeOK, RuntimeStart
<1> QED  BY <1>1, <1>2 DEF RuntimeTypeOK, RuntimeStart

LEMMA TypeRuntimeReplace ==
  ASSUME RuntimeTypeOK, NEW g \in 0..MaxGenerations, NEW e \in ConstructErrors,
         RuntimeReplace(g, e)
  PROVE  RuntimeTypeOK'
<1>1. open' \in 0..MaxGenerations /\ minted' \in 0..MaxGenerations
  BY GenerationsAssumption
  DEF RuntimeTypeOK, RuntimeReplace, Admitted, FailedConstruction
<1>2. rtQuarantined' \in BOOLEAN
  BY DEF RuntimeTypeOK, RuntimeReplace
<1> QED  BY <1>1, <1>2, TypeFence DEF RuntimeTypeOK, RuntimeReplace

LEMMA TypeRuntimeStop ==
  ASSUME RuntimeTypeOK, NEW e \in StopErrors, RuntimeStop(e)
  PROVE  RuntimeTypeOK'
<1>1. open' \in 0..MaxGenerations
  BY GenerationsAssumption DEF RuntimeTypeOK, RuntimeStop
<1>2. rtQuarantined' \in BOOLEAN
  BY DEF RuntimeTypeOK, RuntimeStop
<1> QED  BY <1>1, <1>2, TypeFence DEF RuntimeTypeOK, RuntimeStop

LEMMA TypeConstruct ==
  ASSUME TypeOK, NEW p \in Procs, ConstructReturn(p)
  PROVE  TypeOK'
<1>1. PICK g \in 0..MaxGenerations, e \in ConstructErrors :
          /\ IF gor[p].replace THEN RuntimeReplace(g, e) ELSE RuntimeStart(g, e)
          /\ gor' = [gor EXCEPT ![p].pc = "returned", ![p].gen = g,
                                ![p].res = e]
  BY DEF ConstructReturn
<1>2. gor' \in [Procs -> Goroutines]
  <2>1. gor[p] \in Goroutines BY DEF TypeOK
  <2>2. [gor[p] EXCEPT !.pc = "returned", !.gen = g, !.res = e] \in Goroutines
    BY <2>1 DEF Goroutines, PCs, InAttempt
  <2>3. gor' = [gor EXCEPT ![p] = [gor[p] EXCEPT !.pc = "returned", !.gen = g, !.res = e]]
    BY <1>1 DEF TypeOK
  <2> QED BY <2>2, <2>3 DEF TypeOK
<1>3. RuntimeTypeOK'
  BY <1>1, TypeRuntimeStart, TypeRuntimeReplace DEF TypeOK
<1> QED  BY <1>2, <1>3 DEF TypeOK, ConstructReturn, driverVars

LEMMA TypeCheck ==
  ASSUME TypeOK, NEW p \in Procs, AttemptCheck(p)
  PROVE  TypeOK'
  BY DEF TypeOK, RuntimeTypeOK, AttemptCheck, driverVars, runtimeVars, PCs, InAttempt, Goto, Goroutines
LEMMA TypeLock ==
  ASSUME TypeOK, NEW p \in Procs, NEW waiting, NEW section \in PCs,
         Lock(p, waiting, section)
  PROVE  TypeOK'
<1>1. [gor EXCEPT ![p].pc = section] \in [Procs -> Goroutines]
  BY GotoType DEF TypeOK
<1>2. /\ gor' \in [Procs -> Goroutines]
      /\ retryToken' = NoProc
      /\ retryCancel' = NoProc
  BY <1>1, CancelRetryType DEF TypeOK, Lock
<1> QED  BY <1>2 DEF TypeOK, RuntimeTypeOK, Lock, runtimeVars

(* The sections of finishAttempt and of a scheduled retry. *)
LEMMA TypeSchedule ==
  ASSUME TypeOK, NEW p \in Procs, NEW operation \in Nat, NEW replace \in BOOLEAN,
         NEW remaining \in 0..Budget,
         scheduleRetryLocked(p, operation, replace, remaining)
  PROVE  /\ gor' \in [Procs -> Goroutines]
         /\ observed' \in ObservedStates
         /\ effective' \subseteq Capabilities
         /\ retryRemaining' \in 0..Budget
         /\ retryNeedsReplace' \in BOOLEAN
         /\ retryToken' \in Procs /\ retryCancel' \in Procs
<1>1. [IdleGoroutine EXCEPT !.pc = "wait", !.op = operation, !.task = TRUE]
          \in Goroutines
  BY IdleType DEF Goroutines, PCs
<1>2. gor' \in [Procs -> Goroutines]
  BY <1>1 DEF TypeOK, scheduleRetryLocked
<1>3. retryRemaining' \in 0..Budget
  BY ConfigAssumption DEF scheduleRetryLocked
<1> QED
  BY <1>2, <1>3 DEF scheduleRetryLocked, transitionLocked, ObservedStates

LEMMA TypeQuarantine ==
  ASSUME TypeOK, quarantineLocked
  PROVE  /\ quarantined' \in BOOLEAN
         /\ activeOperation' = 0
         /\ observed' \in ObservedStates
         /\ effective' \subseteq Capabilities
  BY DEF quarantineLocked, transitionLocked, ObservedStates

LEMMA TypeFinish ==
  ASSUME TypeOK, NEW p \in Procs, NEW g \in 0..MaxGenerations,
         NEW err \in ConstructErrors \cup StopErrors, NEW replace \in BOOLEAN,
         finishAttempt(p, g, err, replace)
  PROVE  TypeOK'
<1> USE DEF finishAttempt
<1>0. gor[p].op \in Nat
  BY DEF TypeOK, Goroutines
<1>1. activeAttempt' \in Procs \cup {NoProc}
  BY DEF TypeOK, releaseAttempt
<1>2. /\ open' \in 0..MaxGenerations /\ minted' \in 0..MaxGenerations
      /\ rtQuarantined' \in BOOLEAN /\ leases' \in [Procs -> 0..MaxGenerations]
  BY DEF TypeOK, RuntimeTypeOK
<1>3. CASE Superseded(p) /\ Return(p)
           /\ UNCHANGED <<observed, effective, generation, quarantined,
                          activeOperation, retryRemaining, retryNeedsReplace,
                          needsReplace, retryToken, retryCancel,
                          lifecycle, lastWithdrawn>>
  BY <1>1, <1>2, <1>3, ReturnType DEF TypeOK, RuntimeTypeOK
<1>4. CASE Publish(p, g)
  <2>1. gor' \in [Procs -> Goroutines]
    BY <1>4, ReturnType DEF TypeOK, Publish
  <2>2. lifecycle' \in 0..MaxGenerations /\ lastWithdrawn' \in 0..MaxGenerations
    BY <1>4 DEF TypeOK, RuntimeTypeOK, Publish, ActivateCorrelation
  <2>3. retryRemaining' \in 0..Budget /\ activeOperation' \in 0..operationSeq'
    BY <1>4, ConfigAssumption DEF TypeOK, Publish, resetRetryLocked
  <2>4. observed' \in ObservedStates /\ effective' \subseteq Capabilities
    BY <1>4 DEF Publish, transitionLocked, ObservedStates
  <2> QED
    BY <1>1, <1>2, <1>4, <2>1, <2>2, <2>3, <2>4
    DEF TypeOK, RuntimeTypeOK, Publish
<1>5. CASE /\ quarantineLocked /\ Return(p)
           /\ UNCHANGED <<generation, retryRemaining, retryNeedsReplace,
                          needsReplace, retryToken, retryCancel,
                          lifecycle, lastWithdrawn>>
  <2>1. gor' \in [Procs -> Goroutines]
    BY <1>5, ReturnType DEF TypeOK
  <2>2. activeOperation' \in 0..operationSeq'
    BY <1>5, TypeQuarantine DEF TypeOK
  <2> QED
    BY <1>1, <1>2, <1>5, <2>1, <2>2, TypeQuarantine DEF TypeOK, RuntimeTypeOK
<1>6. CASE FailAttempt(p, err, replace)
  <2>1. needsReplace' \in BOOLEAN
    BY <1>6 DEF FailAttempt, TypeOK
  <2>2. CASE /\ scheduleRetryLocked(p, gor[p].op, replace, retryRemaining)
             /\ UNCHANGED activeOperation
    <3>1. retryRemaining \in 0..Budget
      BY DEF TypeOK
    <3>2. /\ gor' \in [Procs -> Goroutines]
          /\ observed' \in ObservedStates
          /\ effective' \subseteq Capabilities
          /\ retryRemaining' \in 0..Budget
          /\ retryNeedsReplace' \in BOOLEAN
          /\ retryToken' \in Procs /\ retryCancel' \in Procs
      BY <1>0, <2>2, <3>1, TypeSchedule
    <3> QED
      BY <1>1, <1>2, <1>6, <2>1, <2>2, <3>2
      DEF TypeOK, RuntimeTypeOK, FailAttempt
  <2>3. CASE /\ activeOperation' = 0
             /\ transitionLocked("FAILED", {})
             /\ Return(p)
             /\ UNCHANGED <<retryRemaining, retryToken, retryCancel,
                            retryNeedsReplace>>
    <3>1. gor' \in [Procs -> Goroutines]
      BY <2>3, ReturnType DEF TypeOK
    <3>2. activeOperation' \in 0..operationSeq'
      BY <2>3 DEF TypeOK
    <3>3. observed' \in ObservedStates /\ effective' \subseteq Capabilities
      BY <2>3 DEF transitionLocked, ObservedStates
    <3> QED
      BY <1>1, <1>2, <1>6, <2>1, <2>3, <3>1, <3>2, <3>3
      DEF TypeOK, RuntimeTypeOK, FailAttempt
  <2> QED  BY <1>6, <2>2, <2>3 DEF FailAttempt
<1> QED  BY <1>3, <1>4, <1>5, <1>6

LEMMA TypeReserve ==
  ASSUME TypeOK, NEW p \in Procs, StartReserve(p) \/ ReplaceReserve(p)
  PROVE  TypeOK'
<1>1. gor[p] \in Goroutines
  BY DEF TypeOK
<1>2. operationSeq + 1 \in Nat /\ needsReplace \in BOOLEAN
  BY DEF TypeOK
<1>3. gor' \in [Procs -> Goroutines]
  <2>1. CASE StartReserve(p)
    <3> DEFINE label == IF At(p, "startSection") THEN "reserved" ELSE "spawn"
    <3>1. [gor[p] EXCEPT !.pc = label, !.op = operationSeq + 1,
                         !.replace = needsReplace] \in Goroutines
      BY <1>1, <1>2 DEF Goroutines, PCs, Reserved
    <3> QED  BY <2>1, <3>1 DEF StartReserve, TypeOK
  <2>2. CASE ReplaceReserve(p)
    <3>1. [gor[p] EXCEPT !.pc = "reserved", !.op = operationSeq + 1,
                         !.replace = TRUE] \in Goroutines
      BY <1>1, <1>2 DEF Goroutines, PCs, Reserved
    <3> QED  BY <2>2, <3>1 DEF ReplaceReserve, TypeOK
  <2> QED  BY <2>1, <2>2
<1>4. /\ operationSeq' \in Nat /\ activeOperation' \in 0..operationSeq'
      /\ retryRemaining' \in 0..Budget
  BY ConfigAssumption
  DEF TypeOK, StartReserve, ReplaceReserve, nextOperationLocked, resetRetryLocked
<1>5. /\ desired' \in DesiredStates /\ observed' \in ObservedStates
      /\ effective' \subseteq Capabilities
  BY DEF StartReserve, ReplaceReserve, transitionLocked, DesiredStates,
         ObservedStates
<1>6. RuntimeTypeOK'
  BY TypeFence
  DEF TypeOK, RuntimeTypeOK, StartReserve, ReplaceReserve, runtimeVars
<1> QED
  BY <1>3, <1>4, <1>5, <1>6 DEF TypeOK, StartReserve, ReplaceReserve

LEMMA TypeAttempt ==
  ASSUME TypeOK, NEW p \in Procs, Attempt(p)
  PROVE  TypeOK'
<1>0. gor[p] \in Goroutines
  BY DEF TypeOK
<1>1. CASE StartAsyncSpawn(p)
  <2>1. [gor[p] EXCEPT !.pc = "reserved", !.task = TRUE] \in Goroutines
    BY <1>0 DEF Goroutines, PCs, Reserved
  <2>2. gor' \in [Procs -> Goroutines]
    BY <1>1, <2>1, ReturnType DEF StartAsyncSpawn, TypeOK
  <2> QED
    BY <1>1, <2>2
    DEF StartAsyncSpawn, TypeOK, RuntimeTypeOK, driverVars, runtimeVars
<1>2. CASE AttemptInstall(p)
  <2>1. gor' \in [Procs -> Goroutines]
    BY <1>2, ReturnType, GotoType
    DEF AttemptInstall, Goto, TypeOK, PCs, InAttempt
  <2> QED
    BY <1>2, <2>1 DEF AttemptInstall, TypeOK, RuntimeTypeOK, runtimeVars
<1>3. CASE ConstructReturn(p)
  BY <1>3, TypeConstruct
<1>4. CASE AttemptCheck(p)
  BY <1>4, TypeCheck
<1>5. CASE HoldReturn(p)
  <2>1. PICK e \in {"nil", "retryable", "terminal"} :
          gor' = [gor EXCEPT ![p].res = e,
                     ![p].pc = CASE Superseded(p)               -> "retireStale"
                                 [] ~Superseded(p) /\ e # "nil" -> "retireHeld"
                                 [] OTHER                       -> "finish"]
    BY <1>5 DEF HoldReturn
  <2>2. PICK label \in {"retireStale", "retireHeld", "finish"} :
          gor' = [gor EXCEPT ![p] = [gor[p] EXCEPT !.res = e, !.pc = label]]
    BY <2>1 DEF TypeOK
  <2>3. [gor[p] EXCEPT !.res = e, !.pc = label] \in Goroutines
    BY <1>0 DEF Goroutines, PCs, InAttempt, ConstructErrors
  <2>4. gor' \in [Procs -> Goroutines]
    BY <2>2, <2>3 DEF TypeOK
  <2> QED
    BY <1>5, <2>4 DEF HoldReturn, TypeOK, RuntimeTypeOK, driverVars, runtimeVars
<1>6. CASE FinishAttempt(p)
  <2>1. /\ gor[p].gen \in 0..MaxGenerations
        /\ gor[p].res \in ConstructErrors \cup StopErrors
        /\ gor[p].replace \in BOOLEAN
    BY <1>0 DEF Goroutines
  <2> QED  BY <1>6, <2>1, TypeFinish DEF FinishAttempt
<1>7. CASE RetireStale(p)
  <2>1. PICK e \in StopErrors :
          /\ RuntimeStop(e)
          /\ gor' = [gor EXCEPT ![p].pc = "staleRetired", ![p].res = e]
    BY <1>7 DEF RetireStale
  <2>2. [gor[p] EXCEPT !.pc = "staleRetired", !.res = e] \in Goroutines
    BY <1>0 DEF Goroutines, PCs, InAttempt
  <2>3. gor' \in [Procs -> Goroutines]
    BY <2>1, <2>2 DEF TypeOK
  <2>4. RuntimeTypeOK'
    BY <2>1, TypeRuntimeStop DEF TypeOK
  <2> QED  BY <1>7, <2>3, <2>4 DEF RetireStale, TypeOK, driverVars
<1>8. CASE StaleRetired(p)
  <2>1. gor' \in [Procs -> Goroutines]
    BY <1>8, GotoType DEF StaleRetired, Goto, TypeOK, PCs, InAttempt
  <2>2. /\ quarantined' \in BOOLEAN /\ activeOperation' \in 0..operationSeq'
        /\ observed' \in ObservedStates /\ effective' \subseteq Capabilities
    BY <1>8, TypeQuarantine DEF StaleRetired, TypeOK
  <2> QED
    BY <1>8, <2>1, <2>2 DEF StaleRetired, TypeOK, RuntimeTypeOK, runtimeVars
<1>9. CASE RetireHeld(p)
  <2>1. PICK e \in StopErrors :
          /\ RuntimeStop(e)
          /\ gor' = [gor EXCEPT ![p].pc = "heldRetired", ![p].close = e]
    BY <1>9 DEF RetireHeld
  <2>2. [gor[p] EXCEPT !.pc = "heldRetired", !.close = e] \in Goroutines
    BY <1>0 DEF Goroutines, PCs, InAttempt
  <2>3. gor' \in [Procs -> Goroutines]
    BY <2>1, <2>2 DEF TypeOK
  <2>4. RuntimeTypeOK'
    BY <2>1, TypeRuntimeStop DEF TypeOK
  <2> QED  BY <1>9, <2>3, <2>4 DEF RetireHeld, TypeOK, driverVars
<1>10. CASE HeldRetired(p)
  <2>1. CASE finishAttempt(p, 0, gor[p].res, FALSE)
    <3>1. /\ 0 \in 0..MaxGenerations
          /\ gor[p].res \in ConstructErrors \cup StopErrors
      BY <1>0, GenerationsAssumption DEF Goroutines
    <3> QED  BY <2>1, <3>1, TypeFinish
  <2>2. CASE /\ releaseAttempt(p) /\ quarantineLocked /\ Return(p)
             /\ UNCHANGED <<desired, generation, operationSeq, retryRemaining,
                            retryNeedsReplace, needsReplace, retryToken,
                            retryCancel, hooksBound, runtimeVars, opMu, closed>>
    <3>1. gor' \in [Procs -> Goroutines]
      BY <2>2, ReturnType DEF TypeOK
    <3>2. activeAttempt' \in Procs \cup {NoProc}
      BY <2>2 DEF releaseAttempt, TypeOK
    <3>3. activeOperation' \in 0..operationSeq'
      BY <2>2, TypeQuarantine DEF TypeOK
    <3> QED
      BY <2>2, <3>1, <3>2, <3>3, TypeQuarantine
      DEF TypeOK, RuntimeTypeOK, runtimeVars
  <2> QED  BY <1>10, <2>1, <2>2 DEF HeldRetired
<1>11. CASE AttemptExit(p)
  BY <1>11, ReturnType
  DEF AttemptExit, releaseAttempt, TypeOK, RuntimeTypeOK, runtimeVars
<1> QED
  BY <1>1, <1>2, <1>3, <1>4, <1>5, <1>6, <1>7, <1>8, <1>9, <1>10, <1>11
  DEF Attempt

LEMMA TypeRetry ==
  ASSUME TypeOK, NEW p \in Procs, Retry(p)
  PROVE  TypeOK'
<1>1. CASE RetryFire(p)
  <2>1. gor[p] \in Goroutines /\ retryNeedsReplace \in BOOLEAN
    BY DEF TypeOK
  <2>2. [gor[p] EXCEPT !.pc = "reserved", !.replace = retryNeedsReplace]
            \in Goroutines
    BY <2>1 DEF Goroutines, PCs, Reserved
  <2>3. gor' \in [Procs -> Goroutines]
    BY <1>1, <2>2 DEF RetryFire, TypeOK
  <2>4. observed' \in ObservedStates /\ effective' \subseteq Capabilities
    BY <1>1 DEF RetryFire, transitionLocked, ObservedStates
  <2> QED
    BY <1>1, <2>3, <2>4 DEF RetryFire, TypeOK, RuntimeTypeOK, runtimeVars
<1>2. CASE RetryGiveUp(p)
  BY <1>2, ReturnType
  DEF RetryGiveUp, TypeOK, RuntimeTypeOK, driverVars, runtimeVars
<1> QED  BY <1>1, <1>2 DEF Retry

LEMMA ReportType ==
  ASSUME NEW table \in [Procs -> Goroutines], NEW p \in Procs,
         NEW class \in CloseClasses, ReportClose(p, table, class)
  PROVE  gor' \in [Procs -> Goroutines]
<1>1. [table[p] EXCEPT !.pc = "report", !.close = class] \in Goroutines
  BY DEF Goroutines, PCs
<1> QED  BY <1>1 DEF ReportClose

LEMMA TypeStopping ==
  ASSUME TypeOK, NEW p \in Procs, Stopping(p)
  PROVE  TypeOK'
<1>0. /\ gor[p] \in Goroutines
      /\ CancelAttempt(gor) \in [Procs -> Goroutines]
  BY CancelAttemptType DEF TypeOK
<1>1. CASE StopQuarantined(p)
  <2>1. gor' \in [Procs -> Goroutines]
    BY <1>0, <1>1, ReportType DEF StopQuarantined, CloseClasses
  <2>2. /\ desired' \in DesiredStates /\ observed' \in ObservedStates
        /\ effective' \subseteq Capabilities
    BY <1>1
    DEF StopQuarantined, transitionLocked, TypeOK, DesiredStates, ObservedStates
  <2> QED
    BY <1>1, <2>1, <2>2 DEF StopQuarantined, TypeOK, RuntimeTypeOK, runtimeVars
<1>2. CASE StopNothing(p)
  <2>1. PICK class \in CloseClasses : ReportClose(p, CancelAttempt(gor), class)
    BY <1>2 DEF StopNothing, CloseClasses
  <2>2. gor' \in [Procs -> Goroutines]
    BY <1>0, <2>1, ReportType
  <2>3. desired' \in DesiredStates
    BY <1>2 DEF StopNothing, DesiredStates
  <2> QED
    BY <1>2, <2>2, <2>3 DEF StopNothing, TypeOK, RuntimeTypeOK, runtimeVars
<1>3. CASE StopWithdraw(p)
  <2>1. gor' \in [Procs -> Goroutines]
    BY <1>0, <1>3, GotoType DEF StopWithdraw, PCs, InStop
  <2>2. operationSeq' \in Nat /\ activeOperation' \in 0..operationSeq'
    BY <1>3 DEF StopWithdraw, nextOperationLocked, TypeOK
  <2>3. /\ desired' \in DesiredStates /\ observed' \in ObservedStates
        /\ effective' \subseteq Capabilities
    BY <1>3 DEF StopWithdraw, transitionLocked, DesiredStates, ObservedStates
  <2>4. RuntimeTypeOK'
    BY <1>3, TypeFence DEF StopWithdraw, TypeOK, RuntimeTypeOK
  <2> QED  BY <1>3, <2>1, <2>2, <2>3, <2>4 DEF StopWithdraw, TypeOK
<1>4. CASE StopRuntime(p)
  <2>1. PICK e \in StopErrors :
          /\ RuntimeStop(e)
          /\ gor' = [gor EXCEPT ![p].pc = "stopFinish", ![p].close = e]
    BY <1>4 DEF StopRuntime
  <2>2. [gor[p] EXCEPT !.pc = "stopFinish", !.close = e] \in Goroutines
    BY <1>0 DEF Goroutines, PCs, InStop
  <2>3. gor' \in [Procs -> Goroutines]
    BY <2>1, <2>2 DEF TypeOK
  <2>4. RuntimeTypeOK'
    BY <2>1, TypeRuntimeStop DEF TypeOK
  <2> QED  BY <1>4, <2>3, <2>4 DEF StopRuntime, TypeOK, driverVars
<1>5. CASE StopFinish(p)
  <2>1. ClassifyClose(gor[p].close, rtQuarantined) \in CloseClasses
    BY DEF ClassifyClose, CloseClasses
  <2>2. gor' \in [Procs -> Goroutines]
    BY <1>5, <2>1, ReportType DEF StopFinish, TypeOK
  <2>3. observed' \in ObservedStates /\ effective' \subseteq Capabilities
    BY <1>5 DEF StopFinish, transitionLocked, ObservedStates
  <2>4. activeOperation' \in 0..operationSeq'
    BY <1>5 DEF StopFinish, TypeOK
  <2>5. needsReplace' \in BOOLEAN /\ quarantined' \in BOOLEAN
    BY <1>5 DEF StopFinish, TypeOK
  <2> QED
    BY <1>5, <2>2, <2>3, <2>4, <2>5
    DEF StopFinish, TypeOK, RuntimeTypeOK, runtimeVars
<1>6. CASE StopReturn(p)
  <2>1. [IdleGoroutine EXCEPT !.pc = "awaitTasks", !.shutdown = TRUE]
            \in Goroutines
    BY IdleType DEF Goroutines, PCs
  <2>2. gor' \in [Procs -> Goroutines]
    BY <1>6, <2>1, ReturnType DEF StopReturn, TypeOK
  <2> QED
    BY <1>6, <2>2 DEF StopReturn, TypeOK, RuntimeTypeOK, driverVars, runtimeVars
<1>7. CASE ShutdownCancel(p)
  <2>1. [gor EXCEPT ![p].pc = "stopWait"] \in [Procs -> Goroutines]
    BY GotoType DEF TypeOK, PCs, PreReservation
  <2>2. CancelAttempt([gor EXCEPT ![p].pc = "stopWait"]) \in [Procs -> Goroutines]
    BY <2>1, CancelAttemptType DEF TypeOK
  <2>3. /\ gor' \in [Procs -> Goroutines]
        /\ retryToken' = NoProc /\ retryCancel' = NoProc
    BY <1>7, <2>2, CancelRetryType DEF ShutdownCancel, TypeOK
  <2> QED
    BY <1>7, <2>3 DEF ShutdownCancel, TypeOK, RuntimeTypeOK, runtimeVars
<1>8. CASE ShutdownReturn(p)
  BY <1>8, ReturnType
  DEF ShutdownReturn, TypeOK, RuntimeTypeOK, driverVars, runtimeVars
<1> QED
  BY <1>1, <1>2, <1>3, <1>4, <1>5, <1>6, <1>7, <1>8 DEF Stopping

LEMMA TypeReportFailure ==
  ASSUME TypeOK, NEW p \in Procs, NEW g, NEW retryable \in BOOLEAN,
         ReportFailure(p, g, retryable)
  PROVE  TypeOK'
<1>0. /\ operationSeq' = operationSeq + 1
      /\ activeOperation' = operationSeq + 1 \/ activeOperation' = 0
  BY DEF ReportFailure
<1>1. operationSeq' \in Nat /\ activeOperation' \in 0..operationSeq'
  BY <1>0 DEF TypeOK
<1>2. RuntimeTypeOK'
  BY TypeFence DEF ReportFailure, TypeOK, RuntimeTypeOK
<1>3. /\ gor' \in [Procs -> Goroutines]
      /\ observed' \in ObservedStates
      /\ effective' \subseteq Capabilities
      /\ retryRemaining' \in 0..Budget
      /\ retryNeedsReplace' \in BOOLEAN
      /\ retryToken' \in Procs \cup {NoProc}
      /\ retryCancel' \in Procs \cup {NoProc}
  <2>1. CASE scheduleRetryLocked(p, operationSeq + 1, TRUE, Budget)
    <3>1. operationSeq + 1 \in Nat /\ Budget \in 0..Budget
      BY ConfigAssumption DEF TypeOK
    <3> QED  BY <2>1, <3>1, TypeSchedule
  <2>2. CASE /\ resetRetryLocked
             /\ transitionLocked("FAILED", {})
             /\ UNCHANGED <<retryToken, retryCancel, retryNeedsReplace, gor>>
    BY <2>2, ConfigAssumption
    DEF resetRetryLocked, transitionLocked, ObservedStates, TypeOK
  <2> QED  BY <2>1, <2>2 DEF ReportFailure
<1> QED  BY <1>1, <1>2, <1>3 DEF ReportFailure, TypeOK

LEMMA TypeEnvironment == TypeOK /\ Environment => TypeOK'
<1> SUFFICES ASSUME TypeOK, Environment PROVE TypeOK'
  OBVIOUS
<1>1. ASSUME NEW p \in Procs,
             StartCall(p) \/ StartAsyncCall(p) \/ ReplaceCall(p) \/ StopCall(p)
      PROVE  TypeOK'
  BY <1>1, TypeCall
  DEF StartCall, StartAsyncCall, ReplaceCall, StopCall, PCs, PreReservation
<1>2. ASSUME NEW p \in Procs, ShutdownCall(p) PROVE TypeOK'
  <2>1. [gor[p] EXCEPT !.pc = "shutdownCancel", !.shutdown = TRUE] \in Goroutines
    BY DEF TypeOK, Goroutines, PCs, PreReservation
  <2>2. gor' \in [Procs -> Goroutines]
    BY <1>2, <2>1 DEF ShutdownCall, TypeOK
  <2> QED
    BY <1>2, <2>2 DEF ShutdownCall, TypeOK, RuntimeTypeOK, driverVars, runtimeVars
<1>3. ASSUME NEW p \in Procs, ShutdownAbandon(p) PROVE TypeOK'
  BY <1>3, ReturnType
  DEF ShutdownAbandon, TypeOK, RuntimeTypeOK, driverVars, runtimeVars
<1>4. ASSUME NEW p \in Procs, NEW c \in Capabilities, Invoke(p, c) PROVE TypeOK'
  <2>1. gor' \in [Procs -> Goroutines]
    BY <1>4, GotoType DEF Invoke, Goto, TypeOK, PCs
  <2>2. RuntimeTypeOK'
    BY <1>4 DEF Invoke, Admit, TypeOK, RuntimeTypeOK
  <2> QED  BY <1>4, <2>1, <2>2 DEF Invoke, TypeOK, driverVars
<1>5. ASSUME NEW p \in Procs, NEW g \in 1..MaxGenerations, NEW r \in BOOLEAN,
             ReportFailure(p, g, r)
      PROVE  TypeOK'
  BY <1>5, TypeReportFailure
<1>6. ASSUME NEW g \in 1..MaxGenerations, NEW caps \in SUBSET Capabilities,
             ReportDegraded(g, caps)
      PROVE  TypeOK'
  BY <1>6
  DEF ReportDegraded, transitionLocked, ObservedStates, TypeOK, RuntimeTypeOK,
      runtimeVars
<1>7. ASSUME BindHooks PROVE TypeOK'
  BY <1>7 DEF BindHooks, TypeOK, RuntimeTypeOK, runtimeVars
<1> QED  BY <1>1, <1>2, <1>3, <1>4, <1>5, <1>6, <1>7 DEF Environment

LEMMA TypeStep == TypeOK /\ [Next]_vars => TypeOK'
<1> SUFFICES ASSUME TypeOK, [Next]_vars PROVE TypeOK'
  OBVIOUS
<1>1. ASSUME NEW p \in Procs, Locking(p) PROVE TypeOK'
  BY <1>1, TypeLock
  DEF Locking, StartLock, StartAsyncLock, ReplaceLock, StopLock, PCs,
      PreReservation
<1>2. ASSUME NEW p \in Procs, Step(p) PROVE TypeOK'
  <2>1. CASE StartRefuse(p) \/ ReplaceRefuse(p)
    BY <2>1, ReturnType
    DEF StartRefuse, ReplaceRefuse, TypeOK, RuntimeTypeOK, driverVars,
        runtimeVars
  <2>2. CASE InvokeReturn(p)
    <3>1. RuntimeTypeOK'
      BY <2>2, GenerationsAssumption
      DEF InvokeReturn, Release, TypeOK, RuntimeTypeOK
    <3> QED  BY <2>2, <3>1, ReturnType DEF InvokeReturn, TypeOK, driverVars
  <2> QED
    BY <1>2, <2>1, <2>2, TypeReserve, TypeAttempt, TypeStopping DEF Step
<1>3. CASE UNCHANGED vars
  BY <1>3 DEF vars, driverVars, runtimeVars, TypeOK, RuntimeTypeOK
<1> QED
  BY <1>1, <1>2, <1>3, TypeRetry, TypeEnvironment DEF Next

(* Type correctness of the driver manager, for any number of goroutines,   *)
(* any retry budget and any bound on operations and generations.           *)
THEOREM TypeCorrect == Spec => []TypeOK
  BY TypeInit, TypeStep, PTL DEF Spec

-----------------------------------------------------------------------------
(* Ownership is inductive. *)

(* What an action of slot p leaves of every other slot. *)
Others(p) ==
    \A q \in Procs \ {p} : /\ gor'[q].pc = gor[q].pc
                           /\ gor'[q].op = gor[q].op
                           /\ gor'[q].gen = gor[q].gen
                           /\ gor'[q].res = gor[q].res

LEMMA CancelRetryRows ==
  ASSUME TypeOK, NEW table \in [Procs -> Goroutines], CancelRetry(table)
  PROVE  \A q \in Procs : /\ gor'[q].pc = table[q].pc
                          /\ gor'[q].op = table[q].op
                          /\ gor'[q].gen = table[q].gen
                          /\ gor'[q].res = table[q].res
  BY NoProcAssumption DEF CancelRetry, TypeOK, Goroutines

LEMMA CancelAttemptRows ==
  ASSUME TypeOK, NEW table \in [Procs -> Goroutines]
  PROVE  \A q \in Procs : /\ CancelAttempt(table)[q].pc = table[q].pc
                          /\ CancelAttempt(table)[q].op = table[q].op
                          /\ CancelAttempt(table)[q].gen = table[q].gen
                          /\ CancelAttempt(table)[q].res = table[q].res
  BY NoProcAssumption DEF CancelAttempt, TypeOK, Goroutines

LEMMA ReturnRows ==
  ASSUME TypeOK, NEW p \in Procs, Return(p)
  PROVE  Others(p) /\ gor'[p].pc = "idle" /\ gor'[p].op = 0
  BY DEF Return, Others, TypeOK, IdleGoroutine

LEMMA GotoRows ==
  ASSUME TypeOK, NEW p \in Procs, NEW label, Goto(p, label)
  PROVE  /\ Others(p)
         /\ gor'[p].pc = label /\ gor'[p].op = gor[p].op
         /\ gor'[p].gen = gor[p].gen /\ gor'[p].res = gor[p].res
  BY DEF Goto, Others, TypeOK, Goroutines

LEMMA CallRows ==
  ASSUME TypeOK, NEW p \in Procs, NEW label \in PCs, Call(p, label)
  PROVE  Others(p) /\ gor'[p].pc = label /\ gor'[p].op = gor[p].op
<1>1. [gor EXCEPT ![p].pc = label] \in [Procs -> Goroutines]
  BY GotoType DEF TypeOK
<1>2. \A q \in Procs : /\ gor'[q].pc = [gor EXCEPT ![p].pc = label][q].pc
                       /\ gor'[q].op = [gor EXCEPT ![p].pc = label][q].op
                       /\ gor'[q].gen = [gor EXCEPT ![p].pc = label][q].gen
                       /\ gor'[q].res = [gor EXCEPT ![p].pc = label][q].res
  BY <1>1, CancelRetryRows DEF Call
<1> QED  BY <1>2 DEF Others, TypeOK, Goroutines

LEMMA LockRows ==
  ASSUME TypeOK, NEW p \in Procs, NEW waiting, NEW section \in PCs,
         Lock(p, waiting, section)
  PROVE  Others(p) /\ gor'[p].pc = section /\ gor'[p].op = gor[p].op
<1>1. [gor EXCEPT ![p].pc = section] \in [Procs -> Goroutines]
  BY GotoType DEF TypeOK
<1>2. \A q \in Procs : /\ gor'[q].pc = [gor EXCEPT ![p].pc = section][q].pc
                       /\ gor'[q].op = [gor EXCEPT ![p].pc = section][q].op
                       /\ gor'[q].gen = [gor EXCEPT ![p].pc = section][q].gen
                       /\ gor'[q].res = [gor EXCEPT ![p].pc = section][q].res
  BY <1>1, CancelRetryRows DEF Lock
<1> QED  BY <1>2 DEF Others, TypeOK, Goroutines

(* The driver state that ownership depends on is left alone ... *)
Keeps ==
    UNCHANGED <<desired, observed, quarantined, operationSeq, activeOperation>>

(* ... and p gives away at most the attempt and the lock that it holds. *)
LetsGo(p) ==
    /\ \/ activeAttempt' = activeAttempt
       \/ activeAttempt' = NoProc /\ gor[p].pc \in InAttempt
    /\ \/ opMu' = opMu
       \/ opMu' = NoProc /\ opMu = p

Holding == Reserved \cup InAttempt \cup Sections \cup InStop \cup {"wait"}

(* A step that leaves the driver alone and moves p to a label at which it  *)
(* holds nothing.                                                          *)
LEMMA OwnershipQuiet ==
  ASSUME TypeOK, Ownership, NEW p \in Procs, Others(p),
         gor'[p].pc \notin Holding, gor'[p].op <= operationSeq,
         Keeps, LetsGo(p)
  PROVE  Ownership'
<1> USE DEF Keeps, LetsGo, Holding
<1>1. AttemptsOwn'
  BY DEF Ownership, AttemptsOwn, Others, Reserved, InAttempt, Sections, InStop
<1>2. OperationsIdentify'
  BY DEF Ownership, OperationsIdentify, Others, Numbered
<1>3. ReservationsFree'
  BY DEF Ownership, ReservationsFree, Others
<1>4. OperationsSettle'
  BY DEF Ownership, OperationsSettle, Others, Running
<1>5. StopsExclude'
  BY NoProcAssumption DEF Ownership, StopsExclude, Others
<1> QED  BY <1>1, <1>2, <1>3, <1>4, <1>5 DEF Ownership

(* The same for a goroutine that returns. *)
LEMMA OwnershipReturn ==
  ASSUME TypeOK, Ownership, NEW p \in Procs, Return(p), Keeps, LetsGo(p)
  PROVE  Ownership'
<1>1. Others(p) /\ gor'[p].pc = "idle" /\ gor'[p].op = 0
  BY ReturnRows
<1>2. gor'[p].pc \notin Holding
  BY <1>1 DEF Holding, Reserved, InAttempt, Sections, InStop
<1>3. gor'[p].op <= operationSeq
  BY <1>1 DEF TypeOK
<1> QED  BY <1>1, <1>2, <1>3, OwnershipQuiet

(* A step that ends the active operation. *)
LEMMA OwnershipEnd ==
  ASSUME TypeOK, Ownership, NEW p \in Procs, Others(p),
         \/ gor'[p].pc \notin Holding
         \/ /\ gor[p].pc \in InAttempt /\ gor'[p].pc \in InAttempt
            /\ activeAttempt' = activeAttempt /\ gor'[p].op # 0,
         gor'[p].op <= operationSeq',
         operationSeq' = operationSeq \/ operationSeq' = operationSeq + 1,
         activeOperation' = 0,
         desired' \in {desired, "STOPPED"},
         (observed' = "BACKOFF") => (activeAttempt' = NoProc),
         Running' => /\ activeAttempt' = NoProc
                     /\ desired' = "RUNNING" /\ ~quarantined',
         LetsGo(p)
  PROVE  Ownership'
<1>0. operationSeq \in Nat /\ \A q \in Procs : gor[q].op \in Nat
  BY DEF TypeOK, Goroutines
<1>1. AttemptsOwn'
  BY NoProcAssumption
  DEF Ownership, AttemptsOwn, Others, LetsGo, Holding
<1>2. OperationsIdentify'
  <2>1. \A q \in Procs : gor'[q].op <= operationSeq'
    BY <1>0 DEF Ownership, OperationsIdentify, Others
  <2>2. \A q \in Procs : gor'[q].pc \in Numbered => gor'[q].op # 0
    BY DEF Ownership, OperationsIdentify, Others, Numbered, Holding
  <2> QED
    BY <2>1, <2>2 DEF OperationsIdentify, Numbered
<1>3. ReservationsFree' /\ OperationsSettle'
  <2>1. \A q \in Procs : gor'[q].pc \in Reserved => gor'[q].op # activeOperation'
    BY <1>2 DEF OperationsIdentify, Numbered
  <2> QED  BY <2>1 DEF ReservationsFree, OperationsSettle
<1>4. StopsExclude'
  BY NoProcAssumption
  DEF Ownership, StopsExclude, Others, LetsGo, Holding, Sections, InStop, InAttempt
<1> QED  BY <1>1, <1>2, <1>3, <1>4 DEF Ownership

(* A step of an attempt that keeps its control. *)
LEMMA OwnershipWithin ==
  ASSUME TypeOK, Ownership, NEW p \in Procs, Others(p),
         gor[p].pc \in InAttempt, gor'[p].pc \in InAttempt,
         gor'[p].op = gor[p].op,
         UNCHANGED <<desired, observed, quarantined, operationSeq,
                     activeOperation, activeAttempt, opMu>>
  PROVE  Ownership'
<1>1. AttemptsOwn'
  BY DEF Ownership, AttemptsOwn, Others
<1>2. OperationsIdentify'
  BY DEF Ownership, OperationsIdentify, Others, Numbered, Reserved, InAttempt
<1>3. ReservationsFree'
  BY DEF Ownership, ReservationsFree, Others, Reserved, InAttempt
<1>4. OperationsSettle'
  BY DEF Ownership, OperationsSettle, Others, Running, Reserved, InAttempt
<1>5. StopsExclude'
  BY DEF Ownership, StopsExclude, Others, InAttempt, Sections, InStop
<1> QED  BY <1>1, <1>2, <1>3, <1>4, <1>5 DEF Ownership

(* A reservation under a fresh operation number. *)
LEMMA OwnershipReserve ==
  ASSUME TypeOK, Ownership, NEW p \in Procs, Others(p),
         gor[p].pc \in Sections, gor'[p].pc \in Reserved,
         gor'[p].op = operationSeq + 1,
         operationSeq' = operationSeq + 1, activeOperation' = operationSeq + 1,
         observed' \in {"STARTING", "STOPPING"}, ~quarantined,
         UNCHANGED <<quarantined, activeAttempt>>,
         activeAttempt = NoProc, opMu' = NoProc
  PROVE  Ownership'
<1>0. operationSeq \in Nat /\ \A q \in Procs : gor[q].op \in Nat
  BY DEF TypeOK, Goroutines
<1>1. AttemptsOwn'
  BY NoProcAssumption DEF Ownership, AttemptsOwn, Others, Reserved, InAttempt
<1>2. OperationsIdentify'
  BY <1>0 DEF Ownership, OperationsIdentify, Others, Numbered, Reserved
<1>3. ReservationsFree'
  BY <1>0 DEF ReservationsFree
<1>4. OperationsSettle'
  BY <1>0 DEF OperationsSettle, Running, Settled
<1>5. StopsExclude'
  <2>1. opMu = p
    BY DEF Ownership, StopsExclude
  <2> QED
    BY <2>1, NoProcAssumption
    DEF Ownership, StopsExclude, Others, Reserved, Sections, InStop
<1> QED  BY <1>1, <1>2, <1>3, <1>4, <1>5 DEF Ownership

LEMMA OwnershipStart ==
  ASSUME TypeOK, Ownership, NEW p \in Procs, StartReserve(p) \/ ReplaceReserve(p)
  PROVE  Ownership'
<1>1. Others(p) /\ gor'[p].op = operationSeq + 1 /\ gor'[p].pc \in Reserved
  BY DEF StartReserve, ReplaceReserve, Others, TypeOK, Goroutines, Reserved
<1>2. gor[p].pc \in Sections /\ ~quarantined /\ activeAttempt = NoProc
  BY DEF StartReserve, ReplaceReserve, StartRefused, ReplaceRefused, At, Sections
<1>3. /\ operationSeq' = operationSeq + 1 /\ activeOperation' = operationSeq + 1
      /\ observed' \in {"STARTING", "STOPPING"}
      /\ UNCHANGED <<quarantined, activeAttempt>>
      /\ opMu' = NoProc
  BY DEF StartReserve, ReplaceReserve, nextOperationLocked, transitionLocked
<1> QED  BY <1>1, <1>2, <1>3, OwnershipReserve

LEMMA OwnershipSpawn ==
  ASSUME TypeOK, Ownership, NEW p \in Procs, StartAsyncSpawn(p)
  PROVE  Ownership'
<1>0. /\ UNCHANGED <<desired, observed, quarantined, operationSeq,
                     activeOperation, activeAttempt, opMu>>
      /\ operationSeq \in Nat
  BY DEF StartAsyncSpawn, driverVars, TypeOK
<1>1. CASE Return(p)
  <2>1. Keeps /\ LetsGo(p)
    BY <1>0 DEF Keeps, LetsGo
  <2> QED  BY <1>1, <2>1, OwnershipReturn
<1>2. CASE gor' = [gor EXCEPT ![p].pc = "reserved", ![p].task = TRUE]
  <2>1. /\ Others(p) /\ gor'[p].op = gor[p].op /\ gor'[p].pc = "reserved"
        /\ gor[p].pc = "spawn"
    BY <1>2 DEF StartAsyncSpawn, At, Others, TypeOK, Goroutines
  <2>2. AttemptsOwn'
    BY <1>0, <2>1 DEF Ownership, AttemptsOwn, Others, InAttempt
  <2>3. OperationsIdentify'
    BY <1>0, <2>1
    DEF Ownership, OperationsIdentify, Others, Numbered, Reserved, InAttempt
  <2>4. ReservationsFree'
    BY <1>0, <2>1 DEF Ownership, ReservationsFree, Others, Reserved
  <2>5. OperationsSettle'
    BY <1>0, <2>1 DEF Ownership, OperationsSettle, Others, Running, Reserved
  <2>6. StopsExclude'
    BY <1>0, <2>1 DEF Ownership, StopsExclude, Others, Sections, InStop
  <2> QED  BY <2>2, <2>3, <2>4, <2>5, <2>6 DEF Ownership
<1> QED  BY <1>1, <1>2 DEF StartAsyncSpawn

LEMMA OwnershipInstall ==
  ASSUME TypeOK, Ownership, NEW p \in Procs, AttemptInstall(p)
  PROVE  Ownership'
<1>0. /\ UNCHANGED <<desired, observed, quarantined, operationSeq,
                     activeOperation, opMu>>
      /\ operationSeq \in Nat
  BY DEF AttemptInstall, TypeOK
<1>1. CASE Return(p) /\ UNCHANGED activeAttempt
  <2>1. Keeps /\ LetsGo(p)
    BY <1>0, <1>1 DEF Keeps, LetsGo
  <2> QED  BY <1>1, <2>1, OwnershipReturn
<1>2. CASE /\ Goto(p, "construct") /\ activeAttempt' = p
           /\ activeOperation = gor[p].op
           /\ desired = "RUNNING" /\ ~quarantined
  <2>1. Others(p) /\ gor'[p].op = gor[p].op /\ gor'[p].pc = "construct"
    BY <1>2, GotoRows
  <2>2. gor[p].pc = "reserved" /\ gor[p].op # 0 /\ activeAttempt = NoProc
    BY <1>2
    DEF AttemptInstall, At, Ownership, OperationsIdentify, ReservationsFree,
        Numbered, Reserved
  <2>3. AttemptsOwn'
    BY <1>2, <2>1, <2>2, NoProcAssumption DEF Ownership, AttemptsOwn, Others
  <2>4. OperationsIdentify'
    BY <1>0, <2>1, <2>2
    DEF Ownership, OperationsIdentify, Others, Numbered, Reserved, InAttempt
  <2>5. ReservationsFree'
    BY <1>0, <1>2, <2>1, <2>2
    DEF Ownership, ReservationsFree, OperationsIdentify, Others, Reserved
  <2>6. OperationsSettle'
    BY <1>0, <1>2, <2>1, <2>2
    DEF Ownership, OperationsSettle, Others, Running, Reserved, Settled
  <2>7. StopsExclude'
    BY <1>0, <2>1 DEF Ownership, StopsExclude, Others, Sections, InStop
  <2> QED  BY <2>3, <2>4, <2>5, <2>6, <2>7 DEF Ownership
<1> QED  BY <1>1, <1>2 DEF AttemptInstall

(* The steps of an attempt up to its end. *)
LEMMA OwnershipConstruct ==
  ASSUME TypeOK, Ownership, NEW p \in Procs,
         \/ ConstructReturn(p) \/ AttemptCheck(p) \/ HoldReturn(p)
         \/ RetireStale(p) \/ RetireHeld(p)
  PROVE  Ownership'
<1>1. UNCHANGED <<desired, observed, quarantined, operationSeq,
                  activeOperation, activeAttempt, opMu>>
  BY DEF ConstructReturn, AttemptCheck, HoldReturn, RetireStale, RetireHeld,
         driverVars
<1>2. gor[p].pc \in InAttempt
  BY DEF ConstructReturn, AttemptCheck, HoldReturn, RetireStale, RetireHeld,
         At, InAttempt
<1>3. Others(p) /\ gor'[p].op = gor[p].op /\ gor'[p].pc \in InAttempt
  <2>1. CASE ConstructReturn(p)
    BY <2>1 DEF ConstructReturn, Others, TypeOK, Goroutines, InAttempt
  <2>2. CASE AttemptCheck(p)
    BY <2>2 DEF AttemptCheck, Goto, Others, TypeOK, Goroutines, InAttempt
  <2>3. CASE HoldReturn(p)
    BY <2>3 DEF HoldReturn, Others, TypeOK, Goroutines, InAttempt
  <2>4. CASE RetireStale(p)
    BY <2>4 DEF RetireStale, Others, TypeOK, Goroutines, InAttempt
  <2>5. CASE RetireHeld(p)
    BY <2>5 DEF RetireHeld, Others, TypeOK, Goroutines, InAttempt
  <2> QED  BY <2>1, <2>2, <2>3, <2>4, <2>5
<1> QED  BY <1>1, <1>2, <1>3, OwnershipWithin

(* A goroutine that returns with the end of its operation. *)
LEMMA OwnershipReturnEnd ==
  ASSUME TypeOK, Ownership, NEW p \in Procs, Return(p), LetsGo(p),
         operationSeq' = operationSeq, activeOperation' = 0,
         desired' = desired, observed' \in Settled,
         Running' => /\ activeAttempt' = NoProc
                     /\ desired' = "RUNNING" /\ ~quarantined'
  PROVE  Ownership'
<1>1. Others(p) /\ gor'[p].pc = "idle" /\ gor'[p].op = 0
  BY ReturnRows
<1>2. gor'[p].pc \notin Holding
  BY <1>1 DEF Holding, Reserved, InAttempt, Sections, InStop
<1>3. gor'[p].op <= operationSeq'
  BY <1>1 DEF TypeOK
<1>4. observed' # "BACKOFF"
  BY DEF Settled
<1> QED  BY <1>1, <1>2, <1>3, <1>4, OwnershipEnd

(* The end of an attempt leaves a retry in BACKOFF. *)
LEMMA OwnershipBackoff ==
  ASSUME TypeOK, Ownership, NEW p \in Procs, gor[p].pc \in InAttempt,
         activeOperation = gor[p].op, ~quarantined,
         NEW remaining, NEW replace,
         scheduleRetryLocked(p, gor[p].op, replace, remaining),
         releaseAttempt(p),
         UNCHANGED <<desired, operationSeq, activeOperation, quarantined, opMu>>
  PROVE  Ownership'
<1>1. /\ Others(p) /\ gor'[p].op = gor[p].op /\ gor'[p].pc = "wait"
      /\ observed' = "BACKOFF"
  BY DEF scheduleRetryLocked, transitionLocked, IdleGoroutine, Others, TypeOK
<1>2. activeAttempt = p /\ activeAttempt' = NoProc
  BY DEF Ownership, AttemptsOwn, releaseAttempt
<1>3. \A q \in Procs : gor[q].pc \in Reserved => gor[q].op # activeOperation
  BY <1>2, NoProcAssumption DEF Ownership, ReservationsFree
<1>4. AttemptsOwn'
  BY <1>1, <1>2 DEF Ownership, AttemptsOwn, Others, InAttempt
<1>5. OperationsIdentify'
  BY <1>1, <1>3
  DEF Ownership, OperationsIdentify, Others, Numbered, Reserved
<1>6. ReservationsFree'
  BY <1>1, <1>2 DEF ReservationsFree
<1>7. OperationsSettle'
  BY <1>1, <1>2, <1>3 DEF OperationsSettle, Running, Settled, Others, Reserved
<1>8. StopsExclude'
  BY <1>1 DEF Ownership, StopsExclude, Others, Sections, InStop
<1> QED  BY <1>4, <1>5, <1>6, <1>7, <1>8 DEF Ownership

LEMMA OwnershipFinish ==
  ASSUME TypeOK, Ownership, NEW p \in Procs, gor[p].pc \in InAttempt,
         NEW g, NEW err, NEW replace, finishAttempt(p, g, err, replace)
  PROVE  Ownership'
<1>1. activeAttempt = p /\ activeAttempt' = NoProc /\ LetsGo(p)
  BY DEF Ownership, AttemptsOwn, finishAttempt, releaseAttempt, LetsGo
<1>2. UNCHANGED <<desired, operationSeq, opMu>>
  BY DEF finishAttempt
<1>3. CASE /\ Superseded(p) /\ Return(p)
           /\ UNCHANGED <<observed, quarantined, activeOperation>>
  <2>1. Keeps
    BY <1>2, <1>3 DEF Keeps
  <2> QED  BY <1>1, <1>3, <2>1, OwnershipReturn
<1>4. CASE ~Superseded(p) /\ Publish(p, g)
  <2>1. /\ activeOperation' = 0 /\ observed' \in Settled /\ Return(p)
        /\ desired' = "RUNNING" /\ ~quarantined'
    BY <1>2, <1>4 DEF Publish, transitionLocked, Settled, Superseded
  <2> QED  BY <1>1, <1>2, <2>1, OwnershipReturnEnd
<1>5. CASE quarantineLocked /\ Return(p)
  <2>1. activeOperation' = 0 /\ observed' \in Settled /\ ~Running'
    BY <1>5 DEF quarantineLocked, transitionLocked, Settled, Running
  <2> QED  BY <1>1, <1>2, <1>5, <2>1, OwnershipReturnEnd
<1>6. CASE ~Superseded(p) /\ FailAttempt(p, err, replace)
  <2>1. CASE /\ scheduleRetryLocked(p, gor[p].op, replace, retryRemaining)
             /\ UNCHANGED activeOperation
    <3>1. gor[p].op # 0 /\ activeOperation = gor[p].op
      BY <1>6
      DEF Ownership, OperationsIdentify, Numbered, Superseded
    <3>2. ~quarantined
      BY <3>1 DEF Ownership, OperationsSettle
    <3>3. UNCHANGED <<desired, operationSeq, activeOperation, quarantined, opMu>>
      BY <1>2, <1>6, <2>1 DEF FailAttempt
    <3>4. releaseAttempt(p)
      BY DEF finishAttempt
    <3> QED  BY <2>1, <3>1, <3>2, <3>3, <3>4, OwnershipBackoff
  <2>2. CASE activeOperation' = 0 /\ transitionLocked("FAILED", {}) /\ Return(p)
    <3>1. observed' \in Settled /\ ~Running'
      BY <2>2 DEF transitionLocked, Settled, Running
    <3> QED  BY <1>1, <1>2, <2>2, <3>1, OwnershipReturnEnd
  <2> QED  BY <1>6, <2>1, <2>2 DEF FailAttempt
<1> QED  BY <1>3, <1>4, <1>5, <1>6 DEF finishAttempt

(* The steps that end an attempt. *)
LEMMA OwnershipAttempt ==
  ASSUME TypeOK, Ownership, NEW p \in Procs, Attempt(p)
  PROVE  Ownership'
<1>1. CASE FinishAttempt(p)
  BY <1>1, OwnershipFinish DEF FinishAttempt, At, InAttempt
<1>2. CASE StaleRetired(p)
  <2>1. /\ gor[p].pc \in InAttempt
        /\ UNCHANGED <<desired, operationSeq, activeAttempt, opMu>>
    BY <1>2 DEF StaleRetired, At, InAttempt
  <2>2. Others(p) /\ gor'[p].op = gor[p].op /\ gor'[p].pc \in InAttempt
    BY <1>2, GotoRows DEF StaleRetired, InAttempt
  <2>3. CASE quarantineLocked
    <3>1. /\ activeOperation' = 0 /\ observed' = "FAILED" /\ ~Running'
          /\ LetsGo(p)
      BY <2>1, <2>3 DEF quarantineLocked, transitionLocked, Running, LetsGo
    <3>2. gor'[p].op # 0 /\ gor'[p].op <= operationSeq'
      BY <2>1, <2>2 DEF Ownership, OperationsIdentify, Numbered
    <3> QED  BY <2>1, <2>2, <3>1, <3>2, OwnershipEnd
  <2>4. CASE UNCHANGED <<quarantined, activeOperation, observed, effective>>
    BY <2>1, <2>2, <2>4, OwnershipWithin
  <2> QED  BY <1>2, <2>3, <2>4 DEF StaleRetired
<1>3. CASE HeldRetired(p)
  <2>0. gor[p].pc \in InAttempt
    BY <1>3 DEF HeldRetired, At, InAttempt
  <2>1. CASE finishAttempt(p, 0, gor[p].res, FALSE)
    BY <2>0, <2>1, OwnershipFinish
  <2>2. CASE /\ releaseAttempt(p) /\ quarantineLocked /\ Return(p)
             /\ UNCHANGED <<desired, operationSeq, opMu>>
    <3>1. /\ activeOperation' = 0 /\ observed' \in Settled /\ ~Running'
          /\ LetsGo(p) /\ UNCHANGED <<desired, operationSeq>>
      BY <2>0, <2>2
      DEF quarantineLocked, transitionLocked, Settled, Running, LetsGo,
          releaseAttempt
    <3> QED  BY <2>2, <3>1, OwnershipReturnEnd
  <2> QED  BY <1>3, <2>1, <2>2 DEF HeldRetired
<1>4. CASE AttemptExit(p)
  <2>1. Keeps /\ LetsGo(p) /\ Return(p)
    BY <1>4 DEF AttemptExit, At, InAttempt, releaseAttempt, Keeps, LetsGo
  <2> QED  BY <2>1, OwnershipReturn
<1> QED
  BY <1>1, <1>2, <1>3, <1>4, OwnershipSpawn, OwnershipInstall,
     OwnershipConstruct
  DEF Attempt

LEMMA OwnershipRetry ==
  ASSUME TypeOK, Ownership, NEW p \in Procs, Retry(p)
  PROVE  Ownership'
<1>1. CASE RetryGiveUp(p)
  <2>1. Keeps /\ LetsGo(p) /\ Return(p)
    BY <1>1 DEF RetryGiveUp, Keeps, LetsGo, driverVars
  <2> QED  BY <2>1, OwnershipReturn
<1>2. CASE RetryFire(p)
  <2>0. /\ UNCHANGED <<desired, quarantined, operationSeq, activeOperation,
                       activeAttempt, opMu>>
        /\ gor[p].pc = "wait" /\ activeOperation = gor[p].op
        /\ observed = "BACKOFF" /\ observed' = "STARTING" /\ ~quarantined
    BY <1>2 DEF RetryFire, RetryCurrent, At, transitionLocked
  <2>1. Others(p) /\ gor'[p].op = gor[p].op /\ gor'[p].pc = "reserved"
    BY <1>2 DEF RetryFire, Others, TypeOK, Goroutines
  <2>2. /\ activeAttempt = NoProc
        /\ \A q \in Procs : gor[q].pc \in Reserved => gor[q].op # activeOperation
    BY <2>0 DEF Ownership, OperationsSettle
  <2>3. AttemptsOwn'
    BY <2>0, <2>1 DEF Ownership, AttemptsOwn, Others, InAttempt
  <2>4. OperationsIdentify'
    BY <2>0, <2>1, <2>2
    DEF Ownership, OperationsIdentify, Others, Numbered, Reserved
  <2>5. ReservationsFree'
    BY <2>0, <2>2 DEF ReservationsFree
  <2>6. OperationsSettle'
    BY <2>0 DEF OperationsSettle, Running, Settled
  <2>7. StopsExclude'
    BY <2>0, <2>1 DEF Ownership, StopsExclude, Others, Sections, InStop
  <2> QED  BY <2>3, <2>4, <2>5, <2>6, <2>7 DEF Ownership
<1> QED  BY <1>1, <1>2 DEF Retry

LEMMA OwnershipLock ==
  ASSUME TypeOK, Ownership, NEW p \in Procs, NEW waiting, NEW section \in Sections,
         Lock(p, waiting, section)
  PROVE  Ownership'
<1>0. /\ Keeps /\ activeAttempt' = activeAttempt
      /\ opMu = NoProc /\ opMu' = p
  BY DEF Lock, Keeps
<1>1. Others(p) /\ gor'[p].pc = section /\ gor'[p].op = gor[p].op
  BY LockRows DEF Sections, PCs, PreReservation
<1>2. AttemptsOwn'
  BY <1>0, <1>1 DEF Ownership, AttemptsOwn, Others, Sections, InAttempt
<1>3. OperationsIdentify'
  BY <1>0, <1>1
  DEF Ownership, OperationsIdentify, Keeps, Others, Numbered, Reserved, InAttempt,
      Sections
<1>4. ReservationsFree'
  BY <1>0, <1>1
  DEF Ownership, ReservationsFree, Keeps, Others, Reserved, Sections
<1>5. OperationsSettle'
  BY <1>0, <1>1
  DEF Ownership, OperationsSettle, Keeps, Others, Reserved, Sections, Running
<1>6. StopsExclude'
  BY <1>0, <1>1, NoProcAssumption
  DEF Ownership, StopsExclude, Keeps, Others, Sections, InStop
<1> QED  BY <1>2, <1>3, <1>4, <1>5, <1>6 DEF Ownership

(* What a stop does to the rows: the attempt is canceled, p moves on. *)
LEMMA ReportRows ==
  ASSUME TypeOK, NEW p \in Procs, NEW class,
         ReportClose(p, CancelAttempt(gor), class) \/ ReportClose(p, gor, class)
  PROVE  Others(p) /\ gor'[p].pc = "report" /\ gor'[p].op = gor[p].op
<1>1. CancelAttempt(gor) \in [Procs -> Goroutines]
  BY CancelAttemptType DEF TypeOK
<1>2. \A q \in Procs : /\ CancelAttempt(gor)[q].pc = gor[q].pc
                       /\ CancelAttempt(gor)[q].op = gor[q].op
                       /\ CancelAttempt(gor)[q].gen = gor[q].gen
                       /\ CancelAttempt(gor)[q].res = gor[q].res
  BY CancelAttemptRows DEF TypeOK
<1> QED  BY <1>1, <1>2 DEF ReportClose, Others, TypeOK, Goroutines

LEMMA OwnershipWithdraw ==
  ASSUME TypeOK, Ownership, NEW p \in Procs, StopWithdraw(p)
  PROVE  Ownership'
<1>0. /\ gor[p].pc = "stopSection" /\ opMu = p /\ opMu' = opMu
      /\ desired' = "STOPPED" /\ observed' = "STOPPING" /\ ~quarantined
      /\ UNCHANGED <<quarantined, activeAttempt>>
      /\ operationSeq' = operationSeq + 1
      /\ activeOperation' = operationSeq + 1
      /\ operationSeq \in Nat /\ \A q \in Procs : gor[q].op \in Nat
  BY DEF StopWithdraw, At, nextOperationLocked, transitionLocked, Ownership,
         StopsExclude, Sections, TypeOK, Goroutines
<1>1. Others(p) /\ gor'[p].pc = "stopRuntime" /\ gor'[p].op = gor[p].op
  <2>1. CancelAttempt(gor) \in [Procs -> Goroutines]
    BY CancelAttemptType DEF TypeOK
  <2>2. \A q \in Procs : /\ CancelAttempt(gor)[q].pc = gor[q].pc
                         /\ CancelAttempt(gor)[q].op = gor[q].op
                         /\ CancelAttempt(gor)[q].gen = gor[q].gen
                         /\ CancelAttempt(gor)[q].res = gor[q].res
    BY CancelAttemptRows DEF TypeOK
  <2> QED  BY <2>1, <2>2 DEF StopWithdraw, Others, TypeOK, Goroutines
<1>2. AttemptsOwn'
  BY <1>0, <1>1 DEF Ownership, AttemptsOwn, Others, InAttempt
<1>3. /\ \A q \in Procs : gor'[q].op <= operationSeq
      /\ \A q \in Procs : gor'[q].op # activeOperation'
  BY <1>0, <1>1 DEF Ownership, OperationsIdentify, Others
<1>4. OperationsIdentify'
  BY <1>0, <1>1, <1>3
  DEF Ownership, OperationsIdentify, Others, Numbered, Reserved, InAttempt
<1>5. ReservationsFree'
  BY <1>3 DEF ReservationsFree
<1>6. OperationsSettle'
  BY <1>0 DEF OperationsSettle, Running, Settled
<1>7. StopsExclude'
  BY <1>0, <1>1 DEF Ownership, StopsExclude, Others, Sections, InStop
<1> QED  BY <1>2, <1>4, <1>5, <1>6, <1>7 DEF Ownership

LEMMA OwnershipStopping ==
  ASSUME TypeOK, Ownership, NEW p \in Procs, Stopping(p)
  PROVE  Ownership'
<1>0. gor[p].op <= operationSeq /\ gor[p].op \in Nat /\ operationSeq \in Nat
  BY DEF Ownership, OperationsIdentify, TypeOK, Goroutines
<1>1. ASSUME gor[p].pc \in {"stopSection", "stopFinish"}, opMu' = NoProc,
             Others(p), gor'[p].pc = "report", gor'[p].op = gor[p].op,
             UNCHANGED <<operationSeq, activeAttempt>>, activeOperation' = 0,
             desired' = "STOPPED", ~Running',
             (observed' = "BACKOFF") => (activeAttempt' = NoProc)
      PROVE  Ownership'
  <2>1. gor'[p].pc \notin Holding
    BY <1>1 DEF Holding, Reserved, InAttempt, Sections, InStop
  <2>2. LetsGo(p)
    BY <1>1 DEF LetsGo, Ownership, StopsExclude, Sections, InStop
  <2>3. gor'[p].op <= operationSeq' /\ desired' \in {desired, "STOPPED"}
    BY <1>0, <1>1
  <2> QED  BY <1>1, <2>1, <2>2, <2>3, OwnershipEnd
<1>2. CASE StopQuarantined(p)
  <2>1. Others(p) /\ gor'[p].pc = "report" /\ gor'[p].op = gor[p].op
    BY <1>2, ReportRows DEF StopQuarantined
  <2>2. /\ gor[p].pc = "stopSection" /\ opMu' = NoProc
        /\ UNCHANGED <<operationSeq, activeAttempt>>
        /\ activeOperation' = 0 /\ desired' = "STOPPED"
    BY <1>2 DEF StopQuarantined, At, Ownership, OperationsSettle
  <2>3. ~Running' /\ ((observed' = "BACKOFF") => (activeAttempt' = NoProc))
    BY <1>2, <2>2
    DEF StopQuarantined, transitionLocked, Ownership, OperationsSettle, Running
  <2> QED  BY <1>1, <2>1, <2>2, <2>3
<1>3. CASE StopNothing(p)
  <2>1. Others(p) /\ gor'[p].pc = "report" /\ gor'[p].op = gor[p].op
    BY <1>3, ReportRows DEF StopNothing
  <2>2. /\ gor[p].pc = "stopSection" /\ opMu' = NoProc
        /\ UNCHANGED <<operationSeq, activeAttempt>>
        /\ activeOperation' = 0 /\ desired' = "STOPPED"
        /\ observed' \in {"STOPPED", "DISABLED"}
    BY <1>3 DEF StopNothing, At, Ownership, OperationsSettle, Settled
  <2> QED  BY <1>1, <2>1, <2>2 DEF Running
<1>4. CASE StopRuntime(p)
  <2>1. /\ Keeps /\ UNCHANGED <<activeAttempt, opMu>>
        /\ gor[p].pc = "stopRuntime"
    BY <1>4 DEF StopRuntime, At, driverVars, Keeps
  <2>2. Others(p) /\ gor'[p].pc = "stopFinish" /\ gor'[p].op = gor[p].op
    BY <1>4 DEF StopRuntime, Others, TypeOK, Goroutines
  <2>3. AttemptsOwn'
    BY <2>1, <2>2 DEF Ownership, AttemptsOwn, Others, InAttempt
  <2>4. OperationsIdentify'
    BY <2>1, <2>2
    DEF Ownership, OperationsIdentify, Keeps, Others, Numbered, Reserved, InAttempt
  <2>5. ReservationsFree'
    BY <2>1, <2>2 DEF Ownership, ReservationsFree, Keeps, Others, Reserved
  <2>6. OperationsSettle'
    BY <2>1, <2>2 DEF Ownership, OperationsSettle, Keeps, Others, Reserved, Running
  <2>7. StopsExclude'
    BY <2>1, <2>2 DEF Ownership, StopsExclude, Keeps, Others, Sections, InStop
  <2> QED  BY <2>3, <2>4, <2>5, <2>6, <2>7 DEF Ownership
<1>5. CASE StopFinish(p)
  <2>1. Others(p) /\ gor'[p].pc = "report" /\ gor'[p].op = gor[p].op
    BY <1>5, ReportRows DEF StopFinish
  <2>2. /\ gor[p].pc = "stopFinish" /\ opMu' = NoProc
        /\ UNCHANGED <<operationSeq, activeAttempt>>
        /\ activeOperation' = 0 /\ desired' = "STOPPED"
        /\ observed' \in {"STOPPED", "FAILED"}
    BY <1>5
    DEF StopFinish, At, transitionLocked, Ownership, StopsExclude, InStop
  <2> QED  BY <1>1, <2>1, <2>2 DEF Running
<1>6. ASSUME Others(p), gor'[p].pc \in {"awaitTasks", "stopWait"},
             gor'[p].op \in {0, gor[p].op}, Keeps,
             UNCHANGED <<activeAttempt, opMu>>
      PROVE  Ownership'
  <2>1. gor'[p].pc \notin Holding
    BY <1>6 DEF Holding, Reserved, InAttempt, Sections, InStop
  <2>2. LetsGo(p) /\ gor'[p].op <= operationSeq
    BY <1>0, <1>6 DEF LetsGo
  <2> QED  BY <1>6, <2>1, <2>2, OwnershipQuiet
<1>7. CASE StopReturn(p) \/ ShutdownReturn(p)
  <2>1. Keeps /\ LetsGo(p) /\ UNCHANGED <<activeAttempt, opMu>>
    BY <1>7 DEF StopReturn, ShutdownReturn, Keeps, LetsGo, driverVars
  <2>2. CASE Return(p)
    BY <2>1, <2>2, OwnershipReturn
  <2>3. CASE gor' = [gor EXCEPT ![p] = [IdleGoroutine EXCEPT !.pc = "awaitTasks",
                                                             !.shutdown = TRUE]]
    <3>1. Others(p) /\ gor'[p].pc = "awaitTasks" /\ gor'[p].op = 0
      BY <2>3 DEF Others, TypeOK, IdleGoroutine
    <3> QED  BY <1>6, <2>1, <3>1
  <2> QED  BY <1>7, <2>2, <2>3 DEF StopReturn, ShutdownReturn
<1>8. CASE ShutdownCancel(p)
  <2> DEFINE moved == [gor EXCEPT ![p].pc = "stopWait"]
  <2>1. moved \in [Procs -> Goroutines]
    BY GotoType DEF TypeOK, PCs, PreReservation
  <2>2. CancelAttempt(moved) \in [Procs -> Goroutines]
    BY <2>1, CancelAttemptType DEF TypeOK
  <2>3. \A q \in Procs : /\ gor'[q].pc = moved[q].pc /\ gor'[q].op = moved[q].op
                         /\ gor'[q].gen = moved[q].gen
                         /\ gor'[q].res = moved[q].res
    <3>1. CancelRetry(CancelAttempt(moved))
      BY <1>8 DEF ShutdownCancel
    <3>2. \A q \in Procs : /\ gor'[q].pc = CancelAttempt(moved)[q].pc
                           /\ gor'[q].op = CancelAttempt(moved)[q].op
                           /\ gor'[q].gen = CancelAttempt(moved)[q].gen
                           /\ gor'[q].res = CancelAttempt(moved)[q].res
      BY <2>2, <3>1, CancelRetryRows
    <3> HIDE DEF moved
    <3> QED  BY <2>1, <3>2, CancelAttemptRows
  <2>4. Others(p) /\ gor'[p].pc = "stopWait" /\ gor'[p].op = gor[p].op
    BY <2>3 DEF Others, TypeOK, Goroutines
  <2>5. Keeps /\ UNCHANGED <<activeAttempt, opMu>>
    BY <1>8 DEF ShutdownCancel, Keeps
  <2> QED  BY <1>6, <2>4, <2>5
<1> QED
  BY <1>2, <1>3, <1>4, <1>5, <1>7, <1>8, OwnershipWithdraw DEF Stopping

LEMMA OwnershipReportFailure ==
  ASSUME TypeOK, Ownership, NEW p \in Procs, NEW g, NEW retryable \in BOOLEAN,
         ReportFailure(p, g, retryable)
  PROVE  Ownership'
<1>0. /\ gor[p].pc = "idle" /\ Running /\ activeAttempt = NoProc /\ ~quarantined
      /\ UNCHANGED <<desired, quarantined, activeAttempt, opMu>>
      /\ operationSeq' = operationSeq + 1
      /\ operationSeq \in Nat /\ \A q \in Procs : gor[q].op \in Nat
  BY DEF ReportFailure, At, acceptsCallbackLocked, Running, Ownership,
         OperationsSettle, TypeOK, Goroutines
<1>1. CASE /\ scheduleRetryLocked(p, operationSeq + 1, TRUE, Budget)
           /\ activeOperation' = operationSeq + 1
  <2>1. /\ Others(p) /\ gor'[p].op = operationSeq + 1 /\ gor'[p].pc = "wait"
        /\ observed' = "BACKOFF"
    BY <1>1 DEF scheduleRetryLocked, transitionLocked, IdleGoroutine, Others, TypeOK
  <2>2. \A q \in Procs \ {p} : gor'[q].op # activeOperation'
    BY <1>0, <1>1, <2>1 DEF Ownership, OperationsIdentify, Others
  <2>3. AttemptsOwn'
    BY <1>0, <2>1 DEF Ownership, AttemptsOwn, Others, InAttempt
  <2>4. OperationsIdentify'
    BY <1>0, <1>1, <2>1, <2>2
    DEF Ownership, OperationsIdentify, Others, Numbered, Reserved
  <2>5. ReservationsFree'
    BY <1>0 DEF ReservationsFree
  <2>6. OperationsSettle'
    BY <1>0, <2>1, <2>2 DEF OperationsSettle, Running, Settled, Reserved
  <2>7. StopsExclude'
    BY <1>0, <2>1 DEF Ownership, StopsExclude, Others, Sections, InStop
  <2> QED  BY <2>3, <2>4, <2>5, <2>6, <2>7 DEF Ownership
<1>2. CASE /\ activeOperation' = 0
           /\ transitionLocked("FAILED", {})
           /\ UNCHANGED gor
  <2>1. /\ Others(p) /\ gor'[p].pc \notin Holding /\ ~Running'
        /\ observed' # "BACKOFF" /\ LetsGo(p)
    BY <1>0, <1>2
    DEF Others, Holding, Reserved, InAttempt, Sections, InStop, Running,
        transitionLocked, LetsGo
  <2>2. gor'[p].op <= operationSeq'
    BY <1>0, <1>2 DEF Ownership, OperationsIdentify
  <2> QED  BY <1>0, <1>2, <2>1, <2>2, OwnershipEnd
<1> QED  BY <1>1, <1>2 DEF ReportFailure

LEMMA OwnershipEnvironment ==
  ASSUME TypeOK, Ownership, Environment
  PROVE  Ownership'
<1>0. ASSUME NEW p \in Procs, Others(p), gor'[p].op = gor[p].op,
             gor'[p].pc \in {"startWait", "startAsyncWait", "replaceWait",
                             "stopWait", "shutdownCancel", "invoking"},
             Keeps, UNCHANGED <<activeAttempt, opMu>>
      PROVE  Ownership'
  <2>1. gor'[p].pc \notin Holding
    BY <1>0 DEF Holding, Reserved, InAttempt, Sections, InStop
  <2>2. LetsGo(p) /\ gor'[p].op <= operationSeq
    BY <1>0 DEF LetsGo, Ownership, OperationsIdentify
  <2> QED  BY <1>0, <2>1, <2>2, OwnershipQuiet
<1>1. ASSUME NEW p \in Procs,
             NEW label \in {"startWait", "startAsyncWait", "replaceWait",
                            "stopWait"},
             Call(p, label)
      PROVE  Ownership'
  <2>1. Others(p) /\ gor'[p].pc = label /\ gor'[p].op = gor[p].op
    BY <1>1, CallRows DEF PCs, PreReservation
  <2>2. Keeps /\ UNCHANGED <<activeAttempt, opMu>>
    BY <1>1 DEF Call, Keeps
  <2> QED  BY <1>0, <2>1, <2>2
<1>2. ASSUME NEW p \in Procs, ShutdownCall(p) PROVE Ownership'
  <2>1. Others(p) /\ gor'[p].pc = "shutdownCancel" /\ gor'[p].op = gor[p].op
    BY <1>2 DEF ShutdownCall, Others, TypeOK, Goroutines
  <2>2. Keeps /\ UNCHANGED <<activeAttempt, opMu>>
    BY <1>2 DEF ShutdownCall, Keeps, driverVars
  <2> QED  BY <1>0, <2>1, <2>2
<1>3. ASSUME NEW p \in Procs, ShutdownAbandon(p) PROVE Ownership'
  <2>1. Keeps /\ LetsGo(p) /\ Return(p)
    BY <1>3 DEF ShutdownAbandon, Keeps, LetsGo, driverVars
  <2> QED  BY <2>1, OwnershipReturn
<1>4. ASSUME NEW p \in Procs, NEW c \in Capabilities, Invoke(p, c)
      PROVE  Ownership'
  <2>1. Others(p) /\ gor'[p].pc = "invoking" /\ gor'[p].op = gor[p].op
    BY <1>4, GotoRows DEF Invoke
  <2>2. Keeps /\ UNCHANGED <<activeAttempt, opMu>>
    BY <1>4 DEF Invoke, Keeps, driverVars
  <2> QED  BY <1>0, <2>1, <2>2
<1>5. ASSUME NEW p \in Procs, NEW g \in 1..MaxGenerations, NEW r \in BOOLEAN,
             ReportFailure(p, g, r)
      PROVE  Ownership'
  BY <1>5, OwnershipReportFailure
<1>6. ASSUME \/ BindHooks
             \/ \E g \in 1..MaxGenerations, caps \in SUBSET Capabilities :
                   ReportDegraded(g, caps)
      PROVE  Ownership'
  <2>1. /\ UNCHANGED <<desired, quarantined, operationSeq, activeOperation,
                       activeAttempt, opMu, gor>>
        /\ observed' = observed \/ (Running /\ observed' = "DEGRADED")
    BY <1>6 DEF BindHooks, ReportDegraded, transitionLocked, Running
  <2>2. AttemptsOwn' /\ OperationsIdentify' /\ ReservationsFree' /\ StopsExclude'
    BY <2>1
    DEF Ownership, AttemptsOwn, OperationsIdentify, ReservationsFree, StopsExclude
  <2>3. OperationsSettle'
    BY <2>1 DEF Ownership, OperationsSettle, Running, Settled
  <2> QED  BY <2>2, <2>3 DEF Ownership
<1> QED
  BY <1>1, <1>2, <1>3, <1>4, <1>5, <1>6
  DEF Environment, StartCall, StartAsyncCall, ReplaceCall, StopCall

LEMMA OwnershipInit == Init => Ownership
<1> SUFFICES ASSUME Init PROVE Ownership
  OBVIOUS
<1>1. \A p \in Procs : gor[p].pc = "idle" /\ gor[p].op = 0
  BY DEF Init, IdleGoroutine
<1> QED
  BY <1>1
  DEF Init, Ownership, AttemptsOwn, OperationsIdentify, ReservationsFree,
      OperationsSettle, StopsExclude, Running, Numbered, Reserved, InAttempt,
      Sections, InStop

LEMMA OwnershipNext == TypeOK /\ Ownership /\ [Next]_vars => Ownership'
<1> SUFFICES ASSUME TypeOK, Ownership, [Next]_vars PROVE Ownership'
  OBVIOUS
<1>1. ASSUME NEW p \in Procs, Locking(p) PROVE Ownership'
  BY <1>1, OwnershipLock
  DEF Locking, StartLock, StartAsyncLock, ReplaceLock, StopLock, Sections
<1>2. ASSUME NEW p \in Procs, Step(p) PROVE Ownership'
  <2>1. CASE StartRefuse(p) \/ ReplaceRefuse(p)
    <3>1. Keeps /\ LetsGo(p) /\ Return(p)
      BY <2>1
      DEF StartRefuse, ReplaceRefuse, At, Keeps, LetsGo, driverVars, Ownership,
          StopsExclude, Sections
    <3> QED  BY <3>1, OwnershipReturn
  <2>2. CASE InvokeReturn(p)
    <3>1. Keeps /\ LetsGo(p) /\ Return(p)
      BY <2>2 DEF InvokeReturn, Keeps, LetsGo, driverVars
    <3> QED  BY <3>1, OwnershipReturn
  <2> QED
    BY <1>2, <2>1, <2>2, OwnershipStart, OwnershipAttempt, OwnershipStopping
    DEF Step
<1>3. CASE UNCHANGED vars
  BY <1>3
  DEF vars, driverVars, Ownership, AttemptsOwn, OperationsIdentify,
      ReservationsFree, OperationsSettle, StopsExclude, Running
<1> QED
  BY <1>1, <1>2, <1>3, OwnershipRetry, OwnershipEnvironment DEF Next

(* No two constructions ever overlap, for any number of goroutines.        *)
(* Ownership is the inductive reason: a construction owns activeAttempt    *)
(* until it retires, an operation number is reserved once, and the         *)
(* reservation that still carries the active operation finds the driver    *)
(* without an attempt.                                                     *)
THEOREM SingleConstruction == Spec => []AtMostOneConstruction
<1>1. Ownership => AtMostOneConstruction
  BY DEF Ownership, AttemptsOwn, AtMostOneConstruction
<1>2. Init => TypeOK /\ Ownership
  BY TypeInit, OwnershipInit
<1>3. (TypeOK /\ Ownership) /\ [Next]_vars => (TypeOK /\ Ownership)'
  BY TypeStep, OwnershipNext
<1> QED  BY <1>1, <1>2, <1>3, PTL DEF Spec

-----------------------------------------------------------------------------
(* The native side is inductive.                                           *)

(* What a step leaves of the candidates and of the held admissions. *)
KeepsCandidates ==
    \A q \in Procs : Candidate(q)' => Candidate(q) /\ gor'[q].gen = gor[q].gen

KeepsHeld ==
    \A q \in Procs :
        /\ gor'[q].pc = "hold" => gor'[q].res = "nil"
        /\ gor'[q].pc \in Retiring => gor'[q].res \in {"retryable", "terminal"}

(* The active operation is kept, ended, or replaced by a fresh one. *)
Moves == activeOperation' \in {activeOperation, 0, operationSeq + 1}

LEMMA NoAttempts ==
  ASSUME Ownership, activeAttempt = NoProc
  PROVE  \A q \in Procs : gor[q].pc \notin InAttempt
  BY NoProcAssumption DEF Ownership, AttemptsOwn

LEMMA RowsKept ==
  ASSUME TypeOK, Ownership, Native, NEW p \in Procs, Others(p), Moves,
         gor'[p].pc \notin Admitting \cup Retiring,
         desired' \in {desired, "STOPPED"} \/ activeAttempt = NoProc
  PROVE  KeepsCandidates /\ KeepsHeld
<1>1. KeepsHeld
  BY DEF KeepsHeld, Native, HeldResults, Others, Admitting
<1>2. ASSUME NEW q \in Procs, Candidate(q)'
      PROVE  Candidate(q) /\ gor'[q].gen = gor[q].gen
  <2>1. /\ q # p /\ gor[q].pc \in Admitting /\ gor[q].res = "nil"
        /\ gor[q].op = activeOperation' /\ desired' = "RUNNING"
        /\ gor'[q].gen = gor[q].gen
    BY <1>2 DEF Candidate, Others
  <2>2. gor[q].op # 0 /\ gor[q].op # operationSeq + 1 /\ gor[q].pc \in InAttempt
    <3>1. operationSeq \in Nat /\ gor[q].op \in Nat
      BY DEF TypeOK, Goroutines
    <3> QED
      BY <2>1, <3>1
      DEF Ownership, OperationsIdentify, Numbered, Admitting, InAttempt
  <2>3. activeOperation' = activeOperation /\ desired = "RUNNING"
    BY <2>1, <2>2, NoAttempts DEF Moves
  <2> QED  BY <2>1, <2>3 DEF Candidate
<1> QED  BY <1>1, <1>2 DEF KeepsCandidates

(* A step that does not touch the native side. *)
LEMMA NativeFrame ==
  ASSUME Native, KeepsCandidates, KeepsHeld, Running' <=> Running,
         UNCHANGED <<open, minted, generation, lifecycle, lastWithdrawn>>
  PROVE  Native'
<1>1. CandidateIsFresh'
  BY DEF Native, CandidateIsFresh, KeepsCandidates
<1>2. HeldResults'
  BY DEF KeepsHeld, HeldResults
<1>3. GenerationsOrdered'
  BY DEF Native, GenerationsOrdered
<1>4. PublishedIsOpen'
  BY DEF Native, PublishedIsOpen
<1>5. LifecycleFollowsPublication'
  BY DEF Native, LifecycleFollowsPublication
<1> QED  BY <1>1, <1>2, <1>3, <1>4, <1>5 DEF Native

LEMMA NativeQuiet ==
  ASSUME TypeOK, Ownership, Native, NEW p \in Procs, Others(p), Moves,
         gor'[p].pc \notin Admitting \cup Retiring,
         desired' \in {desired, "STOPPED"} \/ activeAttempt = NoProc,
         Running' <=> Running,
         UNCHANGED <<open, minted, generation, lifecycle, lastWithdrawn>>
  PROVE  Native'
  BY RowsKept, NativeFrame

(* A step that withdraws the published generation, if there is one. *)
LEMMA NativeWithdraw ==
  ASSUME TypeOK, Ownership, Native, NEW p \in Procs, Others(p),
         gor'[p].pc \notin Admitting \cup Retiring,
         desired' = "STOPPED" \/ activeAttempt = NoProc,
         ~Running', FenceWithdrawal,
         UNCHANGED <<open, minted, generation>>
  PROVE  Native'
<1>0. /\ generation \in Nat /\ minted \in Nat /\ lastWithdrawn \in Nat
      /\ lifecycle \in Nat
  BY GenerationsAssumption DEF TypeOK, RuntimeTypeOK
<1>1. CandidateIsFresh'
  <2>1. \A q \in Procs : ~Candidate(q)'
    BY NoAttempts DEF Candidate, Others, Admitting, InAttempt
  <2> QED  BY <2>1 DEF CandidateIsFresh
<1>2. HeldResults'
  BY DEF Native, HeldResults, Others, Admitting
<1>3. lifecycle' = 0
  BY <1>0 DEF FenceWithdrawal, Native, GenerationsOrdered
<1>4. GenerationsOrdered'
  <2>1. lifecycle # 0 => lifecycle <= minted
    BY DEF Native, LifecycleFollowsPublication, GenerationsOrdered
  <2> QED
    BY <1>0, <1>3, <2>1 DEF FenceWithdrawal, Native, GenerationsOrdered
<1>5. PublishedIsOpen' /\ LifecycleFollowsPublication'
  BY <1>3 DEF PublishedIsOpen, LifecycleFollowsPublication
<1> QED  BY <1>1, <1>2, <1>4, <1>5 DEF Native

(* A close by the runtime, under a driver that publishes nothing. *)
LEMMA NativeClose ==
  ASSUME TypeOK, Native, NEW e, RuntimeStop(e), ~Running, ~Running',
         generation' = generation, KeepsHeld,
         \A q \in Procs : ~Candidate(q)'
  PROVE  Native'
<1>1. lifecycle = 0
  BY DEF Native, LifecycleFollowsPublication
<1>2. UNCHANGED <<minted, lifecycle, lastWithdrawn>>
  BY <1>1 DEF RuntimeStop, FenceWithdrawal
<1>3. GenerationsOrdered'
  BY <1>2 DEF Native, GenerationsOrdered
<1> QED
  BY <1>1, <1>2, <1>3
  DEF Native, CandidateIsFresh, HeldResults, KeepsHeld, PublishedIsOpen,
      LifecycleFollowsPublication

(* Nothing is published while a construction or a stop is in progress. *)
LEMMA NothingPublished ==
  ASSUME Ownership, NEW p \in Procs, gor[p].pc \in InAttempt \cup InStop
  PROVE  ~Running
  BY NoProcAssumption
  DEF Ownership, AttemptsOwn, OperationsSettle, StopsExclude

LEMMA NativeConstruct ==
  ASSUME TypeOK, Ownership, Native, NEW p \in Procs, ConstructReturn(p)
  PROVE  Native'
<1>0. /\ generation \in Nat /\ minted \in Nat /\ lastWithdrawn \in Nat
      /\ UNCHANGED <<desired, observed, generation, activeOperation>>
  BY GenerationsAssumption
  DEF TypeOK, RuntimeTypeOK, ConstructReturn, driverVars
<1>1. gor[p].pc \in InAttempt /\ ~Running /\ ~Running'
  BY <1>0, NothingPublished DEF ConstructReturn, At, InAttempt, Running
<1>2. lifecycle = 0
  BY <1>1 DEF Native, LifecycleFollowsPublication
<1>3. PICK g \in 0..MaxGenerations, e \in ConstructErrors :
          /\ RuntimeReplace(g, e) \/ RuntimeStart(g, e)
          /\ gor' = [gor EXCEPT ![p].pc = "returned", ![p].gen = g,
                                ![p].res = e]
  BY DEF ConstructReturn
<1>4. /\ Others(p) /\ gor'[p].pc = "returned" /\ gor'[p].gen = g
      /\ gor'[p].res = e
  BY <1>3 DEF Others, TypeOK, Goroutines
<1>5. UNCHANGED <<lifecycle, lastWithdrawn>>
  BY <1>2, <1>3 DEF RuntimeReplace, RuntimeStart, FenceWithdrawal
<1>6. \A q \in Procs : Candidate(q)' => q = p
  BY <1>1, <1>4
  DEF Candidate, Others, Admitting, InAttempt, Ownership, AttemptsOwn
<1>7. minted' = minted \/ minted' = minted + 1
  BY <1>3 DEF RuntimeReplace, RuntimeStart, Admitted, FailedConstruction
<1>8. CandidateIsFresh'
  <2>1. CASE e = "nil"
    <3>1. open' = g /\ minted' = g /\ g = minted + 1
      BY <1>3, <2>1 DEF RuntimeReplace, RuntimeStart, Admitted
    <3>2. g > generation /\ g > lastWithdrawn
      BY <1>0, <3>1 DEF Native, GenerationsOrdered
    <3> QED  BY <1>0, <1>4, <1>5, <1>6, <3>1, <3>2 DEF CandidateIsFresh
  <2>2. CASE e # "nil"
    BY <1>4, <1>6, <2>2 DEF CandidateIsFresh, Candidate
  <2> QED  BY <2>1, <2>2
<1>9. HeldResults'
  BY <1>4 DEF Native, HeldResults, Others, Retiring
<1>10. GenerationsOrdered'
  BY <1>0, <1>2, <1>5, <1>7 DEF Native, GenerationsOrdered
<1>11. PublishedIsOpen' /\ LifecycleFollowsPublication'
  BY <1>1, <1>2, <1>5 DEF PublishedIsOpen, LifecycleFollowsPublication
<1> QED  BY <1>8, <1>9, <1>10, <1>11 DEF Native

LEMMA NativeCheck ==
  ASSUME TypeOK, Ownership, Native, NEW p \in Procs,
         AttemptCheck(p) \/ HoldReturn(p)
  PROVE  Native'
<1>1. /\ UNCHANGED <<desired, activeOperation>>
      /\ Running' <=> Running
      /\ UNCHANGED <<open, minted, generation, lifecycle, lastWithdrawn>>
  BY DEF AttemptCheck, HoldReturn, driverVars, runtimeVars, Running
<1>2. CASE AttemptCheck(p)
  <2>1. /\ Others(p) /\ gor'[p].op = gor[p].op /\ gor'[p].gen = gor[p].gen
        /\ gor'[p].res = gor[p].res /\ gor[p].pc = "returned"
        /\ gor'[p].pc \in {"retireStale", "hold", "finish"}
        /\ gor'[p].pc = "hold" => gor[p].res = "nil"
    BY <1>2 DEF AttemptCheck, At, Goto, Others, TypeOK, Goroutines
  <2>2. KeepsCandidates
    BY <1>1, <2>1 DEF KeepsCandidates, Candidate, Others, Admitting
  <2>3. KeepsHeld
    BY <2>1 DEF KeepsHeld, Native, HeldResults, Others, Retiring
  <2> QED  BY <1>1, <2>2, <2>3, NativeFrame
<1>3. CASE HoldReturn(p)
  <2>1. /\ Others(p) /\ gor'[p].op = gor[p].op /\ gor'[p].gen = gor[p].gen
        /\ gor[p].pc = "hold"
        /\ gor'[p].pc \in {"retireStale", "retireHeld", "finish"}
        /\ gor'[p].pc = "retireHeld" => gor'[p].res \in {"retryable", "terminal"}
    BY <1>3 DEF HoldReturn, At, Others, TypeOK, Goroutines
  <2>2. gor[p].res = "nil"
    BY <2>1 DEF Native, HeldResults
  <2>3. KeepsCandidates
    BY <1>1, <2>1, <2>2 DEF KeepsCandidates, Candidate, Others, Admitting
  <2>4. KeepsHeld
    BY <2>1 DEF KeepsHeld, Native, HeldResults, Others, Retiring
  <2> QED  BY <1>1, <2>3, <2>4, NativeFrame
<1> QED  BY <1>2, <1>3

(* The retirements of an attempt and the close of a stop. *)
LEMMA NativeRetire ==
  ASSUME TypeOK, Ownership, Native, NEW p \in Procs,
         RetireStale(p) \/ RetireHeld(p) \/ StopRuntime(p)
  PROVE  Native'
<1>0. UNCHANGED <<desired, observed, generation, activeOperation>>
  BY DEF RetireStale, RetireHeld, StopRuntime, driverVars
<1>1. PICK e : RuntimeStop(e)
  BY DEF RetireStale, RetireHeld, StopRuntime
<1>2. gor[p].pc \in {"retireStale", "retireHeld", "stopRuntime"}
  BY DEF RetireStale, RetireHeld, StopRuntime, At
<1>3. ~Running /\ ~Running'
  BY <1>0, <1>2, NothingPublished DEF InAttempt, InStop, Running
<1>4. /\ Others(p) /\ gor'[p].pc \in {"staleRetired", "heldRetired", "stopFinish"}
      /\ gor'[p].pc = "heldRetired"
           => gor'[p].res = gor[p].res /\ gor[p].pc = "retireHeld"
  <2>1. CASE RetireStale(p)
    BY <2>1 DEF RetireStale, Others, TypeOK, Goroutines
  <2>2. CASE RetireHeld(p)
    BY <2>2 DEF RetireHeld, At, Others, TypeOK, Goroutines
  <2>3. CASE StopRuntime(p)
    BY <2>3 DEF StopRuntime, Others, TypeOK, Goroutines
  <2> QED  BY <2>1, <2>2, <2>3
<1>5. KeepsHeld
  BY <1>4 DEF KeepsHeld, Native, HeldResults, Others, Retiring
<1>6. \A q \in Procs : ~Candidate(q)'
  <2>1. \A q \in Procs : Candidate(q)' => /\ q # p /\ gor[q].pc \in InAttempt
                                         /\ desired = "RUNNING"
    BY <1>0, <1>4 DEF Candidate, Others, Admitting, InAttempt
  <2> QED
    BY <1>2, <2>1
    DEF Ownership, AttemptsOwn, StopsExclude, InAttempt, InStop
<1> QED  BY <1>0, <1>1, <1>3, <1>5, <1>6, NativeClose

(* A goroutine that returns without publishing. *)
LEMMA NativeReturn ==
  ASSUME TypeOK, Ownership, Native, NEW p \in Procs, Return(p), Moves,
         desired' = desired, Running' <=> Running,
         UNCHANGED <<open, minted, generation, lifecycle, lastWithdrawn>>
  PROVE  Native'
<1>1. Others(p) /\ gor'[p].pc = "idle"
  BY ReturnRows
<1>2. /\ gor'[p].pc \notin Admitting \cup Retiring
      /\ desired' \in {desired, "STOPPED"}
  BY <1>1 DEF Admitting, Retiring
<1> QED  BY <1>1, <1>2, NativeQuiet

LEMMA NativePublish ==
  ASSUME TypeOK, Ownership, Native, NEW p \in Procs, Candidate(p),
         Publish(p, gor[p].gen), UNCHANGED <<open, minted, desired>>
  PROVE  Native'
<1> DEFINE g == gor[p].gen
<1>0. /\ generation \in Nat /\ minted \in Nat /\ lastWithdrawn \in Nat
      /\ g \in Nat
  BY GenerationsAssumption DEF TypeOK, RuntimeTypeOK, Goroutines
<1>1. open = g /\ minted = g /\ g > generation /\ g > lastWithdrawn
  BY DEF Native, CandidateIsFresh
<1>2. /\ generation' = g /\ lifecycle' = g /\ lastWithdrawn' = lastWithdrawn
      /\ observed' = "RUNNING" /\ activeOperation' = 0
  BY <1>1 DEF Publish, ActivateCorrelation, transitionLocked
<1>3. Others(p) /\ gor'[p].pc = "idle"
  BY ReturnRows DEF Publish
<1>4. CandidateIsFresh'
  <2>1. \A q \in Procs : ~Candidate(q)'
    BY <1>2, <1>3
    DEF Candidate, Others, Admitting, InAttempt, Ownership, OperationsIdentify,
        Numbered
  <2> QED  BY <2>1 DEF CandidateIsFresh
<1>5. HeldResults'
  BY <1>3 DEF Native, HeldResults, Others, Retiring
<1> HIDE DEF g
<1>6. GenerationsOrdered'
  BY <1>0, <1>1, <1>2 DEF GenerationsOrdered
<1>7. PublishedIsOpen' /\ LifecycleFollowsPublication'
  BY <1>0, <1>1, <1>2 DEF PublishedIsOpen, LifecycleFollowsPublication, Running
<1> QED  BY <1>4, <1>5, <1>6, <1>7 DEF Native

LEMMA NativeFinish ==
  ASSUME TypeOK, Ownership, Native, NEW p \in Procs, gor[p].pc \in InAttempt,
         NEW g, NEW err, NEW replace, finishAttempt(p, g, err, replace),
         err = "nil" => /\ g = gor[p].gen /\ gor[p].pc = "finish"
                        /\ gor[p].res = "nil"
  PROVE  Native'
<1>1. ~Running
  BY NothingPublished
<1>2. UNCHANGED <<desired, operationSeq, open, minted>>
  BY DEF finishAttempt
<1>3. CASE /\ Superseded(p) /\ Return(p)
           /\ UNCHANGED <<observed, generation, activeOperation, lifecycle,
                          lastWithdrawn>>
  <2>1. Moves /\ (Running' <=> Running)
    BY <1>3 DEF Moves, Running
  <2> QED  BY <1>2, <1>3, <2>1, NativeReturn
<1>4. CASE ~Superseded(p) /\ err = "nil" /\ Publish(p, g)
  <2>1. Candidate(p) /\ g = gor[p].gen
    BY <1>4 DEF Candidate, Superseded, Admitting
  <2> QED  BY <1>2, <1>4, <2>1, NativePublish
<1>5. CASE /\ quarantineLocked /\ Return(p)
           /\ UNCHANGED <<generation, lifecycle, lastWithdrawn>>
  <2>1. Moves /\ (Running' <=> Running)
    BY <1>1, <1>5 DEF Moves, quarantineLocked, transitionLocked, Running
  <2> QED  BY <1>2, <1>5, <2>1, NativeReturn
<1>6. CASE ~Superseded(p) /\ FailAttempt(p, err, replace)
  <2>0. UNCHANGED <<generation, lifecycle, lastWithdrawn>>
    BY <1>6 DEF FailAttempt
  <2>1. CASE /\ scheduleRetryLocked(p, gor[p].op, replace, retryRemaining)
             /\ UNCHANGED activeOperation
    <3>1. Others(p) /\ gor'[p].pc = "wait" /\ Moves /\ (Running' <=> Running)
      BY <1>1, <2>1
      DEF scheduleRetryLocked, transitionLocked, IdleGoroutine, Others, TypeOK,
          Moves, Running
    <3>2. /\ gor'[p].pc \notin Admitting \cup Retiring
          /\ desired' \in {desired, "STOPPED"}
      BY <1>2, <3>1 DEF Admitting, Retiring
    <3> QED  BY <1>2, <2>0, <3>1, <3>2, NativeQuiet
  <2>2. CASE activeOperation' = 0 /\ transitionLocked("FAILED", {}) /\ Return(p)
    <3>1. Moves /\ (Running' <=> Running)
      BY <1>1, <2>2 DEF Moves, transitionLocked, Running
    <3> QED  BY <1>2, <2>0, <2>2, <3>1, NativeReturn
  <2> QED  BY <1>6, <2>1, <2>2 DEF FailAttempt
<1> QED  BY <1>3, <1>4, <1>5, <1>6 DEF finishAttempt

LEMMA NativeAttempt ==
  ASSUME TypeOK, Ownership, Native, NEW p \in Procs, Attempt(p)
  PROVE  Native'
<1>1. CASE StartAsyncSpawn(p) \/ AttemptInstall(p)
  <2>1. /\ UNCHANGED <<desired, observed, activeOperation>>
        /\ UNCHANGED <<open, minted, generation, lifecycle, lastWithdrawn>>
    BY <1>1 DEF StartAsyncSpawn, AttemptInstall, driverVars, runtimeVars
  <2>2. Others(p) /\ gor'[p].pc \in {"idle", "reserved", "construct"}
    <3>1. CASE Return(p)
      BY <3>1, ReturnRows
    <3>2. CASE gor' = [gor EXCEPT ![p].pc = "reserved", ![p].task = TRUE]
      BY <3>2 DEF Others, TypeOK, Goroutines
    <3>3. CASE Goto(p, "construct")
      BY <3>3, GotoRows
    <3> QED  BY <1>1, <3>1, <3>2, <3>3 DEF StartAsyncSpawn, AttemptInstall
  <2>3. /\ gor'[p].pc \notin Admitting \cup Retiring
        /\ desired' \in {desired, "STOPPED"}
        /\ Moves /\ (Running' <=> Running)
    BY <2>1, <2>2 DEF Admitting, Retiring, Moves, Running
  <2> QED  BY <2>1, <2>2, <2>3, NativeQuiet
<1>2. CASE FinishAttempt(p)
  <2>1. /\ finishAttempt(p, gor[p].gen, gor[p].res, gor[p].replace)
        /\ gor[p].pc = "finish" /\ gor[p].pc \in InAttempt
    BY <1>2 DEF FinishAttempt, At, InAttempt
  <2> QED  BY <2>1, NativeFinish
<1>3. CASE StaleRetired(p)
  <2>1. /\ Others(p) /\ gor'[p].pc = "exit" /\ gor[p].pc \in InAttempt
        /\ UNCHANGED <<desired, open, minted, generation, lifecycle, lastWithdrawn>>
    BY <1>3, GotoRows DEF StaleRetired, At, InAttempt, runtimeVars
  <2>2. ~Running
    BY <2>1, NothingPublished
  <2>3. Moves /\ (Running' <=> Running)
    BY <1>3, <2>2
    DEF StaleRetired, quarantineLocked, transitionLocked, Moves, Running
  <2>4. /\ gor'[p].pc \notin Admitting \cup Retiring
        /\ desired' \in {desired, "STOPPED"}
    BY <2>1 DEF Admitting, Retiring
  <2> QED  BY <2>1, <2>3, <2>4, NativeQuiet
<1>4. CASE HeldRetired(p)
  <2>1. /\ gor[p].pc \in InAttempt /\ gor[p].res # "nil"
    BY <1>4 DEF HeldRetired, At, InAttempt, Native, HeldResults, Retiring
  <2>2. CASE finishAttempt(p, 0, gor[p].res, FALSE)
    BY <2>1, <2>2, NativeFinish
  <2>3. CASE /\ quarantineLocked /\ Return(p)
             /\ UNCHANGED <<desired, generation, runtimeVars>>
    <3>1. ~Running
      BY <2>1, NothingPublished
    <3>2. /\ Moves /\ (Running' <=> Running) /\ desired' = desired
          /\ UNCHANGED <<open, minted, generation, lifecycle, lastWithdrawn>>
      BY <2>3, <3>1
      DEF quarantineLocked, transitionLocked, Moves, Running, runtimeVars
    <3> QED  BY <2>3, <3>2, NativeReturn
  <2> QED  BY <1>4, <2>2, <2>3 DEF HeldRetired
<1>5. CASE AttemptExit(p)
  <2>1. /\ Return(p) /\ Moves /\ (Running' <=> Running) /\ desired' = desired
        /\ UNCHANGED <<open, minted, generation, lifecycle, lastWithdrawn>>
    BY <1>5 DEF AttemptExit, Moves, Running, runtimeVars
  <2> QED  BY <2>1, NativeReturn
<1> QED
  BY <1>1, <1>2, <1>3, <1>4, <1>5, NativeConstruct, NativeCheck, NativeRetire
  DEF Attempt

LEMMA NativeReserve ==
  ASSUME TypeOK, Ownership, Native, NEW p \in Procs,
         StartReserve(p) \/ ReplaceReserve(p)
  PROVE  Native'
<1>1. /\ Others(p) /\ gor'[p].pc \notin Admitting \cup Retiring
      /\ activeAttempt = NoProc
  BY DEF StartReserve, ReplaceReserve, StartRefused, ReplaceRefused, Others,
         TypeOK, Goroutines, Admitting, Retiring
<1>2. CASE StartReserve(p)
  <2>1. ~Running /\ ~Running'
    BY <1>2
    DEF StartReserve, StartRefused, transitionLocked, Ownership,
        OperationsSettle, Running
  <2>2. /\ UNCHANGED <<open, minted, generation, lifecycle, lastWithdrawn>>
        /\ Moves
    BY <1>2 DEF StartReserve, runtimeVars, nextOperationLocked, Moves
  <2> QED  BY <1>1, <2>1, <2>2, NativeQuiet
<1>3. CASE ReplaceReserve(p)
  <2>1. /\ ~Running' /\ FenceWithdrawal
        /\ UNCHANGED <<open, minted, generation>>
    BY <1>3 DEF ReplaceReserve, transitionLocked, Running
  <2> QED  BY <1>1, <2>1, NativeWithdraw
<1> QED  BY <1>2, <1>3

LEMMA NativeStopping ==
  ASSUME TypeOK, Ownership, Native, NEW p \in Procs, Stopping(p)
  PROVE  Native'
<1>1. ASSUME Others(p), gor'[p].pc \in {"report", "stopWait", "awaitTasks", "idle"},
             Moves, desired' \in {desired, "STOPPED"}, Running' <=> Running,
             UNCHANGED <<open, minted, generation, lifecycle, lastWithdrawn>>
      PROVE  Native'
  <2>1. gor'[p].pc \notin Admitting \cup Retiring
    BY <1>1 DEF Admitting, Retiring
  <2> QED  BY <1>1, <2>1, NativeQuiet
<1>2. CASE StopQuarantined(p) \/ StopNothing(p) \/ StopFinish(p)
  <2>1. Others(p) /\ gor'[p].pc = "report"
    BY <1>2, ReportRows DEF StopQuarantined, StopNothing, StopFinish
  <2>2. /\ UNCHANGED <<open, minted, generation, lifecycle, lastWithdrawn>>
        /\ Moves /\ desired' \in {desired, "STOPPED"}
    BY <1>2 DEF StopQuarantined, StopNothing, StopFinish, runtimeVars, Moves
  <2>3. Running' <=> Running
    <3>1. CASE StopQuarantined(p)
      BY <3>1
      DEF StopQuarantined, transitionLocked, Ownership, OperationsSettle, Running
    <3>2. CASE StopNothing(p)
      BY <3>2 DEF StopNothing, Running
    <3>3. CASE StopFinish(p)
      <4>1. ~Running
        BY <3>3, NothingPublished DEF StopFinish, At, InStop
      <4> QED  BY <3>3, <4>1 DEF StopFinish, transitionLocked, Running
    <3> QED  BY <1>2, <3>1, <3>2, <3>3
  <2> QED  BY <1>1, <2>1, <2>2, <2>3
<1>3. CASE StopWithdraw(p)
  <2>1. /\ desired' = "STOPPED" /\ ~Running' /\ FenceWithdrawal
        /\ UNCHANGED <<open, minted, generation>>
    BY <1>3 DEF StopWithdraw, transitionLocked, Running
  <2>2. CancelAttempt(gor) \in [Procs -> Goroutines]
    BY CancelAttemptType DEF TypeOK
  <2>3. \A q \in Procs : /\ CancelAttempt(gor)[q].pc = gor[q].pc
                         /\ CancelAttempt(gor)[q].op = gor[q].op
                         /\ CancelAttempt(gor)[q].gen = gor[q].gen
                         /\ CancelAttempt(gor)[q].res = gor[q].res
    BY CancelAttemptRows DEF TypeOK
  <2>4. Others(p) /\ gor'[p].pc = "stopRuntime"
    BY <1>3, <2>2, <2>3 DEF StopWithdraw, Others, TypeOK, Goroutines
  <2>5. gor'[p].pc \notin Admitting \cup Retiring
    BY <2>4 DEF Admitting, Retiring
  <2> QED  BY <2>1, <2>4, <2>5, NativeWithdraw
<1>4. CASE StopReturn(p) \/ ShutdownReturn(p)
  <2>1. /\ UNCHANGED <<open, minted, generation, lifecycle, lastWithdrawn>>
        /\ Moves /\ desired' \in {desired, "STOPPED"} /\ (Running' <=> Running)
    BY <1>4
    DEF StopReturn, ShutdownReturn, driverVars, runtimeVars, Moves, Running
  <2>2. Others(p) /\ gor'[p].pc \in {"awaitTasks", "idle"}
    BY <1>4, ReturnRows
    DEF StopReturn, ShutdownReturn, Others, TypeOK, IdleGoroutine
  <2> QED  BY <1>1, <2>1, <2>2
<1>5. CASE ShutdownCancel(p)
  <2> DEFINE moved == [gor EXCEPT ![p].pc = "stopWait"]
  <2>1. moved \in [Procs -> Goroutines]
    BY GotoType DEF TypeOK, PCs, PreReservation
  <2>2. CancelAttempt(moved) \in [Procs -> Goroutines]
    BY <2>1, CancelAttemptType DEF TypeOK
  <2>3. \A q \in Procs : /\ gor'[q].pc = moved[q].pc /\ gor'[q].op = moved[q].op
                         /\ gor'[q].gen = moved[q].gen
                         /\ gor'[q].res = moved[q].res
    <3>1. CancelRetry(CancelAttempt(moved))
      BY <1>5 DEF ShutdownCancel
    <3>2. \A q \in Procs : /\ gor'[q].pc = CancelAttempt(moved)[q].pc
                           /\ gor'[q].op = CancelAttempt(moved)[q].op
                           /\ gor'[q].gen = CancelAttempt(moved)[q].gen
                           /\ gor'[q].res = CancelAttempt(moved)[q].res
      BY <2>2, <3>1, CancelRetryRows
    <3> HIDE DEF moved
    <3> QED  BY <2>1, <3>2, CancelAttemptRows
  <2>4. Others(p) /\ gor'[p].pc = "stopWait"
    BY <2>3 DEF Others, TypeOK, Goroutines
  <2>5. /\ UNCHANGED <<open, minted, generation, lifecycle, lastWithdrawn>>
        /\ Moves /\ desired' \in {desired, "STOPPED"} /\ (Running' <=> Running)
    BY <1>5 DEF ShutdownCancel, runtimeVars, Moves, Running
  <2> QED  BY <1>1, <2>4, <2>5
<1> QED  BY <1>2, <1>3, <1>4, <1>5, NativeRetire DEF Stopping

LEMMA NativeEnvironment ==
  ASSUME TypeOK, Ownership, Native, Environment
  PROVE  Native'
<1>0. ASSUME NEW p \in Procs, Others(p),
             gor'[p].pc \in PreReservation \cup {"invoking", "idle"},
             UNCHANGED <<desired, observed, activeOperation>>,
             UNCHANGED <<open, minted, generation, lifecycle, lastWithdrawn>>
      PROVE  Native'
  <2>1. /\ gor'[p].pc \notin Admitting \cup Retiring
        /\ Moves /\ desired' \in {desired, "STOPPED"} /\ (Running' <=> Running)
    BY <1>0 DEF PreReservation, Admitting, Retiring, Moves, Running
  <2> QED  BY <1>0, <2>1, NativeQuiet
<1>1. ASSUME NEW p \in Procs,
             NEW label \in {"startWait", "startAsyncWait", "replaceWait",
                            "stopWait"},
             Call(p, label)
      PROVE  Native'
  <2>1. Others(p) /\ gor'[p].pc = label
    BY <1>1, CallRows DEF PCs, PreReservation
  <2>2. /\ UNCHANGED <<desired, observed, activeOperation>>
        /\ UNCHANGED <<open, minted, generation, lifecycle, lastWithdrawn>>
        /\ label \in PreReservation
    BY <1>1 DEF Call, runtimeVars, PreReservation
  <2> QED  BY <1>0, <2>1, <2>2
<1>2. ASSUME NEW p \in Procs, ShutdownCall(p) \/ ShutdownAbandon(p) PROVE Native'
  <2>1. Others(p) /\ gor'[p].pc \in {"shutdownCancel", "idle"}
    BY <1>2, ReturnRows DEF ShutdownCall, ShutdownAbandon, Others, TypeOK, Goroutines
  <2>2. /\ UNCHANGED <<desired, observed, activeOperation>>
        /\ UNCHANGED <<open, minted, generation, lifecycle, lastWithdrawn>>
    BY <1>2 DEF ShutdownCall, ShutdownAbandon, driverVars, runtimeVars
  <2> QED  BY <1>0, <2>1, <2>2 DEF PreReservation
<1>3. ASSUME NEW p \in Procs, NEW c \in Capabilities, Invoke(p, c)
      PROVE  Native'
  <2>1. Others(p) /\ gor'[p].pc = "invoking"
    BY <1>3, GotoRows DEF Invoke
  <2>2. /\ UNCHANGED <<desired, observed, activeOperation>>
        /\ UNCHANGED <<open, minted, generation, lifecycle, lastWithdrawn>>
    BY <1>3 DEF Invoke, Admit, driverVars
  <2> QED  BY <1>0, <2>1, <2>2
<1>4. ASSUME NEW p \in Procs, NEW g \in 1..MaxGenerations, NEW r \in BOOLEAN,
             ReportFailure(p, g, r)
      PROVE  Native'
  <2>1. /\ gor[p].pc = "idle" /\ activeAttempt = NoProc /\ FenceWithdrawal
        /\ UNCHANGED <<open, minted, generation>>
    BY <1>4 DEF ReportFailure, At, Running, Ownership, OperationsSettle
  <2>2. Others(p) /\ gor'[p].pc \in {"idle", "wait"} /\ ~Running'
    BY <1>4, <2>1
    DEF ReportFailure, scheduleRetryLocked, transitionLocked, IdleGoroutine,
        Others, TypeOK, Running
  <2>3. gor'[p].pc \notin Admitting \cup Retiring
    BY <2>2 DEF Admitting, Retiring
  <2> QED  BY <2>1, <2>2, <2>3, NativeWithdraw
<1>5. ASSUME \/ BindHooks
             \/ \E g \in 1..MaxGenerations, caps \in SUBSET Capabilities :
                   ReportDegraded(g, caps)
      PROVE  Native'
  <2>1. /\ UNCHANGED <<desired, activeOperation, gor>>
        /\ UNCHANGED <<open, minted, generation, lifecycle, lastWithdrawn>>
        /\ Running' <=> Running
    BY <1>5 DEF BindHooks, ReportDegraded, transitionLocked, runtimeVars, Running
  <2>2. KeepsCandidates /\ KeepsHeld
    BY <2>1 DEF KeepsCandidates, KeepsHeld, Candidate, Native, HeldResults
  <2> QED  BY <2>1, <2>2, NativeFrame
<1> QED
  BY <1>1, <1>2, <1>3, <1>4, <1>5
  DEF Environment, StartCall, StartAsyncCall, ReplaceCall, StopCall

LEMMA NativeInit == Init => Native
<1> SUFFICES ASSUME Init PROVE Native
  OBVIOUS
<1>1. \A p \in Procs : gor[p].pc = "idle"
  BY DEF Init, IdleGoroutine
<1>2. ~Running /\ generation = 0 /\ minted = 0 /\ lifecycle = 0 /\ lastWithdrawn = 0
  BY DEF Init, RuntimeInit, Running
<1>3. CandidateIsFresh /\ HeldResults
  BY <1>1 DEF CandidateIsFresh, Candidate, Admitting, HeldResults, Retiring
<1> QED
  BY <1>2, <1>3
  DEF Native, GenerationsOrdered, PublishedIsOpen, LifecycleFollowsPublication

LEMMA NativeNext == TypeOK /\ Ownership /\ Native /\ [Next]_vars => Native'
<1> SUFFICES ASSUME TypeOK, Ownership, Native, [Next]_vars PROVE Native'
  OBVIOUS
<1>0. ASSUME NEW p \in Procs, NEW waiting, NEW section \in Sections,
             Lock(p, waiting, section)
      PROVE  Native'
  <2>1. Others(p) /\ gor'[p].pc = section
    BY <1>0, LockRows DEF Sections, PCs, PreReservation
  <2>2. /\ UNCHANGED <<desired, observed, activeOperation>>
        /\ UNCHANGED <<open, minted, generation, lifecycle, lastWithdrawn>>
    BY <1>0 DEF Lock, runtimeVars
  <2>3. /\ gor'[p].pc \notin Admitting \cup Retiring
        /\ Moves /\ desired' \in {desired, "STOPPED"} /\ (Running' <=> Running)
    BY <2>1, <2>2 DEF Sections, Admitting, Retiring, Moves, Running
  <2> QED  BY <2>1, <2>2, <2>3, NativeQuiet
<1>1. ASSUME NEW p \in Procs, Locking(p) PROVE Native'
  BY <1>0, <1>1
  DEF Locking, StartLock, StartAsyncLock, ReplaceLock, StopLock, Sections
<1>2. ASSUME NEW p \in Procs, Step(p) PROVE Native'
  <2>1. CASE StartRefuse(p) \/ ReplaceRefuse(p) \/ InvokeReturn(p)
    <3>1. /\ Return(p) /\ Moves /\ desired' = desired /\ (Running' <=> Running)
          /\ UNCHANGED <<open, minted, generation, lifecycle, lastWithdrawn>>
      BY <2>1
      DEF StartRefuse, ReplaceRefuse, InvokeReturn, Release, driverVars,
          runtimeVars, Moves, Running
    <3> QED  BY <3>1, NativeReturn
  <2> QED
    BY <1>2, <2>1, NativeReserve, NativeAttempt, NativeStopping DEF Step
<1>3. ASSUME NEW p \in Procs, Retry(p) PROVE Native'
  <2>1. CASE RetryGiveUp(p)
    <3>1. /\ Return(p) /\ Moves /\ desired' = desired /\ (Running' <=> Running)
          /\ UNCHANGED <<open, minted, generation, lifecycle, lastWithdrawn>>
      BY <2>1 DEF RetryGiveUp, driverVars, runtimeVars, Moves, Running
    <3> QED  BY <3>1, NativeReturn
  <2>2. CASE RetryFire(p)
    <3>1. /\ Others(p) /\ gor'[p].pc \notin Admitting \cup Retiring
      BY <2>2 DEF RetryFire, Others, TypeOK, Goroutines, Admitting, Retiring
    <3>2. /\ Moves /\ desired' \in {desired, "STOPPED"} /\ (Running' <=> Running)
          /\ UNCHANGED <<open, minted, generation, lifecycle, lastWithdrawn>>
      BY <2>2
      DEF RetryFire, RetryCurrent, transitionLocked, runtimeVars, Moves, Running
    <3> QED  BY <3>1, <3>2, NativeQuiet
  <2> QED  BY <1>3, <2>1, <2>2 DEF Retry
<1>4. CASE UNCHANGED vars
  <2>1. /\ UNCHANGED <<desired, activeOperation, gor>>
        /\ UNCHANGED <<open, minted, generation, lifecycle, lastWithdrawn>>
        /\ Running' <=> Running
    BY <1>4 DEF vars, driverVars, runtimeVars, Running
  <2>2. KeepsCandidates /\ KeepsHeld
    BY <2>1 DEF KeepsCandidates, KeepsHeld, Candidate, Native, HeldResults
  <2> QED  BY <2>1, <2>2, NativeFrame
<1> QED
  BY <1>1, <1>2, <1>3, <1>4, NativeEnvironment DEF Next

(* The inductive invariant holds of every behaviour. *)
THEOREM Inductive == Spec => []IndInv
<1>1. Init => IndInv
  BY TypeInit, OwnershipInit, NativeInit DEF IndInv
<1>2. IndInv /\ [Next]_vars => IndInv'
  BY TypeStep, OwnershipNext, NativeNext DEF IndInv
<1> QED  BY <1>1, <1>2, PTL DEF Spec

(* A published generation is held open by the runtime, whatever stops,     *)
(* late retirements and replacements are in progress.                      *)
THEOREM PublishedOpen == Spec => []PublishedIsOpen
<1>1. IndInv => PublishedIsOpen
  BY DEF IndInv, Native
<1> QED  BY <1>1, Inductive, PTL

(* The process-local observers hold exactly the published generation.      *)
THEOREM LifecycleFollows == Spec => []LifecycleFollowsPublication
<1>1. IndInv => LifecycleFollowsPublication
  BY DEF IndInv, Native
<1> QED  BY <1>1, Inductive, PTL

-----------------------------------------------------------------------------
(* Quarantine, and the refinement of AdmissionContract.                    *)

(* What a step does to publication and quarantine. *)
Effect ==
    \/ /\ UNCHANGED <<generation, quarantined>>
       /\ (Running' <=> Running) \/ ~Running'
    \/ generation' = generation /\ quarantined' = TRUE /\ ~Running /\ ~Running'
    \/ /\ ~Running /\ Running'
       /\ ~quarantined /\ quarantined' = FALSE
       /\ generation' \in Nat /\ generation' > generation
       /\ \E q \in Procs : gor[q].pc \in InAttempt /\ ~Superseded(q)

LEMMA EffectFinish ==
  ASSUME TypeOK, Ownership, Native, NEW p \in Procs, gor[p].pc \in InAttempt,
         NEW g, NEW err, NEW replace, finishAttempt(p, g, err, replace),
         err = "nil" => /\ g = gor[p].gen /\ gor[p].pc = "finish"
                        /\ gor[p].res = "nil"
  PROVE  Effect
<1>1. ~Running
  BY NothingPublished
<1>2. CASE UNCHANGED <<observed, generation, quarantined>>
  BY <1>2 DEF Effect, Running
<1>3. CASE ~Superseded(p) /\ err = "nil" /\ Publish(p, g)
  <2>1. Candidate(p) /\ g = gor[p].gen
    BY <1>3 DEF Candidate, Superseded, Admitting
  <2>2. g > generation /\ g \in Nat
    BY <2>1, GenerationsAssumption
    DEF Native, CandidateIsFresh, TypeOK, Goroutines
  <2>3. activeOperation # 0
    BY <2>1 DEF Candidate, Admitting, InAttempt, Ownership, OperationsIdentify,
                Numbered
  <2>4. ~quarantined
    BY <2>3 DEF Ownership, OperationsSettle
  <2>5. Running' /\ quarantined' = FALSE /\ generation' = g
    BY <1>3 DEF Publish, transitionLocked, Running
  <2>6. \E q \in Procs : gor[q].pc \in InAttempt /\ ~Superseded(q)
    BY <1>3
  <2> QED  BY <1>1, <2>2, <2>4, <2>5, <2>6 DEF Effect
<1>4. CASE quarantineLocked /\ generation' = generation
  BY <1>1, <1>4 DEF quarantineLocked, transitionLocked, Running, Effect
<1>5. CASE FailAttempt(p, err, replace)
  <2>1. ~Running'
    BY <1>5 DEF FailAttempt, scheduleRetryLocked, transitionLocked, Running
  <2> QED  BY <1>5, <2>1 DEF FailAttempt, Effect
<1> QED  BY <1>2, <1>3, <1>4, <1>5 DEF finishAttempt

LEMMA EffectAttempt ==
  ASSUME TypeOK, Ownership, Native, NEW p \in Procs, Attempt(p)
  PROVE  Effect
<1>1. CASE \/ StartAsyncSpawn(p) \/ AttemptInstall(p) \/ ConstructReturn(p)
           \/ AttemptCheck(p) \/ HoldReturn(p) \/ RetireStale(p)
           \/ RetireHeld(p) \/ AttemptExit(p)
  <2>1. UNCHANGED <<observed, generation, quarantined>>
    BY <1>1
    DEF StartAsyncSpawn, AttemptInstall, ConstructReturn, AttemptCheck,
        HoldReturn, RetireStale, RetireHeld, AttemptExit, driverVars
  <2> QED  BY <2>1 DEF Effect, Running
<1>2. CASE FinishAttempt(p)
  <2>1. /\ finishAttempt(p, gor[p].gen, gor[p].res, gor[p].replace)
        /\ gor[p].pc = "finish" /\ gor[p].pc \in InAttempt
    BY <1>2 DEF FinishAttempt, At, InAttempt
  <2> QED  BY <2>1, EffectFinish
<1>3. CASE StaleRetired(p)
  <2>1. ~Running
    BY <1>3, NothingPublished DEF StaleRetired, At, InAttempt
  <2>2. CASE quarantineLocked
    <3>1. ~Running' /\ quarantined' = TRUE /\ generation' = generation
      BY <1>3, <2>2 DEF StaleRetired, quarantineLocked, transitionLocked, Running
    <3> QED  BY <2>1, <3>1 DEF Effect
  <2>3. CASE UNCHANGED <<quarantined, activeOperation, observed, effective>>
    <3>1. generation' = generation
      BY <1>3 DEF StaleRetired
    <3> QED  BY <2>3, <3>1 DEF Effect, Running
  <2> QED  BY <1>3, <2>2, <2>3 DEF StaleRetired
<1>4. CASE HeldRetired(p)
  <2>1. /\ gor[p].pc \in InAttempt /\ gor[p].res # "nil"
    BY <1>4 DEF HeldRetired, At, InAttempt, Native, HeldResults, Retiring
  <2>2. CASE finishAttempt(p, 0, gor[p].res, FALSE)
    BY <2>1, <2>2, EffectFinish
  <2>3. CASE quarantineLocked /\ generation' = generation
    <3>1. ~Running
      BY <2>1, NothingPublished
    <3> QED
      BY <2>3, <3>1 DEF quarantineLocked, transitionLocked, Running, Effect
  <2> QED  BY <1>4, <2>2, <2>3 DEF HeldRetired
<1> QED  BY <1>1, <1>2, <1>3, <1>4 DEF Attempt

LEMMA EffectStopping ==
  ASSUME TypeOK, Ownership, Native, NEW p \in Procs, Stopping(p)
  PROVE  Effect
<1>1. CASE \/ StopNothing(p) \/ StopRuntime(p) \/ StopReturn(p)
           \/ ShutdownCancel(p) \/ ShutdownReturn(p)
  <2>1. UNCHANGED <<observed, generation, quarantined>>
    BY <1>1
    DEF StopNothing, StopRuntime, StopReturn, ShutdownCancel, ShutdownReturn,
        driverVars
  <2> QED  BY <2>1 DEF Effect, Running
<1>2. CASE StopWithdraw(p)
  <2>1. ~Running' /\ UNCHANGED <<generation, quarantined>>
    BY <1>2 DEF StopWithdraw, transitionLocked, Running
  <2> QED  BY <2>1 DEF Effect
<1>3. CASE StopQuarantined(p)
  <2>1. UNCHANGED <<generation, quarantined>> /\ (observed' = observed \/ ~Running')
    BY <1>3 DEF StopQuarantined, transitionLocked, Running
  <2> QED  BY <2>1 DEF Effect, Running
<1>4. CASE StopFinish(p)
  <2>1. ~Running
    BY <1>4, NothingPublished DEF StopFinish, At, InStop
  <2>2. ~Running' /\ generation' = generation
    BY <1>4 DEF StopFinish, transitionLocked, Running
  <2>3. quarantined' = TRUE \/ quarantined' = quarantined
    <3>1. CASE UNCHANGED quarantined
      BY <3>1
    <3>2. CASE quarantined' = (quarantined \/ gor[p].close = "quarantined"
                                           \/ rtQuarantined)
      <4>1. quarantined \in BOOLEAN
        BY DEF TypeOK
      <4> QED  BY <3>2, <4>1
    <3> QED  BY <1>4, <3>1, <3>2 DEF StopFinish
  <2> QED  BY <2>1, <2>2, <2>3 DEF Effect
<1> QED  BY <1>1, <1>2, <1>3, <1>4 DEF Stopping

LEMMA EffectNext == IndInv /\ [Next]_vars => Effect
<1> SUFFICES ASSUME TypeOK, Ownership, Native, [Next]_vars PROVE Effect
  BY DEF IndInv
<1>1. ASSUME NEW p \in Procs,
             \/ Locking(p) \/ StartRefuse(p) \/ ReplaceRefuse(p)
             \/ InvokeReturn(p) \/ RetryGiveUp(p)
      PROVE  Effect
  <2>1. UNCHANGED <<observed, generation, quarantined>>
    BY <1>1
    DEF Locking, StartLock, StartAsyncLock, ReplaceLock, StopLock, Lock,
        StartRefuse, ReplaceRefuse, InvokeReturn, RetryGiveUp, driverVars
  <2> QED  BY <2>1 DEF Effect, Running
<1>2. ASSUME NEW p \in Procs, StartReserve(p) \/ ReplaceReserve(p) \/ RetryFire(p)
      PROVE  Effect
  <2>1. UNCHANGED <<generation, quarantined>> /\ ~Running'
    BY <1>2
    DEF StartReserve, ReplaceReserve, RetryFire, transitionLocked, Running
  <2> QED  BY <2>1 DEF Effect
<1>3. CASE Environment
  <2>1. ASSUME NEW p \in Procs,
               \/ StartCall(p) \/ StartAsyncCall(p) \/ ReplaceCall(p)
               \/ StopCall(p) \/ ShutdownCall(p) \/ ShutdownAbandon(p)
               \/ \E c \in Capabilities : Invoke(p, c)
        PROVE  Effect
    <3>1. UNCHANGED <<observed, generation, quarantined>>
      BY <2>1
      DEF StartCall, StartAsyncCall, ReplaceCall, StopCall, Call, ShutdownCall,
          ShutdownAbandon, Invoke, driverVars
    <3> QED  BY <3>1 DEF Effect, Running
  <2>2. ASSUME NEW p \in Procs, NEW g, NEW r, ReportFailure(p, g, r)
        PROVE  Effect
    <3>1. UNCHANGED <<generation, quarantined>> /\ ~Running'
      BY <2>2
      DEF ReportFailure, scheduleRetryLocked, transitionLocked, Running
    <3> QED  BY <3>1 DEF Effect
  <2>3. ASSUME \/ BindHooks
               \/ \E g \in 1..MaxGenerations, caps \in SUBSET Capabilities :
                     ReportDegraded(g, caps)
        PROVE  Effect
    <3>1. UNCHANGED <<generation, quarantined>> /\ (Running' <=> Running)
      BY <2>3 DEF BindHooks, ReportDegraded, transitionLocked, Running
    <3> QED  BY <3>1 DEF Effect
  <2> QED  BY <1>3, <2>1, <2>2, <2>3 DEF Environment
<1>4. CASE UNCHANGED vars
  BY <1>4 DEF vars, driverVars, Effect, Running
<1> QED
  BY <1>1, <1>2, <1>3, <1>4, EffectAttempt, EffectStopping
  DEF Next, Step, Retry

(* The manager implements the publication contract: every behaviour of the *)
(* manager, seen as the published generation, the newest one and the       *)
(* quarantine, is a behaviour of AdmissionContract.                        *)
THEOREM Refinement == Spec => ImplementsContract
<1>1. Init => Contract!Init
  BY DEF Init, Contract!Init, Running
<1>2. IndInv /\ [Next]_vars => [Contract!Next]_(Contract!contractVars)
  <2> SUFFICES ASSUME IndInv, [Next]_vars
               PROVE  [Contract!Next]_(Contract!contractVars)
    OBVIOUS
  <2>0. /\ generation \in Nat /\ quarantined \in BOOLEAN
        /\ Running => generation # 0
    BY GenerationsAssumption
    DEF IndInv, TypeOK, Native, PublishedIsOpen
  <2>1. Effect
    BY EffectNext
  <2>2. CASE UNCHANGED <<generation, quarantined>> /\ (Running' <=> Running)
    BY <2>2 DEF Contract!contractVars
  <2>3. CASE UNCHANGED <<generation, quarantined>> /\ Running /\ ~Running'
    BY <2>0, <2>3 DEF Contract!Next, Contract!Withdraw
  <2>4. CASE /\ generation' = generation /\ quarantined' = TRUE
             /\ ~Running /\ ~Running'
    <3>1. CASE quarantined = TRUE
      BY <2>4, <3>1 DEF Contract!contractVars
    <3>2. CASE quarantined = FALSE
      BY <2>4, <3>2 DEF Contract!Next, Contract!Block
    <3> QED  BY <2>0, <3>1, <3>2
  <2>5. CASE /\ ~Running /\ Running'
             /\ ~quarantined /\ quarantined' = FALSE
             /\ generation' \in Nat /\ generation' > generation
    <3>1. quarantined' = quarantined
      BY <2>0, <2>5
    <3> QED  BY <2>0, <2>5, <3>1 DEF Contract!Next, Contract!Publish
  <2> QED  BY <2>1, <2>2, <2>3, <2>4, <2>5 DEF Effect
<1> QED
  BY <1>1, <1>2, Inductive, PTL DEF Spec, ImplementsContract, Contract!Spec

(* Some construction begins. *)
Begins == \E q \in Procs : gor'[q].pc = "construct" /\ gor[q].pc # "construct"

LEMMA BeginsNothing ==
  ASSUME NEW p \in Procs, Others(p), gor'[p].pc # "construct"
  PROVE  ~Begins
  BY DEF Begins, Others

LEMMA ReturnBegins ==
  ASSUME TypeOK, NEW p \in Procs, Return(p)
  PROVE  ~Begins
  BY ReturnRows, BeginsNothing

LEMMA ScheduleBegins ==
  ASSUME TypeOK, NEW p \in Procs, NEW o, NEW r, NEW n,
         scheduleRetryLocked(p, o, r, n)
  PROVE  ~Begins
<1>1. Others(p) /\ gor'[p].pc = "wait"
  BY DEF scheduleRetryLocked, IdleGoroutine, Others, TypeOK
<1> QED  BY <1>1, BeginsNothing

LEMMA FinishBegins ==
  ASSUME TypeOK, NEW p \in Procs, NEW g, NEW err, NEW replace,
         finishAttempt(p, g, err, replace)
  PROVE  ~Begins
  BY ReturnBegins, ScheduleBegins DEF finishAttempt, Publish, FailAttempt

LEMMA AttemptBegins ==
  ASSUME TypeOK, NEW p \in Procs, Attempt(p), quarantined
  PROVE  ~Begins
<1>1. CASE StartAsyncSpawn(p)
  <2>1. CASE Return(p)
    BY <2>1, ReturnBegins
  <2>2. CASE gor' = [gor EXCEPT ![p].pc = "reserved", ![p].task = TRUE]
    BY <2>2 DEF Begins, TypeOK, Goroutines
  <2> QED  BY <1>1, <2>1, <2>2 DEF StartAsyncSpawn
<1>2. CASE AttemptInstall(p)
  BY <1>2, ReturnBegins DEF AttemptInstall
<1>3. CASE ConstructReturn(p)
  BY <1>3 DEF ConstructReturn, Begins, TypeOK, Goroutines
<1>4. CASE AttemptCheck(p)
  BY <1>4 DEF AttemptCheck, Goto, Begins, TypeOK, Goroutines
<1>5. CASE HoldReturn(p)
  BY <1>5 DEF HoldReturn, Begins, TypeOK, Goroutines
<1>6. CASE FinishAttempt(p)
  BY <1>6, FinishBegins DEF FinishAttempt
<1>7. CASE RetireStale(p)
  BY <1>7 DEF RetireStale, Begins, TypeOK, Goroutines
<1>8. CASE StaleRetired(p)
  BY <1>8 DEF StaleRetired, Goto, Begins, TypeOK, Goroutines
<1>9. CASE RetireHeld(p)
  BY <1>9 DEF RetireHeld, Begins, TypeOK, Goroutines
<1>10. CASE HeldRetired(p)
  BY <1>10, FinishBegins, ReturnBegins DEF HeldRetired
<1>11. CASE AttemptExit(p)
  BY <1>11, ReturnBegins DEF AttemptExit
<1> QED
  BY <1>1, <1>2, <1>3, <1>4, <1>5, <1>6, <1>7, <1>8, <1>9, <1>10, <1>11
  DEF Attempt

LEMMA StoppingBegins ==
  ASSUME TypeOK, NEW p \in Procs, Stopping(p)
  PROVE  ~Begins
<1>1. CASE StopQuarantined(p) \/ StopNothing(p) \/ StopFinish(p)
  <2>1. Others(p) /\ gor'[p].pc = "report"
    BY <1>1, ReportRows DEF StopQuarantined, StopNothing, StopFinish
  <2> QED  BY <2>1, BeginsNothing
<1>2. CASE StopWithdraw(p)
  <2>1. CancelAttempt(gor) \in [Procs -> Goroutines]
    BY CancelAttemptType DEF TypeOK
  <2>2. \A q \in Procs : CancelAttempt(gor)[q].pc = gor[q].pc
    BY CancelAttemptRows DEF TypeOK
  <2> QED  BY <1>2, <2>1, <2>2 DEF StopWithdraw, Begins, Goroutines
<1>3. CASE StopRuntime(p)
  BY <1>3 DEF StopRuntime, Begins, TypeOK, Goroutines
<1>4. CASE StopReturn(p) \/ ShutdownReturn(p)
  <2>1. CASE Return(p)
    BY <2>1, ReturnBegins
  <2>2. CASE gor' = [gor EXCEPT ![p] = [IdleGoroutine EXCEPT !.pc = "awaitTasks",
                                                             !.shutdown = TRUE]]
    BY <2>2 DEF Begins, TypeOK, IdleGoroutine
  <2> QED  BY <1>4, <2>1, <2>2 DEF StopReturn, ShutdownReturn
<1>5. CASE ShutdownCancel(p)
  <2> DEFINE moved == [gor EXCEPT ![p].pc = "stopWait"]
  <2>1. moved \in [Procs -> Goroutines]
    BY GotoType DEF TypeOK, PCs, PreReservation
  <2>2. CancelAttempt(moved) \in [Procs -> Goroutines]
    BY <2>1, CancelAttemptType DEF TypeOK
  <2>3. \A q \in Procs : gor'[q].pc = CancelAttempt(moved)[q].pc
    <3>1. CancelRetry(CancelAttempt(moved))
      BY <1>5 DEF ShutdownCancel
    <3> QED  BY <2>2, <3>1, CancelRetryRows
  <2>4. \A q \in Procs : CancelAttempt(moved)[q].pc = moved[q].pc
    <3> HIDE DEF moved
    <3> QED  BY <2>1, CancelAttemptRows
  <2> QED  BY <2>3, <2>4 DEF Begins, TypeOK, Goroutines
<1> QED  BY <1>1, <1>2, <1>3, <1>4, <1>5 DEF Stopping

LEMMA StepBegins ==
  ASSUME TypeOK, quarantined, [Next]_vars, NEW q \in Procs,
         gor'[q].pc = "construct"
  PROVE  gor[q].pc = "construct"
<1>1. SUFFICES UNCHANGED gor \/ ~Begins
  BY DEF Begins
<1>2. ASSUME NEW p \in Procs, NEW waiting, NEW section \in Sections,
             Lock(p, waiting, section)
      PROVE  ~Begins
  <2>1. Others(p) /\ gor'[p].pc # "construct"
    BY <1>2, LockRows DEF Sections, PCs, PreReservation
  <2> QED  BY <2>1, BeginsNothing
<1>3. ASSUME NEW p \in Procs, NEW label \in PreReservation, Call(p, label)
      PROVE  ~Begins
  <2>1. Others(p) /\ gor'[p].pc # "construct"
    BY <1>3, CallRows DEF PCs, PreReservation
  <2> QED  BY <2>1, BeginsNothing
<1>4. ASSUME NEW p \in Procs, Locking(p) PROVE ~Begins
  BY <1>2, <1>4
  DEF Locking, StartLock, StartAsyncLock, ReplaceLock, StopLock, Sections
<1>5. ASSUME NEW p \in Procs, Step(p) PROVE ~Begins
  <2>1. CASE StartReserve(p)
    BY <2>1 DEF StartReserve, Begins, TypeOK, Goroutines
  <2>2. CASE ReplaceReserve(p)
    BY <2>2 DEF ReplaceReserve, Begins, TypeOK, Goroutines
  <2>3. CASE StartRefuse(p) \/ ReplaceRefuse(p) \/ InvokeReturn(p)
    BY <2>3, ReturnBegins DEF StartRefuse, ReplaceRefuse, InvokeReturn
  <2> QED
    BY <1>5, <2>1, <2>2, <2>3, AttemptBegins, StoppingBegins DEF Step
<1>6. ASSUME NEW p \in Procs, Retry(p) PROVE ~Begins
  <2>1. CASE RetryFire(p)
    BY <2>1 DEF RetryFire, Begins, TypeOK, Goroutines
  <2>2. CASE RetryGiveUp(p)
    BY <2>2, ReturnBegins DEF RetryGiveUp
  <2> QED  BY <1>6, <2>1, <2>2 DEF Retry
<1>7. CASE Environment
  <2>1. ASSUME NEW p \in Procs,
               StartCall(p) \/ StartAsyncCall(p) \/ ReplaceCall(p) \/ StopCall(p)
        PROVE  ~Begins
    BY <1>3, <2>1
    DEF StartCall, StartAsyncCall, ReplaceCall, StopCall, PreReservation
  <2>2. ASSUME NEW p \in Procs, ShutdownCall(p) PROVE ~Begins
    BY <2>2 DEF ShutdownCall, Begins, TypeOK, Goroutines
  <2>3. ASSUME NEW p \in Procs, ShutdownAbandon(p) PROVE ~Begins
    BY <2>3, ReturnBegins DEF ShutdownAbandon
  <2>4. ASSUME NEW p \in Procs, NEW c \in Capabilities, Invoke(p, c)
        PROVE  ~Begins
    BY <2>4 DEF Invoke, Goto, Begins, TypeOK, Goroutines
  <2>5. ASSUME NEW p \in Procs, NEW g, NEW r, ReportFailure(p, g, r)
        PROVE  UNCHANGED gor \/ ~Begins
    BY <2>5, ScheduleBegins DEF ReportFailure
  <2>6. ASSUME \/ BindHooks
               \/ \E g \in 1..MaxGenerations, caps \in SUBSET Capabilities :
                     ReportDegraded(g, caps)
        PROVE  UNCHANGED gor
    BY <2>6 DEF BindHooks, ReportDegraded
  <2> QED
    BY <1>7, <2>1, <2>2, <2>3, <2>4, <2>5, <2>6 DEF Environment
<1>8. CASE UNCHANGED vars
  BY <1>8 DEF vars
<1> QED
  BY <1>4, <1>5, <1>6, <1>7, <1>8 DEF Next

(* Quarantine is latched, although publication writes the flag, and no     *)
(* construction begins under it.                                           *)
THEOREM QuarantineStays == Spec => QuarantineLatched
<1>1. IndInv /\ [Next]_vars
        => [quarantined => /\ quarantined'
                           /\ \A p \in Procs : gor'[p].pc = "construct"
                                  => gor[p].pc = "construct"]_vars
  <2> SUFFICES ASSUME IndInv, [Next]_vars, quarantined
               PROVE  /\ quarantined'
                      /\ \A p \in Procs : gor'[p].pc = "construct"
                                              => gor[p].pc = "construct"
    OBVIOUS
  <2>1. quarantined'
    BY EffectNext DEF Effect
  <2>2. \A p \in Procs : gor'[p].pc = "construct" => gor[p].pc = "construct"
    BY StepBegins DEF IndInv
  <2> QED  BY <2>1, <2>2
<1> QED  BY <1>1, Inductive, PTL DEF Spec, QuarantineLatched

-----------------------------------------------------------------------------
(* Cancellation, withdrawal and retirement: the invariant that the rest    *)
(* of the properties need on top of IndInv.                                *)

(* A canceled goroutine is a retry whose token is stale or an attempt that *)
(* can no longer publish.                                                  *)
Cancellation ==
    \A p \in Procs : gor[p].canceled =>
        \/ gor[p].pc = "wait" /\ retryToken # p
        \/ gor[p].pc \in InAttempt /\ (closed \/ gor[p].op # activeOperation)

(* What a stop would cancel is an attempt. *)
ActiveInAttempt ==
    activeAttempt # NoProc => gor[activeAttempt].pc \in InAttempt

(* Capabilities are effective only while a generation is published. *)
WorkIsPublished == effective # {} => Running

QuarantineSettles == quarantined => observed \in {"STOPPED", "FAILED"}

BackoffIsWanted == observed = "BACKOFF" => desired = "RUNNING"

ShutdownsClose ==
    \A p \in Procs : /\ gor[p].shutdown => closed
                     /\ gor[p].pc \in {"shutdownCancel", "awaitTasks"}
                           => gor[p].shutdown

(* From the section of its stop on, a Shutdown has withdrawn the driver. *)
Past == {"stopRuntime", "stopFinish", "report", "awaitTasks"}
Ended == {"STOPPED", "DISABLED", "FAILED", "STOPPING"}
Withdrawn ==
    /\ desired = "STOPPED"
    /\ observed \in Ended
    /\ \A q \in Procs : gor[q].pc \in InAttempt => gor[q].canceled
ShutdownWithdraws ==
    \A p \in Procs : gor[p].shutdown /\ gor[p].pc \in Past => Withdrawn

(* What a stopped driver left open belongs to an attempt that still has to *)
(* retire it, or to quarantine the driver over it.                         *)
ToRetire(p) ==
    \/ gor[p].pc = "returned" /\ gor[p].res = "nil"
    \/ gor[p].pc = "retireStale"
    \/ gor[p].pc = "staleRetired" /\ gor[p].res # "nil"
StopClosed(p) == gor[p].pc = "stopFinish" /\ gor[p].close \in {"nil", "timeout"}
LeftOpen ==
    /\ open # 0 /\ ~quarantined /\ ~rtQuarantined
    /\ observed \in {"STOPPED", "DISABLED"} \/ \E q \in Procs : StopClosed(q)
StopClears == LeftOpen => \E p \in Procs : ToRetire(p)

Withdrawal ==
    /\ Cancellation
    /\ ActiveInAttempt
    /\ WorkIsPublished
    /\ QuarantineSettles
    /\ BackoffIsWanted
    /\ BackoffIsOwned
    /\ ShutdownsClose
    /\ ShutdownWithdraws
    /\ StopClears

(* What a step of p does to the other goroutines: it may cancel a waiting  *)
(* retry together with its token, and an attempt that it supersedes.       *)
Spares(p) ==
    \A q \in Procs \ {p} :
        /\ gor'[q].pc = gor[q].pc
        /\ gor'[q].op = gor[q].op
        /\ gor'[q].res = gor[q].res
        /\ gor'[q].close = gor[q].close
        /\ gor'[q].shutdown = gor[q].shutdown
        /\ \/ gor'[q].canceled = gor[q].canceled
           \/ gor[q].pc = "wait" /\ retryToken' = NoProc
           \/ /\ gor[q].pc \in InAttempt /\ gor'[q].canceled
              /\ closed' \/ gor[q].op # activeOperation'

Alone(p) == \A q \in Procs \ {p} : gor'[q] = gor[q]

(* p stays canceled only within an attempt, keeps the books of             *)
(* activeAttempt and the token, and a Shutdown closes the manager.         *)
Courteous(p) ==
    /\ Moves
    /\ closed => closed'
    /\ retryToken' \in {retryToken, NoProc, p}
    /\ gor'[p].canceled => /\ gor[p].canceled /\ gor[p].pc \in InAttempt
                           /\ gor'[p].pc \in InAttempt /\ gor'[p].op = gor[p].op
    /\ \/ activeAttempt' = NoProc
       \/ /\ activeAttempt' = activeAttempt
          /\ activeAttempt = p => gor'[p].pc \in InAttempt
       \/ activeAttempt' = p /\ gor'[p].pc \in InAttempt
    /\ gor'[p].shutdown => gor[p].shutdown \/ closed'
    /\ gor'[p].pc \in {"shutdownCancel", "awaitTasks"} => gor'[p].shutdown

(* A withdrawn driver of a closed manager stays withdrawn. *)
StaysWithdrawn(p) ==
    /\ closed /\ desired = "STOPPED" /\ observed \in Ended
         => /\ desired' = "STOPPED" /\ observed' \in Ended
            /\ gor'[p].pc \in InAttempt
                 => /\ gor[p].pc \in InAttempt
                    /\ gor[p].canceled => gor'[p].canceled
    /\ gor'[p].shutdown /\ gor'[p].pc \in Past
         => \/ gor[p].shutdown /\ gor[p].pc \in Past
            \/ Withdrawn'

(* A step into BACKOFF, or in it. *)
BacksOff(p) ==
    observed' = "BACKOFF" /\ ~closed' =>
        \/ /\ retryToken' = p /\ gor'[p].pc = "wait"
           /\ gor'[p].op = activeOperation' /\ ~gor'[p].canceled
        \/ gor'[p].pc \in PreReservation
        \/ /\ observed = "BACKOFF"
           /\ UNCHANGED <<retryToken, activeOperation>>
           /\ gor[p].pc \notin PreReservation
           /\ gor[p].pc = "wait" => retryToken # p \/ gor[p].op # activeOperation

(* What a step leaves open was left open before, and p keeps or takes the  *)
(* duty to retire it.                                                      *)
Retires(p) ==
    LeftOpen' => ToRetire(p)' \/ (LeftOpen /\ ~ToRetire(p))

LEMMA WithdrawalFrame ==
  ASSUME TypeOK, Ownership, Withdrawal, NEW p \in Procs, Spares(p),
         Courteous(p), StaysWithdrawn(p), BacksOff(p), Retires(p),
         WorkIsPublished', QuarantineSettles', BackoffIsWanted'
  PROVE  Withdrawal'
<1>0. /\ operationSeq \in Nat /\ activeOperation \in 0..operationSeq
      /\ \A q \in Procs : gor[q].op \in Nat /\ gor[q].op <= operationSeq
      /\ \A q \in Procs : gor[q].pc \in InAttempt => gor[q].op # 0
  BY DEF TypeOK, Goroutines, Ownership, OperationsIdentify, Numbered
<1>1. Cancellation'
  <2> SUFFICES ASSUME NEW q \in Procs, gor'[q].canceled
               PROVE  \/ gor'[q].pc = "wait" /\ retryToken' # q
                      \/ /\ gor'[q].pc \in InAttempt
                         /\ closed' \/ gor'[q].op # activeOperation'
    BY DEF Cancellation
  <2>1. ASSUME gor[q].pc \in InAttempt, closed \/ gor[q].op # activeOperation
        PROVE  closed' \/ gor[q].op # activeOperation'
    BY <1>0, <2>1 DEF Courteous, Moves
  <2>2. CASE q = p
    BY <2>1, <2>2 DEF Courteous, Withdrawal, Cancellation, InAttempt
  <2>3. CASE q # p /\ gor'[q].canceled = gor[q].canceled
    BY <2>1, <2>3, NoProcAssumption
    DEF Courteous, Spares, Withdrawal, Cancellation
  <2>4. CASE q # p /\ gor'[q].canceled # gor[q].canceled
    BY <2>4, NoProcAssumption DEF Spares
  <2> QED  BY <2>2, <2>3, <2>4
<1>2. ActiveInAttempt'
  <2>1. activeAttempt \in Procs \cup {NoProc}
    BY DEF TypeOK
  <2>2. \A q \in Procs \ {p} : gor'[q].pc = gor[q].pc
    BY DEF Spares
  <2> QED  BY <2>1, <2>2 DEF Courteous, Withdrawal, ActiveInAttempt
<1>3. BackoffIsOwned'
  <2>1. retryToken \in Procs \cup {NoProc}
    BY DEF TypeOK
  <2> SUFFICES ASSUME observed' = "BACKOFF", ~closed'
               PROVE  \/ /\ retryToken' # NoProc
                         /\ gor'[retryToken'].pc = "wait"
                         /\ gor'[retryToken'].op = activeOperation'
                         /\ ~gor'[retryToken'].canceled
                      \/ \E q \in Procs : gor'[q].pc \in PreReservation
    BY DEF BackoffIsOwned, At
  <2>2. CASE /\ retryToken' = p /\ gor'[p].pc = "wait"
             /\ gor'[p].op = activeOperation' /\ ~gor'[p].canceled
    BY <2>2, NoProcAssumption
  <2>3. CASE gor'[p].pc \in PreReservation
    BY <2>3
  <2>4. CASE /\ observed = "BACKOFF"
             /\ UNCHANGED <<retryToken, activeOperation>>
             /\ gor[p].pc \notin PreReservation
             /\ gor[p].pc = "wait" => retryToken # p \/ gor[p].op # activeOperation
    <3>1. ~closed
      BY DEF Courteous
    <3>2. CASE \E q \in Procs : gor[q].pc \in PreReservation
      BY <2>4, <3>2 DEF Spares
    <3>3. CASE /\ retryToken # NoProc /\ gor[retryToken].pc = "wait"
               /\ gor[retryToken].op = activeOperation
               /\ ~gor[retryToken].canceled
      <4>1. retryToken \in Procs \ {p}
        BY <2>1, <2>4, <3>3
      <4>2. gor'[retryToken].canceled = gor[retryToken].canceled
        BY <2>4, <3>3, <4>1 DEF Spares, InAttempt
      <4> QED  BY <2>4, <3>3, <4>1, <4>2 DEF Spares
    <3> QED  BY <2>4, <3>1, <3>2, <3>3 DEF Withdrawal, BackoffIsOwned, At
  <2> QED  BY <2>2, <2>3, <2>4 DEF BacksOff
<1>4. ShutdownsClose'
  BY DEF Courteous, Spares, Withdrawal, ShutdownsClose
<1>5. ShutdownWithdraws'
  <2> SUFFICES ASSUME NEW q \in Procs, gor'[q].shutdown, gor'[q].pc \in Past
               PROVE  Withdrawn'
    BY DEF ShutdownWithdraws
  <2>1. CASE gor[q].shutdown /\ gor[q].pc \in Past
    <3>1. Withdrawn /\ closed
      BY <2>1 DEF Withdrawal, ShutdownWithdraws, ShutdownsClose
    <3>2. desired' = "STOPPED" /\ observed' \in Ended
      BY <3>1 DEF Withdrawn, StaysWithdrawn
    <3>3. ASSUME NEW r \in Procs, gor'[r].pc \in InAttempt
          PROVE  gor'[r].canceled
      <4>1. CASE r = p
        BY <3>1, <3>3, <4>1 DEF Withdrawn, StaysWithdrawn
      <4>2. CASE r # p
        <5>1. gor[r].pc \in InAttempt /\ gor[r].pc # "wait" /\ gor[r].canceled
          BY <3>1, <3>3, <4>2 DEF Withdrawn, Spares, InAttempt
        <5> QED  BY <4>2, <5>1 DEF Spares
      <4> QED  BY <4>1, <4>2
    <3> QED  BY <3>2, <3>3 DEF Withdrawn
  <2>2. CASE ~(gor[q].shutdown /\ gor[q].pc \in Past)
    <3>1. q = p
      BY <2>2 DEF Spares
    <3> QED  BY <2>2, <3>1 DEF StaysWithdrawn
  <2> QED  BY <2>1, <2>2
<1>6. StopClears'
  <2> SUFFICES ASSUME LeftOpen' PROVE \E q \in Procs : ToRetire(q)'
    BY DEF StopClears
  <2>1. CASE ToRetire(p)'
    BY <2>1
  <2>2. CASE LeftOpen /\ ~ToRetire(p)
    <3>1. PICK q \in Procs : ToRetire(q)
      BY <2>2 DEF Withdrawal, StopClears
    <3>2. q # p
      BY <2>2, <3>1
    <3>3. ToRetire(q)'
      BY <3>1, <3>2 DEF Spares, ToRetire
    <3> QED  BY <3>3
  <2> QED  BY <2>1, <2>2 DEF Retires
<1> QED  BY <1>1, <1>2, <1>3, <1>4, <1>5, <1>6 DEF Withdrawal

LEMMA AloneSpares ==
  ASSUME NEW p \in Procs, Alone(p)
  PROVE  Spares(p)
  BY DEF Alone, Spares

LEMMA RetiresNothing ==
  ASSUME NEW p \in Procs, Spares(p), UNCHANGED <<open, rtQuarantined>>,
         quarantined => quarantined',
         observed' \in {"STOPPED", "DISABLED"}
            => observed \in {"STOPPED", "DISABLED"},
         gor'[p].pc # "stopFinish", ~ToRetire(p)
  PROVE  Retires(p)
<1>1. \A q \in Procs : StopClosed(q)' => StopClosed(q)
  BY DEF Spares, StopClosed
<1> QED  BY <1>1 DEF Retires, LeftOpen

(* A step that leaves the driver's state alone. *)
Untouched ==
    UNCHANGED <<desired, observed, effective, quarantined, activeOperation>>

LEMMA WithdrawalQuiet ==
  ASSUME TypeOK, Ownership, Withdrawal, NEW p \in Procs, Spares(p), Untouched,
         Courteous(p), Retires(p), BacksOff(p),
         desired = "STOPPED" /\ gor'[p].pc \in InAttempt
            => gor[p].pc \in InAttempt /\ gor'[p].canceled = gor[p].canceled,
         gor'[p].shutdown /\ gor'[p].pc \in Past
            => gor[p].shutdown /\ gor[p].pc \in Past
  PROVE  Withdrawal'
<1>1. StaysWithdrawn(p)
  BY DEF StaysWithdrawn, Untouched
<1>2. WorkIsPublished' /\ QuarantineSettles' /\ BackoffIsWanted'
  BY DEF Withdrawal, WorkIsPublished, QuarantineSettles, BackoffIsWanted,
         Untouched, Running
<1> QED  BY <1>1, <1>2, WithdrawalFrame

(* The goroutine of slot p ends. *)
LEMMA WithdrawalReturn ==
  ASSUME TypeOK, Ownership, Withdrawal, NEW p \in Procs, Return(p), Untouched,
         UNCHANGED <<open, rtQuarantined, closed, retryToken>>, ~ToRetire(p),
         \/ activeAttempt' = NoProc
         \/ activeAttempt' = activeAttempt /\ gor[p].pc \notin InAttempt,
         observed = "BACKOFF" /\ ~closed =>
            \/ gor[p].pc \notin PreReservation \cup {"wait"}
            \/ /\ gor[p].pc = "wait"
               /\ retryToken # p \/ gor[p].op # activeOperation
  PROVE  Withdrawal'
<1>1. Alone(p) /\ gor'[p] = IdleGoroutine
  BY DEF Return, Alone, TypeOK
<1>2. gor'[p].pc = "idle" /\ ~gor'[p].canceled /\ ~gor'[p].shutdown
  BY <1>1 DEF IdleGoroutine
<1>3. Spares(p)
  BY <1>1, AloneSpares
<1>4. activeAttempt = p => gor[p].pc \in InAttempt
  BY NoProcAssumption DEF Withdrawal, ActiveInAttempt
<1>5. Courteous(p)
  BY <1>2, <1>4 DEF Courteous, Moves, Untouched
<1>6. Retires(p)
  BY <1>2, <1>3, RetiresNothing DEF Untouched
<1>7. BacksOff(p)
  BY DEF BacksOff, Untouched, PreReservation
<1> QED
  BY <1>2, <1>3, <1>5, <1>6, <1>7, WithdrawalQuiet DEF InAttempt, Past

(* Slot p moves within an attempt. *)
LEMMA WithdrawalWithin ==
  ASSUME TypeOK, Ownership, Withdrawal, NEW p \in Procs, Alone(p), Untouched,
         UNCHANGED <<closed, retryToken, activeAttempt>>,
         gor[p].pc \in InAttempt, gor'[p].pc \in InAttempt,
         gor'[p].op = gor[p].op, gor'[p].canceled = gor[p].canceled,
         gor'[p].shutdown = gor[p].shutdown, Retires(p)
  PROVE  Withdrawal'
<1>1. Spares(p)
  BY AloneSpares
<1>2. Courteous(p)
  BY DEF Courteous, Moves, Untouched, InAttempt
<1>3. BacksOff(p)
  BY DEF BacksOff, Untouched, PreReservation, InAttempt
<1>4. gor'[p].pc \notin Past
  BY DEF InAttempt, Past
<1> QED  BY <1>1, <1>2, <1>3, <1>4, WithdrawalQuiet

(* A runtime call of an attempt or a stop: the rows of the close. *)
LEMMA StopRetires ==
  ASSUME TypeOK, NEW p \in Procs, Alone(p), NEW e, RuntimeStop(e), Untouched,
         \/ gor'[p].pc = "staleRetired" /\ gor'[p].res = e
         \/ gor'[p].pc = "heldRetired" /\ ~ToRetire(p)
         \/ gor'[p].pc = "stopFinish" /\ gor'[p].close = e /\ ~ToRetire(p)
  PROVE  Retires(p)
<1> SUFFICES ASSUME LeftOpen' PROVE ToRetire(p)' \/ (LeftOpen /\ ~ToRetire(p))
  BY DEF Retires
<1>1. ~rtQuarantined /\ e = "other" /\ open' = open /\ open # 0
  BY DEF LeftOpen, RuntimeStop
<1>2. CASE gor'[p].pc = "staleRetired" /\ gor'[p].res = e
  BY <1>1, <1>2 DEF ToRetire
<1>3. CASE gor'[p].pc # "staleRetired"
  <2>1. ~StopClosed(p)'
    BY <1>1, <1>3 DEF StopClosed
  <2>2. \A q \in Procs : StopClosed(q)' => StopClosed(q)
    BY <2>1 DEF StopClosed, Alone
  <2> QED  BY <1>1, <1>3, <2>2 DEF LeftOpen, Untouched
<1> QED  BY <1>2, <1>3

(* A step of an open manager that decides what the wanted driver does,     *)
(* while no stop is about to finish.                                       *)
LEMMA WithdrawalDecide ==
  ASSUME TypeOK, Ownership, Withdrawal, NEW p \in Procs, Alone(p), ~closed,
         UNCHANGED <<closed, open, rtQuarantined>>,
         \A q \in Procs : gor[q].pc # "stopFinish",
         desired' = "RUNNING", observed' \notin {"STOPPED", "DISABLED"},
         effective' # {} => Running', quarantined' => observed' = "FAILED",
         Moves, retryToken' \in {retryToken, p},
         gor'[p].pc \in {"idle", "wait", "reserved", "spawn"},
         ~gor'[p].canceled, ~gor'[p].shutdown,
         \/ activeAttempt' = NoProc
         \/ activeAttempt' = activeAttempt /\ activeAttempt # p,
         observed' = "BACKOFF" => /\ retryToken' = p /\ gor'[p].pc = "wait"
                                  /\ gor'[p].op = activeOperation'
  PROVE  Withdrawal'
<1>1. Spares(p)
  BY AloneSpares
<1>2. Courteous(p)
  BY DEF Courteous
<1>3. StaysWithdrawn(p) /\ BacksOff(p)
  BY DEF StaysWithdrawn, BacksOff
<1>4. Retires(p)
  <2>1. \A q \in Procs : gor'[q].pc # "stopFinish"
    BY DEF Alone
  <2> QED  BY <2>1 DEF Retires, LeftOpen, StopClosed
<1>5. WorkIsPublished' /\ QuarantineSettles' /\ BackoffIsWanted'
  BY DEF WorkIsPublished, QuarantineSettles, BackoffIsWanted
<1> QED  BY <1>1, <1>2, <1>3, <1>4, <1>5, WithdrawalFrame

(* An attempt quarantines the driver, current or not. *)
LEMMA WithdrawalQuarantine ==
  ASSUME TypeOK, Ownership, Withdrawal, NEW p \in Procs, Alone(p),
         quarantineLocked, UNCHANGED <<desired, closed, retryToken>>,
         gor[p].pc \in InAttempt,
         \/ gor'[p] = IdleGoroutine /\ activeAttempt' = NoProc
         \/ /\ activeAttempt' = activeAttempt
            /\ gor'[p].pc \in InAttempt /\ gor'[p].op = gor[p].op
            /\ gor'[p].canceled = gor[p].canceled
            /\ gor'[p].shutdown = gor[p].shutdown
  PROVE  Withdrawal'
<1>1. Spares(p)
  BY AloneSpares
<1>2. /\ quarantined' /\ activeOperation' = 0
      /\ observed' = "FAILED" /\ effective' = {}
  BY DEF quarantineLocked, transitionLocked
<1>3. gor'[p] = IdleGoroutine
        => gor'[p].pc = "idle" /\ ~gor'[p].canceled /\ ~gor'[p].shutdown
  BY DEF IdleGoroutine
<1>4. Courteous(p)
  BY <1>2, <1>3 DEF Courteous, Moves, InAttempt
<1>5. StaysWithdrawn(p)
  BY <1>2, <1>3 DEF StaysWithdrawn, Ended, Past, InAttempt
<1>6. BacksOff(p) /\ Retires(p)
  BY <1>2 DEF BacksOff, Retires, LeftOpen
<1>7. WorkIsPublished' /\ QuarantineSettles' /\ BackoffIsWanted'
  BY <1>2 DEF WorkIsPublished, QuarantineSettles, BackoffIsWanted
<1> QED  BY <1>1, <1>4, <1>5, <1>6, <1>7, WithdrawalFrame

LEMMA WithdrawalFinish ==
  ASSUME TypeOK, Ownership, Withdrawal, NEW p \in Procs,
         gor[p].pc \in {"finish", "heldRetired"},
         NEW g, NEW err, NEW replace, finishAttempt(p, g, err, replace)
  PROVE  Withdrawal'
<1>0. /\ gor[p].pc \in InAttempt /\ ~ToRetire(p)
      /\ activeAttempt' = NoProc
      /\ UNCHANGED <<desired, closed, open, rtQuarantined>>
  BY DEF finishAttempt, releaseAttempt, InAttempt, ToRetire, Ownership, AttemptsOwn
<1>1. ASSUME Return(p)
      PROVE  /\ Alone(p) /\ gor'[p] = IdleGoroutine /\ gor'[p].pc = "idle"
             /\ ~gor'[p].canceled /\ ~gor'[p].shutdown
  BY <1>1 DEF Return, Alone, TypeOK, IdleGoroutine
<1>2. CASE Superseded(p) /\ Return(p)
           /\ UNCHANGED <<observed, effective, quarantined, activeOperation,
                          retryToken>>
  <2>1. gor[p].pc \notin PreReservation \cup {"wait"}
    BY DEF PreReservation
  <2> QED  BY <1>0, <1>2, <2>1, WithdrawalReturn DEF Untouched
<1>3. ASSUME ~Superseded(p)
      PROVE  /\ ~closed /\ desired = "RUNNING" /\ ~quarantined
             /\ gor[p].op = activeOperation
             /\ \A q \in Procs : gor[q].pc # "stopFinish"
  <2>1. ~closed /\ desired = "RUNNING" /\ gor[p].op = activeOperation
    BY <1>3 DEF Superseded
  <2>2. gor[p].op # 0
    BY <1>0 DEF Ownership, OperationsIdentify, Numbered
  <2>3. ~quarantined
    BY <2>1, <2>2 DEF Ownership, OperationsSettle
  <2>4. \A q \in Procs : gor[q].pc # "stopFinish"
    BY <2>1 DEF Ownership, StopsExclude, InStop
  <2> QED  BY <2>1, <2>3, <2>4
<1>4. CASE ~Superseded(p) /\ Publish(p, g)
  <2>1. /\ observed' = "RUNNING" /\ quarantined' = FALSE /\ Running'
        /\ Moves /\ retryToken' = retryToken /\ Return(p)
    BY <1>4 DEF Publish, transitionLocked, Running, Moves
  <2> QED  BY <1>0, <1>1, <1>3, <1>4, <2>1, WithdrawalDecide
<1>5. CASE quarantineLocked /\ Return(p) /\ UNCHANGED retryToken
  BY <1>0, <1>1, <1>5, WithdrawalQuarantine
<1>6. CASE ~Superseded(p) /\ FailAttempt(p, err, replace)
  <2>1. UNCHANGED quarantined
    BY <1>6 DEF FailAttempt
  <2>2. CASE scheduleRetryLocked(p, gor[p].op, replace, retryRemaining)
             /\ UNCHANGED activeOperation
    <3>1. /\ observed' = "BACKOFF" /\ effective' = {} /\ retryToken' = p /\ Moves
      BY <2>2 DEF scheduleRetryLocked, transitionLocked, Moves
    <3>2. /\ Alone(p) /\ gor'[p].pc = "wait" /\ gor'[p].op = gor[p].op
          /\ ~gor'[p].canceled /\ ~gor'[p].shutdown
      BY <2>2 DEF scheduleRetryLocked, Alone, TypeOK, IdleGoroutine
    <3> QED  BY <1>0, <1>3, <1>6, <2>1, <2>2, <3>1, <3>2, WithdrawalDecide
  <2>3. CASE /\ activeOperation' = 0 /\ transitionLocked("FAILED", {})
             /\ Return(p) /\ UNCHANGED retryToken
    <3>1. observed' = "FAILED" /\ effective' = {} /\ Moves
      BY <2>3 DEF transitionLocked, Moves
    <3> QED  BY <1>0, <1>1, <1>3, <1>6, <2>1, <2>3, <3>1, WithdrawalDecide
  <2> QED  BY <1>6, <2>2, <2>3 DEF FailAttempt
<1> QED  BY <1>2, <1>4, <1>5, <1>6 DEF finishAttempt

LEMMA WithdrawalAttempt ==
  ASSUME TypeOK, Ownership, Withdrawal, NEW p \in Procs, Attempt(p)
  PROVE  Withdrawal'
<1>0. gor[p].pc \in Reserved => ~gor[p].canceled /\ activeAttempt # p
  BY NoProcAssumption
  DEF Withdrawal, Cancellation, ActiveInAttempt, Reserved, InAttempt
<1>1. CASE StartAsyncSpawn(p)
  <2>0. /\ gor[p].pc = "spawn" /\ UNCHANGED <<driverVars, runtimeVars, closed>>
        /\ Untouched /\ gor[p].pc \notin InAttempt \cup PreReservation \cup {"wait"}
        /\ ~ToRetire(p)
    BY <1>1
    DEF StartAsyncSpawn, At, driverVars, Untouched, InAttempt, PreReservation,
        ToRetire
  <2>1. CASE Return(p)
    BY <2>0, <2>1, WithdrawalReturn DEF driverVars, runtimeVars
  <2>2. CASE gor' = [gor EXCEPT ![p].pc = "reserved", ![p].task = TRUE]
    <3>1. /\ Alone(p) /\ gor'[p].pc = "reserved" /\ ~gor'[p].canceled
          /\ gor'[p].shutdown = gor[p].shutdown
      BY <1>0, <2>0, <2>2 DEF Alone, TypeOK, Goroutines, Reserved
    <3>2. Spares(p) /\ Retires(p)
      BY <2>0, <3>1, AloneSpares, RetiresNothing DEF driverVars, runtimeVars
    <3>3. Courteous(p)
      BY <1>0, <2>0, <3>1 DEF Courteous, Moves, driverVars, Reserved
    <3>4. BacksOff(p)
      BY <2>0 DEF BacksOff, driverVars
    <3> QED
      BY <2>0, <3>1, <3>2, <3>3, <3>4, WithdrawalQuiet DEF InAttempt, Past
  <2> QED  BY <1>1, <2>1, <2>2 DEF StartAsyncSpawn
<1>2. CASE AttemptInstall(p)
  <2>0. /\ gor[p].pc = "reserved" /\ Untouched
        /\ UNCHANGED <<retryToken, closed, open, rtQuarantined>>
        /\ gor[p].pc \notin InAttempt \cup PreReservation \cup {"wait"}
        /\ ~ToRetire(p)
    BY <1>2
    DEF AttemptInstall, At, runtimeVars, Untouched, InAttempt, PreReservation,
        ToRetire
  <2>1. CASE Return(p) /\ UNCHANGED activeAttempt
    BY <2>0, <2>1, WithdrawalReturn
  <2>2. CASE Goto(p, "construct") /\ activeAttempt' = p /\ desired = "RUNNING"
    <3>1. /\ Alone(p) /\ gor'[p].pc = "construct" /\ ~gor'[p].canceled
          /\ gor'[p].shutdown = gor[p].shutdown
      BY <1>0, <2>0, <2>2 DEF Goto, Alone, TypeOK, Goroutines, Reserved
    <3>2. Spares(p) /\ Retires(p)
      BY <2>0, <3>1, AloneSpares, RetiresNothing DEF Untouched
    <3>3. Courteous(p)
      BY <2>0, <2>2, <3>1 DEF Courteous, Moves, Untouched, InAttempt
    <3>4. BacksOff(p)
      BY <2>0 DEF BacksOff, Untouched
    <3> QED
      BY <2>0, <2>2, <3>1, <3>2, <3>3, <3>4, WithdrawalQuiet DEF Past
  <2> QED  BY <1>2, <2>1, <2>2 DEF AttemptInstall
<1>3. CASE ConstructReturn(p)
  <2>0. /\ gor[p].pc = "construct" /\ Untouched /\ ~ToRetire(p)
        /\ UNCHANGED <<retryToken, closed, activeAttempt>>
    BY <1>3 DEF ConstructReturn, At, driverVars, Untouched, ToRetire
  <2>1. PICK g \in 0..MaxGenerations, e \in ConstructErrors :
          /\ RuntimeReplace(g, e) \/ RuntimeStart(g, e)
          /\ gor' = [gor EXCEPT ![p].pc = "returned", ![p].gen = g, ![p].res = e]
    BY <1>3 DEF ConstructReturn
  <2>2. /\ Alone(p) /\ gor'[p].pc = "returned" /\ gor'[p].res = e
        /\ gor'[p].op = gor[p].op /\ gor'[p].canceled = gor[p].canceled
        /\ gor'[p].shutdown = gor[p].shutdown
    BY <2>1 DEF Alone, TypeOK, Goroutines
  <2>3. Retires(p)
    <3>1. CASE e = "nil"
      BY <2>2, <3>1 DEF Retires, ToRetire
    <3>2. CASE e # "nil"
      <4>1. /\ open' # 0 => open' = open
            /\ ~rtQuarantined' => ~rtQuarantined
        BY <2>1, <3>2 DEF RuntimeReplace, RuntimeStart, TypeOK, RuntimeTypeOK
      <4>2. \A q \in Procs : StopClosed(q)' => StopClosed(q)
        BY <2>2 DEF StopClosed, Alone
      <4> QED  BY <2>0, <4>1, <4>2 DEF Retires, LeftOpen, Untouched
    <3> QED  BY <3>1, <3>2
  <2> QED  BY <2>0, <2>2, <2>3, WithdrawalWithin DEF InAttempt
<1>4. CASE AttemptCheck(p)
  <2>0. /\ gor[p].pc = "returned" /\ Untouched
        /\ UNCHANGED <<retryToken, closed, activeAttempt, open, rtQuarantined>>
    BY <1>4 DEF AttemptCheck, At, driverVars, runtimeVars, Untouched
  <2>1. /\ Alone(p) /\ gor'[p].pc \in {"retireStale", "hold", "finish"}
        /\ gor'[p].op = gor[p].op /\ gor'[p].canceled = gor[p].canceled
        /\ gor'[p].shutdown = gor[p].shutdown
    BY <1>4 DEF AttemptCheck, Goto, Alone, TypeOK, Goroutines
  <2>2. ASSUME LeftOpen', gor[p].res = "nil" PROVE gor'[p].pc = "retireStale"
    <3>1. LeftOpen
      BY <2>0, <2>1, <2>2 DEF LeftOpen, Untouched, StopClosed, Alone
    <3>2. gor[p].op # 0
      BY <2>0 DEF Ownership, OperationsIdentify, Numbered, InAttempt
    <3>3. Superseded(p)
      BY <3>1, <3>2
      DEF LeftOpen, Superseded, StopClosed, Ownership, OperationsSettle, Settled,
          StopsExclude, InStop
    <3> QED  BY <1>4, <2>2, <3>3 DEF AttemptCheck, Goto, TypeOK, Goroutines
  <2>3. LeftOpen' => LeftOpen
    BY <2>0, <2>1 DEF LeftOpen, Untouched, StopClosed, Alone
  <2>4. Retires(p)
    BY <2>0, <2>2, <2>3 DEF Retires, ToRetire
  <2> QED  BY <2>0, <2>1, <2>4, WithdrawalWithin DEF InAttempt
<1>5. CASE HoldReturn(p)
  <2>0. /\ gor[p].pc = "hold" /\ Untouched /\ ~ToRetire(p)
        /\ UNCHANGED <<retryToken, closed, activeAttempt, open, rtQuarantined>>
    BY <1>5 DEF HoldReturn, At, driverVars, runtimeVars, Untouched, ToRetire
  <2>1. /\ Alone(p) /\ gor'[p].pc \in {"retireStale", "retireHeld", "finish"}
        /\ gor'[p].op = gor[p].op /\ gor'[p].canceled = gor[p].canceled
        /\ gor'[p].shutdown = gor[p].shutdown
    BY <1>5 DEF HoldReturn, Alone, TypeOK, Goroutines
  <2>2. Retires(p)
    BY <2>0, <2>1, AloneSpares, RetiresNothing DEF Untouched
  <2> QED  BY <2>0, <2>1, <2>2, WithdrawalWithin DEF InAttempt
<1>6. CASE FinishAttempt(p)
  <2>1. gor[p].pc \in {"finish", "heldRetired"}
    BY <1>6 DEF FinishAttempt, At
  <2>2. finishAttempt(p, gor[p].gen, gor[p].res, gor[p].replace)
    BY <1>6 DEF FinishAttempt
  <2> QED  BY <2>1, <2>2, WithdrawalFinish
<1>7. CASE RetireStale(p)
  <2>0. /\ gor[p].pc = "retireStale" /\ Untouched
        /\ UNCHANGED <<retryToken, closed, activeAttempt>>
    BY <1>7 DEF RetireStale, At, driverVars, Untouched
  <2>1. PICK e \in StopErrors :
          /\ RuntimeStop(e)
          /\ gor' = [gor EXCEPT ![p].pc = "staleRetired", ![p].res = e]
    BY <1>7 DEF RetireStale
  <2>2. /\ Alone(p) /\ gor'[p].pc = "staleRetired" /\ gor'[p].res = e
        /\ gor'[p].op = gor[p].op /\ gor'[p].canceled = gor[p].canceled
        /\ gor'[p].shutdown = gor[p].shutdown
    BY <2>1 DEF Alone, TypeOK, Goroutines
  <2>3. Retires(p)
    BY <2>0, <2>1, <2>2, StopRetires
  <2> QED  BY <2>0, <2>2, <2>3, WithdrawalWithin DEF InAttempt
<1>8. CASE StaleRetired(p)
  <2>0. /\ gor[p].pc = "staleRetired" /\ gor[p].pc \in InAttempt
        /\ UNCHANGED <<desired, retryToken, closed, activeAttempt, open,
                       rtQuarantined>>
    BY <1>8 DEF StaleRetired, At, runtimeVars, InAttempt
  <2>1. /\ Alone(p) /\ gor'[p].pc = "exit" /\ gor'[p].pc \in InAttempt
        /\ gor'[p].op = gor[p].op /\ gor'[p].canceled = gor[p].canceled
        /\ gor'[p].shutdown = gor[p].shutdown
    BY <1>8 DEF StaleRetired, Goto, Alone, TypeOK, Goroutines, InAttempt
  <2>2. CASE gor[p].res # "nil" \/ rtQuarantined
    <3>1. quarantineLocked
      BY <1>8, <2>2 DEF StaleRetired
    <3> QED  BY <2>0, <2>1, <3>1, WithdrawalQuarantine
  <2>3. CASE ~(gor[p].res # "nil" \/ rtQuarantined)
    <3>1. Untouched /\ ~ToRetire(p)
      BY <1>8, <2>0, <2>3 DEF StaleRetired, Untouched, ToRetire
    <3>2. Retires(p)
      BY <2>0, <2>1, <3>1, AloneSpares, RetiresNothing DEF Untouched
    <3> QED  BY <2>0, <2>1, <3>1, <3>2, WithdrawalWithin
  <2> QED  BY <2>2, <2>3
<1>9. CASE RetireHeld(p)
  <2>0. /\ gor[p].pc = "retireHeld" /\ Untouched /\ ~ToRetire(p)
        /\ UNCHANGED <<retryToken, closed, activeAttempt>>
    BY <1>9 DEF RetireHeld, At, driverVars, Untouched, ToRetire
  <2>1. PICK e \in StopErrors :
          /\ RuntimeStop(e)
          /\ gor' = [gor EXCEPT ![p].pc = "heldRetired", ![p].close = e]
    BY <1>9 DEF RetireHeld
  <2>2. /\ Alone(p) /\ gor'[p].pc = "heldRetired"
        /\ gor'[p].op = gor[p].op /\ gor'[p].canceled = gor[p].canceled
        /\ gor'[p].shutdown = gor[p].shutdown
    BY <2>1 DEF Alone, TypeOK, Goroutines
  <2>3. Retires(p)
    BY <2>0, <2>1, <2>2, StopRetires
  <2> QED  BY <2>0, <2>2, <2>3, WithdrawalWithin DEF InAttempt
<1>10. CASE HeldRetired(p)
  <2>0. gor[p].pc = "heldRetired" /\ gor[p].pc \in InAttempt
    BY <1>10 DEF HeldRetired, At, InAttempt
  <2>1. CASE finishAttempt(p, 0, gor[p].res, FALSE)
    BY <2>0, <2>1, WithdrawalFinish
  <2>2. CASE /\ releaseAttempt(p) /\ quarantineLocked /\ Return(p)
             /\ UNCHANGED <<desired, closed, retryToken>>
    <3>1. activeAttempt' = NoProc
      BY <2>0, <2>2 DEF releaseAttempt, Ownership, AttemptsOwn
    <3>2. Alone(p) /\ gor'[p] = IdleGoroutine
      BY <2>2 DEF Return, Alone, TypeOK
    <3> QED  BY <2>0, <2>2, <3>1, <3>2, WithdrawalQuarantine
  <2> QED  BY <1>10, <2>1, <2>2 DEF HeldRetired
<1>11. CASE AttemptExit(p)
  <2>1. /\ Return(p) /\ Untouched /\ activeAttempt' = NoProc
        /\ UNCHANGED <<open, rtQuarantined, closed, retryToken>>
        /\ ~ToRetire(p) /\ gor[p].pc \notin PreReservation \cup {"wait"}
    BY <1>11
    DEF AttemptExit, At, releaseAttempt, runtimeVars, Untouched, Ownership,
        AttemptsOwn, InAttempt, ToRetire, PreReservation
  <2> QED  BY <2>1, WithdrawalReturn
<1> QED
  BY <1>1, <1>2, <1>3, <1>4, <1>5, <1>6, <1>7, <1>8, <1>9, <1>10, <1>11
  DEF Attempt

LEMMA WithdrawalReserve ==
  ASSUME TypeOK, Ownership, Withdrawal, NEW p \in Procs,
         StartRefuse(p) \/ StartReserve(p) \/ ReplaceRefuse(p) \/ ReplaceReserve(p)
  PROVE  Withdrawal'
<1>0. /\ gor[p].pc \in Sections /\ gor[p].pc # "stopSection"
      /\ ~gor[p].canceled /\ activeAttempt # p /\ ~ToRetire(p)
      /\ gor[p].pc \notin InAttempt
      /\ \A q \in Procs : gor[q].pc # "stopFinish"
  <2>1. gor[p].pc \in Sections /\ gor[p].pc # "stopSection"
    BY DEF StartRefuse, StartReserve, ReplaceRefuse, ReplaceReserve, At, Sections
  <2>2. /\ ~gor[p].canceled /\ activeAttempt # p /\ ~ToRetire(p)
        /\ gor[p].pc \notin InAttempt
    BY <2>1, NoProcAssumption
    DEF Withdrawal, Cancellation, ActiveInAttempt, ToRetire, Sections, InAttempt
  <2>3. \A q \in Procs : gor[q].pc # "stopFinish"
    BY <2>1 DEF Ownership, StopsExclude, Sections, InStop
  <2> QED  BY <2>1, <2>2, <2>3
<1>1. ASSUME observed = "BACKOFF" PROVE activeAttempt = NoProc /\ ~quarantined
  BY <1>1 DEF Ownership, OperationsSettle, Withdrawal, QuarantineSettles
<1>2. CASE StartRefuse(p) \/ ReplaceRefuse(p)
  <2>1. /\ Return(p) /\ Untouched
        /\ UNCHANGED <<open, rtQuarantined, closed, retryToken, activeAttempt>>
    BY <1>2
    DEF StartRefuse, ReplaceRefuse, driverVars, runtimeVars, Untouched
  <2>2. observed = "BACKOFF" => closed
    BY <1>1, <1>2 DEF StartRefuse, ReplaceRefuse, StartRefused, ReplaceRefused
  <2> QED  BY <1>0, <2>1, <2>2, WithdrawalReturn
<1>3. CASE StartReserve(p)
  <2>1. /\ ~closed /\ ~quarantined /\ activeAttempt = NoProc
        /\ UNCHANGED <<closed, open, rtQuarantined, quarantined, retryToken,
                       activeAttempt>>
        /\ desired' = "RUNNING" /\ observed' = "STARTING" /\ effective' = {}
        /\ Moves
    BY <1>3
    DEF StartReserve, StartRefused, runtimeVars, transitionLocked,
        nextOperationLocked, Moves
  <2>2. /\ Alone(p) /\ gor'[p].pc \in {"reserved", "spawn"}
        /\ gor'[p].canceled = gor[p].canceled
        /\ gor'[p].shutdown = gor[p].shutdown
    BY <1>3 DEF StartReserve, Alone, TypeOK, Goroutines
  <2>3. ~gor[p].shutdown
    BY <2>1 DEF Withdrawal, ShutdownsClose
  <2> QED  BY <1>0, <2>1, <2>2, <2>3, WithdrawalDecide
<1>4. CASE ReplaceReserve(p)
  <2>1. /\ ~closed /\ ~quarantined /\ activeAttempt = NoProc
        /\ UNCHANGED <<closed, open, rtQuarantined, quarantined, retryToken,
                       activeAttempt>>
        /\ desired' = "RUNNING" /\ observed' = "STOPPING" /\ effective' = {}
        /\ Moves
    BY <1>4
    DEF ReplaceReserve, ReplaceRefused, transitionLocked, nextOperationLocked, Moves
  <2>2. /\ Alone(p) /\ gor'[p].pc = "reserved"
        /\ gor'[p].canceled = gor[p].canceled
        /\ gor'[p].shutdown = gor[p].shutdown
    BY <1>4 DEF ReplaceReserve, Alone, TypeOK, Goroutines
  <2>3. ~gor[p].shutdown
    BY <2>1 DEF Withdrawal, ShutdownsClose
  <2> QED  BY <1>0, <2>1, <2>2, <2>3, WithdrawalDecide
<1> QED  BY <1>2, <1>3, <1>4

LEMMA WithdrawalRetry ==
  ASSUME TypeOK, Ownership, Withdrawal, NEW p \in Procs, Retry(p)
  PROVE  Withdrawal'
<1>0. gor[p].pc = "wait" /\ gor[p].pc \notin InAttempt /\ ~ToRetire(p)
  BY DEF Retry, RetryFire, RetryGiveUp, At, InAttempt, ToRetire
<1>1. gor[p].canceled => retryToken # p
  BY <1>0 DEF Withdrawal, Cancellation
<1>2. CASE RetryFire(p)
  <2>1. /\ ~closed /\ ~quarantined /\ desired = "RUNNING" /\ observed = "BACKOFF"
        /\ retryToken = p /\ opMu = NoProc
        /\ UNCHANGED <<desired, closed, open, rtQuarantined, quarantined,
                       retryToken, activeAttempt>>
        /\ observed' = "STARTING" /\ effective' = {} /\ Moves
    BY <1>2 DEF RetryFire, RetryCurrent, transitionLocked, runtimeVars, Moves
  <2>2. /\ Alone(p) /\ gor'[p].pc = "reserved"
        /\ gor'[p].canceled = gor[p].canceled
        /\ gor'[p].shutdown = gor[p].shutdown
    BY <1>2 DEF RetryFire, Alone, TypeOK, Goroutines
  <2>3. /\ ~gor[p].shutdown /\ activeAttempt = NoProc
        /\ \A q \in Procs : gor[q].pc # "stopFinish"
    BY <2>1, NoProcAssumption
    DEF Withdrawal, ShutdownsClose, Ownership, OperationsSettle, StopsExclude, InStop
  <2> QED  BY <1>1, <2>1, <2>2, <2>3, WithdrawalDecide
<1>3. CASE RetryGiveUp(p)
  <2>1. /\ Return(p) /\ Untouched
        /\ UNCHANGED <<open, rtQuarantined, closed, retryToken, activeAttempt>>
    BY <1>3 DEF RetryGiveUp, driverVars, runtimeVars, Untouched
  <2>2. observed = "BACKOFF" /\ ~closed
          => retryToken # p \/ gor[p].op # activeOperation
    <3>1. observed = "BACKOFF" => desired = "RUNNING" /\ ~quarantined
      BY DEF Withdrawal, BackoffIsWanted, QuarantineSettles
    <3> QED  BY <1>1, <1>3, <3>1 DEF RetryGiveUp, RetryCurrent
  <2> QED  BY <1>0, <2>1, <2>2, WithdrawalReturn
<1> QED  BY <1>2, <1>3 DEF Retry

(* Who a cancelRetry over a goroutine table cancels. *)
LEMMA CancelRetrySpares ==
  ASSUME TypeOK, NEW table \in [Procs -> Goroutines], CancelRetry(table)
  PROVE  /\ retryToken' = NoProc
         /\ \A q \in Procs :
               /\ gor'[q].pc = table[q].pc
               /\ gor'[q].op = table[q].op
               /\ gor'[q].res = table[q].res
               /\ gor'[q].close = table[q].close
               /\ gor'[q].shutdown = table[q].shutdown
               /\ gor'[q].canceled = table[q].canceled \/ table[q].pc = "wait"
  BY NoProcAssumption DEF CancelRetry, TypeOK, Goroutines

LEMMA CancelAttemptSpares ==
  ASSUME TypeOK, NEW table \in [Procs -> Goroutines]
  PROVE  \A q \in Procs :
            /\ CancelAttempt(table)[q].pc = table[q].pc
            /\ CancelAttempt(table)[q].op = table[q].op
            /\ CancelAttempt(table)[q].res = table[q].res
            /\ CancelAttempt(table)[q].close = table[q].close
            /\ CancelAttempt(table)[q].shutdown = table[q].shutdown
            /\ CancelAttempt(table)[q].canceled
                 = IF q = activeAttempt THEN TRUE ELSE table[q].canceled
  BY NoProcAssumption DEF CancelAttempt, TypeOK, Goroutines

(* cancelRetry, and the move of its caller to a label before its decision. *)
LEMMA WithdrawalCall ==
  ASSUME TypeOK, Ownership, Withdrawal, NEW p \in Procs,
         gor[p].pc \notin InAttempt \cup {"wait"},
         NEW label \in PreReservation \ {"shutdownCancel"},
         CancelRetry([gor EXCEPT ![p].pc = label]),
         Untouched, UNCHANGED <<open, rtQuarantined, closed, activeAttempt>>
  PROVE  Withdrawal'
<1> DEFINE table == [gor EXCEPT ![p].pc = label]
<1>1. table \in [Procs -> Goroutines]
  BY GotoType DEF TypeOK, PCs
<1>2. /\ \A q \in Procs \ {p} : table[q] = gor[q]
      /\ table[p].pc = label /\ table[p].canceled = gor[p].canceled
      /\ table[p].shutdown = gor[p].shutdown
  BY DEF TypeOK, Goroutines
<1>3. CancelRetry(table)
  OBVIOUS
<1> HIDE DEF table
<1>4. /\ retryToken' = NoProc
      /\ \A q \in Procs :
            /\ gor'[q].pc = table[q].pc
            /\ gor'[q].op = table[q].op
            /\ gor'[q].res = table[q].res
            /\ gor'[q].close = table[q].close
            /\ gor'[q].shutdown = table[q].shutdown
            /\ gor'[q].canceled = table[q].canceled \/ table[q].pc = "wait"
  BY <1>1, <1>3, CancelRetrySpares
<1>5. ~gor[p].canceled /\ activeAttempt # p /\ ~ToRetire(p)
  BY NoProcAssumption
  DEF Withdrawal, Cancellation, ActiveInAttempt, ToRetire, InAttempt
<1>6. Spares(p)
  BY <1>2, <1>4 DEF Spares
<1>7. /\ gor'[p].pc = label /\ ~gor'[p].canceled
      /\ gor'[p].shutdown = gor[p].shutdown
  BY <1>2, <1>4, <1>5 DEF PreReservation
<1>8. Courteous(p)
  BY <1>4, <1>5, <1>7 DEF Courteous, Moves, Untouched, PreReservation
<1>9. Retires(p)
  BY <1>5, <1>6, <1>7, RetiresNothing DEF Untouched, PreReservation
<1>10. BacksOff(p)
  BY <1>7 DEF BacksOff
<1> QED
  BY <1>6, <1>7, <1>8, <1>9, <1>10, WithdrawalQuiet
  DEF PreReservation, InAttempt, Past

(* The section of a stop: its intent, and the capture of the attempt. *)
LEMMA WithdrawalSection ==
  ASSUME TypeOK, Ownership, Withdrawal, NEW p \in Procs,
         gor[p].pc = "stopSection", NEW label \in {"report", "stopRuntime"},
         NEW class,
         \/ gor' = [CancelAttempt(gor) EXCEPT ![p].pc = label]
         \/ gor' = [CancelAttempt(gor) EXCEPT ![p].pc = label, ![p].close = class],
         UNCHANGED <<closed, open, rtQuarantined, quarantined, retryToken,
                     activeAttempt>>,
         Moves,
         \A q \in Procs :
            gor[q].pc \in InAttempt => gor[q].op # activeOperation',
         desired' = "STOPPED", observed' \in Ended,
         observed' \in {"STOPPED", "DISABLED"}
            => observed \in {"STOPPED", "DISABLED"},
         WorkIsPublished', QuarantineSettles'
  PROVE  Withdrawal'
<1>0. ~gor[p].canceled /\ activeAttempt # p /\ ~ToRetire(p)
  BY NoProcAssumption
  DEF Withdrawal, Cancellation, ActiveInAttempt, ToRetire, InAttempt
<1> DEFINE table == CancelAttempt(gor)
<1>1. table \in [Procs -> Goroutines]
  BY CancelAttemptType DEF TypeOK
<1>2. \A q \in Procs :
         /\ table[q].pc = gor[q].pc /\ table[q].op = gor[q].op
         /\ table[q].res = gor[q].res /\ table[q].close = gor[q].close
         /\ table[q].shutdown = gor[q].shutdown
         /\ table[q].canceled = IF q = activeAttempt THEN TRUE ELSE gor[q].canceled
  BY CancelAttemptSpares DEF TypeOK
<1> HIDE DEF table
<1>3. /\ \A q \in Procs \ {p} : gor'[q] = table[q]
      /\ gor'[p].pc = label /\ gor'[p].canceled = table[p].canceled
      /\ gor'[p].shutdown = table[p].shutdown
  <2>1. CASE gor' = [table EXCEPT ![p].pc = label]
    BY <1>1, <2>1 DEF Goroutines
  <2>2. CASE gor' = [table EXCEPT ![p].pc = label, ![p].close = class]
    BY <1>1, <2>2 DEF Goroutines
  <2> QED  BY <2>1, <2>2 DEF table
<1>4. \A q \in Procs : q = activeAttempt => gor[q].pc \in InAttempt
  BY NoProcAssumption DEF Withdrawal, ActiveInAttempt
<1>5. Spares(p)
  <2> SUFFICES ASSUME NEW q \in Procs \ {p}
               PROVE  /\ gor'[q].pc = gor[q].pc /\ gor'[q].op = gor[q].op
                      /\ gor'[q].res = gor[q].res /\ gor'[q].close = gor[q].close
                      /\ gor'[q].shutdown = gor[q].shutdown
                      /\ \/ gor'[q].canceled = gor[q].canceled
                         \/ /\ gor[q].pc \in InAttempt /\ gor'[q].canceled
                            /\ gor[q].op # activeOperation'
    BY DEF Spares
  <2>1. gor'[q] = table[q]
    BY <1>3
  <2>2. CASE q = activeAttempt
    BY <1>2, <1>4, <2>1, <2>2
  <2>3. CASE q # activeAttempt
    BY <1>2, <2>1, <2>3
  <2> QED  BY <2>2, <2>3
<1>6. ~gor'[p].canceled /\ gor'[p].shutdown = gor[p].shutdown
  BY <1>0, <1>2, <1>3
<1>7. Courteous(p)
  BY <1>0, <1>3, <1>6 DEF Courteous
<1>8. Withdrawn'
  <2>1. ASSUME NEW q \in Procs, gor'[q].pc \in InAttempt PROVE gor'[q].canceled
    <3>1. q # p
      BY <1>3, <2>1 DEF InAttempt
    <3>2. q = activeAttempt
      BY <1>2, <1>3, <2>1, <3>1 DEF Ownership, AttemptsOwn
    <3> QED  BY <1>2, <1>3, <3>1, <3>2
  <2> QED  BY <2>1 DEF Withdrawn
<1>9. StaysWithdrawn(p)
  BY <1>3, <1>8 DEF StaysWithdrawn, InAttempt
<1>10. BacksOff(p) /\ BackoffIsWanted'
  BY DEF BacksOff, BackoffIsWanted, Ended
<1>11. Retires(p)
  BY <1>0, <1>3, <1>5, RetiresNothing
<1> QED  BY <1>5, <1>7, <1>9, <1>10, <1>11, WithdrawalFrame

LEMMA WithdrawalStopping ==
  ASSUME TypeOK, Ownership, Withdrawal, NEW p \in Procs, Stopping(p)
  PROVE  Withdrawal'
<1>1. \A q \in Procs : gor[q].pc \in InAttempt => /\ gor[q].op # 0
                                                  /\ gor[q].op # operationSeq + 1
  <2>1. operationSeq \in Nat /\ \A q \in Procs : gor[q].op \in Nat
    BY DEF TypeOK, Goroutines
  <2> QED  BY <2>1 DEF Ownership, OperationsIdentify, Numbered
<1>2. CASE StopQuarantined(p)
  <2>1. /\ gor[p].pc = "stopSection" /\ quarantined /\ desired' = "STOPPED"
        /\ ReportClose(p, CancelAttempt(gor), "UNCONFIRMED")
        /\ UNCHANGED <<closed, open, rtQuarantined, quarantined, retryToken,
                       activeAttempt, activeOperation>>
    BY <1>2 DEF StopQuarantined, At, runtimeVars
  <2>2. observed \in {"STOPPED", "FAILED"} /\ activeOperation = 0
    BY <2>1 DEF Withdrawal, QuarantineSettles, Ownership, OperationsSettle
  <2>3. \/ observed' = "FAILED" /\ effective' = {}
        \/ UNCHANGED <<observed, effective>>
    BY <1>2 DEF StopQuarantined, transitionLocked
  <2>4. WorkIsPublished' /\ QuarantineSettles' /\ observed' \in Ended /\ Moves
    BY <2>1, <2>2, <2>3
    DEF Withdrawal, WorkIsPublished, QuarantineSettles, Running, Ended, Moves
  <2>5. observed' \in {"STOPPED", "DISABLED"} => observed \in {"STOPPED", "DISABLED"}
    BY <2>3
  <2> QED
    BY <1>1, <2>1, <2>2, <2>4, <2>5, WithdrawalSection DEF ReportClose
<1>3. CASE StopNothing(p)
  <2>1. /\ gor[p].pc = "stopSection" /\ ~quarantined /\ desired' = "STOPPED"
        /\ observed \in {"STOPPED", "DISABLED"}
        /\ UNCHANGED <<closed, open, rtQuarantined, quarantined, retryToken,
                       activeAttempt, activeOperation, observed, effective>>
    BY <1>3 DEF StopNothing, At, runtimeVars
  <2>2. PICK class : ReportClose(p, CancelAttempt(gor), class)
    BY <1>3 DEF StopNothing
  <2>3. activeOperation = 0
    BY <2>1 DEF Ownership, OperationsSettle, Settled
  <2>4. WorkIsPublished' /\ QuarantineSettles' /\ observed' \in Ended /\ Moves
    BY <2>1
    DEF Withdrawal, WorkIsPublished, QuarantineSettles, Running, Ended, Moves
  <2> QED
    BY <1>1, <2>1, <2>2, <2>3, <2>4, WithdrawalSection DEF ReportClose
<1>4. CASE StopWithdraw(p)
  <2>1. /\ gor[p].pc = "stopSection" /\ ~quarantined /\ desired' = "STOPPED"
        /\ observed' = "STOPPING" /\ effective' = {}
        /\ activeOperation' = operationSeq + 1
        /\ gor' = [CancelAttempt(gor) EXCEPT ![p].pc = "stopRuntime"]
        /\ UNCHANGED <<closed, open, rtQuarantined, quarantined, retryToken,
                       activeAttempt>>
    BY <1>4 DEF StopWithdraw, At, transitionLocked, nextOperationLocked
  <2>2. WorkIsPublished' /\ QuarantineSettles' /\ observed' \in Ended /\ Moves
    BY <2>1 DEF WorkIsPublished, QuarantineSettles, Ended, Moves
  <2> QED  BY <1>1, <2>1, <2>2, WithdrawalSection
<1>5. ASSUME gor[p].pc \in Past
      PROVE  /\ ~gor[p].canceled /\ activeAttempt # p /\ ~ToRetire(p)
             /\ gor[p].pc \notin InAttempt \cup PreReservation \cup {"wait"}
  BY <1>5, NoProcAssumption
  DEF Withdrawal, Cancellation, ActiveInAttempt, ToRetire, InAttempt, Past,
      PreReservation
<1>6. CASE StopRuntime(p)
  <2>0. /\ gor[p].pc \in Past /\ Untouched
        /\ UNCHANGED <<retryToken, closed, activeAttempt>>
    BY <1>6 DEF StopRuntime, At, Past, driverVars, Untouched
  <2>1. PICK e \in StopErrors :
          /\ RuntimeStop(e)
          /\ gor' = [gor EXCEPT ![p].pc = "stopFinish", ![p].close = e]
    BY <1>6 DEF StopRuntime
  <2>2. /\ Alone(p) /\ gor'[p].pc = "stopFinish" /\ gor'[p].close = e
        /\ gor'[p].canceled = gor[p].canceled
        /\ gor'[p].shutdown = gor[p].shutdown
    BY <2>1 DEF Alone, TypeOK, Goroutines
  <2>3. Spares(p) /\ Retires(p)
    BY <1>5, <2>0, <2>1, <2>2, AloneSpares, StopRetires
  <2>4. Courteous(p)
    BY <1>5, <2>0, <2>2 DEF Courteous, Moves, Untouched
  <2>5. BacksOff(p)
    BY <1>5, <2>0 DEF BacksOff, Untouched
  <2> QED
    BY <2>0, <2>2, <2>3, <2>4, <2>5, WithdrawalQuiet DEF InAttempt
<1>7. CASE StopFinish(p)
  <2>0. /\ gor[p].pc = "stopFinish" /\ gor[p].pc \in Past /\ gor[p].pc \in InStop
        /\ activeOperation' = 0
        /\ UNCHANGED <<desired, retryToken, closed, activeAttempt, open,
                       rtQuarantined>>
    BY <1>7 DEF StopFinish, At, Past, InStop, runtimeVars
  <2>1. /\ Alone(p) /\ gor'[p].pc = "report"
        /\ gor'[p].canceled = gor[p].canceled
        /\ gor'[p].shutdown = gor[p].shutdown
    BY <1>7 DEF StopFinish, ReportClose, Alone, TypeOK, Goroutines
  <2>2. \/ /\ StopClosed(p) /\ observed' = "STOPPED" /\ UNCHANGED quarantined
        \/ observed' = "FAILED" /\ (quarantined => quarantined')
    BY <1>7, <2>0 DEF StopFinish, transitionLocked, StopClosed
  <2>3. effective' = {} /\ desired = "STOPPED"
    BY <1>7, <2>0 DEF StopFinish, transitionLocked, Ownership, StopsExclude
  <2>4. Spares(p)
    BY <2>1, AloneSpares
  <2>5. Retires(p)
    <3>1. \A q \in Procs : StopClosed(q)' => StopClosed(q)
      BY <2>1 DEF StopClosed, Alone
    <3> QED  BY <1>5, <2>0, <2>2, <3>1 DEF Retires, LeftOpen
  <2>6. Courteous(p)
    BY <1>5, <2>0, <2>1 DEF Courteous, Moves
  <2>7. StaysWithdrawn(p) /\ BacksOff(p)
    BY <2>0, <2>1, <2>2, <2>3 DEF StaysWithdrawn, BacksOff, Ended, InAttempt
  <2>8. WorkIsPublished' /\ QuarantineSettles' /\ BackoffIsWanted'
    BY <2>2, <2>3 DEF WorkIsPublished, QuarantineSettles, BackoffIsWanted
  <2> QED  BY <2>4, <2>5, <2>6, <2>7, <2>8, WithdrawalFrame
<1>8. CASE StopReturn(p) \/ ShutdownReturn(p)
  <2>0. /\ gor[p].pc \in Past /\ Untouched
        /\ UNCHANGED <<retryToken, closed, activeAttempt, open, rtQuarantined>>
    BY <1>8
    DEF StopReturn, ShutdownReturn, At, Past, driverVars, runtimeVars, Untouched
  <2>1. CASE Return(p)
    BY <1>5, <2>0, <2>1, WithdrawalReturn
  <2>2. CASE /\ gor[p].shutdown
             /\ gor' = [gor EXCEPT ![p] = [IdleGoroutine EXCEPT !.pc = "awaitTasks",
                                                               !.shutdown = TRUE]]
    <3>1. /\ Alone(p) /\ gor'[p].pc = "awaitTasks"
          /\ ~gor'[p].canceled /\ gor'[p].shutdown
      BY <2>2 DEF Alone, TypeOK, IdleGoroutine
    <3>2. Spares(p)
      BY <3>1, AloneSpares
    <3>3. Retires(p)
      BY <1>5, <2>0, <3>1, <3>2, RetiresNothing DEF Untouched
    <3>4. Courteous(p)
      BY <1>5, <2>0, <2>2, <3>1 DEF Courteous, Moves, Untouched
    <3>5. BacksOff(p)
      BY <1>5, <2>0 DEF BacksOff, Untouched
    <3> QED
      BY <2>0, <2>2, <3>1, <3>2, <3>3, <3>4, <3>5, WithdrawalQuiet DEF InAttempt
  <2> QED  BY <1>8, <2>1, <2>2 DEF StopReturn, ShutdownReturn
<1>9. CASE ShutdownCancel(p)
  <2>0. /\ gor[p].pc = "shutdownCancel" /\ Untouched
        /\ UNCHANGED <<closed, activeAttempt, open, rtQuarantined>>
        /\ CancelRetry(CancelAttempt([gor EXCEPT ![p].pc = "stopWait"]))
    BY <1>9 DEF ShutdownCancel, At, runtimeVars, Untouched
  <2>1. /\ ~gor[p].canceled /\ activeAttempt # p /\ ~ToRetire(p) /\ closed
        /\ \A q \in Procs : q = activeAttempt => gor[q].pc \in InAttempt
    BY <2>0, NoProcAssumption
    DEF Withdrawal, Cancellation, ActiveInAttempt, ShutdownsClose, ToRetire, InAttempt
  <2> DEFINE moved == [gor EXCEPT ![p].pc = "stopWait"]
             table == CancelAttempt(moved)
  <2>2. moved \in [Procs -> Goroutines]
    BY GotoType DEF TypeOK, PCs, PreReservation
  <2>3. /\ \A q \in Procs \ {p} : moved[q] = gor[q]
        /\ moved[p].pc = "stopWait" /\ moved[p].canceled = gor[p].canceled
        /\ moved[p].shutdown = gor[p].shutdown
    BY DEF TypeOK, Goroutines
  <2> HIDE DEF moved
  <2>4. table \in [Procs -> Goroutines]
    BY <2>2, CancelAttemptType DEF TypeOK
  <2>5. \A q \in Procs :
           /\ table[q].pc = moved[q].pc /\ table[q].op = moved[q].op
           /\ table[q].res = moved[q].res /\ table[q].close = moved[q].close
           /\ table[q].shutdown = moved[q].shutdown
           /\ table[q].canceled = IF q = activeAttempt THEN TRUE ELSE moved[q].canceled
    BY <2>2, CancelAttemptSpares
  <2>6. CancelRetry(table)
    BY <2>0 DEF moved
  <2> HIDE DEF table
  <2>7. /\ retryToken' = NoProc
        /\ \A q \in Procs :
              /\ gor'[q].pc = table[q].pc /\ gor'[q].op = table[q].op
              /\ gor'[q].res = table[q].res /\ gor'[q].close = table[q].close
              /\ gor'[q].shutdown = table[q].shutdown
              /\ gor'[q].canceled = table[q].canceled \/ table[q].pc = "wait"
    BY <2>4, <2>6, CancelRetrySpares
  <2>8. Spares(p)
    <3> SUFFICES ASSUME NEW q \in Procs \ {p}
                 PROVE  /\ gor'[q].pc = gor[q].pc /\ gor'[q].op = gor[q].op
                        /\ gor'[q].res = gor[q].res /\ gor'[q].close = gor[q].close
                        /\ gor'[q].shutdown = gor[q].shutdown
                        /\ \/ gor'[q].canceled = gor[q].canceled
                           \/ gor[q].pc = "wait" /\ retryToken' = NoProc
                           \/ /\ gor[q].pc \in InAttempt /\ gor'[q].canceled
                              /\ closed' \/ gor[q].op # activeOperation'
      BY DEF Spares
    <3>1. moved[q] = gor[q] /\ q \in Procs
      BY <2>3
    <3>2. /\ table[q].pc = gor[q].pc /\ table[q].op = gor[q].op
          /\ table[q].res = gor[q].res /\ table[q].close = gor[q].close
          /\ table[q].shutdown = gor[q].shutdown
          /\ table[q].canceled = IF q = activeAttempt THEN TRUE ELSE gor[q].canceled
      BY <2>5, <3>1
    <3>3. /\ gor'[q].pc = gor[q].pc /\ gor'[q].op = gor[q].op
          /\ gor'[q].res = gor[q].res /\ gor'[q].close = gor[q].close
          /\ gor'[q].shutdown = gor[q].shutdown /\ retryToken' = NoProc
      BY <2>7, <3>1, <3>2
    <3>4. CASE gor[q].pc = "wait"
      BY <3>3, <3>4
    <3>5. CASE q = activeAttempt /\ gor[q].pc # "wait"
      <4>1. gor[q].pc \in InAttempt /\ closed'
        BY <2>0, <2>1, <3>1, <3>5
      <4>2. gor'[q].canceled = TRUE
        BY <2>7, <3>1, <3>2, <3>5
      <4> QED  BY <3>3, <4>1, <4>2
    <3>6. CASE q # activeAttempt /\ gor[q].pc # "wait"
      <4>1. gor'[q].canceled = gor[q].canceled
        BY <2>7, <3>1, <3>2, <3>6
      <4> QED  BY <3>3, <4>1
    <3> QED  BY <3>4, <3>5, <3>6
  <2>9. /\ gor'[p].pc = "stopWait" /\ ~gor'[p].canceled
        /\ gor'[p].shutdown = gor[p].shutdown
    BY <2>1, <2>3, <2>5, <2>7
  <2>10. Courteous(p)
    BY <2>0, <2>1, <2>7, <2>9 DEF Courteous, Moves, Untouched
  <2>11. Retires(p)
    BY <2>0, <2>1, <2>8, <2>9, RetiresNothing DEF Untouched
  <2>12. BacksOff(p)
    BY <2>9 DEF BacksOff, PreReservation
  <2> QED
    BY <2>0, <2>8, <2>9, <2>10, <2>11, <2>12, WithdrawalQuiet DEF InAttempt, Past
<1> QED
  BY <1>2, <1>3, <1>4, <1>6, <1>7, <1>8, <1>9 DEF Stopping

LEMMA WithdrawalEnvironment ==
  ASSUME TypeOK, Ownership, Withdrawal, Environment
  PROVE  Withdrawal'
<1>0. ASSUME NEW p \in Procs, gor[p].pc \in {"idle", "awaitTasks"}
      PROVE  /\ ~gor[p].canceled /\ activeAttempt # p /\ ~ToRetire(p)
             /\ gor[p].pc \notin InAttempt \cup PreReservation \cup {"wait"}
  BY <1>0, NoProcAssumption
  DEF Withdrawal, Cancellation, ActiveInAttempt, ToRetire, InAttempt, PreReservation
<1>1. ASSUME NEW p \in Procs,
             StartCall(p) \/ StartAsyncCall(p) \/ ReplaceCall(p) \/ StopCall(p)
      PROVE  Withdrawal'
  <2>1. PICK label \in PreReservation \ {"shutdownCancel"} : Call(p, label)
    BY <1>1 DEF StartCall, StartAsyncCall, ReplaceCall, StopCall, PreReservation
  <2>2. /\ gor[p].pc = "idle" /\ CancelRetry([gor EXCEPT ![p].pc = label])
        /\ Untouched /\ UNCHANGED <<open, rtQuarantined, closed, activeAttempt>>
    BY <2>1 DEF Call, At, Untouched, runtimeVars
  <2> QED  BY <1>0, <2>2, WithdrawalCall
<1>2. ASSUME NEW p \in Procs, ShutdownCall(p) PROVE Withdrawal'
  <2>1. /\ gor[p].pc = "idle" /\ closed' /\ Untouched
        /\ UNCHANGED <<retryToken, activeAttempt, open, rtQuarantined>>
    BY <1>2 DEF ShutdownCall, At, driverVars, runtimeVars, Untouched
  <2>2. /\ Alone(p) /\ gor'[p].pc = "shutdownCancel" /\ gor'[p].shutdown
        /\ gor'[p].canceled = gor[p].canceled
    BY <1>2 DEF ShutdownCall, Alone, TypeOK, Goroutines
  <2>3. Spares(p)
    BY <2>2, AloneSpares
  <2>4. Courteous(p) /\ BacksOff(p)
    BY <1>0, <2>1, <2>2 DEF Courteous, BacksOff, Moves, Untouched
  <2>5. Retires(p)
    BY <1>0, <2>1, <2>2, <2>3, RetiresNothing DEF Untouched
  <2> QED
    BY <2>1, <2>2, <2>3, <2>4, <2>5, WithdrawalQuiet DEF InAttempt, Past
<1>3. ASSUME NEW p \in Procs, ShutdownAbandon(p) PROVE Withdrawal'
  <2>1. /\ gor[p].pc = "awaitTasks" /\ Return(p) /\ Untouched
        /\ UNCHANGED <<retryToken, closed, activeAttempt, open, rtQuarantined>>
    BY <1>3 DEF ShutdownAbandon, At, driverVars, runtimeVars, Untouched
  <2> QED  BY <1>0, <2>1, WithdrawalReturn
<1>4. ASSUME NEW p \in Procs, NEW c \in Capabilities, Invoke(p, c)
      PROVE  Withdrawal'
  <2>1. /\ gor[p].pc = "idle" /\ Untouched
        /\ UNCHANGED <<retryToken, closed, activeAttempt, open, rtQuarantined>>
    BY <1>4 DEF Invoke, Admit, At, driverVars, Untouched
  <2>2. /\ Alone(p) /\ gor'[p].pc = "invoking"
        /\ gor'[p].shutdown = gor[p].shutdown
        /\ gor'[p].canceled = gor[p].canceled
    BY <1>4 DEF Invoke, Goto, Alone, TypeOK, Goroutines
  <2>3. Spares(p)
    BY <2>2, AloneSpares
  <2>4. Courteous(p) /\ BacksOff(p)
    BY <1>0, <2>1, <2>2 DEF Courteous, BacksOff, Moves, Untouched
  <2>5. Retires(p)
    BY <1>0, <2>1, <2>2, <2>3, RetiresNothing DEF Untouched
  <2> QED
    BY <2>1, <2>2, <2>3, <2>4, <2>5, WithdrawalQuiet DEF InAttempt, Past
<1>5. ASSUME NEW p \in Procs, NEW g, NEW r, ReportFailure(p, g, r)
      PROVE  Withdrawal'
  <2>1. /\ gor[p].pc = "idle" /\ ~closed /\ ~quarantined /\ desired = "RUNNING"
        /\ UNCHANGED <<desired, closed, open, rtQuarantined, quarantined,
                       activeAttempt>>
        /\ Running
    BY <1>5 DEF ReportFailure, At, acceptsCallbackLocked, Running
  <2>2. /\ activeAttempt = NoProc /\ ~gor[p].shutdown
        /\ \A q \in Procs : gor[q].pc # "stopFinish"
    BY <2>1 DEF Ownership, OperationsSettle, StopsExclude, InStop, Withdrawal,
                ShutdownsClose
  <2>3. CASE scheduleRetryLocked(p, operationSeq + 1, TRUE, Budget)
             /\ activeOperation' = operationSeq + 1
    <3>1. observed' = "BACKOFF" /\ effective' = {} /\ retryToken' = p /\ Moves
      BY <2>3 DEF scheduleRetryLocked, transitionLocked, Moves
    <3>2. /\ Alone(p) /\ gor'[p].pc = "wait" /\ gor'[p].op = operationSeq + 1
          /\ ~gor'[p].canceled /\ ~gor'[p].shutdown
      BY <2>3 DEF scheduleRetryLocked, Alone, TypeOK, IdleGoroutine
    <3> QED  BY <2>1, <2>2, <2>3, <3>1, <3>2, WithdrawalDecide
  <2>4. CASE /\ activeOperation' = 0 /\ transitionLocked("FAILED", {})
             /\ UNCHANGED <<retryToken, gor>>
    <3>1. observed' = "FAILED" /\ effective' = {} /\ Moves /\ Alone(p)
      BY <2>4 DEF transitionLocked, Moves, Alone
    <3> QED  BY <1>0, <2>1, <2>2, <2>4, <3>1, WithdrawalDecide
  <2> QED  BY <1>5, <2>3, <2>4 DEF ReportFailure
<1>6. ASSUME \/ BindHooks
             \/ \E g \in 1..MaxGenerations, caps \in SUBSET Capabilities :
                   ReportDegraded(g, caps)
      PROVE  Withdrawal'
  <2>1. /\ UNCHANGED <<desired, quarantined, activeOperation, retryToken,
                       activeAttempt, open, rtQuarantined, closed, gor>>
        /\ \/ UNCHANGED <<observed, effective>>
           \/ Running /\ observed' = "DEGRADED"
    BY <1>6 DEF BindHooks, ReportDegraded, transitionLocked, runtimeVars, Running
  <2>2. Running /\ quarantined => FALSE
    BY DEF Withdrawal, QuarantineSettles, Running
  <2>3. Cancellation' /\ ActiveInAttempt' /\ ShutdownsClose'
    BY <2>1 DEF Withdrawal, Cancellation, ActiveInAttempt, ShutdownsClose
  <2>4. WorkIsPublished' /\ QuarantineSettles' /\ BackoffIsWanted' /\ BackoffIsOwned'
    BY <2>1, <2>2
    DEF Withdrawal, WorkIsPublished, QuarantineSettles, BackoffIsWanted,
        BackoffIsOwned, At, Running
  <2>5. ShutdownWithdraws'
    BY <2>1
    DEF Withdrawal, ShutdownWithdraws, Withdrawn, Ended, Running
  <2>6. StopClears'
    BY <2>1 DEF Withdrawal, StopClears, LeftOpen, ToRetire, StopClosed
  <2> QED  BY <2>3, <2>4, <2>5, <2>6 DEF Withdrawal
<1> QED
  BY <1>1, <1>2, <1>3, <1>4, <1>5, <1>6 DEF Environment

LEMMA WithdrawalInit == Init => Withdrawal
<1> SUFFICES ASSUME Init PROVE Withdrawal
  OBVIOUS
<1>1. \A p \in Procs : /\ gor[p].pc = "idle" /\ ~gor[p].canceled
                       /\ ~gor[p].shutdown
  BY DEF Init, IdleGoroutine
<1>2. /\ activeAttempt = NoProc /\ effective = {} /\ ~quarantined /\ open = 0
      /\ observed # "BACKOFF"
  BY DEF Init, RuntimeInit
<1> QED
  BY <1>1, <1>2
  DEF Withdrawal, Cancellation, ActiveInAttempt, WorkIsPublished,
      QuarantineSettles, BackoffIsWanted, BackoffIsOwned, ShutdownsClose,
      ShutdownWithdraws, Past, StopClears, LeftOpen

LEMMA WithdrawalNext ==
  TypeOK /\ Ownership /\ Withdrawal /\ [Next]_vars => Withdrawal'
<1> SUFFICES ASSUME TypeOK, Ownership, Withdrawal, [Next]_vars PROVE Withdrawal'
  OBVIOUS
<1>1. ASSUME NEW p \in Procs, Locking(p) PROVE Withdrawal'
  <2>1. PICK waiting \in PreReservation,
             section \in PreReservation \ {"shutdownCancel"} :
          Lock(p, waiting, section)
    BY <1>1
    DEF Locking, StartLock, StartAsyncLock, ReplaceLock, StopLock, PreReservation
  <2>2. /\ gor[p].pc \notin InAttempt \cup {"wait"}
        /\ CancelRetry([gor EXCEPT ![p].pc = section])
        /\ Untouched /\ UNCHANGED <<open, rtQuarantined, closed, activeAttempt>>
    BY <2>1 DEF Lock, At, Untouched, runtimeVars, PreReservation, InAttempt
  <2> QED  BY <2>2, WithdrawalCall
<1>2. ASSUME NEW p \in Procs, InvokeReturn(p) PROVE Withdrawal'
  <2>1. /\ gor[p].pc = "invoking" /\ Return(p) /\ Untouched
        /\ UNCHANGED <<retryToken, closed, activeAttempt, open, rtQuarantined>>
    BY <1>2 DEF InvokeReturn, Release, At, driverVars, Untouched
  <2>2. /\ ~ToRetire(p)
        /\ gor[p].pc \notin InAttempt \cup PreReservation \cup {"wait"}
    BY <2>1 DEF ToRetire, InAttempt, PreReservation
  <2> QED  BY <2>1, <2>2, WithdrawalReturn
<1>3. ASSUME NEW p \in Procs, Step(p) PROVE Withdrawal'
  BY <1>2, <1>3, WithdrawalReserve, WithdrawalAttempt, WithdrawalStopping DEF Step
<1>4. CASE UNCHANGED vars
  <2>1. UNCHANGED <<desired, observed, effective, quarantined, activeOperation,
                    retryToken, activeAttempt, open, rtQuarantined, closed, gor>>
    BY <1>4 DEF vars, driverVars, runtimeVars
  <2> QED
    BY <2>1
    DEF Withdrawal, Cancellation, ActiveInAttempt, WorkIsPublished, Running,
        QuarantineSettles, BackoffIsWanted, BackoffIsOwned, At, ShutdownsClose,
        ShutdownWithdraws, Withdrawn, StopClears, LeftOpen, ToRetire, StopClosed
<1> QED
  BY <1>1, <1>3, <1>4, WithdrawalRetry, WithdrawalEnvironment DEF Next

(* Cancellation, withdrawal and retirement keep their invariant in every   *)
(* behaviour.                                                              *)
THEOREM WithdrawalHolds == Spec => []Withdrawal
<1>1. Init => Withdrawal
  BY WithdrawalInit
<1>2. IndInv /\ Withdrawal /\ [Next]_vars => Withdrawal'
  BY WithdrawalNext DEF IndInv
<1> QED  BY <1>1, <1>2, Inductive, PTL DEF Spec

(* LIFE-07: a stopped driver without a construction in flight has left     *)
(* nothing open, unless it is quarantined; a driver in BACKOFF is never    *)
(* stranded; and a Shutdown that waits for its tasks has withdrawn the     *)
(* driver for good.                                                        *)
THEOREM NothingAbandoned == Spec => []NoAbandonedProvider
<1>1. IndInv /\ Withdrawal => NoAbandonedProvider
  <2> SUFFICES ASSUME IndInv, Withdrawal PROVE NoAbandonedProvider
    OBVIOUS
  <2>1. ASSUME observed \in {"STOPPED", "DISABLED"}, activeAttempt = NoProc
        PROVE  open = 0 \/ quarantined \/ rtQuarantined
    <3> SUFFICES ASSUME LeftOpen PROVE FALSE
      BY <2>1 DEF LeftOpen
    <3>1. PICK p \in Procs : ToRetire(p)
      BY DEF Withdrawal, StopClears
    <3>2. gor[p].pc \in InAttempt
      BY <3>1 DEF ToRetire, InAttempt
    <3> QED  BY <2>1, <3>2, NoAttempts DEF IndInv
  <2>2. ShutdownIsFinal
    <3>1. (\E p \in Procs : At(p, "awaitTasks")) => Withdrawn
      BY DEF Withdrawal, ShutdownsClose, ShutdownWithdraws, Past, At
    <3> QED  BY <3>1 DEF ShutdownIsFinal, Withdrawn, Ended
  <2> QED  BY <2>1, <2>2 DEF NoAbandonedProvider, Withdrawal
<1> QED  BY <1>1, Inductive, WithdrawalHolds, PTL

(* Work takes a lease only of the open provider, under an effective        *)
(* capability.                                                             *)
LEMMA LeasesTaken ==
  ASSUME TypeOK, [Next]_vars, NEW p \in Procs, leases'[p] \notin {0, leases[p]}
  PROVE  effective # {} /\ leases'[p] = open
<1> SUFFICES ASSUME leases' # leases
             PROVE  effective # {} /\ leases'[p] = open
  OBVIOUS
<1>0. leases \in [Procs -> 0..MaxGenerations]
  BY DEF TypeOK, RuntimeTypeOK
<1>1. ASSUME NEW q \in Procs, Attempt(q) PROVE FALSE
  <2>1. leases' = leases
    BY <1>1
    DEF Attempt, StartAsyncSpawn, AttemptInstall, ConstructReturn, RuntimeStart,
        RuntimeReplace, AttemptCheck, HoldReturn, FinishAttempt, finishAttempt,
        RetireStale, StaleRetired, RetireHeld, HeldRetired, RuntimeStop,
        AttemptExit, runtimeVars
  <2> QED  BY <2>1
<1>2. ASSUME NEW q \in Procs, Stopping(q) PROVE FALSE
  <2>1. leases' = leases
    BY <1>2
    DEF Stopping, StopQuarantined, StopNothing, StopWithdraw, StopRuntime,
        RuntimeStop, StopFinish, StopReturn, ShutdownCancel, ShutdownReturn,
        runtimeVars
  <2> QED  BY <2>1
<1>3. ASSUME NEW q \in Procs, Locking(q) \/ Retry(q) PROVE FALSE
  <2>1. leases' = leases
    BY <1>3
    DEF Locking, StartLock, StartAsyncLock, ReplaceLock, StopLock, Lock,
        Retry, RetryFire, RetryGiveUp, runtimeVars
  <2> QED  BY <2>1
<1>4. ASSUME NEW q \in Procs, Step(q) PROVE FALSE
  <2>1. CASE \/ StartRefuse(q) \/ StartReserve(q)
             \/ ReplaceRefuse(q) \/ ReplaceReserve(q)
    <3>1. leases' = leases
      BY <2>1
      DEF StartRefuse, StartReserve, ReplaceRefuse, ReplaceReserve, runtimeVars
    <3> QED  BY <3>1
  <2>2. CASE InvokeReturn(q)
    <3>1. leases' = [leases EXCEPT ![q] = 0]
      BY <2>2 DEF InvokeReturn, Release
    <3> QED  BY <1>0, <3>1
  <2> QED  BY <1>1, <1>2, <1>4, <2>1, <2>2 DEF Step
<1>5. CASE Environment
  <2>1. ASSUME NEW q \in Procs, NEW c \in Capabilities, Invoke(q, c)
        PROVE  effective # {} /\ leases'[p] = open
    <3>1. leases' = [leases EXCEPT ![q] = open] /\ c \in effective
      BY <2>1 DEF Invoke, Admit
    <3> QED  BY <1>0, <3>1
  <2>2. ASSUME NEW q \in Procs,
               \/ StartCall(q) \/ StartAsyncCall(q) \/ ReplaceCall(q)
               \/ StopCall(q) \/ ShutdownCall(q) \/ ShutdownAbandon(q)
               \/ \E g \in 1..MaxGenerations, r \in BOOLEAN : ReportFailure(q, g, r)
        PROVE  FALSE
    <3>1. leases' = leases
      BY <2>2
      DEF StartCall, StartAsyncCall, ReplaceCall, StopCall, Call, ShutdownCall,
          ShutdownAbandon, ReportFailure, runtimeVars
    <3> QED  BY <3>1
  <2>3. ASSUME \/ BindHooks
               \/ \E g \in 1..MaxGenerations, caps \in SUBSET Capabilities :
                     ReportDegraded(g, caps)
        PROVE  FALSE
    <3>1. leases' = leases
      BY <2>3 DEF BindHooks, ReportDegraded, runtimeVars
    <3> QED  BY <3>1
  <2> QED  BY <1>5, <2>1, <2>2, <2>3 DEF Environment
<1>6. CASE UNCHANGED vars
  BY <1>6 DEF vars, runtimeVars
<1> QED  BY <1>3, <1>4, <1>5, <1>6 DEF Next

(* A construction that the manager canceled is never published, and work   *)
(* enters the runtime only through the published generation.               *)
THEOREM NeverPublishedCanceled == Spec => CanceledNeverPublished
<1>1. IndInv /\ Withdrawal /\ [Next]_vars =>
        [\A p \in Procs :
            /\ Publish(p, gor[p].gen) /\ At(p, "finish") => ~gor[p].canceled
            /\ leases'[p] \notin {0, leases[p]}
                 => Running /\ leases'[p] = generation]_vars
  <2> SUFFICES ASSUME IndInv, Withdrawal, [Next]_vars, NEW p \in Procs
               PROVE  /\ Publish(p, gor[p].gen) /\ At(p, "finish")
                            => ~gor[p].canceled
                      /\ leases'[p] \notin {0, leases[p]}
                            => Running /\ leases'[p] = generation
    OBVIOUS
  <2>1. ASSUME Publish(p, gor[p].gen), At(p, "finish") PROVE ~gor[p].canceled
    <3>1. gor[p].pc \in InAttempt /\ ~Running
      BY <2>1, NothingPublished DEF At, InAttempt, IndInv
    <3>2. Running'
      BY <2>1 DEF Publish, transitionLocked, Running
    <3>3. PICK q \in Procs : gor[q].pc \in InAttempt /\ ~Superseded(q)
      BY <3>1, <3>2, EffectNext DEF Effect
    <3>4. q = p
      BY <3>1, <3>3 DEF IndInv, Ownership, AttemptsOwn
    <3> QED
      BY <2>1, <3>3, <3>4 DEF Withdrawal, Cancellation, Superseded, At, InAttempt
  <2>2. ASSUME leases'[p] \notin {0, leases[p]}
        PROVE  Running /\ leases'[p] = generation
    <3>1. effective # {} /\ leases'[p] = open
      BY <2>2, LeasesTaken DEF IndInv
    <3>2. Running
      BY <3>1 DEF Withdrawal, WorkIsPublished
    <3> QED  BY <3>1, <3>2 DEF IndInv, Native, PublishedIsOpen
  <2> QED  BY <2>1, <2>2
<1> QED
  BY <1>1, Inductive, WithdrawalHolds, PTL DEF Spec, CanceledNeverPublished

=============================================================================
