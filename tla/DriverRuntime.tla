---------------------------- MODULE DriverRuntime ----------------------------
(***************************************************************************)
(* The native side of one managed driver: what the driver manager sees     *)
(* through the Runtime interface (internal/drivermanager/manager.go), and  *)
(* the generation boundary that the eBUS runtime wrapper                   *)
(* (cmd/gateway/ebus_driver_runtime.go) projects to process-local          *)
(* observers.                                                              *)
(*                                                                         *)
(* The providers themselves are external.  What a call may do is taken     *)
(* from the runtimes and the test runtimes of this repository: a           *)
(* construction may ignore cancellation and be admitted after a Stop       *)
(* returned, and a Stop may prove the close, prove it after its drain      *)
(* timed out, leave it unconfirmed (safety quarantine), or fail without    *)
(* classifying it.                                                         *)
(***************************************************************************)
EXTENDS Naturals

CONSTANTS
    Procs,           \* goroutine slots that may hold a provider lease
    MaxGenerations   \* bound on native generations ever constructed

ASSUME GenerationsAssumption == MaxGenerations \in Nat

VARIABLES
    open,            \* native generation held open by the runtime, 0 if none
    minted,          \* last native generation constructed in this process
    rtQuarantined,   \* Runtime.SafetyQuarantined()
    leases,          \* [p -> generation of p's admission lease, 0 if none]
    lifecycle,       \* lifecycleCorrelation.Generation, 0 if withdrawn
    lastWithdrawn    \* lifecycleLastWithdrawn

runtimeVars == <<open, minted, rtQuarantined, leases, lifecycle, lastWithdrawn>>

(* Results of Start and Replace; the class of an error is the verdict of   *)
(* the driver's classifier.                                                *)
ConstructErrors == {"nil", "retryable", "terminal", "quarantined"}

(* Results of Stop. *)
StopErrors == {"nil", "timeout", "quarantined", "other"}

RuntimeInit ==
    /\ open = 0
    /\ minted = 0
    /\ rtQuarantined = FALSE
    /\ leases = [p \in Procs |-> 0]
    /\ lifecycle = 0
    /\ lastWithdrawn = 0

RuntimeTypeOK ==
    /\ open \in 0..MaxGenerations
    /\ minted \in 0..MaxGenerations
    /\ rtQuarantined \in BOOLEAN
    /\ leases \in [Procs -> 0..MaxGenerations]
    /\ lifecycle \in 0..MaxGenerations
    /\ lastWithdrawn \in 0..MaxGenerations

(* Mutant: the withdrawal is recorded but the observer is not told. *)
FenceWithdrawalKeepsLifecycle ==
    /\ lastWithdrawn' = IF lifecycle = 0 THEN lastWithdrawn ELSE lifecycle
    /\ UNCHANGED lifecycle

(* withdrawLifecycle: the observer loses the generation exactly once. *)
FenceWithdrawal ==
    IF lifecycle = 0 \/ lifecycle <= lastWithdrawn
    THEN UNCHANGED <<lifecycle, lastWithdrawn>>
    ELSE lifecycle' = 0 /\ lastWithdrawn' = lifecycle

(* ActivateCorrelation: a withdrawn generation, or one that is no longer   *)
(* the runtime's own, is never activated again.                            *)
ActivateCorrelation(g) ==
    /\ lifecycle' = IF minted = g /\ g > lastWithdrawn THEN g ELSE lifecycle
    /\ UNCHANGED lastWithdrawn

Admitted(g) ==
    /\ minted < MaxGenerations
    /\ g = minted + 1
    /\ minted' = g
    /\ open' = g

(* A construction that fails without quarantine may have minted a          *)
(* generation that the runtime closed again itself.                        *)
FailedConstruction(g) ==
    \/ g = 0 /\ UNCHANGED minted
    \/ minted < MaxGenerations /\ g = minted + 1 /\ minted' = g

(* Runtime.Start returning generation g and error e.  A runtime that still *)
(* holds a provider (one whose close failed) does not admit another.       *)
RuntimeStart(g, e) ==
    /\ \/ /\ e = "nil"
          /\ open = 0 /\ ~rtQuarantined
          /\ Admitted(g)
          /\ UNCHANGED rtQuarantined
       \/ /\ e \in {"retryable", "terminal"}
          /\ ~rtQuarantined
          /\ FailedConstruction(g)
          /\ UNCHANGED <<open, rtQuarantined>>
       \/ /\ e = "quarantined"
          /\ g = 0
          /\ rtQuarantined' = TRUE
          /\ UNCHANGED <<open, minted>>
    /\ UNCHANGED <<leases, lifecycle, lastWithdrawn>>

(* Runtime.Replace closes what is open and constructs afresh; a failure    *)
(* may leave the old provider open or closed.                              *)
RuntimeReplace(g, e) ==
    /\ \/ /\ e = "nil"
          /\ ~rtQuarantined
          /\ Admitted(g)
          /\ UNCHANGED rtQuarantined
       \/ /\ e \in {"retryable", "terminal"}
          /\ ~rtQuarantined
          /\ FailedConstruction(g)
          /\ open' \in {0, open}
          /\ UNCHANGED rtQuarantined
       \/ /\ e = "quarantined"
          /\ g = 0
          /\ rtQuarantined' = TRUE
          /\ UNCHANGED <<open, minted>>
    /\ FenceWithdrawal
    /\ UNCHANGED leases

(* Runtime.Stop returning e.  A clean close waits for the leases of the    *)
(* open generation; a drain timeout closes under them.  A quarantined      *)
(* runtime proves nothing any more, whatever it returns.                   *)
RuntimeStop(e) ==
    /\ \/ /\ ~rtQuarantined
          /\ \/ e = "nil" /\ open' = 0
                /\ \A p \in Procs : open # 0 => leases[p] # open
             \/ e = "timeout" /\ open # 0 /\ open' = 0
             \/ e = "other" /\ open' = open
          /\ UNCHANGED rtQuarantined
       \/ /\ e = "quarantined"
          /\ open # 0 \/ rtQuarantined
          /\ rtQuarantined' = TRUE
          /\ UNCHANGED open
       \/ /\ e = "nil"
          /\ rtQuarantined
          /\ UNCHANGED <<open, rtQuarantined>>
    /\ FenceWithdrawal
    /\ UNCHANGED <<minted, leases>>

(* Runtime.Admit and Admission.Release. *)
Admit(p) ==
    /\ open # 0
    /\ leases' = [leases EXCEPT ![p] = open]
    /\ UNCHANGED <<open, minted, rtQuarantined, lifecycle, lastWithdrawn>>

Release(p) ==
    /\ leases[p] # 0
    /\ leases' = [leases EXCEPT ![p] = 0]
    /\ UNCHANGED <<open, minted, rtQuarantined, lifecycle, lastWithdrawn>>
=============================================================================
