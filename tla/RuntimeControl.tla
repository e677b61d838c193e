---------------------------- MODULE RuntimeControl ----------------------------
(***************************************************************************)
(* The control service of internal/runtimecontrol for one driver: requests *)
(* that decide a desired state, the reconciler goroutine that carries out  *)
(* the typed slots, the readback resolver, and the store they share, over  *)
(* write failures of unknown outcome and process crashes.  A store commit, *)
(* an executor call and a section under the driver's mutex are one step    *)
(* each.  A deadline is looked at when the code looks at it: it has passed *)
(* or not, and once passed stays so.  A refused request is no step.        *)
(***************************************************************************)
EXTENDS Naturals, FiniteSets

CONSTANTS
    Nothing,             \* a nil pointer
    MaxAttempts,         \* Options.MaxAttempts
    DefaultMaxAttempts,  \* the most attempts the store keeps for a slot
    MaxRevision,         \* bound: the last revision that is decided
    MaxBoots,            \* bound: crashes
    MaxFaults,           \* bound: writes that fail, over all processes
    FaultyBoots          \* bound: the processes in which one may, by the crashes before

ASSUME ControlBounds ==
    /\ MaxAttempts \in 1 .. DefaultMaxAttempts
    /\ {DefaultMaxAttempts, MaxRevision, MaxBoots, MaxFaults} \subseteq Nat
    /\ DefaultMaxAttempts > 1 /\ MaxRevision > 0
    /\ FaultyBoots \subseteq Nat

VARIABLES
    store,      \* the committed record, the staged one and the admission
    drv,        \* driverState: what the process knows of the driver
    rc,         \* the reconciler goroutine
    req,        \* the request that holds the driver
    peer,       \* another request, which found the admission closed
    rb,         \* the readback resolver
    past,       \* the deadline that is known to have passed, if any
    ext,        \* the executor: its open generations, and what it was asked
    accepted,   \* the revisions whose acceptance was published
    count       \* epochs, boots and faults so far

vars == <<store, drv, rc, req, peer, rb, past, ext, accepted, count>>

-----------------------------------------------------------------------------
(* Slots                                                                     *)

Methods == {"START", "STOP", "RESTART"}
Kinds == Methods \cup {"CANCEL"}
Phases == <<"PENDING", "ACTIVE", "CLEANUP">>
PhaseRank(p) == CHOOSE i \in 1 .. 3 : Phases[i] = p

\* A deadline is that of a slot or of a process start; none is set yet at <<>>.
Dues == {<<>>} \cup ({"slot", "boot"} \X Nat)

Slots ==
    [kind : Kinds, seq : Nat, rev : Nat, phase : {"PENDING", "ACTIVE", "CLEANUP"},
     epoch : Nat, gen : Nat, native : BOOLEAN, semantic : BOOLEAN, used : Nat, due : Dues]

ASSUME NothingIsNoSlot == Nothing \notin Slots

\* The control record: the desired state, the slot in hand and the reserved one.
Records ==
    [desired : {"RUNNING", "STOPPED"}, rev : Nat, seq : Nat,
     cur : Slots \cup {Nothing}, res : Slots \cup {Nothing}]

\* The lifecycle correlation of a generation: its epoch and its ordinal there.
Corrs == [epoch : Nat, gen : Nat]

\* An attempt: the generation it starts, and how far it is.
Attempts ==
    [corr : Corrs, seq : Nat, due : Dues, fenced : BOOLEAN, admitted : BOOLEAN,
     used : Nat, pendingGen : BOOLEAN, chargedTo : Nat]

ASSUME NothingIsNone == Nothing \notin Records /\ Nothing \notin Corrs /\ Nothing \notin Attempts

Transition(kind, seq, rev) ==
    [kind |-> kind, seq |-> seq, rev |-> rev, phase |-> "PENDING", epoch |-> 0, gen |-> 0,
     native |-> FALSE, semantic |-> FALSE, used |-> 0, due |-> <<>>]

\* Begun: the slot takes the correlation c and owes its close and its cleanup.
Begun(t, c, due) ==
    [t EXCEPT !.phase = "ACTIVE", !.epoch = c.epoch, !.gen = c.gen,
              !.native = TRUE, !.semantic = TRUE, !.due = due]

Owing(t) == t.native \/ t.semantic
Terminal(t) == t.phase = "CLEANUP" /\ ~Owing(t)
Discharged(t) == [t EXCEPT !.phase = "CLEANUP", !.native = FALSE, !.semantic = FALSE]
Corr(t) == [epoch |-> t.epoch, gen |-> t.gen]

SameIdentity(a, b) ==
    a # Nothing /\ b # Nothing /\ a.kind = b.kind /\ a.seq = b.seq /\ a.rev = b.rev

\* checkWorkUpdate and controlRegression: what an update of a slot may change.
WorkUpdate(stored, next) ==
    /\ SameIdentity(stored, next)
    /\ PhaseRank(next.phase) >= PhaseRank(stored.phase)
    /\ next.used >= stored.used /\ next.used <= DefaultMaxAttempts
    /\ stored.due # <<>> => next.due = stored.due
    /\ stored.epoch # 0 =>
          IF next.epoch # stored.epoch THEN next.epoch # 0 /\ ~Owing(stored)
          ELSE /\ next.gen >= stored.gen
               /\ \/ stored.phase = "PENDING" /\ next.phase = "ACTIVE"
                  \/ (next.native => stored.native) /\ (next.semantic => stored.semantic)

StartLimit == IF MaxAttempts >= DefaultMaxAttempts THEN DefaultMaxAttempts - 1 ELSE MaxAttempts
CleanupLimit == StartLimit + 1

-----------------------------------------------------------------------------
(* Time and the store                                                        *)

SlotDeadline(seq) == <<"slot", seq>>
BootDeadline == <<"boot", count.boots>>

\* What a look at the clock may find of the deadline due.  One deadline is of
\* consequence at a time, that of the current slot or the untyped attempt.
Clocks(due) == IF due = <<>> THEN {{}} ELSE {past \cap {due}, {due}}

Open == store.status = "open"
Committed(rec) == store' = [store EXCEPT !.rec = rec]

Faultable == count.boots \in FaultyBoots /\ count.faults < MaxFaults
Faulty == Faultable /\ count' = [count EXCEPT !.faults = @ + 1]

\* commitControl fails before its rename, and the write is as if never made;
\* or after it, and the admission closes over a staged record.
Staged(rec) == store' = [store EXCEPT !.staged = rec, !.status = "ambiguous"]

Armed == IF rb.pc = "off" THEN [pc |-> "try", tries |-> 0] ELSE rb

-----------------------------------------------------------------------------
(* The volatile half                                                         *)

NoAmbiguity == [state |-> "none", expected |-> 0, fence |-> FALSE, adopted |-> FALSE, by |-> "none"]

Booted ==
    [deciding |-> FALSE, amb |-> NoAmbiguity, pruning |-> FALSE, untyped |-> Nothing,
     inflight |-> Nothing, live |-> Nothing, quarantined |-> FALSE, blocked |-> FALSE,
     retries |-> 0, chargeSeq |-> 0, chargeTo |-> 0, auto |-> FALSE, wake |-> TRUE]

Attempt(c, seq, due) ==
    [corr |-> c, seq |-> seq, due |-> due, fenced |-> FALSE, admitted |-> FALSE,
     used |-> 0, pendingGen |-> FALSE, chargedTo |-> 0]

Fenced(a) == IF a = Nothing THEN a ELSE [a EXCEPT !.fenced = TRUE]

At(pc, t, k) == [pc |-> pc, t |-> t, k |-> k]
Asleep == At("idle", Nothing, "none")
Reading == At("read", Nothing, "none")
Quiet == [pc |-> "idle", expected |-> 0, fence |-> FALSE]

NoCalls == [seq |-> 0, starts |-> 0, stops |-> 0]

\* What a process may find: a desired state without work, or a START that an
\* earlier process accepted and did not begin.
Workless == {[desired |-> desired, rev |-> 1, seq |-> 0, cur |-> Nothing, res |-> Nothing] :
                 desired \in {"RUNNING", "STOPPED"}}
FirstRecords ==
    Workless \cup {[desired |-> "RUNNING", rev |-> 1, seq |-> 1,
                     cur |-> Transition("START", 1, 1), res |-> Nothing]}

Init ==
    /\ \E rec \in FirstRecords :
          store = [rec |-> rec, staged |-> Nothing, status |-> "open"]
    /\ drv = Booted /\ rc = Asleep /\ req = Quiet /\ peer = "idle"
    /\ rb = [pc |-> "off", tries |-> 0]
    /\ past = {} /\ accepted = {1}
    /\ ext = [open |-> {}, calls |-> NoCalls]
    /\ count = [epochs |-> 0, boots |-> 0, faults |-> 0]

-----------------------------------------------------------------------------
(* Decisions                                                                 *)

\* Rows 6 to 8 of the refusal table, the planner's refusals among them.
Decidable(method) ==
    LET r == store.rec
    IN  /\ Open /\ r.rev < MaxRevision
        /\ (method = "START") <=> (r.desired = "STOPPED")
        /\ ~(drv.pruning /\ r.cur # Nothing)
        /\ method # "STOP" => ~drv.quarantined /\ ~drv.blocked
        /\ ~drv.deciding
        /\ r.cur # Nothing => r.res = Nothing /\ (r.cur.kind = "RESTART" => Terminal(r.cur))

\* An untyped attempt is canceled by a slot of its own, ahead of the request.
Cancels(method) ==
    /\ store.rec.cur = Nothing /\ method # "START"
    /\ drv.untyped # Nothing /\ ~drv.untyped.fenced

Cancellation(a, seq, rev) ==
    [Begun(Transition("CANCEL", seq, rev), a.corr, a.due)
        EXCEPT !.phase = "PENDING", !.used = IF a.used < StartLimit THEN a.used ELSE StartLimit]

\* A request waits in the reserved slot for the one in hand.
Planned(method) ==
    LET r == store.rec
        rev == r.rev + 1
        first == IF Cancels(method) THEN r.seq + 2 ELSE r.seq + 1
        next == Transition(method, first, rev)
    IN  [desired |-> IF method = "STOP" THEN "STOPPED" ELSE "RUNNING",
         rev |-> rev, seq |-> first,
         cur |-> IF Cancels(method) THEN Cancellation(drv.untyped, r.seq + 1, rev)
                 ELSE IF r.cur = Nothing THEN next ELSE r.cur,
         res |-> IF Cancels(method) \/ r.cur # Nothing THEN next ELSE Nothing]

Fences(method) ==
    \/ Cancels(method)
    \/ store.rec.cur # Nothing /\ store.rec.cur.kind = "START" /\ method # "START"

\* The planner raises the hold and the store writes, under one writer slot.
Decide(method) ==
    /\ req.pc = "idle" /\ Decidable(method)
    /\ drv' = [drv EXCEPT !.deciding = TRUE]
    /\ \E pc \in {"publish", "unknown"} :
          /\ req' = [pc |-> pc, expected |-> store.rec.rev, fence |-> Fences(method)]
          /\ \/ pc = "publish" /\ Committed(Planned(method)) /\ UNCHANGED count
             \/ pc = "unknown" /\ Staged(Planned(method)) /\ Faulty
             \/ pc = "unknown" /\ UNCHANGED store /\ Faulty
    /\ UNCHANGED <<rc, peer, rb, past, ext, accepted>>

\* commitView, with its retries until one publication carries the acceptance.
PublishAccepted ==
    /\ req.pc = "publish"
    /\ accepted' = accepted \cup {store.rec.rev}
    /\ req' = [req EXCEPT !.pc = "release"]
    /\ UNCHANGED <<store, drv, rc, peer, rb, past, ext, count>>

\* Mutant: the reconciler is not woken.
ReleasedAsleep(d, fence) ==
    [d EXCEPT !.untyped = IF fence THEN Fenced(@) ELSE @,
              !.inflight = IF fence THEN Fenced(@) ELSE @,
              !.amb = NoAmbiguity, !.deciding = FALSE]

\* releaseDecision: the superseded attempt is fenced and the hold ends.
Released(d, fence) ==
    [d EXCEPT !.untyped = IF fence THEN Fenced(@) ELSE @,
              !.inflight = IF fence THEN Fenced(@) ELSE @,
              !.amb = NoAmbiguity, !.deciding = FALSE, !.wake = TRUE]

ReleaseDecision ==
    /\ req.pc = "release"
    /\ drv' = Released(drv, req.fence)
    /\ req' = Quiet
    /\ UNCHANGED <<store, rc, peer, rb, past, ext, accepted, count>>

\* An error after planning: the decision stays held with its outcome unknown.
HoldAmbiguous ==
    /\ req.pc = "unknown"
    /\ drv' = [drv EXCEPT !.amb = [NoAmbiguity EXCEPT
                 !.state = "held", !.expected = req.expected, !.fence = req.fence]]
    /\ req' = [req EXCEPT !.pc = "check"]
    /\ UNCHANGED <<store, rc, peer, rb, past, ext, accepted, count>>

\* Mutant: every held decision is taken for rejected.
TakeRejected(x) ==
    /\ drv.amb.state = "held"
    /\ drv' = [drv EXCEPT !.amb.state = "resolving", !.amb.by = x]

\* resolveAmbiguous up to the committed record, for the resolver x.
TakeAmbiguous(x) ==
    /\ drv.amb.state = "held"
    /\ drv' = [drv EXCEPT !.amb.state = "resolving", !.amb.by = x,
                          !.amb.adopted = store.rec.rev # drv.amb.expected]

NothingHeld == drv.amb.state # "held"

CheckAdmission ==
    /\ req.pc = "check"
    /\ \/ Open /\ TakeAmbiguous("req") /\ req' = [req EXCEPT !.pc = "resolving"]
       \/ ~Open /\ req' = [req EXCEPT !.pc = "arm"] /\ UNCHANGED drv
       \/ Open /\ NothingHeld /\ req' = [req EXCEPT !.pc = "arm"] /\ UNCHANGED drv
    /\ UNCHANGED <<store, rc, peer, rb, past, ext, accepted, count>>

ArmReadback ==
    /\ req.pc = "arm"
    /\ rb' = IF Open THEN rb ELSE Armed
    /\ req' = Quiet
    /\ UNCHANGED <<store, drv, rc, peer, past, ext, accepted, count>>

\* An adopted decision publishes its acceptance before its hold ends.
PublishAdopted ==
    /\ drv.amb.state = "resolving"
    /\ accepted' = IF drv.amb.adopted THEN accepted \cup {store.rec.rev} ELSE accepted
    /\ drv' = [drv EXCEPT !.amb.state = "settled"]
    /\ UNCHANGED <<store, rc, req, peer, rb, past, ext, count>>

ReleaseAmbiguous ==
    /\ drv.amb.state = "settled"
    /\ drv' = Released(drv, drv.amb.fence /\ drv.amb.adopted)
    /\ req' = IF drv.amb.by = "req" THEN [req EXCEPT !.pc = "arm"] ELSE req
    /\ peer' = IF drv.amb.by = "peer" THEN "idle" ELSE peer
    /\ rb' = IF drv.amb.by = "rb" THEN [rb EXCEPT !.pc = "disarm"] ELSE rb
    /\ UNCHANGED <<store, rc, past, ext, accepted, count>>

-----------------------------------------------------------------------------
(* Readback                                                                  *)

\* ResolveControlReadback finds the staged or the committed record.
Reread ==
    /\ store.status = "ambiguous"
    /\ \E rec \in {store.rec, store.staged} :
          store' = [rec |-> rec, staged |-> Nothing, status |-> "open"]

\* A request with a deadline that finds the admission closed reads back too.
PeerReadsBack ==
    /\ peer = "idle" /\ Reread /\ peer' = "settle"
    /\ UNCHANGED <<drv, rc, req, rb, past, ext, accepted, count>>

PeerSettles ==
    /\ peer = "settle"
    /\ \/ TakeAmbiguous("peer") /\ peer' = "resolving"
       \/ NothingHeld /\ drv' = [drv EXCEPT !.wake = TRUE] /\ peer' = "idle"
    /\ UNCHANGED <<store, rc, req, rb, past, ext, accepted, count>>

ReadbackTry ==
    /\ rb.pc = "try"
    /\ \/ Reread /\ rb' = [rb EXCEPT !.pc = "settle"]
       \/ Open /\ rb' = [rb EXCEPT !.pc = "settle"] /\ UNCHANGED store
       \/ store.status = "failed" /\ rb' = [rb EXCEPT !.pc = "disarm"] /\ UNCHANGED store
       \/ /\ store.status = "ambiguous" /\ UNCHANGED store
          /\ rb' = [pc |-> IF rb.tries + 1 = MaxAttempts THEN "disarm" ELSE "try",
                    tries |-> rb.tries + 1]
       \/ /\ store.status = "ambiguous"
          /\ store' = [store EXCEPT !.staged = Nothing, !.status = "failed"]
          /\ rb' = [rb EXCEPT !.pc = "disarm"]
    /\ UNCHANGED <<drv, rc, req, peer, past, ext, accepted, count>>

ReadbackResolved ==
    /\ rb.pc = "settle"
    /\ \/ TakeAmbiguous("rb") /\ rb' = [rb EXCEPT !.pc = "resolving"]
       \/ NothingHeld /\ drv' = [drv EXCEPT !.wake = TRUE] /\ rb' = [rb EXCEPT !.pc = "disarm"]
    /\ UNCHANGED <<store, rc, req, peer, past, ext, accepted, count>>

ReadbackDisarms ==
    /\ rb.pc = "disarm" /\ rb' = [rb EXCEPT !.pc = "off"]
    /\ UNCHANGED <<store, drv, rc, req, peer, past, ext, accepted, count>>
-----------------------------------------------------------------------------
(* The reconciler: what its steps have in common                             *)

\* Mutant: the native close counts as made once Stop returned.
SettledUnproven(t, k, native, semantic) ==
    [t EXCEPT !.phase = IF k = "replaced" THEN @ ELSE "CLEANUP",
              !.native = FALSE, !.semantic = semantic]

\* What a Stop settles: the close and the cleanup that are still owed stay so.
Settled(t, k, native, semantic) ==
    [t EXCEPT !.phase = IF k = "replaced" /\ ~native THEN @ ELSE "CLEANUP",
              !.native = native, !.semantic = semantic]

\* settleObligations: charge a Stop, unless readback adopted the charge of an
\* earlier try or no attempt is left; k says who continues after the result.
SettleObligations(d, t, k) ==
    LET adopted == d.chargeTo # 0 /\ d.chargeSeq = t.seq /\ d.chargeTo = t.used
        clear == [d EXCEPT !.chargeSeq = 0, !.chargeTo = 0]
    IN  \/ /\ ~Owing(t)
           /\ rc' = At("commit", Discharged(t), k) /\ drv' = d
        \/ /\ Owing(t) /\ adopted
           /\ rc' = At("stop", t, k) /\ drv' = clear
        \/ /\ Owing(t) /\ ~adopted /\ t.used >= CleanupLimit
           /\ rc' = At("commit", Settled(t, k, t.native, t.semantic), k) /\ drv' = clear
        \/ /\ Owing(t) /\ ~adopted /\ t.used < CleanupLimit
           /\ rc' = At("charge", [t EXCEPT !.used = @ + 1], k)
           /\ drv' = [d EXCEPT !.chargeSeq = t.seq, !.chargeTo = t.used + 1]

\* now stands for the deadlines that have passed by the clock of this step.
CleanupSpent(t, now) == t.used >= CleanupLimit \/ t.due \in now
StartSpent(t, now) == t.used >= StartLimit \/ t.due \in now

LiveReleased(d, t) == IF d.live = Corr(t) THEN [d EXCEPT !.live = Nothing] ELSE d

SemanticRetry(d, t, now) ==
    /\ rc' = Asleep
    /\ drv' = IF CleanupSpent(t, now) \/ d.retries + 1 >= MaxAttempts
              THEN [d EXCEPT !.blocked = TRUE, !.retries = 0]
              ELSE [d EXCEPT !.retries = @ + 1, !.wake = TRUE]

AfterCleanup(d, t, now) ==
    \/ t.native /\ rc' = Asleep /\ drv' = [d EXCEPT !.quarantined = TRUE]
    \/ ~t.native /\ t.semantic /\ SemanticRetry(LiveReleased(d, t), t, now)
    \/ ~Owing(t) /\ rc' = Reading /\ drv' = [LiveReleased(d, t) EXCEPT !.retries = 0]

Exhaust(d, t, unconfirmed) ==
    SettleObligations([d EXCEPT !.quarantined = @ \/ unconfirmed], t, "exhausted")

\* A new epoch, and an attempt in it, once its assignment is committed; an
\* ordinal whose assignment was refused is used again, as nobody has seen it.
Assign(d, t) ==
    /\ rc' = At("commit", Begun(t, [epoch |-> count.epochs + 1, gen |-> 1],
                                IF t.due = <<>> THEN SlotDeadline(t.seq) ELSE t.due), "assigned")
    /\ drv' = d

Replace(d, t, now) ==
    \/ t.epoch # 0 /\ StartSpent(t, now)
       /\ rc' = At("commit", Discharged(t), "ended") /\ drv' = d
    \/ ~(t.epoch # 0 /\ StartSpent(t, now)) /\ Assign(d, t)

Mine(d, t) == d.inflight # Nothing /\ d.inflight.seq = t.seq /\ t.epoch # 0

StepStart(d, t, now) ==
    \/ /\ Mine(d, t) /\ d.inflight.admitted
       /\ rc' = At("commit", Discharged(t), "completed") /\ drv' = d
    \/ /\ Mine(d, t) /\ ~d.inflight.admitted
       /\ rc' = At("attempt", t, "none") /\ drv' = d
    \/ /\ ~Mine(d, t) /\ t.epoch # 0 /\ Owing(t)
       /\ SettleObligations(d, t, "replaced")
    \/ /\ ~Mine(d, t) /\ ~(t.epoch # 0 /\ Owing(t))
       /\ Replace(d, t, now)

StepStop(d, t) ==
    \/ /\ t.phase = "PENDING" /\ d.live = Nothing
       /\ rc' = At("commit", [t EXCEPT !.phase = "CLEANUP"], "begun") /\ drv' = d
    \/ /\ t.phase = "PENDING" /\ d.live # Nothing
       /\ rc' = At("commit", Begun(t, d.live, SlotDeadline(t.seq)), "begun") /\ drv' = d
    \/ /\ t.phase # "PENDING"
       /\ SettleObligations(d, t, "stopped")

\* Mutant: a RESTART does not take the live generation over.
RestartOverLive(d, t, now) == StepStart(d, t, now)

StepRestart(d, t, now) ==
    \/ /\ t.phase = "PENDING" /\ d.live # Nothing
       /\ rc' = At("commit", Begun(t, d.live, SlotDeadline(t.seq)), "begun")
       /\ drv' = d
    \/ /\ ~(t.phase = "PENDING" /\ d.live # Nothing)
       /\ StepStart(d, t, now)

StepCancel(d, t) ==
    SettleObligations([d EXCEPT !.untyped = Nothing, !.inflight = Nothing], t, "canceled")

-----------------------------------------------------------------------------
(* The reconciler: one pass                                                  *)

Wakes ==
    /\ rc.pc = "idle" /\ drv.wake
    /\ rc' = Reading /\ drv' = [drv EXCEPT !.wake = FALSE]
    /\ UNCHANGED <<store, req, peer, rb, past, ext, accepted, count>>

\* The slots are read before the hold is looked at.
ReadSlots ==
    /\ rc.pc = "read"
    /\ rc' = IF store.status = "failed" THEN Asleep ELSE At("dispatch", store.rec, "none")
    /\ UNCHANGED <<store, drv, req, peer, rb, past, ext, accepted, count>>

\* Mutant: the reconciler does not respect the hold of a decision.
NeverHeld == drv.blocked

Held == drv.deciding \/ drv.blocked

Skip(d) == rc' = Asleep /\ drv' = d

NeedsUntyped(r) ==
    /\ r.desired = "RUNNING" /\ ~drv.auto /\ drv.live = Nothing /\ drv.untyped = Nothing

\* No slot: the process-start attempt, or what the executor has to report,
\* which counts here only where it quarantines the live generation.
WithoutWork(r) ==
    \/ drv.quarantined /\ Skip(drv)
    \/ /\ ~drv.quarantined /\ NeedsUntyped(r)
       /\ rc' = At("u_install", Nothing, "none") /\ UNCHANGED drv
    \/ ~drv.quarantined /\ ~NeedsUntyped(r) /\ Skip(drv)
    \/ /\ ~drv.quarantined /\ ~NeedsUntyped(r)
       /\ drv.live # Nothing /\ drv.inflight = Nothing
       /\ store.rec.cur = Nothing /\ store.rec.desired = "RUNNING"
       /\ Skip([drv EXCEPT !.quarantined = TRUE])

Progress(r, t, now) ==
    \/ t.phase = "CLEANUP" /\ t.kind = "STOP" /\ StepStop(drv, t)
    \/ /\ t.phase = "CLEANUP" /\ t.kind # "STOP"
       /\ SettleObligations(drv, t, "cleaned")
    \/ /\ t.phase # "CLEANUP"
       /\ \/ t.kind = "CANCEL" \/ (t.kind = "START" /\ r.res # Nothing)
       /\ StepCancel(drv, t)
    \/ t.phase # "CLEANUP" /\ t.kind = "STOP" /\ StepStop(drv, t)
    \/ t.phase # "CLEANUP" /\ t.kind = "RESTART" /\ StepRestart(drv, t, now)
    \/ t.phase # "CLEANUP" /\ t.kind = "START" /\ r.res = Nothing /\ StepStart(drv, t, now)

WithWork(r, t, now) ==
    \/ Terminal(t) /\ r.res = Nothing /\ rc' = At("finish", t, "none") /\ UNCHANGED drv
    \/ Terminal(t) /\ r.res # Nothing /\ rc' = At("prune", r.res, "none") /\ UNCHANGED drv
    \/ /\ ~Terminal(t) /\ drv.quarantined /\ t.phase # "CLEANUP" /\ t.kind # "STOP"
       /\ Exhaust(drv, t, TRUE)
    \/ drv.quarantined /\ t.phase = "CLEANUP" /\ t.native /\ Skip(drv)
    \/ /\ ~Terminal(t)
       /\ drv.quarantined => (t.phase # "CLEANUP" /\ t.kind = "STOP") \/ (t.phase = "CLEANUP" /\ ~t.native)
       /\ IF t.phase = "CLEANUP" /\ CleanupSpent(t, now)
          THEN AfterCleanup(drv, t, now)
          ELSE Progress(r, t, now)

Dispatch ==
    /\ rc.pc = "dispatch"
    /\ LET r == rc.t
       IN  \/ Held /\ Skip(drv) /\ UNCHANGED past
           \/ ~Held /\ r.cur = Nothing /\ WithoutWork(r) /\ UNCHANGED past
           \/ /\ ~Held /\ r.cur # Nothing
              /\ \E now \in Clocks(r.cur.due) : past' = now /\ WithWork(r, r.cur, now)
    /\ UNCHANGED <<store, req, peer, rb, ext, accepted, count>>

-----------------------------------------------------------------------------
(* The reconciler: commits and stops                                         *)

\* commitCurrent: the update carries the reserved slot that is stored now.  A
\* readback may have adopted an earlier update since the slots were read: what
\* would undo it is refused.
Updated == [store.rec EXCEPT !.cur = rc.t]
Updatable == Open /\ WorkUpdate(store.rec.cur, rc.t)

Saved == Updatable /\ Committed(Updated)

Issued == IF rc.k = "assigned" THEN rc.t.epoch ELSE count.epochs

\* retryLater; a generation that was not committed is committed first.
RetryLater(d) ==
    [d EXCEPT !.wake = TRUE,
              !.inflight = IF rc.k = "regen" THEN [@ EXCEPT !.pendingGen = TRUE] ELSE @]

CommitFails ==
    /\ rc.pc \in {"charge", "commit"}
    /\ rc' = Asleep /\ drv' = RetryLater(drv)
    /\ \/ ~Open /\ rb' = Armed /\ UNCHANGED <<store, count>>
       \/ Open /\ ~Updatable /\ UNCHANGED <<store, rb, count>>
       \/ Updatable /\ Faulty /\ UNCHANGED <<store, rb>>
       \/ /\ Updatable /\ Staged(Updated) /\ rb' = Armed
          /\ Faultable
          /\ count' = [count EXCEPT !.faults = @ + 1, !.epochs = Issued]
    /\ UNCHANGED <<req, peer, past, ext, accepted>>

CleanupCharged ==
    /\ rc.pc = "charge" /\ Saved
    /\ drv' = [drv EXCEPT !.chargeSeq = 0, !.chargeTo = 0]
    /\ rc' = [rc EXCEPT !.pc = "stop"]
    /\ UNCHANGED <<req, peer, rb, past, ext, accepted, count>>

\* History: the executor calls of the current slot, over all processes.
CallsOf(t) == IF ext.calls.seq = t.seq THEN ext.calls ELSE [NoCalls EXCEPT !.seq = t.seq]

StopReturns ==
    /\ rc.pc = "stop"
    /\ \E closed, cleaned \in BOOLEAN :
          /\ rc' = At("commit", Settled(rc.t, rc.k, rc.t.native /\ ~closed, rc.t.semantic /\ ~cleaned), rc.k)
          /\ ext' = [open |-> IF closed THEN ext.open \ {Corr(rc.t)} ELSE ext.open,
                     calls |-> [CallsOf(rc.t) EXCEPT !.stops = @ + 1]]
    /\ UNCHANGED <<store, drv, req, peer, rb, past, accepted, count>>

Commits(k) == rc.pc = "commit" /\ rc.k = k /\ Saved

CleanupCommitted ==
    /\ \E k \in {"canceled", "cleaned"} : Commits(k)
    /\ \E now \in Clocks(rc.t.due) : past' = now /\ AfterCleanup(drv, rc.t, now)
    /\ UNCHANGED <<req, peer, rb, ext, accepted, count>>

StopCommitted ==
    /\ Commits("stopped")
    /\ \E now \in Clocks(rc.t.due) :
          past' = now /\ AfterCleanup([drv EXCEPT !.auto = @ \/ ~Owing(rc.t)], rc.t, now)
    /\ UNCHANGED <<req, peer, rb, ext, accepted, count>>

ExhaustCommitted ==
    /\ Commits("exhausted")
    /\ LET d == [drv EXCEPT !.auto = TRUE,
                   !.inflight = IF Mine(drv, rc.t) THEN Nothing ELSE @]
       IN  \E now \in Clocks(rc.t.due) : past' = now /\ AfterCleanup(d, rc.t, now)
    /\ UNCHANGED <<req, peer, rb, ext, accepted, count>>

\* stepStop and stepRestart after the slot's first commit.
BegunCommitted ==
    /\ Commits("begun")
    /\ \/ /\ rc.t.kind = "STOP" /\ ~Owing(rc.t)
          /\ rc' = Reading /\ drv' = [drv EXCEPT !.auto = TRUE] /\ UNCHANGED past
       \/ /\ rc.t.kind = "STOP" /\ Owing(rc.t)
          /\ SettleObligations(drv, rc.t, "stopped") /\ UNCHANGED past
       \/ /\ rc.t.kind = "RESTART"
          /\ \E now \in Clocks(rc.t.due) : past' = now /\ StepStart(drv, rc.t, now)
    /\ UNCHANGED <<req, peer, rb, ext, accepted, count>>

\* stepStart after the predecessor's obligations were settled.
ReplacedCommitted ==
    /\ Commits("replaced")
    /\ \E now \in Clocks(rc.t.due) :
          /\ past' = now
          /\ \/ /\ rc.t.native
                /\ Skip([drv EXCEPT !.quarantined = TRUE])
             \/ /\ ~rc.t.native /\ rc.t.semantic
                /\ SemanticRetry(LiveReleased(drv, rc.t), rc.t, now)
             \/ /\ ~Owing(rc.t)
                /\ Replace([LiveReleased(drv, rc.t) EXCEPT !.retries = 0], rc.t, now)
    /\ UNCHANGED <<req, peer, rb, ext, accepted, count>>

EndCommitted ==
    /\ Commits("ended")
    /\ drv' = [LiveReleased(drv, rc.t) EXCEPT !.auto = TRUE]
    /\ rc' = Reading
    /\ UNCHANGED <<req, peer, rb, past, ext, accepted, count>>

AssignCommitted ==
    /\ Commits("assigned")
    /\ drv' = [drv EXCEPT !.inflight = Attempt(Corr(rc.t), rc.t.seq, rc.t.due)]
    /\ rc' = At("attempt", rc.t, "none")
    /\ count' = [count EXCEPT !.epochs = Issued]
    /\ UNCHANGED <<req, peer, rb, past, ext, accepted>>

\* A terminal slot is pruned and the reserved one promoted.  With nothing
\* reserved the prune shuts out decisions behind the slot until it is written,
\* and reads the slots again.
Finish ==
    /\ rc.pc = "finish" /\ ~drv.deciding
    /\ \/ /\ SameIdentity(store.rec.cur, rc.t)
          /\ drv' = [drv EXCEPT !.pruning = TRUE] /\ rc' = At("prune", store.rec.res, "none")
       \/ /\ ~SameIdentity(store.rec.cur, rc.t)
          /\ drv' = [drv EXCEPT !.wake = TRUE] /\ rc' = Asleep
    /\ UNCHANGED <<store, req, peer, rb, past, ext, accepted, count>>

\* CommitControlWork with the slot rc.t as the current one and none reserved.
Pruned == [store.rec EXCEPT !.cur = rc.t, !.res = Nothing]
Prunable ==
    LET r == store.rec
    IN  /\ Open
        /\ r.res # Nothing => SameIdentity(rc.t, r.res)
        /\ rc.t # Nothing =>
              WorkUpdate(IF SameIdentity(rc.t, r.cur) THEN r.cur ELSE r.res, rc.t)

Prune ==
    /\ rc.pc = "prune" /\ Prunable /\ Committed(Pruned)
    /\ drv' = [drv EXCEPT !.pruning = FALSE]
    /\ rc' = Reading
    /\ UNCHANGED <<req, peer, rb, past, ext, accepted, count>>

\* Its recovery material, written first, may be what fails: it is not told
\* apart, and leaves the slots alone.
PruneFails ==
    /\ rc.pc = "prune"
    /\ drv' = [drv EXCEPT !.pruning = FALSE, !.wake = TRUE]
    /\ rc' = Asleep
    /\ \/ ~Open /\ rb' = Armed /\ UNCHANGED <<store, count>>
       \/ Open /\ (IF Prunable THEN Faulty ELSE UNCHANGED count) /\ UNCHANGED <<store, rb>>
       \/ Prunable /\ Faulty /\ rb' = Armed /\ Staged(Pruned)
    /\ UNCHANGED <<req, peer, past, ext, accepted>>

-----------------------------------------------------------------------------
(* The reconciler: typed attempts                                            *)

FencedByStore(t) == t.kind = "START" /\ store.rec.res # Nothing

Results == {"ok", "fail", "retry", "malformed", "unconfirmed"}

AttemptHead ==
    /\ rc.pc = "attempt"
    /\ LET t == rc.t
           a == drv.inflight
           stop == FencedByStore(t) \/ a.fenced
           adopted == a.chargedTo # 0 /\ t.used = a.chargedTo
       IN  \/ stop /\ rc' = Reading /\ UNCHANGED <<drv, past>>
           \/ /\ ~stop /\ a.pendingGen
              /\ rc' = At("commit", [t EXCEPT !.gen = @ + 1], "regen") /\ UNCHANGED <<drv, past>>
           \/ /\ ~stop /\ ~a.pendingGen
              /\ \E now \in Clocks(t.due) :
                    /\ past' = now
                    /\ IF (~adopted /\ t.used >= StartLimit) \/ t.due \in now
                       THEN Exhaust(drv, t, FALSE)
                       ELSE IF adopted
                       THEN rc' = At("start", t, "none") /\ UNCHANGED drv
                       ELSE /\ rc' = At("commit", [t EXCEPT !.used = @ + 1], "charged")
                            /\ drv' = [drv EXCEPT !.inflight.chargedTo = t.used + 1]
    /\ UNCHANGED <<store, req, peer, rb, ext, accepted, count>>

StartCharged ==
    /\ Commits("charged")
    /\ rc' = At("start", rc.t, "none")
    /\ UNCHANGED <<drv, req, peer, rb, past, ext, accepted, count>>

GenerationCommitted ==
    /\ Commits("regen")
    /\ drv' = [drv EXCEPT !.inflight.pendingGen = FALSE]
    /\ rc' = At("attempt", rc.t, "none")
    /\ UNCHANGED <<req, peer, rb, past, ext, accepted, count>>

\* The executor: a refused recovery (malformed) leaves its generation open, an
\* unconfirmed close concerns a predecessor, any other failure leaves nothing.
Opened(c, result) ==
    IF result \in {"ok", "malformed"} THEN ext.open \cup {c} ELSE ext.open

\* Mutant: the charge is not consumed by the Start it was made for.
StartKeepsCharge ==
    /\ rc.pc = "start"
    /\ drv' = [drv EXCEPT !.inflight.corr = Corr(rc.t)]
    /\ \E result \in Results :
          /\ rc' = At("judge", rc.t, result)
          /\ ext' = [open |-> Opened(Corr(rc.t), result), calls |-> [CallsOf(rc.t) EXCEPT !.starts = @ + 1]]
    /\ UNCHANGED <<store, req, peer, rb, past, accepted, count>>

StartReturns ==
    /\ rc.pc = "start"
    /\ drv' = [drv EXCEPT !.inflight.chargedTo = 0, !.inflight.corr = Corr(rc.t)]
    /\ \E result \in Results :
          /\ rc' = At("judge", rc.t, result)
          /\ ext' = [open |-> Opened(Corr(rc.t), result), calls |-> [CallsOf(rc.t) EXCEPT !.starts = @ + 1]]
    /\ UNCHANGED <<store, req, peer, rb, past, accepted, count>>

\* A result is classified after the decisions in flight are.
JudgeStart ==
    /\ rc.pc = "judge" /\ ~drv.deciding
    /\ LET t == rc.t
           stop == FencedByStore(t) \/ drv.inflight.fenced
       IN  \/ stop /\ rc' = Reading /\ UNCHANGED <<drv, past>>
           \/ /\ ~stop /\ rc.k = "unconfirmed"
              /\ Exhaust(drv, t, TRUE) /\ UNCHANGED past
           \/ /\ ~stop /\ rc.k # "unconfirmed"
              /\ \E now \in Clocks(t.due) :
                    /\ past' = now
                    /\ \/ /\ t.due \in now \/ rc.k \in {"fail", "malformed"}
                             \/ (rc.k = "retry" /\ t.used >= StartLimit)
                          /\ Exhaust(drv, t, FALSE)
                       \/ /\ t.due \notin now /\ rc.k = "ok"
                          /\ rc' = At("admit", t, "none") /\ UNCHANGED drv
                       \/ /\ t.due \notin now /\ rc.k = "retry" /\ t.used < StartLimit
                          /\ rc' = At("backoff", t, "none") /\ UNCHANGED drv
    /\ UNCHANGED <<store, req, peer, rb, ext, accepted, count>>

\* settle: the hold may outlast the budget, which is looked at again.
AdmitStart ==
    /\ rc.pc = "admit" /\ ~drv.deciding
    /\ \/ drv.inflight.fenced /\ rc' = Reading /\ UNCHANGED <<drv, past>>
       \/ /\ ~drv.inflight.fenced
          /\ \E now \in Clocks(rc.t.due) :
                /\ past' = now
                /\ IF rc.t.due \in now THEN Exhaust(drv, rc.t, FALSE)
                   ELSE /\ drv' = [drv EXCEPT !.inflight.admitted = TRUE, !.auto = TRUE,
                                              !.live = Corr(rc.t)]
                        /\ rc' = At("commit", Discharged(rc.t), "completed")
    /\ UNCHANGED <<store, req, peer, rb, ext, accepted, count>>

StartCompleted ==
    /\ Commits("completed")
    /\ drv' = [drv EXCEPT !.inflight = Nothing]
    /\ rc' = Reading
    /\ UNCHANGED <<req, peer, rb, past, ext, accepted, count>>

\* The wait before a retry ends, is fenced, or lasts until the deadline.
Backoff ==
    /\ rc.pc = "backoff"
    /\ \/ drv.inflight.fenced /\ rc' = Reading /\ UNCHANGED past
       \/ rc' = At("commit", [rc.t EXCEPT !.gen = @ + 1], "regen") /\ UNCHANGED past
       \/ rc' = At("attempt", rc.t, "none") /\ past' = {rc.t.due}
    /\ UNCHANGED <<store, drv, req, peer, rb, ext, accepted, count>>

-----------------------------------------------------------------------------
(* The reconciler: the untyped attempt at process start                      *)

UntypedGo(pc, k) == rc' = At(pc, Nothing, k)

InstallUntyped ==
    /\ rc.pc = "u_install" /\ ~drv.deciding
    /\ drv' = [drv EXCEPT !.untyped =
                 Attempt([epoch |-> count.epochs + 1, gen |-> 1], 0, BootDeadline)]
    /\ count' = [count EXCEPT !.epochs = @ + 1]
    /\ UntypedGo("u_check", "none")
    /\ UNCHANGED <<store, req, peer, rb, past, ext, accepted>>

\* A decision accepted before the installation owns the driver.
CheckUntyped ==
    /\ rc.pc = "u_check"
    /\ \/ /\ store.rec.cur # Nothing
          /\ drv' = [drv EXCEPT !.untyped = Nothing] /\ rc' = Reading
       \/ /\ store.rec.cur = Nothing
          /\ UntypedGo("u_head", "none") /\ UNCHANGED drv
    /\ UNCHANGED <<store, req, peer, rb, past, ext, accepted, count>>

UntypedHead ==
    /\ rc.pc = "u_head"
    /\ \/ drv.untyped.fenced /\ rc' = Reading /\ UNCHANGED <<drv, past>>
       \/ /\ ~drv.untyped.fenced
          /\ \E now \in Clocks(drv.untyped.due) :
                /\ past' = now
                /\ IF drv.untyped.used >= MaxAttempts \/ drv.untyped.due \in now
                   THEN UntypedGo("u_finish", "failed") /\ UNCHANGED drv
                   ELSE UntypedGo("u_start", "none") /\ drv' = [drv EXCEPT !.untyped.used = @ + 1]
    /\ UNCHANGED <<store, req, peer, rb, ext, accepted, count>>

UntypedReturns ==
    /\ rc.pc = "u_start"
    /\ \E result \in Results :
          /\ UntypedGo("u_judge", result)
          /\ ext' = [ext EXCEPT !.open = Opened(drv.untyped.corr, result)]
    /\ UNCHANGED <<store, drv, req, peer, rb, past, accepted, count>>

JudgeUntyped ==
    /\ rc.pc = "u_judge" /\ ~drv.deciding
    /\ \/ store.rec.cur # Nothing /\ rc' = Reading /\ UNCHANGED past
       \/ /\ store.rec.cur = Nothing
          /\ \E now \in Clocks(drv.untyped.due) :
                LET late == drv.untyped.due \in now
                IN  /\ past' = now
                    /\ \/ rc.k = "ok" /\ UntypedGo(IF late THEN "u_withdraw" ELSE "u_admit", "none")
                       \/ rc.k = "malformed" /\ UntypedGo("u_withdraw", "none")
                       \/ rc.k = "unconfirmed" /\ UntypedGo("u_finish", "unconfirmed")
                       \/ /\ rc.k = "retry" /\ ~late /\ drv.untyped.used < MaxAttempts
                          /\ UntypedGo("u_backoff", "none")
                       \/ /\ rc.k = "fail" \/ (rc.k = "retry" /\ (late \/ drv.untyped.used >= MaxAttempts))
                          /\ UntypedGo("u_finish", "failed")
    /\ UNCHANGED <<store, drv, req, peer, rb, ext, accepted, count>>

BackoffUntyped ==
    /\ rc.pc = "u_backoff" /\ ~drv.deciding
    /\ \/ drv.untyped.fenced /\ rc' = Reading /\ UNCHANGED drv
       \/ /\ ~drv.untyped.fenced
          /\ drv' = [drv EXCEPT !.untyped.corr.gen = @ + 1] /\ UntypedGo("u_head", "none")
    /\ UNCHANGED <<store, req, peer, rb, past, ext, accepted, count>>

UntypedEnded(d) == [d EXCEPT !.untyped = Nothing, !.auto = TRUE]

AdmitUntyped ==
    /\ rc.pc = "u_admit" /\ ~drv.deciding
    /\ \/ drv.untyped.fenced /\ rc' = Reading /\ UNCHANGED <<drv, past>>
       \/ /\ ~drv.untyped.fenced
          /\ \E now \in Clocks(drv.untyped.due) :
                /\ past' = now
                /\ IF drv.untyped.due \in now THEN UntypedGo("u_withdraw", "none") /\ UNCHANGED drv
                   ELSE /\ drv' = [UntypedEnded(drv) EXCEPT !.live = drv.untyped.corr]
                        /\ rc' = Reading
    /\ UNCHANGED <<store, req, peer, rb, ext, accepted, count>>

\* withdrawLate: Stop, repeated while only the semantic cleanup is left.
WithdrawUntyped ==
    /\ rc.pc = "u_withdraw"
    /\ \E result \in {"failed", "stalled", "unclosed"} :
          /\ UntypedGo("u_finish", result)
          /\ ext' = IF result = "unclosed" THEN ext
                    ELSE [ext EXCEPT !.open = @ \ {drv.untyped.corr}]
    /\ UNCHANGED <<store, drv, req, peer, rb, past, accepted, count>>

\* finishUntyped and the ends of withdrawLate: a fenced attempt is left to
\* the slot that cancels it; an unproven close quarantines all the same.
FinishUntyped ==
    /\ rc.pc = "u_finish" /\ ~drv.deciding
    /\ LET d == IF drv.untyped.fenced THEN drv ELSE UntypedEnded(drv)
       IN  drv' = [d EXCEPT
             !.quarantined = \/ @ \/ rc.k = "unclosed"
                             \/ rc.k = "unconfirmed" /\ ~drv.untyped.fenced,
             !.blocked = @ \/ (rc.k = "stalled" /\ ~drv.untyped.fenced)]
    /\ rc' = Reading
    /\ UNCHANGED <<store, req, peer, rb, past, ext, accepted, count>>

-----------------------------------------------------------------------------
(* Crashes, and the specification                                            *)

\* The process ends with everything it had open.  A write of unknown outcome
\* is found or not by the next one, which publishes what it finds.
Crash ==
    /\ count.boots < MaxBoots /\ store.status # "failed"
    /\ count' = [count EXCEPT !.boots = @ + 1]
    /\ \E rec \in {store.rec} \cup (IF Open THEN {} ELSE {store.staged}) :
          /\ store' = [rec |-> rec, staged |-> Nothing, status |-> "open"]
          /\ accepted' = accepted \cup {rec.rev}
    /\ drv' = Booted /\ rc' = Asleep /\ req' = Quiet /\ peer' = "idle"
    /\ rb' = [pc |-> "off", tries |-> 0]
    /\ ext' = [ext EXCEPT !.open = {}]
    /\ UNCHANGED past

Requester ==
    \/ PublishAccepted \/ ReleaseDecision \/ HoldAmbiguous \/ CheckAdmission \/ ArmReadback
Resolver ==
    \/ ReadbackTry \/ ReadbackResolved \/ ReadbackDisarms
Settling == PublishAdopted \/ ReleaseAmbiguous
Pass == Wakes \/ ReadSlots \/ Dispatch
Cleanup ==
    \/ CommitFails \/ CleanupCharged \/ StopReturns
    \/ CleanupCommitted \/ StopCommitted \/ ExhaustCommitted
    \/ BegunCommitted \/ ReplacedCommitted \/ EndCommitted \/ AssignCommitted
    \/ Finish \/ Prune \/ PruneFails
TypedAttempt ==
    \/ AttemptHead \/ StartCharged \/ GenerationCommitted \/ StartReturns
    \/ JudgeStart \/ AdmitStart \/ StartCompleted \/ Backoff
UntypedAttempt ==
    \/ InstallUntyped \/ CheckUntyped \/ UntypedHead \/ UntypedReturns \/ JudgeUntyped
    \/ BackoffUntyped \/ AdmitUntyped \/ WithdrawUntyped \/ FinishUntyped
Reconciler == Pass \/ Cleanup \/ TypedAttempt \/ UntypedAttempt

Next ==
    \/ \E method \in Methods : Decide(method)
    \/ Requester \/ Resolver \/ Settling \/ PeerReadsBack \/ PeerSettles
    \/ Reconciler \/ Crash

Spec == Init /\ [][Next]_vars

-----------------------------------------------------------------------------
(* Properties                                                                *)

\* Every variable has its type; only a write of unknown outcome is staged, a
\* reserved slot follows a current one, decisions are shut out only during a
\* prune, and a readback ends with its tries.
TypeOK ==
    /\ store.status \in {"open", "ambiguous", "failed"}
    /\ (store.staged # Nothing) <=> (store.status = "ambiguous")
    /\ store.rec.res # Nothing =>
          store.rec.cur # Nothing /\ store.rec.cur.seq < store.rec.res.seq
    /\ store.rec.rev \in 1 .. MaxRevision /\ accepted \subseteq 1 .. MaxRevision
    /\ drv.amb.state \in {"none", "held", "resolving", "settled"}
    /\ drv.amb.state # "none" => drv.deciding
    /\ drv.pruning => rc.pc = "prune"
    /\ peer \in {"idle", "settle", "resolving"}
    /\ rb.pc \in {"off", "try", "settle", "resolving", "disarm"} /\ rb.tries \in 0 .. MaxAttempts
    /\ ext.calls \in [seq : Nat, starts : Nat, stops : Nat]

Target == IF rc.t = Nothing THEN drv.untyped.corr ELSE Corr(rc.t)

\* No write has failed so far.  With a failing one a repeated prune may drop a
\* decision (WorkLeavesFinished), and a generation is started over or forgotten.
Unfailed == count.faults = 0

\* As long as no write failed, a Start is called only when no other generation
\* is open.
NoStartOverOpen ==
    Unfailed /\ rc.pc \in {"start", "u_start"} => ext.open \subseteq {Target}

\* As long as no write failed, a generation that is open is the live one,
\* belongs to an attempt, is owed by the current slot, or the driver is
\* quarantined.  The types hold in any case.
NothingForgotten ==
    /\ TypeOK
    /\ Unfailed => \A c \in ext.open :
        \/ drv.live = c \/ drv.quarantined
        \/ drv.untyped # Nothing /\ drv.untyped.corr = c
        \/ store.rec.cur # Nothing /\ store.rec.cur.native /\ Corr(store.rec.cur) = c

\* At most one write has failed so far.  With a second one the settlement of
\* the first readback may take a decision whose own write is still unread: the
\* record in force answers for it as a refusal, its hold ends, and the second
\* readback adopts it unannounced.
OneFault == count.faults <= 1

\* As long as no second write failed, the executor is called for a slot, and a
\* start is canceled for its successor, only once the decision behind it was
\* announced.
ActsOnAccepted ==
    OneFault =>
        /\ rc.pc \in {"stop", "start"} => rc.t.rev \in accepted
        /\ rc.k = "canceled" /\ store.rec.res # Nothing => store.rec.res.rev \in accepted

\* As long as no second write failed, a decision of unknown outcome is settled
\* by the record that was read back: when no decision is held, the desired
\* state in force was announced.
NoSilentDecision == OneFault /\ ~drv.deciding => store.rec.rev \in accepted

\* A slot starts the driver no more often than its start limit, over all
\* processes and whatever became of its charges.
StartBudgetHolds == ext.calls.starts <= StartLimit

\* A slot leaves the store only when all it owed is done.
Leaves == store.rec.cur # Nothing /\ ~SameIdentity(store.rec.cur, store'.rec.cur)
WorkLeavesFinished == [][Leaves => Terminal(store.rec.cur)]_vars

\* Every goroutine waits, and no wakeup is on its way.
AtRest ==
    /\ rc.pc = "idle" /\ ~drv.wake
    /\ req.pc = "idle" /\ peer = "idle" /\ rb.pc = "off"

\* With the admission open nobody sleeps over accepted work or over a held
\* decision: there is none left, or the driver is quarantined or blocked.
NoLostWakeup ==
    AtRest /\ Open =>
        /\ ~drv.deciding
        /\ store.rec.cur = Nothing \/ drv.quarantined \/ drv.blocked

================================================================================
