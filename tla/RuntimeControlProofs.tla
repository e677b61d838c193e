------------------------- MODULE RuntimeControlProofs -------------------------
(***************************************************************************)
(* Proofs about RuntimeControl: nobody sleeps over accepted work, the      *)
(* starts of a slot stay within its budget, every variable keeps its       *)
(* type; while at most one write fails, no decision is in force            *)
(* unannounced and the reconciler acts only on announced ones; and while   *)
(* none does, no generation is started over another or forgotten.          *)
(***************************************************************************)
EXTENDS RuntimeControl, TLAPS

-----------------------------------------------------------------------------
(* Shapes                                                                    *)

Ambiguities ==
    [state : {"none", "held", "resolving", "settled"}, expected : Nat, fence : BOOLEAN,
     adopted : BOOLEAN, by : {"none", "req", "peer", "rb"}]

Drivers ==
    [deciding : BOOLEAN, amb : Ambiguities, pruning : BOOLEAN,
     untyped : Attempts \cup {Nothing}, inflight : Attempts \cup {Nothing},
     live : Corrs \cup {Nothing}, quarantined : BOOLEAN, blocked : BOOLEAN,
     retries : Nat, chargeSeq : Nat, chargeTo : Nat, auto : BOOLEAN, wake : BOOLEAN]

\* The settlements that may be under way, by who continues after their commit.
Settlements == {"replaced", "stopped", "canceled", "cleaned", "exhausted"}

\* The updates of an attempt.
OfAttempt == {"charged", "regen", "completed"}

\* Where the reconciler works on a slot, on an attempt of a slot, and on the
\* untyped attempt.
SlotPcs == {"charge", "stop", "commit", "finish", "attempt", "start", "judge", "admit", "backoff"}
AttemptPcs == {"attempt", "start", "judge", "admit", "backoff"}
UntypedPcs == {"u_check", "u_head", "u_start", "u_judge", "u_backoff", "u_admit", "u_withdraw", "u_finish"}

\* What the reconciler has in hand is what its place in the code needs.
AtShape(r) ==
    \/ r.pc \in {"idle", "read", "u_install"} \cup UntypedPcs /\ r.t = Nothing
    \/ r.pc = "dispatch" /\ r.t \in Records
    \/ r.pc = "prune" /\ r.t \in Slots \cup {Nothing}
    \/ r.pc \in {"finish"} \cup AttemptPcs /\ r.t \in Slots
    \/ r.pc \in {"charge", "stop"} /\ r.t \in Slots /\ r.k \in Settlements
    \/ /\ r.pc = "commit" /\ r.t \in Slots
       /\ r.k \in Settlements \cup OfAttempt \cup {"begun", "ended", "assigned"}

OnAttempt(r) == r.pc \in AttemptPcs \/ (r.pc = "commit" /\ r.k \in OfAttempt)

RcShape(r, d) ==
    /\ r = At(r.pc, r.t, r.k) /\ AtShape(r)
    /\ OnAttempt(r) => d.inflight \in Attempts /\ d.inflight.seq = r.t.seq
    /\ r.pc \in UntypedPcs => d.untyped \in Attempts

Shape ==
    /\ store \in [rec : Records, staged : Records \cup {Nothing},
                  status : {"open", "ambiguous", "failed"}]
    /\ store.status = "ambiguous" => store.staged \in Records
    /\ drv \in Drivers /\ RcShape(rc, drv)
    /\ req \in [pc : {"idle", "publish", "release", "unknown", "check", "resolving", "arm"},
                expected : Nat, fence : BOOLEAN]
    /\ peer \in {"idle", "settle", "resolving"}
    /\ rb \in [pc : {"off", "try", "settle", "resolving", "disarm"}, tries : Nat]
    /\ ext.calls \in [seq : Nat, starts : Nat, stops : Nat]
    /\ ext = [open |-> ext.open, calls |-> ext.calls]
    /\ count \in [epochs : Nat, boots : Nat, faults : Nat]

-----------------------------------------------------------------------------
(* Who ends what                                                             *)

\* A decision under way is its request's or its outcome is unknown, and what
\* is unknown has somebody who settles it, once the admission is open.
Deciders ==
    /\ req.pc \in {"publish", "release", "unknown"} => drv.deciding /\ drv.amb.state = "none"
    /\ drv.amb.state # "none" => drv.deciding
    /\ drv.deciding => drv.amb.state # "none" \/ req.pc \in {"publish", "release", "unknown"}
    /\ drv.amb.state = "held" /\ Open =>
          req.pc = "check" \/ peer = "settle" \/ rb.pc \in {"try", "settle"}
    /\ drv.amb.state \in {"resolving", "settled"} =>
          \/ drv.amb.by = "req" /\ req.pc = "resolving"
          \/ drv.amb.by = "peer" /\ peer = "resolving"
          \/ drv.amb.by = "rb" /\ rb.pc = "resolving"
    /\ req.pc = "resolving" =>
          drv.amb.state \in {"resolving", "settled"} /\ drv.amb.by = "req"
    /\ peer = "resolving" =>
          drv.amb.state \in {"resolving", "settled"} /\ drv.amb.by = "peer"
    /\ rb.pc = "resolving" =>
          drv.amb.state \in {"resolving", "settled"} /\ drv.amb.by = "rb"

\* Somebody will wake the reconciler, or nothing more is to be done here.
Stirs ==
    \/ drv.wake \/ drv.quarantined \/ drv.blocked \/ drv.deciding
    \/ peer # "idle" \/ rb.pc \in {"try", "settle", "resolving"} \/ ~Open

\* The reconciler sleeps, or is about to, over nothing.
Unattended == rc.pc = "idle" \/ (rc.pc = "dispatch" /\ rc.t.cur = Nothing)
Awake == Unattended => store.rec.cur = Nothing \/ Stirs

WakeInv == Shape /\ Deciders /\ Awake

-----------------------------------------------------------------------------
(* Budgets                                                                   *)

\* The calls made are not for a later slot than t, and t has paid for them.
Covers(t) ==
    ext.calls.seq <= t.seq /\ (ext.calls.seq = t.seq => ext.calls.starts <= t.used)

\* The slots of a record are in order and have paid for what was called.
Paid(r) ==
    /\ ext.calls.seq <= r.seq
    /\ r.cur # Nothing => r.cur.seq <= r.seq /\ Covers(r.cur)
    /\ r.res # Nothing => r.res.seq <= r.seq /\ ext.calls.seq < r.res.seq
    /\ r.cur # Nothing /\ r.res # Nothing => r.cur.seq < r.res.seq

\* The slot t is not ahead of the record r.
Behind(t, r) ==
    /\ t.seq <= r.seq
    /\ r.cur # Nothing => t.seq <= r.cur.seq /\ (t.seq = r.cur.seq => t.used <= r.cur.used)
    /\ r.res # Nothing => t.seq < r.res.seq

StoredRecords == {store.rec} \cup (IF store.status = "ambiguous" THEN {store.staged} ELSE {})

\* The staged record goes on from the committed one.
Follows(r, s) == r.seq <= s.seq /\ (r.cur # Nothing => Behind(r.cur, s))

StoreBudget ==
    /\ \A r \in StoredRecords : Paid(r)
    /\ store.status = "ambiguous" => Follows(store.rec, store.staged)

\* What the reconciler has in hand has paid for the calls made, and what it
\* works on without a commit before the next call is not ahead of the store.
RcBudget ==
    /\ rc.pc = "dispatch" =>
          /\ Paid(rc.t)
          /\ rc.t.cur # Nothing => \A r \in StoredRecords : Behind(rc.t.cur, r)
    /\ rc.pc \in SlotPcs => Covers(rc.t)
    /\ rc.pc \in {"stop"} \cup AttemptPcs => \A r \in StoredRecords : Behind(rc.t, r)
    /\ rc.pc = "prune" /\ rc.t # Nothing => Covers(rc.t)
    /\ rc.pc = "start" \/ (rc.pc = "commit" /\ rc.k = "charged") =>
          /\ rc.t.used <= StartLimit
          /\ ext.calls.seq = rc.t.seq => ext.calls.starts < rc.t.used
          /\ 0 < rc.t.used

\* A Start that is charged and not made is within the limit.
ChargeBudget ==
    (drv.inflight # Nothing \/ OnAttempt(rc)) /\ drv.inflight.chargedTo # 0 =>
        /\ drv.inflight.chargedTo <= StartLimit
        /\ ext.calls.seq = drv.inflight.seq => ext.calls.starts < drv.inflight.chargedTo

Budget == StoreBudget /\ RcBudget /\ ChargeBudget /\ StartBudgetHolds

-----------------------------------------------------------------------------
(* Announcements                                                             *)

\* A fault precedes whatever a fault brings about, and the record that somebody
\* settles by is not an ambiguous one.
Faults ==
    /\ rb.pc # "off" \/ peer # "idle" \/ ~Open => count.faults > 0
    /\ req.pc = "unknown" \/ drv.amb.state # "none" => count.faults > 0
    /\ rb.pc \in {"settle", "resolving"} \/ peer # "idle" => store.status # "ambiguous"
    /\ drv.amb.state \in {"resolving", "settled"} => store.status # "ambiguous"

\* A revision that is stored and not announced belongs to a decision that is
\* under way, and so does one that is staged.
Announced ==
    /\ \/ store.rec.rev \in accepted
       \/ req.pc \in {"publish", "unknown"}
       \/ drv.amb.state = "held"
       \/ drv.amb.state = "resolving" /\ drv.amb.adopted
    /\ req.pc = "unknown" => req.expected \in accepted
    /\ drv.amb.state = "held" => drv.amb.expected \in accepted
    /\ store.status = "ambiguous" /\ store.staged.rev # store.rec.rev =>
          /\ store.rec.rev \in accepted
          /\ req.pc = "unknown" \/ drv.amb.state = "held"

-----------------------------------------------------------------------------
(* What a step of the reconciler leaves                                      *)

\* The reconciler ends no decision, and neither quarantine nor blockade.
Kept(d, e) ==
    /\ e \in Drivers /\ e.deciding = d.deciding /\ e.amb = d.amb
    /\ d.quarantined => e.quarantined
    /\ d.blocked => e.blocked

\* What settles a slot keeps the attempt, or ends it.
Carried(d, e) == Kept(d, e) /\ e.inflight \in {d.inflight, Nothing}

\* Where a step with the slot t leads from the driver state d.
Leads(d, t) ==
    /\ Carried(d, drv') /\ RcShape(rc', drv')
    /\ rc'.pc \in {"idle", "read", "charge", "stop", "commit", "attempt"}
    /\ rc'.pc = "idle" => drv'.wake \/ drv'.quarantined \/ drv'.blocked
    /\ rc'.pc \in SlotPcs =>
          rc'.t.seq = t.seq /\ rc'.t.rev = t.rev /\ rc'.t.used >= t.used
    /\ rc'.pc \in {"stop", "attempt"} => rc'.t = t
    /\ rc'.k # "charged"
    /\ OnAttempt(rc') => drv'.inflight = d.inflight /\ d.inflight # Nothing

LEMMA CarriedTransitive ==
    ASSUME NEW d, NEW e, NEW f, Carried(d, e), Carried(e, f)
    PROVE  Carried(d, f)
BY DEF Carried, Kept

LEMMA LeadsFrom ==
    ASSUME NEW d, NEW e, NEW t, Carried(d, e), Leads(e, t)
    PROVE  Leads(d, t)
BY CarriedTransitive DEF Leads, Carried

LEMMA SettleLeads ==
    ASSUME NEW d \in Drivers, NEW t \in Slots, NEW k \in Settlements,
           SettleObligations(d, t, k)
    PROVE  Leads(d, t)
<1>1. CASE ~Owing(t) /\ rc' = At("commit", Discharged(t), k) /\ drv' = d
  <2>1. Discharged(t) \in Slots /\ Discharged(t).seq = t.seq /\ Discharged(t).rev = t.rev
        /\ Discharged(t).used = t.used
    BY DEF Discharged, Slots
  <2>2. t.used \in Nat
    BY DEF Slots
  <2> HIDE DEF Discharged
  <2> QED BY <1>1, <2>1, <2>2 DEF Leads, Carried, Kept, RcShape, AtShape, OnAttempt, At, Settlements,
        SlotPcs, AttemptPcs, UntypedPcs, OfAttempt
<1>2. CASE rc' = At("stop", t, k) /\ drv' = [d EXCEPT !.chargeSeq = 0, !.chargeTo = 0]
  <2>1. Carried(d, drv')
    BY <1>2 DEF Carried, Kept, Drivers
  <2>2. t.used \in Nat
    BY DEF Slots
  <2> QED BY <1>2, <2>1, <2>2 DEF Leads, RcShape, AtShape, OnAttempt, At, Settlements,
        SlotPcs, AttemptPcs, UntypedPcs, OfAttempt
<1>3. CASE /\ rc' = At("commit", Settled(t, k, t.native, t.semantic), k)
           /\ drv' = [d EXCEPT !.chargeSeq = 0, !.chargeTo = 0]
  <2> DEFINE z == Settled(t, k, t.native, t.semantic)
  <2>1. z \in Slots /\ z.seq = t.seq /\ z.rev = t.rev /\ z.used = t.used
    BY DEF Settled, Slots
  <2>2. Carried(d, drv')
    BY <1>3 DEF Carried, Kept, Drivers
  <2>3. t.used \in Nat
    BY DEF Slots
  <2> HIDE DEF z
  <2>4. rc' = At("commit", z, k)
    BY <1>3 DEF z
  <2> QED BY <2>1, <2>2, <2>3, <2>4 DEF Leads, RcShape, AtShape, OnAttempt, At, Settlements,
        SlotPcs, AttemptPcs, UntypedPcs, OfAttempt
<1>4. CASE /\ rc' = At("charge", [t EXCEPT !.used = @ + 1], k)
           /\ drv' = [d EXCEPT !.chargeSeq = t.seq, !.chargeTo = t.used + 1]
  <2> DEFINE z == [t EXCEPT !.used = @ + 1]
  <2>1. z \in Slots /\ z.seq = t.seq /\ z.rev = t.rev /\ z.used >= t.used
    BY DEF Slots
  <2>5. t.seq \in Nat /\ t.used + 1 \in Nat
    BY DEF Slots
  <2>2. Carried(d, drv')
    BY <1>4, <2>5 DEF Carried, Kept, Drivers
  <2> HIDE DEF z
  <2>4. rc' = At("charge", z, k)
    BY <1>4 DEF z
  <2> QED BY <2>1, <2>2, <2>4 DEF Leads, RcShape, AtShape, OnAttempt, At, Settlements,
        SlotPcs, AttemptPcs, UntypedPcs, OfAttempt
<1> QED BY <1>1, <1>2, <1>3, <1>4 DEF SettleObligations

LEMMA LiveReleasedCarries ==
    ASSUME NEW d \in Drivers, NEW t
    PROVE  Carried(d, LiveReleased(d, t))
BY DEF LiveReleased, Carried, Kept, Drivers

LEMMA RetryLeads ==
    ASSUME NEW d \in Drivers, NEW t \in Slots, NEW now, SemanticRetry(d, t, now)
    PROVE  Leads(d, t)
<1>0. d.retries + 1 \in Nat
  BY DEF Drivers
<1>1. Carried(d, drv') /\ (drv'.wake \/ drv'.blocked)
  <2>1. CASE drv' = [d EXCEPT !.blocked = TRUE, !.retries = 0]
    BY <2>1 DEF Carried, Kept, Drivers
  <2>2. CASE drv' = [d EXCEPT !.retries = @ + 1, !.wake = TRUE]
    BY <2>2, <1>0 DEF Carried, Kept, Drivers
  <2> QED BY <2>1, <2>2 DEF SemanticRetry
<1> QED BY <1>1 DEF SemanticRetry, Leads, RcShape, AtShape, OnAttempt, At, Asleep,
      SlotPcs, AttemptPcs, UntypedPcs, OfAttempt

LEMMA ReadingLeads ==
    ASSUME NEW d, NEW t, Carried(d, drv'), rc' = Reading
    PROVE  Leads(d, t)
BY DEF Leads, Reading, RcShape, AtShape, OnAttempt, At, SlotPcs, AttemptPcs, UntypedPcs, OfAttempt

LEMMA AsleepLeads ==
    ASSUME NEW d, NEW t, Carried(d, drv'), rc' = Asleep,
           drv'.wake \/ drv'.quarantined \/ drv'.blocked
    PROVE  Leads(d, t)
BY DEF Leads, Asleep, RcShape, AtShape, OnAttempt, At, SlotPcs, AttemptPcs, UntypedPcs, OfAttempt

LEMMA CleanupLeads ==
    ASSUME NEW d \in Drivers, NEW t \in Slots, NEW now, AfterCleanup(d, t, now)
    PROVE  Leads(d, t)
<1>1. CASE rc' = Asleep /\ drv' = [d EXCEPT !.quarantined = TRUE]
  <2>1. Carried(d, drv') /\ drv'.quarantined
    BY <1>1 DEF Carried, Kept, Drivers
  <2> QED BY <1>1, <2>1, AsleepLeads
<1>2. CASE SemanticRetry(LiveReleased(d, t), t, now)
  <2>1. LiveReleased(d, t) \in Drivers
    BY LiveReleasedCarries DEF Carried, Kept
  <2> QED BY <1>2, <2>1, RetryLeads, LeadsFrom, LiveReleasedCarries
<1>3. CASE rc' = Reading /\ drv' = [LiveReleased(d, t) EXCEPT !.retries = 0]
  <2> DEFINE e == LiveReleased(d, t)
  <2>1. Carried(d, e)
    BY LiveReleasedCarries
  <2> HIDE DEF e
  <2>2. Carried(e, [e EXCEPT !.retries = 0])
    BY <2>1 DEF Carried, Kept, Drivers
  <2> QED BY <1>3, <2>1, <2>2, CarriedTransitive, ReadingLeads DEF e
<1> QED BY <1>1, <1>2, <1>3 DEF AfterCleanup

LEMMA ExhaustLeads ==
    ASSUME NEW d \in Drivers, NEW t \in Slots, NEW u \in BOOLEAN, Exhaust(d, t, u)
    PROVE  Leads(d, t)
<1> DEFINE e == [d EXCEPT !.quarantined = @ \/ u]
<1>1. Carried(d, e)
  BY DEF Carried, Kept, Drivers
<1>2. SettleObligations(e, t, "exhausted")
  BY DEF Exhaust
<1> HIDE DEF e
<1> QED BY <1>1, <1>2, SettleLeads, LeadsFrom DEF Settlements, Carried, Kept

\* The commit of an update z of the slot t, for k.
LEMMA CommitLeads ==
    ASSUME NEW d \in Drivers, NEW t \in Slots, NEW z \in Slots, NEW k,
           z.seq = t.seq, z.rev = t.rev, z.used = t.used,
           k \in Settlements \cup {"begun", "ended", "assigned", "completed"},
           k = "completed" => d.inflight \in Attempts /\ d.inflight.seq = t.seq /\ d.inflight # Nothing,
           rc' = At("commit", z, k), drv' = d
    PROVE  Leads(d, t)
<1>1. Carried(d, drv') /\ t.used \in Nat
  BY DEF Carried, Kept, Slots
<1> QED BY <1>1 DEF Leads, RcShape, AtShape, OnAttempt, At, Settlements,
      SlotPcs, AttemptPcs, UntypedPcs, OfAttempt

LEMMA BegunSlot ==
    ASSUME NEW t \in Slots, NEW c \in Corrs, NEW due \in Dues
    PROVE  /\ Begun(t, c, due) \in Slots
           /\ Begun(t, c, due).seq = t.seq /\ Begun(t, c, due).rev = t.rev
           /\ Begun(t, c, due).used = t.used
BY DEF Begun, Slots, Corrs

LEMMA DischargedSlot ==
    ASSUME NEW t \in Slots
    PROVE  /\ Discharged(t) \in Slots
           /\ Discharged(t).seq = t.seq /\ Discharged(t).rev = t.rev
           /\ Discharged(t).used = t.used
BY DEF Discharged, Slots

LEMMA SlotDue ==
    ASSUME NEW n \in Nat
    PROVE  SlotDeadline(n) \in Dues
BY DEF SlotDeadline, Dues

LEMMA AssignLeads ==
    ASSUME NEW d \in Drivers, NEW t \in Slots, count.epochs \in Nat, Assign(d, t)
    PROVE  Leads(d, t)
<1> DEFINE c == [epoch |-> count.epochs + 1, gen |-> 1]
           due == IF t.due = <<>> THEN SlotDeadline(t.seq) ELSE t.due
<1>1. c \in Corrs
  BY DEF Corrs
<1>2. due \in Dues
  BY SlotDue DEF Slots
<1>3. rc' = At("commit", Begun(t, c, due), "assigned") /\ drv' = d
  BY DEF Assign
<1> HIDE DEF c, due
<1> QED BY <1>1, <1>2, <1>3, BegunSlot, CommitLeads

LEMMA ReplaceLeads ==
    ASSUME NEW d \in Drivers, NEW t \in Slots, NEW now, count.epochs \in Nat, Replace(d, t, now)
    PROVE  Leads(d, t)
BY AssignLeads, DischargedSlot, CommitLeads DEF Replace

LEMMA StartLeads ==
    ASSUME NEW d \in Drivers, NEW t \in Slots, NEW now, count.epochs \in Nat, StepStart(d, t, now)
    PROVE  Leads(d, t)
<1>1. CASE Mine(d, t) /\ rc' = At("commit", Discharged(t), "completed") /\ drv' = d
  <2>1. d.inflight \in Attempts /\ d.inflight.seq = t.seq /\ d.inflight # Nothing
    BY <1>1 DEF Mine, Drivers
  <2> QED BY <1>1, <2>1, DischargedSlot, CommitLeads
<1>2. CASE Mine(d, t) /\ rc' = At("attempt", t, "none") /\ drv' = d
  <2>1. d.inflight \in Attempts /\ d.inflight.seq = t.seq /\ t.used \in Nat /\ d.inflight # Nothing
    BY <1>2 DEF Mine, Drivers, Slots
  <2>2. Carried(d, drv')
    BY <1>2 DEF Carried, Kept
  <2> QED BY <1>2, <2>1, <2>2 DEF Leads, RcShape, AtShape, OnAttempt, At,
        SlotPcs, AttemptPcs, UntypedPcs, OfAttempt
<1>3. CASE SettleObligations(d, t, "replaced")
  BY <1>3, SettleLeads DEF Settlements
<1>4. CASE Replace(d, t, now)
  BY <1>4, ReplaceLeads
<1> QED BY <1>1, <1>2, <1>3, <1>4 DEF StepStart

LEMMA LiveBegun ==
    ASSUME NEW d \in Drivers, NEW t \in Slots, d.live # Nothing,
           rc' = At("commit", Begun(t, d.live, SlotDeadline(t.seq)), "begun"), drv' = d
    PROVE  Leads(d, t)
<1>1. d.live \in Corrs /\ SlotDeadline(t.seq) \in Dues
  BY SlotDue DEF Drivers, Slots
<1> QED BY <1>1, BegunSlot, CommitLeads

LEMMA StopLeads ==
    ASSUME NEW d \in Drivers, NEW t \in Slots, StepStop(d, t)
    PROVE  Leads(d, t)
<1>1. CASE rc' = At("commit", [t EXCEPT !.phase = "CLEANUP"], "begun") /\ drv' = d
  <2> DEFINE z == [t EXCEPT !.phase = "CLEANUP"]
  <2>1. z \in Slots /\ z.seq = t.seq /\ z.rev = t.rev /\ z.used = t.used
    BY DEF Slots
  <2> HIDE DEF z
  <2> QED BY <1>1, <2>1, CommitLeads DEF z
<1>2. CASE /\ d.live # Nothing
           /\ rc' = At("commit", Begun(t, d.live, SlotDeadline(t.seq)), "begun") /\ drv' = d
  BY <1>2, LiveBegun
<1>3. CASE SettleObligations(d, t, "stopped")
  BY <1>3, SettleLeads DEF Settlements
<1> QED BY <1>1, <1>2, <1>3 DEF StepStop

LEMMA RestartLeads ==
    ASSUME NEW d \in Drivers, NEW t \in Slots, NEW now, count.epochs \in Nat, StepRestart(d, t, now)
    PROVE  Leads(d, t)
BY StartLeads, LiveBegun DEF StepRestart

LEMMA CancelLeads ==
    ASSUME NEW d \in Drivers, NEW t \in Slots, StepCancel(d, t)
    PROVE  Leads(d, t)
<1> DEFINE e == [d EXCEPT !.untyped = Nothing, !.inflight = Nothing]
<1>1. Carried(d, e)
  BY DEF Carried, Kept, Drivers
<1>2. SettleObligations(e, t, "canceled")
  BY DEF StepCancel
<1> HIDE DEF e
<1> QED BY <1>1, <1>2, SettleLeads, LeadsFrom DEF Settlements, Carried, Kept

LEMMA ProgressLeads ==
    ASSUME drv \in Drivers, NEW r, NEW t \in Slots, NEW now, count.epochs \in Nat, Progress(r, t, now)
    PROVE  Leads(drv, t)
BY StopLeads, SettleLeads, CancelLeads, RestartLeads, StartLeads DEF Progress, Settlements

-----------------------------------------------------------------------------
(* The rest of the system during a step of the reconciler                    *)

\* The store commits a record or stages one, in an open admission.
StoreMoves ==
    \/ store' = store
    \/ Open /\ \E r \in Records : Committed(r) \/ Staged(r)

\* The reconciler neither ends nor takes a decision, and sleeps only when it
\* will be woken or nothing is left to do.
Moves ==
    /\ Kept(drv, drv') /\ RcShape(rc', drv') /\ rc'.pc # "dispatch"
    /\ req' = req /\ peer' = peer /\ accepted' = accepted
    /\ rb' \in {rb, Armed} /\ StoreMoves
    /\ ext'.calls \in [seq : Nat, starts : Nat, stops : Nat]
    /\ ext' = [open |-> ext'.open, calls |-> ext'.calls]
    /\ count' \in [epochs : Nat, boots : Nat, faults : Nat]
    /\ rc'.pc = "idle" =>
          \/ drv'.wake \/ drv'.quarantined \/ drv'.blocked \/ drv'.deciding
          \/ Unattended /\ store' = store /\ drv' = drv /\ rb' = rb

LEMMA MovesKeepWakeInv ==
    ASSUME WakeInv, Moves
    PROVE  WakeInv'
<1> USE DEF WakeInv, Moves
<1>1. Shape'
  <2>1. rb' \in [pc : {"off", "try", "settle", "resolving", "disarm"}, tries : Nat]
    BY DEF Shape, Armed
  <2>2. /\ store' \in [rec : Records, staged : Records \cup {Nothing},
                       status : {"open", "ambiguous", "failed"}]
        /\ store'.status = "ambiguous" => store'.staged \in Records
    BY DEF Shape, StoreMoves, Committed, Staged
  <2> QED BY <2>1, <2>2 DEF Shape, Kept
<1>2. Deciders'
  <2>1. Open' => Open
    BY DEF Open, StoreMoves, Committed, Staged, Shape
  <2>2. \/ rb' = rb
        \/ rb.pc = "off" /\ rb'.pc = "try"
    BY DEF Armed, Shape
  <2> QED BY <2>1, <2>2 DEF Deciders, Kept
<1>3. Awake'
  <2>1. CASE rc'.pc # "idle"
    BY <2>1 DEF Awake, Unattended
  <2>2. CASE drv'.wake \/ drv'.quarantined \/ drv'.blocked \/ drv'.deciding
    BY <2>2 DEF Awake, Stirs
  <2>3. CASE Unattended /\ store' = store /\ drv' = drv /\ rb' = rb
    BY <2>3 DEF Awake, Stirs, Open
  <2> QED BY <2>1, <2>2, <2>3
<1> QED BY <1>1, <1>2, <1>3

\* A step that settles the slot t, as Leads describes it, with no more than the
\* store and the clock changed besides.
LEMMA LeadsMove ==
    ASSUME Shape, NEW d, NEW t, Kept(drv, d), Leads(d, t),
           req' = req, peer' = peer, accepted' = accepted,
           rb' \in {rb, Armed}, StoreMoves, ext' = ext, count' = count
    PROVE  Moves
<1>1. Kept(drv, drv')
  BY DEF Leads, Carried, Kept
<1> QED BY <1>1 DEF Leads, Moves, Shape

LEMMA SavedRecord ==
    ASSUME Shape, rc.pc \in {"charge", "commit"}
    PROVE  Updated \in Records
<1>1. rc.t \in Slots
  BY DEF Shape, RcShape, AtShape, UntypedPcs, AttemptPcs
<1> QED BY <1>1 DEF Updated, Records, Shape

LEMMA SavedMoves ==
    ASSUME Shape, rc.pc \in {"charge", "commit"}, Saved
    PROVE  StoreMoves
BY SavedRecord DEF Saved, StoreMoves, Updatable, Open

LEMMA CommitShape ==
    ASSUME Shape, rc.pc = "commit"
    PROVE  /\ drv \in Drivers /\ rc.t \in Slots /\ count.epochs \in Nat
           /\ rc.k \in Settlements \cup OfAttempt \cup {"begun", "ended", "assigned"}
           /\ rc.k \in OfAttempt => drv.inflight \in Attempts /\ drv.inflight.seq = rc.t.seq
BY DEF Shape, RcShape, AtShape, UntypedPcs, AttemptPcs, OnAttempt

\* The commits after which the slot is settled further, or left.
SettledCommit ==
    \/ CleanupCommitted \/ StopCommitted \/ ExhaustCommitted \/ BegunCommitted
    \/ ReplacedCommitted \/ EndCommitted \/ StartCompleted

LEMMA SettledCommitLeads ==
    ASSUME Shape, SettledCommit
    PROVE  /\ rc.pc = "commit" /\ Saved /\ Leads(drv, rc.t)
           /\ UNCHANGED <<req, peer, rb, ext, accepted, count>>
<1>0. rc.pc = "commit" /\ Saved /\ UNCHANGED <<req, peer, rb, ext, accepted, count>>
  BY DEF SettledCommit, CleanupCommitted, StopCommitted, ExhaustCommitted, BegunCommitted,
         ReplacedCommitted, EndCommitted, StartCompleted, Commits
<1>s. /\ drv \in Drivers /\ rc.t \in Slots /\ count.epochs \in Nat
      /\ drv.inflight \in Attempts \cup {Nothing}
  BY <1>0, CommitShape DEF Drivers
<1> SUFFICES Leads(drv, rc.t)
  BY <1>0
<1>1. CASE CleanupCommitted
  BY <1>1, <1>s, CleanupLeads DEF CleanupCommitted
<1>2. CASE StopCommitted
  <2> DEFINE d == [drv EXCEPT !.auto = @ \/ ~Owing(rc.t)]
  <2>1. Carried(drv, d)
    BY <1>s DEF Carried, Kept, Drivers
  <2>2. PICK now : AfterCleanup(d, rc.t, now)
    BY <1>2 DEF StopCommitted
  <2> HIDE DEF d
  <2>3. d \in Drivers
    BY <2>1 DEF Carried, Kept
  <2> QED BY <2>1, <2>2, <2>3, <1>s, CleanupLeads, LeadsFrom
<1>3. CASE ExhaustCommitted
  <2> DEFINE d == [drv EXCEPT !.auto = TRUE, !.inflight = IF Mine(drv, rc.t) THEN Nothing ELSE @]
  <2>1. Carried(drv, d)
    BY <1>s DEF Carried, Kept, Drivers
  <2>2. PICK now : AfterCleanup(d, rc.t, now)
    BY <1>3 DEF ExhaustCommitted
  <2> HIDE DEF d
  <2>3. d \in Drivers
    BY <2>1 DEF Carried, Kept
  <2> QED BY <2>1, <2>2, <2>3, <1>s, CleanupLeads, LeadsFrom
<1>4. CASE BegunCommitted
  <2>1. CASE rc' = Reading /\ drv' = [drv EXCEPT !.auto = TRUE]
    <3>1. Carried(drv, drv')
      BY <2>1, <1>s DEF Carried, Kept, Drivers
    <3> QED BY <2>1, <3>1, ReadingLeads
  <2>2. CASE SettleObligations(drv, rc.t, "stopped")
    BY <2>2, <1>s, SettleLeads DEF Settlements
  <2>3. CASE \E now \in Clocks(rc.t.due) : past' = now /\ StepStart(drv, rc.t, now)
    BY <2>3, <1>s, StartLeads
  <2> QED BY <1>4, <2>1, <2>2, <2>3 DEF BegunCommitted
<1>5. CASE ReplacedCommitted
  <2> DEFINE e == LiveReleased(drv, rc.t)
  <2>0. Carried(drv, e)
    BY <1>s, LiveReleasedCarries
  <2>4. PICK now :
          \/ rc.t.native /\ Skip([drv EXCEPT !.quarantined = TRUE])
          \/ SemanticRetry(e, rc.t, now)
          \/ Replace([e EXCEPT !.retries = 0], rc.t, now)
    BY <1>5 DEF ReplacedCommitted
  <2> HIDE DEF e
  <2>5. e \in Drivers
    BY <2>0 DEF Carried, Kept
  <2>1. CASE Skip([drv EXCEPT !.quarantined = TRUE])
    <3>1. Carried(drv, drv') /\ drv'.quarantined
      BY <2>1, <1>s DEF Carried, Kept, Drivers, Skip
    <3> QED BY <2>1, <3>1, AsleepLeads DEF Skip
  <2>2. CASE SemanticRetry(e, rc.t, now)
    BY <2>0, <2>2, <2>5, <1>s, RetryLeads, LeadsFrom
  <2>3. CASE Replace([e EXCEPT !.retries = 0], rc.t, now)
    <3> DEFINE f == [e EXCEPT !.retries = 0]
    <3>1. Carried(e, f)
      BY <2>5 DEF Carried, Kept, Drivers
    <3>2. Replace(f, rc.t, now)
      BY <2>3
    <3> HIDE DEF f
    <3>3. f \in Drivers /\ Carried(drv, f)
      BY <2>0, <3>1, CarriedTransitive DEF Carried, Kept
    <3> QED BY <3>2, <3>3, <1>s, ReplaceLeads, LeadsFrom
  <2> QED BY <2>1, <2>2, <2>3, <2>4
<1>6. CASE EndCommitted
  <2> DEFINE e == LiveReleased(drv, rc.t)
  <2>0. Carried(drv, e)
    BY <1>s, LiveReleasedCarries
  <2>1. rc' = Reading /\ drv' = [e EXCEPT !.auto = TRUE]
    BY <1>6 DEF EndCommitted
  <2> HIDE DEF e
  <2>2. Carried(e, drv')
    BY <2>0, <2>1 DEF Carried, Kept, Drivers
  <2> QED BY <2>0, <2>1, <2>2, CarriedTransitive, ReadingLeads
<1>7. CASE StartCompleted
  <2>1. Carried(drv, drv')
    BY <1>7, <1>s DEF StartCompleted, Carried, Kept, Drivers
  <2> QED BY <1>7, <2>1, ReadingLeads DEF StartCompleted
<1> QED BY <1>1, <1>2, <1>3, <1>4, <1>5, <1>6, <1>7 DEF SettledCommit

LEMMA KeptSelf ==
    ASSUME NEW d \in Drivers
    PROVE  Kept(d, d) /\ Carried(d, d)
BY DEF Kept, Carried

LEMMA SettledCommitMoves ==
    ASSUME Shape, SettledCommit
    PROVE  Moves
<1>1. StoreMoves
  BY SettledCommitLeads, SavedMoves
<1>2. drv \in Drivers
  BY DEF Shape
<1> QED BY <1>1, <1>2, KeptSelf, SettledCommitLeads, LeadsMove

LEMMA DispatchMoves ==
    ASSUME Shape, Dispatch
    PROVE  Moves
<1>s. /\ drv \in Drivers /\ rc.t \in Records /\ count.epochs \in Nat /\ rc.pc = "dispatch"
      /\ UNCHANGED <<store, req, peer, rb, ext, accepted, count>>
  BY DEF Dispatch, Shape, RcShape, AtShape, UntypedPcs, AttemptPcs
<1>m. StoreMoves
  BY <1>s DEF StoreMoves
<1>l. ASSUME NEW t, Leads(drv, t)
      PROVE  Moves
  BY <1>l, <1>s, <1>m, KeptSelf, LeadsMove
<1>o. ASSUME Kept(drv, drv'), RcShape(rc', drv'), rc'.pc \notin {"idle", "dispatch"}
      PROVE  Moves
  BY <1>o, <1>s, <1>m DEF Moves, Shape
<1>z. ASSUME rc' = Asleep, Kept(drv, drv'),
             \/ drv'.wake \/ drv'.quarantined \/ drv'.blocked \/ drv'.deciding
             \/ Unattended /\ drv' = drv
      PROVE  Moves
  <2>1. RcShape(rc', drv') /\ rc'.pc = "idle"
    BY <1>z DEF RcShape, Asleep, At, AtShape, OnAttempt, UntypedPcs, AttemptPcs, OfAttempt
  <2> QED BY <1>z, <2>1, <1>s, <1>m DEF Moves, Shape
<1>1. CASE Held /\ Skip(drv)
  BY <1>1, <1>z, <1>s, KeptSelf DEF Held, Skip
<1>2. CASE rc.t.cur = Nothing /\ WithoutWork(rc.t)
  <2>1. CASE Skip(drv)
    BY <1>2, <2>1, <1>z, <1>s, KeptSelf DEF Skip, Unattended
  <2>2. CASE Skip([drv EXCEPT !.quarantined = TRUE])
    <3>1. Kept(drv, drv') /\ drv'.quarantined
      BY <2>2, <1>s DEF Kept, Drivers, Skip
    <3> QED BY <2>2, <3>1, <1>z DEF Skip
  <2>3. CASE rc' = At("u_install", Nothing, "none") /\ drv' = drv
    <3>1. RcShape(rc', drv') /\ rc'.pc = "u_install"
      BY <2>3 DEF RcShape, At, AtShape, OnAttempt, UntypedPcs, AttemptPcs, OfAttempt
    <3> QED BY <2>3, <3>1, <1>o, <1>s, KeptSelf
  <2> QED BY <1>2, <2>1, <2>2, <2>3 DEF WithoutWork
<1>3. CASE rc.t.cur # Nothing /\ \E now \in Clocks(rc.t.cur.due) : WithWork(rc.t, rc.t.cur, now)
  <2> DEFINE t == rc.t.cur
  <2>0. t \in Slots /\ rc.t.res \in Slots \cup {Nothing}
    BY <1>3, <1>s DEF Records
  <2>9. PICK now : WithWork(rc.t, t, now)
    BY <1>3
  <2> HIDE DEF t
  <2>1. CASE rc' = At("finish", t, "none") /\ drv' = drv
    <3>1. RcShape(rc', drv') /\ rc'.pc = "finish"
      BY <2>1, <2>0 DEF RcShape, At, AtShape, OnAttempt, UntypedPcs, AttemptPcs, OfAttempt
    <3> QED BY <2>1, <3>1, <1>o, <1>s, KeptSelf
  <2>2. CASE rc' = At("prune", rc.t.res, "none") /\ drv' = drv
    <3>1. RcShape(rc', drv') /\ rc'.pc = "prune"
      BY <2>2, <2>0 DEF RcShape, At, AtShape, OnAttempt, UntypedPcs, AttemptPcs, OfAttempt
    <3> QED BY <2>2, <3>1, <1>o, <1>s, KeptSelf
  <2>3. CASE Exhaust(drv, t, TRUE)
    BY <2>3, <2>0, <1>s, ExhaustLeads, <1>l
  <2>4. CASE drv.quarantined /\ Skip(drv)
    BY <2>4, <1>z, <1>s, KeptSelf DEF Skip
  <2>5. CASE AfterCleanup(drv, t, now)
    BY <2>5, <2>0, <1>s, CleanupLeads, <1>l
  <2>6. CASE Progress(rc.t, t, now)
    BY <2>6, <2>0, <1>s, ProgressLeads, <1>l
  <2> QED BY <2>1, <2>2, <2>3, <2>4, <2>5, <2>6, <2>9 DEF WithWork
<1> QED BY <1>1, <1>2, <1>3 DEF Dispatch

LEMMA CommitFailsMoves ==
    ASSUME Shape, CommitFails
    PROVE  Moves
<1>s. /\ drv \in Drivers /\ rc.t \in Slots /\ count \in [epochs : Nat, boots : Nat, faults : Nat]
      /\ rc.k = "regen" => rc.pc = "commit" /\ drv.inflight \in Attempts
  BY DEF CommitFails, Shape, RcShape, AtShape, UntypedPcs, AttemptPcs, OnAttempt, OfAttempt, Settlements
<1>1. Kept(drv, drv') /\ drv'.wake
  <2>1. CASE rc.k # "regen"
    <3>1. drv' = [drv EXCEPT !.wake = TRUE, !.inflight = @]
      BY <2>1 DEF CommitFails, RetryLater
    <3> QED BY <3>1, <1>s DEF Kept, Drivers
  <2>2. CASE rc.k = "regen"
    <3> DEFINE a == [drv.inflight EXCEPT !.pendingGen = TRUE]
    <3>1. a \in Attempts
      BY <2>2, <1>s DEF Attempts
    <3>2. drv' = [drv EXCEPT !.wake = TRUE, !.inflight = a]
      BY <2>2 DEF CommitFails, RetryLater
    <3> HIDE DEF a
    <3> QED BY <3>1, <3>2, <1>s DEF Kept, Drivers
  <2> QED BY <2>1, <2>2
<1>2. RcShape(rc', drv') /\ rc'.pc = "idle"
  BY DEF CommitFails, Asleep, RcShape, At, AtShape, OnAttempt, UntypedPcs, AttemptPcs, OfAttempt
<1>3. StoreMoves
  BY SavedRecord DEF CommitFails, StoreMoves, Updatable
<1>4. count' \in [epochs : Nat, boots : Nat, faults : Nat]
  <2>1. Issued \in Nat
    BY <1>s DEF Issued, Slots
  <2>2. \/ count' = count
        \/ count' = [count EXCEPT !.faults = @ + 1]
        \/ count' = [count EXCEPT !.faults = @ + 1, !.epochs = Issued]
    BY DEF CommitFails, Faulty
  <2>3. CASE count' = [count EXCEPT !.faults = @ + 1]
    BY <1>s, <2>3
  <2>4. CASE count' = [count EXCEPT !.faults = @ + 1, !.epochs = Issued]
    <3> DEFINE f == count.faults + 1
               i == Issued
    <3>1. f \in Nat /\ i \in Nat
      BY <1>s, <2>1
    <3>2. count' = [count EXCEPT !.faults = f, !.epochs = i]
      BY <2>4
    <3> HIDE DEF f, i
    <3> QED BY <1>s, <3>1, <3>2
  <2> QED BY <1>s, <2>2, <2>3, <2>4
<1> QED BY <1>1, <1>2, <1>3, <1>4 DEF Moves, CommitFails, Shape

LEMMA CleanupChargedMoves ==
    ASSUME Shape, CleanupCharged
    PROVE  Moves
<1>s. /\ drv \in Drivers /\ rc.t \in Slots /\ rc.k \in Settlements /\ rc = At(rc.pc, rc.t, rc.k)
      /\ rc.pc = "charge"
  BY DEF CleanupCharged, Shape, RcShape, AtShape, UntypedPcs, AttemptPcs
<1>1. Kept(drv, drv')
  BY <1>s DEF CleanupCharged, Kept, Drivers
<1>2. rc' = At("stop", rc.t, rc.k)
  BY <1>s DEF CleanupCharged, At
<1>3. RcShape(rc', drv') /\ rc'.pc = "stop"
  BY <1>s, <1>2 DEF RcShape, At, AtShape, OnAttempt, UntypedPcs, AttemptPcs, OfAttempt
<1> QED BY <1>1, <1>3, <1>s, SavedMoves DEF Moves, CleanupCharged, Shape

LEMMA CallsTyped ==
    ASSUME Shape, NEW t \in Slots
    PROVE  /\ CallsOf(t) \in [seq : Nat, starts : Nat, stops : Nat]
           /\ CallsOf(t).seq = t.seq
           /\ CallsOf(t).starts = IF ext.calls.seq = t.seq THEN ext.calls.starts ELSE 0
BY DEF CallsOf, NoCalls, Shape, Slots

LEMMA SettledSlot ==
    ASSUME NEW t \in Slots, NEW k, NEW native \in BOOLEAN, NEW semantic \in BOOLEAN
    PROVE  /\ Settled(t, k, native, semantic) \in Slots
           /\ Settled(t, k, native, semantic).seq = t.seq
           /\ Settled(t, k, native, semantic).rev = t.rev
           /\ Settled(t, k, native, semantic).used = t.used
BY DEF Settled, Slots

LEMMA StopReturnsMoves ==
    ASSUME Shape, StopReturns
    PROVE  Moves
<1>s. /\ drv \in Drivers /\ rc.t \in Slots /\ rc.k \in Settlements /\ rc.pc = "stop"
      /\ rc.t.native \in BOOLEAN /\ rc.t.semantic \in BOOLEAN
  BY DEF StopReturns, Shape, RcShape, AtShape, UntypedPcs, AttemptPcs, Slots
<1>1. PICK closed \in BOOLEAN, cleaned \in BOOLEAN :
        /\ rc' = At("commit", Settled(rc.t, rc.k, rc.t.native /\ ~closed, rc.t.semantic /\ ~cleaned), rc.k)
        /\ ext' = [open |-> IF closed THEN ext.open \ {Corr(rc.t)} ELSE ext.open,
                   calls |-> [CallsOf(rc.t) EXCEPT !.stops = @ + 1]]
  BY DEF StopReturns
<1>2. ext'.calls \in [seq : Nat, starts : Nat, stops : Nat]
  BY <1>1, <1>s, CallsTyped
<1>3. ext' = [open |-> ext'.open, calls |-> ext'.calls]
  BY <1>1
<1>4. RcShape(rc', drv') /\ rc'.pc = "commit"
  <2> DEFINE z == Settled(rc.t, rc.k, rc.t.native /\ ~closed, rc.t.semantic /\ ~cleaned)
  <2>1. z \in Slots
    BY <1>s, SettledSlot
  <2>2. rc' = At("commit", z, rc.k)
    BY <1>1
  <2> HIDE DEF z
  <2> QED BY <2>1, <2>2, <1>s DEF RcShape, At, AtShape, OnAttempt, UntypedPcs, AttemptPcs, OfAttempt, Settlements
<1> QED BY <1>2, <1>3, <1>4, <1>s, KeptSelf DEF Moves, StopReturns, Shape, StoreMoves

LEMMA AssignCommittedMoves ==
    ASSUME Shape, AssignCommitted
    PROVE  /\ Moves
           /\ drv'.inflight = Attempt(Corr(rc.t), rc.t.seq, rc.t.due)
           /\ rc' = At("attempt", rc.t, "none")
<1>s. drv \in Drivers /\ rc.t \in Slots /\ rc.pc = "commit" /\ Saved
  BY CommitShape DEF AssignCommitted, Commits
<1>1. /\ Attempt(Corr(rc.t), rc.t.seq, rc.t.due) \in Attempts
      /\ Attempt(Corr(rc.t), rc.t.seq, rc.t.due).seq = rc.t.seq
  BY <1>s DEF Attempt, Attempts, Corr, Corrs, Slots
<1>2. Kept(drv, drv') /\ drv'.inflight = Attempt(Corr(rc.t), rc.t.seq, rc.t.due)
  BY <1>s, <1>1 DEF AssignCommitted, Kept, Drivers
<1>3. RcShape(rc', drv') /\ rc'.pc = "attempt" /\ rc' = At("attempt", rc.t, "none")
  BY <1>1, <1>2, <1>s DEF AssignCommitted, RcShape, At, AtShape, OnAttempt, UntypedPcs, AttemptPcs, OfAttempt
<1>4. count' \in [epochs : Nat, boots : Nat, faults : Nat]
  <2>1. Issued \in Nat
    BY <1>s DEF Issued, Slots, Shape
  <2> QED BY <2>1 DEF AssignCommitted, Shape
<1> QED BY <1>2, <1>3, <1>4, <1>s, SavedMoves DEF Moves, AssignCommitted, Shape

LEMMA FinishMoves ==
    ASSUME Shape, Finish
    PROVE  Moves
<1>s. drv \in Drivers /\ store.rec.res \in Slots \cup {Nothing}
  BY DEF Shape, Records
<1>1. Kept(drv, drv')
  BY <1>s DEF Finish, Kept, Drivers
<1>2. RcShape(rc', drv') /\ (rc'.pc = "prune" \/ (rc'.pc = "idle" /\ drv'.wake))
  <2>1. CASE drv' = [drv EXCEPT !.pruning = TRUE] /\ rc' = At("prune", store.rec.res, "none")
    BY <2>1, <1>s DEF RcShape, At, AtShape, OnAttempt, UntypedPcs, AttemptPcs, OfAttempt
  <2>2. CASE drv' = [drv EXCEPT !.wake = TRUE] /\ rc' = Asleep
    <3>1. drv'.wake
      BY <2>2, <1>s DEF Drivers
    <3> QED BY <2>2, <3>1 DEF RcShape, Asleep, At, AtShape, OnAttempt, UntypedPcs, AttemptPcs, OfAttempt
  <2> QED BY <2>1, <2>2 DEF Finish
<1> QED BY <1>1, <1>2 DEF Moves, Finish, StoreMoves, Shape

LEMMA PrunedRecord ==
    ASSUME Shape, rc.pc = "prune"
    PROVE  Pruned \in Records /\ rc.t \in Slots \cup {Nothing}
<1>1. rc.t \in Slots \cup {Nothing}
  BY DEF Shape, RcShape, AtShape, UntypedPcs, AttemptPcs
<1> QED BY <1>1 DEF Pruned, Records, Shape

LEMMA PruneMoves ==
    ASSUME Shape, Prune
    PROVE  Moves
<1>s. drv \in Drivers
  BY DEF Shape
<1>1. Kept(drv, drv')
  BY <1>s DEF Prune, Kept, Drivers
<1>2. RcShape(rc', drv') /\ rc'.pc = "read"
  BY DEF Prune, Reading, RcShape, At, AtShape, OnAttempt, UntypedPcs, AttemptPcs, OfAttempt
<1>3. StoreMoves
  BY PrunedRecord DEF Prune, Prunable, StoreMoves
<1> QED BY <1>1, <1>2, <1>3 DEF Moves, Prune, Shape

LEMMA PruneFailsMoves ==
    ASSUME Shape, PruneFails
    PROVE  Moves
<1>s. drv \in Drivers /\ count \in [epochs : Nat, boots : Nat, faults : Nat]
  BY DEF Shape
<1>1. Kept(drv, drv') /\ drv'.wake
  BY <1>s DEF PruneFails, Kept, Drivers
<1>2. RcShape(rc', drv') /\ rc'.pc = "idle"
  BY DEF PruneFails, Asleep, RcShape, At, AtShape, OnAttempt, UntypedPcs, AttemptPcs, OfAttempt
<1>3. StoreMoves
  BY PrunedRecord DEF PruneFails, Prunable, StoreMoves
<1>4. count' \in [epochs : Nat, boots : Nat, faults : Nat]
  BY <1>s DEF PruneFails, Faulty, Faultable
<1> QED BY <1>1, <1>2, <1>3, <1>4 DEF Moves, PruneFails, Shape

LEMMA WakesMoves ==
    ASSUME Shape, Wakes
    PROVE  Moves
<1>s. drv \in Drivers
  BY DEF Shape
<1>1. Kept(drv, drv')
  BY <1>s DEF Wakes, Kept, Drivers
<1>2. RcShape(rc', drv') /\ rc'.pc = "read"
  BY DEF Wakes, Reading, RcShape, At, AtShape, OnAttempt, UntypedPcs, AttemptPcs, OfAttempt
<1> QED BY <1>1, <1>2 DEF Moves, Wakes, StoreMoves, Shape

LEMMA ReadSlotsWakeInv ==
    ASSUME WakeInv, ReadSlots
    PROVE  WakeInv'
<1>s. /\ store.rec \in Records /\ drv' = drv /\ store' = store /\ req' = req /\ peer' = peer
      /\ rb' = rb /\ ext' = ext /\ count' = count
  BY DEF WakeInv, Shape, ReadSlots
<1>1. RcShape(rc', drv') /\ (rc'.pc = "dispatch" => rc'.t = store.rec)
  <2>1. CASE rc' = Asleep
    BY <2>1 DEF RcShape, Asleep, At, AtShape, OnAttempt, UntypedPcs, AttemptPcs, OfAttempt
  <2>2. CASE rc' = At("dispatch", store.rec, "none")
    BY <2>2, <1>s DEF RcShape, At, AtShape, OnAttempt, UntypedPcs, AttemptPcs, OfAttempt
  <2> QED BY <2>1, <2>2 DEF ReadSlots
<1>2. Shape'
  BY <1>s, <1>1 DEF WakeInv, Shape
<1>3. Deciders'
  BY <1>s DEF WakeInv, Deciders, Open
<1>4. Awake'
  <2>1. CASE store.status = "failed"
    BY <2>1, <1>s DEF Awake, Stirs, Open
  <2>2. CASE rc' = At("dispatch", store.rec, "none")
    BY <2>2, <1>s DEF Awake, Unattended, At
  <2> QED BY <2>1, <2>2 DEF ReadSlots
<1> QED BY <1>2, <1>3, <1>4 DEF WakeInv

-----------------------------------------------------------------------------
(* The attempts                                                              *)

LEMMA AttemptShape ==
    ASSUME Shape, rc.pc \in AttemptPcs
    PROVE  /\ drv \in Drivers /\ rc.t \in Slots /\ count.epochs \in Nat
           /\ drv.inflight \in Attempts /\ drv.inflight.seq = rc.t.seq
           /\ rc.t.used \in Nat /\ rc.t.gen \in Nat
BY DEF Shape, RcShape, AtShape, UntypedPcs, AttemptPcs, OnAttempt, Slots

\* A step of an attempt, from what it does to the reconciler and the driver.
LEMMA AttemptMoves ==
    ASSUME Shape, Kept(drv, drv'), RcShape(rc', drv'), rc'.pc \notin {"idle", "dispatch"},
           req' = req, peer' = peer, accepted' = accepted, rb' = rb, StoreMoves,
           ext'.calls \in [seq : Nat, starts : Nat, stops : Nat],
           ext' = [open |-> ext'.open, calls |-> ext'.calls], count' = count
    PROVE  Moves
BY DEF Moves, Shape

\* The attempt goes on: its own fields may change, whose it is does not.
LEMMA InflightKept ==
    ASSUME NEW d \in Drivers, NEW a \in Attempts, drv' = [d EXCEPT !.inflight = a]
    PROVE  Kept(d, drv') /\ drv'.inflight = a
BY DEF Kept, Drivers

LEMMA OnSlot ==
    ASSUME NEW t \in Slots, NEW pc \in AttemptPcs, NEW k, rc' = At(pc, t, k),
           drv'.inflight \in Attempts, drv'.inflight.seq = t.seq
    PROVE  RcShape(rc', drv') /\ rc'.pc \notin {"idle", "dispatch"} /\ rc'.t = t /\ rc'.pc = pc
BY DEF RcShape, At, AtShape, OnAttempt, UntypedPcs, AttemptPcs, OfAttempt

LEMMA OnCommit ==
    ASSUME NEW t \in Slots, NEW k \in OfAttempt, rc' = At("commit", t, k),
           drv'.inflight \in Attempts, drv'.inflight.seq = t.seq
    PROVE  RcShape(rc', drv') /\ rc'.pc \notin {"idle", "dispatch"}
BY DEF RcShape, At, AtShape, OnAttempt, UntypedPcs, AttemptPcs, OfAttempt

LEMMA OnRead ==
    ASSUME rc' = Reading
    PROVE  RcShape(rc', drv') /\ rc'.pc = "read"
BY DEF Reading, RcShape, At, AtShape, OnAttempt, UntypedPcs, AttemptPcs, OfAttempt

LEMMA GenSlot ==
    ASSUME NEW t \in Slots
    PROVE  /\ [t EXCEPT !.gen = @ + 1] \in Slots
           /\ [t EXCEPT !.gen = @ + 1].seq = t.seq
           /\ [t EXCEPT !.gen = @ + 1].rev = t.rev
           /\ [t EXCEPT !.gen = @ + 1].used = t.used
BY DEF Slots

LEMMA UsedSlot ==
    ASSUME NEW t \in Slots
    PROVE  /\ [t EXCEPT !.used = @ + 1] \in Slots
           /\ [t EXCEPT !.used = @ + 1].seq = t.seq
           /\ [t EXCEPT !.used = @ + 1].rev = t.rev
           /\ [t EXCEPT !.used = @ + 1].used = t.used + 1
BY DEF Slots

LEMMA AttemptHeadMoves ==
    ASSUME Shape, AttemptHead
    PROVE  Moves
<1>s. /\ drv \in Drivers /\ rc.t \in Slots
      /\ drv.inflight \in Attempts /\ drv.inflight.seq = rc.t.seq /\ rc.t.used \in Nat
  BY AttemptShape DEF AttemptHead, AttemptPcs
<1>m. StoreMoves /\ UNCHANGED <<req, peer, rb, ext, accepted, count>>
  BY DEF AttemptHead, StoreMoves
<1>o. ASSUME Kept(drv, drv'), RcShape(rc', drv'), rc'.pc \notin {"idle", "dispatch"}
      PROVE  Moves
  BY <1>o, <1>m, AttemptMoves DEF Shape
<1>1. CASE rc' = Reading /\ drv' = drv
  BY <1>1, <1>o, <1>s, OnRead, KeptSelf
<1>2. CASE rc' = At("commit", [rc.t EXCEPT !.gen = @ + 1], "regen") /\ drv' = drv
  <2> DEFINE z == [rc.t EXCEPT !.gen = @ + 1]
  <2>1. z \in Slots /\ z.seq = rc.t.seq /\ rc' = At("commit", z, "regen")
    BY <1>2, <1>s, GenSlot
  <2> HIDE DEF z
  <2> QED BY <1>2, <2>1, <1>o, <1>s, OnCommit, KeptSelf DEF OfAttempt
<1>3. CASE Exhaust(drv, rc.t, FALSE)
  <2>1. Leads(drv, rc.t)
    BY <1>3, <1>s, ExhaustLeads
  <2> QED BY <2>1, <1>m, <1>s, KeptSelf, LeadsMove
<1>4. CASE rc' = At("start", rc.t, "none") /\ drv' = drv
  BY <1>4, <1>o, <1>s, OnSlot, KeptSelf DEF AttemptPcs
<1>5. CASE /\ rc' = At("commit", [rc.t EXCEPT !.used = @ + 1], "charged")
           /\ drv' = [drv EXCEPT !.inflight.chargedTo = rc.t.used + 1]
  <2> DEFINE z == [rc.t EXCEPT !.used = @ + 1]
             a == [drv.inflight EXCEPT !.chargedTo = rc.t.used + 1]
  <2>1. z \in Slots /\ z.seq = rc.t.seq /\ rc' = At("commit", z, "charged")
    BY <1>5, <1>s, UsedSlot
  <2>2. a \in Attempts /\ a.seq = rc.t.seq
    BY <1>s DEF Attempts
  <2>3. drv' = [drv EXCEPT !.inflight = a]
    BY <1>5
  <2> HIDE DEF z, a
  <2>4. Kept(drv, drv') /\ drv'.inflight = a
    BY <2>2, <2>3, <1>s, InflightKept
  <2> QED BY <2>1, <2>2, <2>4, <1>o, OnCommit DEF OfAttempt
<1> QED BY <1>1, <1>2, <1>3, <1>4, <1>5 DEF AttemptHead

LEMMA StartChargedMoves ==
    ASSUME Shape, StartCharged
    PROVE  Moves
<1>s. /\ drv \in Drivers /\ rc.t \in Slots /\ rc.pc = "commit" /\ Saved
      /\ drv.inflight \in Attempts /\ drv.inflight.seq = rc.t.seq
  BY CommitShape DEF StartCharged, Commits, OfAttempt
<1>1. RcShape(rc', drv') /\ rc'.pc \notin {"idle", "dispatch"}
  BY <1>s, OnSlot DEF StartCharged, AttemptPcs
<1> QED BY <1>1, <1>s, KeptSelf, SavedMoves, AttemptMoves DEF StartCharged, Shape

LEMMA GenerationCommittedMoves ==
    ASSUME Shape, GenerationCommitted
    PROVE  Moves
<1>s. /\ drv \in Drivers /\ rc.t \in Slots /\ rc.pc = "commit" /\ Saved
      /\ drv.inflight \in Attempts /\ drv.inflight.seq = rc.t.seq
  BY CommitShape DEF GenerationCommitted, Commits, OfAttempt
<1> DEFINE a == [drv.inflight EXCEPT !.pendingGen = FALSE]
<1>1. a \in Attempts /\ a.seq = rc.t.seq
  BY <1>s DEF Attempts
<1>2. drv' = [drv EXCEPT !.inflight = a]
  BY DEF GenerationCommitted
<1> HIDE DEF a
<1>3. Kept(drv, drv') /\ drv'.inflight = a
  BY <1>1, <1>2, <1>s, InflightKept
<1>4. RcShape(rc', drv') /\ rc'.pc \notin {"idle", "dispatch"}
  BY <1>s, <1>1, <1>3, OnSlot DEF GenerationCommitted, AttemptPcs
<1> QED BY <1>3, <1>4, <1>s, SavedMoves, AttemptMoves DEF GenerationCommitted, Shape

LEMMA StartReturnsMoves ==
    ASSUME Shape, StartReturns
    PROVE  /\ Moves /\ drv'.inflight \in Attempts /\ drv'.inflight.chargedTo = 0
           /\ rc'.pc = "judge" /\ rc'.t = rc.t
           /\ ext'.calls.seq = rc.t.seq
           /\ ext'.calls.starts = (IF ext.calls.seq = rc.t.seq THEN ext.calls.starts ELSE 0) + 1
<1>s. /\ drv \in Drivers /\ rc.t \in Slots
      /\ drv.inflight \in Attempts /\ drv.inflight.seq = rc.t.seq
  BY AttemptShape DEF StartReturns, AttemptPcs
<1> DEFINE a == [drv.inflight EXCEPT !.chargedTo = 0, !.corr = Corr(rc.t)]
<1>0. Corr(rc.t) \in Corrs
  BY <1>s DEF Corr, Corrs, Slots
<1>1. a \in Attempts /\ a.seq = rc.t.seq /\ a.chargedTo = 0
  BY <1>s, <1>0 DEF Attempts
<1>2. drv' = [drv EXCEPT !.inflight = a]
  BY <1>s DEF StartReturns, Drivers
<1> HIDE DEF a
<1>3. Kept(drv, drv') /\ drv'.inflight = a
  BY <1>1, <1>2, <1>s, InflightKept
<1>4. PICK result :
        /\ rc' = At("judge", rc.t, result)
        /\ ext' = [open |-> Opened(Corr(rc.t), result), calls |-> [CallsOf(rc.t) EXCEPT !.starts = @ + 1]]
  BY DEF StartReturns
<1>5. RcShape(rc', drv') /\ rc'.pc \notin {"idle", "dispatch"} /\ rc'.pc = "judge" /\ rc'.t = rc.t
  BY <1>s, <1>1, <1>3, <1>4, OnSlot DEF AttemptPcs
<1>6. /\ ext'.calls \in [seq : Nat, starts : Nat, stops : Nat]
      /\ ext'.calls.seq = rc.t.seq
      /\ ext'.calls.starts = (IF ext.calls.seq = rc.t.seq THEN ext.calls.starts ELSE 0) + 1
  BY <1>4, <1>s, CallsTyped
<1>7. ext' = [open |-> ext'.open, calls |-> ext'.calls]
  BY <1>4
<1>8. StoreMoves /\ UNCHANGED <<req, peer, rb, accepted, count>>
  BY DEF StartReturns, StoreMoves
<1>9. Moves
  BY <1>3, <1>5, <1>6, <1>7, <1>8, AttemptMoves
<1> QED BY <1>1, <1>3, <1>5, <1>6, <1>9

LEMMA JudgeStartMoves ==
    ASSUME Shape, JudgeStart
    PROVE  Moves
<1>s. /\ drv \in Drivers /\ rc.t \in Slots
      /\ drv.inflight \in Attempts /\ drv.inflight.seq = rc.t.seq
  BY AttemptShape DEF JudgeStart, AttemptPcs
<1>m. StoreMoves /\ UNCHANGED <<req, peer, rb, ext, accepted, count>>
  BY DEF JudgeStart, StoreMoves
<1>o. ASSUME Kept(drv, drv'), RcShape(rc', drv'), rc'.pc \notin {"idle", "dispatch"}
      PROVE  Moves
  BY <1>o, <1>m, AttemptMoves DEF Shape
<1>1. CASE rc' = Reading /\ drv' = drv
  BY <1>1, <1>o, <1>s, OnRead, KeptSelf
<1>2. CASE Exhaust(drv, rc.t, TRUE) \/ Exhaust(drv, rc.t, FALSE)
  <2>1. Leads(drv, rc.t)
    BY <1>2, <1>s, ExhaustLeads
  <2> QED BY <2>1, <1>m, <1>s, KeptSelf, LeadsMove
<1>3. CASE (rc' = At("admit", rc.t, "none") \/ rc' = At("backoff", rc.t, "none")) /\ drv' = drv
  BY <1>3, <1>o, <1>s, OnSlot, KeptSelf DEF AttemptPcs
<1> QED BY <1>1, <1>2, <1>3 DEF JudgeStart

LEMMA AdmitStartMoves ==
    ASSUME Shape, AdmitStart
    PROVE  Moves
<1>s. /\ drv \in Drivers /\ rc.t \in Slots
      /\ drv.inflight \in Attempts /\ drv.inflight.seq = rc.t.seq
  BY AttemptShape DEF AdmitStart, AttemptPcs
<1>m. StoreMoves /\ UNCHANGED <<req, peer, rb, ext, accepted, count>>
  BY DEF AdmitStart, StoreMoves
<1>o. ASSUME Kept(drv, drv'), RcShape(rc', drv'), rc'.pc \notin {"idle", "dispatch"}
      PROVE  Moves
  BY <1>o, <1>m, AttemptMoves DEF Shape
<1>1. CASE rc' = Reading /\ drv' = drv
  BY <1>1, <1>o, <1>s, OnRead, KeptSelf
<1>2. CASE Exhaust(drv, rc.t, FALSE)
  <2>1. Leads(drv, rc.t)
    BY <1>2, <1>s, ExhaustLeads
  <2> QED BY <2>1, <1>m, <1>s, KeptSelf, LeadsMove
<1>3. CASE /\ drv' = [drv EXCEPT !.inflight.admitted = TRUE, !.auto = TRUE, !.live = Corr(rc.t)]
           /\ rc' = At("commit", Discharged(rc.t), "completed")
  <2> DEFINE a == [drv.inflight EXCEPT !.admitted = TRUE]
  <2>0. Corr(rc.t) \in Corrs
    BY <1>s DEF Corr, Corrs, Slots
  <2>1. a \in Attempts /\ a.seq = rc.t.seq
    BY <1>s DEF Attempts
  <2>2. drv' = [drv EXCEPT !.inflight = a, !.auto = TRUE, !.live = Corr(rc.t)]
    BY <1>3
  <2> HIDE DEF a
  <2>3. Kept(drv, drv') /\ drv'.inflight = a
    BY <2>0, <2>1, <2>2, <1>s DEF Kept, Drivers
  <2>4. Discharged(rc.t) \in Slots /\ Discharged(rc.t).seq = rc.t.seq
    BY <1>s, DischargedSlot
  <2> QED BY <1>3, <2>1, <2>3, <2>4, <1>o, OnCommit DEF OfAttempt
<1> QED BY <1>1, <1>2, <1>3 DEF AdmitStart

LEMMA BackoffMoves ==
    ASSUME Shape, Backoff
    PROVE  Moves
<1>s. /\ drv \in Drivers /\ rc.t \in Slots
      /\ drv.inflight \in Attempts /\ drv.inflight.seq = rc.t.seq
  BY AttemptShape DEF Backoff, AttemptPcs
<1>m. StoreMoves /\ UNCHANGED <<drv, req, peer, rb, ext, accepted, count>>
  BY DEF Backoff, StoreMoves
<1>o. ASSUME RcShape(rc', drv'), rc'.pc \notin {"idle", "dispatch"}
      PROVE  Moves
  BY <1>o, <1>m, <1>s, KeptSelf, AttemptMoves DEF Shape
<1>1. CASE rc' = Reading
  BY <1>1, <1>o, <1>s, OnRead
<1>2. CASE rc' = At("commit", [rc.t EXCEPT !.gen = @ + 1], "regen")
  <2> DEFINE z == [rc.t EXCEPT !.gen = @ + 1]
  <2>1. z \in Slots /\ z.seq = rc.t.seq /\ rc' = At("commit", z, "regen")
    BY <1>2, <1>s, GenSlot
  <2> HIDE DEF z
  <2> QED BY <2>1, <1>o, <1>m, <1>s, OnCommit DEF OfAttempt
<1>3. CASE rc' = At("attempt", rc.t, "none")
  BY <1>3, <1>o, <1>m, <1>s, OnSlot DEF AttemptPcs
<1> QED BY <1>1, <1>2, <1>3 DEF Backoff

-----------------------------------------------------------------------------
(* The untyped attempt                                                       *)

LEMMA UntypedShape ==
    ASSUME Shape, rc.pc \in UntypedPcs
    PROVE  drv \in Drivers /\ drv.untyped \in Attempts
BY DEF Shape, RcShape

LEMMA OnUntyped ==
    ASSUME NEW pc \in UntypedPcs, NEW k, rc' = At(pc, Nothing, k), drv'.untyped \in Attempts
    PROVE  RcShape(rc', drv') /\ rc'.pc \notin {"idle", "dispatch"} /\ rc'.pc = pc
BY DEF RcShape, At, AtShape, OnAttempt, UntypedPcs, AttemptPcs, OfAttempt

\* The untyped attempt goes on, or ends in another pass.
UntypedStep ==
    /\ Kept(drv, drv') /\ drv'.inflight = drv.inflight
    /\ \/ rc' = Reading
       \/ \E pc \in UntypedPcs : \E k : rc' = At(pc, Nothing, k) /\ drv'.untyped \in Attempts

LEMMA UntypedSteps ==
    ASSUME Shape, UntypedAttempt
    PROVE  /\ UntypedStep /\ UNCHANGED <<store, req, peer, rb, accepted>>
           /\ count' \in [epochs : Nat, boots : Nat, faults : Nat]
           /\ count'.faults = count.faults
           /\ ext' = [open |-> ext'.open, calls |-> ext.calls]
<1>1. CASE InstallUntyped
  <2> DEFINE a == Attempt([epoch |-> count.epochs + 1, gen |-> 1], 0, BootDeadline)
  <2>0. drv \in Drivers /\ count \in [epochs : Nat, boots : Nat, faults : Nat]
    BY DEF Shape
  <2>1. BootDeadline \in Dues
    BY <2>0 DEF BootDeadline, Dues
  <2>2. a \in Attempts
    BY <2>0, <2>1 DEF Attempt, Attempts, Corrs
  <2>3. drv' = [drv EXCEPT !.untyped = a] /\ rc' = At("u_check", Nothing, "none")
    BY <1>1 DEF InstallUntyped, UntypedGo
  <2> HIDE DEF a
  <2>4. Kept(drv, drv') /\ drv'.inflight = drv.inflight /\ drv'.untyped \in Attempts
    BY <2>0, <2>2, <2>3 DEF Kept, Drivers
  <2>5. count' \in [epochs : Nat, boots : Nat, faults : Nat] /\ count'.faults = count.faults
    BY <1>1, <2>0 DEF InstallUntyped
  <2>6. UntypedStep
    BY <2>3, <2>4 DEF UntypedStep, UntypedPcs
  <2> QED BY <1>1, <2>5, <2>6 DEF InstallUntyped, Shape
<1>2. CASE ~InstallUntyped
  <2>s. rc.pc \in UntypedPcs /\ drv \in Drivers /\ drv.untyped \in Attempts
    <3>1. rc.pc \in UntypedPcs
      BY <1>2 DEF UntypedAttempt, CheckUntyped, UntypedHead, UntypedReturns, JudgeUntyped, BackoffUntyped,
                AdmitUntyped, WithdrawUntyped, FinishUntyped, UntypedPcs
    <3> QED BY <3>1, UntypedShape
  <2>f. /\ UNCHANGED <<store, req, peer, rb, accepted, count>>
        /\ ext' = [open |-> ext'.open, calls |-> ext.calls]
    BY <1>2 DEF UntypedAttempt, CheckUntyped, UntypedHead, UntypedReturns, JudgeUntyped, BackoffUntyped,
              AdmitUntyped, WithdrawUntyped, FinishUntyped, Shape
  <2> SUFFICES UntypedStep
    BY <2>f DEF Shape
  <2>k. Kept(drv, drv)
    BY <2>s, KeptSelf
  <2>1. CASE CheckUntyped
    <3>1. CASE drv' = [drv EXCEPT !.untyped = Nothing] /\ rc' = Reading
      <4>1. Kept(drv, drv') /\ drv'.inflight = drv.inflight
        BY <3>1, <2>s DEF Kept, Drivers
      <4> QED BY <3>1, <4>1 DEF UntypedStep
    <3>2. CASE rc' = At("u_head", Nothing, "none") /\ drv' = drv
      BY <3>2, <2>s, <2>k DEF UntypedStep, UntypedPcs
    <3> QED BY <2>1, <3>1, <3>2 DEF CheckUntyped, UntypedGo
  <2>2. CASE UntypedHead
    <3>1. CASE drv' = drv /\ (rc' = Reading \/ rc' = At("u_finish", Nothing, "failed"))
      BY <3>1, <2>s, <2>k DEF UntypedStep, UntypedPcs
    <3>2. CASE rc' = At("u_start", Nothing, "none") /\ drv' = [drv EXCEPT !.untyped.used = @ + 1]
      <4> DEFINE a == [drv.untyped EXCEPT !.used = @ + 1]
      <4>1. a \in Attempts
        BY <2>s DEF Attempts
      <4>2. drv' = [drv EXCEPT !.untyped = a]
        BY <3>2
      <4> HIDE DEF a
      <4>3. Kept(drv, drv') /\ drv'.inflight = drv.inflight /\ drv'.untyped \in Attempts
        BY <4>1, <4>2, <2>s DEF Kept, Drivers
      <4> QED BY <3>2, <4>3 DEF UntypedStep, UntypedPcs
    <3> QED BY <2>2, <3>1, <3>2 DEF UntypedHead, UntypedGo
  <2>3. CASE UntypedReturns
    BY <2>3, <2>s, <2>k DEF UntypedReturns, UntypedGo, UntypedStep, UntypedPcs
  <2>4. CASE JudgeUntyped
    <3>1. drv' = drv
      BY <2>4 DEF JudgeUntyped
    <3>2. \/ rc' = Reading
          \/ \E pc \in {"u_withdraw", "u_admit", "u_finish", "u_backoff"} : \E k : rc' = At(pc, Nothing, k)
      BY <2>4 DEF JudgeUntyped, UntypedGo
    <3> QED BY <3>1, <3>2, <2>s, <2>k DEF UntypedStep, UntypedPcs
  <2>5. CASE BackoffUntyped
    <3>1. CASE drv' = drv /\ rc' = Reading
      BY <3>1, <2>s, <2>k DEF UntypedStep
    <3>2. CASE rc' = At("u_head", Nothing, "none") /\ drv' = [drv EXCEPT !.untyped.corr.gen = @ + 1]
      <4> DEFINE a == [drv.untyped EXCEPT !.corr.gen = @ + 1]
      <4>1. a \in Attempts
        BY <2>s DEF Attempts, Corrs
      <4>2. drv' = [drv EXCEPT !.untyped = a]
        BY <3>2
      <4> HIDE DEF a
      <4>3. Kept(drv, drv') /\ drv'.inflight = drv.inflight /\ drv'.untyped \in Attempts
        BY <4>1, <4>2, <2>s DEF Kept, Drivers
      <4> QED BY <3>2, <4>3 DEF UntypedStep, UntypedPcs
    <3> QED BY <2>5, <3>1, <3>2 DEF BackoffUntyped, UntypedGo
  <2>6. CASE AdmitUntyped
    <3>1. CASE drv' = drv /\ (rc' = Reading \/ rc' = At("u_withdraw", Nothing, "none"))
      BY <3>1, <2>s, <2>k DEF UntypedStep, UntypedPcs
    <3>2. CASE drv' = [UntypedEnded(drv) EXCEPT !.live = drv.untyped.corr] /\ rc' = Reading
      <4>1. drv.untyped.corr \in Corrs
        BY <2>s DEF Attempts
      <4>2. Kept(drv, drv') /\ drv'.inflight = drv.inflight
        BY <3>2, <4>1, <2>s DEF Kept, Drivers, UntypedEnded
      <4> QED BY <3>2, <4>2 DEF UntypedStep
    <3> QED BY <2>6, <3>1, <3>2 DEF AdmitUntyped, UntypedGo
  <2>7. CASE WithdrawUntyped
    BY <2>7, <2>s, <2>k DEF WithdrawUntyped, UntypedGo, UntypedStep, UntypedPcs
  <2>8. CASE FinishUntyped
    <3>0. drv.quarantined \in BOOLEAN /\ drv.blocked \in BOOLEAN
      BY <2>s DEF Drivers
    <3> DEFINE e == IF drv.untyped.fenced THEN drv ELSE UntypedEnded(drv)
               u == rc.k = "unclosed" \/ (rc.k = "unconfirmed" /\ ~drv.untyped.fenced)
               v == rc.k = "stalled" /\ ~drv.untyped.fenced
    <3>1. drv' = [e EXCEPT !.quarantined = @ \/ u, !.blocked = @ \/ v]
      BY <2>8 DEF FinishUntyped
    <3>4. Kept(drv, e) /\ e.inflight = drv.inflight
      BY <2>s DEF Kept, Drivers, UntypedEnded
    <3>5. u \in BOOLEAN /\ v \in BOOLEAN
      OBVIOUS
    <3> HIDE DEF e, u, v
    <3>2. Kept(drv, drv') /\ drv'.inflight = drv.inflight
      BY <3>1, <3>4, <3>5 DEF Kept, Drivers
    <3> QED BY <2>8, <3>2 DEF FinishUntyped, UntypedStep
  <2> QED BY <1>2, <2>1, <2>2, <2>3, <2>4, <2>5, <2>6, <2>7, <2>8 DEF UntypedAttempt
<1> QED BY <1>1, <1>2

LEMMA UntypedMoves ==
    ASSUME Shape, UntypedAttempt
    PROVE  Moves
<1>1. RcShape(rc', drv') /\ rc'.pc \notin {"idle", "dispatch"}
  BY UntypedSteps, OnRead, OnUntyped DEF UntypedStep
<1>2. StoreMoves
  BY UntypedSteps DEF StoreMoves
<1>3. ext'.calls = ext.calls
  BY UntypedSteps
<1> QED BY <1>1, <1>2, <1>3, UntypedSteps DEF UntypedStep, Moves, Shape

LEMMA ReconcilerMoves ==
    ASSUME Shape, Reconciler, ~ReadSlots
    PROVE  Moves
<1>1. CASE Pass
  BY <1>1, WakesMoves, DispatchMoves DEF Pass
<1>2. CASE Cleanup
  BY <1>2, CommitFailsMoves, CleanupChargedMoves, StopReturnsMoves, SettledCommitMoves,
     AssignCommittedMoves, FinishMoves, PruneMoves, PruneFailsMoves DEF Cleanup, SettledCommit
<1>3. CASE TypedAttempt
  BY <1>3, AttemptHeadMoves, StartChargedMoves, GenerationCommittedMoves, StartReturnsMoves,
     JudgeStartMoves, AdmitStartMoves, SettledCommitMoves, BackoffMoves DEF TypedAttempt, SettledCommit
<1>4. CASE UntypedAttempt
  BY <1>4, UntypedMoves
<1> QED BY <1>1, <1>2, <1>3, <1>4 DEF Reconciler

-----------------------------------------------------------------------------
(* Decisions, readback and crashes                                           *)

LEMMA LimitsAreNat == StartLimit \in Nat /\ CleanupLimit \in Nat /\ MaxAttempts \in Nat
<1>1. MaxAttempts \in Nat /\ DefaultMaxAttempts \in Nat /\ DefaultMaxAttempts > 1
  BY ControlBounds
<1> QED BY <1>1 DEF StartLimit, CleanupLimit

LEMMA TransitionSlot ==
    ASSUME NEW kind \in Kinds, NEW seq \in Nat, NEW rev \in Nat
    PROVE  /\ Transition(kind, seq, rev) \in Slots
           /\ Transition(kind, seq, rev).seq = seq /\ Transition(kind, seq, rev).rev = rev
           /\ Transition(kind, seq, rev).used = 0
BY DEF Transition, Slots, Dues

LEMMA CancellationSlot ==
    ASSUME NEW a \in Attempts, NEW seq \in Nat, NEW rev \in Nat
    PROVE  /\ Cancellation(a, seq, rev) \in Slots
           /\ Cancellation(a, seq, rev).seq = seq /\ Cancellation(a, seq, rev).rev = rev
<1> DEFINE t == Transition("CANCEL", seq, rev)
           b == Begun(t, a.corr, a.due)
           n == IF a.used < StartLimit THEN a.used ELSE StartLimit
<1>1. t \in Slots /\ t.seq = seq /\ t.rev = rev
  BY TransitionSlot DEF Kinds
<1>2. a.corr \in Corrs /\ a.due \in Dues /\ n \in Nat
  BY LimitsAreNat DEF Attempts
<1> HIDE DEF t
<1>3. b \in Slots /\ b.seq = seq /\ b.rev = rev
  BY <1>1, <1>2, BegunSlot
<1>4. Cancellation(a, seq, rev) = [b EXCEPT !.phase = "PENDING", !.used = n]
  BY DEF Cancellation, t
<1> HIDE DEF b, n
<1> QED BY <1>2, <1>3, <1>4 DEF Slots

\* What a plan leaves of the slots of the record, and what it puts behind them.
LEMMA PlannedRecord ==
    ASSUME Shape, NEW method \in Methods
    PROVE  LET r == store.rec
               p == Planned(method)
           IN  /\ p \in Records /\ p.rev = r.rev + 1 /\ p.seq > r.seq
               /\ \/ p.cur = r.cur
                  \/ r.cur = Nothing /\ p.cur \in Slots /\ r.seq < p.cur.seq /\ p.cur.seq <= p.seq
                     /\ p.cur.rev = p.rev
               /\ p.res # Nothing =>
                     /\ p.res \in Slots /\ p.res.seq = p.seq /\ p.res.rev = p.rev
                     /\ p.cur # Nothing /\ p.cur # r.cur => p.cur.seq < p.res.seq
<1> DEFINE r == store.rec
           p == Planned(method)
           rev == r.rev + 1
           first == IF Cancels(method) THEN r.seq + 2 ELSE r.seq + 1
           next == Transition(method, first, rev)
           can == Cancellation(drv.untyped, r.seq + 1, rev)
<1>1. /\ r \in Records /\ r.seq \in Nat /\ r.rev \in Nat /\ r.cur \in Slots \cup {Nothing}
      /\ drv \in Drivers
  BY DEF Shape, Records
<1>2. rev \in Nat /\ first \in Nat /\ r.seq < first
  BY <1>1
<1>3. next \in Slots /\ next.seq = first /\ next.rev = rev
  BY <1>2, TransitionSlot DEF Methods, Kinds
<1>4. Cancels(method) => can \in Slots /\ can.seq = r.seq + 1 /\ can.rev = rev /\ r.cur = Nothing
  <2>1. Cancels(method) => drv.untyped \in Attempts /\ r.cur = Nothing
    BY <1>1 DEF Cancels, Drivers
  <2>2. r.seq + 1 \in Nat
    BY <1>1
  <2> QED BY <2>1, <2>2, <1>2, CancellationSlot
<1>5. p = [desired |-> IF method = "STOP" THEN "STOPPED" ELSE "RUNNING",
           rev |-> rev, seq |-> first,
           cur |-> IF Cancels(method) THEN can ELSE IF r.cur = Nothing THEN next ELSE r.cur,
           res |-> IF Cancels(method) \/ r.cur # Nothing THEN next ELSE Nothing]
  BY DEF Planned
<1>7. Cancels(method) => first = r.seq + 2
  OBVIOUS
<1> HIDE DEF next, can, rev, first, p, r
<1>6. p \in Records
  BY <1>1, <1>2, <1>3, <1>4, <1>5 DEF Records
<1>8. CASE Cancels(method)
  <2>1. p.cur = can /\ p.res = next /\ p.rev = rev /\ p.seq = first
    BY <1>5, <1>8
  <2> QED BY <2>1, <1>1, <1>2, <1>3, <1>4, <1>6, <1>7, <1>8 DEF p, r, rev
<1>9. CASE ~Cancels(method) /\ r.cur = Nothing
  <2>1. p.cur = next /\ p.res = Nothing /\ p.rev = rev /\ p.seq = first
    BY <1>5, <1>9
  <2> QED BY <2>1, <1>1, <1>2, <1>3, <1>6, <1>9 DEF p, r, rev
<1>10. CASE ~Cancels(method) /\ r.cur # Nothing
  <2>1. p.cur = r.cur /\ p.res = next /\ p.rev = rev /\ p.seq = first
    BY <1>5, <1>10
  <2> QED BY <2>1, <1>1, <1>2, <1>3, <1>6, <1>10 DEF p, r, rev
<1> QED BY <1>8, <1>9, <1>10

LEMMA RcKept ==
    ASSUME RcShape(rc, drv), rc' = rc, drv' \in Drivers,
           \/ drv'.inflight = drv.inflight
           \/ drv'.inflight \in Attempts /\ drv'.inflight.seq = drv.inflight.seq,
           drv'.untyped = drv.untyped \/ drv'.untyped \in Attempts
    PROVE  RcShape(rc', drv')
BY DEF RcShape

LEMMA FencedAttempt ==
    ASSUME NEW a \in Attempts \cup {Nothing}
    PROVE  /\ Fenced(a) \in Attempts \cup {Nothing}
           /\ a = Nothing => Fenced(a) = Nothing
           /\ a # Nothing => /\ Fenced(a) \in Attempts /\ Fenced(a).seq = a.seq
                             /\ Fenced(a).chargedTo = a.chargedTo
BY DEF Fenced, Attempts

LEMMA ReleasedDriver ==
    ASSUME NEW d \in Drivers, NEW fence \in BOOLEAN
    PROVE  LET e == Released(d, fence)
           IN  /\ e \in Drivers /\ e.wake /\ ~e.deciding /\ e.amb = NoAmbiguity
               /\ e.quarantined = d.quarantined /\ e.blocked = d.blocked
               /\ e.inflight \in {d.inflight, Fenced(d.inflight)}
               /\ e.untyped \in {d.untyped, Fenced(d.untyped)}
<1> DEFINE a == IF fence THEN Fenced(d.untyped) ELSE d.untyped
           b == IF fence THEN Fenced(d.inflight) ELSE d.inflight
<1>1. a \in Attempts \cup {Nothing} /\ b \in Attempts \cup {Nothing}
  BY FencedAttempt DEF Drivers
<1>2. NoAmbiguity \in Ambiguities
  BY DEF NoAmbiguity, Ambiguities
<1>3. Released(d, fence) = [d EXCEPT !.untyped = a, !.inflight = b, !.amb = NoAmbiguity,
                                     !.deciding = FALSE, !.wake = TRUE]
  BY DEF Released
<1>4. a \in {d.untyped, Fenced(d.untyped)} /\ b \in {d.inflight, Fenced(d.inflight)}
  OBVIOUS
<1> HIDE DEF a, b
<1> QED BY <1>1, <1>2, <1>3, <1>4 DEF Drivers

LEMMA ReleasedRc ==
    ASSUME drv \in Drivers, RcShape(rc, drv), rc' = rc, NEW fence \in BOOLEAN, drv' = Released(drv, fence)
    PROVE  RcShape(rc', drv')
<1>1. drv.inflight \in Attempts \cup {Nothing} /\ drv.untyped \in Attempts \cup {Nothing}
  BY DEF Drivers
<1> QED BY <1>1, ReleasedDriver, FencedAttempt, RcKept

\* The part of a step that leaves reconciler and store alone.
LEMMA ShapeKept ==
    ASSUME Shape, drv' \in Drivers, RcShape(rc', drv'), store' = store, ext' = ext, count' = count,
           req' \in [pc : {"idle", "publish", "release", "unknown", "check", "resolving", "arm"},
                     expected : Nat, fence : BOOLEAN],
           peer' \in {"idle", "settle", "resolving"},
           rb' \in [pc : {"off", "try", "settle", "resolving", "disarm"}, tries : Nat]
    PROVE  Shape'
BY DEF Shape

LEMMA InitWakeInv == Init => WakeInv
<1> SUFFICES ASSUME Init PROVE WakeInv
  OBVIOUS
<1>1. \A rec \in FirstRecords : rec \in Records
  <2>1. Transition("START", 1, 1) \in Slots
    BY TransitionSlot DEF Kinds, Methods
  <2> QED BY <2>1 DEF FirstRecords, Workless, Records
<1>2. Booted \in Drivers /\ Booted.amb.state = "none" /\ ~Booted.deciding /\ Booted.wake
  BY DEF Booted, Drivers, NoAmbiguity, Ambiguities
<1>3. RcShape(rc, drv)
  BY DEF Init, Asleep, RcShape, At, AtShape, OnAttempt, UntypedPcs, AttemptPcs, OfAttempt
<1>4. Shape
  BY <1>1, <1>2, <1>3 DEF Init, Shape, Quiet, NoCalls
<1>5. Deciders
  BY <1>2 DEF Init, Deciders, Quiet
<1>6. Awake
  BY <1>2 DEF Init, Awake, Stirs
<1> QED BY <1>4, <1>5, <1>6 DEF WakeInv

LEMMA DecideWakeInv ==
    ASSUME WakeInv, NEW method \in Methods, Decide(method)
    PROVE  WakeInv'
<1> USE DEF WakeInv
<1>s. drv \in Drivers /\ store.rec.rev \in Nat /\ count \in [epochs : Nat, boots : Nat, faults : Nat]
  BY DEF Shape, Records
<1>1. /\ drv' \in Drivers /\ drv'.deciding /\ drv'.amb = drv.amb
      /\ drv'.inflight = drv.inflight /\ drv'.untyped = drv.untyped
  BY <1>s DEF Decide, Drivers
<1>2. RcShape(rc', drv')
  BY <1>1, RcKept DEF Decide, Shape
<1>3. /\ store' \in [rec : Records, staged : Records \cup {Nothing},
                     status : {"open", "ambiguous", "failed"}]
      /\ store'.status = "ambiguous" => store'.staged \in Records
  <2>1. Planned(method) \in Records
    BY PlannedRecord
  <2> QED BY <2>1 DEF Decide, Shape, Committed, Staged
<1>4. /\ req' = [pc |-> req'.pc, expected |-> store.rec.rev, fence |-> Fences(method)]
      /\ req'.pc \in {"publish", "unknown"}
  BY DEF Decide
<1>5. Fences(method) \in BOOLEAN
  BY DEF Fences
<1>6. count' \in [epochs : Nat, boots : Nat, faults : Nat]
  BY <1>s DEF Decide, Faulty
<1>7. Shape'
  BY <1>1, <1>2, <1>3, <1>4, <1>5, <1>6, <1>s DEF Shape, Decide
<1>8. drv.amb.state = "none" /\ peer' = peer /\ rb' = rb /\ peer # "resolving" /\ rb.pc # "resolving"
  BY DEF Decide, Decidable, Deciders
<1>9. Deciders'
  BY <1>1, <1>4, <1>8 DEF Deciders
<1>10. Awake'
  BY <1>1 DEF Awake, Stirs
<1> QED BY <1>7, <1>9, <1>10

\* A resolver takes the held decision.
LEMMA TakenDriver ==
    ASSUME Shape, NEW x \in {"req", "peer", "rb"}, TakeAmbiguous(x)
    PROVE  /\ drv' \in Drivers /\ drv'.deciding = drv.deciding /\ drv.amb.state = "held"
           /\ drv'.amb.state = "resolving" /\ drv'.amb.by = x
           /\ drv'.amb.adopted = (store.rec.rev # drv.amb.expected)
           /\ drv'.inflight = drv.inflight /\ drv'.untyped = drv.untyped
<1>s. drv \in Drivers /\ drv.amb \in Ambiguities
  BY DEF Shape, Drivers
<1> DEFINE v == store.rec.rev # drv.amb.expected
           m == [drv.amb EXCEPT !.state = "resolving", !.by = x, !.adopted = v]
<1>0. v \in BOOLEAN
  OBVIOUS
<1>2. drv' = [drv EXCEPT !.amb = m] /\ drv.amb.state = "held"
  BY <1>s DEF TakeAmbiguous, Drivers, Ambiguities
<1> HIDE DEF v
<1>1. m \in Ambiguities /\ m.state = "resolving" /\ m.by = x /\ m.adopted = v
  BY <1>0, <1>s DEF Ambiguities
<1> HIDE DEF m
<1> QED BY <1>s, <1>1, <1>2 DEF Drivers, v

LEMMA RequesterWakeInv ==
    ASSUME WakeInv, Requester
    PROVE  WakeInv'
<1> USE DEF WakeInv
<1>s. /\ drv \in Drivers /\ drv.amb \in Ambiguities
      /\ req \in [pc : {"idle", "publish", "release", "unknown", "check", "resolving", "arm"},
                  expected : Nat, fence : BOOLEAN]
      /\ peer \in {"idle", "settle", "resolving"}
      /\ rb \in [pc : {"off", "try", "settle", "resolving", "disarm"}, tries : Nat]
  BY DEF Shape, Drivers
<1>f. UNCHANGED <<store, rc, peer, ext, count>>
  BY DEF Requester, PublishAccepted, ReleaseDecision, HoldAmbiguous, CheckAdmission, ArmReadback
<1>1. CASE PublishAccepted
  <2>1. drv' = drv /\ rb' = rb /\ req' = [req EXCEPT !.pc = "release"] /\ req.pc = "publish"
    BY <1>1 DEF PublishAccepted
  <2>2. Shape'
    BY <1>s, <1>f, <2>1, ShapeKept DEF Shape
  <2>3. Deciders' /\ Awake'
    BY <1>s, <1>f, <2>1 DEF Deciders, Awake, Stirs, Open, Unattended
  <2> QED BY <2>2, <2>3
<1>2. CASE ReleaseDecision
  <2>1. drv' = Released(drv, req.fence) /\ rb' = rb /\ req' = Quiet /\ req.fence \in BOOLEAN
    BY <1>2, <1>s DEF ReleaseDecision
  <2>2. drv' \in Drivers /\ drv'.wake /\ ~drv'.deciding /\ drv'.amb.state = "none"
    BY <2>1, <1>s, ReleasedDriver DEF NoAmbiguity
  <2>3. RcShape(rc', drv')
    BY <2>1, <1>s, <1>f, ReleasedRc DEF Shape
  <2>4. Quiet.pc = "idle" /\ req' \in [pc : {"idle", "publish", "release", "unknown", "check", "resolving", "arm"},
                  expected : Nat, fence : BOOLEAN]
    BY <2>1 DEF Quiet
  <2>5. Shape'
    BY <1>s, <1>f, <2>1, <2>2, <2>3, <2>4, ShapeKept
  <2>6. drv.amb.state = "none" /\ req.pc = "release"
    BY <1>2 DEF ReleaseDecision, Deciders
  <2>7. Deciders'
    BY <1>f, <2>1, <2>2, <2>4, <2>6 DEF Deciders
  <2>8. Awake'
    BY <2>2 DEF Awake, Stirs
  <2> QED BY <2>5, <2>7, <2>8
<1>3. CASE HoldAmbiguous
  <2> DEFINE m == [NoAmbiguity EXCEPT !.state = "held", !.expected = req.expected, !.fence = req.fence]
  <2>0. m \in Ambiguities /\ m.state = "held"
    BY <1>s DEF NoAmbiguity, Ambiguities
  <2>1. drv' = [drv EXCEPT !.amb = m] /\ rb' = rb /\ req' = [req EXCEPT !.pc = "check"] /\ req.pc = "unknown"
    BY <1>3 DEF HoldAmbiguous
  <2> HIDE DEF m
  <2>2. /\ drv' \in Drivers /\ drv'.amb = m /\ drv'.deciding = drv.deciding
        /\ drv'.inflight = drv.inflight /\ drv'.untyped = drv.untyped
    BY <1>s, <2>0, <2>1 DEF Drivers
  <2>3. RcShape(rc', drv')
    BY <2>2, <1>f, RcKept DEF Shape
  <2>4. Shape'
    BY <1>s, <1>f, <2>1, <2>2, <2>3, ShapeKept
  <2>5. drv.deciding /\ drv.amb.state = "none" /\ req'.pc = "check"
    BY <2>1, <1>s DEF Deciders
  <2>6. Deciders'
    BY <1>f, <2>0, <2>1, <2>2, <2>5 DEF Deciders
  <2>7. Awake'
    BY <2>2, <2>5 DEF Awake, Stirs
  <2> QED BY <2>4, <2>6, <2>7
<1>4. CASE CheckAdmission
  <2>0. req.pc = "check" /\ rb' = rb
    BY <1>4 DEF CheckAdmission
  <2>1. CASE Open /\ TakeAmbiguous("req") /\ req' = [req EXCEPT !.pc = "resolving"]
    <3>3. /\ drv' \in Drivers /\ drv'.deciding = drv.deciding /\ drv.amb.state = "held"
          /\ drv'.amb.state = "resolving" /\ drv'.amb.by = "req"
          /\ drv'.inflight = drv.inflight /\ drv'.untyped = drv.untyped
      BY <2>1, TakenDriver
    <3>4. RcShape(rc', drv')
      BY <3>3, <1>f, RcKept DEF Shape
    <3>5. Shape'
      BY <1>s, <1>f, <2>0, <2>1, <3>3, <3>4, ShapeKept
    <3>6. drv.deciding /\ req'.pc = "resolving" /\ peer # "resolving" /\ rb.pc # "resolving"
      BY <3>3, <2>1, <1>s DEF Deciders
    <3>7. Deciders'
      BY <1>f, <2>0, <3>3, <3>6 DEF Deciders
    <3>8. Awake'
      BY <3>3, <3>6 DEF Awake, Stirs
    <3> QED BY <3>5, <3>7, <3>8
  <2>2. CASE (~Open \/ NothingHeld) /\ req' = [req EXCEPT !.pc = "arm"] /\ drv' = drv
    <3>2. Shape'
      BY <1>s, <1>f, <2>0, <2>2, ShapeKept DEF Shape
    <3>3. Deciders' /\ Awake'
      BY <1>s, <1>f, <2>0, <2>2 DEF Deciders, Awake, Stirs, Open, Unattended, NothingHeld
    <3> QED BY <3>2, <3>3
  <2> QED BY <1>4, <2>1, <2>2 DEF CheckAdmission
<1>5. CASE ArmReadback
  <2>1. drv' = drv /\ req' = Quiet /\ req.pc = "arm" /\ rb' \in {rb, Armed}
    BY <1>5 DEF ArmReadback
  <2>2. /\ rb' \in [pc : {"off", "try", "settle", "resolving", "disarm"}, tries : Nat]
        /\ rb' = rb \/ (rb.pc = "off" /\ rb'.pc = "try")
    BY <2>1, <1>s DEF Armed
  <2>3. Quiet.pc = "idle" /\ req' \in [pc : {"idle", "publish", "release", "unknown", "check", "resolving", "arm"},
                  expected : Nat, fence : BOOLEAN]
    BY <2>1 DEF Quiet
  <2>4. Shape'
    BY <1>s, <1>f, <2>1, <2>2, <2>3, ShapeKept DEF Shape
  <2>5. Deciders' /\ Awake'
    BY <1>s, <1>f, <2>1, <2>2, <2>3 DEF Deciders, Awake, Stirs, Open, Unattended
  <2> QED BY <2>4, <2>5
<1> QED BY <1>1, <1>2, <1>3, <1>4, <1>5 DEF Requester

LEMMA RereadStore ==
    ASSUME Shape, Reread
    PROVE  /\ store' \in [rec : Records, staged : Records \cup {Nothing},
                          status : {"open", "ambiguous", "failed"}]
           /\ store'.status = "open" /\ ~Open /\ store'.rec \in {store.rec, store.staged}
BY DEF Shape, Reread, Open

LEMMA ResolverWakeInv ==
    ASSUME WakeInv, Resolver
    PROVE  WakeInv'
<1> USE DEF WakeInv
<1>s. /\ drv \in Drivers
      /\ rb \in [pc : {"off", "try", "settle", "resolving", "disarm"}, tries : Nat]
  BY DEF Shape
<1>f. UNCHANGED <<rc, req, peer, ext, count>>
  BY DEF Resolver, ReadbackTry, ReadbackResolved, ReadbackDisarms
<1>1. CASE ReadbackTry
  <2>0. rb.pc = "try" /\ drv' = drv
    BY <1>1 DEF ReadbackTry
  <2>1. \/ Reread /\ rb' = [rb EXCEPT !.pc = "settle"]
        \/ store' = store /\ Open /\ rb' = [rb EXCEPT !.pc = "settle"]
        \/ /\ ~Open /\ rb' \in [pc : {"try", "disarm"}, tries : Nat]
           /\ \/ store' = store
              \/ store' = [store EXCEPT !.staged = Nothing, !.status = "failed"]
    BY <1>1, <1>s DEF ReadbackTry, Open
  <2>2. /\ rb' \in [pc : {"off", "try", "settle", "resolving", "disarm"}, tries : Nat]
        /\ rb'.pc \in {"try", "settle", "disarm"}
    BY <2>1, <1>s
  <2>3. /\ store' \in [rec : Records, staged : Records \cup {Nothing},
                       status : {"open", "ambiguous", "failed"}]
        /\ store'.status = "ambiguous" => store'.staged \in Records
        /\ Open' => rb'.pc = "settle"
    BY <2>1, <1>s, RereadStore DEF Shape, Open
  <2>4. Shape'
    BY <1>f, <2>0, <2>2, <2>3 DEF Shape
  <2>5. Deciders'
    BY <1>f, <2>0, <2>2, <2>3 DEF Deciders
  <2>6. Awake'
    <3>1. Stirs'
      BY <2>3 DEF Stirs
    <3> QED BY <3>1 DEF Awake
  <2> QED BY <2>4, <2>5, <2>6
<1>2. CASE ReadbackResolved
  <2>0. rb.pc = "settle" /\ store' = store
    BY <1>2 DEF ReadbackResolved
  <2>1. CASE TakeAmbiguous("rb") /\ rb' = [rb EXCEPT !.pc = "resolving"]
    <3>3. /\ drv' \in Drivers /\ drv'.deciding = drv.deciding /\ drv.amb.state = "held"
          /\ drv'.amb.state = "resolving" /\ drv'.amb.by = "rb"
          /\ drv'.inflight = drv.inflight /\ drv'.untyped = drv.untyped
      BY <2>1, TakenDriver
    <3>4. RcShape(rc', drv')
      BY <3>3, <1>f, RcKept DEF Shape
    <3>5. Shape'
      BY <1>s, <1>f, <2>0, <2>1, <3>3, <3>4, ShapeKept DEF Shape
    <3>6. drv.deciding /\ rb'.pc = "resolving" /\ peer # "resolving" /\ req.pc # "resolving"
      BY <3>3, <2>1, <1>s DEF Deciders
    <3>7. Deciders'
      BY <1>f, <2>0, <3>3, <3>6 DEF Deciders
    <3>8. Awake'
      BY <3>3, <3>6 DEF Awake, Stirs
    <3> QED BY <3>5, <3>7, <3>8
  <2>2. CASE NothingHeld /\ drv' = [drv EXCEPT !.wake = TRUE] /\ rb' = [rb EXCEPT !.pc = "disarm"]
    <3>1. /\ drv' \in Drivers /\ drv'.deciding = drv.deciding /\ drv'.amb = drv.amb /\ drv'.wake
          /\ drv'.inflight = drv.inflight /\ drv'.untyped = drv.untyped
      BY <2>2, <1>s DEF Drivers
    <3>2. RcShape(rc', drv')
      BY <3>1, <1>f, RcKept DEF Shape
    <3>3. Shape'
      BY <1>s, <1>f, <2>0, <2>2, <3>1, <3>2, ShapeKept DEF Shape
    <3>4. Deciders'
      BY <1>s, <1>f, <2>0, <2>2, <3>1 DEF Deciders, NothingHeld
    <3>5. Awake'
      BY <3>1 DEF Awake, Stirs
    <3> QED BY <3>3, <3>4, <3>5
  <2> QED BY <1>2, <2>1, <2>2 DEF ReadbackResolved
<1>3. CASE ReadbackDisarms
  <2>1. drv' = drv /\ store' = store /\ rb' = [rb EXCEPT !.pc = "off"] /\ rb.pc = "disarm"
    BY <1>3 DEF ReadbackDisarms
  <2>2. Shape'
    BY <1>s, <1>f, <2>1, ShapeKept DEF Shape
  <2>3. Deciders' /\ Awake'
    BY <1>s, <1>f, <2>1 DEF Deciders, Awake, Stirs, Open, Unattended
  <2> QED BY <2>2, <2>3
<1> QED BY <1>1, <1>2, <1>3 DEF Resolver

LEMMA PeerWakeInv ==
    ASSUME WakeInv, PeerReadsBack \/ PeerSettles
    PROVE  WakeInv'
<1> USE DEF WakeInv
<1>s. drv \in Drivers
  BY DEF Shape
<1>f. UNCHANGED <<rc, req, rb, ext, count>>
  BY DEF PeerReadsBack, PeerSettles
<1>1. CASE PeerReadsBack
  <2>1. peer = "idle" /\ peer' = "settle" /\ drv' = drv /\ Reread
    BY <1>1 DEF PeerReadsBack
  <2>2. Shape'
    BY <1>f, <2>1, RereadStore DEF Shape
  <2>3. Deciders'
    BY <1>f, <2>1 DEF Deciders
  <2>4. Awake'
    BY <2>1 DEF Awake, Stirs
  <2> QED BY <2>2, <2>3, <2>4
<1>2. CASE PeerSettles
  <2>0. peer = "settle" /\ store' = store
    BY <1>2 DEF PeerSettles
  <2>1. CASE TakeAmbiguous("peer") /\ peer' = "resolving"
    <3>3. /\ drv' \in Drivers /\ drv'.deciding = drv.deciding /\ drv.amb.state = "held"
          /\ drv'.amb.state = "resolving" /\ drv'.amb.by = "peer"
          /\ drv'.inflight = drv.inflight /\ drv'.untyped = drv.untyped
      BY <2>1, TakenDriver
    <3>4. RcShape(rc', drv')
      BY <3>3, <1>f, RcKept DEF Shape
    <3>5. Shape'
      BY <1>f, <2>0, <2>1, <3>3, <3>4, ShapeKept DEF Shape
    <3>6. drv.deciding /\ rb.pc # "resolving" /\ req.pc # "resolving"
      BY <3>3 DEF Deciders
    <3>7. Deciders'
      BY <1>f, <2>0, <2>1, <3>3, <3>6 DEF Deciders
    <3>8. Awake'
      BY <3>3, <3>6 DEF Awake, Stirs
    <3> QED BY <3>5, <3>7, <3>8
  <2>2. CASE NothingHeld /\ drv' = [drv EXCEPT !.wake = TRUE] /\ peer' = "idle"
    <3>1. /\ drv' \in Drivers /\ drv'.deciding = drv.deciding /\ drv'.amb = drv.amb /\ drv'.wake
          /\ drv'.inflight = drv.inflight /\ drv'.untyped = drv.untyped
      BY <2>2, <1>s DEF Drivers
    <3>2. RcShape(rc', drv')
      BY <3>1, <1>f, RcKept DEF Shape
    <3>3. Shape'
      BY <1>f, <2>0, <2>2, <3>1, <3>2, ShapeKept DEF Shape
    <3>4. Deciders'
      BY <1>f, <2>0, <2>2, <3>1 DEF Deciders, NothingHeld
    <3>5. Awake'
      BY <3>1 DEF Awake, Stirs
    <3> QED BY <3>3, <3>4, <3>5
  <2> QED BY <1>2, <2>1, <2>2 DEF PeerSettles
<1> QED BY <1>1, <1>2

LEMMA SettlingWakeInv ==
    ASSUME WakeInv, Settling
    PROVE  WakeInv'
<1> USE DEF WakeInv
<1>s. /\ drv \in Drivers /\ drv.amb \in Ambiguities
      /\ req \in [pc : {"idle", "publish", "release", "unknown", "check", "resolving", "arm"},
                  expected : Nat, fence : BOOLEAN]
      /\ rb \in [pc : {"off", "try", "settle", "resolving", "disarm"}, tries : Nat]
  BY DEF Shape, Drivers
<1>f. UNCHANGED <<store, rc, ext, count>>
  BY DEF Settling, PublishAdopted, ReleaseAmbiguous
<1>1. CASE PublishAdopted
  <2> DEFINE m == [drv.amb EXCEPT !.state = "settled"]
  <2>0. m \in Ambiguities /\ m.state = "settled" /\ m.by = drv.amb.by
    BY <1>s DEF Ambiguities
  <2>1. drv' = [drv EXCEPT !.amb = m] /\ UNCHANGED <<req, peer, rb>> /\ drv.amb.state = "resolving"
    BY <1>1 DEF PublishAdopted
  <2> HIDE DEF m
  <2>2. /\ drv' \in Drivers /\ drv'.amb = m /\ drv'.deciding = drv.deciding
        /\ drv'.inflight = drv.inflight /\ drv'.untyped = drv.untyped
    BY <1>s, <2>0, <2>1 DEF Drivers
  <2>3. RcShape(rc', drv')
    BY <2>2, <1>f, RcKept DEF Shape
  <2>4. Shape'
    BY <1>f, <2>1, <2>2, <2>3, ShapeKept DEF Shape
  <2>5. drv.deciding
    BY <2>1 DEF Deciders
  <2>6. Deciders'
    BY <1>f, <2>0, <2>1, <2>2, <2>5 DEF Deciders
  <2>7. Awake'
    BY <2>2, <2>5 DEF Awake, Stirs
  <2> QED BY <2>4, <2>6, <2>7
<1>2. CASE ReleaseAmbiguous
  <2> DEFINE fence == drv.amb.fence /\ drv.amb.adopted
  <2>0. fence \in BOOLEAN
    BY <1>s DEF Ambiguities
  <2>1. /\ drv' = Released(drv, fence) /\ drv.amb.state = "settled"
        /\ req' = IF drv.amb.by = "req" THEN [req EXCEPT !.pc = "arm"] ELSE req
        /\ peer' = IF drv.amb.by = "peer" THEN "idle" ELSE peer
        /\ rb' = IF drv.amb.by = "rb" THEN [rb EXCEPT !.pc = "disarm"] ELSE rb
    BY <1>2 DEF ReleaseAmbiguous
  <2> HIDE DEF fence
  <2>2. drv' \in Drivers /\ drv'.wake /\ ~drv'.deciding /\ drv'.amb.state = "none"
    BY <2>0, <2>1, <1>s, ReleasedDriver DEF NoAmbiguity
  <2>3. RcShape(rc', drv')
    BY <2>0, <2>1, <1>s, <1>f, ReleasedRc DEF Shape
  <2>4. /\ req' \in [pc : {"idle", "publish", "release", "unknown", "check", "resolving", "arm"},
                     expected : Nat, fence : BOOLEAN]
        /\ rb' \in [pc : {"off", "try", "settle", "resolving", "disarm"}, tries : Nat]
        /\ peer' \in {"idle", "settle", "resolving"}
        /\ req'.pc \notin {"publish", "release", "unknown", "resolving"}
        /\ rb'.pc # "resolving" /\ peer' # "resolving"
    BY <2>1, <1>s DEF Deciders, Shape
  <2>5. Shape'
    BY <1>f, <2>2, <2>3, <2>4, ShapeKept
  <2>6. Deciders'
    BY <2>2, <2>4 DEF Deciders
  <2>7. Awake'
    BY <2>2 DEF Awake, Stirs
  <2> QED BY <2>5, <2>6, <2>7
<1> QED BY <1>1, <1>2 DEF Settling

LEMMA CrashWakeInv ==
    ASSUME WakeInv, Crash
    PROVE  WakeInv'
<1>1. /\ store' \in [rec : Records, staged : Records \cup {Nothing},
                     status : {"open", "ambiguous", "failed"}]
      /\ store'.status = "open"
  BY DEF Crash, WakeInv, Shape, Open
<1>2. Booted \in Drivers /\ Booted.amb.state = "none" /\ ~Booted.deciding /\ Booted.wake
  BY DEF Booted, Drivers, NoAmbiguity, Ambiguities
<1>3. RcShape(rc', drv')
  BY DEF Crash, Asleep, RcShape, At, AtShape, OnAttempt, UntypedPcs, AttemptPcs, OfAttempt
<1>4. /\ count' \in [epochs : Nat, boots : Nat, faults : Nat]
      /\ ext'.calls = ext.calls /\ ext' = [open |-> ext'.open, calls |-> ext'.calls]
  BY DEF Crash, WakeInv, Shape
<1>5. Shape'
  BY <1>1, <1>2, <1>3, <1>4 DEF Crash, Shape, Quiet, WakeInv
<1>6. Deciders'
  BY <1>2 DEF Crash, Deciders, Quiet
<1>7. Awake'
  BY <1>2 DEF Crash, Awake, Stirs
<1> QED BY <1>5, <1>6, <1>7 DEF WakeInv

LEMMA NextWakeInv ==
    ASSUME WakeInv, [Next]_vars
    PROVE  WakeInv'
<1>1. CASE Reconciler
  <2>1. CASE ReadSlots
    BY <2>1, ReadSlotsWakeInv
  <2>2. CASE ~ReadSlots
    BY <2>2, <1>1, ReconcilerMoves, MovesKeepWakeInv DEF WakeInv
  <2> QED BY <2>1, <2>2
<1>2. CASE vars' = vars
  BY <1>2 DEF vars, WakeInv, Shape, Deciders, Awake, Stirs, Unattended, Open, RcShape, AtShape, OnAttempt
<1> QED BY <1>1, <1>2, DecideWakeInv, RequesterWakeInv, ResolverWakeInv, SettlingWakeInv,
       PeerWakeInv, CrashWakeInv DEF Next

\* Nobody sleeps over accepted work or a held decision: with the admission open
\* and every goroutine at rest no decision is held, and no work is left unless
\* the driver is quarantined or blocked, over any number of failing writes,
\* readbacks, requests and crashes.
THEOREM ControlNoLostWakeup == Spec => []NoLostWakeup
<1>1. WakeInv => NoLostWakeup
  BY DEF WakeInv, Deciders, Awake, Stirs, Unattended, NoLostWakeup, AtRest, Shape, Drivers, Ambiguities
<1> QED BY <1>1, InitWakeInv, NextWakeInv, PTL DEF Spec

-----------------------------------------------------------------------------
(* The start budget                                                          *)

LEMMA BudgetTypes ==
    ASSUME Shape
    PROVE  /\ ext.calls.seq \in Nat /\ ext.calls.starts \in Nat
           /\ \A r \in StoredRecords : r \in Records
           /\ store.rec \in Records
BY DEF Shape, StoredRecords

LEMMA RecordTypes ==
    ASSUME NEW r \in Records
    PROVE  /\ r.seq \in Nat
           /\ r.cur # Nothing => r.cur \in Slots /\ r.cur.seq \in Nat /\ r.cur.used \in Nat
           /\ r.res # Nothing => r.res \in Slots /\ r.res.seq \in Nat /\ r.res.used \in Nat
BY DEF Records, Slots

\* The slot that was settled keeps the books.
LEMMA LeadsBudget ==
    ASSUME Shape, Shape', ext'.calls = ext.calls, NEW t \in Slots, Leads(drv, t), Covers(t),
           \A r \in StoredRecords' : Behind(t, r), ChargeBudget
    PROVE  RcBudget' /\ ChargeBudget'
<1>1. ChargeBudget'
  BY DEF Leads, Carried, ChargeBudget, OnAttempt
<1>2. /\ rc'.pc \notin {"dispatch", "prune", "start"} /\ rc'.k # "charged"
      /\ rc'.pc \in {"stop"} \cup AttemptPcs => rc'.t = t
  BY DEF Leads, AttemptPcs
<1>3. ASSUME rc'.pc \in SlotPcs
      PROVE  Covers(rc.t)'
  <2>1. rc'.t.seq = t.seq /\ rc'.t.used >= t.used
    BY <1>3 DEF Leads
  <2>2. rc'.t \in Slots
    BY <1>3 DEF Leads, RcShape, AtShape, SlotPcs, UntypedPcs, AttemptPcs
  <2>3. rc'.t.used \in Nat /\ t.used \in Nat /\ ext.calls.starts \in Nat
    BY <2>2, BudgetTypes DEF Slots
  <2> QED BY <2>1, <2>3 DEF Covers
<1> QED BY <1>1, <1>2, <1>3 DEF RcBudget

\* A step of the reconciler that has nothing in hand afterwards.
LEMMA EmptyHanded ==
    ASSUME rc'.pc \in {"idle", "read", "u_install"} \cup UntypedPcs
    PROVE  RcBudget' /\ ~OnAttempt(rc')
BY DEF RcBudget, SlotPcs, AttemptPcs, UntypedPcs, OnAttempt

LEMMA ChargeKept ==
    ASSUME ChargeBudget, ext'.calls = ext.calls,
           \/ drv'.inflight \in {drv.inflight, Nothing} /\ ~OnAttempt(rc')
           \/ drv'.inflight.chargedTo = 0
           \/ /\ drv.inflight # Nothing \/ OnAttempt(rc)
              /\ drv'.inflight.chargedTo = drv.inflight.chargedTo
              /\ drv'.inflight.seq = drv.inflight.seq
    PROVE  ChargeBudget'
BY DEF ChargeBudget, OnAttempt

LEMMA StoreKept ==
    ASSUME StoreBudget, store' = store, ext'.calls = ext.calls
    PROVE  StoreBudget' /\ StoredRecords' = StoredRecords
BY DEF StoreBudget, StoredRecords, Paid, Covers, Follows

\* The update rc.t of the current slot keeps the record in order.
LEMMA UpdatedPaid ==
    ASSUME Shape, Budget, rc.pc \in {"charge", "commit"}, Updatable
    PROVE  Paid(Updated) /\ Follows(store.rec, Updated) /\ Behind(rc.t, Updated)
<1>1. /\ store.rec \in Records /\ Paid(store.rec)
  BY DEF Shape, Budget, StoreBudget, StoredRecords
<1>2. rc.t \in Slots /\ Covers(rc.t)
  BY DEF Shape, RcShape, AtShape, UntypedPcs, AttemptPcs, Budget, RcBudget, SlotPcs
<1>3. /\ store.rec.cur # Nothing /\ rc.t # Nothing /\ rc.t.seq = store.rec.cur.seq
      /\ rc.t.used >= store.rec.cur.used
  BY DEF Updatable, WorkUpdate, SameIdentity
<1>4. /\ Updated.cur = rc.t /\ Updated.res = store.rec.res /\ Updated.seq = store.rec.seq
  BY <1>1 DEF Updated, Records
<1>5. /\ rc.t.seq \in Nat /\ rc.t.used \in Nat /\ store.rec.cur.used \in Nat /\ store.rec.cur.seq \in Nat
      /\ store.rec.seq \in Nat
  BY <1>1, <1>2, <1>3, RecordTypes DEF Slots
<1> HIDE DEF Updated
<1> QED BY <1>1, <1>2, <1>3, <1>4, <1>5 DEF Paid, Follows, Behind

LEMMA PrunedPaid ==
    ASSUME Shape, Budget, rc.pc = "prune", Prunable
    PROVE  Paid(Pruned) /\ Follows(store.rec, Pruned)
<1>1. /\ store.rec \in Records /\ Paid(store.rec)
  BY DEF Shape, Budget, StoreBudget, StoredRecords
<1>2. rc.t \in Slots \cup {Nothing} /\ (rc.t # Nothing => Covers(rc.t))
  BY PrunedRecord DEF Budget, RcBudget
<1>3. rc.t # Nothing =>
        \/ store.rec.cur # Nothing /\ rc.t.seq = store.rec.cur.seq /\ rc.t.used >= store.rec.cur.used
        \/ store.rec.res # Nothing /\ rc.t.seq = store.rec.res.seq
  BY DEF Prunable, WorkUpdate, SameIdentity
<1>4. /\ Pruned.cur = rc.t /\ Pruned.res = Nothing /\ Pruned.seq = store.rec.seq
  BY <1>1 DEF Pruned, Records
<1>5. /\ rc.t # Nothing => rc.t.seq \in Nat /\ rc.t.used \in Nat
      /\ store.rec.seq \in Nat
      /\ store.rec.cur # Nothing => store.rec.cur.used \in Nat /\ store.rec.cur.seq \in Nat
      /\ store.rec.res # Nothing => store.rec.res.seq \in Nat
  BY <1>1, <1>2, RecordTypes DEF Slots
<1> HIDE DEF Pruned
<1> QED BY <1>1, <1>2, <1>3, <1>4, <1>5 DEF Paid, Follows, Behind

LEMMA CommittedBudget ==
    ASSUME Shape, StoreBudget, Open, NEW r \in Records, Paid(r), Committed(r), ext'.calls = ext.calls
    PROVE  StoreBudget' /\ StoredRecords' = {r}
<1>1. store'.rec = r /\ store'.status = "open"
  BY DEF Committed, Shape, Open
<1>2. StoredRecords' = {r}
  BY <1>1 DEF StoredRecords
<1>3. Paid(r)'
  BY DEF Paid, Covers
<1> QED BY <1>1, <1>2, <1>3 DEF StoreBudget

LEMMA StagedBudget ==
    ASSUME Shape, StoreBudget, Open, NEW r \in Records, Paid(r), Follows(store.rec, r), Staged(r),
           ext'.calls = ext.calls
    PROVE  StoreBudget' /\ StoredRecords' = {store.rec, r}
<1>1. store'.rec = store.rec /\ store'.staged = r /\ store'.status = "ambiguous"
  BY DEF Staged, Shape
<1>2. StoredRecords' = {store.rec, r}
  BY <1>1 DEF StoredRecords
<1>3. Paid(store.rec) /\ Paid(r)
  BY DEF StoreBudget, StoredRecords
<1>4. \A s \in StoredRecords' : Paid(s)'
  BY <1>2, <1>3 DEF Paid, Covers
<1> QED BY <1>1, <1>2, <1>4 DEF StoreBudget, Follows

\* A commit of the update in hand.
LEMMA SavedBudget ==
    ASSUME Shape, Budget, rc.pc \in {"charge", "commit"}, Saved, ext'.calls = ext.calls
    PROVE  /\ StoreBudget' /\ \A r \in StoredRecords' : Behind(rc.t, r)
           /\ Covers(rc.t) /\ rc.t \in Slots
<1>1. rc.t \in Slots /\ Covers(rc.t)
  BY DEF Shape, RcShape, AtShape, UntypedPcs, AttemptPcs, Budget, RcBudget, SlotPcs
<1>2. Updated \in Records /\ Paid(Updated) /\ Behind(rc.t, Updated) /\ Open /\ Committed(Updated)
  BY SavedRecord, UpdatedPaid DEF Saved, Updatable
<1> HIDE DEF Updated
<1> QED BY <1>1, <1>2, CommittedBudget DEF Budget

LEMMA LimitKept ==
    ASSUME Budget, ext'.calls = ext.calls
    PROVE  StartBudgetHolds'
BY DEF Budget, StartBudgetHolds

LEMMA SettledCommitBudget ==
    ASSUME Shape, Shape', Budget, SettledCommit
    PROVE  Budget'
<1>1. rc.pc = "commit" /\ Saved /\ Leads(drv, rc.t) /\ ext' = ext
  BY SettledCommitLeads
<1>2. /\ StoreBudget' /\ \A r \in StoredRecords' : Behind(rc.t, r)
      /\ Covers(rc.t) /\ rc.t \in Slots
  BY <1>1, SavedBudget
<1>3. RcBudget' /\ ChargeBudget'
  BY <1>1, <1>2, LeadsBudget DEF Budget
<1> QED BY <1>1, <1>2, <1>3, LimitKept DEF Budget

LEMMA DispatchBudget ==
    ASSUME Shape, Shape', Budget, Dispatch
    PROVE  Budget'
<1>s. /\ drv \in Drivers /\ rc.t \in Records /\ count.epochs \in Nat /\ rc.pc = "dispatch"
      /\ ext' = ext /\ store' = store
  BY DEF Dispatch, Shape, RcShape, AtShape, UntypedPcs, AttemptPcs
<1>m. StoreBudget' /\ StoredRecords' = StoredRecords
  BY <1>s, StoreKept DEF Budget
<1>p. /\ Paid(rc.t)
      /\ rc.t.cur # Nothing => rc.t.cur \in Slots /\ Covers(rc.t.cur) /\ \A r \in StoredRecords : Behind(rc.t.cur, r)
      /\ rc.t.res # Nothing => rc.t.res \in Slots /\ Covers(rc.t.res)
  BY <1>s, RecordTypes, BudgetTypes DEF Budget, RcBudget, Paid, Covers
<1>l. ASSUME rc.t.cur # Nothing, Leads(drv, rc.t.cur)
      PROVE  Budget'
  <2> DEFINE t == rc.t.cur
  <2>1. t \in Slots /\ Covers(t) /\ Leads(drv, t) /\ \A r \in StoredRecords' : Behind(t, r)
    BY <1>l, <1>m, <1>p
  <2> HIDE DEF t
  <2>2. RcBudget' /\ ChargeBudget'
    BY <1>s, <2>1, LeadsBudget DEF Budget
  <2> QED BY <1>s, <1>m, <2>2, LimitKept DEF Budget
<1>o. ASSUME drv'.inflight = drv.inflight, RcBudget', ~OnAttempt(rc')
      PROVE  Budget'
  BY <1>o, <1>s, <1>m, ChargeKept, LimitKept DEF Budget
<1>1. CASE Held /\ Skip(drv)
  BY <1>1, <1>o, EmptyHanded DEF Skip, Asleep, At
<1>2. CASE rc.t.cur = Nothing /\ WithoutWork(rc.t)
  <2>1. CASE Skip(drv)
    BY <2>1, <1>o, EmptyHanded DEF Skip, Asleep, At
  <2>2. CASE Skip([drv EXCEPT !.quarantined = TRUE])
    <3>1. drv'.inflight = drv.inflight
      BY <2>2, <1>s DEF Drivers, Skip
    <3> QED BY <2>2, <3>1, <1>o, EmptyHanded DEF Skip, Asleep, At
  <2>3. CASE rc' = At("u_install", Nothing, "none") /\ drv' = drv
    BY <2>3, <1>o, EmptyHanded DEF At
  <2> QED BY <1>2, <2>1, <2>2, <2>3 DEF WithoutWork
<1>3. CASE rc.t.cur # Nothing /\ \E now \in Clocks(rc.t.cur.due) : WithWork(rc.t, rc.t.cur, now)
  <2> DEFINE t == rc.t.cur
  <2>0. t \in Slots
    BY <1>3, <1>p
  <2>9. PICK now : WithWork(rc.t, t, now)
    BY <1>3
  <2>l. ASSUME Leads(drv, t) PROVE Budget'
    BY <2>l, <1>l, <1>3
  <2>c. Covers(t)
    BY <1>3, <1>p
  <2> HIDE DEF t
  <2>1. CASE rc' = At("finish", t, "none") /\ drv' = drv
    <3>1. RcBudget' /\ ~OnAttempt(rc')
      BY <2>1, <2>c, <1>s DEF RcBudget, At, Covers, AttemptPcs, OnAttempt
    <3> QED BY <2>1, <3>1, <1>o
  <2>2. CASE rc' = At("prune", rc.t.res, "none") /\ drv' = drv
    <3>1. RcBudget' /\ ~OnAttempt(rc')
      BY <2>2, <1>p, <1>s DEF RcBudget, At, Covers, AttemptPcs, SlotPcs, OnAttempt
    <3> QED BY <2>2, <3>1, <1>o
  <2>3. CASE Exhaust(drv, t, TRUE)
    BY <2>3, <2>0, <1>s, ExhaustLeads, <2>l
  <2>4. CASE Skip(drv)
    BY <2>4, <1>o, EmptyHanded DEF Skip, Asleep, At
  <2>5. CASE AfterCleanup(drv, t, now)
    BY <2>5, <2>0, <1>s, CleanupLeads, <2>l
  <2>6. CASE Progress(rc.t, t, now)
    BY <2>6, <2>0, <1>s, ProgressLeads, <2>l
  <2> QED BY <2>1, <2>2, <2>3, <2>4, <2>5, <2>6, <2>9 DEF WithWork
<1> QED BY <1>1, <1>2, <1>3 DEF Dispatch

LEMMA CommitFailsBudget ==
    ASSUME Shape, Budget, CommitFails
    PROVE  Budget'
<1>s. ext' = ext /\ rc' = Asleep /\ rc.pc \in {"charge", "commit"} /\ drv \in Drivers
  BY DEF CommitFails, Shape
<1>1. RcBudget' /\ ~OnAttempt(rc')
  BY <1>s, EmptyHanded DEF Asleep, At
<1>2. ChargeBudget'
  <2>1. CASE rc.k # "regen"
    <3>1. drv'.inflight = drv.inflight
      BY <2>1, <1>s DEF CommitFails, RetryLater, Drivers
    <3> QED BY <3>1, <1>1, <1>s, ChargeKept DEF Budget
  <2>2. CASE rc.k = "regen"
    <3>1. drv.inflight \in Attempts /\ OnAttempt(rc)
      BY <2>2, <1>s DEF Shape, RcShape, AtShape, UntypedPcs, AttemptPcs, OnAttempt, OfAttempt, Settlements
    <3>2. drv'.inflight = [drv.inflight EXCEPT !.pendingGen = TRUE]
      BY <2>2, <1>s DEF CommitFails, RetryLater, Drivers
    <3>3. /\ drv'.inflight.chargedTo = drv.inflight.chargedTo /\ drv'.inflight.seq = drv.inflight.seq
      BY <3>1, <3>2 DEF Attempts
    <3> QED BY <3>1, <3>3, <1>s, ChargeKept DEF Budget
  <2> QED BY <2>1, <2>2
<1>3. StoreBudget'
  <2>1. CASE store' = store
    BY <2>1, <1>s, StoreKept DEF Budget
  <2>2. CASE Updatable /\ Staged(Updated)
    <3>1. Updated \in Records /\ Paid(Updated) /\ Follows(store.rec, Updated)
      BY <2>2, <1>s, SavedRecord, UpdatedPaid
    <3> HIDE DEF Updated
    <3> QED BY <2>2, <3>1, <1>s, StagedBudget DEF Budget, Updatable
  <2> QED BY <2>1, <2>2 DEF CommitFails
<1> QED BY <1>1, <1>2, <1>3, <1>s, LimitKept DEF Budget

LEMMA CleanupChargedBudget ==
    ASSUME Shape, Shape', Budget, CleanupCharged
    PROVE  Budget'
<1>s. /\ drv \in Drivers /\ rc.pc = "charge" /\ Saved /\ ext' = ext
      /\ rc' = At("stop", rc.t, rc.k)
  BY DEF CleanupCharged, Shape, RcShape, At
<1>1. /\ StoreBudget' /\ \A r \in StoredRecords' : Behind(rc.t, r)
      /\ Covers(rc.t)
  BY <1>s, SavedBudget
<1>2. RcBudget' /\ ~OnAttempt(rc')
  BY <1>s, <1>1 DEF RcBudget, At, Covers, AttemptPcs, OnAttempt
<1>3. drv'.inflight = drv.inflight
  BY <1>s DEF CleanupCharged, Drivers
<1> QED BY <1>1, <1>2, <1>3, <1>s, ChargeKept, LimitKept DEF Budget

LEMMA StopReturnsBudget ==
    ASSUME Shape, Shape', Budget, StopReturns
    PROVE  Budget'
<1>s. /\ rc.t \in Slots /\ rc.k \in Settlements /\ rc.pc = "stop" /\ store' = store /\ drv' = drv
      /\ rc.t.native \in BOOLEAN /\ rc.t.semantic \in BOOLEAN /\ rc.t.seq \in Nat /\ rc.t.used \in Nat
      /\ ext.calls.seq \in Nat /\ ext.calls.starts \in Nat /\ drv \in Drivers
  BY BudgetTypes DEF StopReturns, Shape, RcShape, AtShape, UntypedPcs, AttemptPcs, Slots
<1>1. PICK z \in Slots :
        /\ rc' = At("commit", z, rc.k) /\ z.seq = rc.t.seq /\ z.used = rc.t.used
        /\ ext'.calls = [CallsOf(rc.t) EXCEPT !.stops = @ + 1]
  <2>1. PICK closed \in BOOLEAN, cleaned \in BOOLEAN :
          /\ rc' = At("commit", Settled(rc.t, rc.k, rc.t.native /\ ~closed, rc.t.semantic /\ ~cleaned), rc.k)
          /\ ext' = [open |-> IF closed THEN ext.open \ {Corr(rc.t)} ELSE ext.open,
                     calls |-> [CallsOf(rc.t) EXCEPT !.stops = @ + 1]]
    BY DEF StopReturns
  <2> DEFINE m == rc.t.native /\ ~closed
             n == rc.t.semantic /\ ~cleaned
             z == Settled(rc.t, rc.k, m, n)
  <2>3. rc' = At("commit", z, rc.k)
    BY <2>1
  <2>4. m \in BOOLEAN /\ n \in BOOLEAN
    OBVIOUS
  <2> HIDE DEF m, n
  <2>2. z \in Slots /\ z.seq = rc.t.seq /\ z.used = rc.t.used
    BY <1>s, <2>4, SettledSlot
  <2> HIDE DEF z
  <2> QED BY <2>1, <2>2, <2>3
<1>2. /\ ext'.calls.seq = rc.t.seq
      /\ ext'.calls.starts = IF ext.calls.seq = rc.t.seq THEN ext.calls.starts ELSE 0
  BY <1>1, <1>s, CallsTyped
<1>3. Covers(rc.t) /\ \A r \in StoredRecords : Behind(rc.t, r)
  BY <1>s DEF Budget, RcBudget, SlotPcs
<1>4. RcBudget'
  <2>1. rc'.pc = "commit" /\ rc'.t = z /\ rc'.k # "charged"
    BY <1>1, <1>s DEF At, Settlements
  <2>2. Covers(rc.t)'
    BY <2>1, <1>1, <1>2, <1>3, <1>s DEF Covers
  <2> QED BY <2>1, <2>2 DEF RcBudget, AttemptPcs
<1>5. \A r \in StoredRecords : Paid(r)'
  <2> SUFFICES ASSUME NEW r \in StoredRecords PROVE Paid(r)'
    OBVIOUS
  <2>1. r \in Records /\ Paid(r) /\ Behind(rc.t, r)
    BY <1>3, BudgetTypes DEF Budget, StoreBudget
  <2>2. /\ r.seq \in Nat
        /\ r.cur # Nothing => r.cur.seq \in Nat /\ r.cur.used \in Nat
        /\ r.res # Nothing => r.res.seq \in Nat
    BY <2>1, RecordTypes
  <2> QED BY <2>1, <2>2, <1>2, <1>s DEF Paid, Covers, Behind
<1>6. StoreBudget'
  BY <1>5, <1>s DEF StoreBudget, StoredRecords, Follows, Budget
<1>7. ChargeBudget'
  <2>1. drv.inflight # Nothing => drv.inflight.chargedTo \in Nat
    BY <1>s DEF Drivers, Attempts
  <2>2. ~OnAttempt(rc')
    BY <1>1, <1>s DEF At, OnAttempt, AttemptPcs, OfAttempt, Settlements
  <2> QED BY <2>1, <2>2, <1>2, <1>s DEF ChargeBudget, Budget, OnAttempt
<1>8. StartBudgetHolds'
  BY <1>2, <1>s, LimitsAreNat DEF StartBudgetHolds, Budget
<1> QED BY <1>4, <1>6, <1>7, <1>8 DEF Budget

LEMMA AssignCommittedBudget ==
    ASSUME Shape, Shape', Budget, AssignCommitted
    PROVE  Budget'
<1>s. /\ rc.pc = "commit" /\ Saved /\ ext' = ext /\ rc' = At("attempt", rc.t, "none")
      /\ drv'.inflight = Attempt(Corr(rc.t), rc.t.seq, rc.t.due)
  BY AssignCommittedMoves DEF AssignCommitted, Commits
<1>1. /\ StoreBudget' /\ \A r \in StoredRecords' : Behind(rc.t, r)
      /\ Covers(rc.t)
  BY <1>s, SavedBudget
<1>2. RcBudget'
  BY <1>s, <1>1 DEF RcBudget, At, Covers, AttemptPcs
<1>3. drv'.inflight.chargedTo = 0
  BY <1>s DEF Attempt
<1> QED BY <1>1, <1>2, <1>3, <1>s, ChargeKept, LimitKept DEF Budget

LEMMA PruneBudget ==
    ASSUME Shape, Budget, Finish \/ Prune \/ PruneFails
    PROVE  Budget'
<1>s. ext' = ext /\ drv \in Drivers
  BY DEF Finish, Prune, PruneFails, Shape
<1>1. drv'.inflight = drv.inflight
  BY <1>s DEF Finish, Prune, PruneFails, Drivers
<1>0. ~OnAttempt(rc')
  BY DEF Finish, Prune, PruneFails, OnAttempt, At, Reading, Asleep, AttemptPcs
<1>2. ChargeBudget' /\ StartBudgetHolds'
  BY <1>s, <1>0, <1>1, ChargeKept, LimitKept DEF Budget
<1>3. CASE Finish
  <2>1. StoreBudget'
    BY <1>3, <1>s, StoreKept DEF Finish, Budget
  <2>2. CASE rc' = At("prune", store.rec.res, "none")
    <3>1. store.rec.res # Nothing => Covers(store.rec.res)
      <4>1. Paid(store.rec) /\ store.rec \in Records
        BY DEF Budget, StoreBudget, StoredRecords, Shape
      <4> QED BY <4>1, RecordTypes, BudgetTypes DEF Paid, Covers
    <3>2. RcBudget'
      BY <2>2, <3>1, <1>s DEF RcBudget, At, Covers, AttemptPcs, SlotPcs
    <3> QED BY <1>2, <2>1, <3>2 DEF Budget
  <2>3. CASE rc' = Asleep
    BY <1>2, <2>1, <2>3, EmptyHanded DEF Budget, Asleep, At
  <2> QED BY <1>3, <2>2, <2>3 DEF Finish
<1>4. CASE Prune
  <2>1. rc.pc = "prune" /\ Prunable /\ Open /\ Committed(Pruned) /\ rc' = Reading
    BY <1>4 DEF Prune, Prunable
  <2>2. Pruned \in Records /\ Paid(Pruned)
    BY <2>1, PrunedRecord, PrunedPaid
  <2> HIDE DEF Pruned
  <2>3. StoreBudget'
    BY <2>1, <2>2, <1>s, CommittedBudget DEF Budget
  <2> QED BY <1>2, <2>1, <2>3, EmptyHanded DEF Budget, Reading, At
<1>5. CASE PruneFails
  <2>1. rc.pc = "prune" /\ rc' = Asleep
    BY <1>5 DEF PruneFails
  <2>2. StoreBudget'
    <3>1. CASE store' = store
      BY <3>1, <1>s, StoreKept DEF Budget
    <3>2. CASE Prunable /\ Staged(Pruned)
      <4>1. Pruned \in Records /\ Paid(Pruned) /\ Follows(store.rec, Pruned) /\ Open
        BY <2>1, <3>2, PrunedRecord, PrunedPaid DEF Prunable
      <4> HIDE DEF Pruned
      <4> QED BY <3>2, <4>1, <1>s, StagedBudget DEF Budget
    <3> QED BY <1>5, <3>1, <3>2 DEF PruneFails
  <2> QED BY <1>2, <2>1, <2>2, EmptyHanded DEF Budget, Asleep, At
<1> QED BY <1>3, <1>4, <1>5

LEMMA ReadSlotsBudget ==
    ASSUME Shape, Budget, Wakes \/ ReadSlots
    PROVE  Budget'
<1>s. ext' = ext /\ store' = store /\ drv'.inflight = drv.inflight /\ ~OnAttempt(rc')
  BY DEF Wakes, ReadSlots, Shape, Drivers, OnAttempt, At, Reading, Asleep, AttemptPcs
<1>1. StoreBudget' /\ ChargeBudget' /\ StartBudgetHolds' /\ StoredRecords' = StoredRecords
  BY <1>s, StoreKept, ChargeKept, LimitKept DEF Budget
<1>2. CASE rc' = Reading \/ rc' = Asleep
  BY <1>1, <1>2, EmptyHanded DEF Budget, Reading, Asleep, At
<1>3. CASE rc' = At("dispatch", store.rec, "none")
  <2>1. Paid(store.rec) /\ store.rec \in Records
    BY DEF Budget, StoreBudget, StoredRecords, Shape
  <2>2. ASSUME store.rec.cur # Nothing
        PROVE  \A r \in StoredRecords : Behind(store.rec.cur, r)
    <3>1. Behind(store.rec.cur, store.rec)
      BY <2>1, <2>2, RecordTypes DEF Paid, Behind
    <3>2. store.status = "ambiguous" => Behind(store.rec.cur, store.staged)
      BY <2>2 DEF Budget, StoreBudget, Follows
    <3> QED BY <3>1, <3>2 DEF StoredRecords
  <2>3. RcBudget'
    BY <1>1, <1>3, <1>s, <2>1, <2>2 DEF RcBudget, At, Paid, Covers, SlotPcs, AttemptPcs
  <2> QED BY <1>1, <2>3 DEF Budget
<1> QED BY <1>2, <1>3 DEF Wakes, ReadSlots

LEMMA UntypedBudget ==
    ASSUME Shape, Budget, UntypedAttempt
    PROVE  Budget'
<1>s. /\ ext'.calls = ext.calls /\ store' = store /\ drv'.inflight = drv.inflight
      /\ rc'.pc \in {"idle", "read", "u_install"} \cup UntypedPcs
  BY UntypedSteps DEF UntypedStep, Reading, At
<1> QED BY <1>s, StoreKept, ChargeKept, LimitKept, EmptyHanded DEF Budget

LEMMA AttemptFacts ==
    ASSUME Shape, Budget, rc.pc \in AttemptPcs
    PROVE  /\ drv \in Drivers /\ rc.t \in Slots /\ rc.t.used \in Nat /\ rc.t.seq \in Nat
           /\ drv.inflight \in Attempts /\ drv.inflight.seq = rc.t.seq
           /\ drv.inflight.chargedTo \in Nat
           /\ Covers(rc.t) /\ \A r \in StoredRecords : Behind(rc.t, r)
           /\ OnAttempt(rc) /\ ext.calls.seq \in Nat /\ ext.calls.starts \in Nat
BY AttemptShape, BudgetTypes DEF Budget, RcBudget, AttemptPcs, SlotPcs, OnAttempt, Slots, Attempts

\* A step of an attempt without a call or a commit.
LEMMA AttemptStepBudget ==
    ASSUME Shape, Budget, rc.pc \in AttemptPcs, store' = store, ext' = ext, RcBudget', ChargeBudget'
    PROVE  Budget'
BY StoreKept, LimitKept DEF Budget

LEMMA ExhaustBudget ==
    ASSUME Shape, Shape', Budget, rc.pc \in AttemptPcs, store' = store, ext' = ext,
           Exhaust(drv, rc.t, TRUE) \/ Exhaust(drv, rc.t, FALSE)
    PROVE  Budget'
<1>1. /\ drv \in Drivers /\ rc.t \in Slots /\ Covers(rc.t)
      /\ \A r \in StoredRecords : Behind(rc.t, r)
  BY AttemptFacts
<1>2. Leads(drv, rc.t)
  BY <1>1, ExhaustLeads
<1>3. StoredRecords' = StoredRecords
  BY StoreKept DEF Budget
<1>4. RcBudget' /\ ChargeBudget'
  BY <1>1, <1>2, <1>3, LeadsBudget DEF Budget
<1> QED BY <1>4, AttemptStepBudget

\* The slot in hand moves on to another place in the attempt, or to a commit of
\* a version z of it with as many charges.
LEMMA OnwardBudget ==
    ASSUME Shape, Budget, rc.pc \in AttemptPcs, store' = store, ext' = ext,
           NEW z \in Slots, z.seq = rc.t.seq, z.used = rc.t.used, NEW pc, NEW k,
           \/ pc \in {"attempt", "admit", "backoff"} /\ z = rc.t
           \/ pc = "commit" /\ k \in {"regen", "completed"},
           rc' = At(pc, z, k),
           drv'.inflight.chargedTo = drv.inflight.chargedTo, drv'.inflight.seq = drv.inflight.seq
    PROVE  Budget'
<1>1. Covers(rc.t) /\ (\A r \in StoredRecords : Behind(rc.t, r)) /\ OnAttempt(rc)
  BY AttemptFacts
<1>2. StoredRecords' = StoredRecords
  BY StoreKept DEF Budget
<1>3. Covers(z)'
  BY <1>1 DEF Covers
<1>4. rc'.pc = pc /\ rc'.t = z /\ rc'.k = k
  BY DEF At
<1>5. RcBudget'
  BY <1>1, <1>2, <1>3, <1>4 DEF RcBudget, AttemptPcs, Covers
<1>6. ChargeBudget'
  BY <1>1, ChargeKept DEF Budget
<1> QED BY <1>5, <1>6, AttemptStepBudget

LEMMA ReadingBudget ==
    ASSUME Shape, Budget, rc.pc \in AttemptPcs, store' = store, ext' = ext, drv' = drv, rc' = Reading
    PROVE  Budget'
<1>1. RcBudget' /\ ~OnAttempt(rc')
  BY EmptyHanded DEF Reading, At
<1> QED BY <1>1, ChargeKept, AttemptStepBudget DEF Budget

LEMMA AttemptHeadBudget ==
    ASSUME Shape, Shape', Budget, AttemptHead
    PROVE  Budget'
<1>s. /\ drv \in Drivers /\ rc.t \in Slots /\ rc.t.used \in Nat
      /\ drv.inflight \in Attempts /\ drv.inflight.seq = rc.t.seq /\ drv.inflight.chargedTo \in Nat
      /\ Covers(rc.t) /\ (\A r \in StoredRecords : Behind(rc.t, r)) /\ OnAttempt(rc)
      /\ ext.calls.seq \in Nat /\ ext.calls.starts \in Nat
      /\ rc.pc \in AttemptPcs /\ store' = store /\ ext' = ext
  <2>1. rc.pc \in AttemptPcs /\ store' = store /\ ext' = ext
    BY DEF AttemptHead, AttemptPcs
  <2> QED BY <2>1, AttemptFacts
<1>m. StoredRecords' = StoredRecords
  BY <1>s, StoreKept DEF Budget
<1>1. CASE rc' = Reading /\ drv' = drv
  BY <1>1, <1>s, ReadingBudget
<1>2. CASE rc' = At("commit", [rc.t EXCEPT !.gen = @ + 1], "regen") /\ drv' = drv
  <2> DEFINE z == [rc.t EXCEPT !.gen = @ + 1]
  <2>1. z \in Slots /\ z.seq = rc.t.seq /\ z.used = rc.t.used /\ rc' = At("commit", z, "regen")
    BY <1>2, <1>s, GenSlot
  <2> HIDE DEF z
  <2> QED BY <1>2, <2>1, <1>s, OnwardBudget
<1>3. CASE Exhaust(drv, rc.t, FALSE)
  BY <1>3, <1>s, ExhaustBudget
<1>4. CASE /\ drv.inflight.chargedTo # 0 /\ rc.t.used = drv.inflight.chargedTo
           /\ rc' = At("start", rc.t, "none") /\ drv' = drv
  <2>1. /\ rc.t.used <= StartLimit /\ 0 < rc.t.used
        /\ ext.calls.seq = rc.t.seq => ext.calls.starts < rc.t.used
    BY <1>4, <1>s DEF Budget, ChargeBudget
  <2>2. RcBudget'
    BY <1>4, <1>s, <1>m, <2>1 DEF RcBudget, At, Covers, AttemptPcs, SlotPcs
  <2>3. ChargeBudget'
    BY <1>4, <1>s, ChargeKept DEF Budget
  <2> QED BY <2>2, <2>3, <1>s, AttemptStepBudget
<1>5. CASE /\ rc.t.used < StartLimit
           /\ rc' = At("commit", [rc.t EXCEPT !.used = @ + 1], "charged")
           /\ drv' = [drv EXCEPT !.inflight.chargedTo = rc.t.used + 1]
  <2> DEFINE z == [rc.t EXCEPT !.used = @ + 1]
  <2>1. z \in Slots /\ z.seq = rc.t.seq /\ z.used = rc.t.used + 1 /\ rc' = At("commit", z, "charged")
    BY <1>5, <1>s, UsedSlot
  <2>2. drv'.inflight.chargedTo = rc.t.used + 1 /\ drv'.inflight.seq = rc.t.seq
    BY <1>5, <1>s DEF Drivers, Attempts
  <2>3. rc.t.used + 1 <= StartLimit
    BY <1>5, <1>s, LimitsAreNat
  <2> HIDE DEF z
  <2>4. ext.calls.seq = rc.t.seq => ext.calls.starts < rc.t.used + 1
    BY <1>s DEF Covers
  <2>8. rc'.pc = "commit" /\ rc'.t = z
    BY <2>1 DEF At
  <2>5. Covers(rc.t)'
    BY <2>1, <2>8, <1>s DEF Covers
  <2>6. RcBudget'
    BY <2>1, <2>8, <2>3, <2>4, <2>5, <1>s DEF RcBudget, At, Covers, AttemptPcs
  <2>7. ChargeBudget'
    BY <2>2, <2>3, <2>4, <1>s DEF ChargeBudget
  <2> QED BY <2>6, <2>7, <1>s, AttemptStepBudget
<1>6. ASSUME NEW now,
             IF (~(drv.inflight.chargedTo # 0 /\ rc.t.used = drv.inflight.chargedTo) /\ rc.t.used >= StartLimit)
                   \/ rc.t.due \in now
             THEN Exhaust(drv, rc.t, FALSE)
             ELSE IF drv.inflight.chargedTo # 0 /\ rc.t.used = drv.inflight.chargedTo
             THEN rc' = At("start", rc.t, "none") /\ UNCHANGED drv
             ELSE /\ rc' = At("commit", [rc.t EXCEPT !.used = @ + 1], "charged")
                  /\ drv' = [drv EXCEPT !.inflight.chargedTo = rc.t.used + 1]
      PROVE  Budget'
  <2>1. rc.t.used >= StartLimit \/ rc.t.used < StartLimit
    BY <1>s, LimitsAreNat
  <2> QED BY <1>3, <1>4, <1>5, <1>6, <2>1
<1> QED BY <1>1, <1>2, <1>6 DEF AttemptHead

LEMMA StartReturnsBudget ==
    ASSUME Shape, Shape', Budget, StartReturns
    PROVE  Budget'
<1>s. /\ rc.t \in Slots /\ rc.t.used \in Nat /\ rc.t.seq \in Nat
      /\ \A r \in StoredRecords : Behind(rc.t, r)
      /\ ext.calls.seq \in Nat /\ ext.calls.starts \in Nat /\ rc.pc = "start" /\ store' = store
  <2>1. rc.pc \in AttemptPcs /\ rc.pc = "start" /\ store' = store
    BY DEF StartReturns, AttemptPcs
  <2> QED BY <2>1, AttemptFacts
<1>1. /\ drv'.inflight.chargedTo = 0
      /\ rc'.pc = "judge" /\ rc'.t = rc.t
      /\ ext'.calls.seq = rc.t.seq
      /\ ext'.calls.starts = (IF ext.calls.seq = rc.t.seq THEN ext.calls.starts ELSE 0) + 1
  BY StartReturnsMoves
<1>2. /\ rc.t.used <= StartLimit /\ 0 < rc.t.used
      /\ ext.calls.seq = rc.t.seq => ext.calls.starts < rc.t.used
  BY <1>s DEF Budget, RcBudget
<1>3. ext'.calls.starts <= rc.t.used /\ ext'.calls.starts \in Nat
  BY <1>1, <1>2, <1>s
<1>4. StartBudgetHolds'
  BY <1>2, <1>3, <1>s, LimitsAreNat DEF StartBudgetHolds
<1>5. \A r \in StoredRecords : Paid(r)'
  <2> SUFFICES ASSUME NEW r \in StoredRecords PROVE Paid(r)'
    OBVIOUS
  <2>1. r \in Records /\ Paid(r) /\ Behind(rc.t, r)
    BY <1>s, BudgetTypes DEF Budget, StoreBudget
  <2>2. /\ r.seq \in Nat
        /\ r.cur # Nothing => r.cur.seq \in Nat /\ r.cur.used \in Nat
        /\ r.res # Nothing => r.res.seq \in Nat
    BY <2>1, RecordTypes
  <2> QED BY <2>1, <2>2, <1>1, <1>3, <1>s DEF Paid, Covers, Behind
<1>6. StoreBudget' /\ StoredRecords' = StoredRecords
  BY <1>5, <1>s DEF StoreBudget, StoredRecords, Follows, Budget
<1>7. ChargeBudget'
  BY <1>1 DEF ChargeBudget
<1>8. RcBudget'
  BY <1>1, <1>3, <1>6, <1>s DEF RcBudget, Covers, AttemptPcs
<1> QED BY <1>4, <1>6, <1>7, <1>8 DEF Budget

LEMMA StartChargedBudget ==
    ASSUME Shape, Shape', Budget, StartCharged
    PROVE  Budget'
<1>s. /\ rc.pc = "commit" /\ rc.k = "charged" /\ Saved /\ ext' = ext /\ drv' = drv
      /\ rc' = At("start", rc.t, "none")
  BY DEF StartCharged, Commits
<1>1. /\ StoreBudget' /\ \A r \in StoredRecords' : Behind(rc.t, r)
      /\ Covers(rc.t)
  BY <1>s, SavedBudget
<1>2. /\ rc.t.used <= StartLimit /\ 0 < rc.t.used
      /\ ext.calls.seq = rc.t.seq => ext.calls.starts < rc.t.used
  BY <1>s DEF Budget, RcBudget
<1>3. RcBudget'
  BY <1>s, <1>1, <1>2 DEF RcBudget, At, Covers, AttemptPcs
<1>4. OnAttempt(rc)
  BY <1>s DEF OnAttempt, OfAttempt
<1> QED BY <1>1, <1>3, <1>4, <1>s, ChargeKept, LimitKept DEF Budget

LEMMA GenerationCommittedBudget ==
    ASSUME Shape, Shape', Budget, GenerationCommitted
    PROVE  Budget'
<1>s. /\ rc.pc = "commit" /\ rc.k = "regen" /\ Saved /\ ext' = ext
      /\ rc' = At("attempt", rc.t, "none") /\ drv \in Drivers /\ drv.inflight \in Attempts
  BY CommitShape DEF GenerationCommitted, Commits, OfAttempt
<1>1. /\ StoreBudget' /\ \A r \in StoredRecords' : Behind(rc.t, r)
      /\ Covers(rc.t)
  BY <1>s, SavedBudget
<1>3. RcBudget'
  BY <1>s, <1>1 DEF RcBudget, At, Covers, AttemptPcs
<1>4. OnAttempt(rc)
  BY <1>s DEF OnAttempt, OfAttempt
<1>5. /\ drv'.inflight.chargedTo = drv.inflight.chargedTo /\ drv'.inflight.seq = drv.inflight.seq
  BY <1>s DEF GenerationCommitted, Drivers, Attempts
<1> QED BY <1>1, <1>3, <1>4, <1>5, <1>s, ChargeKept, LimitKept DEF Budget

LEMMA JudgedBudget ==
    ASSUME Shape, Shape', Budget, JudgeStart \/ AdmitStart \/ Backoff
    PROVE  Budget'
<1>s. /\ drv \in Drivers /\ rc.t \in Slots /\ drv.inflight \in Attempts
      /\ rc.pc \in AttemptPcs /\ store' = store /\ ext' = ext
  <2>1. rc.pc \in AttemptPcs /\ store' = store /\ ext' = ext
    BY DEF JudgeStart, AdmitStart, Backoff, AttemptPcs
  <2> QED BY <2>1, AttemptFacts
<1>1. CASE rc' = Reading /\ drv' = drv
  BY <1>1, <1>s, ReadingBudget
<1>2. CASE Exhaust(drv, rc.t, TRUE) \/ Exhaust(drv, rc.t, FALSE)
  BY <1>2, <1>s, ExhaustBudget
<1>3. CASE drv' = drv /\ \E pc \in {"attempt", "admit", "backoff"} : rc' = At(pc, rc.t, "none")
  BY <1>3, <1>s, OnwardBudget
<1>4. CASE /\ drv' = [drv EXCEPT !.inflight.admitted = TRUE, !.auto = TRUE, !.live = Corr(rc.t)]
           /\ rc' = At("commit", Discharged(rc.t), "completed")
  <2>1. /\ drv'.inflight.chargedTo = drv.inflight.chargedTo /\ drv'.inflight.seq = drv.inflight.seq
    BY <1>4, <1>s DEF Drivers, Attempts
  <2> QED BY <1>4, <2>1, <1>s, DischargedSlot, OnwardBudget
<1>5. CASE rc' = At("commit", [rc.t EXCEPT !.gen = @ + 1], "regen") /\ drv' = drv
  <2> DEFINE z == [rc.t EXCEPT !.gen = @ + 1]
  <2>1. z \in Slots /\ z.seq = rc.t.seq /\ z.used = rc.t.used /\ rc' = At("commit", z, "regen")
    BY <1>5, <1>s, GenSlot
  <2> HIDE DEF z
  <2> QED BY <1>5, <2>1, <1>s, OnwardBudget
<1>6. CASE JudgeStart
  BY <1>6, <1>1, <1>2, <1>3 DEF JudgeStart
<1>7. CASE AdmitStart
  BY <1>7, <1>1, <1>2, <1>4 DEF AdmitStart
<1>8. CASE Backoff
  BY <1>8, <1>1, <1>3, <1>5 DEF Backoff
<1> QED BY <1>6, <1>7, <1>8

LEMMA ReconcilerBudget ==
    ASSUME Shape, Shape', Budget, Reconciler
    PROVE  Budget'
<1>1. CASE Pass
  BY <1>1, ReadSlotsBudget, DispatchBudget DEF Pass
<1>2. CASE Cleanup
  BY <1>2, CommitFailsBudget, CleanupChargedBudget, StopReturnsBudget, SettledCommitBudget,
     AssignCommittedBudget, PruneBudget DEF Cleanup, SettledCommit
<1>3. CASE TypedAttempt
  BY <1>3, AttemptHeadBudget, StartChargedBudget, GenerationCommittedBudget, StartReturnsBudget,
     JudgedBudget, SettledCommitBudget DEF TypedAttempt, SettledCommit
<1>4. CASE UntypedAttempt
  BY <1>4, UntypedBudget
<1> QED BY <1>1, <1>2, <1>3, <1>4 DEF Reconciler

\* Steps of the others: the reconciler stands still and the records are those
\* that were stored, or one that follows them.
LEMMA OthersBudget ==
    ASSUME Shape, Budget, rc' = rc, ext' = ext, StoreBudget',
           drv'.inflight = drv.inflight
             \/ (drv.inflight # Nothing /\ drv'.inflight.chargedTo = drv.inflight.chargedTo
                   /\ drv'.inflight.seq = drv.inflight.seq),
           \A t : (\A r \in StoredRecords : Behind(t, r)) /\ t.seq \in Nat
                    => \A r \in StoredRecords' : Behind(t, r)
    PROVE  Budget'
<1>1. /\ rc.pc = "dispatch" /\ rc.t.cur # Nothing => rc.t.cur.seq \in Nat
      /\ rc.pc \in SlotPcs => rc.t.seq \in Nat
  BY DEF Shape, RcShape, AtShape, SlotPcs, UntypedPcs, AttemptPcs, Records, Slots
<1>2. RcBudget'
  BY <1>1 DEF RcBudget, Budget, Paid, Covers, SlotPcs, AttemptPcs
<1>3. ChargeBudget'
  BY DEF ChargeBudget, Budget, OnAttempt
<1> QED BY <1>2, <1>3, LimitKept DEF Budget

LEMMA DecideBudget ==
    ASSUME Shape, Budget, NEW method \in Methods, Decide(method)
    PROVE  Budget'
<1> DEFINE p == Planned(method)
<1>0. rc' = rc /\ ext' = ext /\ drv \in Drivers /\ Open
  BY DEF Decide, Decidable, Shape
<1>1. drv'.inflight = drv.inflight
  BY <1>0 DEF Decide, Drivers
<1>2. /\ p \in Records /\ p.seq > store.rec.seq
      /\ \/ p.cur = store.rec.cur
         \/ /\ store.rec.cur = Nothing /\ p.cur \in Slots
            /\ store.rec.seq < p.cur.seq /\ p.cur.seq <= p.seq
      /\ p.res # Nothing =>
            /\ p.res.seq = p.seq
            /\ p.cur # Nothing /\ p.cur # store.rec.cur => p.cur.seq < p.res.seq
  BY PlannedRecord
<1>3. Paid(store.rec) /\ store.rec \in Records /\ StoredRecords = {store.rec}
  BY <1>0 DEF Budget, StoreBudget, StoredRecords, Shape, Open
<1>4. \/ Committed(p)
      \/ Staged(p)
      \/ store' = store
  BY DEF Decide
<1> HIDE DEF p
<1>5. /\ p.seq \in Nat /\ store.rec.seq \in Nat
      /\ p.cur # Nothing => p.cur.seq \in Nat /\ p.cur.used \in Nat
      /\ p.res # Nothing => p.res.seq \in Nat
      /\ store.rec.cur # Nothing => store.rec.cur.seq \in Nat /\ store.rec.cur.used \in Nat
      /\ ext.calls.seq \in Nat
  BY <1>2, <1>3, RecordTypes, BudgetTypes
<1>6. Paid(p)
  BY <1>2, <1>3, <1>5 DEF Paid, Covers
<1>8. ASSUME NEW t, t.seq \in Nat, Behind(t, store.rec)
      PROVE  Behind(t, p)
  BY <1>2, <1>5, <1>8 DEF Behind
<1>9. Follows(store.rec, p)
  BY <1>2, <1>3, <1>5 DEF Follows, Behind, Paid
<1>10. CASE Committed(p)
  <2>1. StoreBudget' /\ StoredRecords' = {p}
    BY <1>0, <1>2, <1>6, <1>10, CommittedBudget DEF Budget
  <2> QED BY <2>1, <1>0, <1>1, <1>3, <1>8, OthersBudget
<1>11. CASE Staged(p)
  <2>1. StoreBudget' /\ StoredRecords' = {store.rec, p}
    BY <1>0, <1>2, <1>6, <1>9, <1>11, StagedBudget DEF Budget
  <2> QED BY <2>1, <1>0, <1>1, <1>3, <1>8, OthersBudget
<1>12. CASE store' = store
  <2>1. StoreBudget' /\ StoredRecords' = StoredRecords
    BY <1>0, <1>12, StoreKept DEF Budget
  <2> QED BY <2>1, <1>0, <1>1, OthersBudget
<1> QED BY <1>4, <1>10, <1>11, <1>12

\* The readback keeps one of the stored records.
LEMMA RereadBudget ==
    ASSUME Shape, StoreBudget, ext'.calls = ext.calls, store'.status # "ambiguous",
           store'.rec \in StoredRecords
    PROVE  StoreBudget' /\ StoredRecords' \subseteq StoredRecords
<1>1. StoredRecords' = {store'.rec}
  BY DEF StoredRecords
<1> QED BY <1>1 DEF StoreBudget, Paid, Covers

LEMMA SubsetBehind ==
    ASSUME StoredRecords' \subseteq StoredRecords
    PROVE  \A t : (\A r \in StoredRecords : Behind(t, r)) /\ t.seq \in Nat
                    => \A r \in StoredRecords' : Behind(t, r)
OBVIOUS

LEMMA FencedBudget ==
    ASSUME Shape, Budget, NEW fence \in BOOLEAN, drv' = Released(drv, fence)
    PROVE  drv'.inflight = drv.inflight
             \/ (drv.inflight # Nothing /\ drv'.inflight.chargedTo = drv.inflight.chargedTo
                   /\ drv'.inflight.seq = drv.inflight.seq)
<1>1. drv \in Drivers /\ drv.inflight \in Attempts \cup {Nothing}
  BY DEF Shape, Drivers
<1> QED BY <1>1, ReleasedDriver, FencedAttempt

LEMMA ServiceBudget ==
    ASSUME Shape, Budget, Requester \/ Resolver \/ Settling \/ PeerReadsBack \/ PeerSettles
    PROVE  Budget'
<1>0. rc' = rc /\ ext' = ext
  BY DEF Requester, PublishAccepted, ReleaseDecision, HoldAmbiguous, CheckAdmission, ArmReadback,
         Resolver, ReadbackTry, ReadbackResolved, ReadbackDisarms, Settling, PublishAdopted,
         ReleaseAmbiguous, PeerReadsBack, PeerSettles
<1>1. StoreBudget' /\ StoredRecords' \subseteq StoredRecords
  <2>1. CASE store' = store
    BY <2>1, <1>0, StoreKept DEF Budget
  <2>2. CASE Reread
    <3>1. store'.rec \in StoredRecords /\ store'.status # "ambiguous"
      BY <2>2 DEF Reread, StoredRecords
    <3> QED BY <3>1, <1>0, RereadBudget DEF Budget
  <2>3. CASE store' = [store EXCEPT !.staged = Nothing, !.status = "failed"]
    <3>1. store'.rec \in StoredRecords /\ store'.status # "ambiguous"
      BY <2>3 DEF Shape, StoredRecords
    <3> QED BY <3>1, <1>0, RereadBudget DEF Budget
  <2> QED BY <2>1, <2>2, <2>3
    DEF Requester, PublishAccepted, ReleaseDecision, HoldAmbiguous, CheckAdmission, ArmReadback,
        Resolver, ReadbackTry, ReadbackResolved, ReadbackDisarms, Settling, PublishAdopted,
        ReleaseAmbiguous, PeerReadsBack, PeerSettles
<1>2. drv'.inflight = drv.inflight
        \/ (drv.inflight # Nothing /\ drv'.inflight.chargedTo = drv.inflight.chargedTo
              /\ drv'.inflight.seq = drv.inflight.seq)
  <2>s. drv \in Drivers /\ req.fence \in BOOLEAN /\ drv.amb.fence \in BOOLEAN /\ drv.amb.adopted \in BOOLEAN
    BY DEF Shape, Drivers, Ambiguities
  <2>1. CASE ReleaseDecision
    BY <2>1, <2>s, FencedBudget DEF ReleaseDecision
  <2>2. CASE ReleaseAmbiguous
    <3> DEFINE f == drv.amb.fence /\ drv.amb.adopted
    <3>1. f \in BOOLEAN /\ drv' = Released(drv, f)
      BY <2>2, <2>s DEF ReleaseAmbiguous
    <3> HIDE DEF f
    <3> QED BY <3>1, FencedBudget
  <2>3. CASE ~ReleaseDecision /\ ~ReleaseAmbiguous
    <3>1. \/ drv' = drv
          \/ drv' = [drv EXCEPT !.wake = TRUE]
          \/ drv' = [drv EXCEPT !.amb.state = "settled"]
          \/ HoldAmbiguous
          \/ \E x \in {"req", "peer", "rb"} : TakeAmbiguous(x)
      BY <2>3
      DEF Requester, PublishAccepted, CheckAdmission, ArmReadback,
        Resolver, ReadbackTry, ReadbackResolved, ReadbackDisarms, Settling, PublishAdopted,
        PeerReadsBack, PeerSettles
    <3>2. drv'.inflight = drv.inflight
      BY <2>s, <3>1, TakenDriver DEF HoldAmbiguous, Drivers
    <3> QED BY <3>2
  <2> QED BY <2>1, <2>2, <2>3
<1> QED BY <1>0, <1>1, <1>2, SubsetBehind, OthersBudget

LEMMA CrashBudget ==
    ASSUME Shape, Budget, Crash
    PROVE  Budget'
<1>1. ext'.calls = ext.calls /\ rc' = Asleep /\ drv' = Booted
  BY DEF Crash, Shape
<1>2. store'.rec \in StoredRecords /\ store'.status # "ambiguous"
  BY DEF Crash, StoredRecords, Open, Shape
<1>3. StoreBudget'
  BY <1>1, <1>2, RereadBudget DEF Budget
<1>4. RcBudget' /\ ~OnAttempt(rc')
  BY <1>1, EmptyHanded DEF Asleep, At
<1>5. ChargeBudget'
  BY <1>1, <1>4 DEF ChargeBudget, Booted, OnAttempt
<1> QED BY <1>1, <1>3, <1>4, <1>5, LimitKept DEF Budget

LEMMA InitBudget == Init => Budget
<1> SUFFICES ASSUME Init PROVE Budget
  OBVIOUS
<1>1. /\ store.status = "open" /\ rc.pc = "idle" /\ drv.inflight = Nothing
      /\ ext.calls.seq = 0 /\ ext.calls.starts = 0 /\ StoredRecords = {store.rec}
  BY DEF Init, Asleep, At, Booted, NoCalls, StoredRecords
<1>2. Paid(store.rec)
  BY <1>1 DEF Init, FirstRecords, Workless, Transition, Paid, Covers
<1> QED BY <1>1, <1>2, LimitsAreNat DEF Budget, StoreBudget, RcBudget, ChargeBudget, StartBudgetHolds,
        SlotPcs, AttemptPcs, OnAttempt

\* A slot starts the driver no more often than its start limit, over all
\* processes: a Start is made on a charge that was committed before it, and a
\* charge that a readback adopts is used once, whatever writes fail.
THEOREM ControlStartBudget == Spec => []StartBudgetHolds
<1>1. Init => WakeInv /\ Budget
  BY InitWakeInv, InitBudget
<1>2. WakeInv /\ Budget /\ [Next]_vars => (WakeInv /\ Budget)'
  <2> SUFFICES ASSUME WakeInv, Budget, [Next]_vars PROVE WakeInv' /\ Budget'
    OBVIOUS
  <2>1. WakeInv' /\ Shape /\ Shape'
    BY NextWakeInv DEF WakeInv
  <2>2. CASE vars' = vars
    BY <2>1, <2>2 DEF vars, Budget, StoreBudget, RcBudget, ChargeBudget, StartBudgetHolds,
        StoredRecords, Paid, Covers, Behind, Follows, OnAttempt
  <2> QED BY <2>1, <2>2, DecideBudget, ServiceBudget, ReconcilerBudget, CrashBudget DEF Next
<1>3. Budget => StartBudgetHolds
  BY DEF Budget
<1> QED BY <1>1, <1>2, <1>3, PTL DEF Spec

-----------------------------------------------------------------------------
(* Announced decisions                                                       *)

\* What the reconciler's writes leave of the decisions: they keep the revision,
\* and one of unknown outcome is the first fault.
Steady ==
    /\ store'.rec.rev = store.rec.rev /\ count'.faults >= count.faults
    /\ \/ store'.status = store.status /\ store'.staged = store.staged
       \/ /\ Faultable /\ count'.faults = count.faults + 1
          /\ store'.status = "ambiguous" /\ store'.staged.rev = store.rec.rev
    /\ rb' = rb \/ (rb' = Armed /\ ~Open')

LEMMA SavedSteady ==
    ASSUME Shape, Saved, rb' = rb, count'.faults = count.faults
    PROVE  Steady
<1>1. store' = [store EXCEPT !.rec = [store.rec EXCEPT !.cur = rc.t]]
  BY DEF Saved, Committed, Updated
<1>2. store.rec \in Records /\ count.faults \in Nat
  BY DEF Shape
<1>3. [store.rec EXCEPT !.cur = rc.t].rev = store.rec.rev
  BY <1>2 DEF Records
<1>4. store'.rec.rev = store.rec.rev /\ store'.status = store.status /\ store'.staged = store.staged
  BY <1>1, <1>3 DEF Shape
<1> QED BY <1>2, <1>4 DEF Steady

LEMMA CommitFailsSteady ==
    ASSUME Shape, CommitFails
    PROVE  Steady
<1>s. store.rec \in Records /\ count \in [epochs : Nat, boots : Nat, faults : Nat]
  BY DEF Shape
<1>1. CASE store' = store
  <2>1. count'.faults >= count.faults
    <3>1. \/ count' = count
          \/ count' = [count EXCEPT !.faults = @ + 1]
          \/ count' = [count EXCEPT !.faults = @ + 1, !.epochs = Issued]
      BY DEF CommitFails, Faulty
    <3>2. count'.faults = count.faults \/ count'.faults = count.faults + 1
      BY <3>1, <1>s
    <3> QED BY <3>2, <1>s
  <2>2. rb' = rb \/ (rb' = Armed /\ ~Open')
    BY <1>1 DEF CommitFails, Updatable, Staged, Open, Shape
  <2> QED BY <1>1, <2>1, <2>2 DEF Steady
<1>2. CASE Staged(Updated) /\ rb' = Armed /\ Faultable
           /\ count' = [count EXCEPT !.faults = @ + 1, !.epochs = Issued]
  <2>1. Updated.rev = store.rec.rev
    BY <1>s DEF Updated, Records
  <2>2. count'.faults = count.faults + 1
    BY <1>2, <1>s
  <2> QED BY <1>2, <1>s, <2>1, <2>2 DEF Staged, Steady, Shape, Open
<1> QED BY <1>1, <1>2 DEF CommitFails

LEMMA PruneSteady ==
    ASSUME Shape, Prune \/ PruneFails
    PROVE  Steady
<1>s. store.rec \in Records /\ count \in [epochs : Nat, boots : Nat, faults : Nat]
  BY DEF Shape
<1>1. Pruned.rev = store.rec.rev
  BY <1>s DEF Pruned, Records
<1>2. CASE Prune
  BY <1>1, <1>2, <1>s DEF Prune, Committed, Steady, Shape
<1>3. CASE PruneFails /\ store' = store
  <2>1. count'.faults >= count.faults
    BY <1>3, <1>s DEF PruneFails, Faulty
  <2>2. rb' = rb \/ (rb' = Armed /\ ~Open')
    BY <1>3 DEF PruneFails, Staged, Open, Shape
  <2> QED BY <1>3, <2>1, <2>2 DEF Steady
<1>4. CASE PruneFails /\ Faulty /\ rb' = Armed /\ Staged(Pruned)
  BY <1>1, <1>4, <1>s DEF Faulty, Staged, Steady, Shape, Open
<1> QED BY <1>2, <1>3, <1>4 DEF PruneFails

LEMMA ReconcilerSteady ==
    ASSUME Shape, Reconciler
    PROVE  Steady
<1>s. count \in [epochs : Nat, boots : Nat, faults : Nat]
  BY DEF Shape
<1>r. ASSUME store' = store, rb' = rb, count'.faults = count.faults
      PROVE  Steady
  BY <1>r, <1>s DEF Steady
<1>1. CASE Pass
  BY <1>1, <1>r DEF Pass, Wakes, ReadSlots, Dispatch
<1>2. CASE Cleanup
  <2>1. CASE StopReturns \/ Finish
    BY <2>1, <1>r DEF StopReturns, Finish
  <2>2. CASE CleanupCharged
    BY <2>2, SavedSteady DEF CleanupCharged
  <2>3. CASE AssignCommitted
    <3>1. count'.faults = count.faults /\ Saved /\ rb' = rb
      BY <2>3, <1>s DEF AssignCommitted, Commits
    <3> QED BY <3>1, SavedSteady
  <2>4. CASE SettledCommit
    BY <2>4, SettledCommitLeads, SavedSteady
  <2> QED BY <1>2, <2>1, <2>2, <2>3, <2>4, CommitFailsSteady, PruneSteady DEF Cleanup, SettledCommit
<1>3. CASE TypedAttempt
  <2>1. CASE AttemptHead \/ StartReturns \/ JudgeStart \/ AdmitStart \/ Backoff
    BY <2>1, <1>r DEF AttemptHead, StartReturns, JudgeStart, AdmitStart, Backoff
  <2>2. CASE StartCharged \/ GenerationCommitted \/ StartCompleted
    BY <2>2, SavedSteady DEF StartCharged, GenerationCommitted, StartCompleted, Commits
  <2> QED BY <1>3, <2>1, <2>2 DEF TypedAttempt
<1>4. CASE UntypedAttempt
  <2>1. store' = store /\ rb' = rb
    BY <1>4 DEF UntypedAttempt, InstallUntyped, CheckUntyped, UntypedHead, UntypedReturns, JudgeUntyped,
                BackoffUntyped, AdmitUntyped, WithdrawUntyped, FinishUntyped
  <2>2. count'.faults = count.faults
    BY <1>4, <1>s DEF UntypedAttempt, InstallUntyped, CheckUntyped, UntypedHead, UntypedReturns, JudgeUntyped,
                BackoffUntyped, AdmitUntyped, WithdrawUntyped, FinishUntyped
  <2> QED BY <2>1, <2>2, <1>r
<1> QED BY <1>1, <1>2, <1>3, <1>4 DEF Reconciler

LEMMA SteadyAnnounced ==
    ASSUME WakeInv, Faults, Announced, Moves, Steady, OneFault'
    PROVE  Faults' /\ Announced'
<1>s. count.faults \in Nat /\ count'.faults \in Nat /\ count'.faults <= 1
  BY DEF WakeInv, Shape, Moves, OneFault
<1>1. req' = req /\ peer' = peer /\ accepted' = accepted /\ drv'.amb = drv.amb
  BY DEF Moves, Kept
<1>2. CASE store'.status = store.status /\ store'.staged = store.staged
  <2>1. rb' = rb \/ (rb'.pc = "try" /\ ~Open)
    BY <1>2 DEF Steady, Armed, Open
  <2>2. count.faults > 0 => count'.faults > 0
    BY <1>s DEF Steady
  <2>3. Faults'
    BY <1>1, <1>2, <2>1, <2>2 DEF Faults, Open
  <2>4. Announced'
    BY <1>1, <1>2 DEF Announced, Steady
  <2> QED BY <2>3, <2>4
<1>3. CASE /\ Faultable /\ count'.faults = count.faults + 1
           /\ store'.status = "ambiguous" /\ store'.staged.rev = store.rec.rev
  <2>1. count.faults = 0 /\ count'.faults > 0
    BY <1>3, <1>s
  <2>2. rb.pc = "off" /\ peer = "idle" /\ drv.amb.state = "none"
    BY <2>1 DEF Faults
  <2>3. rb'.pc \in {"off", "try"}
    BY <2>2 DEF Steady, Armed
  <2>4. Faults'
    BY <1>1, <2>1, <2>2, <2>3 DEF Faults
  <2>5. Announced'
    BY <1>1, <1>3 DEF Announced, Steady
  <2> QED BY <2>4, <2>5
<1> QED BY <1>2, <1>3 DEF Steady

LEMMA ReadSlotsAnnounced ==
    ASSUME Faults, Announced, ReadSlots
    PROVE  Faults' /\ Announced'
BY DEF ReadSlots, Faults, Announced, Open

\* While no decision is held, the revision in force was announced.
LEMMA UndecidedIsAnnounced ==
    ASSUME WakeInv, Announced, ~drv.deciding
    PROVE  store.rec.rev \in accepted
BY DEF WakeInv, Deciders, Announced

LEMMA DecideAnnounced ==
    ASSUME WakeInv, Faults, Announced, NEW method \in Methods, Decide(method), OneFault'
    PROVE  Faults' /\ Announced'
<1>s. /\ drv \in Drivers /\ store.rec \in Records /\ count'.faults <= 1
      /\ count \in [epochs : Nat, boots : Nat, faults : Nat]
  BY DEF WakeInv, Shape, OneFault
<1>1. /\ rb' = rb /\ peer' = peer /\ accepted' = accepted /\ Open /\ ~drv.deciding
      /\ req.pc = "idle"
  BY DEF Decide, Decidable
<1>2. drv'.amb = drv.amb /\ drv.amb.state = "none"
  BY <1>1, <1>s DEF Decide, WakeInv, Deciders, Drivers
<1>3. store.rec.rev \in accepted
  BY <1>1, UndecidedIsAnnounced
<1>4. CASE req'.pc = "publish" /\ Committed(Planned(method)) /\ count' = count
  <2>1. store'.status = store.status /\ store'.staged = store.staged
    BY <1>4 DEF Committed, WakeInv, Shape
  <2> QED BY <1>1, <1>2, <1>4, <2>1 DEF Faults, Announced, Open
<1>5. CASE /\ req'.pc = "unknown" /\ req'.expected = store.rec.rev /\ Faulty
           /\ Staged(Planned(method)) \/ store' = store
  <2>1. count'.faults > 0 /\ count.faults = 0
    BY <1>5, <1>s DEF Faulty
  <2>2. store'.rec = store.rec
    BY <1>5 DEF Staged, WakeInv, Shape
  <2>3. rb.pc = "off" /\ peer = "idle"
    BY <2>1 DEF Faults
  <2>4. Faults'
    BY <1>1, <1>2, <1>5, <2>1, <2>3 DEF Faults
  <2>5. Announced'
    BY <1>1, <1>2, <1>3, <1>5, <2>2 DEF Announced
  <2> QED BY <2>4, <2>5
<1> QED BY <1>4, <1>5 DEF Decide

LEMMA TakenAnnounced ==
    ASSUME WakeInv, Faults, Announced, NEW x \in {"req", "peer", "rb"}, TakeAmbiguous(x),
           store.status # "ambiguous", store' = store, accepted' = accepted, count' = count,
           req.pc # "unknown", req'.pc # "unknown",
           rb'.pc = rb.pc \/ (rb.pc = "settle" /\ rb'.pc = "resolving"),
           peer' = peer \/ peer = "settle"
    PROVE  Faults' /\ Announced'
<1>1. drv \in Drivers /\ drv.amb \in Ambiguities
  BY DEF WakeInv, Shape, Drivers
<1>2. /\ drv.amb.state = "held" /\ drv'.amb.state = "resolving"
      /\ drv'.amb.adopted = (store.rec.rev # drv.amb.expected)
  BY <1>1 DEF TakeAmbiguous, Drivers, Ambiguities
<1>3. Faults'
  BY <1>2 DEF Faults, Open
<1>4. Announced'
  BY <1>2 DEF Announced
<1> QED BY <1>3, <1>4

LEMMA RequesterAnnounced ==
    ASSUME WakeInv, Faults, Announced, Requester
    PROVE  Faults' /\ Announced'
<1>s. /\ drv \in Drivers /\ count.faults \in Nat
      /\ req \in [pc : {"idle", "publish", "release", "unknown", "check", "resolving", "arm"},
                  expected : Nat, fence : BOOLEAN]
  BY DEF WakeInv, Shape
<1>f. UNCHANGED <<store, peer, count>>
  BY DEF Requester, PublishAccepted, ReleaseDecision, HoldAmbiguous, CheckAdmission, ArmReadback
<1>1. CASE PublishAccepted
  <2>1. /\ accepted' = accepted \cup {store.rec.rev} /\ drv' = drv /\ rb' = rb
        /\ req.pc = "publish" /\ req'.pc = "release" /\ req'.expected = req.expected
    BY <1>1, <1>s DEF PublishAccepted
  <2> QED BY <1>f, <2>1 DEF Faults, Announced, Open
<1>2. CASE ReleaseDecision
  <2>1. drv' = Released(drv, req.fence) /\ req' = Quiet /\ accepted' = accepted /\ rb' = rb /\ req.pc = "release"
    BY <1>2 DEF ReleaseDecision
  <2>2. drv'.amb.state = "none" /\ drv.amb.state = "none"
    BY <2>1, <1>s, ReleasedDriver DEF NoAmbiguity, WakeInv, Deciders
  <2>3. store.rec.rev \in accepted /\ store.status = "ambiguous" => store.staged.rev = store.rec.rev
    BY <2>1, <2>2 DEF Announced
  <2> QED BY <1>f, <2>1, <2>2, <2>3 DEF Faults, Announced, Open, Quiet
<1>3. CASE HoldAmbiguous
  <2>1. /\ req.pc = "unknown" /\ req'.pc = "check" /\ accepted' = accepted /\ rb' = rb
        /\ drv'.amb.state = "held" /\ drv'.amb.expected = req.expected
    BY <1>3, <1>s DEF HoldAmbiguous, Drivers, NoAmbiguity
  <2> QED BY <1>f, <2>1 DEF Faults, Announced, Open
<1>4. CASE CheckAdmission
  <2>1. CASE Open /\ TakeAmbiguous("req") /\ req' = [req EXCEPT !.pc = "resolving"]
    <3>1. req.pc = "check" /\ req'.pc = "resolving" /\ store.status # "ambiguous" /\ rb' = rb /\ accepted' = accepted
      BY <1>4, <2>1, <1>s DEF CheckAdmission, Open
    <3> QED BY <1>f, <2>1, <3>1, TakenAnnounced
  <2>2. CASE req' = [req EXCEPT !.pc = "arm"] /\ drv' = drv
    <3>1. req.pc = "check" /\ req'.pc = "arm" /\ rb' = rb /\ accepted' = accepted
      BY <1>4, <2>2, <1>s DEF CheckAdmission
    <3> QED BY <1>f, <2>2, <3>1 DEF Faults, Announced, Open
  <2> QED BY <1>4, <2>1, <2>2 DEF CheckAdmission
<1>5. CASE ArmReadback
  <2>1. /\ req.pc = "arm" /\ req'.pc = "idle" /\ drv' = drv /\ accepted' = accepted
        /\ rb' = rb \/ (~Open /\ rb' = Armed)
    BY <1>5 DEF ArmReadback, Quiet
  <2>2. rb' = rb \/ (~Open /\ rb'.pc = "try")
    BY <2>1 DEF Armed
  <2> QED BY <1>f, <2>1, <2>2 DEF Faults, Announced, Open
<1> QED BY <1>1, <1>2, <1>3, <1>4, <1>5 DEF Requester

\* A readback settles on a record whose decision is known or still held.
LEMMA RereadAnnounced ==
    ASSUME WakeInv, Faults, Announced, Reread, drv' = drv, req' = req, accepted' = accepted, count' = count,
           rb'.pc = rb.pc \/ rb.pc = "try", peer' = peer \/ peer = "idle"
    PROVE  Faults' /\ Announced'
<1>1. store.status = "ambiguous" /\ store'.status = "open" /\ store'.rec \in {store.rec, store.staged}
  BY DEF Reread
<1>2. Faults'
  BY <1>1 DEF Faults, Open
<1>3. Announced'
  BY <1>1 DEF Announced
<1> QED BY <1>2, <1>3

LEMMA ReadbackAnnounced ==
    ASSUME WakeInv, Faults, Announced, Resolver \/ PeerReadsBack \/ PeerSettles
    PROVE  Faults' /\ Announced'
<1>s. /\ drv \in Drivers /\ count.faults \in Nat
      /\ rb \in [pc : {"off", "try", "settle", "resolving", "disarm"}, tries : Nat]
  BY DEF WakeInv, Shape
<1>f. UNCHANGED <<req, accepted, count>>
  BY DEF Resolver, ReadbackTry, ReadbackResolved, ReadbackDisarms, PeerReadsBack, PeerSettles
<1>h. drv.amb.state = "held" => req.pc # "unknown"
  BY DEF WakeInv, Deciders
<1>1. CASE ReadbackTry
  <2>0. rb.pc = "try" /\ drv' = drv /\ peer' = peer
    BY <1>1 DEF ReadbackTry
  <2>1. CASE Reread /\ rb' = [rb EXCEPT !.pc = "settle"]
    BY <1>f, <2>0, <2>1, RereadAnnounced
  <2>2. CASE store' = store /\ rb'.pc \in {"try", "settle", "disarm"} /\ (rb'.pc = "settle" => Open)
    BY <1>f, <2>0, <2>2 DEF Faults, Announced, Open
  <2>3. CASE store' = [store EXCEPT !.staged = Nothing, !.status = "failed"] /\ rb'.pc = "disarm"
    <3>1. store'.status = "failed" /\ store'.rec = store.rec
      BY <2>3 DEF WakeInv, Shape
    <3> QED BY <1>f, <2>0, <2>3, <3>1 DEF Faults, Announced, Open
  <2> QED BY <1>1, <1>s, <2>1, <2>2, <2>3 DEF ReadbackTry
<1>2. CASE ReadbackResolved
  <2>0. rb.pc = "settle" /\ store' = store /\ peer' = peer /\ store.status # "ambiguous"
    BY <1>2 DEF ReadbackResolved, Faults
  <2>1. CASE TakeAmbiguous("rb") /\ rb' = [rb EXCEPT !.pc = "resolving"]
    <3>1. drv.amb.state = "held" /\ rb'.pc = "resolving"
      BY <2>1, <1>s DEF TakeAmbiguous
    <3> QED BY <1>f, <1>h, <2>0, <2>1, <3>1, TakenAnnounced
  <2>2. CASE drv' = [drv EXCEPT !.wake = TRUE] /\ rb' = [rb EXCEPT !.pc = "disarm"]
    <3>1. drv'.amb = drv.amb /\ rb'.pc = "disarm"
      BY <2>2, <1>s DEF Drivers
    <3> QED BY <1>f, <2>0, <3>1 DEF Faults, Announced, Open
  <2> QED BY <1>2, <2>1, <2>2 DEF ReadbackResolved
<1>3. CASE ReadbackDisarms
  <2>1. drv' = drv /\ store' = store /\ peer' = peer /\ rb'.pc = "off" /\ rb.pc = "disarm"
    BY <1>3, <1>s DEF ReadbackDisarms
  <2> QED BY <1>f, <2>1 DEF Faults, Announced, Open
<1>4. CASE PeerReadsBack
  BY <1>4, RereadAnnounced DEF PeerReadsBack
<1>5. CASE PeerSettles
  <2>0. peer = "settle" /\ store' = store /\ rb' = rb /\ store.status # "ambiguous"
    BY <1>5 DEF PeerSettles, Faults
  <2>1. CASE TakeAmbiguous("peer")
    <3>1. drv.amb.state = "held"
      BY <2>1 DEF TakeAmbiguous
    <3> QED BY <1>f, <1>h, <2>0, <2>1, <3>1, TakenAnnounced
  <2>2. CASE drv' = [drv EXCEPT !.wake = TRUE]
    <3>1. drv'.amb = drv.amb
      BY <2>2, <1>s DEF Drivers
    <3> QED BY <1>f, <2>0, <3>1 DEF Faults, Announced, Open
  <2> QED BY <1>5, <2>1, <2>2 DEF PeerSettles
<1> QED BY <1>1, <1>2, <1>3, <1>4, <1>5 DEF Resolver

LEMMA SettlingAnnounced ==
    ASSUME WakeInv, Faults, Announced, Settling
    PROVE  Faults' /\ Announced'
<1>s. /\ drv \in Drivers /\ drv.amb \in Ambiguities
      /\ req \in [pc : {"idle", "publish", "release", "unknown", "check", "resolving", "arm"},
                  expected : Nat, fence : BOOLEAN]
      /\ rb \in [pc : {"off", "try", "settle", "resolving", "disarm"}, tries : Nat]
  BY DEF WakeInv, Shape, Drivers
<1>f. store' = store /\ count' = count
  BY DEF Settling, PublishAdopted, ReleaseAmbiguous
<1>1. CASE PublishAdopted
  <2>1. /\ drv.amb.state = "resolving" /\ drv'.amb.state = "settled" /\ UNCHANGED <<req, peer, rb>>
        /\ accepted' = IF drv.amb.adopted THEN accepted \cup {store.rec.rev} ELSE accepted
    BY <1>1, <1>s DEF PublishAdopted, Drivers, Ambiguities
  <2>2. req.pc \notin {"publish", "unknown"}
    BY <2>1 DEF WakeInv, Deciders
  <2> QED BY <1>f, <2>1, <2>2 DEF Faults, Announced, Open
<1>2. CASE ReleaseAmbiguous
  <2> DEFINE fence == drv.amb.fence /\ drv.amb.adopted
  <2>0. fence \in BOOLEAN
    BY <1>s DEF Ambiguities
  <2>1. /\ drv' = Released(drv, fence) /\ drv.amb.state = "settled" /\ accepted' = accepted
        /\ req'.pc \in {req.pc, "arm"} /\ req'.expected = req.expected
        /\ peer' \in {peer, "idle"}
        /\ rb'.pc = rb.pc \/ (rb.pc = "resolving" /\ rb'.pc = "disarm")
    BY <1>2, <1>s DEF ReleaseAmbiguous, WakeInv, Deciders
  <2> HIDE DEF fence
  <2>2. drv'.amb.state = "none"
    BY <2>0, <2>1, <1>s, ReleasedDriver DEF NoAmbiguity
  <2>3. req.pc \notin {"publish", "unknown"}
    BY <2>1 DEF WakeInv, Deciders
  <2> QED BY <1>f, <2>1, <2>2, <2>3 DEF Faults, Announced, Open
<1> QED BY <1>1, <1>2 DEF Settling

LEMMA CrashAnnounced ==
    ASSUME WakeInv, Faults, Announced, Crash
    PROVE  Faults' /\ Announced'
BY DEF Crash, Faults, Announced, Open, Booted, NoAmbiguity, Quiet

LEMMA InitAnnounced == Init => Faults /\ Announced
BY DEF Init, FirstRecords, Workless, Faults, Announced, Open, Booted, NoAmbiguity, Quiet

LEMMA NextAnnounced ==
    ASSUME WakeInv, Faults, Announced, [Next]_vars, OneFault'
    PROVE  WakeInv' /\ Faults' /\ Announced'
<1>1. WakeInv' /\ Shape
  BY NextWakeInv DEF WakeInv
<1>2. CASE Reconciler
  <2>1. CASE ReadSlots
    BY <1>1, <2>1, ReadSlotsAnnounced
  <2>2. CASE ~ReadSlots
    BY <1>1, <1>2, <2>2, ReconcilerMoves, ReconcilerSteady, SteadyAnnounced
  <2> QED BY <2>1, <2>2
<1>3. CASE vars' = vars
  BY <1>1, <1>3 DEF vars, Faults, Announced, Open
<1> QED BY <1>1, <1>2, <1>3, DecideAnnounced, RequesterAnnounced, ReadbackAnnounced,
           SettlingAnnounced, CrashAnnounced DEF Next

\* Failed writes are never taken back.
LEMMA FaultsStay ==
    ASSUME Shape, [Next]_vars
    PROVE  count'.faults >= count.faults
<1>0. count \in [epochs : Nat, boots : Nat, faults : Nat] /\ count.faults \in Nat
  BY DEF Shape
<1>1. CASE vars' = vars
  BY <1>0, <1>1 DEF vars
<1>2. CASE Reconciler
  BY <1>2, ReconcilerSteady DEF Steady
<1>3. CASE \E method \in Methods : Decide(method)
  BY <1>0, <1>3 DEF Decide, Faulty
<1>4. CASE Requester \/ Resolver \/ Settling \/ PeerReadsBack \/ PeerSettles
  <2>1. count' = count
    BY <1>4 DEF Requester, PublishAccepted, ReleaseDecision, HoldAmbiguous, CheckAdmission, ArmReadback,
       Resolver, ReadbackTry, ReadbackResolved, ReadbackDisarms, Settling, PublishAdopted, ReleaseAmbiguous,
       PeerReadsBack, PeerSettles
  <2> QED BY <1>0, <2>1
<1>5. CASE Crash
  BY <1>0, <1>5 DEF Crash
<1> QED BY <1>1, <1>2, <1>3, <1>4, <1>5 DEF Next

LEMMA OneFaultBefore ==
    ASSUME WakeInv, [Next]_vars, OneFault'
    PROVE  OneFault
<1>1. count'.faults >= count.faults
  BY FaultsStay DEF WakeInv
<1>2. count.faults \in Nat /\ count'.faults \in Nat
  BY NextWakeInv DEF WakeInv, Shape
<1> QED BY <1>1, <1>2 DEF OneFault

\* The induction: who is woken, and what is announced until a second write has
\* failed.
AnnouncedInv == WakeInv /\ (OneFault => Faults /\ Announced)

\* Whatever writes fail and in whichever process, as long as no second one has
\* every decision in force is announced before its hold ends: a publication
\* precedes each release, and a decision of unknown outcome is settled by the
\* record that was read back.
THEOREM ControlNoSilentDecision == Spec => []NoSilentDecision
<1>1. Init => AnnouncedInv
  BY InitWakeInv, InitAnnounced DEF AnnouncedInv
<1>2. AnnouncedInv /\ [Next]_vars => AnnouncedInv'
  <2> SUFFICES ASSUME AnnouncedInv, [Next]_vars PROVE AnnouncedInv'
    OBVIOUS
  <2>1. WakeInv' /\ WakeInv
    BY NextWakeInv DEF AnnouncedInv
  <2>2. ASSUME OneFault' PROVE Faults' /\ Announced'
    <3>1. Faults /\ Announced
      BY <2>1, <2>2, OneFaultBefore DEF AnnouncedInv
    <3> QED BY <2>1, <2>2, <3>1, NextAnnounced
  <2> QED BY <2>1, <2>2 DEF AnnouncedInv
<1>3. AnnouncedInv => NoSilentDecision
  BY UndecidedIsAnnounced DEF NoSilentDecision, AnnouncedInv
<1> QED BY <1>1, <1>2, <1>3, PTL DEF Spec

-----------------------------------------------------------------------------
(* Acting on what was accepted                                               *)

\* What the record s keeps of the work in r: an unfinished slot of r is still
\* there, and the slot reserved behind it too.
Heir(r, s) ==
    r.cur # Nothing /\ ~Terminal(r.cur) =>
        SameIdentity(r.cur, s.cur) /\ (r.res # Nothing => s.res = r.res)

\* The slots of a record were decided, the latest by its own revision; a
\* cancellation has the slot it makes way for behind it.
Decided(r) ==
    /\ r.rev >= 1
    /\ r.cur # Nothing => r.cur.rev \in 1 .. r.rev /\ (r.cur.kind = "CANCEL" => r.res # Nothing)
    /\ r.res # Nothing => r.res.rev \in 1 .. r.rev /\ r.res.kind # "CANCEL"

StoreLine ==
    /\ \A s \in StoredRecords : Decided(s)
    /\ store.status = "ambiguous" =>
          /\ Heir(store.rec, store.staged)
          /\ store.staged.rev \in {store.rec.rev, store.rec.rev + 1}
    /\ 1 .. store.rec.rev - 1 \subseteq accepted

\* What the reconciler read is not ahead of the store and, until a write has
\* failed, only the reconciler itself changes the current slot.
ReadLine ==
    /\ rc.pc = "dispatch" =>
          /\ Decided(rc.t) /\ rc.t.rev <= store.rec.rev
          /\ \A s \in StoredRecords : Heir(rc.t, s)
          /\ count.faults = 0 /\ rc.t.cur # Nothing => store.rec.cur = rc.t.cur
    /\ rc.pc = "finish" => Terminal(rc.t) /\ (count.faults = 0 => store.rec.cur = rc.t)
    /\ rc.pc = "prune" =>
          /\ rc.t # Nothing => rc.t.kind # "CANCEL"
          /\ count.faults = 0 => store.rec.cur # Nothing /\ Terminal(store.rec.cur)

\* The reconciler works on accepted slots, and cancels for accepted ones.
WorkLine ==
    /\ rc.pc \in SlotPcs => rc.t.rev \in accepted
    /\ rc.k = "canceled" =>
          \A s \in StoredRecords : s.cur # Nothing /\ s.res # Nothing /\ s.res.rev \in accepted

Lineage == StoreLine /\ ReadLine /\ WorkLine

\* A step of the reconciler after its dispatch.
Onward ==
    /\ rc'.pc \notin {"dispatch", "finish", "prune"}
    /\ rc'.pc \in SlotPcs => rc.pc \in SlotPcs /\ rc'.t.rev = rc.t.rev
    /\ rc'.k = "canceled" => rc.k = "canceled"

LEMMA SettleContinues ==
    ASSUME NEW d, NEW t, NEW k, SettleObligations(d, t, k)
    PROVE  rc'.k = k
BY DEF SettleObligations, At

LEMMA RetryContinues ==
    ASSUME NEW d, NEW t, NEW now, SemanticRetry(d, t, now)
    PROVE  rc'.k # "canceled"
BY DEF SemanticRetry, Asleep, At

LEMMA CleanupContinues ==
    ASSUME NEW d, NEW t, NEW now, AfterCleanup(d, t, now)
    PROVE  rc'.k # "canceled"
BY RetryContinues DEF AfterCleanup, Asleep, Reading, At

LEMMA StartContinues ==
    ASSUME NEW d, NEW t, NEW now, StepStart(d, t, now) \/ Replace(d, t, now)
    PROVE  rc'.k # "canceled"
<1>1. CASE Replace(d, t, now)
  BY <1>1 DEF Replace, Assign, At
<1>2. CASE SettleObligations(d, t, "replaced")
  BY <1>2, SettleContinues
<1> QED BY <1>1, <1>2 DEF StepStart, At

LEMMA StopContinues ==
    ASSUME NEW d, NEW t, StepStop(d, t)
    PROVE  rc'.k # "canceled"
<1>1. CASE SettleObligations(d, t, "stopped")
  BY <1>1, SettleContinues
<1> QED BY <1>1 DEF StepStop, At

LEMMA ExhaustContinues ==
    ASSUME NEW d, NEW t, NEW u, Exhaust(d, t, u)
    PROVE  rc'.k # "canceled"
<1>1. rc'.k = "exhausted"
  BY SettleContinues DEF Exhaust
<1> QED BY <1>1

\* Only a cancellation, or a START with a successor, is canceled.
LEMMA ProgressContinues ==
    ASSUME NEW r, NEW t, NEW now, Progress(r, t, now), rc'.k = "canceled"
    PROVE  t.phase # "CLEANUP" /\ (t.kind = "CANCEL" \/ r.res # Nothing)
<1>1. ~StepStop(drv, t)
  BY StopContinues
<1>2. ~SettleObligations(drv, t, "cleaned")
  BY SettleContinues
<1>3. ~StepStart(drv, t, now)
  BY StartContinues
<1>4. ~StepRestart(drv, t, now)
  BY <1>3 DEF StepRestart, At
<1> QED BY <1>1, <1>2, <1>3, <1>4 DEF Progress

LEMMA LeadsOnward ==
    ASSUME rc.pc \in SlotPcs, Leads(drv, rc.t), rc'.k # "canceled"
    PROVE  Onward
BY DEF Leads, Onward

LEMMA SettledCommitContinues ==
    ASSUME SettledCommit
    PROVE  rc'.k # "canceled"
<1>1. CASE CleanupCommitted \/ StopCommitted \/ ExhaustCommitted
  BY <1>1, CleanupContinues DEF CleanupCommitted, StopCommitted, ExhaustCommitted
<1>2. CASE BegunCommitted
  <2>1. CASE SettleObligations(drv, rc.t, "stopped")
    BY <2>1, SettleContinues
  <2> QED BY <1>2, <2>1, StartContinues DEF BegunCommitted, Reading, At
<1>3. CASE ReplacedCommitted
  BY <1>3, RetryContinues, StartContinues DEF ReplacedCommitted, Skip, Asleep, At
<1>4. CASE EndCommitted \/ StartCompleted
  BY <1>4 DEF EndCommitted, StartCompleted, Reading, At
<1> QED BY <1>1, <1>2, <1>3, <1>4 DEF SettledCommit

\* The steps that leave the slot, or the work on it.
LEMMA IdleOnward ==
    ASSUME rc' = Asleep \/ rc' = Reading
    PROVE  Onward
BY DEF Asleep, Reading, At, Onward, SlotPcs

LEMMA SlotOnward ==
    ASSUME rc.pc \in SlotPcs, NEW pc \in SlotPcs \ {"finish"}, NEW t, NEW k, t.rev = rc.t.rev,
           k # "canceled", rc' = At(pc, t, k)
    PROVE  Onward
BY DEF At, Onward, SlotPcs

LEMMA CleanupOnward ==
    ASSUME Shape, Cleanup, ~Finish
    PROVE  Onward
<1>1. CASE CommitFails \/ Prune \/ PruneFails
  BY <1>1, IdleOnward DEF CommitFails, Prune, PruneFails
<1>2. CASE CleanupCharged
  <2>1. rc.pc = "charge" /\ rc = At(rc.pc, rc.t, rc.k) /\ rc' = [rc EXCEPT !.pc = "stop"]
    BY <1>2 DEF CleanupCharged, Shape, RcShape
  <2>2. rc' = At("stop", rc.t, rc.k)
    BY <2>1 DEF At
  <2> QED BY <2>1, <2>2 DEF At, Onward, SlotPcs
<1>3. CASE StopReturns
  <2>1. rc.pc = "stop" /\ rc.t \in Slots /\ rc.t.native \in BOOLEAN /\ rc.t.semantic \in BOOLEAN
    BY <1>3 DEF StopReturns, Shape, RcShape, AtShape, UntypedPcs, AttemptPcs, Slots
  <2>2. PICK closed \in BOOLEAN, cleaned \in BOOLEAN :
          rc' = At("commit", Settled(rc.t, rc.k, rc.t.native /\ ~closed, rc.t.semantic /\ ~cleaned), rc.k)
    BY <1>3 DEF StopReturns
  <2> DEFINE z == Settled(rc.t, rc.k, rc.t.native /\ ~closed, rc.t.semantic /\ ~cleaned)
  <2>3. z.rev = rc.t.rev
    BY <2>1 DEF Settled, Slots
  <2>4. rc' = At("commit", z, rc.k)
    BY <2>2
  <2> HIDE DEF z
  <2> QED BY <2>1, <2>3, <2>4 DEF At, Onward, SlotPcs
<1>4. CASE SettledCommit
  <2>1. rc.pc = "commit" /\ Leads(drv, rc.t)
    BY <1>4, SettledCommitLeads
  <2>2. rc'.k # "canceled"
    BY <1>4, SettledCommitContinues
  <2> QED BY <2>1, <2>2, LeadsOnward DEF SlotPcs
<1>5. CASE AssignCommitted
  <2>1. rc.pc = "commit" /\ rc' = At("attempt", rc.t, "none")
    BY <1>5 DEF AssignCommitted, Commits
  <2> QED BY <2>1, SlotOnward DEF SlotPcs
<1> QED BY <1>1, <1>2, <1>3, <1>4, <1>5 DEF Cleanup, SettledCommit

LEMMA AttemptOnward ==
    ASSUME Shape, TypedAttempt
    PROVE  Onward
<1>e. ASSUME rc.pc \in AttemptPcs, Exhaust(drv, rc.t, TRUE) \/ Exhaust(drv, rc.t, FALSE)
      PROVE  Onward
  <2>1. drv \in Drivers /\ rc.t \in Slots
    BY <1>e, AttemptShape
  <2>2. Leads(drv, rc.t)
    BY <1>e, <2>1, ExhaustLeads
  <2>3. rc'.k # "canceled"
    BY <1>e, ExhaustContinues
  <2> QED BY <1>e, <2>2, <2>3, LeadsOnward DEF SlotPcs, AttemptPcs
<1>g. ASSUME rc.pc \in AttemptPcs, rc' = At("commit", [rc.t EXCEPT !.gen = @ + 1], "regen")
      PROVE  Onward
  <2> DEFINE z == [rc.t EXCEPT !.gen = @ + 1]
  <2>1. z.rev = rc.t.rev /\ rc' = At("commit", z, "regen")
    BY <1>g, AttemptShape, GenSlot
  <2> HIDE DEF z
  <2> QED BY <1>g, <2>1, SlotOnward DEF SlotPcs, AttemptPcs
<1>1. CASE AttemptHead
  <2>1. rc.pc \in AttemptPcs
    BY <1>1 DEF AttemptHead, AttemptPcs
  <2>2. CASE rc' = At("start", rc.t, "none")
    BY <2>1, <2>2, SlotOnward DEF SlotPcs, AttemptPcs
  <2>3. CASE rc' = At("commit", [rc.t EXCEPT !.used = @ + 1], "charged")
    <3> DEFINE z == [rc.t EXCEPT !.used = @ + 1]
    <3>1. z.rev = rc.t.rev /\ rc' = At("commit", z, "charged")
      BY <2>1, <2>3, AttemptShape, UsedSlot
    <3> HIDE DEF z
    <3> QED BY <2>1, <3>1, SlotOnward DEF SlotPcs, AttemptPcs
  <2> QED BY <1>1, <1>e, <1>g, <2>1, <2>2, <2>3, IdleOnward DEF AttemptHead
<1>2. CASE StartCharged \/ GenerationCommitted
  <2>1. rc.pc = "commit" /\ (rc' = At("start", rc.t, "none") \/ rc' = At("attempt", rc.t, "none"))
    BY <1>2 DEF StartCharged, GenerationCommitted, Commits
  <2> QED BY <2>1, SlotOnward DEF SlotPcs
<1>3. CASE StartReturns
  <2>1. PICK result \in Results : rc.pc = "start" /\ rc' = At("judge", rc.t, result)
    BY <1>3 DEF StartReturns
  <2>2. result # "canceled"
    BY DEF Results
  <2> QED BY <2>1, <2>2, SlotOnward DEF SlotPcs
<1>4. CASE JudgeStart
  <2>1. rc.pc \in AttemptPcs
    BY <1>4 DEF JudgeStart, AttemptPcs
  <2>2. CASE rc' = At("admit", rc.t, "none") \/ rc' = At("backoff", rc.t, "none")
    BY <2>1, <2>2, SlotOnward DEF SlotPcs, AttemptPcs
  <2> QED BY <1>4, <1>e, <2>1, <2>2, IdleOnward DEF JudgeStart
<1>5. CASE AdmitStart
  <2>1. rc.pc \in AttemptPcs
    BY <1>5 DEF AdmitStart, AttemptPcs
  <2>2. CASE rc' = At("commit", Discharged(rc.t), "completed")
    <3>1. Discharged(rc.t).rev = rc.t.rev
      BY <2>1, AttemptShape, DischargedSlot
    <3> QED BY <2>1, <2>2, <3>1, SlotOnward DEF SlotPcs, AttemptPcs
  <2> QED BY <1>5, <1>e, <2>1, <2>2, IdleOnward DEF AdmitStart
<1>6. CASE StartCompleted
  BY <1>6, IdleOnward DEF StartCompleted
<1>7. CASE Backoff
  <2>1. rc.pc \in AttemptPcs
    BY <1>7 DEF Backoff, AttemptPcs
  <2>2. CASE rc' = At("attempt", rc.t, "none")
    BY <2>1, <2>2, SlotOnward DEF SlotPcs, AttemptPcs
  <2> QED BY <1>7, <1>g, <2>1, <2>2, IdleOnward DEF Backoff
<1> QED BY <1>1, <1>2, <1>3, <1>4, <1>5, <1>6, <1>7 DEF TypedAttempt

LEMMA UntypedOnward ==
    ASSUME UntypedAttempt
    PROVE  Onward
<1>g. ASSUME NEW pc, NEW k, rc' = At(pc, Nothing, k), k # "canceled",
             pc \notin SlotPcs \cup {"dispatch", "prune"}
      PROVE  Onward
  BY <1>g DEF Onward, At, SlotPcs
<1>1. CASE InstallUntyped \/ CheckUntyped \/ BackoffUntyped \/ FinishUntyped
  BY <1>1, <1>g, IdleOnward DEF InstallUntyped, CheckUntyped, BackoffUntyped, FinishUntyped, UntypedGo, SlotPcs
<1>2. CASE UntypedHead \/ AdmitUntyped
  BY <1>2, <1>g, IdleOnward DEF UntypedHead, AdmitUntyped, UntypedGo, SlotPcs
<1>3. CASE UntypedReturns
  BY <1>3, <1>g DEF UntypedReturns, UntypedGo, Results, SlotPcs
<1>4. CASE JudgeUntyped
  <2>1. \/ rc' = Reading
        \/ \E pc \in {"u_withdraw", "u_admit", "u_finish", "u_backoff"} :
              \E k \in {"none", "unconfirmed", "failed"} : rc' = At(pc, Nothing, k)
    BY <1>4 DEF JudgeUntyped, UntypedGo
  <2> QED BY <2>1, <1>g, IdleOnward DEF SlotPcs
<1>5. CASE WithdrawUntyped
  BY <1>5, <1>g DEF WithdrawUntyped, UntypedGo, SlotPcs
<1> QED BY <1>1, <1>2, <1>3, <1>4, <1>5 DEF UntypedAttempt

\* What a write of the reconciler does to the record.
Writes(r) ==
    /\ Open /\ rc'.pc \notin {"dispatch", "finish", "prune"}
    /\ \/ Committed(r) /\ count'.faults = count.faults
       \/ Staged(r) /\ Faultable /\ count'.faults = count.faults + 1

StoreWrites ==
    \/ store' = store
    \/ rc.pc \in {"charge", "commit"} /\ Updatable /\ Writes(Updated)
    \/ rc.pc = "prune" /\ Prunable /\ Writes(Pruned) /\ rc'.k = "none"

LEMMA ReconcilerWrites ==
    ASSUME Shape, Reconciler, ~ReadSlots, ~Dispatch, ~Finish, Onward
    PROVE  StoreWrites
<1>s. count \in [epochs : Nat, boots : Nat, faults : Nat]
  BY DEF Shape
<1>w. ASSUME rc.pc \in {"charge", "commit"}, Saved, count'.faults = count.faults
      PROVE  StoreWrites
  BY <1>w DEF StoreWrites, Writes, Saved, Updatable, Onward
<1>1. CASE Wakes
  BY <1>1 DEF Wakes, StoreWrites
<1>2. CASE CommitFails
  <2>1. CASE store' = store
    BY <2>1 DEF StoreWrites
  <2>2. CASE /\ Updatable /\ Staged(Updated) /\ Faultable
             /\ count' = [count EXCEPT !.faults = @ + 1, !.epochs = Issued]
    <3>1. count'.faults = count.faults + 1
      BY <2>2, <1>s
    <3> QED BY <1>2, <2>2, <3>1 DEF CommitFails, StoreWrites, Writes, Updatable, Onward
  <2> QED BY <1>2, <2>1, <2>2 DEF CommitFails
<1>3. CASE CleanupCharged \/ SettledCommit \/ StartCharged \/ GenerationCommitted
  <2>1. rc.pc \in {"charge", "commit"} /\ Saved /\ count' = count
    BY <1>3, SettledCommitLeads DEF CleanupCharged, StartCharged, GenerationCommitted, Commits
  <2> QED BY <2>1, <1>w
<1>4. CASE AssignCommitted
  <2>1. rc.pc = "commit" /\ Saved /\ count'.faults = count.faults
    BY <1>4, <1>s DEF AssignCommitted, Commits
  <2> QED BY <2>1, <1>w
<1>5. CASE StopReturns \/ AttemptHead \/ StartReturns \/ JudgeStart \/ AdmitStart \/ Backoff
  BY <1>5 DEF StopReturns, AttemptHead, StartReturns, JudgeStart, AdmitStart, Backoff, StoreWrites
<1>6. CASE Prune
  BY <1>6 DEF Prune, Prunable, Reading, At, StoreWrites, Writes
<1>7. CASE PruneFails
  <2>1. CASE store' = store
    BY <2>1 DEF StoreWrites
  <2>2. CASE Prunable /\ Faulty /\ Staged(Pruned)
    <3>1. Faultable /\ count'.faults = count.faults + 1
      BY <2>2, <1>s DEF Faulty
    <3> QED BY <1>7, <2>2, <3>1 DEF PruneFails, Prunable, Asleep, At, StoreWrites, Writes
  <2> QED BY <1>7, <2>1, <2>2 DEF PruneFails
<1>8. CASE UntypedAttempt
  BY <1>8, UntypedSteps DEF StoreWrites
<1> QED BY <1>1, <1>2, <1>3, <1>4, <1>5, <1>6, <1>7, <1>8
       DEF Reconciler, Pass, Cleanup, TypedAttempt, SettledCommit

\* A record that takes the place of the committed one, with its revision.
LEMMA WrittenLine ==
    ASSUME WakeInv, StoreLine, NEW r \in Records, Writes(r), accepted' = accepted, OneFault',
           r.rev = store.rec.rev, Decided(r), count.faults = 0 => Heir(store.rec, r)
    PROVE  /\ StoreLine'
           /\ StoredRecords' \subseteq {store.rec, r}
<1>s. /\ store.rec \in Records /\ count.faults \in Nat /\ count'.faults <= 1 /\ Open
      /\ store \in [rec : Records, staged : Records \cup {Nothing},
                    status : {"open", "ambiguous", "failed"}]
  BY DEF WakeInv, Shape, Writes, OneFault
<1>1. CASE Committed(r)
  <2>1. store'.rec = r /\ store'.status = "open"
    BY <1>1, <1>s DEF Committed, Open
  <2>2. StoredRecords' = {r}
    BY <2>1 DEF StoredRecords
  <2> QED BY <2>1, <2>2 DEF StoreLine
<1>2. CASE Staged(r) /\ count'.faults = count.faults + 1
  <2>1. store'.rec = store.rec /\ store'.staged = r /\ store'.status = "ambiguous"
    BY <1>2, <1>s DEF Staged
  <2>2. StoredRecords' = {store.rec, r} /\ store.rec \in StoredRecords
    BY <2>1 DEF StoredRecords
  <2>3. Heir(store.rec, r)
    BY <1>2, <1>s
  <2> QED BY <2>1, <2>2, <2>3 DEF StoreLine
<1> QED BY <1>1, <1>2 DEF Writes

\* The update of a slot keeps its identity.
LEMMA UpdatedLine ==
    ASSUME WakeInv, StoreLine, rc.pc \in {"charge", "commit"}, Updatable
    PROVE  /\ Updated \in Records /\ Updated.rev = store.rec.rev /\ Decided(Updated)
           /\ Heir(store.rec, Updated)
           /\ Updated.cur # Nothing /\ Updated.res = store.rec.res
<1>1. Updated \in Records
  BY SavedRecord DEF WakeInv
<1>2. store.rec \in Records
  BY DEF WakeInv, Shape
<1>3. Updated.rev = store.rec.rev /\ Updated.cur = rc.t /\ Updated.res = store.rec.res
  BY <1>2 DEF Updated, Records
<1>4. SameIdentity(store.rec.cur, rc.t)
  BY DEF Updatable, WorkUpdate
<1>5. Decided(store.rec)
  BY DEF StoreLine, StoredRecords
<1> QED BY <1>1, <1>3, <1>4, <1>5 DEF Decided, Heir, SameIdentity

\* A prune leaves a slot that was stored; what it takes away was finished.
LEMMA PrunedLine ==
    ASSUME WakeInv, StoreLine, ReadLine, rc.pc = "prune", Prunable
    PROVE  /\ Pruned \in Records /\ Pruned.rev = store.rec.rev /\ Decided(Pruned)
           /\ count.faults = 0 => Heir(store.rec, Pruned)
<1>1. Pruned \in Records
  BY PrunedRecord DEF WakeInv
<1>2. store.rec \in Records
  BY DEF WakeInv, Shape
<1>3. Pruned.rev = store.rec.rev /\ Pruned.cur = rc.t /\ Pruned.res = Nothing
  BY <1>2 DEF Pruned, Records
<1>4. rc.t # Nothing =>
        \/ SameIdentity(store.rec.cur, rc.t)
        \/ SameIdentity(store.rec.res, rc.t)
  BY DEF Prunable, WorkUpdate
<1>5. Decided(store.rec)
  BY DEF StoreLine, StoredRecords
<1>6. Decided(Pruned)
  BY <1>3, <1>4, <1>5 DEF Decided, SameIdentity, ReadLine
<1>7. count.faults = 0 => Heir(store.rec, Pruned)
  BY DEF ReadLine, Heir
<1> QED BY <1>1, <1>3, <1>6, <1>7

LEMMA OnwardLineage ==
    ASSUME WakeInv, Lineage, Onward, StoreWrites, accepted' = accepted, OneFault'
    PROVE  Lineage'
<1>1. ReadLine'
  BY DEF Onward, ReadLine
<1>2. CASE store' = store
  BY <1>1, <1>2 DEF Lineage, StoreLine, WorkLine, StoredRecords, Onward
<1>3. CASE rc.pc \in {"charge", "commit"} /\ Updatable /\ Writes(Updated)
  <2>1. /\ Updated \in Records /\ Updated.rev = store.rec.rev /\ Decided(Updated)
        /\ Heir(store.rec, Updated)
        /\ Updated.cur # Nothing /\ Updated.res = store.rec.res
    BY <1>3, UpdatedLine DEF Lineage
  <2>2. StoreLine' /\ StoredRecords' \subseteq {store.rec, Updated}
    BY <1>3, <2>1, WrittenLine DEF Lineage
  <2>3. store.rec \in StoredRecords
    BY DEF StoredRecords
  <2>4. WorkLine'
    BY <2>1, <2>2, <2>3 DEF Lineage, WorkLine, Onward
  <2> QED BY <1>1, <2>2, <2>4 DEF Lineage
<1>4. CASE rc.pc = "prune" /\ Prunable /\ Writes(Pruned) /\ rc'.k = "none"
  <2>1. /\ Pruned \in Records /\ Pruned.rev = store.rec.rev /\ Decided(Pruned)
        /\ count.faults = 0 => Heir(store.rec, Pruned)
    BY <1>4, PrunedLine DEF Lineage
  <2>2. StoreLine'
    BY <1>4, <2>1, WrittenLine DEF Lineage
  <2>3. WorkLine'
    BY <1>4 DEF Lineage, WorkLine, Onward
  <2> QED BY <1>1, <2>2, <2>3 DEF Lineage
<1> QED BY <1>2, <1>3, <1>4 DEF StoreWrites

LEMMA ReadSlotsLineage ==
    ASSUME WakeInv, Lineage, ReadSlots
    PROVE  Lineage'
<1>1. store' = store /\ count' = count /\ accepted' = accepted /\ store.rec \in Records
  BY DEF ReadSlots, WakeInv, Shape
<1>2. StoreLine' /\ StoredRecords' = StoredRecords
  BY <1>1 DEF Lineage, StoreLine, StoredRecords
<1>3. CASE rc' = Asleep
  BY <1>2, <1>3 DEF Lineage, ReadLine, WorkLine, Asleep, At, SlotPcs
<1>4. CASE rc' = At("dispatch", store.rec, "none")
  <2>1. rc'.pc = "dispatch" /\ rc'.t = store.rec /\ rc'.k = "none"
    BY <1>4 DEF At
  <2>2. \A s \in StoredRecords : Heir(store.rec, s)
    BY DEF Lineage, StoreLine, StoredRecords, Heir, SameIdentity
  <2>3. Decided(store.rec) /\ store.rec.rev <= store.rec.rev
    BY <1>1 DEF Lineage, StoreLine, StoredRecords, Records
  <2>4. ReadLine'
    BY <1>1, <1>2, <2>1, <2>2, <2>3 DEF ReadLine
  <2>5. WorkLine'
    BY <2>1 DEF WorkLine, SlotPcs
  <2> QED BY <1>2, <2>4, <2>5 DEF Lineage
<1> QED BY <1>3, <1>4 DEF ReadSlots

\* While no decision is held, all that the store holds was accepted.
LEMMA UndecidedLine ==
    ASSUME WakeInv, Announced, Lineage, ~drv.deciding, NEW n \in 1 .. store.rec.rev
    PROVE  n \in accepted
<1>1. store.rec.rev \in Nat /\ store.rec.rev \in accepted
  BY UndecidedIsAnnounced DEF WakeInv, Shape, Records
<1>2. CASE n = store.rec.rev
  BY <1>1, <1>2
<1>3. CASE n # store.rec.rev
  <2>1. n \in 1 .. store.rec.rev - 1
    BY <1>1, <1>3
  <2> QED BY <2>1 DEF Lineage, StoreLine
<1> QED BY <1>2, <1>3

LEMMA DispatchLineage ==
    ASSUME WakeInv, Announced, Lineage, Dispatch
    PROVE  Lineage'
<1> DEFINE r == rc.t
<1>s. /\ drv \in Drivers /\ r \in Records /\ count.epochs \in Nat /\ rc.pc = "dispatch"
      /\ UNCHANGED <<store, accepted, count>>
  BY DEF Dispatch, WakeInv, Shape, RcShape, AtShape, UntypedPcs, AttemptPcs
<1>r. /\ Decided(r) /\ r.rev <= store.rec.rev /\ \A s \in StoredRecords : Heir(r, s)
      /\ count.faults = 0 /\ r.cur # Nothing => store.rec.cur = r.cur
  BY <1>s DEF Lineage, ReadLine
<1>0. StoreLine' /\ StoredRecords' = StoredRecords
  BY <1>s DEF Lineage, StoreLine, StoredRecords
<1> HIDE DEF r
<1>z. ASSUME rc'.pc \notin SlotPcs \cup {"dispatch", "prune"}, rc'.k # "canceled"
      PROVE  Lineage'
  BY <1>z, <1>0 DEF Lineage, ReadLine, WorkLine, SlotPcs
<1>a. ASSUME rc' = Asleep
      PROVE  Lineage'
  BY <1>a, <1>z DEF Asleep, At, SlotPcs
<1>1. CASE Held /\ Skip(drv)
  BY <1>1, <1>a DEF Skip
<1>2. CASE WithoutWork(r)
  <2>1. CASE rc' = At("u_install", Nothing, "none")
    BY <2>1, <1>z DEF At, SlotPcs
  <2> QED BY <1>2, <2>1, <1>a DEF WithoutWork, Skip
<1>3. CASE ~Held /\ r.cur # Nothing /\ \E now \in Clocks(r.cur.due) : WithWork(r, r.cur, now)
  <2> DEFINE t == r.cur
  <2>0. t \in Slots /\ r.res \in Slots \cup {Nothing} /\ t # Nothing
    BY <1>3, <1>s DEF Records
  <2>9. PICK now : WithWork(r, t, now)
    BY <1>3
  <2>8. ~drv.deciding
    BY <1>3 DEF Held
  <2>7. store.rec.rev \in Nat /\ r.rev \in Nat
    BY <1>s DEF WakeInv, Shape, Records
  <2>t. t.rev \in accepted
    <3>1. t.rev \in 1 .. store.rec.rev
      BY <1>r, <2>0, <2>7 DEF Decided
    <3> QED BY <2>8, <3>1, UndecidedLine
  <2>s. r.res # Nothing => r.res.rev \in accepted
    <3>1. r.res # Nothing => r.res.rev \in 1 .. store.rec.rev
      BY <1>r, <2>7 DEF Decided
    <3> QED BY <2>8, <3>1, UndecidedLine
  <2>d. count.faults = 0 => store.rec.cur = t
    BY <1>r, <2>0
  <2>c. t.kind = "CANCEL" => r.res # Nothing
    BY <1>r, <2>0 DEF Decided
  <2> HIDE DEF t
  <2>l. ASSUME Leads(drv, t),
               rc'.k = "canceled" => t.phase # "CLEANUP" /\ (t.kind = "CANCEL" \/ r.res # Nothing)
        PROVE  Lineage'
    <3>1. rc'.pc \notin {"dispatch", "finish", "prune"} /\ (rc'.pc \in SlotPcs => rc'.t.rev = t.rev)
      BY <2>l DEF Leads
    <3>2. ReadLine'
      BY <3>1 DEF ReadLine
    <3>3. ASSUME rc'.k = "canceled", NEW s \in StoredRecords
          PROVE  s.cur # Nothing /\ s.res # Nothing /\ s.res.rev \in accepted
      <4>1. r.res # Nothing /\ ~Terminal(t)
        BY <2>l, <3>3, <2>c DEF Terminal
      <4>2. Heir(r, s)
        BY <1>r
      <4> QED BY <4>1, <4>2, <2>0, <2>s DEF Heir, SameIdentity, t
    <3>4. WorkLine'
      BY <1>0, <1>s, <2>t, <3>1, <3>3 DEF WorkLine
    <3> QED BY <1>0, <3>2, <3>4 DEF Lineage
  <2>1. CASE Terminal(t) /\ rc' = At("finish", t, "none")
    <3>1. rc'.pc = "finish" /\ rc'.t = t /\ rc'.k = "none"
      BY <2>1 DEF At
    <3>2. ReadLine'
      BY <2>1, <2>d, <3>1, <1>s DEF ReadLine
    <3>3. WorkLine'
      BY <2>t, <3>1, <1>s DEF WorkLine
    <3> QED BY <1>0, <3>2, <3>3 DEF Lineage
  <2>2. CASE Terminal(t) /\ rc' = At("prune", r.res, "none")
    <3>1. rc'.pc = "prune" /\ rc'.t = r.res /\ rc'.k = "none"
      BY <2>2 DEF At
    <3>2. r.res # Nothing => r.res.kind # "CANCEL"
      BY <1>r DEF Decided
    <3>3. ReadLine'
      BY <2>0, <2>2, <2>d, <3>1, <3>2, <1>s DEF ReadLine
    <3>4. WorkLine'
      BY <3>1, <1>s DEF WorkLine, SlotPcs
    <3> QED BY <1>0, <3>3, <3>4 DEF Lineage
  <2>3. CASE Exhaust(drv, t, TRUE)
    BY <2>3, <2>0, <1>s, ExhaustLeads, ExhaustContinues, <2>l
  <2>4. CASE Skip(drv)
    BY <2>4, <1>a DEF Skip
  <2>5. CASE AfterCleanup(drv, t, now)
    BY <2>5, <2>0, <1>s, CleanupLeads, CleanupContinues, <2>l
  <2>6. CASE Progress(r, t, now)
    <3>1. Leads(drv, t)
      BY <2>6, <2>0, <1>s, ProgressLeads
    <3>2. rc'.k = "canceled" => t.phase # "CLEANUP" /\ (t.kind = "CANCEL" \/ r.res # Nothing)
      BY <2>6, ProgressContinues
    <3> QED BY <2>l, <3>1, <3>2
  <2> QED BY <2>1, <2>2, <2>3, <2>4, <2>5, <2>6, <2>9 DEF WithWork
<1> QED BY <1>1, <1>2, <1>3 DEF Dispatch, r

LEMMA FinishLineage ==
    ASSUME WakeInv, Lineage, Finish
    PROVE  Lineage'
<1>s. UNCHANGED <<store, accepted, count>> /\ rc.pc = "finish"
  BY DEF Finish
<1>0. StoreLine' /\ StoredRecords' = StoredRecords
  BY <1>s DEF Lineage, StoreLine, StoredRecords
<1>1. CASE rc' = Asleep
  BY <1>0, <1>1 DEF Lineage, ReadLine, WorkLine, Asleep, At, SlotPcs
<1>2. CASE SameIdentity(store.rec.cur, rc.t) /\ rc' = At("prune", store.rec.res, "none")
  <2>1. rc'.pc = "prune" /\ rc'.t = store.rec.res /\ rc'.k = "none"
    BY <1>2 DEF At
  <2>2. store.rec.res # Nothing => store.rec.res.kind # "CANCEL"
    BY DEF Lineage, StoreLine, StoredRecords, Decided
  <2>3. count.faults = 0 => store.rec.cur # Nothing /\ Terminal(store.rec.cur)
    BY <1>s, <1>2 DEF Lineage, ReadLine, SameIdentity
  <2>4. ReadLine'
    BY <1>s, <2>1, <2>2, <2>3 DEF ReadLine
  <2>5. WorkLine'
    BY <2>1 DEF WorkLine, SlotPcs
  <2> QED BY <1>0, <2>4, <2>5 DEF Lineage
<1> QED BY <1>1, <1>2 DEF Finish

LEMMA ReconcilerLineage ==
    ASSUME WakeInv, Announced, Lineage, Reconciler, OneFault'
    PROVE  Lineage'
<1>1. CASE ReadSlots \/ Dispatch \/ Finish
  BY <1>1, ReadSlotsLineage, DispatchLineage, FinishLineage
<1>2. CASE ~ReadSlots /\ ~Dispatch /\ ~Finish
  <2>0. Shape
    BY DEF WakeInv
  <2>1. Onward
    BY <1>2, <2>0, IdleOnward, CleanupOnward, AttemptOnward, UntypedOnward DEF Reconciler, Pass, Wakes
  <2>2. StoreWrites
    BY <1>2, <2>0, <2>1, ReconcilerWrites
  <2>3. accepted' = accepted
    BY <1>2, <2>0, ReconcilerMoves DEF Moves
  <2> QED BY <2>1, <2>2, <2>3, OnwardLineage
<1> QED BY <1>1, <1>2

\* Time passes for the reconciler: what may be read shrinks, after a fault, to
\* one of the records it may be.
LEMMA SettledLineage ==
    ASSUME WakeInv, Faults, Announced, Lineage, rc' = rc,
           accepted \subseteq accepted', count' = count,
           \/ store' = store
           \/ /\ store.status = "ambiguous" /\ store'.status # "ambiguous"
              /\ store'.rec \in {store.rec, store.staged}
    PROVE  Lineage'
<1>1. CASE store' = store
  BY <1>1 DEF Lineage, StoreLine, ReadLine, WorkLine, StoredRecords
<1>2. CASE /\ store.status = "ambiguous" /\ store'.status # "ambiguous"
           /\ store'.rec \in {store.rec, store.staged}
  <2>1. StoredRecords' = {store'.rec} /\ store'.rec \in StoredRecords
    BY <1>2 DEF StoredRecords
  <2>2. store.rec.rev \in Nat /\ store.staged.rev \in Nat
    BY <1>2 DEF WakeInv, Shape, Records
  <2>3. count.faults # 0
    BY <1>2 DEF Faults, Open
  <2>4. store'.rec.rev >= store.rec.rev /\ 1 .. store'.rec.rev - 1 \subseteq accepted
    <3>1. CASE store'.rec.rev = store.rec.rev
      BY <3>1, <2>2 DEF Lineage, StoreLine
    <3>2. CASE store'.rec.rev = store.rec.rev + 1
      <4>1. store.staged.rev # store.rec.rev
        BY <1>2, <2>2, <3>2
      <4>2. store.rec.rev \in accepted
        BY <1>2, <4>1 DEF Announced
      <4>3. \A n \in 1 .. store.rec.rev : n = store.rec.rev \/ n \in 1 .. store.rec.rev - 1
        BY <2>2
      <4>4. store'.rec.rev - 1 = store.rec.rev
        BY <2>2, <3>2
      <4> QED BY <2>2, <3>2, <4>2, <4>3, <4>4 DEF Lineage, StoreLine
    <3> QED BY <1>2, <3>1, <3>2 DEF Lineage, StoreLine
  <2>5. StoreLine'
    BY <1>2, <2>1, <2>4 DEF Lineage, StoreLine
  <2>6. ReadLine'
    <3>1. rc.pc = "dispatch" => rc.t.rev \in Nat
      BY DEF WakeInv, Shape, RcShape, AtShape, UntypedPcs, AttemptPcs, Records
    <3>2. store'.rec.rev \in Nat
      BY <1>2, <2>2
    <3>3. rc.pc = "dispatch" => rc.t.rev <= store'.rec.rev
      BY <2>2, <2>4, <3>1, <3>2 DEF Lineage, ReadLine
    <3> QED BY <2>1, <2>3, <3>3 DEF Lineage, ReadLine
  <2>7. WorkLine'
    BY <2>1 DEF Lineage, WorkLine
  <2> QED BY <2>5, <2>6, <2>7 DEF Lineage
<1> QED BY <1>1, <1>2

LEMMA ServiceLineage ==
    ASSUME WakeInv, Faults, Announced, Lineage,
           Requester \/ Resolver \/ Settling \/ PeerReadsBack \/ PeerSettles
    PROVE  Lineage'
<1>1. rc' = rc /\ count' = count
  BY DEF Requester, PublishAccepted, ReleaseDecision, HoldAmbiguous, CheckAdmission, ArmReadback,
     Resolver, ReadbackTry, ReadbackResolved, ReadbackDisarms, Settling, PublishAdopted,
     ReleaseAmbiguous, PeerReadsBack, PeerSettles
<1>2. accepted \subseteq accepted'
  BY DEF Requester, PublishAccepted, ReleaseDecision, HoldAmbiguous, CheckAdmission, ArmReadback,
     Resolver, ReadbackTry, ReadbackResolved, ReadbackDisarms, Settling, PublishAdopted,
     ReleaseAmbiguous, PeerReadsBack, PeerSettles
<1>r. ASSUME Reread
      PROVE  /\ store.status = "ambiguous" /\ store'.status # "ambiguous"
             /\ store'.rec \in {store.rec, store.staged}
  BY <1>r DEF Reread
<1>3. CASE ReadbackTry \/ PeerReadsBack
  <2>1. CASE /\ store.status = "ambiguous"
             /\ store' = [store EXCEPT !.staged = Nothing, !.status = "failed"]
    <3>1. store'.status = "failed" /\ store'.rec = store.rec
      BY <2>1 DEF WakeInv, Shape
    <3> QED BY <1>1, <1>2, <2>1, <3>1, SettledLineage
  <2> QED BY <1>1, <1>2, <1>3, <1>r, <2>1, SettledLineage DEF ReadbackTry, PeerReadsBack
<1>4. CASE ~ReadbackTry /\ ~PeerReadsBack
  <2>1. store' = store
    BY <1>4 DEF Requester, PublishAccepted, ReleaseDecision, HoldAmbiguous, CheckAdmission, ArmReadback,
       Resolver, ReadbackResolved, ReadbackDisarms, Settling, PublishAdopted, ReleaseAmbiguous, PeerSettles
  <2> QED BY <1>1, <1>2, <2>1, SettledLineage
<1> QED BY <1>3, <1>4

LEMMA CrashLineage ==
    ASSUME WakeInv, Announced, Lineage, Crash
    PROVE  Lineage'
<1>1. PICK rec \in StoredRecords :
        /\ store' = [rec |-> rec, staged |-> Nothing, status |-> "open"]
        /\ accepted' = accepted \cup {rec.rev}
  BY DEF Crash, StoredRecords, Open, WakeInv, Shape
<1>2. StoredRecords' = {rec} /\ store'.rec = rec /\ store'.status = "open"
  BY <1>1 DEF StoredRecords
<1>3. rc'.pc = "idle" /\ rc'.k = "none"
  BY DEF Crash, Asleep, At
<1>4. store.rec.rev \in Nat /\ rec.rev \in Nat
  BY <1>1 DEF WakeInv, Shape, Records, StoredRecords
<1>5. 1 .. rec.rev - 1 \subseteq accepted'
  <2>1. CASE rec.rev = store.rec.rev
    BY <1>1, <2>1 DEF Lineage, StoreLine
  <2>2. CASE rec.rev # store.rec.rev
    <3>1. store.status = "ambiguous" /\ rec = store.staged
      BY <1>1, <2>2 DEF StoredRecords
    <3>2. rec.rev - 1 = store.rec.rev
      BY <1>4, <2>2, <3>1 DEF Lineage, StoreLine
    <3>3. store.rec.rev \in accepted
      BY <2>2, <3>1 DEF Announced
    <3>4. \A n \in 1 .. store.rec.rev : n = store.rec.rev \/ n \in 1 .. store.rec.rev - 1
      BY <1>4
    <3> QED BY <1>1, <3>2, <3>3, <3>4 DEF Lineage, StoreLine
  <2> QED BY <2>1, <2>2
<1>6. Decided(rec)
  BY DEF Lineage, StoreLine
<1> QED BY <1>2, <1>3, <1>5, <1>6 DEF Lineage, StoreLine, ReadLine, WorkLine, SlotPcs

\* What a plan puts in force was decided by it, ahead of its own slot only a
\* cancellation; nothing that is stored goes.
LEMMA PlannedLine ==
    ASSUME WakeInv, StoreLine, NEW method \in Methods, Decidable(method)
    PROVE  LET r == store.rec
               p == Planned(method)
           IN  /\ p \in Records /\ p.rev = r.rev + 1 /\ Decided(p)
               /\ r.cur # Nothing => p.cur = r.cur /\ r.res = Nothing
<1> DEFINE r == store.rec
           p == Planned(method)
           rev == r.rev + 1
           first == IF Cancels(method) THEN r.seq + 2 ELSE r.seq + 1
           next == Transition(method, first, rev)
           can == Cancellation(drv.untyped, r.seq + 1, rev)
<1>1. /\ p \in Records /\ p.rev = rev
      /\ p.cur = r.cur \/ (r.cur = Nothing /\ p.cur.rev = rev)
      /\ p.res # Nothing => p.res.rev = rev
  BY PlannedRecord DEF WakeInv
<1>2. /\ p.cur = IF Cancels(method) THEN can ELSE IF r.cur = Nothing THEN next ELSE r.cur
      /\ p.res = IF Cancels(method) \/ r.cur # Nothing THEN next ELSE Nothing
  BY DEF Planned
<1>3. next.kind = method /\ method # "CANCEL"
  BY DEF Transition, Methods
<1>4. r.rev \in Nat /\ Decided(r)
  BY DEF WakeInv, Shape, Records, StoreLine, StoredRecords
<1>5. Cancels(method) => r.cur = Nothing
  BY DEF Cancels
<1>6. r.cur # Nothing => r.res = Nothing
  BY DEF Decidable
<1>n. next # Nothing
  <2>1. next \in Slots
    <3>1. r.seq \in Nat
      BY DEF WakeInv, Shape, Records
    <3>2. first \in Nat /\ rev \in Nat
      BY <1>4, <3>1
    <3> HIDE DEF first, rev
    <3> QED BY <3>2, TransitionSlot DEF Methods, Kinds
  <2> QED BY <2>1, NothingIsNoSlot
<1> HIDE DEF r, p, next, can, first
<1>7. r.cur # Nothing => p.cur = r.cur
  BY <1>2, <1>5
<1>8. p.cur # Nothing /\ p.cur.kind = "CANCEL" => p.res # Nothing
  BY <1>2, <1>3, <1>n
<1>9. p.res # Nothing => p.res.kind # "CANCEL"
  BY <1>2, <1>3
<1>10. p.cur # Nothing => p.cur.rev \in 1 .. rev
  BY <1>1, <1>4 DEF Decided
<1>11. Decided(p)
  BY <1>1, <1>4, <1>8, <1>9, <1>10 DEF Decided
<1> QED BY <1>1, <1>6, <1>7, <1>11 DEF r, p

LEMMA DecideLineage ==
    ASSUME WakeInv, Announced, Lineage, NEW method \in Methods, Decide(method)
    PROVE  Lineage'
<1> DEFINE r == store.rec
           p == Planned(method)
<1>s. /\ store \in [rec : Records, staged : Records \cup {Nothing},
                    status : {"open", "ambiguous", "failed"}]
      /\ count \in [epochs : Nat, boots : Nat, faults : Nat] /\ r.rev \in Nat
  BY DEF WakeInv, Shape, Records
<1>0. Decidable(method) /\ Open /\ ~drv.deciding /\ rc' = rc /\ accepted' = accepted
  BY DEF Decide, Decidable
<1>1. /\ p \in Records /\ p.rev = r.rev + 1 /\ Decided(p)
      /\ r.cur # Nothing => p.cur = r.cur /\ r.res = Nothing
  BY <1>0, PlannedLine DEF Lineage
<1>2. StoredRecords = {r} /\ r \in StoredRecords
  BY <1>0 DEF StoredRecords, Open
<1>3. 1 .. r.rev \subseteq accepted
  BY <1>0, UndecidedLine
<1>4. rc.k # "canceled"
  BY <1>1, <1>2 DEF Lineage, WorkLine
<1>5. \A s : Heir(s, r) => Heir(s, p)
  BY <1>1 DEF Heir, SameIdentity
<1>h. Heir(r, p)
  BY <1>1 DEF Heir, SameIdentity
<1>n. rc.pc = "finish" => rc.t # Nothing
  BY NothingIsNoSlot DEF WakeInv, Shape, RcShape, AtShape, UntypedPcs, AttemptPcs
<1>k. rc.pc = "dispatch" => rc.t.rev \in Nat
  BY DEF WakeInv, Shape, RcShape, AtShape, UntypedPcs, AttemptPcs, Records
<1>w. WorkLine'
  BY <1>0, <1>4 DEF Lineage, WorkLine
<1> HIDE DEF p
<1>6. CASE Committed(p) /\ count' = count
  <2>1. store'.rec = p /\ store'.status = "open"
    BY <1>6, <1>s, <1>0 DEF Committed, Open
  <2>2. StoredRecords' = {p}
    BY <2>1 DEF StoredRecords
  <2>3. 1 .. store'.rec.rev - 1 \subseteq accepted
    <3>1. p.rev - 1 = r.rev
      BY <1>1, <1>s
    <3> QED BY <1>3, <2>1, <3>1
  <2>4. StoreLine'
    BY <1>0, <1>1, <2>1, <2>2, <2>3 DEF StoreLine
  <2>5. ReadLine'
    <3>1. rc.pc = "dispatch" => rc.t.rev <= p.rev
      BY <1>1, <1>s, <1>k DEF Lineage, ReadLine
    <3>2. rc.pc = "dispatch" => Heir(rc.t, p)
      BY <1>2, <1>5 DEF Lineage, ReadLine
    <3>3. ASSUME count.faults = 0, store.rec.cur # Nothing
          PROVE  p.cur = store.rec.cur
      BY <3>3, <1>1
    <3> QED BY <1>0, <1>6, <1>n, <2>1, <2>2, <3>1, <3>2, <3>3 DEF Lineage, ReadLine
  <2> QED BY <1>w, <2>4, <2>5 DEF Lineage
<1>7. CASE (Staged(p) \/ store' = store) /\ Faulty
  <2>1. count'.faults # 0
    BY <1>7, <1>s DEF Faulty
  <2>2. /\ store'.rec = r /\ StoredRecords' \subseteq {r, p} /\ r \in StoredRecords'
        /\ store'.status = "ambiguous" => store'.staged = p
    BY <1>7, <1>s, <1>0 DEF Staged, StoredRecords, Open
  <2>3. StoreLine'
    BY <1>0, <1>1, <1>2, <1>h, <2>2 DEF Lineage, StoreLine
  <2>4. ReadLine'
    <3>1. rc.pc = "dispatch" => \A s \in {r, p} : Heir(rc.t, s)
      BY <1>2, <1>5 DEF Lineage, ReadLine
    <3> QED BY <1>0, <2>1, <2>2, <3>1 DEF Lineage, ReadLine
  <2> QED BY <1>w, <2>3, <2>4 DEF Lineage
<1> QED BY <1>6, <1>7 DEF Decide, p

LEMMA InitLineage == Init => Lineage
<1> SUFFICES ASSUME Init PROVE Lineage
  OBVIOUS
<1>1. /\ store.rec \in FirstRecords /\ store.status = "open"
      /\ rc.pc = "idle" /\ rc.k = "none" /\ accepted = {1}
  BY DEF Init, Asleep, At
<1>2. StoredRecords = {store.rec}
  BY <1>1 DEF StoredRecords
<1>3. Decided(store.rec) /\ store.rec.rev = 1
  BY <1>1 DEF FirstRecords, Workless, Transition, Decided
<1>4. 1 .. store.rec.rev - 1 \subseteq accepted
  BY <1>3
<1> QED BY <1>1, <1>2, <1>3, <1>4 DEF Lineage, StoreLine, ReadLine, WorkLine, SlotPcs

LEMMA NextLineage ==
    ASSUME WakeInv, Faults, Announced, Lineage, [Next]_vars, OneFault'
    PROVE  Lineage'
<1>1. CASE vars' = vars
  <2>1. rc' = rc /\ accepted' = accepted /\ count' = count /\ store' = store
    BY <1>1 DEF vars
  <2> QED BY <2>1, SettledLineage
<1>2. CASE Next
  <2>1. CASE Reconciler
    BY <2>1, ReconcilerLineage
  <2>2. CASE \E method \in Methods : Decide(method)
    BY <2>2, DecideLineage
  <2>3. CASE Requester \/ Resolver \/ Settling \/ PeerReadsBack \/ PeerSettles
    BY <2>3, ServiceLineage
  <2>4. CASE Crash
    BY <2>4, CrashLineage
  <2> QED BY <1>2, <2>1, <2>2, <2>3, <2>4 DEF Next
<1> QED BY <1>1, <1>2

LineageInv == WakeInv /\ (OneFault => Faults /\ Announced /\ Lineage)

\* Whatever writes fail and in whichever process, as long as no second one has
\* the reconciler calls the executor only for a slot whose decision was
\* announced, and cancels a start only for a successor whose decision was.  It
\* may read a slot before it is announced, but looks at the hold afterwards;
\* from then on nobody takes the slots it has in hand out of the store.
THEOREM ControlActsOnAccepted == Spec => []ActsOnAccepted
<1>1. Init => LineageInv
  BY InitWakeInv, InitAnnounced, InitLineage DEF LineageInv
<1>2. LineageInv /\ [Next]_vars => LineageInv'
  <2> SUFFICES ASSUME LineageInv, [Next]_vars PROVE LineageInv'
    OBVIOUS
  <2>1. WakeInv' /\ WakeInv
    BY NextWakeInv DEF LineageInv
  <2>2. ASSUME OneFault' PROVE Faults' /\ Announced' /\ Lineage'
    <3>1. Faults /\ Announced /\ Lineage
      BY <2>1, <2>2, OneFaultBefore DEF LineageInv
    <3> QED BY <2>1, <2>2, <3>1, NextAnnounced, NextLineage
  <2> QED BY <2>1, <2>2 DEF LineageInv
<1>3. LineageInv => ActsOnAccepted
  BY DEF LineageInv, Lineage, WorkLine, StoredRecords, ActsOnAccepted, SlotPcs
<1> QED BY <1>1, <1>2, <1>3, PTL DEF Spec

-----------------------------------------------------------------------------
(* Types                                                                     *)

\* Decisions are shut out as before.
Unmarked(d) == drv'.pruning = d.pruning

LEMMA SettleUnmarked ==
    ASSUME NEW d \in Drivers, NEW t, NEW k, SettleObligations(d, t, k)
    PROVE  Unmarked(d)
BY DEF SettleObligations, Unmarked, Drivers

LEMMA ReleasedUnmarked ==
    ASSUME NEW d \in Drivers, NEW t \in Slots
    PROVE  LiveReleased(d, t) \in Drivers /\ LiveReleased(d, t).pruning = d.pruning
BY LiveReleasedCarries DEF LiveReleased, Drivers, Carried, Kept

LEMMA RetryUnmarked ==
    ASSUME NEW d \in Drivers, NEW t, NEW now, SemanticRetry(d, t, now)
    PROVE  Unmarked(d)
BY DEF SemanticRetry, Unmarked, Drivers

LEMMA CleanupUnmarked ==
    ASSUME NEW d \in Drivers, NEW t \in Slots, NEW now, AfterCleanup(d, t, now)
    PROVE  Unmarked(d)
<1> DEFINE e == LiveReleased(d, t)
<1>1. e \in Drivers /\ e.pruning = d.pruning
  BY ReleasedUnmarked
<1>2. CASE drv' = [d EXCEPT !.quarantined = TRUE]
  BY <1>2 DEF Unmarked, Drivers
<1>3. CASE SemanticRetry(e, t, now)
  BY <1>1, <1>3, RetryUnmarked DEF Unmarked
<1>4. CASE drv' = [e EXCEPT !.retries = 0]
  <2> HIDE DEF e
  <2> QED BY <1>1, <1>4 DEF Unmarked, Drivers
<1> QED BY <1>2, <1>3, <1>4 DEF AfterCleanup

LEMMA ExhaustUnmarked ==
    ASSUME NEW d \in Drivers, NEW t, NEW u \in BOOLEAN, Exhaust(d, t, u)
    PROVE  Unmarked(d)
<1> DEFINE e == [d EXCEPT !.quarantined = @ \/ u]
<1>1. e \in Drivers /\ e.pruning = d.pruning
  BY DEF Drivers
<1> HIDE DEF e
<1>2. SettleObligations(e, t, "exhausted")
  BY DEF Exhaust, e
<1> QED BY <1>1, <1>2, SettleUnmarked DEF Unmarked

LEMMA StartUnmarked ==
    ASSUME NEW d \in Drivers, NEW t, NEW now, StepStart(d, t, now) \/ Replace(d, t, now)
    PROVE  Unmarked(d)
<1>1. CASE drv' = d
  BY <1>1 DEF Unmarked
<1>2. CASE SettleObligations(d, t, "replaced")
  BY <1>2, SettleUnmarked
<1>3. CASE Replace(d, t, now)
  BY <1>1, <1>3 DEF Replace, Assign
<1> QED BY <1>1, <1>2, <1>3 DEF StepStart

LEMMA StopUnmarked ==
    ASSUME NEW d \in Drivers, NEW t, StepStop(d, t)
    PROVE  Unmarked(d)
<1>1. CASE drv' = d
  BY <1>1 DEF Unmarked
<1> QED BY <1>1, SettleUnmarked DEF StepStop

LEMMA ProgressUnmarked ==
    ASSUME drv \in Drivers, NEW r, NEW t, NEW now, Progress(r, t, now)
    PROVE  Unmarked(drv)
<1>1. CASE StepStop(drv, t)
  BY <1>1, StopUnmarked
<1>2. CASE SettleObligations(drv, t, "cleaned")
  BY <1>2, SettleUnmarked
<1>3. CASE StepCancel(drv, t)
  <2> DEFINE e == [drv EXCEPT !.untyped = Nothing, !.inflight = Nothing]
  <2>1. e \in Drivers /\ e.pruning = drv.pruning
    BY DEF Drivers
  <2> HIDE DEF e
  <2>2. SettleObligations(e, t, "canceled")
    BY <1>3 DEF StepCancel, e
  <2> QED BY <2>1, <2>2, SettleUnmarked DEF Unmarked
<1>4. CASE StepStart(drv, t, now)
  BY <1>4, StartUnmarked
<1>5. CASE StepRestart(drv, t, now)
  BY <1>4, <1>5 DEF StepRestart, Unmarked
<1> QED BY <1>1, <1>2, <1>3, <1>4, <1>5 DEF Progress

LEMMA DispatchUnmarked ==
    ASSUME Shape, Dispatch
    PROVE  Unmarked(drv)
<1>0. drv \in Drivers
  BY DEF Shape
<1>1. CASE drv' = drv
  BY <1>1 DEF Unmarked
<1>2. ASSUME WithoutWork(rc.t) PROVE Unmarked(drv)
  BY <1>0, <1>1, <1>2 DEF WithoutWork, Skip, Unmarked, Drivers
<1>3. ASSUME NEW now, rc.t.cur \in Slots, WithWork(rc.t, rc.t.cur, now) PROVE Unmarked(drv)
  <2>1. CASE Exhaust(drv, rc.t.cur, TRUE)
    BY <1>0, <2>1, ExhaustUnmarked
  <2>2. CASE AfterCleanup(drv, rc.t.cur, now)
    BY <1>0, <1>3, <2>2, CleanupUnmarked
  <2>3. CASE Progress(rc.t, rc.t.cur, now)
    BY <1>0, <2>3, ProgressUnmarked
  <2> QED BY <1>1, <1>3, <2>1, <2>2, <2>3 DEF WithWork, Skip
<1>4. rc.t.cur # Nothing => rc.t.cur \in Slots
  BY DEF Dispatch, Shape, RcShape, AtShape, UntypedPcs, AttemptPcs, Records
<1> QED BY <1>1, <1>2, <1>3, <1>4 DEF Dispatch, Skip

LEMMA SettledCommitUnmarked ==
    ASSUME Shape, SettledCommit
    PROVE  Unmarked(drv)
<1>0. drv \in Drivers /\ rc.t \in Slots
  BY SettledCommitLeads, CommitShape
<1>1. CASE CleanupCommitted
  BY <1>0, <1>1, CleanupUnmarked DEF CleanupCommitted
<1>2. CASE StopCommitted
  <2> DEFINE d == [drv EXCEPT !.auto = @ \/ ~Owing(rc.t)]
  <2>1. d \in Drivers /\ d.pruning = drv.pruning
    BY <1>0 DEF Drivers
  <2>2. \E now : AfterCleanup(d, rc.t, now)
    BY <1>2 DEF StopCommitted
  <2> HIDE DEF d
  <2> QED BY <1>0, <2>1, <2>2, CleanupUnmarked DEF Unmarked
<1>3. CASE ExhaustCommitted
  <2> DEFINE d == [drv EXCEPT !.auto = TRUE, !.inflight = IF Mine(drv, rc.t) THEN Nothing ELSE @]
  <2>1. d \in Drivers /\ d.pruning = drv.pruning
    BY <1>0 DEF Drivers
  <2>2. \E now : AfterCleanup(d, rc.t, now)
    BY <1>3 DEF ExhaustCommitted
  <2> HIDE DEF d
  <2> QED BY <1>0, <2>1, <2>2, CleanupUnmarked DEF Unmarked
<1>4. CASE BegunCommitted
  <2>1. CASE drv' = [drv EXCEPT !.auto = TRUE]
    BY <1>0, <2>1 DEF Unmarked, Drivers
  <2>2. CASE SettleObligations(drv, rc.t, "stopped")
    BY <1>0, <2>2, SettleUnmarked
  <2>3. CASE \E now : StepStart(drv, rc.t, now)
    BY <1>0, <2>3, StartUnmarked
  <2> QED BY <1>4, <2>1, <2>2, <2>3 DEF BegunCommitted
<1>5. CASE ReplacedCommitted
  <2> DEFINE e == LiveReleased(drv, rc.t)
             f == [e EXCEPT !.retries = 0]
  <2>1. e \in Drivers /\ e.pruning = drv.pruning
    BY <1>0, ReleasedUnmarked
  <2>2. f \in Drivers /\ f.pruning = drv.pruning
    <3> HIDE DEF e
    <3> QED BY <2>1 DEF Drivers
  <2>3. CASE Skip([drv EXCEPT !.quarantined = TRUE])
    BY <1>0, <2>3 DEF Skip, Unmarked, Drivers
  <2>4. CASE \E now : SemanticRetry(e, rc.t, now)
    BY <2>1, <2>4, RetryUnmarked DEF Unmarked
  <2>5. CASE \E now : Replace(f, rc.t, now)
    <3> HIDE DEF f
    <3> QED BY <2>2, <2>5, StartUnmarked DEF Unmarked
  <2> QED BY <1>5, <2>3, <2>4, <2>5 DEF ReplacedCommitted
<1>6. CASE EndCommitted
  <2> DEFINE e == LiveReleased(drv, rc.t)
  <2>1. e \in Drivers /\ e.pruning = drv.pruning
    BY <1>0, ReleasedUnmarked
  <2>2. drv' = [e EXCEPT !.auto = TRUE]
    BY <1>6 DEF EndCommitted
  <2> HIDE DEF e
  <2> QED BY <2>1, <2>2 DEF Unmarked, Drivers
<1>7. CASE StartCompleted
  BY <1>0, <1>7 DEF StartCompleted, Unmarked, Drivers
<1> QED BY <1>1, <1>2, <1>3, <1>4, <1>5, <1>6, <1>7 DEF SettledCommit

LEMMA AttemptUnmarked ==
    ASSUME Shape, TypedAttempt
    PROVE  Unmarked(drv)
<1>0. drv \in Drivers
  BY DEF Shape
<1>1. CASE drv' = drv
  BY <1>1 DEF Unmarked
<1>2. CASE Exhaust(drv, rc.t, TRUE) \/ Exhaust(drv, rc.t, FALSE)
  BY <1>0, <1>2, ExhaustUnmarked
<1>3. CASE AttemptHead
  <2>1. CASE drv' = [drv EXCEPT !.inflight.chargedTo = rc.t.used + 1]
    BY <1>0, <2>1 DEF Unmarked, Drivers
  <2> QED BY <1>1, <1>2, <1>3, <2>1 DEF AttemptHead
<1>4. CASE StartCharged \/ GenerationCommitted \/ StartReturns \/ Backoff
  BY <1>0, <1>4 DEF StartCharged, GenerationCommitted, StartReturns, Backoff, Unmarked, Drivers
<1>5. CASE JudgeStart
  BY <1>1, <1>2, <1>5 DEF JudgeStart
<1>6. CASE AdmitStart
  <2>1. CASE drv' = [drv EXCEPT !.inflight.admitted = TRUE, !.auto = TRUE, !.live = Corr(rc.t)]
    BY <1>0, <2>1 DEF Unmarked, Drivers
  <2> QED BY <1>1, <1>2, <1>6, <2>1 DEF AdmitStart
<1>7. CASE StartCompleted
  BY <1>7, SettledCommitUnmarked DEF SettledCommit
<1> QED BY <1>3, <1>4, <1>5, <1>6, <1>7 DEF TypedAttempt

LEMMA UntypedUnmarked ==
    ASSUME Shape, UntypedAttempt
    PROVE  Unmarked(drv)
<1>0. drv \in Drivers
  BY DEF Shape
<1>1. CASE drv' = drv
  BY <1>1 DEF Unmarked
<1>2. CASE InstallUntyped \/ CheckUntyped \/ BackoffUntyped
  BY <1>0, <1>2 DEF InstallUntyped, CheckUntyped, BackoffUntyped, Unmarked, Drivers
<1>3. CASE UntypedHead
  <2>1. CASE drv' = [drv EXCEPT !.untyped.used = @ + 1]
    BY <1>0, <2>1 DEF Unmarked, Drivers
  <2> QED BY <1>1, <1>3, <2>1 DEF UntypedHead
<1>4. CASE UntypedReturns \/ JudgeUntyped \/ WithdrawUntyped
  BY <1>1, <1>4 DEF UntypedReturns, JudgeUntyped, WithdrawUntyped
<1>5. CASE AdmitUntyped
  <2>1. CASE drv' = [UntypedEnded(drv) EXCEPT !.live = drv.untyped.corr]
    BY <1>0, <2>1 DEF UntypedEnded, Unmarked, Drivers
  <2> QED BY <1>1, <1>5, <2>1 DEF AdmitUntyped
<1>6. CASE FinishUntyped
  BY <1>0, <1>6 DEF FinishUntyped, UntypedEnded, Unmarked, Drivers
<1> QED BY <1>2, <1>3, <1>4, <1>5, <1>6 DEF UntypedAttempt

LEMMA ReconcilerUnmarked ==
    ASSUME Shape, Reconciler, ~Finish, ~Prune, ~PruneFails
    PROVE  Unmarked(drv)
<1>0. drv \in Drivers
  BY DEF Shape
<1>1. CASE Wakes \/ ReadSlots \/ StopReturns \/ CleanupCharged \/ AssignCommitted
  BY <1>0, <1>1 DEF Wakes, ReadSlots, StopReturns, CleanupCharged, AssignCommitted, Unmarked, Drivers
<1>2. CASE CommitFails
  BY <1>0, <1>2 DEF CommitFails, RetryLater, Unmarked, Drivers
<1> QED BY <1>1, <1>2, DispatchUnmarked, SettledCommitUnmarked, AttemptUnmarked, UntypedUnmarked
       DEF Reconciler, Pass, Cleanup, SettledCommit

\* What a record of the store may say.
InRange(r) == r.rev \in 1 .. MaxRevision /\ (r.res # Nothing => r.cur # Nothing)

StoreRange ==
    /\ \A r \in StoredRecords : InRange(r)
    /\ store.status # "ambiguous" => store.staged = Nothing

ReadbackRange == rb.tries <= MaxAttempts /\ (rb.pc = "try" => rb.tries < MaxAttempts)

\* What TypeOK says beyond the shapes and the budgets.
Ranges ==
    /\ StoreRange /\ ReadbackRange
    /\ accepted \subseteq 1 .. MaxRevision
    /\ drv.pruning => rc.pc = "prune"

\* A record that is written is in range, and so is the store it leaves.
LEMMA WrittenRange ==
    ASSUME Shape, StoreRange, NEW r, InRange(r), Open, Committed(r) \/ Staged(r)
    PROVE  StoreRange'
<1>0. /\ store \in [rec : Records, staged : Records \cup {Nothing},
                    status : {"open", "ambiguous", "failed"}]
      /\ store.status = "open" /\ store.staged = Nothing /\ InRange(store.rec)
  BY DEF Shape, StoreRange, StoredRecords, Open
<1>1. CASE Committed(r)
  <2>1. store'.rec = r /\ store'.status = "open" /\ store'.staged = Nothing
    BY <1>0, <1>1 DEF Committed
  <2> QED BY <2>1 DEF StoreRange, StoredRecords, InRange
<1>2. CASE Staged(r)
  <2>1. store'.rec = store.rec /\ store'.status = "ambiguous" /\ store'.staged = r
    BY <1>0, <1>2 DEF Staged
  <2> QED BY <1>0, <2>1 DEF StoreRange, StoredRecords, InRange
<1> QED BY <1>1, <1>2

\* One of the stored records is found, and the admission is open again.
LEMMA FoundRange ==
    ASSUME StoreRange, NEW r \in StoredRecords,
           store' = [rec |-> r, staged |-> Nothing, status |-> "open"]
    PROVE  StoreRange'
<1>1. store'.rec = r /\ store'.staged = Nothing /\ store'.status = "open" /\ InRange(r)
  BY DEF StoreRange
<1> QED BY <1>1 DEF StoreRange, StoredRecords, InRange

LEMMA SameStoreRange ==
    ASSUME StoreRange, store' = store
    PROVE  StoreRange'
BY DEF StoreRange, StoredRecords, InRange

LEMMA ArmedRange ==
    ASSUME Shape, ReadbackRange, rb' \in {rb, Armed}
    PROVE  ReadbackRange'
<1>1. MaxAttempts \in Nat /\ 0 < MaxAttempts /\ rb.tries \in Nat
  BY ControlBounds DEF Shape
<1> QED BY <1>1 DEF ReadbackRange, Armed

LEMMA ReconcilerRanges ==
    ASSUME Shape, Ranges, Reconciler
    PROVE  Ranges'
<1>1. rb' \in {rb, Armed} /\ accepted' = accepted
  BY ReconcilerMoves DEF ReadSlots, Moves
<1>2. StoreRange'
  <2>1. CASE store' = store
    BY <2>1, SameStoreRange DEF Ranges
  <2>2. CASE Wakes \/ ReadSlots \/ Dispatch \/ Finish
    BY <2>1, <2>2 DEF Wakes, ReadSlots, Dispatch, Finish
  <2>3. CASE ~(Wakes \/ ReadSlots \/ Dispatch \/ Finish)
    <3>1. Onward
      BY <2>3, CleanupOnward, AttemptOnward, UntypedOnward DEF Reconciler, Pass
    <3>2. StoreWrites
      BY <2>3, <3>1, ReconcilerWrites
    <3>3. store.rec \in Records /\ InRange(store.rec)
      BY DEF Ranges, StoreRange, StoredRecords, Shape
    <3>4. CASE rc.pc \in {"charge", "commit"} /\ Writes(Updated)
      <4>1. rc.t # Nothing
        BY <3>4, NothingIsNoSlot DEF Shape, RcShape, AtShape, UntypedPcs, AttemptPcs
      <4>2. Updated.rev = store.rec.rev /\ Updated.cur = rc.t
        BY <3>3 DEF Updated, Records
      <4> QED BY <3>3, <3>4, <4>1, <4>2, WrittenRange DEF Ranges, InRange, Writes
    <3>5. CASE rc.pc = "prune" /\ Writes(Pruned)
      <4>1. Pruned.rev = store.rec.rev /\ Pruned.res = Nothing
        BY <3>3 DEF Pruned, Records
      <4> QED BY <3>3, <3>5, <4>1, WrittenRange DEF Ranges, InRange, Writes
    <3> QED BY <2>1, <3>2, <3>4, <3>5 DEF StoreWrites
  <2> QED BY <2>2, <2>3
<1>3. ReadbackRange'
  BY <1>1, ArmedRange DEF Ranges
<1>4. drv'.pruning => rc'.pc = "prune"
  <2>0. drv \in Drivers
    BY DEF Shape
  <2>1. CASE Finish
    BY <2>0, <2>1 DEF Finish, At, Drivers, Ranges
  <2>2. CASE Prune \/ PruneFails
    BY <2>0, <2>2 DEF Prune, PruneFails, Drivers
  <2>3. CASE ~Finish /\ ~Prune /\ ~PruneFails
    <3>1. drv'.pruning = drv.pruning
      BY <2>3, ReconcilerUnmarked DEF Unmarked
    <3>2. rc.pc # "prune"
      BY <2>3, SettledCommitLeads DEF Reconciler, Pass, Cleanup, TypedAttempt, UntypedAttempt, Wakes, ReadSlots,
         Dispatch, CommitFails, CleanupCharged, StopReturns, AssignCommitted, AttemptHead, StartCharged,
         GenerationCommitted, StartReturns, JudgeStart, AdmitStart, Backoff, InstallUntyped, CheckUntyped,
         UntypedHead, UntypedReturns, JudgeUntyped, BackoffUntyped, AdmitUntyped, WithdrawUntyped,
         FinishUntyped, Commits, SettledCommit
    <3> QED BY <3>1, <3>2 DEF Ranges
  <2> QED BY <2>1, <2>2, <2>3
<1> QED BY <1>1, <1>2, <1>3, <1>4 DEF Ranges

LEMMA DecideRanges ==
    ASSUME Shape, Ranges, NEW method \in Methods, Decide(method)
    PROVE  Ranges'
<1>1. /\ store.rec \in Records /\ InRange(store.rec) /\ drv \in Drivers
      /\ MaxRevision \in Nat
  BY ControlBounds DEF Ranges, StoreRange, StoredRecords, Shape
<1>2. Decidable(method) /\ drv' = [drv EXCEPT !.deciding = TRUE]
      /\ UNCHANGED <<rc, peer, rb, past, ext, accepted>>
  BY DEF Decide
<1>3. InRange(Planned(method))
  <2> DEFINE p == Planned(method)
  <2> SUFFICES InRange(p)
    OBVIOUS
  <2>1. p.rev = store.rec.rev + 1
    BY DEF Planned
  <2>2. p.rev \in 1 .. MaxRevision
    BY <1>1, <1>2, <2>1 DEF Decidable, InRange
  <2>3. p.res # Nothing => Cancels(method) \/ store.rec.cur # Nothing
    BY DEF Planned
  <2>4. CASE Cancels(method)
    <3>1. drv.untyped \in Attempts /\ store.rec.seq \in Nat /\ store.rec.rev \in Nat
      BY <1>1, <2>4 DEF Cancels, Drivers, Records
    <3>2. p.cur = Cancellation(drv.untyped, store.rec.seq + 1, store.rec.rev + 1)
      BY <2>4 DEF Planned
    <3>3. p.cur \in Slots
      BY <3>1, <3>2, CancellationSlot
    <3> HIDE DEF p
    <3> QED BY <2>2, <3>3, NothingIsNoSlot DEF InRange
  <2>5. CASE ~Cancels(method) /\ store.rec.cur # Nothing
    <3>1. p.cur # Nothing
      BY <2>5 DEF Planned
    <3> HIDE DEF p
    <3> QED BY <2>2, <3>1 DEF InRange
  <2> HIDE DEF p
  <2> QED BY <2>2, <2>3, <2>4, <2>5 DEF InRange
<1>4. StoreRange'
  BY <1>2, <1>3, WrittenRange, SameStoreRange DEF Decide, Ranges, Decidable
<1>5. drv'.pruning = drv.pruning
  BY <1>1, <1>2 DEF Drivers
<1> QED BY <1>2, <1>4, <1>5 DEF Ranges, ReadbackRange

LEMMA ServiceRanges ==
    ASSUME Shape, Ranges, Requester \/ Resolver \/ Settling \/ PeerReadsBack \/ PeerSettles
    PROVE  Ranges'
<1>0. drv \in Drivers /\ rb \in [pc : {"off", "try", "settle", "resolving", "disarm"}, tries : Nat]
  BY DEF Shape
<1>1. rc' = rc
  BY DEF Requester, PublishAccepted, ReleaseDecision, HoldAmbiguous, CheckAdmission, ArmReadback,
     Resolver, ReadbackTry, ReadbackResolved, ReadbackDisarms, Settling, PublishAdopted,
     ReleaseAmbiguous, PeerReadsBack, PeerSettles
<1>2. drv'.pruning = drv.pruning
  BY <1>0 DEF Requester, PublishAccepted, ReleaseDecision, HoldAmbiguous, CheckAdmission, ArmReadback,
     Resolver, ReadbackTry, ReadbackResolved, ReadbackDisarms, Settling, PublishAdopted,
     ReleaseAmbiguous, PeerReadsBack, PeerSettles, TakeAmbiguous, Released, Drivers
<1>3. accepted' \subseteq 1 .. MaxRevision
  <2>1. store.rec.rev \in 1 .. MaxRevision
    BY DEF Ranges, StoreRange, StoredRecords, InRange
  <2> QED BY <2>1 DEF Ranges, Requester, PublishAccepted, ReleaseDecision, HoldAmbiguous, CheckAdmission,
     ArmReadback, Resolver, ReadbackTry, ReadbackResolved, ReadbackDisarms, Settling, PublishAdopted,
     ReleaseAmbiguous, PeerReadsBack, PeerSettles
<1>4. StoreRange'
  <2>1. CASE store' = store
    BY <2>1, SameStoreRange DEF Ranges
  <2>2. CASE Reread
    BY <2>2, FoundRange DEF Reread, StoredRecords, Ranges
  <2>3. CASE store' = [store EXCEPT !.staged = Nothing, !.status = "failed"]
    <3>1. store'.rec = store.rec /\ store'.staged = Nothing /\ store'.status = "failed"
      BY <2>3 DEF Shape
    <3> QED BY <3>1 DEF Ranges, StoreRange, StoredRecords, InRange
  <2> QED BY <2>1, <2>2, <2>3 DEF Requester, PublishAccepted, ReleaseDecision, HoldAmbiguous, CheckAdmission,
     ArmReadback, Resolver, ReadbackTry, ReadbackResolved, ReadbackDisarms, Settling, PublishAdopted,
     ReleaseAmbiguous, PeerReadsBack, PeerSettles
<1>5. ReadbackRange'
  <2>0. MaxAttempts \in Nat /\ ReadbackRange
    BY LimitsAreNat DEF Ranges
  <2>1. CASE rb' \in {rb, Armed}
    BY <2>0, <2>1, ArmedRange
  <2>2. CASE \E pc \in {"settle", "resolving", "disarm", "off"} : rb' = [rb EXCEPT !.pc = pc]
    BY <1>0, <2>0, <2>2 DEF ReadbackRange
  <2>3. CASE rb.pc = "try" /\ rb' = [pc |-> IF rb.tries + 1 = MaxAttempts THEN "disarm" ELSE "try",
                                     tries |-> rb.tries + 1]
    BY <1>0, <2>0, <2>3 DEF ReadbackRange
  <2> QED BY <2>1, <2>2, <2>3 DEF Requester, PublishAccepted, ReleaseDecision, HoldAmbiguous, CheckAdmission,
     ArmReadback, Resolver, ReadbackTry, ReadbackResolved, ReadbackDisarms, Settling, PublishAdopted,
     ReleaseAmbiguous, PeerReadsBack, PeerSettles
<1> QED BY <1>1, <1>2, <1>3, <1>4, <1>5 DEF Ranges

LEMMA CrashRanges ==
    ASSUME Shape, Ranges, Crash
    PROVE  Ranges'
<1>1. PICK rec \in StoredRecords :
        /\ store' = [rec |-> rec, staged |-> Nothing, status |-> "open"]
        /\ accepted' = accepted \cup {rec.rev}
  BY DEF Crash, StoredRecords, Open, Shape
<1>2. StoreRange'
  BY <1>1, FoundRange DEF Ranges
<1>3. accepted' \subseteq 1 .. MaxRevision
  BY <1>1 DEF Ranges, StoreRange, InRange
<1>4. ReadbackRange'
  <2>1. MaxAttempts \in Nat /\ 0 < MaxAttempts /\ rb' = [pc |-> "off", tries |-> 0]
    BY ControlBounds DEF Crash
  <2> QED BY <2>1 DEF ReadbackRange
<1>5. ~drv'.pruning
  BY DEF Crash, Booted
<1> QED BY <1>2, <1>3, <1>4, <1>5 DEF Ranges

LEMMA InitRanges == Init => Ranges
<1> SUFFICES ASSUME Init PROVE Ranges
  OBVIOUS
<1>1. MaxRevision \in Nat /\ MaxRevision > 0 /\ MaxAttempts \in Nat /\ MaxAttempts > 0
  BY ControlBounds
<1>2. PICK rec \in FirstRecords : store = [rec |-> rec, staged |-> Nothing, status |-> "open"]
  BY DEF Init
<1>3. rec.rev = 1 /\ rec.res = Nothing
  BY DEF FirstRecords, Workless
<1>4. store.rec = rec /\ store.staged = Nothing /\ store.status = "open"
  BY <1>2
<1>5. StoreRange
  BY <1>1, <1>3, <1>4 DEF StoreRange, StoredRecords, InRange
<1>6. ReadbackRange /\ accepted \subseteq 1 .. MaxRevision /\ ~drv.pruning
  BY <1>1 DEF Init, ReadbackRange, Booted
<1> QED BY <1>5, <1>6 DEF Ranges

\* Every variable keeps its type, whichever writes fail, and over any number of
\* revisions and crashes: a record is staged exactly while the admission is
\* ambiguous, a reserved slot follows a current one, and decisions are shut out
\* only by a prune under way.
THEOREM ControlTypes == Spec => []TypeOK
<1> DEFINE Inv == WakeInv /\ Budget /\ Ranges
<1>1. Init => Inv
  BY InitWakeInv, InitBudget, InitRanges
<1>2. Inv /\ [Next]_vars => Inv'
  <2> SUFFICES ASSUME Inv, [Next]_vars PROVE Inv'
    OBVIOUS
  <2>1. Shape /\ Deciders /\ Shape'
    BY NextWakeInv DEF WakeInv
  <2>2. WakeInv'
    BY NextWakeInv
  <2>3. CASE vars' = vars
    BY <2>2, <2>3 DEF vars, Budget, StoreBudget, RcBudget, ChargeBudget, StartBudgetHolds,
        StoredRecords, Paid, Covers, Behind, Follows, OnAttempt, Ranges, StoreRange, ReadbackRange, InRange
  <2>4. CASE Next
    <3>1. Budget'
      BY <2>1, <2>4, DecideBudget, ServiceBudget, ReconcilerBudget, CrashBudget DEF Next
    <3>2. Ranges'
      BY <2>1, <2>4, DecideRanges, ServiceRanges, ReconcilerRanges, CrashRanges DEF Next
    <3> QED BY <2>2, <3>1, <3>2
  <2> QED BY <2>3, <2>4
<1>3. Inv => TypeOK
  <2> SUFFICES ASSUME Inv PROVE TypeOK
    OBVIOUS
  <2>1. Shape /\ Deciders /\ Ranges /\ Paid(store.rec) /\ InRange(store.rec)
    BY DEF WakeInv, Budget, StoreBudget, StoredRecords, Ranges, StoreRange
  <2>2. (store.staged # Nothing) <=> (store.status = "ambiguous")
    BY <2>1, NothingIsNone DEF Shape, Ranges, StoreRange
  <2>3. drv.amb.state \in {"none", "held", "resolving", "settled"}
    BY <2>1 DEF Shape, Drivers, Ambiguities
  <2>4. rb.tries \in 0 .. MaxAttempts /\ rb.pc \in {"off", "try", "settle", "resolving", "disarm"}
    BY <2>1, LimitsAreNat DEF Shape, Ranges, ReadbackRange
  <2> QED BY <2>1, <2>2, <2>3, <2>4 DEF TypeOK, Shape, Deciders, Ranges, Paid, InRange
<1> QED BY <1>1, <1>2, <1>3, PTL DEF Spec

-----------------------------------------------------------------------------
(* The books of open generations                                             *)

Cur == store.rec.cur
Res == store.rec.res

\* A slot that nobody has begun.
Fresh(t) == t.phase = "PENDING" /\ t.epoch = 0 /\ ~Owing(t) /\ t.due = <<>> /\ t.used = 0

\* What a current slot may look like.
SlotLine(t) ==
    /\ t.phase = "PENDING" => Fresh(t) \/ (t.kind = "CANCEL" /\ t.native)
    /\ t.phase = "ACTIVE" => t.epoch # 0 /\ t.kind # "CANCEL"
    /\ t.used <= CleanupLimit

Last == IF Res # Nothing THEN Res ELSE Cur

\* The slots are those of a sequence of requests, of which the last decides.
Sequence ==
    /\ Cur # Nothing => SlotLine(Cur) /\ (Cur.kind = "CANCEL" => Res # Nothing)
    /\ Res # Nothing => /\ Cur # Nothing /\ Fresh(Res) /\ Res.kind # "CANCEL"
                        /\ Res.kind = "START" => Cur.kind = "STOP"
    /\ Last # Nothing => (store.rec.desired = "STOPPED" <=> Last.kind = "STOP")

\* Epochs are issued in order, from 1.
Epochs ==
    /\ ext.open \subseteq Corrs
    /\ Cur # Nothing => Cur.epoch <= count.epochs
    /\ drv.live # Nothing => drv.live.epoch # 0 /\ drv.live.epoch <= count.epochs
    /\ drv.untyped # Nothing => drv.untyped.corr.epoch # 0 /\ drv.untyped.corr.epoch <= count.epochs

SettlePcs == {"charge", "stop", "commit"}

\* What is settled, by who continues.
SettleLine(c, k, quarantined) ==
    /\ ~Terminal(c)
    /\ k = "replaced" => c.kind \in {"START", "RESTART"} /\ c.phase = "ACTIVE"
    /\ k = "stopped" => c.kind = "STOP" /\ c.phase # "PENDING"
    /\ k = "canceled" => c.kind \in {"START", "CANCEL"} /\ c.phase # "CLEANUP"
    /\ k = "cleaned" => c.kind # "STOP" /\ c.phase = "CLEANUP"
    /\ k = "exhausted" => c.phase = "ACTIVE" \/ quarantined

\* What is written over the current slot c, by what it is written for.
CommitLine(c, t, k) ==
    /\ k \in Settlements =>
          /\ t = Settled(c, k, t.native, t.semantic)
          /\ (t.native => c.native) /\ (t.semantic => c.semantic)
    /\ k \in OfAttempt => c.phase = "ACTIVE" /\ c.native /\ c.kind \in {"START", "RESTART"}
    /\ k = "charged" => t = [c EXCEPT !.used = @ + 1] /\ c.used < StartLimit
    /\ k = "regen" => t = [c EXCEPT !.gen = @ + 1]
    /\ k \in {"completed", "ended"} => t = Discharged(c)
    /\ k = "ended" => c.phase = "ACTIVE" /\ ~Owing(c)
    /\ k = "begun" =>
          /\ c.phase = "PENDING" /\ c.kind \in {"STOP", "RESTART"}
          /\ \/ t = [c EXCEPT !.phase = "CLEANUP"] /\ c.kind = "STOP" /\ drv.live = Nothing
             \/ drv.live # Nothing /\ t = Begun(c, drv.live, SlotDeadline(c.seq))
    /\ k = "assigned" =>
          /\ ~Owing(c) /\ c.phase # "CLEANUP" /\ c.kind \in {"START", "RESTART"}
          /\ t = Begun(c, [epoch |-> count.epochs + 1, gen |-> 1],
                       IF c.due = <<>> THEN SlotDeadline(c.seq) ELSE c.due)

\* While no write fails, what the reconciler has in hand is what is stored.
InHand ==
    /\ rc.pc = "dispatch" /\ rc.t.cur # Nothing =>
          Cur = rc.t.cur /\ (rc.t.res # Nothing => Res = rc.t.res)
    /\ rc.pc = "dispatch" /\ rc.t.cur = Nothing /\ Cur = Nothing =>
          store.rec.desired = rc.t.desired
    /\ rc.pc = "finish" => Cur = rc.t /\ Terminal(rc.t)
    /\ rc.pc = "prune" => /\ Cur # Nothing /\ Terminal(Cur)
                          /\ rc.t = Res /\ (Res = Nothing => drv.pruning)
    /\ rc.pc \in {"stop"} \cup AttemptPcs => Cur = rc.t
    /\ rc.pc \in SettlePcs => Cur # Nothing
    /\ rc.pc \in SettlePcs /\ rc.k \in Settlements => SettleLine(Cur, rc.k, drv.quarantined)
    /\ rc.pc = "charge" => rc.t = [Cur EXCEPT !.used = @ + 1] /\ Cur.used < CleanupLimit
    /\ rc.pc \in {"charge", "stop"} => Owing(Cur)
    /\ rc.pc = "commit" => CommitLine(Cur, rc.t, rc.k)
    /\ rc.pc \in AttemptPcs =>
          Cur.phase = "ACTIVE" /\ Cur.native /\ Cur.kind \in {"START", "RESTART"}

\* Where a Start is ahead, and where an attempt of either sort is under way.
OnSetup(r) == r.pc \in AttemptPcs \/ (r.pc = "commit" /\ r.k \in {"charged", "regen", "assigned"})
AtUntyped(r) == r.pc \in {"u_install"} \cup UntypedPcs
Starting(r) ==
    \/ OnSetup(r) \/ OnAttempt(r) \/ AtUntyped(r)
    \/ r.pc \in SettlePcs /\ r.k \in {"replaced", "ended"}
    \/ r.pc = "commit" /\ r.k = "begun" /\ r.t.kind = "RESTART"

\* A quarantined driver is not started.
Calm == Starting(rc) => ~drv.quarantined

\* The attempt of a slot is not of a later one, and is fenced by a successor.
Own == drv.inflight # Nothing /\ Cur # Nothing /\ drv.inflight.seq = Cur.seq
Superseded == Cur # Nothing /\ Cur.kind = "START" /\ Res # Nothing
Releasing == req.pc \in {"publish", "release"}

Fencing ==
    /\ drv.inflight # Nothing =>
          drv.inflight.seq <= store.rec.seq /\ (Res # Nothing => drv.inflight.seq < Res.seq)
    /\ Releasing /\ req.fence /\ (rc.pc \in SlotPcs \/ Own) => Superseded

\* NothingForgotten, without the quarantine.
Accounted ==
    \A c \in ext.open :
        \/ drv.live = c
        \/ drv.untyped # Nothing /\ drv.untyped.corr = c
        \/ Cur # Nothing /\ Cur.native /\ Corr(Cur) = c

\* The live generation is desired, or the current slot is about to take it over.
LiveLine ==
    drv.live # Nothing =>
        /\ ~OnSetup(rc) /\ ~AtUntyped(rc)
        /\ Cur = Nothing => store.rec.desired = "RUNNING"
        /\ Cur # Nothing =>
              /\ Cur.kind # "CANCEL"
              /\ Cur.kind = "START" => Terminal(Cur) \/ (rc.pc = "commit" /\ rc.k = "completed")
              /\ Cur.kind = "STOP" => ~Terminal(Cur)
              /\ Cur.phase # "PENDING" => drv.live = Corr(Cur) /\ (Cur.native \/ Terminal(Cur))

\* The current slot cancels the untyped attempt.
CanceledAt == Cur # Nothing /\ Cur.kind = "CANCEL" /\ Cur.phase = "PENDING" /\ Corr(Cur) = drv.untyped.corr

\* The untyped attempt is under way or has a slot that cancels it.
UntypedLine ==
    /\ drv.untyped # Nothing => rc.pc \in UntypedPcs \/ CanceledAt
    /\ rc.pc \in UntypedPcs \ {"u_check"} /\ Cur # Nothing =>
          CanceledAt /\ (drv.untyped.fenced \/ (Releasing /\ req.fence))
    /\ AtUntyped(rc) /\ Cur = Nothing => store.rec.desired = "RUNNING"
    /\ rc.pc \in UntypedPcs /\ Cur = Nothing => ~drv.untyped.fenced /\ ~Releasing
    /\ rc.pc = "u_install" \/ rc.pc \in SlotPcs => drv.untyped = Nothing
    /\ rc.pc = "dispatch" /\ rc.t.cur = Nothing =>
          drv.untyped = Nothing /\ (Cur # Nothing => ~Cur.native)

\* Nothing is open where a Start is ahead or has failed.
Unopened(r) ==
    \/ r.pc \in {"u_install", "u_check", "u_head", "u_start", "u_backoff", "attempt", "start", "backoff"}
    \/ r.pc \in {"judge", "u_judge"} /\ r.k \notin {"ok", "malformed"}
    \/ r.pc = "u_finish" /\ r.k # "unclosed"
    \/ r.pc = "commit" /\ r.k \in {"charged", "regen", "assigned"}

\* What a slot does not owe is not open.
OpenLine ==
    /\ Unopened(rc) => ext.open = {}
    /\ rc.pc \in SettlePcs /\ rc.k \in Settlements /\ ~rc.t.native => Corr(rc.t) \notin ext.open
    /\ rc.pc = "commit" /\ rc.k = "completed" => drv.live = Corr(rc.t)

\* A slot whose attempt is not under way is settled or canceled, not resumed.
InflightLine ==
    /\ Own => \/ OnAttempt(rc) \/ (rc.pc \in SettlePcs /\ rc.k = "exhausted")
              \/ Superseded
    /\ Own /\ drv.inflight.fenced => Superseded
    /\ Own /\ rc.pc = "dispatch" => rc.t.res # Nothing

Ledger == Accounted /\ LiveLine /\ UntypedLine /\ OpenLine /\ InflightLine

\* While no write fails the admission is open and no decision is in doubt.
Plain ==
    /\ Open /\ store.staged = Nothing /\ rb = [pc |-> "off", tries |-> 0] /\ peer = "idle"
    /\ req.pc \in {"idle", "publish", "release"} /\ drv.amb.state = "none"
    /\ drv.pruning => rc.pc = "prune"

Books ==
    /\ Sequence /\ Epochs /\ InHand /\ Calm /\ Fencing /\ Plain
    /\ ~drv.quarantined => Ledger

\* What a lemma about a step starts from.
Bookkeeping == Shape /\ Deciders /\ Budget /\ Books

LEMMA BookFacts ==
    ASSUME Bookkeeping
    PROVE  /\ drv \in Drivers /\ store.rec \in Records /\ count.epochs \in Nat
           /\ Cur \in Slots \cup {Nothing} /\ Res \in Slots \cup {Nothing}
           /\ store.rec.seq \in Nat
           /\ Cur # Nothing => Cur.seq <= store.rec.seq
           /\ Res # Nothing => Cur # Nothing /\ Cur.seq < Res.seq /\ Res.seq <= store.rec.seq
           /\ Releasing <=> drv.deciding
           /\ drv.deciding \in BOOLEAN /\ drv.quarantined \in BOOLEAN
<1>1. Paid(store.rec)
  BY DEF Bookkeeping, Budget, StoreBudget, StoredRecords
<1>2. store.rec \in Records /\ drv \in Drivers /\ count.epochs \in Nat
  BY DEF Bookkeeping, Shape
<1>3. Releasing <=> drv.deciding
  BY <1>2 DEF Bookkeeping, Books, Plain, Deciders, Releasing
<1>4. Res # Nothing => Cur # Nothing
  BY DEF Bookkeeping, Books, Sequence
<1> QED BY <1>1, <1>2, <1>3, <1>4 DEF Paid, Cur, Res, Records, Drivers

\* What the books read of the driver.
Alike(d, e) ==
    /\ e.live = d.live /\ e.untyped = d.untyped /\ e.inflight = d.inflight
    /\ e.quarantined = d.quarantined /\ e.pruning = d.pruning /\ e.amb = d.amb

\* The rest of the service stands still during a step.
Others ==
    /\ req' = req /\ peer' = peer /\ rb' = rb /\ accepted' = accepted

\* The reconciler lets go of what it has in hand.
LEMMA RestBooks ==
    ASSUME Bookkeeping, Others, store' = store, ext'.open = ext.open, count' = count,
           rc'.pc \in {"idle", "read"}, Alike(drv, drv'), ~drv.pruning,
           ~drv.quarantined =>
              /\ drv.untyped = Nothing \/ CanceledAt
              /\ Own => Superseded
              /\ ~(rc.pc = "commit" /\ rc.k = "completed")
    PROVE  Books'
<1> USE DEF Bookkeeping, Books, Others, Alike
<1>3. Sequence' /\ Epochs' /\ Plain'
  BY DEF Sequence, Epochs, Plain, Cur, Res, Last, SlotLine, Fresh, Owing, Open
<1>4. InHand' /\ Calm' /\ Fencing'
  BY DEF InHand, Calm, Fencing, Cur, Res, SettlePcs, AttemptPcs, Starting, OnSetup, AtUntyped,
     UntypedPcs, SlotPcs, OnAttempt, Releasing, Own, Superseded
<1>5. ~drv.quarantined => Ledger'
  BY DEF Ledger, Accounted, LiveLine, UntypedLine, OpenLine, InflightLine, Cur, Res,
     SettlePcs, AttemptPcs, OnSetup, AtUntyped, UntypedPcs, SlotPcs, OnAttempt, Own, Superseded,
     Unopened, CanceledAt, Terminal, Owing, Corr
<1> QED BY <1>3, <1>4, <1>5

LEMMA WakesBooks ==
    ASSUME Bookkeeping, Wakes
    PROVE  Books'
<1>1. rc'.pc = "read" /\ rc.pc = "idle"
  BY DEF Reading, At, Wakes
<1>2. Alike(drv, drv')
  BY BookFacts DEF Drivers, Alike, Wakes
<1>3. ~drv.pruning
  BY <1>1 DEF Bookkeeping, Books, Plain
<1>4. ~drv.quarantined => (drv.untyped = Nothing \/ CanceledAt) /\ (Own => Superseded)
  BY <1>1 DEF Bookkeeping, Books, Ledger, UntypedLine, InflightLine, UntypedPcs, OnAttempt, AttemptPcs, SettlePcs
<1>5. Others /\ store' = store /\ ext'.open = ext.open /\ count' = count
  BY DEF Wakes, Others
<1> QED BY <1>1, <1>2, <1>3, <1>4, <1>5, RestBooks

LEMMA ReadSlotsBooks ==
    ASSUME Bookkeeping, ReadSlots
    PROVE  Books'
<1> USE DEF Bookkeeping, Books, ReadSlots
<1>1. rc'.pc = "dispatch" /\ rc'.t = store.rec /\ rc.pc = "read"
  BY DEF At, Plain, Open
<1>3. Sequence' /\ Epochs' /\ Plain'
  BY <1>1 DEF Sequence, Epochs, Plain, Cur, Res, Last, SlotLine, Fresh, Owing, Open
<1>4. InHand' /\ Calm' /\ Fencing'
  BY <1>1 DEF InHand, Calm, Fencing, Cur, Res, SettlePcs, AttemptPcs, Starting, OnSetup, AtUntyped,
     UntypedPcs, SlotPcs, OnAttempt, Releasing, Own, Superseded
<1>5. ~drv.quarantined => Ledger'
  BY <1>1 DEF Ledger, Accounted, LiveLine, UntypedLine, OpenLine, InflightLine, Cur, Res,
     SettlePcs, AttemptPcs, OnSetup, AtUntyped, UntypedPcs, SlotPcs, OnAttempt, Own, Superseded,
     Unopened, CanceledAt, Terminal, Owing, Corr
<1> QED BY <1>3, <1>4, <1>5

\* The fields of a slot that a step writes.
LEMMA SettledFields ==
    ASSUME NEW t \in Slots, NEW k, NEW n \in BOOLEAN, NEW s \in BOOLEAN
    PROVE  LET z == Settled(t, k, n, s)
           IN  /\ z \in Slots /\ z.kind = t.kind /\ z.seq = t.seq /\ z.rev = t.rev /\ z.used = t.used
               /\ z.due = t.due /\ z.epoch = t.epoch /\ z.gen = t.gen
               /\ z.native = n /\ z.semantic = s
               /\ z.phase = IF k = "replaced" /\ ~n THEN t.phase ELSE "CLEANUP"
BY DEF Settled, Slots

LEMMA DischargedFields ==
    ASSUME NEW t \in Slots
    PROVE  LET z == Discharged(t)
           IN  /\ z \in Slots /\ z.kind = t.kind /\ z.seq = t.seq /\ z.rev = t.rev /\ z.used = t.used
               /\ z.due = t.due /\ z.epoch = t.epoch /\ z.gen = t.gen
               /\ ~z.native /\ ~z.semantic /\ z.phase = "CLEANUP"
BY DEF Discharged, Slots

LEMMA BegunFields ==
    ASSUME NEW t \in Slots, NEW c \in Corrs, NEW due \in Dues
    PROVE  LET z == Begun(t, c, due)
           IN  /\ z \in Slots /\ z.kind = t.kind /\ z.seq = t.seq /\ z.rev = t.rev /\ z.used = t.used
               /\ z.due = due /\ z.epoch = c.epoch /\ z.gen = c.gen
               /\ z.native /\ z.semantic /\ z.phase = "ACTIVE"
BY DEF Begun, Slots, Corrs

\* Where settling the current slot t leads, from the driver d.
Settles(d, t, k) ==
    /\ Alike(d, drv') /\ InHand'
    /\ rc'.pc \in SettlePcs /\ rc'.k = k
    /\ rc'.t.native = t.native /\ rc'.t.epoch = t.epoch /\ rc'.t.gen = t.gen

LEMMA SettleLands ==
    ASSUME NEW d \in Drivers, NEW t \in Slots, NEW k \in Settlements, SettleObligations(d, t, k),
           Cur' = t, SettleLine(t, k, d.quarantined), k = "replaced" => Owing(t)
    PROVE  Settles(d, t, k)
<1>n. t # Nothing /\ t.used \in Nat /\ t.seq \in Nat /\ t.native \in BOOLEAN /\ t.semantic \in BOOLEAN
  BY NothingIsNoSlot DEF Slots
<1>1. CASE ~Owing(t) /\ rc' = At("commit", Discharged(t), k) /\ drv' = d
  <2> DEFINE z == Discharged(t)
  <2>1. z = Settled(t, k, FALSE, FALSE)
    BY <1>1 DEF Settled, Discharged
  <2>2. z.native = FALSE /\ z.semantic = FALSE /\ z.epoch = t.epoch /\ z.gen = t.gen /\ z \in Slots
    BY DischargedFields
  <2>3. rc'.pc = "commit" /\ rc'.t = z /\ rc'.k = k /\ t.native = FALSE
    BY <1>1, <1>n DEF At, Owing
  <2> HIDE DEF z
  <2>4. CommitLine(Cur, rc.t, rc.k)'
    BY <2>1, <2>2, <2>3 DEF CommitLine, Settlements, OfAttempt
  <2>5. SettleLine(Cur, rc.k, drv.quarantined)'
    BY <1>1, <2>3 DEF SettleLine, Terminal, Owing
  <2> QED BY <1>1, <1>n, <2>2, <2>3, <2>4, <2>5 DEF Settles, Alike, InHand, SettlePcs, AttemptPcs
<1>2. CASE Owing(t) /\ rc' = At("stop", t, k) /\ drv' = [d EXCEPT !.chargeSeq = 0, !.chargeTo = 0]
  <2>1. Alike(d, drv')
    BY <1>2 DEF Alike, Drivers
  <2>2. rc'.pc = "stop" /\ rc'.t = t /\ rc'.k = k
    BY <1>2 DEF At
  <2>5. SettleLine(Cur, rc.k, drv.quarantined)'
    BY <2>1, <2>2 DEF SettleLine, Alike, Terminal, Owing
  <2>6. Owing(Cur)'
    BY <1>2 DEF Owing
  <2> QED BY <1>n, <2>1, <2>2, <2>5, <2>6 DEF Settles, InHand, SettlePcs, AttemptPcs
<1>3. CASE /\ Owing(t) /\ rc' = At("commit", Settled(t, k, t.native, t.semantic), k)
           /\ drv' = [d EXCEPT !.chargeSeq = 0, !.chargeTo = 0]
  <2> DEFINE z == Settled(t, k, t.native, t.semantic)
  <2>1. Alike(d, drv')
    BY <1>3 DEF Alike, Drivers
  <2>2. z.native = t.native /\ z.semantic = t.semantic /\ z.epoch = t.epoch /\ z.gen = t.gen
    BY <1>n, SettledFields
  <2>3. z = Settled(t, k, z.native, z.semantic)
    BY <2>2
  <2> HIDE DEF z
  <2>4. rc'.pc = "commit" /\ rc'.t = z /\ rc'.k = k
    BY <1>3 DEF At, z
  <2>5. SettleLine(Cur, rc.k, drv.quarantined)'
    BY <2>1, <2>4 DEF SettleLine, Alike, Terminal, Owing
  <2>6. CommitLine(Cur, rc.t, rc.k)'
    BY <2>2, <2>3, <2>4 DEF CommitLine, Settlements, OfAttempt
  <2> QED BY <1>n, <2>1, <2>2, <2>4, <2>5, <2>6 DEF Settles, InHand, SettlePcs, AttemptPcs
<1>4. CASE /\ Owing(t) /\ t.used < CleanupLimit /\ rc' = At("charge", [t EXCEPT !.used = @ + 1], k)
           /\ drv' = [d EXCEPT !.chargeSeq = t.seq, !.chargeTo = t.used + 1]
  <2> DEFINE z == [t EXCEPT !.used = @ + 1]
  <2>1. Alike(d, drv')
    BY <1>4 DEF Alike, Drivers
  <2>2. z.native = t.native /\ z.epoch = t.epoch /\ z.gen = t.gen
    BY DEF Slots
  <2>4. rc'.pc = "charge" /\ rc'.t = z /\ rc'.k = k
    BY <1>4 DEF At
  <2>7. (rc.t = [Cur EXCEPT !.used = @ + 1])'
    BY <2>4
  <2> HIDE DEF z
  <2>5. SettleLine(Cur, rc.k, drv.quarantined)'
    BY <2>1, <2>4 DEF SettleLine, Alike, Terminal, Owing
  <2>6. Owing(Cur)'
    BY <1>4 DEF Owing
  <2>8. (Cur.used < CleanupLimit)'
    BY <1>4 DEF CleanupLimit, StartLimit
  <2> QED BY <1>n, <2>1, <2>2, <2>4, <2>5, <2>6, <2>7, <2>8 DEF Settles, InHand, SettlePcs, AttemptPcs
<1> QED BY <1>1, <1>2, <1>3, <1>4 DEF SettleObligations

\* The live generation is desired, or the current slot is to take it over.
Taken ==
    drv.live # Nothing =>
        /\ Cur = Nothing => store.rec.desired = "RUNNING"
        /\ Cur # Nothing =>
              /\ Cur.kind # "CANCEL"
              /\ Cur.kind = "START" => Terminal(Cur)
              /\ Cur.kind = "STOP" => ~Terminal(Cur)
              /\ Cur.phase # "PENDING" => drv.live = Corr(Cur) /\ (Cur.native \/ Terminal(Cur))

\* What holds of the books whatever the reconciler has in hand.
Shelf == Sequence /\ Epochs /\ Plain /\ Fencing

\* The books of a reconciler with nothing in hand.
LEMMA LetGo ==
    ASSUME Shelf', rc'.pc \in {"idle", "read"},
           ~drv'.quarantined =>
              /\ Accounted' /\ Taken'
              /\ drv'.untyped = Nothing \/ CanceledAt'
              /\ Own' => Superseded'
    PROVE  Books'
<1> USE DEF Shelf, Books
<1>1. InHand' /\ Calm'
  BY DEF InHand, Calm, SettlePcs, AttemptPcs, Starting, OnSetup, AtUntyped, UntypedPcs, OnAttempt
<1>2. ~drv'.quarantined => Ledger'
  BY DEF Ledger, Taken, LiveLine, UntypedLine, OpenLine, InflightLine,
     SettlePcs, AttemptPcs, OnSetup, AtUntyped, UntypedPcs, SlotPcs, Unopened
<1> QED BY <1>1, <1>2

\* The books of a reconciler that settles the current slot t.
LEMMA SettleBooks ==
    ASSUME Shelf', NEW d, NEW t, NEW k \in Settlements, Settles(d, t, k),
           k = "replaced" => ~d.quarantined,
           ~d.quarantined =>
              /\ Accounted' /\ Taken' /\ d.untyped = Nothing
              /\ ~t.native => Corr(t) \notin ext'.open
              /\ Own' => k = "exhausted" \/ Superseded'
              /\ Own' /\ drv'.inflight.fenced => Superseded'
    PROVE  Books'
<1> USE DEF Shelf, Books, Settles, Alike
<1>1. InHand' /\ Calm'
  BY DEF Calm, SettlePcs, AttemptPcs, Starting, OnSetup, AtUntyped, UntypedPcs, OnAttempt, OfAttempt,
     Settlements
<1>2. ~drv'.quarantined => Corr(rc'.t) = Corr(t)
  BY DEF Corr
<1>3. ~drv'.quarantined => Ledger'
  BY <1>2 DEF Ledger, Taken, LiveLine, UntypedLine, OpenLine, InflightLine,
     SettlePcs, AttemptPcs, OnSetup, AtUntyped, UntypedPcs, SlotPcs, Unopened, Settlements, Releasing
<1> QED BY <1>1, <1>3

LEMMA RetryOutcome ==
    ASSUME NEW d \in Drivers, NEW t, NEW now, SemanticRetry(d, t, now)
    PROVE  Alike(d, drv') /\ rc'.pc = "idle"
<1>1. CASE drv' = [d EXCEPT !.blocked = TRUE, !.retries = 0]
  BY <1>1 DEF Alike, Drivers, SemanticRetry, Asleep, At
<1>2. CASE drv' = [d EXCEPT !.retries = @ + 1, !.wake = TRUE]
  BY <1>2 DEF Alike, Drivers, SemanticRetry, Asleep, At
<1> QED BY <1>1, <1>2 DEF SemanticRetry

\* The driver once the slot t has proved its close.
Closed(d, t, e) ==
    /\ e.live = IF d.live = Corr(t) THEN Nothing ELSE d.live
    /\ e.untyped = d.untyped /\ e.inflight = d.inflight
    /\ e.quarantined = d.quarantined /\ e.pruning = d.pruning /\ e.amb = d.amb

LEMMA ClosedDriver ==
    ASSUME NEW d \in Drivers, NEW t
    PROVE  LiveReleased(d, t) \in Drivers /\ Closed(d, t, LiveReleased(d, t))
BY DEF LiveReleased, Drivers, Closed

LEMMA CleanupOutcome ==
    ASSUME NEW d \in Drivers, NEW t \in Slots, NEW now, AfterCleanup(d, t, now)
    PROVE  /\ rc'.pc \in {"idle", "read"}
           /\ drv'.pruning = d.pruning /\ drv'.amb = d.amb
           /\ drv'.untyped = d.untyped /\ drv'.inflight = d.inflight
           /\ drv'.live # Nothing => drv'.live = d.live
           /\ t.native => drv'.quarantined
           /\ ~t.native => Closed(d, t, drv')
<1>1. CASE t.native /\ rc' = Asleep /\ drv' = [d EXCEPT !.quarantined = TRUE]
  BY <1>1 DEF Asleep, At, Drivers
<1> DEFINE e == LiveReleased(d, t)
<1>e. e \in Drivers /\ Closed(d, t, e)
  BY ClosedDriver
<1>2. CASE ~t.native /\ SemanticRetry(LiveReleased(d, t), t, now)
  <2>1. SemanticRetry(e, t, now)
    BY <1>2
  <2> HIDE DEF e
  <2>2. Alike(e, drv') /\ rc'.pc = "idle"
    BY <1>e, <2>1, RetryOutcome
  <2> QED BY <1>2, <1>e, <2>2 DEF Alike, Closed
<1>3. CASE ~Owing(t) /\ rc' = Reading /\ drv' = [LiveReleased(d, t) EXCEPT !.retries = 0]
  <2>1. drv' = [e EXCEPT !.retries = 0]
    BY <1>3
  <2> HIDE DEF e
  <2>2. Alike(e, drv') /\ rc'.pc = "read" /\ ~t.native
    BY <1>3, <1>e, <2>1 DEF Alike, Reading, At, Owing, Drivers
  <2> QED BY <1>e, <2>2 DEF Alike, Closed
<1> QED BY <1>1, <1>2, <1>3 DEF AfterCleanup

LEMMA DispatchFacts ==
    ASSUME Bookkeeping, rc.pc = "dispatch", ~drv.deciding, rc.t.cur # Nothing
    PROVE  /\ rc.t.cur = Cur /\ Cur \in Slots /\ Cur # Nothing /\ SlotLine(Cur)
           /\ ~Releasing /\ ~drv.pruning
           /\ rc.t.res # Nothing => rc.t.res = Res
           /\ ~drv.quarantined =>
                 /\ Accounted /\ Taken
                 /\ drv.untyped = Nothing \/ CanceledAt
                 /\ Own => Superseded /\ rc.t.res # Nothing
                 /\ ~Terminal(Cur) /\ ~Cur.native => Corr(Cur) \notin ext.open
<1>1. rc.t.cur = Cur /\ Cur \in Slots /\ Cur # Nothing /\ SlotLine(Cur)
      /\ (rc.t.res # Nothing => rc.t.res = Res)
  BY BookFacts DEF Bookkeeping, Books, InHand, Sequence
<1>2. ~Releasing /\ ~drv.pruning
  BY BookFacts DEF Bookkeeping, Books, Plain
<1>3. ASSUME ~drv.quarantined
      PROVE  /\ Accounted /\ Taken /\ (drv.untyped = Nothing \/ CanceledAt)
             /\ (Own => Superseded /\ rc.t.res # Nothing)
  BY <1>3 DEF Bookkeeping, Books, Ledger, LiveLine, UntypedLine, InflightLine, UntypedPcs,
     OnAttempt, AttemptPcs, SettlePcs, Taken
<1>4. ASSUME ~drv.quarantined, ~Terminal(Cur), ~Cur.native
      PROVE  Corr(Cur) \notin ext.open
  <2> SUFFICES ASSUME Corr(Cur) \in ext.open PROVE FALSE
    OBVIOUS
  <2>1. drv.live = Corr(Cur) \/ (drv.untyped # Nothing /\ drv.untyped.corr = Corr(Cur))
    BY <1>3, <1>4 DEF Accounted
  <2>2. Corr(Cur) \in Corrs /\ Corr(Cur) # Nothing /\ Corr(Cur).epoch = Cur.epoch
    BY <1>1, NothingIsNone DEF Corr, Corrs, Slots
  <2>3. Cur.phase = "PENDING"
    BY <1>1, <1>3, <1>4, <2>1, <2>2 DEF Taken, CanceledAt
  <2>4. Cur.epoch = 0
    BY <1>1, <1>4, <2>3 DEF SlotLine, Fresh
  <2> QED BY <2>1, <2>2, <2>4 DEF Bookkeeping, Books, Epochs
<1> QED BY <1>1, <1>2, <1>3, <1>4

\* A pass that leaves the store alone keeps the shelf.
LEMMA PassShelf ==
    ASSUME Bookkeeping, Others, store' = store, count' = count, ext'.open \subseteq ext.open, ~Releasing,
           drv'.live \in {drv.live, Nothing}, drv'.untyped \in {drv.untyped, Nothing},
           drv'.inflight \in {drv.inflight, Nothing}, drv'.amb = drv.amb, ~drv'.pruning
    PROVE  Shelf'
<1> USE DEF Bookkeeping, Books, Others, Shelf
<1>1. Sequence' /\ Plain'
  BY DEF Sequence, Plain, Cur, Res, Last, SlotLine, Fresh, Owing, Open
<1>2. Epochs' /\ Fencing'
  BY DEF Epochs, Fencing, Cur, Res, Releasing
<1> QED BY <1>1, <1>2

\* Settling the slot that was dispatched.
LEMMA DispatchSettles ==
    ASSUME Bookkeeping, Others, store' = store, count' = count, ext' = ext,
           rc.pc = "dispatch", ~drv.deciding, rc.t.cur # Nothing, ~Terminal(Cur),
           NEW d \in Drivers, NEW k \in Settlements, Settles(d, Cur, k),
           d.live = drv.live, d.inflight \in {drv.inflight, Nothing},
           d.untyped \in {drv.untyped, Nothing}, d.pruning = drv.pruning, d.amb = drv.amb,
           drv.quarantined => d.quarantined, k = "replaced" => ~d.quarantined,
           ~d.quarantined => d.untyped = Nothing /\ (drv.untyped = Nothing \/ Cur.native)
    PROVE  Books'
<1>1. /\ Cur \in Slots /\ Cur # Nothing /\ ~Releasing /\ ~drv.pruning
      /\ ~drv.quarantined =>
                 /\ Accounted /\ Taken
                 /\ drv.untyped = Nothing \/ CanceledAt
                 /\ Own => Superseded
                 /\ ~Cur.native => Corr(Cur) \notin ext.open
  BY DispatchFacts
<1>2. /\ drv'.live = d.live /\ drv'.inflight = d.inflight /\ drv'.untyped = d.untyped
      /\ drv'.pruning = d.pruning /\ drv'.amb = d.amb /\ drv'.quarantined = d.quarantined
  BY DEF Settles, Alike
<1>3. Shelf'
  BY <1>1, <1>2, PassShelf
<1>4. ~d.quarantined => Accounted' /\ Taken'
  BY <1>1, <1>2 DEF Accounted, Taken, Cur, CanceledAt, Terminal, Owing, Corr
<1>5. ~d.quarantined => (Own' => Superseded')
  BY <1>1, <1>2 DEF Own, Superseded, Cur, Res
<1>6. ~d.quarantined => (~Cur.native => Corr(Cur) \notin ext'.open)
  BY <1>1
<1> HIDE DEF Own, Superseded, Accounted, Taken
<1>7. ~d.quarantined =>
              /\ Accounted' /\ Taken' /\ d.untyped = Nothing
              /\ ~Cur.native => Corr(Cur) \notin ext'.open
              /\ Own' => k = "exhausted" \/ Superseded'
              /\ Own' /\ drv'.inflight.fenced => Superseded'
  BY <1>4, <1>5, <1>6
<1> QED BY <1>3, <1>7, SettleBooks

LEMMA CancelBooks ==
    ASSUME Bookkeeping, Others, store' = store, count' = count, ext' = ext,
           rc.pc = "dispatch", ~drv.deciding, rc.t.cur # Nothing, Cur.phase # "CLEANUP",
           Cur.kind \in {"CANCEL", "START"}, StepCancel(drv, Cur)
    PROVE  Books'
<1> DEFINE d == [drv EXCEPT !.untyped = Nothing, !.inflight = Nothing]
<1>1. /\ Cur \in Slots /\ Cur # Nothing /\ SlotLine(Cur)
      /\ ~drv.quarantined => drv.untyped = Nothing \/ CanceledAt
  BY DispatchFacts
<1>2. /\ d \in Drivers /\ d.live = drv.live /\ d.inflight = Nothing /\ d.untyped = Nothing
      /\ d.pruning = drv.pruning /\ d.amb = drv.amb /\ d.quarantined = drv.quarantined
  BY BookFacts DEF Drivers
<1>3. SettleObligations(d, Cur, "canceled")
  BY DEF StepCancel
<1> HIDE DEF d
<1>4. ~Terminal(Cur) /\ SettleLine(Cur, "canceled", d.quarantined) /\ Cur' = Cur
  BY DEF SettleLine, Terminal, Cur
<1>5. Settles(d, Cur, "canceled")
  BY <1>1, <1>2, <1>3, <1>4, SettleLands DEF Settlements
<1>6. drv.untyped = Nothing \/ ~CanceledAt \/ Cur.native
  BY <1>1 DEF CanceledAt, SlotLine, Fresh, Corr, Bookkeeping, Books, Epochs
<1> QED BY <1>1, <1>2, <1>4, <1>5, <1>6, DispatchSettles DEF Settlements

\* The books of a reconciler about to begin or to end the current slot.
LEMMA BeginBooks ==
    ASSUME Shelf', rc'.pc = "commit", rc'.k \in {"begun", "ended", "assigned"}, Cur' # Nothing,
           CommitLine(Cur, rc.t, rc.k)',
           rc'.k # "begun" \/ rc'.t.kind = "RESTART" => ~drv'.quarantined,
           ~drv'.quarantined =>
              /\ Accounted' /\ Taken' /\ drv'.untyped = Nothing /\ (Own' => Superseded')
              /\ rc'.k = "assigned" => drv'.live = Nothing /\ ext'.open = {}
    PROVE  Books'
<1> USE DEF Shelf, Books
<1>1. InHand' /\ Calm'
  BY DEF InHand, Calm, SettlePcs, AttemptPcs, Starting, OnSetup, AtUntyped, UntypedPcs, OnAttempt, OfAttempt,
     Settlements
<1>2. ~drv'.quarantined => Ledger'
  BY DEF Ledger, Taken, LiveLine, UntypedLine, OpenLine, InflightLine,
     SettlePcs, AttemptPcs, OnSetup, AtUntyped, UntypedPcs, SlotPcs, Unopened, Settlements, Releasing
<1> QED BY <1>1, <1>2

\* The current slot t owes nothing, and ends or gets a new epoch.
LEMMA ReplaceBooks ==
    ASSUME NEW d \in Drivers, NEW t \in Slots, NEW now, Replace(d, t, now), count' = count,
           Cur' = t, Shelf', ~Owing(t), t.phase # "CLEANUP", t.kind \in {"START", "RESTART"},
           t.epoch # 0 => t.phase = "ACTIVE",
           ~d.quarantined, d.untyped = Nothing, d.live = Nothing, ext'.open = {},
           Own' => Superseded'
    PROVE  Books'
<1>n. t # Nothing
  BY NothingIsNoSlot
<1>d. drv' = d
  BY DEF Replace, Assign
<1>a. Accounted' /\ Taken'
  BY <1>d DEF Accounted, Taken
<1>1. CASE t.epoch # 0 /\ rc' = At("commit", Discharged(t), "ended")
  <2>1. rc'.pc = "commit" /\ rc'.k = "ended" /\ rc'.t = Discharged(t)
    BY <1>1 DEF At
  <2>2. CommitLine(Cur, rc.t, rc.k)'
    BY <1>1, <2>1 DEF CommitLine, Settlements, OfAttempt, Owing
  <2> QED BY <1>n, <1>d, <1>a, <2>1, <2>2, BeginBooks
<1>2. CASE Assign(d, t)
  <2>1. /\ rc'.pc = "commit" /\ rc'.k = "assigned"
        /\ rc'.t = Begun(t, [epoch |-> count.epochs + 1, gen |-> 1],
                         IF t.due = <<>> THEN SlotDeadline(t.seq) ELSE t.due)
    BY <1>2 DEF At, Assign
  <2>2. CommitLine(Cur, rc.t, rc.k)'
    BY <2>1 DEF CommitLine, Settlements, OfAttempt, Owing, Begun, SlotDeadline
  <2> QED BY <1>n, <1>d, <1>a, <2>1, <2>2, BeginBooks
<1> QED BY <1>1, <1>2 DEF Replace

\* The current slot takes the live generation over, or has none to stop.
LEMMA DispatchBegins ==
    ASSUME Bookkeeping, Others, store' = store, count' = count, ext' = ext, drv' = drv,
           rc.pc = "dispatch", ~drv.deciding, rc.t.cur # Nothing,
           Cur.phase = "PENDING", Cur.kind \in {"STOP", "RESTART"},
           Cur.kind = "RESTART" => ~drv.quarantined,
           NEW z, rc' = At("commit", z, "begun"),
           \/ z = [Cur EXCEPT !.phase = "CLEANUP"] /\ Cur.kind = "STOP" /\ drv.live = Nothing
           \/ drv.live # Nothing /\ z = Begun(Cur, drv.live, SlotDeadline(Cur.seq))
    PROVE  Books'
<1>1. /\ Cur \in Slots /\ Cur # Nothing /\ ~Releasing /\ ~drv.pruning
      /\ ~drv.quarantined => /\ Accounted /\ Taken
                             /\ drv.untyped = Nothing \/ CanceledAt
                             /\ Own => Superseded
  BY DispatchFacts
<1>2. Cur' = Cur /\ Res' = Res
  BY DEF Cur, Res
<1>3. rc'.pc = "commit" /\ rc'.k = "begun" /\ rc'.t = z
  BY DEF At
<1>4. z.kind = Cur.kind
  BY <1>1 DEF Begun, Slots
<1>5. Shelf'
  BY <1>1, PassShelf
<1>6. CommitLine(Cur, rc.t, rc.k)'
  BY <1>2, <1>3 DEF CommitLine, Settlements, OfAttempt, Begun, SlotDeadline
<1>7. ~drv.quarantined => Accounted' /\ Taken' /\ drv'.untyped = Nothing /\ (Own' => Superseded')
  BY <1>1, <1>2 DEF Accounted, Taken, CanceledAt, Own, Superseded, Terminal, Owing, Corr
<1> QED BY <1>1, <1>2, <1>3, <1>4, <1>5, <1>6, <1>7, BeginBooks

LEMMA DispatchStarts ==
    ASSUME Bookkeeping, Others, store' = store, count' = count, ext' = ext,
           rc.pc = "dispatch", ~drv.deciding, rc.t.cur # Nothing, ~drv.quarantined,
           Cur.phase # "CLEANUP", Cur.kind \in {"START", "RESTART"},
           Cur.kind = "START" => rc.t.res = Nothing,
           ~(Cur.kind = "RESTART" /\ Cur.phase = "PENDING" /\ drv.live # Nothing),
           NEW now, StepStart(drv, Cur, now)
    PROVE  Books'
<1>1. /\ Cur \in Slots /\ Cur # Nothing /\ SlotLine(Cur) /\ ~Releasing /\ ~drv.pruning
      /\ Accounted /\ Taken /\ (drv.untyped = Nothing \/ CanceledAt)
      /\ (Own => Superseded /\ rc.t.res # Nothing)
  BY DispatchFacts
<1>2. Cur' = Cur /\ Res' = Res /\ drv \in Drivers
  BY BookFacts DEF Cur, Res
<1>3. ~Own /\ drv.untyped = Nothing /\ ~Terminal(Cur)
  BY <1>1 DEF Superseded, CanceledAt, Terminal
<1>4. ~Mine(drv, Cur)
  BY <1>1, <1>3 DEF Own, Mine
<1>5. CASE Cur.epoch # 0 /\ Owing(Cur) /\ SettleObligations(drv, Cur, "replaced")
  <2>1. Cur.phase = "ACTIVE"
    BY <1>1, <1>5 DEF SlotLine, Fresh, Slots
  <2>2. SettleLine(Cur, "replaced", drv.quarantined)
    BY <1>3, <2>1 DEF SettleLine
  <2>3. Settles(drv, Cur, "replaced")
    BY <1>1, <1>2, <1>5, <2>2, SettleLands DEF Settlements
  <2> QED BY <1>2, <1>3, <2>3, DispatchSettles DEF Settlements
<1>6. CASE ~(Cur.epoch # 0 /\ Owing(Cur)) /\ Replace(drv, Cur, now)
  <2>1. drv' = drv
    BY <1>6 DEF Replace, Assign
  <2>2. ~Owing(Cur) /\ (Cur.epoch # 0 => Cur.phase = "ACTIVE")
    BY <1>1, <1>6 DEF SlotLine, Fresh, Slots, Owing
  <2>3. drv.live = Nothing
    BY <1>1, <1>3, <2>2 DEF Taken, SlotLine, Fresh, Owing, Slots
  <2>4. ext.open = {}
    <3>1. ext.open \subseteq Corrs
      BY DEF Bookkeeping, Books, Epochs
    <3> QED BY <1>1, <1>3, <2>2, <2>3, <3>1, NothingIsNone DEF Accounted, Owing
  <2>5. Shelf'
    BY <1>1, <2>1, PassShelf
  <2>6. Own' => Superseded'
    BY <1>2, <1>3, <2>1 DEF Own
  <2> QED BY <1>1, <1>2, <1>3, <1>6, <2>1, <2>2, <2>3, <2>4, <2>5, <2>6, ReplaceBooks
<1> QED BY <1>4, <1>5, <1>6 DEF StepStart

\* A pass that ends asleep, over a driver that it may quarantine.
LEMMA DispatchSkips ==
    ASSUME Bookkeeping, Others, store' = store, count' = count, ext' = ext, rc.pc = "dispatch",
           rc' = Asleep, NEW q \in BOOLEAN, drv.quarantined => q, drv' = [drv EXCEPT !.quarantined = q]
    PROVE  Books'
<1>1. rc'.pc = "idle" /\ ext'.open = ext.open
  BY DEF Asleep, At
<1>2. /\ drv'.live = drv.live /\ drv'.untyped = drv.untyped /\ drv'.inflight = drv.inflight
      /\ drv'.pruning = drv.pruning /\ drv'.amb = drv.amb /\ drv'.quarantined = q
  BY BookFacts DEF Drivers
<1>3. ~drv.pruning
  BY DEF Bookkeeping, Books, Plain
<1>4. Shelf'
  <2> USE DEF Bookkeeping, Books, Others, Shelf
  <2>1. Sequence' /\ Plain'
    BY <1>2, <1>3 DEF Sequence, Plain, Cur, Res, Last, SlotLine, Fresh, Owing, Open
  <2>2. Epochs' /\ Fencing'
    BY <1>1, <1>2 DEF Epochs, Fencing, Cur, Res, Releasing, SlotPcs, Own, Superseded
  <2> QED BY <2>1, <2>2
<1>5. ~q => /\ Accounted' /\ Taken'
            /\ drv'.untyped = Nothing \/ CanceledAt'
            /\ Own' => Superseded'
  BY <1>2 DEF Bookkeeping, Books, Ledger, LiveLine, UntypedLine, InflightLine, UntypedPcs,
     OnAttempt, AttemptPcs, SettlePcs, Taken, Accounted, CanceledAt, Own, Superseded, Cur, Res,
     Terminal, Owing, Corr
<1> QED BY <1>1, <1>2, <1>4, <1>5, LetGo

LEMMA WithoutWorkBooks ==
    ASSUME Bookkeeping, Others, store' = store, count' = count, ext' = ext,
           rc.pc = "dispatch", ~drv.deciding, rc.t.cur = Nothing, WithoutWork(rc.t)
    PROVE  Books'
<1>1. CASE Skip(drv)
  <2>1. drv' = [drv EXCEPT !.quarantined = drv.quarantined]
    BY <1>1, BookFacts DEF Skip, Drivers
  <2> QED BY <1>1, <2>1, BookFacts, DispatchSkips DEF Skip
<1>2. CASE Skip([drv EXCEPT !.quarantined = TRUE])
  BY <1>2, DispatchSkips DEF Skip
<1>3. CASE /\ ~drv.quarantined /\ NeedsUntyped(rc.t)
           /\ rc' = At("u_install", Nothing, "none") /\ UNCHANGED drv
  <2>1. rc'.pc = "u_install" /\ rc'.t = Nothing /\ rc'.k = "none"
    BY <1>3 DEF At
  <2>2. ~Releasing /\ ~drv.pruning
    BY BookFacts DEF Bookkeeping, Books, Plain
  <2>3. drv' = drv /\ drv.live = Nothing /\ drv.untyped = Nothing /\ rc.t.desired = "RUNNING"
    BY <1>3 DEF NeedsUntyped
  <2>4. Shelf'
    BY <2>2, <2>3, PassShelf
  <2>5. Cur = Nothing => store.rec.desired = "RUNNING"
    BY <2>3 DEF Bookkeeping, Books, InHand
  <2>6. ext.open = {}
    BY <1>3, <2>3, NothingIsNone DEF Bookkeeping, Books, Epochs, Ledger, Accounted, UntypedLine
  <2>7. Own => Superseded
    BY <1>3 DEF Bookkeeping, Books, Ledger, InflightLine, OnAttempt, AttemptPcs, SettlePcs
  <2>8. InHand' /\ Calm'
    BY <1>3, <2>1 DEF InHand, Calm, SettlePcs, AttemptPcs
  <2>9. Ledger'
    BY <2>1, <2>2, <2>3, <2>5, <2>6, <2>7 DEF Ledger, Accounted, LiveLine, UntypedLine, OpenLine, InflightLine,
       SettlePcs, AttemptPcs, OnSetup, AtUntyped, UntypedPcs, SlotPcs, Own, Superseded, Cur, Res
  <2> QED BY <2>4, <2>8, <2>9 DEF Books, Shelf
<1> QED BY <1>1, <1>2, <1>3 DEF WithoutWork

\* A terminal slot is taken up to be pruned.
LEMMA DispatchPrunes ==
    ASSUME Bookkeeping, Others, store' = store, count' = count, ext' = ext, drv' = drv,
           rc.pc = "dispatch", ~drv.deciding, rc.t.cur # Nothing, Terminal(Cur),
           \/ rc' = At("finish", Cur, "none")
           \/ rc.t.res # Nothing /\ rc' = At("prune", rc.t.res, "none")
    PROVE  Books'
<1>1. /\ Cur \in Slots /\ Cur # Nothing /\ ~Releasing /\ ~drv.pruning
      /\ rc.t.res # Nothing => rc.t.res = Res
      /\ ~drv.quarantined => /\ Accounted /\ Taken /\ (drv.untyped = Nothing \/ CanceledAt)
                             /\ Own => Superseded
  BY DispatchFacts
<1>2. Cur' = Cur /\ Res' = Res
  BY DEF Cur, Res
<1>3. Shelf'
  BY <1>1, PassShelf
<1>4. \/ rc'.pc = "finish" /\ rc'.t = Cur /\ rc'.k = "none"
      \/ rc'.pc = "prune" /\ rc'.t = Res /\ rc'.k = "none" /\ Res # Nothing
  BY <1>1 DEF At
<1>5. InHand' /\ Calm'
  BY <1>1, <1>2, <1>4 DEF InHand, Calm, SettlePcs, AttemptPcs, Starting, OnSetup, AtUntyped, UntypedPcs,
     OnAttempt, Terminal, Owing
<1>6. ~drv.quarantined => Ledger'
  BY <1>1, <1>2, <1>4 DEF Ledger, Accounted, Taken, LiveLine, UntypedLine, OpenLine, InflightLine,
     SettlePcs, AttemptPcs, OnSetup, AtUntyped, UntypedPcs, SlotPcs, Unopened, Releasing, CanceledAt,
     Own, Superseded, Terminal, Owing, Corr
<1> QED BY <1>3, <1>5, <1>6 DEF Books, Shelf

LEMMA ProgressBooks ==
    ASSUME Bookkeeping, Others, store' = store, count' = count, ext' = ext,
           rc.pc = "dispatch", ~drv.deciding, rc.t.cur # Nothing, ~Terminal(Cur),
           drv.quarantined => \/ Cur.phase # "CLEANUP" /\ Cur.kind = "STOP"
                              \/ Cur.phase = "CLEANUP" /\ ~Cur.native,
           NEW now, Progress(rc.t, Cur, now)
    PROVE  Books'
<1>1. /\ Cur \in Slots /\ Cur # Nothing /\ SlotLine(Cur)
      /\ ~drv.quarantined => drv.untyped = Nothing \/ CanceledAt
  BY DispatchFacts
<1>2. drv \in Drivers /\ Cur' = Cur
  BY BookFacts DEF Cur
<1>3. CASE Cur.phase # "PENDING" /\ Cur.kind = "STOP" /\ SettleObligations(drv, Cur, "stopped")
  <2>1. SettleLine(Cur, "stopped", drv.quarantined)
    BY <1>3 DEF SettleLine
  <2>2. Settles(drv, Cur, "stopped")
    BY <1>1, <1>2, <1>3, <2>1, SettleLands DEF Settlements
  <2>3. ~drv.quarantined => drv.untyped = Nothing
    BY <1>1, <1>3 DEF CanceledAt
  <2> QED BY <1>2, <2>2, <2>3, DispatchSettles DEF Settlements
<1>4. CASE Cur.phase = "CLEANUP" /\ Cur.kind # "STOP" /\ SettleObligations(drv, Cur, "cleaned")
  <2>1. SettleLine(Cur, "cleaned", drv.quarantined)
    BY <1>4 DEF SettleLine
  <2>2. Settles(drv, Cur, "cleaned")
    BY <1>1, <1>2, <1>4, <2>1, SettleLands DEF Settlements
  <2>3. ~drv.quarantined => drv.untyped = Nothing
    BY <1>1, <1>4 DEF CanceledAt
  <2> QED BY <1>2, <2>2, <2>3, DispatchSettles DEF Settlements
<1>5. CASE /\ Cur.phase # "CLEANUP" /\ Cur.kind \in {"CANCEL", "START"} /\ StepCancel(drv, Cur)
  BY <1>5, CancelBooks
<1>6. CASE /\ Cur.kind = "STOP" /\ Cur.phase = "PENDING" /\ StepStop(drv, Cur)
  <2>1. CASE /\ drv.live = Nothing /\ drv' = drv
             /\ rc' = At("commit", [Cur EXCEPT !.phase = "CLEANUP"], "begun")
    BY <1>6, <2>1, DispatchBegins
  <2>2. CASE /\ drv.live # Nothing /\ drv' = drv
             /\ rc' = At("commit", Begun(Cur, drv.live, SlotDeadline(Cur.seq)), "begun")
    BY <1>6, <2>2, DispatchBegins
  <2> QED BY <1>6, <2>1, <2>2 DEF StepStop
<1>7. CASE Cur.phase # "CLEANUP" /\ Cur.kind = "RESTART" /\ StepRestart(drv, Cur, now)
  <2>1. CASE /\ Cur.phase = "PENDING" /\ drv.live # Nothing /\ drv' = drv
             /\ rc' = At("commit", Begun(Cur, drv.live, SlotDeadline(Cur.seq)), "begun")
    BY <1>7, <2>1, DispatchBegins
  <2>2. CASE ~(Cur.phase = "PENDING" /\ drv.live # Nothing) /\ StepStart(drv, Cur, now)
    BY <1>7, <2>2, DispatchStarts
  <2> QED BY <1>7, <2>1, <2>2 DEF StepRestart
<1>8. CASE /\ Cur.phase # "CLEANUP" /\ Cur.kind = "START" /\ rc.t.res = Nothing
           /\ StepStart(drv, Cur, now)
  BY <1>8, DispatchStarts
<1> QED BY <1>3, <1>4, <1>5, <1>6, <1>7, <1>8 DEF Progress, StepStop

\* A cleanup whose attempts are spent ends in quarantine or in wait.
LEMMA DispatchSpent ==
    ASSUME Bookkeeping, Others, store' = store, count' = count, ext' = ext,
           rc.pc = "dispatch", ~drv.deciding, rc.t.cur # Nothing, ~Terminal(Cur),
           Cur.phase = "CLEANUP", NEW now, AfterCleanup(drv, Cur, now)
    PROVE  Books'
<1>1. /\ Cur \in Slots /\ Cur # Nothing /\ ~Releasing /\ ~drv.pruning
      /\ ~drv.quarantined => /\ Accounted /\ Taken
                             /\ drv.untyped = Nothing \/ CanceledAt
                             /\ Own => Superseded
  BY DispatchFacts
<1>2. drv \in Drivers /\ Cur' = Cur /\ Res' = Res
  BY BookFacts DEF Cur, Res
<1>3. /\ rc'.pc \in {"idle", "read"}
      /\ drv'.pruning = drv.pruning /\ drv'.amb = drv.amb
      /\ drv'.untyped = drv.untyped /\ drv'.inflight = drv.inflight
      /\ drv'.live # Nothing => drv'.live = drv.live
      /\ Cur.native => drv'.quarantined
      /\ ~Cur.native => Closed(drv, Cur, drv')
  BY <1>1, <1>2, CleanupOutcome
<1>4. Shelf'
  BY <1>1, <1>3, PassShelf
<1>5. ASSUME ~drv'.quarantined
      PROVE  /\ Accounted' /\ Taken' /\ (drv'.untyped = Nothing \/ CanceledAt')
             /\ Own' => Superseded'
  <2>1. ~drv.quarantined /\ ~Cur.native
    BY <1>3, <1>5 DEF Closed
  <2>2. drv.live = Nothing
    BY <1>1, <2>1 DEF Taken
  <2> QED BY <1>1, <1>2, <1>3, <2>1, <2>2 DEF Accounted, Taken, CanceledAt, Own, Superseded, Corr
<1> QED BY <1>3, <1>4, <1>5, LetGo

LEMMA DispatchBooks ==
    ASSUME Bookkeeping, Dispatch
    PROVE  Books'
<1>o. /\ Others /\ store' = store /\ count' = count /\ ext' = ext /\ rc.pc = "dispatch"
  BY DEF Dispatch, Others
<1>d. drv \in Drivers /\ drv.quarantined \in BOOLEAN /\ drv = [drv EXCEPT !.quarantined = drv.quarantined]
  BY BookFacts DEF Drivers
<1>1. CASE Skip(drv)
  BY <1>o, <1>d, <1>1, DispatchSkips DEF Skip
<1>2. CASE ~Held /\ rc.t.cur = Nothing /\ WithoutWork(rc.t)
  BY <1>o, <1>2, WithoutWorkBooks DEF Held
<1>3. ASSUME ~Held, rc.t.cur # Nothing, NEW now, WithWork(rc.t, rc.t.cur, now)
      PROVE  Books'
  <2>1. ~drv.deciding
    BY <1>3 DEF Held
  <2>2. rc.t.cur = Cur /\ Cur \in Slots /\ Cur # Nothing
    BY <1>o, <1>3, <2>1, DispatchFacts
  <2>3. WithWork(rc.t, Cur, now) /\ Cur' = Cur
    BY <1>o, <1>3, <2>2 DEF Cur
  <2>4. CASE Terminal(Cur) /\ rc' = At("finish", Cur, "none") /\ drv' = drv
    BY <1>o, <1>3, <2>1, <2>4, DispatchPrunes
  <2>5. CASE Terminal(Cur) /\ rc.t.res # Nothing /\ rc' = At("prune", rc.t.res, "none") /\ drv' = drv
    BY <1>o, <1>3, <2>1, <2>5, DispatchPrunes
  <2>6. CASE /\ ~Terminal(Cur) /\ drv.quarantined /\ Exhaust(drv, Cur, TRUE)
    <3> DEFINE d == [drv EXCEPT !.quarantined = @ \/ TRUE]
    <3>1. /\ d \in Drivers /\ d.live = drv.live /\ d.inflight = drv.inflight /\ d.untyped = drv.untyped
          /\ d.pruning = drv.pruning /\ d.amb = drv.amb /\ d.quarantined
      BY <1>d DEF Drivers
    <3>2. SettleObligations(d, Cur, "exhausted")
      BY <2>6 DEF Exhaust
    <3> HIDE DEF d
    <3>3. SettleLine(Cur, "exhausted", d.quarantined)
      BY <2>6, <3>1 DEF SettleLine
    <3>4. Settles(d, Cur, "exhausted")
      BY <2>2, <2>3, <3>1, <3>2, <3>3, SettleLands DEF Settlements
    <3> QED BY <1>o, <1>3, <2>1, <2>6, <3>1, <3>4, DispatchSettles DEF Settlements
  <2>7. CASE Skip(drv)
    BY <1>1, <2>7
  <2>8. CASE /\ ~Terminal(Cur) /\ Cur.phase = "CLEANUP" /\ AfterCleanup(drv, Cur, now)
    BY <1>o, <1>3, <2>1, <2>8, DispatchSpent
  <2>9. CASE /\ ~Terminal(Cur) /\ Progress(rc.t, Cur, now)
             /\ drv.quarantined => \/ Cur.phase # "CLEANUP" /\ Cur.kind = "STOP"
                                   \/ Cur.phase = "CLEANUP" /\ ~Cur.native
    BY <1>o, <1>3, <2>1, <2>9, ProgressBooks
  <2> QED BY <2>3, <2>4, <2>5, <2>6, <2>7, <2>8, <2>9 DEF WithWork
<1> QED BY <1>1, <1>2, <1>3 DEF Dispatch

LEMMA PhaseRanks ==
    PhaseRank("PENDING") = 1 /\ PhaseRank("ACTIVE") = 2 /\ PhaseRank("CLEANUP") = 3
<1>1. Phases[1] = "PENDING" /\ Phases[2] = "ACTIVE" /\ Phases[3] = "CLEANUP"
  BY DEF Phases
<1>2. \A p \in {"PENDING", "ACTIVE", "CLEANUP"} :
         \E i \in 1 .. 3 : Phases[i] = p
  BY <1>1
<1>3. ASSUME NEW p \in {"PENDING", "ACTIVE", "CLEANUP"}
      PROVE  PhaseRank(p) \in 1 .. 3 /\ Phases[PhaseRank(p)] = p
  BY <1>2 DEF PhaseRank
<1> QED BY <1>1, <1>3

LEMMA LimitsOrdered ==
    StartLimit \in Nat /\ CleanupLimit = StartLimit + 1 /\ CleanupLimit <= DefaultMaxAttempts
<1>1. MaxAttempts \in Nat /\ DefaultMaxAttempts \in Nat /\ DefaultMaxAttempts > 1
  BY ControlBounds
<1> QED BY <1>1 DEF StartLimit, CleanupLimit

LEMMA Allowed ==
    ASSUME NEW c \in Slots, NEW z \in Slots,
           z.kind = c.kind, z.seq = c.seq, z.rev = c.rev,
           z.phase = c.phase \/ c.phase = "PENDING" \/ z.phase = "CLEANUP",
           c.used <= z.used, z.used <= CleanupLimit,
           c.due # <<>> => z.due = c.due,
           c.epoch # 0 =>
              \/ z.epoch # 0 /\ z.epoch # c.epoch /\ ~Owing(c)
              \/ /\ z.epoch = c.epoch /\ c.gen <= z.gen
                 /\ (z.native => c.native) /\ (z.semantic => c.semantic)
    PROVE  WorkUpdate(c, z)
<1>1. c # Nothing /\ z # Nothing
  BY NothingIsNoSlot
<1>2. PhaseRank(z.phase) >= PhaseRank(c.phase)
  BY PhaseRanks DEF Slots
<1>3. z.used >= c.used /\ z.used <= DefaultMaxAttempts
  <2>1. c.used \in Nat /\ z.used \in Nat /\ DefaultMaxAttempts \in Nat
    BY ControlBounds DEF Slots
  <2> QED BY <2>1, LimitsOrdered
<1>4. c.epoch # 0 =>
          IF z.epoch # c.epoch THEN z.epoch # 0 /\ ~Owing(c)
          ELSE /\ z.gen >= c.gen
               /\ \/ c.phase = "PENDING" /\ z.phase = "ACTIVE"
                  \/ (z.native => c.native) /\ (z.semantic => c.semantic)
  BY DEF Slots
<1> QED BY <1>1, <1>2, <1>3, <1>4 DEF WorkUpdate, SameIdentity

\* What is to be written over the current slot is a slot it may become, and the
\* store does not refuse it.
LEMMA CommitFacts ==
    ASSUME Bookkeeping, rc.pc \in {"charge", "commit"}
    PROVE  /\ Cur \in Slots /\ Cur # Nothing /\ rc.t \in Slots
           /\ rc.t.kind = Cur.kind /\ rc.t.seq = Cur.seq /\ SlotLine(rc.t)
           /\ rc.t.epoch = IF rc.pc = "commit" /\ rc.k = "assigned" THEN count.epochs + 1
                           ELSE IF rc.pc = "commit" /\ rc.k = "begun" /\ drv.live # Nothing THEN drv.live.epoch
                           ELSE Cur.epoch
           /\ Updatable
<1>1. /\ Cur \in Slots /\ Cur # Nothing /\ rc.t \in Slots /\ SlotLine(Cur)
      /\ rc.t.native \in BOOLEAN /\ rc.t.semantic \in BOOLEAN
  BY BookFacts DEF Bookkeeping, Books, InHand, Sequence, SettlePcs, Shape, RcShape, AtShape,
     UntypedPcs, AttemptPcs, Slots
<1>2. /\ Cur.used \in Nat /\ Cur.gen \in Nat /\ Cur.epoch \in Nat /\ count.epochs \in Nat
      /\ Cur.epoch <= count.epochs /\ Cur.seq \in Nat
  BY <1>1, BookFacts DEF Slots, Bookkeeping, Books, Epochs
<1>3. Open
  BY DEF Bookkeeping, Books, Plain
<1> DEFINE Fits ==
      /\ rc.t.kind = Cur.kind /\ rc.t.seq = Cur.seq /\ SlotLine(rc.t)
      /\ rc.t.epoch = IF rc.pc = "commit" /\ rc.k = "assigned" THEN count.epochs + 1
                      ELSE IF rc.pc = "commit" /\ rc.k = "begun" /\ drv.live # Nothing THEN drv.live.epoch
                      ELSE Cur.epoch
      /\ WorkUpdate(Cur, rc.t)
<1> SUFFICES Fits
  BY <1>1, <1>3 DEF Updatable, Cur
<1>4. CASE rc.pc = "charge"
  <2>1. rc.t = [Cur EXCEPT !.used = @ + 1] /\ Cur.used < CleanupLimit /\ Owing(Cur)
    BY <1>4 DEF Bookkeeping, Books, InHand
  <2>2. /\ rc.t.kind = Cur.kind /\ rc.t.seq = Cur.seq /\ rc.t.rev = Cur.rev /\ rc.t.phase = Cur.phase
        /\ rc.t.used = Cur.used + 1 /\ rc.t.due = Cur.due /\ rc.t.epoch = Cur.epoch /\ rc.t.gen = Cur.gen
        /\ rc.t.native = Cur.native /\ rc.t.semantic = Cur.semantic
    BY <1>1, <2>1 DEF Slots
  <2>3. Cur.used + 1 <= CleanupLimit
    BY <1>2, <2>1, LimitsOrdered
  <2>4. WorkUpdate(Cur, rc.t)
    BY <1>1, <1>2, <2>2, <2>3, Allowed
  <2>5. SlotLine(rc.t)
    BY <1>1, <2>1, <2>2, <2>3 DEF SlotLine, Fresh, Owing
  <2> QED BY <1>4, <2>2, <2>4, <2>5
<1>5. CASE rc.pc = "commit" /\ rc.k \in Settlements
  <2>0. /\ rc.t = Settled(Cur, rc.k, rc.t.native, rc.t.semantic)
        /\ (rc.t.native => Cur.native) /\ (rc.t.semantic => Cur.semantic)
        /\ rc.k = "replaced" => Cur.phase = "ACTIVE"
    BY <1>5 DEF Bookkeeping, Books, InHand, CommitLine, SettlePcs, SettleLine
  <2>1. /\ rc.t.kind = Cur.kind /\ rc.t.seq = Cur.seq /\ rc.t.rev = Cur.rev
        /\ rc.t.used = Cur.used /\ rc.t.due = Cur.due /\ rc.t.epoch = Cur.epoch /\ rc.t.gen = Cur.gen
        /\ rc.t.phase = IF rc.k = "replaced" /\ ~rc.t.native THEN Cur.phase ELSE "CLEANUP"
    BY <1>1, <2>0, SettledFields
  <2>2. WorkUpdate(Cur, rc.t)
    BY <1>1, <1>2, <2>0, <2>1, Allowed DEF SlotLine
  <2>3. SlotLine(rc.t)
    BY <1>1, <2>0, <2>1 DEF SlotLine
  <2> QED BY <1>5, <2>1, <2>2, <2>3 DEF Settlements
<1>6. CASE rc.pc = "commit" /\ rc.k \in {"completed", "ended"}
  <2>0. rc.t = Discharged(Cur)
    BY <1>6 DEF Bookkeeping, Books, InHand, CommitLine
  <2>1. /\ rc.t.kind = Cur.kind /\ rc.t.seq = Cur.seq /\ rc.t.rev = Cur.rev
        /\ rc.t.used = Cur.used /\ rc.t.due = Cur.due /\ rc.t.epoch = Cur.epoch /\ rc.t.gen = Cur.gen
        /\ rc.t.phase = "CLEANUP" /\ ~rc.t.native /\ ~rc.t.semantic
    BY <1>1, <2>0, DischargedFields
  <2>2. WorkUpdate(Cur, rc.t)
    BY <1>1, <1>2, <2>1, Allowed DEF SlotLine
  <2>3. SlotLine(rc.t)
    BY <1>1, <2>1 DEF SlotLine
  <2> QED BY <1>6, <2>1, <2>2, <2>3
<1>7. CASE rc.pc = "commit" /\ rc.k \in {"charged", "regen"}
  <2>0. /\ rc.k = "charged" => rc.t = [Cur EXCEPT !.used = @ + 1] /\ Cur.used < StartLimit
        /\ rc.k = "regen" => rc.t = [Cur EXCEPT !.gen = @ + 1]
        /\ Cur.phase = "ACTIVE"
    BY <1>7 DEF Bookkeeping, Books, InHand, CommitLine, OfAttempt
  <2>1. /\ rc.t.kind = Cur.kind /\ rc.t.seq = Cur.seq /\ rc.t.rev = Cur.rev /\ rc.t.phase = Cur.phase
        /\ rc.t.due = Cur.due /\ rc.t.epoch = Cur.epoch
        /\ rc.t.native = Cur.native /\ rc.t.semantic = Cur.semantic
        /\ \/ rc.t.gen = Cur.gen /\ rc.t.used = Cur.used + 1 /\ Cur.used < StartLimit
           \/ rc.t.gen = Cur.gen + 1 /\ rc.t.used = Cur.used
    BY <1>1, <1>7, <2>0 DEF Slots
  <2>2. rc.t.used <= CleanupLimit /\ Cur.used <= rc.t.used /\ Cur.gen <= rc.t.gen
    BY <1>1, <1>2, <2>1, LimitsOrdered DEF SlotLine
  <2>3. WorkUpdate(Cur, rc.t)
    BY <1>1, <1>2, <2>1, <2>2, Allowed
  <2>4. SlotLine(rc.t)
    BY <1>1, <2>0, <2>1, <2>2 DEF SlotLine
  <2> QED BY <1>7, <2>1, <2>3, <2>4
<1>8. CASE rc.pc = "commit" /\ rc.k = "begun"
  <2>0. /\ Cur.phase = "PENDING" /\ Cur.kind \in {"STOP", "RESTART"}
        /\ \/ rc.t = [Cur EXCEPT !.phase = "CLEANUP"] /\ drv.live = Nothing
           \/ drv.live # Nothing /\ rc.t = Begun(Cur, drv.live, SlotDeadline(Cur.seq))
    BY <1>8 DEF Bookkeeping, Books, InHand, CommitLine
  <2>1. Fresh(Cur)
    BY <1>1, <2>0 DEF SlotLine
  <2>2. drv.live # Nothing => drv.live \in Corrs /\ drv.live.epoch # 0
    BY BookFacts DEF Drivers, Bookkeeping, Books, Epochs
  <2>3. /\ rc.t.kind = Cur.kind /\ rc.t.seq = Cur.seq /\ rc.t.rev = Cur.rev /\ rc.t.used = Cur.used
        /\ drv.live # Nothing => rc.t.epoch = drv.live.epoch /\ rc.t.phase = "ACTIVE"
        /\ drv.live = Nothing => rc.t.epoch = Cur.epoch /\ rc.t.phase = "CLEANUP"
    <3>1. CASE drv.live = Nothing
      BY <1>1, <2>0, <3>1 DEF Slots
    <3>2. CASE drv.live # Nothing
      <4> DEFINE due == SlotDeadline(Cur.seq)
      <4>1. due \in Dues
        BY <1>2, SlotDue
      <4>2. rc.t = Begun(Cur, drv.live, due)
        BY <2>0, <3>2
      <4> HIDE DEF due
      <4> QED BY <1>1, <2>2, <3>2, <4>1, <4>2, BegunFields
    <3> QED BY <3>1, <3>2
  <2>4. WorkUpdate(Cur, rc.t)
    BY <1>1, <1>2, <2>0, <2>1, <2>3, Allowed DEF SlotLine, Fresh
  <2>5. SlotLine(rc.t)
    BY <1>1, <2>0, <2>2, <2>3 DEF SlotLine
  <2> QED BY <1>8, <2>3, <2>4, <2>5
<1>9. CASE rc.pc = "commit" /\ rc.k = "assigned"
  <2> DEFINE c == [epoch |-> count.epochs + 1, gen |-> 1]
             due == IF Cur.due = <<>> THEN SlotDeadline(Cur.seq) ELSE Cur.due
  <2>0. /\ ~Owing(Cur) /\ Cur.phase # "CLEANUP" /\ Cur.kind \in {"START", "RESTART"}
        /\ rc.t = Begun(Cur, c, due)
    BY <1>9 DEF Bookkeeping, Books, InHand, CommitLine
  <2>1. c \in Corrs /\ c.epoch = count.epochs + 1
    BY <1>2 DEF Corrs
  <2>2. due \in Dues /\ (Cur.due # <<>> => due = Cur.due)
    BY <1>1, <1>2, SlotDue DEF Slots
  <2> HIDE DEF c, due
  <2>3. /\ rc.t.kind = Cur.kind /\ rc.t.seq = Cur.seq /\ rc.t.rev = Cur.rev /\ rc.t.used = Cur.used
        /\ rc.t.epoch = count.epochs + 1 /\ rc.t.phase = "ACTIVE" /\ rc.t.due = due
    BY <1>1, <2>0, <2>1, <2>2, BegunFields
  <2>6. Cur.phase = "PENDING" \/ Cur.phase = "ACTIVE"
    BY <1>1, <2>0 DEF Slots
  <2>4. WorkUpdate(Cur, rc.t)
    BY <1>1, <1>2, <2>0, <2>2, <2>3, <2>6, Allowed DEF SlotLine
  <2>5. SlotLine(rc.t)
    BY <1>1, <1>2, <2>0, <2>3 DEF SlotLine
  <2> QED BY <1>9, <2>3, <2>4, <2>5
<1>10. rc.pc = "commit" => rc.k \in Settlements \cup OfAttempt \cup {"begun", "ended", "assigned"}
  BY CommitShape DEF Bookkeeping
<1> HIDE DEF Fits
<1> QED BY <1>4, <1>5, <1>6, <1>7, <1>8, <1>9, <1>10 DEF OfAttempt

\* A commit over the current slot.
LEMMA SavedShelf ==
    ASSUME Bookkeeping, Others, rc.pc \in {"charge", "commit"}, Saved, ~drv'.pruning,
           drv'.amb = drv.amb, drv'.untyped = drv.untyped, drv'.live \in {drv.live, Nothing},
           drv'.inflight \in {drv.inflight, Nothing} \/ drv'.inflight.seq = Cur.seq,
           ext'.open \subseteq ext.open, count'.epochs \in Nat,
           count.epochs <= count'.epochs, rc.t.epoch <= count'.epochs
    PROVE  /\ Shelf'
           /\ Cur' = rc.t /\ Res' = Res /\ store'.rec.desired = store.rec.desired
           /\ Own' => drv'.inflight.seq = Cur.seq /\ drv'.inflight # Nothing
           /\ Superseded' <=> Superseded
<1>1. /\ Cur \in Slots /\ Cur # Nothing /\ rc.t \in Slots
      /\ rc.t.kind = Cur.kind /\ rc.t.seq = Cur.seq /\ SlotLine(rc.t)
  BY CommitFacts
<1>2. /\ store'.rec = [store.rec EXCEPT !.cur = rc.t]
      /\ store'.status = store.status /\ store'.staged = store.staged
  BY DEF Saved, Committed, Updated, Bookkeeping, Shape
<1>3. /\ Cur' = rc.t /\ Res' = Res /\ store'.rec.desired = store.rec.desired
      /\ store'.rec.rev = store.rec.rev /\ store'.rec.seq = store.rec.seq
  BY <1>2, BookFacts DEF Cur, Res, Records
<1>4. rc.t # Nothing
  BY <1>1, NothingIsNoSlot
<1>5. Sequence'
  BY <1>1, <1>3, <1>4 DEF Bookkeeping, Books, Sequence, Last
<1>6. Epochs'
  <2>1. drv.live # Nothing => drv.live.epoch \in Nat
    BY BookFacts DEF Drivers, Corrs
  <2>2. drv.untyped # Nothing => drv.untyped.corr.epoch \in Nat
    BY BookFacts DEF Drivers, Corrs, Attempts
  <2> QED BY <1>3, <1>4, <2>1, <2>2, BookFacts DEF Bookkeeping, Books, Epochs
<1>7. Plain'
  BY <1>2, <1>3 DEF Bookkeeping, Books, Plain, Others, Open
<1>8. Superseded' <=> Superseded
  BY <1>1, <1>3, <1>4 DEF Superseded
<1>9. Fencing'
  <2>1. /\ drv'.inflight # Nothing =>
             drv'.inflight.seq <= store.rec.seq /\ (Res # Nothing => drv'.inflight.seq < Res.seq)
    BY <1>1, BookFacts DEF Bookkeeping, Books, Fencing
  <2>2. Releasing /\ req.fence => Superseded
    BY DEF Bookkeeping, Books, Fencing, SlotPcs
  <2> QED BY <1>3, <1>8, <2>1, <2>2 DEF Fencing, Others, Releasing
<1>10. Own' => drv'.inflight.seq = Cur.seq /\ drv'.inflight # Nothing
  BY <1>1, <1>3 DEF Own
<1> QED BY <1>3, <1>5, <1>6, <1>7, <1>8, <1>9, <1>10 DEF Shelf

\* While no write fails, no commit does.
LEMMA CommitsSucceed ==
    ASSUME Bookkeeping, count'.faults = 0, CommitFails
    PROVE  FALSE
<1>1. Open /\ Updatable
  BY CommitFacts DEF CommitFails, Updatable
<1>2. count.faults \in Nat /\ count \in [epochs : Nat, boots : Nat, faults : Nat]
  BY DEF Bookkeeping, Shape
<1>3. count'.faults = count.faults + 1
  BY <1>1, <1>2 DEF CommitFails, Faulty
<1> QED BY <1>2, <1>3

LEMMA SettleFacts ==
    ASSUME Bookkeeping, rc.pc \in SettlePcs, rc.k \in Settlements
    PROVE  /\ Cur \in Slots /\ Cur # Nothing /\ SettleLine(Cur, rc.k, drv.quarantined)
           /\ ~drv.pruning /\ (rc.k = "replaced" => ~drv.quarantined)
           /\ rc.t \in Slots
           /\ ~drv.quarantined =>
                 /\ Accounted /\ Taken /\ drv.untyped = Nothing
                 /\ ~rc.t.native => Corr(rc.t) \notin ext.open
                 /\ Own => rc.k = "exhausted" \/ Superseded
                 /\ Own /\ drv.inflight.fenced => Superseded
<1>1. Cur \in Slots /\ Cur # Nothing /\ SettleLine(Cur, rc.k, drv.quarantined) /\ ~drv.pruning
  BY BookFacts DEF Bookkeeping, Books, InHand, Plain, SettlePcs
<1>2. rc.k = "replaced" => ~drv.quarantined
  BY DEF Bookkeeping, Books, Calm, Starting
<1>3. rc.t \in Slots
  BY DEF Bookkeeping, Shape, RcShape, AtShape, SettlePcs, UntypedPcs, AttemptPcs
<1>4. ~drv.quarantined =>
                 /\ Accounted /\ Taken /\ drv.untyped = Nothing
                 /\ ~rc.t.native => Corr(rc.t) \notin ext.open
                 /\ Own => rc.k = "exhausted" \/ Superseded
                 /\ Own /\ drv.inflight.fenced => Superseded
  BY DEF Bookkeeping, Books, Ledger, LiveLine, UntypedLine, OpenLine, InflightLine, UntypedPcs,
     OnAttempt, AttemptPcs, OfAttempt, SettlePcs, SlotPcs, Settlements, Taken
<1> QED BY <1>1, <1>2, <1>3, <1>4

LEMMA CleanupChargedBooks ==
    ASSUME Bookkeeping, CleanupCharged
    PROVE  Books'
<1> DEFINE k == rc.k
<1>1. /\ rc.pc = "charge" /\ Saved /\ Others /\ ext' = ext /\ count' = count
      /\ rc.pc \in SettlePcs
  BY DEF CleanupCharged, Others, SettlePcs
<1>2. k \in Settlements
  BY <1>1 DEF Bookkeeping, Shape, RcShape, AtShape, UntypedPcs, AttemptPcs
<1>3. /\ Cur \in Slots /\ Cur # Nothing /\ SettleLine(Cur, rc.k, drv.quarantined)
      /\ ~drv.pruning /\ (rc.k = "replaced" => ~drv.quarantined)
      /\ rc.t \in Slots
      /\ ~drv.quarantined =>
            /\ Accounted /\ Taken /\ drv.untyped = Nothing
            /\ ~rc.t.native => Corr(rc.t) \notin ext.open
            /\ Own => rc.k = "exhausted" \/ Superseded
            /\ Own /\ drv.inflight.fenced => Superseded
  BY <1>1, <1>2, SettleFacts
<1>4. Alike(drv, drv')
  BY BookFacts DEF CleanupCharged, Alike, Drivers
<1>5. rc'.pc = "stop" /\ rc'.t = rc.t /\ rc'.k = rc.k
  BY <1>1 DEF CleanupCharged, Bookkeeping, Shape, RcShape, At
<1>6. rc.t = [Cur EXCEPT !.used = @ + 1] /\ Owing(Cur)
  BY <1>1 DEF Bookkeeping, Books, InHand
<1>7. /\ rc.t.kind = Cur.kind /\ rc.t.phase = Cur.phase /\ rc.t.seq = Cur.seq
      /\ rc.t.native = Cur.native /\ rc.t.semantic = Cur.semantic
      /\ rc.t.epoch = Cur.epoch /\ rc.t.gen = Cur.gen
  BY <1>3, <1>6 DEF Slots
<1>8. rc.t.epoch <= count.epochs /\ count.epochs \in Nat
  BY <1>3, <1>7, BookFacts DEF Bookkeeping, Books, Epochs
<1>9. /\ Shelf' /\ Cur' = rc.t /\ Res' = Res /\ store'.rec.desired = store.rec.desired
      /\ Own' => drv'.inflight.seq = Cur.seq /\ drv'.inflight # Nothing
      /\ Superseded' <=> Superseded
  <2>1. drv'.amb = drv.amb /\ drv'.untyped = drv.untyped /\ drv'.live = drv.live
        /\ drv'.inflight = drv.inflight /\ ~drv'.pruning
    BY <1>3, <1>4 DEF Alike
  <2>2. ext'.open \subseteq ext.open /\ count'.epochs \in Nat /\ count.epochs <= count'.epochs
        /\ rc.t.epoch <= count'.epochs
    BY <1>1, <1>8
  <2> QED BY <1>1, <2>1, <2>2, SavedShelf
<1>10. rc.t # Nothing
  BY <1>3, NothingIsNoSlot
<1>11. InHand'
  <2>1. SettleLine(Cur, rc.k, drv.quarantined)'
    BY <1>3, <1>4, <1>5, <1>7, <1>9 DEF SettleLine, Alike, Terminal, Owing
  <2>2. Owing(Cur)'
    BY <1>6, <1>7, <1>9 DEF Owing
  <2> QED BY <1>5, <1>9, <1>10, <2>1, <2>2 DEF InHand, SettlePcs, AttemptPcs
<1>12. Settles(drv, rc.t, k)
  BY <1>4, <1>5, <1>11 DEF Settles, SettlePcs
<1>13. ASSUME ~drv.quarantined
       PROVE  /\ Accounted' /\ Taken' /\ drv.untyped = Nothing
              /\ ~rc.t.native => Corr(rc.t) \notin ext'.open
              /\ Own' => k = "exhausted" \/ Superseded'
              /\ Own' /\ drv'.inflight.fenced => Superseded'
  <2>1. Own' => Own
    BY <1>3, <1>4, <1>9 DEF Own, Alike
  <2>2. Accounted' /\ Taken'
    BY <1>1, <1>3, <1>4, <1>7, <1>9, <1>10, <1>13 DEF Accounted, Taken, Alike, Corr, Terminal, Owing
  <2> QED BY <1>1, <1>3, <1>4, <1>9, <1>13, <2>1, <2>2 DEF Alike
<1> QED BY <1>2, <1>3, <1>9, <1>12, <1>13, SettleBooks

\* A step that leaves the store alone, on the way with what is in hand.
LEMMA StandingShelf ==
    ASSUME Bookkeeping, Others, store' = store, ~drv'.pruning, drv'.amb = drv.amb,
           ext'.open \subseteq Corrs, count'.epochs \in Nat, count.epochs <= count'.epochs,
           drv'.live # Nothing =>
              drv'.live = drv.live \/ (drv'.live.epoch # 0 /\ drv'.live.epoch <= count'.epochs),
           drv'.untyped # Nothing =>
              \/ drv'.untyped = drv.untyped
              \/ drv'.untyped.corr.epoch # 0 /\ drv'.untyped.corr.epoch <= count'.epochs,
           drv'.inflight # Nothing =>
              drv.inflight # Nothing /\ drv'.inflight.seq = drv.inflight.seq,
           rc'.pc \in SlotPcs => rc.pc \in SlotPcs
    PROVE  /\ Shelf' /\ Cur' = Cur /\ Res' = Res
           /\ Own' => Own
           /\ Superseded' <=> Superseded
<1>1. Cur' = Cur /\ Res' = Res
  BY DEF Cur, Res
<1>2. Sequence' /\ Plain'
  BY <1>1 DEF Bookkeeping, Books, Sequence, Last, Plain, Others, Open
<1>3. Epochs'
  <2>1. drv.live # Nothing => drv.live.epoch \in Nat
    BY BookFacts DEF Drivers, Corrs
  <2>2. drv.untyped # Nothing => drv.untyped.corr.epoch \in Nat
    BY BookFacts DEF Drivers, Corrs, Attempts
  <2>3. Cur # Nothing => Cur.epoch \in Nat
    BY BookFacts DEF Slots
  <2> QED BY <1>1, <2>1, <2>2, <2>3, BookFacts DEF Bookkeeping, Books, Epochs
<1>4. (Own' => Own) /\ (Superseded' <=> Superseded)
  BY <1>1 DEF Own, Superseded
<1>5. Fencing'
  BY <1>1, <1>4 DEF Bookkeeping, Books, Fencing, Others, Releasing
<1> QED BY <1>1, <1>2, <1>3, <1>4, <1>5 DEF Shelf

LEMMA StopReturnsBooks ==
    ASSUME Bookkeeping, StopReturns
    PROVE  Books'
<1>1. /\ rc.pc = "stop" /\ rc.pc \in SettlePcs /\ Others /\ store' = store /\ drv' = drv
      /\ count' = count /\ rc.pc \in SlotPcs
  BY DEF StopReturns, Others, SettlePcs, SlotPcs
<1>2. rc.k \in Settlements
  BY <1>1 DEF Bookkeeping, Shape, RcShape, AtShape, UntypedPcs, AttemptPcs
<1>3. /\ Cur \in Slots /\ Cur # Nothing /\ SettleLine(Cur, rc.k, drv.quarantined)
      /\ ~drv.pruning /\ (rc.k = "replaced" => ~drv.quarantined)
      /\ rc.t \in Slots
      /\ ~drv.quarantined =>
            /\ Accounted /\ Taken /\ drv.untyped = Nothing
            /\ ~rc.t.native => Corr(rc.t) \notin ext.open
            /\ Own => rc.k = "exhausted" \/ Superseded
            /\ Own /\ drv.inflight.fenced => Superseded
  BY <1>1, <1>2, SettleFacts
<1>4. PICK closed \in BOOLEAN, cleaned \in BOOLEAN :
         /\ rc' = At("commit", Settled(rc.t, rc.k, rc.t.native /\ ~closed, rc.t.semantic /\ ~cleaned), rc.k)
         /\ ext' = [open |-> IF closed THEN ext.open \ {Corr(rc.t)} ELSE ext.open,
                    calls |-> [CallsOf(rc.t) EXCEPT !.stops = @ + 1]]
  BY DEF StopReturns
<1> DEFINE n == rc.t.native /\ ~closed
           s == rc.t.semantic /\ ~cleaned
           z == Settled(rc.t, rc.k, n, s)
<1>5. Cur = rc.t
  BY <1>1 DEF Bookkeeping, Books, InHand
<1>6. /\ n \in BOOLEAN /\ s \in BOOLEAN /\ (n => Cur.native) /\ (s => Cur.semantic)
  BY <1>5
<1>7. rc'.pc = "commit" /\ rc'.t = z /\ rc'.k = rc.k
  BY <1>4 DEF At
<1>8. ext'.open \subseteq ext.open /\ (closed => Corr(rc.t) \notin ext'.open)
  BY <1>4
<1>9. ~n => ~rc.t.native \/ closed
  OBVIOUS
<1> HIDE DEF n, s
<1>10. z.native = n /\ z.semantic = s /\ z.epoch = Cur.epoch /\ z.gen = Cur.gen /\ z = Settled(Cur, rc.k, n, s)
  BY <1>3, <1>5, <1>6, SettledFields
<1> HIDE DEF z
<1>11. ext'.open \subseteq Corrs /\ count'.epochs \in Nat /\ count.epochs <= count'.epochs
  BY <1>1, <1>8, BookFacts DEF Bookkeeping, Books, Epochs
<1>12. /\ Shelf' /\ Cur' = Cur /\ Res' = Res
       /\ Own' => Own
       /\ Superseded' <=> Superseded
  BY <1>1, <1>3, <1>11, StandingShelf
<1>13. InHand'
  <2>1. CommitLine(Cur, rc.t, rc.k)'
    BY <1>2, <1>6, <1>7, <1>10, <1>12 DEF CommitLine, Settlements, OfAttempt
  <2>2. SettleLine(Cur, rc.k, drv.quarantined)'
    BY <1>1, <1>3, <1>7, <1>12
  <2> QED BY <1>3, <1>7, <1>12, <2>1, <2>2 DEF InHand, SettlePcs, AttemptPcs
<1>14. Settles(drv, z, rc.k)
  BY <1>1, <1>7, <1>13 DEF Settles, SettlePcs, Alike
<1>15. ASSUME ~drv.quarantined
       PROVE  /\ Accounted' /\ Taken' /\ drv.untyped = Nothing
              /\ ~z.native => Corr(z) \notin ext'.open
              /\ Own' => rc.k = "exhausted" \/ Superseded'
              /\ Own' /\ drv'.inflight.fenced => Superseded'
  <2>1. Accounted' /\ Taken'
    BY <1>1, <1>3, <1>8, <1>12, <1>15 DEF Accounted, Taken, Corr, Terminal, Owing
  <2>2. Corr(z) = Corr(rc.t)
    BY <1>5, <1>10 DEF Corr
  <2>3. ~z.native => Corr(rc.t) \notin ext'.open
    BY <1>3, <1>8, <1>9, <1>10, <1>15
  <2> QED BY <1>1, <1>3, <1>12, <1>15, <2>1, <2>2, <2>3
<1> QED BY <1>2, <1>3, <1>12, <1>14, <1>15, SettleBooks

\* What a settlement that proved the native close leaves open.
LEMMA ProvenClose ==
    ASSUME Bookkeeping, rc.pc = "commit", rc.k \in Settlements, ~drv.quarantined, ~rc.t.native
    PROVE  /\ ext.open = {} /\ drv.untyped = Nothing
           /\ drv.live # Nothing => drv.live = Corr(rc.t)
<1>1. /\ Cur \in Slots /\ Cur # Nothing /\ SettleLine(Cur, rc.k, drv.quarantined)
      /\ Accounted /\ Taken /\ drv.untyped = Nothing /\ Corr(rc.t) \notin ext.open
  BY SettleFacts DEF SettlePcs
<1>2. rc.t = Settled(Cur, rc.k, rc.t.native, rc.t.semantic) /\ rc.t \in Slots
  BY SettleFacts DEF Bookkeeping, Books, InHand, CommitLine, SettlePcs
<1>3. Corr(rc.t) = Corr(Cur)
  <2>1. rc.t.native \in BOOLEAN /\ rc.t.semantic \in BOOLEAN
    BY <1>2 DEF Slots
  <2>2. rc.t.epoch = Cur.epoch /\ rc.t.gen = Cur.gen
    BY <1>1, <1>2, <2>1, SettledFields
  <2> QED BY <2>2 DEF Corr
<1>4. ext.open \subseteq Corrs
  BY DEF Bookkeeping, Books, Epochs
<1>5. drv.live # Nothing => drv.live = Corr(Cur)
  BY <1>1 DEF Taken, SettleLine, Settlements
<1>6. ext.open = {}
  BY <1>1, <1>3, <1>4, <1>5, NothingIsNone DEF Accounted
<1> QED BY <1>1, <1>3, <1>5, <1>6

LEMMA SettledBooks ==
    ASSUME Bookkeeping, Others, ext' = ext, count' = count,
           rc.pc = "commit", rc.k \in Settlements \ {"replaced"}, Saved,
           NEW d \in Drivers, d.live = drv.live, d.untyped = drv.untyped,
           d.inflight \in {drv.inflight, Nothing}, d.quarantined = drv.quarantined,
           d.pruning = drv.pruning, d.amb = drv.amb,
           rc.k = "exhausted" /\ ~drv.quarantined =>
               d.inflight = Nothing \/ d.inflight.seq # Cur.seq,
           NEW now, AfterCleanup(d, rc.t, now)
    PROVE  Books'
<1>1. /\ Cur \in Slots /\ Cur # Nothing /\ ~drv.pruning /\ rc.t \in Slots
      /\ ~drv.quarantined => (Own => rc.k = "exhausted" \/ Superseded)
  BY SettleFacts DEF SettlePcs
<1>2. /\ rc'.pc \in {"idle", "read"}
      /\ drv'.pruning = d.pruning /\ drv'.amb = d.amb
      /\ drv'.untyped = d.untyped /\ drv'.inflight = d.inflight
      /\ drv'.live # Nothing => drv'.live = d.live
      /\ rc.t.native => drv'.quarantined
      /\ ~rc.t.native => Closed(d, rc.t, drv')
  BY <1>1, CleanupOutcome
<1>3. rc.t.epoch = Cur.epoch
  BY CommitFacts DEF Settlements
<1>4. Cur.epoch <= count'.epochs /\ count.epochs \in Nat /\ count.epochs <= count'.epochs
  BY <1>1, BookFacts DEF Bookkeeping, Books, Epochs
<1>5. /\ Shelf'
      /\ Own' => drv'.inflight.seq = Cur.seq /\ drv'.inflight # Nothing
      /\ Superseded' <=> Superseded
  BY <1>1, <1>2, <1>3, <1>4, SavedShelf
<1>6. ASSUME ~drv'.quarantined
      PROVE  /\ Accounted' /\ Taken' /\ drv'.untyped = Nothing
             /\ Own' => Superseded'
  <2>1. ~rc.t.native /\ ~drv.quarantined /\ Closed(d, rc.t, drv')
    BY <1>2, <1>6 DEF Closed
  <2>2. ext.open = {} /\ drv.untyped = Nothing /\ (drv.live # Nothing => drv.live = Corr(rc.t))
    BY <2>1, ProvenClose
  <2>3. drv'.live = Nothing
    BY <2>1, <2>2 DEF Closed
  <2>4. Own' => Own
    BY <1>1, <1>2, <1>5 DEF Own
  <2> QED BY <1>1, <1>2, <1>5, <2>1, <2>2, <2>3, <2>4 DEF Accounted, Taken
<1> QED BY <1>2, <1>5, <1>6, LetGo

LEMMA CleanupCommittedBooks ==
    ASSUME Bookkeeping, CleanupCommitted \/ StopCommitted
    PROVE  Books'
<1>0. drv \in Drivers
  BY BookFacts
<1>1. CASE CleanupCommitted
  <2>1. /\ Others /\ ext' = ext /\ count' = count /\ rc.pc = "commit" /\ Saved
        /\ rc.k \in Settlements \ {"replaced"} /\ rc.k # "exhausted"
    BY <1>1 DEF CleanupCommitted, Commits, Others, Settlements
  <2>2. PICK now : AfterCleanup(drv, rc.t, now)
    BY <1>1 DEF CleanupCommitted
  <2> QED BY <1>0, <2>1, <2>2, SettledBooks
<1>2. CASE StopCommitted
  <2> DEFINE d == [drv EXCEPT !.auto = @ \/ ~Owing(rc.t)]
  <2>1. /\ Others /\ ext' = ext /\ count' = count /\ rc.pc = "commit" /\ Saved
        /\ rc.k \in Settlements \ {"replaced"} /\ rc.k # "exhausted"
    BY <1>2 DEF StopCommitted, Commits, Others, Settlements
  <2>2. PICK now : AfterCleanup(d, rc.t, now)
    BY <1>2 DEF StopCommitted
  <2>3. /\ d \in Drivers /\ d.live = drv.live /\ d.untyped = drv.untyped
        /\ d.inflight = drv.inflight /\ d.quarantined = drv.quarantined
        /\ d.pruning = drv.pruning /\ d.amb = drv.amb
    BY <1>0 DEF Drivers, Owing
  <2> HIDE DEF d
  <2> QED BY <2>1, <2>2, <2>3, SettledBooks
<1> QED BY <1>1, <1>2

LEMMA ExhaustCommittedBooks ==
    ASSUME Bookkeeping, ExhaustCommitted
    PROVE  Books'
<1>0. drv \in Drivers
  BY BookFacts
<1> DEFINE a == IF Mine(drv, rc.t) THEN Nothing ELSE drv.inflight
           d == [drv EXCEPT !.auto = TRUE, !.inflight = a]
<1>1. /\ Others /\ ext' = ext /\ count' = count /\ rc.pc = "commit" /\ Saved
      /\ rc.k \in Settlements \ {"replaced"} /\ rc.k = "exhausted"
  BY DEF ExhaustCommitted, Commits, Others, Settlements
<1>2. PICK now : AfterCleanup(d, rc.t, now)
  <2>1. d = [drv EXCEPT !.auto = TRUE, !.inflight = IF Mine(drv, rc.t) THEN Nothing ELSE @]
    BY <1>0 DEF Drivers
  <2> QED BY <2>1 DEF ExhaustCommitted
<1>3. a \in {drv.inflight, Nothing} /\ a \in Attempts \cup {Nothing}
  BY <1>0 DEF Drivers
<1>4. ~drv.quarantined => a = Nothing \/ a.seq # Cur.seq
  <2>1. SettleLine(Cur, rc.k, drv.quarantined) /\ Cur # Nothing
    BY <1>1, SettleFacts DEF SettlePcs
  <2>2. rc.t.epoch = Cur.epoch /\ rc.t.seq = Cur.seq
    BY <1>1, CommitFacts
  <2>3. Cur.phase = "ACTIVE" => Cur.epoch # 0
    BY <2>1 DEF Bookkeeping, Books, Sequence, SlotLine
  <2> QED BY <1>1, <2>1, <2>2, <2>3 DEF SettleLine, Mine
<1> HIDE DEF a
<1>5. /\ d \in Drivers /\ d.live = drv.live /\ d.untyped = drv.untyped
      /\ d.inflight = a /\ d.quarantined = drv.quarantined
      /\ d.pruning = drv.pruning /\ d.amb = drv.amb
  BY <1>0, <1>3 DEF Drivers
<1> HIDE DEF d
<1> QED BY <1>1, <1>2, <1>3, <1>4, <1>5, SettledBooks

LEMMA BeginFacts ==
    ASSUME Bookkeeping, rc.pc = "commit", rc.k \in {"begun", "ended", "assigned"}
    PROVE  /\ Cur \in Slots /\ Cur # Nothing /\ rc.t \in Slots /\ rc.t # Nothing
           /\ CommitLine(Cur, rc.t, rc.k) /\ ~drv.pruning
           /\ rc.k # "begun" \/ rc.t.kind = "RESTART" => ~drv.quarantined
           /\ ~drv.quarantined =>
                 /\ Accounted /\ Taken /\ drv.untyped = Nothing /\ (Own => Superseded)
                 /\ rc.k = "assigned" => drv.live = Nothing /\ ext.open = {}
<1>1. /\ Cur \in Slots /\ Cur # Nothing /\ rc.t \in Slots /\ rc.t # Nothing
      /\ CommitLine(Cur, rc.t, rc.k) /\ ~drv.pruning
  BY CommitFacts, NothingIsNoSlot DEF Bookkeeping, Books, InHand, Plain
<1>2. rc.k # "begun" \/ rc.t.kind = "RESTART" => ~drv.quarantined
  BY DEF Bookkeeping, Books, Calm, Starting, SettlePcs, OnSetup
<1>3. ~drv.quarantined =>
         /\ Accounted /\ Taken /\ drv.untyped = Nothing /\ (Own => Superseded)
         /\ rc.k = "assigned" => drv.live = Nothing /\ ext.open = {}
  BY DEF Bookkeeping, Books, Ledger, LiveLine, UntypedLine, OpenLine, InflightLine, UntypedPcs,
     OnAttempt, OnSetup, AttemptPcs, OfAttempt, SettlePcs, SlotPcs, Taken, Unopened
<1> QED BY <1>1, <1>2, <1>3

LEMMA BegunCommittedBooks ==
    ASSUME Bookkeeping, BegunCommitted
    PROVE  Books'
<1>1. /\ Others /\ ext' = ext /\ count' = count /\ rc.pc = "commit" /\ Saved /\ rc.k = "begun"
  BY DEF BegunCommitted, Commits, Others
<1>2. /\ Cur \in Slots /\ Cur # Nothing /\ rc.t \in Slots /\ rc.t # Nothing /\ ~drv.pruning
      /\ rc.t.kind = "RESTART" => ~drv.quarantined
      /\ CommitLine(Cur, rc.t, "begun")
      /\ ~drv.quarantined =>
            /\ Accounted /\ Taken /\ drv.untyped = Nothing /\ (Own => Superseded)
  BY <1>1, BeginFacts
<1>3. /\ Cur.phase = "PENDING" /\ Cur.kind \in {"STOP", "RESTART"}
      /\ \/ rc.t = [Cur EXCEPT !.phase = "CLEANUP"] /\ Cur.kind = "STOP" /\ drv.live = Nothing
         \/ drv.live # Nothing /\ rc.t = Begun(Cur, drv.live, SlotDeadline(Cur.seq))
  BY <1>2 DEF CommitLine
<1>4. drv \in Drivers /\ (drv.live # Nothing => drv.live \in Corrs /\ drv.live.epoch # 0)
  BY BookFacts DEF Drivers, Bookkeeping, Books, Epochs
<1>5. Fresh(Cur)
  BY <1>2, <1>3 DEF Bookkeeping, Books, Sequence, SlotLine
<1>6. /\ rc.t.kind = Cur.kind /\ rc.t.seq = Cur.seq
      /\ drv.live = Nothing => ~Owing(rc.t) /\ Cur.kind = "STOP"
      /\ drv.live # Nothing =>
            /\ rc.t.phase = "ACTIVE" /\ rc.t.native /\ rc.t.semantic
            /\ Corr(rc.t) = drv.live /\ rc.t.epoch = drv.live.epoch
  <2>1. CASE drv.live = Nothing
    <3>1. rc.t.native = Cur.native /\ rc.t.semantic = Cur.semantic /\ rc.t.kind = Cur.kind /\ rc.t.seq = Cur.seq
      BY <1>2, <1>3, <2>1 DEF Slots
    <3> QED BY <1>3, <1>5, <2>1, <3>1 DEF Fresh, Owing
  <2>2. CASE drv.live # Nothing
    <3> DEFINE due == SlotDeadline(Cur.seq)
    <3>1. due \in Dues
      BY <1>2, SlotDue DEF Slots
    <3>2. rc.t = Begun(Cur, drv.live, due)
      BY <1>3, <2>2
    <3> HIDE DEF due
    <3>3. /\ rc.t.kind = Cur.kind /\ rc.t.seq = Cur.seq /\ rc.t.phase = "ACTIVE"
          /\ rc.t.epoch = drv.live.epoch /\ rc.t.gen = drv.live.gen /\ rc.t.native /\ rc.t.semantic
      BY <1>2, <1>4, <2>2, <3>1, <3>2, BegunFields
    <3>4. Corr(rc.t) = drv.live
      BY <1>4, <2>2, <3>3 DEF Corr, Corrs
    <3> QED BY <2>2, <3>3, <3>4
  <2> QED BY <2>1, <2>2
<1>7. rc.t.epoch <= count'.epochs /\ count'.epochs \in Nat /\ count.epochs <= count'.epochs
  <2>1. count.epochs \in Nat /\ rc.t.epoch \in Nat
    BY <1>2, BookFacts DEF Slots
  <2>2. drv.live # Nothing => drv.live.epoch <= count.epochs
    BY DEF Bookkeeping, Books, Epochs
  <2>3. rc.t.epoch = IF drv.live # Nothing THEN drv.live.epoch ELSE Cur.epoch
    BY <1>1, CommitFacts
  <2>4. Cur.epoch <= count.epochs
    BY <1>2 DEF Bookkeeping, Books, Epochs
  <2> QED BY <1>1, <2>1, <2>2, <2>3, <2>4
<1>8. ASSUME Alike(drv, drv')
      PROVE  /\ Shelf' /\ Cur' = rc.t /\ (Superseded' <=> Superseded)
             /\ (Own' => Own)
             /\ ~drv.quarantined => Accounted' /\ Taken'
  <2>1. /\ Shelf' /\ Cur' = rc.t /\ Res' = Res /\ (Superseded' <=> Superseded)
        /\ (Own' => drv'.inflight.seq = Cur.seq /\ drv'.inflight # Nothing)
    BY <1>1, <1>2, <1>7, <1>8, SavedShelf DEF Alike
  <2>2. Own' => Own
    BY <1>2, <1>8, <2>1 DEF Own, Alike
  <2>3. ~drv.quarantined => Accounted' /\ Taken'
    BY <1>1, <1>2, <1>3, <1>5, <1>6, <1>8, <2>1 DEF Alike, Accounted, Taken, Terminal, Owing, Fresh
  <2> QED BY <2>1, <2>2, <2>3
<1>9. CASE /\ rc.t.kind = "STOP" /\ ~Owing(rc.t) /\ rc' = Reading /\ drv' = [drv EXCEPT !.auto = TRUE]
  <2>1. Alike(drv, drv') /\ rc'.pc = "read"
    BY <1>4, <1>9 DEF Alike, Drivers, Reading, At
  <2> QED BY <1>2, <1>8, <2>1, LetGo DEF Alike
<1>10. ASSUME NEW k \in {"stopped", "replaced"}, SettleObligations(drv, rc.t, k), Owing(rc.t),
              k = "stopped" => rc.t.kind = "STOP",
              k = "replaced" => rc.t.kind = "RESTART"
       PROVE  Books'
  <2>1. drv.live # Nothing /\ rc.t.phase = "ACTIVE" /\ rc.t.native
    BY <1>6, <1>10
  <2>2. SettleLine(rc.t, k, drv.quarantined)
    BY <1>10, <2>1 DEF SettleLine, Terminal
  <2>3. k \in Settlements /\ Cur' = rc.t
    <3>1. store'.rec = [store.rec EXCEPT !.cur = rc.t]
      BY <1>1 DEF Saved, Committed, Updated, Bookkeeping, Shape
    <3> QED BY <3>1, BookFacts DEF Cur, Records, Settlements
  <2>4. Settles(drv, rc.t, k)
    BY <1>2, <1>4, <1>10, <2>2, <2>3, SettleLands
  <2>5. Alike(drv, drv')
    BY <2>4 DEF Settles
  <2>6. ~drv.quarantined =>
              /\ Accounted' /\ Taken' /\ drv.untyped = Nothing
              /\ ~rc.t.native => Corr(rc.t) \notin ext'.open
              /\ Own' => k = "exhausted" \/ Superseded'
              /\ Own' /\ drv'.inflight.fenced => Superseded'
    BY <1>2, <1>8, <2>1, <2>5
  <2>7. Shelf' /\ (k = "replaced" => ~drv.quarantined)
    BY <1>2, <1>8, <1>10, <2>5
  <2> QED BY <2>3, <2>4, <2>6, <2>7, SettleBooks
<1>11. CASE rc.t.kind = "STOP" /\ Owing(rc.t) /\ SettleObligations(drv, rc.t, "stopped")
  BY <1>10, <1>11
<1>12. ASSUME rc.t.kind = "RESTART", NEW now, StepStart(drv, rc.t, now)
       PROVE  Books'
  <2>1. Cur.kind = "RESTART" /\ drv.live # Nothing /\ rc.t.epoch # 0 /\ Owing(rc.t)
    BY <1>4, <1>6, <1>12 DEF Owing
  <2>2. ~Mine(drv, rc.t)
    BY <1>2, <1>6, <1>12, <2>1 DEF Mine, Own, Superseded
  <2>3. SettleObligations(drv, rc.t, "replaced")
    BY <1>12, <2>1, <2>2 DEF StepStart
  <2> QED BY <1>10, <1>12, <2>1, <2>3
<1> QED BY <1>9, <1>11, <1>12 DEF BegunCommitted

LEMMA ReplacedCommittedBooks ==
    ASSUME Bookkeeping, ReplacedCommitted
    PROVE  Books'
<1>1. /\ Others /\ ext' = ext /\ count' = count /\ rc.pc = "commit" /\ Saved /\ rc.k = "replaced"
      /\ rc.k \in Settlements
  BY DEF ReplacedCommitted, Commits, Others, Settlements
<1>2. /\ Cur \in Slots /\ Cur # Nothing /\ SettleLine(Cur, rc.k, drv.quarantined)
      /\ ~drv.pruning /\ ~drv.quarantined /\ rc.t \in Slots
      /\ Own => Superseded
  BY <1>1, SettleFacts DEF SettlePcs
<1>3. /\ rc.t = Settled(Cur, rc.k, rc.t.native, rc.t.semantic)
      /\ rc.t.native \in BOOLEAN /\ rc.t.semantic \in BOOLEAN
  BY <1>1, <1>2 DEF Bookkeeping, Books, InHand, CommitLine, Slots
<1>4. /\ rc.t.kind = Cur.kind /\ rc.t.epoch = Cur.epoch
      /\ rc.t.phase = IF ~rc.t.native THEN Cur.phase ELSE "CLEANUP"
  BY <1>1, <1>2, <1>3, SettledFields
<1>5. Cur.phase = "ACTIVE" /\ Cur.kind \in {"START", "RESTART"}
  BY <1>1, <1>2 DEF SettleLine
<1>6. drv \in Drivers /\ rc.t.epoch <= count'.epochs /\ count'.epochs \in Nat /\ count.epochs <= count'.epochs
  BY <1>1, <1>2, <1>4, BookFacts DEF Bookkeeping, Books, Epochs
<1>7. ASSUME drv'.live \in {drv.live, Nothing}, drv'.untyped = drv.untyped, drv'.inflight = drv.inflight,
             drv'.pruning = drv.pruning, drv'.amb = drv.amb
      PROVE  Shelf' /\ Cur' = rc.t /\ (Own' => Superseded')
  <2>1. /\ Shelf' /\ Cur' = rc.t /\ (Superseded' <=> Superseded)
        /\ (Own' => drv'.inflight.seq = Cur.seq /\ drv'.inflight # Nothing)
    BY <1>1, <1>2, <1>6, <1>7, SavedShelf
  <2> QED BY <1>2, <1>7, <2>1 DEF Own
<1>8. CASE rc.t.native /\ Skip([drv EXCEPT !.quarantined = TRUE])
  <2>1. /\ drv'.live = drv.live /\ drv'.untyped = drv.untyped /\ drv'.inflight = drv.inflight
        /\ drv'.pruning = drv.pruning /\ drv'.amb = drv.amb /\ drv'.quarantined
        /\ rc'.pc = "idle"
    BY <1>6, <1>8 DEF Skip, Drivers, Asleep, At
  <2> QED BY <1>7, <2>1, LetGo
<1> DEFINE e == LiveReleased(drv, rc.t)
<1>e. e \in Drivers /\ Closed(drv, rc.t, e)
  BY <1>6, ClosedDriver
<1>p. ~rc.t.native => /\ ext.open = {} /\ drv.untyped = Nothing
                      /\ drv.live # Nothing => drv.live = Corr(rc.t)
  BY <1>1, <1>2, ProvenClose
<1>9. ASSUME ~rc.t.native, NEW now, SemanticRetry(LiveReleased(drv, rc.t), rc.t, now)
      PROVE  Books'
  <2>1. SemanticRetry(e, rc.t, now)
    BY <1>9
  <2> HIDE DEF e
  <2>2. Alike(e, drv') /\ rc'.pc = "idle"
    BY <1>e, <2>1, RetryOutcome
  <2>3. /\ drv'.live = Nothing /\ drv'.untyped = drv.untyped /\ drv'.inflight = drv.inflight
        /\ drv'.pruning = drv.pruning /\ drv'.amb = drv.amb
    BY <1>9, <1>e, <1>p, <2>2 DEF Alike, Closed
  <2>4. Accounted' /\ Taken' /\ drv'.untyped = Nothing
    BY <1>1, <1>9, <1>p, <2>3 DEF Accounted, Taken
  <2> QED BY <1>7, <2>2, <2>3, <2>4, LetGo
<1>10. ASSUME ~Owing(rc.t), NEW now, Replace([LiveReleased(drv, rc.t) EXCEPT !.retries = 0], rc.t, now)
       PROVE  Books'
  <2> DEFINE f == [e EXCEPT !.retries = 0]
  <2>1. Replace(f, rc.t, now) /\ drv' = f
    BY <1>10 DEF Replace, Assign
  <2>2. ~rc.t.native
    BY <1>10 DEF Owing
  <2> HIDE DEF e
  <2>3. f \in Drivers /\ Alike(e, f)
    BY <1>e DEF Drivers, Alike
  <2> HIDE DEF f
  <2>4. /\ f.live = Nothing /\ f.untyped = Nothing /\ f.inflight = drv.inflight /\ ~f.quarantined
        /\ f.pruning = drv.pruning /\ f.amb = drv.amb /\ f.untyped = drv.untyped
    BY <1>2, <1>e, <1>p, <2>2, <2>3 DEF Alike, Closed
  <2>5. Shelf' /\ Cur' = rc.t /\ (Own' => Superseded')
    BY <1>7, <2>1, <2>4
  <2>6. ext'.open = {} /\ rc.t.phase = "ACTIVE" /\ rc.t.kind \in {"START", "RESTART"}
    BY <1>1, <1>4, <1>5, <1>p, <2>2
  <2> QED BY <1>1, <1>2, <1>10, <2>1, <2>3, <2>4, <2>5, <2>6, ReplaceBooks
<1> QED BY <1>8, <1>9, <1>10 DEF ReplacedCommitted

LEMMA EndCommittedBooks ==
    ASSUME Bookkeeping, EndCommitted
    PROVE  Books'
<1>1. /\ Others /\ ext' = ext /\ count' = count /\ rc.pc = "commit" /\ Saved /\ rc.k = "ended"
      /\ rc'.pc = "read"
  BY DEF EndCommitted, Commits, Others, Reading, At
<1>2. /\ Cur \in Slots /\ Cur # Nothing /\ rc.t \in Slots /\ rc.t # Nothing /\ ~drv.pruning
      /\ ~drv.quarantined /\ CommitLine(Cur, rc.t, "ended")
      /\ Accounted /\ Taken /\ drv.untyped = Nothing /\ (Own => Superseded)
  BY <1>1, BeginFacts
<1>3. Cur.phase = "ACTIVE" /\ ~Owing(Cur)
  BY <1>2 DEF CommitLine
<1>4. drv.live = Nothing /\ ext.open = {}
  <2>1. drv.live = Nothing
    BY <1>2, <1>3 DEF Taken, Terminal, Owing
  <2>2. ext.open \subseteq Corrs
    BY DEF Bookkeeping, Books, Epochs
  <2> QED BY <1>2, <1>3, <2>1, <2>2, NothingIsNone DEF Accounted, Owing
<1>5. /\ drv'.live = Nothing /\ drv'.untyped = drv.untyped /\ drv'.inflight = drv.inflight
      /\ drv'.pruning = drv.pruning /\ drv'.amb = drv.amb
  <2> DEFINE e == LiveReleased(drv, rc.t)
  <2>1. e \in Drivers /\ Closed(drv, rc.t, e) /\ drv' = [e EXCEPT !.auto = TRUE]
    BY ClosedDriver, BookFacts DEF EndCommitted
  <2> HIDE DEF e
  <2>2. Alike(e, drv')
    BY <2>1 DEF Drivers, Alike
  <2> QED BY <1>4, <2>1, <2>2 DEF Closed, Alike
<1>6. rc.t.epoch <= count'.epochs /\ count'.epochs \in Nat /\ count.epochs <= count'.epochs
  BY <1>1, <1>2, CommitFacts, BookFacts DEF Bookkeeping, Books, Epochs
<1>7. /\ Shelf' /\ Cur' = rc.t /\ (Superseded' <=> Superseded)
      /\ (Own' => drv'.inflight.seq = Cur.seq /\ drv'.inflight # Nothing)
  BY <1>1, <1>2, <1>5, <1>6, SavedShelf
<1>8. Own' => Superseded'
  BY <1>2, <1>5, <1>7 DEF Own
<1>9. Accounted' /\ Taken' /\ drv'.untyped = Nothing
  BY <1>1, <1>2, <1>4, <1>5 DEF Accounted, Taken
<1> QED BY <1>1, <1>7, <1>8, <1>9, LetGo

\* The books of a reconciler on an attempt of the current slot.
LEMMA AttemptBooks ==
    ASSUME Shelf', rc'.pc \in AttemptPcs, Cur' = rc'.t, rc'.t \in Slots,
           rc'.t.phase = "ACTIVE", rc'.t.native, rc'.t.kind \in {"START", "RESTART"},
           ~drv'.quarantined, drv'.untyped = Nothing, drv'.live = Nothing, Accounted',
           Unopened(rc') => ext'.open = {}, Own' /\ drv'.inflight.fenced => Superseded'
    PROVE  Books'
<1> USE DEF Shelf, Books
<1>1. rc'.t # Nothing
  BY NothingIsNoSlot
<1>2. InHand' /\ Calm'
  BY <1>1 DEF InHand, Calm, SettlePcs, AttemptPcs
<1>3. Ledger'
  BY <1>1 DEF Ledger, LiveLine, UntypedLine, OpenLine, InflightLine, OnAttempt,
     SettlePcs, AttemptPcs, OnSetup, AtUntyped, UntypedPcs, SlotPcs, Unopened
<1> QED BY <1>2, <1>3

LEMMA AssignCommittedBooks ==
    ASSUME Bookkeeping, AssignCommitted
    PROVE  Books'
<1>1. /\ Others /\ ext' = ext /\ rc.pc = "commit" /\ Saved /\ rc.k = "assigned"
      /\ rc'.pc = "attempt" /\ rc'.t = rc.t /\ rc'.k = "none"
  BY DEF AssignCommitted, Commits, Others, At
<1>2. /\ Cur \in Slots /\ Cur # Nothing /\ rc.t \in Slots /\ rc.t # Nothing /\ ~drv.pruning
      /\ ~drv.quarantined /\ CommitLine(Cur, rc.t, "assigned")
      /\ Accounted /\ Taken /\ drv.untyped = Nothing /\ (Own => Superseded)
      /\ drv.live = Nothing /\ ext.open = {}
  BY <1>1, BeginFacts
<1> DEFINE a == Attempt(Corr(rc.t), rc.t.seq, rc.t.due)
<1>3. a.seq = rc.t.seq /\ a.fenced = FALSE
  BY DEF Attempt
<1>4. drv' = [drv EXCEPT !.inflight = a]
  BY DEF AssignCommitted
<1> HIDE DEF a
<1>5. /\ drv'.live = drv.live /\ drv'.untyped = drv.untyped /\ drv'.inflight = a
      /\ drv'.pruning = drv.pruning /\ drv'.amb = drv.amb /\ drv'.quarantined = drv.quarantined
  BY <1>4, BookFacts DEF Drivers
<1>6. rc.t.epoch = count.epochs + 1 /\ rc.t.seq = Cur.seq
  BY <1>1, CommitFacts
<1>7. count'.epochs = rc.t.epoch /\ count.epochs \in Nat
  BY <1>1, BookFacts DEF AssignCommitted, Issued, Bookkeeping, Shape
<1>8. Shelf' /\ Cur' = rc.t
  <2>1. /\ ext'.open \subseteq ext.open /\ count'.epochs \in Nat
        /\ count.epochs <= count'.epochs /\ rc.t.epoch <= count'.epochs
    BY <1>1, <1>6, <1>7
  <2>2. drv'.inflight.seq = Cur.seq
    BY <1>3, <1>5, <1>6
  <2> QED BY <1>1, <1>2, <1>5, <2>1, <2>2, SavedShelf
<1>9. rc.t.phase = "ACTIVE" /\ rc.t.native /\ rc.t.kind \in {"START", "RESTART"}
  <2> DEFINE c == [epoch |-> count.epochs + 1, gen |-> 1]
             due == IF Cur.due = <<>> THEN SlotDeadline(Cur.seq) ELSE Cur.due
  <2>1. rc.t = Begun(Cur, c, due) /\ Cur.kind \in {"START", "RESTART"}
    BY <1>2 DEF CommitLine
  <2>2. c \in Corrs /\ due \in Dues
    BY <1>2, <1>7, SlotDue DEF Corrs, Slots
  <2> HIDE DEF c, due
  <2> QED BY <1>2, <2>1, <2>2, BegunFields
<1>10. Accounted'
  BY <1>1, <1>2 DEF Accounted
<1>11. rc'.pc \in AttemptPcs
  BY <1>1 DEF AttemptPcs
<1> QED BY <1>1, <1>2, <1>3, <1>5, <1>8, <1>9, <1>10, <1>11, AttemptBooks

LEMMA PruneFacts ==
    ASSUME Bookkeeping, rc.pc \in {"finish", "prune"}
    PROVE  /\ Cur \in Slots /\ Cur # Nothing /\ Terminal(Cur)
           /\ rc.pc = "finish" => rc.t = Cur /\ ~drv.pruning
           /\ rc.pc = "prune" => rc.t = Res
           /\ ~drv.quarantined =>
                 /\ Accounted /\ Taken /\ drv.untyped = Nothing /\ (Own => Superseded)
<1>1. /\ Cur \in Slots /\ Cur # Nothing /\ Terminal(Cur)
      /\ rc.pc = "finish" => rc.t = Cur /\ ~drv.pruning
      /\ rc.pc = "prune" => rc.t = Res
  <2>1. rc.pc = "finish" => rc.t \in Slots
    BY DEF Bookkeeping, Shape, RcShape, AtShape, UntypedPcs, AttemptPcs
  <2>2. rc.pc = "finish" => Cur = rc.t /\ Terminal(rc.t) /\ ~drv.pruning
    BY DEF Bookkeeping, Books, InHand, Plain
  <2>3. rc.pc = "prune" => Cur # Nothing /\ Terminal(Cur) /\ rc.t = Res
    BY DEF Bookkeeping, Books, InHand
  <2> QED BY <2>1, <2>2, <2>3, BookFacts, NothingIsNoSlot
<1>2. ~drv.quarantined =>
         /\ Accounted /\ Taken /\ (drv.untyped = Nothing \/ CanceledAt) /\ (Own => Superseded)
  BY DEF Bookkeeping, Books, Ledger, LiveLine, UntypedLine, InflightLine, UntypedPcs,
     OnAttempt, AttemptPcs, SettlePcs, SlotPcs, Taken
<1>3. ~CanceledAt
  BY <1>1 DEF CanceledAt, Terminal
<1> QED BY <1>1, <1>2, <1>3

LEMMA FinishBooks ==
    ASSUME Bookkeeping, Finish
    PROVE  Books'
<1>1. /\ rc.pc = "finish" /\ Others /\ store' = store /\ ext' = ext /\ count' = count /\ ~drv.deciding
  BY DEF Finish, Others
<1>2. /\ Cur \in Slots /\ Cur # Nothing /\ Terminal(Cur) /\ rc.t = Cur
      /\ ~drv.quarantined =>
            /\ Accounted /\ Taken /\ drv.untyped = Nothing /\ (Own => Superseded)
  BY <1>1, PruneFacts
<1>3. SameIdentity(store.rec.cur, rc.t)
  BY <1>2 DEF SameIdentity, Cur
<1>4. drv' = [drv EXCEPT !.pruning = TRUE] /\ rc' = At("prune", Res, "none")
  BY <1>3 DEF Finish, Res
<1>5. /\ drv'.live = drv.live /\ drv'.untyped = drv.untyped /\ drv'.inflight = drv.inflight
      /\ drv'.pruning /\ drv'.amb = drv.amb /\ drv'.quarantined = drv.quarantined
  BY <1>4, BookFacts DEF Drivers
<1>6. rc'.pc = "prune" /\ rc'.t = Res /\ rc'.k = "none"
  BY <1>4 DEF At
<1>7. Cur' = Cur /\ Res' = Res
  BY <1>1 DEF Cur, Res
<1>8. Sequence' /\ Epochs' /\ Plain' /\ Fencing'
  BY <1>1, <1>5, <1>6, <1>7 DEF Bookkeeping, Books, Others, Sequence, Last, Epochs, Plain, Fencing, Open,
     Releasing, Own, Superseded, SlotPcs
<1>9. InHand' /\ Calm'
  BY <1>2, <1>5, <1>6, <1>7 DEF InHand, Calm, SettlePcs, AttemptPcs, Starting, OnSetup, AtUntyped,
     UntypedPcs, OnAttempt, Terminal, Owing
<1>10. ~drv.quarantined => Ledger'
  BY <1>1, <1>2, <1>5, <1>6, <1>7 DEF Ledger, Accounted, Taken, LiveLine, UntypedLine, OpenLine, InflightLine,
     SettlePcs, AttemptPcs, OnSetup, AtUntyped, UntypedPcs, SlotPcs, Unopened, Own, Superseded,
     Terminal, Owing, Corr
<1> QED BY <1>5, <1>8, <1>9, <1>10 DEF Books

LEMMA PruneBooks ==
    ASSUME Bookkeeping, Prune
    PROVE  Books'
<1>1. /\ rc.pc = "prune" /\ Others /\ ext' = ext /\ count' = count /\ rc'.pc = "read"
      /\ store'.rec = [store.rec EXCEPT !.cur = rc.t, !.res = Nothing]
      /\ store'.status = store.status /\ store'.staged = store.staged
  BY DEF Prune, Others, Committed, Pruned, Reading, At, Bookkeeping, Shape
<1>2. /\ Cur \in Slots /\ Cur # Nothing /\ Terminal(Cur) /\ rc.t = Res
      /\ ~drv.quarantined =>
            /\ Accounted /\ Taken /\ drv.untyped = Nothing /\ (Own => Superseded)
  BY <1>1, PruneFacts
<1>3. /\ drv'.live = drv.live /\ drv'.untyped = drv.untyped /\ drv'.inflight = drv.inflight
      /\ ~drv'.pruning /\ drv'.amb = drv.amb /\ drv'.quarantined = drv.quarantined
  BY BookFacts DEF Prune, Drivers
<1>4. /\ Cur' = Res /\ Res' = Nothing /\ store'.rec.desired = store.rec.desired
      /\ store'.rec.rev = store.rec.rev /\ store'.rec.seq = store.rec.seq
  BY <1>1, <1>2, BookFacts DEF Cur, Res, Records
<1>5. Sequence /\ Epochs /\ Plain /\ Fencing
  BY DEF Bookkeeping, Books
<1>6. Sequence'
  BY <1>4, <1>5, LimitsOrdered DEF Sequence, Last, SlotLine, Fresh
<1>7. Epochs'
  BY <1>1, <1>3, <1>4, <1>5, BookFacts DEF Epochs, Sequence, Fresh
<1>8. Plain'
  BY <1>1, <1>3, <1>4, <1>5 DEF Plain, Others, Open
<1>9. ~Own'
  BY <1>3, <1>4, <1>5, BookFacts DEF Own, Fencing, Drivers, Attempts, Slots
<1>10. Fencing'
  BY <1>1, <1>3, <1>4, <1>5, <1>9 DEF Fencing, SlotPcs
<1>11. ~drv.quarantined => Accounted'
  BY <1>1, <1>2, <1>3, <1>4 DEF Accounted, Terminal, Owing
<1>12. ~drv.quarantined => Taken'
  <2> SUFFICES ASSUME ~drv.quarantined, drv.live # Nothing PROVE Taken'
    BY <1>3 DEF Taken
  <2>1. Cur.kind \in {"START", "RESTART"}
    BY <1>2 DEF Taken, Slots, Kinds, Methods
  <2>2. CASE Res = Nothing
    <3>1. store.rec.desired = "RUNNING"
      BY <1>2, <1>5, <2>1, <2>2, BookFacts DEF Sequence, Last, Records
    <3> QED BY <1>4, <2>2, <3>1 DEF Taken
  <2>3. CASE Res # Nothing
    BY <1>4, <1>5, <2>1, <2>3 DEF Taken, Sequence, Fresh, Terminal
  <2> QED BY <2>2, <2>3
<1> QED BY <1>1, <1>2, <1>3, <1>6, <1>7, <1>8, <1>9, <1>10, <1>11, <1>12, LetGo DEF Shelf

LEMMA PruneFailsBooks ==
    ASSUME Bookkeeping, PruneFails, count'.faults = 0
    PROVE  Books'
<1>0. count.faults \in Nat /\ count \in [epochs : Nat, boots : Nat, faults : Nat] /\ Open
  BY DEF Bookkeeping, Shape, Books, Plain
<1>1. ~Faulty
  BY <1>0 DEF Faulty
<1>2. /\ rc.pc = "prune" /\ Others /\ ext' = ext /\ count' = count /\ store' = store /\ rc'.pc = "idle"
  BY <1>0, <1>1 DEF PruneFails, Others, Asleep, At
<1>3. /\ Cur \in Slots /\ Cur # Nothing /\ Terminal(Cur)
      /\ ~drv.quarantined =>
            /\ Accounted /\ Taken /\ drv.untyped = Nothing /\ (Own => Superseded)
  BY <1>2, PruneFacts
<1>4. /\ drv'.live = drv.live /\ drv'.untyped = drv.untyped /\ drv'.inflight = drv.inflight
      /\ ~drv'.pruning /\ drv'.amb = drv.amb /\ drv'.quarantined = drv.quarantined
  BY BookFacts DEF PruneFails, Drivers
<1>5. ext'.open \subseteq Corrs /\ count'.epochs \in Nat /\ count.epochs <= count'.epochs
  BY <1>0, <1>2 DEF Bookkeeping, Books, Epochs
<1>6. /\ Shelf' /\ Cur' = Cur /\ Res' = Res
      /\ Own' => Own
      /\ Superseded' <=> Superseded
  BY <1>2, <1>4, <1>5, StandingShelf DEF SlotPcs
<1>7. ~drv.quarantined => Accounted' /\ Taken'
  BY <1>2, <1>3, <1>4, <1>6 DEF Accounted, Taken, Terminal, Owing, Corr
<1> QED BY <1>2, <1>3, <1>4, <1>6, <1>7, LetGo

LEMMA OnAttemptFacts ==
    ASSUME Bookkeeping, rc.pc \in AttemptPcs
    PROVE  /\ rc.t \in Slots /\ rc.t # Nothing /\ Cur = rc.t /\ rc.pc \in SlotPcs
           /\ rc.t.phase = "ACTIVE" /\ rc.t.native /\ rc.t.kind \in {"START", "RESTART"}
           /\ rc.t.epoch # 0 /\ rc.t.epoch <= count.epochs
           /\ ~drv.pruning /\ ~drv.quarantined /\ drv.untyped = Nothing /\ drv.live = Nothing
           /\ Accounted /\ (Own /\ drv.inflight.fenced => Superseded)
           /\ Unopened(rc) => ext.open = {}
           /\ ext.open \subseteq {Corr(rc.t)}
<1>1. rc.t \in Slots /\ rc.t # Nothing
  BY NothingIsNoSlot DEF Bookkeeping, Shape, RcShape, AtShape, UntypedPcs, AttemptPcs
<1>2. /\ Cur = rc.t /\ rc.t.phase = "ACTIVE" /\ rc.t.native /\ rc.t.kind \in {"START", "RESTART"}
  BY DEF Bookkeeping, Books, InHand
<1>3. rc.t.epoch # 0 /\ rc.t.epoch <= count.epochs
  BY <1>1, <1>2 DEF Bookkeeping, Books, Sequence, SlotLine, Epochs
<1>4. ~drv.pruning /\ ~drv.quarantined
  BY DEF Bookkeeping, Books, Plain, Calm, Starting, OnAttempt, AttemptPcs
<1>5. /\ drv.untyped = Nothing /\ drv.live = Nothing /\ rc.pc \in SlotPcs
      /\ Accounted /\ (Own /\ drv.inflight.fenced => Superseded)
      /\ Unopened(rc) => ext.open = {}
  BY <1>4 DEF Bookkeeping, Books, Ledger, LiveLine, UntypedLine, OpenLine, InflightLine, OnSetup,
     AttemptPcs, SlotPcs
<1>6. ext.open \subseteq Corrs
  BY DEF Bookkeeping, Books, Epochs
<1>7. ext.open \subseteq {Corr(rc.t)}
  BY <1>2, <1>5, <1>6, NothingIsNone DEF Accounted
<1> QED BY <1>1, <1>2, <1>3, <1>4, <1>5, <1>7

\* An attempt is left when its slot is superseded.
LEMMA AttemptStops ==
    ASSUME Bookkeeping, Others, store' = store, count' = count, ext' = ext, drv' = drv,
           rc.pc \in AttemptPcs, rc' = Reading, FencedByStore(rc.t) \/ drv.inflight.fenced
    PROVE  Books'
<1>1. /\ rc.t # Nothing /\ Cur = rc.t /\ ~drv.pruning /\ drv.untyped = Nothing
      /\ (Own /\ drv.inflight.fenced => Superseded)
  BY OnAttemptFacts
<1>2. Own => Superseded
  BY <1>1 DEF FencedByStore, Superseded, Res
<1>3. rc'.pc = "read" /\ Alike(drv, drv') /\ rc.pc # "commit"
  BY DEF Reading, At, Alike, AttemptPcs
<1> QED BY <1>1, <1>2, <1>3, RestBooks

\* An attempt that failed, or is out of budget, is settled.
LEMMA AttemptExhausts ==
    ASSUME Bookkeeping, Others, store' = store, count' = count, ext' = ext,
           rc.pc \in AttemptPcs, NEW u \in BOOLEAN, Exhaust(drv, rc.t, u)
    PROVE  Books'
<1>1. /\ rc.t \in Slots /\ rc.t # Nothing /\ Cur = rc.t /\ rc.pc \in SlotPcs
      /\ rc.t.phase = "ACTIVE" /\ rc.t.native
      /\ ~drv.pruning /\ drv.untyped = Nothing /\ drv.live = Nothing
      /\ Accounted /\ (Own /\ drv.inflight.fenced => Superseded)
  BY OnAttemptFacts
<1> DEFINE d == [drv EXCEPT !.quarantined = @ \/ u]
<1>2. /\ d \in Drivers /\ d.live = drv.live /\ d.inflight = drv.inflight /\ d.untyped = drv.untyped
      /\ d.pruning = drv.pruning /\ d.amb = drv.amb
  BY BookFacts DEF Drivers
<1>3. SettleObligations(d, rc.t, "exhausted")
  BY DEF Exhaust
<1> HIDE DEF d
<1>4. Cur' = Cur
  BY DEF Cur
<1>5. SettleLine(rc.t, "exhausted", d.quarantined)
  BY <1>1 DEF SettleLine, Terminal
<1>6. Settles(d, rc.t, "exhausted")
  BY <1>1, <1>2, <1>3, <1>4, <1>5, SettleLands DEF Settlements
<1>7. /\ drv'.live = d.live /\ drv'.inflight = d.inflight /\ drv'.untyped = d.untyped
      /\ drv'.pruning = d.pruning /\ drv'.amb = d.amb /\ drv'.quarantined = d.quarantined
  BY <1>6 DEF Settles, Alike
<1>8. ext'.open \subseteq Corrs /\ count'.epochs \in Nat /\ count.epochs <= count'.epochs
  BY BookFacts DEF Bookkeeping, Books, Epochs
<1>9. /\ Shelf' /\ Res' = Res /\ (Own' => Own) /\ (Superseded' <=> Superseded)
  BY <1>1, <1>2, <1>7, <1>8, StandingShelf
<1>10. Accounted' /\ Taken'
  BY <1>1, <1>2, <1>4, <1>7 DEF Accounted, Taken, Corr
<1> QED BY <1>1, <1>2, <1>6, <1>7, <1>9, <1>10, SettleBooks DEF Settlements

\* An attempt goes on with what it has in hand.
LEMMA AttemptGoes ==
    ASSUME Bookkeeping, Others, store' = store, count' = count,
           rc.pc \in AttemptPcs, rc'.pc \in AttemptPcs, rc'.t = rc.t,
           drv'.live = drv.live, drv'.untyped = drv.untyped, drv'.quarantined = drv.quarantined,
           drv'.pruning = drv.pruning, drv'.amb = drv.amb,
           drv'.inflight # Nothing =>
              /\ drv.inflight # Nothing /\ drv'.inflight.seq = drv.inflight.seq
              /\ drv'.inflight.fenced = drv.inflight.fenced,
           ext'.open \subseteq {Corr(rc.t)}, Unopened(rc') => ext'.open = {}
    PROVE  Books'
<1>1. /\ rc.t \in Slots /\ rc.t # Nothing /\ Cur = rc.t /\ rc.pc \in SlotPcs
      /\ rc.t.phase = "ACTIVE" /\ rc.t.native /\ rc.t.kind \in {"START", "RESTART"}
      /\ ~drv.pruning /\ ~drv.quarantined /\ drv.untyped = Nothing /\ drv.live = Nothing
      /\ (Own /\ drv.inflight.fenced => Superseded)
  BY OnAttemptFacts
<1>2. ext'.open \subseteq Corrs /\ count'.epochs \in Nat /\ count.epochs <= count'.epochs
  BY <1>1, BookFacts DEF Corr, Corrs, Slots
<1>3. /\ Shelf' /\ Cur' = Cur /\ (Own' => Own) /\ (Superseded' <=> Superseded)
  BY <1>1, <1>2, StandingShelf
<1>4. Own' => drv'.inflight # Nothing
  BY DEF Own
<1>5. Accounted'
  BY <1>1, <1>3 DEF Accounted
<1> QED BY <1>1, <1>3, <1>4, <1>5, AttemptBooks

\* The books of a reconciler about to write the charge or the generation of an
\* attempt.
LEMMA AttemptWrites ==
    ASSUME Bookkeeping, Others, store' = store, count' = count, ext' = ext,
           rc.pc \in AttemptPcs, ext.open = {}, NEW z, NEW k \in {"charged", "regen"},
           rc' = At("commit", z, k),
           k = "charged" => z = [rc.t EXCEPT !.used = @ + 1] /\ rc.t.used < StartLimit,
           k = "regen" => z = [rc.t EXCEPT !.gen = @ + 1],
           drv'.live = drv.live, drv'.untyped = drv.untyped, drv'.quarantined = drv.quarantined,
           drv'.pruning = drv.pruning, drv'.amb = drv.amb,
           drv'.inflight # Nothing =>
              /\ drv.inflight # Nothing /\ drv'.inflight.seq = drv.inflight.seq
              /\ drv'.inflight.fenced = drv.inflight.fenced
    PROVE  Books'
<1>1. /\ rc.t \in Slots /\ rc.t # Nothing /\ Cur = rc.t /\ rc.pc \in SlotPcs
      /\ rc.t.phase = "ACTIVE" /\ rc.t.native /\ rc.t.kind \in {"START", "RESTART"}
      /\ ~drv.pruning /\ ~drv.quarantined /\ drv.untyped = Nothing /\ drv.live = Nothing
      /\ (Own /\ drv.inflight.fenced => Superseded)
  BY OnAttemptFacts
<1>2. ext'.open \subseteq Corrs /\ count'.epochs \in Nat /\ count.epochs <= count'.epochs
  BY <1>1, BookFacts
<1>3. /\ Shelf' /\ Cur' = Cur /\ (Own' => Own) /\ (Superseded' <=> Superseded)
  BY <1>1, <1>2, StandingShelf
<1>4. Own' => drv'.inflight # Nothing
  BY DEF Own
<1>5. rc'.pc = "commit" /\ rc'.t = z /\ rc'.k = k
  BY DEF At
<1>6. CommitLine(Cur, rc.t, rc.k)'
  BY <1>1, <1>3, <1>5 DEF CommitLine, Settlements, OfAttempt, StartLimit
<1>7. InHand' /\ Calm'
  BY <1>1, <1>3, <1>5, <1>6 DEF InHand, Calm, SettlePcs, AttemptPcs, Settlements
<1>8. Ledger'
  BY <1>1, <1>3, <1>4, <1>5 DEF Ledger, Accounted, LiveLine, UntypedLine, OpenLine, InflightLine, OnAttempt,
     SettlePcs, AttemptPcs, OnSetup, AtUntyped, UntypedPcs, SlotPcs, Unopened, Settlements, OfAttempt
<1> QED BY <1>3, <1>7, <1>8 DEF Books, Shelf

LEMMA OnAttemptInflight ==
    ASSUME Bookkeeping, OnAttempt(rc)
    PROVE  drv.inflight \in Attempts /\ drv.inflight # Nothing /\ drv.inflight.seq = rc.t.seq
BY NothingIsNone DEF Bookkeeping, Shape, RcShape

LEMMA AttemptHeadBooks ==
    ASSUME Bookkeeping, AttemptHead
    PROVE  Books'
<1>1. /\ Others /\ store' = store /\ ext' = ext /\ count' = count
      /\ rc.pc = "attempt" /\ rc.pc \in AttemptPcs
  BY DEF AttemptHead, Others, AttemptPcs
<1>2. drv.inflight \in Attempts /\ drv.inflight # Nothing
  BY <1>1, OnAttemptInflight DEF OnAttempt
<1>3. rc.t \in Slots /\ rc.t.used \in Nat /\ ext.open = {}
  BY <1>1, OnAttemptFacts DEF Unopened, Slots
<1>4. CASE (FencedByStore(rc.t) \/ drv.inflight.fenced) /\ rc' = Reading /\ drv' = drv
  BY <1>1, <1>4, AttemptStops
<1>5. CASE rc' = At("commit", [rc.t EXCEPT !.gen = @ + 1], "regen") /\ drv' = drv
  BY <1>1, <1>3, <1>5, AttemptWrites
<1>6. CASE Exhaust(drv, rc.t, FALSE)
  BY <1>1, <1>6, AttemptExhausts
<1>7. CASE rc' = At("start", rc.t, "none") /\ drv' = drv
  <2>1. rc'.pc = "start" /\ rc'.t = rc.t /\ rc'.pc \in AttemptPcs
    BY <1>7 DEF At, AttemptPcs
  <2> QED BY <1>1, <1>3, <1>7, <2>1, AttemptGoes
<1>8. CASE /\ rc.t.used < StartLimit
           /\ rc' = At("commit", [rc.t EXCEPT !.used = @ + 1], "charged")
           /\ drv' = [drv EXCEPT !.inflight.chargedTo = rc.t.used + 1]
  <2> DEFINE a == [drv.inflight EXCEPT !.chargedTo = rc.t.used + 1]
  <2>1. a.seq = drv.inflight.seq /\ a.fenced = drv.inflight.fenced
    BY <1>2 DEF Attempts
  <2>2. drv' = [drv EXCEPT !.inflight = a]
    BY <1>8
  <2> HIDE DEF a
  <2>3. /\ drv'.live = drv.live /\ drv'.untyped = drv.untyped /\ drv'.inflight = a
        /\ drv'.pruning = drv.pruning /\ drv'.amb = drv.amb /\ drv'.quarantined = drv.quarantined
    BY <2>2, BookFacts DEF Drivers
  <2> QED BY <1>1, <1>2, <1>3, <1>8, <2>1, <2>3, AttemptWrites
<1>9. StartLimit \in Nat
  BY LimitsOrdered
<1>10. \/ (FencedByStore(rc.t) \/ drv.inflight.fenced) /\ rc' = Reading /\ drv' = drv
       \/ rc' = At("commit", [rc.t EXCEPT !.gen = @ + 1], "regen") /\ drv' = drv
       \/ Exhaust(drv, rc.t, FALSE)
       \/ rc' = At("start", rc.t, "none") /\ drv' = drv
       \/ /\ ~(rc.t.used >= StartLimit)
          /\ rc' = At("commit", [rc.t EXCEPT !.used = @ + 1], "charged")
          /\ drv' = [drv EXCEPT !.inflight.chargedTo = rc.t.used + 1]
  BY Zenon DEF AttemptHead
<1>11. ~(rc.t.used >= StartLimit) => rc.t.used < StartLimit
  BY <1>3, <1>9
<1> QED BY <1>4, <1>5, <1>6, <1>7, <1>8, <1>10, <1>11

LEMMA AttemptCommitFacts ==
    ASSUME Bookkeeping, rc.pc = "commit", rc.k \in OfAttempt
    PROVE  /\ Cur \in Slots /\ Cur # Nothing /\ rc.t \in Slots /\ rc.t # Nothing
           /\ rc.t.epoch = Cur.epoch /\ rc.t.epoch <= count.epochs /\ rc.t.seq = Cur.seq
           /\ rc.t.kind \in {"START", "RESTART"} /\ CommitLine(Cur, rc.t, rc.k)
           /\ rc.k # "completed" => rc.t.phase = "ACTIVE" /\ rc.t.native
           /\ ~drv.pruning /\ ~drv.quarantined /\ drv.untyped = Nothing
           /\ Accounted /\ (Own /\ drv.inflight.fenced => Superseded)
           /\ rc.k # "completed" => drv.live = Nothing /\ ext.open = {}
           /\ rc.k = "completed" => drv.live = Corr(rc.t)
<1>1. /\ Cur \in Slots /\ Cur # Nothing /\ rc.t \in Slots /\ rc.t # Nothing
      /\ rc.t.epoch = Cur.epoch /\ rc.t.seq = Cur.seq
  BY CommitFacts, NothingIsNoSlot DEF OfAttempt
<1>2. CommitLine(Cur, rc.t, rc.k) /\ ~drv.pruning /\ Cur.epoch <= count.epochs
  BY <1>1 DEF Bookkeeping, Books, InHand, Plain, Epochs
<1>3. ~drv.quarantined
  BY DEF Bookkeeping, Books, Calm, Starting, OnAttempt
<1>4. Cur.phase = "ACTIVE" /\ Cur.native /\ Cur.kind \in {"START", "RESTART"}
  BY <1>2 DEF CommitLine
<1>5. rc.k # "completed" => rc.t.phase = "ACTIVE" /\ rc.t.native
  BY <1>1, <1>2, <1>4 DEF CommitLine, OfAttempt, Slots
<1>6. rc.t.kind \in {"START", "RESTART"}
  BY <1>4, CommitFacts
<1>7. /\ drv.untyped = Nothing
      /\ Accounted /\ (Own /\ drv.inflight.fenced => Superseded)
      /\ rc.k # "completed" => drv.live = Nothing /\ ext.open = {}
      /\ rc.k = "completed" => drv.live = Corr(rc.t)
  BY <1>3 DEF Bookkeeping, Books, Ledger, LiveLine, UntypedLine, OpenLine, InflightLine,
     OnSetup, OfAttempt, SlotPcs, Unopened
<1> QED BY <1>1, <1>2, <1>3, <1>5, <1>6, <1>7

\* A committed charge or generation takes the attempt on.
LEMMA AttemptResumes ==
    ASSUME Bookkeeping, Others, rc.pc = "commit", rc.k \in {"charged", "regen"}, Saved,
           ext' = ext, count' = count, rc'.pc \in AttemptPcs, rc'.t = rc.t,
           drv'.live = drv.live, drv'.untyped = drv.untyped, drv'.quarantined = drv.quarantined,
           drv'.pruning = drv.pruning, drv'.amb = drv.amb,
           drv'.inflight.seq = drv.inflight.seq, drv'.inflight.fenced = drv.inflight.fenced
    PROVE  Books'
<1>1. /\ Cur \in Slots /\ Cur # Nothing /\ rc.t \in Slots /\ rc.t # Nothing
      /\ rc.t.epoch <= count.epochs /\ rc.t.seq = Cur.seq
      /\ rc.t.kind \in {"START", "RESTART"}
      /\ rc.t.phase = "ACTIVE" /\ rc.t.native
      /\ ~drv.pruning /\ ~drv.quarantined /\ drv.untyped = Nothing
      /\ (Own /\ drv.inflight.fenced => Superseded)
      /\ drv.live = Nothing /\ ext.open = {}
  BY AttemptCommitFacts DEF OfAttempt
<1>2. drv.inflight # Nothing /\ drv.inflight.seq = Cur.seq
  BY <1>1, OnAttemptInflight DEF OnAttempt, OfAttempt
<1>3. count'.epochs \in Nat /\ count.epochs <= count'.epochs /\ ext'.open \subseteq ext.open
  BY BookFacts
<1>4. Shelf' /\ Cur' = rc.t /\ (Superseded' <=> Superseded)
  BY <1>1, <1>2, <1>3, SavedShelf
<1>5. Accounted'
  BY <1>1 DEF Accounted
<1>6. Own
  BY <1>1, <1>2 DEF Own
<1> QED BY <1>1, <1>4, <1>5, <1>6, AttemptBooks

LEMMA StartChargedBooks ==
    ASSUME Bookkeeping, StartCharged
    PROVE  Books'
<1>1. /\ Others /\ ext' = ext /\ count' = count /\ rc.pc = "commit" /\ Saved /\ rc.k = "charged"
      /\ rc'.pc = "start" /\ rc'.t = rc.t /\ drv' = drv
  BY DEF StartCharged, Commits, Others, At
<1> QED BY <1>1, AttemptResumes DEF AttemptPcs

LEMMA GenerationCommittedBooks ==
    ASSUME Bookkeeping, GenerationCommitted
    PROVE  Books'
<1>1. /\ Others /\ ext' = ext /\ count' = count /\ rc.pc = "commit" /\ Saved /\ rc.k = "regen"
      /\ rc'.pc = "attempt" /\ rc'.t = rc.t
  BY DEF GenerationCommitted, Commits, Others, At
<1> DEFINE a == [drv.inflight EXCEPT !.pendingGen = FALSE]
<1>2. a.seq = drv.inflight.seq /\ a.fenced = drv.inflight.fenced
  BY <1>1, OnAttemptInflight DEF OnAttempt, OfAttempt, Attempts
<1>3. drv' = [drv EXCEPT !.inflight = a]
  BY DEF GenerationCommitted
<1> HIDE DEF a
<1>4. /\ drv'.live = drv.live /\ drv'.untyped = drv.untyped /\ drv'.inflight = a
      /\ drv'.pruning = drv.pruning /\ drv'.amb = drv.amb /\ drv'.quarantined = drv.quarantined
  BY <1>3, BookFacts DEF Drivers
<1> QED BY <1>1, <1>2, <1>4, AttemptResumes DEF AttemptPcs

LEMMA StartReturnsBooks ==
    ASSUME Bookkeeping, StartReturns
    PROVE  Books'
<1>1. /\ Others /\ store' = store /\ count' = count /\ rc.pc = "start" /\ rc.pc \in AttemptPcs
  BY DEF StartReturns, Others, AttemptPcs
<1>2. drv.inflight \in Attempts /\ drv.inflight # Nothing
  BY <1>1, OnAttemptInflight DEF OnAttempt
<1>3. ext.open = {}
  BY <1>1, OnAttemptFacts DEF Unopened
<1> DEFINE a == [drv.inflight EXCEPT !.chargedTo = 0, !.corr = Corr(rc.t)]
<1>4. a.seq = drv.inflight.seq /\ a.fenced = drv.inflight.fenced
  BY <1>2 DEF Attempts
<1>5. drv' = [drv EXCEPT !.inflight = a]
  BY BookFacts DEF StartReturns, Drivers
<1> HIDE DEF a
<1>6. /\ drv'.live = drv.live /\ drv'.untyped = drv.untyped /\ drv'.inflight = a
      /\ drv'.pruning = drv.pruning /\ drv'.amb = drv.amb /\ drv'.quarantined = drv.quarantined
  BY <1>5, BookFacts DEF Drivers
<1>7. PICK result \in Results :
         /\ rc' = At("judge", rc.t, result) /\ ext'.open = Opened(Corr(rc.t), result)
  BY DEF StartReturns
<1>8. rc'.pc = "judge" /\ rc'.t = rc.t /\ rc'.k = result /\ rc'.pc \in AttemptPcs
  BY <1>7 DEF At, AttemptPcs
<1>9. ext'.open \subseteq {Corr(rc.t)} /\ (Unopened(rc') => ext'.open = {})
  BY <1>3, <1>7, <1>8 DEF Opened, Unopened
<1> QED BY <1>1, <1>2, <1>4, <1>6, <1>8, <1>9, AttemptGoes

LEMMA JudgeStartBooks ==
    ASSUME Bookkeeping, JudgeStart
    PROVE  Books'
<1>1. /\ Others /\ store' = store /\ ext' = ext /\ count' = count
      /\ rc.pc = "judge" /\ rc.pc \in AttemptPcs
  BY DEF JudgeStart, Others, AttemptPcs
<1>2. drv.inflight # Nothing /\ ext.open \subseteq {Corr(rc.t)}
  BY <1>1, OnAttemptInflight, OnAttemptFacts DEF OnAttempt
<1>3. CASE (FencedByStore(rc.t) \/ drv.inflight.fenced) /\ rc' = Reading /\ drv' = drv
  BY <1>1, <1>3, AttemptStops
<1>4. CASE Exhaust(drv, rc.t, TRUE) \/ Exhaust(drv, rc.t, FALSE)
  BY <1>1, <1>4, AttemptExhausts
<1>5. CASE rc' = At("admit", rc.t, "none") /\ drv' = drv
  <2>1. rc'.pc = "admit" /\ rc'.t = rc.t /\ rc'.pc \in AttemptPcs /\ ~Unopened(rc')
    BY <1>5 DEF At, AttemptPcs, Unopened
  <2> QED BY <1>1, <1>2, <1>5, <2>1, AttemptGoes
<1>6. CASE rc.k = "retry" /\ rc' = At("backoff", rc.t, "none") /\ drv' = drv
  <2>1. rc'.pc = "backoff" /\ rc'.t = rc.t /\ rc'.pc \in AttemptPcs
    BY <1>6 DEF At, AttemptPcs
  <2>2. ext.open = {}
    BY <1>1, <1>6, OnAttemptFacts DEF Unopened
  <2> QED BY <1>1, <1>2, <1>6, <2>1, <2>2, AttemptGoes
<1>7. \/ (FencedByStore(rc.t) \/ drv.inflight.fenced) /\ rc' = Reading /\ drv' = drv
      \/ Exhaust(drv, rc.t, TRUE) \/ Exhaust(drv, rc.t, FALSE)
      \/ rc' = At("admit", rc.t, "none") /\ drv' = drv
      \/ rc.k = "retry" /\ rc' = At("backoff", rc.t, "none") /\ drv' = drv
  BY Zenon DEF JudgeStart
<1> QED BY <1>3, <1>4, <1>5, <1>6, <1>7

LEMMA AdmitStartBooks ==
    ASSUME Bookkeeping, AdmitStart
    PROVE  Books'
<1>1. /\ Others /\ store' = store /\ ext' = ext /\ count' = count
      /\ rc.pc = "admit" /\ rc.pc \in AttemptPcs
  BY DEF AdmitStart, Others, AttemptPcs
<1>2. drv.inflight \in Attempts /\ drv.inflight # Nothing
  BY <1>1, OnAttemptInflight DEF OnAttempt
<1>3. CASE drv.inflight.fenced /\ rc' = Reading /\ drv' = drv
  BY <1>1, <1>3, AttemptStops
<1>4. CASE Exhaust(drv, rc.t, FALSE)
  BY <1>1, <1>4, AttemptExhausts
<1>5. CASE /\ drv' = [drv EXCEPT !.inflight.admitted = TRUE, !.auto = TRUE, !.live = Corr(rc.t)]
           /\ rc' = At("commit", Discharged(rc.t), "completed")
  <2>1. /\ rc.t \in Slots /\ rc.t # Nothing /\ Cur = rc.t /\ rc.pc \in SlotPcs
        /\ rc.t.phase = "ACTIVE" /\ rc.t.native /\ rc.t.kind \in {"START", "RESTART"}
        /\ rc.t.epoch # 0 /\ rc.t.epoch <= count.epochs
        /\ ~drv.pruning /\ ~drv.quarantined /\ drv.untyped = Nothing
        /\ (Own /\ drv.inflight.fenced => Superseded)
        /\ ext.open \subseteq {Corr(rc.t)}
    BY <1>1, OnAttemptFacts
  <2> DEFINE a == [drv.inflight EXCEPT !.admitted = TRUE]
             z == Discharged(rc.t)
             l == Corr(rc.t)
  <2>2. a.seq = drv.inflight.seq /\ a.fenced = drv.inflight.fenced
    BY <1>2 DEF Attempts
  <2>3. drv' = [drv EXCEPT !.inflight = a, !.auto = TRUE, !.live = l]
    BY <1>5
  <2>4. rc'.pc = "commit" /\ rc'.t = z /\ rc'.k = "completed"
    BY <1>5 DEF At
  <2>5. l \in Corrs /\ l.epoch = rc.t.epoch /\ Corr(z) = l
    BY <2>1, DischargedFields DEF Corr, Corrs, Slots
  <2> HIDE DEF a
  <2> HIDE DEF l
  <2>6. /\ drv'.live = l /\ drv'.untyped = drv.untyped /\ drv'.inflight = a
        /\ drv'.pruning = drv.pruning /\ drv'.amb = drv.amb /\ drv'.quarantined = drv.quarantined
    BY <2>3, BookFacts DEF Drivers
  <2>7. ext'.open \subseteq Corrs /\ count'.epochs \in Nat /\ count.epochs <= count'.epochs
    BY <1>1, BookFacts DEF Bookkeeping, Books, Epochs
  <2>8. /\ Shelf' /\ Cur' = Cur /\ (Own' => Own) /\ (Superseded' <=> Superseded)
    BY <1>1, <1>2, <2>1, <2>2, <2>5, <2>6, <2>7, StandingShelf
  <2>9. CommitLine(Cur, rc.t, rc.k)'
    BY <2>1, <2>4, <2>8 DEF CommitLine, Settlements, OfAttempt
  <2> HIDE DEF z
  <2>10. InHand' /\ Calm'
    BY <2>1, <2>4, <2>6, <2>8, <2>9 DEF InHand, Calm, SettlePcs, AttemptPcs, Settlements
  <2>11. Accounted'
    BY <1>1, <2>1, <2>6 DEF Accounted, l
  <2>12. Ledger'
    BY <2>1, <2>2, <2>4, <2>5, <2>6, <2>8, <2>11 DEF Ledger, LiveLine, UntypedLine, OpenLine, InflightLine,
       OnAttempt, SettlePcs, AttemptPcs, OnSetup, AtUntyped, UntypedPcs, SlotPcs, Unopened, Settlements,
       OfAttempt, l
  <2> QED BY <2>8, <2>10, <2>12 DEF Books, Shelf
<1> QED BY <1>3, <1>4, <1>5 DEF AdmitStart

LEMMA StartCompletedBooks ==
    ASSUME Bookkeeping, StartCompleted
    PROVE  Books'
<1>1. /\ Others /\ ext' = ext /\ count' = count /\ rc.pc = "commit" /\ Saved /\ rc.k = "completed"
      /\ rc'.pc = "read" /\ drv' = [drv EXCEPT !.inflight = Nothing]
  BY DEF StartCompleted, Commits, Others, Reading, At
<1>2. /\ Cur \in Slots /\ Cur # Nothing /\ rc.t \in Slots /\ rc.t # Nothing
      /\ rc.t.epoch = Cur.epoch /\ rc.t.epoch <= count.epochs
      /\ rc.t.kind \in {"START", "RESTART"} /\ CommitLine(Cur, rc.t, rc.k)
      /\ ~drv.pruning /\ ~drv.quarantined /\ drv.untyped = Nothing
      /\ Accounted /\ drv.live = Corr(rc.t)
  BY <1>1, AttemptCommitFacts DEF OfAttempt
<1>3. /\ drv'.live = drv.live /\ drv'.untyped = drv.untyped /\ drv'.inflight = Nothing
      /\ drv'.pruning = drv.pruning /\ drv'.amb = drv.amb /\ drv'.quarantined = drv.quarantined
  BY <1>1, BookFacts DEF Drivers
<1>4. count'.epochs \in Nat /\ count.epochs <= count'.epochs /\ ext'.open \subseteq ext.open
  BY <1>1, BookFacts
<1>5. Shelf' /\ Cur' = rc.t
  BY <1>1, <1>2, <1>3, <1>4, SavedShelf
<1>6. rc.t = Discharged(Cur)
  BY <1>1, <1>2 DEF CommitLine
<1>7. rc.t.gen = Cur.gen /\ ~rc.t.native /\ ~rc.t.semantic /\ rc.t.phase = "CLEANUP"
  BY <1>2, <1>6, DischargedFields
<1>8. Accounted'
  BY <1>1, <1>2, <1>3, <1>7 DEF Accounted, Corr
<1>9. Taken'
  BY <1>2, <1>3, <1>5, <1>7 DEF Taken, Terminal, Owing
<1>10. ~Own'
  BY <1>3 DEF Own
<1> QED BY <1>1, <1>2, <1>3, <1>5, <1>8, <1>9, <1>10, LetGo

LEMMA BackoffBooks ==
    ASSUME Bookkeeping, Backoff
    PROVE  Books'
<1>1. /\ Others /\ store' = store /\ ext' = ext /\ count' = count /\ drv' = drv
      /\ rc.pc = "backoff" /\ rc.pc \in AttemptPcs
  BY DEF Backoff, Others, AttemptPcs
<1>2. drv.inflight # Nothing /\ ext.open = {}
  BY <1>1, OnAttemptInflight, OnAttemptFacts DEF OnAttempt, Unopened
<1>3. CASE drv.inflight.fenced /\ rc' = Reading
  BY <1>1, <1>3, AttemptStops
<1>4. CASE rc' = At("commit", [rc.t EXCEPT !.gen = @ + 1], "regen")
  BY <1>1, <1>2, <1>4, AttemptWrites
<1>5. CASE rc' = At("attempt", rc.t, "none")
  <2>1. rc'.pc = "attempt" /\ rc'.t = rc.t /\ rc'.pc \in AttemptPcs
    BY <1>5 DEF At, AttemptPcs
  <2> QED BY <1>1, <1>2, <1>5, <2>1, AttemptGoes
<1> QED BY <1>3, <1>4, <1>5 DEF Backoff

\* What holds on the untyped attempt.
LEMMA OnUntypedFacts ==
    ASSUME Bookkeeping, AtUntyped(rc)
    PROVE  /\ ~drv.pruning /\ ~drv.quarantined /\ drv.live = Nothing /\ Accounted
           /\ Own => Superseded
           /\ Unopened(rc) => ext.open = {}
           /\ rc.pc \notin SlotPcs
           /\ Cur = Nothing => store.rec.desired = "RUNNING"
           /\ rc.pc \in UntypedPcs =>
                 /\ drv.untyped \in Attempts /\ drv.untyped # Nothing
                 /\ drv.untyped.corr \in Corrs
                 /\ drv.untyped.corr.epoch # 0 /\ drv.untyped.corr.epoch <= count.epochs
                 /\ Cur = Nothing => ~drv.untyped.fenced /\ ~drv.deciding
                 /\ Cur # Nothing /\ rc.pc # "u_check" =>
                       CanceledAt /\ (drv.untyped.fenced \/ (Releasing /\ req.fence))
                 /\ ext.open \subseteq {drv.untyped.corr}
<1>1. ~drv.pruning /\ ~drv.quarantined /\ rc.pc \notin SlotPcs
  BY DEF Bookkeeping, Books, Plain, Calm, Starting, AtUntyped, UntypedPcs, SlotPcs
<1>2. /\ drv.live = Nothing /\ Accounted /\ (Own => Superseded)
      /\ Unopened(rc) => ext.open = {}
      /\ Cur = Nothing => store.rec.desired = "RUNNING"
  BY <1>1 DEF Bookkeeping, Books, Ledger, LiveLine, UntypedLine, OpenLine, InflightLine, AtUntyped,
     UntypedPcs, OnAttempt, AttemptPcs, SettlePcs
<1>3. ASSUME rc.pc \in UntypedPcs
      PROVE  /\ drv.untyped \in Attempts /\ drv.untyped # Nothing
             /\ drv.untyped.corr \in Corrs
             /\ drv.untyped.corr.epoch # 0 /\ drv.untyped.corr.epoch <= count.epochs
             /\ Cur = Nothing => ~drv.untyped.fenced /\ ~drv.deciding
             /\ Cur # Nothing /\ rc.pc # "u_check" =>
                   CanceledAt /\ (drv.untyped.fenced \/ (Releasing /\ req.fence))
             /\ ext.open \subseteq {drv.untyped.corr}
  <2>1. drv.untyped \in Attempts /\ drv.untyped # Nothing
    BY <1>3, NothingIsNone DEF Bookkeeping, Shape, RcShape
  <2>2. /\ drv.untyped.corr \in Corrs
        /\ drv.untyped.corr.epoch # 0 /\ drv.untyped.corr.epoch <= count.epochs
    BY <2>1 DEF Attempts, Bookkeeping, Books, Epochs
  <2>3. /\ Cur = Nothing => ~drv.untyped.fenced /\ ~drv.deciding
        /\ Cur # Nothing /\ rc.pc # "u_check" =>
              CanceledAt /\ (drv.untyped.fenced \/ (Releasing /\ req.fence))
    BY <1>1, <1>3, BookFacts DEF Bookkeeping, Books, Ledger, UntypedLine
  <2>4. ext.open \subseteq Corrs
    BY DEF Bookkeeping, Books, Epochs
  <2>5. rc.pc = "u_check" => ext.open = {}
    BY <1>2 DEF Unopened
  <2>6. ext.open \subseteq {drv.untyped.corr}
    BY <1>2, <2>3, <2>4, <2>5, NothingIsNone DEF Accounted, CanceledAt
  <2> QED BY <2>1, <2>2, <2>3, <2>6
<1> QED BY <1>1, <1>2, <1>3

\* The books of a reconciler on the untyped attempt.
LEMMA UntypedBooks ==
    ASSUME Shelf', AtUntyped(rc'), ~drv'.quarantined, drv'.live = Nothing, Accounted', UntypedLine',
           Unopened(rc') => ext'.open = {}, Own' => Superseded'
    PROVE  Books'
<1> USE DEF Shelf, Books
<1>1. InHand' /\ Calm'
  BY DEF InHand, Calm, SettlePcs, AttemptPcs, AtUntyped, UntypedPcs
<1>2. Ledger'
  BY DEF Ledger, LiveLine, OpenLine, InflightLine, SettlePcs, AtUntyped, UntypedPcs
<1> QED BY <1>1, <1>2

\* The untyped attempt goes on.
LEMMA UntypedGoes ==
    ASSUME Bookkeeping, Others, store' = store, count' = count,
           rc.pc \in UntypedPcs, rc.pc = "u_check" => Cur = Nothing,
           rc'.pc \in UntypedPcs \ {"u_check"},
           drv'.live = drv.live, drv'.inflight = drv.inflight, drv'.quarantined = drv.quarantined,
           drv'.pruning = drv.pruning, drv'.amb = drv.amb,
           drv'.untyped \in Attempts, drv'.untyped.fenced = drv.untyped.fenced,
           drv'.untyped.corr.epoch = drv.untyped.corr.epoch,
           Cur # Nothing => drv'.untyped.corr = drv.untyped.corr,
           ext'.open \subseteq {drv'.untyped.corr}, Unopened(rc') => ext'.open = {}
    PROVE  Books'
<1>1. AtUntyped(rc) /\ AtUntyped(rc')
  BY DEF AtUntyped
<1>2. /\ ~drv.pruning /\ ~drv.quarantined /\ drv.live = Nothing /\ (Own => Superseded)
      /\ Cur = Nothing => store.rec.desired = "RUNNING"
      /\ drv.untyped # Nothing
      /\ drv.untyped.corr.epoch # 0 /\ drv.untyped.corr.epoch <= count.epochs
      /\ Cur = Nothing => ~drv.untyped.fenced /\ ~drv.deciding
      /\ Cur # Nothing =>
            CanceledAt /\ (drv.untyped.fenced \/ (Releasing /\ req.fence))
  BY <1>1, OnUntypedFacts
<1>3. /\ drv'.untyped # Nothing /\ drv'.untyped.corr \in Corrs
      /\ count'.epochs \in Nat /\ count.epochs <= count'.epochs
  BY NothingIsNone, BookFacts DEF Attempts
<1>4. rc'.pc \notin SlotPcs /\ rc'.pc # "u_install" /\ rc'.pc # "dispatch"
  BY DEF UntypedPcs, SlotPcs
<1>5. /\ Shelf' /\ Cur' = Cur /\ (Own' => Own) /\ (Superseded' <=> Superseded)
  BY <1>2, <1>3, <1>4, StandingShelf
<1>6. Accounted'
  BY <1>3 DEF Accounted
<1>7. Releasing' <=> Releasing
  BY DEF Releasing, Others
<1>8. Cur # Nothing => CanceledAt'
  BY <1>2, <1>5 DEF CanceledAt
<1>9. UntypedLine'
  BY <1>2, <1>3, <1>4, <1>5, <1>7, <1>8, BookFacts DEF UntypedLine, AtUntyped, Others
<1> QED BY <1>1, <1>2, <1>5, <1>6, <1>9, UntypedBooks

\* A canceled untyped attempt is left to the slot that cancels it.
LEMMA UntypedStops ==
    ASSUME Bookkeeping, Others, store' = store, count' = count, ext' = ext, drv' = drv,
           rc.pc \in UntypedPcs, rc.pc # "u_check", rc' = Reading,
           drv.untyped.fenced \/ Cur # Nothing
    PROVE  Books'
<1>1. AtUntyped(rc)
  BY DEF AtUntyped
<1>2. ~drv.pruning /\ CanceledAt /\ (Own => Superseded) /\ rc.pc # "commit"
  BY <1>1, OnUntypedFacts DEF UntypedPcs
<1>3. rc'.pc = "read" /\ Alike(drv, drv')
  BY DEF Reading, At, Alike
<1> QED BY <1>2, <1>3, RestBooks

LEMMA InstallUntypedBooks ==
    ASSUME Bookkeeping, InstallUntyped
    PROVE  Books'
<1>1. /\ Others /\ store' = store /\ ext' = ext /\ rc.pc = "u_install" /\ ~drv.deciding
      /\ rc'.pc = "u_check" /\ AtUntyped(rc) /\ AtUntyped(rc')
  BY DEF InstallUntyped, Others, UntypedGo, At, AtUntyped, UntypedPcs
<1>2. /\ ~drv.pruning /\ ~drv.quarantined /\ drv.live = Nothing
      /\ (Own => Superseded) /\ ext.open = {} /\ rc.pc \notin SlotPcs
      /\ Cur = Nothing => store.rec.desired = "RUNNING"
  BY <1>1, OnUntypedFacts DEF Unopened
<1> DEFINE c == [epoch |-> count.epochs + 1, gen |-> 1]
           a == Attempt(c, 0, BootDeadline)
<1>3. a.corr = c /\ ~a.fenced /\ c.epoch = count.epochs + 1
  BY DEF Attempt
<1>4. drv' = [drv EXCEPT !.untyped = a]
  BY DEF InstallUntyped
<1>5. count'.epochs = count.epochs + 1 /\ count.epochs \in Nat
  BY DEF InstallUntyped, Bookkeeping, Shape
<1> HIDE DEF a, c
<1>6. /\ drv'.live = drv.live /\ drv'.untyped = a /\ drv'.inflight = drv.inflight
      /\ drv'.pruning = drv.pruning /\ drv'.amb = drv.amb /\ drv'.quarantined = drv.quarantined
  BY <1>4, BookFacts DEF Drivers
<1>7. rc'.pc \notin SlotPcs
  BY <1>1 DEF SlotPcs
<1>8. /\ Shelf' /\ Cur' = Cur /\ (Own' => Own) /\ (Superseded' <=> Superseded)
  BY <1>1, <1>2, <1>3, <1>5, <1>6, <1>7, StandingShelf
<1>9. ~Releasing'
  BY <1>1, BookFacts DEF Releasing, Others
<1>10. UntypedLine'
  BY <1>1, <1>2, <1>3, <1>6, <1>7, <1>8, <1>9 DEF UntypedLine, UntypedPcs
<1>11. Accounted'
  BY <1>1, <1>2 DEF Accounted
<1> QED BY <1>1, <1>2, <1>6, <1>8, <1>10, <1>11, UntypedBooks

LEMMA CheckUntypedBooks ==
    ASSUME Bookkeeping, CheckUntyped
    PROVE  Books'
<1>1. /\ Others /\ store' = store /\ ext' = ext /\ count' = count
      /\ rc.pc = "u_check" /\ AtUntyped(rc) /\ rc.pc \in UntypedPcs
  BY DEF CheckUntyped, Others, AtUntyped, UntypedPcs
<1>2. /\ ~drv.pruning /\ ~drv.quarantined /\ drv.live = Nothing
      /\ (Own => Superseded) /\ ext.open = {} /\ rc.pc \notin SlotPcs /\ drv.untyped \in Attempts
  BY <1>1, OnUntypedFacts DEF Unopened
<1>3. CASE Cur # Nothing /\ drv' = [drv EXCEPT !.untyped = Nothing] /\ rc' = Reading
  <2>1. /\ drv'.live = drv.live /\ drv'.untyped = Nothing /\ drv'.inflight = drv.inflight
        /\ drv'.pruning = drv.pruning /\ drv'.amb = drv.amb /\ drv'.quarantined = drv.quarantined
    BY <1>3, BookFacts DEF Drivers
  <2>2. rc'.pc = "read" /\ rc'.pc \notin SlotPcs
    BY <1>3 DEF Reading, At, SlotPcs
  <2>3. ext'.open \subseteq Corrs /\ count'.epochs \in Nat /\ count.epochs <= count'.epochs
    BY <1>1, <1>2, BookFacts
  <2>4. Shelf' /\ (Own' => Own) /\ (Superseded' <=> Superseded)
    BY <1>1, <1>2, <2>1, <2>2, <2>3, StandingShelf
  <2>5. Accounted' /\ Taken'
    BY <1>1, <1>2, <2>1 DEF Accounted, Taken
  <2> QED BY <1>2, <2>1, <2>2, <2>4, <2>5, LetGo
<1>4. CASE Cur = Nothing /\ rc' = At("u_head", Nothing, "none") /\ drv' = drv
  <2>1. rc'.pc = "u_head" /\ rc'.pc \in UntypedPcs \ {"u_check"}
    BY <1>4 DEF At, UntypedPcs
  <2> QED BY <1>1, <1>2, <1>4, <2>1, UntypedGoes
<1> QED BY <1>3, <1>4 DEF CheckUntyped, UntypedGo, Cur

LEMMA UntypedHeadBooks ==
    ASSUME Bookkeeping, UntypedHead
    PROVE  Books'
<1>1. /\ Others /\ store' = store /\ ext' = ext /\ count' = count
      /\ rc.pc = "u_head" /\ AtUntyped(rc) /\ rc.pc \in UntypedPcs
  BY DEF UntypedHead, Others, AtUntyped, UntypedPcs
<1>2. ext.open = {} /\ drv.untyped \in Attempts
  BY <1>1, OnUntypedFacts DEF Unopened
<1>3. CASE drv.untyped.fenced /\ rc' = Reading /\ drv' = drv
  BY <1>1, <1>3, UntypedStops
<1>4. CASE rc' = At("u_finish", Nothing, "failed") /\ drv' = drv
  <2>1. rc'.pc = "u_finish" /\ rc'.pc \in UntypedPcs \ {"u_check"}
    BY <1>4 DEF At, UntypedPcs
  <2> QED BY <1>1, <1>2, <1>4, <2>1, UntypedGoes
<1>5. CASE rc' = At("u_start", Nothing, "none") /\ drv' = [drv EXCEPT !.untyped.used = @ + 1]
  <2>1. rc'.pc = "u_start" /\ rc'.pc \in UntypedPcs \ {"u_check"}
    BY <1>5 DEF At, UntypedPcs
  <2> DEFINE a == [drv.untyped EXCEPT !.used = @ + 1]
  <2>2. a \in Attempts /\ a.fenced = drv.untyped.fenced /\ a.corr = drv.untyped.corr
    BY <1>2 DEF Attempts
  <2>3. drv' = [drv EXCEPT !.untyped = a]
    BY <1>5
  <2> HIDE DEF a
  <2>4. /\ drv'.live = drv.live /\ drv'.untyped = a /\ drv'.inflight = drv.inflight
        /\ drv'.pruning = drv.pruning /\ drv'.amb = drv.amb /\ drv'.quarantined = drv.quarantined
    BY <2>3, BookFacts DEF Drivers
  <2> QED BY <1>1, <1>2, <2>1, <2>2, <2>4, UntypedGoes
<1> QED BY <1>3, <1>4, <1>5 DEF UntypedHead, UntypedGo

LEMMA UntypedReturnsBooks ==
    ASSUME Bookkeeping, UntypedReturns
    PROVE  Books'
<1>1. /\ Others /\ store' = store /\ count' = count /\ drv' = drv
      /\ rc.pc = "u_start" /\ AtUntyped(rc) /\ rc.pc \in UntypedPcs
  BY DEF UntypedReturns, Others, AtUntyped, UntypedPcs
<1>2. ext.open = {} /\ drv.untyped \in Attempts
  BY <1>1, OnUntypedFacts DEF Unopened
<1>3. PICK result \in Results :
         /\ rc' = At("u_judge", Nothing, result)
         /\ ext' = [ext EXCEPT !.open = Opened(drv.untyped.corr, result)]
  BY DEF UntypedReturns, UntypedGo
<1>4. ext'.open = Opened(drv.untyped.corr, result)
  BY <1>3 DEF Bookkeeping, Shape
<1>5. rc'.pc = "u_judge" /\ rc'.k = result /\ rc'.pc \in UntypedPcs \ {"u_check"}
  BY <1>3 DEF At, UntypedPcs
<1>6. ext'.open \subseteq {drv.untyped.corr} /\ (Unopened(rc') => ext'.open = {})
  BY <1>2, <1>4, <1>5 DEF Opened, Unopened
<1> QED BY <1>1, <1>2, <1>5, <1>6, UntypedGoes

LEMMA JudgeUntypedBooks ==
    ASSUME Bookkeeping, JudgeUntyped
    PROVE  Books'
<1>1. /\ Others /\ store' = store /\ count' = count /\ drv' = drv /\ ext' = ext
      /\ rc.pc = "u_judge" /\ AtUntyped(rc) /\ rc.pc \in UntypedPcs
  BY DEF JudgeUntyped, Others, AtUntyped, UntypedPcs
<1>2. ext.open \subseteq {drv.untyped.corr} /\ drv.untyped \in Attempts
  BY <1>1, OnUntypedFacts
<1>3. CASE Cur # Nothing /\ rc' = Reading
  BY <1>1, <1>3, UntypedStops
<1>4. ASSUME NEW pc \in {"u_withdraw", "u_admit", "u_finish", "u_backoff"}, NEW k,
             rc' = At(pc, Nothing, k), rc.k \in {"ok", "malformed"} => pc \in {"u_withdraw", "u_admit"}
      PROVE  Books'
  <2>1. rc'.pc = pc /\ rc'.k = k /\ rc'.pc \in UntypedPcs \ {"u_check"}
    BY <1>4 DEF At, UntypedPcs
  <2>2. rc.k \notin {"ok", "malformed"} => ext.open = {}
    BY <1>1, OnUntypedFacts DEF Unopened
  <2>3. Unopened(rc') => ext.open = {}
    BY <1>4, <2>1, <2>2 DEF Unopened
  <2> QED BY <1>1, <1>2, <2>1, <2>3, UntypedGoes
<1>5. \/ Cur # Nothing /\ rc' = Reading
      \/ rc.k = "ok" /\ rc' = At("u_withdraw", Nothing, "none")
      \/ rc.k = "ok" /\ rc' = At("u_admit", Nothing, "none")
      \/ rc.k = "malformed" /\ rc' = At("u_withdraw", Nothing, "none")
      \/ rc.k = "unconfirmed" /\ rc' = At("u_finish", Nothing, "unconfirmed")
      \/ rc.k = "retry" /\ rc' = At("u_backoff", Nothing, "none")
      \/ (rc.k = "fail" \/ rc.k = "retry") /\ rc' = At("u_finish", Nothing, "failed")
  BY DEF JudgeUntyped, UntypedGo, Cur
<1> QED BY <1>3, <1>4, <1>5

LEMMA BackoffUntypedBooks ==
    ASSUME Bookkeeping, BackoffUntyped
    PROVE  Books'
<1>1. /\ Others /\ store' = store /\ count' = count /\ ext' = ext /\ ~drv.deciding
      /\ rc.pc = "u_backoff" /\ AtUntyped(rc) /\ rc.pc \in UntypedPcs
  BY DEF BackoffUntyped, Others, AtUntyped, UntypedPcs
<1>2. /\ ext.open = {} /\ drv.untyped \in Attempts
      /\ Cur # Nothing => drv.untyped.fenced
  BY <1>1, OnUntypedFacts, BookFacts DEF Unopened
<1>3. CASE drv.untyped.fenced /\ rc' = Reading /\ drv' = drv
  BY <1>1, <1>3, UntypedStops
<1>4. CASE /\ ~drv.untyped.fenced /\ drv' = [drv EXCEPT !.untyped.corr.gen = @ + 1]
           /\ rc' = At("u_head", Nothing, "none")
  <2>1. rc'.pc = "u_head" /\ rc'.pc \in UntypedPcs \ {"u_check"}
    BY <1>4 DEF At, UntypedPcs
  <2> DEFINE c == [drv.untyped.corr EXCEPT !.gen = @ + 1]
             a == [drv.untyped EXCEPT !.corr = c]
  <2>2. c \in Corrs /\ c.epoch = drv.untyped.corr.epoch
    BY <1>2 DEF Attempts, Corrs
  <2>3. drv' = [drv EXCEPT !.untyped = a]
    BY <1>4
  <2> HIDE DEF c
  <2>4. a \in Attempts /\ a.fenced = drv.untyped.fenced /\ a.corr = c
    BY <1>2, <2>2 DEF Attempts
  <2> HIDE DEF a
  <2>5. /\ drv'.live = drv.live /\ drv'.untyped = a /\ drv'.inflight = drv.inflight
        /\ drv'.pruning = drv.pruning /\ drv'.amb = drv.amb /\ drv'.quarantined = drv.quarantined
    BY <2>3, BookFacts DEF Drivers
  <2> QED BY <1>1, <1>2, <1>4, <2>1, <2>2, <2>4, <2>5, UntypedGoes
<1> QED BY <1>3, <1>4 DEF BackoffUntyped, UntypedGo

LEMMA AdmitUntypedBooks ==
    ASSUME Bookkeeping, AdmitUntyped
    PROVE  Books'
<1>1. /\ Others /\ store' = store /\ count' = count /\ ext' = ext /\ ~drv.deciding
      /\ rc.pc = "u_admit" /\ AtUntyped(rc) /\ rc.pc \in UntypedPcs
  BY DEF AdmitUntyped, Others, AtUntyped, UntypedPcs
<1>2. /\ ~drv.pruning /\ ~drv.quarantined /\ rc.pc \notin SlotPcs
      /\ ext.open \subseteq {drv.untyped.corr} /\ drv.untyped \in Attempts /\ drv.untyped.corr \in Corrs
      /\ drv.untyped.corr.epoch # 0 /\ drv.untyped.corr.epoch <= count.epochs
      /\ Cur # Nothing => drv.untyped.fenced
      /\ Cur = Nothing => store.rec.desired = "RUNNING"
  BY <1>1, OnUntypedFacts, BookFacts
<1>3. CASE drv.untyped.fenced /\ rc' = Reading /\ drv' = drv
  BY <1>1, <1>3, UntypedStops
<1>4. CASE rc' = At("u_withdraw", Nothing, "none") /\ drv' = drv
  <2>1. rc'.pc = "u_withdraw" /\ rc'.pc \in UntypedPcs \ {"u_check"} /\ ~Unopened(rc')
    BY <1>4 DEF At, UntypedPcs, Unopened
  <2> QED BY <1>1, <1>2, <1>4, <2>1, UntypedGoes
<1>5. CASE /\ ~drv.untyped.fenced /\ rc' = Reading
           /\ drv' = [UntypedEnded(drv) EXCEPT !.live = drv.untyped.corr]
  <2> DEFINE c == drv.untyped.corr
  <2>1. drv' = [drv EXCEPT !.untyped = Nothing, !.auto = TRUE, !.live = c]
    BY <1>5 DEF UntypedEnded
  <2> HIDE DEF c
  <2>2. /\ drv'.live = c /\ drv'.untyped = Nothing /\ drv'.inflight = drv.inflight
        /\ drv'.pruning = drv.pruning /\ drv'.amb = drv.amb /\ drv'.quarantined = drv.quarantined
    BY <2>1, BookFacts DEF Drivers
  <2>3. rc'.pc = "read" /\ rc'.pc \notin SlotPcs
    BY <1>5 DEF Reading, At, SlotPcs
  <2>4. ext'.open \subseteq Corrs /\ count'.epochs \in Nat /\ count.epochs <= count'.epochs
    BY <1>1, <1>2, BookFacts
  <2>5. c.epoch # 0 /\ c.epoch <= count'.epochs
    BY <1>1, <1>2 DEF c
  <2>6. Shelf' /\ Cur' = Cur /\ (Own' => Own)
    BY <1>1, <1>2, <2>2, <2>3, <2>4, <2>5, StandingShelf
  <2>7. Accounted'
    BY <1>1, <1>2, <2>2 DEF Accounted, c
  <2>8. Cur = Nothing
    BY <1>2, <1>5
  <2>9. Taken' /\ ~Own'
    BY <1>1, <1>2, <2>6, <2>8 DEF Taken, Own
  <2> QED BY <2>2, <2>3, <2>6, <2>7, <2>9, LetGo
<1> QED BY <1>3, <1>4, <1>5 DEF AdmitUntyped, UntypedGo

LEMMA WithdrawUntypedBooks ==
    ASSUME Bookkeeping, WithdrawUntyped
    PROVE  Books'
<1>1. /\ Others /\ store' = store /\ count' = count /\ drv' = drv
      /\ rc.pc = "u_withdraw" /\ AtUntyped(rc) /\ rc.pc \in UntypedPcs
  BY DEF WithdrawUntyped, Others, AtUntyped, UntypedPcs
<1>2. ext.open \subseteq {drv.untyped.corr} /\ drv.untyped \in Attempts
  BY <1>1, OnUntypedFacts
<1>3. PICK result \in {"failed", "stalled", "unclosed"} :
         /\ rc' = At("u_finish", Nothing, result)
         /\ ext' = IF result = "unclosed" THEN ext ELSE [ext EXCEPT !.open = @ \ {drv.untyped.corr}]
  BY DEF WithdrawUntyped, UntypedGo
<1>4. ext'.open = IF result = "unclosed" THEN ext.open ELSE ext.open \ {drv.untyped.corr}
  BY <1>3 DEF Bookkeeping, Shape
<1>5. rc'.pc = "u_finish" /\ rc'.k = result /\ rc'.pc \in UntypedPcs \ {"u_check"}
  BY <1>3 DEF At, UntypedPcs
<1>6. ext'.open \subseteq {drv.untyped.corr} /\ (Unopened(rc') => ext'.open = {})
  BY <1>2, <1>4, <1>5 DEF Unopened
<1> QED BY <1>1, <1>2, <1>5, <1>6, UntypedGoes

LEMMA FinishUntypedBooks ==
    ASSUME Bookkeeping, FinishUntyped
    PROVE  Books'
<1>1. /\ Others /\ store' = store /\ count' = count /\ ext' = ext
      /\ rc.pc = "u_finish" /\ AtUntyped(rc) /\ rc.pc \in UntypedPcs
      /\ rc'.pc = "read" /\ rc'.pc \notin SlotPcs
  BY DEF FinishUntyped, Others, AtUntyped, UntypedPcs, Reading, At, SlotPcs
<1>2. /\ ~drv.pruning /\ ~drv.quarantined /\ drv.live = Nothing /\ (Own => Superseded)
      /\ drv.untyped.fenced => CanceledAt
      /\ rc.k # "unclosed" => ext.open = {}
  BY <1>1, OnUntypedFacts DEF Unopened
<1> DEFINE d == IF drv.untyped.fenced THEN drv ELSE UntypedEnded(drv)
<1>3. /\ d \in Drivers /\ d.live = drv.live /\ d.inflight = drv.inflight
      /\ d.pruning = drv.pruning /\ d.amb = drv.amb /\ d.quarantined = drv.quarantined
      /\ d.untyped = IF drv.untyped.fenced THEN drv.untyped ELSE Nothing
  BY BookFacts DEF Drivers, UntypedEnded
<1> HIDE DEF d
<1>4. drv' = [d EXCEPT
             !.quarantined = \/ @ \/ rc.k = "unclosed"
                             \/ rc.k = "unconfirmed" /\ ~drv.untyped.fenced,
             !.blocked = @ \/ (rc.k = "stalled" /\ ~drv.untyped.fenced)]
  BY DEF FinishUntyped, d
<1>5. /\ drv'.live = drv.live /\ drv'.untyped = d.untyped /\ drv'.inflight = drv.inflight
      /\ drv'.pruning = drv.pruning /\ drv'.amb = drv.amb
      /\ rc.k = "unclosed" => drv'.quarantined
  BY <1>3, <1>4 DEF Drivers
<1>6. ext'.open \subseteq Corrs /\ count'.epochs \in Nat /\ count.epochs <= count'.epochs
  BY <1>1, BookFacts DEF Bookkeeping, Books, Epochs
<1>7. Shelf' /\ Cur' = Cur /\ (Own' => Own) /\ (Superseded' <=> Superseded)
  BY <1>1, <1>2, <1>3, <1>5, <1>6, StandingShelf
<1>8. ~drv'.quarantined => Accounted' /\ Taken'
  BY <1>1, <1>2, <1>5 DEF Accounted, Taken
<1>9. drv'.untyped = Nothing \/ CanceledAt'
  BY <1>2, <1>3, <1>5, <1>7 DEF CanceledAt
<1> QED BY <1>1, <1>2, <1>7, <1>8, <1>9, LetGo

\* The fields of a slot that a decision writes.
LEMMA NewSlotFields ==
    ASSUME NEW kind \in Kinds, NEW seq \in Nat, NEW rev \in Nat
    PROVE  LET z == Transition(kind, seq, rev)
           IN  z \in Slots /\ z.kind = kind /\ z.seq = seq /\ Fresh(z) /\ ~z.native
<1>1. Transition(kind, seq, rev) \in Slots
  BY TransitionSlot
<1> QED BY <1>1 DEF Transition, Fresh, Owing

LEMMA CancellationFields ==
    ASSUME NEW a \in Attempts, NEW seq \in Nat, NEW rev \in Nat
    PROVE  LET z == Cancellation(a, seq, rev)
           IN  /\ z \in Slots /\ z.kind = "CANCEL" /\ z.seq = seq /\ z.phase = "PENDING" /\ z.native
               /\ z.epoch = a.corr.epoch /\ z.gen = a.corr.gen /\ z.used <= StartLimit
<1> DEFINE t == Transition("CANCEL", seq, rev)
           b == Begun(t, a.corr, a.due)
           n == IF a.used < StartLimit THEN a.used ELSE StartLimit
<1>1. t \in Slots /\ t.seq = seq /\ t.kind = "CANCEL"
  BY NewSlotFields DEF Kinds
<1>2. a.corr \in Corrs /\ a.due \in Dues /\ n \in Nat /\ n <= StartLimit
  BY LimitsOrdered DEF Attempts
<1> HIDE DEF t
<1>3. /\ b \in Slots /\ b.seq = seq /\ b.kind = "CANCEL" /\ b.native
      /\ b.epoch = a.corr.epoch /\ b.gen = a.corr.gen
  BY <1>1, <1>2, BegunFields
<1>4. Cancellation(a, seq, rev) = [b EXCEPT !.phase = "PENDING", !.used = n]
  BY DEF Cancellation, t
<1>5. Cancellation(a, seq, rev) \in Slots
  BY CancellationSlot
<1> HIDE DEF b, n
<1> QED BY <1>2, <1>3, <1>4, <1>5 DEF Slots

\* What a decision puts on record, behind the current slot if there is one.
LEMMA DecidedSlots ==
    ASSUME Bookkeeping, NEW method \in Methods, Committed(Planned(method))
    PROVE  /\ store'.status = store.status /\ store'.staged = store.staged
           /\ store'.rec.desired = IF method = "STOP" THEN "STOPPED" ELSE "RUNNING"
           /\ store'.rec.rev = store.rec.rev + 1
           /\ store'.rec.seq \in Nat /\ store.rec.seq < store'.rec.seq
           /\ Cur' # Nothing
           /\ Cur # Nothing => Cur' = Cur /\ Res' # Nothing
           /\ Cur = Nothing => store.rec.seq < Cur'.seq /\ Cur'.seq \in Nat
           /\ Cur = Nothing /\ ~Cancels(method) =>
                 Cur'.kind = method /\ Fresh(Cur') /\ ~Cur'.native /\ Res' = Nothing
           /\ Cancels(method) =>
                 /\ Cur = Nothing /\ Res' # Nothing
                 /\ Cur'.kind = "CANCEL" /\ Cur'.phase = "PENDING" /\ Cur'.native
                 /\ Corr(Cur') = drv.untyped.corr /\ Cur'.epoch = drv.untyped.corr.epoch
                 /\ Cur'.used <= StartLimit /\ Cur'.used \in Nat
           /\ Res' # Nothing => /\ Res'.kind = method /\ Fresh(Res') /\ Res'.seq \in Nat
                                /\ store.rec.seq < Res'.seq
<1> DEFINE r == store.rec
           rev == r.rev + 1
           first == IF Cancels(method) THEN r.seq + 2 ELSE r.seq + 1
           next == Transition(method, first, rev)
           can == Cancellation(drv.untyped, r.seq + 1, rev)
           p == Planned(method)
<1>1. /\ r \in Records /\ r.seq \in Nat /\ r.rev \in Nat /\ drv \in Drivers
  BY BookFacts DEF Records
<1>2. rev \in Nat /\ first \in Nat /\ r.seq < first
  BY <1>1
<1>3. next \in Slots /\ next # Nothing /\ next.kind = method /\ next.seq = first /\ Fresh(next) /\ ~next.native
  BY <1>2, NewSlotFields, NothingIsNoSlot DEF Methods, Kinds
<1>4. Cancels(method) =>
         /\ can \in Slots /\ can # Nothing /\ can.kind = "CANCEL" /\ can.seq = r.seq + 1
         /\ can.phase = "PENDING" /\ can.native
         /\ can.epoch = drv.untyped.corr.epoch /\ can.gen = drv.untyped.corr.gen
         /\ can.used <= StartLimit /\ drv.untyped.corr \in Corrs /\ r.cur = Nothing
  <2> SUFFICES ASSUME Cancels(method)
               PROVE  /\ can \in Slots /\ can # Nothing /\ can.kind = "CANCEL" /\ can.seq = r.seq + 1
                      /\ can.phase = "PENDING" /\ can.native
                      /\ can.epoch = drv.untyped.corr.epoch /\ can.gen = drv.untyped.corr.gen
                      /\ can.used <= StartLimit /\ drv.untyped.corr \in Corrs /\ r.cur = Nothing
    OBVIOUS
  <2>1. drv.untyped \in Attempts /\ r.cur = Nothing
    BY <1>1 DEF Cancels, Drivers
  <2>2. r.seq + 1 \in Nat /\ drv.untyped.corr \in Corrs
    BY <1>1, <2>1 DEF Attempts
  <2>3. can \in Slots
    BY <1>2, <2>1, <2>2, CancellationFields
  <2> QED BY <1>2, <2>1, <2>2, <2>3, CancellationFields, NothingIsNoSlot
<1>5. p = [desired |-> IF method = "STOP" THEN "STOPPED" ELSE "RUNNING",
           rev |-> rev, seq |-> first,
           cur |-> IF Cancels(method) THEN can ELSE IF r.cur = Nothing THEN next ELSE r.cur,
           res |-> IF Cancels(method) \/ r.cur # Nothing THEN next ELSE Nothing]
  BY DEF Planned
<1>6. store'.rec = p /\ store'.status = store.status /\ store'.staged = store.staged
  BY DEF Committed, Bookkeeping, Shape
<1>7. Cancels(method) => first = r.seq + 2
  OBVIOUS
<1> HIDE DEF next, can, first, p
<1>8. /\ store'.rec.desired = IF method = "STOP" THEN "STOPPED" ELSE "RUNNING"
      /\ store'.rec.rev = r.rev + 1 /\ store'.rec.seq = first
      /\ Cur' = IF Cancels(method) THEN can ELSE IF r.cur = Nothing THEN next ELSE r.cur
      /\ Res' = IF Cancels(method) \/ r.cur # Nothing THEN next ELSE Nothing
  BY <1>5, <1>6 DEF Cur, Res
<1>9. Cancels(method) => Corr(can) = drv.untyped.corr /\ can.used \in Nat
  BY <1>4 DEF Corr, Corrs, Slots
<1>10. Cur = r.cur
  BY DEF Cur
<1> QED BY <1>1, <1>2, <1>3, <1>4, <1>6, <1>7, <1>8, <1>9, <1>10

LEMMA DecideBooks ==
    ASSUME Bookkeeping, NEW method \in Methods, Decide(method), count'.faults = 0
    PROVE  Books'
<1>0. count.faults \in Nat /\ count \in [epochs : Nat, boots : Nat, faults : Nat]
  BY DEF Bookkeeping, Shape
<1>1. ~Faulty
  BY <1>0 DEF Faulty
<1>2. /\ Committed(Planned(method)) /\ count' = count /\ rc' = rc /\ ext' = ext
      /\ peer' = peer /\ rb' = rb /\ accepted' = accepted
      /\ req' = [pc |-> "publish", expected |-> store.rec.rev, fence |-> Fences(method)]
      /\ drv' = [drv EXCEPT !.deciding = TRUE] /\ Decidable(method)
  BY <1>1 DEF Decide
<1>3. /\ drv'.live = drv.live /\ drv'.untyped = drv.untyped /\ drv'.inflight = drv.inflight
      /\ drv'.pruning = drv.pruning /\ drv'.amb = drv.amb /\ drv'.quarantined = drv.quarantined
  BY <1>2, BookFacts DEF Drivers
<1>4. /\ ~drv.deciding
      /\ (method = "START") <=> (store.rec.desired = "STOPPED")
      /\ Cur # Nothing => Res = Nothing /\ ~drv.pruning
  BY <1>2 DEF Decidable, Cur, Res
<1>5. req'.pc = "publish" /\ req'.fence = Fences(method) /\ Releasing' /\ ~Releasing
  BY <1>2, <1>4, BookFacts DEF Releasing
<1> DEFINE New ==
           /\ store'.status = store.status /\ store'.staged = store.staged
           /\ store'.rec.desired = IF method = "STOP" THEN "STOPPED" ELSE "RUNNING"
           /\ store'.rec.rev = store.rec.rev + 1
           /\ store'.rec.seq \in Nat /\ store.rec.seq < store'.rec.seq
           /\ Cur' # Nothing
           /\ Cur # Nothing => Cur' = Cur /\ Res' # Nothing
           /\ Cur = Nothing => store.rec.seq < Cur'.seq /\ Cur'.seq \in Nat
           /\ Cur = Nothing /\ ~Cancels(method) =>
                 Cur'.kind = method /\ Fresh(Cur') /\ ~Cur'.native /\ Res' = Nothing
           /\ Cancels(method) =>
                 /\ Cur = Nothing /\ Res' # Nothing
                 /\ Cur'.kind = "CANCEL" /\ Cur'.phase = "PENDING" /\ Cur'.native
                 /\ Corr(Cur') = drv.untyped.corr /\ Cur'.epoch = drv.untyped.corr.epoch
                 /\ Cur'.used <= StartLimit /\ Cur'.used \in Nat
           /\ Res' # Nothing => /\ Res'.kind = method /\ Fresh(Res') /\ Res'.seq \in Nat
                                /\ store.rec.seq < Res'.seq
<1>6. New
  BY <1>2, DecidedSlots
<1>7. Sequence /\ Epochs /\ InHand /\ Calm /\ Fencing /\ Plain
  BY DEF Bookkeeping, Books
<1>8. Cur = Nothing => Res = Nothing
  BY BookFacts
<1>9. Sequence'
  <2>1. Cur # Nothing => /\ SlotLine(Cur) /\ (store.rec.desired = "STOPPED" <=> Cur.kind = "STOP")
                         /\ Cur.kind # "CANCEL"
    BY <1>4, <1>7 DEF Sequence, Last
  <2>2. Cur # Nothing \/ ~Cancels(method) => SlotLine(Cur') /\ Cur'.kind # "CANCEL"
    BY <1>6, <2>1, LimitsOrdered DEF SlotLine, Fresh, Methods
  <2>3. Cancels(method) => SlotLine(Cur')
    BY <1>6, LimitsOrdered DEF SlotLine
  <2>4. Res' # Nothing => (Res'.kind = "START" => Cur'.kind = "STOP")
    BY <1>4, <1>6, <2>1 DEF Cancels
  <2>5. Last' # Nothing => (store'.rec.desired = "STOPPED" <=> Last'.kind = "STOP")
    BY <1>6 DEF Last, Methods
  <2> QED BY <1>6, <2>2, <2>3, <2>4, <2>5 DEF Sequence, Methods
<1>10. Epochs'
  <2>1. Cancels(method) => drv.untyped # Nothing
    BY DEF Cancels
  <2> QED BY <1>2, <1>3, <1>6, <1>7, <2>1, BookFacts DEF Epochs, Fresh
<1>11. Plain'
  BY <1>2, <1>3, <1>5, <1>6, <1>7 DEF Plain, Open
<1>12. rc.pc \in SlotPcs \cup {"prune"} => Cur # Nothing
  BY <1>7, NothingIsNoSlot DEF InHand, SlotPcs, AttemptPcs, SettlePcs, Bookkeeping, Shape, RcShape,
     AtShape, UntypedPcs
<1>13. /\ Own' => Own /\ Cur # Nothing
       /\ Cur # Nothing => ~Superseded
  <2>1. drv.inflight # Nothing => drv.inflight.seq <= store.rec.seq /\ drv.inflight.seq \in Nat
    BY <1>7, BookFacts DEF Fencing, Drivers, Attempts
  <2> QED BY <1>3, <1>4, <1>6, <2>1, BookFacts DEF Own, Superseded
<1>14. Fencing'
  <2>1. drv.inflight # Nothing => drv.inflight.seq <= store.rec.seq /\ drv.inflight.seq \in Nat
    BY <1>7, BookFacts DEF Fencing, Drivers, Attempts
  <2>2. drv'.inflight # Nothing =>
           drv'.inflight.seq <= store'.rec.seq /\ (Res' # Nothing => drv'.inflight.seq < Res'.seq)
    BY <1>3, <1>6, <2>1, BookFacts
  <2>3. Fences(method) /\ Cur # Nothing => Superseded'
    BY <1>6 DEF Fences, Cancels, Superseded, Cur
  <2> QED BY <1>2, <1>5, <1>12, <1>13, <2>2, <2>3 DEF Fencing
<1>15. InHand'
  <2> USE <1>2, <1>3, <1>6, <1>7
  <2>1. /\ rc.pc = "dispatch" /\ rc.t.cur # Nothing =>
              Cur' = rc.t.cur /\ (rc.t.res # Nothing => Res' = rc.t.res)
    BY <1>4 DEF InHand
  <2>2. rc.pc # "prune"
    BY <1>4, <1>12 DEF InHand
  <2>3. rc.pc \in SlotPcs => Cur' = Cur /\ Cur # Nothing
    BY <1>12
  <2>4. rc.pc = "commit" => CommitLine(Cur, rc.t, rc.k)'
    BY <2>3 DEF InHand, CommitLine, SlotPcs
  <2>5. Cur' # Nothing
    OBVIOUS
  <2> HIDE DEF New
  <2> QED BY <2>1, <2>2, <2>3, <2>4, <2>5 DEF InHand, SlotPcs, AttemptPcs, SettlePcs
<1>16. Calm'
  BY <1>2, <1>3, <1>7 DEF Calm
<1>17. ASSUME ~drv.quarantined PROVE Ledger'
  <2>1. Accounted /\ LiveLine /\ UntypedLine /\ OpenLine /\ InflightLine
    BY <1>17 DEF Bookkeeping, Books, Ledger
  <2>2. Accounted'
    BY <1>2, <1>3, <1>6, <2>1 DEF Accounted
  <2>3. Cancels(method) => rc.pc \in UntypedPcs /\ drv.live = Nothing
    BY <1>6, <2>1 DEF Cancels, UntypedLine, CanceledAt, LiveLine, AtUntyped
  <2>4. LiveLine'
    <3> SUFFICES ASSUME drv.live # Nothing PROVE LiveLine'
      BY <1>3 DEF LiveLine
    <3>1. ~OnSetup(rc) /\ ~AtUntyped(rc)
      BY <2>1 DEF LiveLine
    <3>2. CASE Cur = Nothing
      BY <1>2, <1>3, <1>4, <1>6, <2>1, <2>3, <3>1, <3>2 DEF LiveLine, Methods, Fresh, Terminal
    <3>3. CASE Cur # Nothing
      BY <1>2, <1>3, <1>6, <2>1, <3>3 DEF LiveLine
    <3> QED BY <3>2, <3>3
  <2>5. UntypedLine'
    <3>1. rc.pc \in UntypedPcs => drv.untyped # Nothing
      BY NothingIsNone DEF Bookkeeping, Shape, RcShape
    <3>2. rc.pc \in UntypedPcs /\ Cur = Nothing => Cancels(method)
      <4>1. rc.pc \in UntypedPcs /\ Cur = Nothing => store.rec.desired = "RUNNING" /\ ~drv.untyped.fenced
        BY <2>1 DEF UntypedLine, AtUntyped
      <4> QED BY <1>4, <3>1, <4>1 DEF Cancels, Cur
    <3>3. Cancels(method) => CanceledAt' /\ Fences(method)
      BY <1>3, <1>6 DEF CanceledAt, Fences
    <3>4. Cur # Nothing => (CanceledAt' <=> CanceledAt)
      BY <1>3, <1>6 DEF CanceledAt
    <3>5. CanceledAt => Cur # Nothing
      BY DEF CanceledAt
    <3>6. drv.untyped = Nothing => ~Cancels(method)
      BY DEF Cancels
    <3>7. drv'.untyped # Nothing => rc'.pc \in UntypedPcs \/ CanceledAt'
      BY <1>2, <1>3, <2>1, <3>4, <3>5 DEF UntypedLine
    <3>8. rc'.pc \in UntypedPcs \ {"u_check"} =>
             CanceledAt' /\ (drv'.untyped.fenced \/ (Releasing' /\ req'.fence))
      BY <1>2, <1>3, <1>5, <2>1, <3>2, <3>3, <3>4 DEF UntypedLine
    <3>9. rc'.pc = "u_install" \/ rc'.pc \in SlotPcs => drv'.untyped = Nothing
      BY <1>2, <1>3, <2>1 DEF UntypedLine
    <3>10. rc'.pc = "dispatch" /\ rc'.t.cur = Nothing =>
              drv'.untyped = Nothing /\ (Cur' # Nothing => ~Cur'.native)
      BY <1>2, <1>3, <1>6, <2>1, <3>6 DEF UntypedLine
    <3> HIDE DEF New
    <3> QED BY <1>6, <3>7, <3>8, <3>9, <3>10 DEF UntypedLine, New
  <2>6. OpenLine'
    BY <1>2, <1>3, <2>1 DEF OpenLine, Unopened
  <2>7. InflightLine'
    BY <1>2, <1>3, <1>13, <2>1 DEF InflightLine
  <2> QED BY <2>2, <2>4, <2>5, <2>6, <2>7 DEF Ledger
<1> QED BY <1>3, <1>9, <1>10, <1>11, <1>14, <1>15, <1>16, <1>17 DEF Books

LEMMA PublishAcceptedBooks ==
    ASSUME Bookkeeping, PublishAccepted
    PROVE  Books'
<1>1. /\ store' = store /\ drv' = drv /\ rc' = rc /\ peer' = peer /\ rb' = rb /\ ext' = ext /\ count' = count
      /\ accepted' = accepted \cup {store.rec.rev} /\ req.pc = "publish"
      /\ req' = [req EXCEPT !.pc = "release"]
  BY DEF PublishAccepted
<1>2. req'.pc = "release" /\ req'.fence = req.fence
  BY <1>1 DEF Bookkeeping, Shape
<1>3. Cur' = Cur /\ Res' = Res /\ (Releasing' <=> Releasing) /\ (Own' <=> Own) /\ (Superseded' <=> Superseded)
  BY <1>1, <1>2 DEF Cur, Res, Releasing, Own, Superseded
<1>4. Sequence' /\ Epochs' /\ Calm' /\ Fencing'
  BY <1>1, <1>2, <1>3 DEF Bookkeeping, Books, Sequence, Last, Epochs, Calm, Fencing
<1>5. Plain'
  BY <1>1, <1>2 DEF Bookkeeping, Books, Plain, Open
<1>6. InHand'
  BY <1>1, <1>3 DEF Bookkeeping, Books, InHand, CommitLine
<1>7. ~drv.quarantined => Ledger'
  BY <1>1, <1>2, <1>3 DEF Bookkeeping, Books, Ledger, Accounted, LiveLine, UntypedLine, OpenLine, InflightLine,
     CanceledAt, Unopened, AtUntyped, OnSetup, OnAttempt
<1> QED BY <1>1, <1>4, <1>5, <1>6, <1>7 DEF Books

LEMMA FencedFields ==
    ASSUME NEW a \in Attempts \cup {Nothing}, NEW fence \in BOOLEAN
    PROVE  LET b == IF fence THEN Fenced(a) ELSE a
           IN  /\ b = Nothing <=> a = Nothing
               /\ a # Nothing => /\ b.seq = a.seq /\ b.corr = a.corr
                                 /\ b.fenced <=> a.fenced \/ fence
BY NothingIsNone DEF Fenced, Attempts

LEMMA ReleaseDecisionBooks ==
    ASSUME Bookkeeping, ReleaseDecision
    PROVE  Books'
<1>1. /\ store' = store /\ rc' = rc /\ peer' = peer /\ rb' = rb /\ ext' = ext /\ count' = count
      /\ accepted' = accepted /\ req.pc = "release" /\ Releasing
      /\ req' = Quiet /\ drv' = Released(drv, req.fence) /\ req.fence \in BOOLEAN
  BY DEF ReleaseDecision, Bookkeeping, Shape, Releasing
<1>2. req'.pc = "idle" /\ ~Releasing'
  BY <1>1 DEF Quiet, Releasing
<1>3. Cur' = Cur /\ Res' = Res /\ (Superseded' <=> Superseded)
  BY <1>1 DEF Cur, Res, Superseded
<1> DEFINE a == IF req.fence THEN Fenced(drv.untyped) ELSE drv.untyped
           b == IF req.fence THEN Fenced(drv.inflight) ELSE drv.inflight
<1>4. /\ a = Nothing <=> drv.untyped = Nothing
      /\ drv.untyped # Nothing => a.corr = drv.untyped.corr /\ (a.fenced <=> drv.untyped.fenced \/ req.fence)
      /\ b = Nothing <=> drv.inflight = Nothing
      /\ drv.inflight # Nothing => b.seq = drv.inflight.seq /\ (b.fenced <=> drv.inflight.fenced \/ req.fence)
  <2>1. drv.untyped \in Attempts \cup {Nothing} /\ drv.inflight \in Attempts \cup {Nothing}
    BY BookFacts DEF Drivers
  <2> QED BY <1>1, <2>1, FencedFields
<1>5. drv' = [drv EXCEPT !.untyped = a, !.inflight = b, !.amb = NoAmbiguity,
                         !.deciding = FALSE, !.wake = TRUE]
  BY <1>1, BookFacts DEF Released, Drivers
<1> HIDE DEF a, b
<1>6. /\ drv'.live = drv.live /\ drv'.untyped = a /\ drv'.inflight = b
      /\ drv'.pruning = drv.pruning /\ drv'.amb = NoAmbiguity /\ drv'.quarantined = drv.quarantined
  BY <1>5, BookFacts DEF Drivers
<1>7. NoAmbiguity.state = "none"
  BY DEF NoAmbiguity
<1>8. Own' <=> Own
  BY <1>3, <1>4, <1>6 DEF Own
<1>9. Sequence' /\ Epochs' /\ Calm'
  BY <1>1, <1>3, <1>4, <1>6 DEF Bookkeeping, Books, Sequence, Last, Epochs, Calm
<1>10. Fencing'
  BY <1>1, <1>2, <1>3, <1>4, <1>6 DEF Bookkeeping, Books, Fencing
<1>11. Plain'
  BY <1>1, <1>2, <1>6, <1>7 DEF Bookkeeping, Books, Plain, Open
<1>12. InHand'
  BY <1>1, <1>3, <1>6 DEF Bookkeeping, Books, InHand, CommitLine
<1>13. ASSUME ~drv.quarantined PROVE Ledger'
  <2>1. Accounted /\ LiveLine /\ UntypedLine /\ OpenLine /\ InflightLine /\ Fencing
    BY <1>13 DEF Bookkeeping, Books, Ledger
  <2>2. Accounted' /\ LiveLine' /\ OpenLine'
    BY <1>1, <1>3, <1>4, <1>6, <2>1 DEF Accounted, LiveLine, OpenLine, Unopened
  <2>3. drv.untyped # Nothing => (CanceledAt' <=> CanceledAt)
    BY <1>3, <1>4, <1>6 DEF CanceledAt
  <2>4. rc.pc \in UntypedPcs => drv.untyped # Nothing
    BY NothingIsNone DEF Bookkeeping, Shape, RcShape
  <2>5. UntypedLine'
    BY <1>1, <1>2, <1>3, <1>4, <1>6, <2>1, <2>3, <2>4 DEF UntypedLine
  <2>6. Own /\ req.fence => Superseded
    BY <1>1, <2>1 DEF Fencing
  <2>7. Own => drv.inflight # Nothing
    BY DEF Own
  <2>8. InflightLine'
    BY <1>1, <1>3, <1>4, <1>6, <1>8, <2>1, <2>6, <2>7 DEF InflightLine
  <2> QED BY <2>2, <2>5, <2>8 DEF Ledger
<1> QED BY <1>6, <1>9, <1>10, <1>11, <1>12, <1>13 DEF Books

\* While no write fails, nothing is left in doubt: no other step of the service
\* is possible.
LEMMA ServiceBooks ==
    ASSUME Bookkeeping, Requester \/ Resolver \/ Settling \/ PeerReadsBack \/ PeerSettles
    PROVE  Books'
<1>1. /\ req.pc \in {"idle", "publish", "release"} /\ drv.amb.state = "none" /\ rb.pc = "off"
      /\ peer = "idle" /\ store.status = "open"
  BY DEF Bookkeeping, Books, Plain, Open
<1>2. PublishAccepted \/ ReleaseDecision
  BY <1>1 DEF Requester, HoldAmbiguous, CheckAdmission, ArmReadback, Resolver, ReadbackTry,
     ReadbackResolved, ReadbackDisarms, Settling, PublishAdopted, ReleaseAmbiguous, PeerReadsBack, Reread,
     PeerSettles
<1> QED BY <1>2, PublishAcceptedBooks, ReleaseDecisionBooks

LEMMA CrashBooks ==
    ASSUME Bookkeeping, Crash
    PROVE  Books'
<1>1. /\ store' = [rec |-> store.rec, staged |-> Nothing, status |-> "open"]
      /\ accepted' = accepted \cup {store.rec.rev}
      /\ drv' = Booted /\ rc' = Asleep /\ req' = Quiet /\ peer' = "idle"
      /\ rb' = [pc |-> "off", tries |-> 0] /\ ext' = [ext EXCEPT !.open = {}]
      /\ count' = [count EXCEPT !.boots = @ + 1]
  BY DEF Crash, Bookkeeping, Books, Plain
<1>2. /\ Cur' = Cur /\ Res' = Res /\ store'.rec = store.rec /\ Open' /\ store'.staged = Nothing
      /\ rc'.pc = "idle" /\ req'.pc = "idle" /\ ext'.open = {}
      /\ count'.epochs = count.epochs
      /\ drv'.live = Nothing /\ drv'.untyped = Nothing /\ drv'.inflight = Nothing
      /\ ~drv'.pruning /\ drv'.amb.state = "none"
  BY <1>1 DEF Cur, Res, Open, Asleep, At, Quiet, Booted, NoAmbiguity, Bookkeeping, Shape
<1>3. Sequence' /\ Epochs' /\ Fencing'
  BY <1>2 DEF Bookkeeping, Books, Sequence, Last, Epochs, Fencing, Releasing
<1>4. Plain'
  BY <1>1, <1>2 DEF Bookkeeping, Books, Plain
<1>5. Accounted' /\ Taken' /\ ~Own'
  BY <1>2 DEF Accounted, Taken, Own
<1> QED BY <1>2, <1>3, <1>4, <1>5, LetGo DEF Shelf

LEMMA InitBooks == Init => Books
<1> SUFFICES ASSUME Init PROVE Books
  OBVIOUS
<1>1. /\ rc.pc = "idle" /\ req.pc = "idle" /\ ext.open = {} /\ accepted = {1} /\ peer = "idle"
      /\ rb = [pc |-> "off", tries |-> 0] /\ Open /\ store.staged = Nothing /\ count.epochs = 0
      /\ drv.live = Nothing /\ drv.untyped = Nothing /\ drv.inflight = Nothing
      /\ ~drv.pruning /\ drv.amb.state = "none" /\ store.rec \in FirstRecords
  BY DEF Init, Open, Asleep, At, Quiet, Booted, NoAmbiguity
<1>2. /\ store.rec.rev = 1 /\ Res = Nothing
      /\ Cur # Nothing => Cur = Transition("START", 1, 1) /\ store.rec.desired = "RUNNING"
  BY <1>1 DEF FirstRecords, Workless, Cur, Res
<1>3. Cur # Nothing => Cur.kind = "START" /\ Fresh(Cur)
  BY <1>2, NewSlotFields DEF Kinds, Methods
<1>4. Sequence
  BY <1>2, <1>3, LimitsOrdered DEF Sequence, Last, SlotLine, Fresh
<1>5. Epochs
  BY <1>1, <1>3 DEF Epochs, Fresh
<1>6. Plain
  BY <1>1 DEF Plain
<1>7. InHand /\ Calm /\ Fencing
  BY <1>1 DEF InHand, Calm, Fencing, SettlePcs, AttemptPcs, SlotPcs, Starting, OnSetup, OnAttempt, AtUntyped,
     UntypedPcs, Own, Releasing
<1>8. Ledger
  BY <1>1 DEF Ledger, Accounted, LiveLine, UntypedLine, OpenLine, InflightLine, SettlePcs, AtUntyped, UntypedPcs,
     Own, SlotPcs
<1> QED BY <1>4, <1>5, <1>6, <1>7, <1>8 DEF Books

LEMMA StutterBooks ==
    ASSUME Books, vars' = vars
    PROVE  Books'
<1>1. /\ store' = store /\ drv' = drv /\ rc' = rc /\ req' = req /\ peer' = peer /\ rb' = rb
      /\ ext' = ext /\ accepted' = accepted /\ count' = count
  BY DEF vars
<1>2. Cur' = Cur /\ Res' = Res /\ (Releasing' <=> Releasing) /\ (Own' <=> Own) /\ (Superseded' <=> Superseded)
  BY <1>1 DEF Cur, Res, Releasing, Own, Superseded
<1>3. Sequence' /\ Epochs' /\ Calm' /\ Fencing' /\ Plain'
  BY <1>1, <1>2 DEF Books, Sequence, Last, Epochs, Calm, Fencing, Plain, Open
<1>4. InHand'
  BY <1>1, <1>2 DEF Books, InHand, CommitLine
<1>5. ~drv.quarantined => Ledger'
  BY <1>1, <1>2 DEF Books, Ledger, Accounted, LiveLine, UntypedLine, OpenLine, InflightLine,
     CanceledAt
<1> QED BY <1>1, <1>3, <1>4, <1>5 DEF Books

\* A step of the reconciler keeps the books, while no write fails.
LEMMA ReconcilerBooks ==
    ASSUME Bookkeeping, Reconciler, count'.faults = 0
    PROVE  Books'
<1>1. CASE Pass
  BY <1>1, WakesBooks, ReadSlotsBooks, DispatchBooks DEF Pass
<1>2. CASE Cleanup
  BY <1>2, CommitsSucceed, CleanupChargedBooks, StopReturnsBooks, CleanupCommittedBooks, ExhaustCommittedBooks,
     BegunCommittedBooks, ReplacedCommittedBooks, EndCommittedBooks, AssignCommittedBooks, FinishBooks,
     PruneBooks, PruneFailsBooks DEF Cleanup
<1>3. CASE TypedAttempt
  BY <1>3, AttemptHeadBooks, StartChargedBooks, GenerationCommittedBooks, StartReturnsBooks, JudgeStartBooks,
     AdmitStartBooks, StartCompletedBooks, BackoffBooks DEF TypedAttempt
<1>4. CASE UntypedAttempt
  BY <1>4, InstallUntypedBooks, CheckUntypedBooks, UntypedHeadBooks, UntypedReturnsBooks, JudgeUntypedBooks,
     BackoffUntypedBooks, AdmitUntypedBooks, WithdrawUntypedBooks, FinishUntypedBooks DEF UntypedAttempt
<1> QED BY <1>1, <1>2, <1>3, <1>4 DEF Reconciler

\* The induction: who is woken, what is paid, and the books while no write has
\* failed.
BookInv == WakeInv /\ Budget /\ (count.faults = 0 => Books)

LEMMA NextBookInv ==
    ASSUME BookInv, [Next]_vars
    PROVE  BookInv'
<1>1. WakeInv' /\ Shape /\ Shape' /\ Deciders /\ Budget
  BY NextWakeInv DEF BookInv, WakeInv
<1>2. Budget'
  <2>1. CASE vars' = vars
    BY <1>1, <2>1 DEF vars, Budget, StoreBudget, RcBudget, ChargeBudget, StartBudgetHolds,
        StoredRecords, Paid, Covers, Behind, Follows, OnAttempt
  <2> QED BY <1>1, <2>1, DecideBudget, ServiceBudget, ReconcilerBudget, CrashBudget DEF Next
<1>3. ASSUME count'.faults = 0 PROVE Books'
  <2>1. count.faults = 0
    BY <1>1, <1>3, FaultsStay DEF Shape
  <2>2. Bookkeeping
    BY <1>1, <2>1 DEF Bookkeeping, BookInv
  <2>3. CASE vars' = vars
    BY <2>2, <2>3, StutterBooks DEF Bookkeeping
  <2> QED BY <1>3, <2>2, <2>3, DecideBooks, ServiceBooks, ReconcilerBooks, CrashBooks DEF Next
<1> QED BY <1>1, <1>2, <1>3 DEF BookInv

LEMMA InitBookInv == Init => BookInv
BY InitWakeInv, InitBudget, InitBooks DEF BookInv

LEMMA BooksBarStarts ==
    ASSUME BookInv
    PROVE  NoStartOverOpen
<1> SUFFICES ASSUME Unfailed, rc.pc \in {"start", "u_start"} PROVE ext.open = {}
  BY DEF NoStartOverOpen
<1>1. Books
  BY DEF BookInv, Unfailed
<1>2. ~drv.quarantined
  BY <1>1 DEF Books, Calm, Starting, OnSetup, AttemptPcs, AtUntyped, UntypedPcs
<1> QED BY <1>1, <1>2 DEF Books, Ledger, OpenLine, Unopened

LEMMA BooksForgetNothing ==
    ASSUME BookInv, TypeOK
    PROVE  NothingForgotten
<1>1. Unfailed /\ ~drv.quarantined => Accounted
  BY DEF BookInv, Books, Ledger, Unfailed
<1> QED BY <1>1 DEF NothingForgotten, Accounted, Cur

\* As long as no write failed, a Start is called only when nothing is open: the
\* untyped attempt is installed when nothing is live and its cancellation is a
\* slot of its own, an attempt has a new epoch only after what its slot owes is
\* closed, a live generation is taken over by the slot that follows it, and a
\* close that is not proven quarantines the driver, which is then not started.
THEOREM ControlNoStartOverOpen == Spec => []NoStartOverOpen
<1>1. BookInv /\ [Next]_vars => BookInv'
  BY NextBookInv
<1>2. BookInv => NoStartOverOpen
  BY BooksBarStarts
<1> QED BY <1>1, <1>2, InitBookInv, PTL DEF Spec

\* As long as no write failed, a generation that is open is known to somebody:
\* it is the live one, that of the untyped attempt or owed by the current slot,
\* or the driver is quarantined for it.
THEOREM ControlNothingForgotten == Spec => []NothingForgotten
<1>1. BookInv /\ [Next]_vars => BookInv'
  BY NextBookInv
<1>2. BookInv /\ TypeOK => NothingForgotten
  BY BooksForgetNothing
<1> QED BY <1>1, <1>2, InitBookInv, ControlTypes, PTL DEF Spec

\* A decision waits behind the slot in hand, an update keeps its identity, and
\* what a prune takes out is the slot it found finished.
LEMMA BooksKeepWork ==
    ASSUME BookInv, count.faults = 0, count'.faults = 0, Next, Leaves
    PROVE  Terminal(store.rec.cur)
<1>1. Bookkeeping /\ Shape /\ Books
  BY DEF BookInv, Bookkeeping, WakeInv
<1>2. Cur \in Slots /\ Cur # Nothing /\ Cur = store.rec.cur /\ SameIdentity(Cur, Cur)
  BY <1>1, BookFacts DEF Leaves, Cur, SameIdentity
<1>3. store'.rec.cur # Cur
  BY <1>2 DEF Leaves
<1>4. ASSUME NEW method \in Methods, Decide(method) PROVE FALSE
  <2>1. ~Faulty
    BY <1>1 DEF Faulty, Shape
  <2>2. Committed(Planned(method)) /\ drv' = [drv EXCEPT !.deciding = TRUE] /\ Decidable(method)
    BY <1>4, <2>1 DEF Decide
  <2>3. Cur' = Cur
    BY <1>1, <1>2, <2>2, DecidedSlots
  <2> QED BY <1>3, <2>3 DEF Cur
<1>5. ASSUME Requester \/ Resolver \/ Settling \/ PeerReadsBack \/ PeerSettles PROVE FALSE
  <2>1. Plain
    BY <1>1 DEF Books
  <2>2. store' = store
    BY <1>5, <2>1 DEF Plain, Open, Requester, PublishAccepted, ReleaseDecision, HoldAmbiguous, CheckAdmission,
       ArmReadback, Resolver, ReadbackTry, ReadbackResolved, ReadbackDisarms, Settling, PublishAdopted,
       ReleaseAmbiguous, PeerReadsBack, Reread, PeerSettles
  <2> QED BY <1>2, <1>3, <2>2
<1>6. ASSUME Crash PROVE FALSE
  <2>1. Open
    BY <1>1 DEF Books, Plain
  <2> QED BY <1>2, <1>3, <1>6, <2>1 DEF Crash
<1>7. ASSUME Reconciler PROVE Terminal(Cur)
  <2>1. ~ReadSlots /\ ~Dispatch /\ ~Finish
    BY <1>2, <1>3 DEF ReadSlots, Dispatch, Finish
  <2>2. Onward
    BY <1>1, <1>7, <2>1, IdleOnward, CleanupOnward, AttemptOnward, UntypedOnward DEF Reconciler, Pass, Wakes
  <2>3. StoreWrites
    BY <1>1, <1>7, <2>1, <2>2, ReconcilerWrites
  <2>4. ASSUME rc.pc \in {"charge", "commit"}, Updatable, Writes(Updated) PROVE FALSE
    <3>1. store'.rec.cur \in {store.rec.cur, rc.t}
      BY <1>1, <2>4 DEF Writes, Committed, Staged, Updated, Shape, Records
    <3>2. SameIdentity(store.rec.cur, rc.t)
      BY <2>4 DEF Updatable, WorkUpdate
    <3> QED BY <1>2, <1>3, <3>1, <3>2 DEF Leaves
  <2>5. CASE rc.pc = "prune"
    BY <1>1, <2>5 DEF Books, InHand
  <2> QED BY <1>2, <1>3, <2>3, <2>4, <2>5 DEF StoreWrites
<1> QED BY <1>2, <1>4, <1>5, <1>6, <1>7 DEF Next

\* As long as no write fails, a slot leaves the store only when all it owed is
\* done: the decision that a repeated prune clears takes a failed one.
THEOREM ControlWorkLeavesFinished ==
    Spec /\ []Unfailed => WorkLeavesFinished
<1>1. BookInv /\ [Next]_vars => BookInv'
  BY NextBookInv
<1>2. BookInv /\ Unfailed /\ Unfailed' /\ [Next]_vars => [Leaves => Terminal(store.rec.cur)]_vars
  BY BooksKeepWork DEF Unfailed
<1>3. Init => BookInv
  BY InitBookInv
<1>4. Spec /\ []Unfailed => [][Leaves => Terminal(store.rec.cur)]_vars
  BY <1>1, <1>2, <1>3, PTL DEF Spec
<1> QED BY <1>4 DEF WorkLeavesFinished

===============================================================================
