-------------------------- MODULE B503SessionProofs --------------------------
(***************************************************************************)
(* Proofs about B503Session for every set of goroutines and targets and    *)
(* every bound: the gate follows the state, the wire carries one enable    *)
(* and one disable at most, no owner's frame crosses an epoch, and the     *)
(* manager implements LiveMonitorContract.                                 *)
(***************************************************************************)
EXTENDS B503Session, SequenceTheorems, TLAPS

(* The wire log of a session that was enabled, and of one also disabled.   *)
Enabled(t) == << [kind |-> "enable", target |-> t] >>
Disabled(t) == << [kind |-> "enable", target |-> t], [kind |-> "disable", target |-> t] >>

Owning == {"Enabling", "Active", "Refreshing"}

(* The gate, the identifiers, the timer and a deferred expiry of manager s. *)
Gate(s) ==
    /\ s.held <=> s.state \in Owning
    /\ s.pending.id <= s.ids
    /\ s.timer # 0 => s.timer = s.gen
    /\ s.expiry => s.state = "Active" /\ s.pending.id # 0 /\ s.pending.kind = "read"
    /\ s.restarted => s.state = "Disabled" /\ s.pending.id = 0 /\ s.cleanup.attempt = 0
    /\ s.state = "Disabled" /\ ~s.restarted => s.cleanup.attempt # 0

(* An owner that is not behind the transport knows that it is.             *)
Bound(s) ==
    s.held => /\ s.transport <= s.observed
              /\ s.transport = s.observed \/ s.pendingEpoch = s.observed

(* What the wire w has carried in each state of manager s, and for whom.   *)
IdleSlot(s, w) ==
    s.state = "Idle" =>
        /\ s.pending.id = 0 /\ s.cleanup.attempt = 0
        /\ s.transport = s.observed /\ s.pendingEpoch <= s.observed /\ w = <<>>

EnablingSlot(s, w) ==
    s.state = "Enabling" =>
        /\ s.pending.id # 0 /\ s.pending.kind = "enable" /\ s.cleanup.attempt = 0
        /\ s.target \in Targets /\ s.pending.target = s.target
        /\ s.pending.epoch = s.transport /\ ~s.pending.cleanup
        /\ s.pending.emitted => w = Enabled(s.target)
        /\ ~s.pending.emitted =>
              w = <<>> /\ s.transport = s.observed /\ s.pendingEpoch <= s.observed

EndSent(s) == s.pending.id # 0 /\ s.pending.kind = "disable" /\ s.pending.emitted

OwnedSlot(s, w) ==
    s.state \in {"Active", "Refreshing"} =>
        /\ s.cleanup.attempt # 0 /\ s.target \in Targets /\ s.cleanup.target = s.target
        /\ s.pending.id # 0 => /\ s.pending.target = s.target /\ s.pending.kind # "enable"
                               /\ ~s.pending.cleanup
        /\ s.state = "Refreshing" => s.pending.id # 0 /\ ~s.pending.emitted
        /\ EndSent(s) => w = Disabled(s.target)
        /\ ~EndSent(s) => w = Enabled(s.target)

ClosedSlot(s, w) ==
    s.state = "Disabled" /\ s.pending.id # 0 =>
        /\ s.cleanup.attempt # 0 /\ s.pending.target \in Targets
        /\ s.pending.kind = "enable" => s.pending.emitted
        /\ s.pending.cleanup => s.pending.kind = "disable"
        /\ s.pending.cleanup /\ ~s.pending.emitted => w = Enabled(s.pending.target)

ObligedSlot(s, w) ==
    s.cleanup.attempt # 0 =>
        /\ s.cleanup.target \in Targets
        /\ w = Enabled(s.cleanup.target) \/ w = Disabled(s.cleanup.target)

Logged(w) == w = <<>> \/ \E t \in Targets : w = Enabled(t) \/ w = Disabled(t)

Slot(s, w) ==
    /\ IdleSlot(s, w) /\ EnablingSlot(s, w) /\ OwnedSlot(s, w)
    /\ ClosedSlot(s, w) /\ ObligedSlot(s, w) /\ Logged(w)

(* The operation in flight belongs to goroutine record q.                  *)
Working == {"refresh", "stopTimer", "issue", "queued", "send", "sent",
            "disconnect", "done", "record"}
Mine(q, s) == q.op = s.pending.id /\ s.pending.id # 0
FrameKind(kind) == IF kind \in {"idle", "cleanup"} THEN "disable" ELSE kind

Places(p, q, s) ==
    /\ q.pc \in Working => q.op # 0 /\ q.op <= s.ids /\ q.target \in Targets
    /\ q.pc \notin Working => q.op = 0
    /\ q.pc = "refresh" => q.kind \in {"read", "disable", "idle"}
    /\ q.pc = "stopTimer" => q.kind = "disable"
    /\ q.kind = "idle" => p \in Callbacks
    /\ q.pc = "refresh" /\ p \in Callbacks => q.kind = "idle"
    /\ q.pc = "sent" => Emitted(q.out)

(* What the owner of the operation in flight knows of it.                  *)
Carries(q, s) ==
    Mine(q, s) =>
        /\ s.pending.target = q.target /\ s.pending.kind = FrameKind(q.kind)
        /\ s.pending.cleanup <=> q.kind = "cleanup"
        /\ q.kind = "cleanup" => s.state = "Disabled"
        /\ q.pc \in {"refresh", "stopTimer", "issue", "queued"} => ~s.pending.emitted
        /\ q.pc \in {"send", "sent"} => s.pending.emitted
        /\ q.pc \in {"disconnect", "done"} => (s.pending.emitted <=> Emitted(q.out))
        /\ q.pc # "record"
        /\ q.pc = "refresh" => s.state \in {"Refreshing", "Disabled"}
        /\ q.pc # "refresh" => s.state # "Refreshing"

(* An operation that no epoch has overtaken is issued for the newest one.  *)
Timely(q, s) ==
    Mine(q, s) /\ ~s.pending.invalidated /\ q.kind # "cleanup" =>
        /\ q.pc \in {"stopTimer", "issue"} => s.transport = s.observed
        /\ q.pc = "queued" => q.issue = s.observed

Sending(p, q, s, mu) ==
    q.pc = "send" => /\ mu = p
                     /\ s.state = "Disabled" \/ Mine(q, s)
                     /\ q.kind # "cleanup" => q.issue = s.observed

(* A defensive disable is still to come: nothing else will be sent.        *)
Cleans(q, s, w) ==
    q.pc = "cleanup" =>
        s.state = "Disabled" /\ s.pending.id = 0 /\ ~\E t \in Targets : w = Disabled(t)

Worker(p, q, s, w, mu) ==
    Places(p, q, s) /\ Carries(q, s) /\ Timely(q, s) /\ Sending(p, q, s, mu) /\ Cleans(q, s, w)

(* No two goroutines have the same operation or clean up.                  *)
Apart(f) ==
    \A p, q \in Procs : p # q =>
        /\ f[p].op # 0 => f[p].op # f[q].op
        /\ f[p].pc # "cleanup" \/ f[q].pc # "cleanup"

Fired(f, gen) == \E b \in Callbacks : f[b].pc = "fired" /\ f[b].gen = gen

(* An active session has a timer, a callback on its way, or an operation   *)
(* that will end the session or arm the timer.                             *)
Watched(s, f) ==
    s.state = "Active" =>
        \/ s.timer = s.gen
        \/ Fired(f, s.gen)
        \/ s.pending.id # 0 /\ (s.pending.kind = "read" => s.expiry)

Workers(f, s, w, mu) == \A p \in Procs : Worker(p, f[p], s, w, mu)

SessionInv ==
    /\ TypeOK
    /\ Gate(m) /\ Bound(m) /\ Slot(m, wire)
    /\ Workers(proc, m, wire, emissionMu)
    /\ Apart(proc) /\ Watched(m, proc)

(* What every step but a restart keeps: a process that was not restarted   *)
(* stays so, and a slot that was closed is never opened again.             *)
Steady(s, z) == z.restarted = s.restarted /\ (s.state = "Disabled" => z.state = "Disabled")

-----------------------------------------------------------------------------
(* What the helpers of the manager do to its fields.                       *)

LEMMA NoneTyped == /\ NoOperation \in OperationType /\ NoOperation.id = 0
                   /\ NoCleanup \in CleanupType /\ NoCleanup.attempt = 0
                   /\ IdleProc \in ProcType
  BY SessionAssumption DEF NoOperation, NoCleanup, IdleProc, OperationType, CleanupType,
     ProcType, Kinds, Outcomes, Epochs

(* Fields that most helpers leave alone.                                   *)
SameEpochs(s, t) ==
    /\ t.transport = s.transport /\ t.observed = s.observed
    /\ t.pendingEpoch = s.pendingEpoch
SameFlight(s, t) == t.pending = s.pending /\ t.restarted = s.restarted

LEMMA StopIdleFields ==
  ASSUME NEW s \in ManagerType
  PROVE  LET z == stopIdleTimer(s)
         IN  /\ z \in ManagerType /\ SameEpochs(s, z) /\ SameFlight(s, z)
             /\ z.timer = 0 /\ z.gen = s.gen + 1 /\ z.held = s.held /\ z.target = s.target
             /\ z.state = s.state /\ z.cleanup = s.cleanup /\ z.expiry = s.expiry
             /\ z.ids = s.ids
<1> DEFINE z == stopIdleTimer(s)
<1>1. z = [s EXCEPT !.timer = 0, !.gen = s.gen + 1]  BY DEF stopIdleTimer, ManagerType
<1> HIDE DEF z
<1>2. s.gen + 1 \in Nat  BY DEF ManagerType
<1>2a. z \in ManagerType  BY <1>1, <1>2 DEF ManagerType
<1>3. SameEpochs(s, z) /\ SameFlight(s, z)
  BY <1>1 DEF ManagerType, SameEpochs, SameFlight
<1>4. /\ z.timer = 0 /\ z.gen = s.gen + 1 /\ z.held = s.held /\ z.target = s.target
      /\ z.state = s.state /\ z.cleanup = s.cleanup /\ z.expiry = s.expiry
      /\ z.ids = s.ids
  BY <1>1 DEF ManagerType
<1> QED  BY <1>2a, <1>3, <1>4 DEF z

LEMMA ReleaseFields ==
  ASSUME NEW s \in ManagerType
  PROVE  LET z == releaseOwnerLocked(s)
         IN  /\ z \in ManagerType /\ SameEpochs(s, z) /\ SameFlight(s, z)
             /\ z.timer = 0 /\ z.held = FALSE /\ z.target = NoTarget
             /\ z.state = s.state /\ z.cleanup = s.cleanup /\ z.expiry = s.expiry
             /\ z.ids = s.ids
<1> DEFINE r == stopIdleTimer(s)
           z == releaseOwnerLocked(s)
<1>1. /\ r \in ManagerType /\ SameEpochs(s, r) /\ SameFlight(s, r) /\ r.timer = 0
      /\ r.state = s.state /\ r.cleanup = s.cleanup /\ r.expiry = s.expiry /\ r.ids = s.ids
  BY StopIdleFields
<1>2. z = [r EXCEPT !.held = FALSE, !.target = NoTarget]  BY DEF releaseOwnerLocked
<1> HIDE DEF r, z
<1>3. z \in ManagerType  BY <1>1, <1>2 DEF ManagerType
<1>4. SameEpochs(s, z) /\ SameFlight(s, z)
  BY <1>1, <1>2 DEF ManagerType, SameEpochs, SameFlight
<1>5. /\ z.timer = 0 /\ z.held = FALSE /\ z.target = NoTarget
      /\ z.state = s.state /\ z.cleanup = s.cleanup /\ z.expiry = s.expiry
      /\ z.ids = s.ids
  BY <1>1, <1>2 DEF ManagerType
<1> QED  BY <1>3, <1>4, <1>5 DEF z

LEMMA DisabledFields ==
  ASSUME NEW s \in ManagerType
  PROVE  LET z == toDisabledLocked(s)
         IN  /\ z \in ManagerType /\ SameEpochs(s, z) /\ SameFlight(s, z)
             /\ z.timer = 0 /\ z.held = FALSE /\ z.target = NoTarget
             /\ z.state = "Disabled" /\ z.cleanup = s.cleanup /\ z.expiry = FALSE
             /\ z.ids = s.ids
<1> DEFINE r == releaseOwnerLocked(s)
<1>1. /\ r \in ManagerType /\ SameEpochs(s, r) /\ SameFlight(s, r)
      /\ r.timer = 0 /\ r.held = FALSE /\ r.target = NoTarget
      /\ r.cleanup = s.cleanup /\ r.ids = s.ids
  BY ReleaseFields
<1>2. toDisabledLocked(s) = [r EXCEPT !.expiry = FALSE, !.state = "Disabled"]
  BY DEF toDisabledLocked
<1> HIDE DEF r
<1> QED  BY <1>1, <1>2 DEF ManagerType, SameEpochs, SameFlight, States

LEMMA CreateFields ==
  ASSUME NEW s \in ManagerType, NEW target \in Targets \cup {NoTarget},
         NEW epoch \in Epochs, NEW source \in Nat
  PROVE  LET z == createCleanupLocked(s, target, epoch, source)
         IN  /\ z \in ManagerType /\ SameEpochs(s, z) /\ SameFlight(s, z)
             /\ z.timer = s.timer /\ z.gen = s.gen /\ z.held = s.held
             /\ z.target = s.target /\ z.expiry = s.expiry
             /\ z.cleanup.attempt # 0 /\ s.ids <= z.ids
             /\ s.cleanup.attempt # 0 => z = s
             /\ s.cleanup.attempt = 0 => z.state = "Disabled" /\ z.cleanup.target = target
<1> DEFINE z == createCleanupLocked(s, target, epoch, source)
           c == [NoCleanup EXCEPT !.attempt = s.ids + 1,
                    !.target = target, !.epoch = epoch, !.source = source]
<1>1. CASE s.cleanup.attempt # 0
  <2>1. z = s  BY <1>1 DEF createCleanupLocked
  <2> QED  BY <1>1, <2>1 DEF SameEpochs, SameFlight, ManagerType
<1>2. CASE s.cleanup.attempt = 0
  <2>1. z = [s EXCEPT !.ids = s.ids + 1, !.cleanup = c, !.state = "Disabled"]
    BY <1>2 DEF createCleanupLocked, ManagerType
  <2>2. s.ids \in Nat /\ s.ids + 1 \in Nat  BY DEF ManagerType
  <2>3. c \in CleanupType /\ c.attempt = s.ids + 1 /\ c.target = target
    BY <2>2, NoneTyped DEF CleanupType
  <2> HIDE DEF z, c
  <2>4. z \in ManagerType  BY <2>1, <2>2, <2>3 DEF ManagerType, States
  <2>5. SameEpochs(s, z) /\ SameFlight(s, z)
    BY <2>1 DEF ManagerType, SameEpochs, SameFlight
  <2>6. /\ z.timer = s.timer /\ z.gen = s.gen /\ z.held = s.held
        /\ z.target = s.target /\ z.expiry = s.expiry
        /\ z.cleanup = c /\ z.ids = s.ids + 1 /\ z.state = "Disabled"
    BY <2>1 DEF ManagerType
  <2> QED  BY <1>2, <2>2, <2>3, <2>4, <2>5, <2>6 DEF z
<1> QED  BY <1>1, <1>2 DEF ManagerType, CleanupType

(* Manager z is manager s after endSession.                                *)
Ends(s, z, target) ==
    /\ z \in ManagerType /\ SameEpochs(s, z) /\ SameFlight(s, z)
    /\ z.timer = 0 /\ z.held = FALSE /\ z.state = "Disabled" /\ z.expiry = FALSE
    /\ z.cleanup.attempt # 0 /\ s.ids <= z.ids
    /\ s.cleanup.attempt # 0 => z.cleanup = s.cleanup
    /\ s.cleanup.attempt = 0 => z.cleanup.target = target

LEMMA EndFields ==
  ASSUME NEW s \in ManagerType, NEW target \in Targets \cup {NoTarget},
         NEW epoch \in Epochs, NEW source \in Nat
  PROVE  Ends(s, endSession(s, target, epoch, source), target)
<1> DEFINE d == toDisabledLocked(s)
<1>1. /\ d \in ManagerType /\ SameEpochs(s, d) /\ SameFlight(s, d)
      /\ d.timer = 0 /\ d.held = FALSE /\ d.state = "Disabled" /\ d.expiry = FALSE
      /\ d.cleanup = s.cleanup /\ d.ids = s.ids
  BY DisabledFields
<1>2. endSession(s, target, epoch, source) = createCleanupLocked(d, target, epoch, source)
  BY DEF endSession
<1> HIDE DEF d
<1> DEFINE z == createCleanupLocked(d, target, epoch, source)
<1>3. /\ z \in ManagerType /\ SameEpochs(d, z) /\ SameFlight(d, z)
      /\ z.timer = d.timer /\ z.held = d.held /\ z.expiry = d.expiry
      /\ z.cleanup.attempt # 0 /\ d.ids <= z.ids
      /\ d.cleanup.attempt # 0 => z = d
      /\ d.cleanup.attempt = 0 => z.state = "Disabled" /\ z.cleanup.target = target
  BY <1>1, CreateFields
<1> HIDE DEF z
<1>4. SameEpochs(s, z) /\ SameFlight(s, z)
  BY <1>1, <1>3 DEF SameEpochs, SameFlight
<1>5. z.state = "Disabled" /\ (s.cleanup.attempt # 0 => z.cleanup = s.cleanup)
  BY <1>1, <1>3
<1>6. Ends(s, z, target)  BY <1>1, <1>3, <1>4, <1>5 DEF Ends
<1> QED  BY <1>2, <1>6 DEF z

LEMMA ArmFields ==
  ASSUME NEW s \in ManagerType
  PROVE  LET z == armIdleTimerLocked(s)
         IN  /\ z \in ManagerType /\ SameEpochs(s, z) /\ SameFlight(s, z)
             /\ z.timer = z.gen /\ z.held = s.held /\ z.target = s.target
             /\ z.state = s.state /\ z.cleanup = s.cleanup /\ z.expiry = s.expiry
             /\ z.ids = s.ids
<1> DEFINE z == armIdleTimerLocked(s)
<1>1. z = [s EXCEPT !.gen = s.gen + 1, !.timer = s.gen + 1]
  BY DEF armIdleTimerLocked, ManagerType
<1> HIDE DEF z
<1>2. s.gen + 1 \in Nat  BY DEF ManagerType
<1>2a. z \in ManagerType  BY <1>1, <1>2 DEF ManagerType
<1>3. SameEpochs(s, z) /\ SameFlight(s, z)
  BY <1>1 DEF ManagerType, SameEpochs, SameFlight
<1>4. /\ z.timer = z.gen /\ z.held = s.held /\ z.target = s.target
      /\ z.state = s.state /\ z.cleanup = s.cleanup /\ z.expiry = s.expiry
      /\ z.ids = s.ids
  BY <1>1 DEF ManagerType
<1> QED  BY <1>2a, <1>3, <1>4 DEF z

-----------------------------------------------------------------------------
(* The wire log.                                                           *)

LEMMA WireFacts ==
  ASSUME NEW t, NEW u
  PROVE  /\ Enabled(t) # <<>> /\ Disabled(t) # <<>> /\ Enabled(t) # Disabled(u)
         /\ Enabled(t) = Enabled(u) => t = u
         /\ Append(<<>>, [kind |-> "enable", target |-> t]) = Enabled(t)
         /\ Append(Enabled(t), [kind |-> "disable", target |-> t]) = Disabled(t)
<1>1. Enabled(t) # <<>> /\ Disabled(t) # <<>> /\ Enabled(t) # Disabled(u)
  BY DEF Enabled, Disabled
<1>2. Enabled(t)[1].target = t /\ Enabled(u)[1].target = u
  BY DEF Enabled
<1>3. Append(<<>>, [kind |-> "enable", target |-> t]) = Enabled(t)
  BY DEF Enabled
<1>4. Append(Enabled(t), [kind |-> "disable", target |-> t]) = Disabled(t)
  <2> DEFINE a == [kind |-> "enable", target |-> t]
             b == [kind |-> "disable", target |-> t]
             x == Append(<<a>>, b)
  <2> HIDE DEF a, b
  <2>1. <<a>> \in Seq({a, b}) /\ <<a, b>> \in Seq({a, b}) /\ b \in {a, b}  OBVIOUS
  <2>2. Len(<<a>>) = 1 /\ <<a>>[1] = a  OBVIOUS
  <2>3. x \in Seq({a, b}) /\ Len(x) = 2 /\ x[1] = a /\ x[2] = b
    BY <2>1, <2>2, AppendProperties
  <2>4. Len(<<a, b>>) = 2 /\ <<a, b>>[1] = a /\ <<a, b>>[2] = b  OBVIOUS
  <2> DEFINE y == <<a, b>>
  <2> HIDE DEF x, y
  <2>5. y \in Seq({a, b}) /\ Len(y) = 2 /\ y[1] = a /\ y[2] = b  BY <2>1, <2>4 DEF y
  <2>6. \A i \in 1 .. Len(x) : x[i] = y[i]
    <3>1. \A i \in 1 .. 2 : i = 1 \/ i = 2  OBVIOUS
    <3> QED  BY <2>3, <2>5, <3>1
  <2>7. x = y
    BY <2>3, <2>5, <2>6, SeqEqual
  <2> QED  BY <2>7 DEF Enabled, Disabled, a, b, x, y
<1> QED  BY <1>1, <1>2, <1>3, <1>4

LEMMA WireTyped ==
  ASSUME NEW t \in Targets
  PROVE  /\ Enabled(t) \in Seq([kind : {"enable", "disable"}, target : Targets])
         /\ Disabled(t) \in Seq([kind : {"enable", "disable"}, target : Targets])
  BY DEF Enabled, Disabled

LEMMA LoggedIsDisciplined ==
  ASSUME Logged(wire)
  PROVE  WireDiscipline
<1>1. CASE wire = <<>>  BY <1>1 DEF WireDiscipline
<1>2. ASSUME NEW t \in Targets, wire = Enabled(t)
      PROVE  WireDiscipline
  BY <1>2 DEF WireDiscipline, Enabled
<1>3. ASSUME NEW t \in Targets, wire = Disabled(t)
      PROVE  WireDiscipline
  BY <1>3 DEF WireDiscipline, Disabled
<1> QED  BY <1>1, <1>2, <1>3 DEF Logged

-----------------------------------------------------------------------------
(* The goroutines of a step.                                               *)

Only(p, f, g) == \A q \in Procs : q # p => g[q] = f[q]

LEMMA WorkerIdle ==
  ASSUME NEW p, NEW s, NEW w, NEW mu
  PROVE  Worker(p, IdleProc, s, w, mu)
  BY DEF Worker, Places, Carries, Timely, Sending, Cleans, Mine, IdleProc, Working

LEMMA WorkerCleans ==
  ASSUME NEW p, NEW s, NEW w, NEW mu, NEW q,
         q.pc = "cleanup", q.op = 0, q.kind = "enable",
         s.state = "Disabled", s.pending.id = 0, \A t \in Targets : w # Disabled(t)
  PROVE  Worker(p, q, s, w, mu)
  BY DEF Worker, Places, Carries, Timely, Sending, Cleans, Mine, Working

(* A goroutine that does not own the operation in flight.                  *)
LEMMA OtherRests ==
  ASSUME NEW s \in ManagerType, NEW t \in ManagerType, NEW q \in ProcType, NEW p,
         NEW w, NEW mu,
         Worker(p, q, s, w, mu), ~Mine(q, s), s.ids <= t.ids,
         \/ t.pending.id = 0
         \/ t.pending.id > s.ids
         \/ t.pending.id = s.pending.id,
         s.state = "Disabled" => t.state = "Disabled" /\ t.observed = s.observed,
         q.pc = "cleanup" => t.pending.id = 0
  PROVE  Worker(p, q, t, w, mu)
<1> USE DEF Worker
<1>1. s.ids \in Nat /\ t.ids \in Nat /\ q.op \in Nat /\ s.pending.id \in Nat /\ t.pending.id \in Nat
  BY DEF ManagerType, ProcType, OperationType
<1>2. Places(p, q, t)  BY <1>1 DEF Places
<1>3. ~Mine(q, t)
  BY <1>1 DEF Mine, Places, Working
<1>4. Carries(q, t) /\ Timely(q, t)  BY <1>3 DEF Carries, Timely
<1>5. Sending(p, q, t, mu)  BY DEF Sending
<1>6. Cleans(q, t, w)  BY DEF Cleans
<1> QED  BY <1>2, <1>4, <1>5, <1>6

LEMMA OtherSame ==
  ASSUME NEW s \in ManagerType, NEW t \in ManagerType, NEW q \in ProcType, NEW p,
         NEW w, NEW mu,
         Worker(p, q, s, w, mu), s.ids <= t.ids, t.pending = s.pending,
         t.state = s.state, t.transport = s.transport, t.observed = s.observed
  PROVE  Worker(p, q, t, w, mu)
<1> USE DEF Worker
<1>1. s.ids \in Nat /\ t.ids \in Nat /\ q.op \in Nat
  BY DEF ManagerType, ProcType
<1>2. Places(p, q, t)  BY <1>1 DEF Places
<1>3. Mine(q, t) <=> Mine(q, s)  BY DEF Mine
<1>4. Carries(q, t)  BY <1>3 DEF Carries
<1>5. Timely(q, t)  BY <1>3 DEF Timely
<1>6. Sending(p, q, t, mu)  BY <1>3 DEF Sending
<1>7. Cleans(q, t, w)  BY DEF Cleans
<1> QED  BY <1>2, <1>4, <1>5, <1>6, <1>7

(* A step of the owner of the operation in flight, or one that begins an   *)
(* operation while none is in flight.                                      *)
LEMMA OwnerWorkers ==
  ASSUME NEW s \in ManagerType, NEW t \in ManagerType,
         NEW f \in [Procs -> ProcType], NEW g \in [Procs -> ProcType],
         NEW p \in Procs, NEW w, NEW mu,
         Workers(f, s, w, mu), Apart(f), Only(p, f, g), Worker(p, g[p], t, w, mu),
         Mine(f[p], s) \/ s.pending.id = 0,
         s.ids <= t.ids, t.pending.id = 0 \/ t.pending.id > s.ids \/ t.pending.id = s.pending.id,
         s.state = "Disabled" => t.state = "Disabled" /\ t.observed = s.observed,
         s.state # "Disabled" \/ t.pending.id = 0 \/ f[p].pc = "cleanup"
  PROVE  Workers(g, t, w, mu)
<1> SUFFICES ASSUME NEW q \in Procs, q # p  PROVE Worker(q, g[q], t, w, mu)
  BY DEF Workers
<1>1. g[q] = f[q] /\ f[q] \in ProcType /\ Worker(q, f[q], s, w, mu)
  BY DEF Only, Workers
<1>2. ~Mine(f[q], s)
  BY DEF Apart, Mine
<1>3. f[q].pc = "cleanup" => t.pending.id = 0
  BY <1>1 DEF Worker, Cleans, Apart
<1> QED  BY <1>1, <1>2, <1>3, OtherRests

(* A step that leaves the operation in flight and the epochs alone.        *)
LEMMA QuietWorkers ==
  ASSUME NEW s \in ManagerType, NEW t \in ManagerType,
         NEW f \in [Procs -> ProcType], NEW g \in [Procs -> ProcType],
         NEW p \in Procs, NEW w, NEW mu,
         Workers(f, s, w, mu), Only(p, f, g), Worker(p, g[p], t, w, mu),
         s.ids <= t.ids, t.pending = s.pending,
         t.state = s.state, t.transport = s.transport, t.observed = s.observed
  PROVE  Workers(g, t, w, mu)
<1> SUFFICES ASSUME NEW q \in Procs, q # p  PROVE Worker(q, g[q], t, w, mu)
  BY DEF Workers
<1>1. g[q] = f[q] /\ f[q] \in ProcType /\ Worker(q, f[q], s, w, mu)
  BY DEF Only, Workers
<1> QED  BY <1>1, OtherSame

LEMMA ApartKept ==
  ASSUME NEW f \in [Procs -> ProcType], NEW g \in [Procs -> ProcType],
         NEW p \in Procs, NEW s \in ManagerType, NEW w, NEW mu,
         Workers(f, s, w, mu), Apart(f), Only(p, f, g),
         g[p].op = 0 \/ g[p].op = f[p].op \/ g[p].op > s.ids,
         g[p].pc = "cleanup" => s.state # "Disabled" \/ f[p].pc = "cleanup"
  PROVE  Apart(g)
<1>1. \A q \in Procs : f[q] \in ProcType /\ f[q].op \in Nat /\ f[q].op <= s.ids /\ s.ids \in Nat
  BY DEF Workers, Worker, Places, ProcType, ManagerType, Working
<1>2. \A q \in Procs : q # p => (g[p].op # 0 => g[p].op # f[q].op)
  BY <1>1 DEF Apart
<1>3. \A q \in Procs : q # p => g[p].pc # "cleanup" \/ f[q].pc # "cleanup"
  BY DEF Workers, Worker, Cleans, Apart
<1> SUFFICES ASSUME NEW q \in Procs, NEW r \in Procs, q # r
             PROVE  /\ g[q].op # 0 => g[q].op # g[r].op
                    /\ g[q].pc # "cleanup" \/ g[r].pc # "cleanup"
  BY DEF Apart
<1>4. CASE q = p  BY <1>2, <1>3, <1>4 DEF Only
<1>5. CASE r = p  BY <1>2, <1>3, <1>5 DEF Only
<1>6. CASE q # p /\ r # p  BY <1>6 DEF Only, Apart
<1> QED  BY <1>4, <1>5, <1>6

-----------------------------------------------------------------------------
(* Ends of a session.                                                      *)

SameOperation(x, y) ==
    /\ y.id = x.id /\ y.kind = x.kind /\ y.target = x.target /\ y.epoch = x.epoch
    /\ y.emitted = x.emitted /\ y.cleanup = x.cleanup

(* Manager z is manager s after it gave up the slot with its obligation.   *)
Closes(s, z) ==
    /\ z.state = "Disabled" /\ z.held = FALSE /\ (z.timer # 0 => z.timer = z.gen)
    /\ z.expiry = FALSE
    /\ z.restarted = s.restarted /\ z.cleanup.attempt # 0 /\ s.ids <= z.ids
    /\ s.cleanup.attempt # 0 => z.cleanup.target = s.cleanup.target

LEMMA CloseKeeps ==
  ASSUME NEW s \in ManagerType, NEW z \in ManagerType, NEW w,
         Gate(s), Slot(s, w), ~s.restarted, Closes(s, z),
         s.cleanup.attempt = 0 => z.cleanup.target \in Targets /\ w = Enabled(z.cleanup.target),
         \/ z.pending.id = 0
         \/ /\ SameOperation(s.pending, z.pending)
            /\ s.state = "Enabling" => s.pending.emitted
  PROVE  Gate(z) /\ Bound(z) /\ Slot(z, w)
<1> USE DEF Closes
<1>1. s.ids \in Nat /\ z.ids \in Nat /\ s.pending.id \in Nat /\ z.pending.id \in Nat
  BY DEF ManagerType, OperationType
<1>2. Gate(z)  BY <1>1 DEF Gate, Owning, SameOperation
<1>3. Bound(z)  BY DEF Bound
<1>4. IdleSlot(z, w) /\ EnablingSlot(z, w) /\ OwnedSlot(z, w)
  BY DEF IdleSlot, EnablingSlot, OwnedSlot
<1>5. ObligedSlot(z, w)
  BY DEF Slot, ObligedSlot
<1>6. ClosedSlot(z, w)
  <2>1. CASE z.pending.id = 0  BY <2>1 DEF ClosedSlot
  <2>2. CASE SameOperation(s.pending, z.pending) /\ z.pending.id # 0
    <3>0. s.state \in States /\ s.pending.emitted \in BOOLEAN /\ s.pending.cleanup \in BOOLEAN
      BY DEF ManagerType, OperationType
    <3>1. s.state # "Idle"  BY <2>2 DEF Slot, IdleSlot, SameOperation
    <3>2. CASE s.state = "Enabling"
      BY <2>2, <3>2 DEF Slot, EnablingSlot, ClosedSlot, SameOperation
    <3>3. CASE s.state \in {"Active", "Refreshing"}
      BY <2>2, <3>3 DEF Slot, OwnedSlot, ClosedSlot, SameOperation
    <3>4. CASE s.state = "Disabled"
      BY <2>2, <3>4 DEF Slot, ClosedSlot, SameOperation
    <3> QED  BY <3>0, <3>1, <3>2, <3>3, <3>4 DEF States
  <2> QED  BY <2>1, <2>2
<1>7. Logged(w)  BY DEF Slot
<1> QED  BY <1>2, <1>3, <1>4, <1>5, <1>6, <1>7 DEF Slot

(* Manager z is manager s after it gave an unused slot back.               *)
Abandons(s, z) ==
    /\ z.state = "Idle" /\ z.held = FALSE /\ z.timer = 0 /\ z.expiry = s.expiry
    /\ z.restarted = s.restarted /\ z.pending.id = 0 /\ z.cleanup.attempt = 0
    /\ z.ids = s.ids /\ z.transport = z.observed /\ z.pendingEpoch <= z.observed

LEMMA AbandonKeeps ==
  ASSUME NEW s \in ManagerType, NEW z \in ManagerType, NEW w,
         Gate(s), Slot(s, w), Abandons(s, z), s.state = "Enabling", ~s.pending.emitted
  PROVE  Gate(z) /\ Bound(z) /\ Slot(z, w)
<1> USE DEF Abandons
<1>1. Gate(z)  BY DEF Gate, Owning, ManagerType
<1>2. w = <<>>  BY DEF Slot, EnablingSlot
<1>3. IdleSlot(z, w) /\ EnablingSlot(z, w) /\ OwnedSlot(z, w) /\ ClosedSlot(z, w) /\ ObligedSlot(z, w)
  BY <1>2 DEF IdleSlot, EnablingSlot, OwnedSlot, ClosedSlot, ObligedSlot
<1> QED  BY <1>1, <1>3 DEF Slot, Bound

LEMMA InvalidFields ==
  ASSUME NEW s \in ManagerType
  PROVE  LET z == invalidatePending(s)
         IN  /\ z \in ManagerType /\ SameEpochs(s, z) /\ SameOperation(s.pending, z.pending)
             /\ z.pending.id # 0 => z.pending.invalidated
             /\ z.timer = s.timer /\ z.gen = s.gen /\ z.held = s.held /\ z.target = s.target
             /\ z.state = s.state /\ z.cleanup = s.cleanup /\ z.expiry = s.expiry
             /\ z.ids = s.ids /\ z.restarted = s.restarted
<1> DEFINE z == invalidatePending(s)
<1>1. CASE s.pending.id = 0
  <2>1. z = s  BY <1>1 DEF invalidatePending
  <2> QED  BY <1>1, <2>1 DEF SameEpochs, SameOperation
<1>2. CASE s.pending.id # 0
  <2> DEFINE o == [s.pending EXCEPT !.invalidated = TRUE]
  <2>1. z = [s EXCEPT !.pending = o]  BY <1>2 DEF invalidatePending, ManagerType
  <2>2. s.pending \in OperationType  BY DEF ManagerType
  <2>3. o \in OperationType /\ o.invalidated /\ SameOperation(s.pending, o)
    BY <2>2 DEF OperationType, SameOperation
  <2> HIDE DEF o, z
  <2>4. z \in ManagerType /\ z.pending = o  BY <2>1, <2>3 DEF ManagerType
  <2>5. SameEpochs(s, z)  BY <2>1 DEF ManagerType, SameEpochs
  <2>6. /\ z.timer = s.timer /\ z.gen = s.gen /\ z.held = s.held /\ z.target = s.target
        /\ z.state = s.state /\ z.cleanup = s.cleanup /\ z.expiry = s.expiry
        /\ z.ids = s.ids /\ z.restarted = s.restarted
    BY <2>1 DEF ManagerType
  <2> QED  BY <2>3, <2>4, <2>5, <2>6 DEF z
<1> QED  BY <1>1, <1>2

LEMMA CancelFields ==
  ASSUME NEW s \in ManagerType, s.cleanup.attempt = 0
  PROVE  LET z == cancelUnsentEnable(s)
         IN  /\ z \in ManagerType /\ z.state = "Idle" /\ z.held = FALSE /\ z.timer = 0
             /\ z.expiry = s.expiry /\ z.restarted = s.restarted /\ z.pending.id = 0
             /\ z.cleanup.attempt = 0 /\ z.ids = s.ids
             /\ z.transport = s.transport /\ z.observed = s.observed
             /\ z.pendingEpoch = 0
<1> DEFINE r == releaseOwnerLocked(s)
           c == clearCleanupForOperationLocked(r, s.pending.id)
           z == cancelUnsentEnable(s)
<1>1. /\ r \in ManagerType /\ r.transport = s.transport /\ r.observed = s.observed
      /\ r.restarted = s.restarted /\ r.timer = 0 /\ r.held = FALSE
      /\ r.cleanup = s.cleanup /\ r.expiry = s.expiry /\ r.ids = s.ids
  BY ReleaseFields DEF SameEpochs, SameFlight
<1>2. z = [c EXCEPT !.pending = NoOperation, !.pendingEpoch = 0, !.state = "Idle"]
  BY DEF cancelUnsentEnable
<1> HIDE DEF r
<1>3. /\ c \in ManagerType /\ c.transport = s.transport /\ c.observed = s.observed
      /\ c.restarted = s.restarted /\ c.timer = 0 /\ c.held = FALSE
      /\ c.cleanup.attempt = 0 /\ c.expiry = s.expiry /\ c.ids = s.ids
  <2>1. c = r \/ c = [r EXCEPT !.cleanup = NoCleanup]
    BY DEF clearCleanupForOperationLocked
  <2>2. CASE c = r  BY <1>1, <2>2
  <2>3. CASE c = [r EXCEPT !.cleanup = NoCleanup]
    BY <1>1, <2>3, NoneTyped DEF ManagerType
  <2> QED  BY <2>1, <2>2, <2>3
<1> HIDE DEF c, z
<1>4. 0 \in Epochs  BY SessionAssumption DEF Epochs
<1>5. z \in ManagerType  BY <1>2, <1>3, <1>4, NoneTyped DEF ManagerType, States
<1>6. /\ z.state = "Idle" /\ z.held = FALSE /\ z.timer = 0
      /\ z.expiry = s.expiry /\ z.restarted = s.restarted /\ z.pending.id = 0
      /\ z.cleanup.attempt = 0 /\ z.ids = s.ids
      /\ z.transport = s.transport /\ z.observed = s.observed /\ z.pendingEpoch = 0
  BY <1>2, <1>3, NoneTyped DEF ManagerType
<1> QED  BY <1>5, <1>6 DEF z

-----------------------------------------------------------------------------
(* Transport lifecycle and restart.                                        *)

(* Manager z is an owner s whose transport was lost.                       *)
Gone(s, z) ==
    \/ Abandons(s, z) /\ s.state = "Enabling" /\ ~s.pending.emitted
    \/ /\ Closes(s, z) /\ SameOperation(s.pending, z.pending)
       /\ z.pending.id # 0 => z.pending.invalidated
       /\ s.state = "Enabling" => s.pending.emitted
       /\ s.cleanup.attempt = 0 => s.state = "Enabling" /\ z.cleanup.target = s.target

LEMMA DisconnectFields ==
  ASSUME NEW s \in ManagerType, NEW w, s.held, Gate(s), Slot(s, w)
  PROVE  LET z == OnTransportDisconnect(s)
         IN  z \in ManagerType /\ z.observed = s.observed /\ Gone(s, z)
<1> DEFINE t == invalidatePending(s)
           enabling == t.pending.id # 0 /\ t.pending.kind = "enable"
           target == IF enabling THEN t.pending.target ELSE t.target
           source == IF enabling THEN t.pending.id ELSE 0
           z == OnTransportDisconnect(s)
<1>1. /\ t \in ManagerType /\ SameEpochs(s, t) /\ SameOperation(s.pending, t.pending)
      /\ t.pending.id # 0 => t.pending.invalidated
      /\ t.held = s.held /\ t.target = s.target
      /\ t.state = s.state /\ t.cleanup = s.cleanup /\ t.expiry = s.expiry
      /\ t.ids = s.ids /\ t.restarted = s.restarted
  BY InvalidFields
<1>2. z = IF unsentEnable(t) THEN cancelUnsentEnable(t)
          ELSE endSession(t, target, t.transport, source)
  BY DEF OnTransportDisconnect
<1> HIDE DEF t
<1>3. s.state \in Owning  BY DEF Gate
<1>4. s.cleanup.attempt = 0 => /\ s.state = "Enabling" /\ s.pending.id # 0
                               /\ s.pending.kind = "enable" /\ s.pending.target = s.target
  BY <1>3 DEF Slot, OwnedSlot, EnablingSlot, Owning
<1>5. CASE unsentEnable(t)
  <2>1. s.pending.id # 0 /\ s.pending.kind = "enable" /\ ~s.pending.emitted
    BY <1>1, <1>5 DEF unsentEnable, SameOperation
  <2>2. s.state = "Enabling"  BY <1>3, <2>1 DEF Slot, OwnedSlot, Owning
  <2>3. s.cleanup.attempt = 0 /\ s.transport = s.observed
    BY <2>1, <2>2 DEF Slot, EnablingSlot
  <2>4. z = cancelUnsentEnable(t)  BY <1>2, <1>5
  <2> HIDE DEF z
  <2>5. /\ z \in ManagerType /\ z.state = "Idle" /\ z.held = FALSE /\ z.timer = 0
        /\ z.expiry = t.expiry /\ z.restarted = t.restarted /\ z.pending.id = 0
        /\ z.cleanup.attempt = 0 /\ z.ids = t.ids
        /\ z.transport = t.transport /\ z.observed = t.observed /\ z.pendingEpoch = 0
    BY <1>1, <2>3, <2>4, CancelFields
  <2>6. Abandons(s, z) /\ z.observed = s.observed
    <3>1. 0 <= z.observed  BY <2>5 DEF ManagerType, Epochs
    <3> QED  BY <1>1, <2>3, <2>5, <3>1 DEF Abandons, SameEpochs
  <2> QED  BY <2>1, <2>2, <2>5, <2>6 DEF Gone, z
<1>6. CASE ~unsentEnable(t)
  <2>1. z = endSession(t, target, t.transport, source)  BY <1>2, <1>6
  <2>2. target \in Targets \cup {NoTarget} /\ source \in Nat /\ t.transport \in Epochs
    BY <1>1 DEF ManagerType, OperationType
  <2>3. s.state = "Enabling" => s.pending.emitted
    <3>1. s.state = "Enabling" => s.pending.id # 0 /\ s.pending.kind = "enable"
      BY DEF Slot, EnablingSlot
    <3> QED  BY <1>1, <1>6, <3>1 DEF unsentEnable, SameOperation
  <2>4. s.cleanup.attempt = 0 => target = s.target
    BY <1>1, <1>4 DEF SameOperation
  <2> HIDE DEF z, target, source
  <2>5. Ends(t, z, target)  BY <1>1, <2>1, <2>2, EndFields
  <2>5a. /\ z \in ManagerType /\ SameEpochs(t, z) /\ SameFlight(t, z)
         /\ z.timer = 0 /\ z.held = FALSE /\ z.state = "Disabled" /\ z.expiry = FALSE
         /\ z.cleanup.attempt # 0 /\ t.ids <= z.ids
         /\ t.cleanup.attempt # 0 => z.cleanup = t.cleanup
         /\ t.cleanup.attempt = 0 => z.cleanup.target = target
    BY <2>5 DEF Ends
  <2>6. Closes(s, z) /\ z.observed = s.observed
    BY <1>1, <2>5a DEF Closes, SameEpochs, SameFlight
  <2>7. SameOperation(s.pending, z.pending) /\ (z.pending.id # 0 => z.pending.invalidated)
    BY <1>1, <2>5a DEF SameFlight
  <2>8. s.cleanup.attempt = 0 => z.cleanup.target = s.target
    BY <1>1, <2>4, <2>5a
  <2> QED  BY <1>4, <2>3, <2>5a, <2>6, <2>7, <2>8 DEF Gone, z
<1> QED  BY <1>5, <1>6

LEMMA GoneKeeps ==
  ASSUME NEW s \in ManagerType, NEW z \in ManagerType, NEW w, NEW f,
         s.held, Gate(s), Slot(s, w), Gone(s, z)
  PROVE  Gate(z) /\ Bound(z) /\ Slot(z, w) /\ Watched(z, f)
<1>1. CASE Abandons(s, z) /\ s.state = "Enabling" /\ ~s.pending.emitted
  BY <1>1, AbandonKeeps DEF Watched, Abandons
<1>2. CASE /\ Closes(s, z) /\ SameOperation(s.pending, z.pending)
           /\ s.state = "Enabling" => s.pending.emitted
           /\ s.cleanup.attempt = 0 => s.state = "Enabling" /\ z.cleanup.target = s.target
  <2>1. ~s.restarted  BY DEF Gate, Owning
  <2>2. s.cleanup.attempt = 0 => z.cleanup.target \in Targets /\ w = Enabled(z.cleanup.target)
    BY <1>2 DEF Slot, EnablingSlot
  <2> QED  BY <1>2, <2>1, <2>2, CloseKeeps DEF Watched, Closes
<1> QED  BY <1>1, <1>2 DEF Gone

LEMMA GoneWorker ==
  ASSUME NEW s \in ManagerType, NEW z \in ManagerType, NEW w, NEW mu, NEW p, NEW q \in ProcType,
         s.held, Gate(s), Gone(s, z), z.observed = s.observed, Worker(p, q, s, w, mu)
  PROVE  Worker(p, q, z, w, mu)
<1>0. s.state # "Disabled"  BY DEF Gate, Owning
<1>1. s.ids \in Nat /\ z.ids \in Nat /\ q.op \in Nat
  BY DEF ManagerType, ProcType
<1>2. s.ids <= z.ids  BY <1>1 DEF Gone, Abandons, Closes
<1>3. Places(p, q, z)  BY <1>1, <1>2 DEF Worker, Places
<1>4. Cleans(q, z, w)  BY <1>0 DEF Worker, Cleans
<1>5. CASE Abandons(s, z) /\ s.state = "Enabling" /\ ~s.pending.emitted
  <2>1. ~Mine(q, z)  BY <1>5 DEF Abandons, Mine
  <2>2. q.pc # "send"  BY <1>5 DEF Worker, Sending, Carries
  <2> QED  BY <1>3, <1>4, <2>1, <2>2 DEF Worker, Carries, Timely, Sending
<1>6. CASE /\ Closes(s, z) /\ SameOperation(s.pending, z.pending)
           /\ z.pending.id # 0 => z.pending.invalidated
  <2>1. Mine(q, z) <=> Mine(q, s)  BY <1>6 DEF Mine, SameOperation
  <2>2. Carries(q, z)
    BY <1>6, <2>1 DEF Worker, Carries, SameOperation, Closes
  <2>3. Timely(q, z)  BY <1>6 DEF Timely, Mine
  <2>4. Sending(p, q, z, mu)  BY <1>6 DEF Worker, Sending, Closes
  <2> QED  BY <1>3, <1>4, <2>2, <2>3, <2>4 DEF Worker
<1> QED  BY <1>5, <1>6 DEF Gone

LEMMA RestartFields ==
  ASSUME NEW s \in ManagerType
  PROVE  LET z == ResetForRestart(s)
         IN  /\ z \in ManagerType /\ z.state = "Disabled" /\ z.held = FALSE /\ z.timer = 0
             /\ z.expiry = FALSE /\ z.restarted /\ z.pending.id = 0 /\ z.cleanup.attempt = 0
             /\ z.ids = s.ids /\ z.observed = s.observed
<1> DEFINE d == toDisabledLocked(s)
           z == ResetForRestart(s)
<1>1. /\ d \in ManagerType /\ d.observed = s.observed /\ d.timer = 0 /\ d.held = FALSE
      /\ d.state = "Disabled" /\ d.expiry = FALSE /\ d.ids = s.ids
  BY DisabledFields DEF SameEpochs
<1>2. z = [d EXCEPT !.pending = NoOperation, !.cleanup = NoCleanup,
                    !.pendingEpoch = 0, !.restarted = TRUE]
  BY DEF ResetForRestart
<1> HIDE DEF d, z
<1>3. 0 \in Epochs  BY SessionAssumption DEF Epochs
<1>4. z \in ManagerType  BY <1>1, <1>2, <1>3, NoneTyped DEF ManagerType
<1>5. /\ z.state = "Disabled" /\ z.held = FALSE /\ z.timer = 0
      /\ z.expiry = FALSE /\ z.restarted /\ z.pending.id = 0 /\ z.cleanup.attempt = 0
      /\ z.ids = s.ids /\ z.observed = s.observed
  BY <1>1, <1>2, NoneTyped DEF ManagerType
<1> QED  BY <1>4, <1>5 DEF z

(* Manager z is manager s told of a newer transport epoch.                 *)
Told(s, z) ==
    /\ z.state = s.state /\ z.held = s.held /\ z.timer = s.timer /\ z.gen = s.gen
    /\ z.expiry = s.expiry /\ z.restarted = s.restarted /\ z.ids = s.ids
    /\ z.target = s.target /\ z.cleanup = s.cleanup /\ SameOperation(s.pending, z.pending)
    /\ z.pending.id # 0 => z.pending.invalidated
    /\ s.state = "Enabling" => s.pending.emitted
    /\ s.held => /\ z.pendingEpoch = z.observed /\ z.transport = s.transport
                 /\ s.observed <= z.observed
    /\ ~s.held => z.transport = z.observed /\ z.pendingEpoch <= z.observed

LEMMA AdvanceFields ==
  ASSUME NEW s \in ManagerType, NEW w, NEW epoch \in Epochs, epoch > s.observed,
         Gate(s), Slot(s, w)
  PROVE  LET z == OnEpochAdvance(s, epoch)
         IN  /\ z \in ManagerType
             /\ \/ Abandons(s, z) /\ s.state = "Enabling" /\ ~s.pending.emitted
                \/ Told(s, z)
<1> DEFINE i == invalidatePending(s)
           t == [i EXCEPT !.observed = epoch]
           z == OnEpochAdvance(s, epoch)
<1>1. /\ i \in ManagerType /\ SameEpochs(s, i) /\ SameOperation(s.pending, i.pending)
      /\ i.pending.id # 0 => i.pending.invalidated
      /\ i.timer = s.timer /\ i.gen = s.gen /\ i.held = s.held /\ i.target = s.target
      /\ i.state = s.state /\ i.cleanup = s.cleanup /\ i.expiry = s.expiry
      /\ i.ids = s.ids /\ i.restarted = s.restarted
  BY InvalidFields
<1>2. z = IF t.state = "Enabling" /\ unsentEnable(t)
          THEN [cancelUnsentEnable(t) EXCEPT !.transport = epoch]
          ELSE IF t.held THEN [t EXCEPT !.pendingEpoch = epoch]
          ELSE [t EXCEPT !.transport = epoch, !.pendingEpoch = 0]
  BY DEF OnEpochAdvance
<1> HIDE DEF i
<1>3. /\ t \in ManagerType /\ SameOperation(s.pending, t.pending) /\ t.transport = s.transport
      /\ t.pending.id # 0 => t.pending.invalidated
      /\ t.timer = s.timer /\ t.gen = s.gen /\ t.held = s.held /\ t.target = s.target
      /\ t.state = s.state /\ t.cleanup = s.cleanup /\ t.expiry = s.expiry
      /\ t.ids = s.ids /\ t.restarted = s.restarted /\ t.observed = epoch
  BY <1>1 DEF ManagerType, SameEpochs
<1> HIDE DEF t
<1>4. CASE t.state = "Enabling" /\ unsentEnable(t)
  <2> DEFINE c == cancelUnsentEnable(t)
  <2>1. s.state = "Enabling" /\ ~s.pending.emitted
    BY <1>3, <1>4 DEF unsentEnable, SameOperation
  <2>2. s.cleanup.attempt = 0  BY <2>1 DEF Slot, EnablingSlot
  <2>3. z = [c EXCEPT !.transport = epoch]  BY <1>2, <1>4
  <2>4. /\ c \in ManagerType /\ c.state = "Idle" /\ c.held = FALSE /\ c.timer = 0
        /\ c.expiry = t.expiry /\ c.restarted = t.restarted /\ c.pending.id = 0
        /\ c.cleanup.attempt = 0 /\ c.ids = t.ids /\ c.observed = t.observed
        /\ c.pendingEpoch = 0
    BY <1>3, <2>2, CancelFields
  <2> HIDE DEF c, z
  <2>5. z \in ManagerType  BY <2>3, <2>4 DEF ManagerType
  <2>6. Abandons(s, z)
    <3>1. /\ z.transport = epoch /\ z.observed = epoch /\ z.pendingEpoch = 0
      BY <1>3, <2>3, <2>4 DEF ManagerType
    <3>2. 0 <= epoch  BY DEF Epochs
    <3> QED  BY <1>3, <2>3, <2>4, <3>1, <3>2 DEF ManagerType, Abandons
  <2> QED  BY <2>1, <2>5, <2>6 DEF z
<1>5. CASE ~(t.state = "Enabling" /\ unsentEnable(t))
  <2>1. s.state = "Enabling" => s.pending.emitted
    <3>1. s.state = "Enabling" => s.pending.id # 0 /\ s.pending.kind = "enable"
      BY DEF Slot, EnablingSlot
    <3> QED  BY <1>3, <1>5, <3>1 DEF unsentEnable, SameOperation
  <2>2. 0 \in Epochs  BY SessionAssumption DEF Epochs
  <2>3. s.observed \in Int /\ epoch \in Int /\ s.observed <= epoch
    BY DEF ManagerType, Epochs
  <2>4. z = IF t.held THEN [t EXCEPT !.pendingEpoch = epoch]
            ELSE [t EXCEPT !.transport = epoch, !.pendingEpoch = 0]
    BY <1>2, <1>5
  <2> HIDE DEF z
  <2>5. z \in ManagerType  BY <1>3, <2>2, <2>4 DEF ManagerType
  <2>6. /\ z.state = s.state /\ z.held = s.held /\ z.timer = s.timer /\ z.gen = s.gen
        /\ z.expiry = s.expiry /\ z.restarted = s.restarted /\ z.ids = s.ids
        /\ z.target = s.target /\ z.cleanup = s.cleanup /\ z.pending = t.pending
        /\ z.observed = epoch
    BY <1>3, <2>4 DEF ManagerType
  <2>7. /\ s.held => z.pendingEpoch = epoch /\ z.transport = s.transport
        /\ ~s.held => z.transport = epoch /\ z.pendingEpoch = 0
    BY <1>3, <2>4 DEF ManagerType
  <2>8. Told(s, z)
    <3>1. 0 <= epoch  BY DEF Epochs
    <3> QED  BY <1>3, <2>1, <2>3, <2>6, <2>7, <3>1 DEF Told
  <2> QED  BY <2>5, <2>8 DEF z
<1> QED  BY <1>4, <1>5

LEMMA ToldKeeps ==
  ASSUME NEW s \in ManagerType, NEW z \in ManagerType, NEW w, NEW f,
         Gate(s), Bound(s), Slot(s, w), Watched(s, f), Told(s, z)
  PROVE  Gate(z) /\ Bound(z) /\ Slot(z, w) /\ Watched(z, f)
<1> USE DEF Told
<1>1. Gate(z)  BY DEF Gate, SameOperation
<1>2. Bound(z)
  <2>1. s.transport \in Int /\ s.observed \in Int /\ z.observed \in Int
    BY DEF ManagerType, Epochs
  <2> QED  BY <2>1 DEF Bound
<1>3. IdleSlot(z, w)
  BY DEF Slot, IdleSlot, SameOperation, Gate, Owning
<1>4. EnablingSlot(z, w)
  BY DEF Slot, EnablingSlot, SameOperation, Gate, Owning
<1>5. OwnedSlot(z, w)
  BY DEF Slot, OwnedSlot, SameOperation, EndSent
<1>6. ClosedSlot(z, w) /\ ObligedSlot(z, w)
  BY DEF Slot, ClosedSlot, ObligedSlot, SameOperation
<1>7. Watched(z, f)  BY DEF Watched, SameOperation
<1> QED  BY <1>1, <1>2, <1>3, <1>4, <1>5, <1>6, <1>7 DEF Slot

LEMMA ToldWorker ==
  ASSUME NEW s \in ManagerType, NEW z \in ManagerType, NEW w, NEW p \in Procs, NEW q \in ProcType,
         Told(s, z) \/ (Abandons(s, z) /\ s.state = "Enabling"), Worker(p, q, s, w, NoProc)
  PROVE  Worker(p, q, z, w, NoProc)
<1>1. Places(p, q, z)  BY DEF Worker, Places, Told, Abandons
<1>2. q.pc # "send"  BY SessionAssumption DEF Worker, Sending
<1>3. CASE Told(s, z)
  <2>1. Mine(q, z) <=> Mine(q, s)  BY <1>3 DEF Mine, SameOperation, Told
  <2>2. Carries(q, z)
    BY <1>3, <2>1 DEF Worker, Carries, SameOperation, Told
  <2>3. Timely(q, z)  BY <1>3 DEF Timely, Mine, Told
  <2>4. Cleans(q, z, w)  BY <1>3 DEF Worker, Cleans, Told, SameOperation
  <2> QED  BY <1>1, <1>2, <2>2, <2>3, <2>4 DEF Worker, Sending
<1>4. CASE Abandons(s, z) /\ s.state = "Enabling"
  <2>1. ~Mine(q, z)  BY <1>4 DEF Abandons, Mine
  <2> QED  BY <1>1, <1>2, <1>4, <2>1 DEF Worker, Carries, Timely, Sending, Cleans
<1> QED  BY <1>3, <1>4

LEMMA RestartKeeps ==
  ASSUME NEW s \in ManagerType, NEW z \in ManagerType, NEW w, NEW f, Slot(s, w),
         z.state = "Disabled", z.held = FALSE, z.timer = 0, z.expiry = FALSE,
         z.restarted, z.pending.id = 0, z.cleanup.attempt = 0
  PROVE  Gate(z) /\ Bound(z) /\ Slot(z, w) /\ Watched(z, f)
<1>1. z.ids \in Nat  BY DEF ManagerType
<1>2. Gate(z)  BY <1>1 DEF Gate, Owning
<1>3. Bound(z) /\ Watched(z, f)  BY DEF Bound, Watched
<1>4. Slot(z, w)
  BY DEF Slot, IdleSlot, EnablingSlot, OwnedSlot, ClosedSlot, ObligedSlot
<1> QED  BY <1>2, <1>3, <1>4

LEMMA RestartWorker ==
  ASSUME NEW s \in ManagerType, NEW z \in ManagerType, NEW w, NEW mu, NEW p, NEW q \in ProcType,
         z.state = "Disabled", z.pending.id = 0, z.ids = s.ids, z.observed = s.observed,
         Worker(p, q, s, w, mu)
  PROVE  Worker(p, q, z, w, mu)
<1>1. ~Mine(q, z)  BY DEF Mine
<1>2. Places(p, q, z)  BY DEF Worker, Places
<1> QED  BY <1>1, <1>2 DEF Worker, Carries, Timely, Sending, Cleans

-----------------------------------------------------------------------------
(* The lifecycle actions.                                                  *)

LEMMA ActivatedStep ==
  ASSUME SessionInv, NEW epoch \in Epochs, EBusDriverActivated(epoch)
  PROVE  SessionInv' /\ Steady(m, m')
<1>1. /\ m \in ManagerType /\ proc \in [Procs -> ProcType] /\ emissionMu = NoProc
      /\ Gate(m) /\ Bound(m) /\ Slot(m, wire) /\ Watched(m, proc) /\ Apart(proc)
      /\ Workers(proc, m, wire, NoProc) /\ epoch > m.observed
      /\ m' = OnEpochAdvance(m, epoch) /\ UNCHANGED <<emissionMu, proc, wire>>
  BY DEF SessionInv, TypeOK, EBusDriverActivated
<1>2. /\ m' \in ManagerType
      /\ \/ Abandons(m, m') /\ m.state = "Enabling" /\ ~m.pending.emitted
         \/ Told(m, m')
  BY <1>1, AdvanceFields
<1>3. Gate(m') /\ Bound(m') /\ Slot(m', wire) /\ Watched(m', proc)
  <2>1. CASE Told(m, m')  BY <1>1, <1>2, <2>1, ToldKeeps
  <2>2. CASE Abandons(m, m') /\ m.state = "Enabling" /\ ~m.pending.emitted
    BY <1>1, <1>2, <2>2, AbandonKeeps DEF Watched, Abandons
  <2> QED  BY <1>2, <2>1, <2>2
<1>4. Workers(proc, m', wire, NoProc)
  <2> SUFFICES ASSUME NEW p \in Procs  PROVE Worker(p, proc[p], m', wire, NoProc)
    BY DEF Workers
  <2>1. Worker(p, proc[p], m, wire, NoProc) /\ proc[p] \in ProcType  BY <1>1 DEF Workers
  <2> QED  BY <1>1, <1>2, <2>1, ToldWorker
<1>5. Steady(m, m')  BY <1>2 DEF Steady, Told, Abandons
<1> QED  BY <1>1, <1>2, <1>3, <1>4, <1>5 DEF SessionInv, TypeOK

LEMMA WithdrawnStep ==
  ASSUME SessionInv, EBusDriverWithdrawn
  PROVE  SessionInv' /\ Steady(m, m')
<1>1. /\ m \in ManagerType /\ proc \in [Procs -> ProcType] /\ m.held
      /\ Gate(m) /\ Slot(m, wire) /\ Apart(proc)
      /\ Workers(proc, m, wire, emissionMu)
      /\ m' = OnTransportDisconnect(m) /\ UNCHANGED <<emissionMu, proc, wire>>
  BY DEF SessionInv, TypeOK, EBusDriverWithdrawn
<1>2. m' \in ManagerType /\ m'.observed = m.observed /\ Gone(m, m')
  BY <1>1, DisconnectFields
<1>3. Gate(m') /\ Bound(m') /\ Slot(m', wire) /\ Watched(m', proc)
  BY <1>1, <1>2, GoneKeeps
<1>4. Workers(proc, m', wire, emissionMu)
  <2> SUFFICES ASSUME NEW p \in Procs  PROVE Worker(p, proc[p], m', wire, emissionMu)
    BY DEF Workers
  <2>1. Worker(p, proc[p], m, wire, emissionMu) /\ proc[p] \in ProcType  BY <1>1 DEF Workers
  <2> QED  BY <1>1, <1>2, <2>1, GoneWorker
<1>5. Steady(m, m')  BY <1>2 DEF Steady, Gone, Closes, Abandons
<1> QED  BY <1>1, <1>2, <1>3, <1>4, <1>5 DEF SessionInv, TypeOK

LEMMA RestartStep ==
  ASSUME SessionInv, Restart
  PROVE  SessionInv'
<1>1. /\ m \in ManagerType /\ proc \in [Procs -> ProcType]
      /\ Gate(m) /\ Slot(m, wire) /\ Apart(proc) /\ Workers(proc, m, wire, emissionMu)
      /\ m' = ResetForRestart(m) /\ UNCHANGED <<emissionMu, proc, wire>>
  BY DEF SessionInv, TypeOK, Restart
<1>2. /\ m' \in ManagerType /\ m'.state = "Disabled" /\ m'.held = FALSE /\ m'.timer = 0
      /\ m'.expiry = FALSE /\ m'.restarted /\ m'.pending.id = 0 /\ m'.cleanup.attempt = 0
      /\ m'.ids = m.ids /\ m'.observed = m.observed
  BY <1>1, RestartFields
<1>3. Gate(m') /\ Bound(m') /\ Slot(m', wire) /\ Watched(m', proc)
  BY <1>1, <1>2, RestartKeeps
<1>4. Workers(proc, m', wire, emissionMu)
  <2> SUFFICES ASSUME NEW p \in Procs  PROVE Worker(p, proc[p], m', wire, emissionMu)
    BY DEF Workers
  <2>1. Worker(p, proc[p], m, wire, emissionMu) /\ proc[p] \in ProcType  BY <1>1 DEF Workers
  <2> QED  BY <1>1, <1>2, <2>1, RestartWorker
<1> QED  BY <1>1, <1>2, <1>3, <1>4 DEF SessionInv, TypeOK

-----------------------------------------------------------------------------
(* The dispatcher.                                                         *)

LEMMA FiredKept ==
  ASSUME NEW f, NEW g, NEW p \in Procs, NEW n, Only(p, f, g), Fired(f, n),
         f[p].pc # "fired" \/ f[p].gen # n
  PROVE  Fired(g, n)
  BY DEF Only, Fired, Procs

LEMMA ProcStep ==
  ASSUME SessionInv, NEW p \in Procs, UNCHANGED <<m, emissionMu, wire>>,
         proc' \in [Procs -> ProcType], Only(p, proc, proc'),
         Worker(p, proc'[p], m, wire, emissionMu),
         proc'[p].op = 0 \/ proc'[p].op = proc[p].op,
         proc'[p].pc # "cleanup", proc[p].pc # "fired"
  PROVE  SessionInv' /\ Steady(m, m')
<1>1. /\ m \in ManagerType /\ proc \in [Procs -> ProcType]
      /\ Apart(proc) /\ Workers(proc, m, wire, emissionMu) /\ Watched(m, proc)
  BY DEF SessionInv, TypeOK
<1>2. Workers(proc', m, wire, emissionMu)
  <2>1. m.ids <= m.ids  BY <1>1 DEF ManagerType
  <2> QED  BY <1>1, <2>1, QuietWorkers
<1>3. Apart(proc')  BY <1>1, ApartKept
<1>4. Watched(m, proc')  BY <1>1, FiredKept DEF Watched
<1> QED  BY <1>2, <1>3, <1>4 DEF SessionInv, TypeOK, Steady

LEMMA FinishTyped ==
  ASSUME proc \in [Procs -> ProcType], NEW p \in Procs, Finish(p)
  PROVE  /\ proc' \in [Procs -> ProcType] /\ Only(p, proc, proc') /\ proc'[p] = IdleProc
  BY NoneTyped DEF Finish, Only

LEMMA FinishStep ==
  ASSUME SessionInv, NEW p \in Procs, UNCHANGED <<m, emissionMu, wire>>, Finish(p),
         proc[p].pc # "fired"
  PROVE  SessionInv' /\ Steady(m, m')
<1>1. /\ proc' \in [Procs -> ProcType] /\ Only(p, proc, proc') /\ proc'[p] = IdleProc
  BY FinishTyped DEF SessionInv, TypeOK
<1>2. proc'[p].op = 0 /\ proc'[p].pc # "cleanup"  BY <1>1 DEF IdleProc
<1> QED  BY <1>1, <1>2, ProcStep, WorkerIdle

LEMMA AbandonedStep ==
  ASSUME SessionInv, NEW p \in Procs, RefreshAbandoned(p) \/ OutcomeAbandoned(p)
  PROVE  SessionInv' /\ Steady(m, m')
  BY FinishStep DEF RefreshAbandoned, OutcomeAbandoned, At

(* The fields of a goroutine that goes on with its operation.              *)
GoesOn(x, y, pc) ==
    /\ y \in ProcType /\ y.pc = pc /\ y.op = x.op /\ y.kind = x.kind /\ y.target = x.target

LEMMA IssueStep ==
  ASSUME SessionInv, NEW p \in Procs, IssueRequest(p)
  PROVE  SessionInv' /\ Steady(m, m')
<1> DEFINE x == proc[p]  y == proc'[p]
<1>1. /\ m \in ManagerType /\ proc \in [Procs -> ProcType] /\ m.transport \in Epochs
      /\ Worker(p, x, m, wire, emissionMu) /\ x.pc = "issue"
      /\ UNCHANGED <<m, emissionMu, wire>>
      /\ proc' = [proc EXCEPT ![p].pc = "queued", ![p].issue = m.transport]
  BY DEF SessionInv, TypeOK, Workers, IssueRequest, At, ManagerType
<1>2. proc' \in [Procs -> ProcType] /\ Only(p, proc, proc')
  <2> DEFINE z == [x EXCEPT !.pc = "queued", !.issue = m.transport]
  <2>1. z \in ProcType  BY <1>1 DEF ProcType
  <2>2. proc' = [proc EXCEPT ![p] = z]  BY <1>1
  <2> HIDE DEF z
  <2> QED  BY <1>1, <2>1, <2>2 DEF Only
<1>3. GoesOn(x, y, "queued") /\ y.issue = m.transport
  BY <1>1, <1>2 DEF GoesOn, ProcType
<1> HIDE DEF x, y
<1>4. Places(p, y, m) /\ Sending(p, y, m, emissionMu) /\ Cleans(y, m, wire)
  BY <1>1, <1>3 DEF Worker, Places, Sending, Cleans, GoesOn, Working
<1>5. Mine(y, m) <=> Mine(x, m)  BY <1>3 DEF Mine, GoesOn
<1>6. Carries(y, m)  BY <1>1, <1>3, <1>5 DEF Worker, Carries, GoesOn
<1>7. Timely(y, m)  BY <1>1, <1>3, <1>5 DEF Worker, Timely, GoesOn
<1>8. Worker(p, y, m, wire, emissionMu)  BY <1>4, <1>6, <1>7 DEF Worker
<1>9. y.op = x.op /\ y.pc # "cleanup" /\ x.pc # "fired"  BY <1>1, <1>3 DEF GoesOn
<1> QED  BY <1>1, <1>2, <1>8, <1>9, ProcStep DEF x, y

(* A goroutine of whose frame the dispatcher now tells the outcome out.    *)
LEMMA OutcomeStep ==
  ASSUME SessionInv, NEW p \in Procs, NEW out \in Outcomes, NEW pc \in {"done", "disconnect"},
         proc' = [proc EXCEPT ![p].pc = pc, ![p].out = out],
         UNCHANGED <<m, emissionMu, wire>>,
         \/ proc[p].pc = "queued" /\ ~Emitted(out)
         \/ proc[p].pc = "sent" /\ Emitted(out)
  PROVE  SessionInv' /\ Steady(m, m')
<1> DEFINE x == proc[p]  y == proc'[p]
<1>1. /\ m \in ManagerType /\ proc \in [Procs -> ProcType]
      /\ Worker(p, x, m, wire, emissionMu) /\ x.pc \in {"queued", "sent"}
  BY DEF SessionInv, TypeOK, Workers
<1>2. proc' \in [Procs -> ProcType] /\ Only(p, proc, proc')
  <2> DEFINE z == [x EXCEPT !.pc = pc, !.out = out]
  <2>1. z \in ProcType  BY <1>1 DEF ProcType
  <2>2. proc' = [proc EXCEPT ![p] = z]  BY <1>1
  <2> HIDE DEF z
  <2> QED  BY <1>1, <2>1, <2>2 DEF Only
<1>3. GoesOn(x, y, pc) /\ y.out = out
  BY <1>1, <1>2 DEF GoesOn, ProcType
<1>4. \/ x.pc = "queued" /\ ~Emitted(out)
      \/ x.pc = "sent" /\ Emitted(out)
  OBVIOUS
<1> HIDE DEF x, y
<1>5. Places(p, y, m) /\ Sending(p, y, m, emissionMu) /\ Cleans(y, m, wire) /\ Timely(y, m)
  BY <1>1, <1>3 DEF Worker, Places, Sending, Cleans, GoesOn, Working, Timely
<1>6. Mine(y, m) <=> Mine(x, m)  BY <1>3 DEF Mine, GoesOn
<1>7. Carries(y, m)
  <2>1. m.pending.emitted \in BOOLEAN /\ Emitted(out) \in BOOLEAN
    BY <1>1 DEF ManagerType, OperationType, Emitted
  <2> QED  BY <1>1, <1>3, <1>4, <1>6, <2>1 DEF Worker, Carries, GoesOn
<1>8. Worker(p, y, m, wire, emissionMu)  BY <1>5, <1>7 DEF Worker
<1>9. y.op = x.op /\ y.pc # "cleanup" /\ x.pc # "fired"  BY <1>1, <1>3 DEF GoesOn
<1> QED  BY <1>2, <1>8, <1>9, ProcStep DEF x, y

LEMMA RefusedStep ==
  ASSUME SessionInv, NEW p \in Procs,
         SourceNotAdmitted(p) \/ ContextExpires(p) \/ EmissionRefused(p)
  PROVE  SessionInv' /\ Steady(m, m')
<1>1. "down" \in Outcomes /\ "timeout" \in Outcomes /\ ~Emitted("down") /\ ~Emitted("timeout")
  BY DEF Outcomes, Emitted
<1>2. CASE SourceNotAdmitted(p)  BY <1>1, <1>2, OutcomeStep DEF SourceNotAdmitted, At
<1>3. CASE ContextExpires(p)  BY <1>1, <1>3, OutcomeStep DEF ContextExpires, At
<1>4. CASE EmissionRefused(p)  BY <1>1, <1>4, OutcomeStep DEF EmissionRefused, At
<1> QED  BY <1>2, <1>3, <1>4

LEMMA ClassifyStep ==
  ASSUME SessionInv, NEW p \in Procs, NEW out \in Outcomes, classifySendErr(p, out)
  PROVE  SessionInv' /\ Steady(m, m')
<1>1. proc[p].pc = "sent" /\ UNCHANGED <<m, emissionMu, wire>>
  BY DEF classifySendErr, At
<1>2. PICK pc \in {"done", "disconnect"} : proc' = [proc EXCEPT ![p].pc = pc, ![p].out = out]
  BY DEF classifySendErr
<1>3. Emitted(proc[p].out)
  BY <1>1 DEF SessionInv, Workers, Worker, Places
<1>4. Emitted(out)
  BY <1>3 DEF classifySendErr, Emitted
<1> QED  BY <1>1, <1>2, <1>4, OutcomeStep

(* A change of a goroutine's fields keeps the others and the types.        *)
LEMMA GotoTyped ==
  ASSUME proc \in [Procs -> ProcType], NEW p \in Procs, NEW pc, Goto(p, pc),
         [proc[p] EXCEPT !.pc = pc] \in ProcType
  PROVE  /\ proc' \in [Procs -> ProcType] /\ Only(p, proc, proc')
         /\ proc'[p] = [proc[p] EXCEPT !.pc = pc]
<1> DEFINE z == [proc[p] EXCEPT !.pc = pc]
<1>1. proc' = [proc EXCEPT ![p] = z]  BY DEF Goto
<1>2. z \in ProcType  OBVIOUS
<1> HIDE DEF z
<1>3. proc' \in [Procs -> ProcType] /\ Only(p, proc, proc') /\ proc'[p] = z
  BY <1>1, <1>2 DEF Only
<1> QED  BY <1>3 DEF z

LEMMA EmissionStep ==
  ASSUME SessionInv, NEW p \in Procs, BeginPendingEmission(p)
  PROVE  SessionInv' /\ Steady(m, m')
<1> DEFINE x == proc[p]  y == proc'[p]
           o == [m.pending EXCEPT !.emitted = TRUE]
<1>1. /\ m \in ManagerType /\ proc \in [Procs -> ProcType] /\ emissionMu = NoProc
      /\ Gate(m) /\ Bound(m) /\ Slot(m, wire) /\ Watched(m, proc) /\ Apart(proc)
      /\ Workers(proc, m, wire, NoProc) /\ Worker(p, x, m, wire, NoProc)
      /\ x \in ProcType /\ m.pending \in OperationType
      /\ wire \in Seq([kind : {"enable", "disable"}, target : Targets])
  BY DEF SessionInv, TypeOK, BeginPendingEmission, Workers, ManagerType
<1>2. /\ x.pc = "queued" /\ x.op = m.pending.id /\ ~m.pending.invalidated
      /\ m.pending.target = x.target /\ emissionMu' = p
      /\ m' = [m EXCEPT !.pending = o] /\ Goto(p, "send")
      /\ wire' = IF m.pending.kind = "read" THEN wire
                 ELSE Append(wire, [kind |-> m.pending.kind, target |-> x.target])
  BY <1>1 DEF BeginPendingEmission, admitPendingEmissionLocked, Current, At, ManagerType
<1>3. /\ o \in OperationType /\ o.emitted /\ o.id = m.pending.id /\ o.kind = m.pending.kind
      /\ o.target = m.pending.target /\ o.epoch = m.pending.epoch
      /\ o.cleanup = m.pending.cleanup /\ o.invalidated = m.pending.invalidated
  BY <1>1 DEF OperationType
<1> HIDE DEF o
<1>4. /\ m' \in ManagerType /\ m'.pending = o /\ SameEpochs(m, m')
      /\ m'.state = m.state /\ m'.held = m.held /\ m'.timer = m.timer /\ m'.gen = m.gen
      /\ m'.expiry = m.expiry /\ m'.restarted = m.restarted /\ m'.ids = m.ids
      /\ m'.target = m.target /\ m'.cleanup = m.cleanup
  BY <1>1, <1>2, <1>3 DEF ManagerType, SameEpochs
<1>5. /\ proc' \in [Procs -> ProcType] /\ Only(p, proc, proc') /\ GoesOn(x, y, "send")
      /\ y.issue = x.issue
  <2>1. [proc[p] EXCEPT !.pc = "send"] \in ProcType  BY <1>1 DEF ProcType
  <2>2. proc' \in [Procs -> ProcType] /\ Only(p, proc, proc') /\ y = [x EXCEPT !.pc = "send"]
    BY <1>1, <1>2, <2>1, GotoTyped
  <2> QED  BY <1>1, <2>2 DEF ProcType, GoesOn
<1>6. Mine(x, m) /\ x.op # 0 /\ x.target \in Targets /\ ~m.pending.emitted
  BY <1>1, <1>2 DEF Worker, Places, Carries, Working, Mine
<1>7. m.pending.cleanup => m.pending.kind = "disable" /\ m.state = "Disabled"
  BY <1>1, <1>6 DEF Slot, IdleSlot, EnablingSlot, OwnedSlot, ClosedSlot, Mine, ManagerType, States
<1> HIDE DEF x, y
<1>8. Gate(m') /\ Bound(m')
  BY <1>1, <1>3, <1>4 DEF Gate, Bound, SameEpochs
<1>9. Watched(m', proc')
  BY <1>1, <1>2, <1>3, <1>4, <1>5, FiredKept DEF Watched, x
<1>10. Slot(m', wire') /\ wire' \in Seq([kind : {"enable", "disable"}, target : Targets])
  <2>1. CASE m.pending.kind = "enable"
    <3>1. m.state = "Enabling"
      BY <1>7, <2>1 DEF BeginPendingEmission, admitPendingEmissionLocked
    <3>2. wire = <<>> /\ x.target = m.target /\ m.target \in Targets
      BY <1>1, <1>2, <1>6, <3>1 DEF Slot, EnablingSlot
    <3>3. wire' = Enabled(m.target)  BY <1>2, <2>1, <3>2, WireFacts
    <3>4. EnablingSlot(m', wire')
      BY <1>1, <1>3, <1>4, <3>1, <3>3 DEF Slot, EnablingSlot, SameEpochs
    <3>5. ObligedSlot(m', wire')
      BY <1>1, <1>4, <3>1 DEF Slot, EnablingSlot, ObligedSlot
    <3>6. Logged(wire')  BY <3>2, <3>3 DEF Logged
    <3> QED  BY <1>4, <3>1, <3>2, <3>3, <3>4, <3>5, <3>6, WireTyped
             DEF Slot, IdleSlot, OwnedSlot, ClosedSlot
  <2>2. CASE m.pending.kind = "read"
    <3>1. m.state = "Active"
      BY <1>7, <2>2 DEF BeginPendingEmission, admitPendingEmissionLocked
    <3>2. wire' = wire  BY <1>2, <2>2
    <3>3. OwnedSlot(m', wire')
      BY <1>1, <1>3, <1>4, <2>2, <3>1, <3>2 DEF Slot, OwnedSlot, EndSent
    <3>4. ObligedSlot(m', wire') /\ Logged(wire')
      BY <1>1, <1>4, <3>2 DEF Slot, ObligedSlot
    <3> QED  BY <1>1, <1>4, <3>1, <3>2, <3>3, <3>4
             DEF Slot, IdleSlot, EnablingSlot, ClosedSlot
  <2>3. CASE m.pending.kind = "disable" /\ m.pending.cleanup
    <3>1. m.state = "Disabled"  BY <1>7, <2>3
    <3>2. wire = Enabled(x.target) /\ m.cleanup.attempt # 0
      BY <1>1, <1>2, <1>6, <2>3, <3>1 DEF Slot, ClosedSlot, Mine
    <3>3. wire' = Disabled(x.target)  BY <1>2, <2>3, <3>2, WireFacts
    <3>4. m.cleanup.target = x.target
      <4>1. wire = Enabled(m.cleanup.target) \/ wire = Disabled(m.cleanup.target)
        BY <1>1, <3>2 DEF Slot, ObligedSlot
      <4> QED  BY <3>2, <4>1, WireFacts
    <3>5. ObligedSlot(m', wire') /\ Logged(wire')
      BY <1>4, <1>6, <3>3, <3>4 DEF ObligedSlot, Logged
    <3>6. ClosedSlot(m', wire')
      BY <1>2, <1>3, <1>4, <1>6, <2>3, <3>2 DEF ClosedSlot
    <3> QED  BY <1>4, <1>6, <3>1, <3>3, <3>5, <3>6, WireTyped
             DEF Slot, IdleSlot, EnablingSlot, OwnedSlot
  <2>4. CASE m.pending.kind = "disable" /\ ~m.pending.cleanup
    <3>1. m.state = "Active"
      BY <2>4 DEF BeginPendingEmission, admitPendingEmissionLocked
    <3>2. wire = Enabled(m.target) /\ x.target = m.target /\ m.target = m.cleanup.target
      BY <1>1, <1>2, <1>6, <3>1 DEF Slot, OwnedSlot, EndSent, Mine
    <3>3. wire' = Disabled(m.target)  BY <1>2, <2>4, <3>2, WireFacts
    <3>4. OwnedSlot(m', wire')
      BY <1>1, <1>3, <1>4, <1>6, <2>4, <3>1, <3>3 DEF Slot, OwnedSlot, EndSent, Mine
    <3>5. ObligedSlot(m', wire') /\ Logged(wire')
      BY <1>4, <1>6, <3>2, <3>3 DEF ObligedSlot, Logged
    <3> QED  BY <1>4, <1>6, <3>1, <3>2, <3>3, <3>4, <3>5, WireTyped
             DEF Slot, IdleSlot, EnablingSlot, ClosedSlot
  <2>5. m.pending.kind \in {"enable", "read", "disable"} /\ m.pending.cleanup \in BOOLEAN
    BY <1>1 DEF OperationType, Kinds
  <2> QED  BY <2>1, <2>2, <2>3, <2>4, <2>5
<1>11. Workers(proc', m', wire', p)
  <2>1. Worker(p, y, m', wire', p)
    <3>1. Mine(y, m')  BY <1>3, <1>4, <1>5, <1>6 DEF Mine, GoesOn
    <3>2. Places(p, y, m')
      BY <1>1, <1>2, <1>4, <1>5, <1>6 DEF Worker, Places, GoesOn, Working
    <3>3. Carries(y, m')
      BY <1>1, <1>2, <1>3, <1>4, <1>5, <1>6 DEF Worker, Carries, GoesOn
    <3>4. Sending(p, y, m', p)
      BY <1>1, <1>2, <1>4, <1>5, <1>6, <3>1 DEF Worker, Timely, Sending, GoesOn, SameEpochs
    <3> QED  BY <1>5, <3>2, <3>3, <3>4 DEF Worker, Timely, Cleans, GoesOn
  <2>2. ASSUME NEW q \in Procs, q # p
        PROVE  Worker(q, proc'[q], m', wire', p)
    <3>1. proc'[q] = proc[q] /\ Worker(q, proc[q], m, wire, NoProc)
      BY <1>1, <1>5, <2>2 DEF Only, Workers
    <3>2. ~Mine(proc[q], m')
      BY <1>1, <1>3, <1>4, <1>6, <2>2 DEF Apart, Mine, x
    <3>3. proc[q].pc # "send"  BY <3>1, SessionAssumption DEF Worker, Sending
    <3>4. proc[q].pc # "cleanup"  BY <1>6, <3>1 DEF Worker, Cleans, Mine
    <3>5. Places(q, proc[q], m')  BY <1>4, <3>1 DEF Worker, Places
    <3> QED  BY <3>1, <3>2, <3>3, <3>4, <3>5 DEF Worker, Carries, Timely, Sending, Cleans
  <2> QED  BY <2>1, <2>2 DEF Workers, y
<1>12. Apart(proc')
  <2>1. y.op = x.op /\ y.pc # "cleanup"  BY <1>5 DEF GoesOn
  <2> QED  BY <1>1, <1>5, <2>1, ApartKept DEF x, y
<1> QED  BY <1>2, <1>4, <1>5, <1>8, <1>9, <1>10, <1>11, <1>12 DEF SessionInv, TypeOK, Steady

(* Manager z is manager s but for its timer, its expiry and what is known  *)
(* of the last cleanup.                                                    *)
Quiet(s, z) ==
    /\ SameEpochs(s, z) /\ SameFlight(s, z) /\ z.state = s.state /\ z.held = s.held
    /\ z.target = s.target /\ z.ids = s.ids
    /\ z.cleanup.attempt = s.cleanup.attempt /\ z.cleanup.target = s.cleanup.target

LEMMA QuietStep ==
  ASSUME SessionInv, NEW p \in Procs, UNCHANGED <<emissionMu, wire>>,
         m' \in ManagerType, Quiet(m, m'), m'.timer # 0 => m'.timer = m'.gen,
         m'.expiry => m.state = "Active" /\ m.pending.id # 0 /\ m.pending.kind = "read",
         Watched(m', proc'),
         proc' \in [Procs -> ProcType], Only(p, proc, proc'),
         Worker(p, proc'[p], m', wire, emissionMu),
         proc'[p].op = 0 \/ proc'[p].op = proc[p].op, proc'[p].pc # "cleanup"
  PROVE  SessionInv' /\ Steady(m, m')
<1>1. /\ m \in ManagerType /\ proc \in [Procs -> ProcType] /\ Gate(m) /\ Bound(m) /\ Slot(m, wire)
      /\ Apart(proc) /\ Workers(proc, m, wire, emissionMu) /\ m.ids <= m'.ids
  BY DEF SessionInv, TypeOK, ManagerType, Quiet
<1>2. Workers(proc', m', wire, emissionMu)
  BY <1>1, QuietWorkers DEF Quiet, SameEpochs, SameFlight
<1>3. Apart(proc')  BY <1>1, ApartKept
<1>4. Gate(m')  BY <1>1 DEF Gate, Quiet, SameFlight
<1>5. Bound(m')  BY <1>1 DEF Bound, Quiet, SameEpochs
<1>6. Slot(m', wire)
  BY <1>1 DEF Slot, IdleSlot, EnablingSlot, OwnedSlot, ClosedSlot, ObligedSlot, EndSent,
     Quiet, SameEpochs, SameFlight
<1>7. Steady(m, m')  BY DEF Steady, Quiet, SameFlight
<1> QED  BY <1>2, <1>3, <1>4, <1>5, <1>6, <1>7 DEF SessionInv, TypeOK

LEMMA SendReturnsStep ==
  ASSUME SessionInv, NEW p \in Procs, NEW out \in Outcomes, SendReturns(p, out)
  PROVE  SessionInv' /\ Steady(m, m')
<1> DEFINE x == proc[p]  y == proc'[p]
           z == [x EXCEPT !.pc = "sent", !.out = out]
<1>1. /\ m \in ManagerType /\ proc \in [Procs -> ProcType] /\ emissionMu' = NoProc
      /\ Workers(proc, m, wire, emissionMu) /\ Worker(p, x, m, wire, emissionMu)
      /\ Apart(proc) /\ Watched(m, proc) /\ x \in ProcType
      /\ x.pc = "send" /\ Emitted(out) /\ UNCHANGED <<m, wire>>
  BY DEF SessionInv, TypeOK, Workers, SendReturns, At
<1>2. z \in ProcType  BY <1>1 DEF ProcType
<1>3. proc' = [proc EXCEPT ![p] = z]  BY DEF SendReturns
<1>4. GoesOn(x, z, "sent") /\ z.out = out  BY <1>1, <1>2 DEF GoesOn, ProcType
<1> HIDE DEF z
<1>5. proc' \in [Procs -> ProcType] /\ Only(p, proc, proc') /\ y = z
  BY <1>1, <1>2, <1>3 DEF Only
<1> HIDE DEF x, y
<1>6. emissionMu = p  BY <1>1 DEF Worker, Sending
<1>7. Worker(p, y, m, wire, NoProc)
  <2>1. Mine(y, m) <=> Mine(x, m)  BY <1>4, <1>5 DEF Mine, GoesOn
  <2>2. Places(p, y, m)  BY <1>1, <1>4, <1>5 DEF Worker, Places, GoesOn, Working
  <2>3. Carries(y, m)  BY <1>1, <1>4, <1>5, <2>1 DEF Worker, Carries, GoesOn
  <2> QED  BY <1>4, <1>5, <2>2, <2>3 DEF Worker, Timely, Sending, Cleans, GoesOn
<1>8. Workers(proc', m, wire, NoProc)
  <2> SUFFICES ASSUME NEW q \in Procs, q # p  PROVE Worker(q, proc'[q], m, wire, NoProc)
    BY <1>7 DEF Workers, y
  <2>1. proc'[q] = proc[q] /\ Worker(q, proc[q], m, wire, p)
    BY <1>1, <1>5, <1>6 DEF Only, Workers
  <2> QED  BY <2>1 DEF Worker, Sending
<1>9. Apart(proc')
  <2>1. y.op = x.op /\ y.pc # "cleanup"  BY <1>4, <1>5 DEF GoesOn
  <2> QED  BY <1>1, <1>5, <2>1, ApartKept DEF x, y
<1>10. Watched(m, proc')  BY <1>1, <1>5, FiredKept DEF Watched, x
<1> QED  BY <1>1, <1>5, <1>8, <1>9, <1>10 DEF SessionInv, TypeOK, Steady

LEMMA DisconnectStep ==
  ASSUME SessionInv, NEW p \in Procs, disconnectIfCurrent(p)
  PROVE  SessionInv' /\ Steady(m, m')
<1> DEFINE x == proc[p]  y == proc'[p]
<1>1. /\ m \in ManagerType /\ proc \in [Procs -> ProcType] /\ Gate(m) /\ Bound(m) /\ Slot(m, wire)
      /\ Workers(proc, m, wire, emissionMu) /\ Apart(proc) /\ Watched(m, proc)
      /\ x \in ProcType /\ x.pc = "disconnect" /\ Goto(p, "done")
      /\ UNCHANGED <<emissionMu, wire>>
  BY DEF SessionInv, TypeOK, disconnectIfCurrent, At
<1>2. [proc[p] EXCEPT !.pc = "done"] \in ProcType  BY <1>1 DEF ProcType
<1>3. proc' \in [Procs -> ProcType] /\ Only(p, proc, proc') /\ y = [x EXCEPT !.pc = "done"]
  BY <1>1, <1>2, GotoTyped
<1>4. GoesOn(x, y, "done") /\ y.out = x.out  BY <1>1, <1>2, <1>3 DEF GoesOn, ProcType
<1> HIDE DEF x, y
<1>5. ASSUME NEW s, Workers(proc, s, wire, emissionMu)
      PROVE  Workers(proc', s, wire, emissionMu)
  <2>1. Worker(p, x, s, wire, emissionMu)  BY <1>5 DEF Workers, x
  <2>2. Mine(y, s) <=> Mine(x, s)  BY <1>4 DEF Mine, GoesOn
  <2>3. Places(p, y, s)  BY <1>1, <1>4, <2>1 DEF Worker, Places, GoesOn, Working
  <2>4. Carries(y, s)  BY <1>1, <1>4, <2>1, <2>2 DEF Worker, Carries, GoesOn
  <2>5. Worker(p, y, s, wire, emissionMu)
    BY <1>4, <2>3, <2>4 DEF Worker, Timely, Sending, Cleans, GoesOn
  <2> QED  BY <1>3, <1>5, <2>5 DEF Workers, Only, y
<1>6. Apart(proc')
  <2>1. y.op = x.op /\ y.pc # "cleanup"  BY <1>4 DEF GoesOn
  <2> QED  BY <1>1, <1>3, <2>1, ApartKept DEF x, y
<1>7. CASE m' = m
  <2>1. Watched(m, proc')  BY <1>1, <1>3, FiredKept DEF Watched, x
  <2> QED  BY <1>1, <1>3, <1>5, <1>6, <1>7, <2>1 DEF SessionInv, TypeOK, Steady
<1>8. CASE m.held /\ m' = OnTransportDisconnect(m)
  <2>1. m' \in ManagerType /\ m'.observed = m.observed /\ Gone(m, m')
    BY <1>1, <1>8, DisconnectFields
  <2>2. Gate(m') /\ Bound(m') /\ Slot(m', wire) /\ Watched(m', proc')
    BY <1>1, <1>8, <2>1, GoneKeeps
  <2>3. Workers(proc, m', wire, emissionMu)
    <3> SUFFICES ASSUME NEW q \in Procs  PROVE Worker(q, proc[q], m', wire, emissionMu)
      BY DEF Workers
    <3>1. Worker(q, proc[q], m, wire, emissionMu) /\ proc[q] \in ProcType  BY <1>1 DEF Workers
    <3> QED  BY <1>1, <1>8, <2>1, <3>1, GoneWorker
  <2>4. Steady(m, m')  BY <2>1 DEF Steady, Gone, Closes, Abandons
  <2> QED  BY <1>1, <1>3, <1>5, <1>6, <2>1, <2>2, <2>3, <2>4 DEF SessionInv, TypeOK
<1> QED  BY <1>7, <1>8 DEF disconnectIfCurrent, OnTransportDisconnect

LEMMA RecordStep ==
  ASSUME SessionInv, NEW p \in Procs, recordCleanupOutcome(p)
  PROVE  SessionInv' /\ Steady(m, m')
<1>1. /\ m \in ManagerType /\ proc \in [Procs -> ProcType] /\ Watched(m, proc) /\ Gate(m)
      /\ proc[p] \in ProcType /\ proc[p].pc = "record" /\ Finish(p)
      /\ UNCHANGED <<emissionMu, wire>>
  BY DEF SessionInv, TypeOK, recordCleanupOutcome, At
<1>2. proc' \in [Procs -> ProcType] /\ Only(p, proc, proc') /\ proc'[p] = IdleProc
  BY <1>1, FinishTyped
<1>3. CASE m' = m
  BY <1>1, <1>3, FinishStep
<1>4. CASE m' = retainOutcome(m, proc[p].out)
  <2> DEFINE c == [m.cleanup EXCEPT !.last = proc[p].out]
  <2>1. m.cleanup \in CleanupType /\ proc[p].out \in Outcomes
    BY <1>1 DEF ManagerType, ProcType
  <2>2. c \in CleanupType /\ c.attempt = m.cleanup.attempt /\ c.target = m.cleanup.target
    BY <2>1 DEF CleanupType
  <2>3. m' = [m EXCEPT !.cleanup = c]  BY <1>1, <1>4 DEF retainOutcome, ManagerType
  <2> HIDE DEF c
  <2>4. m' \in ManagerType  BY <1>1, <2>2, <2>3 DEF ManagerType
  <2>5. /\ Quiet(m, m') /\ m'.timer = m.timer /\ m'.gen = m.gen /\ m'.expiry = m.expiry
    BY <1>1, <2>2, <2>3 DEF ManagerType, Quiet, SameEpochs, SameFlight
  <2>6. Watched(m', proc')
    BY <1>1, <1>2, <2>5, FiredKept DEF Watched, Quiet, SameFlight
  <2>7. m'.timer # 0 => m'.timer = m'.gen  BY <1>1, <2>5 DEF Gate
  <2>8. m'.expiry => m.state = "Active" /\ m.pending.id # 0 /\ m.pending.kind = "read"
    BY <1>1, <2>5 DEF Gate
  <2>9. proc'[p].op = 0 /\ proc'[p].pc # "cleanup"  BY <1>2 DEF IdleProc
  <2> QED  BY <1>1, <1>2, <2>4, <2>5, <2>6, <2>7, <2>8, <2>9, QuietStep, WorkerIdle
<1> QED  BY <1>3, <1>4 DEF recordCleanupOutcome

(* The owner of the operation in flight, or the timer when there is none,  *)
(* ends the session.                                                       *)
LEMMA CloseStep ==
  ASSUME SessionInv, NEW p \in Procs, UNCHANGED <<emissionMu, wire>>,
         m' \in ManagerType, ~m.restarted, Closes(m, m'), m'.pending.id = 0,
         m'.observed = m.observed, Mine(proc[p], m) \/ m.pending.id = 0,
         m.cleanup.attempt = 0 =>
            m'.cleanup.target \in Targets /\ wire = Enabled(m'.cleanup.target),
         proc' \in [Procs -> ProcType], Only(p, proc, proc'),
         Worker(p, proc'[p], m', wire, emissionMu),
         proc'[p].op = 0 \/ proc'[p].op = proc[p].op,
         proc'[p].pc = "cleanup" => m.state # "Disabled"
  PROVE  SessionInv' /\ Steady(m, m')
<1>1. /\ m \in ManagerType /\ proc \in [Procs -> ProcType] /\ Gate(m) /\ Slot(m, wire)
      /\ Apart(proc) /\ Workers(proc, m, wire, emissionMu)
  BY DEF SessionInv, TypeOK
<1>2. Gate(m') /\ Bound(m') /\ Slot(m', wire)
  BY <1>1, CloseKeeps
<1>3. m'.state = "Disabled" /\ m.ids <= m'.ids  BY DEF Closes
<1>4. Workers(proc', m', wire, emissionMu)
  BY <1>1, <1>3, OwnerWorkers
<1>5. Apart(proc')  BY <1>1, ApartKept
<1>6. Watched(m', proc')  BY <1>3 DEF Watched
<1>7. Steady(m, m')  BY DEF Steady, Closes
<1> QED  BY <1>2, <1>4, <1>5, <1>6, <1>7 DEF SessionInv, TypeOK

LEMMA CleanupTyped ==
  ASSUME proc \in [Procs -> ProcType], NEW p \in Procs, NEW epoch \in Epochs, ToCleanup(p, epoch)
  PROVE  /\ proc' \in [Procs -> ProcType] /\ Only(p, proc, proc')
         /\ proc'[p].pc = "cleanup" /\ proc'[p].op = 0 /\ proc'[p].kind = "enable"
<1> DEFINE z == [IdleProc EXCEPT !.pc = "cleanup", !.epoch = epoch]
<1>1. z \in ProcType /\ z.pc = "cleanup" /\ z.op = 0 /\ z.kind = "enable"
  BY NoneTyped DEF ProcType, IdleProc
<1>2. proc' = [proc EXCEPT ![p] = z]  BY DEF ToCleanup
<1> HIDE DEF z
<1> QED  BY <1>1, <1>2 DEF Only

LEMMA StopTimerStep ==
  ASSUME SessionInv, NEW p \in Procs, StopTimer(p)
  PROVE  SessionInv' /\ Steady(m, m')
<1> DEFINE x == proc[p]  y == proc'[p]
<1>1. /\ m \in ManagerType /\ proc \in [Procs -> ProcType] /\ Watched(m, proc) /\ Gate(m)
      /\ Worker(p, x, m, wire, emissionMu)
      /\ x \in ProcType /\ x.pc = "stopTimer" /\ Goto(p, "issue")
      /\ UNCHANGED <<emissionMu, wire>>
  BY DEF SessionInv, TypeOK, StopTimer, At, Workers
<1>2. [proc[p] EXCEPT !.pc = "issue"] \in ProcType  BY <1>1 DEF ProcType
<1>3. proc' \in [Procs -> ProcType] /\ Only(p, proc, proc') /\ y = [x EXCEPT !.pc = "issue"]
  BY <1>1, <1>2, GotoTyped
<1>4. GoesOn(x, y, "issue")  BY <1>1, <1>2, <1>3 DEF GoesOn, ProcType
<1> HIDE DEF x, y
<1>5. Worker(p, y, m, wire, emissionMu)
  <2>1. Mine(y, m) <=> Mine(x, m)  BY <1>4 DEF Mine, GoesOn
  <2>2. Places(p, y, m)  BY <1>1, <1>4 DEF Worker, Places, GoesOn, Working
  <2>3. Carries(y, m)  BY <1>1, <1>4, <2>1 DEF Worker, Carries, GoesOn
  <2>4. Timely(y, m)  BY <1>1, <1>4, <2>1 DEF Worker, Timely, GoesOn
  <2> QED  BY <1>4, <2>2, <2>3, <2>4 DEF Worker, Sending, Cleans, GoesOn
<1>6. y.op = x.op /\ y.pc # "cleanup"  BY <1>4 DEF GoesOn
<1>7. CASE m' = m
  BY <1>1, <1>3, <1>5, <1>6, <1>7, ProcStep DEF x, y
<1>8. CASE Current(p) /\ m.held /\ m' = stopIdleTimer(m)
  <2>1. /\ m' \in ManagerType /\ SameEpochs(m, m') /\ SameFlight(m, m')
        /\ m'.timer = 0 /\ m'.held = m.held /\ m'.target = m.target
        /\ m'.state = m.state /\ m'.cleanup = m.cleanup /\ m'.expiry = m.expiry
        /\ m'.ids = m.ids
    BY <1>1, <1>8, StopIdleFields
  <2>2. Quiet(m, m')  BY <2>1 DEF Quiet
  <2>3. m.pending.id # 0 /\ m.pending.kind = "disable"
    BY <1>1, <1>8 DEF Worker, Places, Carries, Mine, Current, Working, FrameKind, x
  <2>4. Watched(m', proc')  BY <2>1, <2>3 DEF Watched, SameFlight
  <2>5. m'.expiry => m.state = "Active" /\ m.pending.id # 0 /\ m.pending.kind = "read"
    BY <1>1, <2>1 DEF Gate
  <2>6. Worker(p, y, m', wire, emissionMu)
    <3>1. m.ids <= m'.ids  BY <1>1, <2>1 DEF ManagerType
    <3>2. y \in ProcType  BY <1>4 DEF GoesOn
    <3> QED  BY <1>1, <1>5, <2>1, <3>1, <3>2, OtherSame DEF SameEpochs, SameFlight
  <2> QED  BY <1>1, <1>3, <1>6, <2>1, <2>2, <2>4, <2>5, <2>6, QuietStep DEF x, y
<1> QED  BY <1>7, <1>8 DEF StopTimer

LEMMA ElapseStep ==
  ASSUME SessionInv, NEW b \in Callbacks, TimerElapses(b)
  PROVE  SessionInv' /\ Steady(m, m')
<1> DEFINE z == [IdleProc EXCEPT !.pc = "fired", !.gen = m.timer]
<1>1. /\ m \in ManagerType /\ proc \in [Procs -> ProcType] /\ Watched(m, proc) /\ Gate(m)
      /\ m.timer # 0 /\ m.timer \in Nat /\ proc[b].pc = "idle" /\ b \in Procs
      /\ proc' = [proc EXCEPT ![b] = z] /\ m' = [m EXCEPT !.timer = 0]
      /\ UNCHANGED <<emissionMu, wire>>
  BY DEF SessionInv, TypeOK, TimerElapses, At, ManagerType, Procs
<1>2. m.timer = m.gen  BY <1>1 DEF Gate
<1>3. z \in ProcType /\ z.pc = "fired" /\ z.gen = m.gen /\ z.op = 0 /\ z.kind = "enable"
  BY <1>1, <1>2, NoneTyped DEF ProcType, IdleProc
<1> HIDE DEF z
<1>4. proc' \in [Procs -> ProcType] /\ Only(b, proc, proc') /\ proc'[b] = z
  BY <1>1, <1>3 DEF Only
<1>5. /\ m' \in ManagerType /\ Quiet(m, m') /\ m'.timer = 0 /\ m'.gen = m.gen
      /\ m'.expiry = m.expiry
  BY <1>1 DEF ManagerType, Quiet, SameEpochs, SameFlight
<1>6. Watched(m', proc')  BY <1>3, <1>4, <1>5 DEF Watched, Fired
<1>7. Worker(b, z, m', wire, emissionMu)
  BY <1>3 DEF Worker, Places, Carries, Timely, Sending, Cleans, Mine, Working
<1>8. m'.expiry => m.state = "Active" /\ m.pending.id # 0 /\ m.pending.kind = "read"
  BY <1>1, <1>5 DEF Gate
<1>9. proc'[b].op = 0 /\ proc'[b].pc # "cleanup"  BY <1>3, <1>4
<1> QED  BY <1>1, <1>4, <1>5, <1>6, <1>7, <1>8, <1>9, QuietStep

LEMMA CleanupSettlesStep ==
  ASSUME SessionInv, NEW p \in Procs, CleanupSettles(p)
  PROVE  SessionInv' /\ Steady(m, m')
<1> DEFINE x == proc[p]  y == proc'[p]
<1>1. /\ m \in ManagerType /\ proc \in [Procs -> ProcType] /\ Watched(m, proc) /\ Gate(m)
      /\ Slot(m, wire) /\ Worker(p, x, m, wire, emissionMu)
      /\ x \in ProcType /\ x.pc = "done" /\ x.kind = "cleanup" /\ Goto(p, "record")
      /\ UNCHANGED <<emissionMu, wire>>
  BY DEF SessionInv, TypeOK, CleanupSettles, At, Workers
<1>2. [proc[p] EXCEPT !.pc = "record"] \in ProcType  BY <1>1 DEF ProcType
<1>3. proc' \in [Procs -> ProcType] /\ Only(p, proc, proc') /\ y = [x EXCEPT !.pc = "record"]
  BY <1>1, <1>2, GotoTyped
<1>4. GoesOn(x, y, "record")  BY <1>1, <1>2, <1>3 DEF GoesOn, ProcType
<1> HIDE DEF x, y
<1>5. y.op = x.op /\ y.pc # "cleanup" /\ x.op # 0  BY <1>1, <1>4 DEF GoesOn, Worker, Places, Working
<1>6. ASSUME NEW s, s.ids = m.ids, ~Mine(y, s)
      PROVE  Worker(p, y, s, wire, emissionMu)
  <2>1. Places(p, y, s)  BY <1>1, <1>4, <1>6 DEF Worker, Places, GoesOn, Working
  <2> QED  BY <1>4, <1>6, <2>1 DEF Worker, Carries, Timely, Sending, Cleans, GoesOn
<1>7. CASE ~Current(p)
  <2>1. m' = m  BY <1>7 DEF CleanupSettles
  <2>2. ~Mine(y, m)  BY <1>5, <1>7 DEF Mine, Current, x
  <2>3. Worker(p, y, m, wire, emissionMu)  BY <1>6, <2>2
  <2> QED  BY <1>1, <1>3, <1>5, <2>1, <2>3, ProcStep DEF x, y
<1>8. CASE Current(p)
  <2>1. Mine(x, m)  BY <1>5, <1>8 DEF Mine, Current, x
  <2>2. m.state = "Disabled"  BY <1>1, <2>1 DEF Worker, Carries
  <2>3. ~m.restarted /\ m.cleanup.attempt # 0
    BY <1>1, <2>1, <2>2 DEF Gate, Slot, ClosedSlot, Mine
  <2>4. m' = [m EXCEPT !.pending = NoOperation]  BY <1>8 DEF CleanupSettles
  <2>5. /\ m' \in ManagerType /\ m'.pending.id = 0 /\ m'.observed = m.observed
        /\ m'.state = "Disabled" /\ m'.held = m.held /\ m'.timer = m.timer
        /\ m'.expiry = m.expiry /\ m'.restarted = m.restarted /\ m'.cleanup = m.cleanup
        /\ m'.ids = m.ids /\ m'.gen = m.gen
    BY <1>1, <2>2, <2>4, NoneTyped DEF ManagerType
  <2>6. Worker(p, y, m', wire, emissionMu)
    <3>1. ~Mine(y, m')  BY <2>5 DEF Mine
    <3> QED  BY <1>6, <2>5, <3>1
  <2>7. Gate(m') /\ Bound(m') /\ Watched(m', proc')
    BY <1>1, <2>2, <2>3, <2>5 DEF Gate, Bound, Watched, Owning, ManagerType
  <2>8. Slot(m', wire)
    BY <1>1, <2>5 DEF Slot, IdleSlot, EnablingSlot, OwnedSlot, ClosedSlot, ObligedSlot
  <2>9. Workers(proc', m', wire, emissionMu) /\ Apart(proc')
    <3>1. /\ Workers(proc, m, wire, emissionMu) /\ Apart(proc) /\ m.ids <= m'.ids
          /\ Mine(proc[p], m) /\ Worker(p, proc'[p], m', wire, emissionMu)
      BY <1>1, <2>1, <2>5, <2>6 DEF SessionInv, ManagerType, x, y
    <3>2. Workers(proc', m', wire, emissionMu)
      BY <1>1, <1>3, <2>5, <3>1, OwnerWorkers
    <3>3. proc'[p].op = proc[p].op /\ proc'[p].pc # "cleanup"  BY <1>5 DEF x, y
    <3>4. Apart(proc')  BY <1>1, <1>3, <3>1, <3>3, ApartKept
    <3> QED  BY <3>2, <3>4
  <2> QED  BY <1>1, <1>3, <2>5, <2>7, <2>8, <2>9 DEF SessionInv, TypeOK, Steady
<1> QED  BY <1>7, <1>8

-----------------------------------------------------------------------------
(* Operations that begin.                                                  *)

LEMMA OperationFields ==
  ASSUME NEW id \in Nat, NEW kind \in Kinds, NEW target \in Targets \cup {NoTarget},
         NEW epoch \in Epochs, NEW isCleanup \in BOOLEAN
  PROVE  LET o == Operation(id, kind, target, epoch, isCleanup)
         IN  /\ o \in OperationType /\ o.id = id /\ o.kind = kind /\ o.target = target
             /\ o.epoch = epoch /\ o.emitted = FALSE /\ o.invalidated = FALSE
             /\ o.cleanup = isCleanup
  BY DEF Operation, OperationType

(* Goroutine record q has just begun the operation in flight.              *)
Begun(p, q, s) ==
    /\ q.pc \in {"refresh", "stopTimer", "issue"}
    /\ q.op = s.pending.id /\ q.op # 0 /\ q.op <= s.ids /\ q.target \in Targets
    /\ s.pending.target = q.target /\ s.pending.kind = FrameKind(q.kind)
    /\ s.pending.cleanup <=> q.kind = "cleanup"
    /\ ~s.pending.emitted
    /\ q.pc = "refresh" <=> s.state = "Refreshing"
    /\ q.pc = "refresh" => q.kind \in {"read", "disable", "idle"}
    /\ q.pc = "stopTimer" => q.kind = "disable"
    /\ q.kind = "idle" => p \in Callbacks
    /\ q.pc = "refresh" /\ p \in Callbacks => q.kind = "idle"
    /\ q.kind = "cleanup" => s.state = "Disabled"
    /\ q.pc # "refresh" /\ q.kind # "cleanup" => s.transport = s.observed

LEMMA NewWorker ==
  ASSUME NEW s, NEW p, NEW q, NEW w, NEW mu, Begun(p, q, s)
  PROVE  Worker(p, q, s, w, mu)
<1> USE DEF Begun
<1>1. Places(p, q, s)  BY DEF Places, Working
<1>2. Carries(q, s)  BY DEF Carries
<1>3. Timely(q, s)  BY DEF Timely
<1> QED  BY <1>1, <1>2, <1>3 DEF Worker, Sending, Cleans

(* The part of a step that begins an operation which is the same for all.  *)
LEMMA BeginStep ==
  ASSUME SessionInv, NEW p \in Procs, UNCHANGED <<emissionMu, wire>>, m' \in ManagerType,
         m.pending.id = 0, m'.pending.id = m.ids + 1, m'.ids = m.ids + 1,
         m'.restarted = m.restarted,
         m.state = "Disabled" =>
            m'.state = "Disabled" /\ m'.observed = m.observed /\ proc[p].pc = "cleanup",
         proc' \in [Procs -> ProcType], Only(p, proc, proc'),
         Worker(p, proc'[p], m', wire, emissionMu),
         proc'[p].op = m.ids + 1, proc'[p].pc # "cleanup",
         Gate(m'), Bound(m'), Slot(m', wire), Watched(m', proc')
  PROVE  SessionInv' /\ Steady(m, m')
<1>1. /\ m \in ManagerType /\ proc \in [Procs -> ProcType]
      /\ Apart(proc) /\ Workers(proc, m, wire, emissionMu)
  BY DEF SessionInv, TypeOK
<1>2. m.ids <= m'.ids /\ m'.pending.id > m.ids /\ proc'[p].op > m.ids
  BY <1>1 DEF ManagerType
<1>3. Workers(proc', m', wire, emissionMu)
  BY <1>1, <1>2, OwnerWorkers
<1>4. Apart(proc')  BY <1>1, <1>2, ApartKept
<1> QED  BY <1>3, <1>4 DEF SessionInv, TypeOK, Steady

LEMMA MarkFields ==
  ASSUME NEW s \in ManagerType, NEW epoch \in Epochs
  PROVE  LET z == markAttempt(s, epoch)
         IN  /\ z \in ManagerType /\ Quiet(s, z)
             /\ z.timer = s.timer /\ z.gen = s.gen /\ z.expiry = s.expiry
<1> DEFINE c == [s.cleanup EXCEPT !.tried = TRUE, !.triedEpoch = epoch]
           z == markAttempt(s, epoch)
<1>1. s.cleanup \in CleanupType  BY DEF ManagerType
<1>2. c \in CleanupType /\ c.attempt = s.cleanup.attempt /\ c.target = s.cleanup.target
  BY <1>1 DEF CleanupType
<1>3. z = [s EXCEPT !.cleanup = c]  BY DEF markAttempt, ManagerType
<1> HIDE DEF c, z
<1>4. z \in ManagerType  BY <1>2, <1>3 DEF ManagerType
<1>5. Quiet(s, z) /\ z.timer = s.timer /\ z.gen = s.gen /\ z.expiry = s.expiry
  BY <1>2, <1>3 DEF ManagerType, Quiet, SameEpochs, SameFlight
<1> QED  BY <1>4, <1>5 DEF z

LEMMA AttemptStep ==
  ASSUME SessionInv, NEW p \in Procs, attemptCleanup(p)
  PROVE  SessionInv' /\ Steady(m, m')
<1> DEFINE x == proc[p]
           k == markAttempt(m, x.epoch)
           o == Operation(m.ids + 1, "disable", m.cleanup.target, m.transport, TRUE)
           c == [k.cleanup EXCEPT !.epoch = x.epoch]
           z == [IdleProc EXCEPT !.pc = "issue", !.kind = "cleanup", !.op = m.ids + 1,
                    !.target = m.cleanup.target, !.epoch = x.epoch,
                    !.attempt = m.cleanup.attempt]
<1>1. /\ m \in ManagerType /\ proc \in [Procs -> ProcType] /\ Gate(m) /\ Slot(m, wire)
      /\ x \in ProcType /\ x.pc = "cleanup" /\ UNCHANGED <<emissionMu, wire>>
      /\ m.ids \in Nat /\ m.ids + 1 \in Nat /\ m.transport \in Epochs
      /\ m.cleanup \in CleanupType /\ x.epoch \in Epochs
  BY DEF SessionInv, TypeOK, attemptCleanup, At, ManagerType, ProcType
<1>2. /\ m.state = "Disabled" /\ m.pending.id = 0 /\ \A t \in Targets : wire # Disabled(t)
  <2>1. Worker(p, proc[p], m, wire, emissionMu)  BY DEF SessionInv, Workers
  <2> QED  BY <1>1, <2>1 DEF Worker, Cleans
<1>3. CASE CleanupSkipped(p)
  BY <1>1, <1>3, FinishStep DEF attemptCleanup
<1>4. CASE ~CleanupSkipped(p)
  <2>1. m.cleanup.attempt # 0 /\ ~m.restarted
    BY <1>4 DEF CleanupSkipped, HasCleanup
  <2>2. m.cleanup.target \in Targets /\ wire = Enabled(m.cleanup.target)
    BY <1>1, <1>2, <2>1 DEF Slot, ObligedSlot
  <2>3. /\ k \in ManagerType /\ Quiet(m, k)
        /\ k.timer = m.timer /\ k.gen = m.gen /\ k.expiry = m.expiry
    BY <1>1, MarkFields
  <2>4. m' = [k EXCEPT !.cleanup = c, !.ids = m.ids + 1, !.pending = o]
    <3>1. m' = [k EXCEPT !.cleanup.epoch = x.epoch, !.ids = m.ids + 1, !.pending = o]
      BY <1>4 DEF attemptCleanup, Fresh
    <3> HIDE DEF k, o, x
    <3> QED  BY <3>1
  <2>5. proc' = [proc EXCEPT ![p] = z]
    BY <1>4 DEF attemptCleanup, Fresh
  <2>6. /\ o \in OperationType /\ o.id = m.ids + 1 /\ o.kind = "disable"
        /\ o.target = m.cleanup.target /\ o.emitted = FALSE /\ o.cleanup = TRUE
    BY <1>1, <2>2 DEF Operation, OperationType, Kinds
  <2>7. c \in CleanupType /\ c.attempt = m.cleanup.attempt /\ c.target = m.cleanup.target
    <3>1. /\ k.cleanup \in CleanupType /\ k.cleanup.attempt = m.cleanup.attempt
          /\ k.cleanup.target = m.cleanup.target
      BY <2>3 DEF ManagerType, Quiet
    <3> HIDE DEF k
    <3> QED  BY <1>1, <3>1 DEF CleanupType
  <2>8. /\ z \in ProcType /\ z.pc = "issue" /\ z.kind = "cleanup" /\ z.op = m.ids + 1
        /\ z.target = m.cleanup.target
    <3>1. m.cleanup.attempt \in Nat  BY <1>1 DEF CleanupType
    <3> HIDE DEF x
    <3> QED  BY <1>1, <2>2, <3>1, NoneTyped DEF ProcType, IdleProc
  <2> HIDE DEF k, o, c, z
  <2>9. /\ m' \in ManagerType /\ m'.pending = o /\ m'.ids = m.ids + 1 /\ m'.cleanup = c
        /\ m'.state = k.state /\ m'.held = k.held /\ m'.timer = k.timer /\ m'.expiry = k.expiry
        /\ m'.restarted = k.restarted /\ m'.observed = k.observed /\ m'.gen = k.gen
    BY <1>1, <2>3, <2>4, <2>6, <2>7 DEF ManagerType
  <2>10. /\ m'.state = "Disabled" /\ m'.held = m.held /\ m'.timer = m.timer
         /\ m'.expiry = m.expiry /\ m'.restarted = m.restarted /\ m'.observed = m.observed
         /\ m'.gen = m.gen
    BY <1>2, <2>3, <2>9 DEF Quiet, SameEpochs, SameFlight
  <2>11. proc' \in [Procs -> ProcType] /\ Only(p, proc, proc') /\ proc'[p] = z
    BY <1>1, <2>5, <2>8 DEF Only
  <2>12. Gate(m') /\ Bound(m') /\ Watched(m', proc')
    BY <1>1, <1>2, <2>1, <2>6, <2>7, <2>9, <2>10 DEF Gate, Bound, Watched, Owning
  <2>13. Slot(m', wire)
    BY <1>1, <2>1, <2>2, <2>6, <2>7, <2>9, <2>10
       DEF Slot, IdleSlot, EnablingSlot, OwnedSlot, ClosedSlot, ObligedSlot
  <2>14. Worker(p, z, m', wire, emissionMu)
    <3>1. FrameKind(z.kind) = "disable" /\ m.ids + 1 # 0 /\ m.ids + 1 <= m'.ids
      BY <1>1, <2>8, <2>9 DEF FrameKind
    <3>2. Begun(p, z, m')
      BY <2>2, <2>6, <2>8, <2>9, <2>10, <3>1 DEF Begun
    <3> QED  BY <3>2, NewWorker
  <2>15. m'.pending.id = m.ids + 1 /\ proc'[p].op = m.ids + 1 /\ proc'[p].pc # "cleanup"
    BY <2>6, <2>8, <2>9, <2>11
  <2> QED  BY <1>1, <1>2, <2>9, <2>10, <2>11, <2>12, <2>13, <2>14, <2>15, BeginStep
<1> QED  BY <1>3, <1>4

LEMMA BeginEnableStep ==
  ASSUME SessionInv, NEW p \in Procs, NEW t \in Targets, BeginEnable(p, t)
  PROVE  SessionInv' /\ Steady(m, m')
<1> DEFINE o == Operation(m.ids + 1, "enable", t, m.transport, FALSE)
           z == [IdleProc EXCEPT !.pc = "issue", !.kind = "enable", !.op = m.ids + 1,
                    !.target = t]
<1>1. /\ m \in ManagerType /\ proc \in [Procs -> ProcType] /\ Gate(m) /\ Slot(m, wire)
      /\ UNCHANGED <<emissionMu, wire>> /\ m.state = "Idle"
      /\ m.ids \in Nat /\ m.ids + 1 \in Nat /\ m.transport \in Epochs
      /\ m' = [m EXCEPT !.state = "Enabling", !.held = TRUE, !.target = t,
                        !.ids = m.ids + 1, !.pending = o]
      /\ proc' = [proc EXCEPT ![p] = z]
  BY DEF SessionInv, TypeOK, BeginEnable, ManagerType, Fresh
<1>2. /\ m.pending.id = 0 /\ m.cleanup.attempt = 0 /\ m.transport = m.observed /\ wire = <<>>
      /\ m.pendingEpoch <= m.observed
  BY <1>1 DEF Slot, IdleSlot
<1>3. /\ o \in OperationType /\ o.id = m.ids + 1 /\ o.kind = "enable" /\ o.target = t
      /\ o.emitted = FALSE /\ o.cleanup = FALSE /\ o.epoch = m.transport
  BY <1>1 DEF Operation, OperationType, Kinds
<1>4. z \in ProcType /\ z.pc = "issue" /\ z.kind = "enable" /\ z.op = m.ids + 1 /\ z.target = t
  BY <1>1, NoneTyped DEF ProcType, IdleProc
<1> HIDE DEF o, z
<1>5. /\ m' \in ManagerType /\ m'.pending = o /\ m'.ids = m.ids + 1 /\ m'.cleanup = m.cleanup
      /\ m'.state = "Enabling" /\ m'.held = TRUE /\ m'.target = t /\ m'.timer = m.timer
      /\ m'.gen = m.gen /\ m'.expiry = m.expiry /\ m'.restarted = m.restarted
      /\ m'.transport = m.transport /\ m'.observed = m.observed
      /\ m'.pendingEpoch = m.pendingEpoch
  BY <1>1, <1>3 DEF ManagerType, States
<1>6. proc' \in [Procs -> ProcType] /\ Only(p, proc, proc') /\ proc'[p] = z
  BY <1>1, <1>4 DEF Only
<1>7. Gate(m') /\ Watched(m', proc')
  BY <1>1, <1>3, <1>5 DEF Gate, Watched, Owning
<1>8. Bound(m')
  <2>1. m.observed \in Int  BY <1>1 DEF ManagerType, Epochs
  <2> QED  BY <1>2, <1>5, <2>1 DEF Bound
<1>9. Slot(m', wire)
  BY <1>1, <1>2, <1>3, <1>5
     DEF Slot, IdleSlot, EnablingSlot, OwnedSlot, ClosedSlot, ObligedSlot
<1>10. Worker(p, z, m', wire, emissionMu)
  <2>1. FrameKind(z.kind) = "enable" /\ m.ids + 1 # 0 /\ m.ids + 1 <= m'.ids
    BY <1>1, <1>4, <1>5 DEF FrameKind
  <2>2. Begun(p, z, m')
    BY <1>2, <1>3, <1>4, <1>5, <2>1 DEF Begun
  <2> QED  BY <2>2, NewWorker
<1>11. m'.pending.id = m.ids + 1 /\ proc'[p].op = m.ids + 1 /\ proc'[p].pc # "cleanup"
  BY <1>3, <1>4, <1>5, <1>6
<1> QED  BY <1>1, <1>2, <1>5, <1>6, <1>7, <1>8, <1>9, <1>10, <1>11, BeginStep

(* An operation of the owner, or the idle timer's own disable.             *)
LEMMA OwnerBegins ==
  ASSUME SessionInv, NEW p \in Procs, NEW kind \in {"read", "disable"}, NEW z \in ProcType,
         UNCHANGED <<emissionMu, wire>>, m.state = "Active", m.pending.id = 0,
         m' = [m EXCEPT !.state = IF m.pendingEpoch > m.transport THEN "Refreshing" ELSE "Active",
                        !.ids = m.ids + 1,
                        !.pending = Operation(m.ids + 1, kind, m.target, m.transport, FALSE)],
         proc' = [proc EXCEPT ![p] = z],
         z.pc \in {"refresh", "stopTimer", "issue"},
         z.pc = "refresh" <=> m.pendingEpoch > m.transport,
         z.op = m.ids + 1, z.target = m.target, kind = FrameKind(z.kind),
         z.kind \in {"read", "disable", "idle"}, z.kind = "idle" <=> p \in Callbacks,
         z.pc = "stopTimer" => z.kind = "disable",
         m.pendingEpoch <= m.transport => proc[p].pc # "fired"
  PROVE  SessionInv' /\ Steady(m, m')
<1> DEFINE o == Operation(m.ids + 1, kind, m.target, m.transport, FALSE)
           refreshing == m.pendingEpoch > m.transport
<1>1. /\ m \in ManagerType /\ proc \in [Procs -> ProcType] /\ Gate(m) /\ Bound(m)
      /\ Slot(m, wire) /\ Watched(m, proc)
      /\ m.ids \in Nat /\ m.ids + 1 \in Nat /\ m.transport \in Epochs
      /\ m.transport \in Int /\ m.observed \in Int /\ m.pendingEpoch \in Int
  BY DEF SessionInv, TypeOK, ManagerType, Epochs
<1>2. /\ m.held /\ m.cleanup.attempt # 0 /\ m.target \in Targets /\ m.cleanup.target = m.target
      /\ wire = Enabled(m.target)
  BY <1>1 DEF Gate, Owning, Slot, OwnedSlot, EndSent
<1>3. ~refreshing => m.transport = m.observed
  BY <1>1, <1>2 DEF Bound
<1>4. /\ o \in OperationType /\ o.id = m.ids + 1 /\ o.kind = kind /\ o.target = m.target
      /\ o.emitted = FALSE /\ o.cleanup = FALSE
  BY <1>1, <1>2 DEF Operation, OperationType, Kinds
<1>5. m' = [m EXCEPT !.state = IF refreshing THEN "Refreshing" ELSE "Active",
                     !.ids = m.ids + 1, !.pending = o]
  OBVIOUS
<1> HIDE DEF o
<1>6. /\ m' \in ManagerType /\ m'.pending = o /\ m'.ids = m.ids + 1 /\ m'.cleanup = m.cleanup
      /\ m'.held = m.held /\ m'.target = m.target /\ m'.timer = m.timer
      /\ m'.gen = m.gen /\ m'.expiry = m.expiry /\ m'.restarted = m.restarted
      /\ m'.transport = m.transport /\ m'.observed = m.observed
      /\ m'.pendingEpoch = m.pendingEpoch
      /\ m'.state = IF refreshing THEN "Refreshing" ELSE "Active"
  BY <1>1, <1>4, <1>5 DEF ManagerType, States
<1>7. proc' \in [Procs -> ProcType] /\ Only(p, proc, proc') /\ proc'[p] = z
  BY <1>1 DEF Only
<1>8. ~m.expiry  BY <1>1 DEF Gate
<1>9. Gate(m') /\ Bound(m')
  <2>1. m'.state \in Owning  BY <1>6 DEF Owning
  <2>2. m'.state # "Disabled" /\ m'.state # "Idle"  BY <1>6
  <2>3. m'.pending.id <= m'.ids
    <3>1. m'.pending.id = m.ids + 1 /\ m'.ids = m.ids + 1  BY <1>4, <1>6, Zenon
    <3>2. m.ids + 1 <= m.ids + 1  BY <1>1
    <3> QED  BY <3>1, <3>2, Zenon
  <2>4. ~m.restarted  BY <1>1 DEF Gate
  <2>5. Gate(m')  BY <1>1, <1>2, <1>6, <1>8, <2>1, <2>3, <2>4 DEF Gate
  <2>6. Bound(m')  BY <1>1, <1>2, <1>6 DEF Bound
  <2> QED  BY <2>5, <2>6
<1>10. Watched(m', proc')
  <2>1. CASE refreshing  BY <1>6, <2>1 DEF Watched
  <2>2. CASE ~refreshing
    <3>1. m.timer = m.gen \/ Fired(proc, m.gen)  BY <1>1 DEF Watched
    <3>2. proc[p].pc # "fired"  BY <1>1, <2>2
    <3> QED  BY <1>6, <1>7, <3>1, <3>2, FiredKept DEF Watched
  <2> QED  BY <2>1, <2>2
<1>11. Slot(m', wire)
  <2>0. m'.pending.kind # "enable" /\ ~EndSent(m') /\ m'.pending.id # 0
    <3>1. m'.pending.kind = kind /\ m'.pending.emitted = FALSE /\ m'.pending.id = m.ids + 1
      BY <1>4, <1>6, Zenon
    <3>2. kind # "enable" /\ m.ids + 1 # 0  BY <1>1
    <3> QED  BY <3>1, <3>2, Zenon DEF EndSent
  <2>1. OwnedSlot(m', wire)  BY <1>2, <1>4, <1>6, <2>0 DEF OwnedSlot
  <2>2. ObligedSlot(m', wire) /\ Logged(wire)  BY <1>1, <1>6 DEF Slot, ObligedSlot
  <2> QED  BY <1>6, <2>1, <2>2 DEF Slot, IdleSlot, EnablingSlot, ClosedSlot
<1>12. Worker(p, z, m', wire, emissionMu)
  <2>1. m.ids + 1 # 0 /\ m.ids + 1 <= m'.ids
    BY <1>1, <1>6
  <2>2. Begun(p, z, m')
    BY <1>2, <1>3, <1>4, <1>6, <2>1 DEF Begun
  <2> QED  BY <2>2, NewWorker
<1>13. m'.pending.id = m.ids + 1 /\ proc'[p].op = m.ids + 1 /\ proc'[p].pc # "cleanup"
  BY <1>4, <1>6, <1>7
<1> QED  BY <1>6, <1>7, <1>9, <1>10, <1>11, <1>12, <1>13, BeginStep

LEMMA BeginOwnerStep ==
  ASSUME SessionInv, NEW p \in Callers, NEW t \in Targets, NEW kind \in {"read", "disable"},
         beginOwnerOperation(p, kind, t)
  PROVE  SessionInv' /\ Steady(m, m')
<1> DEFINE refreshing == m.pendingEpoch > m.transport
           z == [IdleProc EXCEPT
                    !.pc = IF refreshing THEN "refresh" ELSE Dispatching(kind),
                    !.kind = kind, !.op = m.ids + 1, !.target = t,
                    !.epoch = IF refreshing THEN m.pendingEpoch ELSE 0]
<1>1. /\ m \in ManagerType /\ m.state = "Active" /\ m.pending.id = 0 /\ m.target = t
      /\ m.ids + 1 \in Nat /\ m.pendingEpoch \in Epochs /\ proc[p].pc = "idle"
      /\ m.pendingEpoch \in Int /\ m.transport \in Int
      /\ UNCHANGED <<emissionMu, wire>>
  BY DEF SessionInv, TypeOK, ManagerType, beginOwnerOperation, HasPending, Epochs, At
<1>2. /\ m' = [m EXCEPT !.state = IF m.pendingEpoch > m.transport THEN "Refreshing" ELSE "Active",
                        !.ids = m.ids + 1,
                        !.pending = Operation(m.ids + 1, kind, m.target, m.transport, FALSE)]
      /\ proc' = [proc EXCEPT ![p] = z]
  BY <1>1 DEF beginOwnerOperation, Fresh
<1>3. /\ z \in ProcType /\ z.pc \in {"refresh", "stopTimer", "issue"}
      /\ z.pc = "refresh" <=> m.pendingEpoch > m.transport
      /\ z.op = m.ids + 1 /\ z.target = m.target /\ z.kind = kind
      /\ z.pc = "stopTimer" => kind = "disable"
  <2>1. Dispatching(kind) \in {"stopTimer", "issue"}
    BY DEF Dispatching
  <2>2. Dispatching(kind) = "stopTimer" => kind = "disable"  BY DEF Dispatching
  <2>3. 0 \in Epochs  BY SessionAssumption DEF Epochs
  <2> QED  BY <1>1, <2>1, <2>2, <2>3, NoneTyped DEF ProcType, IdleProc, Kinds
<1>4. kind = FrameKind(z.kind)  BY <1>3 DEF FrameKind
<1>5. proc[p].pc # "fired" /\ p \in Procs /\ p \notin Callbacks /\ z.kind # "idle"
  BY <1>1, <1>3, SessionAssumption DEF Procs
<1> HIDE DEF z
<1> QED  BY <1>1, <1>2, <1>3, <1>4, <1>5, OwnerBegins

LEMMA TimerFiredStep ==
  ASSUME SessionInv, NEW b \in Callbacks, idleTimerFired(b)
  PROVE  SessionInv' /\ Steady(m, m')
<1> DEFINE x == proc[b]
<1>0. b \in Procs  BY DEF Procs
<1>1. /\ m \in ManagerType /\ proc \in [Procs -> ProcType] /\ Gate(m) /\ Slot(m, wire)
      /\ Watched(m, proc) /\ x.pc = "fired" /\ UNCHANGED <<emissionMu, wire>>
      /\ m.ids \in Nat /\ m.ids + 1 \in Nat /\ m.transport \in Epochs
      /\ m.pendingEpoch \in Epochs /\ m.pendingEpoch \in Int /\ m.transport \in Int
      /\ Workers(proc, m, wire, emissionMu) /\ Apart(proc) /\ Bound(m)
  BY DEF SessionInv, TypeOK, idleTimerFired, At, ManagerType, Epochs
<1>2. CASE ~timerCurrent(b) /\ Finish(b) /\ UNCHANGED m
  <2>1. proc' \in [Procs -> ProcType] /\ Only(b, proc, proc') /\ proc'[b] = IdleProc
    BY <1>0, <1>1, <1>2, FinishTyped
  <2>2. Watched(m, proc')
    BY <1>0, <1>1, <1>2, <2>1, FiredKept DEF Watched, timerCurrent
  <2>3. proc'[b].op = 0 /\ proc'[b].pc # "cleanup"  BY <2>1 DEF IdleProc
  <2>4. Quiet(m, m')  BY <1>2 DEF Quiet, SameEpochs, SameFlight
  <2>5. Worker(b, proc'[b], m, wire, emissionMu)  BY <2>1, WorkerIdle
  <2>6. /\ m.timer # 0 => m.timer = m.gen
        /\ m.expiry => m.state = "Active" /\ m.pending.id # 0 /\ m.pending.kind = "read"
    BY <1>1 DEF Gate
  <2> QED  BY <1>0, <1>1, <1>2, <2>1, <2>2, <2>3, <2>4, <2>5, <2>6, QuietStep
<1>3. CASE timerCurrent(b) /\ HasPending /\ m' = deferExpiry(m) /\ Finish(b)
  <2>0. m.state = "Active" /\ m.pending.id # 0
    BY <1>3 DEF timerCurrent, HasPending
  <2>1. proc' \in [Procs -> ProcType] /\ Only(b, proc, proc') /\ proc'[b] = IdleProc
    BY <1>0, <1>1, <1>3, FinishTyped
  <2>2. m' = [m EXCEPT !.expiry = m.expiry \/ m.pending.kind = "read"]
    BY <1>1, <1>3 DEF deferExpiry, ManagerType
  <2>3. /\ m' \in ManagerType /\ Quiet(m, m') /\ m'.timer = m.timer /\ m'.gen = m.gen
        /\ m'.expiry <=> (m.expiry \/ m.pending.kind = "read")
    BY <1>1, <2>2 DEF ManagerType, Quiet, SameEpochs, SameFlight
  <2>4. Watched(m', proc')
    BY <2>0, <2>3 DEF Watched, Quiet, SameFlight
  <2>5. proc'[b].op = 0 /\ proc'[b].pc # "cleanup"  BY <2>1 DEF IdleProc
  <2>6. Worker(b, proc'[b], m', wire, emissionMu)  BY <2>1, WorkerIdle
  <2>7. /\ m'.timer # 0 => m'.timer = m'.gen
        /\ m'.expiry => m.state = "Active" /\ m.pending.id # 0 /\ m.pending.kind = "read"
    BY <1>1, <2>0, <2>3 DEF Gate
  <2> QED  BY <1>0, <1>1, <2>1, <2>3, <2>4, <2>5, <2>6, <2>7, QuietStep
<1>4. CASE /\ timerCurrent(b) /\ ~HasPending /\ m.pendingEpoch > m.transport
           /\ m' = [m EXCEPT !.ids = Fresh, !.state = "Refreshing",
                !.pending = Operation(Fresh, "disable", m.target, m.transport, FALSE)]
           /\ proc' = [proc EXCEPT ![b] = [IdleProc EXCEPT
                    !.pc = "refresh", !.kind = "idle", !.op = Fresh,
                    !.target = m.target, !.epoch = m.pendingEpoch]]
  <2> DEFINE z == [IdleProc EXCEPT !.pc = "refresh", !.kind = "idle", !.op = m.ids + 1,
                    !.target = m.target, !.epoch = m.pendingEpoch]
  <2>1. m.state = "Active" /\ m.pending.id = 0
    BY <1>4 DEF timerCurrent, HasPending
  <2>2. /\ m' = [m EXCEPT !.state = IF m.pendingEpoch > m.transport THEN "Refreshing" ELSE "Active",
                        !.ids = m.ids + 1,
                        !.pending = Operation(m.ids + 1, "disable", m.target, m.transport, FALSE)]
        /\ proc' = [proc EXCEPT ![b] = z]
    BY <1>4 DEF Fresh
  <2>3. /\ z \in ProcType /\ z.pc = "refresh" /\ z.op = m.ids + 1 /\ z.target = m.target
        /\ z.kind = "idle"
    <3>1. m.target \in Targets \cup {NoTarget}  BY <1>1 DEF ManagerType
    <3> QED  BY <1>1, <3>1, NoneTyped DEF ProcType, IdleProc
  <2>4. "disable" = FrameKind(z.kind)  BY <2>3 DEF FrameKind
  <2>5. m.pendingEpoch <= m.transport => proc[b].pc # "fired"  BY <1>1, <1>4
  <2> HIDE DEF z
  <2> QED  BY <1>0, <1>1, <1>4, <2>1, <2>2, <2>3, <2>4, <2>5, OwnerBegins
<1>5. CASE /\ timerCurrent(b) /\ ~HasPending
           /\ m' = endSession([m EXCEPT !.ids = Fresh], m.target, m.transport, Fresh)
           /\ ToCleanup(b, m.transport)
  <2> DEFINE s == [m EXCEPT !.ids = m.ids + 1]
  <2>1. m.state = "Active" /\ m.pending.id = 0
    BY <1>5 DEF timerCurrent, HasPending
  <2>2. /\ ~m.restarted /\ m.cleanup.attempt # 0 /\ wire = Enabled(m.target)
    BY <1>1, <2>1 DEF Gate, Slot, OwnedSlot, EndSent
  <2>3. /\ s \in ManagerType /\ s.cleanup = m.cleanup /\ s.restarted = m.restarted
        /\ s.pending = m.pending /\ s.observed = m.observed /\ s.ids = m.ids + 1
    BY <1>1 DEF ManagerType
  <2>4. m' = endSession(s, m.target, m.transport, m.ids + 1)  BY <1>5 DEF Fresh
  <2> HIDE DEF s
  <2>5. m.target \in Targets \cup {NoTarget}  BY <1>1 DEF ManagerType
  <2>6. Ends(s, m', m.target)  BY <1>1, <2>3, <2>4, <2>5, EndFields
  <2>7. Closes(m, m') /\ m'.pending.id = 0 /\ m'.observed = m.observed /\ m' \in ManagerType
    <3>1. /\ m' \in ManagerType /\ m'.ids \in Nat /\ s.ids <= m'.ids
          /\ m'.state = "Disabled" /\ m'.held = FALSE /\ m'.timer = 0 /\ m'.expiry = FALSE
          /\ m'.restarted = s.restarted /\ m'.cleanup.attempt # 0 /\ m'.cleanup = s.cleanup
          /\ m'.pending = s.pending /\ m'.observed = s.observed
      BY <2>2, <2>3, <2>6 DEF Ends, SameEpochs, SameFlight, ManagerType
    <3> QED  BY <1>1, <2>1, <2>3, <3>1 DEF Closes
  <2>8. /\ proc' \in [Procs -> ProcType] /\ Only(b, proc, proc')
        /\ proc'[b].pc = "cleanup" /\ proc'[b].op = 0 /\ proc'[b].kind = "enable"
    BY <1>0, <1>1, <1>5, CleanupTyped
  <2>9. Worker(b, proc'[b], m', wire, emissionMu)
    <3>1. m'.state = "Disabled"  BY <2>7 DEF Closes
    <3>2. \A t \in Targets : wire # Disabled(t)  BY <2>2, WireFacts
    <3> QED  BY <2>7, <2>8, <3>1, <3>2, WorkerCleans
  <2> QED  BY <1>0, <1>1, <2>1, <2>2, <2>7, <2>8, <2>9, CloseStep
<1> QED  BY <1>2, <1>3, <1>4, <1>5 DEF idleTimerFired

-----------------------------------------------------------------------------
(* Refreshes.                                                              *)

(* An ended manager whose pending operation was dropped before.            *)
LEMMA EndedCloses ==
  ASSUME NEW s \in ManagerType, NEW u \in ManagerType, NEW z, NEW target,
         u.cleanup = s.cleanup, u.restarted = s.restarted, u.ids = s.ids,
         u.observed = s.observed, Ends(u, z, target)
  PROVE  /\ Closes(s, z) /\ z.pending = u.pending /\ z.observed = s.observed
         /\ z \in ManagerType /\ (s.cleanup.attempt = 0 => z.cleanup.target = target)
  BY DEF Ends, Closes, SameEpochs, SameFlight

(* The goroutine has finished, and the session is closed.                  *)
LEMMA FinishCloses ==
  ASSUME SessionInv, NEW p \in Procs, UNCHANGED <<emissionMu, wire>>, Finish(p),
         m' \in ManagerType, ~m.restarted, Closes(m, m'), m'.pending.id = 0,
         m'.observed = m.observed, Mine(proc[p], m), m.cleanup.attempt # 0
  PROVE  SessionInv' /\ Steady(m, m')
<1>1. proc' \in [Procs -> ProcType] /\ Only(p, proc, proc') /\ proc'[p] = IdleProc
  BY FinishTyped DEF SessionInv, TypeOK
<1>2. proc'[p].op = 0 /\ proc'[p].pc # "cleanup"  BY <1>1 DEF IdleProc
<1>3. Worker(p, proc'[p], m', wire, emissionMu)  BY <1>1, WorkerIdle
<1> QED  BY <1>1, <1>2, <1>3, CloseStep

LEMMA RefreshableFacts ==
  ASSUME SessionInv, NEW p \in Procs, At(p, "refresh"), Refreshable(p)
  PROVE  /\ m \in ManagerType /\ proc \in [Procs -> ProcType] /\ proc[p] \in ProcType
         /\ Mine(proc[p], m) /\ m.state = "Refreshing" /\ m.held /\ ~m.restarted /\ ~m.expiry
         /\ m.cleanup.attempt # 0 /\ wire = Enabled(m.target) /\ m.target \in Targets
         /\ m.cleanup.target = m.target /\ ~m.pending.emitted
         /\ proc[p].target \in Targets /\ proc[p].op \in Nat
         /\ m.observed \in Epochs /\ m.observed \in Int
<1>1. /\ m \in ManagerType /\ proc \in [Procs -> ProcType] /\ Gate(m) /\ Slot(m, wire)
      /\ Worker(p, proc[p], m, wire, emissionMu) /\ proc[p] \in ProcType
      /\ proc[p].pc = "refresh" /\ m.state = "Refreshing" /\ m.held /\ m.pending.id = proc[p].op
  BY DEF SessionInv, TypeOK, Workers, At, Refreshable, Current
<1>2. proc[p].op # 0 /\ proc[p].target \in Targets
  BY <1>1 DEF Worker, Places, Working
<1>3. Mine(proc[p], m)  BY <1>1, <1>2 DEF Mine
<1>4. ~m.restarted /\ ~m.expiry  BY <1>1 DEF Gate
<1>5. /\ m.cleanup.attempt # 0 /\ wire = Enabled(m.target) /\ m.target \in Targets
      /\ m.cleanup.target = m.target /\ ~m.pending.emitted
  BY <1>1 DEF Slot, OwnedSlot, EndSent
<1>6. proc[p].op \in Nat /\ m.observed \in Epochs /\ m.observed \in Int
  BY <1>1 DEF ProcType, ManagerType, Epochs
<1> QED  BY <1>1, <1>2, <1>3, <1>4, <1>5, <1>6

LEMMA RefreshEnds ==
  ASSUME SessionInv, NEW p \in Procs, At(p, "refresh"), Refreshable(p),
         UNCHANGED <<emissionMu, wire>>, Finish(p),
         m' = endSession([m EXCEPT !.pending = NoOperation, !.pendingEpoch = 0,
                                   !.transport = m.observed],
                         proc[p].target, m.observed, proc[p].op)
  PROVE  SessionInv' /\ Steady(m, m')
<1> DEFINE u == [m EXCEPT !.pending = NoOperation, !.pendingEpoch = 0,
                          !.transport = m.observed]
<1>1. /\ m \in ManagerType /\ Mine(proc[p], m) /\ ~m.restarted /\ m.cleanup.attempt # 0
      /\ proc[p].target \in Targets \cup {NoTarget} /\ proc[p].op \in Nat /\ m.observed \in Epochs
  BY RefreshableFacts
<1>2. 0 \in Epochs  BY SessionAssumption DEF Epochs
<1>3. /\ u \in ManagerType /\ u.cleanup = m.cleanup /\ u.restarted = m.restarted
      /\ u.ids = m.ids /\ u.observed = m.observed /\ u.pending.id = 0
  BY <1>1, <1>2, NoneTyped DEF ManagerType
<1>4. m' = endSession(u, proc[p].target, m.observed, proc[p].op)  OBVIOUS
<1> HIDE DEF u
<1>5. Ends(u, m', proc[p].target)  BY <1>1, <1>3, <1>4, EndFields
<1>6. /\ Closes(m, m') /\ m'.pending = u.pending /\ m'.observed = m.observed
      /\ m' \in ManagerType
  BY <1>1, <1>3, <1>5, EndedCloses
<1>7. m'.pending.id = 0  BY <1>3, <1>6
<1> QED  BY <1>1, <1>6, <1>7, FinishCloses

LEMMA RefreshFailedStep ==
  ASSUME SessionInv, NEW p \in Procs, NEW r \in RefreshResults, OwnerRefreshFailed(p, r)
  PROVE  SessionInv' /\ Steady(m, m')
<1> DEFINE u == [m EXCEPT !.transport = proc[p].epoch, !.pendingEpoch = 0]
           e == endSession(u, proc[p].target, proc[p].epoch, 0)
<1>0. /\ At(p, "refresh") /\ Refreshable(p) /\ Finish(p) /\ UNCHANGED <<emissionMu, wire>>
      /\ m' = [e EXCEPT !.pending = NoOperation]
  BY DEF OwnerRefreshFailed
<1>1. /\ m \in ManagerType /\ Mine(proc[p], m) /\ ~m.restarted /\ m.cleanup.attempt # 0
      /\ proc[p].target \in Targets \cup {NoTarget} /\ proc[p] \in ProcType
  BY <1>0, RefreshableFacts
<1>2. 0 \in Epochs /\ proc[p].epoch \in Epochs  BY <1>1, SessionAssumption DEF Epochs, ProcType
<1>3. /\ u \in ManagerType /\ u.cleanup = m.cleanup /\ u.restarted = m.restarted
      /\ u.ids = m.ids /\ u.observed = m.observed
  BY <1>1, <1>2 DEF ManagerType
<1> HIDE DEF u
<1>5. Ends(u, e, proc[p].target)  BY <1>1, <1>2, <1>3, EndFields
<1> HIDE DEF e
<1>6. /\ Closes(m, e) /\ e.observed = m.observed /\ e \in ManagerType
  BY <1>1, <1>3, <1>5, EndedCloses
<1>7. /\ m' \in ManagerType /\ m'.pending.id = 0 /\ m'.observed = e.observed
      /\ m'.state = e.state /\ m'.held = e.held /\ m'.timer = e.timer /\ m'.gen = e.gen
      /\ m'.expiry = e.expiry /\ m'.restarted = e.restarted /\ m'.cleanup = e.cleanup
      /\ m'.ids = e.ids
  BY <1>0, <1>6, NoneTyped DEF ManagerType
<1>8. Closes(m, m')  BY <1>6, <1>7 DEF Closes
<1> QED  BY <1>0, <1>1, <1>6, <1>7, <1>8, FinishCloses

LEMMA RebindFields ==
  ASSUME NEW s \in ManagerType, NEW epoch \in Epochs
  PROVE  LET z == rebind(s, epoch)
         IN  /\ z \in ManagerType /\ z.transport = epoch /\ z.observed = epoch
             /\ z.pendingEpoch = 0 /\ z.state = "Active" /\ z.held = s.held
             /\ z.target = s.target /\ z.timer = s.timer /\ z.gen = s.gen
             /\ z.expiry = s.expiry /\ z.restarted = s.restarted /\ z.ids = s.ids
             /\ z.cleanup = s.cleanup /\ z.pending.id = s.pending.id
             /\ z.pending.kind = s.pending.kind /\ z.pending.target = s.pending.target
             /\ z.pending.emitted = s.pending.emitted /\ z.pending.cleanup = s.pending.cleanup
<1> DEFINE o == [s.pending EXCEPT !.epoch = epoch]
           z == rebind(s, epoch)
<1>1. s.pending \in OperationType /\ 0 \in Epochs
  BY SessionAssumption DEF ManagerType, Epochs
<1>2. /\ o \in OperationType /\ o.id = s.pending.id
      /\ o.kind = s.pending.kind /\ o.target = s.pending.target
      /\ o.emitted = s.pending.emitted /\ o.cleanup = s.pending.cleanup
  BY <1>1 DEF OperationType
<1>3. z = [s EXCEPT !.transport = epoch, !.observed = epoch, !.pendingEpoch = 0,
                    !.state = "Active", !.pending = o]
  BY DEF rebind, ManagerType
<1> HIDE DEF o, z
<1>4. z \in ManagerType  BY <1>1, <1>2, <1>3 DEF ManagerType, States
<1>5. /\ z.transport = epoch /\ z.observed = epoch
      /\ z.pendingEpoch = 0 /\ z.state = "Active" /\ z.held = s.held
      /\ z.target = s.target /\ z.timer = s.timer /\ z.gen = s.gen
      /\ z.expiry = s.expiry /\ z.restarted = s.restarted /\ z.ids = s.ids
      /\ z.cleanup = s.cleanup /\ z.pending = o
  BY <1>3 DEF ManagerType
<1> QED  BY <1>2, <1>4, <1>5 DEF z

(* The refreshed operation goes on.                                        *)
LEMMA RefreshedStep ==
  ASSUME SessionInv, NEW p \in Procs, At(p, "refresh"), Refreshable(p),
         UNCHANGED <<emissionMu, wire>>, m' \in ManagerType,
         m'.state = "Active", m'.held = m.held, m'.transport = m'.observed,
         m'.target = m.target, m'.expiry = m.expiry, m'.restarted = m.restarted,
         m'.ids = m.ids, m'.cleanup.attempt = m.cleanup.attempt,
         m'.cleanup.target = m.cleanup.target, m'.pending.id = m.pending.id,
         m'.pending.kind = m.pending.kind, m'.pending.target = m.pending.target,
         m'.pending.emitted = m.pending.emitted, m'.pending.cleanup = m.pending.cleanup,
         m'.timer # 0 => m'.timer = m'.gen,
         m'.timer = m'.gen \/ m.pending.kind # "read",
         proc' \in [Procs -> ProcType], Only(p, proc, proc'),
         proc'[p].pc \in {"stopTimer", "issue"}, proc'[p].op = proc[p].op,
         proc'[p].pc = "stopTimer" => proc[p].kind = "disable",
         proc'[p].kind = proc[p].kind, proc'[p].target = proc[p].target
  PROVE  SessionInv' /\ Steady(m, m')
<1>1. /\ m \in ManagerType /\ proc \in [Procs -> ProcType] /\ proc[p] \in ProcType
      /\ Mine(proc[p], m) /\ m.state = "Refreshing" /\ m.held /\ ~m.restarted /\ ~m.expiry
      /\ m.cleanup.attempt # 0 /\ wire = Enabled(m.target) /\ m.target \in Targets
      /\ m.cleanup.target = m.target /\ ~m.pending.emitted
  BY RefreshableFacts
<1>2. /\ Gate(m) /\ Slot(m, wire) /\ Workers(proc, m, wire, emissionMu) /\ Apart(proc)
      /\ Worker(p, proc[p], m, wire, emissionMu) /\ proc[p].pc = "refresh"
  BY DEF SessionInv, Workers, At
<1>3. Gate(m')  BY <1>1, <1>2 DEF Gate, Owning
<1>4. Bound(m')
  <2>1. m'.observed \in Int  BY DEF ManagerType, Epochs
  <2> QED  BY <2>1 DEF Bound
<1>5. Slot(m', wire)
  <2>1. OwnedSlot(m', wire)  BY <1>1, <1>2 DEF Slot, OwnedSlot, EndSent
  <2>2. ObligedSlot(m', wire) /\ Logged(wire)  BY <1>2 DEF Slot, ObligedSlot
  <2> QED  BY <2>1, <2>2 DEF Slot, IdleSlot, EnablingSlot, ClosedSlot
<1>6. Watched(m', proc')  BY <1>1 DEF Watched, Mine
<1>7. Worker(p, proc'[p], m', wire, emissionMu)
  <2>1. Mine(proc'[p], m')  BY <1>1 DEF Mine
  <2>2. Places(p, proc'[p], m')  BY <1>2 DEF Worker, Places, Working
  <2>3. Carries(proc'[p], m')  BY <1>1, <1>2 DEF Worker, Carries
  <2>4. Timely(proc'[p], m')  BY DEF Timely
  <2> QED  BY <2>2, <2>3, <2>4 DEF Worker, Sending, Cleans
<1>8. Workers(proc', m', wire, emissionMu)
  <2>1. m.ids <= m'.ids /\ m.state # "Disabled"  BY <1>1 DEF ManagerType
  <2> QED  BY <1>1, <1>2, <1>7, <2>1, OwnerWorkers
<1>9. Apart(proc')
  <2>1. proc'[p].pc # "cleanup"  OBVIOUS
  <2> QED  BY <1>1, <1>2, <2>1, ApartKept
<1>10. Steady(m, m')  BY <1>1 DEF Steady
<1> QED  BY <1>3, <1>4, <1>5, <1>6, <1>8, <1>9, <1>10 DEF SessionInv, TypeOK

LEMMA OwnerRefreshStep ==
  ASSUME SessionInv, NEW p \in Procs, NEW r \in RefreshResults,
         OwnerRefreshFenced(p, r) \/ OwnerRefreshed(p, r) \/ OwnerRefreshFailed(p, r)
  PROVE  SessionInv' /\ Steady(m, m')
<1>1. CASE OwnerRefreshFenced(p, r)
  BY <1>1, RefreshEnds DEF OwnerRefreshFenced
<1>2. CASE OwnerRefreshFailed(p, r)
  BY <1>2, RefreshFailedStep
<1>3. CASE OwnerRefreshed(p, r)
  <2> DEFINE x == proc[p]
             u == rebind(m, r)
             c == [u.cleanup EXCEPT !.epoch = IF HasCleanup THEN r ELSE @]
             v == [u EXCEPT !.cleanup = c]
             z == [x EXCEPT !.pc = Dispatching(x.kind), !.epoch = 0]
  <2>1. /\ At(p, "refresh") /\ Refreshable(p) /\ ~refreshFenced(p, r) /\ r >= x.epoch
        /\ UNCHANGED <<emissionMu, wire>>
        /\ m' = armIdleTimerLocked([u EXCEPT !.cleanup.epoch = IF HasCleanup THEN r ELSE @])
        /\ proc' = [proc EXCEPT ![p].pc = Dispatching(x.kind), ![p].epoch = 0]
    BY <1>3 DEF OwnerRefreshed
  <2>2. /\ m \in ManagerType /\ proc \in [Procs -> ProcType] /\ x \in ProcType
        /\ Mine(x, m)
    BY <2>1, RefreshableFacts
  <2>3. r \in Epochs
    <3>1. x.epoch \in Epochs /\ 0 \in Epochs  BY <2>2, SessionAssumption DEF ProcType, Epochs
    <3>2. r # RefreshError  BY <2>1, <3>1 DEF RefreshError, Epochs
    <3> QED  BY <3>2 DEF RefreshResults
  <2>4. /\ u \in ManagerType /\ u.transport = r /\ u.observed = r
        /\ u.pendingEpoch = 0 /\ u.state = "Active" /\ u.held = m.held
        /\ u.target = m.target /\ u.timer = m.timer /\ u.gen = m.gen
        /\ u.expiry = m.expiry /\ u.restarted = m.restarted /\ u.ids = m.ids
        /\ u.cleanup = m.cleanup /\ u.pending.id = m.pending.id
        /\ u.pending.kind = m.pending.kind /\ u.pending.target = m.pending.target
        /\ u.pending.emitted = m.pending.emitted /\ u.pending.cleanup = m.pending.cleanup
    BY <2>2, <2>3, RebindFields
  <2> HIDE DEF u
  <2>5. m' = armIdleTimerLocked(v)
    <3>1. v = [u EXCEPT !.cleanup.epoch = IF HasCleanup THEN r ELSE @]
      BY <2>4 DEF ManagerType
    <3> QED  BY <2>1, <3>1
  <2>6. c \in CleanupType /\ c.attempt = m.cleanup.attempt /\ c.target = m.cleanup.target
    <3>1. u.cleanup \in CleanupType  BY <2>4 DEF ManagerType
    <3> QED  BY <2>3, <2>4, <3>1 DEF CleanupType
  <2> HIDE DEF c
  <2>7. /\ v \in ManagerType /\ v.transport = r /\ v.observed = r
        /\ v.state = "Active" /\ v.held = m.held /\ v.target = m.target
        /\ v.expiry = m.expiry /\ v.restarted = m.restarted /\ v.ids = m.ids
        /\ v.cleanup = c /\ v.pending = u.pending
    BY <2>4, <2>6 DEF ManagerType
  <2> HIDE DEF v
  <2>8. /\ m' \in ManagerType /\ SameEpochs(v, m') /\ SameFlight(v, m')
        /\ m'.timer = m'.gen /\ m'.held = v.held /\ m'.target = v.target
        /\ m'.state = v.state /\ m'.cleanup = v.cleanup /\ m'.expiry = v.expiry
        /\ m'.ids = v.ids
    BY <2>5, <2>7, ArmFields
  <2>9. Dispatching(x.kind) \in {"stopTimer", "issue"} /\ 0 \in Epochs
        /\ (Dispatching(x.kind) = "stopTimer" => x.kind = "disable")
    BY SessionAssumption DEF Dispatching, Epochs
  <2>10. /\ z \in ProcType /\ z.pc = Dispatching(x.kind) /\ z.op = x.op
         /\ z.kind = x.kind /\ z.target = x.target
    BY <2>2, <2>9 DEF ProcType
  <2>11. proc' = [proc EXCEPT ![p] = z]  BY <2>1
  <2> HIDE DEF z
  <2>12. proc' \in [Procs -> ProcType] /\ Only(p, proc, proc') /\ proc'[p] = z
    BY <2>2, <2>10, <2>11 DEF Only
  <2>13. /\ m'.state = "Active" /\ m'.held = m.held /\ m'.transport = m'.observed
         /\ m'.target = m.target /\ m'.expiry = m.expiry /\ m'.restarted = m.restarted
         /\ m'.ids = m.ids /\ m'.cleanup.attempt = m.cleanup.attempt
         /\ m'.cleanup.target = m.cleanup.target /\ m'.pending.id = m.pending.id
         /\ m'.pending.kind = m.pending.kind /\ m'.pending.target = m.pending.target
         /\ m'.pending.emitted = m.pending.emitted /\ m'.pending.cleanup = m.pending.cleanup
    BY <2>4, <2>6, <2>7, <2>8 DEF SameEpochs, SameFlight
  <2>14. /\ proc'[p].pc \in {"stopTimer", "issue"} /\ proc'[p].op = x.op
         /\ proc'[p].pc = "stopTimer" => x.kind = "disable"
         /\ proc'[p].kind = x.kind /\ proc'[p].target = x.target
    BY <2>9, <2>10, <2>12
  <2> QED  BY <2>1, <2>8, <2>12, <2>13, <2>14, RefreshedStep
<1> QED  BY <1>1, <1>2, <1>3

LEMMA IdleRefreshStep ==
  ASSUME SessionInv, NEW b \in Callbacks, NEW r \in RefreshResults,
         IdleRefreshRefused(b, r) \/ IdleRefreshed(b, r)
  PROVE  SessionInv' /\ Steady(m, m')
<1>0. b \in Procs  BY DEF Procs
<1>1. CASE IdleRefreshRefused(b, r)
  BY <1>0, <1>1, RefreshEnds DEF IdleRefreshRefused
<1>2. CASE IdleRefreshed(b, r)
  <2> DEFINE x == proc[b]
             z == [x EXCEPT !.pc = "issue", !.epoch = r]
  <2>1. /\ At(b, "refresh") /\ Refreshable(b) /\ ~idleRefreshRefused(b, r)
        /\ UNCHANGED <<emissionMu, wire>> /\ m' = rebind(m, r)
        /\ proc' = [proc EXCEPT ![b].pc = "issue", ![b].epoch = r]
    BY <1>2 DEF IdleRefreshed
  <2>2. /\ m \in ManagerType /\ proc \in [Procs -> ProcType] /\ x \in ProcType
        /\ Mine(x, m) /\ m.observed \in Epochs
    BY <1>0, <2>1, RefreshableFacts
  <2>3. r \in Epochs
    <3>1. r # RefreshError  BY <2>1, <2>2 DEF RefreshError, idleRefreshRefused, Epochs
    <3> QED  BY <3>1 DEF RefreshResults
  <2>4. /\ m' \in ManagerType /\ m'.transport = r /\ m'.observed = r
        /\ m'.state = "Active" /\ m'.held = m.held
        /\ m'.target = m.target /\ m'.timer = m.timer /\ m'.gen = m.gen
        /\ m'.expiry = m.expiry /\ m'.restarted = m.restarted /\ m'.ids = m.ids
        /\ m'.cleanup = m.cleanup /\ m'.pending.id = m.pending.id
        /\ m'.pending.kind = m.pending.kind /\ m'.pending.target = m.pending.target
        /\ m'.pending.emitted = m.pending.emitted /\ m'.pending.cleanup = m.pending.cleanup
    BY <2>1, <2>2, <2>3, RebindFields
  <2>5. m.pending.kind # "read"
    <3>1. Worker(b, x, m, wire, emissionMu)  BY <1>0 DEF SessionInv, Workers
    <3>2. x.kind = "idle"  BY <2>1, <3>1 DEF Worker, Places, At
    <3> QED  BY <2>2, <3>1, <3>2 DEF Worker, Carries, FrameKind
  <2>6. m'.timer # 0 => m'.timer = m'.gen  BY <2>4 DEF SessionInv, Gate
  <2>7. z \in ProcType /\ z.pc = "issue" /\ z.op = x.op /\ z.kind = x.kind /\ z.target = x.target
    BY <2>2, <2>3 DEF ProcType
  <2>8. proc' = [proc EXCEPT ![b] = z]  BY <2>1
  <2> HIDE DEF z
  <2>9. proc' \in [Procs -> ProcType] /\ Only(b, proc, proc') /\ proc'[b] = z
    BY <1>0, <2>2, <2>7, <2>8 DEF Only
  <2>10. /\ m'.transport = m'.observed /\ m'.cleanup.attempt = m.cleanup.attempt
         /\ m'.cleanup.target = m.cleanup.target
    BY <2>4
  <2>11. /\ proc'[b].pc \in {"stopTimer", "issue"} /\ proc'[b].op = x.op
         /\ proc'[b].pc = "stopTimer" => x.kind = "disable"
         /\ proc'[b].kind = x.kind /\ proc'[b].target = x.target
    BY <2>7, <2>9
  <2> QED  BY <1>0, <2>1, <2>4, <2>5, <2>6, <2>9, <2>10, <2>11, RefreshedStep
<1> QED  BY <1>1, <1>2

-----------------------------------------------------------------------------
(* Settlement.                                                             *)

LEMMA SettlingFacts ==
  ASSUME SessionInv, NEW p \in Procs, NEW kind \in Kinds \cup {"idle"}, Settling(p, kind)
  PROVE  /\ m \in ManagerType /\ proc \in [Procs -> ProcType] /\ proc[p] \in ProcType
         /\ Mine(proc[p], m) /\ ~m.restarted /\ proc[p].pc = "done"
         /\ proc[p].target \in Targets /\ proc[p].op \in Nat /\ m.transport \in Epochs
         /\ m.observed \in Epochs /\ proc[p].op # 0 /\ proc[p].op <= m.ids
         /\ m.pending.kind = FrameKind(kind) /\ m.pending.target = proc[p].target
         /\ m.pending.emitted <=> Emitted(proc[p].out)
         /\ m.state = "Disabled" => ~m.held /\ m.cleanup.attempt # 0
         /\ IF kind = "enable" THEN m.state \in {"Enabling", "Disabled"}
            ELSE /\ m.state \in {"Active", "Disabled"} /\ m.cleanup.attempt # 0
                 /\ m.state = "Active" => m.held /\ m.target = proc[p].target
<1>1. /\ m \in ManagerType /\ proc \in [Procs -> ProcType] /\ Gate(m) /\ Slot(m, wire)
      /\ Worker(p, proc[p], m, wire, emissionMu) /\ proc[p] \in ProcType
      /\ proc[p].pc = "done" /\ proc[p].kind = kind /\ m.pending.id = proc[p].op
  BY DEF SessionInv, TypeOK, Workers, Settling, At, Current
<1>2. proc[p].op # 0 /\ proc[p].op <= m.ids /\ proc[p].target \in Targets
  BY <1>1 DEF Worker, Places, Working
<1>3. Mine(proc[p], m)  BY <1>1, <1>2 DEF Mine
<1>4. ~m.restarted  BY <1>1, <1>2 DEF Gate
<1>5. proc[p].op \in Nat /\ m.observed \in Epochs /\ m.transport \in Epochs /\ m.state \in States
  BY <1>1 DEF ProcType, ManagerType
<1>6. /\ m.pending.kind = FrameKind(kind) /\ m.pending.target = proc[p].target
      /\ m.pending.emitted <=> Emitted(proc[p].out)
      /\ m.state # "Refreshing"
  BY <1>1, <1>3 DEF Worker, Carries
<1>7. m.state # "Idle"  BY <1>1, <1>2 DEF Slot, IdleSlot
<1>8. m.state = "Disabled" => ~m.held /\ m.cleanup.attempt # 0
  BY <1>1, <1>2 DEF Gate, Owning, Slot, ClosedSlot
<1>9. m.state = "Enabling" => FrameKind(kind) = "enable"
  BY <1>1, <1>6 DEF Slot, EnablingSlot
<1>10. m.state = "Active" => /\ FrameKind(kind) # "enable" /\ m.held
                             /\ m.target = proc[p].target /\ m.cleanup.attempt # 0
  BY <1>1, <1>2, <1>6 DEF Slot, OwnedSlot, Gate, Owning
<1>11. FrameKind(kind) = "enable" <=> kind = "enable"  BY DEF FrameKind
<1>12. IF kind = "enable" THEN m.state \in {"Enabling", "Disabled"}
       ELSE /\ m.state \in {"Active", "Disabled"} /\ m.cleanup.attempt # 0
            /\ m.state = "Active" => m.held /\ m.target = proc[p].target
  BY <1>5, <1>6, <1>7, <1>8, <1>9, <1>10, <1>11 DEF States
<1> QED  BY <1>1, <1>2, <1>3, <1>4, <1>5, <1>6, <1>8, <1>12

(* The owner stays, with its timer or a callback on its way.               *)
LEMMA KeepStep ==
  ASSUME SessionInv, NEW p \in Procs, UNCHANGED <<emissionMu, wire>>, Finish(p),
         Mine(proc[p], m), proc[p].pc = "done", m.state # "Disabled", m' \in ManagerType,
         m'.state = "Active", m'.held = TRUE, m'.pending.id = 0, m'.expiry = FALSE,
         m'.restarted = m.restarted, SameEpochs(m, m'), m.ids <= m'.ids,
         m'.timer # 0 => m'.timer = m'.gen, m'.cleanup.attempt # 0, m'.target = m.target,
         m'.target \in Targets, m'.cleanup.target = m'.target, wire = Enabled(m'.target),
         m'.timer = m'.gen \/ Fired(proc, m'.gen)
  PROVE  SessionInv' /\ Steady(m, m')
<1>1. /\ m \in ManagerType /\ proc \in [Procs -> ProcType] /\ Gate(m) /\ Bound(m) /\ Slot(m, wire)
      /\ Apart(proc) /\ Workers(proc, m, wire, emissionMu)
  BY DEF SessionInv, TypeOK
<1>2. proc' \in [Procs -> ProcType] /\ Only(p, proc, proc') /\ proc'[p] = IdleProc
  BY <1>1, FinishTyped
<1>3. proc'[p].op = 0 /\ proc'[p].pc # "cleanup"  BY <1>2 DEF IdleProc
<1>4. Worker(p, proc'[p], m', wire, emissionMu)  BY <1>2, WorkerIdle
<1>5. Workers(proc', m', wire, emissionMu)  BY <1>1, <1>2, <1>4, OwnerWorkers
<1>6. Apart(proc')  BY <1>1, <1>2, <1>3, ApartKept
<1>7. Watched(m', proc')  BY <1>1, <1>2, FiredKept DEF Watched
<1>8. m.held
  <2>1. m.state # "Idle" /\ m.state \in States
    BY <1>1 DEF Slot, IdleSlot, Mine, ManagerType
  <2> QED  BY <1>1, <2>1 DEF Gate, Owning, States
<1>9. Bound(m')  BY <1>1, <1>8 DEF Bound, SameEpochs
<1>10. Gate(m')
  <2>1. ~m.restarted  BY <1>1 DEF Gate
  <2>2. m'.ids \in Nat  BY DEF ManagerType
  <2> QED  BY <2>1, <2>2 DEF Gate, Owning
<1>11. Slot(m', wire)
  <2>1. OwnedSlot(m', wire)  BY DEF OwnedSlot, EndSent
  <2>2. ObligedSlot(m', wire)  BY DEF ObligedSlot
  <2> QED  BY <1>1, <2>1, <2>2 DEF Slot, IdleSlot, EnablingSlot, ClosedSlot
<1> QED  BY <1>2, <1>5, <1>6, <1>7, <1>9, <1>10, <1>11 DEF SessionInv, TypeOK, Steady

LEMMA EnableSettlesStep ==
  ASSUME SessionInv, NEW p \in Procs, EnableSettles(p)
  PROVE  SessionInv' /\ Steady(m, m')
<1> DEFINE x == proc[p]
           advanced == m.pendingEpoch > m.pending.epoch
           s == [m EXCEPT !.pending = NoOperation,
                          !.transport = IF advanced THEN m.pendingEpoch ELSE @]
           obliged == createCleanupLocked(s, x.target, s.transport, x.op)
           cleared == clearCleanupForOperationLocked(s, x.op)
<1>1. Settling(p, "enable") /\ UNCHANGED <<emissionMu, wire>>
  BY DEF EnableSettles
<1>2. /\ m \in ManagerType /\ proc \in [Procs -> ProcType]
      /\ Mine(x, m) /\ ~m.restarted /\ x.pc = "done"
      /\ x.target \in Targets /\ x.op \in Nat
      /\ m.pending.target = x.target /\ (m.pending.emitted <=> Emitted(x.out))
      /\ m.state = "Disabled" => ~m.held /\ m.cleanup.attempt # 0
      /\ m.state \in {"Enabling", "Disabled"} /\ m.pending.kind = "enable"
  BY <1>1, SettlingFacts DEF Kinds, FrameKind
<1>3. Gate(m) /\ Bound(m) /\ Slot(m, wire) /\ Workers(proc, m, wire, emissionMu) /\ Apart(proc)
  BY DEF SessionInv
<1>4. m.pendingEpoch \in Epochs /\ m.pending.epoch \in Epochs /\ m.transport \in Epochs
  BY <1>2 DEF ManagerType, OperationType
<1>5. s = [m EXCEPT !.pending = NoOperation,
                    !.transport = IF advanced THEN m.pendingEpoch ELSE m.transport]
  BY <1>2 DEF ManagerType
<1>6. /\ s \in ManagerType /\ s.pending.id = 0 /\ s.state = m.state /\ s.held = m.held
      /\ s.target = m.target /\ s.timer = m.timer /\ s.gen = m.gen /\ s.expiry = m.expiry
      /\ s.restarted = m.restarted /\ s.cleanup = m.cleanup /\ s.ids = m.ids
      /\ s.observed = m.observed /\ s.pendingEpoch = m.pendingEpoch
      /\ s.transport = IF advanced THEN m.pendingEpoch ELSE m.transport
  BY <1>2, <1>4, <1>5, NoneTyped DEF ManagerType
<1>7. ~m.expiry  BY <1>2, <1>3 DEF Gate
<1>8. CASE /\ m.state # "Enabling" /\ Finish(p)
           /\ m' = IF Emitted(x.out) THEN s
                   ELSE [cleared EXCEPT
                          !.state = IF cleared.cleanup.attempt = 0 THEN "Idle" ELSE @]
  <2>1. m.state = "Disabled"  BY <1>2, <1>8
  <2>2. m.pending.emitted  BY <1>2, <1>3, <2>1 DEF Slot, ClosedSlot, Mine
  <2>3. m' = s  BY <1>2, <1>8, <2>2
  <2> HIDE DEF s
  <2>4. Closes(m, m')
    <3>1. m.ids <= m.ids /\ m.held = FALSE /\ m.expiry = FALSE  BY <1>2, <1>7, <2>1 DEF ManagerType
    <3>2. m.timer # 0 => m.timer = m.gen  BY <1>3 DEF Gate
    <3> QED  BY <1>2, <1>6, <2>1, <2>3, <3>1, <3>2 DEF Closes
  <2> QED  BY <1>1, <1>2, <1>6, <1>8, <2>1, <2>3, <2>4, FinishCloses
<1>9. CASE /\ m.state = "Enabling" /\ ~Emitted(x.out) /\ Finish(p)
           /\ m' = [releaseOwnerLocked(s) EXCEPT !.state = "Idle"]
  <2> DEFINE u == releaseOwnerLocked(s)
  <2> HIDE DEF s
  <2>1. /\ u \in ManagerType /\ SameEpochs(s, u) /\ SameFlight(s, u)
        /\ u.timer = 0 /\ u.held = FALSE /\ u.cleanup = s.cleanup /\ u.expiry = s.expiry
        /\ u.ids = s.ids
    BY <1>6, ReleaseFields
  <2>2. m' = [u EXCEPT !.state = "Idle"]  BY <1>9
  <2> HIDE DEF u
  <2>3. ~m.pending.emitted  BY <1>2, <1>9
  <2>4. /\ m.transport = m.observed /\ m.pendingEpoch <= m.observed /\ m.cleanup.attempt = 0
        /\ m.pending.epoch = m.transport /\ wire = <<>>
    BY <1>3, <1>9, <2>3 DEF Slot, EnablingSlot
  <2>5. ~advanced  BY <1>4, <2>4 DEF Epochs
  <2>6. /\ m' \in ManagerType /\ m'.state = "Idle" /\ m'.held = FALSE /\ m'.timer = 0
        /\ m'.expiry = u.expiry /\ m'.restarted = u.restarted /\ m'.pending = u.pending
        /\ m'.cleanup = u.cleanup /\ m'.ids = u.ids /\ m'.transport = u.transport
        /\ m'.observed = u.observed /\ m'.pendingEpoch = u.pendingEpoch
    BY <2>1, <2>2 DEF ManagerType, States
  <2>7. /\ Abandons(m, m') /\ m'.observed = m.observed
    BY <1>6, <2>1, <2>4, <2>5, <2>6 DEF Abandons, SameEpochs, SameFlight
  <2>8. Gate(m') /\ Bound(m') /\ Slot(m', wire) /\ Watched(m', proc')
    BY <1>2, <1>3, <1>9, <2>3, <2>6, <2>7, AbandonKeeps DEF Watched
  <2>9. proc' \in [Procs -> ProcType] /\ Only(p, proc, proc') /\ proc'[p] = IdleProc
    BY <1>2, <1>9, FinishTyped
  <2>10. proc'[p].op = 0 /\ proc'[p].pc # "cleanup"  BY <2>9 DEF IdleProc
  <2>11. Worker(p, proc'[p], m', wire, emissionMu)  BY <2>9, WorkerIdle
  <2>12. m.ids <= m'.ids /\ m'.pending.id = 0 /\ m.state # "Disabled"
    BY <1>2, <1>9, <2>7 DEF Abandons, ManagerType
  <2>13. Workers(proc', m', wire, emissionMu)
    BY <1>2, <1>3, <2>6, <2>9, <2>11, <2>12, OwnerWorkers
  <2>14. Apart(proc')  BY <1>2, <1>3, <2>9, <2>10, ApartKept
  <2>15. Steady(m, m')  BY <2>7, <2>12 DEF Steady, Abandons
  <2> QED  BY <1>1, <2>6, <2>8, <2>9, <2>13, <2>14, <2>15 DEF SessionInv, TypeOK
<1>10. ASSUME m.state = "Enabling", Emitted(x.out)
       PROVE  /\ obliged \in ManagerType /\ SameEpochs(s, obliged) /\ SameFlight(s, obliged)
              /\ obliged.timer = s.timer /\ obliged.gen = s.gen /\ obliged.held = s.held
              /\ obliged.target = s.target /\ obliged.expiry = s.expiry
              /\ obliged.cleanup.attempt # 0 /\ s.ids <= obliged.ids
              /\ obliged.cleanup.target = m.target /\ m.target \in Targets
              /\ wire = Enabled(m.target) /\ m.cleanup.attempt = 0
              /\ m.pending.epoch = m.transport
  <2>1. /\ m.cleanup.attempt = 0 /\ m.target \in Targets /\ wire = Enabled(m.target)
        /\ m.target = x.target /\ m.pending.epoch = m.transport
    BY <1>2, <1>3, <1>10 DEF Slot, EnablingSlot
  <2>2. s.transport \in Epochs  BY <1>6 DEF ManagerType
  <2> HIDE DEF s
  <2>3. /\ obliged \in ManagerType /\ SameEpochs(s, obliged) /\ SameFlight(s, obliged)
        /\ obliged.timer = s.timer /\ obliged.gen = s.gen /\ obliged.held = s.held
        /\ obliged.target = s.target /\ obliged.expiry = s.expiry
        /\ obliged.cleanup.attempt # 0 /\ s.ids <= obliged.ids
        /\ s.cleanup.attempt = 0 => obliged.state = "Disabled" /\ obliged.cleanup.target = x.target
    BY <1>2, <1>6, <2>2, CreateFields
  <2> HIDE DEF obliged
  <2> QED  BY <1>6, <2>1, <2>3
<1>11. CASE /\ m.state = "Enabling" /\ x.out = "ack" /\ ~advanced /\ Finish(p)
            /\ m' = armIdleTimerLocked([obliged EXCEPT !.state = "Active"])
  <2> DEFINE u == [obliged EXCEPT !.state = "Active"]
  <2>1. /\ obliged \in ManagerType /\ SameEpochs(s, obliged) /\ SameFlight(s, obliged)
        /\ obliged.held = s.held /\ obliged.target = s.target /\ obliged.expiry = s.expiry
        /\ obliged.cleanup.attempt # 0 /\ s.ids <= obliged.ids
        /\ obliged.cleanup.target = m.target /\ m.target \in Targets
        /\ wire = Enabled(m.target)
    BY <1>10, <1>11 DEF Emitted
  <2> HIDE DEF obliged, s
  <2>2. /\ u \in ManagerType /\ SameEpochs(s, u) /\ SameFlight(s, u)
        /\ u.held = s.held /\ u.target = s.target /\ u.expiry = s.expiry
        /\ u.cleanup = obliged.cleanup /\ u.ids = obliged.ids /\ u.state = "Active"
    BY <2>1 DEF ManagerType, States, SameEpochs, SameFlight
  <2>3. m' = armIdleTimerLocked(u)  BY <1>11
  <2> HIDE DEF u
  <2>4. /\ m' \in ManagerType /\ SameEpochs(u, m') /\ SameFlight(u, m')
        /\ m'.timer = m'.gen /\ m'.held = u.held /\ m'.target = u.target
        /\ m'.state = u.state /\ m'.cleanup = u.cleanup /\ m'.expiry = u.expiry
        /\ m'.ids = u.ids
    BY <2>2, <2>3, ArmFields
  <2>5. m.held = TRUE  BY <1>2, <1>3, <1>11 DEF Gate, Owning, ManagerType
  <2>6. SameEpochs(m, m')
    BY <1>6, <1>11, <2>2, <2>4 DEF SameEpochs
  <2>7. /\ m'.state = "Active" /\ m'.held = TRUE /\ m'.pending.id = 0 /\ m'.expiry = FALSE
        /\ m'.restarted = m.restarted /\ m.ids <= m'.ids /\ m'.target = m.target
        /\ m'.cleanup.attempt # 0 /\ m'.cleanup.target = m'.target
    BY <1>6, <1>7, <2>1, <2>2, <2>4, <2>5 DEF SameFlight, ManagerType
  <2> QED  BY <1>1, <1>2, <1>11, <2>1, <2>4, <2>6, <2>7, KeepStep
<1>12. CASE /\ m.state = "Enabling" /\ Emitted(x.out) /\ ToCleanup(p, s.transport)
            /\ m' = [releaseOwnerLocked(obliged) EXCEPT !.state = "Disabled"]
  <2> DEFINE u == releaseOwnerLocked(obliged)
  <2>1. /\ obliged \in ManagerType /\ SameEpochs(s, obliged) /\ SameFlight(s, obliged)
        /\ obliged.expiry = s.expiry /\ obliged.cleanup.attempt # 0 /\ s.ids <= obliged.ids
        /\ obliged.cleanup.target = m.target /\ m.target \in Targets
        /\ wire = Enabled(m.target) /\ m.cleanup.attempt = 0
    BY <1>10, <1>12
  <2>2. s.transport \in Epochs  BY <1>6 DEF ManagerType
  <2> HIDE DEF obliged, s
  <2>3. /\ u \in ManagerType /\ SameEpochs(obliged, u) /\ SameFlight(obliged, u)
        /\ u.timer = 0 /\ u.held = FALSE /\ u.cleanup = obliged.cleanup
        /\ u.expiry = obliged.expiry /\ u.ids = obliged.ids
    BY <2>1, ReleaseFields
  <2>4. m' = [u EXCEPT !.state = "Disabled"]  BY <1>12
  <2> HIDE DEF u
  <2>5. /\ m' \in ManagerType /\ m'.state = "Disabled" /\ m'.held = FALSE /\ m'.timer = 0
        /\ m'.expiry = u.expiry /\ m'.restarted = u.restarted /\ m'.pending = u.pending
        /\ m'.cleanup = u.cleanup /\ m'.ids = u.ids /\ m'.observed = u.observed
    BY <2>3, <2>4 DEF ManagerType, States
  <2>6. /\ Closes(m, m') /\ m'.pending.id = 0 /\ m'.observed = m.observed
        /\ m'.cleanup.target = m.target
    BY <1>6, <1>7, <2>1, <2>3, <2>5 DEF Closes, SameEpochs, SameFlight
  <2>7. /\ proc' \in [Procs -> ProcType] /\ Only(p, proc, proc')
        /\ proc'[p].pc = "cleanup" /\ proc'[p].op = 0 /\ proc'[p].kind = "enable"
    BY <1>2, <1>12, <2>2, CleanupTyped
  <2>8. Worker(p, proc'[p], m', wire, emissionMu)
    <3>1. \A t \in Targets : wire # Disabled(t)  BY <2>1, WireFacts
    <3> QED  BY <2>5, <2>6, <2>7, <3>1, WorkerCleans
  <2>9. m.state # "Disabled"  BY <1>12
  <2> QED  BY <1>1, <1>2, <2>1, <2>5, <2>6, <2>7, <2>8, <2>9, CloseStep
<1> QED  BY <1>8, <1>9, <1>11, <1>12 DEF EnableSettles

LEMMA ReadSettlesStep ==
  ASSUME SessionInv, NEW p \in Procs, ReadSettles(p)
  PROVE  SessionInv' /\ Steady(m, m')
<1> DEFINE x == proc[p]
           s == [m EXCEPT !.pending = NoOperation]
           extended == /\ x.out = "ack" /\ m.state = "Active"
                       /\ m.transport = m.pending.epoch /\ m.target = x.target
           expired == m.expiry /\ m.state = "Active" /\ m.held /\ m.target = x.target
<1>1. Settling(p, "read") /\ UNCHANGED <<emissionMu, wire>>
  BY DEF ReadSettles
<1>2. /\ m \in ManagerType /\ proc \in [Procs -> ProcType]
      /\ Mine(x, m) /\ ~m.restarted /\ x.pc = "done"
      /\ x.target \in Targets /\ x.target \in Targets \cup {NoTarget}
      /\ x.op \in Nat /\ m.transport \in Epochs
      /\ m.pending.kind = "read" /\ m.state \in {"Active", "Disabled"} /\ m.cleanup.attempt # 0
      /\ m.state = "Active" => m.held /\ m.target = x.target
      /\ m.state = "Disabled" => ~m.held
  BY <1>1, SettlingFacts DEF Kinds, FrameKind
<1>3. Gate(m) /\ Slot(m, wire) /\ Watched(m, proc)
  BY DEF SessionInv
<1>4. /\ s \in ManagerType /\ s.pending.id = 0 /\ s.state = m.state /\ s.held = m.held
      /\ s.target = m.target /\ s.timer = m.timer /\ s.gen = m.gen /\ s.expiry = m.expiry
      /\ s.restarted = m.restarted /\ s.cleanup = m.cleanup /\ s.ids = m.ids
      /\ SameEpochs(m, s) /\ s.observed = m.observed
  BY <1>2, NoneTyped DEF ManagerType, SameEpochs
<1>5. m.state = "Active" => /\ m.cleanup.target = m.target /\ m.target \in Targets
                            /\ wire = Enabled(m.target)
  BY <1>2, <1>3 DEF Slot, OwnedSlot, EndSent
<1>6. ASSUME m' = endSession(s, x.target, m.transport, x.op)
      PROVE  /\ m' \in ManagerType /\ Closes(m, m') /\ m'.pending.id = 0
             /\ m'.observed = m.observed
  <2> HIDE DEF s
  <2>1. Ends(s, m', x.target)  BY <1>2, <1>4, <1>6, EndFields
  <2>2. /\ Closes(m, m') /\ m'.pending = s.pending /\ m'.observed = m.observed
        /\ m' \in ManagerType
    BY <1>2, <1>4, <2>1, EndedCloses
  <2> QED  BY <1>4, <2>2
<1>7. CASE m' = endSession(s, x.target, m.transport, x.op) /\ Finish(p)
  <2>1. /\ m' \in ManagerType /\ Closes(m, m') /\ m'.pending.id = 0
        /\ m'.observed = m.observed
    BY <1>6, <1>7
  <2> QED  BY <1>1, <1>2, <1>7, <2>1, FinishCloses
<1>8. CASE extended /\ m' = extendOwner(s) /\ Finish(p)
  <2> DEFINE u == [s EXCEPT !.expiry = FALSE]
  <2> HIDE DEF s
  <2>1. /\ u \in ManagerType /\ SameEpochs(s, u) /\ u.pending = s.pending
        /\ u.held = s.held /\ u.target = s.target /\ u.expiry = FALSE
        /\ u.cleanup = s.cleanup /\ u.ids = s.ids /\ u.state = s.state
        /\ u.restarted = s.restarted
    BY <1>4 DEF ManagerType, SameEpochs
  <2>2. m' = armIdleTimerLocked(u)  BY <1>8 DEF extendOwner
  <2> HIDE DEF u
  <2>3. /\ m' \in ManagerType /\ SameEpochs(u, m') /\ SameFlight(u, m')
        /\ m'.timer = m'.gen /\ m'.held = u.held /\ m'.target = u.target
        /\ m'.state = u.state /\ m'.cleanup = u.cleanup /\ m'.expiry = u.expiry
        /\ m'.ids = u.ids
    BY <2>1, <2>2, ArmFields
  <2>4. m.state = "Active" /\ m.held = TRUE  BY <1>2, <1>8 DEF ManagerType
  <2>5. SameEpochs(m, m')  BY <1>4, <2>1, <2>3 DEF SameEpochs
  <2>6. /\ m'.state = "Active" /\ m'.held = TRUE /\ m'.pending.id = 0 /\ m'.expiry = FALSE
        /\ m'.restarted = m.restarted /\ m.ids <= m'.ids /\ m'.target = m.target
        /\ m'.cleanup = m.cleanup
    BY <1>2, <1>4, <2>1, <2>3, <2>4 DEF SameFlight, ManagerType
  <2> QED  BY <1>1, <1>2, <1>5, <1>8, <2>3, <2>4, <2>5, <2>6, KeepStep
<1>9. CASE /\ expired /\ m' = endSession(s, x.target, m.transport, x.op)
           /\ ToCleanup(p, m.transport)
  <2>1. /\ m' \in ManagerType /\ Closes(m, m') /\ m'.pending.id = 0
        /\ m'.observed = m.observed
    BY <1>6, <1>9
  <2>2. /\ proc' \in [Procs -> ProcType] /\ Only(p, proc, proc')
        /\ proc'[p].pc = "cleanup" /\ proc'[p].op = 0 /\ proc'[p].kind = "enable"
    BY <1>2, <1>9, CleanupTyped
  <2>3. m.state = "Active"  BY <1>9
  <2>4. \A t \in Targets : wire # Disabled(t)  BY <1>5, <2>3, WireFacts
  <2>5. m'.state = "Disabled"  BY <2>1 DEF Closes
  <2>6. Worker(p, proc'[p], m', wire, emissionMu)
    BY <2>1, <2>2, <2>4, <2>5, WorkerCleans
  <2> QED  BY <1>1, <1>2, <2>1, <2>2, <2>3, <2>6, CloseStep
<1>10. CASE ~expired /\ m' = [s EXCEPT !.expiry = FALSE] /\ Finish(p)
  <2> HIDE DEF s
  <2>1. /\ m' \in ManagerType /\ SameEpochs(s, m') /\ m'.pending = s.pending
        /\ m'.held = s.held /\ m'.target = s.target /\ m'.expiry = FALSE
        /\ m'.cleanup = s.cleanup /\ m'.ids = s.ids /\ m'.state = s.state
        /\ m'.restarted = s.restarted /\ m'.timer = s.timer /\ m'.gen = s.gen
    BY <1>4, <1>10 DEF ManagerType, SameEpochs
  <2>2. m.ids <= m.ids  BY <1>2 DEF ManagerType
  <2>3. m.timer # 0 => m.timer = m.gen  BY <1>3 DEF Gate
  <2>4. CASE m.state = "Active"
    <3>1. m.held = TRUE /\ m.held  BY <1>2, <2>4 DEF ManagerType
    <3>2. ~m.expiry  BY <1>2, <1>10, <2>4
    <3>3. m.timer = m.gen \/ Fired(proc, m.gen)
      BY <1>2, <1>3, <2>4, <3>2 DEF Watched
    <3>4. SameEpochs(m, m')  BY <1>4, <2>1 DEF SameEpochs
    <3>5. /\ m'.state = "Active" /\ m'.held = TRUE /\ m'.pending.id = 0 /\ m'.expiry = FALSE
          /\ m'.restarted = m.restarted /\ m.ids <= m'.ids /\ m'.target = m.target
          /\ m'.cleanup = m.cleanup /\ m'.timer = m.timer /\ m'.gen = m.gen
      BY <1>4, <2>1, <2>2, <2>4, <3>1
    <3> QED  BY <1>1, <1>2, <1>5, <1>10, <2>1, <2>3, <2>4, <3>3, <3>4, <3>5, KeepStep
  <2>5. CASE m.state = "Disabled"
    <3>1. m.held = FALSE  BY <1>2, <2>5 DEF ManagerType
    <3>2. Closes(m, m')
      BY <1>2, <1>4, <2>1, <2>2, <2>3, <2>5, <3>1 DEF Closes
    <3>3. m'.pending.id = 0 /\ m'.observed = m.observed
      BY <1>4, <2>1 DEF SameEpochs
    <3> QED  BY <1>1, <1>2, <1>10, <2>1, <3>2, <3>3, FinishCloses
  <2> QED  BY <1>2, <2>4, <2>5
<1> QED  BY <1>7, <1>8, <1>9, <1>10 DEF ReadSettles

(* The disable was sent or overtaken: the goroutine records its outcome.   *)
LEMMA RecordBegins ==
  ASSUME SessionInv, NEW p \in Procs, NEW epoch \in Epochs, NEW attempt \in Nat,
         proc[p].pc = "done", proc[p].kind = "disable", UNCHANGED <<emissionMu, wire>>,
         proc' = [proc EXCEPT ![p].pc = "record", ![p].epoch = epoch, ![p].attempt = attempt],
         m' \in ManagerType, ~m.restarted, Closes(m, m'), m'.pending.id = 0,
         m'.observed = m.observed, Mine(proc[p], m), m.cleanup.attempt # 0
  PROVE  SessionInv' /\ Steady(m, m')
<1> DEFINE z == [proc[p] EXCEPT !.pc = "record", !.epoch = epoch, !.attempt = attempt]
<1>1. /\ proc \in [Procs -> ProcType] /\ proc[p] \in ProcType /\ m \in ManagerType
      /\ Worker(p, proc[p], m, wire, emissionMu)
  BY DEF SessionInv, TypeOK, Workers
<1>2. /\ z \in ProcType /\ z.pc = "record" /\ z.op = proc[p].op /\ z.kind = "disable"
      /\ z.target = proc[p].target
  BY <1>1 DEF ProcType
<1>3. proc' = [proc EXCEPT ![p] = z]  BY <1>1
<1> HIDE DEF z
<1>4. proc' \in [Procs -> ProcType] /\ Only(p, proc, proc') /\ proc'[p] = z
  BY <1>1, <1>2, <1>3 DEF Only
<1>5. z.op # 0 /\ z.op <= m'.ids /\ z.target \in Targets
  <2>1. proc[p].op # 0 /\ proc[p].op <= m.ids /\ proc[p].target \in Targets
    BY <1>1 DEF Worker, Places, Working
  <2>2. m.ids <= m'.ids /\ m.ids \in Nat /\ m'.ids \in Nat /\ proc[p].op \in Nat
    BY <1>1 DEF Closes, ManagerType, ProcType
  <2> QED  BY <1>2, <2>1, <2>2
<1>6. Places(p, z, m')  BY <1>2, <1>5 DEF Places, Working
<1>7. Worker(p, z, m', wire, emissionMu)
  BY <1>2, <1>6 DEF Worker, Carries, Timely, Sending, Cleans, Mine
<1> QED  BY <1>2, <1>4, <1>7, CloseStep

LEMMA DisableSettlesStep ==
  ASSUME SessionInv, NEW p \in Procs, DisableSettles(p)
  PROVE  SessionInv' /\ Steady(m, m')
<1> DEFINE x == proc[p]
           emitted == m.pending.emitted \/ Emitted(x.out)
           s == [m EXCEPT !.pending = NoOperation]
           kept == ~emitted /\ m.state = "Active" /\ m.held /\ m.target = x.target
           released == IF m.held THEN releaseOwnerLocked(s) ELSE s
           closed == [released EXCEPT !.state = "Disabled"]
           obliged == createCleanupLocked([released EXCEPT !.state = "Disabled"],
                                          x.target, m.transport, x.op)
<1>1. Settling(p, "disable") /\ UNCHANGED <<emissionMu, wire>> /\ x.kind = "disable"
  BY DEF DisableSettles, Settling
<1>2. /\ m \in ManagerType /\ proc \in [Procs -> ProcType]
      /\ Mine(x, m) /\ ~m.restarted /\ x.pc = "done"
      /\ x.target \in Targets \cup {NoTarget} /\ x.op \in Nat /\ m.transport \in Epochs
      /\ m.pending.kind = "disable" /\ m.state \in {"Active", "Disabled"}
      /\ m.cleanup.attempt # 0
  BY <1>1, SettlingFacts DEF Kinds, FrameKind
<1>3. Gate(m) /\ Slot(m, wire)
  BY DEF SessionInv
<1>4. /\ s \in ManagerType /\ s.pending.id = 0 /\ s.state = m.state /\ s.held = m.held
      /\ s.target = m.target /\ s.timer = m.timer /\ s.gen = m.gen /\ s.expiry = m.expiry
      /\ s.restarted = m.restarted /\ s.cleanup = m.cleanup /\ s.ids = m.ids
      /\ SameEpochs(m, s) /\ s.observed = m.observed
  BY <1>2, NoneTyped DEF ManagerType, SameEpochs
<1>5. m.expiry = FALSE  BY <1>2, <1>3 DEF Gate, ManagerType
<1>6. CASE kept /\ m' = extendOwner(s) /\ Finish(p)
  <2> DEFINE u == [s EXCEPT !.expiry = FALSE]
  <2> HIDE DEF s
  <2>1. /\ u \in ManagerType /\ SameEpochs(s, u) /\ u.pending = s.pending
        /\ u.held = s.held /\ u.target = s.target /\ u.expiry = FALSE
        /\ u.cleanup = s.cleanup /\ u.ids = s.ids /\ u.state = s.state
        /\ u.restarted = s.restarted
    BY <1>4 DEF ManagerType, SameEpochs
  <2>2. m' = armIdleTimerLocked(u)  BY <1>6 DEF extendOwner
  <2> HIDE DEF u
  <2>3. /\ m' \in ManagerType /\ SameEpochs(u, m') /\ SameFlight(u, m')
        /\ m'.timer = m'.gen /\ m'.held = u.held /\ m'.target = u.target
        /\ m'.state = u.state /\ m'.cleanup = u.cleanup /\ m'.expiry = u.expiry
        /\ m'.ids = u.ids
    BY <2>1, <2>2, ArmFields
  <2>4. m.state = "Active" /\ m.held = TRUE /\ ~m.pending.emitted
    BY <1>2, <1>6 DEF ManagerType
  <2>5. SameEpochs(m, m')  BY <1>4, <2>1, <2>3 DEF SameEpochs
  <2>6. /\ m'.state = "Active" /\ m'.held = TRUE /\ m'.pending.id = 0 /\ m'.expiry = FALSE
        /\ m'.restarted = m.restarted /\ m.ids <= m'.ids /\ m'.target = m.target
        /\ m'.cleanup = m.cleanup
    BY <1>2, <1>4, <2>1, <2>3, <2>4 DEF SameFlight, ManagerType
  <2>7. /\ m.cleanup.target = m.target /\ m.target \in Targets /\ wire = Enabled(m.target)
    BY <1>3, <2>4 DEF Slot, OwnedSlot, EndSent
  <2> QED  BY <1>1, <1>2, <1>6, <2>3, <2>4, <2>5, <2>6, <2>7, KeepStep
<1>7. CASE /\ ~kept /\ m' = markAttempt(obliged, m.transport)
           /\ proc' = [proc EXCEPT ![p].pc = "record", ![p].epoch = m.transport,
                                   ![p].attempt = obliged.cleanup.attempt]
  <2>1. /\ released \in ManagerType /\ released.pending = s.pending /\ released.held = FALSE
        /\ released.timer # 0 => released.timer = released.gen
        /\ released.expiry = FALSE /\ released.restarted = m.restarted
        /\ released.cleanup = m.cleanup /\ released.ids = m.ids
        /\ released.observed = m.observed
    <3> HIDE DEF s
    <3>1. CASE m.held
      <4> DEFINE u == releaseOwnerLocked(s)
      <4>1. /\ u \in ManagerType /\ SameEpochs(s, u) /\ SameFlight(s, u)
            /\ u.timer = 0 /\ u.held = FALSE /\ u.cleanup = s.cleanup
            /\ u.expiry = s.expiry /\ u.ids = s.ids
        BY <1>4, ReleaseFields
      <4>2. released = u  BY <3>1
      <4> HIDE DEF u, released
      <4> QED  BY <1>4, <1>5, <4>1, <4>2 DEF SameEpochs, SameFlight
    <3>2. CASE ~m.held
      <4>1. released = s  BY <3>2
      <4> HIDE DEF released
      <4>2. m.held = FALSE  BY <1>2, <3>2 DEF ManagerType
      <4> QED  BY <1>3, <1>4, <1>5, <4>1, <4>2 DEF Gate
    <3> QED  BY <3>1, <3>2
  <2> HIDE DEF released
  <2>2. /\ closed \in ManagerType /\ closed.pending = s.pending /\ closed.held = FALSE
        /\ closed.timer # 0 => closed.timer = closed.gen
        /\ closed.expiry = FALSE /\ closed.restarted = m.restarted
        /\ closed.cleanup = m.cleanup /\ closed.ids = m.ids
        /\ closed.observed = m.observed /\ closed.state = "Disabled"
    BY <2>1 DEF ManagerType, States
  <2>3. obliged = closed  BY <1>2, <2>2 DEF createCleanupLocked
  <2> HIDE DEF s, closed, obliged
  <2>4. /\ m' \in ManagerType /\ Quiet(closed, m')
        /\ m'.timer = closed.timer /\ m'.gen = closed.gen /\ m'.expiry = closed.expiry
    BY <1>2, <1>7, <2>2, <2>3, MarkFields
  <2>5. /\ Closes(m, m') /\ m'.pending.id = 0 /\ m'.observed = m.observed
    <3>1. m.ids <= m.ids  BY <1>2 DEF ManagerType
    <3> QED  BY <1>2, <1>4, <2>2, <2>4, <3>1 DEF Closes, Quiet, SameEpochs, SameFlight
  <2>6. obliged.cleanup.attempt \in Nat
    BY <2>2, <2>3 DEF ManagerType, CleanupType
  <2> QED  BY <1>1, <1>2, <1>7, <2>4, <2>5, <2>6, RecordBegins
<1> QED  BY <1>6, <1>7 DEF DisableSettles

LEMMA IdleDisableSettlesStep ==
  ASSUME SessionInv, NEW p \in Procs, IdleDisableSettles(p)
  PROVE  SessionInv' /\ Steady(m, m')
<1> DEFINE x == proc[p]
           crossed == m.pending.invalidated \/ m.observed > x.epoch
           s == [m EXCEPT !.pending = NoOperation]
           over == [s EXCEPT !.pendingEpoch = 0, !.transport = m.observed]
           ended == endSession(over, x.target, m.observed, x.op)
           closed == [releaseOwnerLocked(s) EXCEPT !.state = "Disabled"]
           marked == markAttempt(createCleanupLocked(closed, x.target, x.epoch, x.op), x.epoch)
<1>1. Settling(p, "idle") /\ UNCHANGED <<emissionMu, wire>> /\ Finish(p)
  BY DEF IdleDisableSettles
<1>2. /\ m \in ManagerType /\ proc \in [Procs -> ProcType]
      /\ Mine(x, m) /\ ~m.restarted /\ x.target \in Targets \cup {NoTarget} /\ x.op \in Nat
      /\ m.observed \in Epochs /\ m.pending.kind = "disable" /\ m.cleanup.attempt # 0
  BY <1>1, SettlingFacts DEF Kinds, FrameKind
<1>2a. x.epoch \in Epochs /\ x.out \in Outcomes \cup {"none"} /\ 0 \in Epochs
  BY <1>2, SessionAssumption DEF ProcType, Epochs
<1>3. /\ s \in ManagerType /\ s.pending.id = 0 /\ s.expiry = m.expiry
      /\ s.restarted = m.restarted /\ s.cleanup = m.cleanup /\ s.ids = m.ids
      /\ s.observed = m.observed
  BY <1>2, NoneTyped DEF ManagerType
<1>4. m.expiry = FALSE  BY <1>2 DEF SessionInv, Gate, ManagerType
<1>5. CASE m' = [ended EXCEPT !.cleanup.epoch = m.observed]
  <2> HIDE DEF s
  <2>1. /\ over \in ManagerType /\ over.pending.id = 0 /\ over.cleanup = m.cleanup
        /\ over.restarted = m.restarted /\ over.ids = m.ids /\ over.observed = m.observed
    BY <1>2, <1>2a, <1>3 DEF ManagerType
  <2> HIDE DEF over
  <2>2. Ends(over, ended, x.target)  BY <1>2, <2>1, EndFields
  <2> HIDE DEF ended
  <2>3. /\ Closes(m, ended) /\ ended.pending = over.pending /\ ended.observed = m.observed
        /\ ended \in ManagerType
    BY <1>2, <2>1, <2>2, EndedCloses
  <2> DEFINE c == [ended.cleanup EXCEPT !.epoch = m.observed]
  <2>4. c \in CleanupType /\ c.attempt = ended.cleanup.attempt /\ c.target = ended.cleanup.target
    BY <1>2, <2>3 DEF ManagerType, CleanupType
  <2>5. m' = [ended EXCEPT !.cleanup = c]  BY <1>5, <2>3 DEF ManagerType
  <2> HIDE DEF c
  <2>6. /\ m' \in ManagerType /\ m'.pending = ended.pending /\ m'.observed = ended.observed
        /\ m'.state = ended.state /\ m'.held = ended.held /\ m'.timer = ended.timer
        /\ m'.gen = ended.gen /\ m'.expiry = ended.expiry /\ m'.restarted = ended.restarted
        /\ m'.cleanup = c /\ m'.ids = ended.ids
    BY <2>3, <2>4, <2>5 DEF ManagerType
  <2>7. /\ Closes(m, m') /\ m'.pending.id = 0 /\ m'.observed = m.observed
    BY <2>1, <2>3, <2>4, <2>6 DEF Closes
  <2> QED  BY <1>1, <1>2, <2>6, <2>7, FinishCloses
<1>6. CASE m' = [marked EXCEPT !.cleanup.last = x.out]
  <2> DEFINE u == releaseOwnerLocked(s)
  <2> HIDE DEF s
  <2>1. /\ u \in ManagerType /\ SameEpochs(s, u) /\ SameFlight(s, u)
        /\ u.timer = 0 /\ u.held = FALSE /\ u.cleanup = s.cleanup
        /\ u.expiry = s.expiry /\ u.ids = s.ids
    BY <1>3, ReleaseFields
  <2>2. closed = [u EXCEPT !.state = "Disabled"]  OBVIOUS
  <2> HIDE DEF u, closed
  <2>3. /\ closed \in ManagerType /\ closed.pending = u.pending /\ closed.held = FALSE
        /\ closed.timer = 0 /\ closed.expiry = FALSE /\ closed.restarted = m.restarted
        /\ closed.cleanup = m.cleanup /\ closed.ids = m.ids
        /\ closed.observed = m.observed /\ closed.state = "Disabled"
    BY <1>3, <1>4, <2>1, <2>2 DEF ManagerType, States, SameEpochs, SameFlight
  <2>4. createCleanupLocked(closed, x.target, x.epoch, x.op) = closed
    BY <1>2, <2>3 DEF createCleanupLocked
  <2>5. /\ marked \in ManagerType /\ Quiet(closed, marked)
        /\ marked.timer = closed.timer /\ marked.expiry = closed.expiry
    BY <1>2a, <2>3, <2>4, MarkFields
  <2> HIDE DEF marked
  <2> DEFINE c == [marked.cleanup EXCEPT !.last = x.out]
  <2>6. c \in CleanupType /\ c.attempt = marked.cleanup.attempt /\ c.target = marked.cleanup.target
    BY <1>2a, <2>5 DEF ManagerType, CleanupType
  <2>7. m' = [marked EXCEPT !.cleanup = c]  BY <1>6, <2>5 DEF ManagerType
  <2> HIDE DEF c
  <2>8. /\ m' \in ManagerType /\ m'.pending = marked.pending /\ m'.observed = marked.observed
        /\ m'.state = marked.state /\ m'.held = marked.held /\ m'.timer = marked.timer
        /\ m'.expiry = marked.expiry /\ m'.restarted = marked.restarted
        /\ m'.cleanup = c /\ m'.ids = marked.ids
    BY <2>5, <2>6, <2>7 DEF ManagerType
  <2>9. m.ids <= m.ids  BY <1>2 DEF ManagerType
  <2>10. /\ Closes(m, m') /\ m'.pending.id = 0 /\ m'.observed = m.observed
    BY <1>2, <1>3, <2>1, <2>3, <2>5, <2>6, <2>8, <2>9 DEF Closes, Quiet, SameEpochs, SameFlight
  <2> QED  BY <1>1, <1>2, <2>8, <2>10, FinishCloses
<1> QED  BY <1>5, <1>6 DEF IdleDisableSettles

-----------------------------------------------------------------------------
(* The invariant.                                                          *)

LEMMA SessionInit == Init => SessionInv
<1> SUFFICES ASSUME Init  PROVE SessionInv
  OBVIOUS
<1>1. 0 \in Epochs  BY SessionAssumption DEF Epochs
<1>2. /\ m \in ManagerType /\ m.state = "Idle" /\ m.held = FALSE /\ m.transport = 0
      /\ m.observed = 0 /\ m.pendingEpoch = 0 /\ m.pending = NoOperation
      /\ m.cleanup = NoCleanup /\ m.timer = 0 /\ m.expiry = FALSE
      /\ m.restarted = FALSE /\ m.ids = 0
  BY <1>1, NoneTyped DEF Init, ManagerType, States
<1>3. proc \in [Procs -> ProcType] /\ \A p \in Procs : proc[p] = IdleProc
  BY NoneTyped DEF Init
<1>4. wire = <<>> /\ emissionMu = NoProc  BY DEF Init
<1>5. wire \in Seq([kind : {"enable", "disable"}, target : Targets])
  BY <1>4
<1>6. TypeOK  BY <1>2, <1>3, <1>4, <1>5 DEF TypeOK
<1>7. Gate(m) /\ Bound(m) /\ Watched(m, proc)
  BY <1>2, NoneTyped DEF Gate, Bound, Watched, Owning
<1>8. Slot(m, wire)
  BY <1>2, <1>4, NoneTyped DEF Slot, IdleSlot, EnablingSlot, OwnedSlot, ClosedSlot, ObligedSlot, Logged
<1>9. Workers(proc, m, wire, emissionMu)
  BY <1>3, WorkerIdle DEF Workers
<1>10. Apart(proc)
  <2>1. IdleProc.op = 0 /\ IdleProc.pc # "cleanup"  BY DEF IdleProc
  <2> QED  BY <1>3, <2>1 DEF Apart
<1> QED  BY <1>6, <1>7, <1>8, <1>9, <1>10 DEF SessionInv

LEMMA UnchangedKeeps ==
  ASSUME SessionInv, UNCHANGED vars
  PROVE  SessionInv' /\ Steady(m, m')
<1>1. m' = m /\ emissionMu' = emissionMu /\ proc' = proc /\ wire' = wire  BY DEF vars
<1>2. SessionInv'  BY <1>1 DEF SessionInv, TypeOK
<1> QED  BY <1>1, <1>2 DEF Steady

(* Every step but a restart keeps the invariant and is steady.             *)
LEMMA SessionNext ==
  ASSUME SessionInv, [Next]_vars
  PROVE  SessionInv' /\ (Steady(m, m') \/ Restart)
<1>1. \A c \in Callers : c \in Procs  BY DEF Procs
<1>2. \A b \in Callbacks : b \in Procs  BY DEF Procs
<1>3. ASSUME NEW c \in Callers, Call(c)
      PROVE  SessionInv' /\ Steady(m, m')
  <2>1. PICK t \in Targets : \/ BeginEnable(c, t)
                             \/ beginOwnerOperation(c, "read", t)
                             \/ beginOwnerOperation(c, "disable", t)
    BY <1>3 DEF Call
  <2>2. CASE BeginEnable(c, t)  BY <1>1, <2>2, BeginEnableStep
  <2>3. CASE beginOwnerOperation(c, "read", t)  BY <2>3, BeginOwnerStep
  <2>4. CASE beginOwnerOperation(c, "disable", t)  BY <2>4, BeginOwnerStep
  <2> QED  BY <2>1, <2>2, <2>3, <2>4
<1>4. ASSUME NEW c \in Callers, CallerStep(c)
      PROVE  SessionInv' /\ Steady(m, m')
  <2>1. ASSUME NEW r \in RefreshResults,
               OwnerRefreshFenced(c, r) \/ OwnerRefreshed(c, r) \/ OwnerRefreshFailed(c, r)
        PROVE  SessionInv' /\ Steady(m, m')
    BY <1>1, <2>1, OwnerRefreshStep
  <2>2. CASE StopTimer(c)  BY <1>1, <2>2, StopTimerStep
  <2>3. CASE EnableSettles(c)  BY <1>1, <2>3, EnableSettlesStep
  <2>4. CASE ReadSettles(c)  BY <1>1, <2>4, ReadSettlesStep
  <2>5. CASE DisableSettles(c)  BY <1>1, <2>5, DisableSettlesStep
  <2> QED  BY <1>4, <2>1, <2>2, <2>3, <2>4, <2>5 DEF CallerStep
<1>5. ASSUME NEW b \in Callbacks, CallbackStep(b)
      PROVE  SessionInv' /\ Steady(m, m')
  <2>1. ASSUME NEW r \in RefreshResults, IdleRefreshRefused(b, r) \/ IdleRefreshed(b, r)
        PROVE  SessionInv' /\ Steady(m, m')
    BY <2>1, IdleRefreshStep
  <2>2. CASE TimerElapses(b)  BY <2>2, ElapseStep
  <2>3. CASE idleTimerFired(b)  BY <2>3, TimerFiredStep
  <2>4. CASE IdleDisableSettles(b)  BY <1>2, <2>4, IdleDisableSettlesStep
  <2> QED  BY <1>5, <2>1, <2>2, <2>3, <2>4 DEF CallbackStep
<1>6. ASSUME NEW p \in Procs, DispatchStep(p)
      PROVE  SessionInv' /\ Steady(m, m')
  <2>1. CASE RefreshAbandoned(p) \/ OutcomeAbandoned(p)  BY <2>1, AbandonedStep
  <2>2. CASE IssueRequest(p)  BY <2>2, IssueStep
  <2>3. CASE SourceNotAdmitted(p) \/ ContextExpires(p) \/ EmissionRefused(p)
    BY <2>3, RefusedStep
  <2>4. CASE disconnectIfCurrent(p)  BY <2>4, DisconnectStep
  <2>5. CASE BeginPendingEmission(p)  BY <2>5, EmissionStep
  <2>6. ASSUME NEW out \in Outcomes, SendReturns(p, out)
        PROVE  SessionInv' /\ Steady(m, m')
    BY <2>6, SendReturnsStep
  <2>7. ASSUME NEW out \in Outcomes, classifySendErr(p, out)
        PROVE  SessionInv' /\ Steady(m, m')
    BY <2>7, ClassifyStep
  <2>8. CASE attemptCleanup(p)  BY <2>8, AttemptStep
  <2>9. CASE CleanupSettles(p)  BY <2>9, CleanupSettlesStep
  <2>10. CASE recordCleanupOutcome(p)  BY <2>10, RecordStep
  <2> QED  BY <1>6, <2>1, <2>2, <2>3, <2>4, <2>5, <2>6, <2>7, <2>8, <2>9, <2>10
           DEF DispatchStep
<1>7. ASSUME NEW epoch \in Epochs, EBusDriverActivated(epoch)
      PROVE  SessionInv' /\ Steady(m, m')
  BY <1>7, ActivatedStep
<1>8. CASE EBusDriverWithdrawn  BY <1>8, WithdrawnStep
<1>9. CASE Restart  BY <1>9, RestartStep
<1>10. CASE UNCHANGED vars  BY <1>10, UnchangedKeeps
<1> QED  BY <1>3, <1>4, <1>5, <1>6, <1>7, <1>8, <1>9, <1>10 DEF Next

(* The invariant of the session manager holds in every reachable state:    *)
(* the gate, the timer, the wire log and what each goroutine knows of the  *)
(* operation in flight agree whatever interleaves.                         *)
THEOREM SessionInvariant == Spec => []SessionInv
<1>1. SessionInv /\ [Next]_vars => SessionInv'  BY SessionNext
<1> QED  BY <1>1, SessionInit, PTL DEF Spec

(* The gate of the Manager is held exactly in its owner states; an Idle    *)
(* manager has nothing in flight and nothing retained and is bound to the  *)
(* newest transport; a deferred expiry has its reader; an active session   *)
(* has a timer, a callback on its way or an operation in flight.           *)
THEOREM SessionGate == Spec => []GateMatchesState
<1>1. SessionInv => GateMatchesState
  <2> SUFFICES ASSUME SessionInv  PROVE GateMatchesState
    OBVIOUS
  <2>1. TypeOK /\ Gate(m) /\ Slot(m, wire) /\ Watched(m, proc)  BY DEF SessionInv
  <2>2. ExpiryHasReader  BY <2>1 DEF Gate, ExpiryHasReader, HasPending
  <2>3. ActiveIsWatched  BY <2>1 DEF Watched, Fired, ActiveIsWatched, HasPending, At
  <2>4. m.held <=> m.state \in {"Enabling", "Active", "Refreshing"}
    BY <2>1 DEF Gate, Owning
  <2>5. m.state = "Idle" => ~HasPending /\ ~HasCleanup /\ m.transport = m.observed
    BY <2>1 DEF Slot, IdleSlot, HasPending, HasCleanup
  <2> QED  BY <2>1, <2>2, <2>3, <2>4, <2>5 DEF GateMatchesState
<1> QED  BY <1>1, SessionInvariant, PTL

(* A process writes at most one live-monitor enable, then at most one      *)
(* disable, of the same target, however its calls, its timer callbacks,    *)
(* the retained cleanup and the transport interleave.                      *)
THEOREM SessionWire == Spec => []WireDiscipline
<1>1. SessionInv => WireDiscipline  BY LoggedIsDisciplined DEF SessionInv, Slot
<1> QED  BY <1>1, SessionInvariant, PTL

(* An owner's frame is inside bus.Send only in the transport generation it *)
(* was issued for: admission, invalidation and the emission lock together  *)
(* fence every epoch advance.                                              *)
THEOREM SessionFrames == Spec => []FrameInGeneration
<1>1. SessionInv => FrameInGeneration
  BY DEF SessionInv, Workers, Worker, Sending, FrameInGeneration, At
<1> QED  BY <1>1, SessionInvariant, PTL

-----------------------------------------------------------------------------
(* The manager implements LiveMonitorContract.                             *)

(* An enable may have reached the device.                                  *)
Owed(s) ==
    \/ s.cleanup.attempt # 0
    \/ s.pending.id # 0 /\ s.pending.kind = "enable" /\ s.pending.emitted

(* Until a restart the obligation is what the wire log says it is.         *)
LEMMA OwedIsLogged ==
  ASSUME NEW s \in ManagerType, NEW w, Gate(s), Slot(s, w)
  PROVE  /\ s.restarted => ~s.held /\ ~Owed(s)
         /\ ~s.restarted => (Owed(s) <=> w # <<>>)
         /\ ~s.restarted /\ Owed(s) /\ ~s.held => s.state = "Disabled"
         /\ ~s.restarted /\ ~Owed(s) => s.state = "Idle" \/ s.state = "Enabling"
<1>1. s.state \in States  BY DEF ManagerType
<1>2. s.restarted => ~s.held /\ ~Owed(s)  BY DEF Gate, Owed, Owning
<1>3. CASE s.state = "Idle"
  BY <1>2, <1>3 DEF Slot, IdleSlot, Owed
<1>4. CASE s.state = "Enabling"
  BY <1>2, <1>4, WireFacts DEF Slot, EnablingSlot, Owed, Gate, Owning
<1>5. CASE s.state \in {"Active", "Refreshing"}
  BY <1>2, <1>5, WireFacts DEF Slot, OwnedSlot, Owed, Gate, Owning
<1>6. CASE s.state = "Disabled"
  BY <1>2, <1>6, WireFacts DEF Slot, ObligedSlot, Owed, Gate
<1> QED  BY <1>1, <1>3, <1>4, <1>5, <1>6 DEF States

(* Only an emission writes to the wire.                                    *)
LEMMA WireKept ==
  ASSUME [Next]_vars
  PROVE  wire' = wire \/ \E p \in Procs : BeginPendingEmission(p)
<1>1. ASSUME NEW c \in Callers, Call(c) \/ CallerStep(c)
      PROVE  wire' = wire
  BY <1>1 DEF Call, CallerStep, BeginEnable, beginOwnerOperation, OwnerRefreshFenced,
     OwnerRefreshed, OwnerRefreshFailed, StopTimer, EnableSettles, ReadSettles, DisableSettles
<1>2. ASSUME NEW b \in Callbacks, CallbackStep(b)
      PROVE  wire' = wire
  BY <1>2 DEF CallbackStep, TimerElapses, idleTimerFired, IdleDisableSettles,
     IdleRefreshRefused, IdleRefreshed
<1>3. ASSUME NEW p \in Procs, DispatchStep(p), ~BeginPendingEmission(p)
      PROVE  wire' = wire
  BY <1>3 DEF DispatchStep, RefreshAbandoned, OutcomeAbandoned, IssueRequest,
     SourceNotAdmitted, disconnectIfCurrent, ContextExpires, EmissionRefused,
     SendReturns, classifySendErr, attemptCleanup, CleanupSettles, recordCleanupOutcome
<1>4. ASSUME NEW epoch \in Epochs, EBusDriverActivated(epoch)
      PROVE  wire' = wire
  BY <1>4 DEF EBusDriverActivated
<1>5. CASE EBusDriverWithdrawn \/ Restart \/ UNCHANGED vars
  BY <1>5 DEF EBusDriverWithdrawn, Restart, vars
<1> QED  BY <1>1, <1>2, <1>3, <1>4, <1>5 DEF Next

LEMMA EmissionFields ==
  ASSUME SessionInv, NEW p \in Procs, BeginPendingEmission(p)
  PROVE  /\ m'.held = m.held /\ m'.restarted = m.restarted /\ m'.state = m.state
         /\ ~m.restarted /\ m.state # "Idle" /\ (m.pending.kind # "read" => wire' # <<>>)
         /\ m.pending.kind = "read" => wire' = wire
<1>1. /\ m \in ManagerType /\ Gate(m) /\ Slot(m, wire) /\ Worker(p, proc[p], m, wire, emissionMu)
      /\ proc[p].pc = "queued" /\ m.pending.id = proc[p].op /\ m' = [m EXCEPT !.pending.emitted = TRUE]
      /\ wire \in Seq([kind : {"enable", "disable"}, target : Targets])
  BY DEF SessionInv, TypeOK, Workers, BeginPendingEmission, admitPendingEmissionLocked, At, Current
<1>2. m.pending.id # 0  BY <1>1 DEF Worker, Places, Working
<1>3. ~m.restarted /\ m.state # "Idle"  BY <1>1, <1>2 DEF Gate, Slot, IdleSlot
<1>4. m'.held = m.held /\ m'.restarted = m.restarted /\ m'.state = m.state
  BY <1>1 DEF ManagerType
<1>5. m.pending.kind # "read" =>
        wire' = Append(wire, [kind |-> m.pending.kind, target |-> proc[p].target])
  BY DEF BeginPendingEmission
<1>6. m.pending.kind # "read" => wire' # <<>>
  <2> DEFINE e == [kind |-> m.pending.kind, target |-> proc[p].target]
  <2> HIDE DEF e
  <2>1. Append(wire, e) # <<>>  BY <1>1
  <2> QED  BY <1>5, <2>1 DEF e
<1>7. m.pending.kind = "read" => wire' = wire  BY DEF BeginPendingEmission
<1> QED  BY <1>3, <1>4, <1>6, <1>7

(* What a step of the manager is in the contract.                          *)
ContractStep(s, z) ==
    LET same == (z.held <=> s.held) /\ (Owed(z) <=> Owed(s)) /\ (z.restarted <=> s.restarted)
    IN  \/ same
        \/ /\ ~s.held /\ ~Owed(s) /\ ~s.restarted
           /\ z.held /\ ~Owed(z) /\ ~z.restarted
        \/ /\ s.held /\ ~Owed(s) /\ ~z.held /\ ~Owed(z) /\ (z.restarted <=> s.restarted)
        \/ /\ s.held /\ ~Owed(s) /\ z.held /\ Owed(z) /\ (z.restarted <=> s.restarted)
        \/ /\ s.held /\ Owed(s) /\ ~z.held /\ Owed(z) /\ (z.restarted <=> s.restarted)
        \/ ~s.restarted /\ z.restarted /\ ~z.held /\ ~Owed(z)

LEMMA StepsRefine ==
  ASSUME SessionInv, [Next]_vars
  PROVE  ContractStep(m, m')
<1>1. SessionInv' /\ (Steady(m, m') \/ Restart)  BY SessionNext
<1>2. m \in ManagerType /\ Gate(m) /\ Slot(m, wire)  BY DEF SessionInv, TypeOK
<1>3. m' \in ManagerType /\ Gate(m') /\ Slot(m', wire')  BY <1>1 DEF SessionInv, TypeOK
<1>4. /\ m.restarted => ~m.held /\ ~Owed(m)
      /\ ~m.restarted => (Owed(m) <=> wire # <<>>)
      /\ ~m.restarted /\ Owed(m) /\ ~m.held => m.state = "Disabled"
      /\ ~m.restarted /\ ~Owed(m) => m.state = "Idle" \/ m.state = "Enabling"
  BY <1>2, OwedIsLogged
<1>5. /\ m'.restarted => ~m'.held /\ ~Owed(m')
      /\ ~m'.restarted => (Owed(m') <=> wire' # <<>>)
  BY <1>3, OwedIsLogged
<1>6. m'.state = "Disabled" => ~m'.held  BY <1>3 DEF Gate, Owning
<1>7. CASE Restart
  <2>1. ~m.restarted /\ m'.restarted
    BY <1>2, <1>7, RestartFields DEF Restart
  <2> QED  BY <1>5, <2>1 DEF ContractStep
<1>8. CASE Steady(m, m') /\ wire' = wire
  BY <1>4, <1>5, <1>6, <1>8 DEF ContractStep, Steady
<1>9. ASSUME NEW p \in Procs, BeginPendingEmission(p)
      PROVE  ContractStep(m, m')
  <2>1. /\ m'.held = m.held /\ m'.restarted = m.restarted /\ m'.state = m.state
        /\ ~m.restarted /\ m.state # "Idle" /\ (m.pending.kind # "read" => wire' # <<>>)
        /\ m.pending.kind = "read" => wire' = wire
    BY <1>9, EmissionFields
  <2>2. ~Owed(m) => m.held  BY <1>2, <1>4, <2>1 DEF Gate, Owning
  <2> QED  BY <1>4, <1>5, <2>1, <2>2 DEF ContractStep
<1> QED  BY <1>1, <1>7, <1>8, <1>9, WireKept

LEMMA ContractStepMaps ==
  ASSUME ContractStep(m, m'), m \in ManagerType, m' \in ManagerType
  PROVE  [Contract!Next]_(Contract!contractVars)
<1> DEFINE owes == HasCleanup \/ (HasPending /\ m.pending.kind = "enable" /\ m.pending.emitted)
<1>1. (owes <=> Owed(m)) /\ (owes' <=> Owed(m'))
  BY DEF Owed, HasCleanup, HasPending
<1>2. /\ m.held \in BOOLEAN /\ m'.held \in BOOLEAN
      /\ m.restarted \in BOOLEAN /\ m'.restarted \in BOOLEAN
  BY DEF ManagerType
<1>3. CASE /\ (m'.held <=> m.held) /\ (owes' <=> owes) /\ (m'.restarted <=> m.restarted)
  <2>1. m'.held = m.held /\ m'.restarted = m.restarted  BY <1>2, <1>3
  <2>2. owes' = owes  BY <1>3
  <2> QED  BY <2>1, <2>2 DEF Contract!contractVars
<1>4. CASE /\ ~m.held /\ ~owes /\ ~m.restarted
           /\ m'.held /\ ~owes' /\ ~m'.restarted
  <2>1. m'.restarted = m.restarted  BY <1>2, <1>4
  <2>2. owes' = owes  BY <1>4
  <2> QED  BY <1>4, <2>1, <2>2 DEF Contract!Next, Contract!Claim
<1>5. CASE m.held /\ ~owes /\ ~m'.held /\ ~owes' /\ (m'.restarted <=> m.restarted)
  <2>1. m'.restarted = m.restarted  BY <1>2, <1>5
  <2>2. owes' = owes  BY <1>5
  <2> QED  BY <1>5, <2>1, <2>2 DEF Contract!Next, Contract!Abandon
<1>6. CASE m.held /\ ~owes /\ m'.held /\ owes' /\ (m'.restarted <=> m.restarted)
  <2>1. m'.restarted = m.restarted /\ m'.held = m.held  BY <1>2, <1>6
  <2> QED  BY <1>6, <2>1 DEF Contract!Next, Contract!Emit
<1>7. CASE m.held /\ owes /\ ~m'.held /\ owes' /\ (m'.restarted <=> m.restarted)
  <2>1. m'.restarted = m.restarted  BY <1>2, <1>7
  <2>2. owes' = owes  BY <1>7
  <2> QED  BY <1>7, <2>1, <2>2 DEF Contract!Next, Contract!Release
<1>8. CASE ~m.restarted /\ m'.restarted /\ ~m'.held /\ ~owes'
  BY <1>8 DEF Contract!Next, Contract!Restart
<1> HIDE DEF owes
<1> QED  BY <1>1, <1>3, <1>4, <1>5, <1>6, <1>7, <1>8 DEF ContractStep

(* The Manager implements LiveMonitorContract: every step of every         *)
(* goroutine is a claim, an abandonment before anything was sent, an       *)
(* emission, a release that keeps the obligation, a restart, or nothing.   *)
THEOREM SessionContract == Spec => ImplementsContract
<1>1. Init => Contract!Init
  <2> SUFFICES ASSUME Init  PROVE Contract!Init
    OBVIOUS
  <2>1. ~m.held /\ ~m.restarted /\ m.cleanup = NoCleanup /\ m.pending = NoOperation
    BY DEF Init
  <2>2. ~HasCleanup /\ ~HasPending  BY <2>1, NoneTyped DEF HasCleanup, HasPending
  <2> QED  BY <2>1, <2>2 DEF Contract!Init
<1>2. SessionInv /\ [Next]_vars => [Contract!Next]_(Contract!contractVars)
  <2> SUFFICES ASSUME SessionInv, [Next]_vars
               PROVE  [Contract!Next]_(Contract!contractVars)
    OBVIOUS
  <2>1. m \in ManagerType /\ m' \in ManagerType
    BY SessionNext DEF SessionInv, TypeOK
  <2> QED  BY <2>1, StepsRefine, ContractStepMaps
<1> QED  BY <1>1, <1>2, SessionInvariant, PTL DEF Spec, ImplementsContract, Contract!Spec
=============================================================================
