------------------------------ MODULE RuntimeState ------------------------------
(***************************************************************************)
(* The runtime-state store: one JSON file, its sole writer (the Manager of *)
(* internal/runtimestate) and the runtime_control namespace inside it,     *)
(* through filesystem failures, crashes and restarts.  A write holds the   *)
(* writer slot (writeSem) from its snapshot to its last effect, one action *)
(* per filesystem call; what happens under the slot without touching the   *)
(* disk is one action.  A refused request changes nothing and is no step.  *)
(***************************************************************************)
EXTENDS Naturals, FiniteSets

CONSTANTS
    Drivers,            \* driver ids, numbers in bytewise order
    Addrs,              \* bus addresses
    Phases,             \* of a transition: PENDING is 0, ACTIVE 1, CLEANUP 2
    NoWork,                     \* an empty slot
    NoRecord, BadRecord,        \* no record; one kept as its bytes
    NoNamespace, BadNamespace,  \* no namespace; one kept as its bytes
    NoStage,                    \* no control write awaits its readback
    AbsentFile, CorruptFile,    \* no file; one that is no state file
    MaxCounter,         \* the largest counter: addCounter refuses to pass it
    MaxRecords,         \* MaxControlDriverRecords
    MaxChanges, MaxBoots,       \* over all processes, offline resets included
    MaxUnsynced,        \* directory states a power loss may choose from
    BrokenCounters      \* what a broken namespace or record may still hold

ASSUME StateBounds ==
    /\ Drivers \subseteq Nat \ {0}
    /\ IsFiniteSet(Drivers)
    /\ Phases \subseteq 0 .. 2 /\ 0 \in Phases
    /\ {MaxCounter, MaxRecords, MaxChanges, MaxBoots, MaxUnsynced} \subseteq Nat
    /\ 2 <= MaxCounter /\ MaxRecords <= MaxCounter
    /\ BrokenCounters \subseteq 0 .. MaxCounter

-----------------------------------------------------------------------------
(* Control records                                                           *)

Methods == {"START", "STOP", "RESTART"}

\* The correlation, the obligations and the budgets of a transition are the
\* service's business; the store keeps them with the phase.
Transitions ==
    [kind : Methods, rev : 1 .. MaxCounter, seq : 1 .. MaxCounter,
     phase : Phases]

Slots == Transitions \cup {NoWork}

Records ==
    [desired : {"RUNNING", "STOPPED"}, rev : 1 .. MaxCounter, seq : 0 .. MaxCounter,
     cur : Slots, res : Slots]

Namespaces ==
    [mark : 0 .. MaxCounter,
     rec : [Drivers -> Records \cup {NoRecord, BadRecord}],
     recovery : SUBSET Drivers]

\* The catalog revision moves with every registration and decision and is
\* compared with nothing here: it is left out.
Namespace(mark, rec, recovery) == [mark |-> mark, rec |-> rec, recovery |-> recovery]

Decoded(ctl) == ctl \notin {NoNamespace, BadNamespace}
Recorded(ctl, d) == ctl.rec[d] \notin {NoRecord, BadRecord}

\* currentViewLocked: a driver without a record shows the mark and STOPPED.
Revision(ctl, d) == IF Recorded(ctl, d) THEN ctl.rec[d].rev ELSE ctl.mark
Desired(ctl, d) == IF Recorded(ctl, d) THEN ctl.rec[d].desired ELSE "STOPPED"

NewRecord == [desired |-> "STOPPED", rev |-> 0, seq |-> 0, cur |-> NoWork, res |-> NoWork]

-----------------------------------------------------------------------------
(* Decisions and work updates, from a namespace to a namespace               *)

\* DefaultControlPlanner, with the sequences applyControlPlan assigns.
Planned(r, method, rev) ==
    LET next == [kind |-> method, rev |-> rev, seq |-> r.seq + 1,
                 phase |-> 0]
    IN  IF r.cur = NoWork THEN [r EXCEPT !.cur = next, !.seq = @ + 1]
        ELSE [r EXCEPT !.res = next, !.seq = @ + 1]

SlotsFree(r) ==
    \/ r.cur = NoWork
    \/ r.res = NoWork /\ r.cur # NoWork /\ r.cur.kind # "RESTART"

StoredRecord(ctl, d) == IF ctl.rec[d] = NoRecord THEN NewRecord ELSE ctl.rec[d]

\* Rows 6 to 10 of DecideControl, for a request that names the current revision.
Decidable(ctl, d, method) ==
    LET r == StoredRecord(ctl, d)
    IN  /\ ~(method = "START" /\ r.desired = "RUNNING")
        /\ ~(method = "STOP" /\ r.desired = "STOPPED")
        /\ method = "RESTART" => r.desired = "RUNNING"
        /\ SlotsFree(r)
        /\ ctl.rec[d] = NoRecord =>
              Cardinality({e \in Drivers : ctl.rec[e] # NoRecord}) < MaxRecords
        /\ ctl.mark < MaxCounter /\ r.seq < MaxCounter

Decided(ctl, d, method) ==
    LET rev == ctl.mark + 1
        r == Planned(StoredRecord(ctl, d), method, rev)
    IN  Namespace(rev,
                  [ctl.rec EXCEPT ![d] =
                     [r EXCEPT !.rev = rev,
                               !.desired = IF method = "STOP" THEN "STOPPED" ELSE "RUNNING"]],
                  ctl.recovery)

SameIdentity(a, b) ==
    a # NoWork /\ b # NoWork /\ a.seq = b.seq /\ a.rev = b.rev /\ a.kind = b.kind

\* controlRegression: like the phase, the attempts, the deadline, the
\* correlation and its obligations only move one way.
Regresses(stored, next) == next.phase < stored.phase

Progresses(r, t) ==
    \/ t = NoWork
    \/ SameIdentity(t, r.cur) /\ ~Regresses(r.cur, t)
    \/ SameIdentity(t, r.res) /\ ~Regresses(r.res, t)

\* Mutant: the worker may forget what was reserved behind its transition.
WorkForgetsReserved(r, cur, res) ==
    /\ Progresses(r, cur) /\ Progresses(r, res)
    /\ res # NoWork => SameIdentity(res, r.res) /\ cur # NoWork /\ cur.seq < res.seq

\* CommitControlWork's checks of a worker's (cur, res) against the record.
WorkAllowed(r, cur, res) ==
    /\ Progresses(r, cur) /\ Progresses(r, res)
    /\ res # NoWork => SameIdentity(res, r.res) /\ cur # NoWork /\ cur.seq < res.seq
    /\ r.res # NoWork => SameIdentity(cur, r.res) \/ SameIdentity(res, r.res)

Worked(ctl, d, cur, res) ==
    [ctl EXCEPT !.rec[d].cur = cur, !.rec[d].res = res]

\* What a worker may hand in: any update of a transition that is stored.
Updates(t) == {NoWork} \cup
    IF t = NoWork THEN {}
    ELSE {[t EXCEPT !.phase = p] : p \in Phases}

-----------------------------------------------------------------------------
(* Registration (BootstrapControl)                                           *)

Dispositions == {"absent", "enabled", "disabled"}
Configured(cfg) == {d \in Drivers : cfg[d] # "absent"}

\* validateControlConfigs: what the gateway may register.
Configs == {cfg \in [Drivers -> Dispositions] : Cardinality(Configured(cfg)) <= MaxRecords}

Rank(cfg, d) == Cardinality({e \in Configured(cfg) : e <= d})

\* The one-time seed: every configured driver is one decision.
Seed(cfg) ==
    LET n == Cardinality(Configured(cfg))
    IN  Namespace(n,
          [d \in Drivers |->
             IF cfg[d] = "absent" THEN NoRecord
             ELSE [NewRecord EXCEPT !.rev = Rank(cfg, d),
                     !.desired = IF cfg[d] = "enabled" THEN "RUNNING" ELSE "STOPPED"]],
          {})

\* A record that may go: nothing in flight and no recovery material.
Retirable(ctl, cfg, d) ==
    /\ Recorded(ctl, d) /\ cfg[d] = "absent"
    /\ ctl.rec[d].cur = NoWork /\ ctl.rec[d].res = NoWork
    /\ d \notin ctl.recovery

\* The number of drivers that enter or leave the visible catalog; a process
\* registers once, so no driver was registered before.
Changes(ctl, cfg) ==
    Cardinality({d \in Drivers :
        \/ Retirable(ctl, cfg, d)
        \/ cfg[d] # "absent" /\ ctl.rec[d] = NoRecord})

Registered(ctl, cfg) ==
    Namespace(ctl.mark + Changes(ctl, cfg),
              [d \in Drivers |-> IF Retirable(ctl, cfg, d) THEN NoRecord ELSE ctl.rec[d]],
              ctl.recovery)

-----------------------------------------------------------------------------
(* Memory, writer and filesystem                                             *)

VARIABLES
    m,          \* the Manager; m.up says whether a process is running
    w,          \* the write that holds writeSem, or Idle
    fs,         \* the file and its quarantine copies
    lock,       \* who holds the store lock: "free", "manager" or "tool"
    acked,      \* history: the decisions and resets that were answered with success
    storage     \* history: what the storage did to bytes it had shown

vars == <<m, w, fs, lock, acked, storage>>

\* The self section and what is known of a member are not told apart.
EmptyContent == [guid |-> FALSE, members |-> {}]

\* A file is absent, not a state file at all, or a state.
File(content, ctl) == [content |-> content, ctl |-> ctl]
Parsed(f) == f \notin {AbsentFile, CorruptFile}

Contents == [guid : BOOLEAN, members : SUBSET Addrs]
StateFiles == [content : Contents, ctl : Namespaces \cup {NoNamespace, BadNamespace}]

\* What stands for something missing or undecoded is none of what is decoded.
ASSUME Apart ==
    /\ NoWork \notin Transitions
    /\ {NoRecord, BadRecord} \cap Records = {} /\ NoRecord # BadRecord
    /\ {NoNamespace, BadNamespace, NoStage} \cap Namespaces = {} /\ NoNamespace # BadNamespace
    /\ {AbsentFile, CorruptFile} \cap StateFiles = {} /\ AbsentFile # CorruptFile

\* What the directory shows, and everything a power loss may leave of it.
Entry(f, copies) == [file |-> f, copies |-> copies]
Durable(e) == [shown |-> e, kept |-> {e}]
Renamed(f, e) == [shown |-> e, kept |-> f.kept \cup {e}]
DirSynced(f) == Durable(f.shown)

Idle == [pc |-> "idle"]
Busy == w.pc # "idle"

NoConfigs == [d \in Drivers |-> "absent"]
Down(boots, changes) ==
    [up |-> FALSE, boots |-> boots, changes |-> changes, content |-> EmptyContent, ctl |-> NoNamespace,
     dirty |-> FALSE, gen |-> 0, status |-> "MISSING", ambiguous |-> NoStage,
     blocked |-> FALSE, stopped |-> FALSE, registered |-> FALSE, configs |-> NoConfigs]

\* What an earlier process may have left: nothing, bytes that are no state, a
\* namespace or a record that cannot be decoded, no namespace yet, counters at
\* their limit, a driver that is being started.
Starting ==
    [desired |-> "RUNNING", rev |-> 2, seq |-> 1, res |-> NoWork,
     cur |-> [kind |-> "START", rev |-> 2, seq |-> 1, phase |-> 0]]
FirstNamespaces ==
    {Namespace(1, [d \in Drivers |-> BadRecord], {}),
     Namespace(MaxCounter, [d \in Drivers |-> NoRecord], {})}
      \cup {Namespace(2, [e \in Drivers |-> IF e = d THEN Starting ELSE NoRecord], {}) :
               d \in Drivers}
FirstFiles ==
    {AbsentFile, CorruptFile, File(EmptyContent, BadNamespace)}
      \cup {File([guid |-> TRUE, members |-> Addrs], c) :
               c \in {NoNamespace} \cup FirstNamespaces}

Init ==
    /\ m = Down(0, 0)
    /\ w = Idle
    /\ \E f \in FirstFiles : fs = Durable(Entry(f, FALSE))
    /\ lock = "free"
    /\ acked = {}
    /\ storage = "sound"

-----------------------------------------------------------------------------
(* Load                                                                      *)

\* replaceState: a fresh base or new build metadata makes the state dirty.
Loaded(content, ctl, status, blocked, dirty) ==
    [Down(m.boots + 1, m.changes) EXCEPT !.up = TRUE, !.content = content, !.ctl = ctl,
        !.status = status, !.blocked = blocked, !.dirty = dirty,
        !.gen = IF dirty THEN 1 ELSE 0]

Boot == ~m.up /\ m.boots < MaxBoots /\ UNCHANGED <<w, acked, storage>>

\* missingControlDisposition; the directory may not be readable.
LoadedMissing(content, dirty, enumerated) ==
    Loaded(content, NoNamespace,
           IF ~enumerated THEN "UNREADABLE"
           ELSE IF fs.shown.copies THEN "MISSING_WITH_MATERIAL" ELSE "MISSING",
           ~enumerated, dirty)

LoadAbsent ==
    /\ Boot /\ lock = "free" /\ lock' = "manager"
    /\ fs.shown.file = AbsentFile
    /\ \E enumerated \in BOOLEAN : m' = LoadedMissing(EmptyContent, TRUE, enumerated)
    /\ UNCHANGED fs

LoadUnreadable ==
    /\ Boot /\ lock = "free" /\ lock' = "manager"
    /\ fs.shown.file # AbsentFile
    /\ m' = Loaded(EmptyContent, NoNamespace, "UNREADABLE", TRUE, TRUE)
    /\ UNCHANGED fs

\* The corrupt file is moved away, or else nothing is ever written over it.
LoadCorrupt ==
    /\ Boot /\ lock = "free" /\ lock' = "manager"
    /\ fs.shown.file = CorruptFile
    /\ \/ /\ fs' = Renamed(fs, Entry(AbsentFile, TRUE))
          /\ m' = Loaded(EmptyContent, NoNamespace, "CORRUPT", FALSE, TRUE)
       \/ /\ UNCHANGED fs
          /\ m' = Loaded(EmptyContent, NoNamespace, "CORRUPT", TRUE, TRUE)

\* Mutant: a namespace that cannot be decoded is read as none.
ParsedDropsBad(f, upgraded, enumerated) ==
    IF f.ctl \in {NoNamespace, BadNamespace}
    THEN LoadedMissing(f.content, upgraded, enumerated)
    ELSE Loaded(f.content, f.ctl, "LOADED", FALSE, upgraded)

ParsedState(f, upgraded, enumerated) ==
    CASE f.ctl = NoNamespace  -> LoadedMissing(f.content, upgraded, enumerated)
      [] f.ctl = BadNamespace -> Loaded(f.content, BadNamespace, "CORRUPT", FALSE, upgraded)
      [] OTHER                -> Loaded(f.content, f.ctl, "LOADED", FALSE, upgraded)

LoadParsed ==
    /\ Boot /\ lock = "free" /\ lock' = "manager"
    /\ Parsed(fs.shown.file)
    /\ \E upgraded, enumerated \in BOOLEAN :
          m' = ParsedState(fs.shown.file, upgraded, enumerated)
    /\ UNCHANGED fs

\* loadWithoutStoreLock: the lock is held elsewhere, or cannot be taken at all.
LoadLocked ==
    /\ Boot
    /\ LET f == fs.shown.file
       IN  \/ /\ Parsed(f)
              /\ \E upgraded \in BOOLEAN :
                    m' = Loaded(f.content, f.ctl, "LOCKED", TRUE, upgraded)
           \/ m' = Loaded(EmptyContent, NoNamespace, "LOCKED", TRUE, TRUE)
    /\ UNCHANGED <<fs, lock>>

-----------------------------------------------------------------------------
(* Generic state.  Every mutator runs under m.mu and leaves the disk alone.  *)

Mutate(content) ==
    /\ m.up /\ m.changes < MaxChanges
    /\ m' = [m EXCEPT !.content = content, !.dirty = TRUE, !.gen = @ + 1,
                        !.changes = @ + 1]
    /\ UNCHANGED <<w, fs, lock, acked, storage>>

\* EagerPersistInstanceGUID; its own flush waits for the writer slot (Flush).
SetGUID == Mutate([m.content EXCEPT !.guid = TRUE])
\* The new values differ only in what is left out; the state is dirty all the same.
UpdateSelf == Mutate(m.content)
UpsertKnownBusMember(a) == Mutate([m.content EXCEPT !.members = @ \cup {a}])
RefreshKnownBusMemberPresence(a) == UpsertKnownBusMember(a)

EvictKnownBusMember(a) ==
    a \in m.content.members /\ Mutate([m.content EXCEPT !.members = @ \ {a}])

-----------------------------------------------------------------------------
(* Writes                                                                    *)

\* A write takes the slot with a snapshot of the state and its generation.
Hold(op, snap, stage, extra) ==
    [pc |-> "rename", op |-> op, snap |-> snap, stage |-> stage, gen |-> m.gen, extra |-> extra]

\* persistFlushLocked refuses while blocked or while a control write awaits
\* its readback.
Flushable == ~m.blocked /\ m.ambiguous = NoStage

StartFlush(op) ==
    /\ m.up /\ ~Busy /\ m.dirty /\ Flushable
    /\ w' = Hold(op, File(m.content, m.ctl), NoStage, [what |-> "flush"])
    /\ UNCHANGED <<m, fs, lock, acked, storage>>

\* EagerPersistInstanceGUID, Flush and the ticker.
Flush == StartFlush("flush")

\* commitControl: the stage is written with the rest of the state; "extra" is
\* what the caller does once the stage is committed.
StartControl(stage, extra) ==
    /\ ~m.blocked
    /\ w' = Hold("control", File(m.content, stage), stage, extra)
    /\ LET registers == extra.what \in {"seed", "register"}
       IN  m' = [m EXCEPT !.registered = @ \/ registers,
                          !.changes = IF registers THEN @ ELSE @ + 1]
    /\ UNCHANGED <<fs, lock, acked, storage>>

\* Mutant: a write that ends after Stop keeps the writer slot.
EndedHeld == IF m.stopped THEN [pc |-> "held"] ELSE Idle

\* Stop's own flush goes on to close the store; every other write just ends.
Ended == IF w.op = "stop" THEN [pc |-> "closing"] ELSE Idle

\* A seed that fails still publishes the registration (as FAILED drivers).
Published == IF w.op = "control" /\ w.extra.what = "seed" THEN w.extra.configs ELSE m.configs

\* WriteFile or FsyncFile of the temporary file, or Rename fails: the old
\* file stays.
WriteFails ==
    /\ w.pc = "rename"
    /\ m' = [m EXCEPT !.configs = Published]
    /\ w' = Ended
    /\ UNCHANGED <<fs, lock, acked, storage>>

Rename ==
    /\ w.pc = "rename"
    /\ fs' = Renamed(fs, Entry(w.snap, fs.shown.copies))
    /\ w' = [w EXCEPT !.pc = "dir"]
    /\ UNCHANGED <<m, lock, acked, storage>>

\* Mutant: the directory is not synced.
DirFsyncSkipped ==
    /\ w.pc = "dir"
    /\ w' = [w EXCEPT !.pc = "commit"]
    /\ UNCHANGED <<m, fs, lock, acked, storage>>

DirFsync ==
    /\ w.pc = "dir"
    /\ fs' = DirSynced(fs)
    /\ w' = [w EXCEPT !.pc = "commit"]
    /\ UNCHANGED <<m, lock, acked, storage>>

\* Best effort for a generic write; for a control write the outcome is open.
DirFsyncFails ==
    /\ w.pc = "dir" /\ Cardinality(fs.kept) <= MaxUnsynced
    /\ w' = [w EXCEPT !.pc = IF w.op = "control" THEN "ambiguous" ELSE "commit"]
    /\ UNCHANGED <<m, fs, lock, acked, storage>>

\* Mutant: whatever changed meanwhile counts as written.
CleanedAlways(state) == [state EXCEPT !.dirty = FALSE]

\* Dirty is cleared only when nothing changed since the snapshot.
Cleaned(state) == [state EXCEPT !.dirty = IF m.gen = w.gen THEN FALSE ELSE @]

FlushCommitted ==
    /\ w.pc = "commit" /\ w.op # "control"
    /\ m' = Cleaned(m)
    /\ w' = Ended
    /\ UNCHANGED <<fs, lock, acked, storage>>

\* The stage is exposed, a registration is published, a decision is answered.
ControlCommitted ==
    /\ w.pc = "commit" /\ w.op = "control"
    /\ m' = [Cleaned(m) EXCEPT !.ctl = w.stage, !.status = "LOADED",
                !.configs = IF w.extra.what \in {"seed", "register"}
                            THEN w.extra.configs ELSE @]
    /\ acked' = IF w.extra.what = "decide" THEN acked \cup {w.extra.decision} ELSE acked
    /\ w' = Idle
    /\ UNCHANGED <<fs, lock, storage>>

ControlAmbiguous ==
    /\ w.pc = "ambiguous"
    /\ m' = [m EXCEPT !.ambiguous = w.stage, !.configs = Published]
    /\ w' = Idle
    /\ UNCHANGED <<fs, lock, acked, storage>>

-----------------------------------------------------------------------------
(* Control requests                                                          *)

Admitted == m.up /\ ~Busy /\ ~m.stopped

ControlOpen == Admitted /\ m.status = "LOADED" /\ Decoded(m.ctl) /\ m.ambiguous = NoStage

\* BootstrapControl: the gateway registers its drivers once, before the
\* control service runs.
Registers == Admitted /\ ~m.registered /\ m.ambiguous = NoStage

SeedControl(cfg) ==
    /\ Registers /\ m.status = "MISSING" /\ m.content.guid
    /\ StartControl(Seed(cfg), [what |-> "seed", configs |-> cfg])

RegisterControl(cfg) ==
    /\ Registers /\ ControlOpen
    /\ Changes(m.ctl, cfg) > 0
    /\ m.ctl.mark + Changes(m.ctl, cfg) <= MaxCounter
    /\ StartControl(Registered(m.ctl, cfg), [what |-> "register", configs |-> cfg])

\* Registrations that write nothing: no change to the catalog, no GUID yet,
\* persistence blocked before the seed, or a namespace that failed to load.
RegisterOnly(cfg) ==
    /\ Registers
    /\ \/ m.status = "LOADED" /\ Decoded(m.ctl) /\ Changes(m.ctl, cfg) = 0
       \/ m.status = "MISSING" /\ (~m.content.guid \/ m.blocked)
       \/ m.status \notin {"LOADED", "MISSING"}
    /\ m' = [m EXCEPT !.configs = cfg, !.registered = TRUE]
    /\ UNCHANGED <<w, fs, lock, acked, storage>>

\* Counters at their limit: the registration is refused and not published.
RegisterRefused(cfg) ==
    /\ Registers /\ ControlOpen
    /\ m.ctl.mark + Changes(m.ctl, cfg) > MaxCounter
    /\ m' = [m EXCEPT !.registered = TRUE]
    /\ UNCHANGED <<w, fs, lock, acked, storage>>

Serving == ControlOpen /\ m.registered /\ m.changes < MaxChanges

DecideControl(d, method) ==
    /\ Serving
    /\ m.configs[d] = "enabled" /\ m.ctl.rec[d] # BadRecord
    /\ Decidable(m.ctl, d, method)
    /\ LET stage == Decided(m.ctl, d, method)
       IN  StartControl(stage,
             [what |-> "decide",
              decision |-> [driver |-> d, expected |-> Revision(m.ctl, d),
                            rev |-> stage.rec[d].rev, desired |-> stage.rec[d].desired]])

CommitControlWork(d) ==
    /\ Serving
    /\ Recorded(m.ctl, d)
    /\ LET r == m.ctl.rec[d]
       IN  \E cur \in Updates(r.cur) \cup Updates(r.res), res \in Updates(r.res) :
             /\ <<cur, res>> # <<r.cur, r.res>>
             /\ WorkAllowed(r, cur, res)
             /\ StartControl(Worked(m.ctl, d, cur, res), [what |-> "work"])

AdvanceControlCatalog ==
    /\ Serving
    /\ StartControl(m.ctl, [what |-> "catalog"])

CommitControlRecovery ==
    /\ Serving
    /\ \E ids \in SUBSET Drivers \ {m.ctl.recovery} :
          StartControl([m.ctl EXCEPT !.recovery = ids], [what |-> "recovery"])

-----------------------------------------------------------------------------
(* ResolveControlReadback                                                    *)

Readback == Admitted /\ m.ambiguous # NoStage /\ UNCHANGED <<w, lock, acked, storage>>

\* failControl: without bytes to preserve, nothing is written any more.
ControlFailed(status, preserved) ==
    [m EXCEPT !.status = status, !.ambiguous = NoStage,
              !.blocked = @ \/ preserved = NoNamespace,
              !.ctl = IF preserved = NoNamespace THEN @ ELSE preserved]

ReadbackUnreadable ==
    /\ Readback
    /\ m' = ControlFailed("UNREADABLE", NoNamespace)
    /\ UNCHANGED fs

ReadbackCorrupt ==
    /\ Readback /\ fs.shown.file = CorruptFile
    /\ m' = ControlFailed("CORRUPT", NoNamespace)
    /\ UNCHANGED fs

\* Agreement opens admission again only with a durable directory.
ReadbackStaged ==
    /\ Readback /\ Parsed(fs.shown.file) /\ fs.shown.file.ctl = m.ambiguous
    /\ fs' = DirSynced(fs)
    /\ m' = [m EXCEPT !.ctl = m.ambiguous, !.status = "LOADED", !.ambiguous = NoStage]

ReadbackCommitted ==
    /\ Readback /\ Parsed(fs.shown.file) /\ fs.shown.file.ctl = m.ctl
    /\ fs' = DirSynced(fs)
    /\ m' = [m EXCEPT !.ambiguous = NoStage]

ReadbackDisagrees ==
    /\ Readback /\ Parsed(fs.shown.file)
    /\ fs.shown.file.ctl \notin {m.ctl, m.ambiguous}
    /\ m' = ControlFailed("CORRUPT", fs.shown.file.ctl)
    /\ UNCHANGED fs

-----------------------------------------------------------------------------
(* Stop, and the end of a process                                            *)

Stop ==
    /\ m.up /\ ~m.stopped
    /\ m' = [m EXCEPT !.stopped = TRUE]
    /\ UNCHANGED <<w, fs, lock, acked, storage>>

\* With a live context Stop flushes what is dirty.
StopFlush == m.stopped /\ ~m.blocked /\ StartFlush("stop")

\* closeWritesAndReleaseStoreLock, with the writer slot held; a cancelled
\* context skips the flush and never the wait for the slot.
CloseWrites ==
    /\ m.up /\ m.stopped /\ w.pc \in {"idle", "closing"}
    /\ m' = [m EXCEPT !.blocked = TRUE]
    /\ lock' = IF lock = "manager" THEN "free" ELSE lock
    /\ w' = Idle
    /\ UNCHANGED <<fs, acked, storage>>

\* The process ends or is killed; the system's view of the file stays.
Exit ==
    /\ m.up
    /\ m' = Down(m.boots, m.changes)
    /\ w' = Idle
    /\ lock' = IF lock = "manager" THEN "free" ELSE lock
    /\ UNCHANGED <<fs, acked, storage>>

\* Power fails: what was not synced may be lost.
PowerLoss ==
    /\ m' = Down(m.boots, m.changes)
    /\ w' = Idle
    /\ \E e \in fs.kept : fs' = Durable(e)
    /\ lock' = "free"
    /\ UNCHANGED <<acked, storage>>

-----------------------------------------------------------------------------
(* External: the storage behind a failed directory sync                      *)

RenameUndone ==
    /\ m.ambiguous # NoStage
    /\ storage = "sound" /\ storage' = "undone"
    /\ \E e \in fs.kept : e # fs.shown /\ fs' = [fs EXCEPT !.shown = e]
    /\ UNCHANGED <<m, w, lock, acked>>

Damage ==
    /\ m.ambiguous # NoStage /\ storage = "sound" /\ storage' = "spoiled"
    /\ \E f \in {CorruptFile, File(EmptyContent, BadNamespace), File(EmptyContent, NoNamespace)} :
          fs' = Durable(Entry(f, fs.shown.copies))
    /\ UNCHANGED <<m, w, lock, acked>>

-----------------------------------------------------------------------------
(* The offline reset (reset_runtime_control.py), a process of its own that   *)
(* shares the lock.                                                          *)

\* What plan_reset reads the mark and the recovery material from.  It checks
\* all of a namespace but the drivers: one that the loader rejects for its
\* drivers alone is repaired, with a mark the model does not know.
ReadableNamespaces(ctl) ==
    IF Decoded(ctl) THEN {ctl}
    ELSE IF ctl = BadNamespace
    THEN {Namespace(mark, [d \in Drivers |-> BadRecord], recovery) :
             mark \in BrokenCounters, recovery \in SUBSET Drivers}
    ELSE {}

\* A sequence is carried over; a broken record may still hold one.
CarriedSequences(ctl) ==
    {seq \in [Drivers -> 0 .. MaxCounter] :
        \A d \in Drivers :
          CASE ctl.rec[d] = NoRecord -> seq[d] = 0
            [] ctl.rec[d] = BadRecord -> seq[d] \in BrokenCounters \cup {0}
            [] OTHER -> seq[d] = ctl.rec[d].seq}

Resettable(ctl, ids) ==
    /\ ids # {} /\ Cardinality(ids) <= MaxRecords
    /\ ctl.mark + Cardinality(ids) <= MaxCounter

Place(ids, d) == Cardinality({e \in ids : e <= d})

\* Mutant: the revisions start over.
RestartedNamespace(ctl, ids, seq) ==
    Namespace(Cardinality(ids),
              [d \in Drivers |->
                 IF d \in ids THEN [NewRecord EXCEPT !.rev = Place(ids, d), !.seq = seq[d]]
                 ELSE NoRecord],
              ctl.recovery)

\* One STOPPED record for each driver named, past every revision issued.
ResetNamespace(ctl, ids, seq) ==
    Namespace(ctl.mark + Cardinality(ids),
              [d \in Drivers |->
                 IF d \in ids
                 THEN [NewRecord EXCEPT !.rev = ctl.mark + Place(ids, d), !.seq = seq[d]]
                 ELSE NoRecord],
              ctl.recovery)

\* For each driver, the revision it showed gives way to that of the reset.
ResetDecisions(old, new, ids) ==
    {[driver |-> d, expected |-> Revision(old, d), rev |-> new.rec[d].rev,
      desired |-> "STOPPED"] : d \in ids}

ToolLocks == lock = "free" /\ lock' = "tool" /\ UNCHANGED <<m, w, fs, acked, storage>>

\* A preview, a refusal, or the tool is killed.
ToolUnlocks == lock = "tool" /\ lock' = "free" /\ UNCHANGED <<m, w, fs, acked, storage>>

\* A copy of a file with an instance GUID is made durable, the namespace is
\* replaced, the directory synced and the file read back; the lock keeps
\* everybody else from the files, so one step stands for as far as it gets.
\* Only a reset that gets to the end is reported done.
ToolResets ==
    /\ lock = "tool" /\ lock' = "free"
    /\ m.changes < MaxChanges /\ m' = [m EXCEPT !.changes = @ + 1]
    /\ Parsed(fs.shown.file) /\ fs.shown.file.content.guid
    /\ \E ctl \in ReadableNamespaces(fs.shown.file.ctl), ids \in SUBSET Drivers :
          /\ Resettable(ctl, ids)
          /\ \E seq \in CarriedSequences(ctl) :
                LET new == ResetNamespace(ctl, ids, seq)
                    copied == Entry(fs.shown.file, TRUE)
                    replaced == Entry([fs.shown.file EXCEPT !.ctl = new], TRUE)
                IN  \/ /\ Cardinality(fs.kept) <= MaxUnsynced
                       /\ fs' = Renamed(fs, copied) /\ acked' = acked
                    \/ fs' = Durable(copied) /\ acked' = acked
                    \/ fs' = Renamed(Durable(copied), replaced) /\ acked' = acked
                    \/ fs' = Durable(replaced) /\ acked' = acked
                    \/ fs' = Durable(replaced) /\ acked' = acked \cup ResetDecisions(ctl, new, ids)
    /\ UNCHANGED <<w, storage>>

-----------------------------------------------------------------------------
Load == LoadAbsent \/ LoadUnreadable \/ LoadCorrupt \/ LoadParsed \/ LoadLocked

Generic ==
    \/ SetGUID \/ UpdateSelf
    \/ \E a \in Addrs : \/ UpsertKnownBusMember(a)
                         \/ RefreshKnownBusMemberPresence(a)
                         \/ EvictKnownBusMember(a)

Requests ==
    \/ \E cfg \in Configs :
          SeedControl(cfg) \/ RegisterControl(cfg) \/ RegisterOnly(cfg) \/ RegisterRefused(cfg)
    \/ \E d \in Drivers :
          CommitControlWork(d) \/ \E method \in Methods : DecideControl(d, method)
    \/ AdvanceControlCatalog \/ CommitControlRecovery
    \/ Flush

WriterStep ==
    \/ WriteFails \/ Rename \/ DirFsync \/ DirFsyncFails
    \/ FlushCommitted \/ ControlCommitted \/ ControlAmbiguous

Resolve ==
    \/ ReadbackUnreadable \/ ReadbackCorrupt \/ ReadbackStaged
    \/ ReadbackCommitted \/ ReadbackDisagrees

Shutdown == Stop \/ StopFlush \/ CloseWrites \/ Exit

Reset == ToolLocks \/ ToolResets \/ ToolUnlocks

Environment == PowerLoss \/ RenameUndone \/ Damage

Next ==
    Load \/ Generic \/ Requests \/ WriterStep \/ Resolve \/ Shutdown \/ Reset \/ Environment

Spec == Init /\ [][Next]_vars

\* Goroutines run, filesystem calls return, and the writer slot is a channel:
\* Go serves those who wait for it in order, so Stop gets it although others
\* come back for it.
Fairness == WF_vars(WriterStep) /\ SF_vars(CloseWrites)
FairSpec == Spec /\ Fairness

-----------------------------------------------------------------------------
(* Properties                                                                *)

\* Types; and validateRecordSlots holds of every record the store commits.
TypeOK ==
    /\ m.ctl \in Namespaces \cup {NoNamespace, BadNamespace}
    /\ m.ambiguous \in Namespaces \cup {NoStage}
    /\ m.status \in {"MISSING", "LOADED", "MISSING_WITH_MATERIAL", "CORRUPT",
                    "UNREADABLE", "LOCKED"}
    /\ m.configs \in [Drivers -> Dispositions]
    /\ lock \in {"free", "manager", "tool"}
    /\ fs.shown \in fs.kept
    /\ Decoded(m.ctl) => \A d \in Drivers : Recorded(m.ctl, d) =>
          LET r == m.ctl.rec[d]
          IN  /\ r.rev <= m.ctl.mark
              /\ r.res # NoWork => r.cur # NoWork /\ r.cur.seq < r.res.seq
              /\ \A t \in {r.cur, r.res} \ {NoWork} : t.rev <= r.rev /\ t.seq <= r.seq

\* A decision that was answered with success survives every crash and every
\* reset: whatever a power loss leaves of the file, now or in the middle of any
\* later write, holds that decision or a later one of the driver, and a mark
\* past it (commitControl, and the reset tool for its STOPPED records, answer
\* only behind the directory sync; a reset goes on from the mark).
AckedSurvives ==
    storage # "spoiled" =>
      \A a \in acked, e \in fs.kept :
        /\ Parsed(e.file) /\ Decoded(e.file.ctl)
        /\ e.file.ctl.mark >= a.rev
        /\ Recorded(e.file.ctl, a.driver) =>
              LET r == e.file.ctl.rec[a.driver]
              IN  \/ r.rev > a.rev
                  \/ r.rev = a.rev /\ r.desired = a.desired

\* Across crashes, restarts, writes of unknown outcome and offline resets, no
\* revision is answered for two decisions and no revision that a client read
\* authorises two: a request held over a reset is refused behind it (the
\* issued-revision mark, the comparison in DecideControl, and plan_reset, which
\* issues its revisions past the mark).
OneDecisionPerRevision ==
    storage # "spoiled" =>
      \A a, b \in acked :
        \/ a.rev = b.rev
        \/ a.driver = b.driver /\ a.expected = b.expected
        => a = b

\* A clean state is the one on disk: a change made while a write was under way
\* is never taken for written (writeGen).
CleanIsPersisted ==
    /\ TypeOK
    /\ m.up /\ lock = "manager" /\ ~m.dirty /\ storage = "sound"
      => Parsed(fs.shown.file) /\ fs.shown.file.content = m.content

\* Whoever is writing holds the store lock, also while Stop gives up waiting, so
\* no rename lands after another process could take the lock; and the manager
\* never writes over control bytes it does not hold itself: not over a corrupt
\* file, a namespace it could not decode, or what turned up behind a failed
\* directory sync (persistBlocked, ErrControlReadbackPending).
OverwritesOnlyKnown ==
    /\ w.pc \in {"rename", "dir"} => lock = "manager"
    /\ w.pc = "rename" =>
          IF Parsed(fs.shown.file) THEN fs.shown.file.ctl = m.ctl
          ELSE fs.shown.file = AbsentFile /\ m.ctl = NoNamespace

\* Accepted work is finished or kept: a record with a transition in flight
\* stays, a reserved transition stays until it is current, and a transition
\* that stays does not go backwards (CommitControlWork, BootstrapControl).
WorkIsKept ==
    [][\A d \in Drivers :
        /\ m.up /\ m'.up /\ Decoded(m.ctl) /\ Decoded(m'.ctl) /\ Recorded(m.ctl, d)
        /\ storage = "sound"
        => LET r == m.ctl.rec[d]
               next == m'.ctl.rec[d]
           IN  /\ r.cur # NoWork => Recorded(m'.ctl, d)
               /\ r.res # NoWork => SameIdentity(next.res, r.res) \/ SameIdentity(next.cur, r.res)
               /\ Recorded(m'.ctl, d) /\ SameIdentity(next.cur, r.cur)
                    => next.cur.phase >= r.cur.phase]_vars

\* A Stop always ends with the store lock released, whatever the writer in
\* front of it does.
StopReleases == m.stopped ~> lock # "manager"
=============================================================================
